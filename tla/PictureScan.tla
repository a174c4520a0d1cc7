----------------------------- MODULE PictureScan -----------------------------
(***************************************************************************)
(* The automatic and the manual picture scan of the client library         *)
(* (disk_scan_client/disk_scan.cpp): what they find on the disk, what they *)
(* order to be uploaded, and what they record in the two databases, while  *)
(* the disk changes and the process may end between any two steps.         *)
(*                                                                         *)
(* A call to a database is one step, all of it or nothing, as ClientThreads *)
(* shows; of its mutexes the one is kept that a manual scan holds to its   *)
(* end.  Both scans run in one process and share its current directory.    *)
(* There is one thread of each kind: two scans of a kind at once, which    *)
(* the check of the start flag lets pass (72), are left to ClientThreads.  *)
(*                                                                         *)
(* Data: a file is its directory and its name; a version is the four words *)
(* that the code compares, the two of its date and the two of its size.    *)
(* A name with an apostrophe has one of them.                              *)
(***************************************************************************)
EXTENDS Integers, FiniteSets

CONSTANTS
  Dirs, Names,
  Suffix,       \* the suffix of each name, NO_SUFFIX of a name without a dot
  Quoted,       \* the directories and names with an apostrophe
  Versions,     \* records of the words mh, ml, sh, sl
  Disks,        \* what may be on the disk at the start
  Edited,       \* bound: the files that may come, change and go
  ClosedSets,   \* the sets of directories that cannot be entered
  DELETE_INTERVAL,
  MaxTime, MaxEdits, MaxFaults, MaxScans,   \* bounds
  Absent, NoRow, Home

Rule == INSTANCE PictureRule

Scans == {"auto", "manual"}
Keys == Dirs \X Names

\* A row of scan_file.dat, with the version it was made of, and a file that a
\* scan has listed.
Rows  == [state : 0..MaxTime, mh : Nat, ml : Nat, sh : Nat, sl : Nat, cid : BOOLEAN, of : Versions]
Items == [key : Keys, ver : Versions, cid : BOOLEAN]

ASSUME ScanAssumption ==
  /\ Versions \subseteq [mh : Nat \ {0}, ml : Nat, sh : Nat, sl : Nat]   \* dates after 1601
  /\ Disks \subseteq [Keys -> Versions \cup {Absent}] /\ Edited \subseteq Keys
  /\ ClosedSets \subseteq SUBSET Dirs
  /\ DELETE_INTERVAL \in Nat /\ MaxTime \in Nat \ {0}
  /\ MaxEdits \in Nat /\ MaxFaults \in Nat /\ MaxScans \in Nat
  /\ Absent \notin Versions /\ NoRow \notin Rows /\ Home \notin Dirs

VARIABLES
  now, disk, closed,     \* the clock; the files; directories that cannot be entered
  monitored, table,      \* scan_path.dat and scan_file.dat
  uploads,               \* history: the files and versions ordered to be uploaded
  pc, cwd,
  todo, here,            \* directories a scan still has to list, and the one it lists
  found,                 \* the files the automatic scan has read and not met
  upd,                   \* the files a scan has listed for upload
  request,               \* the directories of the manual scan
  curTime, paths,        \* when the automatic scan began, and the directories it has read
  disturbed,             \* history: what happened to a scan since it began
  strayed,               \* history: a scan listed another directory than its own
  edits, faults, starts  \* what came from outside, refused calls and ends, scans

disks == <<now, disk, closed, edits>>
store == <<monitored, table>>
history == <<disturbed, strayed>>
vars == <<disks, store, uploads, pc, cwd, todo, here, found, upd, request, curTime, paths, history,
          faults, starts>>

Unread == [k \in Keys |-> NoRow]

Init ==
  /\ now = 1 /\ disk \in Disks /\ closed \in ClosedSets
  /\ monitored \in SUBSET (Dirs \ Quoted) /\ table = Unread /\ uploads = {}
  /\ pc = [s \in Scans |-> "idle"] /\ cwd = Home
  /\ todo = [s \in Scans |-> {}] /\ here = [s \in Scans |-> Home]
  /\ found = Unread /\ upd = [s \in Scans |-> {}] /\ request = {} /\ curTime = 0 /\ paths = {}
  /\ disturbed = [s \in Scans |-> {}] /\ strayed = [s \in Scans |-> FALSE]
  /\ edits = 0 /\ faults = 0 /\ starts = 0

-----------------------------------------------------------------------------
Running(s) == pc[s] # "idle"
Goto(s, l) == pc' = [pc EXCEPT ![s] = l]
Disturb(S, what) == disturbed' = [s \in Scans |-> IF s \in S THEN disturbed[s] \cup {what} ELSE disturbed[s]]

\* A database refuses a call.
Fault(s) == faults < MaxFaults /\ faults' = faults + 1 /\ Disturb({s}, "fault")
NoFault == UNCHANGED <<faults, disturbed>>

Start(s) ==
  /\ ~Running(s) /\ starts < MaxScans
  /\ starts' = starts + 1
  /\ LET met == {u \in Scans \ {s} : Running(u)}
         before == [disturbed EXCEPT ![s] = {}]
     IN disturbed' = [u \in Scans |-> IF met # {} /\ u \in met \cup {s}
                                      THEN before[u] \cup {"scan"} ELSE before[u]]
  /\ strayed' = [strayed EXCEPT ![s] = FALSE]

\* The thread of a scan ends: what it had in its variables is gone.
End(s) ==
  /\ Goto(s, "idle")
  /\ todo' = [todo EXCEPT ![s] = {}] /\ here' = [here EXCEPT ![s] = Home]
  /\ upd' = [upd EXCEPT ![s] = {}]
  /\ found' = IF s = "auto" THEN Unread ELSE found
  /\ request' = IF s = "manual" THEN {} ELSE request
  /\ IF s = "auto" THEN curTime' = 0 /\ paths' = {} ELSE UNCHANGED <<curTime, paths>>

\* From WriteMonitoringPath to its end a manual scan has m_MPMutex.
PathHeld == pc["manual"] = "record"

\* The row sprintf makes of a record: state has 64 bits, "%d" takes 32, and
\* each later word lands one column further on.
Columns(r) ==
  [state |-> r.state, mh |-> 0, ml |-> r.mh, sh |-> r.ml, sl |-> r.sh, cid |-> r.cid, of |-> r.of]

Record(i) ==
  [state |-> 0, mh |-> i.ver.mh, ml |-> i.ver.ml, sh |-> i.ver.sh, sl |-> i.ver.sl,
   cid |-> i.cid, of |-> i.ver]

\* The records of the files a scan lists, and of the rows with a new state.
Records(S) == [k \in {i.key : i \in S} |-> Record(CHOOSE i \in S : i.key = k)]

\* The statement for a name with an apostrophe is a syntax error.
Refused(k) == k[1] \in Quoted \/ k[2] \in Quoted

\* WriteMonitoringFiles: m_SqlExec is not set in the records it inserts, and
\* may by chance say that they are to be deleted.  The result of a statement is
\* not looked at, so a refused one leaves the others as they are.
WriteFiles(s, puts, dels) ==
  \/ \E chance \in SUBSET DOMAIN puts :
       /\ table' = [k \in Keys |->
                      IF Refused(k) \/ k \notin DOMAIN puts \cup dels THEN table[k]
                      ELSE IF k \in dels \cup chance THEN NoRow ELSE Columns(puts[k])]
       /\ IF chance = {} THEN NoFault ELSE Fault(s)
  \/ UNCHANGED table /\ Fault(s)

\* The picture files FilterTargetFile lets through: those of the current
\* directory, under the name of the directory the scan means.
Listed(s) ==
  {[key |-> <<here[s], n>>, ver |-> disk[<<cwd, n>>], cid |-> s = "manual"] :
     n \in {n \in Names : disk[<<cwd, n>>] # Absent /\ Rule!IsTarget(Suffix[n])}}

\* substr throws for a name without a dot, and nobody catches it.
Throws == \E n \in Names : disk[<<cwd, n>>] # Absent /\ Suffix[n] = Rule!NO_SUFFIX

-----------------------------------------------------------------------------
\* Both scans.

Ended ==
  /\ pc' = [s \in Scans |-> "idle"] /\ cwd' = Home
  /\ todo' = [s \in Scans |-> {}] /\ here' = [s \in Scans |-> Home]
  /\ found' = Unread /\ upd' = [s \in Scans |-> {}] /\ request' = {} /\ curTime' = 0
  /\ paths' = {}
  /\ UNCHANGED <<disks, store, uploads, history, starts>>

ProcessEnds == faults < MaxFaults /\ faults' = faults + 1 /\ Ended

\* Mutant of Enter: a directory that cannot be entered is listed all the same.
Enter_Anyway(s) ==
  /\ pc[s] = "enter"
  /\ \E d \in todo[s] :
       /\ todo' = [todo EXCEPT ![s] = @ \ {d}]
       /\ here' = [here EXCEPT ![s] = d]
       /\ cwd' = IF d \in closed THEN cwd ELSE d
       /\ IF cwd' \in Dirs THEN Goto(s, "list") ELSE UNCHANGED pc
  /\ UNCHANGED <<disks, store, uploads, found, upd, request, curTime, paths, history, faults, starts>>

\* The next directory; one that cannot be entered is passed over.
Enter(s) ==
  /\ pc[s] = "enter"
  /\ \E d \in todo[s] :
       /\ todo' = [todo EXCEPT ![s] = @ \ {d}]
       /\ here' = [here EXCEPT ![s] = d]
       /\ IF d \in closed THEN UNCHANGED <<pc, cwd>> ELSE Goto(s, "list") /\ cwd' = d
  /\ UNCHANGED <<disks, store, uploads, found, upd, request, curTime, paths, history, faults, starts>>

Stray(s) == strayed' = [strayed EXCEPT ![s] = @ \/ cwd # here[s]]

\* CreateDownloadTask, external, says it always succeeds.
CreateDownloadTask(s) == uploads' = uploads \cup {<<i.key, i.ver>> : i \in upd[s]}

-----------------------------------------------------------------------------
\* PictureAutoScanExecute.

AutoStart ==
  /\ ~Running("manual") /\ Start("auto") /\ Goto("auto", "paths")
  /\ curTime' = now
  /\ UNCHANGED <<disks, store, uploads, cwd, todo, here, found, upd, request, paths, faults>>

AutoReadPath ==
  /\ pc["auto"] = "paths" /\ ~PathHeld
  /\ Goto("auto", "files")
  /\ \/ paths' = monitored /\ NoFault
     \/ paths' = {} /\ Fault("auto")
  /\ todo' = [todo EXCEPT !["auto"] = paths']
  /\ UNCHANGED <<disks, store, uploads, cwd, here, found, upd, request, curTime, strayed, starts>>

AutoReadFiles ==
  /\ pc["auto"] = "files" /\ ~PathHeld
  /\ Goto("auto", "enter")
  /\ \/ found' = table /\ NoFault
     \/ found' = Unread /\ Fault("auto")
  /\ UNCHANGED <<disks, store, uploads, cwd, todo, here, upd, request, curTime, paths, strayed, starts>>

SameWords(r, v) == r.mh = v.mh /\ r.ml = v.ml /\ r.sh = v.sh /\ r.sl = v.sl

\* The CID of a file is computed only when its words are those recorded; a
\* file that was recorded without its CID is another one.
SameFile(r, i) == SameWords(r, i.ver) /\ r.cid

\* A new file, another file, or the same that was marked as deleted.
Needed(i) ==
  LET r == found[i.key] IN r = NoRow \/ ~SameFile(r, i) \/ r.state > 0

WithCID(i) == [i EXCEPT !.cid = found[i.key] # NoRow /\ SameWords(found[i.key], i.ver)]

\* Mutant of AutoList: the files met are not taken out of those read.
AutoList_NoErase ==
  /\ pc["auto"] = "list" /\ ~Throws
  /\ LET need == {WithCID(i) : i \in {i \in Listed("auto") : Needed(i)}}
     IN /\ upd' = [upd EXCEPT !["auto"] = need]
        /\ Goto("auto", IF need = {} THEN "enter" ELSE "upload")
  /\ Stray("auto")
  /\ UNCHANGED <<disks, store, uploads, cwd, todo, here, found, request, curTime, paths, disturbed, faults, starts>>

AutoList ==
  /\ pc["auto"] = "list" /\ ~Throws
  /\ LET need == {WithCID(i) : i \in {i \in Listed("auto") : Needed(i)}}
     IN /\ upd' = [upd EXCEPT !["auto"] = need]
        /\ Goto("auto", IF need = {} THEN "enter" ELSE "upload")
  /\ found' = [k \in Keys |-> IF \E i \in Listed("auto") : i.key = k THEN NoRow ELSE found[k]]
  /\ Stray("auto")
  /\ UNCHANGED <<disks, store, uploads, cwd, todo, here, request, curTime, paths, disturbed, faults, starts>>

\* Mutant of AutoUpload: the files are recorded before they are uploaded.
AutoUpload_RecordsFirst ==
  /\ pc["auto"] = "upload"
  /\ \/ /\ table[(CHOOSE i \in upd["auto"] : TRUE).key] = NoRow
        /\ WriteFiles("auto", Records(upd["auto"]), {})
        /\ UNCHANGED <<uploads, pc>>
     \/ CreateDownloadTask("auto") /\ Goto("auto", "write") /\ UNCHANGED table /\ NoFault
  /\ UNCHANGED <<disks, monitored, cwd, todo, here, found, upd, request, curTime, paths, strayed, starts>>

AutoUpload ==
  /\ pc["auto"] = "upload"
  /\ CreateDownloadTask("auto")
  /\ Goto("auto", "write")
  /\ UNCHANGED <<disks, store, cwd, todo, here, found, upd, request, curTime, paths, history, faults, starts>>

AutoWrite ==
  /\ pc["auto"] = "write"
  /\ WriteFiles("auto", Records(upd["auto"]), {})
  /\ Goto("auto", "enter") /\ upd' = [upd EXCEPT !["auto"] = {}]
  /\ UNCHANGED <<disks, monitored, uploads, cwd, todo, here, found, request, curTime, paths, strayed, starts>>

\* Mutant of Expired: a marked row is deleted when the interval is just over.
Expired_AtOnce(r) == r # NoRow /\ r.state > 0 /\ curTime - r.state >= DELETE_INTERVAL

\* The rows whose file was not met: those marked long ago are deleted, those
\* not marked are marked with the time at which the scan began.
Expired(r) == r # NoRow /\ r.state > 0 /\ curTime - r.state > DELETE_INTERVAL
Unmarked(r) == r # NoRow /\ r.state <= 0

AutoRemaining ==
  /\ pc["auto"] = "enter" /\ todo["auto"] = {}
  /\ LET marks == [k \in {k \in Keys : Unmarked(found[k])} |-> [found[k] EXCEPT !.state = curTime]]
         dels  == {k \in Keys : Expired(found[k])}
     IN IF DOMAIN marks \cup dels = {} THEN UNCHANGED table /\ NoFault
                                       ELSE WriteFiles("auto", marks, dels)
  /\ End("auto")
  /\ UNCHANGED <<disks, monitored, uploads, cwd, strayed, starts>>

-----------------------------------------------------------------------------
\* PictureManualScanExecute.

ManualStart ==
  /\ Start("manual") /\ Goto("manual", "paths")
  /\ \E R \in SUBSET Dirs \ {{}} : request' = R
  /\ UNCHANGED <<disks, store, uploads, cwd, todo, here, found, upd, curTime, paths, faults>>

\* The directories that are monitored already are left out.
ManualReadPath ==
  /\ pc["manual"] = "paths"
  /\ Goto("manual", "enter")
  /\ \/ request' = request \ monitored /\ NoFault
     \/ request' = request /\ Fault("manual")
  /\ todo' = [todo EXCEPT !["manual"] = request']
  /\ UNCHANGED <<disks, store, uploads, cwd, here, found, upd, curTime, paths, strayed, starts>>

ManualList ==
  /\ pc["manual"] = "list" /\ ~Throws
  /\ upd' = [upd EXCEPT !["manual"] = @ \cup Listed("manual")]
  /\ Goto("manual", "enter")
  /\ Stray("manual")
  /\ UNCHANGED <<disks, store, uploads, cwd, todo, here, found, request, curTime, paths, disturbed, faults, starts>>

\* Without a picture the scan has failed, and ends.
ManualUpload ==
  /\ pc["manual"] = "enter" /\ todo["manual"] = {}
  /\ CreateDownloadTask("manual")
  /\ IF upd["manual"] = {}
       THEN End("manual")
       ELSE Goto("manual", "path") /\ UNCHANGED <<todo, here, found, upd, request, curTime, paths>>
  /\ UNCHANGED <<disks, store, cwd, history, faults, starts>>

\* The result of WriteMonitoringPath is not looked at.
ManualWritePath ==
  /\ pc["manual"] = "path"
  /\ Goto("manual", "record")
  /\ \/ monitored' = monitored \cup (request \ Quoted) /\ NoFault
     \/ UNCHANGED monitored /\ Fault("manual")
  /\ UNCHANGED <<disks, table, uploads, cwd, todo, here, found, upd, request, curTime, paths, strayed, starts>>

ManualWriteFiles ==
  /\ pc["manual"] = "record"
  /\ WriteFiles("manual", Records(upd["manual"]), {})
  /\ End("manual")
  /\ UNCHANGED <<disks, monitored, uploads, cwd, strayed, starts>>

-----------------------------------------------------------------------------
\* AddMonitoringDirectoryExecute, on behalf of the program, whatever the scans do;
\* directories that are there already are refused, which changes nothing.
AddMonitoringDirectory ==
  /\ edits < MaxEdits /\ edits' = edits + 1
  /\ ~PathHeld
  /\ \E R \in SUBSET Dirs \ {{}} : monitored' = monitored \cup (R \ Quoted)
  /\ monitored' # monitored
  /\ UNCHANGED <<now, disk, closed, table, uploads, pc, cwd, todo, here, found, upd, request,
                 curTime, paths, history, faults, starts>>

\* substr throws, and ends the process.
ScanThrows == (\E s \in Scans : pc[s] = "list") /\ Throws /\ Ended /\ UNCHANGED faults

\* Files come, change and go.
Edit ==
  /\ edits < MaxEdits /\ edits' = edits + 1
  /\ \E k \in Edited, v \in Versions \cup {Absent} : disk[k] # v /\ disk' = [disk EXCEPT ![k] = v]
  /\ Disturb(Scans, "disk")
  /\ UNCHANGED <<now, closed, store, uploads, pc, cwd, todo, here, found, upd, request, curTime, paths,
                 strayed, faults, starts>>

Tick ==
  /\ now < MaxTime /\ now' = now + 1
  /\ UNCHANGED <<disk, closed, edits, store, uploads, pc, cwd, todo, here, found, upd, request,
                 curTime, paths, history, faults, starts>>

Next ==
  \/ AutoStart \/ AutoReadPath \/ AutoReadFiles \/ AutoList \/ AutoUpload \/ AutoWrite \/ AutoRemaining
  \/ ManualStart \/ ManualReadPath \/ ManualList \/ ManualUpload \/ ManualWritePath \/ ManualWriteFiles
  \/ (\E s \in Scans : Enter(s)) \/ AddMonitoringDirectory
  \/ ScanThrows \/ ProcessEnds \/ Edit \/ Tick

Spec == Init /\ [][Next]_vars

-----------------------------------------------------------------------------
TypeOK ==
  /\ now \in 1..MaxTime /\ disk \in [Keys -> Versions \cup {Absent}] /\ closed \subseteq Dirs
  /\ monitored \subseteq Dirs /\ table \in [Keys -> Rows \cup {NoRow}]
  /\ uploads \subseteq Keys \X Versions
  /\ pc \in [Scans -> {"idle", "paths", "files", "enter", "list", "upload", "write", "path", "record"}]
  /\ pc["auto"] \notin {"path", "record"} /\ pc["manual"] \notin {"files", "upload", "write"}
  /\ cwd \in Dirs \cup {Home}
  /\ todo \in [Scans -> SUBSET Dirs] /\ here \in [Scans -> Dirs \cup {Home}]
  /\ found \in [Keys -> Rows \cup {NoRow}]
  /\ upd \in [Scans -> SUBSET Items]
  /\ request \subseteq Dirs /\ curTime \in 0..MaxTime /\ paths \subseteq Dirs
  /\ disturbed \in [Scans -> SUBSET {"scan", "disk", "fault"}] /\ strayed \in [Scans -> BOOLEAN]
  /\ edits \in 0..MaxEdits /\ faults \in 0..MaxFaults /\ starts \in 0..MaxScans

\* A row with state 0 says "uploaded" (disk_scan.h:53): the version it records
\* was ordered to be uploaded before, whenever the process may have ended.
RecordBacked ==
  \A k \in Keys : table[k] # NoRow /\ table[k].state = 0 => <<k, table[k].of>> \in uploads

\* A scan lists another directory under the name of its own only if a second
\* scan ran beside it and moved the current directory (272, 368).
StrayNeedsTwo == \A s \in Scans : strayed[s] => "scan" \in disturbed[s]

\* The pictures that are on the disk in the directories an automatic scan has read.
Present(k) ==
  /\ k[1] \in paths \ closed
  /\ disk[k] # Absent /\ Rule!IsTarget(Suffix[k[2]])

\* The row of a file says that the version on the disk was uploaded.
Good(k) == table[k] # NoRow /\ table[k].state = 0 /\ table[k].of = disk[k]

\* An automatic scan that nothing disturbed leaves the record as the disk is in
\* the directories that were monitored when it read them, whatever the scans
\* before it did: races, lost writes and ends of the process are made good by
\* the next scan that is left alone (258-339).  Only a picture with an
\* apostrophe in its name is never recorded (573).
ScanSettles ==
  [][AutoRemaining /\ disturbed'["auto"] = {} =>
       \A k \in Keys :
         IF Present(k) /\ ~Refused(k) THEN Good(k)'
                                      ELSE table'[k] # NoRow => table'[k].state > 0]_vars

\* A row is deleted by a scan that nothing disturbed only when it has been
\* marked as deleted for longer than DELETE_INTERVAL (321-327).
DeletesOld ==
  [][\A k \in Keys :
       AutoRemaining /\ disturbed'["auto"] = {} /\ table[k] # NoRow /\ table'[k] = NoRow
         => table[k].state > 0 /\ now - table[k].state > DELETE_INTERVAL]_vars

\* What keeps it so.  Where a scan is: the current directory is its own unless
\* another scan runs, and then both know.
PlaceInv ==
  /\ \A s \in Scans : pc[s] = "list" =>
       cwd \in Dirs /\ here[s] \in Dirs /\ (cwd = here[s] \/ "scan" \in disturbed[s])
  /\ pc["auto"] # "idle" /\ pc["manual"] # "idle" => \A s \in Scans : "scan" \in disturbed[s]
  /\ pc["auto"] # "idle" => curTime \in 1..now
  /\ pc["auto"] \notin {"upload", "write"} => upd["auto"] = {}

\* What was ordered: a row that says so, and what a scan is about to record.
\* No row has the words of its version, since every column is one off.
OrderInv ==
  /\ \A k \in Keys : table[k] # NoRow =>
       table[k].mh = 0 /\ (table[k].state = 0 => <<k, table[k].of>> \in uploads)
  /\ pc["auto"] = "write" => \A i \in upd["auto"] : <<i.key, i.ver>> \in uploads
  /\ pc["manual"] \in {"path", "record"} => \A i \in upd["manual"] : <<i.key, i.ver>> \in uploads

\* What an automatic scan that nothing disturbed has still to list, and what it
\* has listed and not yet recorded.
Unlisted(k) == k[1] \in todo["auto"] \/ (pc["auto"] = "list" /\ k[1] = here["auto"])
Unrecorded(k) == \E i \in upd["auto"] : i.key = k

\* Such a scan knows the rows of all the other files as they are.
CalmInv ==
  disturbed["auto"] = {} =>
    /\ pc["auto"] = "files" => todo["auto"] = paths
    /\ pc["auto"] = "list" => here["auto"] \in (paths \ closed) \ todo["auto"]
    /\ \A i \in upd["auto"] : Present(i.key) /\ ~Unlisted(i.key) /\ i.ver = disk[i.key]
    /\ pc["auto"] \in {"enter", "list", "upload", "write"} =>
         /\ todo["auto"] \subseteq paths
         /\ \A k \in Keys :
              IF Present(k) /\ ~Unlisted(k)
                THEN found[k] = NoRow /\ (Good(k) \/ Unrecorded(k) \/ Refused(k))
                ELSE found[k] = table[k]

\* No row an automatic scan has read has the words of its version either.
FoundInv == \A k \in Keys : found[k] # NoRow => found[k].mh = 0

\* Neither database has a name with an apostrophe, whoever wrote it.
QuotedInv == monitored \cap Quoted = {} /\ \A k \in Keys : Refused(k) => table[k] = NoRow

ScanInv == TypeOK /\ PlaceInv /\ OrderInv /\ FoundInv /\ QuotedInv /\ CalmInv

\* A file that is the one recorded as uploaded, and is not marked as deleted,
\* is not uploaded again (comments 290, 297 and 302).
SameFileKept ==
  [][AutoList => \A i \in upd'["auto"] :
       ~(found[i.key] # NoRow /\ found[i.key].state <= 0 /\ found[i.key].of = i.ver)]_vars

\* What is so instead: every picture that an automatic scan lists is uploaded
\* again, whatever is recorded of it.
ListedAgain ==
  [][AutoList => {i.key : i \in upd'["auto"]} = {i.key : i \in Listed("auto")}]_vars
=============================================================================
