------------------------- MODULE PictureScanProofs -------------------------
(***************************************************************************)
(* What the picture scans order and record, for any directories and files, *)
(* any number of changes, faults and scans.                                *)
(***************************************************************************)
EXTENDS PictureScan, TLAPS

USE ScanAssumption

-----------------------------------------------------------------------------
\* The records and rows a scan makes of the files it has listed.

LEMMA RowTypes ==
  /\ \A i \in Items : Record(i) \in Rows /\ Record(i).state = 0 /\ Record(i).of = i.ver
  /\ \A r \in Rows : Columns(r) \in Rows /\ Columns(r).mh = 0 /\ Columns(r).state = r.state
                     /\ Columns(r).of = r.of
<1>1. ASSUME NEW i \in Items
      PROVE  Record(i) \in Rows /\ Record(i).state = 0 /\ Record(i).of = i.ver
  <2>1. i.ver \in Versions /\ i.cid \in BOOLEAN
    BY DEF Items
  <2>2. i.ver \in [mh : Nat \ {0}, ml : Nat, sh : Nat, sl : Nat]
    BY <2>1
  <2>3. i.ver.mh \in Nat /\ i.ver.ml \in Nat /\ i.ver.sh \in Nat /\ i.ver.sl \in Nat /\ 0 \in 0 .. MaxTime
    BY <2>2
  <2>4. QED BY <2>1, <2>3 DEF Record, Rows
<1>2. ASSUME NEW r \in Rows
      PROVE  Columns(r) \in Rows /\ Columns(r).mh = 0 /\ Columns(r).state = r.state
             /\ Columns(r).of = r.of
  BY DEF Columns, Rows
<1>3. QED BY <1>1, <1>2

\* A record for each file of a list, made of an entry of it.
LEMMA RecordsOf ==
  ASSUME NEW S \in SUBSET Items, NEW k \in DOMAIN Records(S)
  PROVE  /\ k \in Keys /\ Records(S)[k] \in Rows
         /\ \E i \in S : i.key = k /\ Records(S)[k] = Record(i)
<1>1. k \in {i.key : i \in S} /\ Records(S)[k] = Record(CHOOSE i \in S : i.key = k)
  BY DEF Records
<1>2. PICK i \in S : i.key = k
  BY <1>1
<1>3. (CHOOSE j \in S : j.key = k) \in S /\ (CHOOSE j \in S : j.key = k).key = k
  BY <1>2
<1>4. DEFINE j == CHOOSE x \in S : x.key = k
<1>5. j \in Items /\ j.key \in Keys
  BY <1>3 DEF Items
<1>6. Record(j) \in Rows
  BY <1>5, RowTypes
<1>7. QED BY <1>1, <1>3, <1>5, <1>6

\* A write leaves a row, removes it, or puts one of the new records there; a row
\* under a name with an apostrophe it leaves.
LEMMA Written ==
  ASSUME TypeOK, NEW s \in Scans, NEW puts, NEW dels,
         DOMAIN puts \subseteq Keys, \A k \in DOMAIN puts : puts[k] \in Rows,
         WriteFiles(s, puts, dels)
  PROVE  /\ table' \in [Keys -> Rows \cup {NoRow}]
         /\ \A k \in Keys : \/ table'[k] \in {table[k], NoRow}
                            \/ k \in DOMAIN puts /\ table'[k] = Columns(puts[k])
         /\ \A k \in Keys : Refused(k) => table'[k] = table[k]
<1>1. table \in [Keys -> Rows \cup {NoRow}]
  BY DEF TypeOK
<1>2. CASE UNCHANGED table
  BY <1>1, <1>2
<1>3. ASSUME NEW chance \in SUBSET DOMAIN puts,
             table' = [k \in Keys |->
                         IF Refused(k) \/ k \notin DOMAIN puts \cup dels THEN table[k]
                         ELSE IF k \in dels \cup chance THEN NoRow ELSE Columns(puts[k])]
      PROVE  /\ table' \in [Keys -> Rows \cup {NoRow}]
             /\ \A k \in Keys : \/ table'[k] \in {table[k], NoRow}
                                \/ k \in DOMAIN puts /\ table'[k] = Columns(puts[k])
             /\ \A k \in Keys : Refused(k) => table'[k] = table[k]
  <2>1. ASSUME NEW k \in Keys
        PROVE  /\ table'[k] \in Rows \cup {NoRow}
               /\ \/ table'[k] \in {table[k], NoRow}
                  \/ k \in DOMAIN puts /\ table'[k] = Columns(puts[k])
               /\ Refused(k) => table'[k] = table[k]
    <3>1. CASE Refused(k) \/ k \notin DOMAIN puts \cup dels
      BY <1>1, <1>3, <3>1
    <3>2. CASE ~Refused(k) /\ k \in dels \cup chance
      BY <1>3, <3>2
    <3>3. CASE ~Refused(k) /\ k \in DOMAIN puts /\ k \notin dels \cup chance
      BY <1>3, <3>3, RowTypes
    <3>4. QED BY <3>1, <3>2, <3>3
  <2>2. QED BY <1>3, <2>1
<1>4. QED BY <1>2, <1>3 DEF WriteFiles

\* A write of the automatic scan that nothing disturbs does just what it is
\* asked to, but for the names with an apostrophe.
LEMMA WrittenCalmly ==
  ASSUME TypeOK, NEW puts, NEW dels, WriteFiles("auto", puts, dels), disturbed'["auto"] = {}
  PROVE  /\ disturbed["auto"] = {}
         /\ table' = [k \in Keys |->
                        IF Refused(k) \/ k \notin DOMAIN puts \cup dels THEN table[k]
                        ELSE IF k \in dels THEN NoRow ELSE Columns(puts[k])]
<1>1. "auto" \in Scans
  BY DEF Scans
<1>2. ~Fault("auto")
  BY <1>1 DEF Fault, Disturb
<1>3. PICK chance \in SUBSET DOMAIN puts :
        /\ table' = [k \in Keys |->
                       IF Refused(k) \/ k \notin DOMAIN puts \cup dels THEN table[k]
                       ELSE IF k \in dels \cup chance THEN NoRow ELSE Columns(puts[k])]
        /\ IF chance = {} THEN NoFault ELSE Fault("auto")
  BY <1>2 DEF WriteFiles
<1>4. chance = {} /\ disturbed' = disturbed
  BY <1>2, <1>3 DEF NoFault
<1>5. QED BY <1>3, <1>4

-----------------------------------------------------------------------------
\* Types.

\* What a scan lists are files of the disk.
LEMMA ListedItems ==
  ASSUME TypeOK, NEW s \in Scans, cwd \in Dirs, here[s] \in Dirs
  PROVE  \A i \in Listed(s) :
           /\ i \in Items
           /\ \E n \in Names : i.key = <<here[s], n>> /\ disk[<<cwd, n>>] # Absent
                               /\ i.ver = disk[<<cwd, n>>] /\ Rule!IsTarget(Suffix[n])
<1> SUFFICES ASSUME NEW i \in Listed(s)
             PROVE  /\ i \in Items
                    /\ \E n \in Names : i.key = <<here[s], n>> /\ disk[<<cwd, n>>] # Absent
                                        /\ i.ver = disk[<<cwd, n>>] /\ Rule!IsTarget(Suffix[n])
  OBVIOUS
<1>1. PICK n \in Names : /\ disk[<<cwd, n>>] # Absent /\ Rule!IsTarget(Suffix[n])
                         /\ i = [key |-> <<here[s], n>>, ver |-> disk[<<cwd, n>>], cid |-> s = "manual"]
  BY DEF Listed
<1>2. <<here[s], n>> \in Keys /\ <<cwd, n>> \in Keys
  BY DEF Keys
<1>3. disk[<<cwd, n>>] \in Versions
  BY <1>1, <1>2 DEF TypeOK
<1>4. (s = "manual") \in BOOLEAN
  OBVIOUS
<1>5. i \in Items
  BY <1>1, <1>2, <1>3, <1>4 DEF Items
<1>6. QED BY <1>1, <1>5

\* With its CID or without, a listed file is one.
LEMMA CIDItems ==
  ASSUME NEW i \in Items
  PROVE  WithCID(i) \in Items /\ WithCID(i).key = i.key /\ WithCID(i).ver = i.ver
<1> DEFINE b == found[i.key] # NoRow /\ SameWords(found[i.key], i.ver)
<1>1. b \in BOOLEAN
  OBVIOUS
<1>2. WithCID(i) = [i EXCEPT !.cid = b]
  BY DEF WithCID
<1> HIDE DEF b
<1>3. QED BY <1>1, <1>2 DEF Items

\* Rows marked as deleted are rows.
LEMMA MarkedRows ==
  ASSUME NEW r \in Rows, NEW t \in 1 .. MaxTime
  PROVE  [r EXCEPT !.state = t] \in Rows /\ [r EXCEPT !.state = t].state = t
         /\ [r EXCEPT !.state = t].of = r.of
BY DEF Rows

\* The end of a thread, or of all of them, leaves the types in order.
LEMMA EndTypes ==
  ASSUME TypeOK, NEW s \in Scans, End(s)
  PROVE  /\ pc' = [pc EXCEPT ![s] = "idle"]
         /\ todo' \in [Scans -> SUBSET Dirs] /\ here' \in [Scans -> Dirs \cup {Home}]
         /\ upd' \in [Scans -> SUBSET Items] /\ found' \in [Keys -> Rows \cup {NoRow}]
         /\ request' \subseteq Dirs /\ curTime' \in 0 .. MaxTime /\ paths' \subseteq Dirs
  BY DEF TypeOK, End, Goto, Unread

LEMMA EndedTypes ==
  ASSUME TypeOK, Ended, UNCHANGED faults \/ faults' \in 0 .. MaxFaults
  PROVE  TypeOK'
  BY DEF TypeOK, Ended, disks, store, history, Unread, Scans

\* A start counts, and tells both scans of each other.
LEMMA StartTypes ==
  ASSUME TypeOK, NEW s \in Scans, Start(s)
  PROVE  /\ starts' \in 0 .. MaxScans /\ strayed' = [strayed EXCEPT ![s] = FALSE]
         /\ disturbed' \in [Scans -> SUBSET {"scan", "disk", "fault"}]
         /\ \A u \in Scans \ {s} : Running(u) => "scan" \in disturbed'[s] /\ "scan" \in disturbed'[u]
         /\ \A u \in Scans \ {s} : ~Running(u) => disturbed'[u] = disturbed[u]
         /\ \A u \in Scans \ {s} : "scan" \in disturbed[u] => "scan" \in disturbed'[u]
<1>1. starts' = starts + 1 /\ starts < MaxScans /\ starts \in 0 .. MaxScans
      /\ strayed' = [strayed EXCEPT ![s] = FALSE]
  BY DEF Start, TypeOK
<1> DEFINE met == {u \in Scans \ {s} : Running(u)}
           before == [disturbed EXCEPT ![s] = {}]
<1>2. disturbed' = [u \in Scans |-> IF met # {} /\ u \in met \cup {s}
                                    THEN before[u] \cup {"scan"} ELSE before[u]]
  BY DEF Start
<1>3. before \in [Scans -> SUBSET {"scan", "disk", "fault"}] /\ before[s] = {}
      /\ \A u \in Scans \ {s} : before[u] = disturbed[u]
  BY DEF TypeOK
<1> HIDE DEF before
<1>4. disturbed' \in [Scans -> SUBSET {"scan", "disk", "fault"}]
  BY <1>2, <1>3
<1>5. \A u \in Scans \ {s} : /\ Running(u) => "scan" \in disturbed'[s] /\ "scan" \in disturbed'[u]
                             /\ ~Running(u) => disturbed'[u] = disturbed[u]
                             /\ "scan" \in disturbed[u] => "scan" \in disturbed'[u]
  BY <1>2, <1>3
<1>6. QED BY <1>1, <1>4, <1>5

\* A fault counts, and nobody forgets what has happened to a scan.
LEMMA FaultTypes ==
  ASSUME TypeOK, NEW s \in Scans, NoFault \/ Fault(s)
  PROVE  /\ faults' \in 0 .. MaxFaults
         /\ disturbed' \in [Scans -> SUBSET {"scan", "disk", "fault"}]
         /\ \A u \in Scans : disturbed[u] \subseteq disturbed'[u]
<1>1. CASE NoFault
  BY <1>1 DEF NoFault, TypeOK
<1>2. CASE Fault(s)
  BY <1>2 DEF Fault, Disturb, TypeOK
<1>3. QED BY <1>1, <1>2

\* The scans' names, and what the keys of a function of them stand for.
LEMMA TwoScans == "auto" \in Scans /\ "manual" \in Scans /\ \A s \in Scans : s = "auto" \/ s = "manual"
  BY DEF Scans

\* Every step keeps the types.
LEMMA AutoTypes ==
  ASSUME TypeOK, PlaceInv,
         AutoStart \/ AutoReadPath \/ AutoReadFiles \/ AutoList \/ AutoUpload \/ AutoWrite
           \/ AutoRemaining
  PROVE  TypeOK'
<1> USE TwoScans DEF disks, store, history, Goto
<1>1. CASE AutoStart
  <2>1. Start("auto")
    BY <1>1 DEF AutoStart
  <2>2. strayed' \in [Scans -> BOOLEAN]
    BY <2>1, Zenon DEF Start, TypeOK
  <2>3. QED BY <1>1, <2>1, <2>2, StartTypes DEF TypeOK, AutoStart
<1>2. CASE AutoReadPath
  <2>1. NoFault \/ Fault("auto")
    BY <1>2 DEF AutoReadPath
  <2>2. QED BY <1>2, <2>1, FaultTypes DEF TypeOK, AutoReadPath
<1>3. CASE AutoReadFiles
  <2>1. NoFault \/ Fault("auto")
    BY <1>3 DEF AutoReadFiles
  <2>2. QED BY <1>3, <2>1, FaultTypes DEF TypeOK, AutoReadFiles, Unread
<1>4. CASE AutoList
  <2>1. Listed("auto") \subseteq Items
    BY <1>4, ListedItems DEF AutoList, PlaceInv
  <2>2. {WithCID(i) : i \in {i \in Listed("auto") : Needed(i)}} \subseteq Items
    BY <2>1, CIDItems
  <2>3. upd' \in [Scans -> SUBSET Items]
    BY <1>4, <2>2 DEF AutoList, TypeOK
  <2>4. found' \in [Keys -> Rows \cup {NoRow}]
    BY <1>4 DEF AutoList, TypeOK
  <2>5. strayed' \in [Scans -> BOOLEAN]
    BY <1>4, Zenon DEF AutoList, TypeOK, Stray
  <2>6. QED BY <1>4, <2>3, <2>4, <2>5 DEF TypeOK, AutoList
<1>5. CASE AutoUpload
  <2>1. uploads' \subseteq Keys \X Versions
    BY <1>5 DEF AutoUpload, CreateDownloadTask, TypeOK, Items
  <2>2. QED BY <1>5, <2>1 DEF TypeOK, AutoUpload
<1>6. CASE AutoWrite
  <2> DEFINE puts == Records(upd["auto"])
  <2>1. DOMAIN puts \subseteq Keys /\ \A k \in DOMAIN puts : puts[k] \in Rows
    BY RecordsOf DEF TypeOK
  <2>2. WriteFiles("auto", puts, {}) /\ (NoFault \/ Fault("auto"))
    BY <1>6 DEF AutoWrite, WriteFiles
  <2> HIDE DEF puts
  <2>3. table' \in [Keys -> Rows \cup {NoRow}]
    BY <2>1, <2>2, Written
  <2>4. QED BY <1>6, <2>2, <2>3, FaultTypes DEF TypeOK, AutoWrite
<1>7. CASE AutoRemaining
  <2>1. End("auto")
    BY <1>7 DEF AutoRemaining
  <2> DEFINE marks == [k \in {k \in Keys : Unmarked(found[k])} |-> [found[k] EXCEPT !.state = curTime]]
             dels == {k \in Keys : Expired(found[k])}
  <2>2. \/ UNCHANGED table /\ NoFault
        \/ WriteFiles("auto", marks, dels) /\ (NoFault \/ Fault("auto"))
    BY <1>7 DEF AutoRemaining, WriteFiles
  <2>3. curTime \in 1 .. MaxTime
    BY <1>7 DEF AutoRemaining, PlaceInv, TypeOK
  <2>4. DOMAIN marks \subseteq Keys /\ \A k \in DOMAIN marks : marks[k] \in Rows
    BY <2>3, MarkedRows DEF TypeOK, Unmarked
  <2> HIDE DEF marks, dels
  <2>5. table' \in [Keys -> Rows \cup {NoRow}]
    BY <2>2, <2>4, Written DEF TypeOK
  <2>6. UNCHANGED <<disks, monitored, uploads, cwd, strayed, starts>>
    BY <1>7 DEF AutoRemaining
  <2>7. NoFault \/ Fault("auto")
    BY <2>2
  <2>8. QED BY <2>1, <2>5, <2>6, <2>7, EndTypes, FaultTypes DEF TypeOK
<1>8. QED BY <1>1, <1>2, <1>3, <1>4, <1>5, <1>6, <1>7

LEMMA ManualTypes ==
  ASSUME TypeOK, PlaceInv,
         ManualStart \/ ManualReadPath \/ ManualList \/ ManualUpload \/ ManualWritePath
           \/ ManualWriteFiles
  PROVE  TypeOK'
<1> USE TwoScans DEF disks, store, history, Goto
<1>1. CASE ManualStart
  <2>1. Start("manual")
    BY <1>1 DEF ManualStart
  <2>2. strayed' \in [Scans -> BOOLEAN]
    BY <2>1, Zenon DEF Start, TypeOK
  <2>3. QED BY <1>1, <2>1, <2>2, StartTypes DEF TypeOK, ManualStart
<1>2. CASE ManualReadPath
  <2>1. NoFault \/ Fault("manual")
    BY <1>2 DEF ManualReadPath
  <2>2. QED BY <1>2, <2>1, FaultTypes DEF TypeOK, ManualReadPath
<1>3. CASE ManualList
  <2>1. Listed("manual") \subseteq Items
    BY <1>3, ListedItems DEF ManualList, PlaceInv
  <2>2. upd' \in [Scans -> SUBSET Items]
    BY <1>3, <2>1 DEF ManualList, TypeOK
  <2>3. strayed' \in [Scans -> BOOLEAN]
    BY <1>3, Zenon DEF ManualList, TypeOK, Stray
  <2>4. QED BY <1>3, <2>2, <2>3 DEF TypeOK, ManualList
<1>4. CASE ManualUpload
  <2>1. uploads' \subseteq Keys \X Versions
    BY <1>4 DEF ManualUpload, CreateDownloadTask, TypeOK, Items
  <2>2. CASE upd["manual"] = {}
    <3>1. End("manual")
      BY <1>4, <2>2 DEF ManualUpload
    <3>2. QED BY <1>4, <2>1, <3>1, EndTypes DEF TypeOK, ManualUpload
  <2>3. CASE upd["manual"] # {}
    BY <1>4, <2>1, <2>3 DEF TypeOK, ManualUpload
  <2>4. QED BY <2>2, <2>3
<1>5. CASE ManualWritePath
  <2>1. NoFault \/ Fault("manual")
    BY <1>5 DEF ManualWritePath
  <2>2. QED BY <1>5, <2>1, FaultTypes DEF TypeOK, ManualWritePath
<1>6. CASE ManualWriteFiles
  <2> DEFINE puts == Records(upd["manual"])
  <2>1. DOMAIN puts \subseteq Keys /\ \A k \in DOMAIN puts : puts[k] \in Rows
    BY RecordsOf DEF TypeOK
  <2>2. WriteFiles("manual", puts, {}) /\ (NoFault \/ Fault("manual")) /\ End("manual")
    BY <1>6 DEF ManualWriteFiles, WriteFiles
  <2> HIDE DEF puts
  <2>3. table' \in [Keys -> Rows \cup {NoRow}]
    BY <2>1, <2>2, Written
  <2>4. QED BY <1>6, <2>2, <2>3, EndTypes, FaultTypes DEF TypeOK, ManualWriteFiles
<1>7. QED BY <1>1, <1>2, <1>3, <1>4, <1>5, <1>6

LEMMA OtherTypes ==
  ASSUME TypeOK, PlaceInv,
         (\E s \in Scans : Enter(s)) \/ AddMonitoringDirectory
           \/ ScanThrows \/ ProcessEnds \/ Edit \/ Tick
  PROVE  TypeOK'
<1> USE TwoScans DEF disks, store, history, Goto
<1>1. ASSUME NEW s \in Scans, Enter(s) PROVE TypeOK'
  BY <1>1 DEF Enter, TypeOK
<1>2. CASE ScanThrows
  BY <1>2, EndedTypes DEF ScanThrows
<1>3. CASE ProcessEnds
  <2>1. faults' \in 0 .. MaxFaults
    BY <1>3 DEF ProcessEnds, TypeOK
  <2>2. QED BY <1>3, <2>1, EndedTypes DEF ProcessEnds
<1>4. CASE Edit
  <2>1. edits' \in 0 .. MaxEdits
    BY <1>4 DEF Edit, TypeOK
  <2>2. disk' \in [Keys -> Versions \cup {Absent}]
    BY <1>4 DEF Edit, TypeOK
  <2>3. disturbed' \in [Scans -> SUBSET {"scan", "disk", "fault"}]
    BY <1>4 DEF Edit, TypeOK, Disturb
  <2>4. QED BY <1>4, <2>1, <2>2, <2>3 DEF Edit, TypeOK
<1>5. CASE Tick
  BY <1>5 DEF Tick, TypeOK
<1>6. CASE AddMonitoringDirectory
  BY <1>6 DEF AddMonitoringDirectory, TypeOK
<1>7. QED BY <1>1, <1>2, <1>3, <1>4, <1>5, <1>6

-----------------------------------------------------------------------------
\* Where the scans are.

\* A step of scan s that stays clear of the current directory, and after which
\* s is not about to list, keeps every scan in its place.
LEMMA StaysInPlace ==
  ASSUME TypeOK, PlaceInv, NEW s \in Scans, NEW l, l # "list",
         pc' = [pc EXCEPT ![s] = l], Running(s), UNCHANGED <<cwd, now>>,
         \A u \in Scans : disturbed[u] \subseteq disturbed'[u],
         \A u \in Scans \ {s} : here'[u] = here[u],
         s = "auto" => l = "idle" \/ curTime' = curTime,
         s = "auto" => l \in {"upload", "write"} \/ upd'["auto"] = {},
         s = "manual" => curTime' = curTime /\ upd'["auto"] = upd["auto"]
  PROVE  PlaceInv'
<1>1. pc'[s] = l /\ \A u \in Scans \ {s} : pc'[u] = pc[u]
  BY DEF TypeOK
<1>2. ASSUME NEW u \in Scans, pc'[u] = "list"
      PROVE  cwd' \in Dirs /\ here'[u] \in Dirs /\ (cwd' = here'[u] \/ "scan" \in disturbed'[u])
  BY <1>1, <1>2 DEF PlaceInv
<1>3. pc'["auto"] # "idle" /\ pc'["manual"] # "idle" => \A u \in Scans : "scan" \in disturbed'[u]
  BY <1>1, TwoScans DEF PlaceInv, Running
<1>4. pc'["auto"] # "idle" => curTime' \in 1 .. now'
  BY <1>1, TwoScans DEF PlaceInv, Running
<1>5. pc'["auto"] \notin {"upload", "write"} => upd'["auto"] = {}
  BY <1>1, TwoScans DEF PlaceInv
<1>6. QED BY <1>2, <1>3, <1>4, <1>5 DEF PlaceInv

LEMMA StartsInPlace ==
  ASSUME TypeOK, PlaceInv, NEW s \in Scans, Start(s), Goto(s, "paths"),
         UNCHANGED <<cwd, now, here, upd>>,
         IF s = "auto" THEN curTime' = now ELSE curTime' = curTime
  PROVE  PlaceInv'
<1>1. pc'[s] = "paths" /\ \A u \in Scans \ {s} : pc'[u] = pc[u]
  BY DEF TypeOK, Goto
<1>2. ASSUME NEW u \in Scans, pc'[u] = "list"
      PROVE  cwd' \in Dirs /\ here'[u] \in Dirs /\ (cwd' = here'[u] \/ "scan" \in disturbed'[u])
  <2>1. u # s /\ pc[u] = "list"
    BY <1>1, <1>2
  <2>2. QED BY <2>1, StartTypes DEF PlaceInv
<1>3. pc'["auto"] # "idle" /\ pc'["manual"] # "idle" => \A u \in Scans : "scan" \in disturbed'[u]
  BY <1>1, StartTypes, TwoScans DEF Running
<1>4. pc'["auto"] # "idle" => curTime' \in 1 .. now'
  BY <1>1, TwoScans DEF PlaceInv, TypeOK
<1>5. pc'["auto"] \notin {"upload", "write"} => upd'["auto"] = {}
  <2>1. pc["auto"] \in {"idle", "paths"} \/ pc'["auto"] = pc["auto"]
    BY <1>1, TwoScans DEF Start, Running
  <2>2. QED BY <2>1, <1>1, TwoScans DEF PlaceInv
<1>6. QED BY <1>2, <1>3, <1>4, <1>5 DEF PlaceInv

LEMMA PlaceStep ==
  ASSUME TypeOK, PlaceInv, Next
  PROVE  PlaceInv'
<1> USE TwoScans DEF disks, store, history, Goto, Running
<1>1. CASE AutoStart
  BY <1>1, StartsInPlace DEF AutoStart
<1>2. CASE AutoReadPath
  <2>1. NoFault \/ Fault("auto")
    BY <1>2 DEF AutoReadPath
  <2>2. upd'["auto"] = {}
    BY <1>2 DEF AutoReadPath, PlaceInv
  <2>3. QED BY <1>2, <2>1, <2>2, FaultTypes, StaysInPlace DEF AutoReadPath
<1>3. CASE AutoReadFiles
  <2>1. NoFault \/ Fault("auto")
    BY <1>3 DEF AutoReadFiles
  <2>2. upd'["auto"] = {}
    BY <1>3 DEF AutoReadFiles, PlaceInv
  <2>3. QED BY <1>3, <2>1, <2>2, FaultTypes, StaysInPlace DEF AutoReadFiles
<1>4. CASE AutoList
  <2>1. \E l \in {"enter", "upload"} :
           pc' = [pc EXCEPT !["auto"] = l] /\ (l = "upload" \/ upd'["auto"] = {})
    BY <1>4 DEF AutoList, TypeOK
  <2>2. QED BY <1>4, <2>1, StaysInPlace DEF AutoList
<1>5. CASE AutoUpload
  BY <1>5, StaysInPlace DEF AutoUpload
<1>6. CASE AutoWrite
  <2>1. NoFault \/ Fault("auto")
    BY <1>6 DEF AutoWrite, WriteFiles
  <2>2. upd'["auto"] = {}
    BY <1>6 DEF AutoWrite, TypeOK
  <2>3. QED BY <1>6, <2>1, <2>2, FaultTypes, StaysInPlace DEF AutoWrite
<1>7. CASE AutoRemaining
  <2>1. NoFault \/ Fault("auto")
    BY <1>7 DEF AutoRemaining, WriteFiles
  <2>2. End("auto") /\ pc["auto"] = "enter" /\ UNCHANGED <<disks, cwd>>
    BY <1>7 DEF AutoRemaining
  <2>3. /\ pc' = [pc EXCEPT !["auto"] = "idle"] /\ upd'["auto"] = {}
        /\ \A u \in Scans \ {"auto"} : here'[u] = here[u]
    BY <2>2 DEF End, TypeOK
  <2>4. QED BY <2>1, <2>2, <2>3, FaultTypes, StaysInPlace
<1>8. CASE ManualStart
  BY <1>8, StartsInPlace DEF ManualStart
<1>9. CASE ManualReadPath
  <2>1. NoFault \/ Fault("manual")
    BY <1>9 DEF ManualReadPath
  <2>2. QED BY <1>9, <2>1, FaultTypes, StaysInPlace DEF ManualReadPath
<1>10. CASE ManualList
  <2>1. upd'["auto"] = upd["auto"]
    BY <1>10 DEF ManualList, TypeOK
  <2>2. QED BY <1>10, <2>1, StaysInPlace DEF ManualList
<1>11. CASE ManualUpload
  <2>1. CASE upd["manual"] = {}
    <3>1. End("manual") /\ pc["manual"] = "enter" /\ UNCHANGED <<disks, cwd, disturbed>>
      BY <1>11, <2>1 DEF ManualUpload
    <3>2. /\ pc' = [pc EXCEPT !["manual"] = "idle"] /\ curTime' = curTime /\ upd'["auto"] = upd["auto"]
          /\ \A u \in Scans \ {"manual"} : here'[u] = here[u]
      BY <3>1 DEF End, TypeOK
    <3>3. QED BY <3>1, <3>2, StaysInPlace
  <2>2. CASE upd["manual"] # {}
    BY <1>11, <2>2, StaysInPlace DEF ManualUpload
  <2>3. QED BY <2>1, <2>2
<1>12. CASE ManualWritePath
  <2>1. NoFault \/ Fault("manual")
    BY <1>12 DEF ManualWritePath
  <2>2. QED BY <1>12, <2>1, FaultTypes, StaysInPlace DEF ManualWritePath
<1>13. CASE ManualWriteFiles
  <2>1. NoFault \/ Fault("manual")
    BY <1>13 DEF ManualWriteFiles, WriteFiles
  <2>2. End("manual") /\ pc["manual"] = "record" /\ UNCHANGED <<disks, cwd>>
    BY <1>13 DEF ManualWriteFiles
  <2>3. /\ pc' = [pc EXCEPT !["manual"] = "idle"] /\ curTime' = curTime /\ upd'["auto"] = upd["auto"]
        /\ \A u \in Scans \ {"manual"} : here'[u] = here[u]
    BY <2>2 DEF End, TypeOK
  <2>4. QED BY <2>1, <2>2, <2>3, FaultTypes, StaysInPlace
<1>14. ASSUME NEW s \in Scans, Enter(s) PROVE PlaceInv'
  <2>1. PICK d \in todo[s] : /\ here' = [here EXCEPT ![s] = d]
                             /\ IF d \in closed THEN UNCHANGED <<pc, cwd>>
                                                ELSE pc' = [pc EXCEPT ![s] = "list"] /\ cwd' = d
    BY <1>14 DEF Enter
  <2>2. /\ pc[s] = "enter" /\ d \in Dirs /\ UNCHANGED <<now, curTime, disturbed>>
        /\ here'[s] = d /\ \A u \in Scans \ {s} : here'[u] = here[u]
    BY <1>14, <2>1 DEF Enter, TypeOK
  <2>3. \A u \in Scans \ {s} : pc[u] # "idle" => \A v \in Scans : "scan" \in disturbed[v]
    BY <2>2 DEF PlaceInv
  <2>4. \A u \in Scans : \/ pc'[u] = pc[u] /\ (u = s \/ cwd' = cwd \/ cwd' = d)
                         \/ u = s /\ pc'[s] = "list" /\ cwd' = d
    <3>1. CASE d \in closed
      BY <2>1, <3>1
    <3>2. CASE d \notin closed
      BY <2>1, <3>2 DEF TypeOK
    <3>3. QED BY <3>1, <3>2
  <2>5. ASSUME NEW u \in Scans, pc'[u] = "list"
        PROVE  cwd' \in Dirs /\ here'[u] \in Dirs /\ (cwd' = here'[u] \/ "scan" \in disturbed'[u])
    <3>1. CASE u = s
      BY <2>1, <2>2, <2>4, <2>5, <3>1
    <3>2. CASE u # s
      BY <2>1, <2>2, <2>3, <2>4, <2>5, <3>2 DEF PlaceInv
    <3>3. QED BY <3>1, <3>2
  <2>6. pc'["auto"] # "idle" /\ pc'["manual"] # "idle" => \A u \in Scans : "scan" \in disturbed'[u]
    BY <2>2, <2>3, <2>4
  <2>7. pc'["auto"] # "idle" => curTime' \in 1 .. now'
    BY <2>2, <2>4 DEF PlaceInv
  <2>8. pc'["auto"] \notin {"upload", "write"} => upd'["auto"] = {}
    BY <1>14, <2>2, <2>4 DEF Enter, PlaceInv
  <2>9. QED BY <2>5, <2>6, <2>7, <2>8 DEF PlaceInv
<1>15. CASE ScanThrows \/ ProcessEnds
  BY <1>15 DEF ScanThrows, ProcessEnds, Ended, PlaceInv
<1>16. CASE Edit
  <2>1. UNCHANGED <<now, pc, cwd, here, curTime, upd>>
    BY <1>16 DEF Edit
  <2>2. \A u \in Scans : disturbed[u] \subseteq disturbed'[u]
    BY <1>16 DEF Edit, Disturb
  <2>3. QED BY <2>1, <2>2 DEF PlaceInv
<1>17. CASE Tick
  <2>1. \A t \in 1 .. now : t \in 1 .. now'
    BY <1>17 DEF Tick, TypeOK
  <2>2. QED BY <1>17, <2>1 DEF Tick, PlaceInv
<1>18. CASE AddMonitoringDirectory
  BY <1>18 DEF AddMonitoringDirectory, PlaceInv
<1>19. QED
  BY <1>1, <1>2, <1>3, <1>4, <1>5, <1>6, <1>7, <1>8, <1>9, <1>10, <1>11, <1>12, <1>13, <1>14,
     <1>15, <1>16, <1>17, <1>18 DEF Next

\* A scan that lists another directory than its own knows of the other scan.
LEMMA StrayStep ==
  ASSUME TypeOK, PlaceInv, StrayNeedsTwo, Next
  PROVE  StrayNeedsTwo'
<1> USE TwoScans DEF history
<1>1. ASSUME NEW s \in Scans, Start(s) PROVE StrayNeedsTwo'
  BY <1>1, StartTypes DEF StrayNeedsTwo, TypeOK
<1>2. ASSUME NEW s \in Scans, Stray(s), pc[s] = "list", UNCHANGED disturbed PROVE StrayNeedsTwo'
  <2>1. cwd # here[s] => "scan" \in disturbed[s]
    BY <1>2 DEF PlaceInv
  <2>2. strayed'[s] <=> strayed[s] \/ cwd # here[s]
    BY <1>2, Zenon DEF Stray, TypeOK
  <2>3. \A u \in Scans \ {s} : strayed'[u] = strayed[u]
    BY <1>2, Zenon DEF Stray, TypeOK
  <2>4. QED BY <1>2, <2>1, <2>2, <2>3 DEF StrayNeedsTwo
<1>3. ASSUME UNCHANGED strayed, \A u \in Scans : disturbed[u] \subseteq disturbed'[u]
      PROVE  StrayNeedsTwo'
  BY <1>3 DEF StrayNeedsTwo
<1>4. CASE AutoStart \/ ManualStart
  BY <1>1, <1>4 DEF AutoStart, ManualStart
<1>5. CASE AutoList \/ ManualList
  BY <1>2, <1>5 DEF AutoList, ManualList
<1>6. CASE AutoReadPath \/ AutoReadFiles \/ AutoWrite \/ AutoRemaining
  <2>1. UNCHANGED strayed /\ (NoFault \/ Fault("auto"))
    BY <1>6 DEF AutoReadPath, AutoReadFiles, AutoWrite, AutoRemaining, WriteFiles
  <2>2. QED BY <2>1, <1>3, FaultTypes
<1>7. CASE ManualReadPath \/ ManualWritePath \/ ManualWriteFiles
  <2>1. UNCHANGED strayed /\ (NoFault \/ Fault("manual"))
    BY <1>7 DEF ManualReadPath, ManualWritePath, ManualWriteFiles, WriteFiles
  <2>2. QED BY <2>1, <1>3, FaultTypes
<1>8. CASE \/ AutoUpload \/ ManualUpload \/ (\E s \in Scans : Enter(s)) \/ ScanThrows \/ ProcessEnds
         \/ AddMonitoringDirectory \/ Tick
  BY <1>3, <1>8 DEF AutoUpload, ManualUpload, Enter, ScanThrows, ProcessEnds, Ended,
                    AddMonitoringDirectory, Tick
<1>9. CASE Edit
  BY <1>3, <1>9 DEF Edit, Disturb
<1>10. QED BY <1>4, <1>5, <1>6, <1>7, <1>8, <1>9 DEF Next

-----------------------------------------------------------------------------
\* What was ordered.

\* Orders stay, and a row that says it was uploaded was, when no row is new.
LEMMA OrdersStay ==
  ASSUME TypeOK, OrderInv, uploads \subseteq uploads',
         \A k \in Keys : table'[k] \in {table[k], NoRow},
         pc'["auto"] = "write" => pc["auto"] = "write" /\ upd'["auto"] = upd["auto"],
         pc'["manual"] \in {"path", "record"} =>
           pc["manual"] \in {"path", "record"} /\ upd'["manual"] = upd["manual"]
  PROVE  OrderInv'
BY DEF OrderInv

\* A write of what was ordered.
LEMMA OrdersWritten ==
  ASSUME TypeOK, OrderInv, NEW s \in Scans, UNCHANGED uploads,
         \A i \in upd[s] : <<i.key, i.ver>> \in uploads,
         WriteFiles(s, Records(upd[s]), {}),
         pc'[s] \notin {"write", "path", "record"},
         \A u \in Scans \ {s} : pc'[u] = pc[u] /\ upd'[u] = upd[u]
  PROVE  OrderInv'
<1> DEFINE puts == Records(upd[s])
<1>1. upd[s] \in SUBSET Items
  BY DEF TypeOK
<1>2. ASSUME NEW k \in DOMAIN puts
      PROVE  /\ k \in Keys /\ puts[k] \in Rows
             /\ Columns(puts[k]).mh = 0 /\ <<k, Columns(puts[k]).of>> \in uploads
  <2>1. k \in Keys /\ puts[k] \in Rows
    BY <1>1, RecordsOf
  <2>2. PICK i \in upd[s] : i.key = k /\ puts[k] = Record(i)
    BY <1>1, RecordsOf
  <2>3. i \in Items /\ puts[k].of = i.ver
    BY <1>1, <2>2, RowTypes
  <2>4. QED BY <2>1, <2>2, <2>3, RowTypes
<1> HIDE DEF puts
<1>3. \A k \in Keys : \/ table'[k] \in {table[k], NoRow}
                      \/ k \in DOMAIN puts /\ table'[k] = Columns(puts[k])
  BY <1>2, Written DEF puts
<1>4. \A k \in Keys : table'[k] # NoRow =>
        table'[k].mh = 0 /\ (table'[k].state = 0 => <<k, table'[k].of>> \in uploads')
  BY <1>2, <1>3 DEF OrderInv
<1>5. QED BY <1>4, TwoScans DEF OrderInv

LEMMA OrderStep ==
  ASSUME TypeOK, PlaceInv, OrderInv, Next
  PROVE  OrderInv'
<1> USE TwoScans DEF disks, store, history, Goto
<1>1. CASE AutoStart \/ AutoReadPath \/ AutoReadFiles
  BY <1>1, OrdersStay DEF AutoStart, AutoReadPath, AutoReadFiles, TypeOK
<1>2. CASE AutoList
  BY <1>2, OrdersStay DEF AutoList, TypeOK
<1>3. CASE AutoUpload
  BY <1>3 DEF AutoUpload, CreateDownloadTask, OrderInv, TypeOK
<1>4. CASE AutoWrite
  BY <1>4, OrdersWritten DEF AutoWrite, OrderInv, TypeOK
<1>5. CASE AutoRemaining
  <2> DEFINE marks == [k \in {k \in Keys : Unmarked(found[k])} |-> [found[k] EXCEPT !.state = curTime]]
             dels == {k \in Keys : Expired(found[k])}
  <2>1. UNCHANGED table \/ WriteFiles("auto", marks, dels)
    BY <1>5 DEF AutoRemaining
  <2>2. curTime \in 1 .. MaxTime
    BY <1>5 DEF AutoRemaining, PlaceInv, TypeOK
  <2>3. /\ DOMAIN marks \subseteq Keys
        /\ \A k \in DOMAIN marks : marks[k] \in Rows /\ marks[k].state = curTime
    BY <2>2, MarkedRows DEF TypeOK, Unmarked
  <2> HIDE DEF marks, dels
  <2>4. \A k \in DOMAIN marks : Columns(marks[k]).mh = 0 /\ Columns(marks[k]).state # 0
    BY <2>2, <2>3, RowTypes
  <2>5. \A k \in Keys : \/ table'[k] \in {table[k], NoRow}
                        \/ k \in DOMAIN marks /\ table'[k] = Columns(marks[k])
    BY <2>1, <2>3, Written
  <2>6. End("auto") /\ UNCHANGED uploads
    BY <1>5 DEF AutoRemaining
  <2>7. pc'["auto"] = "idle" /\ pc'["manual"] = pc["manual"] /\ upd'["manual"] = upd["manual"]
    BY <2>6 DEF End, TypeOK
  <2>8. \A k \in Keys : table'[k] # NoRow =>
          table'[k].mh = 0 /\ (table'[k].state = 0 => <<k, table'[k].of>> \in uploads')
    BY <2>4, <2>5, <2>6 DEF OrderInv
  <2>9. QED BY <2>6, <2>7, <2>8 DEF OrderInv
<1>6. CASE ManualStart \/ ManualReadPath \/ ManualWritePath
  BY <1>6, OrdersStay DEF ManualStart, ManualReadPath, ManualWritePath, TypeOK
<1>7. CASE ManualList
  BY <1>7, OrdersStay DEF ManualList, TypeOK
<1>8. CASE ManualUpload
  <2>1. CASE upd["manual"] = {}
    BY <1>8, <2>1, OrdersStay DEF ManualUpload, End, CreateDownloadTask, TypeOK
  <2>2. CASE upd["manual"] # {}
    BY <1>8, <2>2 DEF ManualUpload, CreateDownloadTask, OrderInv, TypeOK
  <2>3. QED BY <2>1, <2>2
<1>9. CASE ManualWriteFiles
  <2>1. /\ pc'["manual"] = "idle" /\ pc'["auto"] = pc["auto"] /\ upd'["auto"] = upd["auto"]
    BY <1>9 DEF ManualWriteFiles, End, TypeOK
  <2>2. QED BY <1>9, <2>1, OrdersWritten DEF ManualWriteFiles, OrderInv
<1>10. ASSUME NEW s \in Scans, Enter(s) PROVE OrderInv'
  <2>1. \A u \in Scans : pc'[u] = pc[u] \/ pc'[u] = "list"
    BY <1>10 DEF Enter, TypeOK
  <2>2. QED BY <1>10, <2>1, OrdersStay DEF Enter
<1>11. CASE ScanThrows \/ ProcessEnds
  BY <1>11, OrdersStay DEF ScanThrows, ProcessEnds, Ended
<1>12. CASE Edit \/ AddMonitoringDirectory \/ Tick
  BY <1>12, OrdersStay DEF Edit, AddMonitoringDirectory, Tick
<1>13. QED BY <1>1, <1>2, <1>3, <1>4, <1>5, <1>6, <1>7, <1>8, <1>9, <1>10, <1>11, <1>12 DEF Next

\* What an automatic scan has read comes from the table, and is only struck out.
LEMMA FoundStep ==
  ASSUME TypeOK, OrderInv, FoundInv, Next
  PROVE  FoundInv'
<1>1. CASE UNCHANGED found \/ found' = table \/ found' = Unread
  BY <1>1 DEF FoundInv, OrderInv, Unread
<1>2. CASE AutoList
  <2>1. \A k \in Keys : found'[k] \in {found[k], NoRow}
    BY <1>2 DEF AutoList
  <2>2. QED BY <2>1 DEF FoundInv
<1>3. AutoReadFiles => found' \in {table, Unread}
  BY Zenon DEF AutoReadFiles
<1>4. End("auto") \/ Ended => found' = Unread
  BY DEF End, Ended
<1>5. End("manual") => UNCHANGED found
  BY DEF End
<1>6. ManualUpload => UNCHANGED found
  BY <1>5 DEF ManualUpload
<1>7. QED
  BY Zenon, <1>1, <1>2, <1>3, <1>4, <1>5, <1>6
     DEF Next, AutoStart, AutoReadPath, AutoUpload, AutoWrite, AutoRemaining, ManualStart,
         ManualReadPath, ManualList, ManualWritePath, ManualWriteFiles, Enter,
         AddMonitoringDirectory, ScanThrows, ProcessEnds, Edit, Tick

\* No statement puts a name with an apostrophe into a database.
LEMMA QuotedStep ==
  ASSUME TypeOK, PlaceInv, QuotedInv, Next
  PROVE  QuotedInv'
<1> USE TwoScans DEF disks, store, history
<1>1. ASSUME monitored' \cap Quoted = {}, UNCHANGED table PROVE QuotedInv'
  BY <1>1 DEF QuotedInv
<1>2. ASSUME UNCHANGED monitored, \A k \in Keys : Refused(k) => table'[k] = table[k]
      PROVE  QuotedInv'
  BY <1>2 DEF QuotedInv
<1>3. CASE AutoWrite
  <2> DEFINE puts == Records(upd["auto"])
  <2>1. DOMAIN puts \subseteq Keys /\ \A k \in DOMAIN puts : puts[k] \in Rows
    BY RecordsOf DEF TypeOK
  <2>2. WriteFiles("auto", puts, {}) /\ UNCHANGED monitored
    BY <1>3 DEF AutoWrite
  <2> HIDE DEF puts
  <2>3. \A k \in Keys : Refused(k) => table'[k] = table[k]
    BY <2>1, <2>2, Written
  <2>4. QED BY <1>2, <2>2, <2>3
<1>4. CASE ManualWriteFiles
  <2> DEFINE puts == Records(upd["manual"])
  <2>1. DOMAIN puts \subseteq Keys /\ \A k \in DOMAIN puts : puts[k] \in Rows
    BY RecordsOf DEF TypeOK
  <2>2. WriteFiles("manual", puts, {}) /\ UNCHANGED monitored
    BY <1>4 DEF ManualWriteFiles
  <2> HIDE DEF puts
  <2>3. \A k \in Keys : Refused(k) => table'[k] = table[k]
    BY <2>1, <2>2, Written
  <2>4. QED BY <1>2, <2>2, <2>3
<1>5. CASE AutoRemaining
  <2> DEFINE marks == [k \in {k \in Keys : Unmarked(found[k])} |-> [found[k] EXCEPT !.state = curTime]]
             dels == {k \in Keys : Expired(found[k])}
  <2>1. curTime \in 1 .. MaxTime
    BY <1>5 DEF AutoRemaining, PlaceInv, TypeOK
  <2>2. DOMAIN marks \subseteq Keys /\ \A k \in DOMAIN marks : marks[k] \in Rows
    BY <2>1, MarkedRows DEF TypeOK, Unmarked
  <2>3. UNCHANGED monitored /\ (UNCHANGED table \/ WriteFiles("auto", marks, dels))
    BY <1>5 DEF AutoRemaining
  <2> HIDE DEF marks, dels
  <2>4. \A k \in Keys : Refused(k) => table'[k] = table[k]
    BY <2>2, <2>3, Written
  <2>5. QED BY <1>2, <2>3, <2>4
<1>6. CASE ManualWritePath \/ AddMonitoringDirectory
  BY <1>1, <1>6 DEF ManualWritePath, AddMonitoringDirectory, QuotedInv
<1>7. CASE ManualUpload
  BY <1>2, <1>7 DEF ManualUpload
<1>8. CASE \/ AutoStart \/ AutoReadPath \/ AutoReadFiles \/ AutoList \/ AutoUpload
         \/ ManualStart \/ ManualReadPath \/ ManualList
         \/ (\E s \in Scans : Enter(s)) \/ ScanThrows \/ ProcessEnds \/ Edit \/ Tick
  BY <1>2, <1>8 DEF AutoStart, AutoReadPath, AutoReadFiles, AutoList, AutoUpload, ManualStart,
       ManualReadPath, ManualList, Enter, ScanThrows, ProcessEnds, Ended, Edit, Tick
<1>9. QED BY <1>3, <1>4, <1>5, <1>6, <1>7, <1>8 DEF Next

-----------------------------------------------------------------------------
\* An automatic scan that nothing disturbs.

\* What CalmInv says of a scan that has ended or not begun is nothing.
LEMMA CalmAtRest ==
  ASSUME pc'["auto"] \in {"idle", "paths"}, upd'["auto"] = {}
  PROVE  CalmInv'
BY DEF CalmInv

\* A step of the manual scan disturbs, or finds no automatic scan.
LEMMA CalmAlone ==
  ASSUME TypeOK, PlaceInv, pc["manual"] # "idle",
         pc'["auto"] = pc["auto"], upd'["auto"] = upd["auto"],
         \A u \in Scans : disturbed[u] \subseteq disturbed'[u]
  PROVE  CalmInv'
<1>1. CASE pc["auto"] = "idle"
  BY <1>1, CalmAtRest DEF PlaceInv
<1>2. CASE pc["auto"] # "idle"
  <2>1. disturbed'["auto"] # {}
    BY <1>2, TwoScans DEF PlaceInv
  <2>2. QED BY <2>1 DEF CalmInv
<1>3. QED BY <1>1, <1>2

\* Since no row has the words of its version, every listed file is needed.
LEMMA AllNeeded ==
  ASSUME TypeOK, FoundInv, NEW i \in Items
  PROVE  Needed(i)
<1>1. i.key \in Keys /\ i.ver \in Versions
  BY DEF Items
<1>2. i.ver.mh # 0
  BY <1>1
<1>3. found[i.key] # NoRow => found[i.key].mh = 0
  BY <1>1 DEF FoundInv
<1>4. QED BY <1>2, <1>3 DEF Needed, SameFile, SameWords

\* The listing of a directory leaves its files unrecorded, all of them.
LEMMA CalmList ==
  ASSUME TypeOK, PlaceInv, OrderInv, FoundInv, CalmInv, AutoList, disturbed["auto"] = {}
  PROVE  CalmInv'
<1> DEFINE h == here["auto"]
           need == {WithCID(i) : i \in {i \in Listed("auto") : Needed(i)}}
<1>1. /\ pc["auto"] = "list" /\ upd["auto"] = {} /\ cwd = h /\ h \in Dirs
      /\ h \in paths \ closed /\ h \notin todo["auto"] /\ todo["auto"] \subseteq paths
  BY TwoScans DEF AutoList, PlaceInv, CalmInv
<1>2. /\ upd' = [upd EXCEPT !["auto"] = need] /\ pc'["auto"] \in {"enter", "upload"}
      /\ UNCHANGED <<disk, closed, paths, table, todo, here>>
      /\ found' = [k \in Keys |-> IF \E i \in Listed("auto") : i.key = k THEN NoRow ELSE found[k]]
  BY TwoScans DEF AutoList, Goto, TypeOK, disks, store
<1>3. ASSUME NEW i \in Listed("auto")
      PROVE  /\ i \in Items /\ i.key \in Keys /\ i.key[1] = h
             /\ Present(i.key) /\ i.ver = disk[i.key]
  <2>1. PICK n \in Names : /\ i \in Items /\ i.key = <<h, n>> /\ disk[<<h, n>>] # Absent
                           /\ i.ver = disk[<<h, n>>] /\ Rule!IsTarget(Suffix[n])
    BY <1>1, <1>3, ListedItems, TwoScans
  <2>2. i.key[1] = h /\ i.key[2] = n /\ i.key \in Keys
    BY <1>1, <2>1 DEF Keys
  <2>3. QED BY <1>1, <2>1, <2>2 DEF Present
<1>4. ASSUME NEW k \in Keys, Present(k), k[1] = h
      PROVE  \E i \in Listed("auto") : i.key = k
  <2>1. k = <<h, k[2]>> /\ k[2] \in Names
    BY <1>4 DEF Keys
  <2>2. [key |-> <<h, k[2]>>, ver |-> disk[<<cwd, k[2]>>], cid |-> "auto" = "manual"] \in Listed("auto")
    BY <1>1, <1>4, <2>1 DEF Listed, Present
  <2>3. QED BY <2>1, <2>2
<1>5. \A i \in Listed("auto") : Needed(i)
  <2>1. ASSUME NEW i \in Listed("auto") PROVE found[i.key] = table[i.key]
    BY <1>1, <1>3, <2>1 DEF CalmInv, Unlisted
  <2>2. QED BY <1>3, <2>1, AllNeeded
<1>6. ASSUME NEW i \in Listed("auto")
      PROVE  \E j \in need : j.key = i.key
  BY <1>3, <1>5, CIDItems
<1>7. ASSUME NEW j \in need
      PROVE  \E i \in Listed("auto") : j.key = i.key /\ j.ver = i.ver
  BY <1>3, CIDItems
<1> HIDE DEF need
<1>8. upd'["auto"] = need
  BY <1>2, TwoScans DEF TypeOK
<1>9. \A k \in Keys : (Present(k)' <=> Present(k)) /\ (Unlisted(k)' <=> k[1] \in todo["auto"])
  BY <1>2 DEF Present, Unlisted
<1>10. \A i \in need : Present(i.key)' /\ ~Unlisted(i.key)' /\ i.ver = disk'[i.key]
  BY <1>1, <1>2, <1>3, <1>7, <1>9
<1>11. ASSUME NEW k \in Keys
       PROVE  IF Present(k)' /\ ~Unlisted(k)'
                THEN found'[k] = NoRow /\ (Good(k)' \/ Unrecorded(k)' \/ Refused(k))
                ELSE found'[k] = table'[k]
  <2>1. CASE Present(k) /\ k[1] = h
    <3>1. PICK i \in Listed("auto") : i.key = k
      BY <1>4, <2>1
    <3>2. found'[k] = NoRow /\ Unrecorded(k)'
      BY <1>2, <1>6, <1>8, <3>1 DEF Unrecorded
    <3>3. QED BY <1>1, <1>9, <2>1, <3>2
  <2>2. CASE ~(Present(k) /\ k[1] = h)
    <3>1. found'[k] = found[k]
      BY <1>2, <1>3, <2>2
    <3>2. IF Present(k) /\ k[1] \notin todo["auto"]
            THEN found[k] = NoRow /\ (Good(k) \/ Refused(k)) ELSE found[k] = table[k]
      BY <1>1, <2>2 DEF CalmInv, Unlisted, Unrecorded
    <3>3. Good(k)' <=> Good(k)
      BY <1>2 DEF Good
    <3>4. QED BY <1>2, <1>9, <3>1, <3>2, <3>3
  <2>3. QED BY <2>1, <2>2
<1>12. \A k \in Keys : Refused(k)' <=> Refused(k)
  BY DEF Refused
<1>13. QED BY <1>1, <1>2, <1>8, <1>10, <1>11, <1>12 DEF CalmInv

\* The write of what was listed leaves the files it is about recorded, and
\* the rows of the others as they are known.
LEMMA CalmWrite ==
  ASSUME TypeOK, PlaceInv, OrderInv, CalmInv, AutoWrite, disturbed'["auto"] = {}
  PROVE  CalmInv'
<1> DEFINE puts == Records(upd["auto"])
<1>1. upd["auto"] \in SUBSET Items
  BY TwoScans DEF TypeOK
<1>2. ASSUME NEW k \in DOMAIN puts
      PROVE  /\ Columns(puts[k]) \in Rows /\ Columns(puts[k]).state = 0
             /\ Columns(puts[k]).of = disk[k] /\ Present(k) /\ ~Unlisted(k)
  <2>1. puts[k] \in Rows
    BY <1>1, RecordsOf
  <2>2. PICK i \in upd["auto"] : i.key = k /\ puts[k] = Record(i)
    BY <1>1, RecordsOf
  <2>3. i \in Items /\ Present(k) /\ ~Unlisted(k) /\ i.ver = disk[k]
    BY <1>1, <2>2, WrittenCalmly DEF AutoWrite, CalmInv
  <2>4. QED BY <2>1, <2>2, <2>3, RowTypes
<1>3. \A k \in Keys : Unrecorded(k) => k \in DOMAIN puts
  BY DEF Unrecorded, Records
<1> HIDE DEF puts
<1>4. /\ disturbed["auto"] = {}
      /\ table' = [k \in Keys |-> IF Refused(k) \/ k \notin DOMAIN puts THEN table[k]
                                  ELSE Columns(puts[k])]
  BY WrittenCalmly DEF AutoWrite, puts
<1>5. /\ pc["auto"] = "write" /\ pc'["auto"] = "enter" /\ upd'["auto"] = {}
      /\ UNCHANGED <<disk, closed, paths, todo, here, found>>
  BY TwoScans DEF AutoWrite, Goto, TypeOK, disks
<1>6. \A k \in Keys : (Present(k)' <=> Present(k)) /\ (Unlisted(k)' <=> Unlisted(k))
  BY <1>5 DEF Present, Unlisted
<1>7. ASSUME NEW k \in Keys
      PROVE  IF Present(k)' /\ ~Unlisted(k)'
               THEN found'[k] = NoRow /\ (Good(k)' \/ Unrecorded(k)' \/ Refused(k))
               ELSE found'[k] = table'[k]
  <2>1. IF Present(k) /\ ~Unlisted(k)
          THEN found[k] = NoRow /\ (Good(k) \/ Unrecorded(k) \/ Refused(k)) ELSE found[k] = table[k]
    BY <1>4, <1>5 DEF CalmInv
  <2>2. CASE k \in DOMAIN puts
    BY <1>2, <1>4, <1>5, <1>6, <2>1, <2>2 DEF Good
  <2>3. CASE k \notin DOMAIN puts
    <3>1. ~Unrecorded(k) /\ table'[k] = table[k]
      BY <1>3, <1>4, <2>3
    <3>2. Good(k)' <=> Good(k)
      BY <1>5, <3>1 DEF Good
    <3>3. QED BY <1>5, <1>6, <2>1, <3>1, <3>2
  <2>4. QED BY <2>2, <2>3
<1>8. todo'["auto"] \subseteq paths' /\ \A k \in Keys : Refused(k)' <=> Refused(k)
  BY <1>4, <1>5 DEF CalmInv, Refused
<1>9. QED BY <1>5, <1>7, <1>8 DEF CalmInv

LEMMA CalmStep ==
  ASSUME TypeOK, PlaceInv, OrderInv, FoundInv, CalmInv, Next
  PROVE  CalmInv'
<1> USE TwoScans DEF disks, store, history, Goto
<1>1. CASE AutoStart
  BY <1>1, CalmAtRest DEF AutoStart, PlaceInv, Running, Start, TypeOK
<1>2. CASE AutoReadPath
  <2>1. SUFFICES ASSUME disturbed'["auto"] = {} PROVE CalmInv'
    BY DEF CalmInv
  <2>2. todo'["auto"] = paths' /\ pc'["auto"] = "files" /\ upd'["auto"] = {}
    BY <1>2 DEF AutoReadPath, PlaceInv, TypeOK
  <2>3. QED BY <2>2 DEF CalmInv
<1>3. CASE AutoReadFiles
  <2>1. SUFFICES ASSUME disturbed'["auto"] = {} PROVE CalmInv'
    BY DEF CalmInv
  <2>2. found' = table /\ disturbed' = disturbed
    BY <1>3, <2>1 DEF AutoReadFiles, Fault, NoFault, Disturb
  <2>3. /\ todo'["auto"] = paths' /\ pc'["auto"] = "enter" /\ upd'["auto"] = {} /\ table' = table
    BY <1>3, <2>1, <2>2 DEF AutoReadFiles, PlaceInv, TypeOK, CalmInv
  <2>4. \A k \in Keys : Present(k)' => Unlisted(k)'
    BY <2>3 DEF Present, Unlisted
  <2>5. QED BY <2>2, <2>3, <2>4 DEF CalmInv
<1>4. CASE AutoList
  <2>1. SUFFICES ASSUME disturbed'["auto"] = {} PROVE CalmInv'
    BY DEF CalmInv
  <2>2. QED BY <1>4, <2>1, CalmList DEF AutoList
<1>5. CASE AutoUpload
  <2>1. /\ pc["auto"] = "upload" /\ pc'["auto"] = "write"
        /\ UNCHANGED <<disk, closed, paths, table, todo, here, found, upd, disturbed>>
    BY <1>5 DEF AutoUpload, TypeOK
  <2>2. QED BY <2>1 DEF CalmInv, Present, Unlisted, Unrecorded, Good, Refused
<1>6. CASE AutoWrite
  <2>1. SUFFICES ASSUME disturbed'["auto"] = {} PROVE CalmInv'
    BY DEF CalmInv
  <2>2. QED BY <1>6, <2>1, CalmWrite
<1>7. CASE AutoRemaining
  <2>1. pc'["auto"] = "idle" /\ upd'["auto"] = {}
    BY <1>7 DEF AutoRemaining, End, TypeOK
  <2>2. QED BY <2>1, CalmAtRest
<1>8. CASE ManualStart
  <2>1. Start("manual") /\ pc'["auto"] = pc["auto"] /\ UNCHANGED upd
    BY <1>8 DEF ManualStart, TypeOK
  <2>2. CASE pc["auto"] = "idle"
    BY <2>1, <2>2, CalmAtRest DEF PlaceInv
  <2>3. CASE pc["auto"] # "idle"
    <3>1. disturbed'["auto"] # {}
      BY <2>1, <2>3, StartTypes DEF Running
    <3>2. QED BY <3>1 DEF CalmInv
  <2>4. QED BY <2>2, <2>3
<1>9. CASE ManualReadPath \/ ManualWritePath \/ ManualWriteFiles
  <2>1. /\ NoFault \/ Fault("manual")
        /\ pc["manual"] # "idle" /\ pc'["auto"] = pc["auto"] /\ upd'["auto"] = upd["auto"]
    BY <1>9 DEF ManualReadPath, ManualWritePath, ManualWriteFiles, WriteFiles, End, TypeOK
  <2>2. QED BY <2>1, FaultTypes, CalmAlone
<1>10. CASE ManualList \/ ManualUpload
  <2>1. /\ UNCHANGED disturbed
        /\ pc["manual"] # "idle" /\ pc'["auto"] = pc["auto"] /\ upd'["auto"] = upd["auto"]
    BY <1>10 DEF ManualList, ManualUpload, End, TypeOK
  <2>2. QED BY <2>1, CalmAlone
<1>11. CASE Enter("manual")
  <2>1. /\ UNCHANGED disturbed
        /\ pc["manual"] # "idle" /\ pc'["auto"] = pc["auto"] /\ upd'["auto"] = upd["auto"]
    BY <1>11 DEF Enter, TypeOK
  <2>2. QED BY <2>1, CalmAlone
<1>12. CASE Enter("auto")
  <2>1. SUFFICES ASSUME disturbed["auto"] = {} PROVE CalmInv'
    BY <1>12 DEF CalmInv, Enter
  <2>2. PICK d \in todo["auto"] :
          /\ todo' = [todo EXCEPT !["auto"] = @ \ {d}] /\ here' = [here EXCEPT !["auto"] = d]
          /\ IF d \in closed THEN UNCHANGED pc ELSE pc' = [pc EXCEPT !["auto"] = "list"]
    BY <1>12 DEF Enter
  <2>3. /\ pc["auto"] = "enter" /\ upd["auto"] = {} /\ upd' = upd /\ todo["auto"] \subseteq paths
        /\ UNCHANGED <<disk, closed, paths, table, found>>
    BY <1>12, <2>1 DEF Enter, CalmInv, PlaceInv
  <2>4. /\ todo'["auto"] = todo["auto"] \ {d} /\ here'["auto"] = d
        /\ pc'["auto"] = IF d \in closed THEN "enter" ELSE "list"
    BY <2>2, <2>3 DEF TypeOK
  <2>5. \A k \in Keys : Present(k) => (Unlisted(k)' <=> Unlisted(k))
    BY <2>3, <2>4 DEF Present, Unlisted
  <2>6. \A k \in Keys : (Present(k)' <=> Present(k)) /\ (Good(k)' <=> Good(k)) /\ ~Unrecorded(k)
    BY <2>3 DEF Present, Good, Unrecorded
  <2>7. ASSUME NEW k \in Keys
        PROVE  IF Present(k)' /\ ~Unlisted(k)'
                 THEN found'[k] = NoRow /\ (Good(k)' \/ Unrecorded(k)' \/ Refused(k))
                 ELSE found'[k] = table'[k]
    BY <2>1, <2>3, <2>5, <2>6 DEF CalmInv
  <2>8. \A k \in Keys : Refused(k)' <=> Refused(k)
    BY DEF Refused
  <2>9. QED BY <2>2, <2>3, <2>4, <2>7, <2>8 DEF CalmInv
<1>13. CASE ScanThrows \/ ProcessEnds
  <2>1. pc'["auto"] = "idle" /\ upd'["auto"] = {}
    BY <1>13 DEF ScanThrows, ProcessEnds, Ended
  <2>2. QED BY <2>1, CalmAtRest
<1>14. CASE Edit
  <2>1. disturbed'["auto"] # {}
    BY <1>14 DEF Edit, Disturb
  <2>2. QED BY <2>1 DEF CalmInv
<1>15. CASE Tick \/ AddMonitoringDirectory
  <2>1. UNCHANGED <<disk, closed, paths, table, pc, todo, here, found, upd, disturbed>>
    BY <1>15 DEF Tick, AddMonitoringDirectory
  <2>2. QED BY <2>1 DEF CalmInv, Present, Unlisted, Unrecorded, Good, Refused
<1>16. QED
  BY <1>1, <1>2, <1>3, <1>4, <1>5, <1>6, <1>7, <1>8, <1>9, <1>10, <1>11, <1>12, <1>13, <1>14,
     <1>15 DEF Next

-----------------------------------------------------------------------------
\* The theorems.

LEMMA ScanInit == Init => ScanInv /\ StrayNeedsTwo
<1> SUFFICES ASSUME Init PROVE ScanInv /\ StrayNeedsTwo
  OBVIOUS
<1>1. strayed \in [Scans -> BOOLEAN] /\ \A s \in Scans : ~strayed[s]
  BY Zenon DEF Init
<1>2. TypeOK
  BY <1>1, TwoScans DEF Init, TypeOK, Unread
<1>3. PlaceInv /\ OrderInv /\ FoundInv /\ QuotedInv /\ CalmInv
  BY TwoScans DEF Init, PlaceInv, OrderInv, FoundInv, QuotedInv, CalmInv, Unread
<1>4. QED BY <1>1, <1>2, <1>3 DEF ScanInv, StrayNeedsTwo

LEMMA ScanStutter == ScanInv /\ StrayNeedsTwo /\ UNCHANGED vars => ScanInv' /\ StrayNeedsTwo'
BY DEF vars, disks, store, history, ScanInv, TypeOK, PlaceInv, OrderInv, FoundInv, QuotedInv, CalmInv,
       StrayNeedsTwo, Present, Unlisted, Unrecorded, Good, Refused

\* Whatever the scans, changes, faults and ends of the process do, and in
\* whatever order: the types, where the scans are, what was ordered, that no name
\* with an apostrophe is stored (494, 562), and what an automatic scan that
\* nothing disturbed knows (258-432).
THEOREM ScanInvariance == Spec => [](ScanInv /\ StrayNeedsTwo)
<1>1. ScanInv /\ StrayNeedsTwo /\ [Next]_vars => (ScanInv /\ StrayNeedsTwo)'
  <2> SUFFICES ASSUME ScanInv, StrayNeedsTwo, [Next]_vars PROVE (ScanInv /\ StrayNeedsTwo)'
    OBVIOUS
  <2>1. CASE Next
    <3>1. TypeOK'
      BY <2>1, AutoTypes, ManualTypes, OtherTypes DEF Next, ScanInv
    <3>2. QED BY <2>1, <3>1, PlaceStep, StrayStep, OrderStep, FoundStep, QuotedStep, CalmStep
         DEF ScanInv
  <2>2. CASE UNCHANGED vars
    BY <2>2, ScanStutter
  <2>3. QED BY <2>1, <2>2
<1>2. QED BY ScanInit, <1>1, PTL DEF Spec

\* Type correctness of the scans, their databases and the disk.
THEOREM ScanTypes == Spec => []TypeOK
BY ScanInvariance, PTL DEF ScanInv

\* A row that says "uploaded" is backed by an order for that very version,
\* wherever the process has ended (312, 313).
THEOREM RecordBackedHolds == Spec => []RecordBacked
<1>1. ScanInv => RecordBacked
  BY DEF ScanInv, OrderInv, RecordBacked
<1>2. QED BY ScanInvariance, <1>1, PTL

\* It takes a second scan to make a scan list another directory (272, 368).
THEOREM StrayNeedsTwoHolds == Spec => []StrayNeedsTwo
BY ScanInvariance, PTL

\* The last step of an automatic scan that nothing disturbed, for one row.
LEMMA CalmRemaining ==
  ASSUME ScanInv, AutoRemaining, disturbed'["auto"] = {}, NEW k \in Keys
  PROVE  /\ disk' = disk
         /\ Refused(k) => table'[k] = NoRow /\ table[k] = NoRow
         /\ Present(k) /\ ~Refused(k) => Good(k) /\ table'[k] = table[k]
         /\ ~Present(k) /\ table[k] = NoRow => table'[k] = NoRow
         /\ ~Present(k) /\ Expired(table[k]) => table'[k] = NoRow
         /\ ~Present(k) /\ table[k] # NoRow /\ ~Expired(table[k]) =>
              table'[k] # NoRow /\ table'[k].state > 0
<1> USE TwoScans DEF disks, store, history
<1> DEFINE marks == [j \in {j \in Keys : Unmarked(found[j])} |-> [found[j] EXCEPT !.state = curTime]]
           dels == {j \in Keys : Expired(found[j])}
<1>1. TypeOK /\ PlaceInv /\ QuotedInv /\ CalmInv
  BY DEF ScanInv
<1>2. pc["auto"] = "enter" /\ todo["auto"] = {} /\ upd["auto"] = {} /\ disk' = disk
  BY <1>1 DEF AutoRemaining, PlaceInv
<1>3. /\ disturbed["auto"] = {}
      /\ table' = [j \in Keys |->
                     IF Refused(j) \/ j \notin DOMAIN marks \cup dels THEN table[j]
                     ELSE IF j \in dels THEN NoRow ELSE Columns(marks[j])]
  <2>1. CASE DOMAIN marks \cup dels = {}
    <3>1. table' = table /\ disturbed' = disturbed
      BY <2>1 DEF AutoRemaining, NoFault
    <3>2. table = [j \in Keys |-> table[j]]
      BY <1>1 DEF TypeOK
    <3> HIDE DEF marks, dels
    <3>3. QED BY <2>1, <3>1, <3>2
  <2>2. CASE DOMAIN marks \cup dels # {}
    <3>1. WriteFiles("auto", marks, dels)
      BY <2>2 DEF AutoRemaining
    <3> HIDE DEF marks, dels
    <3>2. QED BY <1>1, <3>1, WrittenCalmly
  <2>3. QED BY <2>1, <2>2
<1>4. curTime \in 1 .. MaxTime
  BY <1>1, <1>2 DEF PlaceInv, TypeOK
<1>5. IF Present(k) THEN found[k] = NoRow /\ (Good(k) \/ Refused(k)) ELSE found[k] = table[k]
  BY <1>1, <1>2, <1>3 DEF CalmInv, Unlisted, Unrecorded
<1>6. k \in DOMAIN marks => /\ found[k] \in Rows
                            /\ Columns(marks[k]) \in Rows /\ Columns(marks[k]).state = curTime
  <2>1. SUFFICES ASSUME k \in DOMAIN marks
                 PROVE  /\ found[k] \in Rows
                        /\ Columns(marks[k]) \in Rows /\ Columns(marks[k]).state = curTime
    OBVIOUS
  <2>2. found[k] \in Rows /\ marks[k] = [found[k] EXCEPT !.state = curTime]
    BY <1>1, <2>1 DEF TypeOK, Unmarked
  <2> HIDE DEF marks
  <2>3. marks[k] \in Rows /\ marks[k].state = curTime
    BY <1>4, <2>2, MarkedRows
  <2>4. QED BY <2>2, <2>3, RowTypes
<1>7. /\ k \in dels <=> Expired(found[k])
      /\ k \in DOMAIN marks <=> Unmarked(found[k])
  OBVIOUS
<1>8. table[k] \in Rows \cup {NoRow}
  BY <1>1 DEF TypeOK
<1> HIDE DEF marks, dels
<1>9. Refused(k) => table'[k] = NoRow /\ table[k] = NoRow
  BY <1>1, <1>3 DEF QuotedInv
<1>10. CASE Present(k)
  <2>1. ~Expired(found[k]) /\ ~Unmarked(found[k])
    BY <1>5, <1>10 DEF Expired, Unmarked
  <2>2. QED BY <1>2, <1>3, <1>5, <1>7, <1>9, <1>10, <2>1
<1>11. CASE ~Present(k)
  <2>1. found[k] = table[k]
    BY <1>5, <1>11
  <2>2. table[k] = NoRow => ~Expired(table[k]) /\ ~Unmarked(table[k])
    BY DEF Expired, Unmarked
  <2>3. ASSUME table[k] # NoRow, ~Expired(table[k])
        PROVE  table'[k] # NoRow /\ table'[k].state > 0
    <3>1. CASE Unmarked(table[k])
      BY <1>3, <1>4, <1>6, <1>7, <1>9, <2>1, <2>3, <3>1
    <3>2. CASE ~Unmarked(table[k])
      <4>1. table[k] \in Rows /\ table[k].state \in 0 .. MaxTime
        BY <1>8, <2>3 DEF Rows
      <4>2. table[k].state > 0
        BY <2>3, <3>2, <4>1 DEF Unmarked
      <4>3. QED BY <1>3, <1>7, <2>1, <2>3, <3>2, <4>2
    <3>3. QED BY <3>1, <3>2
  <2>4. QED BY <1>2, <1>3, <1>7, <1>9, <1>11, <2>1, <2>2, <2>3
<1>12. QED BY <1>10, <1>11

\* However many scans were disturbed, crashed or failed before, and whatever
\* directories the program adds meanwhile: one that is left alone makes the record
\* what the disk is in the directories it has read, pictures with an apostrophe in
\* their name excepted (258-339, 573).
THEOREM ScanSettlesHolds == Spec => ScanSettles
<1> DEFINE Settles ==
             AutoRemaining /\ disturbed'["auto"] = {} =>
               \A k \in Keys :
                 IF Present(k) /\ ~Refused(k) THEN Good(k)'
                                              ELSE table'[k] # NoRow => table'[k].state > 0
<1>1. ScanInv /\ [Next]_vars => [Settles]_vars
  <2> SUFFICES ASSUME ScanInv, AutoRemaining, disturbed'["auto"] = {}, NEW k \in Keys
               PROVE  IF Present(k) /\ ~Refused(k) THEN Good(k)'
                                                   ELSE table'[k] # NoRow => table'[k].state > 0
    OBVIOUS
  <2> QED  BY CalmRemaining DEF Good
<1>2. QED BY <1>1, ScanInvariance, PTL DEF Spec, ScanSettles

\* Such a scan deletes a row only when it has long been marked (321-327).
THEOREM DeletesOldHolds == Spec => DeletesOld
<1>1. ScanInv /\ [Next]_vars =>
        [\A k \in Keys :
           AutoRemaining /\ disturbed'["auto"] = {} /\ table[k] # NoRow /\ table'[k] = NoRow
             => table[k].state > 0 /\ now - table[k].state > DELETE_INTERVAL]_vars
  <2> SUFFICES ASSUME ScanInv, NEW k \in Keys, AutoRemaining, disturbed'["auto"] = {},
                      table[k] # NoRow, table'[k] = NoRow
               PROVE  table[k].state > 0 /\ now - table[k].state > DELETE_INTERVAL
    OBVIOUS
  <2>1. Expired(table[k])
    BY CalmRemaining
  <2>2. table[k] \in Rows /\ table[k].state \in 0 .. MaxTime
    BY DEF ScanInv, TypeOK, Rows
  <2>3. curTime \in 1 .. now /\ now \in 1 .. MaxTime
    BY DEF ScanInv, PlaceInv, TypeOK, AutoRemaining
  <2>4. QED BY <2>1, <2>2, <2>3 DEF Expired
<1>2. QED BY <1>1, ScanInvariance, PTL DEF Spec, DeletesOld

\* For any directories, files and histories: an automatic scan uploads every
\* picture it lists once more, since sprintf leaves no row with the words that
\* are compared (562, 290).
THEOREM ListedAgainHolds == Spec => ListedAgain
<1>1. ScanInv /\ [Next]_vars =>
        [AutoList => {i.key : i \in upd'["auto"]} = {i.key : i \in Listed("auto")}]_vars
  <2> SUFFICES ASSUME ScanInv, AutoList
               PROVE  {i.key : i \in upd'["auto"]} = {i.key : i \in Listed("auto")}
    OBVIOUS
  <2>1. TypeOK /\ FoundInv
    BY DEF ScanInv
  <2>2. upd'["auto"] = {WithCID(i) : i \in {j \in Listed("auto") : Needed(j)}}
    BY <2>1, TwoScans DEF AutoList, TypeOK
  <2>3. \A i \in Listed("auto") : i \in Items
    BY <2>1, TwoScans, ListedItems DEF AutoList, ScanInv, PlaceInv
  <2>4. ASSUME NEW i \in Listed("auto")
        PROVE  Needed(i) /\ WithCID(i).key = i.key
    BY <2>1, <2>3, AllNeeded, CIDItems
  <2>5. upd'["auto"] = {WithCID(i) : i \in Listed("auto")}
    BY Zenon, <2>2, <2>4
  <2>6. QED BY <2>4, <2>5
<1>2. QED BY <1>1, ScanInvariance, PTL DEF Spec, ListedAgain
=============================================================================
