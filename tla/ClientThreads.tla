---------------------------- MODULE ClientThreads ----------------------------
(***************************************************************************)
(* The client library's threads (disk_scan.cpp) and the client program     *)
(* that starts them (disk_scan_client.cpp): which mutex each thread waits  *)
(* for and which one it releases, the steps of its calls to the two SQLite *)
(* databases with the file locks those take, and the messages it posts.    *)
(*                                                                         *)
(* A row is a key and the thread that stored it; what the scans put into a *)
(* row is PictureScan's matter.  A scan writes the files of at most one    *)
(* directory before it writes the remaining rows.                          *)
(***************************************************************************)
EXTENDS Naturals, Sequences

CONSTANTS
  CallLists,    \* what the program may call before it waits for messages
  MaxCalls,     \* the most of them
  Paths,        \* directories, keys of scan_path.dat
  Files,        \* picture files, keys of scan_file.dat
  Quoted,       \* keys with an apostrophe
  Found,        \* directories the scan process answers with
  Asked,        \* directories a manual scan is asked for
  Recorded,     \* files a scan records
  Stored,       \* what the databases may hold at the start
  MaxFailures,  \* databases that cannot be opened or written
  Nobody

\* The thread of the n-th call, and the one its FINISH makes the program add.
Threads == (1..MaxCalls) \X {"call", "add"}
Mutexes == {"m_MPMutex", "m_MFMutex", "m_IPSMutex"}
Databases == {"path", "file"}
Keys == Paths \cup Files

ASSUME ClientAssumption ==
  /\ MaxCalls \in Nat /\ MaxFailures \in Nat
  /\ \A s \in CallLists : s \in Seq({"dir", "auto", "manual", "load"}) /\ Len(s) <= MaxCalls
  /\ \A S \in Stored : S \in [Databases -> SUBSET (Keys \X Threads)]
  /\ Found \subseteq Paths /\ Asked \subseteq Paths /\ Recorded \subseteq Files

ASSUME NobodyAssumption == Nobody \notin Threads

VARIABLES
  calls, called,     \* the program's calls, and how many it has made
  flags,             \* kinds whose start flag is set
  queue, listening,  \* the program's message queue, and whether there is one
  heard,             \* the paths of the RESULT messages
  op, at,            \* the operation a thread is in, and the step of it
  batch, left,       \* the keys of its call, and those it still has to hand over
  got, told,         \* what its last read returned and its last write answered
  trans, lock,       \* its open transaction and SQLite lock
  owner,             \* who has each mutex
  rows, tables,      \* the databases: their rows, and which have their table
  failures, alive

main == <<calls, called, flags, queue, listening, heard>>
call == <<batch, left, got, told>>
disk == <<rows, tables, failures>>
vars == <<main, op, at, call, trans, lock, owner, disk, alive>>

Kind(t) == IF t[2] = "add" THEN "add" ELSE calls[t[1]]
KeysOf(R) == {r[1] : r \in R}
PathOps == {"ReadPath", "WritePath"}
Reads == {"ReadPath", "ReadFiles"}
FileWrites == {"WriteFiles", "WriteRemaining"}
Writes == {"WritePath"} \cup FileWrites
Posts == {"Result", "Finish", "Success", "Failed", "Done"}
Ops == {"none", "start", "end", "done"} \cup Reads \cup Writes \cup Posts
DbOf(o) == IF o \in PathOps THEN "path" ELSE "file"

\* The steps in which a thread has its mutex, and those in which it uses the
\* database as well.
Inside == {"open", "check", "create", "prepare", "step", "rows", "close"}
InUse(t) == op[t] \in Reads \cup Writes /\ at[t] \in Inside

\* Which operation each kind of thread goes on with.
Order ==
  [dir    |-> {<<"start", "Result">>, <<"Result", "Result">>, <<"start", "Finish">>,
               <<"Result", "Finish">>, <<"start", "end">>, <<"Result", "end">>, <<"Finish", "end">>},
   auto   |-> {<<"start", "ReadPath">>, <<"ReadPath", "ReadFiles">>, <<"ReadFiles", "WriteFiles">>,
               <<"ReadFiles", "WriteRemaining">>, <<"ReadFiles", "end">>,
               <<"WriteFiles", "WriteRemaining">>, <<"WriteFiles", "end">>, <<"WriteRemaining", "end">>},
   manual |-> {<<"start", "ReadPath">>, <<"ReadPath", "WritePath">>, <<"ReadPath", "Failed">>,
               <<"WritePath", "Success">>, <<"Success", "WriteFiles">>, <<"WriteFiles", "end">>,
               <<"Failed", "end">>},
   load   |-> {<<"start", "ReadPath">>, <<"ReadPath", "Done">>, <<"Done", "end">>},
   add    |-> {<<"start", "WritePath">>, <<"start", "Failed">>, <<"WritePath", "Success">>,
               <<"WritePath", "Failed">>, <<"Success", "end">>, <<"Failed", "end">>}]

\* The keys of thread t's next operation: a manual scan forgets the
\* directories it read as monitored (354-364), both scans then record files.
NextBatch(t, o) ==
  CASE o \in FileWrites -> Recorded
    [] Kind(t) = "manual" /\ op[t] = "ReadPath" ->
         batch[t] \ KeysOf(got[t])
    [] OTHER -> batch[t]

\* Mutant of MayDo: the result of WriteMonitoringPath is not looked at (425).
MayDo_IgnoresResult(t, o) ==
  /\ <<op[t], o>> \in Order[Kind(t)]
  /\ o = "Result" => left[t] # {}
  /\ o = "Finish" => left[t] = {}
  /\ o = "WritePath" => NextBatch(t, o) # {}
  /\ op[t] = "start" /\ o = "Failed" => batch[t] = {}

\* Whether the code lets t go on with o.
MayDo(t, o) ==
  /\ <<op[t], o>> \in Order[Kind(t)]
  /\ o = "Result" => left[t] # {}
  /\ o = "Finish" => left[t] = {}
  /\ o = "WritePath" => NextBatch(t, o) # {}
  /\ op[t] = "start" /\ o = "Failed" => batch[t] = {}
  /\ Kind(t) = "add" /\ op[t] = "WritePath" => (told[t] <=> o = "Success")

GoOn(t) ==
  \E o \in Ops :
    /\ MayDo(t, o)
    /\ op' = [op EXCEPT ![t] = o]
    /\ at' = [at EXCEPT ![t] = "wait"]
    /\ IF o \in Reads \cup Writes
         THEN /\ batch' = [batch EXCEPT ![t] = NextBatch(t, o)]
              /\ left' = [left EXCEPT ![t] = NextBatch(t, o)]
              /\ got' = [got EXCEPT ![t] = {}]
              /\ told' = [told EXCEPT ![t] = FALSE]
         ELSE UNCHANGED call

Init ==
  /\ calls \in CallLists /\ called = 0 /\ flags = {}
  /\ queue = <<>> /\ listening = FALSE /\ heard = {}
  /\ op = [t \in Threads |-> "none"] /\ at = [t \in Threads |-> "wait"]
  /\ batch = [t \in Threads |-> {}] /\ left = [t \in Threads |-> {}]
  /\ got = [t \in Threads |-> {}] /\ told = [t \in Threads |-> FALSE]
  /\ trans = [t \in Threads |-> {}] /\ lock = [t \in Threads |-> "none"]
  /\ owner = [m \in Mutexes |-> Nobody]
  /\ rows \in Stored
  /\ tables \in {T \in SUBSET Databases : \A d \in Databases : rows[d] # {} => d \in T}
  /\ failures = 0 /\ alive = TRUE

-----------------------------------------------------------------------------
\* The program's own thread.

\* CreateThread: a new thread, and the request it is given.
Create(t, s) ==
  /\ op[t] = "none"
  /\ op' = [op EXCEPT ![t] = "start"]
  /\ batch' = [batch EXCEPT ![t] = s]
  /\ left' = [left EXCEPT ![t] = s]

\* A start function tests the flags; the thread it creates sets its own.
MayStart(k) ==
  /\ k = "dir" => "dir" \notin flags
  /\ k = "auto" => flags \cap {"auto", "manual"} = {}
  /\ k = "manual" => "manual" \notin flags

Call ==
  /\ called < Len(calls)
  /\ called' = called + 1
  /\ LET k == calls[called + 1]
     IN IF MayStart(k)
          THEN Create(<<called + 1, "call">>,
                      CASE k = "dir" -> Found [] k = "manual" -> Asked [] OTHER -> {})
          ELSE UNCHANGED <<op, batch, left>>
  /\ UNCHANGED <<calls, flags, queue, listening, heard, at, got, told, trans, lock, owner, disk, alive>>

\* The first GetMessage gives the thread a queue; what was posted is lost.
Listen ==
  /\ called = Len(calls) /\ ~listening
  /\ listening' = TRUE
  /\ UNCHANGED <<calls, called, flags, queue, heard, op, at, call, trans, lock, owner, disk, alive>>

\* Mutant of Handle: without directories nothing is added.
Handle_NothingHeard ==
  /\ queue # <<>>
  /\ queue' = Tail(queue)
  /\ LET m == Head(queue)
     IN /\ heard' = IF m.code = "Result" THEN heard \cup {m.path} ELSE heard
        /\ IF m.code = "Finish" /\ heard # {} THEN Create(<<m.from[1], "add">>, heard)
                                                ELSE UNCHANGED <<op, batch, left>>
  /\ UNCHANGED <<calls, called, flags, listening, at, got, told, trans, lock, owner, disk, alive>>

Handle ==
  /\ queue # <<>>
  /\ queue' = Tail(queue)
  /\ LET m == Head(queue)
     IN /\ heard' = IF m.code = "Result" THEN heard \cup {m.path} ELSE heard
        /\ IF m.code = "Finish" THEN Create(<<m.from[1], "add">>, heard)
                                ELSE UNCHANGED <<op, batch, left>>
  /\ UNCHANGED <<calls, called, flags, listening, at, got, told, trans, lock, owner, disk, alive>>

-----------------------------------------------------------------------------
\* The threads.

Begin(t) ==
  /\ op[t] = "start"
  /\ flags' = flags \cup ({Kind(t)} \cap {"dir", "auto", "manual"})
  /\ GoOn(t)
  /\ UNCHANGED <<calls, called, queue, listening, heard, trans, lock, owner, disk, alive>>

\* Mutant of WaitsFor: WriteMonitoringPath waits for the mutex it releases.
WaitsFor_Released(o) ==
  CASE o \in Reads -> "m_MPMutex"
    [] o \in FileWrites -> "m_MFMutex"
    [] OTHER -> "m_IPSMutex"

\* Mutant of Releases: WriteMonitoringPath releases the mutex it waited for.
Releases_Waited(o) ==
  CASE o \in PathOps \cup Reads -> "m_MPMutex"
    [] o \in FileWrites -> "m_MFMutex"
    [] OTHER -> "m_IPSMutex"

\* The mutex each operation waits for, and the one it releases.
WaitsFor(o) ==
  CASE o \in PathOps \cup {"ReadFiles"} -> "m_MPMutex"
    [] o \in FileWrites -> "m_MFMutex"
    [] OTHER -> "m_IPSMutex"

Releases(o) ==
  CASE o \in Reads -> "m_MPMutex"
    [] o \in FileWrites -> "m_MFMutex"
    [] OTHER -> "m_IPSMutex"   \* WriteMonitoringPath too, which waited for m_MPMutex

\* ReleaseMutex by a thread that does not own the mutex changes nothing.
Release(t, m) == owner' = [owner EXCEPT ![m] = IF @ = t THEN Nobody ELSE @]

\* WaitForSingleObject, INFINITE; the owner may take its mutex again.
Wait(t) ==
  /\ op[t] \in Reads \cup Writes \cup Posts /\ at[t] = "wait"
  /\ owner[WaitsFor(op[t])] \in {Nobody, t}
  /\ owner' = [owner EXCEPT ![WaitsFor(op[t])] = t]
  /\ at' = [at EXCEPT ![t] = IF op[t] \in Reads \cup Writes THEN "open" ELSE "post"]
  /\ UNCHANGED <<main, op, call, trans, lock, disk, alive>>

Sent(t, p) == [code |-> op[t], from |-> t, path |-> p]
Deliver(m) == queue' = IF listening THEN Append(queue, m) ELSE queue

\* The callback posts the event, if there is a queue to post it to.
Post(t) ==
  /\ at[t] = "post"
  /\ \/ /\ op[t] = "Result"
        /\ \E p \in left[t] : Deliver(Sent(t, p)) /\ left' = [left EXCEPT ![t] = @ \ {p}]
     \/ op[t] # "Result" /\ Deliver(Sent(t, Nobody)) /\ UNCHANGED left
  /\ at' = [at EXCEPT ![t] = "next"]
  /\ Release(t, "m_IPSMutex")
  /\ UNCHANGED <<calls, called, flags, listening, heard, op, batch, got, told, trans, lock, disk, alive>>

Proceed(t) ==
  /\ at[t] = "next"
  /\ GoOn(t)
  /\ UNCHANGED <<main, trans, lock, owner, disk, alive>>

\* Mutant of End: a mutex stays with its owner when the thread ends.
End_KeepsMutexes(t) ==
  /\ op[t] = "end"
  /\ op' = [op EXCEPT ![t] = "done"]
  /\ flags' = flags \ ({Kind(t)} \cap {"auto", "manual"})
  /\ UNCHANGED <<calls, called, queue, listening, heard, at, call, trans, lock, owner, disk, alive>>

\* The end of a thread resets the flag of a picture scan, and Windows
\* abandons the mutexes the thread still owns.
End(t) ==
  /\ op[t] = "end"
  /\ op' = [op EXCEPT ![t] = "done"]
  /\ flags' = flags \ ({Kind(t)} \cap {"auto", "manual"})
  /\ owner' = [m \in Mutexes |-> IF owner[m] = t THEN Nobody ELSE owner[m]]
  /\ UNCHANGED <<calls, called, queue, listening, heard, at, call, trans, lock, disk, alive>>

-----------------------------------------------------------------------------
\* CDiskScanDB: the steps of one call to a database.

Db(t) == DbOf(op[t])

\* Another connection to the same database holds one of the locks L.
Locked(t, L) == \E u \in Threads \ {t} : Db(u) = Db(t) /\ lock[u] \in L

Fails == failures < MaxFailures /\ failures' = failures + 1

At(t, s) == at' = [at EXCEPT ![t] = s]
Lock(t, l) == lock' = [lock EXCEPT ![t] = l]

Open(t) ==
  /\ at[t] = "open"
  /\ \/ At(t, "check") /\ UNCHANGED failures
     \/ At(t, "close") /\ Fails
  /\ UNCHANGED <<main, op, call, trans, lock, owner, rows, tables, alive>>

\* The statement that looks for the table stays open, with its SHARED lock.
CheckTable(t) ==
  /\ at[t] = "check"
  /\ IF Locked(t, {"pending"})
       THEN At(t, IF op[t] \in Reads THEN "close" ELSE "create") /\ UNCHANGED lock
       ELSE /\ At(t, CASE Db(t) \in tables -> IF op[t] \in Reads THEN "prepare" ELSE "rows"
                       [] op[t] \in Reads -> "close"
                       [] OTHER -> "create")
            /\ Lock(t, "shared")
  /\ UNCHANGED <<main, op, call, trans, owner, disk, alive>>

CreateTable(t) ==
  /\ at[t] = "create"
  /\ \/ /\ Db(t) \notin tables /\ ~Locked(t, {"shared", "reserved", "pending"})
        /\ tables' = tables \cup {Db(t)}
        /\ At(t, "rows") /\ UNCHANGED failures
     \/ /\ Db(t) \in tables \/ Locked(t, {"shared", "reserved", "pending"})
        /\ At(t, "close") /\ UNCHANGED <<tables, failures>>
     \/ At(t, "close") /\ Fails /\ UNCHANGED tables
  /\ UNCHANGED <<main, op, call, trans, lock, owner, rows, alive>>

\* Resets the statement that looked for the table.
Prepare(t) ==
  /\ at[t] = "prepare"
  /\ At(t, "step") /\ Lock(t, "none")
  /\ UNCHANGED <<main, op, call, trans, owner, disk, alive>>

\* The first Step takes the lock under which all the others read.
Step(t) ==
  /\ at[t] = "step"
  /\ At(t, "close")
  /\ IF Locked(t, {"pending"})
       THEN UNCHANGED <<got, lock>>
       ELSE got' = [got EXCEPT ![t] = rows[Db(t)]] /\ Lock(t, "shared")
  /\ UNCHANGED <<main, op, batch, left, told, trans, owner, disk, alive>>

Store == INSTANCE MonitorStore
         WITH Callers <- Threads, asked <- batch

\* Mutant of Insert: without BEGIN each INSERT is a transaction of its own.
Insert_Alone(t) ==
  /\ at[t] = "rows"
  /\ \E k \in left[t] :
       /\ left' = [left EXCEPT ![t] = @ \ {k}]
       /\ rows' = IF k \in Quoted \/ Locked(t, {"shared", "reserved", "pending"})
                    THEN rows ELSE [rows EXCEPT ![Db(t)] = Store!Put(Db(t), @, {k}, t)]
  /\ UNCHANGED <<main, op, at, batch, got, told, trans, lock, owner, tables, failures, alive>>

\* One INSERT of the transaction; its result is not looked at.
Insert(t) ==
  /\ at[t] = "rows"
  /\ \E k \in left[t] :
       /\ left' = [left EXCEPT ![t] = @ \ {k}]
       /\ IF \/ k \in Quoted
             \/ Db(t) = "path" /\ k \in KeysOf(rows["path"])
             \/ Locked(t, {"reserved", "pending"})
            THEN UNCHANGED <<trans, lock>>
            ELSE trans' = [trans EXCEPT ![t] = @ \cup {k}] /\ Lock(t, "reserved")
  /\ UNCHANGED <<main, op, at, batch, got, told, owner, disk, alive>>

\* COMMIT needs every reader gone; refused, it keeps new readers out.
Commit(t) ==
  /\ at[t] = "rows" /\ left[t] = {}
  /\ At(t, "close")
  /\ \/ /\ trans[t] = {} \/ ~Locked(t, {"shared"})
        /\ rows' = [rows EXCEPT ![Db(t)] = Store!Put(Db(t), @, trans[t], t)]
        /\ told' = [told EXCEPT ![t] = TRUE]
        /\ Lock(t, "shared") /\ UNCHANGED failures
     \/ /\ trans[t] # {} /\ Locked(t, {"shared"})
        /\ Lock(t, "pending") /\ UNCHANGED <<rows, told, failures>>
     \/ /\ trans[t] # {} /\ Fails
        /\ Lock(t, "shared") /\ UNCHANGED <<rows, told>>
  /\ trans' = [trans EXCEPT ![t] = {}]
  /\ UNCHANGED <<main, op, batch, left, got, owner, tables, alive>>

Close(t) ==
  /\ at[t] = "close"
  /\ At(t, "next") /\ Lock(t, "none")
  /\ Release(t, Releases(op[t]))
  /\ UNCHANGED <<main, op, call, trans, disk, alive>>

-----------------------------------------------------------------------------
\* The process may end at any time: Windows ends its threads, closes its
\* files and mutexes, and the next transaction rolls an open one back.
ProcessEnds ==
  /\ alive' = FALSE
  /\ op' = [t \in Threads |-> "done"]
  /\ at' = [t \in Threads |-> "wait"]
  /\ trans' = [t \in Threads |-> {}]
  /\ lock' = [t \in Threads |-> "none"]
  /\ owner' = [m \in Mutexes |-> Nobody]
  /\ queue' = <<>>
  /\ UNCHANGED <<calls, called, flags, listening, heard, call, disk>>

Main == alive /\ (Call \/ Listen \/ Handle)

Thread(t) ==
  /\ alive
  /\ \/ Begin(t) \/ Wait(t) \/ Post(t) \/ Proceed(t) \/ End(t)
     \/ Open(t) \/ CheckTable(t) \/ CreateTable(t) \/ Prepare(t) \/ Step(t)
     \/ Insert(t) \/ Commit(t) \/ Close(t)

Next == Main \/ (\E t \in Threads : Thread(t)) \/ (alive /\ ProcessEnds)

\* Windows runs every thread that can run; a mutex that is free goes to a
\* thread that waits for it.
Spec == Init /\ [][Next]_vars /\ WF_vars(Main) /\ \A t \in Threads : WF_vars(Thread(t))

-----------------------------------------------------------------------------
\* The types of the variables.
Messages == [code : {"Result"}, from : Threads, path : Keys]
            \cup [code : Posts \ {"Result"}, from : Threads, path : {Nobody}]

TypeOK ==
  /\ calls \in CallLists /\ called \in 0..Len(calls)
  /\ flags \subseteq {"dir", "auto", "manual"}
  /\ queue \in Seq(Messages) /\ listening \in BOOLEAN /\ heard \subseteq Keys
  /\ op \in [Threads -> Ops]
  /\ at \in [Threads -> Inside \cup {"wait", "post", "next"}]
  /\ batch \in [Threads -> SUBSET Keys] /\ left \in [Threads -> SUBSET Keys]
  /\ got \in [Threads -> SUBSET (Keys \X Threads)] /\ told \in [Threads -> BOOLEAN]
  /\ trans \in [Threads -> SUBSET Keys]
  /\ lock \in [Threads -> {"none", "shared", "reserved", "pending"}]
  /\ owner \in [Mutexes -> Threads \cup {Nobody}]
  /\ rows \in [Databases -> SUBSET (Keys \X Threads)] /\ tables \subseteq Databases
  /\ failures \in 0..MaxFailures /\ alive \in BOOLEAN

\* What keeps the threads apart: where a thread is goes with its operation,
\* inside an operation it has the mutex it waited for, and a manual scan has
\* m_MPMutex from WriteMonitoringPath to its end.
ThreadInv(t) ==
  /\ op[t] \notin {"none", "done"} => Kind(t) \in DOMAIN Order
  /\ op[t] \in {"none", "start", "end", "done"} => at[t] = "wait"
  /\ at[t] \in Inside => op[t] \in Reads \cup Writes /\ owner[WaitsFor(op[t])] = t
  /\ at[t] = "post" => op[t] \in Posts
  /\ op[t] \in FileWrites => Kind(t) \in {"auto", "manual"}
  /\ Kind(t) = "manual" =>
       /\ op[t] # "WriteRemaining"
       /\ (op[t] = "WritePath" /\ at[t] # "wait") \/ op[t] \in {"Success", "WriteFiles"}
            => owner["m_MPMutex"] = t

\* What a thread has when it goes on: m_MFMutex and m_IPSMutex are released by
\* the operation that took them, m_MPMutex stays with a thread that wrote
\* scan_path.dat, which is no automatic scan.
OwnerInv(t) ==
  /\ owner["m_MFMutex"] = t => op[t] \in FileWrites /\ at[t] \in Inside
  /\ owner["m_IPSMutex"] = t => op[t] \in Posts /\ at[t] = "post"
  /\ owner["m_MPMutex"] = t =>
       \/ op[t] \in PathOps \cup Reads /\ at[t] \in Inside
       \/ op[t] = "WritePath" /\ at[t] = "next"
       \/ op[t] \in {"Success", "Failed", "WriteFiles", "end"} /\ Kind(t) # "auto"

\* All of it, of every thread.
ThreadsInv == TypeOK /\ \A t \in Threads : ThreadInv(t)
ClientInv == ThreadsInv /\ \A t \in Threads : OwnerInv(t)

\* What a call has done to the database, at each of its steps: an open
\* transaction holds the keys handed over so far, but for those refused, and
\* only a writer that has begun to insert keeps other writers out.
CallInv(t) ==
  /\ op[t] = "none" => got[t] = {} /\ told[t] = FALSE
  /\ at[t] \in {"create", "rows"} => op[t] \in Writes
  /\ lock[t] \in {"reserved", "pending"} => op[t] \in Writes /\ at[t] \in {"rows", "close"}
  /\ op[t] \in Writes /\ at[t] \in {"wait", "open", "check", "create"} => left[t] = batch[t]
  /\ at[t] # "rows" => trans[t] = {}
  /\ at[t] = "rows" =>
       /\ left[t] \subseteq batch[t]
       /\ trans[t] = {k \in (batch[t] \ left[t]) \ Quoted :
                       Db(t) = "path" => k \notin KeysOf(rows["path"])}

StoreInv == \A t \in Threads : CallInv(t)

\* A thread that waits for a mutex of another one, and that other one.
Holder(t) == owner[WaitsFor(op[t])]
Blocked(t) ==
  op[t] \in Reads \cup Writes \cup Posts /\ at[t] = "wait" /\ Holder(t) \notin {Nobody, t}
Running(t) == op[t] \notin {"none", "done"} /\ ~Blocked(t)

\* Whoever waits, waits for a thread that has not ended, and keeps neither
\* m_IPSMutex nor m_MFMutex from the others: m_MPMutex, which a thread that
\* wrote scan_path.dat still has (482, 500), comes before the other two.
LockOrder ==
  \A t \in Threads : Blocked(t) =>
    /\ op[Holder(t)] \notin {"none", "done"}
    /\ owner["m_IPSMutex"] # t /\ owner["m_MFMutex"] # t

\* So no threads wait for each other in a circle: whoever waits, waits for a
\* thread that can go on, or for one that waits for such a thread.
NoCircularWait ==
  \A t \in Threads : Blocked(t) =>
    Running(Holder(t)) \/ (Blocked(Holder(t)) /\ Running(Holder(Holder(t))))

\* One thread at a time uses scan_path.dat, though a write of it releases
\* another mutex than the one it waited for (482, 500).
PathExclusive ==
  \A t, u \in Threads :
    InUse(t) /\ InUse(u) /\ op[t] \in PathOps /\ op[u] \in PathOps => t = u

\* scan_file.dat is read under m_MPMutex and written under m_MFMutex (511,
\* 547): only an automatic scan writes it while another one reads it, because
\* a manual scan still has m_MPMutex when it writes.
FilesOverlap ==
  \A t, u \in Threads :
    InUse(t) /\ InUse(u) /\ op[t] = "ReadFiles" /\ op[u] \in FileWrites => Kind(u) = "auto"

\* A thread that is told its directories are monitored finds them all in
\* scan_path.dat, but for those SQL cannot quote (418-428).
SuccessIsMonitored ==
  \A t \in Threads :
    (\E i \in 1..Len(queue) : queue[i].from = t /\ queue[i].code = "Success") /\ Kind(t) = "add"
      => batch[t] \ Quoted \subseteq KeysOf(rows["path"])

\* Each call to a database is one step of MonitorStore: all of it or nothing.
StoresWhole == Store!Spec


\* After a FINISH in the program's queue the directories it heard of are
\* added: the thread that does it is created, and ends (48-50).
FinishAdds ==
  \A n \in 1..MaxCalls :
    (\E i \in 1..Len(queue) : queue[i].code = "Finish" /\ queue[i].from[1] = n)
      ~> op[<<n, "add">>] = "done"
=============================================================================
