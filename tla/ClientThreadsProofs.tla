------------------------- MODULE ClientThreadsProofs -------------------------
(***************************************************************************)
(* For any program, any number of threads and any contents of the two      *)
(* databases: the mutexes of the client library keep its threads apart.    *)
(***************************************************************************)
EXTENDS ClientThreads, TLAPS

Kinds == {"dir", "auto", "manual", "load", "add"}

LEMMA KindsOfOrder == DOMAIN Order = Kinds
BY DEF Order, Kinds

\* What the order of the operations gives, without its pairs.
LEMMA OrderFacts ==
  ASSUME NEW k \in Kinds, NEW a, NEW o, <<a, o>> \in Order[k]
  PROVE  /\ o \in {"end"} \cup Reads \cup Writes \cup Posts
         /\ o \in FileWrites => k \in {"auto", "manual"}
         /\ k = "manual" => /\ o # "WriteRemaining"
                            /\ o = "Success" => a = "WritePath"
                            /\ o = "WriteFiles" => a = "Success"
<1> USE DEF Order, Reads, Writes, FileWrites, Posts
<1>1. CASE k = "dir" BY <1>1
<1>2. CASE k = "auto" BY <1>2
<1>3. CASE k = "manual" BY <1>3
<1>4. CASE k = "load" BY <1>4
<1>5. CASE k = "add" BY <1>5
<1>6. QED BY <1>1, <1>2, <1>3, <1>4, <1>5 DEF Kinds

\* A thread that does not move keeps its invariant as long as its mutexes are
\* left alone.
LEMMA OthersKeep ==
  ASSUME NEW u \in Threads, ThreadInv(u), calls' = calls, op'[u] = op[u], at'[u] = at[u],
         \A m \in Mutexes : owner[m] = u => owner'[m] = u
  PROVE  ThreadInv(u)'
<1>1. Kind(u)' = Kind(u) BY DEF Kind
<1>2. WaitsFor(op[u]) \in Mutexes BY DEF WaitsFor, Mutexes
<1>3. "m_MPMutex" \in Mutexes BY DEF Mutexes
<1>4. QED BY <1>1, <1>2, <1>3 DEF ThreadInv, WaitsFor

\* Releasing a mutex takes it from nobody else.
LEMMA ReleaseKeeps ==
  ASSUME TypeOK, NEW t \in Threads, NEW u \in Threads \ {t}, NEW m \in Mutexes, Release(t, m)
  PROVE  \A n \in Mutexes : owner[n] = u => owner'[n] = u
BY DEF Release, TypeOK

LEMMA NextBatchType ==
  ASSUME TypeOK, NEW t \in Threads, NEW o
  PROVE  NextBatch(t, o) \subseteq Keys
BY ClientAssumption DEF NextBatch, TypeOK, Keys

LEMMA GoOnTypes ==
  ASSUME TypeOK, NEW t \in Threads, GoOn(t)
  PROVE  /\ op' \in [Threads -> Ops]
         /\ at' \in [Threads -> Inside \cup {"wait", "post", "next"}]
         /\ batch' \in [Threads -> SUBSET Keys] /\ left' \in [Threads -> SUBSET Keys]
         /\ got' \in [Threads -> SUBSET (Keys \X Threads)] /\ told' \in [Threads -> BOOLEAN]
<1>1. PICK o \in Ops :
        /\ op' = [op EXCEPT ![t] = o]
        /\ at' = [at EXCEPT ![t] = "wait"]
        /\ IF o \in Reads \cup Writes
             THEN /\ batch' = [batch EXCEPT ![t] = NextBatch(t, o)]
                  /\ left' = [left EXCEPT ![t] = NextBatch(t, o)]
                  /\ got' = [got EXCEPT ![t] = {}]
                  /\ told' = [told EXCEPT ![t] = FALSE]
             ELSE UNCHANGED call
  BY Zenon DEF GoOn
<1>2. NextBatch(t, o) \subseteq Keys BY NextBatchType
<1>3. CASE o \in Reads \cup Writes
  <2>1. told' \in [Threads -> BOOLEAN] BY Zenon, <1>1, <1>3 DEF TypeOK
  <2>2. op' \in [Threads -> Ops] /\ at' \in [Threads -> Inside \cup {"wait", "post", "next"}]
    BY <1>1 DEF TypeOK
  <2>3. batch' \in [Threads -> SUBSET Keys] /\ left' \in [Threads -> SUBSET Keys]
    <3>1. /\ batch' = [batch EXCEPT ![t] = NextBatch(t, o)]
          /\ left' = [left EXCEPT ![t] = NextBatch(t, o)]
      BY <1>1, <1>3
    <3>2. QED BY <1>2, <3>1 DEF TypeOK
  <2>4. got' \in [Threads -> SUBSET (Keys \X Threads)]
    <3>1. got' = [got EXCEPT ![t] = {}] BY <1>1, <1>3
    <3>2. QED BY <3>1 DEF TypeOK
  <2>5. QED BY <2>1, <2>2, <2>3, <2>4
<1>4. CASE o \notin Reads \cup Writes BY <1>1, <1>4 DEF TypeOK, call
<1>5. QED BY <1>3, <1>4

LEMMA DbType == ASSUME NEW t PROVE Db(t) \in Databases
BY DEF Db, DbOf, Databases

LEMMA FailsType == ASSUME TypeOK, Fails PROVE failures' \in 0..MaxFailures
BY ClientAssumption DEF Fails, TypeOK

\* What a thread posts is a message the program knows.
LEMMA PostTypes ==
  ASSUME TypeOK, NEW t \in Threads, ThreadInv(t), Post(t)
  PROVE  queue' \in Seq(Messages) /\ left' \in [Threads -> SUBSET Keys]
<1>1. op[t] \in Posts BY DEF Post, ThreadInv
<1>2. CASE op[t] = "Result"
  <2>1. PICK p \in left[t] : Deliver(Sent(t, p)) /\ left' = [left EXCEPT ![t] = @ \ {p}]
    BY <1>2 DEF Post
  <2>2. p \in Keys BY DEF TypeOK
  <2>3. Sent(t, p) \in Messages BY <1>2, <2>2 DEF Sent, Messages
  <2>4. QED BY <2>1, <2>3 DEF Deliver, TypeOK
<1>3. CASE op[t] # "Result"
  <2>1. Deliver(Sent(t, Nobody)) /\ UNCHANGED left BY <1>3 DEF Post
  <2>2. Sent(t, Nobody) \in Messages BY <1>1, <1>3 DEF Sent, Messages
  <2>3. QED BY <2>1, <2>2 DEF Deliver, TypeOK
<1>4. QED BY <1>2, <1>3

LEMMA CommitTypes ==
  ASSUME TypeOK, NEW t \in Threads, Commit(t)
  PROVE  TypeOK'
<1>1. failures' \in 0..MaxFailures
  <2>1. Fails \/ UNCHANGED failures BY Zenon DEF Commit
  <2>2. QED BY <2>1, FailsType DEF TypeOK
<1>2. told' \in [Threads -> BOOLEAN]
  <2>1. told' = [told EXCEPT ![t] = TRUE] \/ UNCHANGED told BY Zenon DEF Commit
  <2>2. QED BY Zenon, <2>1 DEF TypeOK
<1>3. lock' \in [Threads -> {"none", "shared", "reserved", "pending"}]
  <2>1. Lock(t, "shared") \/ Lock(t, "pending") BY Zenon DEF Commit
  <2>2. QED BY <2>1 DEF Lock, TypeOK
<1>4. rows' \in [Databases -> SUBSET (Keys \X Threads)]
  <2>1. \/ rows' = [rows EXCEPT ![Db(t)] = Store!Put(Db(t), @, trans[t], t)]
        \/ UNCHANGED rows
    BY Zenon DEF Commit
  <2>2. Db(t) \in Databases /\ trans[t] \subseteq Keys /\ rows[Db(t)] \subseteq Keys \X Threads
    BY DbType DEF TypeOK
  <2>3. Store!Put(Db(t), rows[Db(t)], trans[t], t) \subseteq Keys \X Threads
    BY <2>2 DEF Store!Put
  <2>4. QED BY <2>1, <2>3 DEF TypeOK
<1>5. UNCHANGED <<main, op, batch, left, got, owner, tables, alive>> /\ At(t, "close")
      /\ trans' = [trans EXCEPT ![t] = {}]
  BY Zenon DEF Commit
<1>6. at' \in [Threads -> Inside \cup {"wait", "post", "next"}] BY <1>5 DEF At, TypeOK, Inside
<1>7. QED BY <1>1, <1>2, <1>3, <1>4, <1>5, <1>6 DEF TypeOK, main

LEMMA Types ==
  ASSUME TypeOK, NEW t \in Threads, ThreadInv(t), Thread(t)
  PROVE  TypeOK'
<1> USE DEF main, call, disk
<1>1. CASE Begin(t) \/ Proceed(t)
  <2>1. GoOn(t) BY <1>1 DEF Begin, Proceed
  <2>2. flags' \subseteq {"dir", "auto", "manual"} BY <1>1 DEF Begin, Proceed, TypeOK
  <2>3. UNCHANGED <<calls, called, queue, listening, heard, trans, lock, owner, disk, alive>>
    BY <1>1 DEF Begin, Proceed
  <2>4. QED BY <2>1, <2>2, <2>3, GoOnTypes DEF TypeOK
<1>2. CASE Wait(t)
  <2>1. WaitsFor(op[t]) \in Mutexes BY DEF WaitsFor, Mutexes
  <2>2. QED BY <1>2, <2>1 DEF Wait, TypeOK, Inside
<1>3. CASE Post(t)
  <2>1. at' \in [Threads -> Inside \cup {"wait", "post", "next"}] BY <1>3 DEF Post, TypeOK
  <2>2. owner' \in [Mutexes -> Threads \cup {Nobody}] BY <1>3 DEF Post, Release, TypeOK
  <2>3. queue' \in Seq(Messages) /\ left' \in [Threads -> SUBSET Keys] BY <1>3, PostTypes
  <2>4. QED BY <1>3, <2>1, <2>2, <2>3 DEF Post, TypeOK
<1>4. CASE End(t) BY <1>4 DEF End, TypeOK, Ops
<1>5. CASE Open(t)
  <2>1. failures' \in 0..MaxFailures BY <1>5, FailsType DEF Open, TypeOK
  <2>2. at' \in [Threads -> Inside \cup {"wait", "post", "next"}]
    BY <1>5 DEF Open, At, TypeOK, Inside
  <2>3. QED BY <1>5, <2>1, <2>2 DEF Open, TypeOK
<1>6. CASE CheckTable(t) BY <1>6 DEF CheckTable, At, Lock, TypeOK, Inside
<1>7. CASE CreateTable(t)
  <2>1. failures' \in 0..MaxFailures BY <1>7, FailsType DEF CreateTable, TypeOK
  <2>2. at' \in [Threads -> Inside \cup {"wait", "post", "next"}]
    BY <1>7 DEF CreateTable, At, TypeOK, Inside
  <2>3. tables' \subseteq Databases BY <1>7, DbType DEF CreateTable, TypeOK
  <2>4. QED BY <1>7, <2>1, <2>2, <2>3 DEF CreateTable, TypeOK
<1>8. CASE Prepare(t) BY <1>8 DEF Prepare, At, Lock, TypeOK, Inside
<1>9. CASE Step(t) BY <1>9 DEF Step, At, Lock, TypeOK, Inside, Db, DbOf, Databases
<1>10. CASE Insert(t) BY <1>10 DEF Insert, Lock, TypeOK
<1>11. CASE Commit(t) BY <1>11, CommitTypes
<1>12. CASE Close(t) BY <1>12 DEF Close, At, Lock, Release, TypeOK, Inside, Releases, Mutexes
<1>13. QED BY <1>1, <1>2, <1>3, <1>4, <1>5, <1>6, <1>7, <1>8, <1>9, <1>10, <1>11, <1>12 DEF Thread

\* Going on, a thread keeps the mutexes it needs for what it goes on with.
LEMMA GoOnInv ==
  ASSUME TypeOK, NEW t \in Threads, ThreadInv(t), GoOn(t), calls' = calls, owner' = owner,
         op[t] \notin {"none", "done"}, op[t] = "start" \/ at[t] = "next"
  PROVE  ThreadInv(t)'
<1>1. PICK o \in Ops : /\ MayDo(t, o)
                       /\ op' = [op EXCEPT ![t] = o]
                       /\ at' = [at EXCEPT ![t] = "wait"]
  BY Zenon DEF GoOn
<1>2. op'[t] = o /\ at'[t] = "wait" BY <1>1 DEF TypeOK
<1>3. Kind(t) \in Kinds /\ Kind(t)' = Kind(t) BY KindsOfOrder DEF ThreadInv, Kind
<1>4. <<op[t], o>> \in Order[Kind(t)] BY <1>1 DEF MayDo
<1>5. /\ o \in {"end"} \cup Reads \cup Writes \cup Posts
      /\ o \in FileWrites => Kind(t) \in {"auto", "manual"}
      /\ Kind(t) = "manual" => /\ o # "WriteRemaining"
                               /\ o = "Success" => op[t] = "WritePath"
                               /\ o = "WriteFiles" => op[t] = "Success"
  BY <1>3, <1>4, OrderFacts
<1>6. Kind(t) = "manual" /\ o \in {"Success", "WriteFiles"} => owner["m_MPMutex"] = t
  BY <1>5 DEF ThreadInv
<1>7. QED BY <1>2, <1>3, <1>5, <1>6, KindsOfOrder DEF ThreadInv, Inside, Reads, Writes, FileWrites, Posts

\* A step inside an operation that leaves the mutexes alone.
LEMMA InsideInv ==
  ASSUME TypeOK, NEW t \in Threads, ThreadInv(t), at[t] \in Inside, at'[t] \in Inside,
         calls' = calls, op' = op, owner' = owner
  PROVE  ThreadInv(t)'
BY DEF ThreadInv, Kind, Inside

\* Close releases what its operation may release: not the m_MPMutex of a
\* manual scan that wrote scan_path.dat.
LEMMA CloseInv ==
  ASSUME TypeOK, NEW t \in Threads, ThreadInv(t), Close(t)
  PROVE  ThreadInv(t)'
<1>1. at[t] = "close" /\ at'[t] = "next" /\ op' = op /\ calls' = calls
  BY DEF Close, At, TypeOK, main
<1>2. Kind(t)' = Kind(t) BY <1>1 DEF Kind
<1>3. op[t] \in Reads \cup Writes BY <1>1 DEF ThreadInv, Inside
<1>4. ASSUME Kind(t) = "manual", op[t] \in {"WritePath", "WriteFiles"}
      PROVE  owner'["m_MPMutex"] = t
  <2>1. owner["m_MPMutex"] = t BY <1>1, <1>4 DEF ThreadInv, Inside
  <2>2. Releases(op[t]) # "m_MPMutex" BY <1>4 DEF Releases, Reads, FileWrites
  <2>3. QED BY <2>1, <2>2 DEF Close, Release, TypeOK, Mutexes
<1>5. QED
  BY <1>1, <1>2, <1>3, <1>4 DEF ThreadInv, Inside, Reads, Writes, FileWrites, Posts

LEMMA WaitInv ==
  ASSUME TypeOK, NEW t \in Threads, ThreadInv(t), Wait(t)
  PROVE  ThreadInv(t)'
<1>1. op' = op /\ calls' = calls BY DEF Wait, main
<1>2. Kind(t)' = Kind(t) BY <1>1 DEF Kind
<1>3. WaitsFor(op[t]) \in Mutexes BY DEF WaitsFor, Mutexes
<1>4. owner'[WaitsFor(op[t])] = t BY <1>3 DEF Wait, TypeOK
<1>5. /\ op[t] \in Reads \cup Writes \cup Posts /\ at[t] = "wait"
      /\ at'[t] = IF op[t] \in Reads \cup Writes THEN "open" ELSE "post"
  BY DEF Wait, TypeOK
<1>6. owner["m_MPMutex"] = t => owner'["m_MPMutex"] = t BY <1>3 DEF Wait, TypeOK, Mutexes
<1>7. op[t] = "WritePath" => owner'["m_MPMutex"] = t
  <2>1. WaitsFor("WritePath") = "m_MPMutex" BY DEF WaitsFor, PathOps, FileWrites
  <2>2. QED BY <1>4, <2>1
<1>8. QED
  BY <1>1, <1>2, <1>4, <1>5, <1>6, <1>7
     DEF ThreadInv, Inside, Reads, Writes, FileWrites, Posts

LEMMA PostInv ==
  ASSUME TypeOK, NEW t \in Threads, ThreadInv(t), Post(t)
  PROVE  ThreadInv(t)'
<1>1. op' = op /\ calls' = calls /\ at[t] = "post" /\ at'[t] = "next" BY DEF Post, TypeOK
<1>2. Kind(t)' = Kind(t) BY <1>1 DEF Kind
<1>3. owner'["m_MPMutex"] = owner["m_MPMutex"] BY DEF Post, Release, TypeOK, Mutexes
<1>4. op[t] \in Posts BY <1>1 DEF ThreadInv
<1>5. QED BY <1>1, <1>2, <1>3, <1>4 DEF ThreadInv, Inside, Posts, FileWrites

LEMMA ThreadKeeps ==
  ASSUME TypeOK, NEW t \in Threads, ThreadInv(t), Thread(t)
  PROVE  ThreadInv(t)'
<1>1. CASE Begin(t) BY <1>1, GoOnInv DEF Begin
<1>2. CASE Wait(t) BY <1>2, WaitInv
<1>3. CASE Post(t) BY <1>3, PostInv
<1>4. CASE Proceed(t)
  <2>1. op[t] \notin {"none", "done"} BY <1>4 DEF Proceed, ThreadInv
  <2>2. QED BY <1>4, <2>1, GoOnInv DEF Proceed, main
<1>5. CASE End(t) BY <1>5 DEF End, ThreadInv, TypeOK, Kind, Inside, FileWrites
<1>6. CASE Open(t) BY <1>6, InsideInv DEF Open, At, TypeOK, Inside, main
<1>7. CASE CheckTable(t)
  <2>1. at'[t] \in Inside BY <1>7 DEF CheckTable, At, TypeOK, Inside
  <2>2. QED BY <1>7, <2>1, InsideInv DEF CheckTable, Inside, main
<1>8. CASE CreateTable(t) BY <1>8, InsideInv DEF CreateTable, At, TypeOK, Inside, main
<1>9. CASE Prepare(t) BY <1>9, InsideInv DEF Prepare, At, TypeOK, Inside, main
<1>10. CASE Step(t) BY <1>10, InsideInv DEF Step, At, TypeOK, Inside, main
<1>11. CASE Insert(t) BY <1>11, InsideInv DEF Insert, Inside, main
<1>12. CASE Commit(t)
  <2>1. /\ UNCHANGED <<main, op, batch, left, got, owner, tables, alive>> /\ At(t, "close")
        /\ at[t] = "rows"
    BY Zenon, <1>12 DEF Commit
  <2>2. QED BY <2>1, InsideInv DEF At, TypeOK, Inside, main
<1>13. CASE Close(t) BY <1>13, CloseInv
<1>14. QED BY <1>1, <1>2, <1>3, <1>4, <1>5, <1>6, <1>7, <1>8, <1>9, <1>10, <1>11, <1>12, <1>13 DEF Thread

LEMMA OthersStay ==
  ASSUME TypeOK, NEW t \in Threads, NEW u \in Threads \ {t}, Thread(t)
  PROVE  calls' = calls /\ op'[u] = op[u] /\ at'[u] = at[u]
<1> USE DEF main, TypeOK, At
<1>1. CASE Begin(t) \/ Proceed(t) BY <1>1 DEF Begin, Proceed, GoOn
<1>2. CASE Commit(t)
  <2>1. UNCHANGED <<main, op>> /\ At(t, "close") BY Zenon, <1>2 DEF Commit
  <2>2. QED BY <2>1
<1>3. CASE CreateTable(t)
  <2>1. UNCHANGED <<main, op>> /\ (At(t, "rows") \/ At(t, "close")) BY Zenon, <1>3 DEF CreateTable
  <2>2. QED BY <2>1
<1>4. CASE Open(t)
  <2>1. UNCHANGED <<main, op>> /\ (At(t, "check") \/ At(t, "close")) BY Zenon, <1>4 DEF Open
  <2>2. QED BY <2>1
<1>5. CASE Wait(t) \/ Post(t) \/ End(t) \/ CheckTable(t) \/ Prepare(t) \/ Step(t) \/ Insert(t) \/ Close(t)
  BY <1>5 DEF Wait, Post, End, CheckTable, Prepare, Step, Insert, Close
<1>6. QED BY <1>1, <1>2, <1>3, <1>4, <1>5 DEF Thread

\* The mutexes one thread takes or releases are not another thread's.
LEMMA OthersMutexes ==
  ASSUME TypeOK, NEW t \in Threads, NEW u \in Threads \ {t}, Thread(t)
  PROVE  \A m \in Mutexes : owner[m] = u => owner'[m] = u
<1>1. CASE Wait(t)
  <2>1. WaitsFor(op[t]) \in Mutexes BY DEF WaitsFor, Mutexes
  <2>2. QED BY <1>1, <2>1, NobodyAssumption DEF Wait, TypeOK
<1>2. CASE Post(t)
  <2>1. "m_IPSMutex" \in Mutexes BY DEF Mutexes
  <2>2. QED BY <1>2, <2>1, ReleaseKeeps DEF Post
<1>3. CASE End(t) BY <1>3 DEF End
<1>4. CASE Close(t)
  <2>1. Releases(op[t]) \in Mutexes BY DEF Releases, Mutexes
  <2>2. QED BY <1>4, <2>1, ReleaseKeeps DEF Close
<1>5. CASE UNCHANGED owner BY <1>5
<1>6. QED
  BY Zenon, <1>1, <1>2, <1>3, <1>4, <1>5
     DEF Thread, Begin, Proceed, Open, CheckTable, CreateTable, Prepare, Step, Insert, Commit

\* The program's own thread creates threads and leaves the others alone.
LEMMA CreateTypes ==
  ASSUME TypeOK, NEW t \in Threads, NEW s \in SUBSET Keys, Create(t, s)
  PROVE  /\ op' \in [Threads -> Ops]
         /\ batch' \in [Threads -> SUBSET Keys] /\ left' \in [Threads -> SUBSET Keys]
BY DEF Create, TypeOK, Ops

LEMMA CreateInv ==
  ASSUME TypeOK, NEW t \in Threads, NEW s, Create(t, s), \A u \in Threads : ThreadInv(u),
         Kind(t) \in Kinds, calls' = calls, at' = at, owner' = owner
  PROVE  \A u \in Threads : ThreadInv(u)'
<1> TAKE u \in Threads
<1>1. CASE u = t
  <2>1. Kind(t)' = Kind(t) BY DEF Kind
  <2>2. op'[t] = "start" /\ op[t] = "none" BY DEF Create, TypeOK
  <2>3. at[t] = "wait" BY <2>2 DEF ThreadInv
  <2>4. QED BY <1>1, <2>1, <2>2, <2>3, KindsOfOrder DEF ThreadInv, Inside, FileWrites
<1>2. CASE u # t
  <2>1. op'[u] = op[u] BY <1>2 DEF Create, TypeOK
  <2>2. QED BY <2>1, OthersKeep
<1>3. QED BY <1>1, <1>2

LEMMA CallKeeps == ASSUME ThreadsInv, Call PROVE ThreadsInv'
<1> DEFINE n == called + 1
           k == calls[n]
<1>0. TypeOK /\ \A u \in Threads : ThreadInv(u) BY DEF ThreadsInv
<1>1. /\ called \in Nat /\ n \in 1..Len(calls) /\ n \in 1..MaxCalls
      /\ calls \in Seq({"dir", "auto", "manual", "load"})
  BY <1>0, ClientAssumption DEF Call, TypeOK
<1>2. k \in {"dir", "auto", "manual", "load"} BY <1>1
<1>3. PICK s \in SUBSET Keys : \/ Create(<<n, "call">>, s)
                               \/ UNCHANGED <<op, batch, left>>
  <2>1. /\ Found \in SUBSET Keys /\ Asked \in SUBSET Keys /\ {} \in SUBSET Keys
    BY ClientAssumption DEF Keys
  <2>2. QED BY <2>1 DEF Call
<1>4. UNCHANGED <<calls, flags, queue, listening, heard, at, got, told, trans, lock, owner, disk, alive>>
      /\ called' = n
  BY DEF Call
<1>5. CASE Create(<<n, "call">>, s)
  <2>1. <<n, "call">> \in Threads BY <1>1 DEF Threads
  <2>2. Kind(<<n, "call">>) \in Kinds BY <1>2 DEF Kind, Kinds
  <2>3. \A u \in Threads : ThreadInv(u)' BY <1>0, <1>4, <1>5, <2>1, <2>2, CreateInv
  <2>4. TypeOK' BY <1>0, <1>1, <1>4, <1>5, <2>1, CreateTypes DEF TypeOK, disk
  <2>5. QED BY <2>3, <2>4 DEF ThreadsInv
<1>6. CASE UNCHANGED <<op, batch, left>>
  <2>1. \A u \in Threads : ThreadInv(u)' BY <1>0, <1>4, <1>6, OthersKeep
  <2>2. TypeOK' BY <1>0, <1>1, <1>4, <1>6 DEF TypeOK, disk
  <2>3. QED BY <2>1, <2>2 DEF ThreadsInv
<1>7. QED BY <1>3, <1>5, <1>6

\* Every message is from a thread of a call, whose number its own thread has.
LEMMA HandleKeeps == ASSUME ThreadsInv, Handle PROVE ThreadsInv'
<1> DEFINE m == Head(queue)
           t == <<m.from[1], "add">>
<1>0. TypeOK /\ \A u \in Threads : ThreadInv(u) BY DEF ThreadsInv
<1>1. m \in Messages /\ queue' \in Seq(Messages) BY <1>0 DEF Handle, TypeOK
<1>2. m.code = "Result" => m.path \in Keys BY <1>1 DEF Messages, Posts
<1>3. heard' \subseteq Keys BY <1>0, <1>2 DEF Handle, TypeOK
<1>4. t \in Threads
  <2>1. m.from \in Threads BY <1>1 DEF Messages
  <2>2. QED BY <2>1 DEF Threads
<1>5. UNCHANGED <<calls, called, flags, listening, at, got, told, trans, lock, owner, disk, alive>>
  BY DEF Handle
<1>6. heard \in SUBSET Keys BY <1>0 DEF TypeOK
<1>7. Create(t, heard) \/ UNCHANGED <<op, batch, left>> BY DEF Handle
<1>8. CASE Create(t, heard)
  <2>1. Kind(t) \in Kinds BY DEF Kind, Kinds
  <2>2. \A u \in Threads : ThreadInv(u)' BY <1>0, <1>4, <1>5, <1>8, <2>1, CreateInv
  <2>3. TypeOK' BY <1>0, <1>1, <1>3, <1>4, <1>5, <1>6, <1>8, CreateTypes DEF TypeOK, disk
  <2>4. QED BY <2>2, <2>3 DEF ThreadsInv
<1>9. CASE UNCHANGED <<op, batch, left>>
  <2>1. \A u \in Threads : ThreadInv(u)' BY <1>0, <1>5, <1>9, OthersKeep
  <2>2. TypeOK' BY <1>0, <1>1, <1>3, <1>5, <1>9 DEF TypeOK, disk
  <2>3. QED BY <2>1, <2>2 DEF ThreadsInv
<1>10. QED BY <1>7, <1>8, <1>9

LEMMA EndsKeeps == ASSUME ThreadsInv, ProcessEnds PROVE ThreadsInv'
<1>1. TypeOK'
  <2>1. alive' \in BOOLEAN BY Zenon DEF ProcessEnds
  <2>2. owner' \in [Mutexes -> Threads \cup {Nobody}] BY DEF ProcessEnds
  <2>3. queue' \in Seq(Messages) BY DEF ProcessEnds
  <2>4. QED BY <2>1, <2>2, <2>3 DEF ThreadsInv, ProcessEnds, TypeOK, Ops, call, disk
<1>2. \A t \in Threads : ThreadInv(t)' BY DEF ProcessEnds, ThreadInv, Inside, FileWrites
<1>3. QED BY <1>1, <1>2 DEF ThreadsInv

LEMMA InitThreads == ASSUME Init PROVE ThreadsInv
<1>1. TypeOK
  <2>1. called \in 0..Len(calls) /\ failures \in 0..MaxFailures BY ClientAssumption DEF Init
  <2>2. told \in [Threads -> BOOLEAN] BY Zenon DEF Init
  <2>3. listening \in BOOLEAN /\ alive \in BOOLEAN BY Zenon DEF Init
  <2>4. rows \in [Databases -> SUBSET (Keys \X Threads)] BY ClientAssumption DEF Init
  <2>5. QED BY <2>1, <2>2, <2>3, <2>4 DEF Init, TypeOK, Ops
<1>2. \A t \in Threads : ThreadInv(t) BY DEF Init, ThreadInv, Inside, FileWrites
<1>3. QED BY <1>1, <1>2 DEF ThreadsInv

LEMMA ThreadsKeep == ASSUME ThreadsInv, [Next]_vars PROVE ThreadsInv'
<1>0. TypeOK /\ \A u \in Threads : ThreadInv(u) BY DEF ThreadsInv
<1>1. CASE Call BY <1>1, CallKeeps
<1>2. CASE Listen
  <2>1. \A u \in Threads : ThreadInv(u)' BY <1>0, <1>2, OthersKeep DEF Listen
  <2>2. listening' \in BOOLEAN BY Zenon, <1>2 DEF Listen
  <2>3. TypeOK' BY <1>0, <1>2, <2>2 DEF Listen, TypeOK, call, disk
  <2>4. QED BY <2>1, <2>3 DEF ThreadsInv
<1>3. CASE Handle BY <1>3, HandleKeeps
<1>4. ASSUME NEW t \in Threads, Thread(t) PROVE ThreadsInv'
  <2>1. TypeOK' BY <1>0, <1>4, Types
  <2>2. ASSUME NEW u \in Threads PROVE ThreadInv(u)'
    <3>1. CASE u = t BY <1>0, <1>4, <3>1, ThreadKeeps
    <3>2. CASE u # t
      <4>1. calls' = calls /\ op'[u] = op[u] /\ at'[u] = at[u]
        BY <1>0, <1>4, <3>2, OthersStay
      <4>2. \A m \in Mutexes : owner[m] = u => owner'[m] = u
        BY <1>0, <1>4, <3>2, OthersMutexes
      <4>3. QED BY <1>0, <4>1, <4>2, OthersKeep
    <3>3. QED BY <3>1, <3>2
  <2>3. QED BY <2>1, <2>2 DEF ThreadsInv
<1>5. CASE ProcessEnds BY <1>5, EndsKeeps
<1>6. CASE UNCHANGED vars
  <2>1. \A u \in Threads : ThreadInv(u)' BY <1>0, <1>6, OthersKeep DEF vars, main
  <2>2. TypeOK' BY <1>0, <1>6 DEF TypeOK, vars, main, call, disk
  <2>3. QED BY <2>1, <2>2 DEF ThreadsInv
<1>7. QED BY <1>1, <1>2, <1>3, <1>4, <1>5, <1>6 DEF Next, Main

-----------------------------------------------------------------------------
\* Which mutexes a thread still has when it waits for another one.

\* What becomes of a thread that wrote scan_path.dat.
LEMMA AfterWrite ==
  ASSUME NEW k \in Kinds, NEW a, NEW o, <<a, o>> \in Order[k]
  PROVE  /\ a = "WritePath" => k # "auto" /\ o \in {"Success", "Failed"}
         /\ a \in {"Success", "Failed", "WriteFiles"} /\ k # "auto" => o \in {"WriteFiles", "end"}
<1> USE DEF Order
<1>1. CASE k = "dir" BY <1>1
<1>2. CASE k = "auto" BY <1>2
<1>3. CASE k = "manual" BY <1>3
<1>4. CASE k = "load" BY <1>4
<1>5. CASE k = "add" BY <1>5
<1>6. QED BY <1>1, <1>2, <1>3, <1>4, <1>5 DEF Kinds

\* No step gives a mutex to another thread.
LEMMA OthersGainNone ==
  ASSUME TypeOK, NEW t \in Threads, NEW u \in Threads \ {t}, Thread(t)
  PROVE  \A m \in Mutexes : owner'[m] = u => owner[m] = u
<1>1. CASE Wait(t)
  <2>1. WaitsFor(op[t]) \in Mutexes BY DEF WaitsFor, Mutexes
  <2>2. QED BY <1>1, <2>1 DEF Wait, TypeOK
<1>2. CASE \E m \in Mutexes : Release(t, m)
  <2>1. PICK m \in Mutexes : Release(t, m) BY <1>2
  <2>2. \A n \in Mutexes : owner'[n] \in {Nobody, owner[n]} BY <2>1 DEF Release, TypeOK
  <2>3. QED BY <2>2, NobodyAssumption
<1>3. CASE End(t) BY <1>3, NobodyAssumption DEF End
<1>4. CASE UNCHANGED owner BY <1>4
<1>5. Post(t) \/ Close(t) => \E m \in Mutexes : Release(t, m)
  <2>1. "m_IPSMutex" \in Mutexes /\ Releases(op[t]) \in Mutexes BY DEF Mutexes, Releases
  <2>2. QED BY Zenon, <2>1 DEF Post, Close
<1>6. QED
  BY Zenon, <1>1, <1>2, <1>3, <1>4, <1>5
     DEF Thread, Begin, Proceed, Open, CheckTable, CreateTable, Prepare, Step, Insert, Commit

LEMMA OwnerStays ==
  ASSUME NEW u \in Threads, OwnerInv(u), calls' = calls, op'[u] = op[u], at'[u] = at[u],
         \A m \in Mutexes : owner'[m] = u => owner[m] = u
  PROVE  OwnerInv(u)'
<1>1. Kind(u)' = Kind(u) BY DEF Kind
<1>2. QED BY <1>1 DEF OwnerInv, Mutexes

\* Going on, a thread has at most m_MPMutex.
LEMMA OwnerGoesOn ==
  ASSUME TypeOK, NEW t \in Threads, ThreadInv(t), OwnerInv(t), GoOn(t), calls' = calls, owner' = owner,
         op[t] \notin {"none", "done"}, op[t] = "start" \/ at[t] = "next"
  PROVE  OwnerInv(t)'
<1>1. PICK o \in Ops : /\ MayDo(t, o)
                       /\ op' = [op EXCEPT ![t] = o]
                       /\ at' = [at EXCEPT ![t] = "wait"]
  BY Zenon DEF GoOn
<1>2. op'[t] = o /\ at'[t] = "wait" BY <1>1 DEF TypeOK
<1>3. Kind(t) \in Kinds /\ Kind(t)' = Kind(t) BY KindsOfOrder DEF ThreadInv, Kind
<1>4. <<op[t], o>> \in Order[Kind(t)] BY <1>1 DEF MayDo
<1>5. /\ op[t] = "WritePath" => Kind(t) # "auto" /\ o \in {"Success", "Failed"}
      /\ op[t] \in {"Success", "Failed", "WriteFiles"} /\ Kind(t) # "auto" => o \in {"WriteFiles", "end"}
  BY <1>3, <1>4, AfterWrite
<1>6. owner["m_MFMutex"] # t /\ owner["m_IPSMutex"] # t
  BY DEF OwnerInv, ThreadInv, FileWrites, Posts, Inside
<1>7. owner["m_MPMutex"] = t => op[t] \in {"WritePath", "Success", "Failed", "WriteFiles", "end"}
                                /\ (op[t] # "WritePath" => Kind(t) # "auto")
  BY DEF OwnerInv, ThreadInv, PathOps, Reads, Inside
<1>8. op[t] # "end" BY <1>3, <1>4 DEF Order, Kinds
<1>9. QED BY <1>2, <1>3, <1>5, <1>6, <1>7, <1>8 DEF OwnerInv

LEMMA OwnerMoves ==
  ASSUME TypeOK, NEW t \in Threads, ThreadInv(t), OwnerInv(t), Thread(t)
  PROVE  OwnerInv(t)'
<1>0. calls' = calls
  BY Zenon DEF Thread, Begin, Wait, Post, Proceed, End, Open, CheckTable, CreateTable,
        Prepare, Step, Insert, Commit, Close, main
<1>k. Kind(t)' = Kind(t) BY <1>0 DEF Kind
<1>1. CASE Begin(t) BY <1>0, <1>1, OwnerGoesOn DEF Begin
<1>2. CASE Proceed(t)
  <2>1. op[t] \notin {"none", "done"} BY <1>2 DEF Proceed, ThreadInv
  <2>2. QED BY <1>0, <1>2, <2>1, OwnerGoesOn DEF Proceed
<1>3. CASE Wait(t)
  <2>1. WaitsFor(op[t]) \in Mutexes BY DEF WaitsFor, Mutexes
  <2>2. /\ op[t] \in Reads \cup Writes \cup Posts /\ at[t] = "wait" /\ op'[t] = op[t]
        /\ at'[t] = IF op[t] \in Reads \cup Writes THEN "open" ELSE "post"
        /\ \A m \in Mutexes \ {WaitsFor(op[t])} : owner'[m] = owner[m]
    BY <1>3, <2>1 DEF Wait, TypeOK
  <2>3. owner["m_MFMutex"] # t /\ owner["m_IPSMutex"] # t BY <2>2 DEF OwnerInv, Inside
  <2>4. owner'["m_MFMutex"] = t => op[t] \in FileWrites
    BY <2>2, <2>3 DEF WaitsFor, Mutexes, FileWrites
  <2>5. owner'["m_IPSMutex"] = t => op[t] \in Posts
    BY <2>2, <2>3 DEF WaitsFor, Mutexes, Reads, Writes, FileWrites, PathOps
  <2>6. owner'["m_MPMutex"] = t => \/ op[t] \in PathOps \cup Reads
                                   \/ op[t] \in {"Success", "Failed", "WriteFiles", "end"} /\ Kind(t) # "auto"
    BY <2>2 DEF WaitsFor, Mutexes, OwnerInv, Inside, Reads, PathOps
  <2>7. QED
    BY <1>k, <2>2, <2>4, <2>5, <2>6 DEF OwnerInv, Inside, Reads, Writes, FileWrites, PathOps, Posts
<1>4. CASE Post(t)
  <2>1. /\ at[t] = "post" /\ at'[t] = "next" /\ op'[t] = op[t] /\ owner'["m_IPSMutex"] # t
        /\ \A m \in Mutexes \ {"m_IPSMutex"} : owner'[m] = owner[m]
    BY <1>4, NobodyAssumption DEF Post, Release, TypeOK, Mutexes
  <2>2. QED BY <1>k, <2>1 DEF OwnerInv, Inside, Mutexes
<1>5. CASE End(t)
  <2>1. \A m \in Mutexes : owner'[m] # t BY <1>5, NobodyAssumption DEF End
  <2>2. QED BY <2>1 DEF OwnerInv, Mutexes
<1>6. CASE Close(t)
  <2>1. Releases(op[t]) \in Mutexes BY DEF Releases, Mutexes
  <2>2. /\ at[t] = "close" /\ at'[t] = "next" /\ op'[t] = op[t] /\ owner'[Releases(op[t])] # t
        /\ \A m \in Mutexes \ {Releases(op[t])} : owner'[m] = owner[m]
    BY <1>6, <2>1, NobodyAssumption DEF Close, At, Release, TypeOK, main
  <2>3. owner'["m_MFMutex"] # t
    <3>1. owner["m_MFMutex"] = t => Releases(op[t]) = "m_MFMutex"
      BY DEF OwnerInv, Releases, FileWrites, Reads
    <3>2. QED BY <2>2, <3>1 DEF Mutexes
  <2>4. owner'["m_IPSMutex"] # t BY <2>2 DEF OwnerInv, Mutexes
  <2>5. owner'["m_MPMutex"] = t => owner["m_MPMutex"] = t /\ op[t] \notin Reads
    <3>1. op[t] \in Reads => Releases(op[t]) = "m_MPMutex" BY DEF Releases, Reads, FileWrites
    <3>2. QED BY <2>2, <3>1 DEF Mutexes
  <2>6. QED BY <1>k, <2>2, <2>3, <2>4, <2>5 DEF OwnerInv, PathOps, Reads
<1>7. CASE \/ Open(t) \/ CheckTable(t) \/ CreateTable(t) \/ Prepare(t) \/ Step(t)
           \/ Insert(t) \/ Commit(t)
  <2>1. op' = op /\ owner' = owner
    BY Zenon, <1>7 DEF Open, CheckTable, CreateTable, Prepare, Step, Insert, Commit, main
  <2>2. at[t] \in Inside
    BY Zenon, <1>7 DEF Open, CheckTable, CreateTable, Prepare, Step, Insert, Commit, Inside
  <2>3. at'[t] \in Inside
    <3>1. CASE UNCHANGED at BY <2>2, <3>1
    <3>2. CASE \E s \in Inside : At(t, s) BY <3>2 DEF At, TypeOK
    <3>3. {"check", "close", "prepare", "rows", "create", "step"} \subseteq Inside BY DEF Inside
    <3>4. CASE CheckTable(t) BY <3>4 DEF CheckTable, At, TypeOK, Inside
    <3>5. QED
      BY Zenon, <1>7, <3>1, <3>2, <3>3, <3>4 DEF Open, CreateTable, Prepare, Step, Insert, Commit
  <2>4. QED BY <1>k, <2>1, <2>2, <2>3 DEF OwnerInv, Inside
<1>8. QED BY <1>1, <1>2, <1>3, <1>4, <1>5, <1>6, <1>7 DEF Thread

LEMMA InitInv == ASSUME Init PROVE ClientInv
<1>1. \A t \in Threads : OwnerInv(t) BY NobodyAssumption DEF Init, OwnerInv, Mutexes
<1>2. QED BY <1>1, InitThreads DEF ClientInv

LEMMA NextKeeps == ASSUME ClientInv, [Next]_vars PROVE ClientInv'
<1>0. TypeOK /\ \A u \in Threads : ThreadInv(u) /\ OwnerInv(u) BY DEF ClientInv, ThreadsInv
<1>1. ThreadsInv' BY ThreadsKeep DEF ClientInv
<1>2. ASSUME NEW u \in Threads PROVE OwnerInv(u)'
  <2>1. CASE \E t \in Threads : Thread(t)
    <3>1. PICK t \in Threads : Thread(t) BY <2>1
    <3>2. CASE u = t BY <1>0, <3>1, <3>2, OwnerMoves
    <3>3. CASE u # t
      <4>1. calls' = calls /\ op'[u] = op[u] /\ at'[u] = at[u] BY <1>0, <3>1, <3>3, OthersStay
      <4>2. \A m \in Mutexes : owner'[m] = u => owner[m] = u BY <1>0, <3>1, <3>3, OthersGainNone
      <4>3. QED BY <1>0, <4>1, <4>2, OwnerStays
    <3>4. QED BY <3>2, <3>3
  <2>2. CASE Call \/ Handle
    <3>1. calls' = calls /\ owner' = owner /\ at' = at BY <2>2 DEF Call, Handle
    <3>2. UNCHANGED op \/ \E t, s : Create(t, s) BY Zenon, <2>2 DEF Call, Handle
    <3>3. op'[u] = op[u] \/ op[u] = "none" BY <1>0, <3>2 DEF Create, TypeOK
    <3>4. op[u] = "none" => \A m \in Mutexes : owner[m] # u
      BY <1>0 DEF OwnerInv, Mutexes, FileWrites, Posts, PathOps, Reads
    <3>5. CASE op'[u] = op[u] BY <1>0, <3>1, <3>5, OwnerStays
    <3>6. CASE op[u] = "none" BY <3>1, <3>4, <3>6 DEF OwnerInv, Mutexes
    <3>7. QED BY <3>3, <3>5, <3>6
  <2>3. CASE Listen \/ UNCHANGED vars
    <3>1. calls' = calls /\ owner' = owner /\ at' = at /\ op' = op BY <2>3 DEF Listen, vars, main
    <3>2. QED BY <1>0, <3>1, OwnerStays
  <2>4. CASE ProcessEnds BY <2>4, NobodyAssumption DEF ProcessEnds, OwnerInv, Mutexes
  <2>5. QED BY <2>1, <2>2, <2>3, <2>4 DEF Next, Main
<1>3. QED BY <1>1, <1>2 DEF ClientInv

-----------------------------------------------------------------------------
\* Who is in an operation that waits for m_MPMutex owns it.
LEMMA UserOwns ==
  ASSUME ClientInv, NEW t \in Threads, InUse(t), op[t] \in PathOps \cup {"ReadFiles"}
  PROVE  owner["m_MPMutex"] = t
<1>1. WaitsFor(op[t]) = "m_MPMutex" BY DEF WaitsFor, PathOps, FileWrites
<1>2. QED BY <1>1 DEF ClientInv, ThreadsInv, ThreadInv, InUse

\* For every program and every schedule of its threads: inside an operation a
\* thread of the client library has the mutex it waited for (disk_scan.cpp
\* 451, 485, 511, 547), a manual scan that has written scan_path.dat has
\* m_MPMutex until it ends (500), and no thread keeps another mutex.
THEOREM ClientInvariance == Spec => []ClientInv
<1>1. Init => ClientInv BY InitInv
<1>2. ClientInv /\ [Next]_vars => ClientInv' BY NextKeeps
<1>3. QED BY <1>1, <1>2, PTL DEF Spec

\* For every program and every schedule: a thread that waits has no mutex but
\* m_MPMutex, and the thread it waits for has not ended (disk_scan.cpp 482,
\* 500, 581).
THEOREM LockOrderHolds == Spec => []LockOrder
<1>1. ASSUME ClientInv PROVE LockOrder
  <2> SUFFICES ASSUME NEW t \in Threads, Blocked(t)
               PROVE  /\ op[Holder(t)] \notin {"none", "done"}
                      /\ owner["m_IPSMutex"] # t /\ owner["m_MFMutex"] # t
    BY DEF LockOrder
  <2>1. WaitsFor(op[t]) \in Mutexes BY DEF WaitsFor, Mutexes
  <2>2. Holder(t) \in Threads BY <1>1, <2>1 DEF ClientInv, ThreadsInv, TypeOK, Blocked, Holder
  <2>3. op[Holder(t)] \notin {"none", "done"}
    <3>1. OwnerInv(Holder(t)) BY <1>1, <2>2 DEF ClientInv
    <3>2. owner[WaitsFor(op[t])] = Holder(t) BY DEF Holder
    <3> HIDE DEF Holder
    <3>3. QED BY <2>1, <3>1, <3>2 DEF OwnerInv, Mutexes, FileWrites, Posts, PathOps, Reads
  <2>4. QED BY <1>1, <2>3 DEF ClientInv, OwnerInv, Blocked, Inside
<1>2. QED BY <1>1, ClientInvariance, PTL

\* For any number of threads: none of them wait for each other in a circle,
\* though WriteMonitoringPath does not release the mutex it waited for (500).
THEOREM NoCircularWaitHolds == Spec => []NoCircularWait
<1>1. ASSUME ClientInv PROVE NoCircularWait
  <2> SUFFICES ASSUME NEW t \in Threads, Blocked(t)
               PROVE  Running(Holder(t)) \/ (Blocked(Holder(t)) /\ Running(Holder(Holder(t))))
    BY DEF NoCircularWait
  <2>1. ASSUME NEW w \in Threads, Blocked(w)
        PROVE  /\ Holder(w) \in Threads /\ op[Holder(w)] \notin {"none", "done"} /\ Holder(w) # w
               /\ at[Holder(w)] = "wait" => WaitsFor(op[w]) = "m_MPMutex"
    <3>1. WaitsFor(op[w]) \in Mutexes BY DEF WaitsFor, Mutexes
    <3>2. Holder(w) \in Threads /\ Holder(w) # w
      BY <1>1, <2>1, <3>1 DEF ClientInv, ThreadsInv, TypeOK, Blocked, Holder
    <3>3. OwnerInv(Holder(w)) /\ owner[WaitsFor(op[w])] = Holder(w)
      BY <1>1, <3>2 DEF ClientInv, Holder
    <3> HIDE DEF Holder
    <3>4. QED
      BY <3>1, <3>2, <3>3 DEF OwnerInv, Mutexes, FileWrites, Posts, PathOps, Reads, Inside
  <2>2. CASE ~Blocked(Holder(t)) BY <2>1, <2>2 DEF Running
  <2>3. CASE Blocked(Holder(t))
    <3>1. WaitsFor(op[t]) = "m_MPMutex" /\ owner["m_MPMutex"] = Holder(t)
      BY <2>1, <2>3 DEF Blocked, Holder
    <3>2. /\ Holder(Holder(t)) \in Threads /\ op[Holder(Holder(t))] \notin {"none", "done"}
          /\ Holder(Holder(t)) # Holder(t)
          /\ at[Holder(Holder(t))] = "wait" => WaitsFor(op[Holder(t)]) = "m_MPMutex"
      BY <2>1, <2>3
    <3>3. Holder(Holder(t)) = owner[WaitsFor(op[Holder(t)])] BY DEF Holder
    <3>4. at[Holder(Holder(t))] # "wait" BY <3>1, <3>2, <3>3
    <3>5. QED BY <2>3, <3>2, <3>4 DEF Running, Blocked
  <2>4. QED BY <2>2, <2>3
<1>2. QED BY <1>1, ClientInvariance, PTL

\* One thread at a time uses scan_path.dat (disk_scan.cpp 451, 485).
THEOREM PathExclusiveHolds == Spec => []PathExclusive
<1>1. ASSUME ClientInv PROVE PathExclusive
  <2> SUFFICES ASSUME NEW t \in Threads, NEW u \in Threads, InUse(t), InUse(u),
                      op[t] \in PathOps, op[u] \in PathOps
               PROVE  t = u
    BY DEF PathExclusive
  <2>1. owner["m_MPMutex"] = t BY <1>1, UserOwns
  <2>2. owner["m_MPMutex"] = u BY <1>1, UserOwns
  <2>3. QED BY <2>1, <2>2
<1>2. QED BY <1>1, ClientInvariance, PTL

\* A manual scan never writes scan_file.dat while another thread reads it,
\* though it waits for another mutex (511, 547).
THEOREM FilesOverlapHolds == Spec => []FilesOverlap
<1>1. ASSUME ClientInv PROVE FilesOverlap
  <2> SUFFICES ASSUME NEW t \in Threads, NEW u \in Threads, InUse(t), InUse(u),
                      op[t] = "ReadFiles", op[u] \in FileWrites
               PROVE  Kind(u) = "auto"
    BY DEF FilesOverlap
  <2>1. owner["m_MPMutex"] = t BY <1>1, UserOwns
  <2>2. Kind(u) \in {"auto", "manual"} BY <1>1 DEF ClientInv, ThreadsInv, ThreadInv
  <2>3. Kind(u) = "manual" => owner["m_MPMutex"] = u
    BY <1>1 DEF ClientInv, ThreadsInv, ThreadInv, FileWrites
  <2>4. t # u BY DEF FileWrites
  <2>5. QED BY <2>1, <2>2, <2>3, <2>4
<1>2. QED BY <1>1, ClientInvariance, PTL

-----------------------------------------------------------------------------
\* The calls to the databases.

\* Two threads that write the same database wait for the same mutex.
LEMMA OneWriter ==
  ASSUME ClientInv, NEW t \in Threads, NEW u \in Threads, op[t] \in Writes, op[u] \in Writes,
         at[t] \in Inside, at[u] \in Inside, Db(t) = Db(u)
  PROVE  t = u
<1>1. owner[WaitsFor(op[t])] = t /\ owner[WaitsFor(op[u])] = u BY DEF ClientInv, ThreadsInv, ThreadInv
<1>2. WaitsFor(op[t]) = WaitsFor(op[u])
  BY DEF WaitsFor, Db, DbOf, Writes, PathOps, FileWrites, Reads
<1>3. QED BY <1>1, <1>2

\* While a thread inserts, its database stays as it is, and no other thread
\* keeps it from inserting.
LEMMA Alone ==
  ASSUME ClientInv, StoreInv, NEW t \in Threads, at[t] = "rows"
  PROVE  /\ \A u \in Threads \ {t} : at[u] = "rows" => Db(u) # Db(t)
         /\ ~Locked(t, {"reserved", "pending"})
<1>1. op[t] \in Writes /\ at[t] \in Inside BY DEF StoreInv, CallInv, Inside
<1>2. ASSUME NEW u \in Threads \ {t}, at[u] = "rows" PROVE Db(u) # Db(t)
  <2>1. op[u] \in Writes /\ at[u] \in Inside BY <1>2 DEF StoreInv, CallInv, Inside
  <2>2. QED BY <1>1, <2>1, OneWriter
<1>3. ASSUME NEW u \in Threads \ {t}, Db(u) = Db(t), lock[u] \in {"reserved", "pending"}
      PROVE  FALSE
  <2>1. op[u] \in Writes /\ at[u] \in Inside BY <1>3 DEF StoreInv, CallInv, Inside
  <2>2. QED BY <1>1, <1>3, <2>1, OneWriter
<1>4. QED BY <1>2, <1>3 DEF Locked

\* What a COMMIT stores is what MonitorStore stores: the keys of the call that
\* SQL can quote.
LEMMA CommitPuts ==
  ASSUME NEW t \in Threads, CallInv(t), at[t] = "rows", left[t] = {}, Db(t) \in Databases
  PROVE  Store!Put(Db(t), rows[Db(t)], trans[t], t)
           = Store!Put(Db(t), rows[Db(t)], Store!Storable(batch[t]), t)
<1>1. CASE Db(t) = "path"
  <2>1. trans[t] = (batch[t] \ Quoted) \ KeysOf(rows["path"]) BY <1>1 DEF CallInv
  <2>2. Store!KeysOf(rows["path"]) = KeysOf(rows["path"]) BY DEF KeysOf, Store!KeysOf
  <2>3. trans[t] \ KeysOf(rows["path"]) = (batch[t] \ Quoted) \ KeysOf(rows["path"]) BY <2>1
  <2>4. QED BY <1>1, <2>2, <2>3 DEF Store!Put, Store!Storable
<1>2. CASE Db(t) # "path"
  <2>1. trans[t] = batch[t] \ Quoted BY <1>2 DEF CallInv
  <2>2. QED BY <2>1 DEF Store!Storable
<1>3. QED BY <1>1, <1>2

\* A thread that does not move keeps its part of StoreInv, unless the rows it
\* looked at change.
LEMMA CallStays ==
  ASSUME NEW u \in Threads, CallInv(u), op'[u] = op[u], at'[u] = at[u],
         batch'[u] = batch[u], left'[u] = left[u], got'[u] = got[u], told'[u] = told[u],
         trans'[u] = trans[u], lock'[u] = lock[u],
         at[u] = "rows" /\ Db(u) = "path" => rows'["path"] = rows["path"]
  PROVE  CallInv(u)'
<1>1. Db(u)' = Db(u) BY DEF Db
<1>2. at[u] = "rows" /\ Db(u) = "path" => KeysOf(rows["path"])' = KeysOf(rows["path"]) BY DEF KeysOf
<1>3. QED BY <1>1, <1>2 DEF CallInv

LEMMA OthersParts ==
  ASSUME TypeOK, NEW t \in Threads, NEW u \in Threads \ {t}, Thread(t)
  PROVE  /\ batch'[u] = batch[u] /\ left'[u] = left[u] /\ got'[u] = got[u] /\ told'[u] = told[u]
         /\ trans'[u] = trans[u] /\ lock'[u] = lock[u]
<1> USE DEF call, disk, TypeOK, Lock
<1>1. CASE Begin(t) \/ Proceed(t) BY <1>1 DEF Begin, Proceed, GoOn
<1>2. CASE Commit(t)
  <2>1. /\ told' = [told EXCEPT ![t] = TRUE] \/ UNCHANGED told
        /\ Lock(t, "shared") \/ Lock(t, "pending")
        /\ trans' = [trans EXCEPT ![t] = {}] /\ UNCHANGED <<batch, left, got>>
    BY Zenon, <1>2 DEF Commit
  <2>2. QED BY <2>1
<1>3. CASE CreateTable(t) BY <1>3 DEF CreateTable
<1>4. CASE Open(t) BY <1>4 DEF Open
<1>5. CASE Wait(t) \/ Post(t) \/ End(t) \/ CheckTable(t) \/ Prepare(t) \/ Step(t) \/ Insert(t) \/ Close(t)
  BY <1>5 DEF Wait, Post, End, CheckTable, Prepare, Step, Insert, Close
<1>6. QED BY <1>1, <1>2, <1>3, <1>4, <1>5 DEF Thread

\* The rows change in a COMMIT, and only those of its database.
LEMMA RowsStay ==
  ASSUME TypeOK, NEW t \in Threads, Thread(t)
  PROVE  \/ UNCHANGED rows
         \/ at[t] = "rows" /\ \A d \in Databases \ {Db(t)} : rows'[d] = rows[d]
<1>1. CASE Commit(t)
  <2>1. \/ UNCHANGED rows
        \/ rows' = [rows EXCEPT ![Db(t)] = Store!Put(Db(t), @, trans[t], t)]
    BY Zenon, <1>1 DEF Commit
  <2>2. at[t] = "rows" BY Zenon, <1>1 DEF Commit
  <2>3. QED BY <2>1, <2>2 DEF TypeOK
<1>2. CASE UNCHANGED rows BY <1>2
<1>3. QED
  BY Zenon, <1>1, <1>2 DEF Thread, Begin, Wait, Post, Proceed, End, Open, CheckTable, CreateTable,
                      Prepare, Step, Insert, Close, disk

LEMMA GoOnCall ==
  ASSUME TypeOK, NEW t \in Threads, ThreadInv(t), CallInv(t), GoOn(t), op[t] \notin {"none", "done"},
         at[t] \in {"wait", "next"}, trans' = trans, lock' = lock
  PROVE  CallInv(t)'
<1>1. PICK o \in Ops :
        /\ MayDo(t, o)
        /\ op' = [op EXCEPT ![t] = o]
        /\ at' = [at EXCEPT ![t] = "wait"]
        /\ o \in Writes => /\ batch' = [batch EXCEPT ![t] = NextBatch(t, o)]
                           /\ left' = [left EXCEPT ![t] = NextBatch(t, o)]
  BY Zenon DEF GoOn
<1>2. <<op[t], o>> \in Order[Kind(t)] /\ Kind(t) \in Kinds
  BY <1>1, KindsOfOrder DEF MayDo, ThreadInv
<1>3. o \in {"end"} \cup Reads \cup Writes \cup Posts BY <1>2, OrderFacts
<1>4. op'[t] = o /\ at'[t] = "wait" /\ o # "none" /\ (o \in Writes => left'[t] = batch'[t])
  BY <1>1, <1>3 DEF TypeOK, Reads, Writes, FileWrites, Posts
<1>5. trans[t] = {} /\ lock[t] \notin {"reserved", "pending"} BY DEF CallInv
<1>6. QED BY <1>4, <1>5 DEF CallInv

LEMMA CommitCall ==
  ASSUME TypeOK, NEW t \in Threads, CallInv(t), Commit(t)
  PROVE  CallInv(t)'
<1>1. /\ at[t] = "rows" /\ At(t, "close") /\ trans' = [trans EXCEPT ![t] = {}]
      /\ UNCHANGED <<op, got, batch, left>>
  BY Zenon DEF Commit
<1>2. at'[t] = "close" /\ trans'[t] = {} BY <1>1 DEF At, TypeOK
<1>3. op[t] \in Writes BY <1>1 DEF CallInv
<1>4. QED BY <1>1, <1>2, <1>3 DEF CallInv, Writes, FileWrites

LEMMA InsertCall ==
  ASSUME ClientInv, StoreInv, NEW t \in Threads, Insert(t)
  PROVE  CallInv(t)'
<1>1. PICK k \in left[t] :
        /\ left' = [left EXCEPT ![t] = @ \ {k}]
        /\ IF k \in Quoted \/ (Db(t) = "path" /\ k \in KeysOf(rows["path"])) \/ Locked(t, {"reserved", "pending"})
             THEN UNCHANGED <<trans, lock>>
             ELSE trans' = [trans EXCEPT ![t] = @ \cup {k}] /\ Lock(t, "reserved")
  BY DEF Insert
<1>2. at[t] = "rows" /\ CallInv(t) /\ TypeOK /\ ~Locked(t, {"reserved", "pending"})
  BY Alone DEF Insert, StoreInv, ClientInv, ThreadsInv
<1>3. UNCHANGED <<op, at, batch, got, told, rows>> BY DEF Insert, disk
<1>4. Db(t)' = Db(t) /\ KeysOf(rows["path"])' = KeysOf(rows["path"]) BY <1>3 DEF Db, KeysOf
<1>5. left'[t] = left[t] \ {k} BY <1>1, <1>2 DEF TypeOK
<1>6. k \in batch[t] /\ left[t] \subseteq batch[t] BY <1>2 DEF CallInv
<1>7. trans'[t] = {j \in (batch[t] \ left'[t]) \ Quoted :
                     Db(t) = "path" => j \notin KeysOf(rows["path"])}
  <2>1. CASE k \in Quoted \/ (Db(t) = "path" /\ k \in KeysOf(rows["path"]))
    <3>1. trans'[t] = trans[t] BY <1>1, <2>1
    <3>2. QED BY <1>2, <1>5, <1>6, <2>1, <3>1 DEF CallInv
  <2>2. CASE ~(k \in Quoted \/ (Db(t) = "path" /\ k \in KeysOf(rows["path"])))
    <3>1. trans'[t] = trans[t] \cup {k} BY <1>1, <1>2, <2>2 DEF TypeOK
    <3>2. QED BY <1>2, <1>5, <1>6, <2>2, <3>1 DEF CallInv
  <2>3. QED BY <2>1, <2>2
<1>8. op[t] \in Writes BY <1>2 DEF CallInv
<1>9. QED BY <1>2, <1>3, <1>4, <1>5, <1>6, <1>7, <1>8 DEF CallInv, Writes, FileWrites

LEMMA CheckCall ==
  ASSUME TypeOK, NEW t \in Threads, ThreadInv(t), CallInv(t), CheckTable(t)
  PROVE  CallInv(t)'
<1>1. at[t] = "check" /\ UNCHANGED <<op, batch, left, got, told, trans, rows>>
  BY DEF CheckTable, call, disk
<1>2. op[t] \in Reads \cup Writes BY <1>1 DEF ThreadInv, Inside
<1>3. at'[t] \in {"prepare", "close"} \/ (op[t] \notin Reads /\ at'[t] \in {"create", "rows"})
  BY <1>1 DEF CheckTable, At, TypeOK
<1>4. lock'[t] = lock[t] \/ lock'[t] = "shared" BY DEF CheckTable, Lock, TypeOK
<1>5. lock[t] \notin {"reserved", "pending"} /\ trans[t] = {} BY <1>1 DEF CallInv
<1>6. op[t] \in Writes => left[t] = batch[t] BY <1>1 DEF CallInv
<1>7. QED BY <1>1, <1>2, <1>3, <1>4, <1>5, <1>6 DEF CallInv, Reads, Writes, FileWrites

LEMMA ThreadCall ==
  ASSUME ClientInv, StoreInv, NEW t \in Threads, Thread(t)
  PROVE  CallInv(t)'
<1>0. TypeOK /\ ThreadInv(t) /\ CallInv(t) BY DEF ClientInv, ThreadsInv, StoreInv
<1>1. CASE Begin(t)
  <2>1. at[t] = "wait" /\ op[t] = "start" BY <1>0, <1>1 DEF Begin, ThreadInv
  <2>2. QED BY <1>0, <1>1, <2>1, GoOnCall DEF Begin
<1>2. CASE Wait(t)
  <2>1. /\ UNCHANGED <<op, batch, left, got, told, trans, lock, rows>>
        /\ at[t] = "wait" /\ at'[t] \in {"open", "post"}
    BY <1>0, <1>2 DEF Wait, TypeOK, call, disk
  <2>2. QED BY <1>0, <2>1 DEF CallInv
<1>3. CASE Post(t)
  <2>1. /\ UNCHANGED <<op, batch, got, told, trans, lock, rows>>
        /\ at[t] = "post" /\ at'[t] = "next"
    BY <1>0, <1>3 DEF Post, TypeOK, disk
  <2>2. QED BY <1>0, <2>1 DEF CallInv
<1>4. CASE Proceed(t)
  <2>1. op[t] \notin {"none", "done"} BY <1>0, <1>4 DEF Proceed, ThreadInv
  <2>2. QED BY <1>0, <1>4, <2>1, GoOnCall DEF Proceed
<1>5. CASE End(t)
  <2>1. op'[t] = "done" /\ UNCHANGED <<at, batch, left, got, told, trans, lock, rows>> /\ at[t] = "wait"
    BY <1>0, <1>5 DEF End, TypeOK, ThreadInv, call, disk
  <2>2. QED BY <1>0, <2>1 DEF CallInv, Writes, FileWrites
<1>6. CASE Open(t)
  <2>1. /\ UNCHANGED <<op, batch, left, got, told, trans, lock, rows>>
        /\ at[t] = "open" /\ at'[t] \in {"check", "close"}
    BY <1>0, <1>6 DEF Open, At, TypeOK, call
  <2>2. QED BY <1>0, <2>1 DEF CallInv
<1>7. CASE CheckTable(t) BY <1>0, <1>7, CheckCall
<1>8. CASE CreateTable(t)
  <2>1. /\ UNCHANGED <<op, batch, left, got, told, trans, lock, rows>>
        /\ at[t] = "create" /\ at'[t] \in {"rows", "close"}
    BY <1>0, <1>8 DEF CreateTable, At, TypeOK, call
  <2>2. op[t] \in Writes /\ left[t] = batch[t] /\ trans[t] = {}
    BY <1>0, <2>1 DEF CallInv
  <2>3. QED BY <1>0, <2>1, <2>2 DEF CallInv, Writes, FileWrites
<1>9. CASE Prepare(t)
  <2>1. /\ UNCHANGED <<op, batch, left, got, told, trans, rows>> /\ lock'[t] = "none"
        /\ at[t] = "prepare" /\ at'[t] = "step"
    BY <1>0, <1>9 DEF Prepare, At, Lock, TypeOK, call, disk
  <2>2. QED BY <1>0, <2>1 DEF CallInv
<1>10. CASE Step(t)
  <2>1. /\ UNCHANGED <<op, batch, left, told, trans, rows>>
        /\ lock'[t] = lock[t] \/ lock'[t] = "shared"
        /\ at[t] = "step" /\ at'[t] = "close"
    BY <1>0, <1>10 DEF Step, At, Lock, TypeOK, disk
  <2>2. op[t] # "none" BY <1>0, <2>1 DEF ThreadInv
  <2>3. QED BY <1>0, <2>1, <2>2 DEF CallInv
<1>11. CASE Insert(t) BY <1>11, InsertCall
<1>12. CASE Commit(t) BY <1>0, <1>12, CommitCall
<1>13. CASE Close(t)
  <2>1. /\ UNCHANGED <<op, batch, left, got, told, trans, rows>> /\ lock'[t] = "none"
        /\ at[t] = "close" /\ at'[t] = "next"
    BY <1>0, <1>13 DEF Close, At, Lock, TypeOK, call, disk
  <2>2. QED BY <1>0, <2>1 DEF CallInv
<1>14. QED
  BY <1>1, <1>2, <1>3, <1>4, <1>5, <1>6, <1>7, <1>8, <1>9, <1>10, <1>11, <1>12, <1>13 DEF Thread

LEMMA MainCall ==
  ASSUME ClientInv, StoreInv, Main
  PROVE  StoreInv'
<1> SUFFICES ASSUME NEW u \in Threads PROVE CallInv(u)' BY DEF StoreInv
<1>0. TypeOK /\ ThreadInv(u) /\ CallInv(u) BY DEF ClientInv, ThreadsInv, StoreInv
<1>1. UNCHANGED <<at, got, told, trans, lock, rows>> BY DEF Main, Call, Listen, Handle, call, disk
<1>2. (\E t, s : Create(t, s)) \/ UNCHANGED <<op, batch, left>> BY DEF Main, Call, Listen, Handle, call
<1>3. CASE \E t, s : Create(t, s)
  <2>1. PICK t, s : Create(t, s) BY <1>3
  <2>2. CASE u = t
    <3>1. op[u] = "none" /\ op'[u] = "start" BY <1>0, <2>1, <2>2 DEF Create, TypeOK
    <3>2. at[u] = "wait" BY <1>0, <3>1 DEF ThreadInv
    <3>3. QED BY <1>0, <1>1, <3>1, <3>2 DEF CallInv, Writes, FileWrites
  <2>3. CASE u # t
    <3>1. op'[u] = op[u] /\ batch'[u] = batch[u] /\ left'[u] = left[u]
      BY <1>0, <2>1, <2>3 DEF Create, TypeOK
    <3>2. QED BY <1>0, <1>1, <3>1, CallStays
  <2>4. QED BY <2>2, <2>3
<1>4. CASE UNCHANGED <<op, batch, left>> BY <1>0, <1>1, <1>4, CallStays
<1>5. QED BY <1>2, <1>3, <1>4

LEMMA StoreKeeps == ASSUME ClientInv, StoreInv, [Next]_vars PROVE StoreInv'
<1>0. TypeOK /\ \A u \in Threads : ThreadInv(u) /\ CallInv(u) BY DEF ClientInv, ThreadsInv, StoreInv
<1>1. CASE Main BY <1>1, MainCall
<1>2. ASSUME NEW t \in Threads, Thread(t) PROVE StoreInv'
  <2>1. ASSUME NEW u \in Threads, u # t PROVE CallInv(u)'
    <3>1. op'[u] = op[u] /\ at'[u] = at[u] BY <1>0, <1>2, <2>1, OthersStay
    <3>2. /\ batch'[u] = batch[u] /\ left'[u] = left[u] /\ got'[u] = got[u] /\ told'[u] = told[u]
          /\ trans'[u] = trans[u] /\ lock'[u] = lock[u]
      BY <1>0, <1>2, <2>1, OthersParts
    <3>3. ASSUME at[u] = "rows", Db(u) = "path" PROVE rows'["path"] = rows["path"]
      <4>1. at[t] = "rows" => Db(t) # Db(u) BY <2>1, <3>3, Alone
      <4>2. "path" \in Databases BY DEF Databases
      <4>3. QED BY <1>0, <1>2, <3>3, <4>1, <4>2, RowsStay
    <3>4. QED BY <1>0, <3>1, <3>2, <3>3, CallStays
  <2>2. CallInv(t)' BY <1>2, ThreadCall
  <2>3. QED BY <2>1, <2>2 DEF StoreInv
<1>3. CASE ProcessEnds
  <2>1. ASSUME NEW u \in Threads PROVE CallInv(u)'
    <3>1. op'[u] = "done" /\ at'[u] = "wait" /\ trans'[u] = {} /\ lock'[u] = "none"
      BY <1>3 DEF ProcessEnds
    <3>2. QED BY <3>1 DEF CallInv, Writes, FileWrites
  <2>2. QED BY <2>1 DEF StoreInv
<1>4. CASE UNCHANGED vars
  <2>1. UNCHANGED <<op, at, batch, left, got, told, trans, lock, rows>> BY <1>4 DEF vars, call, disk
  <2>2. QED BY <1>0, <2>1, CallStays DEF StoreInv
<1>5. QED BY <1>1, <1>2, <1>3, <1>4 DEF Next

LEMMA InitStore == ASSUME Init PROVE StoreInv
<1>1. ASSUME NEW t \in Threads PROVE CallInv(t)
  <2>1. /\ op[t] = "none" /\ at[t] = "wait" /\ trans[t] = {} /\ lock[t] = "none" /\ got[t] = {}
    BY DEF Init
  <2>2. told[t] = FALSE BY Zenon DEF Init
  <2>3. QED BY <2>1, <2>2 DEF CallInv, Writes, FileWrites
<1>2. QED BY <1>1 DEF StoreInv

\* At every step of a call, what it has open is what it has handed over
\* (disk_scan_db.cpp 46-112).
THEOREM StoreInvariance == Spec => [](ClientInv /\ StoreInv)
<1>1. Init => ClientInv /\ StoreInv BY InitInv, InitStore
<1>2. ClientInv /\ StoreInv /\ [Next]_vars => (ClientInv /\ StoreInv)' BY NextKeeps, StoreKeeps
<1>3. QED BY <1>1, <1>2, PTL DEF Spec

\* A new call, or a new thread's request: MonitorStore is asked.
LEMMA GoOnAsks ==
  ASSUME TypeOK, NEW t \in Threads, GoOn(t), UNCHANGED rows
  PROVE  Store!Ask(t) \/ UNCHANGED Store!vars
<1>1. PICK o \in Ops :
        IF o \in Reads \cup Writes
          THEN /\ batch' = [batch EXCEPT ![t] = NextBatch(t, o)]
               /\ got' = [got EXCEPT ![t] = {}]
               /\ told' = [told EXCEPT ![t] = FALSE]
          ELSE UNCHANGED call
  BY Zenon DEF GoOn
<1>2. CASE o \in Reads \cup Writes
  <2>1. NextBatch(t, o) \in SUBSET Keys BY NextBatchType
  <2>2. /\ batch' = [batch EXCEPT ![t] = NextBatch(t, o)]
        /\ got' = [got EXCEPT ![t] = {}]
        /\ told' = [told EXCEPT ![t] = FALSE]
    BY Zenon, <1>1, <1>2
  <2>3. QED BY Zenon, <2>1, <2>2 DEF Store!Ask
<1>3. CASE o \notin Reads \cup Writes BY <1>1, <1>3 DEF Store!vars, call
<1>4. QED BY <1>2, <1>3

LEMMA CreateAsks ==
  ASSUME TypeOK, NEW t \in Threads, CallInv(t), NEW s \in SUBSET Keys, Create(t, s),
         UNCHANGED <<rows, got, told>>
  PROVE  Store!Ask(t)
<1>1. op[t] = "none" /\ batch' = [batch EXCEPT ![t] = s] BY DEF Create
<1>2. got[t] = {} BY <1>1 DEF CallInv
<1>3. told[t] = FALSE BY Zenon, <1>1 DEF CallInv
<1>4. got' = [got EXCEPT ![t] = {}] BY <1>2 DEF TypeOK
<1>5. told' = [told EXCEPT ![t] = FALSE]
  <2>1. told = [told EXCEPT ![t] = told[t]] BY DEF TypeOK
  <2>2. QED BY Zenon, <1>3, <2>1
<1>6. QED BY Zenon, <1>1, <1>4, <1>5 DEF Store!Ask

LEMMA CommitWrites ==
  ASSUME TypeOK, NEW t \in Threads, CallInv(t), Commit(t)
  PROVE  Store!Write(t, Db(t)) \/ UNCHANGED Store!vars
<1>1. at[t] = "rows" /\ left[t] = {} /\ UNCHANGED <<batch, got>> BY Zenon DEF Commit
<1>2. CASE UNCHANGED <<rows, told>> BY <1>1, <1>2 DEF Store!vars
<1>3. CASE ~ UNCHANGED <<rows, told>>
  <2>1. /\ rows' = [rows EXCEPT ![Db(t)] = Store!Put(Db(t), @, trans[t], t)]
        /\ told' = [told EXCEPT ![t] = TRUE]
    BY Zenon, <1>3 DEF Commit
  <2>2. rows' = [rows EXCEPT ![Db(t)] = Store!Put(Db(t), @, Store!Storable(batch[t]), t)]
    BY <1>1, <2>1, CommitPuts, DbType DEF TypeOK
  <2>3. QED BY Zenon, <1>1, <2>1, <2>2 DEF Store!Write
<1>4. QED BY <1>2, <1>3

\* Every step of the threads is a step of MonitorStore or changes nothing there.
LEMMA StepStores ==
  ASSUME ClientInv, StoreInv, [Next]_vars
  PROVE  [Store!Next]_(Store!vars)
<1>0. TypeOK /\ \A u \in Threads : CallInv(u) BY DEF ClientInv, ThreadsInv, StoreInv
<1>1. ASSUME NEW t \in Threads, Thread(t) PROVE [Store!Next]_(Store!vars)
  <2>1. CASE Begin(t) \/ Proceed(t)
    <3>1. GoOn(t) /\ UNCHANGED rows BY <2>1 DEF Begin, Proceed, disk
    <3>2. QED BY <1>0, <3>1, GoOnAsks DEF Store!Next
  <2>2. CASE Step(t)
    <3>1. Db(t) \in Databases BY DbType
    <3>2. got' = [got EXCEPT ![t] = rows[Db(t)]] \/ UNCHANGED got BY <2>2 DEF Step
    <3>3. UNCHANGED <<rows, batch, told>> BY <2>2 DEF Step, disk
    <3>4. QED BY <3>1, <3>2, <3>3 DEF Store!Read, Store!Next, Store!vars
  <2>3. CASE Commit(t)
    <3>1. Db(t) \in Databases BY DbType
    <3>2. QED BY <1>0, <2>3, <3>1, CommitWrites DEF Store!Next
  <2>4. CASE UNCHANGED <<rows, batch, got, told>> BY <2>4 DEF Store!vars
  <2>5. QED
    BY Zenon, <1>1, <2>1, <2>2, <2>3, <2>4
       DEF Thread, Wait, Post, End, Open, CheckTable, CreateTable, Prepare, Insert, Close, call, disk
<1>2. CASE Call
  <2>1. UNCHANGED <<rows, got, told>> BY <1>2 DEF Call, disk
  <2>2. CASE UNCHANGED batch BY <2>1, <2>2 DEF Store!vars
  <2>3. CASE ~ UNCHANGED batch
    <3>1. PICK s \in SUBSET Keys : Create(<<called + 1, "call">>, s)
      <4>1. /\ Found \in SUBSET Keys /\ Asked \in SUBSET Keys /\ {} \in SUBSET Keys
        BY ClientAssumption DEF Keys
      <4>2. QED BY <1>2, <2>3, <4>1 DEF Call
    <3>2. <<called + 1, "call">> \in Threads
      BY <1>0, <1>2, ClientAssumption DEF Call, TypeOK, Threads
    <3>3. QED BY <1>0, <2>1, <3>1, <3>2, CreateAsks DEF Store!Next
  <2>4. QED BY <2>2, <2>3
<1>3. CASE Handle
  <2>1. UNCHANGED <<rows, got, told>> BY <1>3 DEF Handle, disk
  <2>2. CASE UNCHANGED batch BY <2>1, <2>2 DEF Store!vars
  <2>3. CASE ~ UNCHANGED batch
    <3>1. Create(<<Head(queue).from[1], "add">>, heard) BY <1>3, <2>3 DEF Handle
    <3>2. Head(queue) \in Messages BY <1>0, <1>3 DEF Handle, TypeOK
    <3>3. Head(queue).from \in Threads BY <3>2 DEF Messages
    <3>4. <<Head(queue).from[1], "add">> \in Threads BY <3>3 DEF Threads
    <3>5. heard \in SUBSET Keys BY <1>0 DEF TypeOK
    <3>6. QED BY <1>0, <2>1, <3>1, <3>4, <3>5, CreateAsks DEF Store!Next
  <2>4. QED BY <2>2, <2>3
<1>4. CASE Listen BY <1>4 DEF Listen, Store!vars, call, disk
<1>5. CASE ProcessEnds BY <1>5 DEF ProcessEnds, Store!vars, call, disk
<1>6. CASE UNCHANGED vars BY <1>6 DEF vars, Store!vars, call, disk
<1>7. QED BY <1>1, <1>2, <1>3, <1>4, <1>5, <1>6 DEF Next, Main

\* Whatever the threads do, and wherever the process ends: the databases hold
\* what whole calls have stored, and a read returns what one of them left
\* (disk_scan.cpp 448-579, disk_scan_db.cpp 46-112).
THEOREM ImplementsStore == Spec => StoresWhole
<1>1. Init => Store!Init
  <2> SUFFICES ASSUME Init PROVE Store!Init OBVIOUS
  <2>1. rows \in [Databases -> SUBSET (Keys \X Threads)] BY ClientAssumption DEF Init
  <2>2. told = [t \in Threads |-> FALSE] BY Zenon DEF Init
  <2>3. QED BY <2>1, <2>2 DEF Init, Store!Init
<1>2. ClientInv /\ StoreInv /\ [Next]_vars => [Store!Next]_(Store!vars) BY StepStores
<1>3. QED BY <1>1, <1>2, StoreInvariance, PTL DEF Spec, StoresWhole, Store!Spec

-----------------------------------------------------------------------------
\* What a thread reports as monitored.

Reported(t) == \E i \in 1..Len(queue) : queue[i].from = t /\ queue[i].code = "Success"
Covered(t) == batch[t] \ Quoted \subseteq KeysOf(rows["path"])

\* A thread that adds directories is answered TRUE, goes on to its report and
\* has it in the queue only when they are stored.
AddInv(t) ==
  Kind(t) = "add" =>
    /\ op[t] \in {"none", "start", "WritePath"} => ~Reported(t)
    /\ op[t] = "WritePath" /\ told[t] => Covered(t)
    /\ op[t] = "Success" \/ Reported(t) => Covered(t)

\* Nothing is ever taken out of scan_path.dat.
LEMMA PathsGrow ==
  ASSUME ClientInv, StoreInv, [Next]_vars
  PROVE  KeysOf(rows["path"]) \subseteq KeysOf(rows'["path"])
<1>0. TypeOK BY DEF ClientInv, ThreadsInv
<1>1. ASSUME NEW t \in Threads, Commit(t) PROVE KeysOf(rows["path"]) \subseteq KeysOf(rows'["path"])
  <2>1. \/ UNCHANGED rows
        \/ rows' = [rows EXCEPT ![Db(t)] = Store!Put(Db(t), @, trans[t], t)]
    BY Zenon, <1>1 DEF Commit
  <2>2. "path" \in Databases BY DEF Databases
  <2>3. CASE Db(t) # "path" BY <1>0, <2>1, <2>2, <2>3 DEF TypeOK
  <2>4. CASE Db(t) = "path"
    <3>1. rows["path"] \subseteq rows'["path"] BY <1>0, <2>1, <2>2, <2>4 DEF TypeOK, Store!Put
    <3>2. QED BY <3>1 DEF KeysOf
  <2>5. QED BY <2>3, <2>4
<1>2. CASE UNCHANGED rows BY <1>2 DEF KeysOf
<1>3. QED
  BY Zenon, <1>1, <1>2
     DEF Next, Main, Call, Listen, Handle, Thread, Begin, Wait, Post, Proceed, End, Open, CheckTable,
         CreateTable, Prepare, Step, Insert, Close, ProcessEnds, vars, disk

\* The report of a thread comes into the queue when that thread posts it.
LEMMA ReportsOfPost ==
  ASSUME TypeOK, NEW t \in Threads, ThreadInv(t), Post(t), NEW u \in Threads, ~Reported(u), Reported(u)'
  PROVE  u = t /\ op[t] = "Success"
<1>1. ASSUME NEW p, Sent(t, p) \in Messages, Deliver(Sent(t, p))
      PROVE  u = t /\ op[t] = "Success"
  <2>1. queue \in Seq(Messages) BY DEF TypeOK
  <2>2. PICK i \in 1..Len(queue') : queue'[i].from = u /\ queue'[i].code = "Success" BY DEF Reported
  <2>3. CASE queue' = queue BY <2>2, <2>3 DEF Reported
  <2>4. CASE queue' = Append(queue, Sent(t, p))
    <3>1. i \in 1..Len(queue) \/ i = Len(queue) + 1 BY <2>1, <2>2, <2>4, <1>1
    <3>2. i \in 1..Len(queue) => queue'[i] = queue[i] BY <2>1, <2>4, <1>1
    <3>3. i = Len(queue) + 1 => queue'[i] = Sent(t, p) BY <2>1, <2>4, <1>1
    <3>4. i \notin 1..Len(queue) BY <2>2, <3>2 DEF Reported
    <3>5. QED BY <2>2, <3>1, <3>3, <3>4 DEF Sent
  <2>5. QED BY <1>1, <2>3, <2>4 DEF Deliver
<1>2. op[t] \in Posts BY DEF Post, ThreadInv
<1>3. CASE op[t] = "Result"
  <2>1. PICK p \in left[t] : Deliver(Sent(t, p)) BY <1>3 DEF Post
  <2>2. Sent(t, p) \in Messages BY <1>3, <2>1 DEF Sent, Messages, TypeOK
  <2>3. QED BY <1>1, <2>1, <2>2
<1>4. CASE op[t] # "Result"
  <2>1. Deliver(Sent(t, Nobody)) BY <1>4 DEF Post
  <2>2. Sent(t, Nobody) \in Messages BY <1>2, <1>4 DEF Sent, Messages
  <2>3. QED BY <1>1, <2>1, <2>2
<1>5. QED BY <1>3, <1>4

LEMMA ReportsOfOthers ==
  ASSUME TypeOK, [Next]_vars, \A t \in Threads : ~Post(t), NEW u \in Threads, Reported(u)'
  PROVE  Reported(u)
<1>1. CASE UNCHANGED queue BY <1>1 DEF Reported
<1>2. CASE Handle
  <2>1. queue \in Seq(Messages) /\ queue # <<>> /\ queue' = Tail(queue) BY <1>2 DEF Handle, TypeOK
  <2>2. PICK i \in 1..Len(queue') : queue'[i].from = u /\ queue'[i].code = "Success" BY DEF Reported
  <2>3. i + 1 \in 1..Len(queue) /\ queue'[i] = queue[i + 1] BY <2>1
  <2>4. QED BY <2>2, <2>3 DEF Reported
<1>3. CASE ProcessEnds BY <1>3 DEF ProcessEnds, Reported
<1>4. QED
  BY Zenon, <1>1, <1>2, <1>3
     DEF Next, Main, Call, Listen, Thread, Begin, Wait, Proceed, End, Open, CheckTable,
         CreateTable, Prepare, Step, Insert, Commit, Close, vars, main

\* A thread that neither moves nor reports keeps its part of AddInv.
LEMMA AddStays ==
  ASSUME NEW u \in Threads, AddInv(u), calls' = calls, op'[u] = op[u], batch'[u] = batch[u],
         told'[u] = told[u] \/ op[u] # "WritePath", Reported(u)' => Reported(u),
         KeysOf(rows["path"]) \subseteq KeysOf(rows'["path"])
  PROVE  AddInv(u)'
<1>1. Kind(u)' = Kind(u) BY DEF Kind
<1>2. Covered(u) => Covered(u)' BY DEF Covered, KeysOf
<1>3. QED BY Zenon, <1>1, <1>2 DEF AddInv

\* A thread goes on to Success when its write was answered TRUE.
LEMMA AddGoesOn ==
  ASSUME TypeOK, NEW t \in Threads, AddInv(t), GoOn(t), calls' = calls, rows' = rows, queue' = queue
  PROVE  AddInv(t)'
<1>1. PICK o \in Ops : /\ MayDo(t, o)
                       /\ op' = [op EXCEPT ![t] = o]
                       /\ IF o \in Reads \cup Writes
                            THEN /\ batch' = [batch EXCEPT ![t] = NextBatch(t, o)]
                                 /\ told' = [told EXCEPT ![t] = FALSE]
                            ELSE UNCHANGED call
  BY Zenon DEF GoOn
<1>2. op'[t] = o BY <1>1 DEF TypeOK
<1>3. Kind(t)' = Kind(t) /\ (Reported(t)' <=> Reported(t)) BY DEF Kind, Reported
<1> SUFFICES ASSUME Kind(t) = "add" PROVE AddInv(t)'
  BY <1>3 DEF AddInv
<1>4. <<op[t], o>> \in Order["add"] BY <1>1 DEF MayDo
<1>5. CASE op[t] = "start"
  <2>1. ~Reported(t) /\ o \in {"WritePath", "Failed"} BY <1>4, <1>5 DEF AddInv, Order
  <2>2. o = "WritePath" => told'[t] = FALSE BY <1>1 DEF Writes, TypeOK
  <2>3. QED BY <1>2, <1>3, <2>1, <2>2 DEF AddInv
<1>6. CASE op[t] = "WritePath"
  <2>1. ~Reported(t) /\ o \in {"Success", "Failed"} BY <1>4, <1>6 DEF AddInv, Order
  <2>2. batch' = batch BY <1>1, <2>1 DEF Reads, Writes, FileWrites, call
  <2>3. o = "Success" => told[t] BY <1>1, <1>6 DEF MayDo
  <2>4. o = "Success" => Covered(t)' BY <1>6, <2>2, <2>3 DEF AddInv, Covered, KeysOf
  <2>5. QED BY <1>2, <1>3, <2>1, <2>4 DEF AddInv
<1>7. CASE op[t] \notin {"start", "WritePath"}
  <2>1. o = "end" BY <1>4, <1>7 DEF Order
  <2>2. batch' = batch BY <1>1, <2>1 DEF Reads, Writes, FileWrites, call
  <2>3. Reported(t) => Covered(t)' BY <2>2 DEF AddInv, Covered, KeysOf
  <2>4. QED BY <1>2, <1>3, <2>1, <2>3 DEF AddInv
<1>8. QED BY <1>5, <1>6, <1>7

\* What a write is answered TRUE for is in scan_path.dat.
LEMMA AddCommits ==
  ASSUME TypeOK, NEW t \in Threads, ThreadInv(t), CallInv(t), AddInv(t), Commit(t),
         KeysOf(rows["path"]) \subseteq KeysOf(rows'["path"])
  PROVE  AddInv(t)'
<1>1. /\ UNCHANGED <<main, op, batch>> /\ at[t] = "rows" /\ left[t] = {}
      /\ \/ /\ rows' = [rows EXCEPT ![Db(t)] = Store!Put(Db(t), @, trans[t], t)]
            /\ told' = [told EXCEPT ![t] = TRUE]
         \/ UNCHANGED told
  BY Zenon DEF Commit
<1>2. Kind(t)' = Kind(t) /\ (Reported(t)' <=> Reported(t)) BY <1>1 DEF Kind, Reported, main
<1>3. Covered(t) => Covered(t)' BY <1>1 DEF Covered, KeysOf
<1>4. CASE UNCHANGED told BY Zenon, <1>1, <1>2, <1>3, <1>4 DEF AddInv
<1>5. CASE /\ rows' = [rows EXCEPT ![Db(t)] = Store!Put(Db(t), @, trans[t], t)]
          /\ told' = [told EXCEPT ![t] = TRUE]
  <2>1. op[t] = "WritePath" => Covered(t)'
    <3> SUFFICES ASSUME op[t] = "WritePath" PROVE Covered(t)'
      OBVIOUS
    <3>1. Db(t) = "path" /\ "path" \in Databases BY DEF Db, DbOf, PathOps, Databases
    <3>2. trans[t] = (batch[t] \ Quoted) \ KeysOf(rows["path"]) BY <1>1, <3>1 DEF CallInv
    <3>3. rows'["path"] = Store!Put("path", rows["path"], trans[t], t) BY <1>5, <3>1 DEF TypeOK
    <3>4. trans[t] \subseteq KeysOf(rows'["path"])
      <4>1. Store!KeysOf(rows["path"]) = KeysOf(rows["path"]) BY DEF KeysOf, Store!KeysOf
      <4>2. trans[t] \X {t} \subseteq rows'["path"] BY <3>2, <3>3, <4>1 DEF Store!Put
      <4>3. ASSUME NEW k \in trans[t] PROVE k \in KeysOf(rows'["path"])
        <5>1. <<k, t>> \in rows'["path"] /\ <<k, t>>[1] = k BY <4>2
        <5>2. QED BY <5>1 DEF KeysOf
      <4>4. QED BY <4>3
    <3>5. QED BY <1>1, <3>2, <3>4 DEF Covered, KeysOf
  <2>2. QED BY Zenon, <1>1, <1>2, <1>3, <2>1 DEF AddInv
<1>6. QED BY <1>1, <1>4, <1>5

LEMMA AddKeeps ==
  ASSUME ClientInv, StoreInv, \A u \in Threads : AddInv(u), [Next]_vars
  PROVE  \A u \in Threads : AddInv(u)'
<1>0. TypeOK /\ \A u \in Threads : ThreadInv(u) /\ CallInv(u) BY DEF ClientInv, ThreadsInv, StoreInv
<1>1. KeysOf(rows["path"]) \subseteq KeysOf(rows'["path"]) BY PathsGrow
<1>2. ASSUME NEW t \in Threads, Thread(t) PROVE \A u \in Threads : AddInv(u)'
  <2>1. calls' = calls
    BY Zenon, <1>2 DEF Thread, Begin, Wait, Post, Proceed, End, Open, CheckTable, CreateTable,
          Prepare, Step, Insert, Commit, Close, main
  <2>2. ASSUME ~Post(t) PROVE \A u \in Threads : Reported(u)' => Reported(u)
    <3>1. queue' = queue
      BY Zenon, <1>2, <2>2 DEF Thread, Begin, Wait, Proceed, End, Open, CheckTable, CreateTable,
          Prepare, Step, Insert, Commit, Close, main
    <3>2. QED BY <3>1 DEF Reported
  <2>3. ASSUME NEW u \in Threads \ {t} PROVE AddInv(u)'
    <3>1. op'[u] = op[u] /\ batch'[u] = batch[u] /\ told'[u] = told[u]
      BY <1>0, <1>2, OthersStay, OthersParts
    <3>2. Reported(u)' => Reported(u) BY <1>0, <1>2, <2>2, ReportsOfPost
    <3>3. QED BY <1>1, <2>1, <3>1, <3>2, AddStays
  <2>4. AddInv(t)'
    <3>1. CASE Begin(t) \/ Proceed(t)
      <4>1. GoOn(t) /\ rows' = rows /\ queue' = queue BY <3>1 DEF Begin, Proceed, disk, main
      <4>2. QED BY <1>0, <2>1, <4>1, AddGoesOn
    <3>2. CASE Commit(t) BY <1>0, <1>1, <3>2, AddCommits
    <3>3. CASE Post(t)
      <4>1. op' = op /\ batch' = batch /\ told' = told BY <3>3 DEF Post
      <4>2. op[t] \in Posts BY <1>0, <3>3 DEF Post, ThreadInv
      <4>3. Reported(t)' => Reported(t) \/ op[t] = "Success" BY <1>0, <3>3, ReportsOfPost
      <4>4. Kind(t)' = Kind(t) BY <2>1 DEF Kind
      <4>5. Covered(t) => Covered(t)' BY <1>1, <4>1 DEF Covered, KeysOf
      <4>6. op[t] \notin {"none", "start", "WritePath"} BY <4>2 DEF Posts
      <4>7. QED BY Zenon, <4>1, <4>3, <4>4, <4>5, <4>6 DEF AddInv
    <3>4. CASE End(t)
      <4>1. op'[t] = "done" /\ batch' = batch BY <1>0, <3>4 DEF End, call, TypeOK
      <4>2. Reported(t)' => Reported(t) BY <3>4 DEF End, Reported
      <4>3. Kind(t)' = Kind(t) BY <2>1 DEF Kind
      <4>4. Covered(t) => Covered(t)' BY <1>1, <4>1 DEF Covered, KeysOf
      <4>5. QED BY <4>1, <4>2, <4>3, <4>4 DEF AddInv
    <3>5. CASE CreateTable(t)
      <4>1. op' = op /\ batch' = batch /\ told' = told BY Zenon, <3>5 DEF CreateTable, call
      <4>2. ~Post(t) BY <3>5 DEF CreateTable, Post
      <4>3. QED BY <1>1, <2>1, <2>2, <4>1, <4>2, AddStays
    <3>6. CASE \/ Wait(t) \/ Open(t) \/ CheckTable(t) \/ Prepare(t) \/ Step(t)
              \/ Insert(t) \/ Close(t)
      <4>1. op' = op /\ batch' = batch /\ told' = told /\ queue' = queue
        BY Zenon, <3>6 DEF Wait, Open, CheckTable, Prepare, Step, Insert, Close, call, main
      <4>2. Reported(t)' => Reported(t) BY <4>1 DEF Reported
      <4>3. QED BY <1>1, <2>1, <4>1, <4>2, AddStays
    <3>7. QED BY <1>2, <3>1, <3>2, <3>3, <3>4, <3>5, <3>6 DEF Thread
  <2>5. QED BY <2>3, <2>4
<1>3. ASSUME Call \/ Handle PROVE \A u \in Threads : AddInv(u)'
  <2>1. calls' = calls /\ told' = told /\ at' = at BY <1>3 DEF Call, Handle
  <2>2. \/ UNCHANGED <<op, batch>>
        \/ \E t, s : Create(t, s)
    BY Zenon, <1>3 DEF Call, Handle
  <2>3. \A u \in Threads : Reported(u)' => Reported(u)
    <3>1. CASE Call BY <3>1 DEF Call, Reported
    <3>2. CASE Handle
      <4>1. queue \in Seq(Messages) /\ queue # <<>> /\ queue' = Tail(queue)
        BY <1>0, <3>2 DEF Handle, TypeOK
      <4>2. \A i \in 1..Len(queue') : i + 1 \in 1..Len(queue) /\ queue'[i] = queue[i + 1] BY <4>1
      <4>3. QED BY <4>2 DEF Reported
    <3>3. QED BY <1>3, <3>1, <3>2
  <2>4. ASSUME NEW u \in Threads PROVE AddInv(u)'
    <3>1. CASE op'[u] = op[u] /\ batch'[u] = batch[u] BY <1>1, <2>1, <2>3, <3>1, AddStays
    <3>2. CASE op[u] = "none" /\ op'[u] = "start"
      <4>1. Kind(u)' = Kind(u) BY <2>1 DEF Kind
      <4>2. Kind(u) = "add" => ~Reported(u)' BY <2>3, <3>2 DEF AddInv
      <4>3. QED BY <3>2, <4>1, <4>2 DEF AddInv
    <3>3. QED BY <1>0, <2>2, <3>1, <3>2 DEF Create, TypeOK
  <2>5. QED BY <2>4
<1>4. CASE Listen \/ UNCHANGED vars
  <2>1. calls' = calls /\ op' = op /\ batch' = batch /\ told' = told /\ queue' = queue
    BY <1>4 DEF Listen, vars, main, call
  <2>2. \A u \in Threads : Reported(u)' => Reported(u) BY <2>1 DEF Reported
  <2>3. QED BY <1>1, <2>1, <2>2, AddStays
<1>5. CASE ProcessEnds
  <2>1. \A u \in Threads : op'[u] = "done" /\ ~Reported(u)' BY <1>5 DEF ProcessEnds, Reported
  <2>2. QED BY <2>1 DEF AddInv
<1>6. QED BY <1>2, <1>3, <1>4, <1>5 DEF Next, Main

\* For every program and every schedule of its threads: a SUCCESS that
\* OnAddMonitoringDir posts (disk_scan.cpp 418-428) speaks of directories
\* that are all in scan_path.dat, but for those SQL cannot quote.
THEOREM SuccessIsMonitoredHolds == Spec => []SuccessIsMonitored
<1> DEFINE Adds == \A u \in Threads : AddInv(u)
<1>1. Init => Adds BY DEF Init, AddInv, Reported
<1>2. ClientInv /\ StoreInv /\ Adds /\ [Next]_vars => Adds' BY AddKeeps
<1>3. Adds => SuccessIsMonitored
  BY DEF SuccessIsMonitored, AddInv, Reported, Covered
<1>4. QED BY <1>1, <1>2, <1>3, StoreInvariance, PTL DEF Spec
=============================================================================
