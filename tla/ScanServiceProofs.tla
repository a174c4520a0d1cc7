------------------------- MODULE ScanServiceProofs -------------------------
(***************************************************************************)
(* Proofs about ScanService, for every set of clients, every number of     *)
(* directories and every pipe capacity.                                    *)
(*                                                                         *)
(* IInv (module ScanServiceInv) is inductive: each of its parts has one    *)
(* lemma that a step preserves it, given the parts before it (AnswerInv in *)
(* ScanAnswerProofs).  The safety properties of ScanService follow from    *)
(* it.                                                                     *)
(***************************************************************************)
EXTENDS ScanAnswerProofs

-----------------------------------------------------------------------------
(***************************************************************************)
(* Types.                                                                  *)
(***************************************************************************)

\* What the callers of ScanTargetCallback send is an event.
LEMMA EventType ==
  ASSUME NEW code \in 1 .. 5, NEW d \in 0 .. NumDirs
  PROVE  Event(code, d) \in Msg
  BY DEF Event, Msg, AnyDir, SCAN_PATH_START, SCAN_PATH_STOP

\* LoadImgScanResult keeps elements of the saved sequence.
LEMMA SubsequencesType ==
  ASSUME NEW S, NEW s \in Seq(S), NEW k \in Subsequences(s)
  PROVE  k \in Seq(S)
<1>1. PICK n \in 0 .. Len(s) :
        \E f \in [1 .. n -> DOMAIN s] : k = [i \in 1 .. n |-> s[f[i]]]
  BY DEF Subsequences
<1>2. k \in [1 .. n -> S]
  BY <1>1
<1> QED BY <1>2

\* The process starts in a state of its type.
LEMMA InitType == Init => TypeOK
<1> SUFFICES ASSUME Init PROVE TypeOK
  OBVIOUS
<1> USE DEF AllRequests, Threads, MainPoints, WorkerPoints, NoRequest
<1>1. Event(SCAN_PATH_START, 0) \in Msg
  BY ServiceAssumption, EventType DEF SCAN_PATH_START
<1>2. [i \in Dirs |-> i] \in Seq(Dirs)
  BY ServiceAssumption DEF Dirs
<1>3. \A S : <<>> \in Seq(S)
  OBVIOUS
<1>4. /\ joinExpired \in BOOLEAN /\ m_ImgScanning \in BOOLEAN /\ m_Exit \in BOOLEAN
      /\ m_StopCallback \in BOOLEAN /\ m_Done \in BOOLEAN
  BY Zenon DEF Init
<1>5. /\ cbAt \in [Threads -> {"idle", "lock", "write", "flush"}]
      /\ cbMsg \in [Threads -> Msg]
  BY <1>1 DEF Init
<1>6. /\ pipe \in [Clients -> {"none", "open", "closed", "refused"}]
      /\ chan \in [Clients -> Seq(Msg)]
      /\ inbox \in [Clients -> AllRequests \cup {NoRequest}]
      /\ cpc \in [Clients -> {"idle", "opened", "reading", "done", "dead"}]
      /\ told \in [Clients -> Seq(AnyDir)]
      /\ last \in [Clients -> {NoEvent, SCAN_PATH_FINISH, SCAN_PATH_STOP}]
  BY <1>3 DEF Init
<1>7. m_Pipes \in Seq(Clients) /\ m_ImgDirectorys \in Seq(Dirs)
      /\ resultFile \in Seq(Dirs) \cup {CutShort}
  BY <1>2, <1>3 DEF Init
<1> QED
  BY ServiceAssumption, <1>1, <1>2, <1>3, <1>4, <1>5, <1>6, <1>7 DEF Init, TypeOK

\* A call of ScanTargetCallback keeps the type of what it changes.
LEMMA CallbackType ==
  ASSUME TypeOK, NEW t \in Threads, NEW m \in Msg, ScanTargetCallback(t, m)
  PROVE  /\ m_StopCallback' \in BOOLEAN
         /\ m_Mutex' \in Threads \cup {"free"}
         /\ cbAt' \in [Threads -> {"idle", "lock", "write", "flush"}]
         /\ cbMsg' \in [Threads -> Msg]
         /\ nxt' \in Nat \ {0}
<1>1. m_StopCallback' \in BOOLEAN
  <2>1. CASE m_StopCallback
    BY <2>1, Zenon DEF TypeOK, ScanTargetCallback, cbVars
  <2>2. CASE ~m_StopCallback
    BY <2>2, Zenon DEF TypeOK, ScanTargetCallback, cbVars
  <2> QED BY <2>1, <2>2
<1>2. cbAt' \in [Threads -> {"idle", "lock", "write", "flush"}]
  BY DEF TypeOK, ScanTargetCallback, cbVars
<1>3. cbMsg' \in [Threads -> Msg]
  BY DEF TypeOK, ScanTargetCallback, cbVars
<1>4. nxt' = nxt /\ m_Mutex' = m_Mutex
  BY DEF ScanTargetCallback, cbVars
<1> QED BY <1>1, <1>2, <1>3, <1>4 DEF TypeOK

\* Every step keeps the type of the state.
LEMMA NextType == TypeOK /\ [Next]_vars => TypeOK'
<1> SUFFICES ASSUME TypeOK, [Next]_vars PROVE TypeOK'
  OBVIOUS
<1> USE ServiceAssumption DEF AllRequests, Threads, MainPoints, WorkerPoints, NoRequest
<1>1. \A S : <<>> \in Seq(S)
  OBVIOUS
<1>2. CASE UNCHANGED vars
  BY <1>2 DEF TypeOK, vars, mainVars, flagVars, cbVars, workerVars, scannerVars, clientVars
<1>3. ASSUME NEW t \in Threads, Callback(t) PROVE TypeOK'
  <2> USE DEF mainVars, flagVars, cbVars, workerVars, scannerVars, clientVars
  <2>1. CASE CallbackLock(t) BY <2>1 DEF CallbackLock, TypeOK
  <2>2. CASE CallbackWrite(t)
    <3>1. nxt \in DOMAIN m_Pipes /\ m_Pipes[nxt] \in Clients
      BY <2>2 DEF CallbackWrite, TypeOK
    <3>2. chan' \in [Clients -> Seq(Msg)]
      <4>1. Append(chan[m_Pipes[nxt]], cbMsg[t]) \in Seq(Msg)
        BY <3>1 DEF TypeOK
      <4>2. CASE UNCHANGED chan
        BY <4>2 DEF TypeOK
      <4>3. CASE chan' = [chan EXCEPT ![m_Pipes[nxt]] = Append(@, cbMsg[t])]
        BY <4>1, <4>3 DEF TypeOK
      <4> QED BY <2>2, <4>2, <4>3 DEF CallbackWrite
    <3>3. cbAt' \in [Threads -> {"idle", "lock", "write", "flush"}] /\ nxt' \in Nat \ {0}
      BY <2>2 DEF CallbackWrite, TypeOK
    <3>4. told' \in [Clients -> Seq(AnyDir)]
      <4>1. cbMsg[t].dir \in AnyDir
        BY DEF TypeOK, Msg
      <4>2. Append(told[m_Pipes[nxt]], cbMsg[t].dir) \in Seq(AnyDir)
        BY <3>1, <4>1 DEF TypeOK
      <4>3. CASE told' = told
        BY <4>3 DEF TypeOK
      <4>4. CASE told' = [told EXCEPT ![m_Pipes[nxt]] = Append(@, cbMsg[t].dir)]
        BY <4>2, <4>4 DEF TypeOK
      <4> QED BY <2>2, <4>3, <4>4 DEF CallbackWrite
    <3>5. last' \in [Clients -> {NoEvent, SCAN_PATH_FINISH, SCAN_PATH_STOP}]
      BY <2>2, <3>1 DEF CallbackWrite, TypeOK, IsEnd
    <3> QED BY <2>2, <3>2, <3>3, <3>4, <3>5 DEF CallbackWrite, TypeOK
  <2>3. CASE CallbackFlush(t)
    <3>1. pipe' \in [Clients -> {"none", "open", "closed", "refused"}]
      BY <2>3 DEF CallbackFlush, TypeOK
    <3>2. cbAt' \in [Threads -> {"idle", "lock", "write", "flush"}] /\ nxt' \in Nat \ {0}
      BY <2>3 DEF CallbackFlush, TypeOK
    <3> QED BY <2>3, <3>1, <3>2 DEF CallbackFlush, TypeOK
  <2>4. CASE CallbackUnlock(t) BY <2>4, <1>1 DEF CallbackUnlock, TypeOK
  <2> QED BY <1>3, <2>1, <2>2, <2>3, <2>4 DEF Callback
<1>4. ASSUME Main PROVE TypeOK'
  <2> USE DEF mainVars, flagVars, cbVars, workerVars, scannerVars, clientVars
  <2>1. CASE CreatePipe BY <2>1 DEF CreatePipe, TypeOK
  <2>2. CASE Accept BY <2>2 DEF Accept, TypeOK
  <2>3. CASE ConnectTimeout BY <2>3 DEF ConnectTimeout, TypeOK
  <2>4. CASE GiveUp BY <2>4 DEF GiveUp, TypeOK
  <2>5. CASE ReadRequest BY <2>5 DEF ReadRequest, TypeOK
  <2>6. CASE ReadTimeout
    <3>1. conn \in Clients BY <2>6 DEF ReadTimeout, TypeOK
    <3>2. pipe' \in [Clients -> {"none", "open", "closed", "refused"}]
      BY <2>6, <3>1 DEF ReadTimeout, TypeOK
    <3> QED BY <2>6, <3>1, <3>2 DEF ReadTimeout, TypeOK
  <2>7. CASE Register BY <2>7 DEF Register, TypeOK
  <2>8. CASE RequestScan BY <2>8 DEF RequestScan, TypeOK
  <2>9. CASE ClearResult
    <3>1. m_Done' \in BOOLEAN BY <2>9, Zenon DEF ClearResult
    <3>2. resultFile' \in Seq(Dirs) \cup {CutShort}
      <4>1. resultFile' = <<>> \/ resultFile' = resultFile BY <2>9 DEF ClearResult
      <4>2. resultFile \in Seq(Dirs) \cup {CutShort} /\ <<>> \in Seq(Dirs) BY DEF TypeOK
      <4> QED BY <4>1, <4>2
    <3> QED BY <2>9, <3>1, <3>2, <1>1 DEF ClearResult, TypeOK
  <2>10. CASE Spawn BY <2>10 DEF Spawn, TypeOK
  <2>11. CASE AssignThread BY <2>11 DEF AssignThread, TypeOK
  <2>12. CASE Refuse BY <2>12 DEF Refuse, TypeOK
  <2>13. CASE RequestExit
    <3>1. Event(SCAN_PATH_STOP, 0) \in Msg
      BY EventType DEF SCAN_PATH_STOP
    <3> QED BY <2>13, <3>1, CallbackType DEF RequestExit, TypeOK
  <2>14. CASE Stopped BY <2>14 DEF Stopped, TypeOK
  <2>15. CASE RaiseStop BY <2>15 DEF RaiseStop, TypeOK
  <2>16. CASE RaiseExit BY <2>16 DEF RaiseExit, TypeOK
  <2>17. CASE Join BY <2>17 DEF Join, TypeOK
  <2>18. CASE JoinTimeout BY <2>18 DEF JoinTimeout, TypeOK
  <2>19. CASE FreeScanner BY <2>19 DEF FreeScanner, TypeOK
  <2>20. CASE EndProcess BY <2>20 DEF EndProcess, TypeOK
  <2>21. ASSUME Callback("main") PROVE TypeOK'
    BY <2>21, <1>3
  <2> QED
    BY <1>4, <2>1, <2>2, <2>3, <2>4, <2>5, <2>6, <2>7, <2>8, <2>9, <2>10, <2>11, <2>12,
       <2>13, <2>14, <2>15, <2>16, <2>17, <2>18, <2>19, <2>20, <2>21 DEF Main
<1>5. ASSUME Worker PROVE TypeOK'
  <2> USE <1>5 DEF mainVars, flagVars, cbVars, workerVars, scannerVars, clientVars
  <2>1. CASE Begin BY <2>1 DEF Begin, TypeOK
  <2>2. CASE Load
    <3>1. m_ImgDirectorys' \in Seq(Dirs)
      <4>1. CASE UNCHANGED m_ImgDirectorys
        BY <4>1 DEF TypeOK
      <4>2. ASSUME resultFile # CutShort, NEW kept \in Subsequences(resultFile),
                   m_ImgDirectorys' = m_ImgDirectorys \o kept
            PROVE  m_ImgDirectorys' \in Seq(Dirs)
        BY <4>2, SubsequencesType, ConcatProperties DEF TypeOK
      <4> QED BY <2>2, <4>1, <4>2 DEF Load
    <3> QED BY <2>2, <3>1 DEF Load, TypeOK
  <2>3. CASE Visit
    <3>1. Event(SCAN_PATH_START, m_ScanDirs + 1) \in Msg
      BY <2>3, EventType DEF Visit, TypeOK, SCAN_PATH_START
    <3> QED BY <2>3, <3>1, CallbackType DEF Visit, TypeOK
  <2>13. CASE VisitAstray
    <3>1. Event(SCAN_PATH_START, m_ScanDirs) \in Msg
      BY ServiceAssumption, EventType DEF TypeOK, SCAN_PATH_START
    <3> QED BY <2>13, <3>1, CallbackType DEF VisitAstray, TypeOK
  <2>4. CASE Judge
    <3>1. Event(SCAN_PATH_FOUND, m_ScanDirs + 1) \in Msg
      BY <2>4, EventType DEF Judge, TypeOK, SCAN_PATH_FOUND
    <3>2. CASE UNCHANGED <<m_ImgDirectorys, cbVars>>
      BY <2>4, <3>2 DEF Judge, TypeOK
    <3>3. CASE m_ImgDirectorys' = Append(m_ImgDirectorys, m_ScanDirs + 1)
               /\ ScanTargetCallback("worker", Event(SCAN_PATH_FOUND, m_ScanDirs + 1))
      <4>1. m_ImgDirectorys' \in Seq(Dirs)
        BY <2>4, <3>3 DEF Judge, TypeOK, Dirs
      <4> QED BY <2>4, <3>1, <3>3, <4>1, CallbackType DEF Judge, TypeOK
    <3> QED BY <2>4, <3>2, <3>3 DEF Judge
  <2>5. CASE SaveResult BY <2>5 DEF SaveResult, TypeOK
  <2>6. CASE MarkDone BY <2>6 DEF MarkDone, TypeOK
  <2>7. CASE Reply BY <2>7 DEF Reply, TypeOK, Registered
  <2>8. CASE SendResult
    <3>1. Event(SCAN_PATH_RESULT, m_ImgDirectorys[ans]) \in Msg
      BY <2>8, EventType DEF SendResult, TypeOK, SCAN_PATH_RESULT, Dirs
    <3> QED BY <2>8, <3>1, CallbackType DEF SendResult, TypeOK
  <2>9. CASE SendFinish
    <3>1. Event(SCAN_PATH_FINISH, 0) \in Msg
      BY EventType DEF SCAN_PATH_FINISH
    <3> QED BY <2>9, <3>1, CallbackType DEF SendFinish, TypeOK
  <2>10. CASE CloseThread BY <2>10 DEF CloseThread, TypeOK
  <2>11. CASE EndScanning
    <3>1. m_ImgScanning' \in BOOLEAN BY <2>11, Zenon DEF EndScanning
    <3> QED BY <2>11, <3>1 DEF EndScanning, TypeOK
  <2>12. CASE Callback("worker") BY <2>12, <1>3
  <2> QED
    BY <2>1, <2>2, <2>3, <2>4, <2>5, <2>6, <2>7, <2>8, <2>9, <2>10, <2>11, <2>12,
       <2>13 DEF Worker
<1>6. ASSUME NEW c \in Clients, Connect(c) \/ Client(c) \/ ClientDies(c) PROVE TypeOK'
  <2> USE DEF mainVars, flagVars, cbVars, workerVars, scannerVars, clientVars
  <2>1. CASE Connect(c) BY <2>1 DEF Connect, TypeOK
  <2>2. CASE SendRequest(c) BY <2>2 DEF SendRequest, TypeOK
  <2>3. CASE ReadEvent(c) BY <2>3, HeadTailProperties DEF ReadEvent, TypeOK
  <2>4. CASE ReadFails(c) BY <2>4 DEF ReadFails, TypeOK
  <2>5. CASE ClientDies(c) BY <2>5, <1>1 DEF ClientDies, TypeOK
  <2> QED BY <1>6, <2>1, <2>2, <2>3, <2>4, <2>5 DEF Client
<1> QED
  BY <1>2, <1>4, <1>5, <1>6 DEF Next, AllEnded

-----------------------------------------------------------------------------
(***************************************************************************)
(* The worker.                                                             *)
(***************************************************************************)

\* No step breaks what m_ImgScanning and m_Thread say of the worker.
LEMMA WorkerStep ==
  ASSUME TypeOK, WorkerInv, [Next]_vars
  PROVE  WorkerInv'
<1> USE DEF TypeOK, WorkerInv, FlagCovers, WorkerExclusive, ScanningBacked, HandleCovers,
            mainVars, flagVars, workerVars
<1>1. CASE UNCHANGED vars BY <1>1 DEF vars
<1>2. CASE CreatePipe \/ Accept \/ ConnectTimeout \/ GiveUp \/ ReadRequest
         \/ ReadTimeout \/ Register
  BY <1>2 DEF CreatePipe, Accept, ConnectTimeout, GiveUp, ReadRequest, ReadTimeout, Register
<1>3. CASE RequestScan BY <1>3 DEF RequestScan
<1>4. CASE ClearResult \/ Spawn \/ AssignThread
  BY <1>4 DEF ClearResult, Spawn, AssignThread
<1>5. CASE Refuse \/ RequestExit \/ Stopped \/ RaiseStop \/ RaiseExit \/ Join
         \/ JoinTimeout \/ FreeScanner \/ EndProcess
  BY <1>5 DEF Refuse, RequestExit, Stopped, RaiseStop, RaiseExit, Join, JoinTimeout,
       FreeScanner, EndProcess
<1>6. ASSUME Worker PROVE WorkerInv'
  <2>1. CASE Begin \/ Load \/ Visit \/ VisitAstray \/ Judge \/ SaveResult \/ MarkDone
           \/ Reply \/ SendResult \/ SendFinish
    BY <2>1 DEF Begin, Load, Visit, VisitAstray, Judge, SaveResult, MarkDone, Reply,
         SendResult, SendFinish
  <2>2. CASE CloseThread \/ EndScanning BY <2>2 DEF CloseThread, EndScanning
  <2>3. CASE Callback("worker")
    BY <2>3 DEF Callback, CallbackLock, CallbackWrite, CallbackFlush, CallbackUnlock
  <2> QED BY <1>6, <2>1, <2>2, <2>3 DEF Worker
<1>7. CASE Callback("main")
    BY <1>7 DEF Callback, CallbackLock, CallbackWrite, CallbackFlush, CallbackUnlock
<1>8. ASSUME NEW c \in Clients, Connect(c) \/ Client(c) \/ ClientDies(c) PROVE WorkerInv'
  BY <1>8 DEF Client, Connect, SendRequest, ReadEvent, ReadFails, ClientDies
<1> QED BY <1>1, <1>2, <1>3, <1>4, <1>5, <1>6, <1>7, <1>8 DEF Next, Main, AllEnded
-----------------------------------------------------------------------------
(***************************************************************************)
(* The mutex and the stop event.                                           *)
(***************************************************************************)

\* What the worker broadcasts is no stop event, and leaves the main thread's
\* call and m_Mutex alone.
LEMMA WorkerCallback ==
  ASSUME TypeOK, MutexHeld, cbAt["worker"] = "idle",
         NEW code \in SCAN_PATH_START .. SCAN_PATH_FINISH, NEW d \in Nat,
         ScanTargetCallback("worker", Event(code, d))
  PROVE  /\ m_StopCallback' <=> m_StopCallback
         /\ cbAt'["main"] = cbAt["main"] /\ cbMsg'["main"] = cbMsg["main"]
         /\ MutexHeld'
<1>1. /\ cbAt \in [Threads -> {"idle", "lock", "write", "flush"}]
      /\ cbMsg \in [Threads -> Msg]
  BY DEF TypeOK
<1>2. Event(code, d).event # SCAN_PATH_STOP
  BY DEF Event, SCAN_PATH_START, SCAN_PATH_FINISH, SCAN_PATH_STOP
<1> QED BY <1>1, <1>2 DEF ScanTargetCallback, cbVars, MutexHeld, Threads

\* No step breaks the mutual exclusion, or leaves a pipe registered while the
\* process ends under a worker.
LEMMA StopStep ==
  ASSUME TypeOK, WorkerInv, StopInv, [Next]_vars
  PROVE  StopInv'
<1> /\ cbAt \in [Threads -> {"idle", "lock", "write", "flush"}]
    /\ cbMsg \in [Threads -> Msg] /\ nxt \in Nat \ {0}
    /\ m_Pipes \in Seq(Clients)
  BY DEF TypeOK
<1> USE DEF WorkerInv, FlagCovers, StopInv, MutexHeld, StopBroadcast, SilentExit, Threads,
            ExitPoints, mainVars, flagVars, workerVars, cbVars
<1>1. CASE UNCHANGED vars BY <1>1 DEF vars
<1>2. CASE CreatePipe \/ Accept \/ ConnectTimeout \/ GiveUp \/ ReadRequest
         \/ ReadTimeout \/ Register
  BY <1>2 DEF CreatePipe, Accept, ConnectTimeout, GiveUp, ReadRequest, ReadTimeout, Register
<1>3. CASE RequestScan BY <1>3 DEF RequestScan
<1>4. CASE ClearResult \/ Spawn \/ AssignThread
  BY <1>4 DEF ClearResult, Spawn, AssignThread
<1>5. CASE Refuse \/ Stopped \/ RaiseStop \/ RaiseExit \/ Join \/ JoinTimeout \/ FreeScanner
  BY <1>5 DEF Refuse, Stopped, RaiseStop, RaiseExit, Join, JoinTimeout, FreeScanner
<1>6. CASE RequestExit
  BY <1>6 DEF RequestExit, ScanTargetCallback, Event, IsEnd
<1>7. CASE EndProcess
  BY <1>7 DEF EndProcess
<1>8. ASSUME Worker PROVE StopInv'
  <2>1. CASE Begin \/ Load \/ SaveResult \/ MarkDone \/ Reply
    BY <2>1 DEF Begin, Load, SaveResult, MarkDone, Reply
  <2>2. CASE CloseThread \/ EndScanning BY <2>2 DEF CloseThread, EndScanning
  <2>3. CASE Visit \/ VisitAstray \/ Judge \/ SendResult \/ SendFinish
    <3>1. CASE UNCHANGED cbVars
      BY <2>3, <3>1 DEF Visit, VisitAstray, Judge, SendResult, SendFinish
    <3>2. CASE \E code \in SCAN_PATH_START .. SCAN_PATH_FINISH, d \in Nat :
                 ScanTargetCallback("worker", Event(code, d))
      <4>1. /\ cbAt["worker"] = "idle" /\ wpc # "none" /\ wpc' # "none"
            /\ UNCHANGED <<mpc, m_Pipes>>
        BY <2>3 DEF Visit, VisitAstray, Judge, SendResult, SendFinish
      <4> QED BY <3>2, <4>1, WorkerCallback
    <3>3. /\ SCAN_PATH_START \in SCAN_PATH_START .. SCAN_PATH_FINISH
          /\ SCAN_PATH_FOUND \in SCAN_PATH_START .. SCAN_PATH_FINISH
          /\ SCAN_PATH_RESULT \in SCAN_PATH_START .. SCAN_PATH_FINISH
          /\ SCAN_PATH_FINISH \in SCAN_PATH_START .. SCAN_PATH_FINISH
      BY DEF SCAN_PATH_START, SCAN_PATH_FOUND, SCAN_PATH_RESULT, SCAN_PATH_FINISH
    <3>4. CASE Visit \/ VisitAstray
      BY <3>2, <3>3, <3>4 DEF Visit, VisitAstray, TypeOK
    <3>5. CASE Judge
      BY <3>1, <3>2, <3>3, <3>5 DEF Judge, TypeOK
    <3>6. CASE SendResult
      <4>1. m_ImgDirectorys[ans] \in Nat
        <5>1. m_ImgDirectorys \in Seq(Dirs) /\ ans \in 1 .. Len(m_ImgDirectorys)
          BY <3>6 DEF SendResult, TypeOK
        <5>2. m_ImgDirectorys[ans] \in Dirs
          BY <5>1
        <5> QED BY <5>2 DEF Dirs
      <4> QED BY <3>2, <3>3, <3>6, <4>1 DEF SendResult
    <3>7. CASE SendFinish
      BY <3>2, <3>3, <3>7 DEF SendFinish
    <3> QED BY <2>3, <3>4, <3>5, <3>6, <3>7
  <2>4. CASE Callback("worker")
    BY <2>4 DEF Callback, CallbackLock, CallbackWrite, CallbackFlush, CallbackUnlock
  <2> QED BY <1>8, <2>1, <2>2, <2>3, <2>4 DEF Worker
<1>9. CASE Callback("main")
    BY <1>9 DEF Callback, CallbackLock, CallbackWrite, CallbackFlush, CallbackUnlock, IsEnd
<1>10. ASSUME NEW c \in Clients, Connect(c) \/ Client(c) \/ ClientDies(c) PROVE StopInv'
  <2>1. CASE Connect(c) BY <2>1 DEF Connect
  <2>2. CASE SendRequest(c) \/ ReadEvent(c) BY <2>2 DEF SendRequest, ReadEvent
  <2>3. CASE ReadFails(c) \/ ClientDies(c) BY <2>3 DEF ReadFails, ClientDies
  <2> QED BY <1>10, <2>1, <2>2, <2>3 DEF Client
<1> QED BY <1>1, <1>2, <1>3, <1>4, <1>5, <1>6, <1>7, <1>8, <1>9, <1>10 DEF Next, Main,
     AllEnded

-----------------------------------------------------------------------------
(***************************************************************************)
(* The registered pipes.                                                   *)
(***************************************************************************)

\* No step registers a pipe twice or leaves a closed one registered.
LEMMA PipesStep ==
  ASSUME TypeOK, WorkerInv, StopInv, PipesInv, [Next]_vars
  PROVE  PipesInv'
<1> /\ conn \in Clients \cup {NoClient}
    /\ mpc \in {"read", "register"} => conn \in Clients
    /\ cbAt \in [Threads -> {"idle", "lock", "write", "flush"}]
    /\ cbMsg \in [Threads -> Msg] /\ nxt \in Nat \ {0}
    /\ m_Pipes \in Seq(Clients)
    /\ pipe \in [Clients -> {"none", "open", "closed", "refused"}]
    /\ chan \in [Clients -> Seq(Msg)]
    /\ last \in [Clients -> {NoEvent, SCAN_PATH_FINISH, SCAN_PATH_STOP}]
    /\ told \in [Clients -> Seq(AnyDir)]
    /\ cpc \in [Clients -> {"idle", "opened", "reading", "done", "dead"}]
  BY DEF TypeOK
<1> USE ServiceAssumption
        DEF StopInv, MutexHeld, PipesInv, ConnFresh, IdleUnknown, PipesSound, FlushIsEnd,
            Through, Registered, Threads, mainVars, flagVars, workerVars, cbVars,
            scannerVars, clientVars
<1>1. CASE UNCHANGED vars BY <1>1 DEF vars
<1>2. CASE CreatePipe \/ Accept \/ ConnectTimeout \/ ReadRequest
  BY <1>2 DEF CreatePipe, Accept, ConnectTimeout, ReadRequest
<1>3. CASE GiveUp BY <1>3 DEF GiveUp
<1>4. CASE ReadTimeout BY <1>4 DEF ReadTimeout
<1>5. CASE Register
  <2>1. conn \in Clients /\ conn \notin Registered /\ pipe[conn] = "open" /\ cpc[conn] # "idle"
    BY <1>5 DEF Register
  <2>2. /\ Len(m_Pipes') = Len(m_Pipes) + 1
        /\ DOMAIN m_Pipes' = 1 .. Len(m_Pipes) + 1
        /\ \A i \in DOMAIN m_Pipes : m_Pipes'[i] = m_Pipes[i]
        /\ m_Pipes'[Len(m_Pipes) + 1] = conn
    BY <1>5, <2>1 DEF Register
  <2>3. ConnFresh' BY <1>5 DEF Register
  <2>4. IdleUnknown' BY <1>5, <2>1, <2>2 DEF Register
  <2>5. FlushIsEnd' BY <1>5, <2>1, <2>2 DEF Register
  <2>6. PipesSound'
    <3>1. UNCHANGED pipe /\ mpc' = "dispatch" /\ mpc = "register"
      BY <1>5 DEF Register
    <3>2. \A i \in DOMAIN m_Pipes : pipe[m_Pipes[i]] \in {"open", "refused"}
      BY <1>5, <3>1 DEF Register
    <3>3. \A i \in DOMAIN m_Pipes : m_Pipes[i] # conn
      BY <2>1
    <3>4. \A i \in DOMAIN m_Pipes' : i \in DOMAIN m_Pipes \/ i = Len(m_Pipes) + 1
      BY <2>2
    <3>5. \A i \in DOMAIN m_Pipes' : pipe'[m_Pipes'[i]] \in {"open", "refused"}
      <4> TAKE i \in DOMAIN m_Pipes'
      <4>1. CASE i \in DOMAIN m_Pipes
        BY <4>1, <2>2, <3>1, <3>2
      <4>2. CASE i = Len(m_Pipes) + 1
        BY <4>2, <2>1, <2>2, <3>1
      <4> QED BY <3>4, <4>1, <4>2
    <3>6. \A i, j \in DOMAIN m_Pipes' : m_Pipes'[i] = m_Pipes'[j] => i = j
      <4> TAKE i, j \in DOMAIN m_Pipes'
      <4>1. CASE i \in DOMAIN m_Pipes /\ j \in DOMAIN m_Pipes
        BY <4>1, <2>2
      <4>2. CASE i \in DOMAIN m_Pipes /\ j = Len(m_Pipes) + 1
        BY <4>2, <2>2, <3>3
      <4>3. CASE i = Len(m_Pipes) + 1 /\ j \in DOMAIN m_Pipes
        BY <4>3, <2>2, <3>3
      <4> QED BY <3>4, <4>1, <4>2, <4>3
    <3> QED BY <3>5, <3>6
  <2> QED BY <2>3, <2>4, <2>5, <2>6
<1>6. CASE RequestScan BY <1>6 DEF RequestScan
<1>7. CASE ClearResult \/ Spawn \/ AssignThread
  BY <1>7 DEF ClearResult, Spawn, AssignThread
<1>8. CASE Stopped \/ RaiseStop \/ RaiseExit \/ Join \/ JoinTimeout \/ FreeScanner
  BY <1>8 DEF Stopped, RaiseStop, RaiseExit, Join, JoinTimeout, FreeScanner
<1>9. CASE Refuse BY <1>9 DEF Refuse
<1>10. CASE RequestExit
  BY <1>10 DEF RequestExit, ScanTargetCallback, Event, StopBroadcast
<1>11. CASE EndProcess
  BY <1>11 DEF EndProcess
<1>12. ASSUME NEW t \in Threads, Callback(t) PROVE PipesInv'
  <2>1. CASE CallbackLock(t) BY <2>1 DEF CallbackLock
  <2>2. CASE CallbackWrite(t)
    <3>1. /\ cbAt[t] = "write" /\ nxt <= Len(m_Pipes)
          /\ UNCHANGED <<mpc, conn, m_Mutex, cbMsg, m_Pipes, pipe, cpc>>
          /\ \/ IsEnd(cbMsg[t]) /\ cbAt' = [cbAt EXCEPT ![t] = "flush"] /\ nxt' = nxt
             \/ ~IsEnd(cbMsg[t]) /\ nxt' = nxt + 1 /\ cbAt' = cbAt
      BY <2>2 DEF CallbackWrite
    <3>2. \A c \in Clients : cpc[c] = "idle" =>
            chan'[c] = chan[c] /\ told'[c] = told[c] /\ last'[c] = last[c]
      <4> DEFINE d == m_Pipes[nxt]
      <4>1. d \in Clients /\ d \in Registered
        BY <3>1
      <4>2. cpc[d] # "idle"
        BY <4>1
      <4>3. /\ chan' = chan \/ chan' = [chan EXCEPT ![d] = Append(@, cbMsg[t])]
            /\ told' = told \/ told' = [told EXCEPT ![d] = Append(@, cbMsg[t].dir)]
            /\ last' = last \/ last' = [last EXCEPT ![d] = cbMsg[t].event]
        BY <2>2 DEF CallbackWrite
      <4> QED BY <4>1, <4>2, <4>3
    <3>3. nxt \in DOMAIN m_Pipes
      BY <3>1
    <3>4. ConnFresh' /\ IdleUnknown' /\ FlushIsEnd'
      BY <3>1, <3>2, <3>3
    <3>5. PipesSound'
      BY <3>1, <3>3
    <3> QED BY <3>4, <3>5
  <2>3. CASE CallbackFlush(t) BY <2>3 DEF CallbackFlush
  <2>4. CASE CallbackUnlock(t) BY <2>4 DEF CallbackUnlock, IsEnd
  <2> QED BY <1>12, <2>1, <2>2, <2>3, <2>4 DEF Callback
<1>13. ASSUME Worker PROVE PipesInv'
  <2>1. CASE Begin \/ Load \/ SaveResult \/ MarkDone \/ Reply
    BY <2>1 DEF Begin, Load, SaveResult, MarkDone, Reply
  <2>2. CASE CloseThread \/ EndScanning BY <2>2 DEF CloseThread, EndScanning
  <2>3. CASE Visit \/ VisitAstray
    BY <2>3 DEF Visit, VisitAstray, ScanTargetCallback, Event
  <2>4. CASE Judge BY <2>4 DEF Judge, ScanTargetCallback, Event
  <2>5. CASE SendResult BY <2>5 DEF SendResult, ScanTargetCallback, Event
  <2>6. CASE SendFinish BY <2>6 DEF SendFinish, ScanTargetCallback, Event
  <2> QED BY <1>13, <2>1, <2>2, <2>3, <2>4, <2>5, <2>6, <1>12 DEF Worker
<1>14. ASSUME NEW c \in Clients, Connect(c) \/ Client(c) \/ ClientDies(c) PROVE PipesInv'
  <2>1. CASE Connect(c) BY <2>1 DEF Connect
  <2>2. CASE SendRequest(c) BY <2>2 DEF SendRequest
  <2>3. CASE ReadEvent(c) BY <2>3 DEF ReadEvent
  <2>4. CASE ReadFails(c) BY <2>4 DEF ReadFails
  <2>5. CASE ClientDies(c) BY <2>5 DEF ClientDies
  <2> QED BY <1>14, <2>1, <2>2, <2>3, <2>4, <2>5 DEF Client
<1> QED BY <1>1, <1>2, <1>3, <1>4, <1>5, <1>6, <1>7, <1>8, <1>9, <1>10, <1>11, <1>13,
     <1>12, <1>14 DEF Next, Main, AllEnded

-----------------------------------------------------------------------------
(***************************************************************************)
(* The end of an answer.                                                   *)
(***************************************************************************)

\* An empty pipe holds no end event.
LEMMA EndEmpty == EndOnlyLast(<<>>) /\ ~HasEnd(<<>>) /\ EndsInEnd(<<>>)
  BY DEF EndOnlyLast, HasEnd, EndsInEnd

\* An event appended to a pipe without an end event is the only end there.
LEMMA EndAppend ==
  ASSUME NEW s \in Seq(Msg), NEW m \in Msg, ~HasEnd(s)
  PROVE  /\ EndOnlyLast(Append(s, m))
         /\ HasEnd(Append(s, m)) => IsEnd(m)
         /\ IsEnd(m) => EndsInEnd(Append(s, m))
<1>1. /\ Len(Append(s, m)) = Len(s) + 1
      /\ \A i \in DOMAIN s : Append(s, m)[i] = s[i]
      /\ Append(s, m)[Len(s) + 1] = m
      /\ DOMAIN Append(s, m) = 1 .. Len(s) + 1
      /\ DOMAIN s = 1 .. Len(s) /\ Len(s) \in Nat
  OBVIOUS
<1>2. EndOnlyLast(Append(s, m)) /\ (HasEnd(Append(s, m)) => IsEnd(m))
  BY <1>1 DEF EndOnlyLast, HasEnd
<1>3. IsEnd(m) => EndsInEnd(Append(s, m))
  BY <1>1 DEF EndsInEnd
<1> QED BY <1>2, <1>3

\* Reading an event from a pipe leaves the end where it is.
LEMMA EndTail ==
  ASSUME NEW s \in Seq(Msg), s # <<>>, EndOnlyLast(s)
  PROVE  /\ EndOnlyLast(Tail(s))
         /\ HasEnd(Tail(s)) => HasEnd(s)
         /\ EndsInEnd(s) => EndsInEnd(Tail(s))
<1>1. /\ Len(s) \in Nat \ {0} /\ DOMAIN s = 1 .. Len(s) /\ Head(s) = s[1]
      /\ Tail(s) \in Seq(Msg)
      /\ Len(Tail(s)) = Len(s) - 1 /\ DOMAIN Tail(s) = 1 .. Len(s) - 1
      /\ \A i \in 1 .. Len(s) - 1 : Tail(s)[i] = s[i + 1]
  BY HeadTailProperties
<1>2. EndOnlyLast(Tail(s)) /\ (HasEnd(Tail(s)) => HasEnd(s))
  BY <1>1 DEF EndOnlyLast, HasEnd
<1>3. Tail(s) # <<>> => Len(s) - 1 \in 1 .. Len(s) - 1
  BY <1>1
<1>4. EndsInEnd(s) => EndsInEnd(Tail(s))
  BY <1>1, <1>3 DEF EndsInEnd
<1> QED BY <1>2, <1>4

\* No step writes to a pipe that has its end event.
LEMMA EndStep ==
  ASSUME TypeOK, StopInv, PipesInv, EndInv, [Next]_vars
  PROVE  EndInv'
<1> /\ conn \in Clients \cup {NoClient}
    /\ mpc \in {"read", "register"} => conn \in Clients
    /\ cbAt \in [Threads -> {"idle", "lock", "write", "flush"}]
    /\ cbMsg \in [Threads -> Msg] /\ nxt \in Nat \ {0}
    /\ m_Pipes \in Seq(Clients)
    /\ pipe \in [Clients -> {"none", "open", "closed", "refused"}]
    /\ chan \in [Clients -> Seq(Msg)]
    /\ last \in [Clients -> {NoEvent, SCAN_PATH_FINISH, SCAN_PATH_STOP}]
    /\ told \in [Clients -> Seq(AnyDir)]
    /\ cpc \in [Clients -> {"idle", "opened", "reading", "done", "dead"}]
  BY DEF TypeOK
<1> USE DEF StopInv, MutexHeld, PipesInv, ConnFresh, IdleUnknown, PipesSound, FlushIsEnd,
            EndInv, EndIsLast, EndCloses, NoEvent, Registered, Threads, mainVars, flagVars,
            workerVars, cbVars, scannerVars, clientVars
<1>1. ASSUME UNCHANGED <<chan, last, pipe, cpc, m_Pipes, nxt, cbAt>> PROVE EndInv'
  BY <1>1
<1>2. CASE UNCHANGED vars BY <1>2, <1>1 DEF vars
<1>3. CASE CreatePipe \/ Accept \/ ConnectTimeout \/ ReadRequest
  BY <1>3 DEF CreatePipe, Accept, ConnectTimeout, ReadRequest
<1>4. CASE GiveUp BY <1>4 DEF GiveUp
<1>5. CASE ReadTimeout BY <1>5 DEF ReadTimeout
<1>6. CASE Register BY <1>6 DEF Register
<1>7. CASE RequestScan BY <1>7 DEF RequestScan
<1>8. CASE ClearResult \/ Spawn \/ AssignThread
  BY <1>8, <1>1 DEF ClearResult, Spawn, AssignThread
<1>9. CASE Stopped \/ RaiseStop \/ RaiseExit \/ Join \/ JoinTimeout \/ FreeScanner
  BY <1>9 DEF Stopped, RaiseStop, RaiseExit, Join, JoinTimeout, FreeScanner
<1>10. CASE Refuse BY <1>10, EndEmpty DEF Refuse
<1>11. CASE RequestExit
  BY <1>11 DEF RequestExit, ScanTargetCallback, Event, StopBroadcast
<1>12. CASE EndProcess
  BY <1>12 DEF EndProcess
<1>13. ASSUME NEW t \in Threads, Callback(t) PROVE EndInv'
  <2>1. CASE CallbackLock(t) BY <2>1 DEF CallbackLock
  <2>2. CASE CallbackWrite(t)
    <3> DEFINE d == m_Pipes[nxt]
    <3>1. nxt \in DOMAIN m_Pipes /\ d \in Clients
      BY <2>2 DEF CallbackWrite
    <3>2. \A u \in Threads : cbAt[u] # "flush"
      BY <2>2 DEF CallbackWrite
    <3>3. CASE UNCHANGED <<chan, told, last>>
      BY <2>2, <3>2, <3>3 DEF CallbackWrite
    <3>4. CASE /\ Writable(d) /\ chan' = [chan EXCEPT ![d] = Append(@, cbMsg[t])]
               /\ last' = IF IsEnd(cbMsg[t]) THEN [last EXCEPT ![d] = cbMsg[t].event] ELSE last
      <4>1. last[d] = NoEvent /\ ~HasEnd(chan[d])
        BY <3>1, <3>2, <3>4 DEF Writable
      <4>2. EndOnlyLast(chan'[d]) /\ (HasEnd(chan'[d]) => IsEnd(cbMsg[t]))
        BY <3>1, <3>4, <4>1, EndAppend
      <4>3. UNCHANGED <<pipe, cpc, m_Pipes, cbMsg>>
        BY <2>2 DEF CallbackWrite
      <4>4. IsEnd(cbMsg[t]) => cbAt'[t] = "flush" /\ nxt' = nxt
        BY <2>2 DEF CallbackWrite
      <4>5. \A c \in Clients : c # d => chan'[c] = chan[c] /\ last'[c] = last[c]
        BY <3>1, <3>4, <4>1
      <4>6. last'[d] = IF IsEnd(cbMsg[t]) THEN cbMsg[t].event ELSE NoEvent
        BY <3>1, <3>4, <4>1
      <4>7. IsEnd(cbMsg[t]) <=> cbMsg[t].event \in {SCAN_PATH_FINISH, SCAN_PATH_STOP}
        BY DEF IsEnd
      <4>8. last'[d] # NoEvent <=> IsEnd(cbMsg[t])
        BY <4>6, <4>7 DEF SCAN_PATH_FINISH, SCAN_PATH_STOP
      <4>9. IsEnd(cbMsg[t]) => EndsInEnd(chan'[d])
        BY <3>1, <3>4, <4>1, EndAppend
      <4>10. EndIsLast'
        <5>1. ASSUME NEW c \in Clients
              PROVE  /\ EndOnlyLast(chan'[c])
                     /\ last'[c] # NoEvent => EndsInEnd(chan'[c])
          BY <4>2, <4>5, <4>8, <4>9
        <5> QED BY <5>1
      <4>11. EndCloses'
        <5>1. ASSUME NEW c \in Clients, HasEnd(chan'[c])
              PROVE  last'[c] # NoEvent
          BY <5>1, <4>2, <4>5, <4>8
        <5>2. ASSUME last'[d] # NoEvent
              PROVE  cbAt'[t] = "flush" /\ m_Pipes'[nxt'] = d
          BY <5>2, <4>3, <4>4, <4>8
        <5>3. ASSUME NEW c \in Clients, c # d, last'[c] # NoEvent
              PROVE  pipe'[c] # "open" \/ cpc'[c] = "dead"
          BY <5>3, <3>2, <4>3, <4>5
        <5> QED BY <5>1, <5>2, <5>3
      <4> QED BY <4>10, <4>11
    <3> QED BY <2>2, <3>3, <3>4 DEF CallbackWrite
  <2>3. CASE CallbackFlush(t) BY <2>3 DEF CallbackFlush
  <2>4. CASE CallbackUnlock(t) BY <2>4 DEF CallbackUnlock, IsEnd
  <2> QED BY <1>13, <2>1, <2>2, <2>3, <2>4 DEF Callback
<1>14. ASSUME Worker PROVE EndInv'
  <2>1. CASE Begin \/ Load \/ SaveResult \/ MarkDone \/ Reply
    BY <2>1, <1>1 DEF Begin, Load, SaveResult, MarkDone, Reply
  <2>2. CASE CloseThread \/ EndScanning BY <2>2 DEF CloseThread, EndScanning
  <2>3. CASE Visit \/ VisitAstray
    BY <2>3 DEF Visit, VisitAstray, ScanTargetCallback, Event
  <2>4. CASE Judge BY <2>4 DEF Judge, ScanTargetCallback, Event
  <2>5. CASE SendResult BY <2>5 DEF SendResult, ScanTargetCallback, Event
  <2>6. CASE SendFinish BY <2>6 DEF SendFinish, ScanTargetCallback, Event
  <2> QED BY <1>14, <2>1, <2>2, <2>3, <2>4, <2>5, <2>6, <1>13 DEF Worker
<1>15. ASSUME NEW c \in Clients, Connect(c) \/ Client(c) \/ ClientDies(c) PROVE EndInv'
  <2>1. CASE Connect(c) BY <2>1, EndEmpty DEF Connect
  <2>2. CASE SendRequest(c) BY <2>2 DEF SendRequest
  <2>3. CASE ReadEvent(c)
    <3>1. /\ chan[c] \in Seq(Msg) /\ chan[c] # <<>>
          /\ chan' = [chan EXCEPT ![c] = Tail(@)]
          /\ UNCHANGED <<last, pipe, cpc, m_Pipes, nxt, cbAt>>
      BY <2>3 DEF ReadEvent
    <3>2. /\ EndOnlyLast(Tail(chan[c]))
          /\ HasEnd(Tail(chan[c])) => HasEnd(chan[c])
          /\ EndsInEnd(chan[c]) => EndsInEnd(Tail(chan[c]))
      BY <3>1, EndTail
    <3> QED BY <3>1, <3>2
  <2>4. CASE ReadFails(c) BY <2>4 DEF ReadFails
  <2>5. CASE ClientDies(c) BY <2>5, EndEmpty DEF ClientDies
  <2> QED BY <1>15, <2>1, <2>2, <2>3, <2>4, <2>5 DEF Client
<1> QED BY <1>2, <1>3, <1>4, <1>5, <1>6, <1>7, <1>8, <1>9, <1>10, <1>11, <1>12, <1>14,
     <1>13, <1>15 DEF Next, Main, AllEnded

-----------------------------------------------------------------------------
(***************************************************************************)
(* The theorems.                                                           *)
(***************************************************************************)

\* The invariant holds when the process starts.
LEMMA InitInv == Init => IInv
<1> SUFFICES ASSUME Init PROVE IInv
  OBVIOUS
<1>1. TypeOK
  BY InitType
<1>2. WorkerInv /\ StopInv
  BY DEF Init, WorkerInv, FlagCovers, HandleCovers, WorkerExclusive, ScanningBacked,
         StopInv, MutexHeld, StopBroadcast, SilentExit, ExitPoints, Threads
<1>3. m_Pipes = <<>> /\ Registered = {}
  BY DEF Init, Registered
<1>4. PipesInv
  BY <1>3, ServiceAssumption
     DEF Init, PipesInv, ConnFresh, IdleUnknown, PipesSound, FlushIsEnd
<1>5. EndInv
  BY EndEmpty DEF Init, EndInv, EndIsLast, EndCloses
<1>6. AnswerInv
  BY <1>3 DEF Init, AnswerInv, WorkerSends, Sending, ToldInAnswer, ToldAll, EndedBehind,
     EarlyServed, Threads
<1> QED BY <1>1, <1>2, <1>4, <1>5, <1>6 DEF IInv

\* The invariant is inductive.
LEMMA NextInv == IInv /\ [Next]_vars => IInv'
  BY NextType, WorkerStep, StopStep, PipesStep, EndStep, AnswerStep DEF IInv

\* The invariant holds in every reachable state.
THEOREM Invariance == Spec => []IInv
  BY InitInv, NextInv, PTL DEF Spec

\* Every variable keeps its type, and the pipe that a request is read from
\* has a client at its other end.
THEOREM TypeCorrect == Spec => []TypeOK
<1>1. IInv => TypeOK
  BY DEF IInv
<1> QED BY <1>1, Invariance, PTL

\* ClearResult and CreateThread run only when no worker is there.
THEOREM WorkerIsExclusive == Spec => []WorkerExclusive
<1>1. IInv => WorkerExclusive
  BY DEF IInv, WorkerInv
<1> QED BY <1>1, Invariance, PTL

\* A request that finds m_ImgScanning set has a worker to answer it, unless
\* the process is ending or CreateThread failed.
THEOREM ScanningIsBacked == Spec => []ScanningBacked
<1>1. IInv => ScanningBacked
  BY DEF IInv, WorkerInv
<1> QED BY <1>1, Invariance, PTL

\* m_Scanner is deleted under a worker that uses it only if the wait for the
\* worker expired.
THEOREM FreedIsJoined == Spec => []FreedAfterJoin
<1>1. IInv => FreedAfterJoin
  BY DEF IInv, WorkerInv, HandleCovers, FreedAfterJoin
<1> QED BY <1>1, Invariance, PTL

\* Nothing is written to a client once the accept loop is left.
THEOREM ExitIsSilent == Spec => []SilentExit
<1>1. IInv => SilentExit
  BY DEF IInv, StopInv
<1> QED BY <1>1, Invariance, PTL

\* No pipe is registered twice, or stays registered when it is closed.
THEOREM PipesAreSound == Spec => []PipesSound
<1>1. IInv => PipesSound
  BY DEF IInv, PipesInv
<1> QED BY <1>1, Invariance, PTL

\* No client is sent anything after the end of its answer.
THEOREM EndComesLast == Spec => []EndIsLast
<1>1. IInv => EndIsLast
  BY DEF IInv, EndInv
<1> QED BY <1>1, Invariance, PTL
=============================================================================
