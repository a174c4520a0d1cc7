------------------------- MODULE ScanSessionProofs -------------------------
(***************************************************************************)
(* Proof that ScanService implements ScanSession, for every set of         *)
(* clients, every number of directories and every pipe capacity: the       *)
(* threads, flags, pipes and the mutex give the clients what ScanSession   *)
(* promises them.                                                          *)
(***************************************************************************)
EXTENDS ScanServiceProofs

\* A session is open exactly while its client waits for the end.
LEMMA OpenIsWaiting ==
  ASSUME TypeOK, NEW c \in Clients
  PROVE  SessionOf(c) = "open" <=> Waiting(c)
<1>1. last[c] \in {NoEvent, SCAN_PATH_FINISH, SCAN_PATH_STOP}
  BY DEF TypeOK
<1> QED BY <1>1 DEF SessionOf, Waiting, NoEvent, SCAN_PATH_FINISH, SCAN_PATH_STOP

\* A step that tells nobody anything, refuses nobody and ends no client is a
\* step of ScanSession if it leaves the answer alone.
LEMMA SessionKept ==
  ASSUME UNCHANGED <<told, last>>,
         \A c \in Clients : /\ pipe'[c] = "refused" <=> pipe[c] = "refused"
                            /\ cpc'[c] = "dead" <=> cpc[c] = "dead"
  PROVE  UNCHANGED <<told, [c \in Clients |-> SessionOf(c)]>>
<1>1. \A c \in Clients : SessionOf(c)' = SessionOf(c)
  BY DEF SessionOf
<1> QED BY <1>1

\* Nobody waiting has been told anything while no answer is given.
LEMMA NoneTold ==
  ASSUME TypeOK, AnswerInv, wpc \notin {"answer", "close", "clear"},
         wpc = "none" => ~m_StopCallback
  PROVE  Session!Unbegun
<1>1. \A c \in Clients : Waiting(c) => told[c] = <<>>
  BY DEF AnswerInv, ToldInAnswer
<1> QED BY <1>1, OpenIsWaiting DEF Session!Unbegun

\* The initial states of the service are initial states of ScanSession.
LEMMA InitSession == Init => Session!Init
<1> SUFFICES ASSUME Init PROVE Session!Init
  OBVIOUS
<1>1. \A c \in Clients : SessionOf(c) = "open"
  BY InitType, OpenIsWaiting DEF Init, Waiting
<1> QED BY <1>1 DEF Init, Session!Init

\* A write of ScanTargetCallback tells its client the next result, or ends its
\* session, or is nothing that ScanSession speaks of.
LEMMA WriteSession ==
  ASSUME IInv, NEW t \in Threads, CallbackWrite(t)
  PROVE  [Session!Next]_Session!vars
<1> DEFINE d == m_Pipes[nxt]
           S == [c \in Clients |-> SessionOf(c)]
<1> /\ TypeOK /\ AnswerInv /\ StopInv /\ EndInv
    /\ m_Pipes \in Seq(Clients) /\ nxt \in Nat \ {0}
    /\ cbAt \in [Threads -> {"idle", "lock", "write", "flush"}]
    /\ cbMsg \in [Threads -> Msg]
    /\ m_ImgDirectorys \in Seq(Dirs)
    /\ told \in [Clients -> Seq(AnyDir)]
    /\ last \in [Clients -> {NoEvent, SCAN_PATH_FINISH, SCAN_PATH_STOP}]
    /\ ans \in Nat \ {0}
    /\ "worker" \in Threads
  BY DEF IInv, TypeOK, Threads
<1>1. /\ cbAt[t] = "write" /\ m_Mutex = t /\ d \in Clients /\ d \in Registered
      /\ UNCHANGED <<early, m_ImgDirectorys, cpc, pipe>>
  BY DEF CallbackWrite, StopInv, MutexHeld, workerVars, scannerVars, Registered
<1>2. \/ /\ Writable(d)
         /\ told' = IF cbMsg[t].event = SCAN_PATH_RESULT
                    THEN [told EXCEPT ![d] = Append(@, cbMsg[t].dir)] ELSE told
         /\ last' = IF IsEnd(cbMsg[t]) THEN [last EXCEPT ![d] = cbMsg[t].event] ELSE last
      \/ told' = told /\ last' = last
  BY DEF CallbackWrite
<1>4. CASE told' = told /\ last' = last
  BY <1>1, <1>4, SessionKept DEF Session!vars
<1>3. CASE Writable(d)
  <2>1. cpc[d] # "dead" /\ pipe[d] = "open"
    BY <1>3 DEF Writable
  <2>2. last[d] = NoEvent
    <3>1. \A u \in Threads : cbAt[u] # "flush"
      BY <1>1 DEF StopInv, MutexHeld
    <3> QED BY <1>1, <2>1, <3>1 DEF EndInv, EndCloses
  <2>3. Waiting(d) /\ S[d] = "open"
    BY <1>1, <2>1, <2>2, OpenIsWaiting DEF Waiting
  <2>4. cbMsg[t].event \in SCAN_PATH_START .. SCAN_PATH_STOP
    BY DEF Msg
  <2>5. CASE cbMsg[t].event \notin {SCAN_PATH_RESULT, SCAN_PATH_FINISH, SCAN_PATH_STOP}
    BY <1>2, <1>4, <2>5 DEF IsEnd
  <2>6. CASE cbMsg[t].event = SCAN_PATH_RESULT
    <3>1. t = "worker" /\ Sending
      <4>1. t # "main"
        BY <1>1, <2>6 DEF StopInv, StopBroadcast, SCAN_PATH_RESULT, SCAN_PATH_STOP
      <4> QED BY <1>1, <4>1 DEF Threads, Sending
    <3>2. /\ wpc = "answer" /\ ans > 1 /\ ans <= Len(m_ImgDirectorys) + 1
          /\ cbMsg[t].dir = m_ImgDirectorys[ans - 1]
      BY <2>6, <3>1 DEF AnswerInv, WorkerSends, Event,
         SCAN_PATH_START, SCAN_PATH_FOUND, SCAN_PATH_RESULT, SCAN_PATH_FINISH
    <3>3. ~Passed(d)
      BY <1>1 DEF IInv, PipesInv, PipesSound, Passed, CallbackWrite
    <3>4. SentTo(d) = ans - 2
      BY <2>6, <3>1, <3>3 DEF SentTo
    <3>5. PICK n \in 0 .. ans - 2 : told[d] = SubSeq(m_ImgDirectorys, n + 1, ans - 2)
      BY <1>1, <2>3, <3>1, <3>2, <3>4 DEF AnswerInv, ToldAll, ToldSince
    <3>6. last' = last /\ told' = [told EXCEPT ![d] = Append(@, m_ImgDirectorys[(ans - 2) + 1])]
      BY <1>2, <1>3, <2>6, <3>2 DEF CallbackWrite, IsEnd, SCAN_PATH_RESULT, SCAN_PATH_FINISH, SCAN_PATH_STOP
    <3>7. S' = S
      BY <1>1, <3>6 DEF SessionOf
    <3>8. /\ n \in 0 .. Len(m_ImgDirectorys) /\ ans - 2 \in 0 .. Len(m_ImgDirectorys)
          /\ n <= ans - 2 /\ ans - 2 < Len(m_ImgDirectorys)
      BY <3>2
    <3>9. Session!Tell(d)
      BY <1>1, <2>3, <3>5, <3>6, <3>7, <3>8 DEF Session!Tell
    <3> QED BY <1>1, <3>9 DEF Session!Next
  <2>7. CASE cbMsg[t].event \in {SCAN_PATH_FINISH, SCAN_PATH_STOP}
    <3>1. \/ told' = told /\ last' = [last EXCEPT ![d] = cbMsg[t].event]
          \/ told' = told /\ last' = last
      <4>1. IsEnd(cbMsg[t]) /\ cbMsg[t].event # SCAN_PATH_RESULT
        BY <2>7 DEF IsEnd, SCAN_PATH_RESULT, SCAN_PATH_FINISH, SCAN_PATH_STOP
      <4>2. CASE told' = told /\ last' = last
        BY <4>2
      <4>3. CASE /\ told' = IF cbMsg[t].event = SCAN_PATH_RESULT
                            THEN [told EXCEPT ![d] = Append(@, cbMsg[t].dir)] ELSE told
                 /\ last' = IF IsEnd(cbMsg[t]) THEN [last EXCEPT ![d] = cbMsg[t].event]
                            ELSE last
        <5>1. told' = told
          BY <4>1, <4>3
        <5>2. last' = [last EXCEPT ![d] = cbMsg[t].event]
          BY <4>1, <4>3
        <5> QED BY <5>1, <5>2
      <4> QED BY <1>2, <4>2, <4>3
    <3>2. SUFFICES ASSUME told' = told, last' = [last EXCEPT ![d] = cbMsg[t].event]
                   PROVE  [Session!Next]_Session!vars
      BY <1>4, <3>1
    <3>3. \A c \in Clients : c # d => SessionOf(c)' = SessionOf(c)
      BY <1>1, <3>2 DEF SessionOf
    <3>4. \A c \in Clients : c = d =>
             SessionOf(c)' = IF cbMsg[t].event = SCAN_PATH_FINISH THEN "finished" ELSE "stopped"
      BY <1>1, <2>1, <2>7, <3>2 DEF SessionOf, SCAN_PATH_FINISH, SCAN_PATH_STOP
    <3>5. CASE cbMsg[t].event = SCAN_PATH_STOP
      <4>1. S' = [S EXCEPT ![d] = "stopped"]
        <5>1. cbMsg[t].event # SCAN_PATH_FINISH
          BY <3>5 DEF SCAN_PATH_FINISH, SCAN_PATH_STOP
        <5> QED BY <1>1, <3>3, <3>4, <5>1
      <4>2. Session!Stop(d)
        BY <1>1, <2>3, <3>2, <4>1 DEF Session!Stop
      <4> QED BY <1>1, <4>2 DEF Session!Next
    <3>6. CASE cbMsg[t].event = SCAN_PATH_FINISH
      <4>1. S' = [S EXCEPT ![d] = "finished"]
        BY <1>1, <3>3, <3>4, <3>6
      <4>2. t = "worker" /\ Sending
        <5>1. t # "main"
          BY <1>1, <3>6 DEF StopInv, StopBroadcast, SCAN_PATH_FINISH, SCAN_PATH_STOP
        <5> QED BY <1>1, <5>1 DEF Threads, Sending
      <4>3. wpc = "close" /\ ans = Len(m_ImgDirectorys) + 1
        BY <3>6, <4>2 DEF AnswerInv, WorkerSends, Event,
           SCAN_PATH_START, SCAN_PATH_FOUND, SCAN_PATH_RESULT, SCAN_PATH_FINISH
      <4>4. SentTo(d) = Len(m_ImgDirectorys)
        BY <3>6, <4>2, <4>3 DEF SentTo, SCAN_PATH_RESULT, SCAN_PATH_FINISH
      <4>5. PICK n \in 0 .. Len(m_ImgDirectorys) :
               /\ told[d] = SubSeq(m_ImgDirectorys, n + 1, Len(m_ImgDirectorys))
               /\ d \in early => n = 0
        BY <1>1, <2>3, <4>2, <4>3, <4>4 DEF AnswerInv, ToldAll, ToldSince
      <4>6. Session!Finish(d)
        BY <1>1, <2>3, <3>2, <4>1, <4>5 DEF Session!Finish
      <4> QED BY <1>1, <4>6 DEF Session!Next
    <3> QED BY <2>7, <3>5, <3>6
  <2> QED BY <2>4, <2>5, <2>6, <2>7
<1> QED BY <1>2, <1>4, <1>3

\* A step outside the writes of ScanTargetCallback changes the answer only
\* while nobody has been told a part of it, and ends at most one session.
LEMMA OtherSession ==
  ASSUME IInv, IInv', Next, \A t \in Threads : ~CallbackWrite(t)
  PROVE  [Session!Next]_Session!vars
<1> DEFINE S == [c \in Clients |-> SessionOf(c)]
<1> /\ TypeOK /\ AnswerInv /\ m_ImgDirectorys' \in Seq(Dirs) /\ early' \subseteq Clients
    /\ pipe \in [Clients -> {"none", "open", "closed", "refused"}]
    /\ cpc \in [Clients -> {"idle", "opened", "reading", "done", "dead"}]
    /\ conn \in Clients \cup {NoClient}
    /\ "main" \in Threads /\ "worker" \in Threads
  BY DEF IInv, TypeOK, Threads
<1> USE DEF mainVars, flagVars, cbVars, workerVars, scannerVars, clientVars
\* What most steps do: nothing that a client learns of.
<1>a. ASSUME UNCHANGED <<m_ImgDirectorys, early, told, last>>,
             \A c \in Clients : /\ pipe'[c] = "refused" <=> pipe[c] = "refused"
                                /\ cpc'[c] = "dead" <=> cpc[c] = "dead"
      PROVE  UNCHANGED Session!vars
  BY <1>a, SessionKept DEF Session!vars
<1>1. CASE CreatePipe \/ Accept \/ ConnectTimeout \/ ReadRequest \/ Register \/ RequestScan
         \/ Spawn \/ AssignThread \/ RequestExit \/ Stopped \/ RaiseStop \/ RaiseExit
         \/ Join \/ JoinTimeout \/ FreeScanner
  BY <1>1, <1>a DEF CreatePipe, Accept, ConnectTimeout, ReadRequest, Register, RequestScan,
     Spawn, AssignThread, RequestExit, Stopped, RaiseStop, RaiseExit, Join, JoinTimeout,
     FreeScanner
<1>2. CASE GiveUp \/ ReadTimeout \/ EndProcess
  <2>1. \A c \in Clients : pipe'[c] = "refused" <=> pipe[c] = "refused"
    <3>1. CASE GiveUp
      <4>1. conn = NoClient \/ pipe[conn] = "open"
        BY <3>1 DEF GiveUp, IInv, PipesInv, ConnFresh
      <4> QED BY <3>1, <4>1, ServiceAssumption DEF GiveUp
    <3>2. CASE ReadTimeout
      <4>1. conn \in Clients /\ pipe[conn] = "open"
        BY <3>2, ServiceAssumption DEF ReadTimeout, IInv, PipesInv, ConnFresh, TypeOK
      <4> QED BY <3>2, <4>1 DEF ReadTimeout
    <3>3. CASE EndProcess
      BY <3>3 DEF EndProcess
    <3> QED BY <1>2, <3>1, <3>2, <3>3
  <2> QED BY <1>2, <1>a, <2>1 DEF GiveUp, ReadTimeout, EndProcess
<1>3. CASE ClearResult
  <2>1. Session!Unbegun
    BY <1>3, NoneTold DEF ClearResult, IInv, WorkerInv, WorkerExclusive, StopInv,
       StopBroadcast, ExitPoints
  <2>2. S' = S
    BY <1>3 DEF ClearResult, SessionOf
  <2> QED BY <1>3, <2>1, <2>2 DEF ClearResult, Session!Next, Session!Scan
<1>4. CASE Load \/ Judge
  <2>1. Session!Unbegun
    BY <1>4, NoneTold DEF Load, Judge
  <2>2. S' = S
    BY <1>4 DEF Load, Judge, SessionOf
  <2> QED BY <1>4, <2>1, <2>2 DEF Load, Judge, Session!Next, Session!Scan
<1>5. CASE Reply
  <2>1. Session!Unbegun
    BY <1>5, NoneTold DEF Reply
  <2>2. S' = S
    BY <1>5 DEF Reply, SessionOf
  <2> QED BY <1>5, <2>1, <2>2 DEF Reply, Session!Next, Session!Begin
<1>6. CASE Refuse
  <2>1. UNCHANGED <<m_ImgDirectorys, early, told, last, cpc>>
        /\ pipe' = [c \in Clients |-> IF c = conn THEN "refused" ELSE pipe[c]]
    BY <1>6 DEF Refuse
  <2>2. CASE conn = NoClient
    BY <1>a, <2>1, <2>2, ServiceAssumption
  <2>3. CASE conn \in Clients /\ SessionOf(conn) # "gone"
    <3>1. S' = [S EXCEPT ![conn] = "gone"]
      <4>1. \A c \in Clients : c # conn => SessionOf(c)' = SessionOf(c)
        BY <2>1 DEF SessionOf
      <4>2. \A c \in Clients : c = conn => SessionOf(c)' = "gone"
        BY <2>1 DEF SessionOf
      <4> QED BY <4>1, <4>2
    <3>2. Session!Leave(conn)
      BY <2>1, <2>3, <3>1 DEF Session!Leave
    <3> QED BY <2>3, <3>2 DEF Session!Next
  <2>4. CASE conn \in Clients /\ SessionOf(conn) = "gone"
    <3>1. S' = S
      BY <2>1, <2>4 DEF SessionOf
    <3> QED BY <2>1, <3>1 DEF Session!vars
  <2> QED BY <2>2, <2>3, <2>4
<1>7. CASE Begin \/ Visit \/ VisitAstray \/ SaveResult \/ MarkDone \/ SendResult \/ SendFinish
         \/ CloseThread \/ EndScanning
  BY <1>7, <1>a DEF Begin, Visit, VisitAstray, SaveResult, MarkDone, SendResult, SendFinish, CloseThread,
     EndScanning
<1>8. ASSUME NEW t \in Threads, CallbackLock(t) \/ CallbackFlush(t) \/ CallbackUnlock(t)
      PROVE  UNCHANGED Session!vars
  <2>1. \A c \in Clients : pipe'[c] = "refused" <=> pipe[c] = "refused"
    BY <1>8 DEF CallbackLock, CallbackFlush, CallbackUnlock
  <2> QED BY <1>8, <1>a, <2>1 DEF CallbackLock, CallbackFlush, CallbackUnlock
<1>9. ASSUME NEW c \in Clients, Connect(c) \/ Client(c)
      PROVE  UNCHANGED Session!vars
  <2>1. \A d \in Clients : /\ pipe'[d] = "refused" <=> pipe[d] = "refused"
                           /\ cpc'[d] = "dead" <=> cpc[d] = "dead"
    <3>1. CASE Connect(c)
      <4>1. /\ cpc[c] = "idle" /\ cpc' = [cpc EXCEPT ![c] = "opened"]
            /\ pipe[c] = "none" /\ pipe' = [pipe EXCEPT ![c] = "open"]
        BY <3>1 DEF Connect, IInv, PipesInv, IdleUnknown
      <4>2. \A d \in Clients : pipe'[d] = "refused" <=> pipe[d] = "refused"
        BY <4>1
      <4>3. \A d \in Clients : cpc'[d] = "dead" <=> cpc[d] = "dead"
        BY <4>1
      <4> QED BY <4>2, <4>3
    <3>2. CASE Client(c)
      <4>1. /\ pipe' = pipe /\ cpc[c] # "dead"
            /\ \/ cpc' = cpc
               \/ cpc' = [cpc EXCEPT ![c] = "reading"]
               \/ cpc' = [cpc EXCEPT ![c] = "done"]
        BY <3>2 DEF Client, SendRequest, ReadEvent, ReadFails
      <4>2. \A d \in Clients : pipe'[d] = "refused" <=> pipe[d] = "refused"
        BY <4>1
      <4>3. \A d \in Clients : cpc'[d] = "dead" <=> cpc[d] = "dead"
        BY <4>1
      <4> QED BY <4>2, <4>3
    <3> QED BY <1>9, <3>1, <3>2
  <2> QED BY <1>9, <1>a, <2>1 DEF Connect, Client, SendRequest, ReadEvent, ReadFails
<1>10. ASSUME NEW c \in Clients, ClientDies(c)
       PROVE  [Session!Next]_Session!vars
  <2>1. UNCHANGED <<m_ImgDirectorys, early, told, last, pipe>>
        /\ cpc[c] # "dead" /\ cpc' = [cpc EXCEPT ![c] = "dead"]
    BY <1>10 DEF ClientDies
  <2>2. CASE SessionOf(c) # "gone"
    <3>1. S' = [S EXCEPT ![c] = "gone"]
      <4>1. \A e \in Clients : e # c => SessionOf(e)' = SessionOf(e)
        BY <2>1 DEF SessionOf
      <4>2. \A e \in Clients : e = c => SessionOf(e)' = "gone"
        BY <2>1 DEF SessionOf
      <4> QED BY <4>1, <4>2
    <3>2. Session!Leave(c)
      BY <2>1, <2>2, <3>1 DEF Session!Leave
    <3> QED BY <3>2 DEF Session!Next
  <2>3. CASE SessionOf(c) = "gone"
    <3>1. S' = S
      BY <2>1, <2>3 DEF SessionOf
    <3> QED BY <2>1, <3>1 DEF Session!vars
  <2> QED BY <2>2, <2>3
<1>11. CASE AllEnded
  <2>1. UNCHANGED <<m_ImgDirectorys, early, told, last, pipe, cpc>>
    BY <1>11 DEF AllEnded, vars
  <2> QED BY <1>a, <2>1
<1> QED
  BY <1>1, <1>2, <1>3, <1>4, <1>5, <1>6, <1>7, <1>8, <1>9, <1>10, <1>11
     DEF Next, Main, Worker, Callback

\* What the clients of the service are told, and the ends of their sessions,
\* are what ScanSession allows.
THEOREM ImplementsSession == Spec => AnswersSessions
<1>1. IInv /\ IInv' /\ [Next]_vars => [Session!Next]_Session!vars
  <2> SUFFICES ASSUME IInv, IInv', [Next]_vars
               PROVE  [Session!Next]_Session!vars
    OBVIOUS
  <2>1. CASE Next /\ \A t \in Threads : ~CallbackWrite(t)
    BY <2>1, OtherSession
  <2>2. ASSUME NEW t \in Threads, CallbackWrite(t)
        PROVE  [Session!Next]_Session!vars
    BY <2>2, WriteSession
  <2>3. CASE UNCHANGED vars
    <3>1. UNCHANGED <<m_ImgDirectorys, early, told, last, pipe, cpc>>
      BY <2>3 DEF vars, workerVars, scannerVars, clientVars
    <3> QED BY <3>1, SessionKept DEF Session!vars
  <2> QED BY <2>1, <2>2, <2>3
<1> QED
  BY <1>1, InitSession, Invariance, PTL DEF Spec, AnswersSessions, Session!Spec
=============================================================================
