-------------------------- MODULE ScanAnswerProofs --------------------------
(***************************************************************************)
(* Proof that no step of ScanService breaks AnswerInv: what a client has   *)
(* been told is the part of the answer broadcast since it was registered.  *)
(***************************************************************************)
EXTENDS ScanServiceInv, TLAPS, SequenceTheorems

\* Telling the next directory extends the part of the answer that was told.
LEMMA NextTold ==
  ASSUME NEW S, NEW s \in Seq(S), NEW n \in Nat, NEW k \in Nat, n <= k, k < Len(s)
  PROVE  Append(SubSeq(s, n + 1, k), s[k + 1]) = SubSeq(s, n + 1, k + 1)
<1>1. n + 1 \in 1 .. Len(s) /\ k + 1 \in n + 1 .. Len(s) /\ Len(s) \in Nat
  OBVIOUS
<1>2. SubSeq(s, n + 1, k + 1) = SubSeq(s, n + 1, (k + 1) - 1) \o << s[k + 1] >>
  BY <1>1, SubSeqRecursiveSecond
<1>3. (k + 1) - 1 = k
  OBVIOUS
<1>4. s[k + 1] \in S /\ \A i \in n + 1 .. k : s[i] \in S
  BY <1>1
<1>5. SubSeq(s, n + 1, k) \in Seq(S)
  BY <1>1, <1>4, SubSeqProperties
<1> QED BY <1>2, <1>3, <1>4, <1>5, AppendIsConcat

\* Nothing told is no part of the answer.
LEMMA NothingTold ==
  ASSUME NEW s, NEW k \in Nat
  PROVE  SubSeq(s, k + 1, k) = <<>>
  BY SubSeqEmpty

\* The parts of AnswerInv that are about the broadcast.
BroadcastInv == WorkerSends /\ ToldInAnswer /\ ToldAll /\ EndedBehind

\* A step that leaves the broadcast alone, and nobody waiting who did not.
LEMMA BroadcastKept ==
  ASSUME BroadcastInv,
         UNCHANGED <<wpc, ans, early, m_ImgDirectorys, m_StopCallback, m_Mutex,
                     cbAt, cbMsg, nxt, m_Pipes, told>>,
         \A c \in Clients : Waiting(c)' => Waiting(c),
         m_Pipes \in Seq(Clients)
  PROVE  BroadcastInv'
<1> USE DEF BroadcastInv, Registered, Sending, Passed, SentTo
<1>1. WorkerSends' BY DEF WorkerSends
<1>2. ToldInAnswer' BY DEF ToldInAnswer
<1>3. ToldAll'
  <2>1. \A c \in Clients : ToldSince(c)' <=> ToldSince(c)
    BY DEF ToldSince
  <2>2. \A c \in Registered : c \in Clients
    OBVIOUS
  <2> QED BY <2>1, <2>2 DEF ToldAll
<1>4. EndedBehind'
  <2>1. \A i \in DOMAIN m_Pipes : Waiting(m_Pipes[i])' => Waiting(m_Pipes[i])
    BY DEF Waiting
  <2> QED BY <2>1 DEF EndedBehind
<1> QED BY <1>1, <1>2, <1>3, <1>4

-----------------------------------------------------------------------------
(***************************************************************************)
(* The main thread.                                                        *)
(***************************************************************************)

\* A step of the main thread outside ScanTargetCallback keeps what has been
\* told what it is: it scans, or lets scan, only when nobody waits for more.
LEMMA MainAnswer ==
  ASSUME TypeOK, WorkerInv, StopInv, PipesInv, AnswerInv, Main, ~Callback("main")
  PROVE  BroadcastInv'
<1> /\ conn \in Clients \cup {NoClient}
    /\ mpc \in {"read", "register"} => conn \in Clients
    /\ m_Pipes \in Seq(Clients)
    /\ pipe \in [Clients -> {"none", "open", "closed", "refused"}]
    /\ cbAt \in [Threads -> {"idle", "lock", "write", "flush"}]
    /\ cbMsg \in [Threads -> Msg]
  BY DEF TypeOK
<1>a. BroadcastInv
  BY DEF AnswerInv, BroadcastInv
<1> USE DEF mainVars, flagVars, cbVars, workerVars, scannerVars, clientVars, Waiting
<1>1. CASE CreatePipe \/ Accept \/ ConnectTimeout \/ ReadRequest \/ RequestScan
         \/ AssignThread \/ Stopped \/ RaiseExit \/ Join \/ JoinTimeout \/ FreeScanner
  BY <1>1, <1>a, BroadcastKept DEF CreatePipe, Accept, ConnectTimeout, ReadRequest,
     RequestScan, AssignThread, Stopped, RaiseExit, Join, JoinTimeout, FreeScanner
<1>2. CASE GiveUp
  <2>1. \A c \in Clients : Waiting(c)' => Waiting(c)
    BY <1>2, ServiceAssumption DEF GiveUp, PipesInv, ConnFresh
  <2> QED BY <1>2, <1>a, <2>1, BroadcastKept DEF GiveUp
<1>3. CASE ReadTimeout
  <2>1. \A c \in Clients : Waiting(c)' => Waiting(c)
    BY <1>3, ServiceAssumption DEF ReadTimeout, PipesInv, ConnFresh
  <2> QED BY <1>3, <1>a, <2>1, BroadcastKept DEF ReadTimeout
<1>4. CASE Refuse BY <1>4, <1>a, BroadcastKept DEF Refuse
<1>5. CASE Register
  <2>1. /\ conn \in Clients /\ conn \notin Registered /\ m_Mutex = "free"
        /\ mpc = "register"
        /\ m_Pipes' = Append(m_Pipes, conn)
        /\ UNCHANGED <<wpc, ans, early, m_ImgDirectorys, m_StopCallback, m_Mutex,
                       cbAt, cbMsg, nxt, told, last, cpc, pipe>>
    BY <1>5, ServiceAssumption DEF Register, PipesInv, ConnFresh
  <2>2. /\ DOMAIN m_Pipes' = 1 .. Len(m_Pipes) + 1 /\ DOMAIN m_Pipes = 1 .. Len(m_Pipes)
        /\ \A i \in DOMAIN m_Pipes : m_Pipes'[i] = m_Pipes[i]
        /\ m_Pipes'[Len(m_Pipes) + 1] = conn /\ Len(m_Pipes) \in Nat
    BY <2>1
  <2>3. \A c : c \in Registered' <=> c \in Registered \/ c = conn
    BY <2>2 DEF Registered
  <2>4. \A c \in Clients : SentTo(c)' = SentTo(c)
    BY <2>1 DEF SentTo, Sending, Passed, Threads
  <2>5. WorkerSends'
    BY <1>a, <2>1 DEF BroadcastInv, WorkerSends, Sending
  <2>6. ToldInAnswer'
    BY <1>a, <2>1, <2>3 DEF BroadcastInv, ToldInAnswer, Sending
  <2>7. ToldAll'
    <3> SUFFICES ASSUME wpc \in {"answer", "close"}, Sending \/ ~m_StopCallback,
                        NEW c \in Registered', Waiting(c)'
                 PROVE  ToldSince(c)'
      BY <2>1 DEF ToldAll, Sending
    <3>1. CASE c \in Registered
      <4>1. c \in Clients /\ Waiting(c)
        BY <2>1, <3>1 DEF Registered
      <4>2. ToldSince(c)
        BY <1>a, <3>1, <4>1 DEF BroadcastInv, ToldAll
      <4> QED BY <2>1, <2>4, <4>1, <4>2 DEF ToldSince
    <3>2. CASE c = conn
      <4>1. told[c] = <<>>
        BY <1>a, <2>1, <3>2 DEF BroadcastInv, ToldInAnswer
      <4>2. SentTo(c) \in Nat
        BY <1>a, <2>1 DEF BroadcastInv, WorkerSends, SentTo, Event, TypeOK,
           SCAN_PATH_START, SCAN_PATH_FOUND, SCAN_PATH_RESULT, SCAN_PATH_FINISH
      <4>3. SubSeq(m_ImgDirectorys, SentTo(c) + 1, SentTo(c)) = <<>>
        BY <4>2, NothingTold
      <4>4. c \notin early
        BY <2>1, <3>2 DEF AnswerInv, EarlyServed
      <4>5. SentTo(c)' = SentTo(c)
        BY <2>1, <2>4, <3>2
      <4>6. SentTo(c) \in 0 .. SentTo(c)
        BY <4>2
      <4> QED BY <2>1, <4>1, <4>3, <4>4, <4>5, <4>6 DEF ToldSince
    <3> QED BY <2>3, <3>1, <3>2
  <2>8. EndedBehind'
    BY <2>1 DEF EndedBehind, Threads
  <2> QED BY <2>5, <2>6, <2>7, <2>8 DEF BroadcastInv
<1>6. CASE ClearResult \/ Spawn
  <2>1. /\ wpc = "none" /\ ~m_StopCallback /\ wpc' \in {"none", "begin"}
        /\ UNCHANGED <<m_StopCallback, m_Mutex, cbAt, cbMsg, nxt, m_Pipes, told, last,
                       cpc, pipe>>
    BY <1>6 DEF ClearResult, Spawn, WorkerInv, WorkerExclusive, StopInv, StopBroadcast,
       ExitPoints
  <2>2. ~Sending
    BY <1>a, <2>1 DEF BroadcastInv, WorkerSends
  <2>3. \A c \in Clients : Waiting(c) => told[c] = <<>>
    BY <1>a, <2>1 DEF BroadcastInv, ToldInAnswer
  <2>4. WorkerSends' /\ ToldAll'
    BY <2>1, <2>2 DEF WorkerSends, ToldAll, Sending
  <2>5. ToldInAnswer'
    BY <2>1, <2>3 DEF ToldInAnswer
  <2>6. EndedBehind'
    BY <1>a, <2>1 DEF BroadcastInv, EndedBehind
  <2> QED BY <2>4, <2>5, <2>6 DEF BroadcastInv
<1>7. CASE RequestExit
  <2>1. /\ cbAt["main"] = "idle"
        /\ UNCHANGED <<wpc, ans, early, m_ImgDirectorys, m_Mutex, nxt, m_Pipes, told, last,
                       cpc, pipe>>
        /\ cbAt'["worker"] = cbAt["worker"] /\ cbMsg'["worker"] = cbMsg["worker"]
        /\ m_StopCallback'
    BY <1>7 DEF RequestExit, ScanTargetCallback, Event, StopInv, StopBroadcast, Threads
  <2>2. m_Mutex # "main"
    BY <2>1 DEF StopInv, MutexHeld, Threads
  <2>3. /\ Sending' <=> Sending
        /\ \A c \in Clients : SentTo(c)' = SentTo(c)
    BY <2>1 DEF Sending, SentTo, Passed
  <2>4. WorkerSends'
    BY <1>a, <2>1, <2>3 DEF BroadcastInv, WorkerSends
  <2>5. ToldInAnswer'
    BY <1>a, <2>1, <2>3 DEF BroadcastInv, ToldInAnswer, Registered
  <2>6. ToldAll'
    BY <1>a, <2>1, <2>3 DEF BroadcastInv, ToldAll, ToldSince, Registered
  <2>7. EndedBehind'
    BY <1>a, <2>1, <2>2 DEF BroadcastInv, EndedBehind, Threads
  <2> QED BY <2>4, <2>5, <2>6, <2>7 DEF BroadcastInv
<1>8. CASE RaiseStop
  <2>1. /\ m_StopCallback'
        /\ UNCHANGED <<wpc, ans, early, m_ImgDirectorys, m_Mutex, cbAt, cbMsg, nxt, m_Pipes,
                       told, last, cpc, pipe>>
    BY <1>8 DEF RaiseStop
  <2>2. /\ Sending' <=> Sending
        /\ \A c \in Clients : SentTo(c)' = SentTo(c)
    BY <2>1 DEF Sending, SentTo, Passed
  <2>3. WorkerSends' /\ EndedBehind'
    BY <1>a, <2>1, <2>2 DEF BroadcastInv, WorkerSends, EndedBehind
  <2>4. ToldInAnswer'
    BY <1>a, <2>1, <2>2 DEF BroadcastInv, ToldInAnswer, Registered
  <2>5. ToldAll'
    BY <1>a, <2>1, <2>2 DEF BroadcastInv, ToldAll, ToldSince, Registered
  <2> QED BY <2>3, <2>4, <2>5 DEF BroadcastInv
<1>9. CASE EndProcess
  <2>1. /\ mpc = "freed" /\ wpc' = "none" /\ m_Mutex' = "free" /\ cbAt'["worker"] = "idle"
        /\ UNCHANGED <<m_StopCallback, m_Pipes, told, last, cpc>>
        /\ \A c \in Clients : Waiting(c)' => Waiting(c)
    BY <1>9 DEF EndProcess, Threads
  <2>2. m_Pipes = <<>> \/ wpc = "none"
    BY <2>1 DEF StopInv, SilentExit, ExitPoints
  <2>3. ToldInAnswer'
    <3>1. CASE wpc = "none"
      BY <1>a, <2>1, <3>1 DEF BroadcastInv, ToldInAnswer, Registered
    <3>2. CASE m_Pipes = <<>>
      BY <1>a, <2>1, <3>2 DEF BroadcastInv, ToldInAnswer, Registered
    <3> QED BY <2>2, <3>1, <3>2
  <2>4. WorkerSends' /\ ToldAll' /\ EndedBehind'
    BY <2>1 DEF WorkerSends, ToldAll, EndedBehind, Sending, Threads
  <2> QED BY <2>3, <2>4 DEF BroadcastInv
<1> QED BY <1>1, <1>2, <1>3, <1>4, <1>5, <1>6, <1>7, <1>8, <1>9 DEF Main

-----------------------------------------------------------------------------
(***************************************************************************)
(* ScanTargetCallback.                                                     *)
(***************************************************************************)

\* A registered pipe that the callback cannot write to has nobody waiting,
\* unless an end event closed it.
LEMMA NotWritable ==
  ASSUME TypeOK, PipesInv, mpc # "gone", NEW i \in DOMAIN m_Pipes,
         ~Writable(m_Pipes[i]), \A t \in Threads : ~Through(t, i)
  PROVE  ~Waiting(m_Pipes[i])
<1>1. m_Pipes[i] \in Clients
  BY DEF TypeOK
<1>2. pipe[m_Pipes[i]] \in {"open", "refused"}
  BY DEF PipesInv, PipesSound
<1> QED BY <1>1, <1>2 DEF Writable, Waiting

\* A broadcast tells every registered client the next result, and ends its
\* session with an end event.
LEMMA CallbackAnswer ==
  ASSUME TypeOK, StopInv, PipesInv, AnswerInv, mpc # "gone",
         NEW t \in Threads, Callback(t)
  PROVE  BroadcastInv'
<1> /\ m_Pipes \in Seq(Clients) /\ nxt \in Nat \ {0}
    /\ cbAt \in [Threads -> {"idle", "lock", "write", "flush"}]
    /\ cbMsg \in [Threads -> Msg]
    /\ m_ImgDirectorys \in Seq(Dirs)
    /\ told \in [Clients -> Seq(AnyDir)]
    /\ pipe \in [Clients -> {"none", "open", "closed", "refused"}]
    /\ last \in [Clients -> {NoEvent, SCAN_PATH_FINISH, SCAN_PATH_STOP}]
    /\ "worker" \in Threads
  BY DEF TypeOK, Threads
<1>a. WorkerSends /\ ToldInAnswer /\ ToldAll /\ EndedBehind
  BY DEF AnswerInv
<1>b. \A u \in Threads : m_Mutex = u <=> cbAt[u] \in {"write", "flush"}
  BY DEF StopInv, MutexHeld
<1>c. \A i, j \in DOMAIN m_Pipes : m_Pipes[i] = m_Pipes[j] => i = j
  BY DEF PipesInv, PipesSound
<1>d. t = "main" => cbMsg[t].event = SCAN_PATH_STOP
  <2>1. cbAt[t] # "idle"
    BY DEF Callback, CallbackLock, CallbackWrite, CallbackFlush, CallbackUnlock
  <2> QED BY <2>1 DEF StopInv, StopBroadcast
<1>e. t = "main" \/ t = "worker"
  BY DEF Threads
<1> USE DEF mainVars, flagVars, workerVars, scannerVars, clientVars
<1>1. CASE CallbackLock(t)
  <2>1. /\ cbAt[t] = "lock" /\ m_Mutex = "free" /\ m_Mutex' = t /\ nxt' = 1
        /\ cbAt' = [cbAt EXCEPT ![t] = "write"]
        /\ UNCHANGED <<wpc, ans, early, m_ImgDirectorys, m_StopCallback, cbMsg, m_Pipes,
                       told, last, cpc, pipe>>
    BY <1>1 DEF CallbackLock
  <2>2. Sending' <=> Sending
    BY <2>1 DEF Sending, Threads
  <2>3. \A c : ~Passed(c) /\ ~Passed(c)'
    BY <2>1 DEF Passed, Threads
  <2>4. \A c : SentTo(c)' = SentTo(c)
    BY <2>1, <2>2, <2>3 DEF SentTo
  <2>5. WorkerSends'
    BY <1>a, <2>1, <2>2 DEF WorkerSends
  <2>6. ToldInAnswer'
    BY <1>a, <2>1, <2>2 DEF ToldInAnswer, Registered, Waiting
  <2>7. ToldAll'
    <3> SUFFICES ASSUME wpc \in {"answer", "close"}, Sending \/ ~m_StopCallback,
                        NEW c \in Registered, Waiting(c)
                 PROVE  ToldSince(c)'
      BY <2>1, <2>2 DEF ToldAll, Registered, Waiting
    <3>1. ToldSince(c)
      BY <1>a DEF ToldAll
    <3> QED BY <2>1, <2>4, <3>1 DEF ToldSince
  <2>8. EndedBehind'
    BY <2>1, <1>e DEF EndedBehind, Threads
  <2> QED BY <2>5, <2>6, <2>7, <2>8 DEF BroadcastInv
<1>2. CASE CallbackWrite(t)
  <2> DEFINE d == m_Pipes[nxt]
  <2>1. /\ cbAt[t] = "write" /\ m_Mutex = t /\ nxt \in DOMAIN m_Pipes
        /\ d \in Clients /\ d \in Registered
        /\ UNCHANGED <<wpc, ans, early, m_ImgDirectorys, m_StopCallback, m_Mutex, cbMsg,
                       m_Pipes, cpc, pipe>>
    BY <1>2, <1>b DEF CallbackWrite, Registered
  <2>2. \A u \in Threads : cbAt[u] = "flush" => FALSE
    BY <2>1, <1>b, <1>e DEF Threads
  <2>3. \/ IsEnd(cbMsg[t]) /\ cbAt' = [cbAt EXCEPT ![t] = "flush"] /\ nxt' = nxt
        \/ ~IsEnd(cbMsg[t]) /\ nxt' = nxt + 1 /\ cbAt' = cbAt
    BY <1>2 DEF CallbackWrite
  <2>4. \/ /\ Writable(d)
           /\ told' = IF cbMsg[t].event = SCAN_PATH_RESULT
                      THEN [told EXCEPT ![d] = Append(@, cbMsg[t].dir)] ELSE told
           /\ last' = IF IsEnd(cbMsg[t]) THEN [last EXCEPT ![d] = cbMsg[t].event] ELSE last
        \/ ~Writable(d) /\ told' = told /\ last' = last
    BY <1>2 DEF CallbackWrite
  <2>5. Sending' <=> Sending
    BY <2>1, <2>3 DEF Sending, Threads
  <2>6. \A c \in Clients : Waiting(c)' => Waiting(c)
    <3> TAKE c \in Clients
    <3>1. last'[c] = last[c] \/ last'[c] # NoEvent
      BY <2>1, <2>4 DEF IsEnd, NoEvent, SCAN_PATH_FINISH, SCAN_PATH_STOP
    <3> QED BY <2>1, <3>1 DEF Waiting
  <2>7. ~Writable(d) /\ (\A u \in Threads : ~Through(u, nxt)) => ~Waiting(d)
    BY <2>1, NotWritable
  <2>8. \A u \in Threads : ~Through(u, nxt)
    BY DEF Through
  <2>9. cbMsg[t].event # SCAN_PATH_RESULT => told' = told
    BY <2>4
  <2>10. ASSUME NEW c \in Clients, c = d, IsEnd(cbMsg[t])
         PROVE  ~Waiting(c)'
    <3>1. CASE Writable(d)
      <4>1. last'[c] = cbMsg[t].event
        BY <2>1, <2>4, <2>10, <3>1
      <4>2. cbMsg[t].event # NoEvent
        BY <2>10 DEF IsEnd, NoEvent, SCAN_PATH_FINISH, SCAN_PATH_STOP
      <4> QED BY <4>1, <4>2 DEF Waiting
    <3>2. CASE ~Writable(d)
      BY <2>6, <2>7, <2>8, <2>10, <3>2
    <3> QED BY <3>1, <3>2
  <2>11. WorkerSends'
    BY <1>a, <2>1, <2>5 DEF WorkerSends
  <2>12. ToldInAnswer'
    <3> SUFFICES ASSUME NEW c \in Clients, Waiting(c)', told'[c] # <<>>
                 PROVE  /\ c \in Registered
                        /\ wpc \in {"answer", "close", "clear", "none"}
                        /\ m_StopCallback \/ wpc = "answer" \/ (wpc = "close" /\ Sending)
      BY <2>1, <2>5 DEF ToldInAnswer, Registered
    <3>1. CASE told[c] # <<>>
      BY <1>a, <2>6, <3>1 DEF ToldInAnswer
    <3>2. CASE told[c] = <<>>
      <4>1. c = d /\ cbMsg[t].event = SCAN_PATH_RESULT
        BY <2>1, <2>4, <3>2
      <4>2. t = "worker"
        BY <4>1, <1>d, <1>e DEF SCAN_PATH_RESULT, SCAN_PATH_STOP
      <4>3. wpc = "answer"
        BY <1>a, <2>1, <4>1, <4>2 DEF WorkerSends, Sending, Event,
           SCAN_PATH_START, SCAN_PATH_FOUND, SCAN_PATH_RESULT, SCAN_PATH_FINISH
      <4> QED BY <2>1, <4>1, <4>3
    <3> QED BY <3>1, <3>2
  <2>13. ToldAll'
    <3> SUFFICES ASSUME wpc \in {"answer", "close"}, Sending \/ ~m_StopCallback,
                        NEW c \in Registered, Waiting(c)'
                 PROVE  ToldSince(c)'
      BY <2>1, <2>5 DEF ToldAll, Registered
    <3>1. c \in Clients /\ Waiting(c) /\ ToldSince(c)
      <4>1. c \in Clients
        BY DEF Registered
      <4>2. Waiting(c)
        BY <4>1, <2>6
      <4> QED BY <1>a, <4>1, <4>2 DEF ToldAll
    <3>2. CASE cbMsg[t].event # SCAN_PATH_RESULT
      <4>1. SentTo(c)' = SentTo(c)
        <5>1. CASE t = "main"
          BY <5>1, <2>1, <2>5 DEF SentTo, Passed
        <5>2. CASE t = "worker"
          BY <5>2, <2>1, <2>5, <3>2 DEF SentTo
        <5> QED BY <1>e, <5>1, <5>2
      <4> QED BY <2>1, <2>9, <3>1, <3>2, <4>1 DEF ToldSince
    <3>3. CASE cbMsg[t].event = SCAN_PATH_RESULT
      <4>1. t = "worker" /\ ~IsEnd(cbMsg[t]) /\ Sending
        BY <1>d, <1>e, <2>1, <3>3
           DEF IsEnd, Sending, SCAN_PATH_RESULT, SCAN_PATH_FINISH, SCAN_PATH_STOP
      <4>2. /\ wpc = "answer" /\ ans > 1 /\ ans <= Len(m_ImgDirectorys) + 1
            /\ cbMsg[t].dir = m_ImgDirectorys[ans - 1]
        BY <1>a, <4>1, <3>3 DEF WorkerSends, Event, IsEnd,
           SCAN_PATH_START, SCAN_PATH_FOUND, SCAN_PATH_RESULT, SCAN_PATH_FINISH
      <4>3. nxt' = nxt + 1 /\ cbMsg' = cbMsg
        BY <2>1, <2>3, <4>1
      <4>4. CASE c = d
        <5>1. ~Passed(c)
          BY <1>c, <2>1, <4>4 DEF Passed
        <5>2. Passed(c)'
          BY <2>1, <4>1, <4>3, <4>4 DEF Passed
        <5>3. SentTo(c) = ans - 2 /\ SentTo(c)' = ans - 1
          BY <2>1, <2>5, <3>3, <4>1, <4>3, <5>1, <5>2 DEF SentTo
        <5>4. PICK n \in 0 .. ans - 2 : /\ told[c] = SubSeq(m_ImgDirectorys, n + 1, ans - 2)
                                        /\ c \in early => n = 0
          BY <3>1, <5>3 DEF ToldSince
        <5>5. Writable(d)
          BY <2>7, <2>8, <3>1, <4>4
        <5>6. told'[c] = Append(told[c], m_ImgDirectorys[ans - 1])
          BY <2>1, <2>4, <3>3, <4>2, <4>4, <5>5
        <5>7. ans \in Nat /\ ans - 2 \in Nat /\ ans - 2 < Len(m_ImgDirectorys)
              /\ n \in Nat /\ n <= ans - 2 /\ (ans - 2) + 1 = ans - 1
          BY <4>2 DEF TypeOK
        <5>8. told'[c] = SubSeq(m_ImgDirectorys, n + 1, ans - 1)
          BY <5>4, <5>6, <5>7, NextTold
        <5>9. n \in 0 .. ans - 1
          BY <5>7
        <5> QED BY <2>1, <5>3, <5>4, <5>8, <5>9 DEF ToldSince
      <4>5. CASE c # d
        <5>1. Passed(c)' <=> Passed(c)
          BY <1>c, <2>1, <4>3, <4>5 DEF Passed
        <5>2. SentTo(c)' = SentTo(c)
          BY <2>1, <2>5, <5>1 DEF SentTo
        <5>3. told'[c] = told[c]
          BY <2>1, <2>4, <3>1, <4>5
        <5> QED BY <2>1, <3>1, <5>2, <5>3 DEF ToldSince
      <4> QED BY <4>4, <4>5
    <3> QED BY <3>2, <3>3
  <2>14. EndedBehind'
    <3> SUFFICES ASSUME NEW u \in Threads, m_Mutex = u, IsEnd(cbMsg[u]),
                        NEW i \in DOMAIN m_Pipes,
                        i < nxt' \/ (i = nxt' /\ cbAt'[u] = "flush")
                 PROVE  ~Waiting(m_Pipes[i])'
      BY <2>1 DEF EndedBehind, Waiting
    <3>1. u = t /\ nxt' = nxt
      BY <2>1, <2>3
    <3>2. CASE i = nxt
      BY <2>1, <2>10, <3>1, <3>2 DEF Waiting
    <3>3. CASE i < nxt
      <4>1. ~Waiting(m_Pipes[i]) /\ m_Pipes[i] \in Clients
        BY <1>a, <3>3 DEF EndedBehind
      <4> QED BY <2>1, <2>6, <4>1 DEF Waiting
    <3> QED BY <3>1, <3>2, <3>3
  <2> QED BY <2>11, <2>12, <2>13, <2>14 DEF BroadcastInv
<1>3. CASE CallbackFlush(t)
  <2>1. /\ cbAt[t] = "flush" /\ m_Mutex = t /\ nxt' = nxt + 1
        /\ cbAt' = [cbAt EXCEPT ![t] = "write"]
        /\ IsEnd(cbMsg[t])
        /\ UNCHANGED <<wpc, ans, early, m_ImgDirectorys, m_StopCallback, m_Mutex, cbMsg,
                       m_Pipes, told, last, cpc>>
    BY <1>3, <1>b DEF CallbackFlush, PipesInv, FlushIsEnd
  <2>2. Sending' <=> Sending
    BY <2>1 DEF Sending, Threads
  <2>3. \A c \in Clients : Waiting(c)' <=> Waiting(c)
    BY <1>3 DEF CallbackFlush, Waiting
  <2>4. \A c : SentTo(c)' = SentTo(c)
    <3>1. CASE t = "main"
      BY <3>1, <2>1, <2>2 DEF SentTo, Passed
    <3>2. CASE t = "worker"
      BY <3>2, <2>1, <2>2 DEF SentTo, IsEnd, SCAN_PATH_RESULT, SCAN_PATH_FINISH, SCAN_PATH_STOP
    <3> QED BY <1>e, <3>1, <3>2
  <2>5. WorkerSends'
    BY <1>a, <2>1, <2>2 DEF WorkerSends
  <2>6. ToldInAnswer'
    BY <1>a, <2>1, <2>2, <2>3 DEF ToldInAnswer, Registered
  <2>7. ToldAll'
    <3> SUFFICES ASSUME wpc \in {"answer", "close"}, Sending \/ ~m_StopCallback,
                        NEW c \in Registered, Waiting(c)'
                 PROVE  ToldSince(c)'
      BY <2>1, <2>2 DEF ToldAll, Registered
    <3>1. c \in Clients
      BY DEF Registered
    <3>2. ToldSince(c)
      BY <1>a, <2>3, <3>1 DEF ToldAll
    <3> QED BY <2>1, <2>4, <3>2 DEF ToldSince
  <2>8. EndedBehind'
    <3> SUFFICES ASSUME NEW i \in DOMAIN m_Pipes, i < nxt + 1
                 PROVE  ~Waiting(m_Pipes[i])'
      BY <2>1 DEF EndedBehind, Waiting
    <3>1. i < nxt \/ i = nxt
      OBVIOUS
    <3>2. ~Waiting(m_Pipes[i])
      BY <1>a, <2>1, <3>1 DEF EndedBehind
    <3>3. m_Pipes[i] \in Clients
      OBVIOUS
    <3>4. ~Waiting(m_Pipes[i])' <=> (\A c \in {m_Pipes[i]} : ~Waiting(c)')
      BY <2>1 DEF Waiting
    <3> QED BY <2>3, <3>2, <3>3, <3>4
  <2> QED BY <2>5, <2>6, <2>7, <2>8 DEF BroadcastInv
<1>4. CASE CallbackUnlock(t)
  <2>1. /\ cbAt[t] = "write" /\ nxt > Len(m_Pipes) /\ m_Mutex = t /\ m_Mutex' = "free"
        /\ m_Pipes' = IF IsEnd(cbMsg[t]) THEN <<>> ELSE m_Pipes
        /\ cbAt' = [cbAt EXCEPT ![t] = "idle"]
        /\ UNCHANGED <<wpc, ans, early, m_ImgDirectorys, m_StopCallback, cbMsg,
                       told, last, cpc, pipe>>
    BY <1>4, <1>b DEF CallbackUnlock
  <2>2. Sending' => Sending
    BY <2>1 DEF Sending, Threads
  <2>3. \A c \in Clients : Waiting(c)' <=> Waiting(c)
    BY <2>1 DEF Waiting
  <2>4. WorkerSends' /\ EndedBehind'
    BY <1>a, <2>1, <2>2 DEF WorkerSends, EndedBehind, Threads
  <2>5. CASE IsEnd(cbMsg[t])
    <3>1. \A c \in Registered : ~Waiting(c)
      <4> SUFFICES ASSUME NEW i \in DOMAIN m_Pipes
                   PROVE  ~Waiting(m_Pipes[i])
        BY DEF Registered
      <4>1. i < nxt
        BY <2>1
      <4> QED BY <1>a, <2>1, <2>5, <4>1 DEF EndedBehind
    <3>2. \A c \in Clients : Waiting(c)' => told'[c] = <<>>
      BY <1>a, <2>1, <2>3, <3>1 DEF ToldInAnswer
    <3>3. Registered' = {}
      BY <2>1, <2>5 DEF Registered
    <3> QED BY <2>4, <3>2, <3>3 DEF BroadcastInv, ToldInAnswer, ToldAll
  <2>6. CASE ~IsEnd(cbMsg[t])
    <3>1. t = "worker" /\ Sending /\ m_Pipes' = m_Pipes
      BY <1>d, <1>e, <2>1, <2>6 DEF Sending, IsEnd, SCAN_PATH_STOP
    <3>2. \/ wpc \in {"scan", "judge"}
          \/ wpc = "answer" /\ cbMsg["worker"].event = SCAN_PATH_RESULT
      BY <1>a, <2>6, <3>1 DEF WorkerSends, IsEnd, Event
    <3>3. ToldInAnswer'
      BY <1>a, <2>1, <2>3, <3>1, <3>2 DEF ToldInAnswer, Registered
    <3>4. ToldAll'
      <4> SUFFICES ASSUME wpc = "answer", cbMsg["worker"].event = SCAN_PATH_RESULT,
                          NEW c \in Registered, Waiting(c)
                   PROVE  ToldSince(c)'
        <5>1. \A c \in Registered : c \in Clients
          BY DEF Registered
        <5> QED BY <2>1, <2>3, <3>1, <3>2, <5>1 DEF ToldAll, Registered
      <4>1. ToldSince(c)
        BY <1>a, <3>1 DEF ToldAll
      <4>2. Passed(c)
        BY <2>1, <3>1 DEF Passed, Registered
      <4>3. ~Sending'
        BY <2>1, <3>1 DEF Sending
      <4>4. SentTo(c) = ans - 1 /\ SentTo(c)' = ans - 1
        BY <2>1, <4>2, <4>3 DEF SentTo
      <4> QED BY <2>1, <4>1, <4>4 DEF ToldSince
    <3> QED BY <2>4, <3>3, <3>4 DEF BroadcastInv
  <2> QED BY <2>5, <2>6
<1> QED BY <1>1, <1>2, <1>3, <1>4 DEF Callback

-----------------------------------------------------------------------------
(***************************************************************************)
(* The worker and the clients.                                             *)
(***************************************************************************)

\* The worker tells the answer from its first result to its last, and changes
\* it only when nobody waits for more of it.
LEMMA WorkerAnswer ==
  ASSUME TypeOK, StopInv, PipesInv, AnswerInv, Worker, ~Callback("worker")
  PROVE  BroadcastInv'
<1> /\ m_Pipes \in Seq(Clients)
    /\ cbAt \in [Threads -> {"idle", "lock", "write", "flush"}]
    /\ cbMsg \in [Threads -> Msg]
    /\ m_ImgDirectorys \in Seq(Dirs)
    /\ told \in [Clients -> Seq(AnyDir)]
    /\ ans \in Nat \ {0}
    /\ m_Mutex \in Threads \cup {"free"}
    /\ "worker" \in Threads
  BY DEF TypeOK, Threads
<1>a. WorkerSends /\ ToldInAnswer /\ ToldAll /\ EndedBehind
  BY DEF AnswerInv
<1>b. ~Sending => m_Mutex # "worker"
  BY DEF StopInv, MutexHeld, Sending
<1> USE DEF mainVars, flagVars, cbVars, workerVars, scannerVars, clientVars
<1>1. CASE Begin \/ Load \/ SaveResult \/ MarkDone
  <2>1. /\ wpc \in {"begin", "load", "scan", "done"} /\ ~Sending
        /\ wpc' \in {"none", "load", "stuck", "scan", "done", "reply"}
        /\ UNCHANGED <<m_StopCallback, m_Mutex, cbAt, cbMsg, nxt, m_Pipes, told, last,
                       cpc, pipe>>
    BY <1>1, <1>a DEF Begin, Load, SaveResult, MarkDone, WorkerSends, Sending
  <2>2. \A c \in Clients : Waiting(c) => told[c] = <<>>
    BY <1>a, <2>1 DEF ToldInAnswer
  <2>3. ToldInAnswer' /\ EndedBehind'
    BY <1>a, <2>1, <2>2 DEF ToldInAnswer, EndedBehind, Waiting
  <2> QED BY <2>1, <2>3 DEF BroadcastInv, WorkerSends, ToldAll, Sending
<1>2. CASE Visit \/ VisitAstray \/ Judge
  <2>1. /\ wpc \in {"scan", "judge"} /\ wpc' \in {"scan", "judge"} /\ ~Sending
        /\ UNCHANGED <<m_Mutex, nxt, m_Pipes, told, last, cpc, pipe>>
        /\ cbAt'["main"] = cbAt["main"] /\ cbMsg'["main"] = cbMsg["main"]
        /\ Sending' => cbMsg'["worker"].event \in {SCAN_PATH_START, SCAN_PATH_FOUND}
    BY <1>2 DEF Visit, VisitAstray, Judge, Sending, ScanTargetCallback, Event, Threads
  <2>2. \A c \in Clients : Waiting(c) => told[c] = <<>>
    BY <1>a, <2>1 DEF ToldInAnswer
  <2>3. ToldInAnswer'
    BY <2>1, <2>2 DEF ToldInAnswer, Waiting
  <2>4. EndedBehind'
    BY <1>a, <1>b, <2>1 DEF EndedBehind, Waiting, Threads
  <2> QED BY <2>1, <2>3, <2>4 DEF BroadcastInv, WorkerSends, ToldAll
<1>3. CASE Reply
  <2>1. /\ wpc = "reply" /\ ~Sending /\ ans' = 1 /\ wpc' \in {"none", "answer"}
        /\ UNCHANGED <<m_ImgDirectorys, m_StopCallback, m_Mutex, cbAt, cbMsg, nxt, m_Pipes,
                       told, last, cpc, pipe>>
    BY <1>3, <1>a DEF Reply, WorkerSends
  <2>2. \A c \in Clients : Waiting(c) => told[c] = <<>>
    BY <1>a, <2>1 DEF ToldInAnswer
  <2>3. ToldInAnswer' /\ EndedBehind'
    BY <1>a, <2>1, <2>2 DEF ToldInAnswer, EndedBehind, Waiting
  <2>4. ~Sending'
    BY <2>1 DEF Sending
  <2>5. WorkerSends'
    BY <2>1, <2>4 DEF WorkerSends
  <2>6. ToldAll'
    <3> SUFFICES ASSUME NEW c \in Registered, Waiting(c)
                 PROVE  ToldSince(c)'
      BY <2>1 DEF ToldAll, Registered, Waiting
    <3>1. told[c] = <<>>
      BY <2>2 DEF Registered
    <3>2. SentTo(c)' = 0
      BY <2>1, <2>4 DEF SentTo
    <3>3. SubSeq(m_ImgDirectorys, 0 + 1, 0) = <<>>
      BY NothingTold
    <3>4. 0 \in 0 .. 0
      OBVIOUS
    <3> QED BY <2>1, <3>1, <3>2, <3>3, <3>4 DEF ToldSince
  <2> QED BY <2>3, <2>5, <2>6 DEF BroadcastInv
<1>4. CASE SendResult
  <2>1. /\ wpc = "answer" /\ wpc' = "answer" /\ ~Sending /\ ans <= Len(m_ImgDirectorys)
        /\ ans' = ans + 1
        /\ UNCHANGED <<early, m_ImgDirectorys, m_Mutex, nxt, m_Pipes, told, last, cpc, pipe>>
        /\ cbAt'["main"] = cbAt["main"] /\ cbMsg'["main"] = cbMsg["main"]
    BY <1>4 DEF SendResult, Sending, ScanTargetCallback, Threads
  <2>2. \/ m_StopCallback /\ m_StopCallback' /\ ~Sending'
        \/ /\ ~m_StopCallback /\ Sending'
           /\ cbMsg'["worker"] = Event(SCAN_PATH_RESULT, m_ImgDirectorys[ans])
    BY <1>4, <2>1 DEF SendResult, Sending, ScanTargetCallback
  <2>3. (ans + 1) - 1 = ans /\ ans + 1 > 1 /\ ans + 1 <= Len(m_ImgDirectorys) + 1
        /\ (ans + 1) - 2 = ans - 1
    BY <2>1
  <2>4. WorkerSends'
    BY <2>1, <2>2, <2>3 DEF WorkerSends
  <2>5. ToldInAnswer'
    BY <1>a, <2>1 DEF ToldInAnswer, Waiting, Registered
  <2>6. EndedBehind'
    BY <1>a, <1>b, <2>1 DEF EndedBehind, Waiting, Threads
  <2>7. ToldAll'
    <3> SUFFICES ASSUME ~m_StopCallback, NEW c \in Registered, Waiting(c)
                 PROVE  ToldSince(c)'
      BY <2>1, <2>2 DEF ToldAll, Registered, Waiting
    <3>1. ToldSince(c)
      BY <1>a, <2>1 DEF ToldAll
    <3>2. ~Passed(c)'
      BY <1>b, <2>1 DEF Passed
    <3>3. SentTo(c)' = ans - 1
      BY <2>1, <2>2, <2>3, <3>2 DEF SentTo, Event
    <3>4. SentTo(c) = ans - 1
      BY <2>1 DEF SentTo
    <3> QED BY <2>1, <3>1, <3>3, <3>4 DEF ToldSince
  <2> QED BY <2>4, <2>5, <2>6, <2>7 DEF BroadcastInv
<1>5. CASE SendFinish
  <2>1. /\ wpc = "answer" /\ wpc' = "close" /\ ~Sending /\ ans > Len(m_ImgDirectorys)
        /\ UNCHANGED <<ans, early, m_ImgDirectorys, m_Mutex, nxt, m_Pipes, told, last, cpc,
                       pipe>>
        /\ cbAt'["main"] = cbAt["main"] /\ cbMsg'["main"] = cbMsg["main"]
    BY <1>5 DEF SendFinish, Sending, ScanTargetCallback, Threads
  <2>2. \/ m_StopCallback /\ m_StopCallback' /\ ~Sending'
        \/ /\ ~m_StopCallback /\ Sending'
           /\ cbMsg'["worker"] = Event(SCAN_PATH_FINISH, 0)
    BY <1>5, <2>1 DEF SendFinish, Sending, ScanTargetCallback
  <2>3. ans = Len(m_ImgDirectorys) + 1
    BY <1>a, <2>1 DEF WorkerSends
  <2>4. WorkerSends'
    BY <2>1, <2>2, <2>3 DEF WorkerSends
  <2>5. ToldInAnswer'
    BY <1>a, <2>1, <2>2 DEF ToldInAnswer, Waiting, Registered
  <2>6. EndedBehind'
    BY <1>a, <1>b, <2>1 DEF EndedBehind, Waiting, Threads
  <2>7. ToldAll'
    <3> SUFFICES ASSUME ~m_StopCallback, NEW c \in Registered, Waiting(c)
                 PROVE  ToldSince(c)'
      BY <2>1, <2>2 DEF ToldAll, Registered, Waiting
    <3>1. ToldSince(c)
      BY <1>a, <2>1 DEF ToldAll
    <3>2. SentTo(c)' = ans - 1
      BY <2>1, <2>2 DEF SentTo, Event, SCAN_PATH_FINISH, SCAN_PATH_RESULT
    <3>3. SentTo(c) = ans - 1
      BY <2>1 DEF SentTo
    <3> QED BY <2>1, <3>1, <3>2, <3>3 DEF ToldSince
  <2> QED BY <2>4, <2>5, <2>6, <2>7 DEF BroadcastInv
<1>6. CASE CloseThread \/ EndScanning
  <2>1. /\ wpc \in {"close", "clear"} /\ ~Sending /\ wpc' \in {"clear", "none"}
        /\ UNCHANGED <<m_StopCallback, m_Mutex, cbAt, cbMsg, nxt, m_Pipes, told, last,
                       cpc, pipe>>
    BY <1>6, <1>a DEF CloseThread, EndScanning, WorkerSends, Sending
  <2>2. ToldInAnswer' /\ EndedBehind'
    BY <1>a, <2>1 DEF ToldInAnswer, EndedBehind, Waiting, Registered
  <2> QED BY <2>1, <2>2 DEF BroadcastInv, WorkerSends, ToldAll, Sending
<1> QED BY <1>1, <1>2, <1>3, <1>4, <1>5, <1>6 DEF Worker

\* A client that connects, sends, reads or ends changes nothing of it.
LEMMA ClientAnswer ==
  ASSUME TypeOK, PipesInv, AnswerInv, NEW c \in Clients,
         Connect(c) \/ Client(c) \/ ClientDies(c)
  PROVE  BroadcastInv'
<1>1. UNCHANGED <<wpc, ans, early, m_ImgDirectorys, m_StopCallback, m_Mutex,
                  cbAt, cbMsg, nxt, m_Pipes, told>>
  BY DEF Connect, Client, SendRequest, ReadEvent, ReadFails, ClientDies, mainVars,
     flagVars, cbVars, workerVars, scannerVars, clientVars
<1>2. \A d \in Clients : Waiting(d)' => Waiting(d)
  BY DEF TypeOK, PipesInv, IdleUnknown, Connect, Client, SendRequest, ReadEvent, ReadFails,
     ClientDies, clientVars, Waiting
<1> QED BY <1>1, <1>2, BroadcastKept DEF TypeOK, AnswerInv, BroadcastInv

\* Whoever is registered when the answer begins is not being served.
LEMMA EarlyStep ==
  ASSUME TypeOK, PipesInv, AnswerInv, Next
  PROVE  EarlyServed'
<1> USE DEF mainVars, flagVars, cbVars, workerVars, scannerVars, clientVars
<1>1. CASE Main
  <2>1. early' = early /\ cpc' = cpc
    BY <1>1 DEF Main, CreatePipe, Accept, ConnectTimeout, GiveUp, ReadRequest, ReadTimeout,
       Register, RequestScan, ClearResult, Spawn, AssignThread, Refuse, RequestExit, Stopped,
       RaiseStop, RaiseExit, Join, JoinTimeout, FreeScanner, EndProcess, Callback,
       CallbackLock, CallbackWrite, CallbackFlush, CallbackUnlock
  <2>2. \/ conn' = NoClient
        \/ mpc' \notin {"listen", "giveup", "read", "register"}
        \/ conn' = conn /\ mpc \in {"listen", "giveup", "read", "register"}
    BY <1>1 DEF Main, CreatePipe, Accept, ConnectTimeout, GiveUp, ReadRequest, ReadTimeout,
       Register, RequestScan, ClearResult, Spawn, AssignThread, Refuse, RequestExit, Stopped,
       RaiseStop, RaiseExit, Join, JoinTimeout, FreeScanner, EndProcess, Callback,
       CallbackLock, CallbackWrite, CallbackFlush, CallbackUnlock
  <2> QED BY <2>1, <2>2, ServiceAssumption DEF AnswerInv, EarlyServed, TypeOK
<1>2. CASE Worker
  <2>1. UNCHANGED <<cpc, mpc, conn>> /\ (early' = early \/ early' = Registered)
    BY <1>2 DEF Worker, Begin, Load, Visit, VisitAstray, Judge, SaveResult, MarkDone, Reply,
       SendResult, SendFinish, CloseThread, EndScanning, Callback, CallbackLock, CallbackWrite,
       CallbackFlush, CallbackUnlock
  <2>2. CASE early' = early
    BY <2>1, <2>2 DEF AnswerInv, EarlyServed
  <2>3. CASE early' = Registered
    <3>1. \A c \in Registered : c \in Clients
      BY DEF Registered, TypeOK
    <3>2. \A c \in Registered : cpc[c] # "idle"
      BY <3>1 DEF PipesInv, IdleUnknown
    <3>3. conn \in Registered => mpc \notin {"listen", "giveup", "read", "register"}
      BY <3>1, ServiceAssumption DEF PipesInv, ConnFresh
    <3> QED BY <2>1, <2>3, <3>2, <3>3 DEF EarlyServed
  <2> QED BY <2>1, <2>2, <2>3
<1>3. ASSUME NEW c \in Clients, Connect(c) \/ Client(c) \/ ClientDies(c)
      PROVE  EarlyServed'
  <2>1. early \subseteq Clients /\ early' = early /\ mpc' = mpc
    BY <1>3 DEF TypeOK, Connect, Client, SendRequest, ReadEvent, ReadFails, ClientDies
  <2>2. \A d \in Clients : cpc[d] # "idle" => cpc'[d] # "idle"
    BY <1>3 DEF TypeOK, Connect, Client, SendRequest, ReadEvent, ReadFails, ClientDies
  <2>3. conn' = conn \/ (conn' = c /\ cpc[c] = "idle")
    BY <1>3 DEF Connect, Client, SendRequest, ReadEvent, ReadFails, ClientDies
  <2> QED BY <2>1, <2>2, <2>3 DEF AnswerInv, EarlyServed
<1>4. CASE AllEnded
  BY <1>4 DEF AllEnded, vars, AnswerInv, EarlyServed
<1> QED BY <1>1, <1>2, <1>3, <1>4 DEF Next

\* Every step keeps AnswerInv, given the other parts of the invariant.
LEMMA AnswerStep ==
  ASSUME IInv, [Next]_vars
  PROVE  AnswerInv'
<1> TypeOK /\ WorkerInv /\ StopInv /\ PipesInv /\ AnswerInv
  BY DEF IInv
<1>1. CASE UNCHANGED vars \/ AllEnded
  <2>1. UNCHANGED vars
    BY <1>1 DEF AllEnded
  <2>2. BroadcastInv'
    BY <2>1, BroadcastKept DEF vars, cbVars, workerVars, scannerVars, clientVars, Waiting,
       AnswerInv, BroadcastInv, TypeOK
  <2>3. EarlyServed'
    BY <2>1 DEF vars, mainVars, workerVars, clientVars, AnswerInv, EarlyServed
  <2> QED BY <2>2, <2>3 DEF AnswerInv, BroadcastInv
<1>2. CASE Next
  <2>1. EarlyServed'
    BY <1>2, EarlyStep
  <2>2. CASE Callback("main")
    <3>1. mpc # "gone"
      BY <2>2 DEF Callback, CallbackLock, CallbackWrite, CallbackFlush, CallbackUnlock,
         StopInv, StopBroadcast, Threads
    <3> QED BY <2>1, <2>2, <3>1, CallbackAnswer DEF AnswerInv, BroadcastInv, Threads
  <2>3. CASE Worker /\ Callback("worker")
    <3>1. mpc # "gone"
      BY <2>3 DEF Worker
    <3> QED BY <2>1, <2>3, <3>1, CallbackAnswer DEF AnswerInv, BroadcastInv, Threads
  <2>4. CASE Main /\ ~Callback("main")
    BY <2>1, <2>4, MainAnswer DEF AnswerInv, BroadcastInv
  <2>5. CASE Worker /\ ~Callback("worker")
    BY <2>1, <2>5, WorkerAnswer DEF AnswerInv, BroadcastInv
  <2>6. ASSUME NEW c \in Clients, Connect(c) \/ Client(c) \/ ClientDies(c)
        PROVE  AnswerInv'
    BY <2>1, <2>6, ClientAnswer DEF AnswerInv, BroadcastInv
  <2> QED BY <1>1, <1>2, <2>2, <2>3, <2>4, <2>5, <2>6 DEF Next
<1> QED BY <1>1, <1>2
=============================================================================
