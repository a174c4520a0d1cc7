--------------------------- MODULE ScanServiceInv ---------------------------
(***************************************************************************)
(* The inductive invariant of ScanService, in six parts, each preserved   *)
(* by every step from the parts named before it.  ScanServiceProofs proves *)
(* it; MCScanService checks it on small instances.                         *)
(***************************************************************************)
EXTENDS ScanService

(***************************************************************************)
(* The worker: what the flags and the handle say of it.                    *)
(***************************************************************************)

\* m_ImgScanning covers the worker from before its creation to its end, and
\* is left set by a failed CreateThread, after which there is no worker again.
FlagCovers ==
  /\ wpc # "none" => m_ImgScanning
  /\ mpc \in {"clear", "spawn"} => m_ImgScanning
  /\ m_Thread = "null" =>
       wpc = "none" /\ m_ImgScanning /\ mpc \notin {"clear", "spawn", "assign"}
  /\ mpc \in {"join", "free", "freed", "gone"} => m_Exit

\* Without a handle there is no worker that is not at its end, but between
\* the creation and the assignment of the handle, and after the wait for it.
HandleCovers ==
  /\ m_Thread = "invalid" =>
       wpc \in {"none", "clear"} \/ mpc \in {"assign", "free", "freed", "gone"}
  /\ mpc \in {"free", "freed"} => wpc \in {"none", "clear"} \/ joinExpired

WorkerInv == FlagCovers /\ HandleCovers /\ WorkerExclusive /\ ScanningBacked

(***************************************************************************)
(* The callback: the mutex and the stop event.                             *)
(***************************************************************************)

\* Each thread holds m_Mutex exactly while it goes through m_Pipes.
MutexHeld == \A t \in Threads : m_Mutex = t <=> cbAt[t] \in {"write", "flush"}

\* The main thread broadcasts nothing but one stop event, when its loop is
\* left, and no pipe is registered from the end of that broadcast on.
StopBroadcast ==
  /\ m_StopCallback => mpc \in {"stop"} \cup ExitPoints
  /\ cbAt["main"] # "idle" => mpc = "stop" /\ cbMsg["main"].event = SCAN_PATH_STOP
  /\ mpc = "stop" /\ cbAt["main"] = "idle" => m_Pipes = <<>>

StopInv == MutexHeld /\ StopBroadcast /\ SilentExit

(***************************************************************************)
(* The registered pipes.                                                   *)
(***************************************************************************)

\* The pipe of the client being served is open and not registered before
\* HandleReuqest registers it.
ConnFresh ==
  mpc \in {"listen", "giveup", "read", "register"} /\ conn # NoClient =>
    conn \notin Registered /\ pipe[conn] = "open"

\* A client that has not connected has no pipe.
IdleUnknown ==
  \A c \in Clients : cpc[c] = "idle" =>
    /\ c \notin Registered /\ c # conn /\ pipe[c] = "none"
    /\ chan[c] = <<>> /\ told[c] = <<>> /\ last[c] = NoEvent

\* Only an end event is flushed.
FlushIsEnd ==
  \A t \in Threads : cbAt[t] = "flush" => IsEnd(cbMsg[t]) /\ nxt \in DOMAIN m_Pipes

PipesInv == ConnFresh /\ IdleUnknown /\ PipesSound /\ FlushIsEnd

(***************************************************************************)
(* The end of an answer.                                                   *)
(***************************************************************************)

HasEnd(s) == \E i \in DOMAIN s : IsEnd(s[i])

\* A pipe that got its end event takes no other: it is closed, or its client
\* is gone, or the broadcast that wrote the event is about to close it.
EndCloses ==
  \A c \in Clients :
    /\ HasEnd(chan[c]) => last[c] # NoEvent
    /\ last[c] # NoEvent =>
         \/ pipe[c] # "open"
         \/ cpc[c] = "dead"
         \/ \E t \in Threads : cbAt[t] = "flush" /\ m_Pipes[nxt] = c

EndInv == EndIsLast /\ EndCloses

(***************************************************************************)
(* The answer.                                                             *)
(***************************************************************************)

Sending == cbAt["worker"] # "idle"

\* What the worker broadcasts, by its control point.
WorkerSends ==
  /\ Sending =>
       \/ wpc \in {"scan", "judge"}
          /\ cbMsg["worker"].event \in {SCAN_PATH_START, SCAN_PATH_FOUND}
       \/ /\ wpc = "answer" /\ ans > 1
          /\ cbMsg["worker"] = Event(SCAN_PATH_RESULT, m_ImgDirectorys[ans - 1])
       \/ /\ wpc = "close" /\ ans = Len(m_ImgDirectorys) + 1
          /\ cbMsg["worker"] = Event(SCAN_PATH_FINISH, 0)
  /\ wpc \in {"answer", "close"} => ans <= Len(m_ImgDirectorys) + 1

\* A client that waits for the end of the answer.
Waiting(c) == last[c] = NoEvent /\ cpc[c] # "dead" /\ pipe[c] # "refused"

\* A client is told something only while an answer is given, and is then
\* registered; a stop of the callback leaves it there.
ToldInAnswer ==
  \A c \in Clients : Waiting(c) /\ told[c] # <<>> =>
    /\ c \in Registered
    /\ wpc \in {"answer", "close", "clear", "none"}
    /\ m_StopCallback \/ wpc = "answer" \/ (wpc = "close" /\ Sending)

\* The broadcast that the worker is in has passed c.
Passed(c) == m_Mutex = "worker" /\ \E i \in DOMAIN m_Pipes : m_Pipes[i] = c /\ i < nxt

\* The results broadcast so far, as far as c is concerned.
SentTo(c) ==
  IF Sending /\ cbMsg["worker"].event = SCAN_PATH_RESULT /\ ~Passed(c) THEN ans - 2 ELSE ans - 1

\* A registered client has been told what was broadcast since it came in.
ToldSince(c) ==
  \E n \in 0 .. SentTo(c) :
    /\ told[c] = SubSeq(m_ImgDirectorys, n + 1, SentTo(c))
    /\ c \in early => n = 0

ToldAll ==
  wpc \in {"answer", "close"} /\ (Sending \/ ~m_StopCallback) =>
    \A c \in Registered : Waiting(c) => ToldSince(c)

\* The broadcast of an end event leaves nobody waiting behind it.
EndedBehind ==
  \A t \in Threads : m_Mutex = t /\ IsEnd(cbMsg[t]) =>
    \A i \in DOMAIN m_Pipes :
      i < nxt \/ (i = nxt /\ cbAt[t] = "flush") => ~Waiting(m_Pipes[i])

\* Whoever was there when the answer began is not the client being served.
EarlyServed ==
  \A c \in early :
    cpc[c] # "idle" /\ (mpc \in {"listen", "giveup", "read", "register"} => c # conn)

AnswerInv == WorkerSends /\ ToldInAnswer /\ ToldAll /\ EndedBehind /\ EarlyServed

\* The inductive invariant.
IInv == TypeOK /\ WorkerInv /\ StopInv /\ PipesInv /\ EndInv /\ AnswerInv
=============================================================================
