---------------------------- MODULE ScanService ----------------------------
(***************************************************************************)
(* The scan service of disk_scan/disk_scan_process.cpp: one process with   *)
(* two threads.  The main thread (_tWinMain, HandleReuqest) accepts one    *)
(* client connection at a time on a named pipe, reads one request from it  *)
(* and registers the pipe in m_Pipes.  A worker thread (ThreadExecute),    *)
(* created on demand, finds the picture directories and broadcasts events  *)
(* to every registered pipe (ScanTargetCallback).  The clients are the     *)
(* threads running PictureDirectoryScanExecute of                          *)
(* disk_scan_client/disk_scan.cpp, each of which connects once.            *)
(*                                                                         *)
(* Grain: a step reads or writes at most one variable that the other       *)
(* thread may touch outside m_Mutex; a wait is a guard; a wait with a      *)
(* timeout is an alternative between two actions.                          *)
(*                                                                         *)
(* Data: a pipe is named by the client at its other end, a directory by    *)
(* its position in the order of the scan, an event carries a code and a    *)
(* directory.  Which directories are picture directories, and whether the  *)
(* walk ever ends, is decided by the scan (module DirScan) and is a free   *)
(* choice here.                                                            *)
(***************************************************************************)
EXTENDS Naturals, Sequences

CONSTANTS
  Clients,        \* client threads, each connecting at most once
  NoClient,       \* "no client is connected to the listening pipe"
  NumDirs,        \* directories that one scan judges
  PipeCap,        \* messages that fit in a pipe's buffer (PIPE_BUF_SIZE bytes)
  Requests,       \* requests the clients send
  CmdLines,       \* command lines the process may be started with
  ThreadMayFail   \* whether CreateThread may fail

\* The request strings (disk_scan_process.cpp:7-9); "other" is any other one.
SCAN_REQUEST_IMG        == "scan_img"
SCAN_REQUEST_IMG_AFREAH == "scan_img_afreah"
SCAN_REQUEST_EXIT       == "scan_exit"
AllRequests == {SCAN_REQUEST_IMG, SCAN_REQUEST_IMG_AFREAH, SCAN_REQUEST_EXIT, "other"}
NoRequest == "none"

ASSUME ServiceAssumption ==
  /\ NoClient \notin Clients
  /\ NumDirs \in Nat
  /\ PipeCap \in Nat \ {0}
  /\ Requests \subseteq AllRequests
  /\ CmdLines \subseteq AllRequests
  /\ ThreadMayFail \in BOOLEAN

\* The event codes (disk_scanner.h:12-16).
SCAN_PATH_START  == 1
SCAN_PATH_FOUND  == 2
SCAN_PATH_RESULT == 3
SCAN_PATH_FINISH == 4
SCAN_PATH_STOP   == 5

Threads == {"main", "worker"}
Dirs    == 1 .. NumDirs
AnyDir  == 0 .. NumDirs      \* 0: an end event names no directory
CutShort == <<0>>            \* a result file without its first line
Msg     == [event : SCAN_PATH_START .. SCAN_PATH_STOP, dir : AnyDir]

Event(code, d) == [event |-> code, dir |-> d]
IsEnd(m)       == m.event \in {SCAN_PATH_FINISH, SCAN_PATH_STOP}
NoEvent == 0

VARIABLES
  mpc,             \* control point of the main thread
  conn,            \* client on the pipe instance the main thread serves
  reads,           \* reads issued on that pipe: 2 stands for "more than one"
  req,             \* the request being handled
  m_Thread,        \* handle of the worker thread: "invalid", "set" or "null"
  joinExpired,     \* the wait for the worker at exit ended by timeout
  m_ImgScanning, m_Exit, m_StopCallback,
  m_Mutex,         \* owner of the mutex that guards m_Pipes
  m_Pipes,         \* registered pipes
  cbAt, cbMsg,     \* where each thread is in ScanTargetCallback, and its event
  nxt,             \* position in m_Pipes of the callback that owns m_Mutex
  wpc,             \* control point of the worker thread, "none" without one
  ans,             \* next result to broadcast
  m_ScanDirs, m_Done, m_ImgDirectorys,   \* of m_Scanner
  resultFile,      \* directories in the persisted result, <<>> if none, or CutShort
  pipe,            \* server end of each pipe
  chan,            \* events written to each pipe and not read yet
  inbox,           \* request written to each pipe and not read yet
  cpc,             \* control point of each client
  told,            \* history: directories of the results written to each pipe
  last,            \* history: the end event written to each pipe, or NoEvent
  early            \* history: pipes registered when the results were sent

mainVars    == <<mpc, conn, reads, req, m_Thread, joinExpired>>
flagVars    == <<m_ImgScanning, m_Exit>>
cbVars      == <<m_StopCallback, m_Mutex, cbAt, cbMsg, nxt>>
workerVars  == <<wpc, ans, early>>
scannerVars == <<m_ScanDirs, m_Done, m_ImgDirectorys, resultFile>>
clientVars  == <<cpc, told, last>>
vars == <<mainVars, flagVars, cbVars, m_Pipes, workerVars, scannerVars,
          pipe, chan, inbox, clientVars>>

MainPoints == {"dispatch", "clear", "spawn", "assign", "create", "listen", "giveup",
               "read", "register", "stop", "exit", "raise", "join", "free", "freed", "gone"}
WorkerPoints == {"none", "begin", "load", "stuck", "scan", "judge", "done", "reply",
                 "answer", "close", "clear"}
ExitPoints == {"exit", "raise", "join", "free", "freed", "gone"}

TypeOK ==
  /\ mpc \in MainPoints
  /\ conn \in Clients \cup {NoClient}
  /\ mpc \in {"read", "register"} => conn \in Clients
  /\ reads \in 1 .. 2
  /\ req \in AllRequests \cup {NoRequest}
  /\ m_Thread \in {"invalid", "set", "null"}
  /\ joinExpired \in BOOLEAN
  /\ m_ImgScanning \in BOOLEAN
  /\ m_Exit \in BOOLEAN
  /\ m_StopCallback \in BOOLEAN
  /\ m_Mutex \in Threads \cup {"free"}
  /\ m_Pipes \in Seq(Clients)
  /\ cbAt \in [Threads -> {"idle", "lock", "write", "flush"}]
  /\ cbMsg \in [Threads -> Msg]
  /\ nxt \in Nat \ {0}
  /\ wpc \in WorkerPoints
  /\ ans \in Nat \ {0}
  /\ m_ScanDirs \in 0 .. NumDirs
  /\ wpc = "judge" => m_ScanDirs < NumDirs
  /\ m_Done \in BOOLEAN
  /\ m_ImgDirectorys \in Seq(Dirs)
  /\ resultFile \in Seq(Dirs) \cup {CutShort}
  /\ pipe \in [Clients -> {"none", "open", "closed", "refused"}]
  /\ chan \in [Clients -> Seq(Msg)]
  /\ inbox \in [Clients -> AllRequests \cup {NoRequest}]
  /\ cpc \in [Clients -> {"idle", "opened", "reading", "done", "dead"}]
  /\ told \in [Clients -> Seq(AnyDir)]
  /\ last \in [Clients -> {NoEvent, SCAN_PATH_FINISH, SCAN_PATH_STOP}]
  /\ early \subseteq Clients

\* The process starts with no pipe, handles its command line first and may
\* find the result file of an earlier run, whole or cut short.
Init ==
  /\ mpc = "dispatch" /\ conn = NoClient /\ reads = 1 /\ req \in CmdLines
  /\ m_Thread = "invalid" /\ joinExpired = FALSE
  /\ m_ImgScanning = FALSE /\ m_Exit = FALSE /\ m_StopCallback = FALSE
  /\ m_Mutex = "free" /\ m_Pipes = <<>>
  /\ cbAt = [t \in Threads |-> "idle"]
  /\ cbMsg = [t \in Threads |-> Event(SCAN_PATH_START, 0)]
  /\ nxt = 1
  /\ wpc = "none" /\ ans = 1 /\ early = {}
  /\ m_ScanDirs = 0 /\ m_Done = FALSE /\ m_ImgDirectorys = <<>>
  /\ resultFile \in {<<>>, [i \in Dirs |-> i], CutShort}
  /\ pipe = [c \in Clients |-> "none"]
  /\ chan = [c \in Clients |-> <<>>]
  /\ inbox = [c \in Clients |-> NoRequest]
  /\ cpc = [c \in Clients |-> "idle"]
  /\ told = [c \in Clients |-> <<>>]
  /\ last = [c \in Clients |-> NoEvent]

Registered == {m_Pipes[i] : i \in DOMAIN m_Pipes}
-----------------------------------------------------------------------------
(***************************************************************************)
(* ScanTargetCallback, run by either thread.                               *)
(***************************************************************************)

\* The call: nothing happens once m_StopCallback is set, and the stop event
\* is the one that sets it.  The flag is read and written outside m_Mutex.
ScanTargetCallback(t, m) ==
  IF m_StopCallback
  THEN UNCHANGED cbVars
  ELSE /\ m_StopCallback' = (m.event = SCAN_PATH_STOP)
       /\ cbAt' = [cbAt EXCEPT ![t] = "lock"]
       /\ cbMsg' = [cbMsg EXCEPT ![t] = m]
       /\ UNCHANGED <<m_Mutex, nxt>>

\* Mutant of CallbackLock: m_Mutex is not waited for.
CallbackLock_NoWait(t) ==
  /\ cbAt[t] = "lock"
  /\ m_Mutex' = t
  /\ nxt' = 1
  /\ cbAt' = [cbAt EXCEPT ![t] = "write"]
  /\ UNCHANGED <<mainVars, flagVars, m_StopCallback, cbMsg, m_Pipes, workerVars,
                 scannerVars, pipe, chan, inbox, clientVars>>

CallbackLock(t) ==
  /\ cbAt[t] = "lock"
  /\ m_Mutex = "free"
  /\ m_Mutex' = t
  /\ nxt' = 1
  /\ cbAt' = [cbAt EXCEPT ![t] = "write"]
  /\ UNCHANGED <<mainVars, flagVars, m_StopCallback, cbMsg, m_Pipes, workerVars,
                 scannerVars, pipe, chan, inbox, clientVars>>

\* WriteFile to a pipe whose client is there blocks while the buffer is full;
\* to a closed handle, or when the client is gone, it fails and is ignored.
Writable(c) == pipe[c] = "open" /\ cpc[c] # "dead"

CallbackWrite(t) ==
  /\ cbAt[t] = "write"
  /\ nxt <= Len(m_Pipes)
  /\ LET c == m_Pipes[nxt] IN
       \/ /\ Writable(c)
          /\ Len(chan[c]) < PipeCap
          /\ chan' = [chan EXCEPT ![c] = Append(@, cbMsg[t])]
          /\ told' = IF cbMsg[t].event = SCAN_PATH_RESULT
                     THEN [told EXCEPT ![c] = Append(@, cbMsg[t].dir)] ELSE told
          /\ last' = IF IsEnd(cbMsg[t]) THEN [last EXCEPT ![c] = cbMsg[t].event] ELSE last
       \/ /\ ~Writable(c)
          /\ UNCHANGED <<chan, told, last>>
  /\ IF IsEnd(cbMsg[t])
     THEN cbAt' = [cbAt EXCEPT ![t] = "flush"] /\ UNCHANGED nxt
     ELSE nxt' = nxt + 1 /\ UNCHANGED cbAt
  /\ UNCHANGED <<mainVars, flagVars, m_StopCallback, m_Mutex, cbMsg, m_Pipes,
                 workerVars, scannerVars, pipe, inbox, cpc>>

\* After an end event: FlushFileBuffers waits until the client has read
\* everything or is gone; then the pipe is disconnected and its handle closed.
CallbackFlush(t) ==
  /\ cbAt[t] = "flush"
  /\ LET c == m_Pipes[nxt] IN
       /\ Writable(c) => chan[c] = <<>>
       /\ pipe' = [pipe EXCEPT ![c] = IF @ = "open" THEN "closed" ELSE @]
  /\ nxt' = nxt + 1
  /\ cbAt' = [cbAt EXCEPT ![t] = "write"]
  /\ UNCHANGED <<mainVars, flagVars, m_StopCallback, m_Mutex, cbMsg, m_Pipes,
                 workerVars, scannerVars, chan, inbox, clientVars>>

\* Mutants of CallbackUnlock: m_Pipes is never cleared, or always.
CallbackUnlock_NeverClears(t) ==
  /\ cbAt[t] = "write"
  /\ nxt > Len(m_Pipes)
  /\ m_Mutex' = "free" /\ nxt' = 1
  /\ cbAt' = [cbAt EXCEPT ![t] = "idle"]
  /\ UNCHANGED <<mainVars, flagVars, m_StopCallback, cbMsg, m_Pipes, workerVars,
                 scannerVars, pipe, chan, inbox, clientVars>>

CallbackUnlock_AlwaysClears(t) ==
  /\ cbAt[t] = "write"
  /\ nxt > Len(m_Pipes)
  /\ m_Pipes' = <<>>
  /\ m_Mutex' = "free" /\ nxt' = 1
  /\ cbAt' = [cbAt EXCEPT ![t] = "idle"]
  /\ UNCHANGED <<mainVars, flagVars, m_StopCallback, cbMsg, workerVars,
                 scannerVars, pipe, chan, inbox, clientVars>>

\* The broadcast is over; what it went through m_Pipes with is a local of it.
CallbackUnlock(t) ==
  /\ cbAt[t] = "write"
  /\ nxt > Len(m_Pipes)
  /\ m_Pipes' = IF IsEnd(cbMsg[t]) THEN <<>> ELSE m_Pipes
  /\ m_Mutex' = "free" /\ nxt' = 1
  /\ cbAt' = [cbAt EXCEPT ![t] = "idle"]
  /\ UNCHANGED <<mainVars, flagVars, m_StopCallback, cbMsg, workerVars,
                 scannerVars, pipe, chan, inbox, clientVars>>

Callback(t) == CallbackLock(t) \/ CallbackWrite(t) \/ CallbackFlush(t) \/ CallbackUnlock(t)
-----------------------------------------------------------------------------
(***************************************************************************)
(* The main thread: the accept loop.                                       *)
(***************************************************************************)

\* CreateNamedPipe and ConnectNamedPipe: an instance is there to connect to.
\* What the loop knew of the last one it kept in locals.
CreatePipe ==
  /\ mpc = "create"
  /\ mpc' = "listen"
  /\ conn' = NoClient /\ reads' = 1 /\ req' = NoRequest
  /\ UNCHANGED <<m_Thread, joinExpired, flagVars, cbVars, m_Pipes,
                 workerVars, scannerVars, pipe, chan, inbox, clientVars>>

\* A client is connected: the first read is issued.
Accept ==
  /\ mpc = "listen"
  /\ conn # NoClient
  /\ mpc' = "read"
  /\ reads' = 1
  /\ UNCHANGED <<conn, req, m_Thread, joinExpired, flagVars, cbVars, m_Pipes,
                 workerVars, scannerVars, pipe, chan, inbox, clientVars>>

\* The wait for a client ends by timeout.  The instance stays connectable
\* until GiveUp disconnects it.
ConnectTimeout ==
  /\ mpc = "listen"
  /\ conn = NoClient
  /\ mpc' = "giveup"
  /\ UNCHANGED <<conn, reads, req, m_Thread, joinExpired, flagVars, cbVars, m_Pipes,
                 workerVars, scannerVars, pipe, chan, inbox, clientVars>>

\* Mutant of GiveUp: the idle timeout ends the loop during a scan, too.
GiveUp_AlwaysExits ==
  /\ mpc = "giveup"
  /\ pipe' = [c \in Clients |-> IF c = conn THEN "closed" ELSE pipe[c]]
  /\ mpc' = "exit"
  /\ UNCHANGED <<conn, reads, req, m_Thread, joinExpired, flagVars, cbVars, m_Pipes,
                 workerVars, scannerVars, chan, inbox, clientVars>>

GiveUp ==
  /\ mpc = "giveup"
  /\ pipe' = [c \in Clients |-> IF c = conn THEN "closed" ELSE pipe[c]]
  /\ mpc' = IF m_ImgScanning THEN "create" ELSE "exit"
  /\ UNCHANGED <<conn, reads, req, m_Thread, joinExpired, flagVars, cbVars, m_Pipes,
                 workerVars, scannerVars, chan, inbox, clientVars>>

\* The request is delivered to the oldest pending read, which is the one the
\* main thread waits for only if no read was issued after it.
ReadRequest ==
  /\ mpc = "read"
  /\ reads = 1
  /\ inbox[conn] # NoRequest
  /\ req' = inbox[conn]
  /\ inbox' = [inbox EXCEPT ![conn] = NoRequest]
  /\ mpc' = "register"
  /\ UNCHANGED <<conn, reads, m_Thread, joinExpired, flagVars, cbVars, m_Pipes,
                 workerVars, scannerVars, pipe, chan, clientVars>>

\* Mutant of ReadTimeout: the read is repeated whether or not the worker runs.
ReadTimeout_AlwaysRepeats ==
  /\ mpc = "read"
  /\ inbox[conn] = NoRequest \/ reads = 2
  /\ reads' = 2
  /\ UNCHANGED <<mpc, conn, req, m_Thread, joinExpired, flagVars, cbVars, m_Pipes,
                 workerVars, scannerVars, pipe, chan, inbox, clientVars>>

\* The wait for the request ends by timeout.  While the worker runs the loop
\* issues another read, with new locals, and leaves the first one pending.
ReadTimeout ==
  /\ mpc = "read"
  /\ inbox[conn] = NoRequest \/ reads = 2
  /\ \/ /\ m_ImgScanning
        /\ reads' = 2
        /\ UNCHANGED <<mpc, pipe>>
     \/ /\ ~m_ImgScanning
        /\ pipe' = [pipe EXCEPT ![conn] = "closed"]
        /\ mpc' = "exit"
        /\ UNCHANGED reads
  /\ UNCHANGED <<conn, req, m_Thread, joinExpired, flagVars, cbVars, m_Pipes,
                 workerVars, scannerVars, chan, inbox, clientVars>>
-----------------------------------------------------------------------------
(***************************************************************************)
(* HandleReuqest.                                                          *)
(***************************************************************************)

\* The pipe is registered, under m_Mutex, whatever the request is.
Register ==
  /\ mpc = "register"
  /\ m_Mutex = "free"
  /\ m_Pipes' = Append(m_Pipes, conn)
  /\ mpc' = "dispatch"
  /\ UNCHANGED <<conn, reads, req, m_Thread, joinExpired, flagVars, cbVars,
                 workerVars, scannerVars, pipe, chan, inbox, clientVars>>

\* Mutant of RequestScan: the check of m_ImgScanning is lost.
RequestScan_Unchecked ==
  /\ mpc = "dispatch"
  /\ req \in {SCAN_REQUEST_IMG, SCAN_REQUEST_IMG_AFREAH}
  /\ m_ImgScanning' = TRUE
  /\ mpc' = IF req = SCAN_REQUEST_IMG_AFREAH THEN "clear" ELSE "spawn"
  /\ UNCHANGED <<conn, reads, req, m_Thread, joinExpired, m_Exit, cbVars, m_Pipes,
                 workerVars, scannerVars, pipe, chan, inbox, clientVars>>

\* A scan request starts a worker only if none is at work.
RequestScan ==
  /\ mpc = "dispatch"
  /\ req \in {SCAN_REQUEST_IMG, SCAN_REQUEST_IMG_AFREAH}
  /\ m_ImgScanning' = TRUE
  /\ mpc' = IF m_ImgScanning THEN "create"
            ELSE IF req = SCAN_REQUEST_IMG_AFREAH THEN "clear" ELSE "spawn"
  /\ UNCHANGED <<conn, reads, req, m_Thread, joinExpired, m_Exit, cbVars, m_Pipes,
                 workerVars, scannerVars, pipe, chan, inbox, clientVars>>

\* CScanner::ClearResult.  Whether the file could be deleted is not looked at.
ClearResult ==
  /\ mpc = "clear"
  /\ m_ScanDirs' = 0
  /\ m_Done' = FALSE
  /\ m_ImgDirectorys' = <<>>
  /\ resultFile' \in {<<>>, resultFile}
  /\ mpc' = "spawn"
  /\ UNCHANGED <<conn, reads, req, m_Thread, joinExpired, flagVars, cbVars, m_Pipes,
                 workerVars, pipe, chan, inbox, clientVars>>

\* CreateThread: the worker runs before its handle is stored in m_Thread.  A
\* failure is not looked at: m_Thread becomes NULL.
Spawn ==
  /\ mpc = "spawn"
  /\ \/ wpc' = "begin" /\ mpc' = "assign" /\ UNCHANGED m_Thread
     \/ ThreadMayFail /\ m_Thread' = "null" /\ mpc' = "create" /\ UNCHANGED wpc
  /\ UNCHANGED <<conn, reads, req, joinExpired, flagVars, cbVars, m_Pipes, ans, early,
                 scannerVars, pipe, chan, inbox, clientVars>>

AssignThread ==
  /\ mpc = "assign"
  /\ m_Thread' = "set"
  /\ mpc' = "create"
  /\ UNCHANGED <<conn, reads, req, joinExpired, flagVars, cbVars, m_Pipes, workerVars,
                 scannerVars, pipe, chan, inbox, clientVars>>

\* An unknown request: the pipe is disconnected, which drops what the client
\* has not read, and closed, but stays in m_Pipes.
Refuse ==
  /\ mpc = "dispatch"
  /\ req = "other"
  /\ pipe' = [c \in Clients |-> IF c = conn THEN "refused" ELSE pipe[c]]
  /\ chan' = [c \in Clients |-> IF c = conn THEN <<>> ELSE chan[c]]
  /\ mpc' = "create"
  /\ UNCHANGED <<conn, reads, req, m_Thread, joinExpired, flagVars, cbVars, m_Pipes,
                 workerVars, scannerVars, inbox, clientVars>>

\* scan_exit: the stop event is broadcast and the accept loop ends.
RequestExit ==
  /\ mpc = "dispatch"
  /\ req = SCAN_REQUEST_EXIT
  /\ ScanTargetCallback("main", Event(SCAN_PATH_STOP, 0))
  /\ mpc' = "stop"
  /\ UNCHANGED <<conn, reads, req, m_Thread, joinExpired, flagVars, m_Pipes, workerVars,
                 scannerVars, pipe, chan, inbox, clientVars>>

Stopped ==
  /\ mpc = "stop"
  /\ cbAt["main"] = "idle"
  /\ mpc' = "exit"
  /\ UNCHANGED <<conn, reads, req, m_Thread, joinExpired, flagVars, cbVars, m_Pipes,
                 workerVars, scannerVars, pipe, chan, inbox, clientVars>>
-----------------------------------------------------------------------------
(***************************************************************************)
(* ExitFree: the end of the process.                                       *)
(***************************************************************************)

RaiseStop ==
  /\ mpc = "exit"
  /\ m_StopCallback' = TRUE
  /\ mpc' = "raise"
  /\ UNCHANGED <<conn, reads, req, m_Thread, joinExpired, flagVars, m_Mutex, cbAt, cbMsg,
                 nxt, m_Pipes, workerVars, scannerVars, pipe, chan, inbox, clientVars>>

\* m_Exit and m_Scanner->m_Exit.
RaiseExit ==
  /\ mpc = "raise"
  /\ m_Exit' = TRUE
  /\ mpc' = "join"
  /\ UNCHANGED <<conn, reads, req, m_Thread, joinExpired, m_ImgScanning, cbVars, m_Pipes,
                 workerVars, scannerVars, pipe, chan, inbox, clientVars>>

\* Mutant of Join: the worker is not waited for.
Join_NoWait ==
  /\ mpc = "join"
  /\ m_Thread' = "invalid"
  /\ mpc' = "free"
  /\ UNCHANGED <<conn, reads, req, joinExpired, flagVars, cbVars, m_Pipes, workerVars,
                 scannerVars, pipe, chan, inbox, clientVars>>

Join ==
  /\ mpc = "join"
  /\ m_Thread = "invalid" \/ wpc = "none"
  /\ m_Thread' = "invalid"
  /\ mpc' = "free"
  /\ UNCHANGED <<conn, reads, req, joinExpired, flagVars, cbVars, m_Pipes, workerVars,
                 scannerVars, pipe, chan, inbox, clientVars>>

\* The worker is not waited for longer than TIMEOUT.
JoinTimeout ==
  /\ mpc = "join"
  /\ m_Thread # "invalid"
  /\ wpc # "none"
  /\ joinExpired' = TRUE
  /\ m_Thread' = "invalid"
  /\ mpc' = "free"
  /\ UNCHANGED <<conn, reads, req, flagVars, cbVars, m_Pipes, workerVars, scannerVars,
                 pipe, chan, inbox, clientVars>>

\* delete m_Scanner.  What a worker that is still there does with the freed
\* scanner is undefined and is not modelled: it takes no step from here on.
FreeScanner ==
  /\ mpc = "free"
  /\ mpc' = "freed"
  /\ UNCHANGED <<conn, reads, req, m_Thread, joinExpired, flagVars, cbVars, m_Pipes,
                 workerVars, scannerVars, pipe, chan, inbox, clientVars>>

\* The process returns: the worker is killed and every pipe handle closed;
\* what is in the pipes can still be read.
EndProcess ==
  /\ mpc = "freed"
  /\ mpc' = "gone"
  /\ wpc' = "none"
  /\ m_Mutex' = "free"
  /\ cbAt' = [t \in Threads |-> "idle"]
  /\ pipe' = [c \in Clients |-> IF pipe[c] = "open" THEN "closed" ELSE pipe[c]]
  /\ UNCHANGED <<conn, reads, req, m_Thread, joinExpired, flagVars, m_StopCallback, cbMsg,
                 nxt, m_Pipes, ans, early, scannerVars, chan, inbox, clientVars>>

Main ==
  \/ CreatePipe \/ Accept \/ ConnectTimeout \/ GiveUp \/ ReadRequest \/ ReadTimeout
  \/ Register \/ RequestScan \/ ClearResult \/ Spawn \/ AssignThread \/ Refuse
  \/ RequestExit \/ Stopped \/ RaiseStop \/ RaiseExit \/ Join \/ JoinTimeout
  \/ FreeScanner \/ EndProcess \/ Callback("main")
-----------------------------------------------------------------------------
(***************************************************************************)
(* The worker thread: ThreadExecute.                                       *)
(***************************************************************************)

Begin ==
  /\ wpc = "begin"
  /\ wpc' = IF m_Exit THEN "none" ELSE "load"
  /\ UNCHANGED <<mainVars, flagVars, cbVars, m_Pipes, ans, early, scannerVars, pipe,
                 chan, inbox, clientVars>>

\* What is left of a sequence when some of its elements are dropped.
Subsequences(s) ==
  LET Increasing(n) == {f \in [1 .. n -> DOMAIN s] :
                          \A i, j \in 1 .. n : i < j => f[i] < f[j]}
  IN  UNION {{[i \in 1 .. n |-> s[f[i]]] : f \in Increasing(n)} : n \in 0 .. Len(s)}

\* LoadImgScanResult keeps the saved directories that still exist, none if
\* the file is too old or cannot be opened; a scan is needed only when it keeps
\* none.  It reads for ever in a file without a first line (ResultFile!LoadEmpty).
Load ==
  /\ wpc = "load"
  /\ \/ /\ m_Done
        /\ wpc' = "reply"
        /\ UNCHANGED m_ImgDirectorys
     \/ /\ ~m_Done
        /\ resultFile = CutShort
        /\ wpc' \in {"stuck", "scan"}
        /\ UNCHANGED m_ImgDirectorys
     \/ /\ ~m_Done
        /\ resultFile # CutShort
        /\ \E kept \in Subsequences(resultFile) :
             m_ImgDirectorys' = m_ImgDirectorys \o kept
        /\ wpc' = IF m_ImgDirectorys' # <<>> THEN "done" ELSE "scan"
  /\ UNCHANGED <<mainVars, flagVars, cbVars, m_Pipes, ans, early, m_ScanDirs, m_Done,
                 resultFile, pipe, chan, inbox, clientVars>>

\* Mutant of Visit: the loop runs one directory too far.
Visit_OffByOne ==
  /\ wpc = "scan"
  /\ cbAt["worker"] = "idle"
  /\ m_ScanDirs <= NumDirs
  /\ ScanTargetCallback("worker", Event(SCAN_PATH_START, m_ScanDirs + 1))
  /\ wpc' = "judge"
  /\ UNCHANGED <<mainVars, flagVars, m_Pipes, ans, early, scannerVars, pipe, chan,
                 inbox, clientVars>>

\* ScanTargetDir takes up the next directory and reports it.
Visit ==
  /\ wpc = "scan"
  /\ cbAt["worker"] = "idle"
  /\ m_ScanDirs < NumDirs
  /\ ScanTargetCallback("worker", Event(SCAN_PATH_START, m_ScanDirs + 1))
  /\ wpc' = "judge"
  /\ UNCHANGED <<mainVars, flagVars, m_Pipes, ans, early, scannerVars, pipe, chan,
                 inbox, clientVars>>

\* Where directories cannot be entered the walk may go on below directories
\* that are not there, with nothing new to judge and no end (DirScan!Listing);
\* m_Exit ends it.
VisitAstray ==
  /\ wpc = "scan"
  /\ cbAt["worker"] = "idle"
  /\ m_ScanDirs = NumDirs
  /\ ~m_Exit
  /\ ScanTargetCallback("worker", Event(SCAN_PATH_START, m_ScanDirs))
  /\ UNCHANGED <<mainVars, flagVars, m_Pipes, workerVars, scannerVars, pipe, chan,
                 inbox, clientVars>>

\* The directory turns out to be a picture directory, or not.
Judge ==
  /\ wpc = "judge"
  /\ cbAt["worker"] = "idle"
  /\ m_ScanDirs' = m_ScanDirs + 1
  /\ \/ /\ m_ImgDirectorys' = Append(m_ImgDirectorys, m_ScanDirs + 1)
        /\ ScanTargetCallback("worker", Event(SCAN_PATH_FOUND, m_ScanDirs + 1))
     \/ UNCHANGED <<m_ImgDirectorys, cbVars>>
  /\ wpc' = "scan"
  /\ UNCHANGED <<mainVars, flagVars, m_Pipes, ans, early, m_Done, resultFile, pipe,
                 chan, inbox, clientVars>>

\* The scan is over, or is cut short by m_Exit between two levels; what was
\* found is saved in either case.
SaveResult ==
  /\ wpc = "scan"
  /\ cbAt["worker"] = "idle"
  /\ m_ScanDirs = NumDirs \/ m_Exit
  /\ resultFile' = m_ImgDirectorys
  /\ wpc' = "done"
  /\ UNCHANGED <<mainVars, flagVars, cbVars, m_Pipes, ans, early, m_ScanDirs, m_Done,
                 m_ImgDirectorys, pipe, chan, inbox, clientVars>>

MarkDone ==
  /\ wpc = "done"
  /\ m_Done' = TRUE
  /\ wpc' = "reply"
  /\ UNCHANGED <<mainVars, flagVars, cbVars, m_Pipes, ans, early, m_ScanDirs,
                 m_ImgDirectorys, resultFile, pipe, chan, inbox, clientVars>>

\* Mutant of Reply: the answer depends on m_StopCallback instead of m_Exit.
Reply_IfNotStopped ==
  /\ wpc = "reply"
  /\ wpc' = IF m_StopCallback THEN "none" ELSE "answer"
  /\ ans' = 1
  /\ early' = Registered
  /\ UNCHANGED <<mainVars, flagVars, cbVars, m_Pipes, scannerVars, pipe, chan, inbox,
                 clientVars>>

Reply ==
  /\ wpc = "reply"
  /\ wpc' = IF m_Exit THEN "none" ELSE "answer"
  /\ ans' = 1
  /\ early' = Registered
  /\ UNCHANGED <<mainVars, flagVars, cbVars, m_Pipes, scannerVars, pipe, chan, inbox,
                 clientVars>>

SendResult ==
  /\ wpc = "answer"
  /\ cbAt["worker"] = "idle"
  /\ ans <= Len(m_ImgDirectorys)
  /\ ScanTargetCallback("worker", Event(SCAN_PATH_RESULT, m_ImgDirectorys[ans]))
  /\ ans' = ans + 1
  /\ UNCHANGED <<mainVars, flagVars, m_Pipes, wpc, early, scannerVars, pipe, chan,
                 inbox, clientVars>>

\* Mutant of SendFinish: the last result may be left out.
SendFinish_TooEarly ==
  /\ wpc = "answer"
  /\ cbAt["worker"] = "idle"
  /\ ans >= Len(m_ImgDirectorys)
  /\ ScanTargetCallback("worker", Event(SCAN_PATH_FINISH, 0))
  /\ wpc' = "close"
  /\ UNCHANGED <<mainVars, flagVars, m_Pipes, ans, early, scannerVars, pipe, chan,
                 inbox, clientVars>>

SendFinish ==
  /\ wpc = "answer"
  /\ cbAt["worker"] = "idle"
  /\ ans > Len(m_ImgDirectorys)
  /\ ScanTargetCallback("worker", Event(SCAN_PATH_FINISH, 0))
  /\ wpc' = "close"
  /\ UNCHANGED <<mainVars, flagVars, m_Pipes, ans, early, scannerVars, pipe, chan,
                 inbox, clientVars>>

\* What the thread went through its results with is a local of it.
CloseThread ==
  /\ wpc = "close"
  /\ cbAt["worker"] = "idle"
  /\ m_Thread' = "invalid"
  /\ wpc' = "clear" /\ ans' = 1
  /\ UNCHANGED <<mpc, conn, reads, req, joinExpired, flagVars, cbVars, m_Pipes, early,
                 scannerVars, pipe, chan, inbox, clientVars>>

\* Mutant of EndScanning: the flag is not reset.
EndScanning_KeepsFlag ==
  /\ wpc = "clear"
  /\ wpc' = "none"
  /\ UNCHANGED <<mainVars, flagVars, cbVars, m_Pipes, ans, early, scannerVars, pipe,
                 chan, inbox, clientVars>>

\* The last step: from here on a request starts a new worker.
EndScanning ==
  /\ wpc = "clear"
  /\ m_ImgScanning' = FALSE
  /\ wpc' = "none"
  /\ UNCHANGED <<mainVars, m_Exit, cbVars, m_Pipes, ans, early, scannerVars, pipe,
                 chan, inbox, clientVars>>

Worker ==
  /\ mpc \notin {"freed", "gone"}
  /\ \/ Begin \/ Load \/ Visit \/ VisitAstray \/ Judge \/ SaveResult \/ MarkDone
     \/ Reply \/ SendResult \/ SendFinish \/ CloseThread \/ EndScanning \/ Callback("worker")
-----------------------------------------------------------------------------
(***************************************************************************)
(* The clients: PictureDirectoryScanExecute.                               *)
(***************************************************************************)

\* CreateFile succeeds on the one instance that waits for a client.
Connect(c) ==
  /\ cpc[c] = "idle"
  /\ mpc \in {"listen", "giveup"}
  /\ conn = NoClient
  /\ conn' = c
  /\ cpc' = [cpc EXCEPT ![c] = "opened"]
  /\ pipe' = [pipe EXCEPT ![c] = "open"]
  /\ UNCHANGED <<mpc, reads, req, m_Thread, joinExpired, flagVars, cbVars, m_Pipes,
                 workerVars, scannerVars, chan, inbox, told, last>>

\* WriteFile is retried for ever if the pipe has been closed meanwhile: the
\* client then stays at "opened".
SendRequest(c) ==
  /\ cpc[c] = "opened"
  /\ pipe[c] = "open"
  /\ \E r \in Requests : inbox' = [inbox EXCEPT ![c] = r]
  /\ cpc' = [cpc EXCEPT ![c] = "reading"]
  /\ UNCHANGED <<mainVars, flagVars, cbVars, m_Pipes, workerVars, scannerVars, pipe,
                 chan, told, last>>

ReadEvent(c) ==
  /\ cpc[c] = "reading"
  /\ chan[c] # <<>>
  /\ chan' = [chan EXCEPT ![c] = Tail(@)]
  /\ UNCHANGED <<mainVars, flagVars, cbVars, m_Pipes, workerVars, scannerVars, pipe,
                 inbox, clientVars>>

\* ReadFile fails: the pipe was closed by the other side and is empty.
ReadFails(c) ==
  /\ cpc[c] = "reading"
  /\ chan[c] = <<>>
  /\ pipe[c] # "open"
  /\ cpc' = [cpc EXCEPT ![c] = "done"]
  /\ UNCHANGED <<mainVars, flagVars, cbVars, m_Pipes, workerVars, scannerVars, pipe,
                 chan, inbox, told, last>>

\* The client's process ends at any moment; what it has not read is lost.
ClientDies(c) ==
  /\ cpc[c] \in {"opened", "reading"}
  /\ cpc' = [cpc EXCEPT ![c] = "dead"]
  /\ chan' = [chan EXCEPT ![c] = <<>>]
  /\ UNCHANGED <<mainVars, flagVars, cbVars, m_Pipes, workerVars, scannerVars, pipe,
                 inbox, told, last>>

Client(c) == SendRequest(c) \/ ReadEvent(c) \/ ReadFails(c)
-----------------------------------------------------------------------------
\* The process is gone and no client waits for it; nothing happens any more.
AllEnded ==
  /\ mpc = "gone"
  /\ \A c \in Clients : cpc[c] # "reading" /\ ~(cpc[c] = "opened" /\ pipe[c] = "open")
  /\ UNCHANGED vars

Next ==
  \/ Main
  \/ Worker
  \/ \E c \in Clients : Connect(c) \/ Client(c) \/ ClientDies(c)
  \/ AllEnded

Spec == Init /\ [][Next]_vars

\* Each thread keeps running, a timed wait ends by itself, and a client keeps
\* sending and reading; nothing obliges a client to connect or to die.
Fairness ==
  /\ WF_vars(Main)
  /\ WF_vars(Worker)
  /\ \A c \in Clients : WF_vars(Client(c))

FairSpec == Spec /\ Fairness
-----------------------------------------------------------------------------
(***************************************************************************)
(* What the service must never do.                                         *)
(***************************************************************************)

EndOnlyLast(s) == \A i \in DOMAIN s : IsEnd(s[i]) => i = Len(s)
EndsInEnd(s)   == s # <<>> => IsEnd(s[Len(s)])

\* A client hears nothing after the end of an answer: once an end event is in
\* its pipe, that event is the last one there is to read (both threads
\* broadcast end events, and ScanTargetCallback closes the pipe after one).
EndIsLast ==
  \A c \in Clients :
    /\ EndOnlyLast(chan[c])
    /\ last[c] # NoEvent => EndsInEnd(chan[c])

\* The broadcast of an end event by t is through with m_Pipes[i].
Through(t, i) == m_Mutex = t /\ IsEnd(cbMsg[t]) /\ i < nxt

\* No registered pipe is flushed and closed a second time: m_Pipes names each
\* pipe once, and only open ones, but for a pipe whose request was refused
\* (its handle is left behind) and for those that the broadcast of an end
\* event is through with.
PipesSound ==
  /\ \A i, j \in DOMAIN m_Pipes : m_Pipes[i] = m_Pipes[j] => i = j
  /\ mpc # "gone" =>
       \A i \in DOMAIN m_Pipes :
         pipe[m_Pipes[i]] \in {"open", "refused"} \/ \E t \in Threads : Through(t, i)

\* Once the accept loop is left no client is written to: either no pipe is
\* registered or there is no worker (ExitFree stops the callback by a flag
\* that the worker has read before; the pipes are closed under its hands).
SilentExit == mpc \in ExitPoints => m_Pipes = <<>> \/ wpc = "none"

\* ClearResult empties m_Scanner, and a worker is created, only while no
\* worker uses m_Scanner: m_ImgScanning stands for the worker's life.
WorkerExclusive == mpc \in {"clear", "spawn"} => wpc = "none"

\* m_Scanner is deleted under a worker that may still use it only if the wait
\* for that worker expired, although m_Thread is stored after the worker has
\* started and reset before it has ended.
FreedAfterJoin == mpc = "freed" => wpc \in {"none", "clear"} \/ joinExpired

\* Whoever answers "a scan is running" to a request has a worker that will
\* answer: m_ImgScanning is not left set without one, unless the process is
\* ending or CreateThread failed.
ScanningBacked ==
  m_ImgScanning => wpc # "none" \/ mpc \in {"clear", "spawn"} \/ m_Exit \/ m_Thread = "null"

\* The session of a client: until its pipe gets an end event, or the client or
\* its pipe is given up.
SessionOf(c) ==
  IF cpc[c] = "dead" \/ pipe[c] = "refused" THEN "gone"
  ELSE CASE last[c] = SCAN_PATH_FINISH -> "finished"
         [] last[c] = SCAN_PATH_STOP -> "stopped"
         [] OTHER -> "open"

Session == INSTANCE ScanSession WITH
  answer <- m_ImgDirectorys, whole <- early, told <- told,
  session <- [c \in Clients |-> SessionOf(c)]

\* The finish event closes an answer that did not change while it was told: a
\* client that was registered when the results were sent gets all of them, in
\* order, and one that came later gets the last of them, none twice
\* (HandleReuqest registers a pipe at any time and ThreadExecute sends a
\* result to the pipes registered by then).
AnswersSessions == Session!Spec

(***************************************************************************)
(* What must happen, under FairSpec.                                       *)
(***************************************************************************)

\* A worker without an end, which nobody asks to stop: it reads for ever in a
\* file that was cut short, or walks on and on, held up by no broadcast.
LostForGood ==
  /\ <>[](/\ wpc = "stuck" \/ (wpc = "scan" /\ m_ScanDirs = NumDirs)
          /\ mpc \notin {"stop"} \cup ExitPoints)
  /\ []<>(cbAt["worker"] = "idle")

\* No client reads for ever: its pipe ends with an answer, with the process, or
\* with the client, unless the worker is lost for good.
Released == \A c \in Clients : LostForGood \/ (cpc[c] = "reading" ~> cpc[c] # "reading")

\* The process ends, whatever its clients do and ask for: no client, flag or
\* late answer holds off the idle timeout, and no worker does but one that is
\* lost for good; such a process still ends when scan_exit is asked for.
IdleExit == LostForGood \/ <>(mpc = "gone")

\* A client registered while a worker still has its answer to give, and which
\* goes on reading, is told when it is over, by the answer or by the stop,
\* unless its request is refused or the worker is lost for good.
EndRead(c) == last[c] # NoEvent /\ chan[c] = <<>>

EndHeard ==
  \A c \in Clients :
    LostForGood \/
    ((c \in Registered /\ pipe[c] = "open" /\ wpc \notin {"none", "close", "clear"})
      ~> (EndRead(c) \/ cpc[c] = "dead" \/ pipe[c] = "refused"))

(***************************************************************************)
(* What the code says of itself, and does not do.                          *)
(***************************************************************************)

\* disk_scan_process.cpp:109 says that a read that timed out during a scan is
\* waited for again: a request that arrives then is taken up.
KeptWaiting ==
  \A c \in Clients :
    (mpc = "read" /\ conn = c /\ cpc[c] = "reading" /\ inbox[c] # NoRequest)
    ~> (inbox[c] = NoRequest \/ cpc[c] = "dead")
=============================================================================
