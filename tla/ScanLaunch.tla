----------------------------- MODULE ScanLaunch -----------------------------
(***************************************************************************)
(* How the scan process comes to run and goes away: a client that finds no *)
(* pipe starts a process and tries again at once                           *)
(* (disk_scan_client/disk_scan.cpp:147-177), a process that finds the name *)
(* of the mutex taken ends, and the one that serves keeps the name until   *)
(* it has waited for its worker (disk_scan/disk_scan_process.cpp).         *)
(* What the process does in between is ScanService's matter.               *)
(***************************************************************************)
CONSTANTS Clients, Processes, Nobody

ASSUME LaunchAssumption == Nobody \notin Processes

VARIABLES
  proc,       \* where each process is; "none" when it does not run
  handle,     \* processes with a handle to the named mutex
  worker,     \* processes whose worker thread runs
  listening,  \* processes with a pipe instance nobody is connected to
  handling,   \* processes that wait for the request of a new client
  conn,       \* the process at the other end of each client's pipe, or Nobody
  client      \* where each client is

vars == <<proc, handle, worker, listening, handling, conn, client>>

TypeOK ==
  /\ proc \in [Processes -> {"none", "started", "serving", "joining", "leaving"}]
  /\ handle \subseteq Processes /\ worker \subseteq Processes /\ listening \subseteq Processes
  /\ handling \subseteq Processes
  /\ conn \in [Clients -> Processes \cup {Nobody}]
  /\ client \in [Clients -> {"trying", "waiting", "connected", "ended"}]

Init ==
  /\ proc = [p \in Processes |-> "none"]
  /\ handle = {} /\ worker = {} /\ listening = {} /\ handling = {}
  /\ conn = [c \in Clients |-> Nobody] /\ client = [c \in Clients |-> "trying"]

Instances == listening \cup handling # {} \/ \E c \in Clients : conn[c] # Nobody

-----------------------------------------------------------------------------
\* The client: CreateFile until it gets a pipe.

Connect(c) ==
  /\ client[c] = "trying"
  /\ \E p \in listening :
       /\ listening' = listening \ {p} /\ handling' = handling \cup {p}
       /\ conn' = [conn EXCEPT ![c] = p]
  /\ client' = [client EXCEPT ![c] = "connected"]
  /\ UNCHANGED <<proc, handle, worker>>

\* ERROR_FILE_NOT_FOUND: a process is started, whether or not one is on its
\* way up or down, and the loop goes on without a wait.
Launch(c) ==
  /\ client[c] = "trying" /\ ~Instances
  /\ \E p \in Processes : proc[p] = "none" /\ proc' = [proc EXCEPT ![p] = "started"]
  /\ UNCHANGED <<handle, worker, listening, handling, conn, client>>

\* ERROR_PIPE_BUSY: WaitNamedPipe, and another try whatever it returns.
Busy(c) ==
  /\ client[c] = "trying" /\ listening = {} /\ Instances
  /\ client' = [client EXCEPT ![c] = "waiting"]
  /\ UNCHANGED <<proc, handle, worker, listening, handling, conn>>

Retry(c) ==
  /\ client[c] = "waiting"
  /\ client' = [client EXCEPT ![c] = "trying"]
  /\ UNCHANGED <<proc, handle, worker, listening, handling, conn>>

\* Any other error, or the end of what the client reads.
Leave(c) ==
  /\ client[c] \in {"trying", "connected"}
  /\ client' = [client EXCEPT ![c] = "ended"]
  /\ conn' = [conn EXCEPT ![c] = Nobody]
  /\ UNCHANGED <<proc, handle, worker, listening, handling>>

-----------------------------------------------------------------------------
\* The process.

\* Mutant of CreateMutex: the name is free once its first owner has left.
CreateMutex_WhileServed(p) ==
  /\ proc[p] = "started"
  /\ LET first == ~\E q \in handle : proc[q] = "serving"
     IN /\ proc' = [proc EXCEPT ![p] = IF first THEN "serving" ELSE "leaving"]
        /\ worker' = IF first THEN worker \cup {p} ELSE worker
  /\ handle' = handle \cup {p}
  /\ UNCHANGED <<listening, handling, conn, client>>

\* The name exists while any process has a handle to it, one that is about to
\* end included; the first process starts the worker for its command line.
CreateMutex(p) ==
  /\ proc[p] = "started"
  /\ proc' = [proc EXCEPT ![p] = IF handle = {} THEN "serving" ELSE "leaving"]
  /\ worker' = IF handle = {} THEN worker \cup {p} ELSE worker
  /\ handle' = handle \cup {p}
  /\ UNCHANGED <<listening, handling, conn, client>>

CreateNamedPipe(p) ==
  /\ proc[p] = "serving" /\ p \notin listening \cup handling
  /\ listening' = listening \cup {p}
  /\ UNCHANGED <<proc, handle, worker, handling, conn, client>>

\* The wait for a client times out: the instance is closed, and the process
\* leaves unless its worker runs.
ConnectTimeout(p) ==
  /\ proc[p] = "serving" /\ p \in listening
  /\ listening' = listening \ {p}
  /\ proc' = IF p \in worker THEN proc ELSE [proc EXCEPT ![p] = "joining"]
  /\ UNCHANGED <<handle, worker, handling, conn, client>>

\* The request of a client is handled: it may start the worker, start nothing
\* (it is refused, or the worker runs), or be the last one (an exit request, or
\* none in time).
HandleRequest(p) ==
  /\ proc[p] = "serving" /\ p \in handling
  /\ handling' = handling \ {p}
  /\ \/ worker' \in {worker, worker \cup {p}} /\ UNCHANGED proc
     \/ proc' = [proc EXCEPT ![p] = "joining"] /\ UNCHANGED worker
  /\ UNCHANGED <<handle, listening, conn, client>>

\* A refused pipe is closed, and so is every pipe with the end of an answer.
ClosePipe(p) ==
  /\ \E c \in Clients :
       /\ conn[c] = p /\ conn' = [conn EXCEPT ![c] = Nobody]
       /\ client' = [client EXCEPT ![c] = "ended"]
  /\ UNCHANGED <<proc, handle, worker, listening, handling>>

WorkerEnds(p) ==
  /\ p \in worker
  /\ worker' = worker \ {p}
  /\ UNCHANGED <<proc, handle, listening, handling, conn, client>>

\* Mutant of Join: the name is given up before the wait for the worker.
Join_AfterName(p) ==
  /\ proc[p] = "joining"
  /\ \/ p \in handle /\ handle' = handle \ {p} /\ UNCHANGED proc
     \/ p \notin handle /\ proc' = [proc EXCEPT ![p] = "leaving"] /\ UNCHANGED handle
  /\ UNCHANGED <<worker, listening, handling, conn, client>>

\* The wait for the worker: until it ends, or TIMEOUT.
Join(p) ==
  /\ proc[p] = "joining"
  /\ proc' = [proc EXCEPT ![p] = "leaving"]
  /\ UNCHANGED <<handle, worker, listening, handling, conn, client>>

CloseName(p) ==
  /\ proc[p] = "leaving" /\ p \in handle
  /\ handle' = handle \ {p}
  /\ UNCHANGED <<proc, worker, listening, handling, conn, client>>

\* The process is gone, with its worker and its ends of the pipes.
EndProcess(p) ==
  /\ proc[p] = "leaving" /\ p \notin handle
  /\ proc' = [proc EXCEPT ![p] = "none"]
  /\ worker' = worker \ {p} /\ listening' = listening \ {p}
  /\ handling' = handling \ {p}
  /\ conn' = [c \in Clients |-> IF conn[c] = p THEN Nobody ELSE conn[c]]
  /\ client' = [c \in Clients |-> IF conn[c] = p THEN "ended" ELSE client[c]]
  /\ UNCHANGED handle

Client(c) == Connect(c) \/ Launch(c) \/ Busy(c) \/ Retry(c) \/ Leave(c)

Process(p) ==
  \/ CreateMutex(p) \/ CreateNamedPipe(p) \/ ConnectTimeout(p) \/ HandleRequest(p)
  \/ ClosePipe(p) \/ WorkerEnds(p) \/ Join(p) \/ CloseName(p) \/ EndProcess(p)

Next == (\E c \in Clients : Client(c)) \/ \E p \in Processes : Process(p)

Spec == Init /\ [][Next]_vars

-----------------------------------------------------------------------------
Serves(p) == proc[p] \in {"serving", "joining"}

\* However many processes the clients start at once (165), at most one of
\* them gets past the test of the name (29) and serves.
OneServer == \A p, q \in Processes : Serves(p) /\ Serves(q) => p = q

\* Two workers, and with them two users of the result file, run at a time only
\* when one of them has outlived the wait of a process that is ending (136).
OneScan ==
  \A p, q \in worker : p # q => proc[p] = "leaving" \/ proc[q] = "leaving"

\* What keeps it so: a process that serves has the name, and the worker's
\* process runs.
LaunchInv ==
  /\ TypeOK
  /\ OneServer
  /\ \A p \in Processes : Serves(p) => p \in handle
  /\ \A p \in worker : Serves(p) \/ proc[p] = "leaving"
=============================================================================
