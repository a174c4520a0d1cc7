-------------------------- MODULE ScanLaunchProofs --------------------------
(***************************************************************************)
(* For any number of clients and processes: one scan process serves.       *)
(***************************************************************************)
EXTENDS ScanLaunch, TLAPS

\* Nothing runs and nobody has the name at the start.
LEMMA LaunchInit == Init => LaunchInv
BY LaunchAssumption DEF Init, LaunchInv, TypeOK, OneServer, Serves

\* The steps of a client leave the mutex and the workers alone.
LEMMA LaunchClient ==
  ASSUME LaunchInv, NEW c \in Clients, Client(c)
  PROVE  LaunchInv'
<1> USE LaunchAssumption DEF LaunchInv, TypeOK, OneServer, Serves
<1>1. CASE Connect(c) BY <1>1 DEF Connect
<1>2. CASE Launch(c)  BY <1>2 DEF Launch
<1>3. CASE Busy(c)    BY <1>3 DEF Busy
<1>4. CASE Retry(c)   BY <1>4 DEF Retry
<1>5. CASE Leave(c)   BY <1>5 DEF Leave
<1>6. QED BY <1>1, <1>2, <1>3, <1>4, <1>5 DEF Client

LEMMA LaunchProcess ==
  ASSUME LaunchInv, NEW p \in Processes, Process(p)
  PROVE  LaunchInv'
<1> USE LaunchAssumption DEF LaunchInv, TypeOK, OneServer, Serves
<1>1. CASE CreateMutex(p)
  <2>1. CASE handle = {} BY <1>1, <2>1 DEF CreateMutex
  <2>2. CASE handle # {} BY <1>1, <2>2 DEF CreateMutex
  <2>3. QED BY <2>1, <2>2
<1>2. CASE CreateNamedPipe(p) BY <1>2 DEF CreateNamedPipe
<1>3. CASE ConnectTimeout(p)  BY <1>3 DEF ConnectTimeout
<1>4. CASE HandleRequest(p)   BY <1>4 DEF HandleRequest
<1>5. CASE WorkerEnds(p)      BY <1>5 DEF WorkerEnds
<1>6. CASE Join(p)            BY <1>6 DEF Join
<1>7. CASE CloseName(p)       BY <1>7 DEF CloseName
<1>8. CASE EndProcess(p)      BY <1>8 DEF EndProcess
<1>9. CASE ClosePipe(p)       BY <1>9 DEF ClosePipe
<1>10. QED BY <1>1, <1>2, <1>3, <1>4, <1>5, <1>6, <1>7, <1>8, <1>9 DEF Process

\* A process that serves has the name from the test of it to the end of the
\* wait for its worker (28-143).
THEOREM LaunchInvariance == Spec => []LaunchInv
<1>1. LaunchInv /\ [Next]_vars => LaunchInv'
  <2> SUFFICES ASSUME LaunchInv, [Next]_vars PROVE LaunchInv'
    OBVIOUS
  <2>1. ASSUME NEW c \in Clients, Client(c) PROVE LaunchInv'
    BY <2>1, LaunchClient
  <2>2. ASSUME NEW p \in Processes, Process(p) PROVE LaunchInv'
    BY <2>2, LaunchProcess
  <2>3. CASE UNCHANGED vars
    BY <2>3 DEF vars, LaunchInv, TypeOK, OneServer, Serves
  <2>4. QED BY <2>1, <2>2, <2>3 DEF Next
<1>2. QED BY LaunchInit, <1>1, PTL DEF Spec

\* At most one process gets past the test of the name and serves (29).
THEOREM OneServerHolds == Spec => []OneServer
BY LaunchInvariance, PTL DEF LaunchInv

\* Two workers run at a time only when one has outlived the wait for it (136).
THEOREM OneScanHolds == Spec => []OneScan
<1>1. LaunchInv => OneScan
  BY DEF LaunchInv, TypeOK, OneServer, OneScan
<1>2. QED BY LaunchInvariance, <1>1, PTL
=============================================================================
