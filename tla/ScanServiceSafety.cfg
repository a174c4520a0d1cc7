\* Two interchangeable clients, every request and every command line.
SPECIFICATION Spec
CONSTANTS
  c1 = c1
  c2 = c2
  NoClient = NoClient
  Clients <- MCClients
  NumDirs = 2
  PipeCap = 1
  Requests <- MCAllRequests
  CmdLines <- MCAllRequests
  ThreadMayFail = TRUE
SYMMETRY MCSymmetry
INVARIANTS
  TypeOK
  EndIsLast
  PipesSound
  SilentExit
  WorkerExclusive
  FreedAfterJoin
  ScanningBacked
  IInv
PROPERTY
  AnswersSessions
