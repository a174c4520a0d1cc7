\* disk_scan_process.cpp:109 against the abandoned read.
SPECIFICATION FairSpec
CONSTANTS
  c1 = c1
  c2 = c2
  NoClient = NoClient
  Clients <- MCOneClient
  NumDirs = 1
  PipeCap = 1
  Requests <- MCScanOrExit
  CmdLines <- MCScan
  ThreadMayFail = FALSE
PROPERTY
  KeptWaiting
