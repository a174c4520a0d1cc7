\* Two clients that may hold each other up; CreateThread succeeds.
SPECIFICATION FairSpec
CONSTANTS
  c1 = c1
  c2 = c2
  NoClient = NoClient
  Clients <- MCClients
  NumDirs = 1
  PipeCap = 1
  Requests <- MCScanOrExit
  CmdLines <- MCScan
  ThreadMayFail = FALSE
PROPERTIES
  IdleExit
  EndHeard
  Released
