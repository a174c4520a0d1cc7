\* disk_scan_process.cpp:228 against a process that ends while it saves.
SPECIFICATION FairSpec
CONSTANTS
  d1 = d1
  d2 = d2
  Dirs <- MCDirs
  Jumps <- MCHalfPeriod
  MaxTime = 270000
PROPERTY
  ScansUnlessValid
