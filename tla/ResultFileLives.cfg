\* Lives of the process that may end anywhere.
SPECIFICATION FairSpec
CONSTANTS
  d1 = d1
  d2 = d2
  Dirs <- MCDirs
  Jumps <- MCHalfPeriod
  MaxTime = 270000
INVARIANT
  FileInv
PROPERTIES
  LoadedIsRecent
  LoadedIsOneScan
  ScansUnlessCut
