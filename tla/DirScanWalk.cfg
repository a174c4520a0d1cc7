\* Two walks and more over the small disk, some of its directories out of reach.
SPECIFICATION FairSpec
CONSTANTS
  a = a
  b = b
  c = c
  e = e
  p = p
  s = s
  Names <- MCNames
  Disk <- MCDisk
  Home <- MCHome
  System <- MCSystem
  Programs <- MCPrograms
  FileLists <- MCFiles
  BarredSets <- MCBarred
  UnlistedSets <- MCUnlisted
  RootLists <- MCRoots
  MaxPath = 5
INVARIANTS
  WalkInv
  FoundExactly
  NoneTwice
  PriorityFirst
  Progress
PROPERTIES
  WalkEnds
  ExitEnds
\* A finished walk stays where it is unless a fresh scan is asked for.
CHECK_DEADLOCK FALSE
