\* disk_scanner.cpp:256 against a directory that cannot be entered.
SPECIFICATION Spec
CONSTANTS
  a = a
  b = b
  c = c
  e = e
  p = p
  s = s
  Names <- MCNames
  Disk <- MCDisk
  Home <- MCHome
  System <- MCSystem
  Programs <- MCPrograms
  FileLists <- MCFiles
  BarredSets <- MCBarred
  UnlistedSets <- MCNoneBarred
  RootLists <- MCRoots
  MaxPath = 5
INVARIANT
  OwnFiles
CHECK_DEADLOCK FALSE
