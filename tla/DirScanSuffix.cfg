\* disk_scanner.cpp:256 against a directory of pictures that are not .jpg.
SPECIFICATION Spec
CONSTANTS
  a = a
  b = b
  c = c
  e = e
  p = p
  s = s
  Names <- MCNames
  Disk <- MCDisk
  Home <- MCHome
  System <- MCSystem
  Programs <- MCPrograms
  FileLists <- MCFiles
  BarredSets <- MCNoneBarred
  UnlistedSets <- MCUnlisted
  RootLists <- MCRoots
  MaxPath = 5
INVARIANT
  EverySuffix
CHECK_DEADLOCK FALSE
