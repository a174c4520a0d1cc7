SPECIFICATION Spec
CONSTANTS
  d1 = d1
  d2 = d2
  pic = pic
  quo = quo
  raw = raw
  Dirs = {d1, d2}
  Names = {pic, quo, raw}
  Suffix <- MCSuffix
  Quoted = {quo}
  Versions <- MCVersions
  Disks <- MCDisks
  Edited <- MCEdited
  ClosedSets <- MCClosed
  DELETE_INTERVAL = 1
  MaxTime = 3
  MaxEdits = 0
  MaxFaults = 0
  MaxScans = 3
  Absent = Absent
  NoRow = NoRow
  Home = Home
PROPERTY SameFileKept
CHECK_DEADLOCK FALSE
