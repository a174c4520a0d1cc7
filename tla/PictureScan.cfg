SPECIFICATION Spec
CONSTANTS
  d1 = d1
  d2 = d2
  pic = pic
  quo = quo
  raw = raw
  Dirs = {d1, d2}
  Names = {pic, quo, raw}
  Suffix <- MCSuffix
  Quoted = {quo}
  Versions <- MCVersions
  Disks <- MCDisks
  Edited <- MCEdited
  ClosedSets <- MCClosed
  DELETE_INTERVAL = 1
  MaxTime = 3
  MaxEdits = 1
  MaxFaults = 1
  MaxScans = 3
  Absent = Absent
  NoRow = NoRow
  Home = Home
INVARIANTS ScanInv RecordBacked StrayNeedsTwo
PROPERTIES ScanSettles DeletesOld
CHECK_DEADLOCK FALSE
