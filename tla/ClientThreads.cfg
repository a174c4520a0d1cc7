SPECIFICATION Spec
CONSTANTS
  p1 = p1
  p2 = p2
  f1 = f1
  f2 = f2
  Paths = {p1, p2}
  Files = {f1, f2}
  Quoted = {p2}
  Nobody = Nobody
  MaxCalls = 2
  MaxFailures = 1
  CallLists <- MCCallLists
  Found = {p1, p2}
  Asked = {p1, p2}
  Recorded = {f1, f2}
  Stored <- MCStored
INVARIANTS ClientInv StoreInv LockOrder PathExclusive FilesOverlap SuccessIsMonitored
PROPERTIES StoresWhole  FinishAdds
CHECK_DEADLOCK FALSE
