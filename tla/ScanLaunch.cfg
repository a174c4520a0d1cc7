SPECIFICATION Spec
CONSTANTS
  c1 = c1
  c2 = c2
  p1 = p1
  p2 = p2
  p3 = p3
  Clients = {c1, c2}
  Processes = {p1, p2, p3}
  Nobody = Nobody
INVARIANTS LaunchInv OneServer OneScan
CHECK_DEADLOCK FALSE
