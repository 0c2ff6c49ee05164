CONSTANTS
  c1 = c1
  c2 = c2
  p1 = p1
  None = None
  Contexts = {c1}
  Processes = {p1}
  HostOf <- Together
  GlobalMode = TRUE
  Acts = {}
  Reasons = {}
  MaxMoves = 6
  MaxBirths = 2
  MaxEpoch = 1
SPECIFICATION Spec
CHECK_DEADLOCK FALSE
INVARIANTS
    GeometryIsOwn
