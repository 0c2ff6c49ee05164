SPECIFICATION Spec
CONSTANTS
  Views = {v1, v2}
  Blank = Blank
  None = None
  MaxSurface = 1
  MaxRevision = 1
INVARIANT NoPanic
CHECK_DEADLOCK FALSE
