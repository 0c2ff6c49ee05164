CONSTANTS
  None = None
  Dpis = {96, 144}
  Snapshots = {v1, v2}
  Blank = Blank
  MaxSurface = 1
  MaxGeneration = 1
  Scales = {s1, s2}
  MaxMade = 3
  Quota = 2
  MaxLayer = 2
  DrawingRetries = 2
  DrawingFaults = 2
  AbcContents = 2
  AbcFailures = 1
  AbcRetries = 1
  TenContents = 2
  TenFailures = 1
  TenRetries = 0
  ElevenContents = 2
  ElevenFailures = 1
SPECIFICATION MCSpec
SYMMETRY Symmetry
CHECK_DEADLOCK FALSE
INVARIANTS
  HostInv
  AbcInv
  PicturesInv
  LossIsRepaired
PROPERTIES
  FirstFrameIsNew
