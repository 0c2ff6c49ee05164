CONSTANTS
  c1 = c1
  c2 = c2
  p1 = p1
  None = None
  Contexts = {c1, c2}
  Processes = {p1}
  HostOf <- Together
  GlobalMode = TRUE
  Reasons = {"switch"}
  Acts = {"cancel", "terminated", "submit", "toggle"}
  MaxMoves = 4
  MaxBirths = 2
  MaxEpoch = 2
SPECIFICATION Spec
SYMMETRY Symmetry
CHECK_DEADLOCK FALSE
INVARIANTS
    Inv
    IndicatorTellsTheMode
    ImportanceIsTrue
PROPERTIES
    ClickMeansWhatWasSeen
    OwnMeasureEndsWait
