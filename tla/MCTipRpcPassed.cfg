CONSTANTS
    Contexts = {c1}
    CommandLimit = 2
    UpdateLimit = 2
    MaxAsks = 1
    MaxMoves = 1
    MaxConnections = 1
    MaxPushes = 0
SPECIFICATION Spec
CHECK_DEADLOCK FALSE
INVARIANT
    ConsumedIsNotPassed
