CONSTANTS
    Contexts = {c1, c2}
    CommandLimit = 2
    UpdateLimit = 2
    MaxAsks = 2
    MaxMoves = 1
    MaxConnections = 2
    MaxPushes = 1
SPECIFICATION Spec
SYMMETRY ContextSymmetry
CHECK_DEADLOCK FALSE
INVARIANTS
    Inv
    AbandonedIsSilent
    RepliesAreRouted
PROPERTIES
    OncePerPress
