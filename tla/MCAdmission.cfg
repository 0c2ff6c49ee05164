CONSTANTS
    Conns = {p, q, w}
    Slots = 1
    PendingLimit = 2
    QueueLimit = 1
    Priorities = {0}
    MaxFrames = 6
SPECIFICATION Spec
SYMMETRY ConnSymmetry
CHECK_DEADLOCK FALSE
INVARIANTS
    CountsAreExact
    RetiredIsQuiet
    ListenerIsWoken
