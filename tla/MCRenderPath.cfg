CONSTANTS
    Eager = FALSE
    WireLimit = 1
    MaxPublished = 2
    MaxLinks = 2
    MaxStarts = 1
SPECIFICATION FairSpec
CHECK_DEADLOCK FALSE
INVARIANTS
    Inv
PROPERTIES
    ImplementsDisplay
    LatestIsShown
    LostIsHidden
    QuitEnds
