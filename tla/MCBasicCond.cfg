SPECIFICATION Spec
CONSTANTS
    Threads <- TwoThreads
    Nobody = Nobody
    NDEBUG = FALSE
    M = 2
    MaxSpurious = 2
INVARIANTS
    TurnsAreExact
    NoMissedSignal
    NothingLeft
PROPERTY
    Finishes
