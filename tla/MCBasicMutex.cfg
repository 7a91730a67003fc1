SPECIFICATION Spec
CONSTANTS
    Threads <- TwoThreads
    Nobody = Nobody
    NDEBUG = FALSE
    Batch = 2
    Rounds = 2
INVARIANTS
    NoLostUpdate
    DestroyedLast
PROPERTY
    Finishes
