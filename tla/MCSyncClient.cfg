SPECIFICATION Spec
CONSTANTS
    Threads = {t1, t2}
    Nobody = Nobody
    NDEBUG = FALSE
    Second = 3
    MaxTime = 7
    RelTimes = {0, 1}
CHECK_DEADLOCK FALSE
SYMMETRY Callers
INVARIANTS
    FaultsBlameTheCaller
PROPERTY
    LessThanASecondEarly
