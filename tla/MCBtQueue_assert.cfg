CONSTANTS
    Nodes = {n1, n2}
    Data = {d1, d2}
    MaxEls = {1}
    NDEBUG = FALSE
    Extra = {}
    NULL = NULL
    Garbage = Garbage
SPECIFICATION Spec
INVARIANT EmptyQueueAssertionHolds
CHECK_DEADLOCK FALSE
