CONSTANTS
    Nodes = {n1, n2, n3, n4}
    Data = {d1, d2}
    MaxEls = {1, 3}
    NDEBUG = TRUE
    Extra = {}
    NULL = NULL
    Garbage = Garbage
SPECIFICATION Spec
SYMMETRY Addresses
INVARIANTS
    TypeOK
    WellLinked
    CallerNodesUnlinked
    NeverAborts
PROPERTIES
    ImplementsFifo
CHECK_DEADLOCK FALSE
