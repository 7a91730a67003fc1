CONSTANTS
    Nodes = {n1, n2, n3, n4}
    Data = {d1, d2}
    MaxEls = {1, 3}
    NDEBUG = FALSE
    Extra = {"create", "detach_foreign"}
    NULL = NULL
    Garbage = Garbage
SPECIFICATION Spec
SYMMETRY Addresses
INVARIANTS
    OnlyCallerChecksFire
PROPERTIES
    DetachIsExact
CHECK_DEADLOCK FALSE
