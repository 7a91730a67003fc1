CONSTANTS
    Tests <- Suite
    Argcs = {1, 2, 62, 63, 64, 258}
    PipeSizes = {3, 5}
    Faults = {"setup", "exec", "wait", "io", "backtrace"}
SPECIFICATION Spec
INVARIANTS
    ReportIsTruthful
    GreenIsEarned
    PraiseIsDeserved
    CommandArrives
PROPERTIES
    ReportsOnlyGrow
    Finishes
