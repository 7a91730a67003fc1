CONSTANTS
    Tests <- Suite
    Argcs = {2}
    PipeSizes = {5}
    Faults = {"exec"}
SPECIFICATION Spec
INVARIANT AllGreen
