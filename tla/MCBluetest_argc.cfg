CONSTANTS
    Tests <- Suite
    Argcs = {62, 63}
    PipeSizes = {5}
    Faults = {}
SPECIFICATION Spec
INVARIANT AllowedArgcArrives
