\* Every reading of the small shaders (run input_read).
CONSTANTS
    MaxChars = 5
    MaxSizes = {1, 2}
    IntMax = 2
    Inputs <- SmallInputs
SPECIFICATION Spec
INVARIANTS
    SplicedExactly
PROPERTIES
    EveryCallAdvances
CHECK_DEADLOCK FALSE
