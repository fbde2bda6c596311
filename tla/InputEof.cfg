\* The end of the input is reported only there (run input_eof).
CONSTANTS
    MaxChars = 4
    MaxSizes = {1, 2}
    IntMax = 3
    Inputs <- SmallInputs
SPECIFICATION Spec
INVARIANTS
    EofAtEnd
CHECK_DEADLOCK FALSE
