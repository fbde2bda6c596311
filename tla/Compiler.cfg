\* Any number of compilations of small shaders (run compile).
CONSTANTS
    x = x
    f = f
    f_void = f_void
    Name = {x, f}
    Signature = {f_void}
    nameOf <- OneFunction
    NoSymbol = NoSymbol
    NoName = NoName
    NoFunction = NoFunction
    Precision = {"mediump", "highp"}
    NoPrecision = "none"
    BuiltInPrecision = "mediump"
    IsWebGL = FALSE
    MaxId = 3
    MaxNesting = 3
SPECIFICATION Spec
INVARIANTS
    ContextIsLexical
    DuplicatesRejected
    CompilationsIndependent
