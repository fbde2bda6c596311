SPECIFICATION Spec
CONSTANTS
  Text <- MCText
  Definitions <- FDefinitions
  InitialMacros <- TwoMacros
  SourceTokens <- MCTokens
  WebGL = FALSE
  kMaxContextTokens = 3
  maxMacroExpansionDepth = 1
  MaxFuel = 6
  MaxMacros = 3
INVARIANT CountedOnlyWhenInvoked
CHECK_DEADLOCK FALSE
