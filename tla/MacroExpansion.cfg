SPECIFICATION Spec
CONSTANTS
  Text <- MCText
  Definitions <- MCDefinitions
  InitialMacros <- MCInitial
  SourceTokens <- MCTokens
  WebGL = FALSE
  kMaxContextTokens = 3
  maxMacroExpansionDepth = 1
  MaxFuel = 5
  MaxMacros = 3
INVARIANTS
  TypeOK
  ExpansionCountExact
  DisabledWhileExpanded
  InUseStaysDefined
PROPERTIES
  Terminates
CHECK_DEADLOCK FALSE
