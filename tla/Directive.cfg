SPECIFICATION Spec
CONSTANTS
  UserMacros <- MCUserMacros
  ReservedNames <- MCReservedNames
  ExtensionMacros <- MCExtensionMacros
  Values <- MCValues
  ShaderSpecs <- MCShaderSpecs
  Versions <- MCVersions
  MaxNesting = 3
  MaxGroups = 3
CONSTRAINT NestedOnce
INVARIANTS
  FlagsFollowHistory
  SkippingIsExclusion
  VersionHandledOnce
PROPERTIES
  ImplementsInclusion
  QuietWhenExcluded
  MacrosStable
CHECK_DEADLOCK FALSE
