SPECIFICATION Spec
CONSTANTS
  Functions <- ThreeFunctions
  Main = 2
  MaxCallStackDepth = 2
  MaxCallees = 3
INVARIANTS
  ReverseTopological
  FaultsFound
  CallDepthExact
  PruneKeepsReachable
PROPERTIES
  Terminates
CHECK_DEADLOCK FALSE
