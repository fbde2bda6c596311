SPECIFICATION Spec
CONSTANTS
  p1 = p1
  p2 = p2
  p3 = p3
  Page <- MCPage
  NoPage = NoPage
  Address <- MCAddress
  PageSize = 12
  PageHeaderSkip = 4
  HeaderSize = 0
  GuardSize = 0
  Alignments <- MCAlignments
  Sizes <- MCSizes
  SizeRange = 256
  MaxDepth = 3
  MaxOffset = 16
SYMMETRY Symmetry
INVARIANTS
  BlocksFit
CHECK_DEADLOCK FALSE
