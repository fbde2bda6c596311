SPECIFICATION QueueSpec
CONSTANTS
  Values = {a, b}
  Capacities <- UpToThree
  SizeMax = 6
INVARIANTS
  AssertionsHold
  NoSlotRace
PROPERTIES
  ImplementsFifo
