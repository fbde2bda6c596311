SPECIFICATION Spec
CONSTANTS
  Sizes <- MCSizes
  Reserves <- MCReserves
  DecaySpeedFactors <- MCFactors
  kMinRingBufferAllocationCapacity = 2
  kDefaultDecaySpeedFactor = 2
  kBaseOffset = 1
  MaxBuffers = 4
  MaxCapacity = 13
  MaxLive = 3
  MaxCheckPoints = 2
INVARIANTS
  LiveDisjoint
  LiveStored
  AssertionsHold
  EmptyIsReset
PROPERTIES
  ReserveKept
