SPECIFICATION FairSharedSpec
CONSTANTS
  Tensors <- MCTensors
  Bytes <- MCBytes
  MaxBytes = 2
  Policy = "CostAware"
  MaxLeases = 2
  Sessions <- TwoSessions
  Positions <- LayerPositions
  SourceFails = TRUE
  ComputeFails = TRUE
INVARIANTS
  LeaseAccounting
  InUseIsHeld
PROPERTIES
  PositionEnds
