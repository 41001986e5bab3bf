SPECIFICATION UserSpec
CONSTANTS
  Tensors <- MCTensors
  Bytes <- MCBytes
  MaxBytes = 4
  Policy = "LRU"
  MaxLeases = 2
  Sessions <- OneSession
  Positions <- MixedPositions
  SourceFails = FALSE
  ComputeFails = FALSE
INVARIANTS
  WithinBudget
  LeasedIsResident
  FailsOnlyOnFault
PROPERTIES
  ReadsOnlyMissing
