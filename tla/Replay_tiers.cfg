SPECIFICATION ReplaySpec
CONSTANTS
  Tensors <- MCTensors
  Bytes <- MCBytes
  MaxBytes = 2
  Policy = "LRU"
  MaxLeases = 1
  Class <- MCClass
  MaxRequests = 4
  MaxHeld = 3
  HotCapacity = 2
  WarmCapacity = 2
INVARIANT TiersAreTheirOwn
CHECK_DEADLOCK FALSE
