SPECIFICATION FairSpec
CONSTANTS
  Callers <- MCCallers
  Tensors <- MCTensors
  Bytes <- MCBytes
  Budgets <- MCBudgets
  HasFallback = TRUE
  MaxCalls = 3
INVARIANTS
  BytesExact
  RecordOutlivesRead
  RecordOutlivesWait
PROPERTIES
  CallsReturn
  ImplementsLifecycle
