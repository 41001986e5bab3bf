SPECIFICATION Spec
CONSTANTS
  Procs <- OneProcess
  NChunks = 1
  ByteBits = 2
  Window = 2
  Faults = FALSE
INVARIANTS
  StoreOpens
