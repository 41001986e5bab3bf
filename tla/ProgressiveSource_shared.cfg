SPECIFICATION Spec
CONSTANTS
  Procs <- TwoProcesses
  NChunks = 3
  ByteBits = 2
  Window = 2
  Faults = TRUE
INVARIANTS
  CoveredIsWritten
  ReadsAreWhole
