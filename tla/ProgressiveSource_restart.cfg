SPECIFICATION FairSpec
CONSTANTS
  Procs <- OneProcess
  NChunks = 5
  ByteBits = 2
  Window = 2
  Faults = TRUE
INVARIANTS
  FetchesAreMissingRuns
PROPERTIES
  ReadReturns
  PublishedStays
