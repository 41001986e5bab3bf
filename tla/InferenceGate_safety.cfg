SPECIFICATION Spec
CONSTANTS
  NConn = 3
  MaxWorkers = 3
INVARIANTS
  OneGeneration
  NoFifoHole
PROPERTIES
  CancelledNeverAdmitted
  FifoAdmission
