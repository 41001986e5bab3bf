SPECIFICATION ServerSpec
CONSTANTS
  NConn = 2
  MaxWorkers = 2
PROPERTIES
  EveryConnectionEnds
  ShutdownCompletes
