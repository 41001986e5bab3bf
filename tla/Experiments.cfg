SPECIFICATION ExperimentsSpec
CONSTANTS
  Width <- MCWidth
  LcgA = 49
  LcgB = 21
  LaneC = 53
  PosC = 55
  TensorC = 9
  A <- MCA
  B <- MCB
  C <- MCC
  K <- MCK
  LaneChoices = 3
  ByteBits = 2
  SymbolBits = 3
  Words <- MCWords
  Tensors <- MCTensors
  Codes <- MCCodes
  Cuts <- MCCuts
  Searches <- MCSearches
  Preparations <- MCPreparations
  Jobs = {1, 2}
  Scripts <- MCScripts
  Program <- Programs
  Items <- MCItems
  Versions <- OutsideVersions
  Original <- OutsideAtFirst
  Protected <- Immutable
  Campaigns <- MCCampaigns
INVARIANTS
  RoundsAreExact
  CorrectionIsExact
  SearchesAreOptimal
  PreparedIsEquivalent
  OneRunPerDirectory
  DerivesFromPinned
  ClaimHasTables
  SelectionIsBlind
PROPERTIES
  EvidenceIsKept
CHECK_DEADLOCK FALSE
