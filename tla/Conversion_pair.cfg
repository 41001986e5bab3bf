SPECIFICATION MCSpec
CONSTANTS
  Files <- MCFiles
  Converters = {1, 2}
  MaxBuilt = 1
  MaxReplaced = 2
  MaxKilled = 1
  MaxFailed = 1
  U64Max = 1000000
  InlineMax = 32
INVARIANTS
  LayoutsAreSound
  FilesAreDecided
  ProgramsAreClosed
  TargetIsFaithful
  TargetSettles
CHECK_DEADLOCK FALSE
