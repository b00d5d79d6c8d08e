SPECIFICATION FairSpec
CONSTANTS
  GridSize = 3
  CopStart <- MCCopStart
  ThiefStart <- MCThiefStart
  MaxBarriers = 2
  MaxMoves = 4
  MaxAttempts = 3
  Seeds <- MCSeeds
  NoSeed = NoSeed
  Sample <- MCSample
INVARIANTS
  FairGame
  SameBoard
PROPERTIES
  RejectsOnlyWalled
  CapturedIffMet
  SetupEnds
CHECK_DEADLOCK FALSE
