SPECIFICATION FairSpec
CONSTANTS
  a = a
  b = b
  Token <- MCToken
  None = None
  BadMove = BadMove
  MaxMoves = 2
  Timeout = 0
  Captures <- MCCaptures
  SubGames = 3
  MaxSteps = 2
  Liars <- MCLiars
  Tools <- MCTools
INVARIANTS
  EnginesAgree
  OneStepPerTurn
  NoncesAreJudged
PROPERTIES
  OnlyResetsStall
CHECK_DEADLOCK FALSE
