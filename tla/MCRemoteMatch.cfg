SPECIFICATION FairSpec
CONSTANTS
  a = a
  b = b
  Token <- MCToken
  None = None
  Unopenable = Unopenable
  BadMove = BadMove
  Stranger = Stranger
  MaxMoves = 2
  Timeout = 1
  Turns <- MCTurns
  Captures <- MCCaptures
  MaxLost = 1
INVARIANTS
  NeverOutOfStep
  RecordsTrue
PROPERTIES
  EverybodyEnds
  ImplementsOneGame
CHECK_DEADLOCK FALSE
