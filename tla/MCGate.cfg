SPECIFICATION FairSpec
CONSTANTS
  a = a
  b = b
  Token <- MCToken
  None = None
  Unopenable = Unopenable
  BadMove = BadMove
  Stranger = Stranger
  MaxMoves = 2
  Timeout = 1
  Turns <- MCTurns
  Captures <- MCCaptures
INVARIANTS
  NoRevealBeforeBoth
  OneStory
  BlameFollowsPhase
PROPERTIES
  OutcomeStands
  StallSettles
  ImplementsSimultaneousTurns
