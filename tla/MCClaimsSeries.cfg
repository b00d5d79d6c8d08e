SPECIFICATION FairSpec
CONSTANTS
  SubGames = 3
  MaxSteps = 2
  MaxCopies = 2
INVARIANTS
  EvidenceIsOwn
PROPERTIES
  ReadsThisGame
  OnlyClearsStall
CHECK_DEADLOCK FALSE
