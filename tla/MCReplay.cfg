\* Two turns, so that a log has a first, a last and a wrong order.
SPECIFICATION ReplaySpec
CONSTANTS
  GridSize = 2
  CopStart <- MCCopStart
  ThiefStart <- MCThiefStart
  MaxMoves = 2
  Moves = {"E", "S", "W"}
  Layouts <- MCLayouts
  MaxEdits = 2
INVARIANTS
  HonestVerifies
  VerifiedIsPlayed
CHECK_DEADLOCK FALSE
