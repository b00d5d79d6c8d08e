SPECIFICATION Spec
CONSTANTS
  GridSize = 2
  CopStart <- MCCopStart
  ThiefStart <- MCThiefStart
  MaxRepush = 1
  Scenes <- MCPlaced
  None = None
PROPERTIES
  CaughtIsAnswered
CHECK_DEADLOCK FALSE
