\* A sub-game of four steps and most of a second one.
SPECIFICATION MCSpec
CONSTANTS
  GridSize = 3
  OurStart <- MCOurStart
  TheirStart <- MCTheirStart
  Layouts <- MCLayouts
  Centre = 9
  Decay = 1
  Radius = 2
  Keep = 9
  Whole = 10
  MaxStay = 3
  Steps = 5
  MaxTime = 6
  Off <- MCOff
  Placeable <- MCPlaceable
INVARIANTS
  ReadsWhereTheyStand
  PursuitArrives
PROPERTIES
  FreezesOnlyByBumping
CHECK_DEADLOCK FALSE
