SPECIFICATION FairSpec
CONSTANTS
  GridSize = 2
  CopStart <- MCCopStart
  ThiefStart <- MCThiefStart
  MaxRepush = 1
  Scenes <- MCScenes
  None = None
INVARIANTS
  CaptureIsMeeting
  OutcomesAgreeBeforeLast
  AuditsAreJust
  MirrorNeverCloses
  BarriersBite
PROPERTIES
  EverybodyEnds
CHECK_DEADLOCK FALSE
