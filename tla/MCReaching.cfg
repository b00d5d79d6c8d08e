SPECIFICATION FairSpec
CONSTANTS
  u1 = u1
  u2 = u2
  agreed = agreed
  other = other
  Absent = Absent
  Url <- MCUrl
  Terms <- MCTerms
  Servers <- MCServers
  Ours = agreed
  SubGames = 3
  Steps = 2
  Attempts = 1
  OpenTries = 2
  MaxRetries = 1
  MaxPolls = 1
INVARIANTS
  OneSeries
  NothingSkipped
  PlaysOnlyAgreed
PROPERTIES
  RunEnds
CHECK_DEADLOCK FALSE
