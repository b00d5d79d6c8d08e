\* Two sub-games: each side once, and level points both reachable.
SPECIFICATION Spec
CONSTANTS
  SubGames = 2
  Scoring <- MCScoring
  TieScore = 2
  MaxRetries = 1
  Reporters = {"A"}
  MaxReports = 2
INVARIANTS
  SettlesTheTruth
  ConfirmedOnEvidence
  OnlyLossMisleads
CHECK_DEADLOCK FALSE
