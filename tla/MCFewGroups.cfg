SPECIFICATION Spec
CONSTANTS
  Team <- MCTeam
  NameOf <- MCNameOf
  GroupId <- MCGroupId
  NumberOfGroups = 2
  MaxTeamsPerGroup = 3
  RowsMove = FALSE
  Scores <- MCScores
  Corrections = FALSE
  TieToVisitor <- MCTieToVisitor
  ManualMatches = {}
  PatchWorkers = 2
  MaxFaults = 0
  Starts <- MCPlayedStarts
  EagerScoring = TRUE
  MaxScoreEvents = 2
INVARIANTS NoReadPastWinners
CHECK_DEADLOCK FALSE
