SPECIFICATION Spec
CONSTANTS
  Team <- MCTeam
  NameOf <- MCNameOf
  GroupId <- MCGroupId
  NumberOfGroups = 2
  MaxTeamsPerGroup = 3
  RowsMove = FALSE
  Scores <- MCScores
  Corrections = FALSE
  TieToVisitor <- MCTieToVisitor
  ManualMatches = {}
  PatchWorkers = 2
  MaxFaults = 0
  Starts <- MCStarts
  EagerScoring = TRUE
  MaxScoreEvents = 2
INVARIANTS KnockoutAfterGroupStage
CHECK_DEADLOCK FALSE
