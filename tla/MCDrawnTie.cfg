SPECIFICATION FairSpec
CONSTANTS
  Team <- MCTeam
  NameOf <- MCNameOf
  GroupId <- MCGroupId
  NumberOfGroups = 8
  MaxTeamsPerGroup = 3
  RowsMove = FALSE
  Scores <- MCDraws
  Corrections = FALSE
  TieToVisitor <- MCTieToVisitor
  ManualMatches = {}
  PatchWorkers = 1
  MaxFaults = 0
  Starts <- MCStarts
  EagerScoring = TRUE
  MaxScoreEvents = 1
PROPERTY PlayedRoundAdvances
CHECK_DEADLOCK FALSE
