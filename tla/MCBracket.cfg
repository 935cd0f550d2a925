SPECIFICATION FairSpec
CONSTANTS
  Team <- MCTeam
  NameOf <- MCNameOf
  GroupId <- MCGroupId
  NumberOfGroups = 8
  MaxTeamsPerGroup = 3
  RowsMove = FALSE
  Scores <- MCScores
  Corrections = FALSE
  TieToVisitor <- MCTieToVisitor
  ManualMatches = {}
  PatchWorkers = 1
  MaxFaults = 1
  Starts <- MCStarts
  EagerScoring = TRUE
  MaxScoreEvents = 1
INVARIANTS TypeOK RecordedWinnersAdvance
PROPERTIES RefinesCup NextRoundFollows
CHECK_DEADLOCK FALSE
