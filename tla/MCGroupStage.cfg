SPECIFICATION FairSpec
CONSTANTS
  Team <- MCTeam
  NameOf <- MCNameOf
  GroupId <- MCGroupId
  NumberOfGroups = 2
  MaxTeamsPerGroup = 3
  RowsMove = FALSE
  Scores <- MCScores
  Corrections = FALSE
  TieToVisitor <- MCTieToVisitor
  ManualMatches = {}
  PatchWorkers = 1
  MaxFaults = 1
  Starts <- MCStarts
  EagerScoring = FALSE
  MaxScoreEvents = 1
INVARIANTS GroupStageInOrder KnockoutAfterStoredStage OneMatchPerRound
PROPERTIES GroupStageFollows RoundOf16Follows
CHECK_DEADLOCK FALSE
