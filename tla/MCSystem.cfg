SPECIFICATION FairSpec
CONSTANTS
  Team <- MCTeam
  NameOf <- MCNameOf
  GroupId <- MCGroupId
  NumberOfGroups = 2
  MaxTeamsPerGroup = 3
  RowsMove = FALSE
  w1 = w1
  w2 = w2
  Worker = {w1, w2}
  Ops = {"add"}
  Registered <- MCTeam
  Payloads = {}
  SendMayFail = FALSE
  RequestsMayAbort = FALSE
  Scores <- MCScores
  Corrections = FALSE
  TieToVisitor <- MCTieToVisitor
  ManualMatches <- MCManual
  PatchWorkers = 1
  MaxFaults = 0
  Starts <- MCTwoMissing
  MaxScoreEvents = 1
  MaxTeamEvents = 3
INVARIANTS TypeOK FixturesWithinGroups
PROPERTY CompleteDrawGetsFixtures
CHECK_DEADLOCK FALSE
