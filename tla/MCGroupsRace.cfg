SPECIFICATION Spec
CONSTANTS
  Team <- MCTeam
  NameOf <- MCNameOf
  GroupId <- MCGroupId
  NumberOfGroups = 2
  MaxTeamsPerGroup = 2
  RowsMove = FALSE
  w1 = w1
  w2 = w2
  Worker = {w1, w2}
  Ops <- MCAddOps
  Registered = {1, 2, 3}
  Payloads <- MCPair
  SendMayFail = TRUE
  RequestsMayAbort = FALSE
  InitialHeap <- MCOneGroup
  MaxTeamEvents = 2
INVARIANTS OvershootBounded AnnouncedTeamsStored
CHECK_DEADLOCK FALSE
