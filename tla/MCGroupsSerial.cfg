SPECIFICATION Spec
CONSTANTS
  Team <- MCTeam
  NameOf <- MCNameOf
  GroupId <- MCGroupId
  NumberOfGroups = 2
  MaxTeamsPerGroup = 2
  RowsMove = TRUE
  w1 = w1
  w2 = w2
  Worker = {w1}
  Ops <- MCAllOps
  Registered <- MCRegistered
  Payloads <- MCPayloads
  SendMayFail = TRUE
  RequestsMayAbort = TRUE
  InitialHeap <- MCInitialHeap
  MaxTeamEvents = 2
INVARIANTS TypeOK OneGroupPerTeam CapacityRespected
PROPERTY TeamsStay
CHECK_DEADLOCK FALSE
