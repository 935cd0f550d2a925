SPECIFICATION Spec
CONSTANTS
  Worker = {w1, w2}
  Id = {i1, i2}
  Name = {a, b}
  Entry = {e}
  MaxFaults = 1
  MaxRequests = 4
SYMMETRY Symmetry
INVARIANTS TypeOK NoOrphans SavedOrTaken AnswerNamesTeam AbsentMeansNotFound
PROPERTIES TeamsRefineDirectory TournamentsRefineDirectory
CHECK_DEADLOCK FALSE
