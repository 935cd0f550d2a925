SPECIFICATION FairSpec
CONSTANTS
  Listener = {teamAdd, scoreRecorded}
  ScoreListener = {scoreRecorded}
  MaxMessages = 2
  MaxFaults = 3
INVARIANTS TypeOK SessionsWithinConnection
PROPERTY ServedUnlessDead
CHECK_DEADLOCK FALSE
