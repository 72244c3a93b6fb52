SPECIFICATION UpkeepFairSpec
CONSTANTS
  Tabs = {"tab"}
  First = 1
  Latest = 2
  MaxMoves = 3
INVARIANTS TellsTheTruth OwnLog
PROPERTIES PageCatchesUp DigestGoesOut
CHECK_DEADLOCK FALSE
