SPECIFICATION FairSpec
CONSTANTS
  NoRow = NoRow
  LastStage = 2
  MaxRetries = 1
  MaxStreams = 2
INVARIANTS TypeOK SeenInOrder SeenIsStored
PROPERTIES PollCatchesUp
CHECK_DEADLOCK FALSE
