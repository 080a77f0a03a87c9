SPECIFICATION Spec
CONSTANTS
  NoRow = NoRow
  LastStage = 2
  MaxRetries = 0
  MaxStreams = 1
INVARIANTS CompletedMeansOver
CHECK_DEADLOCK FALSE
