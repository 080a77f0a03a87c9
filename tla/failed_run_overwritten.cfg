SPECIFICATION Spec
CONSTANTS
  NoRow = NoRow
  MaxRetries = 1
  MaxDeletes = 0
  MaxFaults = 0
  Configs <- BareConfigs
INVARIANTS FailedRunEndsFailed
CHECK_DEADLOCK FALSE
