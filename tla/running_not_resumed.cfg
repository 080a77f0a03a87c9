SPECIFICATION FairSpec
CONSTANTS
  NoRow = NoRow
  MaxRetries = 1
  MaxDeletes = 0
  MaxFaults = 0
  Configs <- BareConfigs
PROPERTIES RunningIsResumed
CHECK_DEADLOCK FALSE
