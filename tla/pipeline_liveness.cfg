SPECIFICATION FairSpec
CONSTANTS
  NoRow = NoRow
  MaxRetries = 1
  MaxDeletes = 1
  MaxFaults = 0
  Configs <- BareConfigs
PROPERTIES TaskSettles DeleteReturns
CHECK_DEADLOCK FALSE
