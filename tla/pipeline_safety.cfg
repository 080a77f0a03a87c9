SPECIFICATION Spec
CONSTANTS
  NoRow = NoRow
  MaxRetries = 1
  MaxDeletes = 1
  MaxFaults = 1
  Configs <- DiscoveryConfigs
INVARIANTS TypeOK NoOrphanStage VerdictMatchesStages RouteCovered AgentsRunUnderRunning HandledEndingsSettle
PROPERTIES DeletedStaysQuiet ImplementsContract
CHECK_DEADLOCK FALSE
