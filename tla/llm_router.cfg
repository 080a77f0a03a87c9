SPECIFICATION Spec
CONSTANTS
  Providers = {"vertex", "openai"}
  Primary = "vertex"
  Fallbacks <- MCFallbacks
  Threshold = 2
  Attempts = 2
  MaxCalls = 1
  MaxRuns = 2
  MaxUsage = 12
INVARIANTS TypeOK AttemptsBounded UsageFaithful
PROPERTIES OpenUntilTimeout CallEnds
CHECK_DEADLOCK FALSE
