SPECIFICATION RemindersSpec
CHECK_DEADLOCK FALSE
CONSTANTS
  CircuitBreakLimit = 2
  ReplanTriggerCount = 2
  ReinjectCooldown = 2
  StaleTodoThreshold = 2
  LargeChangeThreshold = 2
  MaxTurns = 3
  MaxAgentRuns = 2
  MaxBatches = 2
  MaxErrors = 1
PROPERTY RefreshedAfterRounds
