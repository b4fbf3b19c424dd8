SPECIFICATION Spec
CHECK_DEADLOCK FALSE
CONSTANTS
  MaxIterations = 2
  TransientRetryMax = 3
  TruncateLimit = 2
  CompactFailureLimit = 3
  HasContextManager = TRUE
  MaxRuns = 1
  MaxCalls = 2
  MaxManual = 1
INVARIANT CompletedIsComplete
