SPECIFICATION MCSpec
CHECK_DEADLOCK FALSE
CONSTANTS
  MaxTasks = 2
  MaxActs = 3
INVARIANTS StatusTrue WorkIsReported
PROPERTIES DeliversAsPromised EndIsTold
