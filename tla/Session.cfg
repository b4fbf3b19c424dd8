SPECIFICATION MCSpec
SYMMETRY RunSymmetry
CHECK_DEADLOCK FALSE
CONSTANTS
  Runs = {r1, r2}
  MaxConcurrent = 2
  MaxIds = 3
  MaxBlocks = 3
  MaxNotices = 1
  MaxCrashes = 2
  TornWrites = TRUE
  WithTodos = TRUE
INVARIANTS FileFollowsMemory PlaceholdersTellTruth DurableUncut StoredOnce
PROPERTIES RequestWellFormed NothingRepairedAway OnlyLastLineChanges
