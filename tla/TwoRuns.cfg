SPECIFICATION Spec
SYMMETRY RunSymmetry
CHECK_DEADLOCK FALSE
CONSTANTS
  Runs = {r1, r2}
  MaxConcurrent = 2
  MaxIds = 2
  MaxBlocks = 2
  MaxNotices = 1
  MaxCrashes = 0
  TornWrites = FALSE
  WithTodos = FALSE
INVARIANT RunningUnmarked
