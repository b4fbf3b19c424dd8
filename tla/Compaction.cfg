SPECIFICATION MCSpec
SYMMETRY SessionSymmetry
CHECK_DEADLOCK FALSE
CONSTANTS
  Sessions = {s1, s2}
  KeepMin = 1
  Outputs <- SomeOutputs
  Contexts = {20000, 150000}
  AggregateThreshold = 46000
  MaxItems = 4
  MaxBatch = 2
  MaxCompactions = 2
  MaxSwitches = 1
INVARIANTS NothingForgotten SessionsApart CutBetweenPairs ResultsReadable
