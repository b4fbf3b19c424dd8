SPECIFICATION Spec
CHECK_DEADLOCK FALSE
CONSTANTS
  Tasks = {t1, t2}
  RunIds = {r1, r2}
  Workers = 2
  MaxTraces = 1
  MaxAttempts = 2
SYMMETRY Symmetry
INVARIANTS CountedOnce VerdictsTrue DiffTells
