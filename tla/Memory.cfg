SPECIFICATION Spec
SYMMETRY MemorySymmetry
CHECK_DEADLOCK FALSE
CONSTANTS
  Procs = {p1, p2}
  Names = {n1, n2}
  Texts = {t1}
  MaxLines = 1
  MaxEvents = 4
INVARIANTS NoteIndexed OneConsolidation
PROPERTIES CreateKeepsOwn DayApart
