SPECIFICATION Spec
CONSTANTS
  Workers = {w1, w2}
  Tasks = {t1, t2, t3}
  People = {ana, ben}
  None = None
  MaxCalls = 5
SYMMETRY Symmetry
CHECK_DEADLOCK FALSE
INVARIANTS OneRow NoWrong RefusedLeavesNothing
PROPERTIES DoubledStays NothingRevived
