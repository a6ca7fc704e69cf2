CONSTANTS
  n1 = n1
  n2 = n2
  None = None
  Notes = {n1, n2}
  People = {u1, u2}
  PushOnly <- Push
  Requests <- Asks
  Runs = {c1, c2}
  Edits = {e1}
  MaxFaults = 1
  MaxRemovals = 1
SPECIFICATION Spec
SYMMETRY Symmetry
INVARIANTS ToldOnce MarkedWhenTold NotForgotten
CHECK_DEADLOCK FALSE
