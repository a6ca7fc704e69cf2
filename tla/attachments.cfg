SPECIFICATION FairInOrder
CONSTANTS
  Spaces = {s1, s2}
  Paths = {a}
  Parents <- Entries
  Names = {n1, n2}
  Requests = {r1, r2}
  Workers = {w1, w2}
  None = None
  Old = Old
  MaxCrashes = 1
  s1 = s1
  s2 = s2
  a = a
INVARIANTS TextTruthful
PROPERTIES TextCatchesUp
CHECK_DEADLOCK FALSE
