SPECIFICATION FairInOrder
CONSTANTS
  Paths = {p1, p2}
  Requests = {r1, r2}
  None = None
  Old = Old
  Empty = Empty
  MaxCrashes = 1
  MaxRebuilds = 1
INVARIANTS IndexTruthful
PROPERTIES ChangesGetIndexed
CHECK_DEADLOCK FALSE
