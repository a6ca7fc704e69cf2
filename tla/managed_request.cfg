CONSTANTS
  a = a
  b = b
  c = c
  c1 = c1
  c2 = c2
  alice = alice
  bob = bob
  none = none
  Paths = {a, b, c}
  Unique <- InFolder
  Codes = {c1, c2}
  People = {alice, bob}
  None = none
  May <- Rights
  Batches <- Sent
  Requests = {r1, r2}
  MaxCrashes = 1
SPECIFICATION MCSpec
INVARIANTS CodesUnique AnswerTrue OwnerStays
CHECK_DEADLOCK FALSE
