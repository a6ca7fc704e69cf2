SPECIFICATION LockSpec
CONSTANTS
  Users = {u1, u2}
  NoUser = NoUser
  Calls = {r1, r2, r3}
  MaxDeaths = 1
SYMMETRY Symmetry
INVARIANTS GrantExclusive NoTtlOnlyWhileTaken ForeignLockIsNewer
PROPERTIES RevivedByOverlap LockServiceSpec
CHECK_DEADLOCK FALSE
