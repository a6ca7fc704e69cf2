SPECIFICATION Spec
CONSTANTS
  Users = {"ana", "ben"}
  Groups = {"staff"}
  Roles = {"admin", "logged_in"}
  Perms = {"edit", "world"}
  None = None
  Contents <- MCContents
  PageSize = 1
  Slots = {s1, s2}
  MaxChanges = 2
  MaxChecks = 2
  Refusable = {"ana"}
SYMMETRY Symmetry
CHECK_DEADLOCK FALSE
INVARIANTS CacheFresh DocCurrent
