SPECIFICATION ServerSpec
CONSTANTS
  Users = {ana, ben}
  Absent = Absent
  Sockets = {s1, s2, s3}
  Schemas = {"post"}
  Acts = {"create", "update"}
  Subpaths <- MCSubpaths
  Wanted <- MCWanted
  Posts = {b1}
  MaxAsks = 4
SYMMETRY Symmetry
CHECK_DEADLOCK FALSE
INVARIANTS Delivered Reachable
