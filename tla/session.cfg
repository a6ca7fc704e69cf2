SPECIFICATION Spec
CONSTANTS
  Users = {"ana", "ben"}
  Slots = {s1, s2}
  None = None
  Mixes <- MCMixes
  MaxFailed = 2
  MaxInvites = 1
  MaxRequests = 4
  MaxFaults = 1
SYMMETRY Symmetry
INVARIANTS EndedStaysEnded LockoutHolds AttemptsFair PushHome PushEndsWithSession
CHECK_DEADLOCK FALSE
