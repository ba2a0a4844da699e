CONSTANTS
  u1 = u1
  u2 = u2
  Users = {u1, u2}
  Stopper = stopper
  None = none
  MaxRegistrations = 2
  MaxSubmits = 4
SPECIFICATION CompressionSpec
CHECK_DEADLOCK FALSE
INVARIANTS
  FilesConserved
  LeftOnlyWhileLeaving
PROPERTIES
  EventuallyCompressed
  SetStoppingReturns
