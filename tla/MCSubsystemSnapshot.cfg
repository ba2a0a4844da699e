CONSTANTS
  r1 = r1
  r2 = r2
  w1 = w1
  w2 = w2
  s = s
  lo = lo
  hi = hi
  Readers = {r1, r2}
  Writers = {w1, w2}
  None = none
  Subsystems = {s}
  Levels = {lo, hi}
  SnapshotLimit = 1
  MaxUpdates = 3
SPECIFICATION Spec
INVARIANTS
  NoUseAfterReclaim
  SnapshotsBounded
PROPERTIES
  ImplementsLevelTable
  ChangesEnd
