SPECIFICATION ManagersSpec
CONSTANTS
  b1 = b1
  b2 = b2
  f = f
  o = o
  FileBackends = {b1, b2}
  Flusher = f
  Owner = o
  NoBackend = NoBackend
  FlushAfter = 1
  PressureRecords = 2
  MaxManagers = 2
  MaxRecords = 2
  MaxFlushes = 1
INVARIANTS
  ServedUnlessLate
  SleepsNoLonger
  NothingLeftAtEnd
PROPERTY
  EventuallyWritten
