SPECIFICATION Spec
CONSTANTS
  t1 = t1
  t2 = t2
  Kinds = {"console", "debug", "event log"}
  Policies = {"block", "drop"}
  Threads = {t1, t2}
  Managers <- TwoManagers
  QueueLimits = {1, 2}
  MaxRecords = 2
  MaxFlushes = 1
  MayClose = TRUE
CHECK_DEADLOCK FALSE
INVARIANTS RecordsKept FlushWrites OwnersPresent
PROPERTY EventuallyDone
