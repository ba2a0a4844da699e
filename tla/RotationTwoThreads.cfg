SPECIFICATION Spec
CONSTANTS
  Scenarios <- BothThreadsComplete
  MaxSize = 1
  MaximalSize = 2
  MaxRecords = 4
  MaxTime = 2
  MaxIndex = 5
  MaxFailures = 0
  MaxCrashes = 0
  MaxMonitors = 0
CHECK_DEADLOCK FALSE
PROPERTY NoCollision
