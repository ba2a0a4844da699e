SPECIFICATION Spec
CONSTANTS
  Scenarios <- OneThreadCompletes
  MaxSize = 1
  MaximalSize = 2
  MaxRecords = 4
  MaxTime = 2
  MaxIndex = 5
  MaxFailures = 1
  MaxCrashes = 1
  MaxMonitors = 1
CHECK_DEADLOCK FALSE
INVARIANTS RecordsKept KeepsOpen ArchivesInOrder
PROPERTY RetainsNewest
