SPECIFICATION Spec
CONSTANTS
  t1 = t1
  t2 = t2
  s1 = s1
  s2 = s2
  a1 = a1
  Threads = {t1, t2}
  CallSites = {s1, s2}
  Addresses = {a1}
  SlotCount = 1
  MaxRecords = 2
  MaxCommands = 3
  MaxChannels = 2
CHECK_DEADLOCK FALSE
INVARIANT CountedOnce
PROPERTIES ReportExact CommandsReturn
