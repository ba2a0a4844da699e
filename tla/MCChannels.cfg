CONSTANTS
  t1 = t1
  t2 = t2
  Threads = {t1, t2}
  None = none
  Names = {"app", "err"}
  ErrorChannel = "err"
  Operations = {"add", "remove", "enabled", "link", "unlink", "autodelete", "delete"}
  SmallCapacity = 1
  MaxChannels = 3
  MaxLogs = 2
  MaxOperations = 1
SPECIFICATION Spec
SYMMETRY ThreadsSymmetry
INVARIANTS
  TypeOK
  WrittenOnce
  FatalFlushed
  NothingLeft
