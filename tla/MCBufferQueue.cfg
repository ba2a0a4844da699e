CONSTANTS
  c1 = c1
  c2 = c2
  Callers = {c1, c2}
  Worker = w
  None = none
  BufferSize = 2
  BaseFreeLimit = 1
  MaxTotalBuffers = 3
  MaxAdaptiveFreeLimit = 2
  RecordSizes <- MCRecordSizes
  MaxAppends = 4
SPECIFICATION Spec
SYMMETRY CallersSymmetry
INVARIANTS
  BuffersConserved
  LimitRespected
  StoredOnce
  InvertedOnlyByPublish
PROPERTY
  DeliversEachRecordOnce
