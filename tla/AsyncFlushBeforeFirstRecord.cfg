CONSTANTS
  c1 = c1
  c2 = c2
  Callers = {c1, c2}
  Manager = m
  None = none
  Scenarios <- FlushUnregistered
  FlushAfter = 2
  ScheduledRunGap = 1
  BufferSize = 1
  MaxTotalBuffers = 3
  PressureBuffers = 3
  MaxWriteLoops = 2
  MaxAppends <- One
SPECIFICATION Spec
PROPERTY
  FlushReturnsEventually
