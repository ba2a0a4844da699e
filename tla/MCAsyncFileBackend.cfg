CONSTANTS
  c1 = c1
  c2 = c2
  Callers = {c1, c2}
  Manager = m
  None = none
  Scenarios <- FlushAndOrFreeze
  FlushAfter = 1
  ScheduledRunGap = 0
  BufferSize = 2
  MaxTotalBuffers = 3
  PressureBuffers = 3
  MaxWriteLoops = 2
  MaxAppends <- UpToThree
SPECIFICATION Spec
INVARIANTS
  QueuedExact
  NoLostWakeup
PROPERTIES
  EventuallyWritten
  FlushReturnsEventually
  FreezeIsAnswered
