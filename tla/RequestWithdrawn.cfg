\* A writer finds a background error while the background thread serves a manual request.
CONSTANTS
  Threads = {t1, t2, t3}
  None = None
  MaxCalls = 3
  Scenarios <- FailingBesideRange
  BufferSize = 1
  SmallBatch = 1
  MaxGroup = 4
  CompactionTrigger = 1
  SlowdownTrigger = 1
  StopTrigger = 2
SPECIFICATION Spec
INVARIANTS ManualAlwaysThere
CHECK_DEADLOCK FALSE
