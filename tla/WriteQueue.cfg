\* Three threads: groups, memtable switches, flushes and merges of level 0.
CONSTANTS
  Threads = {t1, t2, t3}
  None = None
  MaxCalls = 3
  Scenarios <- MCScenarios
  BufferSize = 1
  SmallBatch = 1
  MaxGroup = 4
  CompactionTrigger = 1
  SlowdownTrigger = 1
  StopTrigger = 2
SPECIFICATION Spec
INVARIANTS TypeOK NoLostWakeUp VisibleRecoverable AckedSynced ManualKept
PROPERTIES StoreSpec CallsReturn
CHECK_DEADLOCK FALSE
