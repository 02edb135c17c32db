\* One key, one snapshot: a merge cuts its output between the two entries of the key.
CONSTANTS
  None = None
  Keys = {1, 2, 3}
  MaxSequence = 99
  NumLevels = 4
  MaxMemCompactLevel = 2
  CompactionTrigger = 2
  MaxBytes <- MCMaxBytes
  GrandparentFactor = 2
  ExpansionFactor = 3
  Scenarios <- SplitKeys
SPECIFICATION Spec
INVARIANTS NewerAbove
CHECK_DEADLOCK FALSE
