\* Three keys, four levels: snapshots, iterators, seek and manual compactions.
CONSTANTS
  None = None
  Keys = {1, 2, 3}
  MaxSequence = 99
  NumLevels = 4
  MaxMemCompactLevel = 2
  CompactionTrigger = 2
  MaxBytes <- MCMaxBytes
  GrandparentFactor = 2
  ExpansionFactor = 3
  Scenarios <- MCScenarios
SPECIFICATION Spec
INVARIANTS TypeOK LevelsDisjoint NewerAbove TablesKept ReadsKept
CHECK_DEADLOCK FALSE
