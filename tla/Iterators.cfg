\* A reader and a writer: keys, nodes of one and two links, blocks of up to three entries.
CONSTANTS
  None = None
  MaxHeight = 2
  RestartInterval = 2
  Keys = {1, 2, 3}
  Scenarios <- MCScenarios
SPECIFICATION Spec
INVARIANTS LevelsLinked
PROPERTIES CursorSpec
CHECK_DEADLOCK FALSE
