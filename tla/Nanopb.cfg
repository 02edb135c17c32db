SPECIFICATION Spec
CONSTANTS
  Types <- MCTypes
  Cases <- MCCases
INVARIANTS
  GotAsSent
  NothingRefused
CHECK_DEADLOCK FALSE
