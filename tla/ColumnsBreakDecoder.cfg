SPECIFICATION Spec
CONSTANTS
  Null = Null
  Kinds = {"LOGS"}
  Rows <- MCRows
  Sizes <- MCSizes
CHECK_DEADLOCK FALSE
INVARIANT NeverPanics
