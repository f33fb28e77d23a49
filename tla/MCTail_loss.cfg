SPECIFICATION Spec
CONSTANTS
  Readers <- OneReader
  Owner = "validator"
  MaxBytes = 1
  LineBound = 3
  RestartBound = 0
CHECK_DEADLOCK FALSE
INVARIANT NothingIsLost
