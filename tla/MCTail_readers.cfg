SPECIFICATION FairSpec
CONSTANTS
  Readers <- TwoReaders
  Owner = "validator"
  MaxBytes = 1
  LineBound = 3
  RestartBound = 1
CHECK_DEADLOCK FALSE
INVARIANTS
  OwnerInOrder
  TrimIsExposed
PROPERTY
  LineIsPassed
