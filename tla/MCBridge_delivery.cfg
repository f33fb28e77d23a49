SPECIFICATION Spec
CONSTANTS
  Window = 1
  MaxRetries = 2
  MaxTicks = 0
  FromEof = FALSE
  LateDelivery = TRUE
  Faults = {"io_error", "unread", "mismatch", "swapped"}
  BadLines <- AllLinesGood
  RefusedLines <- SecondTickIsRefused
  LineBound <- ThreeTicks
  SessionBound = 1
  LifeBound = 2
  FileBound = 1
  NoSend = NoSend
CHECK_DEADLOCK FALSE
INVARIANTS
  AckedIsJournaled
  DuplicateDistance
  CopiesAreAttempts
  LossesCounted
