SPECIFICATION Spec
CONSTANTS
  Window = 8
  MaxRetries = 2
  MaxTicks = 0
  FromEof = TRUE
  LateDelivery = TRUE
  Faults = {"io_error", "swapped"}
  BadLines <- AllLinesGood
  RefusedLines <- AllLinesGood
  LineBound <- TwoTicks
  SessionBound = 2
  LifeBound = 2
  FileBound = 2
  NoSend = NoSend
CHECK_DEADLOCK FALSE
INVARIANTS
  KeyNamesOneLine
  LineOfferedOnce
PROPERTY
  ImplementsDelivery
