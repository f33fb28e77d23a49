SPECIFICATION FairSpec
CONSTANTS
  Window = 8
  MaxRetries = 2
  MaxTicks = 2
  FromEof = FALSE
  LateDelivery = FALSE
  Faults = {"io_error", "stop"}
  BadLines <- SecondTickIsBad
  RefusedLines <- ThirdTickIsRefused
  LineBound <- ThreeTicksOneDom
  SessionBound = 1
  LifeBound = 1
  FileBound = 1
  NoSend = NoSend
CHECK_DEADLOCK FALSE
INVARIANTS
  OrderPreserved
PROPERTY
  EveryLineSettles
