SPECIFICATION FairSpec
CONSTANTS
  Stall = 1
  Disconnect = 2
  Capacity = 4
  TickBound = 3
  DomBound = 2
CHECK_DEADLOCK FALSE
INVARIANTS
  PanelTellsStatus
  StaleIsExposed
PROPERTY
  SilenceIsNoticed
