SPECIFICATION LSpec
CONSTANTS
  None = None
  Prices <- MCPrices
  Strengths <- MCStrengths
  Times <- MCTimes
  MicroProminence = 4
  MajorProminence = 12
  Inherited <- MCInherited
  MaxBars = 8
  MaxSwings = 3
  Quotes <- MCQuotes
  JoinBound = 1
  RestartBound = 1
  Remnants = {1}
  RewindBound = 1
INVARIANTS
  ListedAreRegistered
  CheckpointIsCurrent
  ParentsAreNearest
  ObjectiveIsNearest
  ChainIsCoherent
  LogNamesTheObjective
PROPERTIES
  StructureIsPermanent
  ExpiresOnce
CHECK_DEADLOCK FALSE
