SPECIFICATION RSpec
CONSTANTS
  None = None
  Prices <- MCPrices
  Strengths <- MCStrengths
  Times <- MCTimes
  MicroProminence = 4
  MajorProminence = 12
  Inherited <- MCInherited
  MaxBars = 8
  MaxSwings = 3
  Quotes <- MCQuotes
  JoinBound = 1
  RestartBound = 0
  Remnants = {}
  RewindBound = 0
  CycleLimit = 8
  MinCycles = 1
INVARIANTS
  ReplayJudgesTheFrame
CHECK_DEADLOCK FALSE
