SPECIFICATION ASpec
CONSTANTS
  None = None
  Delay = 3
  Offsets <- MCOffsets
  TradingDay <- MCDay
  Week <- MCWeek
  Month <- MCMonth
  Near = 1
  MaxStored = 10
  HistoryLimit = 2
  HistorySize = 5
  MinStop = 2
  RewardRatio = 2
  Starting = 100
  ProfitTarget = 6
  MaxDrawdown = 5
  Quotes <- MCQuotes
  Leans <- MCLeans
  StableWindow = 2
  Effects <- MCEffects
  LateBound = 1
  RestartBound = 1
INVARIANTS
  SignalsAreMeasured
  CountsAddUp
  DrawdownIsReal
CHECK_DEADLOCK FALSE
