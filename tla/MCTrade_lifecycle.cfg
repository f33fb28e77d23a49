SPECIFICATION FairSpec
CONSTANTS
  Prices <- ThreePrices
  Risks <- OneRisk
  RewardRatio = 2
  StableWindow = 3
  MaxStored = 1
  SignalBound = 2
  LifeBound = 2
  NoPrice = NoPrice
CHECK_DEADLOCK FALSE
INVARIANTS
  OneOpenPlan
  OpenPlanInsideBand
  BookedOnce
  SignalsAreAnswered
PROPERTIES
  ImplementsLedger
  ClosedIsBooked
