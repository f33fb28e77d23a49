SPECIFICATION Spec
CONSTANTS
  None = None
  Moves <- MCMoves
  Spreads <- MCSpreads
  Rates <- MCRates
  Books <- MCBooks
  Memories <- MCMemories
INVARIANTS
  DecisionIsFounded
  ExplanationFits
PROPERTIES
  TurnsThroughNoTrade
  ImplementsStream
