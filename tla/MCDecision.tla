----------------------------- MODULE MCDecision -----------------------------
(* Instances of the deciding side: every regime and behaviour occurs, on both sides. The  *)
(* price moves with each tick that takes time; it stands still in the tick of the same     *)
(* instant only.                                                             *)
EXTENDS TradeDecision
MCMoves == {-11, -1, 1, 11}
MCSpreads == {1}
MCRates == {10, 15, 50}
Book_(bids, asks, bestBid, bestAsk) ==
  [bids |-> bids, asks |-> asks, bestBid |-> bestBid, bestAsk |-> bestAsk]
MCBooks == {Book_(2, 1, 2, None), Book_(1, 2, 1, 2), Book_(2, 1, 1, 2)}
Item(at, side, confidence) == [at |-> at, side |-> side, confidence |-> confidence]
MCMemories == {
  <<Item(1, "BUY", 100), Item(2, "BUY", 100)>>,
  <<Item(1, "SELL", 100), Item(2, "SELL", 50), Item(3, "NEUTRAL", 40)>> }
=============================================================================
