------------------------------ MODULE MCTrade ------------------------------
(* Instances of the trade lifecycle small enough for TLC.                   *)
EXTENDS TradeLifecycle

\* With a stop one point away and a target two points away: a BUY at 2 wins at 4
\* and loses at 1, a SELL at 4 wins at 2 (or 1), a SELL at 2 loses at 4.
ThreePrices == {1, 2, 4}
OnePrice    == {2}
OneRisk     == {1}
=============================================================================
