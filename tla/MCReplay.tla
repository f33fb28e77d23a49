------------------------------- MODULE MCReplay -------------------------------
(* The feed of the validator's instance, observed from its first tick.            *)
EXTENDS Replay
MCPrices == 0..60
MCStrengths == 0..100
MCTimes == 0..12
MCQuotes == <<{10}, {20, 0}, {8, 24}, {30, 16}, {12, 28}, {40, 20}, {30, 6},
              {50, 16}, {34, 24}, {60, 26}, {20, 44}>>
MCInherited ==
  {[version |-> 2, registry |-> << >>, frontier |-> [s \in Sides |-> << >>]]}
=============================================================================
