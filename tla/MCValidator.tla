---------------------------- MODULE MCValidator ----------------------------
(* Instances of the live validator: the price goes up to two highs and down       *)
(* again, with a choice at turns, on the prominence limits of the code. A file that  *)
(* got shorter starts with the second tick of the feed.                             *)
EXTENDS LiveValidator
MCPrices == 0..60
MCStrengths == 0..100
MCTimes == 0..12
MCQuotes == <<{10}, {20, 0}, {8}, {30, 16}, {12}, {40, 20}, {30, 6},
              {50}, {24}, {60}, {20, 44}>>
\* No checkpoint, or one of the old version, with a major high that was breached
\* and the low it was measured against.
MCRecord(side, price, category, lifecycle) ==
  [side |-> side, swing |-> [price |-> price, strength |-> 90, at |-> 0],
   parent |-> Root, depth |-> 0, category |-> category, lifecycle |-> lifecycle,
   extreme |-> None, started |-> FALSE, reclaimed |-> FALSE]
MCInherited ==
  { [version |-> 2, registry |-> << >>, frontier |-> [s \in Sides |-> << >>]],
    [version |-> 1,
     registry |-> << MCRecord("LOW", 2, "MINOR", "ACTIVE"),
                     MCRecord("HIGH", 34, "MAJOR", "BREACHED") >>,
     frontier |-> [s \in Sides |-> IF s = "HIGH" THEN <<2>> ELSE <<1>>]] }
=============================================================================
