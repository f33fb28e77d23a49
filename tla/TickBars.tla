------------------------------ MODULE TickBars ------------------------------
(***************************************************************************)
(* The front of the live validator: ticks become bars of a fixed duration      *)
(* (live_validator/candle_builder.py), and bars become confirmed swings         *)
(* (live_validator/swing_confirmer.py). Pure operators on the two objects;       *)
(* LiveValidator holds them. A price is in ticks, a bar is known by the number   *)
(* of its bucket, and every tick trades a volume of one.                       *)
(***************************************************************************)
EXTENDS Optional, Integers, Sequences, SequencesExt

CONSTANTS
  MaxBars,    \* max_bars of the builder (120)
  MaxSwings   \* max_swings of the confirmer (40)

ASSUME BarsAssumption == MaxBars \in Nat \ {0, 1} /\ MaxSwings \in Nat \ {0}

\* The last n elements of a sequence, and the larger and smaller of two prices.
LastOf(s, n) == IF Len(s) > n THEN SubSeq(s, Len(s) - n + 1, Len(s)) ELSE s
Higher(p, q) == IF p > q THEN p ELSE q
Lower(p, q)  == IF p < q THEN p ELSE q

-----------------------------------------------------------------------------
(* TickBarBuilder: the closed bars, and the bar that is forming.               *)

NoBars == [closed |-> << >>, forming |-> None]

StartedBar(bucket, price) ==
  [open |-> price, high |-> price, low |-> price, close |-> price,
   volume |-> 1, at |-> bucket]

Opens(bars, bucket) == bars.forming = None \/ bucket > bars.forming.at
Closes(bars, bucket) == bars.forming # None /\ bucket > bars.forming.at

\* on_tick. A tick of an earlier bucket than the forming bar's is late, and is
\* merged into the forming bar all the same.
AfterTick(bars, bucket, price) ==
  IF Opens(bars, bucket)
  THEN [closed  |-> IF Closes(bars, bucket)
                    THEN LastOf(Append(bars.closed, bars.forming), MaxBars)
                    ELSE bars.closed,
        forming |-> StartedBar(bucket, price)]
  ELSE [bars EXCEPT !.forming.high = Higher(@, price),
                    !.forming.low = Lower(@, price),
                    !.forming.close = price,
                    !.forming.volume = @ + 1]

\* candles_for_engines: the closed bars, then the forming one.
Candles(bars) ==
  IF bars.forming = None THEN bars.closed ELSE Append(bars.closed, bars.forming)

-----------------------------------------------------------------------------
(* SwingConfirmer: a fractal of three closed bars confirms its middle one.     *)

NoSwings == [highs |-> << >>, lows |-> << >>, history |-> << >>]

\* 0 to 100, from how far the pivot stands out against its own range.
PivotStrength(prominence, range) ==
  Lower(100, 40 + (50 * prominence) \div Higher(range, 1))

Pivot(price, prominence, center, right) ==
  [price |-> price, at |-> right.at,
   strength |-> PivotStrength(prominence, center.high - center.low)]

\* on_closed_candles, for the one bar that closed.
AfterBar(swings, bar) ==
  LET history == LastOf(Append(swings.history, bar), MaxSwings + 4)
      n       == Len(history)
      left    == history[n - 2]
      center  == history[n - 1]
      up      == Lower(center.high - left.high, center.high - bar.high)
      down    == Lower(left.low - center.low, bar.low - center.low)
  IN  IF n < 3 THEN [swings EXCEPT !.history = history]
      ELSE [history |-> history,
            highs   |-> IF up > 0
                        THEN LastOf(Append(swings.highs,
                                      Pivot(center.high, up, center, bar)),
                                    MaxSwings)
                        ELSE swings.highs,
            lows    |-> IF down > 0
                        THEN LastOf(Append(swings.lows,
                                      Pivot(center.low, down, center, bar)),
                                    MaxSwings)
                        ELSE swings.lows]
=============================================================================
