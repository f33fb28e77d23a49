------------------------- MODULE MemoryDiagnostics -------------------------
(***************************************************************************)
(* What the market memory says about the recent past, and how far it may move       *)
(* the scores of a decision:                                               *)
(*   memory/diagnostics.py, memory_adapter.py, trade_decision/memory_influence.py    *)
(*                                                                         *)
(* A memory item is [at, side, confidence]; confidences, persistences and             *)
(* agreements are whole percents, rounded down. Its strength is only displayed. The       *)
(* items of a band are given by their indices.                                    *)
(***************************************************************************)
EXTENDS Integers, Sequences, FiniteSets

Bands == <<10, 30, 60>>      \* fast, medium, slow: seconds
MaxBoost == 5
MaxOppose == 3

Percent(part, whole) == IF whole = 0 THEN 0 ELSE (100 * part) \div whole
Within(x, low, high) == IF x < low THEN low ELSE IF x > high THEN high ELSE x

ItemsIn(items, asOf, window) ==
  {i \in DOMAIN items : asOf - window < items[i].at /\ items[i].at <= asOf}
Votes(items, in, side) == Cardinality({i \in in : items[i].side = side})

\* The sum of the confidences: every percent of every item counts one.
TotalConfidence(items, in) ==
  Cardinality({point \in in \X (1..100) : point[2] <= items[point[1]].confidence})

Majority(buy, sell, neutral) ==
  IF buy > sell /\ buy > neutral THEN "BUY"
  ELSE IF sell > buy /\ sell > neutral THEN "SELL"
  ELSE IF (neutral >= buy /\ neutral >= sell) \/ buy = sell THEN "NEUTRAL"
  ELSE IF buy > sell THEN "BUY" ELSE "SELL"

Band(items, asOf, window) ==
  LET in == ItemsIn(items, asOf, window)
      side == Majority(Votes(items, in, "BUY"), Votes(items, in, "SELL"),
                       Votes(items, in, "NEUTRAL"))
  IN  [side |-> side,
       confidence |-> IF in = {} THEN 0 ELSE TotalConfidence(items, in) \div Cardinality(in),
       persistence |-> Percent(Votes(items, in, side), Cardinality(in))]

\* The bands are read as of the newest item, wherever the clock stands by now.
BandsOf(items) ==
  LET asOf == IF items = <<>> THEN 0 ELSE items[Len(items)].at
  IN  [i \in 1..3 |-> Band(items, asOf, Bands[i])]

Consensus(bands) ==
  LET buys  == Cardinality({i \in 1..3 : bands[i].side = "BUY"})
      sells == Cardinality({i \in 1..3 : bands[i].side = "SELL"})
      hits  == Cardinality({pair \in {<<1, 2>>, <<1, 3>>, <<2, 3>>} :
                              bands[pair[1]].side = bands[pair[2]].side})
      confidence == (bands[1].confidence + bands[2].confidence + bands[3].confidence) \div 3
      agreement == (700 * hits + 9 * confidence) \div 30
      side == IF buys > sells THEN "BUY" ELSE IF sells > buys THEN "SELL" ELSE "NEUTRAL"
  IN  [side |-> side, confidence |-> confidence, agreement |-> agreement,
       status |-> IF side = "NEUTRAL" \/ agreement < 50 THEN "UNCERTAIN"
                  ELSE IF agreement >= 80 THEN "ALIGNED" ELSE "MIXED"]

-----------------------------------------------------------------------------
(* The adjustment.                                                         *)

\* mutant: the cap is twice as high
BoostOfTen(consensus, persistence) ==
  LET product == 2 * MaxBoost * consensus.agreement * persistence
      scaled == ((product \div 100) * consensus.confidence + 5000) \div 10000
  IN  Within(scaled, 1, 2 * MaxBoost)

\* The largest boost scaled by three fractions, rounded; at least one point.
Boost(consensus, persistence) ==
  LET product == MaxBoost * consensus.agreement * persistence
      scaled == ((product \div 100) * consensus.confidence + 5000) \div 10000
  IN  Within(scaled, 1, MaxBoost)

\* A boost of one point takes nothing from the other side.
Oppose(boost) == Within(boost \div 2, 0, MaxOppose)

\* What the memory adds to the score of a side.
Delta(side, items) ==
  LET bands == BandsOf(items)
      consensus == Consensus(bands)
      persistence == (bands[1].persistence + bands[2].persistence + bands[3].persistence) \div 3
      boost == Boost(consensus, persistence)
  IN  IF consensus.status # "ALIGNED" THEN 0
      ELSE IF consensus.side = side THEN boost ELSE -Oppose(boost)

Adjusted(score, delta) == Within(score + delta, 0, 100)
=============================================================================
