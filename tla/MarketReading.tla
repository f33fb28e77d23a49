--------------------------- MODULE MarketReading ---------------------------
(***************************************************************************)
(* From ticks and order books to the market context of a frame:                *)
(*   physics/            velocity and acceleration of the last price             *)
(*   liquidity/          which side of the book is heavier                      *)
(*   market_state/, market_transition/, market_behavior/, market_context/       *)
(*   decision_foundation/, decision_intent/, decision_evaluation/,              *)
(*   decision_assessment/    whether the context may be judged at all            *)
(*                                                                         *)
(* Prices are in quarter points, so velocities are in quarter points for each      *)
(* second; consecutive ticks are a second apart, at the same instant, or the later  *)
(* one carries an earlier timestamp. Rates are in tenths of a tick for each second.  *)
(***************************************************************************)
EXTENDS Optional, Integers, Sequences

Sides == {"BUY", "SELL"}
Regimes    == {"UNKNOWN", "QUIET", "NORMAL", "ACTIVE", "TRENDING", "VOLATILE"}
Behaviors  == {"UNKNOWN", "STABLE", "ACCELERATING", "DECELERATING", "BALANCED", "UNSTABLE"}

Magnitude(x) == IF x < 0 THEN -x ELSE x
AtLeast(x, limit) == x # None /\ Magnitude(x) >= limit
Toward(side, x) == x # None /\ (IF side = "BUY" THEN x > 0 ELSE x < 0)

-----------------------------------------------------------------------------
(* Physics.  lag is how far the newest tick lies behind the newest velocity         *)
(* sample: not at all, or a second when timestamps went backwards.                  *)

NoPhysics == [priced |-> FALSE, lag |-> 0, velocity |-> None, acceleration |-> None,
              spread |-> None]

\* Two samples at one instant have no acceleration: the old one stays.
Acceleration(p, move) ==
  IF p.velocity = None \/ p.lag < 0 THEN p.acceleration ELSE move - p.velocity

\* A sample of the velocity needs a tick before and time since that tick.
VelocitySample(p, move, seconds) == IF p.priced /\ seconds > 0 THEN move ELSE None

\* The price always moves on; without a sample, what was measured before stays.
Measured(p, move, seconds, spread) ==
  LET seen == [p EXCEPT !.priced = TRUE, !.spread = spread]
  IN  IF VelocitySample(p, move, seconds) # None
      THEN [seen EXCEPT !.lag = 0, !.velocity = move, !.acceleration = Acceleration(p, move)]
      ELSE [seen EXCEPT !.lag = IF p.velocity = None THEN 0 ELSE @ + seconds]

-----------------------------------------------------------------------------
(* The order book.                                                         *)

Bias(bid, ask) == IF bid > ask THEN "BUY" ELSE IF ask > bid THEN "SELL" ELSE "NEUTRAL"

\* An empty level reports no size: the totals stand in for it.
Liquidity(book) ==
  [imbalance |-> Bias(book.bids, book.asks),
   shift |-> Bias(IF book.bestBid = None THEN book.bids ELSE book.bestBid,
                  IF book.bestAsk = None THEN book.asks ELSE book.bestAsk)]

-----------------------------------------------------------------------------
(* What the market does: o holds the feed's status, the tick rate, the physics.       *)

Observable(o) == o.physics.priced /\ o.feed = "HEALTHY"

Volatile(p) ==
  \/ AtLeast(p.acceleration, 12)
  \/ AtLeast(p.velocity, 16) /\ AtLeast(p.acceleration, 8)
  \/ AtLeast(p.spread, 4) /\ AtLeast(p.velocity, 8)

Regime(o) ==
  CASE ~Observable(o)                -> "UNKNOWN"
    [] Observable(o) /\ Volatile(o.physics) -> "VOLATILE"
    [] OTHER ->
         IF AtLeast(o.physics.velocity, 8) THEN "TRENDING"
         ELSE IF o.rate >= 50 THEN "ACTIVE"
         ELSE IF o.rate <= 10 THEN "QUIET" ELSE "NORMAL"

Direction(v, up, down) == IF v = None \/ v = 0 THEN "NEUTRAL" ELSE IF v > 0 THEN up ELSE down

\* previous is the regime of the frame before, or None in the first frame.
Quieter == {"QUIET", "NORMAL"}
Livelier == {"ACTIVE", "TRENDING", "VOLATILE"}
Quickens(previous, regime) == previous \in Quieter \cup {"UNKNOWN"} /\ regime \in Livelier
Slackens(previous, regime) == previous \in Livelier /\ regime \in Quieter

Unstable(o, regime) ==
  \/ regime = "VOLATILE" \/ AtLeast(o.physics.acceleration, 12)
  \/ AtLeast(o.physics.spread, 4) /\ AtLeast(o.physics.acceleration, 2)

Balanced(o, regime) ==
  /\ regime \in {"ACTIVE", "NORMAL", "TRENDING"} /\ o.rate >= 20
  /\ regime = "ACTIVE" \/ ~AtLeast(o.physics.velocity, 8)

Behavior(o, regime, previous) ==
  LET a == o.physics.acceleration
  IN  CASE regime = "UNKNOWN" -> "UNKNOWN"
        [] regime # "UNKNOWN" /\ Unstable(o, regime) -> "UNSTABLE"
        [] OTHER ->
             IF a # None /\ a >= 2 THEN "ACCELERATING"
             ELSE IF a # None /\ a <= -2 THEN "DECELERATING"
             ELSE IF Quickens(previous, regime) THEN "ACCELERATING"
             ELSE IF Slackens(previous, regime) THEN "DECELERATING"
             ELSE IF Balanced(o, regime) THEN "BALANCED" ELSE "STABLE"

BehaviorDirection(behavior, v) ==
  IF behavior \in {"UNKNOWN", "UNSTABLE"} THEN "NEUTRAL" ELSE Direction(v, "BUY", "SELL")

\* Whether the regime is another one than in the frame before; how long it has lasted
\* is only displayed.
Changed(regime, previous) == previous # None /\ regime # previous

\* build_summary: the sentence of the context, by what it says.
ContextSummary(regime, behavior, changed) ==
  CASE "UNKNOWN" \in {regime, behavior}              -> [says |-> "insufficient"]
    [] regime = "ACTIVE" /\ behavior = "STABLE"      -> [says |-> "stable_active"]
    [] regime = "QUIET" /\ behavior # "UNKNOWN" /\ ~changed -> [says |-> "quiet"]
    [] OTHER -> [says |-> "regime_and_behavior", regime |-> regime, behavior |-> behavior]

Context(o, previous) ==
  LET regime == Regime(o)
      behavior == Behavior(o, regime, previous)
  IN  [feed |-> o.feed, state |-> regime, behavior |-> behavior,
       summary |-> ContextSummary(regime, behavior, Changed(regime, previous)),
       stateDirection |-> Direction(o.physics.velocity, "UP", "DOWN"),
       behaviorDirection |-> BehaviorDirection(behavior, o.physics.velocity)]

-----------------------------------------------------------------------------
(* Whether the context may be judged: four stages, each looking at the one before.    *)

Foundation(c) ==
  LET valid == c.state # "UNKNOWN" /\ c.behavior # "UNKNOWN"
  IN  [ready |-> c.feed \notin {"DISCONNECTED", "STALE"} /\ valid, valid |-> valid]

Intent(f) == IF ~f.ready THEN "WAIT" ELSE IF f.valid THEN "EVALUATE" ELSE "OBSERVE"

Evaluation(intent) ==
  CASE intent = "WAIT" -> "WAITING" [] intent = "OBSERVE" -> "IDLE" [] OTHER -> "EVALUATING"

Assessment(evaluation) ==
  CASE evaluation = "WAITING" -> "BLOCKED" [] evaluation = "IDLE" -> "REVIEW" [] OTHER -> "READY"

Assessed(c) == Assessment(Evaluation(Intent(Foundation(c))))
=============================================================================
