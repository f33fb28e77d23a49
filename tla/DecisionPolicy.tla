--------------------------- MODULE DecisionPolicy ---------------------------
(***************************************************************************)
(* How one frame is judged, for both sides (trade_decision/policy.py): a score out     *)
(* of 100, a confidence out of 100, the stability of the last samples, a readiness,    *)
(* the decision and the sentence that explains it.                            *)
(*                                                                         *)
(* f holds what the frame sees: context, assessment, physics, and the liquidity, or    *)
(* None. In the code the two sides are two sets of functions; here they are one set     *)
(* with a parameter.                                                       *)
(***************************************************************************)
EXTENDS MarketReading, MemoryDiagnostics

StabilityWindow == 3
MinScore == 80
MinConfidence == 85

Points(holds, weight) == IF holds THEN weight ELSE 0

StateQualifies(side, c) ==
  /\ c.state \in {"ACTIVE", "TRENDING"}
  /\ c.stateDirection = IF side = "SELL" THEN "DOWN" ELSE "UP"
BehaviorQualifies(side, c) ==
  /\ c.behavior \in {"STABLE", "ACCELERATING"} /\ c.behaviorDirection = side

PhysicsConfirm(side, p) == Toward(side, p.velocity) /\ Toward(side, p.acceleration)

LiquidityConfirms(side, book) ==
  book # None /\ book.shift = side /\ book.imbalance = side

Score(side, f) ==
  Points(f.assessment = "READY", 20) + Points(f.context.feed = "HEALTHY", 15)
  + Points(StateQualifies(side, f.context), 15)
  + Points(BehaviorQualifies(side, f.context), 15)
  + Points(PhysicsConfirm(side, f.physics), 20)
  + Points(LiquidityConfirms(side, f.liquidity), 15)

Confidence(side, f) ==
  Points(f.assessment = "READY", 25) + Points(f.context.feed = "HEALTHY", 20)
  + Points(PhysicsConfirm(side, f.physics), 20)
  + Points(LiquidityConfirms(side, f.liquidity), 20)
  + Points(StateQualifies(side, f.context) /\ BehaviorQualifies(side, f.context), 15)

Qualifies(score, confidence) == score >= MinScore /\ confidence >= MinConfidence

-----------------------------------------------------------------------------
(* Stability: whether the newest samples all qualify. A sample is kept as that.       *)

\* mutant: two good samples out of three suffice
MostlyStable(samples) ==
  /\ Len(samples) >= StabilityWindow
  /\ Cardinality({i \in Len(samples) - StabilityWindow + 1..Len(samples) : samples[i]}) >= 2

Stable(samples) ==
  /\ Len(samples) >= StabilityWindow
  /\ \A i \in (Len(samples) - StabilityWindow + 1)..Len(samples) : samples[i]

\* PASS, FAIL or UNKNOWN, as the explanation of a decision shows it.
StatusOf(holds) == IF holds THEN "PASS" ELSE "FAIL"
StabilityStatus(samples) ==
  IF Len(samples) < StabilityWindow THEN "UNKNOWN" ELSE StatusOf(Stable(samples))

\* samples ends with the sample of this frame.
Readiness(side, f, samples) ==
  IF f.liquidity = None \/ Len(samples) < StabilityWindow THEN "UNKNOWN"
  ELSE IF /\ samples[Len(samples)] /\ Stable(samples)
          /\ f.assessment = "READY" /\ f.context.feed = "HEALTHY"
          /\ LiquidityConfirms(side, f.liquidity)
       THEN "READY" ELSE "NOT_READY"

\* If both were ready, the sell side is taken back; else it comes first.
Decision(buy, sell) ==
  IF sell = "READY" /\ buy # "READY" THEN "SELL" ELSE IF buy = "READY" THEN "BUY" ELSE "NO_TRADE"

-----------------------------------------------------------------------------
(* The explanation: of the sell side when that is decided, else of the buy side.      *)

\* decision_readiness_explanation_status
ReadinessStatus(readiness) ==
  CASE readiness = "READY" -> "PASS" [] readiness = "NOT_READY" -> "FAIL"
    [] readiness = "UNKNOWN" -> "UNKNOWN"

Explanation(side, f, samples) ==
  LET p == f.physics
  IN  [assessment |-> StatusOf(f.assessment = "READY"),
       feed       |-> StatusOf(f.context.feed = "HEALTHY"),
       state      |-> StatusOf(StateQualifies(side, f.context)),
       behavior   |-> StatusOf(BehaviorQualifies(side, f.context)),
       physics    |-> IF None \in {p.velocity, p.acceleration} THEN "UNKNOWN"
                      ELSE StatusOf(PhysicsConfirm(side, p)),
       liquidity  |-> IF f.liquidity = None THEN "UNKNOWN"
                      ELSE StatusOf(LiquidityConfirms(side, f.liquidity)),
       stability  |-> StabilityStatus(samples),
       readiness  |-> ReadinessStatus(Readiness(side, f, samples))]

\* The sentence, by what it says.
Summary(e, context) ==
  LET others == {e[k] : k \in DOMAIN e \ {"assessment"}}
  IN  CASE e.readiness = "UNKNOWN" -> "readiness_unknown"
        [] e.readiness = "FAIL" /\ e.stability = "FAIL" -> "not_stable_yet"
        [] e.readiness = "FAIL" /\ e.stability # "FAIL" -> "not_ready"
        [] OTHER ->
             IF \A k \in DOMAIN e : e[k] = "PASS" THEN "satisfied"
             ELSE IF context.state = "VOLATILE" /\ e.state = "FAIL" /\ e.physics = "UNKNOWN"
             THEN "volatile_physics_missing"
             ELSE IF context.state = "VOLATILE" /\ e.state = "FAIL" /\ e.physics = "FAIL"
             THEN "volatile_physics_failed"
             ELSE IF e.assessment = "FAIL" /\ "FAIL" \notin others THEN "assessment_not_ready"
             ELSE "not_satisfied"
-----------------------------------------------------------------------------
(* What the package offers beside the decision.                                *)

\* matches_buy_strategy, matches_sell_strategy
MatchesStrategy(side, f) ==
  /\ f.liquidity # None /\ None \notin {f.physics.velocity, f.physics.acceleration}
  /\ f.context.feed = "HEALTHY"
  /\ StateQualifies(side, f.context) /\ BehaviorQualifies(side, f.context)
  /\ PhysicsConfirm(side, f.physics)
  /\ f.liquidity = [imbalance |-> side, shift |-> side]

\* is_buy_eligible
IsEligible(side, f) == Score(side, f) = 100

-----------------------------------------------------------------------------
(* What the dashboard says about a decision beside its sentence                    *)
(* (trade_decision/explainability.py): the points of each category, what confirmed      *)
(* a side, why a side was selected, or what is missing for a trade. The evidence lines  *)
(* work out anew from the measurements what the points stand for.                 *)

\* contributions_from_breakdown
Breakdown(side, f) ==
  [assessment |-> Points(f.assessment = "READY", 20),
   feed       |-> Points(f.context.feed = "HEALTHY", 15),
   state      |-> Points(StateQualifies(side, f.context), 15),
   behavior   |-> Points(BehaviorQualifies(side, f.context), 15),
   physics    |-> Points(PhysicsConfirm(side, f.physics), 20),
   liquidity  |-> Points(LiquidityConfirms(side, f.liquidity), 15)]

Total(b) == b.assessment + b.feed + b.state + b.behavior + b.physics + b.liquidity

\* build_decision_explainability raises if the totals it is given are not those of
\* the points.
Raises(side, f, total) == Total(Breakdown(side, f)) # total

Directional == {"state", "behavior", "physics", "liquidity"}

\* _confirmed_reason: the categories that confirm a side.
ConfirmedBy(side, f) == {k \in Directional : Breakdown(side, f)[k] > 0}

\* _selection_lines_buy, _selection_lines_sell
SelectedFor(side, f) == ConfirmedBy(side, f) \cap {"physics", "liquidity"}

\* mutant: the stability is not in the list
MissingWithoutStability(e, samples) ==
  {k \in {"physics", "liquidity", "feed", "assessment"} : e[k] # "PASS"}

\* _no_trade_missing, of the explanation and the stability of the buy side
Missing(e, samples) ==
  {k \in {"physics", "liquidity", "feed", "assessment"} : e[k] # "PASS"}
    \cup {k \in {"stability"} : ~Stable(samples)}

\* capture_score_evidence, as far as the lines look at it
Evidence(f) ==
  [assessment |-> f.assessment, context |-> f.context,
   velocity |-> f.physics.velocity, acceleration |-> f.physics.acceleration,
   shift     |-> IF f.liquidity = None THEN None ELSE f.liquidity.shift,
   imbalance |-> IF f.liquidity = None THEN None ELSE f.liquidity.imbalance]

\* _physics_block: the direction it shows
PhysicsShows(side, ev) == Toward(side, ev.velocity) /\ Toward(side, ev.acceleration)

\* _liquidity_block: whether it shows the direction as confirmed
LiquidityShows(side, ev) == ev.shift = side /\ ev.imbalance = side

\* _side_detail_lines: what each category shows, beside its points.
Details(side, b, ev) ==
  [assessment |-> [shows |-> ev.assessment, points |-> b.assessment],
   feed       |-> [shows |-> ev.context.feed, points |-> b.feed],
   state      |-> [shows |-> <<ev.context.state, ev.context.stateDirection>>,
                   points |-> b.state],
   behavior   |-> [shows |-> <<ev.context.behavior, ev.context.behaviorDirection>>,
                   points |-> b.behavior],
   physics    |-> [shows |-> PhysicsShows(side, ev), points |-> b.physics],
   liquidity  |-> [shows |-> LiquidityShows(side, ev), points |-> b.liquidity]]

\* build_decision_explainability
Explained(decision, f, samples) ==
  [selection |-> IF decision \in Sides THEN SelectedFor(decision, f) ELSE {},
   missing   |-> IF decision \in Sides THEN {}
                 ELSE Missing(Explanation("BUY", f, samples["BUY"]), samples["BUY"]),
   reason    |-> [side \in Sides |-> ConfirmedBy(side, f)],
   details   |-> [side \in Sides |-> Details(side, Breakdown(side, f), Evidence(f))]]
=============================================================================
