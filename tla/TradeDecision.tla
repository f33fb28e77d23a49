--------------------------- MODULE TradeDecision ---------------------------
(***************************************************************************)
(* The deciding side of the dashboard: ticks and order books move the physics and      *)
(* the liquidity, the health monitors tell whether they still arrive, and every frame   *)
(* (DashboardController.snapshot) judges what it finds.                          *)
(*   trade_decision/engine.py   the two stability histories                      *)
(*   dashboard/controller.py    what a frame reads, and in which order              *)
(*                                                                         *)
(* Nothing is ever reset but the liquidity: physics, the regime before and the           *)
(* histories live through a silence of the feed. No variable counts, so the behaviours    *)
(* are unbounded.                                                          *)
(***************************************************************************)
EXTENDS DecisionPolicy, FiniteSets

CONSTANTS
  Moves,     \* changes of the last price from tick to tick, in quarter points
  Spreads,   \* spreads, in quarter points
  Rates,     \* ticks of the session over its seconds, in tenths
  Books,     \* order books
  Memories   \* what the market memory may hold when a frame asks it

ASSUME DecisionAssumption ==
  /\ Moves \subseteq Int /\ Spreads \subseteq Int /\ Rates \subseteq Int
  /\ None \notin Int /\ None \notin Sides
  /\ None \notin [imbalance : Sides \cup {"NEUTRAL"}, shift : Sides \cup {"NEUTRAL"}]
  /\ \A items \in Memories :
       items \in Seq([at : Nat, side : Sides \cup {"NEUTRAL"}, confidence : 0..100])
  /\ \A b \in Books : {b.bids, b.asks} \subseteq Nat /\ {b.bestBid, b.bestAsk} \subseteq Nat \cup {None}

VARIABLES
  physics,    \* PhysicsEngine, with its two trackers
  feed,       \* status of the tick feed
  dom,        \* status of the order book, as the last health check found it
  liquidity,  \* LiquidityEngine._latest
  previous,   \* _previous_market_state
  history,    \* the two signal histories: for each sample whether it qualifies
  decision,   \* the decision of the last frame
  favoured    \* the sides the market favoured in each of the newest frames

vars == <<physics, feed, dom, liquidity, previous, history, decision, favoured>>

NewestOf(s) == IF Len(s) > StabilityWindow THEN Tail(s) ELSE s

Init ==
  /\ physics = NoPhysics /\ feed = "DISCONNECTED" /\ dom = "DISCONNECTED"
  /\ liquidity = None /\ previous = None
  /\ history = [side \in Sides |-> <<>>] /\ favoured = <<>>
  /\ decision = "NO_TRADE"

\* on_tick.  A tick makes the feed healthy; timestamps may stand still or go back, by
\* a second at most (bound), and then the move of the price is not looked at.
Tick ==
  /\ \E seconds \in {-1, 0, 1}, spread \in Spreads :
       /\ seconds < 0 => physics.lag = 0
       /\ \E move \in IF seconds > 0 THEN Moves ELSE {0} :
            physics' = Measured(physics, move, seconds, spread)
  /\ feed' = "HEALTHY"
  /\ UNCHANGED <<dom, liquidity, previous, history, decision, favoured>>

\* on_dom
Book ==
  /\ \E b \in Books : liquidity' = Liquidity(b)
  /\ dom' = "HEALTHY"
  /\ UNCHANGED <<physics, feed, previous, history, decision, favoured>>

Silent(status) == CASE status = "HEALTHY" -> "STALE" [] OTHER -> "DISCONNECTED"

\* No ticks for stall_seconds, and then for disconnect_seconds.
FeedFallsSilent ==
  /\ feed # "DISCONNECTED" /\ feed' = Silent(feed)
  /\ UNCHANGED <<physics, dom, liquidity, previous, history, decision, favoured>>

\* check_connection_health drops the liquidity of a feed that is gone.
LiquidityAfterCheck(status) == IF status = "DISCONNECTED" THEN None ELSE liquidity

BookFallsSilent ==
  /\ dom # "DISCONNECTED" /\ dom' = Silent(dom)
  /\ liquidity' = LiquidityAfterCheck(dom')
  /\ UNCHANGED <<physics, feed, previous, history, decision, favoured>>

-----------------------------------------------------------------------------
(* A frame.                                                                *)

\* A book that is stale is not shown to the policy.
FreshLiquidity == IF dom = "HEALTHY" THEN liquidity ELSE None

\* What the frame sees at a tick rate.
Facts(rate) ==
  LET context == Context([feed |-> feed, rate |-> rate, physics |-> physics], previous)
  IN  [context |-> context, assessment |-> Assessed(context),
       physics |-> physics, liquidity |-> FreshLiquidity]

\* What the memory adds to the score of each side, for all it may hold.
Influence == [items \in Memories |-> [side \in Sides |-> Delta(side, items)]]

Sample(side, f, items) ==
  Qualifies(Adjusted(Score(side, f), Influence[items][side]), Confidence(side, f))

\* mutant: the history is that of one sample, over and over
RepeatedSample(side, f, items) == [i \in 1..StabilityWindow |-> Sample(side, f, items)]

\* The history of a side with the sample of this frame.
Samples(side, f, items) == Append(history[side], Sample(side, f, items))

\* The market is with a side: live feed, live book heavy on its side at the best prices
\* and in total, price moving its way and faster so, in a market that is active or
\* trending, or steady or speeding up.
Favours(side, f) ==
  /\ feed = "HEALTHY" /\ dom = "HEALTHY"
  /\ liquidity = [imbalance |-> side, shift |-> side]
  /\ PhysicsConfirm(side, physics)
  /\ \/ f.context.state \in {"ACTIVE", "TRENDING"}
     \/ f.context.behavior \in {"STABLE", "ACCELERATING"}

\* apply_trade_decision_policy: the decision ...
Decided(f, samples) ==
  Decision(Readiness("BUY", f, samples["BUY"]), Readiness("SELL", f, samples["SELL"]))

\* ... and what is said of it: of the sell side when that is decided, else of the buy
\* side.
ExplanationOf(chosen, f, samples) ==
  LET shown == IF chosen = "SELL" THEN "SELL" ELSE "BUY"
  IN  Explanation(shown, f, samples[shown])

\* The total that is explained is the one before the memory moved it.
ExplainedTotal(side, f, items) == Score(side, f)

SamplesOf(f, items) == [side \in Sides |-> Samples(side, f, items)]

Frame ==
  /\ \E rate \in Rates, items \in Memories :
       LET f == Facts(rate)
           samples == SamplesOf(f, items)
       IN  /\ \A side \in Sides : ~Raises(side, f, ExplainedTotal(side, f, items))
           /\ decision' = Decided(f, samples)
           /\ history' = [side \in Sides |-> NewestOf(samples[side])]
           /\ previous' = f.context.state
           /\ favoured' = NewestOf(Append(favoured, {side \in Sides : Favours(side, f)}))
  /\ UNCHANGED <<physics, feed, dom, liquidity>>

Next == Tick \/ Book \/ FeedFallsSilent \/ BookFallsSilent \/ Frame

Spec == Init /\ [][Next]_vars

-----------------------------------------------------------------------------
(* Properties.                                                             *)

\* A decision is a side the market favoured in each of the last three frames, and every
\* side so favoured is decided: the weights, the limits and the caps of the scores leave
\* no other way, and the market memory neither makes a decision nor prevents one.
DecisionIsFounded ==
  \A side \in Sides :
    decision = side
    <=> Len(favoured) = StabilityWindow /\ \A i \in 1..StabilityWindow : side \in favoured[i]

\* A decision for one side is never followed by one for the other without NO_TRADE
\* in between: everything that looks for a new decision compares with the last one.
TurnsThroughNoTrade ==
  [][decision = decision' \/ "NO_TRADE" \in {decision, decision'}]_vars

\* The decisions of the frames are the stream TradeLifecycle is modelled on.
Leaning == LET last == IF favoured = <<>> THEN {} ELSE favoured[Len(favoured)]
           IN  IF \E side \in Sides : side \in last THEN CHOOSE side \in Sides : side \in last
               ELSE "NONE"
Run(n) == \A i \in (Len(favoured) - n + 1)..Len(favoured) : Leaning \in favoured[i]
Stream == INSTANCE SignalStream
  WITH Window <- StabilityWindow, side <- Leaning, decision <- decision,
       count <- CHOOSE n \in 0..Len(favoured) :
                  IF Leaning = "NONE" THEN n = 0
                  ELSE Run(n) /\ (n = Len(favoured) \/ ~Run(n + 1))
ImplementsStream == Stream!Spec

\* What a frame says about its decision fits it: a side is selected
\* with its physics and its liquidity confirmed and with nothing in the explanation that
\* waits; NO_TRADE names something that is missing and never reads as satisfied.
SelectionFits(f) ==
  \A items \in Memories :
    LET samples == SamplesOf(f, items)
        chosen  == Decided(f, samples)
        said    == ExplanationOf(chosen, f, samples)
        x       == Explained(chosen, f, samples)
    IN  IF chosen = "NO_TRADE"
        THEN x.missing # {} /\ Summary(said, f.context) # "satisfied"
        ELSE /\ x.selection = {"physics", "liquidity"}
             /\ {said.stability, said.readiness, said.physics, said.liquidity} = {"PASS"}
             /\ \A side \in Sides \ {chosen} :
                  x.reason[side] \cap {"physics", "liquidity"} = {}

\* The panels beside it fit too: the evidence lines confirm a side by its physics or its
\* liquidity exactly if these brought it points; no line of evidence brings points to
\* both sides; a side has all points exactly if its strategy matches; and the context is
\* called insufficient exactly when it is not judged.
EvidenceFits(f) ==
  LET x == Explained("NO_TRADE", f, [side \in Sides |-> << >>])
  IN  /\ \A side \in Sides :
           /\ \A k \in {"physics", "liquidity"} :
                x.details[side][k].shows <=> k \in x.reason[side]
           /\ MatchesStrategy(side, f) <=> IsEligible(side, f)
      /\ \A k \in Directional : 0 \in {x.details[side][k].points : side \in Sides}
      /\ f.context.summary.says = "insufficient" <=> f.assessment # "READY"

ExplanationFits == \A rate \in Rates : SelectionFits(Facts(rate)) /\ EvidenceFits(Facts(rate))
=============================================================================
