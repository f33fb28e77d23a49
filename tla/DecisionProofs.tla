---------------------------- MODULE DecisionProofs ----------------------------
(***************************************************************************)
(* Proofs about TradeDecision.  The weights, the limits and the caps of the scores     *)
(* come first: whatever the market memory holds, a sample qualifies exactly when the     *)
(* market favours its side.  The histories are then a copy of what the frames saw, no     *)
(* frame favours both sides, and the rest is about the last three frames.               *)
(***************************************************************************)
EXTENDS TradeDecision, FiniteSetTheorems, TLAPS

-----------------------------------------------------------------------------
(* What the memory may add.                                                *)

\* The quotient of integers by a positive one is an integer.
LEMMA Quotient ==
  ASSUME NEW x \in Int, NEW d \in Nat \ {0}
  PROVE  x \div d \in Int
OBVIOUS

LEMMA Product ==
  ASSUME NEW x \in Int, NEW y \in Int
  PROVE  x * y \in Int
OBVIOUS

\* The counts of a band are numbers, and so is what is computed from them.
LEMMA BandIsTyped ==
  ASSUME NEW items, IsFiniteSet(DOMAIN items), NEW asOf, NEW window
  PROVE  /\ Band(items, asOf, window).confidence \in Int
         /\ Band(items, asOf, window).persistence \in Int
<1> DEFINE in == ItemsIn(items, asOf, window)
           side == Majority(Votes(items, in, "BUY"), Votes(items, in, "SELL"),
                            Votes(items, in, "NEUTRAL"))
<1>1. IsFiniteSet(in)
  BY FS_Subset DEF ItemsIn
<1>2. Cardinality(in) \in Nat /\ (Cardinality(in) = 0 <=> in = {})
  BY <1>1, FS_CardinalityType, FS_EmptySet
<1>3. Votes(items, in, side) \in Nat
  <2>1. {i \in in : items[i].side = side} \subseteq in
    OBVIOUS
  <2>2. IsFiniteSet({i \in in : items[i].side = side})
    BY <1>1, <2>1, FS_Subset
  <2>. QED BY <2>2, FS_CardinalityType DEF Votes
<1>4. TotalConfidence(items, in) \in Nat
  <2>1. IsFiniteSet(1..100)
    <3>1. 1 \in Int /\ 100 \in Int
      OBVIOUS
    <3>. QED BY <3>1, FS_Interval
  <2>2. IsFiniteSet(in \X (1..100))
    BY <1>1, <2>1, FS_Product
  <2>3. {point \in in \X (1..100) : point[2] <= items[point[1]].confidence} \subseteq in \X (1..100)
    OBVIOUS
  <2>4. IsFiniteSet({point \in in \X (1..100) : point[2] <= items[point[1]].confidence})
    BY <2>2, <2>3, FS_Subset
  <2>. QED BY <2>4, FS_CardinalityType DEF TotalConfidence
<1>5. Percent(Votes(items, in, side), Cardinality(in)) \in Int
  <2>. DEFINE v == Votes(items, in, side)
              n == Cardinality(in)
  <2>1. v \in Int /\ n \in Nat
    BY <1>2, <1>3
  <2>. HIDE DEF v, n
  <2>2. 100 * v \in Int
    BY <2>1
  <2>3. CASE n = 0
    BY <2>3 DEF Percent, v, n
  <2>4. CASE n # 0
    <3>1. (100 * v) \div n \in Int
      BY <2>1, <2>2, <2>4, Quotient
    <3>. QED BY <2>4, <3>1 DEF Percent, v, n
  <2>. QED BY <2>3, <2>4
<1>6. (IF in = {} THEN 0 ELSE TotalConfidence(items, in) \div Cardinality(in)) \in Int
  <2>. DEFINE t == TotalConfidence(items, in)
              n == Cardinality(in)
  <2>1. t \in Int /\ n \in Nat /\ (n = 0 <=> in = {})
    BY <1>2, <1>4
  <2>. HIDE DEF t, n
  <2>2. ASSUME in # {} PROVE t \div n \in Int
    BY <2>1, <2>2, Quotient
  <2>. QED BY <2>2 DEF t, n
<1>7. Band(items, asOf, window).persistence = Percent(Votes(items, in, side), Cardinality(in))
  BY DEF Band
<1>8. Band(items, asOf, window).confidence
        = IF in = {} THEN 0 ELSE TotalConfidence(items, in) \div Cardinality(in)
  BY DEF Band
<1>. HIDE DEF in, side
<1>. QED BY <1>5, <1>6, <1>7, <1>8

\* The consensus of three bands is typed.
LEMMA ConsensusIsTyped ==
  ASSUME NEW bands, \A i \in 1..3 : bands[i].confidence \in Int
  PROVE  /\ Consensus(bands).confidence \in Int
         /\ Consensus(bands).agreement \in Int
<1> DEFINE H == {pair \in {<<1, 2>>, <<1, 3>>, <<2, 3>>} :
                   bands[pair[1]].side = bands[pair[2]].side}
           total == bands[1].confidence + bands[2].confidence + bands[3].confidence
           hits == Cardinality(H)
           confidence == total \div 3
           scaled == 700 * hits + 9 * confidence
<1>1. hits \in Nat
  <2>1. IsFiniteSet({<<1, 2>>, <<1, 3>>, <<2, 3>>})
    <3>1. IsFiniteSet({<<1, 2>>}) 
      BY FS_Singleton
    <3>2. IsFiniteSet({<<1, 2>>} \cup {<<1, 3>>}) 
      BY <3>1, FS_AddElement
    <3>3. IsFiniteSet(({<<1, 2>>} \cup {<<1, 3>>}) \cup {<<2, 3>>}) 
      BY <3>2, FS_AddElement
    <3>4. {<<1, 2>>, <<1, 3>>, <<2, 3>>} = ({<<1, 2>>} \cup {<<1, 3>>}) \cup {<<2, 3>>}
      OBVIOUS
    <3>. QED BY <3>3, <3>4
  <2>2. H \subseteq {<<1, 2>>, <<1, 3>>, <<2, 3>>}
    OBVIOUS
  <2>3. IsFiniteSet(H)
    BY <2>1, <2>2, FS_Subset
  <2>. QED BY <2>3, FS_CardinalityType
<1>2. total \in Int
  OBVIOUS
<1>3. confidence \in Int
  <2>. HIDE DEF total
  <2>. QED BY <1>2, Quotient
<1>4. scaled \in Int
  <2>. HIDE DEF hits, confidence
  <2>. QED BY <1>1, <1>3
<1>5. scaled \div 30 \in Int
  <2>. HIDE DEF scaled
  <2>. QED BY <1>4, Quotient
<1>6. Consensus(bands).confidence = confidence
  BY DEF Consensus
<1>7. Consensus(bands).agreement = scaled \div 30
  BY DEF Consensus
<1>. HIDE DEF confidence, scaled
<1>. QED BY <1>3, <1>5, <1>6, <1>7

\* However the bands look, a side gains five points at most and loses three at most.
LEMMA DeltaBounds ==
  ASSUME NEW items, IsFiniteSet(DOMAIN items), NEW side
  PROVE  Delta(side, items) \in -3..5
<1> DEFINE bands == BandsOf(items)
           consensus == Consensus(bands)
           sum == bands[1].persistence + bands[2].persistence + bands[3].persistence
           persistence == sum \div 3
           boost == Boost(consensus, persistence)
<1>1. \A i \in 1..3 : bands[i].confidence \in Int /\ bands[i].persistence \in Int
  <2> DEFINE asOf == IF items = <<>> THEN 0 ELSE items[Len(items)].at
  <2>1. \A i \in 1..3 : bands[i] = Band(items, asOf, Bands[i])
    BY DEF BandsOf
  <2>. HIDE DEF bands, asOf
  <2>. QED BY <2>1, BandIsTyped
<1>2. consensus.confidence \in Int /\ consensus.agreement \in Int
  <2>. HIDE DEF bands
  <2>. QED BY <1>1, ConsensusIsTyped
<1>3. persistence \in Int
  <2>1. sum \in Int
    <3>. HIDE DEF bands
    <3>. QED BY <1>1
  <2>. HIDE DEF sum
  <2>. QED BY <2>1, Quotient
<1>4. boost \in 1..5
  <2>. HIDE DEF consensus, persistence
  <2> DEFINE first == MaxBoost * consensus.agreement
             product == first * persistence
             second == product \div 100
             third == second * consensus.confidence
             scaled == (third + 5000) \div 10000
  <2>1. first \in Int
    BY <1>2 DEF MaxBoost
  <2>2. product \in Int
    <3>. HIDE DEF first
    <3>. QED BY <1>3, <2>1, Product
  <2>3. second \in Int
    <3>. HIDE DEF product
    <3>. QED BY <2>2, Quotient
  <2>4. third \in Int
    <3>. HIDE DEF second
    <3>. QED BY <1>2, <2>3, Product
  <2>5. scaled \in Int
    <3>. HIDE DEF third
    <3>. QED BY <2>4, Quotient
  <2>6. boost = Within(scaled, 1, MaxBoost)
    BY DEF Boost
  <2>. HIDE DEF scaled, boost
  <2>. QED BY <2>5, <2>6 DEF Within, MaxBoost
<1>5. Oppose(boost) \in 0..3
  <2>. HIDE DEF boost
  <2>1. boost \div 2 \in Int
    BY <1>4, Quotient
  <2>. QED BY <2>1 DEF Within, Oppose, MaxOppose
<1>6. Delta(side, items) = IF consensus.status # "ALIGNED" THEN 0
                           ELSE IF consensus.side = side THEN boost ELSE -Oppose(boost)
  BY DEF Delta
<1>. HIDE DEF consensus, boost
<1>. QED BY <1>4, <1>5, <1>6

-----------------------------------------------------------------------------
(* What makes a sample qualify.                                            *)

\* With the weights, the limits and a memory that moves the score by five points at
\* most, everything must hold but one of the two market categories.
LEMMA WhatQualifies ==
  ASSUME NEW side, NEW f, NEW delta \in -3..5
  PROVE  Qualifies(Adjusted(Score(side, f), delta), Confidence(side, f))
         <=> /\ f.assessment = "READY" /\ f.context.feed = "HEALTHY"
             /\ PhysicsConfirm(side, f.physics)
             /\ LiquidityConfirms(side, f.liquidity)
             /\ StateQualifies(side, f.context) \/ BehaviorQualifies(side, f.context)
BY DEF Qualifies, Adjusted, Within, Score, Confidence, Points, MinScore, MinConfidence

Numbers == Int \cup {None}
PhysicsReadings ==
  [priced : BOOLEAN, lag : Int, velocity : Numbers, acceleration : Numbers, spread : Numbers]
Statuses == {"HEALTHY", "STALE", "DISCONNECTED"}
BookReadings == [imbalance : Sides \cup {"NEUTRAL"}, shift : Sides \cup {"NEUTRAL"}]

\* A regime or a behaviour is unknown exactly when the frame cannot observe the market.
LEMMA RegimeKnown ==
  ASSUME NEW o, Observable(o) \in BOOLEAN
  PROVE  Regime(o) = "UNKNOWN" <=> ~Observable(o)
<1>1. CASE ~Observable(o)
  BY <1>1 DEF Regime
<1>2. CASE Observable(o)
  <2>1. CASE Volatile(o.physics)
    BY <1>2, <2>1 DEF Regime
  <2>2. CASE ~Volatile(o.physics)
    BY <1>2, <2>2 DEF Regime
  <2>. QED BY <2>1, <2>2
<1>. QED BY <1>1, <1>2

LEMMA BehaviorKnown ==
  ASSUME NEW o, NEW regime, NEW prev
  PROVE  Behavior(o, regime, prev) = "UNKNOWN" <=> regime = "UNKNOWN"
<1>1. CASE regime = "UNKNOWN"
  BY <1>1 DEF Behavior
<1>2. CASE regime # "UNKNOWN" /\ Unstable(o, regime)
  BY <1>2 DEF Behavior
<1>3. CASE regime # "UNKNOWN" /\ ~Unstable(o, regime)
  BY <1>3 DEF Behavior
<1>. QED BY <1>1, <1>2, <1>3

LEMMA SentenceSays ==
  ASSUME NEW regime, NEW behavior, NEW changed \in BOOLEAN
  PROVE  ContextSummary(regime, behavior, changed).says = "insufficient"
         <=> "UNKNOWN" \in {regime, behavior}
<1>1. CASE "UNKNOWN" \in {regime, behavior}
  <2>1. ContextSummary(regime, behavior, changed) = [says |-> "insufficient"]
    BY <1>1 DEF ContextSummary
  <2>. QED BY <1>1, <2>1
<1>2. CASE "UNKNOWN" \notin {regime, behavior} /\ regime = "ACTIVE" /\ behavior = "STABLE"
  <2>1. ContextSummary(regime, behavior, changed) = [says |-> "stable_active"]
    BY <1>2 DEF ContextSummary
  <2>. QED BY <1>2, <2>1
<1>3. CASE "UNKNOWN" \notin {regime, behavior} /\ regime = "QUIET" /\ ~changed
  <2>1. ContextSummary(regime, behavior, changed) = [says |-> "quiet"]
    BY <1>3 DEF ContextSummary
  <2>. QED BY <1>3, <2>1
<1>4. CASE /\ "UNKNOWN" \notin {regime, behavior}
           /\ ~(regime = "ACTIVE" /\ behavior = "STABLE") /\ ~(regime = "QUIET" /\ ~changed)
  <2>1. ContextSummary(regime, behavior, changed)
          = [says |-> "regime_and_behavior", regime |-> regime, behavior |-> behavior]
    BY <1>4 DEF ContextSummary
  <2>. QED BY <1>4, <2>1
<1>. QED BY <1>1, <1>2, <1>3, <1>4

\* The context is judged exactly when the market can be observed, and only then it is
\* not called insufficient.
LEMMA ContextJudged ==
  ASSUME NEW o, NEW prev, Observable(o) \in BOOLEAN
  PROVE  /\ Assessed(Context(o, prev)) = "READY" <=> Observable(o)
         /\ Context(o, prev).summary.says = "insufficient" <=> ~Observable(o)
<1> DEFINE c == Context(o, prev)
           regime == Regime(o)
           behavior == Behavior(o, regime, prev)
<1>1. /\ c.feed = o.feed /\ c.state = regime /\ c.behavior = behavior
      /\ c.summary = ContextSummary(regime, behavior, Changed(regime, prev))
  BY DEF Context
<1>2. (regime = "UNKNOWN" <=> ~Observable(o)) /\ (behavior = "UNKNOWN" <=> ~Observable(o))
  BY RegimeKnown, BehaviorKnown
<1>. HIDE DEF c, regime, behavior
<1>5. ContextSummary(regime, behavior, Changed(regime, prev)).says = "insufficient"
        <=> "UNKNOWN" \in {regime, behavior}
  <2>1. Changed(regime, prev) \in BOOLEAN
    BY DEF Changed
  <2>. QED BY <2>1, SentenceSays
<1>3. CASE Observable(o)
  <2>1. c.feed = "HEALTHY" /\ c.state # "UNKNOWN" /\ c.behavior # "UNKNOWN"
    BY <1>1, <1>2, <1>3 DEF Observable
  <2>2. Foundation(c) = [ready |-> TRUE, valid |-> TRUE]
    BY <2>1 DEF Foundation
  <2>3. Assessed(c) = "READY"
    BY <2>2 DEF Assessed, Assessment, Evaluation, Intent
  <2>4. c.summary.says # "insufficient"
    BY <1>1, <1>2, <1>3, <1>5
  <2>. QED BY <1>3, <2>3, <2>4 DEF c
<1>4. CASE ~Observable(o)
  <2>1. c.state = "UNKNOWN"
    BY <1>1, <1>2, <1>4
  <2>2. Foundation(c) = [ready |-> FALSE, valid |-> FALSE]
    BY <2>1 DEF Foundation
  <2>3. Assessed(c) = "BLOCKED"
    BY <2>2 DEF Assessed, Assessment, Evaluation, Intent
  <2>4. c.summary.says = "insufficient"
    BY <1>1, <1>2, <1>4, <1>5
  <2>. QED BY <1>4, <2>3, <2>4 DEF c
<1>. QED BY <1>3, <1>4

\* What the scores look at, for a side.
LEMMA DirectionQualifies ==
  ASSUME NEW o, NEW prev, NEW side \in Sides, o.physics \in PhysicsReadings, None \notin Int
  PROVE  LET c == Context(o, prev) IN
         /\ StateQualifies(side, c) <=> c.state \in {"ACTIVE", "TRENDING"} /\ Toward(side, o.physics.velocity)
         /\ BehaviorQualifies(side, c)
              <=> c.behavior \in {"STABLE", "ACCELERATING"} /\ Toward(side, o.physics.velocity)
<1> DEFINE c == Context(o, prev)
           v == o.physics.velocity
<1>1. c.stateDirection = Direction(v, "UP", "DOWN")
  BY DEF Context
<1>2. c.behaviorDirection = BehaviorDirection(c.behavior, v)
  BY DEF Context
<1>3. v \in Int \cup {None}
  BY DEF PhysicsReadings, Numbers
<1>. HIDE DEF c, v
<1>4. (c.stateDirection = IF side = "SELL" THEN "DOWN" ELSE "UP") <=> Toward(side, v)
  BY <1>1, <1>3 DEF Direction, Toward, Sides
<1>5. ASSUME c.behavior \in {"STABLE", "ACCELERATING"}
      PROVE  c.behaviorDirection = side <=> Toward(side, v)
  BY <1>2, <1>3, <1>5 DEF BehaviorDirection, Direction, Toward, Sides
<1>6. StateQualifies(side, c) <=> c.state \in {"ACTIVE", "TRENDING"} /\ Toward(side, v)
  BY <1>4 DEF StateQualifies
<1>7. BehaviorQualifies(side, c) <=> c.behavior \in {"STABLE", "ACCELERATING"} /\ Toward(side, v)
  BY <1>5 DEF BehaviorQualifies
<1>. QED BY <1>6, <1>7 DEF c, v

-----------------------------------------------------------------------------
(* The invariant.                                                          *)

\* Nothing decides the statuses and the readings but their handlers; a feed that ever
\* lived has priced.
Readings ==
  /\ physics \in PhysicsReadings
  /\ feed \in Statuses /\ dom \in Statuses
  /\ liquidity \in BookReadings \cup {None}
  /\ feed # "DISCONNECTED" => physics.priced

\* The newest frames and their samples are the same thing; no frame favours both sides.
Histories ==
  /\ favoured \in Seq(SUBSET Sides) /\ Len(favoured) <= StabilityWindow
  /\ history = [side \in Sides |-> [i \in 1..Len(favoured) |-> side \in favoured[i]]]
  /\ \A i \in 1..Len(favoured) : ~("BUY" \in favoured[i] /\ "SELL" \in favoured[i])

Deciding == decision \in Sides \cup {"NO_TRADE"} /\ DecisionIsFounded

DecisionInv == Readings /\ Histories /\ Deciding

\* A frame is judged exactly when the feed is live.
LEMMA ReadyFrame ==
  ASSUME Readings, NEW rate \in Rates
  PROVE  Facts(rate).assessment = "READY" <=> feed = "HEALTHY"
<1> DEFINE o == [feed |-> feed, rate |-> rate, physics |-> physics]
<1>1. Facts(rate).assessment = Assessed(Context(o, previous))
  BY DEF Facts
<1>2. Observable(o) \in BOOLEAN /\ (Observable(o) <=> feed = "HEALTHY")
  BY DEF Observable, Readings, PhysicsReadings, Statuses
<1>3. Assessed(Context(o, previous)) = "READY" <=> Observable(o)
  BY <1>2, ContextJudged
<1>. QED BY <1>1, <1>2, <1>3

\* A sample qualifies exactly when the market favours the side.
LEMMA SampleFavours ==
  ASSUME Readings, NEW rate \in Rates, NEW items \in Memories, NEW side \in Sides
  PROVE  Sample(side, Facts(rate), items) <=> Favours(side, Facts(rate))
<1> DEFINE o == [feed |-> feed, rate |-> rate, physics |-> physics]
           f == Facts(rate)
           delta == Influence[items][side]
<1>0. None \notin Int /\ None \notin BookReadings /\ None \notin Sides
  BY DecisionAssumption DEF BookReadings
<1>1. delta \in -3..5
  <2>1. items \in Seq([at : Nat, side : Sides \cup {"NEUTRAL"}, confidence : 0..100])
    BY DecisionAssumption
  <2>2. DOMAIN items = 1..Len(items) /\ Len(items) \in Nat
    BY <2>1
  <2>3. IsFiniteSet(DOMAIN items)
    <3>1. 1 \in Int /\ Len(items) \in Int
      BY <2>2
    <3>. QED BY <2>2, <3>1, FS_Interval
  <2>4. delta = Delta(side, items)
    BY DEF Influence
  <2>. QED BY <2>3, <2>4, DeltaBounds
<1>2. /\ f.context = Context(o, previous)
      /\ f.assessment = Assessed(Context(o, previous))
      /\ f.physics = physics /\ f.liquidity = FreshLiquidity
  BY DEF Facts
<1>3. o.feed = feed /\ o.physics = physics
  OBVIOUS
<1>5. f.context.feed = feed
  BY <1>2, <1>3 DEF Context
<1>6. f.assessment = "READY" <=> feed = "HEALTHY"
  BY ReadyFrame
<1>7. LiquidityConfirms(side, FreshLiquidity)
        <=> dom = "HEALTHY" /\ liquidity = [imbalance |-> side, shift |-> side]
  <2>1. CASE liquidity = None
    <3>1. FreshLiquidity = None
      BY <2>1 DEF FreshLiquidity
    <3>2. [imbalance |-> side, shift |-> side] \in BookReadings
      BY DEF BookReadings
    <3>. QED BY <1>0, <2>1, <3>1, <3>2 DEF LiquidityConfirms
  <2>2. CASE liquidity \in BookReadings
    <3>1. liquidity # None
      BY <1>0, <2>2
    <3>2. liquidity = [imbalance |-> side, shift |-> side]
            <=> liquidity.shift = side /\ liquidity.imbalance = side
      BY <2>2 DEF BookReadings
    <3>. QED BY <3>1, <3>2 DEF LiquidityConfirms, FreshLiquidity
  <2>. QED BY <2>1, <2>2 DEF Readings
<1>8. /\ StateQualifies(side, f.context)
           <=> f.context.state \in {"ACTIVE", "TRENDING"} /\ Toward(side, physics.velocity)
      /\ BehaviorQualifies(side, f.context)
           <=> f.context.behavior \in {"STABLE", "ACCELERATING"} /\ Toward(side, physics.velocity)
  BY <1>0, <1>2, <1>3, DirectionQualifies DEF Readings
<1>9. Sample(side, f, items)
        <=> /\ f.assessment = "READY" /\ f.context.feed = "HEALTHY"
            /\ PhysicsConfirm(side, f.physics)
            /\ LiquidityConfirms(side, f.liquidity)
            /\ StateQualifies(side, f.context) \/ BehaviorQualifies(side, f.context)
  <2>. HIDE DEF f, delta
  <2>1. Sample(side, f, items)
          = Qualifies(Adjusted(Score(side, f), delta), Confidence(side, f))
    BY DEF Sample, delta
  <2>. QED BY <1>1, <2>1, WhatQualifies
<1>10. Favours(side, f)
        <=> /\ feed = "HEALTHY" /\ dom = "HEALTHY"
            /\ liquidity = [imbalance |-> side, shift |-> side]
            /\ PhysicsConfirm(side, physics)
            /\ \/ f.context.state \in {"ACTIVE", "TRENDING"}
               \/ f.context.behavior \in {"STABLE", "ACCELERATING"}
  <2>. HIDE DEF f
  <2>. QED BY DEF Favours
<1>11. PhysicsConfirm(side, physics) => Toward(side, physics.velocity)
  BY DEF PhysicsConfirm
<1>. HIDE DEF f, o, delta
<1>. QED BY <1>2, <1>5, <1>6, <1>7, <1>8, <1>9, <1>10, <1>11 DEF f

\* A market that is with one side is not with the other.
LEMMA NotBoth ==
  ASSUME Readings, NEW f
  PROVE  ~(Favours("BUY", f) /\ Favours("SELL", f))
BY DEF Favours

\* What a sequence of at most three keeps of one more.
LEMMA Newest ==
  ASSUME NEW T, NEW s \in Seq(T), Len(s) <= StabilityWindow, NEW t \in T
  PROVE  /\ NewestOf(Append(s, t)) \in Seq(T)
         /\ Len(NewestOf(Append(s, t))) = IF Len(s) = 3 THEN 3 ELSE Len(s) + 1
         /\ \A i \in 1..Len(NewestOf(Append(s, t))) :
              NewestOf(Append(s, t))[i]
                = IF Len(s) = 3 THEN (IF i = 3 THEN t ELSE s[i + 1])
                  ELSE (IF i = Len(s) + 1 THEN t ELSE s[i])
<1> DEFINE all == Append(s, t)
<1>1. /\ all \in Seq(T) /\ Len(all) = Len(s) + 1
      /\ \A i \in 1..Len(all) : all[i] = IF i = Len(s) + 1 THEN t ELSE s[i]
  OBVIOUS
<1>0. Len(s) \in Nat
  OBVIOUS
<1>2. Len(s) \in 0..3
  <2>1. \A n \in Nat : n <= 3 => n \in 0..3
    OBVIOUS
  <2>. QED BY <1>0, <2>1 DEF StabilityWindow
<1>. HIDE DEF all
<1>3. CASE Len(s) = 3
  <2>1. NewestOf(all) = Tail(all)
    BY <1>1, <1>3 DEF NewestOf, StabilityWindow
  <2>2. /\ Tail(all) \in Seq(T) /\ Len(Tail(all)) = 3
        /\ \A i \in 1..3 : Tail(all)[i] = all[i + 1]
    BY <1>1, <1>3
  <2>. QED BY <1>1, <1>3, <2>1, <2>2 DEF all
<1>4. CASE Len(s) # 3
  <2>1. NewestOf(all) = all
    BY <1>1, <1>2, <1>4 DEF NewestOf, StabilityWindow
  <2>. QED BY <1>1, <1>2, <1>4, <2>1 DEF all
<1>. QED BY <1>3, <1>4

\* The samples of a side are what the frames saw of it.
Record(side, s) == [i \in 1..Len(s) |-> side \in s[i]]

LEMMA RecordGrows ==
  ASSUME NEW T, NEW s \in Seq(T), NEW t \in T, NEW side
  PROVE  Append(Record(side, s), side \in t) = Record(side, Append(s, t))
<1> DEFINE all == Append(s, t)
           b == side \in t
<1>1. /\ all \in Seq(T) /\ Len(all) = Len(s) + 1
      /\ \A i \in 1..Len(all) : all[i] = IF i = Len(s) + 1 THEN t ELSE s[i]
  OBVIOUS
<1>2. Record(side, s) \in Seq(BOOLEAN) /\ Len(Record(side, s)) = Len(s)
  BY DEF Record
<1>3. b \in BOOLEAN
  OBVIOUS
<1>4. /\ Append(Record(side, s), b) \in Seq(BOOLEAN)
      /\ Len(Append(Record(side, s), b)) = Len(s) + 1
      /\ \A i \in 1..Len(s) + 1 :
           Append(Record(side, s), b)[i] = IF i = Len(s) + 1 THEN b ELSE Record(side, s)[i]
  <2>. HIDE DEF b
  <2>. QED BY <1>2, <1>3
<1>5. Record(side, all) \in Seq(BOOLEAN) /\ Len(Record(side, all)) = Len(s) + 1
  BY <1>1 DEF Record
<1>6. ASSUME NEW i \in 1..Len(s) + 1
      PROVE  Append(Record(side, s), b)[i] = Record(side, all)[i]
  <2>1. Record(side, all)[i] = (side \in all[i])
    BY <1>1 DEF Record
  <2>2. CASE i = Len(s) + 1
    BY <1>1, <1>4, <2>1, <2>2
  <2>3. CASE i # Len(s) + 1
    <3>1. i \in 1..Len(s)
      BY <2>3
    <3>2. Record(side, s)[i] = (side \in s[i])
      BY <3>1 DEF Record
    <3>. QED BY <1>1, <1>4, <2>1, <2>3, <3>2
  <2>. QED BY <2>2, <2>3
<1>7. Len(s) \in Nat
  OBVIOUS
<1>. HIDE DEF all, b
<1>8. DOMAIN Append(Record(side, s), b) = DOMAIN Record(side, all)
  BY <1>4, <1>5
<1>9. Append(Record(side, s), b) = Record(side, all)
  BY <1>4, <1>5, <1>6, <1>7
<1>. QED BY <1>9 DEF all, b

LEMMA RecordMovesOn ==
  ASSUME NEW T, NEW s \in Seq(T)
  PROVE  \A side : NewestOf(Record(side, s)) = Record(side, NewestOf(s))
<1>. SUFFICES ASSUME NEW side
              PROVE  NewestOf(Record(side, s)) = Record(side, NewestOf(s))
  OBVIOUS
<1>1. Record(side, s) \in Seq(BOOLEAN) /\ Len(Record(side, s)) = Len(s) /\ Len(s) \in Nat
  BY DEF Record
<1>2. CASE Len(s) > StabilityWindow
  <2>1. NewestOf(s) = Tail(s) /\ NewestOf(Record(side, s)) = Tail(Record(side, s))
    BY <1>1, <1>2 DEF NewestOf
  <2>2. /\ Tail(s) \in Seq(T) /\ Len(Tail(s)) = Len(s) - 1
        /\ \A i \in 1..Len(s) - 1 : Tail(s)[i] = s[i + 1]
    BY <1>2 DEF StabilityWindow
  <2>3. /\ Tail(Record(side, s)) \in Seq(BOOLEAN) /\ Len(Tail(Record(side, s))) = Len(s) - 1
        /\ \A i \in 1..Len(s) - 1 : Tail(Record(side, s))[i] = Record(side, s)[i + 1]
    <3>. DEFINE r == Record(side, s)
    <3>. HIDE DEF r
    <3>1. r \in Seq(BOOLEAN) /\ Len(r) = Len(s) /\ Len(s) \in Nat
      BY <1>1 DEF r
    <3>2. /\ Tail(r) \in Seq(BOOLEAN) /\ Len(Tail(r)) = Len(s) - 1
          /\ \A i \in 1..Len(s) - 1 : Tail(r)[i] = r[i + 1]
      BY <3>1, <1>2 DEF StabilityWindow
    <3>. QED BY <3>2 DEF r
  <2>4. ASSUME NEW i \in 1..Len(s) - 1
        PROVE  Tail(Record(side, s))[i] = Record(side, Tail(s))[i]
    <3>1. Record(side, s)[i + 1] = (side \in s[i + 1])
      BY <1>1 DEF Record
    <3>2. Record(side, Tail(s))[i] = (side \in Tail(s)[i])
      BY <2>2 DEF Record
    <3>. QED BY <2>2, <2>3, <3>1, <3>2
  <2>5. Record(side, Tail(s)) \in Seq(BOOLEAN) /\ Len(Record(side, Tail(s))) = Len(s) - 1
    BY <2>2 DEF Record
  <2>6. Tail(Record(side, s)) = Record(side, Tail(s))
    BY <1>1, <2>3, <2>4, <2>5
  <2>. QED BY <2>1, <2>6
<1>3. CASE ~(Len(s) > StabilityWindow)
  BY <1>1, <1>3 DEF NewestOf
<1>. QED BY <1>2, <1>3

\* What a frame decides is a side favoured in this frame and the two before.
Founded(s, side) == Len(s) >= 3 /\ \A i \in (Len(s) - 2)..Len(s) : side \in s[i]

LEMMA RecordIsStable ==
  ASSUME NEW s \in Seq(SUBSET Sides), NEW side
  PROVE  Stable(Record(side, s)) <=> Founded(s, side)
<1> DEFINE samples == Record(side, s)
<1>1. /\ samples \in Seq(BOOLEAN) /\ Len(samples) = Len(s) /\ Len(s) \in Nat
      /\ \A i \in 1..Len(s) : samples[i] = (side \in s[i])
  BY DEF Record
<1>. HIDE DEF samples
<1>2. Stable(samples) <=> Len(s) >= 3 /\ \A i \in (Len(s) - 3 + 1)..Len(s) : samples[i]
  BY <1>1 DEF Stable, StabilityWindow
<1>3. ASSUME Len(s) >= 3, NEW i \in (Len(s) - 2)..Len(s)
      PROVE  i \in 1..Len(s)
  BY <1>1, <1>3
<1>4. Len(s) - 3 + 1 = Len(s) - 2
  BY <1>1
<1>. QED BY <1>1, <1>2, <1>3, <1>4 DEF Founded, samples

\* A side is ready exactly when it was favoured in each of the last three frames: what
\* else readiness asks for is asked of the newest sample already.
LEMMA WhatIsReady ==
  ASSUME Readings, NEW rate \in Rates, NEW side \in Sides,
         NEW s \in Seq(SUBSET Sides), Len(s) > 0,
         side \in s[Len(s)] <=> Favours(side, Facts(rate))
  PROVE  Readiness(side, Facts(rate), Record(side, s)) = "READY"
         <=> Len(s) >= 3 /\ \A i \in (Len(s) - 2)..Len(s) : side \in s[i]
<1> DEFINE f == Facts(rate)
           samples == Record(side, s)
<1>1. /\ samples \in Seq(BOOLEAN) /\ Len(samples) = Len(s) /\ Len(s) \in Nat
      /\ \A i \in 1..Len(s) : samples[i] = (side \in s[i])
  BY DEF Record
<1>2. Stable(samples) <=> Len(s) >= 3 /\ \A i \in (Len(s) - 2)..Len(s) : side \in s[i]
  BY RecordIsStable DEF Founded
<1>3. ASSUME Favours(side, f)
      PROVE  /\ f.liquidity # None /\ f.assessment = "READY" /\ f.context.feed = "HEALTHY"
             /\ LiquidityConfirms(side, f.liquidity)
  <2>1. f.liquidity = FreshLiquidity /\ f.context.feed = feed
    BY DEF Facts, Context
  <2>2. /\ feed = "HEALTHY" /\ dom = "HEALTHY" /\ liquidity = [imbalance |-> side, shift |-> side]
    <3>. HIDE DEF f
    <3>. QED BY <1>3 DEF Favours
  <2>4. f.assessment = "READY"
    BY <2>2, ReadyFrame
  <2>5. liquidity # None
    <3>1. liquidity \in BookReadings
      BY <2>2 DEF BookReadings
    <3>. QED BY <3>1, DecisionAssumption DEF BookReadings
  <2>6. FreshLiquidity = liquidity
    BY <2>2 DEF FreshLiquidity
  <2>7. LiquidityConfirms(side, liquidity)
    BY <2>2, <2>5 DEF LiquidityConfirms
  <2>. HIDE DEF f
  <2>. QED BY <2>1, <2>2, <2>4, <2>5, <2>6, <2>7
<1>4. Len(s) \in 1..Len(s) /\ samples[Len(s)] = (side \in s[Len(s)])
  BY <1>1
<1>5. ASSUME Len(s) >= 3, \A i \in (Len(s) - 2)..Len(s) : side \in s[i]
      PROVE  Favours(side, f)
  <2>1. Len(s) \in (Len(s) - 2)..Len(s)
    BY <1>1
  <2>. QED BY <1>5, <2>1
<1>. HIDE DEF f, samples
<1>6. CASE Len(s) >= 3 /\ \A i \in (Len(s) - 2)..Len(s) : side \in s[i]
  <2>1. Favours(side, f) /\ Stable(samples)
    BY <1>2, <1>5, <1>6
  <2>2. samples[Len(samples)]
    BY <1>1, <1>4, <2>1 DEF f
  <2>3. ~(Len(samples) < StabilityWindow)
    BY <1>1, <1>6 DEF StabilityWindow
  <2>4. Readiness(side, f, samples) = "READY"
    BY <1>3, <2>1, <2>2, <2>3 DEF Readiness
  <2>. QED BY <1>6, <2>4 DEF f, samples
<1>7. CASE ~(Len(s) >= 3 /\ \A i \in (Len(s) - 2)..Len(s) : side \in s[i])
  <2>1. ~Stable(samples)
    BY <1>2, <1>7
  <2>2. Readiness(side, f, samples) # "READY"
    BY <2>1 DEF Readiness
  <2>. QED BY <1>7, <2>2 DEF f, samples
<1>. QED BY <1>6, <1>7

-----------------------------------------------------------------------------
(* A frame.                                                                *)

\* The sides a frame sees, and the newest frames with it.
Seen(f) == {side \in Sides : Favours(side, f)}
WithFrame(f) == Append(favoured, Seen(f))

LEMMA FrameSamples ==
  ASSUME Readings, Histories, NEW rate \in Rates, NEW items \in Memories, NEW side \in Sides
  PROVE  SamplesOf(Facts(rate), items)[side] = Record(side, WithFrame(Facts(rate)))
<1> DEFINE f == Facts(rate)
<1>1. SamplesOf(f, items)[side] = Append(history[side], Sample(side, f, items))
  BY DEF SamplesOf, Samples
<1>2. history[side] = Record(side, favoured)
  BY DEF Histories, Record
<1>3. Sample(side, f, items) = (side \in Seen(f))
  <2>1. Sample(side, f, items) <=> side \in Seen(f)
    BY SampleFavours DEF Seen
  <2>2. Sample(side, f, items) \in BOOLEAN
    BY DEF Sample, Qualifies
  <2>. HIDE DEF f
  <2>. QED BY <2>1, <2>2
<1>4. Seen(f) \in SUBSET Sides
  BY DEF Seen
<1>5. Append(Record(side, favoured), side \in Seen(f)) = Record(side, WithFrame(f))
  BY <1>4, RecordGrows DEF Histories, WithFrame
<1>. HIDE DEF f
<1>6. Append(history[side], Sample(side, f, items)) = Append(Record(side, favoured), side \in Seen(f))
  BY <1>2, <1>3
<1>. QED BY <1>1, <1>5, <1>6 DEF f

\* Each side is decided exactly when it is so founded.
LEMMA FrameDecides ==
  ASSUME Readings, Histories, NEW rate \in Rates, NEW items \in Memories
  PROVE  LET f == Facts(rate)
             d == Decided(f, SamplesOf(f, items)) IN
         /\ d \in Sides \cup {"NO_TRADE"}
         /\ \A side \in Sides : d = side <=> Founded(WithFrame(f), side)
         /\ \A side \in Sides :
              Readiness(side, f, SamplesOf(f, items)[side]) = "READY" <=> Founded(WithFrame(f), side)
<1> DEFINE f == Facts(rate)
           samples == SamplesOf(f, items)
           s == WithFrame(f)
<1>1. Seen(f) \in SUBSET Sides
  BY DEF Seen
<1>2. s \in Seq(SUBSET Sides) /\ Len(s) > 0 /\ s[Len(s)] = Seen(f)
  BY <1>1 DEF WithFrame, Histories
<1>3. ASSUME NEW side \in Sides
      PROVE  Readiness(side, f, samples[side]) = "READY" <=> Founded(s, side)
  <2>1. samples[side] = Record(side, s)
    BY FrameSamples
  <2>2. side \in s[Len(s)] <=> Favours(side, f)
    BY <1>2 DEF Seen
  <2>. HIDE DEF samples, s
  <2>3. Readiness(side, f, Record(side, s)) = "READY" <=> Founded(s, side)
    BY <1>2, <2>2, WhatIsReady DEF Founded
  <2>. QED BY <2>1, <2>3
<1>4. ~(Founded(s, "BUY") /\ Founded(s, "SELL"))
  <2>1. ASSUME NEW side \in Sides, Founded(s, side)
        PROVE  Favours(side, f)
    <3>. HIDE DEF s
    <3>1. Len(s) \in (Len(s) - 2)..Len(s)
      BY <1>2
    <3>. QED BY <1>2, <2>1, <3>1 DEF Founded, Seen
  <2>2. "BUY" \in Sides /\ "SELL" \in Sides
    BY DEF Sides
  <2>. HIDE DEF f, s
  <2>. QED BY <2>1, <2>2, NotBoth
<1>. HIDE DEF f, samples, s
<1>5. Decided(f, samples)
        = Decision(Readiness("BUY", f, samples["BUY"]), Readiness("SELL", f, samples["SELL"]))
  BY DEF Decided
<1>6. /\ Readiness("BUY", f, samples["BUY"]) = "READY" <=> Founded(s, "BUY")
      /\ Readiness("SELL", f, samples["SELL"]) = "READY" <=> Founded(s, "SELL")
  BY <1>3 DEF Sides
<1>7. /\ Decided(f, samples) \in Sides \cup {"NO_TRADE"}
      /\ \A side \in Sides : Decided(f, samples) = side <=> Founded(s, side)
  BY <1>4, <1>5, <1>6 DEF Decision, Sides
<1>. QED BY <1>3, <1>7 DEF f, samples, s

\* What a frame does to the histories, said with the sides t that it favours.
Moved(t) ==
  /\ t \in SUBSET Sides /\ ~("BUY" \in t /\ "SELL" \in t)
  /\ favoured' = NewestOf(Append(favoured, t))
  /\ history' = [side \in Sides |-> Record(side, NewestOf(Append(favoured, t)))]
  /\ decision' \in Sides \cup {"NO_TRADE"}
  /\ \A side \in Sides : decision' = side <=> Founded(Append(favoured, t), side)

LEMMA FrameMoves ==
  ASSUME Readings, Histories, Frame
  PROVE  /\ \E t : Moved(t)
         /\ \E rate \in Rates : previous' = Facts(rate).context.state
         /\ UNCHANGED <<physics, feed, dom, liquidity>>
<1>1. PICK rate \in Rates, items \in Memories :
        /\ decision' = Decided(Facts(rate), SamplesOf(Facts(rate), items))
        /\ history' = [side \in Sides |-> NewestOf(SamplesOf(Facts(rate), items)[side])]
        /\ previous' = Facts(rate).context.state
        /\ favoured' = NewestOf(Append(favoured, Seen(Facts(rate))))
  BY DEF Frame, Seen
<1>2. PICK t : t = Seen(Facts(rate))
  OBVIOUS
<1>3. WithFrame(Facts(rate)) = Append(favoured, t)
  BY <1>2 DEF WithFrame
<1>4. t \in SUBSET Sides /\ ~("BUY" \in t /\ "SELL" \in t)
  <2>1. ~(Favours("BUY", Facts(rate)) /\ Favours("SELL", Facts(rate)))
    BY NotBoth
  <2>. QED BY <1>2, <2>1 DEF Seen
<1>5. favoured' = NewestOf(Append(favoured, t))
  BY <1>1, <1>2
<1>6. ASSUME NEW side \in Sides
      PROVE  NewestOf(SamplesOf(Facts(rate), items)[side]) = Record(side, NewestOf(Append(favoured, t)))
  <2>1. SamplesOf(Facts(rate), items)[side] = Record(side, Append(favoured, t))
    BY <1>3, FrameSamples
  <2>2. Append(favoured, t) \in Seq(SUBSET Sides)
    BY <1>4 DEF Histories
  <2>. QED BY <2>1, <2>2, RecordMovesOn
<1>7. history' = [side \in Sides |-> Record(side, NewestOf(Append(favoured, t)))]
  BY <1>1, <1>6
<1>8. /\ decision' \in Sides \cup {"NO_TRADE"}
      /\ \A side \in Sides : decision' = side <=> Founded(Append(favoured, t), side)
  BY <1>1, <1>3, FrameDecides
<1>9. Moved(t)
  BY <1>4, <1>5, <1>7, <1>8 DEF Moved
<1>10. UNCHANGED <<physics, feed, dom, liquidity>>
  BY DEF Frame
<1>. QED BY <1>1, <1>9, <1>10

\* The newest three frames decide.
LEMMA FoundedInNewest ==
  ASSUME NEW s \in Seq(SUBSET Sides), Len(s) <= StabilityWindow, NEW t \in SUBSET Sides,
         NEW side \in Sides
  PROVE  LET n == NewestOf(Append(s, t)) IN
         Founded(Append(s, t), side)
         <=> Len(n) = StabilityWindow /\ \A i \in 1..StabilityWindow : side \in n[i]
<1> DEFINE all == Append(s, t)
           n == NewestOf(Append(s, t))
<1>0. Len(s) \in Nat /\ Len(s) <= 3
  BY DEF StabilityWindow
<1>1. /\ all \in Seq(SUBSET Sides) /\ Len(all) = Len(s) + 1
      /\ \A i \in 1..Len(all) : all[i] = IF i = Len(s) + 1 THEN t ELSE s[i]
  OBVIOUS
<1>2. /\ n \in Seq(SUBSET Sides)
      /\ Len(n) = IF Len(s) = 3 THEN 3 ELSE Len(s) + 1
      /\ \A i \in 1..Len(n) : n[i] = IF Len(s) = 3 THEN (IF i = 3 THEN t ELSE s[i + 1])
                                     ELSE (IF i = Len(s) + 1 THEN t ELSE s[i])
  <2>1. s \in Seq(SUBSET Sides) /\ Len(s) <= StabilityWindow /\ t \in SUBSET Sides
    OBVIOUS
  <2>. QED BY <2>1, Newest
<1>. HIDE DEF all, n
<1>3. CASE Len(s) < 2
  BY <1>0, <1>1, <1>2, <1>3 DEF Founded, StabilityWindow, n, all
<1>4. CASE Len(s) = 2
  <2>1. Founded(all, side) <=> side \in s[1] /\ side \in s[2] /\ side \in t
    <3>1. Len(all) = 3 /\ all[1] = s[1] /\ all[2] = s[2] /\ all[3] = t
      BY <1>1, <1>4
    <3>2. Founded(all, side) <=> \A i \in 1..3 : side \in all[i]
      BY <3>1 DEF Founded
    <3>. QED BY <3>1, <3>2
  <2>2. Len(n) = 3 /\ n[1] = s[1] /\ n[2] = s[2] /\ n[3] = t
    BY <1>2, <1>4
  <2>. QED BY <2>1, <2>2 DEF StabilityWindow, n, all
<1>5. CASE Len(s) = 3
  <2>1. Founded(all, side) <=> side \in s[2] /\ side \in s[3] /\ side \in t
    <3>1. Len(all) = 4 /\ all[2] = s[2] /\ all[3] = s[3] /\ all[4] = t
      BY <1>1, <1>5
    <3>2. Founded(all, side) <=> \A i \in 2..4 : side \in all[i]
      BY <3>1 DEF Founded
    <3>. QED BY <3>1, <3>2
  <2>2. Len(n) = 3 /\ n[1] = s[2] /\ n[2] = s[3] /\ n[3] = t
    BY <1>2, <1>5
  <2>. QED BY <2>1, <2>2 DEF StabilityWindow, n, all
<1>6. Len(s) < 2 \/ Len(s) = 2 \/ Len(s) = 3
  <2>1. \A k \in Nat : k <= 3 => k < 2 \/ k = 2 \/ k = 3
    OBVIOUS
  <2>. QED BY <1>0, <2>1
<1>. QED BY <1>3, <1>4, <1>5, <1>6 DEF n, all

-----------------------------------------------------------------------------
(* The invariant holds.                                                    *)

LEMMA MeasuredIsTyped ==
  ASSUME NEW p \in PhysicsReadings, NEW move \in Int, NEW seconds \in {-1, 0, 1}, NEW spread \in Int,
         None \notin Int
  PROVE  Measured(p, move, seconds, spread) \in PhysicsReadings /\ Measured(p, move, seconds, spread).priced
<1> DEFINE seen == [p EXCEPT !.priced = TRUE, !.spread = spread]
<1>1. seen \in PhysicsReadings /\ seen.priced
  BY DEF PhysicsReadings, Numbers
<1>2. p.lag \in Int /\ p.velocity \in Numbers /\ p.acceleration \in Numbers
  BY DEF PhysicsReadings
<1>3. Acceleration(p, move) \in Numbers
  BY <1>2 DEF Acceleration, Numbers
<1>4. seen.lag = p.lag
  BY DEF PhysicsReadings
<1>5. Measured(p, move, seconds, spread)
        = IF VelocitySample(p, move, seconds) # None
          THEN [seen EXCEPT !.lag = 0, !.velocity = move, !.acceleration = Acceleration(p, move)]
          ELSE [seen EXCEPT !.lag = IF p.velocity = None THEN 0 ELSE seen.lag + seconds]
  BY DEF Measured
<1>. HIDE DEF seen
<1>6. CASE VelocitySample(p, move, seconds) # None
  <2>1. ASSUME NEW a \in Numbers
        PROVE  /\ [seen EXCEPT !.lag = 0, !.velocity = move, !.acceleration = a] \in PhysicsReadings
               /\ [seen EXCEPT !.lag = 0, !.velocity = move, !.acceleration = a].priced
    <3>1. 0 \in Int /\ move \in Numbers
      BY DEF Numbers
    <3>2. [seen EXCEPT !.lag = 0, !.velocity = move, !.acceleration = a] \in PhysicsReadings
      BY <1>1, <3>1 DEF PhysicsReadings
    <3>3. [seen EXCEPT !.lag = 0, !.velocity = move, !.acceleration = a].priced = seen.priced
      BY <1>1 DEF PhysicsReadings
    <3>. QED BY <1>1, <3>2, <3>3
  <2>. QED BY <1>3, <1>5, <1>6, <2>1
<1>7. CASE VelocitySample(p, move, seconds) = None
  <2>1. ASSUME NEW lag \in Int
        PROVE  LET m == [seen EXCEPT !.lag = lag] IN m \in PhysicsReadings /\ m.priced
    BY <1>1 DEF PhysicsReadings
  <2>2. (IF p.velocity = None THEN 0 ELSE seen.lag + seconds) \in Int
    BY <1>2, <1>4
  <2>. QED BY <1>5, <1>7, <2>1, <2>2
<1>. QED BY <1>6, <1>7

LEMMA LiquidityIsTyped ==
  ASSUME NEW b
  PROVE  Liquidity(b) \in BookReadings
BY DEF Liquidity, Bias, BookReadings, Sides

LEMMA InitDecisionInv == Init => DecisionInv
<1>. SUFFICES ASSUME Init PROVE DecisionInv
  OBVIOUS
<1>1. Readings
  BY DEF Init, Readings, NoPhysics, PhysicsReadings, Numbers, Statuses
<1>2. Histories
  <2>1. favoured = <<>> /\ Len(favoured) = 0
    BY DEF Init
  <2>2. [i \in 1..0 |-> TRUE] = <<>>
    OBVIOUS
  <2>3. \A side \in Sides : [i \in 1..Len(favoured) |-> side \in favoured[i]] = <<>>
    BY <2>1
  <2>4. history = [side \in Sides |-> <<>>]
    BY DEF Init
  <2>. QED BY <2>1, <2>3, <2>4 DEF Histories, StabilityWindow
<1>3. Deciding
  BY DEF Init, Deciding, DecisionIsFounded, Sides, StabilityWindow
<1>. QED BY <1>1, <1>2, <1>3 DEF DecisionInv

LEMMA FrameKeepsHistories ==
  ASSUME Histories, NEW t, Moved(t)
  PROVE  Histories' /\ Deciding'
<1> DEFINE n == NewestOf(Append(favoured, t))
<1>1. /\ favoured \in Seq(SUBSET Sides) /\ Len(favoured) <= StabilityWindow
      /\ t \in SUBSET Sides /\ ~("BUY" \in t /\ "SELL" \in t)
      /\ favoured' = n
      /\ history' = [side \in Sides |-> Record(side, n)]
  BY DEF Histories, Moved
<1>2. /\ n \in Seq(SUBSET Sides)
      /\ Len(n) = IF Len(favoured) = 3 THEN 3 ELSE Len(favoured) + 1
      /\ \A i \in 1..Len(n) :
           n[i] = IF Len(favoured) = 3 THEN (IF i = 3 THEN t ELSE favoured[i + 1])
                  ELSE (IF i = Len(favoured) + 1 THEN t ELSE favoured[i])
  BY <1>1, Newest
<1>3. ASSUME NEW side \in Sides
      PROVE  Founded(Append(favoured, t), side)
             <=> Len(n) = StabilityWindow /\ \A i \in 1..StabilityWindow : side \in n[i]
  BY <1>1, FoundedInNewest
<1>4. Deciding'
  <2>. HIDE DEF n
  <2>. QED BY <1>1, <1>3 DEF Deciding, DecisionIsFounded, Moved
<1>. HIDE DEF n
<1>5. Len(favoured) \in Nat /\ Len(favoured) <= 3
  BY <1>1 DEF StabilityWindow
<1>6. Len(n) <= 3
  <2>1. \A k \in Nat : k <= 3 => (IF k = 3 THEN 3 ELSE k + 1) <= 3
    OBVIOUS
  <2>. QED BY <1>2, <1>5, <2>1
<1>7. ASSUME NEW i \in 1..Len(n)
      PROVE  ~("BUY" \in n[i] /\ "SELL" \in n[i])
  <2>1. n[i] = t \/ \E j \in 1..Len(favoured) : n[i] = favoured[j]
    <3>1. CASE Len(favoured) = 3
      BY <1>2, <1>5, <3>1
    <3>2. CASE Len(favoured) # 3
      BY <1>2, <1>5, <3>2
    <3>. QED BY <3>1, <3>2
  <2>. QED BY <1>1, <2>1 DEF Histories
<1>8. Histories'
  BY <1>1, <1>2, <1>6, <1>7 DEF Histories, Record, StabilityWindow
<1>. QED BY <1>4, <1>8

LEMMA NextDecisionInv == DecisionInv /\ [Next]_vars => DecisionInv'
<1>. SUFFICES ASSUME DecisionInv, [Next]_vars PROVE DecisionInv'
  OBVIOUS
<1>. USE DEF DecisionInv
<1>0. Moves \subseteq Int /\ Spreads \subseteq Int /\ None \notin Int
  BY DecisionAssumption
<1>1. CASE Tick
  <2>1. PICK seconds \in {-1, 0, 1}, spread \in Spreads :
          \E move \in IF seconds > 0 THEN Moves ELSE {0} :
            physics' = Measured(physics, move, seconds, spread)
    BY <1>1 DEF Tick
  <2>2. PICK move \in IF seconds > 0 THEN Moves ELSE {0} :
          physics' = Measured(physics, move, seconds, spread)
    BY <2>1
  <2>3. move \in Int /\ spread \in Int
    BY <1>0
  <2>4. physics' \in PhysicsReadings /\ physics'.priced
    BY <1>0, <2>2, <2>3, MeasuredIsTyped DEF Readings
  <2>5. feed' = "HEALTHY" /\ UNCHANGED <<dom, liquidity, previous, history, decision, favoured>>
    BY <1>1 DEF Tick
  <2>. QED BY <2>4, <2>5 DEF Readings, Histories, Deciding, DecisionIsFounded, Statuses
<1>2. CASE Book
  BY <1>2, LiquidityIsTyped DEF Book, Readings, Histories, Deciding, DecisionIsFounded, Statuses
<1>3. CASE FeedFallsSilent
  BY <1>3 DEF FeedFallsSilent, Silent, Readings, Histories, Deciding, DecisionIsFounded, Statuses
<1>4. CASE BookFallsSilent
  BY <1>4 DEF BookFallsSilent, Silent, LiquidityAfterCheck, Readings, Histories, Deciding,
              DecisionIsFounded, Statuses
<1>5. CASE Frame
  <2>1. /\ \E t : Moved(t)
        /\ UNCHANGED <<physics, feed, dom, liquidity>>
    BY <1>5, FrameMoves
  <2>2. Readings'
    BY <2>1 DEF Readings
  <2>. QED BY <2>1, <2>2, FrameKeepsHistories
<1>6. CASE UNCHANGED vars
  BY <1>6 DEF vars, Readings, Histories, Deciding, DecisionIsFounded
<1>. QED BY <1>1, <1>2, <1>3, <1>4, <1>5, <1>6 DEF Next

LEMMA SpecDecisionInv == Spec => []DecisionInv
BY InitDecisionInv, NextDecisionInv, PTL DEF Spec

\* For all moves of the price, rates and books, and whatever the market memory holds, a
\* side is decided exactly when the market favoured it in each of the last three frames.
THEOREM DecisionIsFoundedHolds == Spec => []DecisionIsFounded
<1>1. DecisionInv => DecisionIsFounded
  BY DEF DecisionInv, Deciding
<1>. QED BY <1>1, SpecDecisionInv, PTL

\* Sides never change from one frame to the next: two of the last three frames of one
\* decision are among the last three of the next one.
THEOREM TurnsThroughNoTradeHolds == Spec => TurnsThroughNoTrade
<1>1. DecisionInv /\ [Next]_vars
        => [decision = decision' \/ "NO_TRADE" \in {decision, decision'}]_vars
  <2>. SUFFICES ASSUME DecisionInv, Next, decision # decision', "NO_TRADE" \notin {decision, decision'}
                PROVE  FALSE
    OBVIOUS
  <2>1. Readings /\ Histories /\ Deciding
    BY DEF DecisionInv
  <2>2. Frame
    BY DEF Next, Tick, Book, FeedFallsSilent, BookFallsSilent
  <2>3. PICK t : Moved(t)
    BY <2>1, <2>2, FrameMoves
  <2>4. decision \in Sides /\ decision' \in Sides
    BY <2>1, <2>3 DEF Deciding, Moved
  <2>5. Len(favoured) = 3 /\ decision \in favoured[3]
    BY <2>1, <2>4 DEF Deciding, DecisionIsFounded, StabilityWindow
  <2>6. Founded(Append(favoured, t), decision')
    BY <2>3, <2>4 DEF Moved
  <2>7. decision' \in favoured[3]
    <3>1. favoured \in Seq(SUBSET Sides) /\ t \in SUBSET Sides
      BY <2>1, <2>3 DEF Histories, Moved
    <3>2. /\ Len(Append(favoured, t)) = Len(favoured) + 1
          /\ \A i \in 1..Len(favoured) : Append(favoured, t)[i] = favoured[i]
      BY <3>1
    <3>3. Len(Append(favoured, t)) = 4 /\ Append(favoured, t)[3] = favoured[3]
      BY <2>5, <3>2
    <3>. QED BY <2>6, <3>3 DEF Founded
  <2>8. ~("BUY" \in favoured[3] /\ "SELL" \in favoured[3])
    BY <2>1, <2>5 DEF Histories
  <2>. QED BY <2>4, <2>5, <2>7, <2>8 DEF Sides
<1>. QED BY <1>1, SpecDecisionInv, PTL DEF Spec, TurnsThroughNoTrade

-----------------------------------------------------------------------------
(* What is said of a decision.                                             *)

\* The categories that bring a side points.
LEMMA WhatConfirms ==
  ASSUME NEW side, NEW f
  PROVE  /\ "physics" \in ConfirmedBy(side, f) <=> PhysicsConfirm(side, f.physics)
         /\ "liquidity" \in ConfirmedBy(side, f) <=> LiquidityConfirms(side, f.liquidity)
<1>1. /\ Breakdown(side, f).physics = Points(PhysicsConfirm(side, f.physics), 20)
      /\ Breakdown(side, f).liquidity = Points(LiquidityConfirms(side, f.liquidity), 15)
  BY DEF Breakdown
<1>2. /\ Points(PhysicsConfirm(side, f.physics), 20) > 0 <=> PhysicsConfirm(side, f.physics)
      /\ Points(LiquidityConfirms(side, f.liquidity), 15) > 0 <=> LiquidityConfirms(side, f.liquidity)
  BY DEF Points
<1>3. /\ Breakdown(side, f)["physics"] = Breakdown(side, f).physics
      /\ Breakdown(side, f)["liquidity"] = Breakdown(side, f).liquidity
  OBVIOUS
<1>. QED BY <1>1, <1>2, <1>3 DEF ConfirmedBy, Directional

\* What a frame that favours a side has read.
LEMMA FavouredFrame ==
  ASSUME Readings, NEW rate \in Rates, NEW side \in Sides, Favours(side, Facts(rate))
  PROVE  /\ feed = "HEALTHY" /\ dom = "HEALTHY"
         /\ Facts(rate).liquidity = [imbalance |-> side, shift |-> side]
         /\ Facts(rate).liquidity # None
         /\ Facts(rate).physics = physics
         /\ PhysicsConfirm(side, physics)
         /\ LiquidityConfirms(side, Facts(rate).liquidity)
<1>1. /\ feed = "HEALTHY" /\ dom = "HEALTHY" /\ liquidity = [imbalance |-> side, shift |-> side]
      /\ PhysicsConfirm(side, physics)
  BY DEF Favours
<1>2. Facts(rate).liquidity = liquidity /\ Facts(rate).physics = physics
  BY <1>1 DEF Facts, FreshLiquidity
<1>3. liquidity # None
  <2>1. liquidity \in BookReadings
    BY <1>1 DEF BookReadings
  <2>. QED BY <2>1, DecisionAssumption DEF BookReadings
<1>. QED BY <1>1, <1>2, <1>3 DEF LiquidityConfirms

LEMMA ToneOfReadiness ==
  ASSUME NEW side, NEW f, NEW samples
  PROVE  /\ Readiness(side, f, samples) \in {"READY", "NOT_READY", "UNKNOWN"}
         /\ Explanation(side, f, samples).readiness = "PASS" <=> Readiness(side, f, samples) = "READY"
         /\ Explanation(side, f, samples).readiness \in {"PASS", "FAIL", "UNKNOWN"}
<1>1. Readiness(side, f, samples) \in {"READY", "NOT_READY", "UNKNOWN"}
  BY DEF Readiness
<1>2. Explanation(side, f, samples).readiness = ReadinessStatus(Readiness(side, f, samples))
  BY DEF Explanation
<1>. QED BY <1>1, <1>2 DEF ReadinessStatus

LEMMA SelectionOfFrame ==
  ASSUME Readings, Histories, NEW rate \in Rates, NEW items \in Memories,
         NEW chosen \in Sides, Decided(Facts(rate), SamplesOf(Facts(rate), items)) = chosen
  PROVE  LET f == Facts(rate)
             samples == SamplesOf(f, items)
             said == ExplanationOf(chosen, f, samples)
             x == Explained(chosen, f, samples)
         IN  /\ x.selection = {"physics", "liquidity"}
             /\ {said.stability, said.readiness, said.physics, said.liquidity} = {"PASS"}
             /\ \A side \in Sides \ {chosen} : x.reason[side] \cap {"physics", "liquidity"} = {}
<1> DEFINE f == Facts(rate)
           samples == SamplesOf(f, items)
           s == WithFrame(f)
           said == ExplanationOf(chosen, f, samples)
           x == Explained(chosen, f, samples)
<1>1. /\ Founded(s, chosen)
      /\ Readiness(chosen, f, samples[chosen]) = "READY"
      /\ samples[chosen] = Record(chosen, s)
  BY FrameDecides, FrameSamples
<1>2. s \in Seq(SUBSET Sides) /\ Len(s) > 0 /\ s[Len(s)] = Seen(f)
  <2>1. Seen(f) \in SUBSET Sides
    BY DEF Seen
  <2>. QED BY <2>1 DEF WithFrame, Histories
<1>3. Favours(chosen, f)
  <2>. HIDE DEF f, s
  <2>1. Len(s) \in (Len(s) - 2)..Len(s)
    BY <1>2
  <2>. QED BY <1>1, <1>2, <2>1 DEF Founded, Seen
<1>4. /\ f.liquidity = [imbalance |-> chosen, shift |-> chosen] /\ f.liquidity # None
      /\ f.physics = physics /\ PhysicsConfirm(chosen, physics)
      /\ LiquidityConfirms(chosen, f.liquidity)
  BY <1>3, FavouredFrame
<1>. HIDE DEF f, samples, s
<1>5. said = Explanation(chosen, f, samples[chosen])
  BY DEF ExplanationOf, Sides
<1>6. said.readiness = "PASS"
  BY <1>1, <1>5, ToneOfReadiness
<1>7. said.stability = "PASS"
  <2>1. Len(samples[chosen]) = Len(s) /\ Len(s) >= 3
    <3>1. Len(Record(chosen, s)) = Len(s)
      BY <1>2 DEF Record
    <3>. QED BY <1>1, <3>1 DEF Founded
  <2>2. Stable(samples[chosen])
    BY <1>1, <1>2, RecordIsStable
  <2>3. StabilityStatus(samples[chosen]) = "PASS"
    BY <1>2, <2>1, <2>2 DEF StabilityStatus, StatusOf, StabilityWindow
  <2>. QED BY <1>5, <2>3 DEF Explanation
<1>8. said.physics = "PASS"
  <2>1. None \notin {f.physics.velocity, f.physics.acceleration}
    BY <1>4 DEF PhysicsConfirm, Toward
  <2>. QED BY <1>4, <1>5, <2>1 DEF Explanation, StatusOf
<1>9. said.liquidity = "PASS"
  BY <1>4, <1>5 DEF Explanation, StatusOf
<1>10. x.selection = {"physics", "liquidity"}
  <2>1. x.selection = SelectedFor(chosen, f)
    BY DEF Explained
  <2>2. "physics" \in ConfirmedBy(chosen, f) /\ "liquidity" \in ConfirmedBy(chosen, f)
    BY <1>4, WhatConfirms
  <2>. QED BY <2>1, <2>2 DEF SelectedFor
<1>11. ASSUME NEW side \in Sides \ {chosen}
       PROVE  x.reason[side] \cap {"physics", "liquidity"} = {}
  <2>1. x.reason[side] = ConfirmedBy(side, f)
    BY DEF Explained
  <2>2. ~PhysicsConfirm(side, f.physics)
    <3>1. physics.velocity \in Int \cup {None}
      BY DEF Readings, PhysicsReadings, Numbers
    <3>2. Toward(chosen, physics.velocity)
      BY <1>4 DEF PhysicsConfirm
    <3>3. ~Toward(side, physics.velocity)
      BY <3>1, <3>2 DEF Toward, Sides
    <3>. QED BY <1>4, <3>3 DEF PhysicsConfirm
  <2>3. ~LiquidityConfirms(side, f.liquidity)
    BY <1>4 DEF LiquidityConfirms
  <2>. QED BY <2>1, <2>2, <2>3, WhatConfirms
<1>. HIDE DEF said, x
<1>12. {said.stability, said.readiness, said.physics, said.liquidity} = {"PASS"}
  BY <1>6, <1>7, <1>8, <1>9
<1>. QED BY <1>10, <1>11, <1>12 DEF said, x, f, samples

LEMMA NoTradeOfFrame ==
  ASSUME Readings, Histories, NEW rate \in Rates, NEW items \in Memories,
         Decided(Facts(rate), SamplesOf(Facts(rate), items)) = "NO_TRADE"
  PROVE  LET f == Facts(rate)
             samples == SamplesOf(f, items)
         IN  /\ Explained("NO_TRADE", f, samples).missing # {}
             /\ Summary(ExplanationOf("NO_TRADE", f, samples), f.context) # "satisfied"
<1> DEFINE f == Facts(rate)
           samples == SamplesOf(f, items)
           s == WithFrame(f)
           e == Explanation("BUY", f, samples["BUY"])
<1>0. "BUY" \in Sides /\ "SELL" \in Sides /\ "NO_TRADE" \notin Sides
  BY DEF Sides
<1>1. /\ ~Founded(s, "BUY")
      /\ Readiness("BUY", f, samples["BUY"]) # "READY"
      /\ samples["BUY"] = Record("BUY", s)
  <2>1. \A side \in Sides : Decided(f, samples) = side <=> Founded(s, side)
    BY FrameDecides
  <2>2. \A side \in Sides : Readiness(side, f, samples[side]) = "READY" <=> Founded(s, side)
    BY FrameDecides
  <2>3. samples["BUY"] = Record("BUY", s)
    BY <1>0, FrameSamples
  <2>4. Decided(f, samples) # "BUY"
    OBVIOUS
  <2>. HIDE DEF f, samples, s
  <2>. QED BY <1>0, <2>1, <2>2, <2>3, <2>4
<1>2. s \in Seq(SUBSET Sides)
  <2>1. Seen(f) \in SUBSET Sides
    BY DEF Seen
  <2>. QED BY <2>1 DEF WithFrame, Histories
<1>. HIDE DEF f, samples, s
<1>3. ~Stable(samples["BUY"])
  BY <1>1, <1>2, RecordIsStable
<1>4. Explained("NO_TRADE", f, samples).missing = Missing(e, samples["BUY"])
  BY <1>0 DEF Explained
<1>5. "stability" \in Missing(e, samples["BUY"])
  BY <1>3 DEF Missing
<1>6. e.readiness \in {"FAIL", "UNKNOWN"}
  BY <1>1, ToneOfReadiness
<1>7. ExplanationOf("NO_TRADE", f, samples) = e
  BY DEF ExplanationOf
<1>. HIDE DEF e
<1>8. ASSUME NEW context PROVE Summary(e, context) # "satisfied"
  <2>1. CASE e.readiness = "UNKNOWN"
    BY <2>1 DEF Summary
  <2>2. CASE e.readiness = "FAIL" /\ e.stability = "FAIL"
    BY <2>2 DEF Summary
  <2>3. CASE e.readiness = "FAIL" /\ e.stability # "FAIL"
    BY <2>3 DEF Summary
  <2>. QED BY <1>6, <2>1, <2>2, <2>3
<1>. QED BY <1>4, <1>5, <1>7, <1>8 DEF f, samples

LEMMA FrameContext ==
  ASSUME Readings, NEW rate \in Rates
  PROVE  LET f == Facts(rate) IN
         /\ f.context.feed = feed /\ f.physics = physics
         /\ f.liquidity \in BookReadings \cup {None}
         /\ f.context.summary.says = "insufficient" <=> f.assessment # "READY"
         /\ \A side \in Sides :
              /\ StateQualifies(side, f.context) => Toward(side, physics.velocity)
              /\ BehaviorQualifies(side, f.context) => Toward(side, physics.velocity)
<1> DEFINE o == [feed |-> feed, rate |-> rate, physics |-> physics]
           f == Facts(rate)
<1>1. /\ f.context = Context(o, previous) /\ f.assessment = Assessed(Context(o, previous))
      /\ f.physics = physics /\ f.liquidity = FreshLiquidity
  BY DEF Facts
<1>2. f.context.feed = feed
  BY <1>1 DEF Context
<1>3. Observable(o) \in BOOLEAN
  BY DEF Observable, Readings, PhysicsReadings
<1>4. f.context.summary.says = "insufficient" <=> f.assessment # "READY"
  <2>1. Assessed(Context(o, previous)) = "READY" <=> Observable(o)
    BY <1>3, ContextJudged
  <2>2. Context(o, previous).summary.says = "insufficient" <=> ~Observable(o)
    BY <1>3, ContextJudged
  <2>. HIDE DEF f, o
  <2>. QED BY <1>1, <2>1, <2>2
<1>5. f.liquidity \in BookReadings \cup {None}
  BY <1>1 DEF FreshLiquidity, Readings
<1>6. o.physics = physics /\ physics \in PhysicsReadings /\ None \notin Int
  BY DecisionAssumption DEF Readings
<1>7. ASSUME NEW side \in Sides
      PROVE  /\ StateQualifies(side, f.context) => Toward(side, physics.velocity)
             /\ BehaviorQualifies(side, f.context) => Toward(side, physics.velocity)
  <2>. HIDE DEF o, f
  <2>. QED BY <1>1, <1>6, DirectionQualifies
<1>. HIDE DEF o
<1>. QED BY <1>1, <1>2, <1>4, <1>5, <1>7

\* A price moves toward one side only.
LEMMA OneWay ==
  ASSUME NEW x \in Int \cup {None}
  PROVE  ~(Toward("BUY", x) /\ Toward("SELL", x))
BY DEF Toward

LEMMA PointsOrNone ==
  ASSUME NEW holds \in BOOLEAN, NEW n \in Nat \ {0}
  PROVE  Points(holds, n) = 0 <=> ~holds
BY DEF Points

\* A side has all points exactly if every category holds.
LEMMA AllPoints ==
  ASSUME NEW side, NEW f
  PROVE  IsEligible(side, f)
         <=> /\ f.assessment = "READY" /\ f.context.feed = "HEALTHY"
             /\ StateQualifies(side, f.context) /\ BehaviorQualifies(side, f.context)
             /\ PhysicsConfirm(side, f.physics) /\ LiquidityConfirms(side, f.liquidity)
BY DEF IsEligible, Score, Points

\* No category brings points to both sides.
LEMMA NotBothPoints ==
  ASSUME Readings, NEW rate \in Rates, NEW k \in Directional
  PROVE  \E side \in Sides : Breakdown(side, Facts(rate))[k] = 0
<1> DEFINE f == Facts(rate)
<1>1. /\ f.physics = physics
      /\ \A side \in Sides :
           /\ StateQualifies(side, f.context) => Toward(side, physics.velocity)
           /\ BehaviorQualifies(side, f.context) => Toward(side, physics.velocity)
  BY FrameContext
<1>2. ~(Toward("BUY", physics.velocity) /\ Toward("SELL", physics.velocity))
  BY OneWay DEF Readings, PhysicsReadings, Numbers
<1>3. "BUY" \in Sides /\ "SELL" \in Sides
  BY DEF Sides
<1>. HIDE DEF f
<1>4. ~(StateQualifies("BUY", f.context) /\ StateQualifies("SELL", f.context))
  BY <1>1, <1>2, <1>3
<1>5. ~(BehaviorQualifies("BUY", f.context) /\ BehaviorQualifies("SELL", f.context))
  BY <1>1, <1>2, <1>3
<1>6. ~(PhysicsConfirm("BUY", f.physics) /\ PhysicsConfirm("SELL", f.physics))
  BY <1>1, <1>2 DEF PhysicsConfirm
<1>7. ~(LiquidityConfirms("BUY", f.liquidity) /\ LiquidityConfirms("SELL", f.liquidity))
  BY DEF LiquidityConfirms
<1>8. ASSUME NEW side
      PROVE  /\ ~StateQualifies(side, f.context) => Breakdown(side, f)["state"] = 0
             /\ ~BehaviorQualifies(side, f.context) => Breakdown(side, f)["behavior"] = 0
             /\ ~PhysicsConfirm(side, f.physics) => Breakdown(side, f)["physics"] = 0
             /\ ~LiquidityConfirms(side, f.liquidity) => Breakdown(side, f)["liquidity"] = 0
  BY DEF Breakdown, Points
<1>9. k \in {"state", "behavior", "physics", "liquidity"}
  BY DEF Directional
<1>10. CASE k = "state"
  BY <1>3, <1>4, <1>8, <1>10 DEF f
<1>11. CASE k = "behavior"
  BY <1>3, <1>5, <1>8, <1>11 DEF f
<1>12. CASE k = "physics"
  BY <1>3, <1>6, <1>8, <1>12 DEF f
<1>13. CASE k = "liquidity"
  BY <1>3, <1>7, <1>8, <1>13 DEF f
<1>. QED BY <1>9, <1>10, <1>11, <1>12, <1>13

LEMMA EvidenceOfFrame ==
  ASSUME Readings, NEW rate \in Rates
  PROVE  EvidenceFits(Facts(rate))
<1> DEFINE f == Facts(rate)
           ev == Evidence(f)
           x == Explained("NO_TRADE", f, [side \in Sides |-> << >>])
<1>0. None \notin Sides /\ None \notin BookReadings
  BY DecisionAssumption DEF BookReadings
<1>1. /\ f.context.feed = feed /\ f.physics = physics
      /\ f.liquidity \in BookReadings \cup {None}
      /\ f.context.summary.says = "insufficient" <=> f.assessment # "READY"
      /\ f.assessment = "READY" <=> feed = "HEALTHY"
  BY FrameContext, ReadyFrame
<1>. HIDE DEF f
<1>2. \A side \in Sides : x.details[side] = Details(side, Breakdown(side, f), ev)
                          /\ x.reason[side] = ConfirmedBy(side, f)
  BY DEF Explained
<1>. HIDE DEF x
<1>3. ASSUME NEW side \in Sides
      PROVE  /\ x.details[side]["physics"].shows <=> "physics" \in x.reason[side]
             /\ x.details[side]["liquidity"].shows <=> "liquidity" \in x.reason[side]
  <2>1. /\ Details(side, Breakdown(side, f), ev)["physics"].shows = PhysicsShows(side, ev)
        /\ Details(side, Breakdown(side, f), ev)["liquidity"].shows = LiquidityShows(side, ev)
    <3>. HIDE DEF ev
    <3>. QED BY DEF Details
  <2>2. PhysicsShows(side, ev) <=> PhysicsConfirm(side, f.physics)
    BY DEF PhysicsShows, PhysicsConfirm, Evidence
  <2>3. LiquidityShows(side, ev) <=> LiquidityConfirms(side, f.liquidity)
    <3>1. CASE f.liquidity = None
      BY <1>0, <3>1 DEF LiquidityShows, LiquidityConfirms, Evidence
    <3>2. CASE f.liquidity # None
      BY <3>2 DEF LiquidityShows, LiquidityConfirms, Evidence
    <3>. QED BY <3>1, <3>2
  <2>. HIDE DEF ev
  <2>. QED BY <1>2, <2>1, <2>2, <2>3, WhatConfirms
<1>4. ASSUME NEW side \in Sides
      PROVE  MatchesStrategy(side, f) <=> IsEligible(side, f)
  <2>1. LiquidityConfirms(side, f.liquidity)
          <=> f.liquidity # None /\ f.liquidity = [imbalance |-> side, shift |-> side]
    <3>1. CASE f.liquidity = None
      BY <3>1 DEF LiquidityConfirms
    <3>2. CASE f.liquidity \in BookReadings
      BY <1>0, <3>2 DEF LiquidityConfirms, BookReadings
    <3>. QED BY <1>1, <3>1, <3>2
  <2>2. PhysicsConfirm(side, f.physics)
          => None \notin {f.physics.velocity, f.physics.acceleration}
    BY DEF PhysicsConfirm, Toward
  <2>. QED BY <1>1, <2>1, <2>2, AllPoints DEF MatchesStrategy
<1>5. ASSUME NEW k \in Directional
      PROVE  0 \in {x.details[side][k].points : side \in Sides}
  <2>1. PICK side \in Sides : Breakdown(side, f)[k] = 0
    BY NotBothPoints DEF f
  <2>2. Details(side, Breakdown(side, f), ev)[k].points = Breakdown(side, f)[k]
    <3>. HIDE DEF ev
    <3>. DEFINE b == Breakdown(side, f)
    <3>1. k \in {"state", "behavior", "physics", "liquidity"}
      BY DEF Directional
    <3>2. /\ b["state"] = b.state /\ b["behavior"] = b.behavior
          /\ b["physics"] = b.physics /\ b["liquidity"] = b.liquidity
      OBVIOUS
    <3>. HIDE DEF b
    <3>3. /\ Details(side, b, ev)["state"].points = b.state
          /\ Details(side, b, ev)["behavior"].points = b.behavior
          /\ Details(side, b, ev)["physics"].points = b.physics
          /\ Details(side, b, ev)["liquidity"].points = b.liquidity
      BY DEF Details
    <3>. QED BY <3>1, <3>2, <3>3 DEF b
  <2>3. x.details[side][k].points = 0
    BY <1>2, <2>1, <2>2
  <2>. QED BY <2>3
<1>6. f.context.summary.says = "insufficient" <=> f.assessment # "READY"
  BY <1>1
<1>7. \A side \in Sides :
        /\ \A k \in {"physics", "liquidity"} : x.details[side][k].shows <=> k \in x.reason[side]
        /\ MatchesStrategy(side, f) <=> IsEligible(side, f)
  BY <1>3, <1>4
<1>8. \A k \in Directional : 0 \in {x.details[side][k].points : side \in Sides}
  BY <1>5
<1>9. EvidenceFits(f)
  BY <1>6, <1>7, <1>8 DEF EvidenceFits, x
<1>. QED BY <1>9 DEF f

LEMMA SelectionFitsFrame ==
  ASSUME Readings, Histories, NEW rate \in Rates
  PROVE  SelectionFits(Facts(rate))
<1> DEFINE f == Facts(rate)
<1> DEFINE Fits(items, samples, chosen) ==
             LET said == ExplanationOf(chosen, f, samples)
                 x    == Explained(chosen, f, samples)
             IN  IF chosen = "NO_TRADE"
                 THEN x.missing # {} /\ Summary(said, f.context) # "satisfied"
                 ELSE /\ x.selection = {"physics", "liquidity"}
                      /\ {said.stability, said.readiness, said.physics, said.liquidity} = {"PASS"}
                      /\ \A side \in Sides \ {chosen} :
                           x.reason[side] \cap {"physics", "liquidity"} = {}
<1>1. ASSUME NEW items \in Memories, NEW samples, samples = SamplesOf(f, items),
             NEW chosen, chosen = Decided(f, samples)
      PROVE  Fits(items, samples, chosen)
  <2>1. chosen \in Sides \cup {"NO_TRADE"} /\ "NO_TRADE" \notin Sides
    <3>1. "NO_TRADE" \notin Sides
      BY DEF Sides
    <3>. QED BY <1>1, <3>1, FrameDecides
  <2>2. CASE chosen = "NO_TRADE"
    <3>1. /\ Explained("NO_TRADE", f, samples).missing # {}
          /\ Summary(ExplanationOf("NO_TRADE", f, samples), f.context) # "satisfied"
      BY <1>1, <2>2, NoTradeOfFrame
    <3>. HIDE DEF f
    <3>. QED BY <2>2, <3>1
  <2>3. CASE chosen \in Sides
    <3>1. /\ Explained(chosen, f, samples).selection = {"physics", "liquidity"}
          /\ LET said == ExplanationOf(chosen, f, samples) IN
             {said.stability, said.readiness, said.physics, said.liquidity} = {"PASS"}
          /\ \A side \in Sides \ {chosen} :
               Explained(chosen, f, samples).reason[side] \cap {"physics", "liquidity"} = {}
      BY <1>1, <2>3, SelectionOfFrame
    <3>. HIDE DEF f
    <3>. QED BY <2>1, <2>3, <3>1
  <2>. QED BY <2>1, <2>2, <2>3
<1>2. ASSUME NEW items \in Memories
      PROVE  Fits(items, SamplesOf(f, items), Decided(f, SamplesOf(f, items)))
  <2>. HIDE DEF Fits
  <2>. QED BY <1>1
<1>. QED BY <1>2 DEF SelectionFits

\* Whatever a frame is about to say of its decision fits it: what is selected is
\* confirmed, what is not traded is said to miss something.
THEOREM ExplanationFitsHolds == Spec => []ExplanationFits
<1>1. DecisionInv => ExplanationFits
  BY SelectionFitsFrame, EvidenceOfFrame DEF DecisionInv, ExplanationFits
<1>. QED BY <1>1, SpecDecisionInv, PTL

-----------------------------------------------------------------------------
(* The decisions are a SignalStream.  Its side and its count, as functions of the       *)
(* newest frames.                                                          *)

LeanOf(s) ==
  LET last == IF s = <<>> THEN {} ELSE s[Len(s)]
  IN  IF \E side \in Sides : side \in last THEN CHOOSE side \in Sides : side \in last ELSE "NONE"
RunOf(s, n) == \A i \in (Len(s) - n + 1)..Len(s) : LeanOf(s) \in s[i]
IsCount(s, n) ==
  IF LeanOf(s) = "NONE" THEN n = 0 ELSE RunOf(s, n) /\ (n = Len(s) \/ ~RunOf(s, n + 1))
CountOf(s) == CHOOSE n \in 0..Len(s) : IsCount(s, n)

Disjoint(t) == ~("BUY" \in t /\ "SELL" \in t)
Frames ==
  {s \in Seq(SUBSET Sides) : Len(s) <= 3 /\ \A i \in 1..Len(s) : Disjoint(s[i])}

LEMMA LeanIs ==
  ASSUME NEW s \in Frames, NEW side \in Sides
  PROVE  LeanOf(s) = side <=> s # <<>> /\ side \in s[Len(s)]
<1>1. CASE s = <<>>
  BY <1>1 DEF LeanOf, Sides
<1>2. CASE s # <<>>
  <2>1. Len(s) \in 1..Len(s)
    BY <1>2 DEF Frames
  <2>2. Disjoint(s[Len(s)])
    BY <2>1 DEF Frames
  <2>3. ASSUME NEW t, Disjoint(t)
        PROVE  (IF \E a \in Sides : a \in t THEN CHOOSE a \in Sides : a \in t ELSE "NONE") = side
               <=> side \in t
    BY <2>3 DEF Disjoint, Sides
  <2>. QED BY <1>2, <2>2, <2>3 DEF LeanOf
<1>. QED BY <1>1, <1>2

LEMMA LeanNone ==
  ASSUME NEW s \in Frames
  PROVE  LeanOf(s) \in Sides \cup {"NONE"} /\ (LeanOf(s) = "NONE" => LeanOf(s) \notin Sides)
BY DEF LeanOf, Sides

\* There is one count.
LEMMA CountUnique ==
  ASSUME NEW s \in Frames, NEW m \in 0..Len(s), NEW n \in 0..Len(s), IsCount(s, m), IsCount(s, n)
  PROVE  m = n
<1>0. Len(s) \in Nat
  BY DEF Frames
<1>1. ASSUME NEW a \in 0..Len(s), NEW b \in 0..Len(s), IsCount(s, a), IsCount(s, b), a < b
      PROVE  FALSE
  <2>1. LeanOf(s) # "NONE"
    BY <1>0, <1>1 DEF IsCount
  <2>2. RunOf(s, b) /\ a # Len(s) /\ ~RunOf(s, a + 1)
    BY <1>0, <1>1, <2>1 DEF IsCount
  <2>3. \A i \in (Len(s) - (a + 1) + 1)..Len(s) : i \in (Len(s) - b + 1)..Len(s)
    BY <1>0, <1>1
  <2>. QED BY <2>2, <2>3 DEF RunOf
<1>. QED BY <1>0, <1>1

LEMMA CountExists ==
  ASSUME NEW s \in Frames
  PROVE  CountOf(s) \in 0..Len(s) /\ IsCount(s, CountOf(s))
<1>0. Len(s) \in Nat /\ Len(s) <= 3
  BY DEF Frames
<1>1. \E n \in 0..Len(s) : IsCount(s, n)
  <2>1. CASE LeanOf(s) = "NONE"
    BY <1>0, <2>1 DEF IsCount
  <2>2. CASE LeanOf(s) # "NONE"
    <3>1. s # <<>> /\ LeanOf(s) \in s[Len(s)]
      BY <2>2, LeanIs, LeanNone
    <3>2. Len(s) > 0
      BY <3>1 DEF Frames
    <3>3. RunOf(s, 1)
      BY <1>0, <3>1 DEF RunOf
    <3>7. PICK L : L = Len(s)
      OBVIOUS
    <3>8. L \in {1, 2, 3}
      BY <1>0, <3>2, <3>7
    <3>9. ASSUME NEW k \in 0..L, RunOf(s, k), k = L \/ ~RunOf(s, k + 1)
          PROVE  \E m \in 0..Len(s) : IsCount(s, m)
      BY <2>2, <3>7, <3>9 DEF IsCount
    <3>4. CASE L = 1 \/ ~RunOf(s, 2)
      <4>1. 1 \in 0..L /\ (1 = L \/ ~RunOf(s, 1 + 1))
        BY <3>4, <3>8
      <4>. QED BY <3>3, <3>9, <4>1
    <3>5. CASE L # 1 /\ RunOf(s, 2) /\ (L = 2 \/ ~RunOf(s, 3))
      <4>1. 2 \in 0..L /\ (2 = L \/ ~RunOf(s, 2 + 1))
        BY <3>5, <3>8
      <4>. QED BY <3>5, <3>9, <4>1
    <3>6. CASE L = 3 /\ RunOf(s, 3)
      <4>1. 3 \in 0..L /\ 3 = L
        BY <3>6, <3>8
      <4>. QED BY <3>6, <3>9, <4>1
    <3>. QED BY <3>4, <3>5, <3>6, <3>8
  <2>. QED BY <2>1, <2>2
<1>. QED BY <1>1 DEF CountOf

LEMMA CountIs ==
  ASSUME NEW s \in Frames, NEW n \in 0..Len(s), IsCount(s, n)
  PROVE  CountOf(s) = n
BY CountExists, CountUnique

\* Another frame counts as the stream does.
LEMMA CountMoves ==
  ASSUME NEW s \in Frames, NEW t \in SUBSET Sides, Disjoint(t)
  PROVE  LET n == NewestOf(Append(s, t)) IN
         /\ n \in Frames
         /\ CountOf(n) = IF LeanOf(n) = "NONE" THEN 0
                         ELSE IF LeanOf(n) # LeanOf(s) THEN 1
                         ELSE IF CountOf(s) < 3 THEN CountOf(s) + 1 ELSE CountOf(s)
<1> DEFINE n == NewestOf(Append(s, t))
<1>0. s \in Seq(SUBSET Sides) /\ Len(s) \in Nat /\ Len(s) <= 3 /\ Len(s) <= StabilityWindow
  BY DEF Frames, StabilityWindow
<1>1. /\ n \in Seq(SUBSET Sides)
      /\ Len(n) = IF Len(s) = 3 THEN 3 ELSE Len(s) + 1
      /\ \A i \in 1..Len(n) : n[i] = IF Len(s) = 3 THEN (IF i = 3 THEN t ELSE s[i + 1])
                                     ELSE (IF i = Len(s) + 1 THEN t ELSE s[i])
  BY <1>0, Newest
<1>. HIDE DEF n
<1>a. PICK L : L = Len(s)
  OBVIOUS
<1>b. PICK M : M = Len(n)
  OBVIOUS
<1>c. /\ L \in Nat /\ L <= 3
      /\ M = IF L = 3 THEN 3 ELSE L + 1
      /\ \A i \in 1..M : n[i] = IF L = 3 THEN (IF i = 3 THEN t ELSE s[i + 1])
                                ELSE (IF i = L + 1 THEN t ELSE s[i])
  BY <1>0, <1>1, <1>a, <1>b
\* Seen from the end, the frames have moved by one.
<1>2. /\ M \in 1..3 /\ M <= L + 1 /\ (M = 3 \/ M = L + 1)
      /\ n[M] = t
      /\ \A i \in 1..M - 1 : n[i] = s[i + L + 1 - M]
  <2>1. CASE L = 3
    BY <1>c, <2>1
  <2>2. CASE L # 3
    BY <1>c, <2>2
  <2>. QED BY <2>1, <2>2
<1>3. n \in Frames
  <2>1. ASSUME NEW i \in 1..M PROVE Disjoint(n[i])
    <3>1. CASE i = M
      BY <1>2, <3>1
    <3>2. CASE i # M
      <4>1. i + L + 1 - M \in 1..L
        BY <1>c, <1>2, <3>2
      <4>. QED BY <1>a, <1>b, <1>2, <3>2, <4>1 DEF Frames
    <3>. QED BY <3>1, <3>2
  <2>. QED BY <1>a, <1>b, <1>1, <1>2, <2>1 DEF Frames
<1>4. n # <<>>
  BY <1>2, <1>b
<1>5. CASE LeanOf(n) = "NONE"
  <2>1. IsCount(n, 0) /\ 0 \in 0..M
    BY <1>a, <1>b, <1>2, <1>5 DEF IsCount
  <2>. QED BY <1>a, <1>b, <1>3, <1>5, <2>1, CountIs DEF n
<1>6. ASSUME NEW side \in Sides, LeanOf(n) = side
      PROVE  LeanOf(n) # "NONE" /\ side \in t
  BY <1>a, <1>b, <1>2, <1>3, <1>4, <1>6, LeanIs, LeanNone
<1>7. ASSUME NEW side \in Sides, LeanOf(n) = side, NEW k \in 0..M - 1, k <= L
      PROVE  RunOf(n, k + 1) <=> \A i \in (L - k + 1)..L : side \in s[i]
  <2>1. RunOf(n, k + 1) <=> \A i \in (M - k)..M : side \in n[i]
    <3>1. M - (k + 1) + 1 = M - k
      BY <1>2
    <3>. QED BY <1>a, <1>b, <1>7, <3>1 DEF RunOf
  <2>2. ASSUME \A i \in (L - k + 1)..L : side \in s[i], NEW i \in (M - k)..M
        PROVE  side \in n[i]
    <3>1. CASE i = M
      BY <1>2, <1>6, <1>7, <3>1
    <3>2. CASE i # M
      <4>1. i \in 1..M - 1 /\ i + L + 1 - M \in (L - k + 1)..L
        BY <1>c, <1>2, <1>7, <3>2
      <4>. QED BY <1>2, <2>2, <4>1
    <3>. QED BY <3>1, <3>2
  <2>3. ASSUME \A i \in (M - k)..M : side \in n[i], NEW i \in (L - k + 1)..L
        PROVE  side \in s[i]
    <3>. DEFINE j == i + M - L - 1
    <3>1. j \in 1..M - 1 /\ j \in (M - k)..M /\ j + L + 1 - M = i
      BY <1>c, <1>2, <1>7
    <3>. HIDE DEF j
    <3>. QED BY <1>2, <2>3, <3>1
  <2>. QED BY <2>1, <2>2, <2>3
<1>8. ASSUME NEW side \in Sides, LeanOf(n) = side, LeanOf(s) # side
      PROVE  CountOf(n) = 1
  <2>1. RunOf(n, 1)
    <3>1. RunOf(n, 0 + 1)
      BY <1>c, <1>2, <1>7, <1>8
    <3>. QED BY <3>1
  <2>2. M = 1 \/ ~RunOf(n, 2)
    <3>1. CASE M # 1
      <4>1. L \in (L - 1 + 1)..L /\ 1 \in 0..M - 1 /\ 1 <= L
        BY <1>c, <1>2, <3>1
      <4>0. s # <<>>
        BY <1>a, <4>1
      <4>2. side \notin s[L]
        BY <1>a, <1>b, <1>8, <4>0, <4>1, LeanIs
      <4>3. ~RunOf(n, 1 + 1)
        BY <1>7, <1>8, <4>1, <4>2
      <4>. QED BY <4>3
    <3>. QED BY <3>1
  <2>3. IsCount(n, 1) /\ 1 \in 0..M
    BY <1>a, <1>b, <1>2, <1>6, <1>8, <2>1, <2>2 DEF IsCount
  <2>. QED BY <1>a, <1>b, <1>3, <2>3, CountIs
<1>9. ASSUME NEW side \in Sides, LeanOf(n) = side, LeanOf(s) = side
      PROVE  CountOf(n) = IF CountOf(s) < 3 THEN CountOf(s) + 1 ELSE CountOf(s)
  <2>1. PICK c : c = CountOf(s)
    OBVIOUS
  <2>2. c \in 0..L /\ IsCount(s, c)
    BY <1>a, <1>b, <2>1, CountExists
  <2>3. LeanOf(s) # "NONE" /\ RunOf(s, c) /\ (c = L \/ ~RunOf(s, c + 1))
    BY <1>a, <1>b, <1>9, <1>6, <2>2 DEF IsCount
  <2>4. ASSUME NEW k \in 0..L
        PROVE  RunOf(s, k) <=> \A i \in (L - k + 1)..L : side \in s[i]
    BY <1>a, <1>b, <1>9 DEF RunOf
  <2>5. CASE c < 3
    <3>1. c \in 0..M - 1 /\ c <= L
      BY <1>c, <1>2, <2>2, <2>5
    <3>2. RunOf(n, c + 1)
      BY <1>7, <1>9, <2>2, <2>3, <2>4, <3>1
    <3>3. c + 1 = M \/ ~RunOf(n, c + 1 + 1)
      <4>1. CASE c + 1 # M
        <5>1. c # L /\ c + 1 \in 0..M - 1 /\ c + 1 <= L /\ c + 1 \in 0..L
          BY <1>c, <1>2, <2>2, <2>5, <4>1
        <5>2. ~RunOf(s, c + 1)
          BY <2>3, <5>1
        <5>3. ~RunOf(n, (c + 1) + 1)
          BY <1>7, <1>9, <2>4, <5>1, <5>2
        <5>. QED BY <5>3
      <4>. QED BY <4>1
    <3>4. IsCount(n, c + 1) /\ c + 1 \in 0..M
      BY <1>a, <1>b, <1>2, <1>6, <1>9, <3>1, <3>2, <3>3 DEF IsCount
    <3>. QED BY <1>a, <1>b, <1>3, <2>1, <2>5, <3>4, CountIs
  <2>6. CASE ~(c < 3)
    <3>1. c = 3 /\ L = 3 /\ M = 3
      BY <1>c, <1>2, <2>2, <2>6
    <3>2. \A i \in (L - 2 + 1)..L : side \in s[i]
      <4>1. \A i \in (L - c + 1)..L : side \in s[i]
        BY <2>2, <2>3, <2>4
      <4>2. \A i \in (L - 2 + 1)..L : i \in (L - c + 1)..L
        BY <3>1
      <4>. QED BY <4>1, <4>2
    <3>3. RunOf(n, 2 + 1)
      BY <1>7, <1>9, <3>1, <3>2
    <3>4. IsCount(n, 3) /\ 3 \in 0..M
      BY <1>a, <1>b, <1>6, <1>9, <3>1, <3>3 DEF IsCount
    <3>. QED BY <1>a, <1>b, <1>3, <2>1, <2>6, <3>1, <3>4, CountIs
  <2>. QED BY <2>5, <2>6
<1>10. LeanOf(n) \in Sides \cup {"NONE"}
  BY <1>3, LeanNone
<1>11. CASE LeanOf(n) \in Sides
  BY <1>3, <1>6, <1>8, <1>9, <1>11 DEF n
<1>. QED BY <1>5, <1>10, <1>11

LEMMA StreamState ==
  ASSUME Histories
  PROVE  favoured \in Frames /\ Leaning = LeanOf(favoured)
<1>1. favoured \in Frames
  BY DEF Histories, Frames, Disjoint, StabilityWindow
<1>2. Leaning = LeanOf(favoured)
  BY DEF Leaning, LeanOf
<1>. QED BY <1>1, <1>2

\* The count of the mapping.
Counting ==
  CHOOSE n \in 0..Len(favoured) :
    IF Leaning = "NONE" THEN n = 0
    ELSE Run(n) /\ (n = Len(favoured) \/ ~Run(n + 1))

LEMMA CountingIs == Counting = CountOf(favoured)
<1>1. Leaning = LeanOf(favoured)
  BY DEF Leaning, LeanOf
<1>2. \A n : Run(n) <=> RunOf(favoured, n)
  BY <1>1 DEF Run, RunOf
<1>3. \A n : (IF Leaning = "NONE" THEN n = 0 ELSE Run(n) /\ (n = Len(favoured) \/ ~Run(n + 1)))
             <=> IsCount(favoured, n)
  BY <1>1, <1>2 DEF IsCount
<1>. QED BY <1>3 DEF Counting, CountOf

\* What the stream says of a frame: the decision is the side that it leans to, once the
\* count is full.
LEMMA DecisionOfCount ==
  ASSUME Histories, Deciding
  PROVE  decision = IF CountOf(favoured) = 3 THEN LeanOf(favoured) ELSE "NO_TRADE"
<1>0. favoured \in Frames /\ Len(favoured) \in Nat /\ Len(favoured) <= 3
  BY StreamState DEF Frames
<1>1. ASSUME NEW side \in Sides
      PROVE  decision = side <=> CountOf(favoured) = 3 /\ LeanOf(favoured) = side
  <2>1. decision = side <=> Len(favoured) = 3 /\ \A i \in 1..3 : side \in favoured[i]
    BY DEF Deciding, DecisionIsFounded, StabilityWindow
  <2>2. ASSUME decision = side
        PROVE  CountOf(favoured) = 3 /\ LeanOf(favoured) = side
    <3>1. Len(favoured) = 3 /\ (\A i \in 1..3 : side \in favoured[i]) /\ favoured # <<>>
      BY <2>1, <2>2
    <3>2. LeanOf(favoured) = side /\ LeanOf(favoured) # "NONE"
      BY <1>0, <3>1, LeanIs, LeanNone
    <3>3. RunOf(favoured, 3)
      BY <3>1, <3>2 DEF RunOf
    <3>4. IsCount(favoured, 3) /\ 3 \in 0..Len(favoured)
      BY <3>1, <3>2, <3>3 DEF IsCount
    <3>. QED BY <1>0, <3>2, <3>4, CountIs
  <2>3. ASSUME CountOf(favoured) = 3, LeanOf(favoured) = side
        PROVE  decision = side
    <3>1. 3 \in 0..Len(favoured) /\ IsCount(favoured, 3)
      BY <1>0, <2>3, CountExists
    <3>2. Len(favoured) = 3
      <4>1. PICK L : L = Len(favoured)
        OBVIOUS
      <4>2. L \in Nat /\ L <= 3 /\ 3 \in 0..L
        BY <1>0, <3>1, <4>1
      <4>3. L = 3
        BY <4>2
      <4>. QED BY <4>1, <4>3
    <3>3. LeanOf(favoured) # "NONE"
      BY <1>0, <2>3, LeanNone
    <3>4. RunOf(favoured, 3)
      BY <3>1, <3>3 DEF IsCount
    <3>5. \A i \in 1..3 : side \in favoured[i]
      BY <2>3, <3>2, <3>4 DEF RunOf
    <3>. QED BY <2>1, <3>2, <3>5
  <2>. QED BY <2>2, <2>3
<1>2. CASE CountOf(favoured) = 3
  <2>1. LeanOf(favoured) # "NONE"
    <3>1. IsCount(favoured, 3)
      BY <1>0, <1>2, CountExists
    <3>. QED BY <3>1 DEF IsCount
  <2>2. LeanOf(favoured) \in Sides
    BY <1>0, <2>1, LeanNone
  <2>. QED BY <1>1, <1>2, <2>2
<1>3. CASE CountOf(favoured) # 3
  BY <1>1, <1>3 DEF Deciding
<1>. QED BY <1>2, <1>3

StreamView ==
  /\ favoured \in Frames /\ Leaning = LeanOf(favoured)
  /\ Counting = CountOf(favoured)
  /\ decision = IF CountOf(favoured) = 3 THEN LeanOf(favoured) ELSE "NO_TRADE"

LEMMA StreamViewNow == Histories /\ Deciding => StreamView
BY StreamState, CountingIs, DecisionOfCount DEF StreamView

LEMMA StreamViewNext == Histories' /\ Deciding' => StreamView'
BY StreamViewNow, PTL

LEMMA StreamInit == Init => Stream!Init
<1>. SUFFICES ASSUME Init PROVE Stream!Init
  OBVIOUS
<1>1. Histories
  BY InitDecisionInv DEF DecisionInv
<1>2. favoured = <<>> /\ decision = "NO_TRADE"
  BY DEF Init
<1>3. Leaning = "NONE"
  BY <1>2 DEF Leaning
<1>4. Counting = 0
  <2>1. LeanOf(favoured) = "NONE" /\ favoured \in Frames
    BY <1>1, <1>3, StreamState
  <2>2. IsCount(favoured, 0) /\ 0 \in 0..Len(favoured)
    BY <1>2, <2>1 DEF IsCount
  <2>. QED BY <2>1, <2>2, CountIs, CountingIs
<1>. QED BY <1>2, <1>3, <1>4 DEF Stream!Init, Counting

LEMMA StreamStep ==
  ASSUME DecisionInv, [Next]_vars, DecisionInv'
  PROVE  [Stream!Next]_(Stream!stream)
<1>1. CASE UNCHANGED <<favoured, decision>>
  BY <1>1 DEF Stream!stream, Leaning, Run
<1>2. CASE Frame
  <2>0. Readings /\ Histories /\ Deciding /\ Histories' /\ Deciding'
    BY DEF DecisionInv
  <2>1. PICK t : Moved(t)
    BY <1>2, <2>0, FrameMoves
  <2>2. /\ favoured \in Frames /\ Leaning = LeanOf(favoured) /\ Counting = CountOf(favoured)
    BY <2>0, StreamState, CountingIs
  <2>3. /\ favoured' \in Frames /\ Leaning' = LeanOf(favoured')
        /\ Counting' = CountOf(favoured')
        /\ decision' = IF CountOf(favoured') = 3 THEN LeanOf(favoured') ELSE "NO_TRADE"
    BY <2>0, StreamViewNext DEF StreamView
  <2>4. CountOf(favoured') = IF LeanOf(favoured') = "NONE" THEN 0
                             ELSE IF LeanOf(favoured') # LeanOf(favoured) THEN 1
                             ELSE IF CountOf(favoured) < 3 THEN CountOf(favoured) + 1
                             ELSE CountOf(favoured)
    <3>1. PICK s : s = favoured
      OBVIOUS
    <3>2. favoured' = NewestOf(Append(s, t)) /\ t \in SUBSET Sides /\ Disjoint(t)
      BY <2>1, <3>1 DEF Moved, Disjoint
    <3>3. s \in Frames
      BY <2>2, <3>1
    <3>4. LET n == NewestOf(Append(s, t)) IN
          CountOf(n) = IF LeanOf(n) = "NONE" THEN 0
                         ELSE IF LeanOf(n) # LeanOf(s) THEN 1
                         ELSE IF CountOf(s) < 3 THEN CountOf(s) + 1 ELSE CountOf(s)
      BY <3>2, <3>3, CountMoves
    <3>. QED BY <3>1, <3>2, <3>4
  <2>5. Leaning' \in {"BUY", "SELL", "NONE"}
    BY <2>3, LeanNone DEF Sides
  <2>6. PICK r : r = Leaning'
    OBVIOUS
  <2>7. Stream!Frame(r)
    BY <2>2, <2>3, <2>4, <2>6 DEF Stream!Frame, Stream!Counted, Counting, StabilityWindow
  <2>8. r \in {"BUY", "SELL", "NONE"}
    BY <2>5, <2>6
  <2>9. Stream!Next
    BY <2>7, <2>8 DEF Stream!Next
  <2>. QED BY <2>9
<1>. QED BY <1>1, <1>2 DEF Next, Tick, Book, FeedFallsSilent, BookFallsSilent, vars

\* The decisions of the frames are the stream the trading side is modelled on: the
\* mapping counts the newest frames that favour the side of the last one.
THEOREM StreamIsImplemented == Spec => ImplementsStream
<1>1. Init => Stream!Init
  BY StreamInit
<1>2. DecisionInv /\ [Next]_vars /\ DecisionInv' => [Stream!Next]_(Stream!stream)
  BY StreamStep
<1>. QED BY <1>1, <1>2, SpecDecisionInv, PTL DEF Spec, ImplementsStream, Stream!Spec
=============================================================================
