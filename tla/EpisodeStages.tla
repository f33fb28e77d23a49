---------------------------- MODULE EpisodeStages ----------------------------
(***************************************************************************)
(* What the live validator reads out of the recent bars, stage by stage:        *)
(*   initiative/        who controls the auction, with a lifecycle of its own    *)
(*   response/          how the other side answers                           *)
(*   continuation/      whether the control goes on                          *)
(*   break_capability/  whether it suffices to break the objective            *)
(* The last three are pure functions of the stages before; the initiative         *)
(* remembers its previous state, in a checkpoint file too.                    *)
(*                                                                         *)
(* Scores are in hundredths of the code's points and rounded down at each step;   *)
(* prices are in ticks; a bar without range is skipped where the code divides by   *)
(* it. The lists of reasons and the confidences are left out.                  *)
(***************************************************************************)
EXTENDS Optional, Integers, Sequences, SequencesExt

Controls == {"BUYER", "SELLER", "NONE"}
Phases   == {"NONE", "EMERGING", "DOMINANT", "WEAKENING", "EXPIRED"}
Full     == 10000    \* 100 points

Sum(s, F(_)) == FoldLeft(LAMBDA total, bar : total + F(bar), 0, s)
Count(s, P(_)) == Len(SelectSeq(s, P))
Window(s, n) == IF Len(s) > n THEN SubSeq(s, Len(s) - n + 1, Len(s)) ELSE s
Capped(x) == IF x < 0 THEN 0 ELSE IF x > Full THEN Full ELSE x
Size(x) == IF x < 0 THEN -x ELSE x
Greater(x, y) == IF x > y THEN x ELSE y

Up(bar)    == bar.close > bar.open
Down(bar)  == bar.close < bar.open
Body(bar)  == Size(bar.close - bar.open)
Range_(bar) == bar.high - bar.low
\* A bar that goes the way of a side, and how near its end it closed.
With(bar, side) == IF side = "BUYER" THEN Up(bar) ELSE Down(bar)
CloseAt(bar, side) ==
  IF Range_(bar) = 0 THEN 0
  ELSE (Full * (IF side = "BUYER" THEN bar.close - bar.low
                ELSE bar.high - bar.close)) \div Range_(bar)
\* The bars at the end of a window that go the way of a side, without a gap.
Streak(w, side) ==
  LET Run(k) == \A j \in (Len(w) - k + 1)..Len(w) : With(w[j], side)
  IN  CHOOSE k \in 0..Len(w) : Run(k) /\ ~(k < Len(w) /\ Run(k + 1))
Net(w) == w[Len(w)].close - w[1].close
Toward(side, ticks) == IF side = "BUYER" THEN ticks ELSE -ticks
Other(side) == CASE side = "BUYER" -> "SELLER" [] side = "SELLER" -> "BUYER"
                 [] OTHER -> "NONE"

-----------------------------------------------------------------------------
(* Initiative: five channels of evidence, each with a side and a score.        *)

Silent == [side |-> "NONE", score |-> 0]

Impulse(bars) ==
  LET w == Window(bars, 5)
  IN  IF Len(bars) < 2 \/ Size(Net(w)) < 2 THEN Silent
      ELSE CASE Net(w) > 0 /\ Count(w, Up) >= Count(w, Down) ->
                  [side |-> "BUYER", score |-> Capped(500 * Net(w))]
             [] Net(w) < 0 /\ Count(w, Down) >= Count(w, Up) ->
                  [side |-> "SELLER", score |-> Capped(-500 * Net(w))]
             [] OTHER -> Silent

\* Velocities of the two halves of the window, in hundredths of a tick per bar.
Velocity(w) == (100 * Net(w)) \div Greater(1, Len(w) - 1)
EarlyHalf(w) == SubSeq(w, 1, Len(w) \div 2)
LateHalf(w)  == SubSeq(w, (Len(w) \div 2) + 1, Len(w))

Momentum(bars) ==
  LET w     == Window(bars, 6)
      late  == Velocity(LateHalf(w))
      accel == late - Velocity(EarlyHalf(w))
  IN  IF Len(bars) < 4 THEN Silent
      ELSE [side  |-> IF late > 5 THEN "BUYER" ELSE IF late < -5 THEN "SELLER"
                      ELSE "NONE",
            score |-> Capped(25 * Size(late) + 25 * Size(accel))]

\* The streak of analyze_candle_strength counts its last bar whatever it is.
AnyStreak(w) == Greater(1, Greater(Streak(w, "BUYER"), Streak(w, "SELLER")))

Pressure(bars) ==
  LET w == Window(bars, 5)
      n == Len(w)
      up == Count(w, Up)
      down == Count(w, Down)
      ranges == Sum(w, Range_)
      body == IF ranges = 0 THEN 0 ELSE (Full * Sum(w, Body)) \div ranges
      consistent == IF up = down THEN Full \div 2
                    ELSE (Full * Greater(up, down)) \div n
      closes == Sum(w, LAMBDA b : CloseAt(b, IF b.close >= b.open THEN "BUYER"
                                             ELSE "SELLER")) \div n
  IN  IF n = 0 THEN Silent
      ELSE [side  |-> IF up > down THEN "BUYER" ELSE IF down > up THEN "SELLER"
                      ELSE "NONE",
            score |-> Capped((30 * body + 30 * consistent + 25 * closes
                              + 15 * ((Full * AnyStreak(w)) \div n)) \div 100)]

\* The share of the recent volume that went each way, and the activity.
Volume(bar) == bar.volume
Liquidity(bars, side) ==
  LET w == Window(bars, 5)
      total == Sum(w, Volume)
  IN  IF total = 0 THEN 0
      ELSE (Full * Sum(SelectSeq(w, LAMBDA b : With(b, side)), Volume)) \div total
Energy(bars) ==
  LET w == Window(bars, 5)
      n == Len(w)
      range == (6000 * Sum(w, Range_)) \div (8 * n)
      volume == (4000 * Sum(w, Volume)) \div (20 * n)
  IN  IF n = 0 THEN 0
      ELSE (IF range > 6000 THEN 6000 ELSE range)
           + (IF volume > 4000 THEN 4000 ELSE volume)

\* build_evidence: what the channels say of the bars, and from it the intensity of
\* a side. Energy counts for a side that shows something, and for both by half when
\* neither does.
Evidence(bars) ==
  [channels  |-> <<Impulse(bars), Momentum(bars), Pressure(bars)>>,
   liquidity |-> [side \in {"BUYER", "SELLER"} |-> Liquidity(bars, side)],
   energy    |-> Energy(bars)]
Of(evidence, k, side) ==
  IF evidence.channels[k].side = side THEN evidence.channels[k].score ELSE 0
Shows(evidence, side) ==
  \/ \E k \in 1..3 : Of(evidence, k, side) > 0
  \/ evidence.liquidity[side] > 0
EnergyOf(evidence, side) ==
  IF Shows(evidence, side) THEN evidence.energy
  ELSE IF Shows(evidence, Other(side)) THEN 0 ELSE evidence.energy \div 2
Intensity(evidence, side) ==
  Capped((25 * Of(evidence, 1, side) + 20 * Of(evidence, 2, side)
          + 20 * Of(evidence, 3, side) + 20 * evidence.liquidity[side]
          + 15 * EnergyOf(evidence, side)) \div 100)

MinActivity == 1200
EmergingMin == 1800
DominantMin == 5500
Separation  == 800

\* select_dominant_side.
Controlling(buyer, seller) ==
  IF Greater(buyer, seller) < MinActivity THEN "NONE"
  ELSE IF buyer >= seller + Separation /\ buyer >= EmergingMin THEN "BUYER"
  ELSE IF seller >= buyer + Separation /\ seller >= EmergingMin THEN "SELLER"
  ELSE "NONE"

\* advance_lifecycle. Control implies the emerging minimum and the separation.
NextPhase(previous, side, intensity) ==
  IF side = "NONE"
  THEN IF previous \in {"NONE", "EXPIRED"} THEN "NONE" ELSE "EXPIRED"
  ELSE IF intensity >= DominantMin THEN "DOMINANT"
  ELSE IF previous \in {"DOMINANT", "WEAKENING"} THEN "WEAKENING"
  ELSE "EMERGING"

\* evaluate_initiative: what the bars show, and the phase that follows.
Phased(side, score, previous) ==
  [side |-> side, score |-> score, phase |-> NextPhase(previous, side, score)]
Led(buyer, seller, previous) ==
  CASE Controlling(buyer, seller) = "BUYER"  -> Phased("BUYER", buyer, previous)
    [] Controlling(buyer, seller) = "SELLER" -> Phased("SELLER", seller, previous)
    [] OTHER -> Phased("NONE", Greater(buyer, seller), previous)
Judged(evidence, previous) ==
  Led(Intensity(evidence, "BUYER"), Intensity(evidence, "SELLER"), previous)
Initiative(bars, previous) == Judged(Evidence(bars), previous)

NoInitiative == [side |-> "NONE", score |-> 0, phase |-> "NONE"]

-----------------------------------------------------------------------------
(* Response.                                                              *)

\* detect_counter_move: the ticks against the initiative, if there is a move.
CounterTicks(bars, initiative) ==
  Greater(0, Toward(Other(initiative.side), Net(Window(bars, 4))))
Countered(bars, initiative) ==
  LET w == Window(bars, 4)
      against == Count(w, LAMBDA b : With(b, Other(initiative.side)))
  IN  /\ initiative.side # "NONE" /\ Len(bars) >= 2
      /\ \/ CounterTicks(bars, initiative) >= 2
         \/ against >= Greater(1, Len(w) \div 2)

\* analyze_response_strength.
CounterStrength(bars, initiative) ==
  LET w == Window(bars, 4)
      directed == SelectSeq(w, LAMBDA b : With(b, Other(initiative.side)))
      ranged == SelectSeq(directed, LAMBDA b : Range_(b) > 0)
      ticks == CounterTicks(bars, initiative)
      body == IF ranged = << >> THEN 0
              ELSE Sum(ranged, LAMBDA b : (Full * Body(b)) \div Range_(b))
                   \div Len(ranged)
      volume == IF directed = << >> \/ Sum(w, Volume) = 0 THEN 3000
                ELSE Capped((5000 * Sum(directed, Volume) * Len(w))
                            \div (Sum(w, Volume) * Len(directed)))
      relative == Capped((5000 * ticks * 500) \div Greater(initiative.score, 100))
  IN  IF ~Countered(bars, initiative) THEN 0
      ELSE Capped((35 * body + 20 * volume + 30 * Capped(500 * ticks)
                   + 15 * relative) \div 100)

\* evaluate_initiative_preservation.
Preserved(bars, initiative, strength) ==
  \/ ~Countered(bars, initiative)
  \/ /\ ~(strength >= 7000
          /\ strength >= Greater(2500, (55 * initiative.score) \div 100))
     /\ ~(strength >= 5000 /\ CounterTicks(bars, initiative) >= 8)

\* evaluate_response, once the counter move is known and weighed.
Answer(bars, initiative, detected, strength) ==
  [side      |-> IF detected THEN Other(initiative.side) ELSE "NONE",
   state     |-> CASE ~detected \/ strength < 1500 -> "FAILED"
                   [] detected /\ strength >= 1500 /\ strength < 3500 -> "WEAK"
                   [] detected /\ strength >= 3500 /\ strength < 6500 -> "NEUTRAL"
                   [] OTHER -> "STRONG",
   preserved |-> Preserved(bars, initiative, strength)]
Response(bars, initiative) ==
  Answer(bars, initiative, Countered(bars, initiative), CounterStrength(bars, initiative))

-----------------------------------------------------------------------------
(* Continuation.                                                          *)

\* measure_pressure_persistence.
Persisting(bars, initiative, response) ==
  LET w == Window(bars, 5)
      side == initiative.side
      ticks == Greater(0, Toward(side, Net(w)))
      bodies == (Full * Count(w, LAMBDA b : With(b, side))) \div Len(w)
      base == (45 * Capped((Full * ticks) \div 12) + 35 * bodies
               + 20 * initiative.score) \div 100
      factor == CASE ~response.preserved -> 45
                  [] response.preserved /\ response.state = "STRONG" -> 65
                  [] response.preserved /\ response.state = "FAILED" -> 100
                  [] OTHER -> 85
  IN  IF side = "NONE" \/ Len(bars) < 2 THEN 0 ELSE Capped((base * factor) \div 100)

\* measure_momentum_decay: high is faded.
Decay(bars, initiative) ==
  LET w == Window(bars, 6)
      early == Toward(initiative.side, Velocity(EarlyHalf(w)))
      late  == Toward(initiative.side, Velocity(LateHalf(w)))
  IN  CASE initiative.side = "NONE" -> 0
        [] initiative.side # "NONE" /\ Len(bars) < 4 -> Full
        [] OTHER ->
             IF early <= 5 /\ late <= 5 THEN 8000
             ELSE IF late >= early /\ late > 5
                  THEN Greater(0, 4000 - ((late * 2000) \div Greater(early, 5) - 2000))
             ELSE Capped(4000 + ((early - late) * 6000) \div Greater(Size(early), 10))

\* measure_continuation_strength.
Supporting(bars, initiative) ==
  LET w == Window(bars, 5)
      side == initiative.side
      n == Len(w)
      support == SelectSeq(w, LAMBDA b : With(b, side))
      ranges == Sum(support, Range_)
      body == IF ranges = 0 THEN 0 ELSE (Full * Sum(support, Body)) \div ranges
      closes == Sum(w, LAMBDA b : CloseAt(b, side)) \div n
  IN  IF side = "NONE" \/ n = 0 THEN 0
      ELSE Capped((35 * ((Full * Len(support)) \div n) + 30 * closes
                   + 20 * ((Full * Streak(w, side)) \div n)
                   + 15 * Capped(body)) \div 100)

Continuation(bars, initiative, response) ==
  LET pressure == Persisting(bars, initiative, response)
      decay    == Decay(bars, initiative)
      score    == Capped((40 * pressure + 30 * (Full - decay)
                          + 30 * Supporting(bars, initiative)) \div 100)
      side     == IF score < 2000 THEN "NONE" ELSE initiative.side
  IN  [side |-> side, score |-> score, pressure |-> pressure, decay |-> decay,
       state |-> IF side = "NONE" \/ score < 3500 THEN "WEAK"
                 ELSE IF score < 7000 THEN "MEDIUM" ELSE "STRONG"]

-----------------------------------------------------------------------------
(* Break capability: the target is the high for a buyer, the low for a seller.  *)

\* mutant: the other side's objective is taken as the target.
TargetBehind(side) == CASE side = "BUYER" -> "LOW" [] side = "SELLER" -> "HIGH"
                        [] OTHER -> "NONE"
\* _resolve_target, before it is known whether that objective exists.
Aimed(initiative, continuation) ==
  IF continuation.side # "NONE" THEN continuation.side ELSE initiative.side
Target(side) == CASE side = "BUYER" -> "HIGH" [] side = "SELLER" -> "LOW"
                  [] OTHER -> "NONE"

\* measure_objective_pressure against an objective at a distance in ticks.
ObjectivePressure(initiative, response, continuation, distance) ==
  LET base == (35 * initiative.score
               + 20 * continuation.score + 20 * continuation.pressure
               + 25 * Capped(Full - 250 * distance)) \div 100
      factor == CASE ~response.preserved -> 40
                  [] response.preserved /\ response.state = "STRONG" -> 55
                  [] response.preserved /\ response.state = "FAILED" -> 100
                  [] OTHER -> 80
  IN  Capped((base * factor) \div 100)

\* evaluate_resistance.
Resistance(response, strength, distance) ==
  LET boost == (CASE response.state = "STRONG" -> 25
                  [] response.state = "NEUTRAL" -> 10
                  [] response.state = "WEAK" -> 5
                  [] OTHER -> 0) + (IF response.preserved THEN 0 ELSE 20)
  IN  Capped((50 * (100 * strength) + 35 * Capped(250 * distance)
              + 15 * Capped(400 * boost)) \div 100)

\* aggregate_break_evidence.
BreakProbability(pressure, resistance, initiative, response, continuation) ==
  LET core == Capped(5000 + (pressure - resistance) \div 2)
      adjust == (CASE continuation.state = "STRONG" -> 800
                   [] continuation.state = "WEAK" -> -800
                   [] OTHER -> 0)
                + (CASE initiative.phase = "DOMINANT" -> 500
                     [] initiative.phase \in {"NONE", "EXPIRED"} -> -500
                     [] initiative.phase = "WEAKENING" -> -200
                     [] OTHER -> 0)
                + (IF response.preserved THEN 400 ELSE -1200)
                - continuation.decay \div 10
  IN  Capped(core + adjust)

NoBreak == [side |-> "NONE", target |-> "NONE", probability |-> 0]

\* evaluate_break_capability: objective(t) is the objective of a target side, or
\* None.
Break(initiative, response, continuation, objective, price) ==
  LET side   == Aimed(initiative, continuation)
      target == Target(side)
  IN  IF side = "NONE" \/ objective[target] = None THEN NoBreak
      ELSE LET distance == Size(objective[target].price - price)
           IN  [side |-> side, target |-> target,
                probability |->
                  BreakProbability(
                    ObjectivePressure(initiative, response, continuation, distance),
                    Resistance(response, objective[target].strength, distance),
                    initiative, response, continuation)]
=============================================================================
