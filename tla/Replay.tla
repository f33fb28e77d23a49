------------------------------- MODULE Replay -------------------------------
(***************************************************************************)
(* An observation session over the live validator and the replay that judges      *)
(* it (observation/, replay/). The session writes each frame down as a record of    *)
(* text fields; the replay reads the fields back and compares what the frame said     *)
(* with the prices that followed.                                              *)
(*                                                                         *)
(* A text field is the set of its words, and its number; no word of the fields     *)
(* kept here is part of another, so "is in the text" is "is one of the words".      *)
(* Prices are in ticks, scores in hundredths of a point out of a hundred, as in     *)
(* the stages. Confidences, and with them the label that compares a confidence        *)
(* with the rate of passes, are left out.                                       *)
(***************************************************************************)
EXTENDS LiveValidator

CONSTANTS
  CycleLimit,   \* max_cycles of the session
  MinCycles     \* min_cycles of its report

VARIABLES
  cycles,   \* the records, each with the frame it was made of
  market    \* the price series a replay is given

rvars == <<lvars, cycles, market>>

-----------------------------------------------------------------------------
(* The record.                                                             *)

\* _state_from_probability.
BreakBand(p) == IF p < 3500 THEN "LOW" ELSE IF p < 7000 THEN "MEDIUM" ELSE "HIGH"

PriceOrNone(swing) == IF swing = None THEN None ELSE swing.price

\* record_from_frame: a price is written as it is, a score on its scale of a
\* hundred, and a break by the side that pushes, its band and its probability.
Recorded(f) ==
  [high         |-> PriceOrNone(f.active["HIGH"]),
   low          |-> PriceOrNone(f.active["LOW"]),
   initiative   |-> <<f.initiative.side, f.initiative.phase>>,
   response     |-> <<f.response.side, f.response.state>>,
   continuation |-> <<f.continuation.side, f.continuation.state>>,
   score        |-> f.continuation.score,
   break        |-> <<f.break.side, BreakBand(f.break.probability)>>,
   probability  |-> f.break.probability,
   price        |-> f.price]

\* build_certification_report: the session never orders and never publishes, no
\* field is empty and the decision of a frame is DISABLED; the count is what counts.
Certified == Len(cycles) >= MinCycles

-----------------------------------------------------------------------------
(* The reading.                                                            *)

Says(field, word) == \E k \in DOMAIN field : field[k] = word

SideIn(field) == IF Says(field, "BUYER") THEN "BUYER"
                 ELSE IF Says(field, "SELLER") THEN "SELLER" ELSE "NONE"

\* The head of the field, when it is a level; else a level anywhere in the text.
TargetIn(field) ==
  IF field[1] \in {"HIGH", "LOW", "NONE"} THEN field[1]
  ELSE IF Says(field, "HIGH") THEN "HIGH"
  ELSE IF Says(field, "LOW") THEN "LOW" ELSE "NONE"

\* parse_observation. The numbers are taken as they are written: 80.00 is eighty,
\* not eight tenths. The checks count ten-thousandths of ONE.
Parsed(record) ==
  [high |-> record.high, low |-> record.low, price |-> record.price,
   initiative |-> SideIn(record.initiative),
   response |-> SideIn(record.response),
   continuation |-> SideIn(record.continuation),
   weak |-> Says(record.continuation, "WEAK"),
   score |-> 100 * record.score,
   target |-> TargetIn(record.break),
   probability |-> 100 * record.probability]

\* What the frame itself says, a probability of a hundred being certain: the
\* reading a record of all the fields would allow.
Foretold(f) ==
  [high |-> PriceOrNone(f.active["HIGH"]), low |-> PriceOrNone(f.active["LOW"]),
   price |-> f.price,
   initiative |-> f.initiative.side, response |-> f.response.side,
   continuation |-> f.continuation.side,
   weak |-> f.continuation.state = "WEAK",
   score |-> f.continuation.score,
   target |-> f.break.target,
   probability |-> f.break.probability]

-----------------------------------------------------------------------------
(* The checks. A verdict is TRUE for PASS.                                   *)

OneTick   == 1
Tolerance == 2      \* _TOL
Flat      == 1      \* _FLAT
ProbabilityHigh == 6000    \* ten-thousandths of one
ProbabilityLow  == 3500
ScoreLow        == 3500

\* subsequent_window: the points strictly after the record. They are sorted by
\* time, then price, and the last of that order is the one the drift is taken to.
Subsequent(points, time) == {p \in points : p.time > time}
LastPrice(path) ==
  (CHOOSE p \in path : \A q \in path :
     q.time < p.time \/ (q.time = p.time /\ q.price <= p.price)).price

PricesOf(path) == {p.price : p \in path}
Highest(path) == CHOOSE p \in PricesOf(path) : \A q \in PricesOf(path) : q <= p
Lowest(path)  == CHOOSE p \in PricesOf(path) : \A q \in PricesOf(path) : q >= p
NetChange(anchor, path) == LastPrice(path) - anchor

BrokeHigh(read, path) == read.high # None /\ Highest(path) > read.high + Tolerance
BrokeLow(read, path)  == read.low # None /\ Lowest(path) < read.low - Tolerance

ObjectiveVerdict(read, path) == ~BrokeHigh(read, path) /\ ~BrokeLow(read, path)

\* A side's drift may be flat or its own way; nobody's may be small.
Drifts(side, net) ==
  CASE side = "BUYER"  -> net >= -Flat
    [] side = "SELLER" -> net <= Flat
    [] OTHER           -> Size(net) <= 2 * Tolerance
InitiativeVerdict(read, path) ==
  Drifts(read.initiative, NetChange(read.price, path))

ResponseVerdict(read, path) ==
  CASE read.response = "SELLER" -> read.price - Lowest(path) >= OneTick
    [] read.response = "BUYER"  -> Highest(path) - read.price >= OneTick
    [] OTHER -> TRUE

ContinuationVerdict(read, path) ==
  \/ read.weak \/ read.score < ScoreLow
  \/ read.continuation = "NONE"
  \/ Drifts(read.continuation, NetChange(read.price, path))

BreakVerdict(read, path) ==
  CASE read.probability >= ProbabilityHigh ->
         \/ read.target = "HIGH" /\ BrokeHigh(read, path)
         \/ read.target = "LOW" /\ BrokeLow(read, path)
         \/ read.target = "NONE"
    [] read.probability <= ProbabilityLow ->
         ~BrokeHigh(read, path) /\ ~BrokeLow(read, path)
    [] OTHER -> TRUE

\* The verdicts of one record; with nothing after it, it is not contradicted.
Verdicts(read, path) ==
  IF path = {} THEN [k \in 1..5 |-> TRUE]
  ELSE <<ObjectiveVerdict(read, path), InitiativeVerdict(read, path),
         ResponseVerdict(read, path), ContinuationVerdict(read, path),
         BreakVerdict(read, path)>>

\* ReplayValidator.replay, over the cycles a session hands it.
Replayed == [k \in DOMAIN cycles |->
               Verdicts(Parsed(cycles[k].record), Subsequent(market, cycles[k].time))]
SessionPass == /\ cycles # << >>
               /\ \A k \in DOMAIN Replayed : \A m \in DOMAIN Replayed[k] : Replayed[k][m]

-----------------------------------------------------------------------------
(* The session.                                                            *)

RInit == LInit /\ cycles = << >> /\ market = {}

\* observe_live: each tick goes to the controller and its frame is recorded at
\* once; every tick is a point of the market that a replay reads later.
Observe(b, price) ==
  /\ Len(cycles) < CycleLimit
  /\ Tick(b, price)
  /\ cycles' = Append(cycles, [time |-> b, record |-> Recorded(frame'), of |-> frame'])
  /\ market' = market \cup {[time |-> b, price |-> price]}

\* The session has its cycles and stops; the feed goes on.
Unobserved(b, price) ==
  /\ Len(cycles) = CycleLimit
  /\ Tick(b, price)
  /\ market' = market \cup {[time |-> b, price |-> price]}
  /\ UNCHANGED cycles

RNext == \E tick \in Coming :
           Observe(tick.at, tick.price) \/ Unobserved(tick.at, tick.price)

RSpec == RInit /\ [][RNext]_rvars

-----------------------------------------------------------------------------
\* "High break probability expects breach; low expects hold" (checks.py): the
\* verdicts on a record are those on the frame it was made of.
ReplayJudgesTheFrame ==
  \A k \in DOMAIN cycles :
    Replayed[k] = Verdicts(Foretold(cycles[k].of), Subsequent(market, cycles[k].time))
=============================================================================
