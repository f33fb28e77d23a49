----------------------------- MODULE EntryTiming -----------------------------
(***************************************************************************)
(* What follows a signal, as two observers measure it (performance/tracker.py,    *)
(* entry_timing/tracker.py, entry_timing/classify.py). The tracker looks once, when   *)
(* the delay is over: did the price move the signal's way? The auditor follows the     *)
(* path until its window is over: the best and the worst of it, the points at each      *)
(* checkpoint, and whether the entry was early, late or normal.                      *)
(*                                                                         *)
(* A record is [id, side, entry, at, result, exit, points, done]; a path is           *)
(* [side, entry, at, mfe, mae, points], points being a function of the checkpoints      *)
(* reached so far. Both use the time of the frame, and nothing between two frames.     *)
(***************************************************************************)
EXTENDS Optional, Integers, Sequences, FiniteSetsExt, SequencesExt, Functions

CONSTANTS
  Delay,     \* evaluation_delay_seconds
  Offsets    \* CHECKPOINT_SECONDS; the last of them is TIMING_WINDOW_SECONDS

TimingWindow == Max(Offsets)

ASSUME TimingAssumption ==
  /\ Offsets \subseteq Nat \ {0} /\ IsFiniteSet(Offsets) /\ Offsets # {}
  /\ Delay = TimingWindow    \* both are 300 seconds

\* The members of s at the indices in K, in their order, and the sum of a sequence.
Where(s, K) ==
  FoldLeftDomain(LAMBDA kept, k : IF k \in K THEN Append(kept, s[k]) ELSE kept, << >>, s)
Total(s) == FoldLeft(+, 0, s)

\* signed_points.
Gained(side, entry, price) == IF side = "SELL" THEN entry - price ELSE price - entry

-----------------------------------------------------------------------------
(* PerformanceTracker.                                                     *)

\* _open_signal.
OpenSignal(id, side, price, now) ==
  [id |-> id, side |-> side, entry |-> price, at |-> now, result |-> "PENDING",
   exit |-> None, points |-> None, done |-> None]

Pending(record) == record.result = "PENDING"

ResultOf(points) == IF points > 0 THEN "SUCCESS"
                    ELSE IF points < 0 THEN "FAILED" ELSE "NEUTRAL"

\* _evaluate.
Judged(record, price, now) ==
  LET points == Gained(record.side, record.entry, price)
  IN  [record EXCEPT !.result = ResultOf(points), !.exit = price,
                     !.points = points, !.done = now]

\* evaluate_pending.
EvaluatePending(records, price, now) ==
  [k \in DOMAIN records |->
     IF Pending(records[k]) /\ now - records[k].at >= Delay
     THEN Judged(records[k], price, now) ELSE records[k]]

\* PerformanceTracker.snapshot; a mean is its sum and its count.
PerformanceOf(records) ==
  LET With(result) == Cardinality({k \in DOMAIN records : records[k].result = result})
      Of(side)     == Cardinality({k \in DOMAIN records : records[k].side = side})
      judged       == Where(records, {k \in DOMAIN records : ~Pending(records[k])})
  IN  [buys |-> Of("BUY"), sells |-> Of("SELL"),
       success |-> With("SUCCESS"), failed |-> With("FAILED"),
       neutral |-> With("NEUTRAL"), pending |-> With("PENDING"),
       points |-> Total([k \in DOMAIN judged |-> judged[k].points])]

-----------------------------------------------------------------------------
(* EntryTimingAuditor.                                                     *)

OpenPath(side, price, now) ==
  [side |-> side, entry |-> price, at |-> now, mfe |-> 0, mae |-> 0, points |-> << >>]

\* mutant: the newest price is taken for the worst.
AdvancedWorst(path, price, now) ==
  LET gained == Gained(path.side, path.entry, price)
      due    == {o \in Offsets : now - path.at >= o}
  IN  [path EXCEPT !.mfe = IF gained > @ THEN gained ELSE @, !.mae = gained,
                   !.points = [o \in due |-> IF o \in DOMAIN @ THEN @[o] ELSE gained]]

\* The frame's price goes into the extremes and into every checkpoint whose time
\* has come and that has no sample yet: a late frame fills several with one price.
Advanced(path, price, now) ==
  LET gained == Gained(path.side, path.entry, price)
      due    == {o \in Offsets : now - path.at >= o}
  IN  [path EXCEPT !.mfe = IF gained > @ THEN gained ELSE @,
                   !.mae = IF gained < @ THEN gained ELSE @,
                   !.points = [o \in due |-> IF o \in DOMAIN @ THEN @[o] ELSE gained]]

Over(path, now) == now - path.at >= TimingWindow

EarlyAdverse == 2    \* EARLY_ADVERSE_MIN, EARLY_RECOVERY_MIN
LateMfe      == 3    \* LATE_MFE_MAX
LateFollow   == 2    \* LATE_FOLLOWTHROUGH_MAX

\* classify_timing. "Immediate" and "then" of an early entry are not looked at: the
\* adverse excursion may come after the favourable one.
TimingClass(path) ==
  LET final == path.points[TimingWindow]
  IN  IF path.mae <= -EarlyAdverse /\ path.mfe >= EarlyAdverse /\ final > 0 THEN "EARLY"
      ELSE IF path.mfe < LateMfe /\ final <= LateFollow THEN "LATE"
      ELSE IF final > 0 /\ path.mfe >= -path.mae THEN "NORMAL" ELSE "INCONCLUSIVE"

\* _finalize.
Finalized(path) ==
  [side |-> path.side, entry |-> path.entry, at |-> path.at, mfe |-> path.mfe,
   mae |-> path.mae, points |-> path.points, class |-> TimingClass(path)]

\* update_price, for all paths: those whose window is over are audits, in their order.
Audited(paths, price, now) ==
  LET next == [k \in DOMAIN paths |-> Advanced(paths[k], price, now)]
      over == {k \in DOMAIN next : Over(next[k], now)}
      done == Where(next, over)
  IN  [open |-> Where(next, DOMAIN next \ over),
       finished |-> [k \in DOMAIN done |-> Finalized(done[k])]]

\* summary, over the audits that are complete: how many there are of each class,
\* and the sums behind the averages.
TimingSummary(audits) ==
  [signals |-> Len(audits),
   classes |-> [c \in {"EARLY", "LATE", "NORMAL", "INCONCLUSIVE"} |->
                  Cardinality({k \in DOMAIN audits : audits[k].class = c})],
   mfe |-> Total([k \in DOMAIN audits |-> audits[k].mfe]),
   mae |-> Total([k \in DOMAIN audits |-> audits[k].mae]),
   points |-> [o \in Offsets |-> Total([k \in DOMAIN audits |-> audits[k].points[o]])]]
=============================================================================
