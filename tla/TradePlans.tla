----------------------------- MODULE TradePlans -----------------------------
(***************************************************************************)
(* A plan, its stop and its target (trade_planning/engine.py): the stop is put at the    *)
(* extreme of the move that led to the signal, else at the extreme of the whole price     *)
(* history, else a fixed distance away. Then the position lock and the panels of the       *)
(* open plan (position_lock/manager.py, dashboard/controller.py).                      *)
(*                                                                         *)
(* prices and moves are the two histories, oldest first: the price of each frame, and     *)
(* the velocity of each frame that had one. Both are bounded by the same length, and      *)
(* a frame without velocity makes the second the shorter one.                         *)
(*                                                                         *)
(* The lock does not look at the plans: it is told when one is activated, when one is      *)
(* closed, and which signals found it locked, and it counts what it is told since the       *)
(* process started. A lock is [opened, blockedAt, buys, sells, closedFor]: the time of      *)
(* the plan that locks it (None: IDLE), the last signal that it stopped, the signals        *)
(* stopped of each side, and how long each plan that it saw close was open.               *)
(***************************************************************************)
EXTENDS Optional, Integers, Sequences

CONSTANTS
  HistorySize,     \* price_history_size
  MinStop,         \* min_stop_points
  RewardRatio      \* default_rr

ASSUME PlanAssumption ==
  HistorySize \in Nat \ {0, 1} /\ MinStop \in Nat \ {0} /\ RewardRatio \in Nat \ {0}

\* What a plan is made of.
Plans == [side : {"BUY", "SELL"}, entry : Nat, stop : Int, target : Int, at : Nat,
          result : {"NONE", "WIN", "LOSS"}, points : Int, closed : Nat]

\* A bounded history: the oldest sample makes room.
Remembered(history, sample) ==
  LET all == Append(history, sample)
  IN  IF Len(all) > HistorySize THEN Tail(all) ELSE all

Seen(prices) == {prices[k] : k \in DOMAIN prices}
LowestOf(S)  == CHOOSE p \in S : \A q \in S : p <= q
HighestOf(S) == CHOOSE p \in S : \A q \in S : p >= q

\* The index at which the walk back over the velocities stops: one after the newest
\* velocity that does not go the side's way, or the first. It is an index into moves,
\* and is then used as one into prices.
Against(side, move) == IF side = "BUY" THEN move <= 0 ELSE move >= 0
WalkedTo(side, moves, n) ==
  LET A == {k \in DOMAIN moves : Against(side, moves[k])}
  IN  IF A = {} THEN 1
      ELSE IF HighestOf(A) + 1 <= n THEN HighestOf(A) + 1 ELSE n

\* _momentum_origin_low and _momentum_origin_high: the prices since the move began.
OriginPrices(side, prices, moves) ==
  IF Len(prices) < 2 \/ Len(moves) < 2 THEN Seen(prices)
  ELSE Seen(SubSeq(prices, WalkedTo(side, moves, Len(prices)), Len(prices)))

\* _buy_stop.
BuyStop(prices, moves, entry) ==
  LET origin == OriginPrices("BUY", prices, moves)
  IN  IF origin # {} /\ LowestOf(origin) < entry THEN LowestOf(origin)
      ELSE IF prices # << >> /\ LowestOf(Seen(prices)) < entry THEN LowestOf(Seen(prices))
      ELSE entry - MinStop

\* _sell_stop.
SellStop(prices, moves, entry) ==
  LET origin == OriginPrices("SELL", prices, moves)
  IN  IF origin # {} /\ HighestOf(origin) > entry THEN HighestOf(origin)
      ELSE IF prices # << >> /\ HighestOf(Seen(prices)) > entry THEN HighestOf(Seen(prices))
      ELSE entry + MinStop

\* _build_plan: the reward is the risk times the ratio, on the other side of the entry.
PlanFor(side, prices, moves, entry, now) ==
  LET stop == IF side = "BUY" THEN BuyStop(prices, moves, entry)
              ELSE SellStop(prices, moves, entry)
  IN  [side |-> side, entry |-> entry, stop |-> stop,
       target |-> entry + RewardRatio * (entry - stop), at |-> now,
       result |-> "NONE", points |-> 0, closed |-> 0]

Risk(plan) == IF plan.side = "BUY" THEN plan.entry - plan.stop ELSE plan.stop - plan.entry

\* _check_exit: the stop is looked at first.
ExitAt(plan, price) ==
  LET past(level) == IF plan.side = "BUY" THEN price <= level ELSE price >= level
      at(level)   == IF plan.side = "BUY" THEN price >= level ELSE price <= level
  IN  IF past(plan.stop) THEN "LOSS" ELSE IF at(plan.target) THEN "WIN" ELSE "NONE"

\* update_price: the plan is closed at the level that was hit, not at the price.
ClosedAt(plan, price, now) ==
  LET result == ExitAt(plan, price)
  IN  IF result = "NONE" THEN plan
      ELSE [plan EXCEPT !.result = result, !.closed = now,
              !.points = IF result = "WIN" THEN RewardRatio * Risk(plan) ELSE -Risk(plan)]

-----------------------------------------------------------------------------
(* The lock.                                                               *)

Unlocked == [opened |-> None, blockedAt |-> None, buys |-> 0, sells |-> 0,
             closedFor |-> << >>]

Locked(lock) == lock.opened # None

\* on_plan_activated: what was stopped before is not shown for this plan.
OnPlanActivated(lock, plan) == [lock EXCEPT !.opened = plan.at, !.blockedAt = None]

\* on_plan_closed: ACTIVE, CLOSED and IDLE again, in one call.
OnPlanClosed(lock, plan) ==
  LET opened == IF Locked(lock) THEN lock.opened ELSE plan.at
      held   == IF plan.closed > opened THEN plan.closed - opened ELSE 0
  IN  [lock EXCEPT !.closedFor = Append(@, held), !.opened = None, !.blockedAt = None]

\* record_blocked; the log of the newest five hundred is not read.
RecordBlocked(lock, side, now) ==
  [lock EXCEPT !.buys = IF side = "BUY" THEN @ + 1 ELSE @,
               !.sells = IF side = "SELL" THEN @ + 1 ELSE @,
               !.blockedAt = now]

-----------------------------------------------------------------------------
(* The panels.                                                             *)

\* Where the price stands between the stop and the target of an open plan.
Standing(plan, price) ==
  IF plan.side = "BUY"
  THEN [pnl |-> price - plan.entry, toStop |-> price - plan.stop,
        toTarget |-> plan.target - price]
  ELSE [pnl |-> plan.entry - price, toStop |-> plan.stop - price,
        toTarget |-> price - plan.target]

\* PositionLockManager.snapshot: BLOCKED is ACTIVE with a signal stopped since.
PositionOf(lock, plan, price, now) ==
  [status |-> IF ~Locked(lock) THEN "IDLE"
              ELSE IF lock.blockedAt # None THEN "BLOCKED" ELSE "ACTIVE",
   newSignals |-> IF Locked(lock) THEN "BLOCKED" ELSE "ALLOWED",
   stopped |-> [buys |-> lock.buys, sells |-> lock.sells],
   closed |-> Len(lock.closedFor),
   standing |-> IF Locked(lock) /\ plan # None THEN Standing(plan, price) ELSE None,
   held |-> IF Locked(lock) /\ plan # None THEN now - plan.at ELSE None]

\* The open plan, else the newest one.
ViewPlan(plans) ==
  LET open == {k \in DOMAIN plans : plans[k].result = "NONE"}
  IN  IF open # {} THEN plans[CHOOSE k \in open : TRUE]
      ELSE IF plans # << >> THEN plans[Len(plans)] ELSE None

\* _trade_plan_view: an open plan where it stands, or how the newest one ended.
TradePlanPanel(plan, price, now) ==
  IF plan = None THEN [mode |-> "NONE"]
  ELSE IF plan.result = "NONE"
       THEN [mode |-> "ACTIVE", standing |-> Standing(plan, price),
             risk |-> Risk(plan), held |-> now - plan.at]
       ELSE [mode |-> "CLOSED", pnl |-> plan.points, risk |-> Risk(plan),
             reason |-> CASE plan.result = "WIN" -> "TP" [] plan.result = "LOSS" -> "SL",
             held |-> plan.closed - plan.at]
=============================================================================
