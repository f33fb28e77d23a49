---------------------------- MODULE AccountViews ----------------------------
(***************************************************************************)
(* The virtual account as a panel (dashboard/virtual_account.py): the closed plans     *)
(* are its trades, and everything shown is computed from them again in every frame.      *)
(* A trade is [id, day, week, month, opened, closed, points, label]; one point is one    *)
(* dollar here, so money is points. An average is its sum and its count.               *)
(***************************************************************************)
EXTENDS Integers, Sequences, FiniteSetsExt, SequencesExt

CONSTANTS
  Week(_), Month(_),   \* trading_week_ny, trading_month_ny
  Starting,            \* starting_balance
  ProfitTarget,        \* profit_target
  MaxDrawdown          \* max_drawdown

ASSUME AccountAssumption ==
  Starting \in Nat \ {0} /\ ProfitTarget \in Nat /\ MaxDrawdown \in Nat

\* from_trade_plan: a closed plan, dated by the time it was activated at.
TradeOf(id, plan, day) ==
  [id |-> id, day |-> day, week |-> Week(plan.at), month |-> Month(plan.at),
   opened |-> plan.at, closed |-> plan.closed, points |-> plan.points,
   label |-> plan.result]

\* The order in which the balance moved: by the time of the exit. The n-th trade of it
\* is the one with n - 1 before it.
InExitOrder(trades) ==
  LET Before(s, t) == s.closed < t.closed \/ (s.closed = t.closed /\ s.id < t.id)
      place == [k \in DOMAIN trades |->
                  1 + Cardinality({j \in DOMAIN trades : Before(trades[j], trades[k])})]
  IN  [n \in DOMAIN trades |-> trades[CHOOSE k \in DOMAIN trades : place[k] = n]]

\* mutant: every win is taken for a new peak.
MovedToNewPeak(curve, trade) ==
  LET balance == curve.balance + trade.points
      peak    == IF trade.points > 0 THEN balance ELSE curve.peak
      drop    == peak - balance
  IN  [balance |-> balance, peak |-> peak,
       worst |-> IF drop > curve.worst THEN drop ELSE curve.worst]

\* One trade moves the balance; the peak is never behind it.
Moved(curve, trade) ==
  LET balance == curve.balance + trade.points
      peak    == IF balance > curve.peak THEN balance ELSE curve.peak
      drop    == peak - balance
  IN  [balance |-> balance, peak |-> peak,
       worst |-> IF drop > curve.worst THEN drop ELSE curve.worst]

Curve(trades) ==
  FoldLeft(Moved, [balance |-> Starting, peak |-> Starting, worst |-> 0],
           InExitOrder(trades))

\* _risk_status: four fifths of the drawdown allowed is danger, half of it a warning.
RiskStatus(drawdown) ==
  IF MaxDrawdown = 0 THEN "SAFE"
  ELSE IF 5 * drawdown >= 4 * MaxDrawdown THEN "DANGER"
  ELSE IF 2 * drawdown >= MaxDrawdown THEN "WARNING" ELSE "SAFE"

PnL(trades) == FoldLeft(LAMBDA sum, t : sum + t.points, 0, trades)
Labelled(trades, label) == SelectSeq(trades, LAMBDA t : t.label = label)
Worth(trades) == [sum |-> PnL(trades), count |-> Len(trades)]

\* _period_rr: the mean win over the mean loss, of the trades of a period.
RewardToRisk(trades) ==
  [win |-> Worth(Labelled(trades, "WIN")), loss |-> Worth(Labelled(trades, "LOSS"))]

\* _aggregate.
AccountOf(trades) ==
  LET curve  == Curve(trades)
      gains  == SelectSeq(trades, LAMBDA t : t.points > 0)
      losses == SelectSeq(trades, LAMBDA t : t.points < 0)
      spare  == MaxDrawdown - (curve.peak - curve.balance)
      left   == ProfitTarget - PnL(trades)
  IN  [balance |-> curve.balance,
       lifetime |-> PnL(trades),
       gross |-> [profit |-> PnL(gains), loss |-> -PnL(losses)],
       trades |-> Len(trades),
       won |-> Len(Labelled(trades, "WIN")), lost |-> Len(Labelled(trades, "LOSS")),
       ratio |-> RewardToRisk(trades),
       largestWin |-> Max({0} \cup {gains[k].points : k \in DOMAIN gains}),
       largestLoss |-> Min({0} \cup {losses[k].points : k \in DOMAIN losses}),
       held |-> FoldLeft(LAMBDA sum, t : sum + t.closed - t.opened, 0, trades),
       maxDrawdown |-> curve.worst,
       drawdown |-> curve.peak - curve.balance,
       buffer |-> IF spare > 0 THEN spare ELSE 0,
       risk |-> RiskStatus(curve.peak - curve.balance),
       remaining |-> IF left > 0 THEN left ELSE 0]

\* build_snapshot: the trades of the day, the week and the month of now, by the time
\* they were opened.
SnapshotAt(trades, day, now) ==
  LET today == SelectSeq(trades, LAMBDA t : t.day = day)
      week  == SelectSeq(trades, LAMBDA t : t.week = Week(now))
      month == SelectSeq(trades, LAMBDA t : t.month = Month(now))
  IN  [all |-> AccountOf(trades),
       today |-> Worth(today), week |-> Worth(week), month |-> Worth(month),
       todayWon |-> Len(Labelled(today, "WIN")),
       todayLost |-> Len(Labelled(today, "LOSS")),
       todayRatio |-> RewardToRisk(today)]

-----------------------------------------------------------------------------
\* The reference for a drawdown: the worst fall of the balance from any moment to any
\* later one.
Balances(trades) ==
  LET ordered == InExitOrder(trades)
  IN  [k \in 0..Len(trades) |-> Starting + PnL(SubSeq(ordered, 1, k))]
WorstFall(b) == Max(UNION {{b[i] - b[j] : j \in {k \in DOMAIN b : k >= i}} : i \in DOMAIN b})
=============================================================================
