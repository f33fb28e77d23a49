---------------------------- MODULE TradeLedger ----------------------------
(***************************************************************************)
(* What the trading side of the dashboard promises, without processes,      *)
(* prices and signals: plans are opened one at a time, each is closed once,  *)
(* by its stop or its target, and each closed one is booked once.           *)
(***************************************************************************)
EXTENDS Integers, Sequences

CONSTANT RewardRatio

VARIABLES plans, ledger

vars == <<plans, ledger>>

Init == plans = <<>> /\ ledger = <<>>

IsOpen(i) == plans[i].result = "NONE"

OpenPosition ==
  /\ \A i \in 1..Len(plans) : ~IsOpen(i)
  /\ Len(plans') = Len(plans) + 1
  /\ SubSeq(plans', 1, Len(plans)) = plans
  /\ plans'[Len(plans')].result = "NONE"
  /\ UNCHANGED ledger

ClosePosition(i) ==
  /\ IsOpen(i)
  /\ \E result \in {"WIN", "LOSS"} : plans' = [plans EXCEPT ![i].result = result]
  /\ UNCHANGED ledger

Outcome(plan) == IF plan.result = "WIN" THEN RewardRatio * plan.risk ELSE -plan.risk

\* Several at once only after a crash: a plan that was closed, but not booked,
\* by the process before.
BookPositions ==
  /\ Len(ledger') > Len(ledger)
  /\ SubSeq(ledger', 1, Len(ledger)) = ledger
  /\ \A k \in (Len(ledger) + 1)..Len(ledger') :
       /\ ledger'[k].plan \in 1..Len(plans) /\ ~IsOpen(ledger'[k].plan)
       /\ ledger'[k].points = Outcome(plans[ledger'[k].plan])
       /\ \A j \in 1..(k - 1) : ledger'[j].plan # ledger'[k].plan
  /\ UNCHANGED plans

Next ==
  \/ OpenPosition \/ BookPositions
  \/ \E i \in 1..Len(plans) : ClosePosition(i)

Spec == Init /\ [][Next]_vars
=============================================================================
