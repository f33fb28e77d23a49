--------------------------- MODULE TradeLifecycle ---------------------------
(***************************************************************************)
(* The trading side of the dashboard process.  Live prices close the open   *)
(* plan; a snapshot turns the decision into a signal record, a plan or a    *)
(* blocked signal, and books what is finished.                             *)
(*   dashboard/controller.py       on_tick and snapshot, which call          *)
(*   trade_planning/engine.py      the plans, saved in trade_plans.json      *)
(*   position_lock/manager.py      one open plan at a time, memory only      *)
(*   performance/tracker.py        the signal records, memory only           *)
(*   dashboard/lifetime_stats.py   finished signals, saved                   *)
(*   dashboard/virtual_account.py  closed plans as trades, saved             *)
(*                                                                         *)
(* One thread runs all of it.  Three files are replaced at three different  *)
(* moments of a snapshot, so the snapshot is cut where a file is replaced;   *)
(* the process may die (or be interrupted) at every cut.                    *)
(***************************************************************************)
EXTENDS Integers, Sequences, FiniteSets

CONSTANTS
  Prices,        \* the prices a tick can carry
  Risks,         \* the stop distances _buy_stop and _sell_stop can choose
  RewardRatio,   \* default_rr
  StableWindow,  \* SIGNAL_STABILITY_WINDOW
  MaxStored,     \* MAX_STORED_SIGNALS
  SignalBound,   \* signals recorded in a behaviour (bound)
  LifeBound,     \* dashboard processes (bound)
  NoPrice        \* current_price is None

ASSUME LifecycleAssumption ==
  /\ Prices \subseteq Int /\ NoPrice \notin Int
  /\ Risks \subseteq Nat \ {0} /\ RewardRatio \in Nat \ {0}
  /\ StableWindow \in Nat \ {0} /\ MaxStored \in Nat
  /\ SignalBound \in Nat /\ LifeBound \in Nat

Sides == {"BUY", "SELL"}                  \* BUY_INTERNAL, SELL_INTERNAL
Decisions == Sides \cup {"NO_TRADE"}
None == "NONE"                            \* Python's None, or no side at all

Results == {"NONE", "WIN", "LOSS"}
Plans == [side : Sides, entry : Int, risk : Nat, result : Results, born : Nat]
PlanBooks == [plans : Seq(Plans), active : Nat, last : Decisions \cup {None}]
Trades == [plan : Nat, points : Int]
Signals == [id : Nat, done : BOOLEAN]
Streaks == [side : {None}, n : {0}] \cup [side : Sides, n : 1..StableWindow]

VARIABLES
  pc,           \* "down", "poll", or where the snapshot stands
  lives,        \* number of the process
  issued,       \* signal ids handed out so far
  price,        \* _market.last_price, latched
  streak,       \* the qualifying samples at the end of the stability history
  decision,     \* the decision of this snapshot
  recorded,     \* the signal this snapshot recorded, or 0
  last,         \* the previous decision, as each observer remembers it
  engine,       \* TradePlanningEngine: _plans, _active (an index, 0 for None), _last_decision
  planFile,     \* trade_plans.json
  lock,         \* PositionLockManager
  records,      \* PerformanceTracker._records of this process
  lifetime,     \* LifetimeStatsStore in memory
  lifeFile,     \* its file
  account,      \* VirtualAccountStore in memory
  accountFile   \* its file: the trades

files == <<planFile, lifeFile, accountFile>>
vars == <<pc, lives, issued, price, streak, decision, recorded, last, engine,
          lock, records, lifetime, account, files>>

Steps == {"down", "poll", "plan", "lifetime", "account"}

TypeOK ==
  /\ pc \in Steps
  /\ lives \in Nat /\ issued \in Nat
  /\ price \in Prices \cup {NoPrice}
  /\ streak \in Streaks
  /\ decision \in Decisions /\ recorded \in Nat
  /\ last \in [observed : Decisions \cup {None}, planning : Decisions \cup {None},
               counted : Decisions \cup {None}]
  /\ engine \in PlanBooks /\ planFile \in PlanBooks
  /\ lock \in [state : {"IDLE", "ACTIVE"}, plan : Nat, blocked : Nat]
  /\ records \in Seq(Signals)
  /\ lifetime \in [signals : Seq(Nat), ids : SUBSET Nat, pending : SUBSET Nat, noTrade : Nat]
  /\ lifeFile \in [signals : Seq(Nat), pending : SUBSET Nat, noTrade : Nat]
  /\ account \in [trades : Seq(Trades), ids : SUBSET Nat]
  /\ accountFile \in Seq(Trades)

-----------------------------------------------------------------------------
(* TradePlanningEngine.                                                    *)

NoPlans == [plans |-> <<>>, active |-> 0, last |-> None]

\* points gained by a plan at a price
Gain(plan, p) == IF plan.side = "BUY" THEN p - plan.entry ELSE plan.entry - p

\* _check_exit: the stop is looked at first
Exit(plan, p) ==
  IF Gain(plan, p) <= -plan.risk THEN "LOSS"
  ELSE IF Gain(plan, p) >= RewardRatio * plan.risk THEN "WIN" ELSE "NONE"

Open(plan) == plan.result = "NONE"

\* mutant: the target is not looked at
ExitsAtStop(book, p) ==
  book.active # 0 /\ p # NoPrice /\ Exit(book.plans[book.active], p) = "LOSS"

Exits(book, p) ==
  book.active # 0 /\ p # NoPrice /\ Exit(book.plans[book.active], p) # "NONE"

Closed(book, p) ==
  [book EXCEPT !.plans[book.active].result = Exit(book.plans[book.active], p),
               !.active = 0]

\* update_price: the engine, and the file if it saved
Updated(book, p) == IF Exits(book, p) THEN Closed(book, p) ELSE book
Saved(book, p) == IF Exits(book, p) THEN Closed(book, p) ELSE planFile

\* mutant: a restored plan is shown, but not watched
NoneRestored(file) == [file EXCEPT !.active = 0]

\* _load
Restored(file) ==
  IF file.active # 0 /\ file.active <= Len(file.plans) /\ Open(file.plans[file.active])
  THEN file ELSE [file EXCEPT !.active = 0]

-----------------------------------------------------------------------------
(* PositionLockManager.                                                    *)

IdleLock == [state |-> "IDLE", plan |-> 0, blocked |-> 0]

Activated(l, i) == [l EXCEPT !.state = "ACTIVE", !.plan = i]

Released(l) == [l EXCEPT !.state = "IDLE", !.plan = 0]

AllowsNewPlan == lock.state = "IDLE"

\* the controller passes every close that update_price reports on to the lock
LockAfterUpdate(p) == IF Exits(engine, p) THEN Released(lock) ELSE lock

-----------------------------------------------------------------------------
Init ==
  /\ pc = "down" /\ lives = 0 /\ issued = 0
  /\ price = NoPrice
  /\ streak = [side |-> None, n |-> 0]
  /\ decision = "NO_TRADE" /\ recorded = 0
  /\ last = [observed |-> None, planning |-> None, counted |-> None]
  /\ engine = NoPlans /\ planFile = NoPlans
  /\ lock = IdleLock
  /\ records = <<>>
  /\ lifetime = [signals |-> <<>>, ids |-> {}, pending |-> {}, noTrade |-> 0]
  /\ lifeFile = [signals |-> <<>>, pending |-> {}, noTrade |-> 0]
  /\ account = [trades |-> <<>>, ids |-> {}]
  /\ accountFile = <<>>

\* mutant: the account forgets which trades it holds
TradesWithoutIds == [trades |-> accountFile, ids |-> {}]

LoadedAccount ==
  [trades |-> accountFile, ids |-> {accountFile[i].plan : i \in 1..Len(accountFile)}]

LoadedLifetime ==
  [signals |-> lifeFile.signals,
   ids |-> {lifeFile.signals[i] : i \in 1..Len(lifeFile.signals)},
   pending |-> lifeFile.pending, noTrade |-> lifeFile.noTrade]

\* DashboardController.__init__ and start: the stores load their files, the
\* lock is set from the restored plan, everything else starts empty.
Start ==
  /\ pc = "down" /\ lives < LifeBound
  /\ pc' = "poll" /\ lives' = lives + 1
  /\ engine' = Restored(planFile)
  /\ lock' = IF engine'.active # 0 THEN Activated(IdleLock, engine'.active) ELSE IdleLock
  /\ account' = LoadedAccount /\ lifetime' = LoadedLifetime
  /\ price' = NoPrice
  /\ streak' = [side |-> None, n |-> 0]
  /\ decision' = "NO_TRADE" /\ recorded' = 0
  /\ last' = [observed |-> None, planning |-> None, counted |-> None]
  /\ records' = <<>>
  /\ UNCHANGED <<issued, files>>

\* The process ends, cleanly or not: nothing is written on the way out.
Crash ==
  /\ pc # "down"
  /\ pc' = "down"
  /\ UNCHANGED <<lives, issued, price, streak, decision, recorded, last, engine,
                 lock, records, lifetime, account, files>>

\* on_tick, from the poll of the run loop
OnTick(p) ==
  /\ pc = "poll"
  /\ price' = p
  /\ engine' = Updated(engine, p) /\ planFile' = Saved(engine, p)
  /\ lock' = LockAfterUpdate(p)
  /\ UNCHANGED <<pc, lives, issued, streak, decision, recorded, last, records,
                 lifetime, lifeFile, account, accountFile>>

-----------------------------------------------------------------------------
(* snapshot, first part: the decision, the signal record, the exits.        *)

\* The side that reaches the score and the confidence of the policy in this
\* evaluation, if any.  There is at most one: the confidence needs the direction
\* of both velocity and acceleration.  A decision is exactly a full window of
\* samples for its side.
NextStreak(side) ==
  IF side = None THEN [side |-> None, n |-> 0]
  ELSE IF side = streak.side
       THEN [streak EXCEPT !.n = IF @ < StableWindow THEN @ + 1 ELSE @]
       ELSE [side |-> side, n |-> 1]

\* mutant: one sample is enough
UnconfirmedDecision(s) == IF s.n > 0 THEN s.side ELSE "NO_TRADE"

DecisionOf(s) == IF s.n = StableWindow THEN s.side ELSE "NO_TRADE"

\* PerformanceTracker.observe: a new decision for a side is a signal
Records(d) == d \in Sides /\ d # last.observed /\ price # NoPrice

\* evaluate_pending: a record is finished once it is old enough; the oldest
\* records are old enough first, the one just opened never is
Matured(k) == [i \in 1..Len(records) |->
                 IF i <= k THEN [records[i] EXCEPT !.done = TRUE] ELSE records[i]]

Evaluate ==
  /\ pc = "poll"
  /\ pc' = "plan"
  /\ \E side \in Sides \cup {None}, k \in 0..Len(records) :
       /\ side # None => price # NoPrice
       /\ streak' = NextStreak(side)
       /\ decision' = DecisionOf(streak')
       /\ IF Records(decision')
          THEN /\ issued < SignalBound
               /\ issued' = issued + 1 /\ recorded' = issued + 1
               /\ records' = Append(Matured(k), [id |-> issued + 1, done |-> FALSE])
          ELSE /\ UNCHANGED issued /\ recorded' = 0
               /\ records' = Matured(k)
  /\ last' = [last EXCEPT !.observed = decision']
  /\ UNCHANGED price
  /\ engine' = Updated(engine, price) /\ planFile' = Saved(engine, price)
  /\ lock' = LockAfterUpdate(price)
  /\ UNCHANGED <<lives, lifetime, lifeFile, account, accountFile>>

-----------------------------------------------------------------------------
(* snapshot, second part: the lock gates a new plan.                        *)

Blocked ==
  decision \in Sides /\ decision # last.planning /\ ~AllowsNewPlan

\* observe creates a plan for a new decision of a side
PlansAt(book) ==
  /\ AllowsNewPlan
  /\ decision \in Sides /\ decision # book.last
  /\ price # NoPrice
  /\ book.active = 0

NewPlan(risk) ==
  [side |-> decision, entry |-> price, risk |-> risk, result |-> "NONE", born |-> lives]

WithPlan(book, plan) ==
  [book EXCEPT !.plans = Append(@, plan), !.active = Len(book.plans) + 1]

\* what the controller notes for the lifetime store on the way
NotedLifetime ==
  [lifetime EXCEPT
     !.pending = IF recorded # 0 THEN @ \cup {recorded} ELSE @,
     !.noTrade = IF decision = "NO_TRADE" /\ last.counted # "NO_TRADE" THEN @ + 1 ELSE @]

GateAndNote ==
  /\ pc = "plan"
  /\ pc' = "lifetime"
  /\ last' = [last EXCEPT !.planning = decision, !.counted = decision]
  /\ lifetime' = NotedLifetime
  /\ UNCHANGED <<lives, issued, price, streak, decision, recorded, records,
                 lifeFile, account, accountFile>>

\* The file keeps the _last_decision of before: it is assigned after the save.
OpenPlan(risk) ==
  /\ GateAndNote
  /\ PlansAt(Updated(engine, price))
  /\ LET book == WithPlan(Updated(engine, price), NewPlan(risk))
     IN /\ engine' = [book EXCEPT !.last = decision]
        /\ planFile' = book
        /\ lock' = Activated(lock, book.active)

NoNewPlan ==
  /\ GateAndNote
  /\ ~PlansAt(Updated(engine, price))
  /\ engine' = [Updated(engine, price) EXCEPT !.last = decision]
  /\ planFile' = Saved(engine, price)
  /\ lock' = IF Blocked THEN [lock EXCEPT !.blocked = @ + 1] ELSE lock

-----------------------------------------------------------------------------
(* snapshot, third part: sync_completed and flush of the lifetime store.     *)

Unpersisted(i) == records[i].done /\ records[i].id \notin lifetime.ids

\* one turn of the loop over performance.records
PersistSignal(i) ==
  /\ pc = "lifetime"
  /\ Unpersisted(i) /\ \A j \in 1..(i - 1) : ~Unpersisted(j)
  /\ lifetime' = [lifetime EXCEPT !.signals = Append(@, records[i].id),
                                  !.ids = @ \cup {records[i].id},
                                  !.pending = @ \ {records[i].id}]
  /\ UNCHANGED <<pc, lives, issued, price, streak, decision, recorded, last,
                 engine, lock, records, account, files>>

\* the oldest signals above MaxStored are dropped, and their ids with them
Overflow(s) == IF Len(s) > MaxStored THEN Len(s) - MaxStored ELSE 0

Trimmed(store) ==
  LET n == Overflow(store.signals)
  IN [store EXCEPT !.signals = SubSeq(@, n + 1, Len(@)),
                   !.ids = @ \ {store.signals[i] : i \in 1..n}]

FlushLifetime ==
  /\ pc = "lifetime"
  /\ \A i \in 1..Len(records) : ~Unpersisted(i)
  /\ pc' = "account"
  /\ lifetime' = Trimmed(lifetime)
  /\ lifeFile' = [signals |-> lifetime'.signals, pending |-> lifetime'.pending,
                  noTrade |-> lifetime'.noTrade]
  /\ UNCHANGED <<lives, issued, price, streak, decision, recorded, last, engine,
                 planFile, lock, records, account, accountFile>>

-----------------------------------------------------------------------------
(* snapshot, last part: sync_from_trade_plans and flush of the account.      *)

\* mutant: a loss is booked as a gain
UnsignedPoints(plan) ==
  IF plan.result = "WIN" THEN RewardRatio * plan.risk ELSE plan.risk

Points(plan) ==
  IF plan.result = "WIN" THEN RewardRatio * plan.risk
  ELSE IF plan.result = "LOSS" THEN -plan.risk ELSE 0

\* mutant: only plans opened by this process are booked
UnbookedHere(i) ==
  ~Open(engine.plans[i]) /\ i \notin account.ids /\ engine.plans[i].born = lives

Unbooked(i) == ~Open(engine.plans[i]) /\ i \notin account.ids

\* one turn of the loop over closed_plans
BookTrade(i) ==
  /\ pc = "account"
  /\ Unbooked(i) /\ \A j \in 1..(i - 1) : ~Unbooked(j)
  /\ account' = [trades |-> Append(account.trades,
                                   [plan |-> i, points |-> Points(engine.plans[i])]),
                 ids |-> account.ids \cup {i}]
  /\ UNCHANGED <<pc, lives, issued, price, streak, decision, recorded, last,
                 engine, lock, records, lifetime, files>>

FlushAccount ==
  /\ pc = "account"
  /\ \A i \in 1..Len(engine.plans) : ~Unbooked(i)
  /\ pc' = "poll"
  /\ accountFile' = account.trades
  /\ UNCHANGED <<lives, issued, price, streak, decision, recorded, last, engine,
                 planFile, lock, records, lifetime, lifeFile, account>>

-----------------------------------------------------------------------------
PlanStep == NoNewPlan \/ \E risk \in Risks : OpenPlan(risk)
LifetimeStep == FlushLifetime \/ \E i \in 1..Len(records) : PersistSignal(i)
AccountStep == FlushAccount \/ \E i \in 1..Len(engine.plans) : BookTrade(i)

\* one turn of the run loop after another, whatever ticks come in between
Snapshot == Evaluate \/ PlanStep \/ LifetimeStep \/ AccountStep

Next ==
  \/ Start \/ Crash
  \/ \E p \in Prices : OnTick(p)
  \/ Snapshot

Spec == Init /\ [][Next]_vars

\* The run loop renders every refresh interval while it lives; nobody has to
\* restart it, and no tick has to come.
FairSpec == Spec /\ WF_vars(Snapshot)

-----------------------------------------------------------------------------
(* What the dashboard promises.                                            *)

Up == pc # "down"

\* The lock is held exactly while a plan is open, for that plan, and the file
\* knows of one open plan at most: a restored plan is watched and locked like a
\* new one, whatever was interrupted before.
OneOpenPlan ==
  /\ Up => /\ lock.state = "ACTIVE" <=> engine.active # 0
           /\ lock.plan = engine.active
           /\ \A i \in 1..Len(engine.plans) : Open(engine.plans[i]) => i = engine.active
  /\ \A i, j \in 1..Len(planFile.plans) :
       Open(planFile.plans[i]) /\ Open(planFile.plans[j]) => i = j

\* No price the process has seen lies at or beyond the stop or the target of the
\* plan it holds open: a plan is closed by the first such price.
OpenPlanInsideBand ==
  Up /\ engine.active # 0 /\ price # NoPrice =>
    Exit(engine.plans[engine.active], price) = "NONE"

BookedFrom(trades, plans) ==
  /\ \A i, j \in 1..Len(trades) : trades[i].plan = trades[j].plan => i = j
  /\ \A i \in 1..Len(trades) :
       /\ trades[i].plan \in 1..Len(plans)
       /\ ~Open(plans[trades[i].plan])
       /\ trades[i].points = Points(plans[trades[i].plan])

\* The account holds each closed plan at most once, with the points of its exit,
\* and is never ahead of the plan file: no crash between the two files and no
\* restart books a plan twice, or one the plan file does not show as closed.
BookedOnce == BookedFrom(accountFile, planFile.plans)

\* Every signal the tracker recorded in this process opened a plan or is counted
\* as blocked: the three memories of the previous decision (tracker, controller,
\* engine) never disagree on what is new, not even after a restart that brings
\* back the engine's and loses the others.
SignalsAreAnswered ==
  Up => Len(records) =
          Cardinality({i \in 1..Len(engine.plans) : engine.plans[i].born = lives})
          + lock.blocked
          + (IF pc = "plan" /\ recorded # 0 THEN 1 ELSE 0)

\* A closed plan is booked, unless the process ends first.
ClosedIsBooked ==
  \A i \in 1..SignalBound :
    (Up /\ i <= Len(planFile.plans) /\ ~Open(planFile.plans[i]))
      ~> (~Up \/ \E k \in 1..Len(accountFile) : accountFile[k].plan = i)

Ledger == INSTANCE TradeLedger WITH plans <- planFile.plans, ledger <- accountFile

\* Seen through its two files, the dashboard is a ledger of one position at a
\* time: crashes, restarts, repeated snapshots and half done ones are invisible.
ImplementsLedger == Ledger!Spec
=============================================================================
