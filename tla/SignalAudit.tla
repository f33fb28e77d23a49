---------------------------- MODULE SignalAudit ----------------------------
(***************************************************************************)
(* What the dashboard remembers of its own signals, frame by frame                 *)
(* (dashboard/controller.py, snapshot): the decision of the frame goes to the           *)
(* statistics, the performance tracker, the timing auditor, the plans, the store of       *)
(* finished signals and the account, in that order, and the panels are built last.       *)
(*                                                                         *)
(* One frame is one action here: TradeLifecycle cuts it at its file writes, and has       *)
(* the ticks between two frames. What this module has, and that one has not, is time,      *)
(* the prices a signal meets on its way, and the numbers shown. Each frame is preceded     *)
(* by one tick, which is the tick that closes the plan if its price does.               *)
(*                                                                         *)
(* The process may die between two frames. The next one finds the store, the account       *)
(* and the plans in their files; the tracker, the auditor and the statistics start         *)
(* empty, so what was pending is lost, and its noted memory effect stays for good.         *)
(***************************************************************************)
EXTENDS LifetimeViews, TradePlans, AccountViews

CONSTANTS
  Quotes,        \* the prices that the n-th frame may have: a sequence of sets (bound)
  Leans,         \* the sides that the n-th frame may favour, "NONE" for none (bound)
  StableWindow,  \* SIGNAL_STABILITY_WINDOW
  Effects,       \* what memory may be noted to do to a signal
  LateBound,     \* frames that come a second late, in a behaviour (bound)
  RestartBound   \* restarts in a behaviour (bound)

ASSUME AuditAssumption ==
  /\ Quotes \in Seq(SUBSET (Nat \ {0})) /\ DOMAIN Leans = DOMAIN Quotes
  /\ \A n \in DOMAIN Leans : Leans[n] \subseteq {"BUY", "SELL", "NONE"}
  /\ Effects \subseteq Memories
  /\ None \notin Int \cup {"BUY", "SELL", "NO_TRADE"} \cup Plans
  /\ StableWindow \in Nat \ {0} /\ LateBound \in Nat /\ RestartBound \in Nat

VARIABLES
  up,
  now,         \* the time of the newest frame
  shown,       \* the frames so far
  late, restarts,
  streak,      \* the frames in a row that favour a side: the stability history
  decision,    \* what the tracker, the auditor and the controller remember of the last frame
  statistics,  \* SessionStatistics: the frames of each decision
  records,     \* PerformanceTracker._records
  paths,       \* EntryTimingAuditor._open
  audits,      \* EntryTimingAuditor._completed
  histories,   \* the price and velocity histories of the plans
  price,       \* the price of the newest frame
  plans,       \* TradePlanningEngine._plans; the open one is active
  planned,     \* _last_decision of the engine, and what its file says it was
  lock,        \* PositionLockManager
  lastEffect,  \* _last_signal_memory_effect: of the newest frame that favoured a side
  store,       \* LifetimeStatsStore, which flush has written
  trades,      \* VirtualAccountStore, which flush has written
  views,       \* the panels of this frame
  opened,      \* how many signals were ever opened: the next id
  began,       \* the store and the plans as this process found them (history variable)
  seen         \* the frames of this process, [at, price] (history variable)

avars == <<up, now, shown, late, restarts, streak, decision, statistics, records, paths,
           audits, histories, price, plans, planned, lock, lastEffect, store, trades, views,
           opened, began, seen>>

Decisions == {"BUY", "SELL", "NO_TRADE"}

NoViews == None

Started ==
  /\ streak = [side |-> "NONE", n |-> 0] /\ decision = None
  /\ statistics = [d \in Decisions |-> 0]
  /\ records = << >> /\ paths = << >> /\ audits = << >>
  /\ histories = [prices |-> << >>, moves |-> << >>] /\ price = None
  /\ lock = Unlocked /\ lastEffect = None
  /\ views = NoViews /\ seen = << >>

AInit ==
  /\ up = TRUE /\ now = 0 /\ shown = 0 /\ late = 0 /\ restarts = 0
  /\ Started
  /\ plans = << >> /\ planned = [engine |-> None, file |-> None]
  /\ store = NoStore /\ began = [store |-> NoStore, plans |-> 0, open |-> 0]
  /\ trades = << >> /\ opened = 0

-----------------------------------------------------------------------------
(* A frame.                                                                *)

\* decision_frequency: a decision among all of them.
Frequency(counts, d) == [count |-> counts[d], of |-> FoldFunction(+, 0, counts)]

\* _performance_view: of the session; the excursions are those of the audits.
PerformancePanel(known, timing) ==
  LET With(result) == Where(known, {k \in DOMAIN known : known[k].result = result})
  IN  [counts |-> PerformanceOf(known),
       wins |-> Mean(With("SUCCESS"), Points), losses |-> Mean(With("FAILED"), Points),
       last |-> IF known = << >> THEN None ELSE known[Len(known)].result,
       timing |-> timing]

\* _last_signal_view: the newest signal, with the effect of the newest frame that had a
\* side, which is not the frame that opened the signal.
LastSignal(known, effect) ==
  IF known = << >> THEN None
  ELSE LET r == known[Len(known)]
       IN  [side |-> r.side, at |-> r.at, result |-> r.result, points |-> r.points,
            held |-> IF Pending(r) THEN None ELSE r.done - r.at, memory |-> effect]

\* TradeLifecycle!NextStreak: at most one side is favoured, and a decision is a full
\* window of samples for it.
StreakAfter(side) ==
  IF side = "NONE" THEN [side |-> "NONE", n |-> 0]
  ELSE [side |-> side,
        n |-> IF side # streak.side THEN 1
              ELSE IF streak.n < StableWindow THEN streak.n + 1 ELSE streak.n]
DecisionAfter(s) == IF s.n = StableWindow THEN s.side ELSE "NO_TRADE"

\* The observers agree on what a new signal is: a side that the last frame did not have.
IsSignal(d) == d \in {"BUY", "SELL"} /\ d # decision

\* performance.observe.
Recorded(d, p, at) ==
  /\ records' = EvaluatePending(
                  IF IsSignal(d) THEN Append(records, OpenSignal(opened + 1, d, p, at))
                  ELSE records, p, at)
  /\ opened' = IF IsSignal(d) THEN opened + 1 ELSE opened

\* entry_timing.observe.
Followed(d, p, at) ==
  LET audited == Audited(IF IsSignal(d) THEN Append(paths, OpenPath(d, p, at)) ELSE paths,
                         p, at)
  IN  paths' = audited.open /\ audits' = audits \o audited.finished

\* record_price: the velocity is the change since the tick before, when there is one.
RecordPrice(h, p) ==
  [prices |-> Remembered(h.prices, p),
   moves  |-> IF price = None THEN h.moves ELSE Remembered(h.moves, p - price)]

Active == {k \in DOMAIN plans : plans[k].result = "NONE"}

\* The tick closes the open plan, and the lock with it. A new signal is then stopped by
\* the lock, or opens a plan; the engine remembers a decision that its own file may bring
\* back. The price goes into the histories twice, by on_tick and by observe.
Planned(d, p, at) ==
  LET after    == [k \in DOMAIN plans |->
                     IF k \in Active THEN ClosedAt(plans[k], p, at) ELSE plans[k]]
      ended    == {k \in Active : after[k].result # "NONE"}
      released == FoldLeft(OnPlanClosed, lock, Where(after, ended))
      stopped  == IsSignal(d) /\ Locked(released)
      new      == IsSignal(d) /\ ~stopped /\ d # planned.engine
  IN  /\ histories' = RecordPrice(RecordPrice(histories, p), p)
      /\ plans' = IF new
                  THEN Append(after, PlanFor(d, histories'.prices, histories'.moves, p, at))
                  ELSE after
      /\ planned' = [engine |-> d,
                     file |-> IF plans' # plans THEN planned.engine ELSE planned.file]
      /\ lock' = IF new THEN OnPlanActivated(released, plans'[Len(plans')])
                 ELSE IF stopped THEN RecordBlocked(released, d, at) ELSE released

\* The closed plans that the account does not hold yet are its new trades.
Booked ==
  LET new == Where([k \in DOMAIN plans' |-> k],
                   {k \in DOMAIN plans' : plans'[k].result # "NONE"
                                          /\ \A t \in DOMAIN trades : trades[t].id # k})
  IN  trades \o [n \in DOMAIN new |->
                   TradeOf(new[n], plans'[new[n]], TradingDay(plans'[new[n]].at))]

\* note_open and record_no_trade, on the edges.
Noted(d, effect, at) ==
  LET noted == IF IsSignal(d) THEN NoteOpen(store, opened + 1, effect) ELSE store
  IN  IF d = "NO_TRADE" /\ decision # "NO_TRADE" THEN RecordNoTrade(noted, at) ELSE noted

\* The panels of the frame, after everything was told of it.
Panels(p, at) ==
  LET open == {k \in DOMAIN plans' : plans'[k].result = "NONE"}
  IN  [lifetime   |-> BuildViews(store', records', at),
       account    |-> SnapshotAt(trades', TradingDay(at), at),
       performance |-> PerformancePanel(records', TimingSummary(audits')),
       statistics |-> [d \in Decisions |-> Frequency(statistics', d)],
       position   |-> PositionOf(lock', IF open = {} THEN None ELSE ViewPlan(plans'), p, at),
       plan       |-> TradePlanPanel(ViewPlan(plans'), p, at),
       signal     |-> LastSignal(records', lastEffect')]

\* on_tick and snapshot, to the end.
Frame(p, side, at, effect) ==
  /\ up /\ shown < Len(Quotes)
  /\ p \in Quotes[shown + 1] /\ side \in Leans[shown + 1]
  /\ shown' = shown + 1 /\ now' = at /\ price' = p
  /\ streak' = StreakAfter(side)
  /\ LET d == DecisionAfter(streak')
     IN  /\ decision' = d
         /\ statistics' = [statistics EXCEPT ![d] = @ + 1]
         /\ lastEffect' = IF d = "NO_TRADE" THEN lastEffect ELSE effect
         /\ Recorded(d, p, at) /\ Followed(d, p, at)
         /\ Planned(d, p, at)
         /\ store' = SyncCompleted(Noted(d, effect, at), records', audits')
  /\ trades' = Booked
  /\ views' = Panels(p, at)
  /\ seen' = Append(seen, [at |-> at, price |-> p])
  /\ UNCHANGED <<up, restarts, began>>

OnTime(p, side, effect) == Frame(p, side, now + 1, effect) /\ UNCHANGED late
Late(p, side, effect) ==
  late < LateBound /\ late' = late + 1 /\ Frame(p, side, now + 2, effect)

Dies ==
  /\ up /\ restarts < RestartBound
  /\ up' = FALSE
  /\ UNCHANGED <<now, shown, late, restarts, streak, decision, statistics, records,
                 paths, audits, histories, price, plans, planned, lock, lastEffect, store,
                 trades, views, opened, began, seen>>

Restart ==
  /\ ~up
  /\ up' = TRUE /\ restarts' = restarts + 1
  /\ streak' = [side |-> "NONE", n |-> 0] /\ decision' = None
  /\ statistics' = [d \in Decisions |-> 0]
  /\ records' = << >> /\ paths' = << >> /\ audits' = << >>
  /\ histories' = [prices |-> << >>, moves |-> << >>] /\ price' = None
  /\ lock' = FoldLeft(OnPlanActivated, Unlocked, Where(plans, Active))
  /\ lastEffect' = None
  /\ views' = NoViews /\ seen' = << >>
  /\ store' = LoadedStore(store)
  /\ began' = [store |-> store', plans |-> Len(plans), open |-> Cardinality(Active)]
  /\ planned' = [planned EXCEPT !.engine = planned.file]
  /\ UNCHANGED <<now, shown, late, plans, trades, opened>>

ANext ==
  \/ \E n \in {shown + 1} \cap DOMAIN Quotes :
       \E p \in Quotes[n], side \in Leans[n], effect \in Effects :
         OnTime(p, side, effect) \/ Late(p, side, effect)
  \/ Dies \/ Restart

ASpec == AInit /\ [][ANext]_avars

-----------------------------------------------------------------------------
(* Properties.                                                             *)

Current == up /\ views # None

\* What a signal went through, by the frames of this process: its gain at each.
Gains(s) == {Gained(s.side, s.entry, seen[k].price) :
               k \in {j \in DOMAIN seen : seen[j].at \in s.at..s.done}}
Twin(r, s) == r.id # s.id /\ r.side = s.side /\ r.entry = s.entry
              /\ r.at - s.at \in -Near..Near

\* Every signal that this process has finished is stored with the best and the worst
\* it met between its entry and its exit, unless another signal of the same side and
\* price was opened so near to it that the store cannot tell them apart.
SignalsAreMeasured ==
  Current => \A k \in DOMAIN store.signals :
    LET s == store.signals[k]
    IN  s.id \notin began.store.ids =>
          \/ s.mfe = Max(Gains(s)) /\ s.mae = Min(Gains(s))
             /\ s.points \in Gains(s)
          \/ \E j \in DOMAIN records : Twin(records[j], s)

\* Two signals of one side and price are open at once: the store may take the audit of
\* one for the other's.
Confused == \E j, k \in DOMAIN records : Twin(records[j], records[k])

\* The lifetime panel shows each signal of this process once, finished or not, beside
\* those it found; a signal stays on the day it was opened on; the frames that ended a
\* signal are counted like the signals that they ended; each signal has been followed to
\* the end exactly when it was judged; and the panel of the session, worked out from the
\* tracker and the auditor, is the lifetime panel when there was nothing before.
SignalsAddUp ==
  LET life  == views.lifetime.lifetime
      today == views.lifetime.today
      panel == views.performance
      perf  == panel.counts
      found == began.store.signals
  IN  /\ life.signals = Len(found) + Len(records)
      /\ life.wins + life.losses + life.breakeven + perf.pending = life.signals
      /\ perf.success + perf.failed + perf.neutral + perf.pending = Len(records)
      /\ panel.timing.signals = Len(records) - perf.pending
      /\ found = << >> =>
           /\ panel.wins.sum = life.grossProfit /\ -panel.losses.sum = life.grossLoss
           /\ panel.timing.mfe = life.averageMfe.sum \/ Confused
      /\ today.signals =
           Cardinality({k \in DOMAIN records : TradingDay(records[k].at) = TradingDay(now)}
                       \cup {-k : k \in {j \in DOMAIN found :
                               TradingDay(found[j].at) = TradingDay(now)}})
      /\ life.noTrade - FoldFunction(+, 0, began.store.noTrade) =
           Len(records) + (IF decision = "NO_TRADE" THEN 1 ELSE 0)

\* Every signal opened a plan or was stopped by the one that was open: a decision that
\* the file brings back swallows none. The lock, which is only told, agrees with the
\* plans: on what is open, on what it saw close, and on what it stopped while the plan
\* that is open was open. And an open plan is shown strictly inside its levels.
PlansAddUp ==
  LET position == views.position
      stopped  == position.stopped.buys + position.stopped.sells
      since(t) == Cardinality({k \in DOMAIN records : records[k].at > t})
  IN  /\ Len(records) = Len(plans) - began.plans + stopped
      /\ (position.status # "IDLE") <=> (Active # {})
      /\ position.closed = Len(plans) - began.plans + began.open - Cardinality(Active)
      /\ Active # {} =>
           /\ views.plan.mode = "ACTIVE" /\ views.plan.standing = position.standing
           /\ position.standing.toStop > 0 /\ position.standing.toTarget > 0
           /\ (position.status = "BLOCKED") <=> (since(lock.opened) > 0)

\* Whatever panel the operator looks at counts the same signals: those the store found,
\* those of this process, those whose plan opened and those the lock stopped.
CountsAddUp == Current => SignalsAddUp /\ PlansAddUp

\* The drawdown shown is the worst fall of the balance from any moment to a later one,
\* and the present one is the fall from the highest balance to the newest.
DrawdownIsReal ==
  Current =>
    LET account == views.account.all
        b == Balances(trades)
    IN  /\ account.maxDrawdown = WorstFall(b)
        /\ account.drawdown = Max({b[k] - b[Len(trades)] : k \in DOMAIN b})
        /\ account.balance = b[Len(trades)]
=============================================================================
