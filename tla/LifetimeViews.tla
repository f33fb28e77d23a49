---------------------------- MODULE LifetimeViews ----------------------------
(***************************************************************************)
(* The store of finished signals and the panels built from it                   *)
(* (dashboard/lifetime_stats.py): TODAY, LIFETIME and the history. A store is          *)
(* [signals, ids, noTrade, memory]: the signals in the order they were persisted,        *)
(* noTrade a count for each trading day, memory the effect noted for each signal that    *)
(* is still open. The file holds all of it but the ids.                             *)
(*                                                                         *)
(* An average is shown as its sum and its count, "--" being a count of zero; a         *)
(* ratio is left as its two sums. Calendars are constants: the trading day of a time.     *)
(***************************************************************************)
EXTENDS EntryTiming

CONSTANTS
  TradingDay(_),   \* trading_day_ny
  Near,            \* seconds in which an audit is taken for the signal's own
  MaxStored,       \* MAX_STORED_SIGNALS
  HistoryLimit     \* DEFAULT_HISTORY_LIMIT

ASSUME StoreAssumption == Near \in Nat /\ MaxStored \in Nat /\ HistoryLimit \in Nat

Memories == {"HELPED", "HURT", "NO_EFFECT"}

NoStore == [signals |-> << >>, ids |-> {}, noTrade |-> << >>, memory |-> << >>]

\* _load, of what _save wrote.
LoadedStore(file) ==
  [file EXCEPT !.ids = {file.signals[k].id : k \in DOMAIN file.signals}]

\* An entry of a dict is set, or is new.
Assigned(f, x, v) == [y \in DOMAIN f \cup {x} |-> IF y = x THEN v ELSE f[y]]

\* note_open.
NoteOpen(store, id, effect) == [store EXCEPT !.memory = Assigned(@, id, effect)]

\* record_no_trade.
Counted(counts, day) == IF day \in DOMAIN counts THEN counts[day] ELSE 0
RecordNoTrade(store, now) ==
  [store EXCEPT !.noTrade = Assigned(@, TradingDay(now), Counted(@, TradingDay(now)) + 1)]

-----------------------------------------------------------------------------
(* sync_completed.                                                         *)

\* _match_mfe_mae: the audit of a signal is found again by side, price and time.
Matches(audit, record) ==
  /\ audit.side = record.side
  /\ audit.entry = record.entry
  /\ audit.at - record.at \in -Near..Near

\* The first audit that matches, by the order they were completed in.
AuditOf(audits, record) ==
  LET K == {k \in DOMAIN audits : Matches(audits[k], record)}
  IN  IF K = {} THEN [mfe |-> None, mae |-> None]
      ELSE [mfe |-> audits[Min(K)].mfe, mae |-> audits[Min(K)].mae]

LabelOf(result) == CASE result = "SUCCESS" -> "WIN" [] result = "FAILED" -> "LOSS"
                     [] result = "NEUTRAL" -> "BREAKEVEN"

\* mutant: the day a signal ended on.
PersistedAtExit(record, audits, memory) ==
  [id |-> record.id, day |-> TradingDay(record.done), side |-> record.side,
   at |-> record.at, done |-> record.done, entry |-> record.entry,
   label |-> LabelOf(record.result), points |-> record.points,
   memory |-> IF record.id \in DOMAIN memory THEN memory[record.id] ELSE "NO_EFFECT",
   mfe |-> AuditOf(audits, record).mfe, mae |-> AuditOf(audits, record).mae]

\* The day of a signal is the day it was opened on.
Persisted(record, audits, memory) ==
  [id |-> record.id, day |-> TradingDay(record.at), side |-> record.side,
   at |-> record.at, done |-> record.done, entry |-> record.entry,
   label |-> LabelOf(record.result), points |-> record.points,
   memory |-> IF record.id \in DOMAIN memory THEN memory[record.id] ELSE "NO_EFFECT",
   mfe |-> AuditOf(audits, record).mfe, mae |-> AuditOf(audits, record).mae]

\* The signals that are finished and not yet in the store, in order; then the oldest
\* above the limit go, with their ids.
SyncCompleted(store, records, audits) ==
  LET new  == Where(records, {k \in DOMAIN records :
                               ~Pending(records[k]) /\ records[k].id \notin store.ids})
      all  == store.signals \o [k \in DOMAIN new |-> Persisted(new[k], audits, store.memory)]
      over == IF Len(all) > MaxStored THEN Len(all) - MaxStored ELSE 0
      taken == {new[k].id : k \in DOMAIN new}
  IN  [store EXCEPT !.signals = SubSeq(all, over + 1, Len(all)),
                    !.ids = (@ \cup taken) \ {all[k].id : k \in 1..over},
                    !.memory = Restrict(@, DOMAIN @ \ taken)]

-----------------------------------------------------------------------------
(* build_views.                                                            *)

SumOf(s, F(_)) == Total([k \in DOMAIN s |-> F(s[k])])
Mean(s, F(_)) == [sum |-> SumOf(s, F), count |-> Len(s)]
Points(signal) == signal.points

\* _memory_accuracy: how many of the calls that memory made came true.
MemoryAccuracy(signals) ==
  LET calls == {k \in DOMAIN signals : signals[k].memory # "NO_EFFECT"}
      right == {k \in calls : \/ signals[k].memory = "HELPED" /\ signals[k].label = "WIN"
                              \/ signals[k].memory = "HURT" /\ signals[k].label = "LOSS"}
  IN  [right |-> Cardinality(right), calls |-> Cardinality(calls)]

\* _aggregate. A panel with nothing to show is a panel of zeros.
Aggregate(signals, noTrade, pendingBuy, pendingSell) ==
  LET Of(side)      == Cardinality({k \in DOMAIN signals : signals[k].side = side})
      With(l)       == Where(signals, {k \in DOMAIN signals : signals[k].label = l})
      Effect(e)     == Cardinality({k \in DOMAIN signals : signals[k].memory = e})
      measured      == Where(signals, {k \in DOMAIN signals : signals[k].mfe # None})
      gains         == Where(signals, {k \in DOMAIN signals : signals[k].points > 0})
      losses        == Where(signals, {k \in DOMAIN signals : signals[k].points < 0})
  IN  [signals |-> Len(signals) + pendingBuy + pendingSell,
       buys |-> Of("BUY") + pendingBuy, sells |-> Of("SELL") + pendingSell,
       noTrade |-> noTrade,
       wins |-> Len(With("WIN")), losses |-> Len(With("LOSS")),
       breakeven |-> Len(With("BREAKEVEN")),
       averageWin |-> Mean(With("WIN"), Points), averageLoss |-> Mean(With("LOSS"), Points),
       grossProfit |-> SumOf(gains, Points), grossLoss |-> -SumOf(losses, Points),
       averageMfe |-> Mean(measured, LAMBDA s : s.mfe),
       averageMae |-> Mean(measured, LAMBDA s : s.mae),
       helped |-> Effect("HELPED"), hurt |-> Effect("HURT"),
       noEffect |-> Effect("NO_EFFECT"),
       largestWin |-> Max({0} \cup {gains[k].points : k \in DOMAIN gains}),
       largestLoss |-> Min({0} \cup {losses[k].points : k \in DOMAIN losses}),
       net |-> SumOf(signals, Points),
       days |-> Cardinality({signals[k].day : k \in DOMAIN signals}),
       accuracy |-> MemoryAccuracy(signals)]

\* TODAY is what was opened today, finished or not; LIFETIME is everything in the
\* file, and what this process still has open. The newest signals come first.
BuildViews(store, records, now) ==
  LET today == TradingDay(now)
      open  == {k \in DOMAIN records : Pending(records[k])}
      Open(side, days) ==
        Cardinality({k \in open : records[k].side = side /\ TradingDay(records[k].at) \in days})
      days  == {today} \cup {TradingDay(records[k].at) : k \in open}
      recent == SubSeq(store.signals,
                       Max({1, Len(store.signals) - HistoryLimit + 1}),
                       Len(store.signals))
      todays == {k \in DOMAIN store.signals : store.signals[k].day = today}
  IN  [today |-> Aggregate(Where(store.signals, todays),
                           Counted(store.noTrade, today),
                           Open("BUY", {today}), Open("SELL", {today})),
       lifetime |-> Aggregate(store.signals,
                              FoldFunction(+, 0, store.noTrade),
                              Open("BUY", days), Open("SELL", days)),
       history |-> Reverse(recent)]
=============================================================================
