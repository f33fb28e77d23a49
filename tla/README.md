# TLA+ verification of HOTIRJAM AI 5

HOTIRJAM AI 5 reads live MNQ market data that NinjaTrader writes to journal files, ships it
from a Windows machine to the analysis machine, derives internal trade decisions from it and
keeps a virtual account of the plans those decisions open. Beside that a live validator turns the
same ticks into bars, swings and objectives. This directory holds TLA+ models of the parts where
state survives, where processes meet, where files are replaced, and where one frame's answer
depends on the frames before; TLC configurations that check them on small instances; and TLAPS
proofs for all parameters.

    tlasany M.tla                                    parse a module
    tlc -workers 2 -config MCBridge_loop.cfg MCBridge    run one configuration
    tlapm TradeProofs.tla                            check the proofs of a module

`PROJECT.json` lists the runs, the source lines behind every definition, the mutants (for each
checked property a plausible bug of the code that breaks it; the mutated operators stand next to
the originals, marked "mutant"), the hazards and the theorems.

## 1. The system and its parts

```
 NinjaTrader  ->  mnq_ticks.ndjson, mnq_dom.ndjson            (Windows, external)
     | tail, wrap, POST, retry         bridge sender           BridgeTransport, TailAndWindow, BridgeBoard
     v HTTP (or a file, the inbox)                             (BridgeInbox, BridgeApps)
   dedupe, append, verify              bridge receiver         BridgeTransport, TailAndWindow, GapMetrics
     v
 journal files of the analysis machine
     | tail           | tail + trim                            LiveTail
     |                +-> live validator: bars -> swings -> registry -> objectives
     |                    -> initiative -> response -> continuation -> break capability
     |                    -> log, observation session -> replay
     |                       LiveValidator, TickBars, StructuralHierarchy, ObjectiveSelection,
     |                       EpisodeStages, ObjectiveRecorder, Replay
     v
   dashboard
     feed health, labels, event log, market memory             FeedHealth
     physics -> state -> behavior -> context                   MarketReading
       -> foundation -> intent -> evaluation -> assessment     MarketReading
     trade decision, memory influence, explanation             TradeDecision, DecisionPolicy,
                                                               MemoryDiagnostics
     performance tracker, trade plans, position lock,          TradeLifecycle (crash points),
     lifetime statistics, entry timing, virtual account        SignalAudit (times and prices)
     v
 dashboard screen, mission control                             (display only)
```

| Part | State it keeps | Operations | What makes it correct |
|---|---|---|---|
| bridge sender (`sender/http_runtime.py`, `http_client.py`, `tail.py`) | tail offset and inode per journal, sequence numbers, session id, counters, heartbeat age | poll, wrap, POST with retries, give up, heartbeat, status refresh, stop | offers each line once, in order; every number is a success, a counted failure or in flight; always comes back to its polls; an outage does not stay Connected |
| bridge receiver (`receiver/runtime.py`, `dedupe.py`, `writer.py`, `http_server.py`) | dedupe window (memory), journals (disk), metrics | accept, duplicate, heartbeat, write and verify, refuse while stopping | what it acknowledges is journaled or was counted as refused; no early duplicate of a verified write, and no more copies than attempts; an identity is one payload |
| bridge metrics (`metrics.py`) | expected number per channel, Dropped, Duplicates, flags | record received, duplicate, malformed, merge the other end's counters | Dropped is never negative, never below the real gaps, never a loss counted again at each refresh |
| file relay (`sender/runtime.py`, `receiver/runtime.py` `run_inbox`, the two `app.py`) | offsets into two files, counters | take a line, skip, accept, stop at a maximum | every line is answered once; a tick reaches the journal unless nobody ran or the journal was replaced |
| journal readers (`live_data/ndjson_tail.py`, `ingress.py`) | offset per process, proven consumed offset | arm at the end, poll, park after a trim | lines whole, in order, once; none skipped |
| retention (`retention/files.py`, called by `live_validator/app.py`) | none | trim the consumed prefix | removes consumed bytes only |
| live validator (`live_validator/`) | bars, swings, frame; two checkpoints; a log | a tick through all stages, restart | the stages agree on one objective; the log names it |
| objective hierarchy (`objective_diagnostics/`, `objective/`) | registry of swings, frontiers, encoded fragments, checkpoint; the active objectives | evaluate, archive, restore; choose, hold, release | a swing is registered once and keeps its parent and category; the file is what memory is; the objective is the nearest that may be one |
| episode stages (`initiative/`, `response/`, `continuation/`, `break_capability/`) | phase of the initiative, its checkpoint | score a frame | each stage is about the objective before it; the end of an initiative is reported once |
| objective observer (`objective_engineering/`) | the snapshot before | compare two snapshots | names why a side changed, or an anomaly |
| observation and replay (`observation/`, `replay/`) | records of text fields | record a frame; parse and judge | the replay judges what the frame said |
| feed and DOM health, market memory | last receive time, status; bounded streams | record, evaluate, clear | the labels and the log agree with the status; silence is noticed; a disconnect clears the memory |
| decision and market pipelines, physics, liquidity | two ticks, trackers, the regime before, a book | evaluate | functions of these and the feed status |
| trade decision (`trade_decision/`) | last three samples per side | evaluate, explain | at most one side; three frames in a row that favoured it; the explanation fits the decision |
| trade planning (`trade_planning/engine.py`) | plans, active plan, last decision, two histories; `trade_plans.json` | observe, update_price, load, save | one open plan; closed by the first price at stop or target; never lost |
| position lock (`position_lock/manager.py`) | state, plan id, blocked count (memory) | activate, close, block | held exactly while a plan is open, also after a restart |
| performance tracker, entry timing (`performance/`, `entry_timing/`) | signal records, pending paths (memory) | observe, evaluate pending, complete | one record per new decision, measured on its own path |
| lifetime statistics (`dashboard/lifetime_stats.py`) | finished signals, ids, pending memory; a file | note, sync, trim, flush, the views | each finished signal once, on its own day |
| virtual account (`dashboard/virtual_account.py`) | trades, ids; a file | sync from closed plans, flush, the views | each closed plan once, with its points, some day; a drawdown that happened |
| dashboard controller and app | latched price, previous decisions, run loop | on_tick, snapshot, start, stop | the order of the calls above; the cut points of a crash |
| mission control, display, probes, control scripts | none that others depend on | draw, measure, start and stop the above | not modelled |

What is hard here: requests that time out at the client and arrive later; two counters, a window
and two files that have to agree across restarts of two processes; a file that is appended to,
tailed twice and rewritten with no lock; three files of one process replaced at three moments of
one loop; three memories of "the previous decision" of which a restart restores one; six stores
that count one signal, each by its own edge; a registry checkpointed from fragments that were
encoded when a record was stored; objectives remembered by value while their swings change under
them; histories nobody clears across a silence of the feed. The list of hazards with their source
lines is in `PROJECT.json`.

## 2. The modules

| Module | Models | Relation |
|---|---|---|
| `TailAndWindow` | `sender/tail.py`: arming, replacement by inode or size, reading to the last newline; `receiver/dedupe.py`: the bounded window as a sequence of keys | operators, used by BridgeTransport and BridgeInbox |
| `GapMetrics` | `metrics.py`: the counters as one record | instantiated by BridgeTransport and BridgeInbox |
| `BridgeTransport` | sender, network, receiver, producer | the detailed specification |
| `BridgeDelivery` | what the bridge promises | abstract specification, implemented by BridgeTransport |
| `BridgeProofs` | theorems about the bridge | extends BridgeTransport, TLAPS |
| `BridgeBoard` | what both ends tell of the link: Dropped, the flags, heartbeats, endpoints, status loops | a specification of its own |
| `BridgeInbox` | the bridge with the network off: a file of envelopes between the two programs | a specification of its own |
| `BridgeApps` | the two command lines | BridgeBoard or BridgeInbox |
| `AppsProofs` | theorems about the boards and the file relay | extends BridgeApps, TLAPS |
| `LiveTail` | the journal, its writer, its readers and the trim | a specification of its own |
| `TailProofs` | theorems about the journal | extends LiveTail, TLAPS |
| `FeedHealth` | the health monitors of both feeds and what reacts to them: labels, event log, memory | a specification of its own |
| `HealthProofs` | theorems about the monitors | extends FeedHealth, TLAPS |
| `MarketReading` | physics, liquidity, regime, behaviour, context, and the four stages to READY | operators, used by DecisionPolicy |
| `MemoryDiagnostics` | consensus and persistence of the market memory, and its influence on a score | operators |
| `DecisionPolicy` | scores, confidences, readiness, the stability window; the breakdown of a score, the reason and the evidence beside a decision | operators over MarketReading and MemoryDiagnostics |
| `TradeDecision` | the deciding side of the dashboard, frame by frame | the detailed specification |
| `DecisionProofs` | theorems about the deciding side, with the refinement | extends TradeDecision, TLAPS |
| `SignalStream` | what the rest may take for granted about the decisions | abstract specification, implemented by TradeDecision and taken over by TradeLifecycle |
| `TradeLifecycle` | the trading side of the dashboard process, with its crash points | the detailed specification |
| `TradeLedger` | positions opened one at a time, closed once, booked once | abstract specification |
| `TradeProofs` | theorems about the trading side, with the refinement | extends TradeLifecycle, TLAPS |
| `EntryTiming`, `LifetimeViews`, `AccountViews`, `TradePlans` | what follows a signal; the store of signals and its panels; the account and its periods; stops and targets, with the lock and plan panels | operators, used by SignalAudit |
| `SignalAudit` | what the dashboard remembers of its own signals, with times and prices | composes the four above |
| `AuditProofs` | theorems about what the dashboard remembers of its signals | extends SignalAudit, TLAPS |
| `TickBars` | bars and swings | operators, used by LiveValidator |
| `StructuralHierarchy` | the registry of swings and its checkpoint | a specification, composed by LiveValidator |
| `ObjectiveSelection` | the objective in force on each side | extends StructuralHierarchy |
| `EpisodeStages` | initiative, response, continuation, break capability | operators, used by LiveValidator |
| `ObjectiveRecorder` | the observer of the objectives | operators, used by LiveValidator |
| `LiveValidator` | the process: a tick through all of it, deaths, restarts | composes the five above |
| `ValidatorProofs` | theorems about the registry on its own, then about the process, its objectives and its chain of stages | extends LiveValidator, TLAPS |
| `Replay` | an observation session and the replay that judges it | extends LiveValidator |
| `Optional` | the model value for Python's None | |
| `MCBridge`, `MCApps`, `MCTail`, `MCHealth`, `MCTrade`, `MCDecision`, `MCAudit`, `MCValidator`, `MCReplay` | the values of the constants for TLC | extend the above |

### BridgeTransport

Both processes are single asyncio loops, so what lies between two awaits is one step. A POST is
three steps: `PostLine` puts a request in `net`, one of the `Accept...` actions handles it at the
receiver and answers, `AttemptEnds` takes the answer or the time-out. A request that is lost stays
in `net`; with `LateDelivery` one that the client gave up may still be handled, as often happens
when the client's total time-out fires first. `Faults` chooses what can go wrong in the receiver:
the append fails (`io_error`), the line is written and cannot be read back (`unread`), another
writer's line stands behind it (`mismatch`), the journal is replaced or emptied between the append
and the read-back, as a trim does, so that no journal holds the line (`swapped`), a signal arrives
while the server still serves (`stop`). `RefusedLines` are the payloads that the sender takes and
the receiver's own validation refuses. For `mismatch`, `swapped` and a refusal the code counts the
line as malformed and answers 200, so the sender does not try again. Both processes
may die at any step and start again; what they keep in memory is lost, journals and source files
are not. The source file is `base`, `size` and inode: which lines exist under which identity is all
the tail can tell. A payload is the number of its source line. Three variables are history: `wlog`,
the verified writes of this receiver process, `unproven`, its appends that could not be verified
(each with the number of verified writes before it), and `refused`, what a receiver counted as
malformed and wrote nowhere.

The contract `BridgeDelivery` is honest about what the code can give: an envelope is written at
most once *per receiver process*, because the window lives in memory; it is settled once, as
acknowledged (then it is journaled, or a receiver refused it) or as abandoned (then it may or may
not be journaled).

### BridgeBoard, BridgeInbox, BridgeApps

`BridgeBoard` looks at the same two processes from the other side: not what they deliver but what
they show. An awaited request is one step with an outcome (which attempts were answered, and how).
A moment is kept as its age, which stops growing beyond the limit the code compares it with. A
sender's loop is `poll`, a line if there is one, a heartbeat if it is due, a status refresh if it is
due, sleep; the receiver answers the endpoints and draws its own board. `worst` is a history
variable: the most losses the receiver ever reported to this sender process.

`BridgeInbox` is the same relay with files: `TickSenderRuntime` turns source lines into envelopes
and logs them, somebody outside the code fills the receiver's inbox from that log in any order and
any number of times, `run_inbox` tails the inbox. A line, a heartbeat, an envelope without a session
(`Legacy`) and a line that is none are distinguished, no more. `MisreadsTick` is the append that is
not found when it is read back: counted as malformed, not remembered, and in the journal or, when
that was replaced, not. (An append that raises OSError ends the process; it is left out.) `BridgeApps` is the choice both
command lines make once, when they start: HTTP or files.

### LiveTail

A line is two pieces, so a reader may find it in part, as `poll` expects. `Stat` and `Read` are two
steps because the file may be replaced between them by another process. The trim of the owner is
`ReadRetained`, `Swap` (the `os.replace`) and `Park`, with the writer free in between; it may follow
any poll of the owner, where the code takes every twentieth. `exposed` is a history variable: the
lines a trim found unread or that were written while it ran.

### FeedHealth

The loop of the dashboard is `ticks`, `doms`, `check`, `render`: `OnTick` and `OnDom` for the lines a
poll found, `CheckConnectionHealth`, and `Snapshot` or `NoFrame`. `Elapse` makes both feeds older
between any two of them; an age counts no further than the disconnect threshold, since the code only
compares it. A memory record is the *era* it was made in, the number of disconnects found before it;
what a record says (direction, strength) is left out here and is what `MemoryDiagnostics` is about.
`exposed` is a history variable: the disconnects a frame saw before a health check did. The redraw
interval is abstracted, so any turn of the loop may draw a frame or not.

### TradeDecision and what it reads

`MarketReading` is a chain of pure operators, one for each stage of the two pipelines, from two
consecutive ticks and one order book to whether a side is READY. Times are whole seconds, prices
quarter points, ratios whole percents or tenths; the thresholds are the code's. `DecisionPolicy` adds
the scores with the memory's influence, the confidence and the two stability histories, and the
breakdown and the texts that a frame shows beside its decision, as the set of facts they state.
`MemoryDiagnostics` counts positions of the ring, not records, since equal records count each.

`TradeDecision` has the actions a frame depends on: a tick (of the same or a later second, or with a
clock that steps back), a book, the silence of either feed as the monitors find it, a frame. What the
market memory holds when a frame asks it is any element of `Memories`: the ring itself, and when it
is cleared, is `FeedHealth`'s subject, and the two are not composed. No variable counts, so the
behaviours are unbounded and the run needs no bound. The frames of the last window are remembered in
`favoured` (a history variable: which sides the market favoured in each), and the properties relate
decisions to it and not to the histories the code keeps.

`SignalStream` is the contract: in a frame at most one side is favoured, and a decision is a side
favoured in each of the last `Window` frames. `ImplementsStream` checks that `TradeDecision` keeps
it. `TradeLifecycle` is written on it: there a decision is the side of the current run, once the run
is as long as the window.

### TradeLifecycle

One thread runs everything, but three files are replaced at three moments of a snapshot, so the
snapshot is cut there: `Evaluate` (decision, signal record, exits and the plan file), `OpenPlan` or
`NoNewPlan` (lock, plan, what is noted for the statistics), `PersistSignal` and `FlushLifetime`,
`BookTrade` and `FlushAccount`. `Crash` may follow each of them, as may a `KeyboardInterrupt`: `stop`
writes nothing. `OnTick` happens between snapshots. A plan's id is its place in the list (ids are
UUIDs in the code). The stop distance is any element of `Risks` and every plan keeps the process that
created it (`born`, a history field). The clock is abstracted: `evaluate_pending` finishes any prefix
of the records, since the oldest are the first whose delay is over. The store drops its oldest signal
when it is full (`MaxStored`); the run fills it.

### SignalAudit and its parts

The same snapshot, seen for what it counts and measures: time is a number of seconds, every frame
has a price. `Frame` is one action (`OnTime` or `Late`), preceded by the tick that brought its
price, and calls the parts in the order of the code: statistics of the decision, tracker, timing
auditor, plans, lifetime store, account, panels. `RecordPrice` happens twice a frame, as in the
code. `TradePlans` has both histories of the planning engine with the index that is shared between
them, and what the lock and the plan panels show, `EntryTiming` the tracker and the auditor, which
keep two records of one signal, `LifetimeViews` matches them again by side, price and nearness in
time, `AccountViews` works out balances and drawdowns. A restart between two frames keeps the three
files. `seen` and `began` are history variables: the frames of this process, and what it found when
it started. Calendars are functions of the clock (day, week, month).

### LiveValidator and its parts

A tick goes through everything synchronously, so it is one action, `Tick`; `DiesInTick` ends the
process between the durable writes of a tick (registry checkpoint, initiative checkpoint), `Dies`
between ticks, `Restart` begins again from the two checkpoints with empty bars, swings and
objectives.

The ticks are a file, `feed`, and `cursor` says how many of them the tail has read. A tail arms at
the end of the file, so a restart reads on from there. `Rewind` is what the tail does when another
process has made the file shorter than its offset: it starts over at the beginning, behind the
ticks that are gone (`Remnants`), and every stage is fed ticks that it, or the process before it,
was fed already. What is in an older bucket then joins the bar that is being formed, as in the
code, until the ticks are past it. After a restart and a rewind the lists are remade from ticks
that the dead process had, and the old swings, dead or alive, are listed again. A bar that is
remade only in part may give the same pivot another strength: that is another swing to the
registry, by its fingerprint, and the theorems allow for it.

`told` and `spent` are history variables: the swings, with their ids, of every frame that was made
so far, by any process; and whether the end of an initiative was reported after which nobody came
to control again. `spent` follows the evaluations whose phase was saved, those that a death cut
short among them.

`StructuralHierarchy` keeps the registry as a sequence (an id is a position), the two frontiers as
stacks of ids, and beside each record its encoded `fragments`, since a checkpoint is put together
from the fragments and not from the records: a step that stores a record without encoding it again
would write an old one. An evaluation is the pipeline of the code, each step storing its records:
`Ingest`, `Names` (classification), `Resolves`, `Retires`, `Challenges`. `Inherited` is the set of
checkpoints the first process may find, one of the previous version among them, whose breached swings
`Loaded` brings back as challenged. `HSpec` is the registry on its own, fed any swing at any price.

`ObjectiveSelection` holds an objective by value, finds it again in each report, releases it when it
is broken and bars its price; `LoggedAs` is how the log finds it, by its price among rows sorted for
a reader. `EpisodeStages` are scores in hundredths of a point, divisions rounded down where the code
has floating point; the thresholds between the states are the code's. `ObjectiveRecorder` observes
the objectives beside the stages and keeps, as the files do, the changes and the anomalies.

### Replay

`Observe` writes the frame a tick produced as a record of text fields; `Parsed` reads the fields
back the way the code does, by looking for words. A field is the tuple of its words, so that which
word is found, and in which order of tests, is in the model; formatting is not.

## 3. The runs

| Run | Instance | Checks |
|---|---|---|
| `bridge_delivery` | 3 ticks of which the receiver refuses the second, window 1, 2 attempts, late attempts, all write faults, 2 receiver lives | AckedIsJournaled, DuplicateDistance, CopiesAreAttempts, LossesCounted |
| `bridge_sessions` | 2 ticks, 2 sender and 2 receiver processes, the source file under 2 inodes, append errors, swapped journals, late attempts | KeyNamesOneLine, LineOfferedOnce, ImplementsDelivery |
| `bridge_loop` | 3 ticks of which the second is malformed and the third refused by the receiver, 1 DOM line, `--max-ticks 2`, append errors and shutdown, fairness | OrderPreserved, EveryLineSettles |
| `bridge_status` | HTTP: 2 posts, 1 attempt, 1 sender and 2 receiver starts; files: 3 lines of which the second is bad, an inbox of 2, window 1, 2 runs of each end, maxima of 2; fairness | LinesAreCounted, TickIsJournaled, DroppedIsBounded, OutageIsShown |
| `tail_readers` | 3 lines of two pieces, two readers, one restart, trims above one piece, fairness | OwnerInOrder, TrimIsExposed, LineIsPassed |
| `tail_loss` | 3 lines, the owner alone | NothingIsLost: violated |
| `health_loop` | thresholds 1 and 2, a ring of 4 records, 3 ticks, 2 order books, fairness | PanelTellsStatus, StaleIsExposed, SilenceIsNoticed |
| `trade_lifecycle` | 3 prices that win, lose or hold either side, 2 signals, a store of 1, 2 processes, a stability window of 3, fairness | OneOpenPlan, OpenPlanInsideBand, BookedOnce, SignalsAreAnswered, ImplementsLedger, ClosedIsBooked |
| `decision_frames` | 4 moves, 3 rates, 3 books, 2 memories; unbounded behaviours | DecisionIsFounded, ExplanationFits, TurnsThroughNoTrade, ImplementsStream |
| `audit_frames` | 10 frames with forking prices and sides, a delay of 3 s with a checkpoint each second, audits matched within 1 s, one late frame, one restart, days of 3 s | SignalsAreMeasured, CountsAddUp, DrawdownIsReal |
| `validator_chain` | 11 ticks with forking prices, one that joins a bar, one restart, a file that gets shorter once (its first tick is gone), two initial checkpoints | ListedAreRegistered, CheckpointIsCurrent, ParentsAreNearest, ObjectiveIsNearest, ChainIsCoherent, LogNamesTheObjective, StructureIsPermanent, ExpiresOnce |
| `replay_reading` | the same feed without restarts, sessions of up to 8 frames | ReplayJudgesTheFrame: violated |

What the larger properties say:

* `AckedIsJournaled`: what the sender counts as sent is in a journal, or the receiver counted it as
  malformed and wrote it nowhere. There are two ways to be refused and answered 200: a payload that
  its validation turns down, and a line whose journal was replaced under the write.
* `DuplicateDistance`: one receiver process appends a key that it *verified* once more only after a
  window of other verified writes, whether the later append can be verified or not. It says nothing
  of a key whose append could not be verified: that is not remembered, and the retry appends it at
  once. `CopiesAreAttempts` bounds those too: whatever fails, however many keys leave the window and
  whichever receivers restart, a payload is in the journals at most once for each attempt of its
  sender. `LossesCounted`: what was given up without being journaled is among the
  counted failures, and Dropped is never less than the gaps.
* `OutageIsShown`: an end that is gone for good does not stay Connected on the board of the other.
  `DroppedIsBounded`: Dropped is never more than the own failures and the most the other end
  reported, however often the two are merged.
* `SignalsAreAnswered`: a new decision became a signal record, and a plan unless one was open.
  `CountsAddUp`: the six places that count signals, each by an edge of its own, agree: lifetime and
  today's panel, session panel, timing, frequency, plans and lock, with and without a restart on the
  way. `SignalsAreMeasured`: a stored signal has the extremes of its own path, unless a twin of the
  same side and price was opened so near to it that the store cannot tell them apart.
* `DecisionIsFounded`: a side is decided exactly when the market favoured it in each of the last three
  frames, whatever the memory says: its influence tips no scale. `TurnsThroughNoTrade`: no frame turns
  a BUY into a SELL. `ExplanationFits`: what is shown beside a decision does not contradict it, for
  every fact the reading can bring.
* `ListedAreRegistered`: every swing that is listed is registered once, and every swing that any
  process made a frame with keeps its id, though the lists start anew and old ticks come again.
  `ExpiresOnce`: between two reports that an initiative ended somebody was in control; a phase saved
  one evaluation late would report the end again after a death.
* `CheckpointIsCurrent`: a restart would go on exactly where the process is, record by record and
  fragment by fragment. `ParentsAreNearest`: the stack computes the declarative parent.
  `ObjectiveIsNearest`: what is offered is alive and no eligible swing is nearer.
  `LogNamesTheObjective`: the log, which finds the objective by its price alone, names that swing.
  `ChainIsCoherent`: the break engine aims at an objective the same frame offers, control and phase
  agree, the observer never sees the impossible, and its file of changes ends where the sides stand.

Why the bounds are enough. A window of one key with three envelopes and a second attempt of each
already evicts, re-admits and overtakes; the general window size is proved. Two lives of a process
show everything a restart can mix up, since it keeps only files, and files of earlier lives look
alike. Two source inodes give removal, recreation and reuse. In `LiveTail` three lines allow two
trims with a line before, between and after them. In `FeedHealth` three ticks give two disconnects
and two recoveries, from stale and from lost, and four records overflow the ring; other thresholds
are proved. In `TradeLifecycle` two signals are enough for a plan that is open, closed or restored
when the next one comes, on either side; a store of one overflows with the second. The ten frames of
the audit open up to four signals, of which two overlap, close plans on both sides, change the day
three times and the week and the month once; a history of five forgets. The eleven ticks of the
validator confirm two highs and two lows on either branch, with a swing displaced, one superseded,
one broken and one reclaimed; three bars are the least that confirm a swing. With one restart and one
rewind the ticks of the dead process are read again from the file: its swings are made again, among
them ones that were broken before.
Moves of one and of
eleven quarter points with three rates reach every regime and behaviour on both sides. Each named
bound is a CONSTANT ending in `Bound` (or a sequence of inputs marked as one) and appears only in a
guard.

Deadlock is checked in `decision_frames`, which is unbounded. Elsewhere every bounded behaviour ends
when the inputs or the restarts are used up, and the code itself may be stopped at any time.

### Fairness

* Bridge: the event loop runs the sender's own code, and the total time-out of the client ends
  every attempt. Nothing is assumed of the producer, the network, the receiver or of whoever
  restarts a process.
* Boards: the loop of either end goes on while its process lives, and time passes. The status
  refresh is strongly fair: the sender's loop comes past its test again and again, and in between
  the interval of the refresh is over.
* Tail: every reader polls in a loop, the owner's trim is part of that loop. Nothing is assumed of
  the writer, which may stop in the middle of a line.
* Health: the loop goes on while the process lives (each poll returns finitely many lines) and time
  passes. No tick and no frame has to come.
* Trading: the run loop renders at its refresh interval while the process lives. No tick has to
  come, and nobody has to restart a process that died, so `ClosedIsBooked` says "or the process
  ends first".
* Decision, audit, validator and replay have safety properties only and assume no fairness.

## 4. What the violations show

* **A trim loses lines it has kept**: the offset is parked behind the remnant, and the remnant is
  precisely what was never delivered (`NothingIsLost`). Lines appended between the read and the
  replacement are lost as well; `TrimIsExposed` bounds both.
* **A replay does not judge what the frame said** (`ReplayJudgesTheFrame`): a break capability is
  written as its side, its band and a probability on a scale of a hundred. The reader finds the level
  aimed at in the word of the band ("SELLER HIGH" aims at the high) or not at all, and compares the
  probability with 0.60 and 0.35. A frame that foretold a break which did not come fails its check;
  its record passes.

Known limits the models keep as they are, and the contracts allow for:

* The bridge is not at-least-once: the sender's offset passes a line at the poll, and after
  `--retries` failures the line is counted and dropped. A restarted receiver may write an envelope
  again; an attempt that arrives late may be journaled behind its successors; a file whose inode is
  used again at a larger size is taken for the old one.
* The sender looks at the status only, and the server answers 200 whenever `accept` returns: for a
  payload that is refused, for a line that reads back differently, for one whose journal was
  replaced under the write, and for everything that comes while it is stopping. The first three are
  counted as malformed; `AckedIsJournaled` states two of them as its exceptions, and the window of a
  stopping receiver is left out of its run. A key whose append could not be verified is appended
  again by the retry.
* A disconnect that a frame sees first does not clear the market memory: `snapshot` evaluates the
  feed as well and sets the label, so the next health check finds no transition. `StaleIsExposed`
  shows that this is the only way.
* A full statistics store forgets the ids of the signals it drops while the tracker still has the
  records, and persists them again.
* The panel of the last signal may show the memory effect of a later frame, and a frame may print
  that a side's conditions are not satisfied while it still decides the other.

## 5. What is proved

TLAPS proves the following for every value of the constants that satisfies the named assumptions
(`BoundAssumption`, `NoSendAssumption`, `BoardAssumption`, `InboxAssumption`, `TailAssumption`,
`LifecycleAssumption`, `HealthAssumption`, `DecisionAssumption`, `HierarchyAssumption`,
`InheritedAssumption`, `StatesAssumption`, `BarsAssumption`, `ValidatorAssumption`,
`ConfirmedAssumption`, `TimingAssumption`, `StoreAssumption`, `AccountAssumption`, `PlanAssumption`,
`AuditAssumption`). Most of them say of which kind a constant is, and that None, which stands for
Python's None, is not one of the records it is compared with. `TimingAssumption` says that tracker
and auditor wait equally long, as their two constants of 300 seconds do. Two say more.
`InheritedAssumption` says of a checkpoint that the first process finds what the theorems say of
every checkpoint that a process leaves. `ConfirmedAssumption` says of it what the classifier leaves
of major swings: no two that share a price and side were alive at once. A checkpoint of the previous
version in which a breached major swing shares its price with a later one is outside it, since
`Loaded` revives the first.

A theorem that needs more states it as a hypothesis, and each hypothesis is a limit of the code that
section 4 names.

**Bridge** (`BridgeProofs`, about `Spec` of `BridgeTransport`).
* `TypeCorrect`: the type invariant, action by action.
* `DuplicatesAreFarApart`: `DuplicateDistance` for every window, over verified writes and over the
  appends that fail their verification. Being far apart is not inductive by itself; the strengthening
  is that the window holds exactly the newest keys of the write log (`WindowIsSuffix`). Then a key
  that is not in the window is not among the newest writes.
* `CopiesAreBounded`: `CopiesAreAttempts` for any faults, windows and number of processes. `CopyInv`
  counts: the copies of an envelope and the requests for it that may still be handled are together
  no more than the attempts its sender has made.
* `IdentityNamesOnePayload`: `KeyNamesOneLine` for any number of processes. The strengthening
  `IdentityInv` says that every envelope anywhere (journal, network, sender, settled) lies behind
  the counters of the current session.
* `AcknowledgedIsJournaled`: `AckedIsJournaled` without the shutdown window, for every other fault,
  swapped journals included. `AckInv` adds to the above that every remembered key is journaled and
  every 200 on its way is for an envelope that is journaled or was refused.
* `LinesAreOfferedOnce`: `LineOfferedOnce` for all inodes and rotations. `TailInv` says that what the
  session has numbered, and what waits in the batch, lies behind every line a later poll can return
  (`Behind`); a replaced file counts only when `Replaced` notices it, so the invariant is about what
  the tail would read and not about where its offset points.
* `LossesAreCounted`: `LossesCounted` with one sender process (a second one resets the expected
  number, which is a limit of `metrics.py`). `GapsAreDropped` has to be related to the writes: a
  channel expects a number exactly when it has written one (`Expects`), a gap adds as many to Dropped
  as numbers become missing, and a late arrival takes one back from both.
* `JournalsAreInOrder`: `OrderPreserved`, when no abandoned attempt arrives late, each process runs
  once and no line that stays in a journal fails its verification; without any of these it fails. `OrderInv` says that
  at most one request exists, that it carries the latest number of its channel, and that this number
  is in the window if it was ever appended: a window of one key is enough.
* `DeliveryIsImplemented`: `BridgeTransport` implements `BridgeDelivery`. The contract promises one
  write by a receiver process, so the keys in use must fit the window; and no line that stays in a
  journal may be misread and no receiver may serve while stopping (failed appends, refused payloads
  and swapped journals are steps of the contract). `RefineInv` collects the invariants above and adds
  that a POST in flight is unsettled and that every request on the network is a known envelope.

**Boards and file relay** (`AppsProofs`, about `AppsSpec`, the specification that `bridge_status`
runs).
* `DroppedIsBoundedHolds`: `BoardInv`, the types with the bound. Merging takes the
  larger of the two counts and a failure adds one to both of its own, so that no number of refreshes
  raises Dropped above the failures and the worst report.
* `LinesAreCountedHolds`: `SenderInv` and `ReceiverInv`. Behind the tail of an end lie exactly the
  lines at which it was armed, those it took and those in its batch; each of the six ways to answer a
  line moves one statistic, one counter of the metrics and one line of the batch.
* `TickIsJournaledHolds`: `JournalInv` in addition. A named tick of the inbox is in the log of the
  sender (`NamedIsLogged`), two entries of the log with one identity are of one line
  (`IdentityNames`), and every key of the window is of a tick in the journal (`SeenIsWritten`): so a
  tick that is refused as a duplicate is in the journal with its own payload. One that is not found
  when it is read back is not remembered, and is in the journal or counted among those for which
  none is promised.

**Journal** (`TailProofs`, about `Spec` of `LiveTail`).
* The words of the code become facts about sequences first: `LastEndIs` (the last newline),
  `LinesAre` (the lines a poll gives are those of its whole pairs, in order), `Retains` (what a trim
  keeps). `InOrderEnumerates` shows by a least counterexample that a finite set of positions has an
  enumeration.
* `FileInv`: the pieces of the file, and those a trim holds, are in the order in which they were
  written; only complete lines were given; what a trim holds is exposed.
* `OwnerInv` has three parts. `PlaceInv`: the Owner's offset lies in the file, but between a swap and
  the parking, and what is proven consumed is that offset. `OrderInv`: what lies behind the offset
  comes after all that was given; from it `OwnerIsInOrder`. `LossInv`: a line begun since the Owner
  was armed was given, was exposed, or awaits it, with its two pieces side by side behind the offset
  and a newline before them. The last condition is what makes it inductive: without it a poll could
  find the second piece of a line whose first it had passed (`AtLineStart`).
* `ReplayInv`, for every reader: what lies behind its offset, or anywhere in a file that became
  shorter than it, comes after all the reader was given, or was exposed. With `OwnerInv` it gives
  `TrimIsExposedHolds`, for any number of trims, readers and restarts.

**Decision** (`DecisionProofs`, about `Spec` of `TradeDecision`).
* `DecisionInv` is inductive: the readings have their types, the two stability histories hold of
  each of the newest frames whether it favoured their side, no frame favours both, and the decision
  is founded. Two facts about the arithmetic carry it: `DeltaBounds`, the influence of the memory
  lies between -3 and 5 points, and `WhatIsReady`, a side is ready exactly on conditions in which
  the memory has no part. From it: `DecisionIsFoundedHolds`, `TurnsThroughNoTradeHolds`.
* `ExplanationFitsHolds`: no state is needed. For all facts that a reading may bring and all memories,
  a frame that favours a side has all of its strategy behind it (`FavouredFrame`), and a
  directional part of a score never gives points to both sides (`NotBothPoints`).
* `StreamIsImplemented`: `TradeDecision` implements `SignalStream`. The mapping counts the newest
  frames that favour the side of the last one (`CountIs`: there is one such count), and `CountMoves`
  shows that a frame moves it as the contract does.

**Trading** (`TradeProofs`).
* `BookInv` is inductive together with the types: both books are well formed (a plan is open if and
  only if it is the active one), file and memory agree on plans and active plan, the lock agrees
  with the active plan, and the latched price does not end the active plan. The last part is why the
  engine's own `update_price` inside `observe` never closes anything, which is what lets `observe`
  throw its result away. From it: `OneOpenPlanHolds`, `OpenPlanInsideBandHolds`
  and `TypesHold`.
* `BookedOnceHolds`: the strengthening `AccountInv` says the same of the account in memory and of
  its ids. The step that matters is `BookedStays`: every step of the program keeps, in both books,
  what is settled (`Extends`), so what was booked stays correctly booked.
* `LedgerIsImplemented`: `TradeLifecycle` implements `TradeLedger` under the mapping to its two
  files. It needs in addition that the account in memory extends its file (`LedgerInv`).
* `SignalsAreAnsweredHolds`: `SignalsAreAnswered` for every `StableWindow` but 1 (the code has 3).
  `CountInv` counts signals, plans of this process and blocked signals also within a snapshot;
  `MemoryInv` relates the three memories of the previous decision. The engine restores the decision
  it had when its file was written, the tracker starts with none. Only because the first snapshot of a
  process decides for no side, which takes a window longer than one sample, do they agree before a
  side can be decided. With a window of 1 a restored BUY swallows the first BUY of the new process,
  and TLC shows the behaviour.

**Health** (`HealthProofs`). `HealthInv` is inductive: the properties with the types and
`StatusLags`, which says that a status may lag behind the age of its feed but is never worse than it.
That is why no evaluation ever improves a status, and hence why a healthy feed has its event in the
log and a stale order book was healthy before. From it: `HealthTypeCorrect`, `PanelTellsStatusHolds`,
`StaleIsExposedHolds`, for all thresholds and ring capacities.

**Signals** (`AuditProofs`, about `ASpec`, the specification that `audit_frames` runs: any prices, any
decisions, any delays of frames, ends of days and restarts).
* The code adds up, filters and sorts; the model does so with folds, filters and sorted sequences.
  What they give is proved first, by least counterexamples on the length (`LeastExists`, `Climbs`):
  `FoldRuns` (a fold is the last of its partial results), `TotalIs` (a sum is that of its first
  members and the next), `WhereIs` (a filter gives the selected members, once and in order),
  `ExitOrder` (trades that closed in their order stay in it), `SumIs` and `SumGrows` (the sum of a
  dict does not depend on the order of its keys), `PartsCount` (the parts of a set have its
  size between them).
* `SignalsAreMeasuredHolds`: `MeasuredInv` says that the records of the tracker and the pending
  paths of the auditor are the same signals in the same order (`PathsInv`), that a path has the best
  and the worst of the prices since it was opened, and that each judged signal is audited with those
  up to the frame that judged it. `OwnOrTwin` is the step from there to the store: what
  `_match_mfe_mae` finds by side, price and nearness in time is the signal's own audit, or that of a
  twin.
* `DrawdownIsRealHolds`: `AccountInv` says that one plan is open at most and it is the last, that
  closed plans and trades are the same in the same order, and that the price is strictly inside the
  levels of the open plan. For the last, `PlanForIs` shows of all histories that the stop of a new
  plan is on the losing side of its entry and the target on the other. `CurveTraces` then follows
  the one pass of `_aggregate`: its peak is the largest balance so far and its worst fall the
  largest between any two moments.
* `PlansAddUpHolds`: `PlanCountsInv` adds `CountInv`, which counts signals, plans of this process,
  those that closed and those the lock stopped, with the memory of the previous decision in three
  places. As for `SignalsAreAnsweredHolds` above, `StableWindow` must not be 1 (the code has 3).
* `CountsAddUpWithRoom`, and `CountsAddUpHolds` for a feed that cannot fill the store: `CountedInv`
  adds what the store holds (`FoundInv`): the signals it was found with, then the judged ones of
  this process in their order, with the ids of both and of no other. `SyncGrows` shows that one
  `sync_completed` adds exactly what the last evaluation judged. From it the views of the day and
  the lifetime (`TodayCounts`, `LifetimeCounts`), and the session panel worked out from other
  records (`SessionCounts`, `SumsAgree`, `BestsAgree`) count the same. The hypothesis `Room`, no
  more signals opened than `MAX_STORED_SIGNALS` (5000), is the limit of the code that section 4
  names: a full store persists dropped signals again, and then the panels do differ.

**Registry** (`ValidatorProofs`, its first part, about `HSpec`: any swings at any prices, archiving,
restarts).
* `HierarchyInv` is inductive: memory is well formed and equals its fragments (`Good`), a frontier
  holds in order exactly the swings that no later one of their side reaches (`Nested`), every parent
  is the nearest (`NearestParents`), no swing is there twice, and the file is what memory holds.
* The step that matters is the arrival of a swing. `EnclosingIsPrefix` and `KeptIsStanding`: what
  the loop of `_assign_parent` leaves on the stack is exactly the standing swings beyond the new
  price. `LastEncloserStands`: of all swings beyond a price the last one stands. Hence the top of
  the stack is the parent that the docstring of `build_hierarchy` defines (`ParentsHold`).
* Everything after it rewrites records in place. `Put` is the only way to store, and `PutGood` shows
  that it keeps fragments equal to records; `EvaluatedKeeps` collects that nothing said of an older
  swing changes. From it `StructureHolds`, and, because an evaluation that leaves the records alone
  leaves the frontiers alone as well, `CheckpointFollows`, though a checkpoint is written only when
  something moved.

**Validator** (`ValidatorProofs`, about `LSpec`, the specification that `validator_chain` runs).
* `ValidatorInv` is the above with the types of bars and lists, what the next process would find
  (`Resumes`: sound, and nothing said is missing there, also when the death came between the two
  checkpoints), and, while the process runs, that file and memory agree and that every listed swing
  is seen. `AfterBarLists` shows that a bar brings at most one swing of a side, which is why one
  arrival of each side is all a tick has to take.
* From it: `ListedAreRegisteredHolds`, `CheckpointIsCurrentHolds`, `ParentsAreNearestHolds`,
  `StructureIsPermanentHolds`, for any feed, any limits, any number of deaths and any file that gets
  shorter. For the first, `EntriesKept` says that an evaluation keeps what the registry holds, ids
  with their swings, and `told` is kept in the registry and in what the next process would find.
* `ExpiresOnceHolds`: `SpentInv` is about the file. After an end was reported, and until somebody is
  in control again, the saved phase is one from which no end can be reported (`Idle`, `EndsOnce`),
  also when a death left the file one evaluation ahead of the memory that is lost. Since memory and
  file agree while the process runs, no evaluation of this process or of a later one reports the end
  again (`SpentStep`).
* `ObjectiveIsNearestHolds`: `ObjectiveInv` says of each side that what is in force is alive in the
  registry, that what is barred is dead there, and that what is in force is what the newest frame may
  offer. The engine keeps objectives by value while the registry changes under them; since the dead
  stay dead (`StructureIsPermanent`), a bar can never hide a swing that is eligible.
* `ChainIsCoherentHolds`: `CoherentInv` adds what the observer remembers: exactly what the engine said
  last (`WatchInv`), and that each transition of the engine is one the observer allows (`Follow`).
* `LogNamesTheObjectiveHolds`: the log looks for a price. `ConfirmedInv` shows why that is enough:
  no two major swings of one side and price are alive at once, in the registry and in the one a
  restart would load. A swing that is not major failed to stand out when it was measured, and a
  later swing at the price of a major one fails likewise or finds it retired.

**Only model-checked.** What is temporal beyond safety: `EveryLineSettles`, `OutageIsShown`,
`LineIsPassed`, `SilenceIsNoticed`, `ClosedIsBooked` (fairness is out of the prover's reach). And
that the runs reach the cases the theorems are about, which no theorem says.
The two violations are runs by their nature. What the theorems show of `FairSpec` is what they show
of `Spec`, of which it is a part.

## 6. Not modelled, and why

* Floating point: prices are integers of a tick or a quarter point, scores are integers rounded
  down. No property is about the last digit.
* Formatting, colours, layout, reports, logs that nothing reads back, probes that measure durations,
  terminal navigation (mission control), shell scripts: no state that others depend on.
* Files are replaced as a whole (a rename); torn files after a power failure are outside the models,
  and so are plan, store and checkpoint files that cannot be parsed. What a replacement of the
  receiver's journal takes along of earlier lines is left out of `BridgeTransport` and `BridgeInbox`
  (their journals are what was ever written and kept at its own read-back); `LiveTail` has it.
* A batch of several new swings of one side, which a restored registry could see only with lists a
  tick cannot bring; the transition journal of the registry, which is abstracted to whether the
  registry moved; the stateless rebuild of `objective_audit.py`, which is there for tests.
* The rotation of the snapshot log; rates, delays and the quality grade of the feed panel; latencies
  of the bridge.
* The market memory as the decision sees it is any of a set; `FeedHealth`, which has the ring, and
  `TradeDecision` are not composed.

## 7. Plan

Done: the bridge with its boards and the file relay, the trading side of the dashboard with its
crash points, its times and its numbers, the decision and all it reads, the journal with its readers
and its trim, the feed health, the live validator from the tick to the break capability, the replay,
and the proofs above: every safety property that a passing run checks is a theorem.

Next, in this order:

1. Composition of `FeedHealth`'s memory with `TradeDecision`.
2. A store that is full, with the ids it forgets: what `CountsAddUp` says of it beyond `Room`.
3. A plan file that cannot be parsed, and what the next save leaves of it.
