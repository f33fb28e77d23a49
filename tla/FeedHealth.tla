----------------------------- MODULE FeedHealth -----------------------------
(***************************************************************************)
(* How the dashboard notices that a feed went silent, and what it does then.  *)
(*   dashboard/feed_health.py, dom_health.py   one monitor for each feed      *)
(*   dashboard/controller.py                   labels, events, the hard reset  *)
(*   memory/memory_store.py, memory_adapter.py  the ring of market memory       *)
(*   dashboard/app.py                          the loop: poll, check, render    *)
(*                                                                         *)
(* The status of the ticks is evaluated in two places, in the health check     *)
(* and in the snapshot of a frame, and only the first reacts to a transition.  *)
(* Time passes between any two steps.                                      *)
(***************************************************************************)
EXTENDS Integers, Sequences

CONSTANTS
  Stall,       \* stall_seconds
  Disconnect,  \* disconnect_seconds, named stale_seconds in the controller
  Capacity,    \* records in the memory ring
  TickBound,   \* ticks in a behaviour (bound)
  DomBound     \* snapshots of the order book in a behaviour (bound)

ASSUME HealthAssumption ==
  /\ Stall \in Nat \ {0} /\ Disconnect \in Nat /\ Stall <= Disconnect
  /\ Capacity \in Nat \ {0}
  /\ TickBound \in Nat /\ DomBound \in Nat

Feeds    == {"tick", "dom"}
Statuses == {"HEALTHY", "STALE", "DISCONNECTED"}
Events   == {"none", "connected", "resumed", "stalled", "lost"}
Never    == -1   \* the age of a feed that never delivered

VARIABLES
  pc,          \* "ticks", "doms", "check", "render" in the loop, or "stopped"
  age,         \* per feed: time since it delivered, up to Disconnect
  status,      \* per feed: _feed_status of its monitor
  event,       \* per feed: its newest line in the event log
  connection,  \* _connection_status
  market,      \* _market_status
  velocity,    \* whether the physics know a velocity
  liquidity,   \* whether the liquidity engine holds a snapshot
  memory,      \* the ring: for each record, the era it was made in
  ticks,       \* ticks so far
  doms,        \* order books so far
  era,         \* disconnects of the tick feed so far
  exposed      \* the disconnects a frame saw before the health check

vars == <<pc, age, status, event, connection, market, velocity, liquidity,
          memory, ticks, doms, era, exposed>>

\* The state is of its types; records are not of a later era.
TypeOK ==
  /\ pc \in {"ticks", "doms", "check", "render", "stopped"}
  /\ age \in [Feeds -> {Never} \cup (0..Disconnect)]
  /\ status \in [Feeds -> Statuses] /\ event \in [Feeds -> Events]
  /\ connection \in {"CONNECTING", "CONNECTED", "DISCONNECTED"}
  /\ market \in {"WAITING", "OPEN"}
  /\ velocity \in BOOLEAN /\ liquidity \in BOOLEAN
  /\ memory \in Seq(0..era) /\ Len(memory) <= Capacity
  /\ ticks \in Nat /\ doms \in Nat
  /\ era \in Nat /\ exposed \in SUBSET (1..era)

\* The controller after start().
Init ==
  /\ pc = "ticks"
  /\ age = [f \in Feeds |-> Never]
  /\ status = [f \in Feeds |-> "DISCONNECTED"]
  /\ event = [f \in Feeds |-> "none"]
  /\ connection = "CONNECTING" /\ market = "WAITING"
  /\ velocity = FALSE /\ liquidity = FALSE /\ memory = <<>>
  /\ ticks = 0 /\ doms = 0 /\ era = 0 /\ exposed = {}

-----------------------------------------------------------------------------
(* The pieces the handlers share.                                          *)

\* mutant: stale is looked for first
StatusStaleFirst(a) ==
  IF a = Never THEN "DISCONNECTED" ELSE IF a >= Stall THEN "STALE" ELSE "HEALTHY"

\* What evaluate() makes of an age.
StatusAt(a) ==
  IF a = Never \/ a >= Disconnect THEN "DISCONNECTED"
  ELSE IF a >= Stall THEN "STALE" ELSE "HEALTHY"

\* mutant: that the ticks resumed is not logged
LoggedOnlyLosses(old, new, newest) ==
  IF old = new \/ (new = "HEALTHY" /\ old = "STALE") THEN newest
  ELSE IF new = "HEALTHY" THEN "connected"
  ELSE IF new = "STALE" THEN "stalled" ELSE "lost"

\* The line a transition adds to the log, or the one that stays the newest.
Logged(old, new, newest) ==
  IF old = new THEN newest
  ELSE IF new = "HEALTHY"
       THEN IF old = "STALE" THEN "resumed" ELSE "connected"
  ELSE IF new = "STALE"
       THEN IF old = "HEALTHY" THEN "stalled" ELSE newest
  ELSE "lost"

\* A deque with a maximal length drops its oldest records.
Newest(s) ==
  IF Len(s) <= Capacity THEN s ELSE SubSeq(s, Len(s) - Capacity + 1, Len(s))

Remember(n, e) == Newest(memory \o [i \in 1..n |-> e])

PriceKnown == age["tick"] # Never

\* The labels follow the status; before the first price they stay as they are.
SyncConnection(s) ==
  IF s # "DISCONNECTED" THEN "CONNECTED"
  ELSE IF PriceKnown THEN "DISCONNECTED" ELSE connection

SyncMarket(s) ==
  IF s # "DISCONNECTED" \/ PriceKnown THEN "OPEN" ELSE market

\* The tick feed is found disconnected with this status.
Lost(s) == s = "DISCONNECTED" /\ status["tick"] # "DISCONNECTED"

\* The disconnects so far, if this status is what is found.
EraAfter(s) == IF Lost(s) THEN era + 1 ELSE era

\* mutant: the label alone decides, and it is read after it was synchronized
ClearsAfterSync(s) == s = "DISCONNECTED" /\ SyncConnection(s) = "CONNECTED"

\* When the health check clears the memory.
ClearsMemory(s) ==
  s = "DISCONNECTED" /\ (connection = "CONNECTED" \/ status["tick"] # "DISCONNECTED")

\* The records of a frame: state and behaviour unless they are UNKNOWN, as they
\* are without a healthy feed, and the decision.
RecordsOfFrame(s) == IF s = "HEALTHY" THEN 3 ELSE 1

-----------------------------------------------------------------------------
(* Time.                                                                   *)

Older(a) == IF a = Never \/ a = Disconnect THEN a ELSE a + 1

Elapse ==
  /\ pc # "stopped"
  /\ age' = [f \in Feeds |-> Older(age[f])]
  /\ UNCHANGED <<pc, status, event, connection, market, velocity, liquidity,
                 memory, ticks, doms, era, exposed>>

-----------------------------------------------------------------------------
(* The loop.                                                               *)

\* A tick of this symbol.  The physics have a velocity from the second tick on,
\* unless the timestamps do not advance, and keep the one they have.
OnTick ==
  /\ pc = "ticks" /\ ticks < TickBound
  /\ ticks' = ticks + 1
  /\ age' = [age EXCEPT !["tick"] = 0]
  /\ status' = [status EXCEPT !["tick"] = "HEALTHY"]
  /\ velocity' \in IF ticks = 0 THEN {FALSE} ELSE {velocity, TRUE}
  /\ memory' = IF velocity' THEN Remember(1, era) ELSE memory
  /\ connection' = "CONNECTED" /\ market' = "OPEN"
  /\ event' = [event EXCEPT !["tick"] = Logged(status["tick"], "HEALTHY", @)]
  /\ UNCHANGED <<pc, liquidity, doms, era, exposed>>

\* A snapshot of the order book of this symbol.
OnDom ==
  /\ pc = "doms" /\ doms < DomBound
  /\ doms' = doms + 1
  /\ age' = [age EXCEPT !["dom"] = 0]
  /\ status' = [status EXCEPT !["dom"] = "HEALTHY"]
  /\ liquidity' = TRUE
  /\ memory' = Remember(1, era)
  /\ event' = [event EXCEPT !["dom"] = Logged(status["dom"], "HEALTHY", @)]
  /\ UNCHANGED <<pc, connection, market, velocity, ticks, era, exposed>>

\* The ticks, or the order books, that a poll found are used up.
NoMoreTicks ==
  /\ pc = "ticks" /\ pc' = "doms"
  /\ UNCHANGED <<age, status, event, connection, market, velocity, liquidity,
                 memory, ticks, doms, era, exposed>>

NoMoreDoms ==
  /\ pc = "doms" /\ pc' = "check"
  /\ UNCHANGED <<age, status, event, connection, market, velocity, liquidity,
                 memory, ticks, doms, era, exposed>>

\* check_connection_health: both monitors, the log, the labels, the reset.
CheckConnectionHealth ==
  /\ pc = "check" /\ pc' = "render"
  /\ LET now == [f \in Feeds |-> StatusAt(age[f])] IN
       /\ status' = now
       /\ event' = [f \in Feeds |-> Logged(status[f], now[f], event[f])]
       /\ connection' = SyncConnection(now["tick"])
       /\ market' = SyncMarket(now["tick"])
       /\ memory' = IF ClearsMemory(now["tick"]) THEN <<>> ELSE memory
       /\ liquidity' = (liquidity /\ now["dom"] # "DISCONNECTED")
       /\ era' = EraAfter(now["tick"])
  /\ UNCHANGED <<age, velocity, ticks, doms, exposed>>

\* A frame.  Its snapshot evaluates the ticks again, and the ticks only.
Snapshot ==
  /\ pc = "render" /\ pc' = "ticks"
  /\ LET now == StatusAt(age["tick"]) IN
       /\ status' = [status EXCEPT !["tick"] = now]
       /\ connection' = SyncConnection(now) /\ market' = SyncMarket(now)
       /\ era' = EraAfter(now)
       /\ exposed' = IF Lost(now) THEN exposed \cup {era + 1} ELSE exposed
       /\ memory' = Remember(RecordsOfFrame(now), era')
  /\ UNCHANGED <<age, event, velocity, liquidity, ticks, doms>>

\* The interval between two frames is not over.
NoFrame ==
  /\ pc = "render" /\ pc' = "ticks"
  /\ UNCHANGED <<age, status, event, connection, market, velocity, liquidity,
                 memory, ticks, doms, era, exposed>>

\* stop(), after an interruption at any step of the loop.
Stop ==
  /\ pc # "stopped" /\ pc' = "stopped"
  /\ connection' = "DISCONNECTED"
  /\ UNCHANGED <<age, status, event, market, velocity, liquidity, memory, ticks,
                 doms, era, exposed>>

Loop == NoMoreTicks \/ NoMoreDoms \/ CheckConnectionHealth \/ Snapshot \/ NoFrame

Next == Elapse \/ OnTick \/ OnDom \/ Loop \/ Stop

Spec == Init /\ [][Next]_vars

\* The loop goes on, a poll returns finitely many lines, and time passes.
FairSpec == Spec /\ WF_vars(Loop) /\ WF_vars(Elapse)

-----------------------------------------------------------------------------
(* Properties.                                                             *)

\* The labels on the screen agree with the status wherever it was evaluated:
\* once there is a price, the market is open and the connection reads
\* DISCONNECTED exactly while the tick feed is.
LabelsAgree ==
  /\ PriceKnown <=> market = "OPEN"
  /\ pc # "stopped" /\ PriceKnown =>
       connection = IF status["tick"] = "DISCONNECTED" THEN "DISCONNECTED"
                    ELSE "CONNECTED"

\* The newest event of a feed tells its status: of the order book always, of the
\* ticks while they are healthy.  (A frame that finds them stale or lost logs
\* nothing, and leaves nothing to find for the health check.)
EventsTellStatus ==
  /\ \A f \in Feeds :
       status[f] = "HEALTHY" => event[f] \in {"connected", "resumed"}
  /\ status["dom"] = "STALE" => event["dom"] = "stalled"
  /\ status["dom"] = "DISCONNECTED" => event["dom"] \in {"lost", "none"}

\* What the operator reads, two writers of the labels and one log in three handlers,
\* never contradicts the status of the feeds.
PanelTellsStatus == LabelsAgree /\ EventsTellStatus

\* A record from before a disconnect is in the memory only if every disconnect
\* since then was seen by a frame first: what the health check sees, it clears.
StaleIsExposed ==
  \A i \in DOMAIN memory : \A e \in (memory[i] + 1)..era : e \in exposed

\* A tick feed that went silent is found disconnected, unless a tick comes or
\* the process is stopped first.
SilenceIsNoticed ==
  \A n \in 1..TickBound :
    ticks = n ~> (ticks > n \/ status["tick"] = "DISCONNECTED" \/ pc = "stopped")

=============================================================================
