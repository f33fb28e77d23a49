----------------------------- MODULE BridgeBoard -----------------------------
(***************************************************************************)
(* What the two ends of the HTTP bridge tell about the link: Dropped and the      *)
(* flags of BridgeMetrics, the heartbeat and the status refresh of the sender's    *)
(* loop, the endpoints and the status loop of the receiver                      *)
(* (metrics.py, sender/http_runtime.py, receiver/http_server.py).               *)
(*                                                                         *)
(* An awaited request is one step: the sender does nothing else meanwhile, and    *)
(* the time it takes passes in steps of the clock before it. A moment is kept as   *)
(* its age, which stops growing beyond Stale; Never is Python's None. A flag is    *)
(* computed where it is drawn: what is assigned to it elsewhere is assigned anew    *)
(* before it is drawn. The counts that only the board shows are left out.          *)
(***************************************************************************)
EXTENDS Integers

CONSTANTS
  Link,            \* the channels in use
  Stale,           \* stale_after, in steps of the clock
  Tries,           \* --retries
  PostBound,       \* envelopes a sender process posts (bound)
  SenderStarts,    \* sender processes (bound)
  ReceiverStarts   \* receiver processes (bound)

ASSUME BoardAssumption ==
  /\ Link \subseteq {"tick", "dom"} /\ Stale \in Nat /\ Tries \in Nat \ {0}
  /\ PostBound \in Nat /\ SenderStarts \in Nat /\ ReceiverStarts \in Nat

Counts == INSTANCE GapMetrics WITH Channels <- Link

Never == Stale + 2
Older(age) == IF age > Stale THEN age ELSE age + 1
Recent(age) == age <= Stale

VARIABLES
  turn,      \* of the sender: "down", "poll", "beat", "status", "sleep", "last"
  quit,      \* the sender's _stop
  starts,    \* processes so far, per end
  number,    \* _tick_seq and _dom_seq
  own,       \* the sender's failures, Dropped, and the age of its last heartbeat
  due,       \* the status refresh follows the heartbeat under way
  worst,     \* the largest Dropped this sender was told of
  board,     \* what the sender drew last
  up,        \* the receiver serves
  counters,  \* the receiver's counters
  link,      \* the ages of the receiver's last activity and heartbeat
  rboard     \* what the receiver drew last

svars == <<turn, quit, number, own, due, worst, board>>
rvars == <<up, counters, link, rboard>>
bvars == <<svars, starts, rvars>>

Nothing == [activity |-> Never, beat |-> Never]
Blank   == [connected |-> FALSE, heartbeat |-> FALSE]
ZeroOwn == [failures |-> 0, dropped |-> 0, beat |-> Never]

BInit ==
  /\ turn = "down" /\ quit = FALSE /\ starts = [sender |-> 0, receiver |-> 0]
  /\ number = [c \in Link |-> 0]
  /\ own = ZeroOwn /\ due = FALSE /\ worst = 0 /\ board = Blank
  /\ up = FALSE /\ counters = Counts!ZeroMetrics /\ link = Nothing /\ rboard = Blank

-----------------------------------------------------------------------------
(* The receiver.                                                           *)

\* refresh_connected: without any heartbeat the traffic stands for one.
Refreshed(l) ==
  [connected |-> Recent(l.activity),
   heartbeat |-> IF l.beat = Never THEN Recent(l.activity)
                 ELSE Recent(l.beat) /\ l.activity # Never]

\* An envelope that is handled `times' times, first as a new one; one of the wrong
\* contract is malformed each time, and no activity.
Handled(m, key, good, times) ==
  CASE times = 0 -> m
    [] good /\ times > 0 ->
         [Counts!RecordReceived(m, key) EXCEPT !.duplicate = @ + times - 1]
    [] OTHER -> [m EXCEPT !.malformed = @ + times, !.dropped = @ + times]

ReceiverBegins ==
  /\ ~up /\ starts.receiver < ReceiverStarts
  /\ up' = TRUE /\ starts' = [starts EXCEPT !.receiver = @ + 1]
  /\ counters' = Counts!ZeroMetrics /\ link' = Nothing /\ rboard' = Blank
  /\ UNCHANGED svars

\* _status_loop
ReceiverDraws ==
  /\ up /\ rboard' = Refreshed(link)
  /\ UNCHANGED <<svars, starts, up, counters, link>>

\* run_http_receiver is told to stop, and draws a last time.
ReceiverCloses ==
  /\ up /\ up' = FALSE /\ rboard' = Refreshed(link)
  /\ UNCHANGED <<svars, starts, counters, link>>

ReceiverDies ==
  /\ up /\ up' = FALSE
  /\ UNCHANGED <<svars, starts, counters, link, rboard>>

\* post_envelope with a body that is no envelope, by anyone: HTTP 400
Nonsense ==
  /\ up /\ counters.malformed = 0
  /\ counters' = Counts!RecordMalformed(counters)
  /\ UNCHANGED <<svars, starts, up, link, rboard>>

-----------------------------------------------------------------------------
(* The sender.                                                             *)

\* How often a request of up to `tries' attempts is handled, and whether the last
\* attempt was answered.
Fates(tries) ==
  {[times |-> n, ok |-> b] : n \in 1..(IF up THEN tries ELSE 0), b \in BOOLEAN}
    \cup {[times |-> 0, ok |-> FALSE]}

SenderBegins ==
  /\ turn = "down" /\ starts.sender < SenderStarts
  /\ turn' = "poll" /\ quit' = FALSE /\ starts' = [starts EXCEPT !.sender = @ + 1]
  /\ number' = [c \in Link |-> 0] /\ own' = ZeroOwn
  /\ due' = FALSE /\ worst' = 0 /\ board' = Blank
  /\ UNCHANGED rvars

Posted == {c \in Link : number[c] >= PostBound}

\* _send, record_send_failure
SendsOne(c, good, o) ==
  /\ turn = "poll" /\ ~quit /\ c \notin Posted
  /\ number' = [number EXCEPT ![c] = @ + 1]
  /\ counters' = Handled(counters, [sess |-> starts.sender, ch |-> c, seq |-> number'[c]],
                         good, o.times)
  /\ link' = IF good /\ o.times > 0 THEN [link EXCEPT !.activity = 0] ELSE link
  /\ own' = IF o.ok THEN own ELSE [own EXCEPT !.failures = @ + 1, !.dropped = @ + 1]
  /\ UNCHANGED <<turn, quit, due, worst, board, starts, up, rboard>>

\* The clock is read once and tells which of the two is due.
PollEnds(beat, status) ==
  /\ turn = "poll"
  /\ due' = (beat /\ status)
  /\ turn' = IF beat THEN "beat" ELSE IF status THEN "status" ELSE "sleep"
  /\ UNCHANGED <<quit, number, own, worst, board, starts, rvars>>

\* _heartbeat, and the endpoint it posts to
Beats(o) ==
  /\ turn = "beat"
  /\ turn' = IF due THEN "status" ELSE "sleep"
  /\ due' = FALSE
  /\ link' = IF o.times > 0 THEN [activity |-> 0, beat |-> 0] ELSE link
  /\ own' = IF o.ok THEN [own EXCEPT !.beat = 0] ELSE own
  /\ UNCHANGED <<quit, number, worst, board, starts, up, counters, rboard>>

Larger(m, n) == IF m > n THEN m ELSE n

\* mutant: the losses of both ends are added up
MergedAdding(s, m) == [s EXCEPT !.dropped = @ + m.dropped]

\* merge_remote, with what the receiver counted
Merged(s, m) == [s EXCEPT !.dropped = Larger(@, m.dropped)]

\* mutant: a failure of the refresh is logged and leaves the board
DrawnIfReached(s, ok) ==
  IF ok THEN [connected |-> TRUE, heartbeat |-> Recent(s.beat)] ELSE board

\* The link is judged by the answer, never by the flags of the other end.
Drawn(s, ok) == [connected |-> ok, heartbeat |-> ok /\ Recent(s.beat)]

\* _refresh_status: GET /metrics, one attempt
RefreshesStatus(o) ==
  /\ own' = IF o.ok THEN Merged(own, counters) ELSE own
  /\ worst' = IF o.ok THEN Larger(worst, counters.dropped) ELSE worst
  /\ board' = Drawn(own', o.ok)
  /\ UNCHANGED <<quit, number, due, starts, rvars>>

ShowsStatus(o) == turn = "status" /\ turn' = "sleep" /\ RefreshesStatus(o)

\* run: the top of the loop; a stop leads to the refresh of its finally clause
WakesUp ==
  /\ turn = "sleep"
  /\ turn' = IF quit THEN "last" ELSE "poll"
  /\ UNCHANGED <<quit, number, own, due, worst, board, starts, rvars>>

SaysGoodbye(o) == turn = "last" /\ turn' = "down" /\ RefreshesStatus(o)

IsTold ==
  /\ turn # "down" /\ ~quit /\ quit' = TRUE
  /\ UNCHANGED <<turn, number, own, due, worst, board, starts, rvars>>

SenderDies ==
  /\ turn # "down" /\ turn' = "down"
  /\ UNCHANGED <<quit, number, own, due, worst, board, starts, rvars>>

\* The clock.
TimePasses ==
  /\ own' = [own EXCEPT !.beat = Older(@)]
  /\ link' = [activity |-> Older(link.activity), beat |-> Older(link.beat)]
  /\ <<own, link>>' # <<own, link>>
  /\ UNCHANGED <<turn, quit, number, due, worst, board, starts, up, counters, rboard>>

-----------------------------------------------------------------------------
LoopStep ==
  \/ \E beat, status \in BOOLEAN : PollEnds(beat, status)
  \/ \E o \in Fates(Tries) : Beats(o)
  \/ \E o \in Fates(1) : ShowsStatus(o) \/ SaysGoodbye(o)
  \/ WakesUp

StatusIsDue == \E beat \in BOOLEAN : PollEnds(beat, TRUE)

BNext ==
  \/ ReceiverBegins \/ ReceiverDraws \/ ReceiverCloses \/ ReceiverDies \/ Nonsense
  \/ SenderBegins \/ LoopStep \/ IsTold \/ SenderDies \/ TimePasses
  \/ \E c \in Link, good \in BOOLEAN, o \in Fates(Tries) : SendsOne(c, good, o)

\* Both event loops run on, time passes, and the time of a status refresh comes
\* again and again.
BFairness ==
  /\ WF_bvars(LoopStep) /\ SF_bvars(StatusIsDue)
  /\ WF_bvars(ReceiverDraws) /\ WF_bvars(TimePasses)

BSpec == BInit /\ [][BNext]_bvars /\ BFairness

-----------------------------------------------------------------------------
\* The Dropped of the sender's board holds the failures of its own process, and
\* never more than those and the most the receiver reported: a loss that both ends
\* noticed is not added up refresh by refresh.
DroppedIsBounded ==
  /\ own.failures <= own.dropped
  /\ own.dropped <= own.failures + worst

\* A receiver that is gone for good does not stay Connected on the board of a
\* sender that runs on, nor a sender that is gone on the board of the receiver.
OutageIsShown ==
  /\ <>[](turn # "down" /\ ~quit /\ ~up) => <>[](~board.connected /\ ~board.heartbeat)
  /\ <>[](turn = "down" /\ up) => <>[](~rboard.connected /\ ~rboard.heartbeat)
=============================================================================
