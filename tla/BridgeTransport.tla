--------------------------- MODULE BridgeTransport ---------------------------
(***************************************************************************)
(* The HTTP bridge: a sender process tails the tick and the DOM journals    *)
(* and posts every line as an envelope; a receiver process drops duplicates *)
(* and appends the payloads to journals of its own.                        *)
(*   sender/http_runtime.py, sender/http_client.py, sender/tail.py          *)
(*   receiver/http_server.py, receiver/runtime.py, receiver/dedupe.py       *)
(*                                                                         *)
(* Both processes run one asyncio event loop: what lies between two awaits  *)
(* is one step.  A request is in `net' from the moment it is posted until   *)
(* the receiver handles it; one that is lost simply stays there for ever.   *)
(***************************************************************************)
EXTENDS Integers, Sequences, FiniteSets, TailAndWindow

CONSTANTS
  Window,         \* --dedupe-window
  MaxRetries,     \* --retries: POST attempts per envelope
  MaxTicks,       \* --max-ticks, 0 for no limit
  FromEof,        \* BOOLEAN: FALSE is --from-start
  LateDelivery,   \* BOOLEAN: an attempt the client gave up may still arrive
  Faults,         \* receiver faults, a subset of ReceiverFaults
  BadLines,       \* per channel, the lines that fail the sender's validation
  RefusedLines,   \* per channel, the lines that fail the receiver's (another --symbol)
  LineBound,      \* per channel, the lines the producer writes (bound)
  SessionBound,   \* sender processes (bound)
  LifeBound,      \* receiver processes (bound)
  FileBound,      \* inodes a source file goes through (bound)
  NoSend          \* no POST is outstanding

Channels == {"tick", "dom"}
ReceiverFaults == {"io_error", "unread", "mismatch", "swapped", "stop"}

ASSUME BoundAssumption ==
  /\ Window \in Nat /\ MaxRetries \in Nat \ {0} /\ MaxTicks \in Nat
  /\ FromEof \in BOOLEAN /\ LateDelivery \in BOOLEAN
  /\ Faults \subseteq ReceiverFaults
  /\ BadLines \in [Channels -> SUBSET Nat]
  /\ RefusedLines \in [Channels -> SUBSET Nat]
  /\ LineBound \in [Channels -> Nat]
  /\ SessionBound \in Nat /\ LifeBound \in Nat /\ FileBound \in Nat

Metrics == INSTANCE GapMetrics

Keys == [sess : Nat, ch : Channels, seq : Nat]      \* contracts.Envelope identity
Envelopes == [key : Keys, line : Nat]
Requests == [env : Envelopes, attempt : Nat]
Statuses == {"waiting", "ok", "error"}
Sends == [req : Requests, status : Statuses]

ASSUME NoSendAssumption == NoSend \notin Sends

VARIABLES
  produced,   \* per channel: lines the producer has written
  file,       \* per channel: the source file under the watched path
  tail,       \* per channel: the sender's NdjsonTail
  phase,      \* "down", "idle", or the channel whose batch is being posted
  batch,      \* lines of the poll being worked through
  stop,       \* the sender's _stop flag
  session,    \* number of the sender process; a fresh UUID in the code
  seq,        \* per channel: _tick_seq, _dom_seq
  send,       \* the POST being awaited, or NoSend
  sent,       \* per channel: tick_sent, dom_sent
  failures,   \* send_failures
  acked,      \* envelopes the sender recorded as sent
  abandoned,  \* envelopes it gave up on, or lost by dying
  net,        \* requests the receiver may still read
  rstate,     \* receiver: "down", "up", "stopping"
  lives,      \* number of the receiver process
  journal,    \* per channel: the envelopes whose payload lines were appended
  wlog,       \* keys of the verified writes of this receiver process, in order
  unproven,   \* its appends that failed verification, and the writes before each
  refused,    \* envelopes a receiver answered 200 and wrote to no journal
  seen,       \* SeqDedupe._seen of this receiver process
  metrics     \* receive-side BridgeMetrics of this receiver process

sourceVars   == <<produced, file>>
senderVars   == <<tail, phase, batch, stop, session, seq, send, sent, failures, acked, abandoned>>
receiverVars == <<rstate, lives, journal, wlog, unproven, refused, seen, metrics>>
vars == <<sourceVars, senderVars, net, receiverVars>>

TypeOK ==
  /\ produced \in [Channels -> Nat]
  /\ file \in [Channels -> [present : BOOLEAN, id : Nat, base : Nat, size : Nat]]
  /\ tail \in [Channels -> [id : Nat, off : Nat]]
  /\ phase \in {"down", "idle"} \cup Channels
  /\ batch \in Seq(Nat)
  /\ stop \in BOOLEAN
  /\ session \in Nat
  /\ seq \in [Channels -> Nat]
  /\ send \in Sends \cup {NoSend}
  /\ sent \in [Channels -> Nat]
  /\ failures \in Nat
  /\ acked \subseteq Envelopes /\ abandoned \subseteq Envelopes
  /\ net \subseteq Requests
  /\ rstate \in {"down", "up", "stopping"}
  /\ lives \in Nat
  /\ journal \in [Channels -> Seq(Envelopes)]
  /\ wlog \in Seq(Keys)
  /\ unproven \subseteq [key : Keys, after : Nat]
  /\ refused \subseteq Envelopes
  /\ seen \in Seq(Keys)
  /\ metrics \in Metrics!Counters

Init ==
  /\ produced = [c \in Channels |-> 0]
  /\ file = [c \in Channels |-> [present |-> FALSE, id |-> NoId, base |-> 0, size |-> 0]]
  /\ tail = [c \in Channels |-> [id |-> NoId, off |-> 0]]
  /\ phase = "down" /\ batch = <<>> /\ stop = FALSE /\ session = 0
  /\ seq = [c \in Channels |-> 0]
  /\ send = NoSend
  /\ sent = [c \in Channels |-> 0] /\ failures = 0
  /\ acked = {} /\ abandoned = {}
  /\ net = {}
  /\ rstate = "down" /\ lives = 0
  /\ journal = [c \in Channels |-> <<>>]
  /\ wlog = <<>> /\ unproven = {} /\ refused = {} /\ seen = <<>>
  /\ metrics = Metrics!ZeroMetrics

-----------------------------------------------------------------------------
(* The producer (external: the NinjaTrader add-on writing the journals).    *)

\* A complete line is appended; a missing file is created under some inode,
\* possibly one that was in use before.
AppendLine(c) ==
  /\ produced[c] < LineBound[c]
  /\ produced' = [produced EXCEPT ![c] = @ + 1]
  /\ \/ /\ file[c].present
        /\ file' = [file EXCEPT ![c].size = @ + 1]
     \/ /\ ~file[c].present
        /\ \E i \in 1..FileBound :
             file' = [file EXCEPT ![c] = [present |-> TRUE, id |-> i,
                                          base |-> produced[c], size |-> 1]]
  /\ UNCHANGED <<senderVars, net, receiverVars>>

RemoveFile(c) ==
  /\ file[c].present /\ file[c].id < FileBound
  /\ file' = [file EXCEPT ![c].present = FALSE]
  /\ UNCHANGED <<produced, senderVars, net, receiverVars>>

-----------------------------------------------------------------------------
(* The sender.                                                             *)

\* --max-ticks bounds the ticks sent, and with them the whole run
MaxedOut == MaxTicks > 0 /\ sent["tick"] >= MaxTicks

\* mutant: the session id is not renewed
SameSession == IF session = 0 THEN 1 ELSE session

NextSession == session + 1

\* HttpSenderRuntime.__post_init__: a new session, numbers from 1 again,
\* tails armed, counters at zero
SenderStart ==
  /\ phase = "down" /\ session < SessionBound
  /\ phase' = "idle"
  /\ session' = NextSession
  /\ stop' = FALSE
  /\ seq' = [c \in Channels |-> 0]
  /\ tail' = [c \in Channels |-> ArmTail(file[c], FromEof)]
  /\ sent' = [c \in Channels |-> 0] /\ failures' = 0
  /\ UNCHANGED <<batch, send, acked, abandoned, sourceVars, net, receiverVars>>

\* tail.poll() at the head of a `for' loop
Poll(c) ==
  /\ phase' = c
  /\ batch' = PolledLines(tail[c], file[c])
  /\ tail' = [tail EXCEPT ![c] = TailAfterPoll(@, file[c])]

\* run: the top of the loop, and the tick poll when it is entered
PollTicks ==
  /\ phase = "idle" /\ ~stop /\ ~MaxedOut
  /\ Poll("tick")
  /\ UNCHANGED <<stop, session, seq, send, sent, failures, acked, abandoned,
                 sourceVars, net, receiverVars>>

\* run: the loop condition or the max_ticks break ends the process
SenderExit ==
  /\ phase = "idle" /\ (stop \/ MaxedOut)
  /\ phase' = "down"
  /\ UNCHANGED <<tail, batch, stop, session, seq, send, sent, failures, acked,
                 abandoned, sourceVars, net, receiverVars>>

\* _poll_ticks and _poll_dom return: the batch is used up, or dropped on _stop
\* or, for ticks, on max_ticks
LoopLeft(c) == batch = <<>> \/ stop \/ (c = "tick" /\ MaxedOut)

EndTicks ==
  /\ phase = "tick" /\ send = NoSend /\ LoopLeft("tick")
  /\ Poll("dom")
  /\ UNCHANGED <<stop, session, seq, send, sent, failures, acked, abandoned,
                 sourceVars, net, receiverVars>>

\* The heartbeat, the status refresh and the sleep that follow touch none of
\* these variables.
EndDom ==
  /\ phase = "dom" /\ send = NoSend /\ LoopLeft("dom")
  /\ phase' = "idle" /\ batch' = <<>>
  /\ UNCHANGED <<tail, stop, session, seq, send, sent, failures, acked,
                 abandoned, sourceVars, net, receiverVars>>

InLoop == phase \in Channels /\ send = NoSend /\ ~LoopLeft(phase)

\* A line that fails validation is skipped; it takes no sequence number.
SkipMalformed ==
  /\ InLoop /\ Head(batch) \in BadLines[phase]
  /\ batch' = Tail(batch)
  /\ UNCHANGED <<tail, phase, stop, session, seq, send, sent, failures, acked,
                 abandoned, sourceVars, net, receiverVars>>

NextEnvelope ==
  [key |-> [sess |-> session, ch |-> phase, seq |-> seq[phase] + 1],
   line |-> Head(batch)]

\* A request finds a listening receiver, or its connection is refused.
Reaches(req) == IF rstate = "down" THEN {} ELSE {req}

Post(req) ==
  /\ send' = [req |-> req, status |-> "waiting"]
  /\ net' = net \cup Reaches(req)

\* wrap the line and await the first POST attempt
PostLine ==
  /\ InLoop /\ Head(batch) \notin BadLines[phase]
  /\ batch' = Tail(batch)
  /\ seq' = [seq EXCEPT ![phase] = @ + 1]
  /\ Post([env |-> NextEnvelope, attempt |-> 1])
  /\ UNCHANGED <<tail, phase, stop, session, sent, failures, acked, abandoned,
                 sourceVars, receiverVars>>

\* The response of the current attempt arrived with a status below 400.
SendSucceeds ==
  /\ send # NoSend /\ send.status = "ok"
  /\ acked' = acked \cup {send.req.env}
  /\ sent' = [sent EXCEPT ![send.req.env.key.ch] = @ + 1]
  /\ send' = NoSend
  /\ UNCHANGED <<tail, phase, batch, stop, session, seq, failures, abandoned,
                 sourceVars, net, receiverVars>>

\* What is left of a request whose attempt failed.
GivenUp(req) == IF LateDelivery THEN net ELSE net \ {req}

\* mutant: the loop runs once more than --retries allows
OneRetryMore(req) == req.attempt <= MaxRetries

RetriesLeft(req) == req.attempt < MaxRetries

\* mutant: the attempt counter stands still
SameAttempt(req) == req

NextAttempt(req) == [req EXCEPT !.attempt = @ + 1]

\* A timeout, a connection error, a lost response or a status of 400 and above
\* while attempts are left.
AttemptFails ==
  /\ send # NoSend /\ RetriesLeft(send.req)
  /\ send' = [req |-> NextAttempt(send.req), status |-> "waiting"]
  /\ net' = GivenUp(send.req) \cup Reaches(NextAttempt(send.req))
  /\ UNCHANGED <<tail, phase, batch, stop, session, seq, sent, failures, acked,
                 abandoned, sourceVars, receiverVars>>

FailuresAfterGivingUp == failures + 1

\* The last attempt failed: record_send_failure, and on to the next line.
SendFails ==
  /\ send # NoSend /\ ~RetriesLeft(send.req)
  /\ failures' = FailuresAfterGivingUp
  /\ abandoned' = abandoned \cup {send.req.env}
  /\ net' = GivenUp(send.req)
  /\ send' = NoSend
  /\ UNCHANGED <<tail, phase, batch, stop, session, seq, sent, acked,
                 sourceVars, receiverVars>>

\* SIGINT, SIGTERM: request_stop.  The POST under way is not interrupted.
SenderStop ==
  /\ phase # "down" /\ ~stop
  /\ stop' = TRUE
  /\ UNCHANGED <<tail, phase, batch, session, seq, send, sent, failures, acked,
                 abandoned, sourceVars, net, receiverVars>>

\* The process dies; the rest of its batch and its POST die with it.
SenderKilled ==
  /\ phase # "down"
  /\ phase' = "down" /\ batch' = <<>> /\ send' = NoSend
  /\ abandoned' = IF send = NoSend THEN abandoned ELSE abandoned \cup {send.req.env}
  /\ UNCHANGED <<tail, stop, session, seq, sent, failures, acked, sourceVars,
                 net, receiverVars>>

-----------------------------------------------------------------------------
(* The receiver.                                                           *)

ReceiverStart ==
  /\ rstate = "down" /\ lives < LifeBound
  /\ rstate' = "up" /\ lives' = lives + 1
  /\ wlog' = <<>> /\ unproven' = {} /\ seen' = <<>> /\ metrics' = Metrics!ZeroMetrics
  /\ UNCHANGED <<journal, refused, sourceVars, senderVars, net>>

\* The signal handler calls request_stop while the server still serves.
ReceiverStop ==
  /\ "stop" \in Faults /\ rstate = "up"
  /\ rstate' = "stopping"
  /\ UNCHANGED <<lives, journal, wlog, unproven, refused, seen, metrics,
                 sourceVars, senderVars, net>>

\* End of a graceful shutdown, or a crash; the connections close with it.
ReceiverExit ==
  /\ rstate # "down"
  /\ rstate' = "down"
  /\ net' = {}
  /\ UNCHANGED <<lives, journal, wlog, unproven, refused, seen, metrics,
                 sourceVars, senderVars>>

\* The sender sees the response if it is still awaiting this attempt.
Respond(req, status) ==
  send' = IF send # NoSend /\ send.req = req
          THEN [send EXCEPT !.status = status] ELSE send

Handling(req) ==
  /\ rstate # "down" /\ req \in net
  /\ net' = net \ {req}
  /\ UNCHANGED <<tail, phase, batch, stop, session, seq, sent, failures, acked,
                 abandoned, sourceVars, rstate, lives>>

\* the receiver's own validation, before it looks for duplicates
Refuses(env) == env.line \in RefusedLines[env.key.ch]

\* mutant: accept without its dedupe check
NeverDuplicate(req) == FALSE

IsDuplicate(req) == Remembers(seen, req.env.key)

\* A valid payload of a key that the window does not hold is to be written.
ToWrite(req) ==
  /\ rstate = "up" /\ Handling(req)
  /\ ~Refuses(req.env) /\ ~IsDuplicate(req)

AppendToJournal(env) == journal' = [journal EXCEPT ![env.key.ch] = Append(@, env)]

\* the window after a verified write: only then is the key remembered
SeenAfterWrite(key) == Remember(seen, key, EffectiveWindow(Window))

\* mutant: the key enters the window before the write
SeenBeforeWrite(key) == SeenAfterWrite(key)

SeenAfterFailedWrite(key) == seen

\* an append that accept does not take for written
Unproven(key) == unproven \cup {[key |-> key, after |-> Len(wlog)]}

\* accept after _stop: refused, and answered 200 all the same
RefuseStopped(req) ==
  /\ rstate = "stopping" /\ Handling(req)
  /\ Respond(req, "ok")
  /\ UNCHANGED <<journal, wlog, unproven, refused, seen, metrics>>

\* accept of a payload its validation refuses: counted as malformed before the
\* key is looked up, written nowhere, answered 200
AcceptReject(req) ==
  /\ rstate = "up" /\ Handling(req) /\ Refuses(req.env)
  /\ metrics' = Metrics!RecordMalformed(metrics)
  /\ refused' = refused \cup {req.env}
  /\ Respond(req, "ok")
  /\ UNCHANGED <<journal, wlog, unproven, seen>>

\* accept of a key in the window: counted, answered 200
AcceptDuplicate(req) ==
  /\ rstate = "up" /\ Handling(req) /\ ~Refuses(req.env) /\ IsDuplicate(req)
  /\ metrics' = Metrics!RecordDuplicate(metrics)
  /\ Respond(req, "ok")
  /\ UNCHANGED <<journal, wlog, unproven, refused, seen>>

\* accept of a new key: append, verify, count, remember
AcceptNew(req) ==
  /\ ToWrite(req)
  /\ AppendToJournal(req.env)
  /\ wlog' = Append(wlog, req.env.key)
  /\ metrics' = Metrics!RecordReceived(metrics, req.env.key)
  /\ seen' = SeenAfterWrite(req.env.key)
  /\ Respond(req, "ok")
  /\ UNCHANGED <<unproven, refused>>

\* The append raises OSError, or the journal it went to is removed before it is
\* read back: HTTP 500, nothing recorded.
AcceptIoError(req) ==
  /\ "io_error" \in Faults
  /\ ToWrite(req)
  /\ seen' = SeenAfterFailedWrite(req.env.key)
  /\ Respond(req, "error")
  /\ UNCHANGED <<journal, wlog, unproven, refused, metrics>>

\* The line is appended, but the file cannot be opened again to read it back:
\* OSError again, HTTP 500, and the retry will append the line once more.
AcceptUnread(req) ==
  /\ "unread" \in Faults
  /\ ToWrite(req)
  /\ AppendToJournal(req.env)
  /\ unproven' = Unproven(req.env.key)
  /\ Respond(req, "error")
  /\ UNCHANGED <<wlog, refused, seen, metrics>>

\* The line is appended, but the last line read back is another one: a second
\* writer appended behind it.  ValueError, counted as malformed, not remembered,
\* answered 200; the line is in the journal.
AcceptMismatch(req) ==
  /\ "mismatch" \in Faults
  /\ ToWrite(req)
  /\ AppendToJournal(req.env)
  /\ unproven' = Unproven(req.env.key)
  /\ metrics' = Metrics!RecordMalformed(metrics)
  /\ Respond(req, "ok")
  /\ UNCHANGED <<wlog, refused, seen>>

\* The journal is replaced or emptied between the append and the read-back (the
\* trim of LiveTail and any rotation do so): the line went with the old file,
\* what is read back is another line or nothing.  The same ValueError and the
\* same answer, but no journal holds the line.  The older lines that a swap takes
\* along are the subject of LiveTail.
AcceptSwapped(req) ==
  /\ "swapped" \in Faults
  /\ ToWrite(req)
  /\ metrics' = Metrics!RecordMalformed(metrics)
  /\ refused' = refused \cup {req.env}
  /\ Respond(req, "ok")
  /\ UNCHANGED <<journal, wlog, unproven, seen>>

-----------------------------------------------------------------------------
Producer == \E c \in Channels : AppendLine(c) \/ RemoveFile(c)

\* the sender's own control flow
SenderLoop ==
  PollTicks \/ SenderExit \/ EndTicks \/ EndDom \/ SkipMalformed \/ PostLine

\* how an awaited POST ends; the client's total timeout ends every one
AttemptEnds == SendSucceeds \/ AttemptFails \/ SendFails

SenderLifecycle == SenderStart \/ SenderStop \/ SenderKilled

Accept(req) ==
  \/ RefuseStopped(req) \/ AcceptReject(req) \/ AcceptDuplicate(req) \/ AcceptNew(req)
  \/ AcceptIoError(req) \/ AcceptUnread(req) \/ AcceptMismatch(req) \/ AcceptSwapped(req)

ReceiverLifecycle == ReceiverStart \/ ReceiverStop \/ ReceiverExit

Next ==
  \/ Producer
  \/ SenderLoop \/ AttemptEnds \/ SenderLifecycle
  \/ ReceiverLifecycle
  \/ \E req \in net : Accept(req)

Spec == Init /\ [][Next]_vars

\* The event loop runs the sender's code, and aiohttp's ClientTimeout ends
\* every attempt.  Nothing is assumed of the producer, of the network, of the
\* receiver, or of anybody who restarts a process.
FairSpec == Spec /\ WF_vars(SenderLoop) /\ WF_vars(AttemptEnds)

-----------------------------------------------------------------------------
(* What the bridge promises.                                               *)

Journaled(env) ==
  \E i \in 1..Len(journal[env.key.ch]) : journal[env.key.ch][i] = env

\* An envelope the sender counts as sent is in a journal of the receiver, or the
\* receiver counted it as malformed and wrote it nowhere, whatever was retried,
\* answered as a duplicate, failed once or restarted in between.  This is why
\* accept remembers a key only after a verified write.  The exceptions are two:
\* payloads its validation refuses, and lines whose journal was replaced or
\* emptied under the write; accept answers both with 200.
AckedIsJournaled == \A env \in acked : Journaled(env) \/ env \in refused

\* One receiver process appends a key that it wrote once more only after as many
\* other writes as the dedupe window holds keys, whether that later append can be
\* verified or not.  An append that could not be verified is no write: the same
\* key may follow it at once.
DuplicateDistance ==
  /\ FarApart(wlog, EffectiveWindow(Window))
  /\ \A x \in unproven : \A p \in 1..x.after :
       wlog[p] = x.key => x.after - p >= EffectiveWindow(Window)

Copies(env) == {i \in 1..Len(journal[env.key.ch]) : journal[env.key.ch][i] = env}

\* However often appends fail their verification, keys leave the window and
\* receivers restart: a payload is in the journals at most once for each POST
\* attempt its sender is allowed.
CopiesAreAttempts ==
  \A c \in Channels : \A i \in 1..Len(journal[c]) :
    Cardinality(Copies(journal[c][i])) <= MaxRetries

\* The journals never hold two payloads under one envelope identity, however
\* many sender processes numbered their envelopes from 1.
KeyNamesOneLine ==
  \A c \in Channels : \A i, j \in 1..Len(journal[c]) :
    journal[c][i].key = journal[c][j].key => journal[c][i] = journal[c][j]

\* While a sender runs, every sequence number it used is a success, a counted
\* failure, or the POST it awaits.
SenderAccounting ==
  phase # "down" =>
    seq["tick"] + seq["dom"] =
      sent["tick"] + sent["dom"] + failures + (IF send = NoSend THEN 0 ELSE 1)

\* The numbers between the first arrival of a channel and the expected one that
\* this receiver never wrote
Missing(c) ==
  LET arrivals == {i \in 1..Len(wlog) : wlog[i].ch = c}
  IN {q \in 1..(metrics.next[c] - 1) :
        /\ \A i \in arrivals : wlog[i].seq # q
        /\ \E i \in arrivals : wlog[i].seq < q /\ \A j \in arrivals : i <= j}

\* Both ends count what is lost: every number of a running sender is a success, a
\* failure it counted or the POST it awaits, and the receiver's Dropped never
\* understates the gaps of a session, late arrivals or not (one sender process: a
\* second one resets the expectation).
LossesCounted ==
  /\ SenderAccounting
  /\ Cardinality(Missing("tick")) + Cardinality(Missing("dom")) <= metrics.dropped

\* Each journal holds the envelopes of a session in the order of their numbers,
\* each once (no abandoned attempt arrives late, neither process is restarted, and
\* every appended line can be read back: without any of these it fails).
OrderPreserved ==
  \A c \in Channels : \A i, j \in 1..Len(journal[c]) :
    /\ i < j
    /\ journal[c][i].key.sess = journal[c][j].key.sess
    => journal[c][i].key.seq < journal[c][j].key.seq

Known == acked \cup abandoned \cup (IF send = NoSend THEN {} ELSE {send.req.env})

\* A sender process offers a source line under one sequence number only, even
\* when the file under its tail is removed, recreated or replaced.
LineOfferedOnce ==
  \A e, f \in Known :
    /\ e.key.sess = f.key.sess /\ e.key.ch = f.key.ch /\ e.line = f.line
    => e = f

LinesOf(envs, c) == {e.line : e \in {f \in envs : f.key.ch = c}}

Running == phase # "down" /\ ~stop /\ ~MaxedOut

Settled(c, n) == n \in LinesOf(acked \cup abandoned, c)

\* Every valid line that is written while a sender runs is eventually
\* acknowledged or counted as a failure, unless the sender ends.
EveryLineSettles ==
  \A c \in Channels : \A n \in (1..LineBound[c]) \ BadLines[c] :
    (Running /\ produced[c] >= n) ~> (Settled(c, n) \/ ~Running)

-----------------------------------------------------------------------------
(* Inductive strengthenings.                                               *)

\* The window holds exactly the newest keys of the write log.
WindowIsSuffix == NewestOf(seen, wlog, EffectiveWindow(Window))

JournaledEnvelopes == UNION {{journal[c][i] : i \in 1..Len(journal[c])} : c \in Channels}

\* every envelope that exists anywhere
Everywhere == Known \cup {req.env : req \in net} \cup JournaledEnvelopes

\* No identity is ever given to two envelopes: the identities in use lie behind
\* the counters of the sender.
IdentityInv ==
  /\ \A e \in Everywhere :
       /\ e.key.sess <= session
       /\ e.key.sess = session => e.key.seq <= seq[e.key.ch]
  /\ \A e, f \in Everywhere : e.key = f.key => e = f

\* Why an acknowledgement can be believed (without the shutdown window): what
\* the receiver remembers is journaled, and what it answers 200 to is journaled
\* or refused.
AckInv ==
  /\ IdentityInv
  /\ rstate # "stopping"
  /\ \A i \in 1..Len(seen) : \E j \in 1..Len(journal[seen[i].ch]) :
       journal[seen[i].ch][j].key = seen[i]
  /\ send # NoSend =>
       (send.status = "ok" => Journaled(send.req.env) \/ send.req.env \in refused)
  /\ AckedIsJournaled

-----------------------------------------------------------------------------
(* The refinement of the delivery contract, as long as the window never evicts  *)
(* a key and every append that stays is verified (no unread line, no mismatch,   *)
(* no shutdown window).                                                        *)

LineNumbers == 1..(LineBound["tick"] + LineBound["dom"])
KeysInUse == [sess : 1..SessionBound, ch : Channels, seq : LineNumbers]
WrittenKeys == {wlog[i] : i \in 1..Len(wlog)}

Delivery == INSTANCE BridgeDelivery
  WITH offered <- Known, written <- WrittenKeys,
       Envelopes <- [key : KeysInUse, line : LineNumbers]

\* Every step of the sender, the network and the receiver is a step of the
\* delivery contract or invisible to it: at most one write per key and receiver
\* process, nothing acknowledged before it is journaled or refused, nothing
\* settled twice.
ImplementsDelivery == Delivery!Spec
=============================================================================
