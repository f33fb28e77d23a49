----------------------------- MODULE BridgeInbox -----------------------------
(***************************************************************************)
(* The bridge with the network off: TickSenderRuntime turns the lines of a     *)
(* tick file into envelopes and logs them; EnvelopeReceiverRuntime.run_inbox    *)
(* reads envelopes from a file, the inbox, and writes the journals              *)
(* (sender/runtime.py, receiver/runtime.py, receiver/validate_envelope.py).     *)
(* Whoever fills the inbox takes envelopes from the sender's log, in any order   *)
(* and any number of times, and may write heartbeats and lines that are none.    *)
(***************************************************************************)
EXTENDS Integers, Sequences, FiniteSets, TailAndWindow

CONSTANTS
  SourceBound,   \* lines of the tick file (bound)
  BadSource,     \* the ones of them that are no ticks
  InboxBound,    \* lines of the inbox (bound)
  SenderMax,     \* --max-ticks, 0 for none
  ReceiverMax,   \* --max-messages, 0 for none
  FromStart,     \* --from-start of both ends
  InboxWindow,   \* --dedupe-window
  RunBound       \* processes of either end (bound)

ASSUME InboxAssumption ==
  /\ SourceBound \in Nat /\ BadSource \subseteq Nat /\ InboxBound \in Nat
  /\ SenderMax \in Nat /\ ReceiverMax \in Nat /\ FromStart \in BOOLEAN
  /\ InboxWindow \in Nat /\ RunBound \in Nat

Ledger == INSTANCE GapMetrics WITH Channels <- {"tick"}

Legacy == 0    \* a session_id that is missing, null or empty

VARIABLES
  source,     \* lines in the tick file
  reader,     \* the sender: [on, stop, tail, batch, session, read, accepted, malformed]
  log,        \* the envelopes logged, by all sender processes
  inbox,      \* the lines of the inbox
  writer,     \* the receiver: [on, stop, tail, batch, armed, seen]
  stats,      \* its ReceiverRuntimeStats and _processed
  ledger,     \* its BridgeMetrics
  beats,      \* heartbeats in those metrics
  ticks,      \* the tick journal, as places of the inbox
  unread      \* places of the inbox that were written while no receiver ran, left
              \* behind by one that stopped, or in a journal that was gone when the
              \* line was read back

ivars == <<source, reader, log, inbox, writer, stats, ledger, beats, ticks, unread>>

NoReader == [on |-> FALSE, stop |-> FALSE, tail |-> [id |-> NoId, off |-> 0],
             batch |-> << >>, armed |-> 0, session |-> 0, read |-> 0, accepted |-> 0,
             malformed |-> 0, exit |-> 0]
NoWriter == [on |-> FALSE, stop |-> FALSE, tail |-> [id |-> NoId, off |-> 0],
             batch |-> << >>, armed |-> 0, seen |-> << >>, runs |-> 0, exit |-> 0]
ZeroStats == [accepted |-> 0, duplicates |-> 0, malformed |-> 0, skipped |-> 0,
              processed |-> 0]

IInit ==
  /\ source = 0 /\ reader = NoReader /\ log = << >>
  /\ inbox = << >> /\ writer = NoWriter /\ stats = ZeroStats
  /\ ledger = Ledger!ZeroMetrics /\ beats = 0
  /\ ticks = << >> /\ unread = {}

\* A file that only grows, as the tails see it.
Growing(size) == [present |-> TRUE, id |-> 1, base |-> 0, size |-> size]

\* --from-start: a tail at the head of the file or at its end
Armed(size) == ArmTail(Growing(size), ~FromStart)

\* The exit code of either main is 0 when nothing was malformed or something was
\* taken.
ExitCode(malformed, taken) == IF malformed = 0 \/ taken > 0 THEN 0 ELSE 1

-----------------------------------------------------------------------------
(* The sender.                                                             *)

NewTick ==
  /\ source < SourceBound /\ source' = source + 1
  /\ UNCHANGED <<reader, log, inbox, writer, stats, ledger, beats, ticks, unread>>

\* mutant: the session id stays the same
OldSession(n) == 1

NewSession(n) == n + 1

ReaderStarts ==
  /\ ~reader.on /\ reader.session < RunBound
  /\ reader' = [NoReader EXCEPT !.on = TRUE, !.tail = Armed(source),
                                !.armed = Armed(source).off,
                                !.session = NewSession(reader.session)]
  /\ UNCHANGED <<source, log, inbox, writer, stats, ledger, beats, ticks, unread>>

ReaderFull == SenderMax > 0 /\ reader.accepted >= SenderMax

ReaderPolls ==
  /\ reader.on /\ reader.batch = << >> /\ ~reader.stop /\ ~ReaderFull
  /\ reader' = [reader EXCEPT !.batch = PolledLines(reader.tail, Growing(source)),
                              !.tail = TailAfterPoll(@, Growing(source))]
  /\ UNCHANGED <<source, log, inbox, writer, stats, ledger, beats, ticks, unread>>

\* poll_once, one line: a tick becomes the next envelope of this session.
ReaderTakes ==
  /\ reader.on /\ reader.batch # << >> /\ ~reader.stop /\ ~ReaderFull
  /\ LET good == Head(reader.batch) \notin BadSource
         next == [session |-> reader.session, seq |-> reader.accepted + 1,
                  line |-> Head(reader.batch)]
     IN /\ log' = IF good THEN Append(log, next) ELSE log
        /\ reader' = [reader EXCEPT !.batch = Tail(@), !.read = @ + 1,
                        !.accepted  = IF good THEN @ + 1 ELSE @,
                        !.malformed = IF good THEN @ ELSE @ + 1]
  /\ UNCHANGED <<source, inbox, writer, stats, ledger, beats, ticks, unread>>

ReaderTold ==
  /\ reader.on /\ ~reader.stop /\ reader' = [reader EXCEPT !.stop = TRUE]
  /\ UNCHANGED <<source, log, inbox, writer, stats, ledger, beats, ticks, unread>>

\* run returns: stopped or full; the rest of the batch goes with the process.
ReaderEnds ==
  /\ reader.on /\ (reader.stop \/ ReaderFull)
  /\ reader' = [reader EXCEPT !.on = FALSE, !.batch = << >>,
                              !.exit = ExitCode(reader.malformed, reader.accepted)]
  /\ UNCHANGED <<source, log, inbox, writer, stats, ledger, beats, ticks, unread>>

-----------------------------------------------------------------------------
(* The inbox (external: whoever writes the file).                           *)

\* A line is an envelope of the log, perhaps with its identity left out; one of
\* another channel; or one that is no envelope.
Envelope(e, session) == [kind |-> "tick", session |-> session, seq |-> e.seq, line |-> e.line]
Lone(kind) == [kind |-> kind, session |-> Legacy, seq |-> 0, line |-> 0]
InboxLines ==
  (UNION {{Envelope(log[k], Legacy), Envelope(log[k], log[k].session)} : k \in DOMAIN log})
    \cup {Lone("hb"), Lone("junk"), Lone("foreign")}

Deposit ==
  /\ Len(inbox) < InboxBound
  /\ \E line \in InboxLines : inbox' = Append(inbox, line)
  /\ unread' = IF writer.on THEN unread ELSE unread \cup {Len(inbox) + 1}
  /\ UNCHANGED <<source, reader, log, writer, stats, ledger, beats, ticks>>

-----------------------------------------------------------------------------
(* The receiver.                                                           *)

WriterStarts ==
  /\ ~writer.on /\ writer.runs < RunBound
  /\ writer' = [NoWriter EXCEPT !.on = TRUE, !.tail = Armed(Len(inbox)),
                                !.armed = Armed(Len(inbox)).off,
                                !.runs = writer.runs + 1]
  /\ stats' = ZeroStats /\ ledger' = Ledger!ZeroMetrics /\ beats' = 0
  /\ unread' = IF FromStart THEN {} ELSE unread
  /\ UNCHANGED <<source, reader, log, inbox, ticks>>

WriterFull == ReceiverMax > 0 /\ stats.processed >= ReceiverMax

WriterPolls ==
  /\ writer.on /\ writer.batch = << >> /\ ~writer.stop /\ ~WriterFull
  /\ writer' = [writer EXCEPT !.batch = PolledLines(writer.tail, Growing(Len(inbox))),
                              !.tail = TailAfterPoll(@, Growing(Len(inbox)))]
  /\ UNCHANGED <<source, reader, log, inbox, stats, ledger, beats, ticks, unread>>

\* accept_envelope_line takes the next line of the batch.
AtHand(kind) ==
  /\ writer.on /\ writer.batch # << >> /\ ~writer.stop /\ ~WriterFull
  /\ inbox[Head(writer.batch)].kind = kind
Taking(kind) == AtHand(kind) /\ UNCHANGED <<source, reader, log, inbox, unread>>

Taken == inbox[Head(writer.batch)]
Rest(w) == [w EXCEPT !.batch = Tail(@)]
KeyOf(line) == [sess |-> line.session, ch |-> "tick", seq |-> line.seq]

\* validate_envelope_dict fails, or the payload is of another contract.
Refuses ==
  /\ (Taking("junk") \/ Taking("foreign"))
  /\ writer' = Rest(writer)
  /\ stats' = [stats EXCEPT !.malformed = @ + 1, !.processed = @ + 1]
  /\ ledger' = Ledger!RecordMalformed(ledger)
  /\ UNCHANGED <<beats, ticks>>

\* mutant: a heartbeat is skipped without being counted
SkippedUncounted(s) == [s EXCEPT !.skipped = @ + 1]

Skipped(s) == [s EXCEPT !.skipped = @ + 1, !.processed = @ + 1]

\* Channels hb and ctrl write nothing.
SkipsBeat ==
  /\ Taking("hb")
  /\ writer' = Rest(writer) /\ stats' = Skipped(stats)
  /\ beats' = beats + 1
  /\ UNCHANGED <<ledger, ticks>>

RefusesDuplicate ==
  /\ Taking("tick") /\ Remembers(writer.seen, KeyOf(Taken))
  /\ writer' = Rest(writer)
  /\ stats' = [stats EXCEPT !.duplicates = @ + 1, !.processed = @ + 1]
  /\ ledger' = Ledger!RecordDuplicate(ledger)
  /\ UNCHANGED <<beats, ticks>>

WritesTick ==
  /\ Taking("tick") /\ ~Remembers(writer.seen, KeyOf(Taken))
  /\ ticks' = Append(ticks, Head(writer.batch))
  /\ writer' = [Rest(writer) EXCEPT
                  !.seen = Remember(@, KeyOf(Taken), EffectiveWindow(InboxWindow))]
  /\ stats' = [stats EXCEPT !.accepted = @ + 1, !.processed = @ + 1]
  /\ ledger' = Ledger!RecordReceived(ledger, KeyOf(Taken))
  /\ UNCHANGED beats

\* append_payload raises ValueError: the last line of the journal is another
\* writer's, or the journal was replaced after the append and is without the line.
\* Either way the key is not remembered, and the line counts as malformed.
MisreadsTick ==
  /\ AtHand("tick") /\ ~Remembers(writer.seen, KeyOf(Taken))
  /\ \/ ticks' = Append(ticks, Head(writer.batch)) /\ UNCHANGED unread
     \/ unread' = unread \cup {Head(writer.batch)} /\ UNCHANGED ticks
  /\ writer' = Rest(writer)
  /\ stats' = [stats EXCEPT !.malformed = @ + 1, !.processed = @ + 1]
  /\ ledger' = Ledger!RecordMalformed(ledger)
  /\ UNCHANGED <<source, reader, log, inbox, beats>>

WriterTold ==
  /\ writer.on /\ ~writer.stop /\ writer' = [writer EXCEPT !.stop = TRUE]
  /\ UNCHANGED <<source, reader, log, inbox, stats, ledger, beats, ticks, unread>>

\* What a process that ends does not take: its batch, and what its tail has not
\* reached.
Left == {writer.batch[k] : k \in DOMAIN writer.batch} \cup (writer.tail.off + 1)..Len(inbox)

\* run_inbox returns.
WriterEnds ==
  /\ writer.on /\ (writer.stop \/ WriterFull)
  /\ writer' = [writer EXCEPT !.on = FALSE, !.batch = << >>,
                              !.exit = ExitCode(stats.malformed, stats.accepted)]
  /\ unread' = unread \cup Left
  /\ UNCHANGED <<source, reader, log, inbox, stats, ledger, beats, ticks>>

-----------------------------------------------------------------------------
INext ==
  \/ NewTick \/ ReaderStarts \/ ReaderPolls \/ ReaderTakes \/ ReaderTold \/ ReaderEnds
  \/ Deposit
  \/ WriterStarts \/ WriterPolls \/ WriterTold \/ WriterEnds
  \/ Refuses \/ SkipsBeat \/ RefusesDuplicate \/ WritesTick \/ MisreadsTick

ISpec == IInit /\ [][INext]_ivars

-----------------------------------------------------------------------------
\* Behind the tail of a running end every line was taken, once, and answered in
\* one way, or is still waiting in its batch; the counters of the receiver and
\* those of its metrics are of the same lines.
LinesAreCounted ==
  /\ reader.read = reader.accepted + reader.malformed
  /\ reader.on => reader.armed + reader.read + Len(reader.batch) = reader.tail.off
  /\ stats.processed = stats.accepted + stats.duplicates + stats.malformed + stats.skipped
  /\ writer.on => writer.armed + stats.processed + Len(writer.batch) = writer.tail.off
  /\ <<ledger.received["tick"], ledger.duplicate, ledger.malformed, beats>>
       = <<stats.accepted, stats.duplicates, stats.malformed, stats.skipped>>

Coming(k) == k > writer.tail.off \/ \E m \in DOMAIN writer.batch : writer.batch[m] = k

\* A tick that names its session reaches the journal with its own payload, over any
\* restarts of the sender and of the receiver and however often it was written,
\* unless no receiver ran when it was written, one stopped before it, or one found
\* the journal replaced when it read the line back.
TickIsJournaled ==
  \A k \in DOMAIN inbox :
    inbox[k].kind = "tick" /\ inbox[k].session # Legacy =>
      \/ k \in unread \/ (writer.on /\ Coming(k))
      \/ \E m \in DOMAIN ticks : inbox[ticks[m]].line = inbox[k].line
=============================================================================
