----------------------------- MODULE AppsProofs -----------------------------
(***************************************************************************)
(* Theorems about the two command lines of the bridge (BridgeApps), for every    *)
(* bound, window and choice of options: what the sender's board may say of          *)
(* losses, what the counters of the two ends add up to when they work with files,    *)
(* and that a tick of the inbox reaches the journal.                             *)
(***************************************************************************)
EXTENDS BridgeApps, SequenceTheorems, TLAPS

(* Dropped on the sender's board.                                          *)

BoardKeys == [sess : Nat, ch : Link, seq : Nat]

BoardInv ==
  /\ number \in [Link -> Nat] /\ starts \in [sender : Nat, receiver : Nat]
  /\ own \in [failures : Nat, dropped : Nat, beat : Nat] /\ worst \in Nat
  /\ counters \in Counts!Counters
  /\ DroppedIsBounded

\* The receiver's counters stay natural numbers.
LEMMA MalformedType ==
  ASSUME NEW m \in Counts!Counters
  PROVE  Counts!RecordMalformed(m) \in Counts!Counters
<1>1. m.dropped + 1 \in Nat /\ m.malformed + 1 \in Nat
  BY DEF Counts!Counters
<1> QED
  BY <1>1 DEF Counts!RecordMalformed, Counts!Counters

LEMMA CountsType ==
  ASSUME NEW m \in Counts!Counters, NEW key \in BoardKeys
  PROVE  Counts!RecordReceived(m, key) \in Counts!Counters
<1>1. key.ch \in Link /\ key.seq \in Nat /\ key.sess \in Nat
  BY DEF BoardKeys
<1>2. Counts!Expected(m, key) \in Nat
  BY <1>1 DEF Counts!Expected, Counts!Unset, Counts!Counters
<1>3. Counts!Gap(m, key) \in Nat /\ Counts!NextExpected(m, key) \in Nat
  BY <1>1, <1>2 DEF Counts!Gap, Counts!NextExpected, Counts!Unset
<1>4. m.dropped + Counts!Gap(m, key) \in Nat /\ m.received[key.ch] + 1 \in Nat
  BY <1>1, <1>3 DEF Counts!Counters
<1> QED
  BY <1>1, <1>3, <1>4 DEF Counts!RecordReceived, Counts!Counters

\* An envelope may be handled any number of times.
LEMMA HandledType ==
  ASSUME NEW m \in Counts!Counters, NEW key \in BoardKeys, NEW good \in BOOLEAN,
         NEW times \in Nat
  PROVE  Handled(m, key, good, times) \in Counts!Counters
<1>1. CASE times = 0
  BY <1>1 DEF Handled
<1>2. CASE good /\ times > 0
  <2> DEFINE n == Counts!RecordReceived(m, key)
  <2>1. n \in Counts!Counters
    BY CountsType
  <2> HIDE DEF n
  <2>2. n.duplicate + times - 1 \in Nat
    BY <1>2, <2>1 DEF Counts!Counters
  <2>3. [n EXCEPT !.duplicate = @ + times - 1] \in Counts!Counters
    BY <2>1, <2>2 DEF Counts!Counters
  <2>4. Handled(m, key, good, times) = [n EXCEPT !.duplicate = @ + times - 1]
    BY <1>2 DEF Handled, n
  <2> QED
    BY <2>3, <2>4
<1>3. CASE times # 0 /\ ~good
  <2>1. m.malformed + times \in Nat /\ m.dropped + times \in Nat
    BY DEF Counts!Counters
  <2>2. [m EXCEPT !.malformed = @ + times, !.dropped = @ + times] \in Counts!Counters
    BY <2>1 DEF Counts!Counters
  <2>3. Handled(m, key, good, times) = [m EXCEPT !.malformed = @ + times, !.dropped = @ + times]
    BY <1>3 DEF Handled
  <2> QED
    BY <2>2, <2>3
<1> QED
  BY <1>1, <1>2, <1>3

LEMMA FatesType ==
  ASSUME NEW tries \in Nat, NEW o \in Fates(tries)
  PROVE  o.times \in Nat /\ o.ok \in BOOLEAN
<1> DEFINE most == IF up THEN tries ELSE 0
<1>1. most \in Nat
  OBVIOUS
<1>2. CASE o = [times |-> 0, ok |-> FALSE]
  BY <1>2
<1>3. CASE \E n \in 1..most, b \in BOOLEAN : o = [times |-> n, ok |-> b]
  <2> HIDE DEF most
  <2> QED
    BY <1>1, <1>3
<1> QED
  BY <1>2, <1>3 DEF Fates

\* A refresh raises Dropped to what the receiver reports and remembers the report.
LEMMA RefreshBounds ==
  ASSUME BoardInv, NEW o, RefreshesStatus(o)
  PROVE  BoardInv'
<1>1. counters.dropped \in Nat
  BY DEF BoardInv, Counts!Counters
<1>2. /\ own.failures \in Nat /\ own.dropped \in Nat /\ own.beat \in Nat
      /\ own.failures <= own.dropped /\ own.dropped <= own.failures + worst /\ worst \in Nat
  BY DEF BoardInv, DroppedIsBounded
<1>3. CASE o.ok
  <2>1. Larger(own.dropped, counters.dropped) \in Nat
    BY <1>1, <1>2 DEF Larger
  <2>2. own' = [own EXCEPT !.dropped = Larger(own.dropped, counters.dropped)]
    BY <1>3 DEF RefreshesStatus, Merged
  <2>3. worst' = Larger(worst, counters.dropped)
    BY <1>3 DEF RefreshesStatus
  <2>4. own' \in [failures : Nat, dropped : Nat, beat : Nat]
        /\ own'.failures = own.failures /\ own'.dropped = Larger(own.dropped, counters.dropped)
    BY <2>1, <2>2 DEF BoardInv
  <2>5. worst' \in Nat /\ DroppedIsBounded'
    BY <1>1, <1>2, <2>3, <2>4 DEF Larger, DroppedIsBounded
  <2> QED
    BY <2>4, <2>5 DEF BoardInv, RefreshesStatus, rvars
<1>4. CASE ~o.ok
  BY <1>4 DEF RefreshesStatus, BoardInv, DroppedIsBounded, rvars
<1> QED
  BY <1>3, <1>4

LEMMA ZeroCounts == Counts!ZeroMetrics \in Counts!Counters
  BY DEF Counts!ZeroMetrics, Counts!Counters, Counts!Unset

LEMMA ZeroOwnType ==
  /\ ZeroOwn \in [failures : Nat, dropped : Nat, beat : Nat]
  /\ ZeroOwn.failures = 0 /\ ZeroOwn.dropped = 0
  BY BoardAssumption DEF ZeroOwn, Never

LEMMA InitBounds == BInit => BoardInv
  BY ZeroCounts, ZeroOwnType DEF BInit, BoardInv, DroppedIsBounded

\* Every step of the HTTP bridge keeps the bounds.
LEMMA BoardStep ==
  ASSUME BoardInv, BNext
  PROVE  BoardInv'
<1> USE BoardAssumption
<1>1. ASSUME ReceiverBegins PROVE BoardInv'
  BY <1>1, ZeroCounts DEF ReceiverBegins, BoardInv, DroppedIsBounded, svars
<1>2. ASSUME ReceiverDraws \/ ReceiverCloses \/ ReceiverDies PROVE BoardInv'
  BY <1>2 DEF ReceiverDraws, ReceiverCloses, ReceiverDies, BoardInv, DroppedIsBounded, svars
<1>3. ASSUME Nonsense PROVE BoardInv'
  <2>1. Counts!RecordMalformed(counters) \in Counts!Counters
    BY MalformedType DEF BoardInv
  <2> QED
    BY <1>3, <2>1 DEF Nonsense, BoardInv, DroppedIsBounded, svars
<1>4. ASSUME SenderBegins PROVE BoardInv'
  BY <1>4, ZeroOwnType DEF SenderBegins, BoardInv, DroppedIsBounded, rvars
<1>5. ASSUME NEW beat \in BOOLEAN, NEW status \in BOOLEAN, PollEnds(beat, status)
      PROVE  BoardInv'
  BY <1>5 DEF PollEnds, BoardInv, DroppedIsBounded, rvars
<1>6. ASSUME NEW o, Beats(o) PROVE BoardInv'
  BY <1>6 DEF Beats, BoardInv, DroppedIsBounded
<1>7. ASSUME NEW o, ShowsStatus(o) \/ SaysGoodbye(o) PROVE BoardInv'
  BY <1>7, RefreshBounds DEF ShowsStatus, SaysGoodbye
<1>8. ASSUME WakesUp \/ IsTold \/ SenderDies PROVE BoardInv'
  BY <1>8 DEF WakesUp, IsTold, SenderDies, BoardInv, DroppedIsBounded, rvars
<1>9. ASSUME TimePasses PROVE BoardInv'
  <2>1. Older(own.beat) \in Nat
    BY DEF Older, BoardInv
  <2> QED
    BY <1>9, <2>1 DEF TimePasses, BoardInv, DroppedIsBounded
<1>10. ASSUME NEW c \in Link, NEW good \in BOOLEAN, NEW o \in Fates(Tries), SendsOne(c, good, o)
       PROVE  BoardInv'
  <2>1. o.times \in Nat
    BY FatesType
  <2>2. number' \in [Link -> Nat] /\ number'[c] \in Nat
    BY <1>10 DEF SendsOne, BoardInv
  <2>3. [sess |-> starts.sender, ch |-> c, seq |-> number'[c]] \in BoardKeys
    BY <2>2 DEF BoardInv, BoardKeys
  <2>4. counters' \in Counts!Counters
    BY <1>10, <2>1, <2>3, HandledType DEF SendsOne, BoardInv
  <2>5. /\ own' \in [failures : Nat, dropped : Nat, beat : Nat]
        /\ own'.failures <= own'.dropped /\ own'.dropped <= own'.failures + worst
    <3>1. CASE o.ok
      BY <1>10, <3>1 DEF SendsOne, BoardInv, DroppedIsBounded
    <3>2. CASE ~o.ok
      <4>1. /\ own \in [failures : Nat, dropped : Nat, beat : Nat] /\ worst \in Nat
            /\ own.failures <= own.dropped /\ own.dropped <= own.failures + worst
        BY DEF BoardInv, DroppedIsBounded
      <4>2. own' = [own EXCEPT !.failures = own.failures + 1, !.dropped = own.dropped + 1]
        BY <1>10, <3>2 DEF SendsOne
      <4>3. PICK f, d \in Nat : f = own.failures + 1 /\ d = own.dropped + 1
        BY <4>1
      <4>4. own' = [own EXCEPT !.failures = f, !.dropped = d]
        BY <4>2, <4>3
      <4>5. own'.failures = f /\ own'.dropped = d
        BY <4>1, <4>4
      <4>6. own' \in [failures : Nat, dropped : Nat, beat : Nat]
        BY <4>1, <4>4
      <4>7. f <= d /\ d <= f + worst
        BY <4>1, <4>3
      <4> QED
        BY <4>5, <4>6, <4>7
    <3> QED
      BY <3>1, <3>2
  <2> QED
    BY <1>10, <2>2, <2>4, <2>5 DEF SendsOne, BoardInv, DroppedIsBounded
<1> QED
  BY <1>1, <1>2, <1>3, <1>4, <1>5, <1>6, <1>7, <1>8, <1>9, <1>10 DEF BNext, LoopStep

\* The board never adds up a loss that both ends noticed (metrics.py, merge_remote): over
\* any number of refreshes, failed posts and restarts of either end, Dropped is at least
\* the failures of this sender process and at most those and the receiver's worst report.
THEOREM DroppedIsBoundedHolds == AppsSpec => []DroppedIsBounded
<1>1. AppsInit => BoardInv
  BY InitBounds DEF AppsInit
<1>2. BoardInv /\ [AppsNext]_avars => BoardInv'
  <2>1. CASE OverHttp
    BY <2>1, BoardStep DEF OverHttp
  <2>2. CASE UNCHANGED bvars
    BY <2>2 DEF bvars, svars, rvars, BoardInv, DroppedIsBounded
  <2> QED
    BY <2>1, <2>2 DEF AppsNext, OverFiles, avars
<1>3. BoardInv => DroppedIsBounded
  BY DEF BoardInv
<1> QED
  BY <1>1, <1>2, <1>3, PTL DEF AppsSpec

-----------------------------------------------------------------------------
(* The tails of the two ends.                                              *)

TailStates == [id : {NoId, 1}, off : Nat]

\* A poll of a file that only grows returns the lines behind the offset.
LEMMA PollOfGrowing ==
  ASSUME NEW t \in TailStates, NEW size \in Nat, t.off <= size
  PROVE  /\ PolledLines(t, Growing(size)) \in Seq(Nat)
         /\ Len(PolledLines(t, Growing(size))) = size - t.off
         /\ \A i \in 1..(size - t.off) : PolledLines(t, Growing(size))[i] = t.off + i
         /\ TailAfterPoll(t, Growing(size)) \in TailStates
         /\ TailAfterPoll(t, Growing(size)).off = size
<1>1. PICK off \in Nat : off = t.off
  BY DEF TailStates
<1>2. ReadFrom(t, Growing(size)) = off
  BY <1>1 DEF ReadFrom, Growing
<1>3. PICK n \in Nat : n = size - off
  BY <1>1
<1>4. PolledLines(t, Growing(size)) = [i \in 1..n |-> 0 + off + i]
  BY <1>2, <1>3 DEF PolledLines, Lines, Growing, Replaced, TailStates
<1>5. \A i \in 1..n : 0 + off + i = off + i /\ off + i \in Nat
  OBVIOUS
<1>6. /\ [i \in 1..n |-> 0 + off + i] \in Seq(Nat)
      /\ Len([i \in 1..n |-> 0 + off + i]) = n
      /\ \A i \in 1..n : [j \in 1..n |-> 0 + off + j][i] = off + i
  BY <1>5
<1>7. TailAfterPoll(t, Growing(size)) = [id |-> 1, off |-> size]
  BY DEF TailAfterPoll, Growing
<1> QED
  BY <1>1, <1>3, <1>4, <1>6, <1>7 DEF TailStates

LEMMA ArmedAt ==
  ASSUME NEW size \in Nat
  PROVE  /\ Armed(size) \in TailStates /\ Armed(size).off <= size
         /\ Armed(size).off = IF FromStart THEN 0 ELSE size
  BY InboxAssumption DEF Armed, ArmTail, Growing, TailStates, NoId

LEMMA FirstOfBatch ==
  ASSUME NEW S, NEW b \in Seq(S), b # << >>
  PROVE  /\ Head(b) \in S /\ Head(b) = b[1] /\ 1 \in DOMAIN b
         /\ Tail(b) \in Seq(S) /\ Len(Tail(b)) + 1 = Len(b) /\ Len(b) \in Nat /\ Len(Tail(b)) \in Nat
         /\ \A k \in DOMAIN b : k = 1 \/ (k - 1 \in DOMAIN Tail(b) /\ Tail(b)[k - 1] = b[k])
         /\ \A k \in DOMAIN Tail(b) : k + 1 \in DOMAIN b /\ Tail(b)[k] = b[k + 1]
  OBVIOUS

(* The sender: every line it reads is counted, and an envelope's session and number   *)
(* name its line.                                                          *)

Entries == [session : Nat, seq : Nat, line : Nat]

ReaderStates ==
  [on : BOOLEAN, stop : BOOLEAN, tail : TailStates, batch : Seq(Nat), armed : Nat,
   session : Nat, read : Nat, accepted : Nat, malformed : Nat, exit : Nat]

\* No two envelopes of the log have the same session and number, but for one line.
IdentityNames ==
  /\ \A j \in DOMAIN log :
       /\ log[j].session \in 1..reader.session
       /\ log[j].session = reader.session => log[j].seq <= reader.accepted
  /\ \A i, j \in DOMAIN log :
       log[i].session = log[j].session /\ log[i].seq = log[j].seq => log[i].line = log[j].line

SenderInv ==
  /\ source \in Nat /\ log \in Seq(Entries) /\ reader \in ReaderStates
  /\ reader.on => reader.session >= 1
  /\ reader.tail.off <= source
  /\ reader.read = reader.accepted + reader.malformed
  /\ reader.on => reader.armed + reader.read + Len(reader.batch) = reader.tail.off
  /\ IdentityNames

sendervars == <<source, reader, log>>

LEMMA LogIsTyped ==
  ASSUME SenderInv
  PROVE  \A j \in DOMAIN log : log[j] \in Entries
  BY DEF SenderInv

LEMMA SenderInit == IInit => SenderInv
  BY DEF IInit, SenderInv, NoReader, ReaderStates, TailStates, NoId, IdentityNames, Entries

LEMMA ReaderStartsCounts ==
  ASSUME SenderInv, ReaderStarts
  PROVE  SenderInv'
<1>1. PICK n \in Nat : n = reader.session + 1
  BY DEF SenderInv, ReaderStates
<1>2. PICK t : t = Armed(source)
  OBVIOUS
<1>3. t \in TailStates /\ t.off <= source /\ t.off \in Nat
  BY <1>2, ArmedAt DEF SenderInv, TailStates
<1>4. reader' = [on |-> TRUE, stop |-> FALSE, tail |-> t, batch |-> << >>, armed |-> t.off,
                 session |-> n, read |-> 0, accepted |-> 0, malformed |-> 0, exit |-> 0]
  BY <1>1, <1>2 DEF ReaderStarts, NoReader, NewSession
<1>5. UNCHANGED <<source, log>>
  BY DEF ReaderStarts
<1>6. << >> \in Seq(Nat) /\ Len(<< >>) = 0
  OBVIOUS
<1>7. /\ reader' \in ReaderStates /\ reader'.on /\ reader'.session = n
      /\ reader'.tail = t /\ Len(reader'.batch) = 0 /\ reader'.armed = t.off
      /\ reader'.read = 0 /\ reader'.accepted = 0 /\ reader'.malformed = 0
  BY <1>3, <1>4, <1>6 DEF ReaderStates
<1>8. IdentityNames'
  <2>1. \A j \in DOMAIN log : log[j].session \in 1..n /\ log[j].session # n
    BY <1>1 DEF SenderInv, IdentityNames, ReaderStates
  <2> QED
    BY <2>1, <1>4, <1>5 DEF SenderInv, IdentityNames
<1> QED
  BY <1>1, <1>3, <1>5, <1>7, <1>8 DEF SenderInv, ReaderStates

LEMMA ReaderPollsCounts ==
  ASSUME SenderInv, ReaderPolls
  PROVE  SenderInv'
<1>1. PICK b, t : b = PolledLines(reader.tail, Growing(source))
                  /\ t = TailAfterPoll(reader.tail, Growing(source))
  OBVIOUS
<1>2. reader.tail \in TailStates /\ source \in Nat /\ reader.tail.off <= source
  BY DEF SenderInv, ReaderStates
<1>3. /\ b \in Seq(Nat) /\ Len(b) = source - reader.tail.off
      /\ t \in TailStates /\ t.off = source
  BY <1>1, <1>2, PollOfGrowing
<1>4. reader' = [reader EXCEPT !.batch = b, !.tail = t]
  BY <1>1 DEF ReaderPolls
<1>5. UNCHANGED <<source, log>> /\ reader.on /\ reader.batch = << >>
  BY DEF ReaderPolls
<1>6. /\ reader' \in ReaderStates /\ reader'.batch = b /\ reader'.tail = t
      /\ reader'.on = reader.on /\ reader'.armed = reader.armed /\ reader'.read = reader.read
      /\ reader'.session = reader.session /\ reader'.accepted = reader.accepted
      /\ reader'.malformed = reader.malformed
  BY <1>3, <1>4 DEF SenderInv, ReaderStates
<1>7. reader.armed + reader.read = reader.tail.off /\ reader.armed \in Nat /\ reader.read \in Nat
  <2>1. Len(reader.batch) = 0
    BY <1>5
  <2> QED
    BY <1>5, <2>1 DEF SenderInv, ReaderStates
<1>8. reader.armed + reader.read + Len(b) = source
  BY <1>2, <1>3, <1>7 DEF TailStates
<1> QED
  BY <1>2, <1>3, <1>5, <1>6, <1>8 DEF SenderInv, IdentityNames

LEMMA ReaderTakesCounts ==
  ASSUME SenderInv, ReaderTakes
  PROVE  SenderInv'
<1>1. reader.batch \in Seq(Nat) /\ reader.batch # << >> /\ reader.on
  BY DEF ReaderTakes, SenderInv, ReaderStates
<1>2. PICK b, l : b = Tail(reader.batch) /\ l = Head(reader.batch)
  OBVIOUS
<1>3. b \in Seq(Nat) /\ l \in Nat /\ Len(b) + 1 = Len(reader.batch) /\ Len(b) \in Nat
  BY <1>1, <1>2, FirstOfBatch
<1>4. /\ reader.read \in Nat /\ reader.accepted \in Nat /\ reader.malformed \in Nat
      /\ reader.session \in Nat /\ reader.armed \in Nat
  BY DEF SenderInv, ReaderStates
<1>5. PICK r \in Nat : r = reader.read + 1
  BY <1>4
<1>6. UNCHANGED source
  BY DEF ReaderTakes
<1>7. reader.armed + r + Len(b) = reader.tail.off
  BY <1>1, <1>3, <1>4, <1>5 DEF SenderInv
<1>8. CASE l \notin BadSource
  <2>1. PICK a \in Nat : a = reader.accepted + 1
    BY <1>4
  <2>2. PICK e : e = [session |-> reader.session, seq |-> a, line |-> l]
    OBVIOUS
  <2>3. log' = Append(log, e)
    BY <1>2, <1>8, <2>1, <2>2 DEF ReaderTakes
  <2>4. reader' = [reader EXCEPT !.batch = b, !.read = r, !.accepted = a]
    <3>1. reader' = [reader EXCEPT !.batch = b, !.read = r, !.accepted = a,
                                   !.malformed = reader.malformed]
      BY <1>2, <1>5, <1>8, <2>1 DEF ReaderTakes
    <3> QED
      BY <3>1 DEF SenderInv, ReaderStates
  <2>5. /\ reader' \in ReaderStates /\ reader'.batch = b /\ reader'.read = r
        /\ reader'.accepted = a /\ reader'.malformed = reader.malformed
        /\ reader'.on = reader.on /\ reader'.armed = reader.armed
        /\ reader'.tail = reader.tail /\ reader'.session = reader.session
    BY <1>3, <2>4 DEF SenderInv, ReaderStates
  <2>6. e \in Entries
    BY <1>3, <1>4, <2>2 DEF Entries
  <2>7. log \in Seq(Entries)
    BY DEF SenderInv
  <2>8. log' \in Seq(Entries)
    BY <2>3, <2>6, <2>7
  <2>9. /\ DOMAIN log' = DOMAIN log \cup {Len(log) + 1} /\ log'[Len(log) + 1] = e
        /\ \A j \in DOMAIN log : log'[j] = log[j]
    BY <2>3, <2>7
  <2>10. \A j \in DOMAIN log :
           ~(log[j].session = e.session /\ log[j].seq = e.seq)
    <3>1. \A j \in DOMAIN log : log[j].seq \in Nat
      BY LogIsTyped DEF Entries
    <3> QED
      BY <1>4, <2>1, <2>2, <3>1 DEF SenderInv, IdentityNames
  <2>11. reader.session >= 1
    BY <1>1 DEF SenderInv
  <2>12. \A j \in DOMAIN log' :
           /\ log'[j].session \in 1..reader.session
           /\ log'[j].session = reader.session => log'[j].seq <= a
    <3>1. \A j \in DOMAIN log : log[j].seq \in Nat
      BY LogIsTyped DEF Entries
    <3> QED
      BY <1>4, <2>1, <2>2, <2>9, <2>11, <3>1 DEF SenderInv, IdentityNames
  <2>13. \A i, j \in DOMAIN log' :
           log'[i].session = log'[j].session /\ log'[i].seq = log'[j].seq
             => log'[i].line = log'[j].line
    BY <2>9, <2>10 DEF SenderInv, IdentityNames
  <2>14. r = a + reader.malformed
    BY <1>4, <1>5, <2>1 DEF SenderInv
  <2> QED
    BY <1>1, <1>6, <1>7, <2>5, <2>8, <2>12, <2>13, <2>14 DEF SenderInv, IdentityNames
<1>9. CASE l \in BadSource
  <2>1. PICK m \in Nat : m = reader.malformed + 1
    BY <1>4
  <2>2. reader' = [reader EXCEPT !.batch = b, !.read = r, !.malformed = m] /\ log' = log
    <3>1. /\ reader' = [reader EXCEPT !.batch = b, !.read = r, !.accepted = reader.accepted,
                                      !.malformed = m]
          /\ log' = log
      BY <1>2, <1>5, <1>9, <2>1 DEF ReaderTakes
    <3> QED
      BY <3>1 DEF SenderInv, ReaderStates
  <2>3. /\ reader' \in ReaderStates /\ reader'.batch = b /\ reader'.read = r
        /\ reader'.accepted = reader.accepted /\ reader'.malformed = m
        /\ reader'.on = reader.on /\ reader'.armed = reader.armed
        /\ reader'.tail = reader.tail /\ reader'.session = reader.session
    BY <1>3, <2>2 DEF SenderInv, ReaderStates
  <2>4. r = reader.accepted + m
    BY <1>4, <1>5, <2>1 DEF SenderInv
  <2> QED
    BY <1>1, <1>6, <1>7, <2>2, <2>3, <2>4 DEF SenderInv, IdentityNames
<1> QED
  BY <1>8, <1>9

LEMMA SenderStep ==
  ASSUME SenderInv, [INext]_ivars
  PROVE  SenderInv'
<1>1. ASSUME NewTick PROVE SenderInv'
  BY <1>1 DEF NewTick, SenderInv, IdentityNames, ReaderStates, TailStates
<1>2. ASSUME ReaderTold PROVE SenderInv'
  BY <1>2 DEF ReaderTold, SenderInv, IdentityNames, ReaderStates
<1>3. ASSUME ReaderEnds PROVE SenderInv'
  <2>1. PICK x \in Nat : x = ExitCode(reader.malformed, reader.accepted)
    BY DEF ExitCode
  <2>2. reader' = [reader EXCEPT !.on = FALSE, !.batch = << >>, !.exit = x]
    BY <1>3, <2>1 DEF ReaderEnds
  <2>3. << >> \in Seq(Nat)
    OBVIOUS
  <2>4. /\ reader' \in ReaderStates /\ reader'.on = FALSE /\ reader'.tail = reader.tail
        /\ reader'.read = reader.read /\ reader'.accepted = reader.accepted
        /\ reader'.malformed = reader.malformed /\ reader'.session = reader.session
    BY <2>1, <2>2, <2>3 DEF SenderInv, ReaderStates
  <2> QED
    BY <1>3, <2>4 DEF ReaderEnds, SenderInv, IdentityNames
<1>4. ASSUME UNCHANGED sendervars PROVE SenderInv'
  BY <1>4 DEF sendervars, SenderInv, IdentityNames
<1>5. CASE INext
  BY <1>1, <1>2, <1>3, <1>4, <1>5, ReaderStartsCounts, ReaderPollsCounts, ReaderTakesCounts
     DEF INext, sendervars, Deposit, WriterStarts, WriterPolls, WriterTold, WriterEnds,
         Refuses, SkipsBeat, RefusesDuplicate, WritesTick, MisreadsTick, Taking
<1> QED
  BY <1>4, <1>5 DEF ivars, sendervars

-----------------------------------------------------------------------------
(* The receiver: every line behind its tail is counted once, or waits.          *)

InboxKeys == [sess : Nat, ch : {"tick"}, seq : Nat]

Kinds == {"tick", "hb", "junk", "foreign"}

InboxEntries == [kind : Kinds, session : Nat, seq : Nat, line : Nat]

WriterStates ==
  [on : BOOLEAN, stop : BOOLEAN, tail : TailStates, batch : Seq(Nat), armed : Nat,
   seen : Seq(InboxKeys), runs : Nat, exit : Nat]

Statistics ==
  [accepted : Nat, duplicates : Nat, malformed : Nat, skipped : Nat, processed : Nat]

CountsAgree ==
  /\ stats.processed = stats.accepted + stats.duplicates + stats.malformed + stats.skipped
  /\ ledger.received["tick"] = stats.accepted /\ ledger.duplicate = stats.duplicates
  /\ ledger.malformed = stats.malformed /\ beats = stats.skipped

ReceiverInv ==
  /\ inbox \in Seq(InboxEntries) /\ writer \in WriterStates
  /\ stats \in Statistics /\ ledger \in Ledger!Counters /\ beats \in Nat
  /\ writer.tail.off <= Len(inbox)
  /\ \A k \in DOMAIN writer.batch : writer.batch[k] \in DOMAIN inbox
  /\ writer.on => writer.armed + stats.processed + Len(writer.batch) = writer.tail.off
  /\ CountsAgree

receivervars == <<inbox, writer, stats, ledger, beats>>

LEMMA ReceiverInit == IInit => ReceiverInv
<1>1. Ledger!ZeroMetrics \in Ledger!Counters /\ Ledger!ZeroMetrics.received["tick"] = 0
      /\ Ledger!ZeroMetrics.duplicate = 0 /\ Ledger!ZeroMetrics.malformed = 0
  BY DEF Ledger!ZeroMetrics, Ledger!Counters, Ledger!Unset
<1> QED
  BY <1>1 DEF IInit, ReceiverInv, NoWriter, WriterStates, TailStates, NoId, Statistics,
              ZeroStats, CountsAgree

\* What any line does to the receiver: its batch loses it.
LEMMA RestOfBatch ==
  ASSUME ReceiverInv, NEW kind, AtHand(kind), NEW n \in Nat, n = stats.processed + 1
  PROVE  /\ Rest(writer) \in WriterStates
         /\ Rest(writer).on /\ Rest(writer).tail = writer.tail /\ Rest(writer).seen = writer.seen
         /\ Rest(writer).batch = Tail(writer.batch)
         /\ \A k \in DOMAIN Rest(writer).batch : Rest(writer).batch[k] \in DOMAIN inbox
         /\ Rest(writer).armed + n + Len(Rest(writer).batch) = writer.tail.off
         /\ Head(writer.batch) \in DOMAIN inbox /\ Taken.kind = kind /\ Taken \in InboxEntries
<1>1. writer.batch \in Seq(Nat) /\ writer.batch # << >> /\ writer.on
  BY DEF AtHand, ReceiverInv, WriterStates
<1>2. PICK b : b = Tail(writer.batch)
  OBVIOUS
<1>3. /\ b \in Seq(Nat) /\ Len(b) + 1 = Len(writer.batch) /\ Len(b) \in Nat
      /\ Head(writer.batch) = writer.batch[1] /\ 1 \in DOMAIN writer.batch
      /\ \A k \in DOMAIN b : k + 1 \in DOMAIN writer.batch /\ b[k] = writer.batch[k + 1]
  BY <1>1, <1>2, FirstOfBatch
<1>4. Rest(writer) = [writer EXCEPT !.batch = b]
  BY <1>2 DEF Rest
<1>5. /\ Rest(writer) \in WriterStates /\ Rest(writer).batch = b
      /\ Rest(writer).on = writer.on /\ Rest(writer).tail = writer.tail
      /\ Rest(writer).seen = writer.seen /\ Rest(writer).armed = writer.armed
  BY <1>3, <1>4 DEF ReceiverInv, WriterStates
<1>6. writer.armed \in Nat /\ stats.processed \in Nat
  BY DEF ReceiverInv, WriterStates, Statistics
<1>7. writer.armed + n + Len(b) = writer.tail.off
  BY <1>1, <1>3, <1>6 DEF ReceiverInv
<1>8. Head(writer.batch) \in DOMAIN inbox
  BY <1>3 DEF ReceiverInv
<1>9. Taken.kind = kind
  BY DEF Taken, AtHand
<1>10. Taken \in InboxEntries
  BY <1>8 DEF ReceiverInv, Taken
<1> QED
  BY <1>1, <1>2, <1>3, <1>5, <1>7, <1>8, <1>9, <1>10 DEF ReceiverInv

\* What the counters must do with a line, whatever it is.
LEMMA LineCounts ==
  ASSUME ReceiverInv, NEW kind, AtHand(kind), UNCHANGED inbox,
         NEW w \in WriterStates, writer' = w,
         w.on = Rest(writer).on, w.tail = writer.tail, w.batch = Rest(writer).batch,
         w.armed = Rest(writer).armed,
         stats' \in Statistics, stats'.processed = stats.processed + 1,
         ledger' \in Ledger!Counters, beats' \in Nat, CountsAgree'
  PROVE  ReceiverInv'
<1>1. PICK n \in Nat : n = stats.processed + 1
  BY DEF ReceiverInv, Statistics
<1>2. /\ \A k \in DOMAIN w.batch : w.batch[k] \in DOMAIN inbox
      /\ w.armed + n + Len(w.batch) = w.tail.off
  BY <1>1, RestOfBatch
<1> QED
  BY <1>1, <1>2 DEF ReceiverInv

\* A line that is taken is the one at hand.
LEMMA TakenIsAtHand ==
  ASSUME NEW kind, Taking(kind)
  PROVE  AtHand(kind)
  BY DEF Taking

\* The counters one by one.
LEMMA StatisticsMove ==
  ASSUME NEW s \in Statistics
  PROVE  /\ s.accepted \in Nat /\ s.duplicates \in Nat /\ s.malformed \in Nat
         /\ s.skipped \in Nat /\ s.processed \in Nat
         /\ \A n, p \in Nat :
              /\ [s EXCEPT !.malformed = n, !.processed = p] \in Statistics
              /\ [s EXCEPT !.skipped = n, !.processed = p] \in Statistics
              /\ [s EXCEPT !.duplicates = n, !.processed = p] \in Statistics
              /\ [s EXCEPT !.accepted = n, !.processed = p] \in Statistics
  BY DEF Statistics

LEMMA LedgerMoves ==
  ASSUME NEW m \in Ledger!Counters, NEW key \in InboxKeys
  PROVE  /\ m.received["tick"] \in Nat /\ m.duplicate \in Nat /\ m.malformed \in Nat
         /\ Ledger!RecordMalformed(m) \in Ledger!Counters
         /\ Ledger!RecordMalformed(m).received = m.received
         /\ Ledger!RecordMalformed(m).duplicate = m.duplicate
         /\ Ledger!RecordMalformed(m).malformed = m.malformed + 1
         /\ Ledger!RecordDuplicate(m) \in Ledger!Counters
         /\ Ledger!RecordDuplicate(m).received = m.received
         /\ Ledger!RecordDuplicate(m).duplicate = m.duplicate + 1
         /\ Ledger!RecordDuplicate(m).malformed = m.malformed
         /\ Ledger!RecordReceived(m, key) \in Ledger!Counters
         /\ Ledger!RecordReceived(m, key).received["tick"] = m.received["tick"] + 1
         /\ Ledger!RecordReceived(m, key).duplicate = m.duplicate
         /\ Ledger!RecordReceived(m, key).malformed = m.malformed
<1>1. key.ch = "tick" /\ key.seq \in Nat /\ key.sess \in Nat
  BY DEF InboxKeys
<1>2. Ledger!Expected(m, key) \in Nat
  BY <1>1 DEF Ledger!Expected, Ledger!Unset, Ledger!Counters
<1>3. Ledger!Gap(m, key) \in Nat /\ Ledger!NextExpected(m, key) \in Nat
  BY <1>1, <1>2 DEF Ledger!Gap, Ledger!NextExpected, Ledger!Unset
<1>4. /\ m.received["tick"] \in Nat /\ m.duplicate \in Nat /\ m.malformed \in Nat
      /\ m.dropped \in Nat
  BY DEF Ledger!Counters
<1>5. PICK r, d, g, x, y \in Nat :
        /\ r = m.received["tick"] + 1 /\ d = m.dropped + 1 /\ g = m.dropped + Ledger!Gap(m, key)
        /\ x = m.malformed + 1 /\ y = m.duplicate + 1
  <2>1. /\ m.received["tick"] + 1 \in Nat /\ m.dropped + 1 \in Nat
        /\ m.dropped + Ledger!Gap(m, key) \in Nat
        /\ m.malformed + 1 \in Nat /\ m.duplicate + 1 \in Nat
    BY <1>3, <1>4
  <2> QED
    BY <2>1, Zenon
<1>6. Ledger!RecordMalformed(m) = [m EXCEPT !.malformed = x, !.dropped = d]
  BY <1>5 DEF Ledger!RecordMalformed
<1>7. Ledger!RecordDuplicate(m) = [m EXCEPT !.duplicate = y]
  BY <1>5 DEF Ledger!RecordDuplicate
<1>8. PICK z : z = Ledger!NextExpected(m, key)
  OBVIOUS
<1>9. Ledger!RecordReceived(m, key) =
        [m EXCEPT !.dropped = g, !.sess["tick"] = key.sess, !.next["tick"] = z,
                  !.received["tick"] = r]
  BY <1>1, <1>5, <1>8 DEF Ledger!RecordReceived
<1>10. z \in Nat
  BY <1>3, <1>8
<1>11. /\ Ledger!RecordMalformed(m) \in Ledger!Counters
       /\ Ledger!RecordMalformed(m).received = m.received
       /\ Ledger!RecordMalformed(m).duplicate = m.duplicate
       /\ Ledger!RecordMalformed(m).malformed = x
  BY <1>6 DEF Ledger!Counters
<1>12. /\ Ledger!RecordDuplicate(m) \in Ledger!Counters
       /\ Ledger!RecordDuplicate(m).received = m.received
       /\ Ledger!RecordDuplicate(m).duplicate = y
       /\ Ledger!RecordDuplicate(m).malformed = m.malformed
  BY <1>7 DEF Ledger!Counters
<1>13. /\ Ledger!RecordReceived(m, key) \in Ledger!Counters
       /\ Ledger!RecordReceived(m, key).received["tick"] = r
       /\ Ledger!RecordReceived(m, key).duplicate = m.duplicate
       /\ Ledger!RecordReceived(m, key).malformed = m.malformed
  <2>1. PICK sess, next, received :
          /\ sess = [m.sess EXCEPT !["tick"] = key.sess]
          /\ next = [m.next EXCEPT !["tick"] = z]
          /\ received = [m.received EXCEPT !["tick"] = r]
    OBVIOUS
  <2>2. /\ sess \in [{"tick"} -> Nat] /\ next \in [{"tick"} -> Nat]
        /\ received \in [{"tick"} -> Nat] /\ received["tick"] = r
    BY <1>1, <1>10, <2>1 DEF Ledger!Counters
  <2>3. Ledger!RecordReceived(m, key) =
          [m EXCEPT !.dropped = g, !.sess = sess, !.next = next, !.received = received]
    BY <1>9, <2>1
  <2> QED
    BY <2>2, <2>3 DEF Ledger!Counters
<1> QED
  BY <1>4, <1>5, <1>11, <1>12, <1>13

\* A window of keys, and the key of a tick of the inbox.
LEMMA KeysRemembered ==
  ASSUME NEW s \in Seq(InboxKeys), NEW key \in InboxKeys, NEW w \in Nat \ {0}
  PROVE  /\ Remember(s, key, w) \in Seq(InboxKeys)
         /\ \A i \in 1..Len(Remember(s, key, w)) :
              \/ Remember(s, key, w)[i] = key
              \/ \E j \in 1..Len(s) : Remember(s, key, w)[i] = s[j]
<1> DEFINE t == Append(s, key)
<1>1. t \in Seq(InboxKeys)
  OBVIOUS
<1>2. \A i \in 1..Len(t) : t[i] = key \/ \E j \in 1..Len(s) : t[i] = s[j]
  <2>1. PICK n \in Nat : n = Len(s)
    OBVIOUS
  <2>2. Len(t) = n + 1 /\ t[n + 1] = key /\ \A i \in 1..n : t[i] = s[i]
    BY <1>1, <2>1
  <2> HIDE DEF t
  <2> QED
    BY <2>1, <2>2
<1> HIDE DEF t
<1>3. CASE Len(t) > w
  <2>1. PICK l \in Nat : l = Len(t)
    BY <1>1
  <2>2. PICK m \in Nat : m = l - w + 1 /\ m \in 1..l
    BY <1>3, <2>1
  <2>3. Evict(t, w) = SubSeq(t, m, l)
    BY <1>3, <2>1, <2>2 DEF Evict
  <2>4. /\ SubSeq(t, m, l) \in Seq(InboxKeys) /\ Len(SubSeq(t, m, l)) = l - m + 1
        /\ \A i \in 1..(l - m + 1) : SubSeq(t, m, l)[i] = t[m + i - 1]
    BY <1>1, <2>1, <2>2
  <2>5. \A i \in 1..(l - m + 1) : m + i - 1 \in 1..l
    BY <2>1, <2>2
  <2>6. \A i \in 1..(l - m + 1) : SubSeq(t, m, l)[i] = key \/ \E j \in 1..Len(s) : SubSeq(t, m, l)[i] = s[j]
    BY <1>2, <2>1, <2>4, <2>5
  <2>7. Remember(s, key, w) = SubSeq(t, m, l)
    BY <2>3 DEF Remember, t
  <2> QED
    BY <2>4, <2>6, <2>7
<1>4. CASE ~(Len(t) > w)
  <2>1. Remember(s, key, w) = t
    BY <1>4 DEF Remember, Evict, t
  <2> QED
    BY <1>1, <1>2, <2>1
<1> QED
  BY <1>3, <1>4

LEMMA WindowIsPositive == EffectiveWindow(InboxWindow) \in Nat \ {0}
  BY InboxAssumption DEF EffectiveWindow

LEMMA KeyType ==
  ASSUME NEW e \in InboxEntries
  PROVE  KeyOf(e) \in InboxKeys
  BY DEF KeyOf, InboxKeys, InboxEntries

LEMMA StatisticsTyped ==
  ASSUME ReceiverInv
  PROVE  /\ stats \in Statistics /\ beats \in Nat
         /\ stats.accepted \in Nat /\ stats.duplicates \in Nat /\ stats.malformed \in Nat
         /\ stats.skipped \in Nat /\ stats.processed \in Nat
  BY StatisticsMove DEF ReceiverInv

LEMMA RefusesCounts ==
  ASSUME ReceiverInv, Refuses \/ MisreadsTick
  PROVE  ReceiverInv'
<1>1. PICK kind : AtHand(kind)
  BY TakenIsAtHand DEF Refuses, MisreadsTick
<1>2. PICK n, p \in Nat : n = stats.malformed + 1 /\ p = stats.processed + 1
  BY StatisticsTyped
<1>3. PICK w : w = Rest(writer)
  OBVIOUS
<1>4. w \in WriterStates /\ w.tail = writer.tail /\ writer' = w
  BY <1>1, <1>2, <1>3, RestOfBatch DEF Refuses, MisreadsTick
<1>5. stats' = [stats EXCEPT !.malformed = n, !.processed = p]
  BY <1>2 DEF Refuses, MisreadsTick
<1>6. /\ stats' \in Statistics /\ stats'.malformed = n /\ stats'.processed = p
      /\ stats'.accepted = stats.accepted /\ stats'.duplicates = stats.duplicates
      /\ stats'.skipped = stats.skipped
  BY <1>5, StatisticsTyped DEF Statistics
<1>7. [sess |-> 0, ch |-> "tick", seq |-> 0] \in InboxKeys
  BY DEF InboxKeys
<1>8. ledger' = Ledger!RecordMalformed(ledger) /\ UNCHANGED <<inbox, beats>>
  BY DEF Refuses, MisreadsTick, Taking
<1>9. /\ ledger' \in Ledger!Counters /\ ledger'.received = ledger.received
      /\ ledger'.duplicate = ledger.duplicate /\ ledger'.malformed = ledger.malformed + 1
  BY <1>7, <1>8, LedgerMoves DEF ReceiverInv
<1>10. CountsAgree'
  <2>1. CountsAgree
    BY DEF ReceiverInv
  <2>2. beats' = beats /\ ledger'.received["tick"] = ledger.received["tick"]
    BY <1>8, <1>9
  <2> QED
    BY <1>2, <1>6, <1>9, <2>1, <2>2, StatisticsTyped DEF CountsAgree
<1> QED
  BY <1>1, <1>2, <1>3, <1>4, <1>6, <1>8, <1>9, <1>10, LineCounts, StatisticsTyped

LEMMA SkipsBeatCounts ==
  ASSUME ReceiverInv, SkipsBeat
  PROVE  ReceiverInv'
<1>1. AtHand("hb")
  BY TakenIsAtHand DEF SkipsBeat
<1>2. PICK n, p \in Nat : n = stats.skipped + 1 /\ p = stats.processed + 1
  BY StatisticsTyped
<1>3. PICK w : w = Rest(writer)
  OBVIOUS
<1>4. w \in WriterStates /\ w.tail = writer.tail /\ writer' = w
  BY <1>1, <1>2, <1>3, RestOfBatch DEF SkipsBeat
<1>5. stats' = [stats EXCEPT !.skipped = n, !.processed = p]
  BY <1>2 DEF SkipsBeat, Skipped
<1>6. /\ stats' \in Statistics /\ stats'.skipped = n /\ stats'.processed = p
      /\ stats'.accepted = stats.accepted /\ stats'.duplicates = stats.duplicates
      /\ stats'.malformed = stats.malformed
  BY <1>5, StatisticsTyped DEF Statistics
<1>7. UNCHANGED <<inbox, ledger>> /\ beats' = beats + 1 /\ beats' \in Nat
  BY StatisticsTyped DEF SkipsBeat, Taking
<1>8. CountsAgree'
  BY <1>2, <1>6, <1>7, StatisticsTyped DEF ReceiverInv, CountsAgree
<1>9. ledger' \in Ledger!Counters
  BY <1>7 DEF ReceiverInv
<1> QED
  BY <1>1, <1>2, <1>3, <1>4, <1>6, <1>7, <1>8, <1>9, LineCounts

LEMMA RefusesDuplicateCounts ==
  ASSUME ReceiverInv, RefusesDuplicate
  PROVE  ReceiverInv'
<1>1. AtHand("tick")
  BY TakenIsAtHand DEF RefusesDuplicate
<1>2. PICK n, p \in Nat : n = stats.duplicates + 1 /\ p = stats.processed + 1
  BY StatisticsTyped
<1>3. PICK w : w = Rest(writer)
  OBVIOUS
<1>4. w \in WriterStates /\ w.tail = writer.tail /\ writer' = w
  BY <1>1, <1>2, <1>3, RestOfBatch DEF RefusesDuplicate
<1>5. stats' = [stats EXCEPT !.duplicates = n, !.processed = p]
  BY <1>2 DEF RefusesDuplicate
<1>6. /\ stats' \in Statistics /\ stats'.duplicates = n /\ stats'.processed = p
      /\ stats'.accepted = stats.accepted /\ stats'.malformed = stats.malformed
      /\ stats'.skipped = stats.skipped
  BY <1>5, StatisticsTyped DEF Statistics
<1>7. [sess |-> 0, ch |-> "tick", seq |-> 0] \in InboxKeys
  BY DEF InboxKeys
<1>8. ledger' = Ledger!RecordDuplicate(ledger) /\ UNCHANGED <<inbox, beats>>
  BY DEF RefusesDuplicate, Taking
<1>9. /\ ledger' \in Ledger!Counters /\ ledger'.received = ledger.received
      /\ ledger'.duplicate = ledger.duplicate + 1 /\ ledger'.malformed = ledger.malformed
  BY <1>7, <1>8, LedgerMoves DEF ReceiverInv
<1>10. CountsAgree'
  <2>1. CountsAgree
    BY DEF ReceiverInv
  <2>2. beats' = beats /\ ledger'.received["tick"] = ledger.received["tick"]
    BY <1>8, <1>9
  <2> QED
    BY <1>2, <1>6, <1>9, <2>1, <2>2, StatisticsTyped DEF CountsAgree
<1> QED
  BY <1>1, <1>2, <1>3, <1>4, <1>6, <1>8, <1>9, <1>10, LineCounts, StatisticsTyped

LEMMA WritesTickCounts ==
  ASSUME ReceiverInv, WritesTick
  PROVE  /\ ReceiverInv'
         /\ writer'.seen = Remember(writer.seen, KeyOf(Taken), EffectiveWindow(InboxWindow))
<1>1. AtHand("tick")
  BY TakenIsAtHand DEF WritesTick
<1>2. PICK n, p \in Nat : n = stats.accepted + 1 /\ p = stats.processed + 1
  BY StatisticsTyped
<1>3. PICK r, key : r = Rest(writer) /\ key = KeyOf(Taken)
  OBVIOUS
<1>4. r \in WriterStates /\ r.tail = writer.tail /\ key \in InboxKeys /\ r.seen = writer.seen
  BY <1>1, <1>2, <1>3, RestOfBatch, KeyType
<1>5. PICK s : s = Remember(writer.seen, key, EffectiveWindow(InboxWindow))
  OBVIOUS
<1>6. s \in Seq(InboxKeys)
  BY <1>4, <1>5, KeysRemembered, WindowIsPositive DEF ReceiverInv, WriterStates
<1>7. writer' = [r EXCEPT !.seen = s]
  BY <1>3, <1>4, <1>5 DEF WritesTick
<1>8. PICK w : w = [r EXCEPT !.seen = s]
  OBVIOUS
<1>9. /\ w \in WriterStates /\ w.on = r.on /\ w.tail = writer.tail /\ w.batch = r.batch
      /\ w.armed = r.armed /\ w.seen = s
  BY <1>4, <1>6, <1>8 DEF WriterStates
<1>10. stats' = [stats EXCEPT !.accepted = n, !.processed = p]
  BY <1>2 DEF WritesTick
<1>11. /\ stats' \in Statistics /\ stats'.accepted = n /\ stats'.processed = p
       /\ stats'.duplicates = stats.duplicates /\ stats'.malformed = stats.malformed
       /\ stats'.skipped = stats.skipped
  BY <1>10, StatisticsTyped DEF Statistics
<1>12. ledger' = Ledger!RecordReceived(ledger, key) /\ UNCHANGED <<inbox, beats>>
  BY <1>3 DEF WritesTick, Taking
<1>13. /\ ledger' \in Ledger!Counters /\ ledger'.received["tick"] = ledger.received["tick"] + 1
       /\ ledger'.duplicate = ledger.duplicate /\ ledger'.malformed = ledger.malformed
  BY <1>4, <1>12, LedgerMoves DEF ReceiverInv
<1>14. CountsAgree'
  <2>1. CountsAgree
    BY DEF ReceiverInv
  <2>2. beats' = beats
    BY <1>12
  <2> QED
    BY <1>2, <1>11, <1>13, <2>1, <2>2, StatisticsTyped DEF CountsAgree
<1>15. ReceiverInv'
  BY <1>1, <1>2, <1>3, <1>7, <1>8, <1>9, <1>11, <1>12, <1>13, <1>14, LineCounts, StatisticsTyped
<1> QED
  BY <1>3, <1>5, <1>7, <1>8, <1>9, <1>15

\* Whoever fills the inbox takes ticks from the log.
LEMMA DepositedLines ==
  ASSUME SenderInv, NEW e \in InboxLines
  PROVE  /\ e \in InboxEntries
         /\ e.kind = "tick" /\ e.session # Legacy =>
              \E j \in DOMAIN log :
                e.session = log[j].session /\ e.seq = log[j].seq /\ e.line = log[j].line
<1>1. CASE \E j \in DOMAIN log : e \in {Envelope(log[j], Legacy), Envelope(log[j], log[j].session)}
  <2>1. PICK j \in DOMAIN log :
          e = Envelope(log[j], Legacy) \/ e = Envelope(log[j], log[j].session)
    BY <1>1
  <2>2. log[j] \in Entries
    BY LogIsTyped
  <2>3. log[j].session \in Nat /\ log[j].seq \in Nat /\ log[j].line \in Nat
    BY <2>2 DEF Entries
  <2> QED
    BY <2>1, <2>3 DEF Envelope, InboxEntries, Kinds, Legacy
<1>2. CASE e \in {Lone("hb"), Lone("junk"), Lone("foreign")}
  BY <1>2 DEF Lone, InboxEntries, Kinds, Legacy
<1> QED
  BY <1>1, <1>2 DEF InboxLines

LEMMA DepositCounts ==
  ASSUME SenderInv, ReceiverInv, Deposit
  PROVE  /\ ReceiverInv'
         /\ DOMAIN inbox' = DOMAIN inbox \cup {Len(inbox) + 1} /\ Len(inbox') = Len(inbox) + 1
         /\ \A k \in DOMAIN inbox : inbox'[k] = inbox[k]
         /\ inbox'[Len(inbox) + 1] \in InboxLines
<1>1. PICK e \in InboxLines : inbox' = Append(inbox, e)
  BY DEF Deposit
<1>2. inbox \in Seq(InboxEntries) /\ e \in InboxEntries
  BY DepositedLines DEF ReceiverInv
<1>3. /\ inbox' \in Seq(InboxEntries) /\ Len(inbox') = Len(inbox) + 1
      /\ DOMAIN inbox' = DOMAIN inbox \cup {Len(inbox) + 1}
      /\ inbox'[Len(inbox) + 1] = e
      /\ \A k \in DOMAIN inbox : inbox'[k] = inbox[k]
  BY <1>1, <1>2
<1>4. writer.tail.off <= Len(inbox')
  BY <1>2, <1>3 DEF ReceiverInv, WriterStates, TailStates
<1>5. UNCHANGED <<writer, stats, ledger, beats>>
  BY DEF Deposit
<1>6. ReceiverInv'
  BY <1>3, <1>4, <1>5 DEF ReceiverInv, CountsAgree
<1> QED
  BY <1>3, <1>6

LEMMA WriterStartsCounts ==
  ASSUME ReceiverInv, WriterStarts
  PROVE  /\ ReceiverInv' /\ writer'.on /\ writer'.seen = << >>
         /\ writer'.tail.off = IF FromStart THEN 0 ELSE Len(inbox)
<1>1. PICK t, n : t = Armed(Len(inbox)) /\ n = writer.runs + 1
  OBVIOUS
<1>2. inbox \in Seq(InboxEntries) /\ n \in Nat
  BY <1>1 DEF ReceiverInv, WriterStates
<1>3. /\ t \in TailStates /\ t.off <= Len(inbox) /\ t.off \in Nat
      /\ t.off = IF FromStart THEN 0 ELSE Len(inbox)
  BY <1>1, <1>2, ArmedAt DEF TailStates
<1>4. writer' = [on |-> TRUE, stop |-> FALSE, tail |-> t, batch |-> << >>, armed |-> t.off,
                 seen |-> << >>, runs |-> n, exit |-> 0]
  BY <1>1 DEF WriterStarts, NoWriter
<1>5. << >> \in Seq(Nat) /\ << >> \in Seq(InboxKeys) /\ Len(<< >>) = 0
  OBVIOUS
<1>6. /\ writer' \in WriterStates /\ writer'.on /\ writer'.tail = t /\ writer'.batch = << >>
      /\ writer'.armed = t.off /\ writer'.seen = << >>
  BY <1>2, <1>3, <1>4, <1>5 DEF WriterStates
<1>7. inbox' = inbox /\ stats' = ZeroStats /\ ledger' = Ledger!ZeroMetrics /\ beats' = 0
  BY DEF WriterStarts
<1>8. /\ stats' \in Statistics /\ ledger' \in Ledger!Counters /\ stats'.processed = 0
      /\ CountsAgree'
  BY <1>7 DEF ZeroStats, Statistics, CountsAgree, Ledger!ZeroMetrics, Ledger!Counters,
              Ledger!Unset
<1>9. ReceiverInv'
  <2>1. \A k \in DOMAIN writer'.batch : writer'.batch[k] \in DOMAIN inbox'
    BY <1>6
  <2>2. writer'.armed + stats'.processed + Len(writer'.batch) = writer'.tail.off
    BY <1>3, <1>5, <1>6, <1>8
  <2> QED
    BY <1>2, <1>3, <1>6, <1>7, <1>8, <2>1, <2>2 DEF ReceiverInv
<1> QED
  BY <1>3, <1>6, <1>9

LEMMA WriterPollsCounts ==
  ASSUME ReceiverInv, WriterPolls
  PROVE  /\ ReceiverInv' /\ writer'.on /\ writer'.seen = writer.seen
         /\ writer'.tail.off = Len(inbox)
         /\ \A k \in DOMAIN inbox : Coming(k) => (\E m \in DOMAIN writer'.batch : writer'.batch[m] = k)
<1>1. PICK b, t : b = PolledLines(writer.tail, Growing(Len(inbox)))
                  /\ t = TailAfterPoll(writer.tail, Growing(Len(inbox)))
  OBVIOUS
<1>2. PICK size \in Nat, off \in Nat : size = Len(inbox) /\ off = writer.tail.off
  BY DEF ReceiverInv, WriterStates, TailStates
<1>3. writer.tail \in TailStates /\ off <= size
  BY <1>2 DEF ReceiverInv, WriterStates
<1>4. /\ b \in Seq(Nat) /\ Len(b) = size - off /\ \A i \in 1..(size - off) : b[i] = off + i
      /\ t \in TailStates /\ t.off = size
  BY <1>1, <1>2, <1>3, PollOfGrowing
<1>5. writer' = [writer EXCEPT !.batch = b, !.tail = t] /\ writer.on /\ writer.batch = << >>
  BY <1>1 DEF WriterPolls
<1>6. UNCHANGED <<inbox, stats, ledger, beats>>
  BY DEF WriterPolls
<1>7. /\ writer' \in WriterStates /\ writer'.batch = b /\ writer'.tail = t
      /\ writer'.on = writer.on /\ writer'.armed = writer.armed /\ writer'.seen = writer.seen
  BY <1>4, <1>5 DEF ReceiverInv, WriterStates
<1>8. writer.armed + stats.processed = off /\ writer.armed \in Nat /\ stats.processed \in Nat
  <2>1. Len(writer.batch) = 0
    BY <1>5
  <2>2. writer.armed \in Nat /\ stats.processed \in Nat
    BY DEF ReceiverInv, WriterStates, Statistics
  <2>3. writer.armed + stats.processed + Len(writer.batch) = off
    BY <1>2, <1>5 DEF ReceiverInv
  <2> QED
    BY <2>1, <2>2, <2>3
<1>9. writer.armed + stats.processed + Len(b) = size
  BY <1>3, <1>4, <1>8
<1>10. DOMAIN b = 1..(size - off) /\ DOMAIN inbox = 1..size
  BY <1>2, <1>4 DEF ReceiverInv
<1>11. \A k \in DOMAIN b : b[k] \in DOMAIN inbox
  BY <1>2, <1>3, <1>4, <1>10
<1>12. ReceiverInv'
  BY <1>2, <1>4, <1>5, <1>6, <1>7, <1>9, <1>11 DEF ReceiverInv, CountsAgree
<1>13. ASSUME NEW k \in DOMAIN inbox, Coming(k)
       PROVE  \E m \in DOMAIN b : b[m] = k
  <2>1. k > off
    BY <1>2, <1>5, <1>13 DEF Coming
  <2>2. k \in 1..size /\ size \in Nat /\ off \in Nat
    BY <1>10
  <2>3. PICK m \in 1..(size - off) : off + m = k
    <3>1. k - off \in 1..(size - off) /\ off + (k - off) = k
      BY <2>1, <2>2
    <3> QED
      BY <3>1
  <2>4. m \in DOMAIN b /\ b[m] = k
    BY <1>4, <1>10, <2>3
  <2> QED
    BY <2>4
<1> QED
  BY <1>2, <1>4, <1>5, <1>7, <1>12, <1>13

LEMMA WriterEndsCounts ==
  ASSUME ReceiverInv, WriterEnds
  PROVE  /\ ReceiverInv' /\ writer'.seen = writer.seen
         /\ \A k \in DOMAIN inbox : Coming(k) => k \in unread'
<1>1. PICK x \in Nat : x = ExitCode(stats.malformed, stats.accepted)
  BY DEF ExitCode
<1>2. writer' = [writer EXCEPT !.on = FALSE, !.batch = << >>, !.exit = x]
  BY <1>1 DEF WriterEnds
<1>3. << >> \in Seq(Nat)
  OBVIOUS
<1>4. /\ writer' \in WriterStates /\ writer'.on = FALSE /\ writer'.tail = writer.tail
      /\ writer'.batch = << >> /\ writer'.seen = writer.seen
  BY <1>1, <1>2, <1>3 DEF ReceiverInv, WriterStates
<1>5. UNCHANGED <<inbox, stats, ledger, beats>>
  BY DEF WriterEnds
<1>6. ReceiverInv'
  BY <1>4, <1>5 DEF ReceiverInv, CountsAgree
<1>7. PICK size \in Nat, off \in Nat : size = Len(inbox) /\ off = writer.tail.off
  BY DEF ReceiverInv, WriterStates, TailStates
<1>8. ASSUME NEW k \in DOMAIN inbox, Coming(k)
      PROVE  k \in Left
  <2>1. k \in 1..size
    BY <1>7 DEF ReceiverInv
  <2>2. CASE k > off
    BY <1>7, <2>1, <2>2 DEF Left
  <2>3. CASE \E m \in DOMAIN writer.batch : writer.batch[m] = k
    BY <2>3 DEF Left
  <2> QED
    BY <1>7, <1>8, <2>2, <2>3 DEF Coming
<1>9. unread' = unread \cup Left
  BY DEF WriterEnds
<1> QED
  BY <1>4, <1>6, <1>8, <1>9

LEMMA WriterToldCounts ==
  ASSUME ReceiverInv, WriterTold
  PROVE  /\ ReceiverInv' /\ writer'.seen = writer.seen /\ writer'.on = writer.on
         /\ writer'.tail = writer.tail /\ writer'.batch = writer.batch
<1>1. writer' = [writer EXCEPT !.stop = TRUE] /\ UNCHANGED <<inbox, stats, ledger, beats>>
  BY DEF WriterTold
<1>2. /\ writer' \in WriterStates /\ writer'.seen = writer.seen /\ writer'.on = writer.on
      /\ writer'.tail = writer.tail /\ writer'.batch = writer.batch
      /\ writer'.armed = writer.armed
  BY <1>1 DEF ReceiverInv, WriterStates
<1> QED
  BY <1>1, <1>2 DEF ReceiverInv, CountsAgree

LEMMA ReceiverStep ==
  ASSUME SenderInv, ReceiverInv, [INext]_ivars
  PROVE  ReceiverInv'
<1>1. ASSUME UNCHANGED receivervars PROVE ReceiverInv'
  BY <1>1 DEF receivervars, ReceiverInv, CountsAgree
<1>2. CASE INext
  BY <1>1, <1>2, DepositCounts, WriterStartsCounts, WriterPollsCounts, WriterToldCounts,
     WriterEndsCounts, RefusesCounts, SkipsBeatCounts, RefusesDuplicateCounts,
     WritesTickCounts
     DEF INext, receivervars, NewTick, ReaderStarts, ReaderPolls, ReaderTakes, ReaderTold,
         ReaderEnds
<1> QED
  BY <1>1, <1>2 DEF ivars, receivervars

\* With files, each end accounts for every line behind its tail exactly once, and the
\* receiver's statistics and its metrics are of the same lines (sender/runtime.py
\* poll_once, receiver/runtime.py accept_envelope_line): for every option, batch and
\* order of lines, and over all restarts.
THEOREM LinesAreCountedHolds == AppsSpec => []LinesAreCounted
<1>1. AppsInit => SenderInv /\ ReceiverInv
  BY SenderInit, ReceiverInit DEF AppsInit
<1>2. SenderInv /\ ReceiverInv /\ [AppsNext]_avars => SenderInv' /\ ReceiverInv'
  BY SenderStep, ReceiverStep DEF AppsNext, OverHttp, OverFiles, avars
<1>3. SenderInv /\ ReceiverInv => LinesAreCounted
  BY DEF SenderInv, ReceiverInv, CountsAgree, LinesAreCounted
<1> QED
  BY <1>1, <1>2, <1>3, PTL DEF AppsSpec

(* The journal: what the window remembers was written, and what was written names its *)
(* line.                                                                   *)

IsTick(k) == inbox[k].kind = "tick"
Named(k) == IsTick(k) /\ inbox[k].session # Legacy
Journaled(k) == \E m \in DOMAIN ticks : inbox[ticks[m]].line = inbox[k].line
Waits(k) == k \in unread \/ (writer.on /\ Coming(k))

\* A named tick is in the log.
NamedIsLogged ==
  \A k \in DOMAIN inbox : Named(k) =>
    \E j \in DOMAIN log :
      /\ inbox[k].session = log[j].session /\ inbox[k].seq = log[j].seq
      /\ inbox[k].line = log[j].line

\* The keys of the window are of ticks in the journal.
SeenIsWritten ==
  \A i \in 1..Len(writer.seen) :
    \E m \in DOMAIN ticks : KeyOf(inbox[ticks[m]]) = writer.seen[i]

JournalInv ==
  /\ ticks \in Seq(Nat)
  /\ \A m \in DOMAIN ticks : ticks[m] \in DOMAIN inbox /\ IsTick(ticks[m])
  /\ NamedIsLogged /\ SeenIsWritten
  /\ \A k \in DOMAIN inbox : Named(k) => Waits(k) \/ Journaled(k)

LEMMA JournalInit == IInit => JournalInv
  BY DEF IInit, JournalInv, NamedIsLogged, SeenIsWritten, NoWriter

\* The same key is of the same line.
LEMMA SameKeySameLine ==
  ASSUME SenderInv, JournalInv, NEW k \in DOMAIN inbox, NEW l \in DOMAIN inbox,
         Named(k), IsTick(l), KeyOf(inbox[k]) = KeyOf(inbox[l])
  PROVE  inbox[k].line = inbox[l].line
<1>1. inbox[k].session = inbox[l].session /\ inbox[k].seq = inbox[l].seq
  BY DEF KeyOf
<1>2. Named(l)
  BY <1>1 DEF Named
<1>3. PICK i \in DOMAIN log :
        /\ inbox[k].session = log[i].session /\ inbox[k].seq = log[i].seq
        /\ inbox[k].line = log[i].line
  BY DEF JournalInv, NamedIsLogged
<1>4. PICK j \in DOMAIN log :
        /\ inbox[l].session = log[j].session /\ inbox[l].seq = log[j].seq
        /\ inbox[l].line = log[j].line
  BY <1>2 DEF JournalInv, NamedIsLogged
<1> QED
  BY <1>1, <1>3, <1>4 DEF SenderInv, IdentityNames

\* A step that leaves the inbox and the journal alone keeps what is journaled; what waited
\* must wait on, or be journaled.
LEMMA QuietJournal ==
  ASSUME JournalInv, UNCHANGED <<inbox, ticks>>, NamedIsLogged', SeenIsWritten',
         \A k \in DOMAIN inbox : Named(k) /\ Waits(k) => Waits(k)' \/ Journaled(k)
  PROVE  JournalInv'
  BY DEF JournalInv, Named, IsTick, Journaled

\* The log only grows.
LEMMA LogGrows ==
  ASSUME SenderInv, JournalInv, [INext]_ivars, UNCHANGED inbox
  PROVE  NamedIsLogged'
<1>1. ASSUME UNCHANGED log PROVE NamedIsLogged'
  BY <1>1 DEF JournalInv, NamedIsLogged, Named, IsTick
<1>2. CASE ReaderTakes
  <2>1. PICK e : log' = log \/ log' = Append(log, e)
    BY <1>2 DEF ReaderTakes
  <2>2. log \in Seq(Entries)
    BY DEF SenderInv
  <2>3. \A j \in DOMAIN log : j \in DOMAIN log' /\ log'[j] = log[j]
    BY <2>1, <2>2
  <2> QED
    BY <2>3 DEF JournalInv, NamedIsLogged, Named, IsTick
<1>3. CASE INext /\ ~ReaderTakes
  BY <1>1, <1>3 DEF INext, NewTick, ReaderStarts, ReaderPolls, ReaderTold, ReaderEnds,
     Deposit, WriterStarts, WriterPolls, WriterTold, WriterEnds, Refuses, SkipsBeat,
     RefusesDuplicate, WritesTick, MisreadsTick, Taking
<1> QED
  BY <1>1, <1>2, <1>3 DEF ivars

\* The line that is taken leaves the batch; every other one waits on.
LEMMA OthersWaitOn ==
  ASSUME ReceiverInv, NEW kind, AtHand(kind), unread \subseteq unread',
         writer'.batch = Tail(writer.batch), writer'.tail = writer.tail, writer'.on,
         NEW k \in DOMAIN inbox, Waits(k), k # Head(writer.batch)
  PROVE  Waits(k)'
<1>1. writer.batch \in Seq(Nat) /\ writer.batch # << >> /\ unread \subseteq unread'
  BY DEF AtHand, ReceiverInv, WriterStates
<1>2. CASE k \in unread
  BY <1>1, <1>2 DEF Waits
<1>3. CASE k > writer.tail.off
  BY <1>3 DEF Waits, Coming
<1>4. CASE \E m \in DOMAIN writer.batch : writer.batch[m] = k
  <2>1. PICK m \in DOMAIN writer.batch : writer.batch[m] = k
    BY <1>4
  <2>2. m # 1
    BY <1>1, <2>1, FirstOfBatch
  <2>3. m - 1 \in DOMAIN Tail(writer.batch) /\ Tail(writer.batch)[m - 1] = k
    BY <1>1, <2>1, <2>2, FirstOfBatch
  <2>4. \E n \in DOMAIN writer'.batch : writer'.batch[n] = k
    BY <2>3
  <2> QED
    BY <2>4 DEF Waits, Coming
<1> QED
  BY <1>2, <1>3, <1>4 DEF Waits, Coming

LEMMA RestIsNext ==
  ASSUME ReceiverInv, NEW kind, AtHand(kind)
  PROVE  /\ Rest(writer).on /\ Rest(writer).tail = writer.tail
         /\ Rest(writer).seen = writer.seen /\ Rest(writer).batch = Tail(writer.batch)
         /\ Head(writer.batch) \in DOMAIN inbox /\ Taken.kind = kind /\ Taken \in InboxEntries
<1>1. PICK n \in Nat : n = stats.processed + 1
  BY StatisticsTyped
<1> QED
  BY <1>1, RestOfBatch

\* A line that writes nothing is no tick, or one whose key was written before.
LEMMA NothingWritten ==
  ASSUME SenderInv, ReceiverInv, JournalInv, Refuses \/ SkipsBeat \/ RefusesDuplicate
  PROVE  JournalInv'
<1>1. PICK kind : /\ Taking(kind)
                  /\ kind # "tick" \/ (kind = "tick" /\ Remembers(writer.seen, KeyOf(Taken)))
  <2>1. CASE Refuses
    <3>1. PICK kind \in {"junk", "foreign"} : Taking(kind)
      BY <2>1 DEF Refuses
    <3> QED
      BY <3>1
  <2>2. CASE SkipsBeat
    BY <2>2 DEF SkipsBeat
  <2>3. CASE RefusesDuplicate
    BY <2>3 DEF RefusesDuplicate
  <2> QED
    BY <2>1, <2>2, <2>3
<1>2. UNCHANGED <<inbox, ticks, log, unread>> /\ writer' = Rest(writer)
  BY DEF Refuses, SkipsBeat, RefusesDuplicate, Taking
<1>3. /\ writer'.on /\ writer'.tail = writer.tail
      /\ writer'.seen = writer.seen /\ writer'.batch = Tail(writer.batch)
      /\ Head(writer.batch) \in DOMAIN inbox /\ Taken.kind = kind
  BY <1>1, <1>2, TakenIsAtHand, RestIsNext
<1>4. NamedIsLogged' /\ SeenIsWritten'
  BY <1>2, <1>3 DEF JournalInv, NamedIsLogged, Named, IsTick, SeenIsWritten
<1>5. ASSUME NEW k \in DOMAIN inbox, Named(k), Waits(k)
      PROVE  Waits(k)' \/ Journaled(k)
  <2>1. CASE k # Head(writer.batch)
    BY <1>1, <1>2, <1>3, <1>5, <2>1, TakenIsAtHand, OthersWaitOn
  <2>2. CASE k = Head(writer.batch)
    <3>1. Taken = inbox[k] /\ kind = "tick" /\ Remembers(writer.seen, KeyOf(inbox[k]))
      BY <1>1, <1>3, <1>5, <2>2 DEF Taken, Named, IsTick
    <3>2. PICK i \in 1..Len(writer.seen) : writer.seen[i] = KeyOf(inbox[k])
      BY <3>1 DEF Remembers
    <3>3. PICK m \in DOMAIN ticks : KeyOf(inbox[ticks[m]]) = KeyOf(inbox[k])
      BY <3>2 DEF JournalInv, SeenIsWritten
    <3>4. ticks[m] \in DOMAIN inbox /\ IsTick(ticks[m])
      BY DEF JournalInv
    <3>5. inbox[k].line = inbox[ticks[m]].line
      BY <1>5, <3>3, <3>4, SameKeySameLine
    <3> QED
      BY <3>5 DEF Journaled
  <2> QED
    BY <2>1, <2>2
<1> QED
  BY <1>2, <1>4, <1>5, QuietJournal

LEMMA TickWritten ==
  ASSUME SenderInv, ReceiverInv, JournalInv, WritesTick
  PROVE  JournalInv'
<1>1. AtHand("tick")
  BY TakenIsAtHand DEF WritesTick
<1>2. PICK h : h = Head(writer.batch)
  OBVIOUS
<1>3. ticks' = Append(ticks, h) /\ UNCHANGED <<inbox, log, unread>>
  BY <1>2 DEF WritesTick, Taking
<1>4. writer'.seen = Remember(writer.seen, KeyOf(Taken), EffectiveWindow(InboxWindow))
  BY WritesTickCounts
<1>5. /\ Rest(writer).on /\ Rest(writer).tail = writer.tail
      /\ Rest(writer).batch = Tail(writer.batch)
      /\ h \in DOMAIN inbox /\ Taken.kind = "tick" /\ Taken \in InboxEntries /\ Taken = inbox[h]
  BY <1>1, <1>2, RestIsNext DEF Taken
<1>6. writer'.on = Rest(writer).on /\ writer'.tail = Rest(writer).tail
      /\ writer'.batch = Rest(writer).batch
  <2>1. Rest(writer) \in WriterStates
    <3>1. PICK n \in Nat : n = stats.processed + 1
      BY StatisticsTyped
    <3> QED
      BY <1>1, <3>1, RestOfBatch
  <2>2. PICK r, s : r = Rest(writer)
                    /\ s = Remember(Rest(writer).seen, KeyOf(Taken), EffectiveWindow(InboxWindow))
    OBVIOUS
  <2>3. writer' = [r EXCEPT !.seen = s]
    BY <2>2 DEF WritesTick
  <2> QED
    BY <2>1, <2>2, <2>3 DEF WriterStates
<1>7. ticks \in Seq(Nat) /\ h \in Nat
  BY <1>5 DEF JournalInv, ReceiverInv
<1>8. /\ ticks' \in Seq(Nat) /\ DOMAIN ticks' = DOMAIN ticks \cup {Len(ticks) + 1}
      /\ ticks'[Len(ticks) + 1] = h /\ \A m \in DOMAIN ticks : ticks'[m] = ticks[m]
  BY <1>3, <1>7
<1>9. \A m \in DOMAIN ticks' : ticks'[m] \in DOMAIN inbox' /\ inbox'[ticks'[m]].kind = "tick"
  BY <1>3, <1>5, <1>8 DEF JournalInv, IsTick
<1>10. NamedIsLogged'
  BY <1>3 DEF JournalInv, NamedIsLogged, Named, IsTick
<1>11. SeenIsWritten'
  <2>1. writer.seen \in Seq(InboxKeys) /\ KeyOf(Taken) \in InboxKeys
    BY <1>5, KeyType DEF ReceiverInv, WriterStates
  <2>2. ASSUME NEW i \in 1..Len(writer'.seen)
        PROVE  \E m \in DOMAIN ticks' : KeyOf(inbox[ticks'[m]]) = writer'.seen[i]
    <3>1. CASE writer'.seen[i] = KeyOf(Taken)
      BY <1>5, <1>8, <3>1
    <3>2. \/ writer'.seen[i] = KeyOf(Taken)
          \/ \E j \in 1..Len(writer.seen) : writer'.seen[i] = writer.seen[j]
      <4>1. PICK s, w, key : s = writer.seen /\ w = EffectiveWindow(InboxWindow) /\ key = KeyOf(Taken)
        OBVIOUS
      <4>2. s \in Seq(InboxKeys) /\ w \in Nat \ {0} /\ key \in InboxKeys
        BY <2>1, <4>1, WindowIsPositive
      <4>3. writer'.seen = Remember(s, key, w) /\ i \in 1..Len(Remember(s, key, w))
        BY <1>4, <4>1
      <4> QED
        BY <4>1, <4>2, <4>3, KeysRemembered
    <3>3. CASE \E j \in 1..Len(writer.seen) : writer'.seen[i] = writer.seen[j]
      <4>1. PICK j \in 1..Len(writer.seen) : writer'.seen[i] = writer.seen[j]
        BY <3>3
      <4>2. PICK m \in DOMAIN ticks : KeyOf(inbox[ticks[m]]) = writer.seen[j]
        BY DEF JournalInv, SeenIsWritten
      <4> QED
        BY <1>8, <4>1, <4>2
    <3> QED
      BY <3>1, <3>2, <3>3
  <2> QED
    BY <1>3, <2>2 DEF SeenIsWritten, KeyOf
<1>12. ASSUME NEW k \in DOMAIN inbox, Named(k)
       PROVE  Waits(k)' \/ Journaled(k)'
  <2>1. CASE k = h
    BY <1>3, <1>8, <2>1 DEF Journaled
  <2>2. CASE Journaled(k)
    BY <1>3, <1>8, <2>2 DEF Journaled
  <2>3. CASE k # h /\ Waits(k)
    BY <1>1, <1>2, <1>3, <1>5, <1>6, <2>3, OthersWaitOn
  <2> QED
    BY <1>12, <2>1, <2>2, <2>3 DEF JournalInv
<1>13. \A k \in DOMAIN inbox' : Named(k)' => k \in DOMAIN inbox /\ Named(k)
  BY <1>3 DEF Named, IsTick
<1> QED
  BY <1>3, <1>8, <1>9, <1>10, <1>11, <1>12, <1>13 DEF JournalInv, IsTick

\* A tick that does not read back is in the journal all the same, or its place is one
\* that no journal is promised for; the window does not know it.
LEMMA TickMisread ==
  ASSUME SenderInv, ReceiverInv, JournalInv, MisreadsTick
  PROVE  JournalInv'
<1>1. AtHand("tick") /\ UNCHANGED <<inbox, log>> /\ writer' = Rest(writer)
  BY DEF MisreadsTick
<1>2. PICK h : h = Head(writer.batch)
  OBVIOUS
<1>3. /\ writer'.on /\ writer'.tail = writer.tail
      /\ writer'.seen = writer.seen /\ writer'.batch = Tail(writer.batch)
      /\ h \in DOMAIN inbox /\ inbox[h].kind = "tick"
  BY <1>1, <1>2, RestIsNext DEF Taken
<1>4. ticks \in Seq(Nat) /\ h \in Nat
  BY <1>3 DEF JournalInv, ReceiverInv
<1>5. \/ ticks' = Append(ticks, h) /\ unread' = unread
      \/ ticks' = ticks /\ unread' = unread \cup {h}
  BY <1>2 DEF MisreadsTick
<1>6. /\ ticks' \in Seq(Nat)
      /\ \A m \in DOMAIN ticks : m \in DOMAIN ticks' /\ ticks'[m] = ticks[m]
      /\ \A m \in DOMAIN ticks' : m \in DOMAIN ticks \/ ticks'[m] = h
      /\ unread \subseteq unread'
      /\ h \in unread' \/ \E m \in DOMAIN ticks' : ticks'[m] = h
  BY <1>4, <1>5
<1>7. \A m \in DOMAIN ticks' : ticks'[m] \in DOMAIN inbox' /\ inbox'[ticks'[m]].kind = "tick"
  BY <1>1, <1>3, <1>6 DEF JournalInv, IsTick
<1>8. NamedIsLogged'
  BY <1>1 DEF JournalInv, NamedIsLogged, Named, IsTick
<1>9. SeenIsWritten'
  <2>1. ASSUME NEW i \in 1..Len(writer.seen)
        PROVE  \E m \in DOMAIN ticks' : KeyOf(inbox[ticks'[m]]) = writer.seen[i]
    BY <1>6 DEF JournalInv, SeenIsWritten
  <2> QED
    BY <1>1, <1>3, <2>1 DEF SeenIsWritten, KeyOf
<1>10. ASSUME NEW k \in DOMAIN inbox, Named(k)
       PROVE  Waits(k)' \/ Journaled(k)'
  <2>1. CASE k = h
    BY <1>1, <1>6, <2>1 DEF Waits, Journaled
  <2>2. CASE Journaled(k)
    BY <1>1, <1>6, <2>2 DEF Journaled
  <2>3. CASE k # h /\ Waits(k)
    BY <1>1, <1>2, <1>3, <1>6, <2>3, OthersWaitOn
  <2> QED
    BY <1>10, <2>1, <2>2, <2>3 DEF JournalInv
<1>11. \A k \in DOMAIN inbox' : Named(k)' => k \in DOMAIN inbox /\ Named(k)
  BY <1>1 DEF Named, IsTick
<1> QED
  BY <1>6, <1>7, <1>8, <1>9, <1>10, <1>11 DEF JournalInv, IsTick

LEMMA TickDeposited ==
  ASSUME SenderInv, ReceiverInv, JournalInv, Deposit
  PROVE  JournalInv'
<1>1. PICK n \in Nat : n = Len(inbox) + 1
  BY DEF ReceiverInv
<1>2. /\ DOMAIN inbox' = DOMAIN inbox \cup {n} /\ inbox'[n] \in InboxLines
      /\ \A k \in DOMAIN inbox : inbox'[k] = inbox[k]
  BY <1>1, DepositCounts
<1>3. UNCHANGED <<writer, ticks, log>>
  BY DEF Deposit
<1>4. /\ \A k \in DOMAIN inbox : Named(k)' <=> Named(k)
      /\ \A k \in DOMAIN inbox : IsTick(k)' <=> IsTick(k)
  BY <1>2 DEF Named, IsTick
<1>5. Named(n)' => \E j \in DOMAIN log :
                      /\ inbox'[n].session = log[j].session /\ inbox'[n].seq = log[j].seq
                      /\ inbox'[n].line = log[j].line
  BY <1>2, DepositedLines DEF Named, IsTick
<1>6. NamedIsLogged'
  BY <1>2, <1>3, <1>4, <1>5 DEF JournalInv, NamedIsLogged
<1>7. \A m \in DOMAIN ticks : ticks[m] \in DOMAIN inbox
  BY DEF JournalInv
<1>8. SeenIsWritten'
  <2>1. \A m \in DOMAIN ticks : inbox'[ticks[m]] = inbox[ticks[m]]
    BY <1>2, <1>7
  <2>2. \A m \in DOMAIN ticks : KeyOf(inbox'[ticks[m]]) = KeyOf(inbox[ticks[m]])
    BY <2>1
  <2>3. SeenIsWritten
    BY DEF JournalInv
  <2> QED
    BY <1>3, <2>2, <2>3 DEF SeenIsWritten
<1>9. ASSUME NEW k \in DOMAIN inbox, Named(k)
      PROVE  Waits(k)' \/ Journaled(k)'
  <2>1. CASE Waits(k)
    <3>1. unread \subseteq unread'
      BY DEF Deposit
    <3> QED
      BY <1>3, <2>1, <3>1 DEF Waits, Coming
  <2>2. CASE Journaled(k)
    BY <1>2, <1>3, <1>7, <2>2 DEF Journaled
  <2> QED
    BY <1>9, <2>1, <2>2 DEF JournalInv
<1>10. Waits(n)'
  <2>1. CASE writer.on
    <3>1. writer.tail.off <= Len(inbox) /\ writer.tail.off \in Nat
      BY DEF ReceiverInv, WriterStates, TailStates
    <3>2. n > writer.tail.off
      BY <1>1, <3>1 DEF ReceiverInv
    <3> QED
      BY <1>3, <2>1, <3>2 DEF Waits, Coming
  <2>2. CASE ~writer.on
    BY <1>1, <2>2 DEF Deposit, Waits
  <2> QED
    BY <2>1, <2>2
<1> QED
  BY <1>2, <1>3, <1>4, <1>6, <1>8, <1>9, <1>10 DEF JournalInv

\* A receiver that starts finds every place unread or journaled; from the start of the
\* file all of them come.
LEMMA JournalAtStart ==
  ASSUME SenderInv, ReceiverInv, JournalInv, WriterStarts
  PROVE  JournalInv'
<1>1. UNCHANGED <<inbox, ticks, log>> /\ ~writer.on
  BY DEF WriterStarts
<1>2. writer'.on /\ writer'.seen = << >> /\ writer'.tail.off = IF FromStart THEN 0 ELSE Len(inbox)
  BY WriterStartsCounts
<1>3. NamedIsLogged' /\ SeenIsWritten'
  BY <1>1, <1>2 DEF JournalInv, NamedIsLogged, Named, IsTick, SeenIsWritten
<1>4. ASSUME NEW k \in DOMAIN inbox, Waits(k)
      PROVE  Waits(k)'
  <2>1. CASE FromStart
    <3>1. k > 0
      BY DEF ReceiverInv
    <3> QED
      BY <1>2, <2>1, <3>1 DEF Waits, Coming
  <2>2. CASE ~FromStart
    BY <1>1, <1>4, <2>2 DEF Waits, WriterStarts
  <2> QED
    BY <2>1, <2>2
<1> QED
  BY <1>1, <1>3, <1>4, QuietJournal

LEMMA JournalStep ==
  ASSUME SenderInv, ReceiverInv, JournalInv, [INext]_ivars
  PROVE  JournalInv'
<1>1. ASSUME UNCHANGED <<inbox, writer, ticks, unread>>
      PROVE  JournalInv'
  <2>1. NamedIsLogged'
    BY <1>1, LogGrows
  <2>2. SeenIsWritten' /\ \A k \in DOMAIN inbox : Waits(k) => Waits(k)'
    BY <1>1 DEF JournalInv, SeenIsWritten, KeyOf, Waits, Coming
  <2> QED
    BY <1>1, <2>1, <2>2, QuietJournal
<1>2. ASSUME WriterPolls PROVE JournalInv'
  <2>1. UNCHANGED <<inbox, ticks, log, unread>>
    BY <1>2 DEF WriterPolls
  <2>2. /\ writer'.on /\ writer'.seen = writer.seen
        /\ \A k \in DOMAIN inbox : Coming(k) => \E m \in DOMAIN writer'.batch : writer'.batch[m] = k
    BY <1>2, WriterPollsCounts
  <2>3. NamedIsLogged' /\ SeenIsWritten'
    BY <2>1, <2>2 DEF JournalInv, NamedIsLogged, Named, IsTick, SeenIsWritten, KeyOf
  <2>4. \A k \in DOMAIN inbox : Waits(k) => Waits(k)'
    BY <2>1, <2>2 DEF Waits, Coming
  <2> QED
    BY <2>1, <2>3, <2>4, QuietJournal
<1>3. ASSUME WriterTold PROVE JournalInv'
  <2>1. UNCHANGED <<inbox, ticks, log, unread>>
    BY <1>3 DEF WriterTold
  <2>2. /\ writer'.seen = writer.seen /\ writer'.on = writer.on
        /\ writer'.tail = writer.tail /\ writer'.batch = writer.batch
    BY <1>3, WriterToldCounts
  <2>3. NamedIsLogged' /\ SeenIsWritten'
    BY <2>1, <2>2 DEF JournalInv, NamedIsLogged, Named, IsTick, SeenIsWritten, KeyOf
  <2>4. \A k \in DOMAIN inbox : Waits(k) => Waits(k)'
    BY <2>1, <2>2 DEF Waits, Coming
  <2> QED
    BY <2>1, <2>3, <2>4, QuietJournal
<1>4. ASSUME WriterEnds PROVE JournalInv'
  <2>1. UNCHANGED <<inbox, ticks, log>> /\ unread' = unread \cup Left
    BY <1>4 DEF WriterEnds
  <2>2. writer'.seen = writer.seen /\ \A k \in DOMAIN inbox : Coming(k) => k \in unread'
    BY <1>4, WriterEndsCounts
  <2>3. NamedIsLogged' /\ SeenIsWritten'
    BY <2>1, <2>2 DEF JournalInv, NamedIsLogged, Named, IsTick, SeenIsWritten, KeyOf
  <2>4. \A k \in DOMAIN inbox : Waits(k) => Waits(k)'
    BY <2>1, <2>2 DEF Waits
  <2> QED
    BY <2>1, <2>3, <2>4, QuietJournal
<1>5. CASE INext
  BY <1>1, <1>2, <1>3, <1>4, <1>5, TickDeposited, JournalAtStart, NothingWritten, TickWritten,
     TickMisread
     DEF INext, NewTick, ReaderStarts, ReaderPolls, ReaderTakes, ReaderTold, ReaderEnds
<1> QED
  BY <1>1, <1>5 DEF ivars

\* A tick that names its session reaches the journal, unless it was written while no
\* receiver ran, one stopped before it, or one found the journal replaced when it read the
\* line back (receiver/runtime.py with writer.py and dedupe.py): a window of any length, a sender that starts over, and an inbox that repeats and shuffles lines
\* never let a key stand for another line.
THEOREM TickIsJournaledHolds == AppsSpec => []TickIsJournaled
<1>1. AppsInit => SenderInv /\ ReceiverInv /\ JournalInv
  BY SenderInit, ReceiverInit, JournalInit DEF AppsInit
<1>2. SenderInv /\ ReceiverInv /\ JournalInv /\ [AppsNext]_avars
        => SenderInv' /\ ReceiverInv' /\ JournalInv'
  BY SenderStep, ReceiverStep, JournalStep DEF AppsNext, OverHttp, OverFiles, avars
<1>3. JournalInv => TickIsJournaled
  BY DEF JournalInv, TickIsJournaled, Named, IsTick, Waits, Journaled
<1> QED
  BY <1>1, <1>2, <1>3, PTL DEF AppsSpec
=============================================================================
