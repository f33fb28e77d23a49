---------------------------- MODULE BridgeProofs ----------------------------
(***************************************************************************)
(* Theorems about BridgeTransport, for every window, retry count, fault set *)
(* and bound.                                                              *)
(***************************************************************************)
EXTENDS BridgeTransport, SequenceTheorems, FiniteSetTheorems, TLAPS

W == EffectiveWindow(Window)

LEMMA WindowPositive == W \in Nat \ {0}
  BY BoundAssumption, SMT DEF W, EffectiveWindow

(* What the duplicate window does.                                         *)

\* Eviction keeps the newest keys, at most w of them.
LEMMA EvictKeepsNewest ==
  ASSUME NEW S, NEW s \in Seq(S), NEW w \in Nat \ {0}
  PROVE  /\ Evict(s, w) \in Seq(S)
         /\ Len(Evict(s, w)) = (IF Len(s) > w THEN w ELSE Len(s))
         /\ \A i \in 1..Len(Evict(s, w)) :
              Evict(s, w)[i] = s[Len(s) - Len(Evict(s, w)) + i]
<1>1. CASE Len(s) > w
  <2>1. Evict(s, w) = SubSeq(s, Len(s) - w + 1, Len(s))
    BY <1>1 DEF Evict
  <2>2. /\ Len(s) - w + 1 \in 1..(Len(s) + 1)
        /\ Len(s) \in (Len(s) - w + 1 - 1)..Len(s)
    BY <1>1
  <2>3. Len(s) - (Len(s) - w + 1) + 1 = w /\ Len(s) \in Nat
    BY <1>1
  <2>4. /\ SubSeq(s, Len(s) - w + 1, Len(s)) \in Seq(S)
        /\ Len(SubSeq(s, Len(s) - w + 1, Len(s))) = w
        /\ \A i \in 1..w : SubSeq(s, Len(s) - w + 1, Len(s))[i] = s[Len(s) - w + 1 + i - 1]
    BY <1>1, <2>2, <2>3
  <2> QED
    BY <1>1, <2>1, <2>3, <2>4
<1>2. CASE ~(Len(s) > w)
  BY <1>2 DEF Evict
<1> QED
  BY <1>1, <1>2

(* Types.                                                                  *)

LEMMA PolledLinesType ==
  ASSUME NEW t \in [id : Nat, off : Nat],
         NEW f \in [present : BOOLEAN, id : Nat, base : Nat, size : Nat]
  PROVE  /\ PolledLines(t, f) \in Seq(Nat)
         /\ TailAfterPoll(t, f) \in [id : Nat, off : Nat]
<1>1. TailAfterPoll(t, f) \in [id : Nat, off : Nat]
  BY DEF TailAfterPoll, NoId
<1>2. CASE ~f.present \/ Replaced(t, f)
  BY <1>1, <1>2 DEF PolledLines
<1>3. CASE ~(~f.present \/ Replaced(t, f))
  <2> DEFINE n == f.size - ReadFrom(t, f)
  <2>1. n \in Nat
    BY DEF ReadFrom
  <2>2. \A i \in 1..n : f.base + ReadFrom(t, f) + i \in Nat
    BY DEF ReadFrom
  <2>3. [i \in 1..n |-> f.base + ReadFrom(t, f) + i] \in Seq(Nat)
    <3> HIDE DEF n
    <3> QED BY <2>1, <2>2
  <2> QED
    BY <1>1, <1>3, <2>3 DEF PolledLines, Lines
<1> QED
  BY <1>2, <1>3

LEMMA MetricsType ==
  ASSUME NEW m \in Metrics!Counters, NEW key \in Keys
  PROVE  /\ Metrics!RecordReceived(m, key) \in Metrics!Counters
         /\ Metrics!RecordDuplicate(m) \in Metrics!Counters
         /\ Metrics!RecordMalformed(m) \in Metrics!Counters
<1>1. key.ch \in Channels /\ key.seq \in Nat /\ key.sess \in Nat
  BY DEF Keys
<1>2. Metrics!Expected(m, key) \in Nat
  BY <1>1 DEF Metrics!Expected, Metrics!Unset, Metrics!Counters
<1>3. Metrics!Gap(m, key) \in Nat
  BY <1>1, <1>2 DEF Metrics!Gap, Metrics!Unset
<1>4. Metrics!NextExpected(m, key) \in Nat
  BY <1>1, <1>2 DEF Metrics!NextExpected
<1>5. /\ m.dropped + Metrics!Gap(m, key) \in Nat
      /\ m.received[key.ch] + 1 \in Nat
      /\ m.dropped + 1 \in Nat /\ m.malformed + 1 \in Nat /\ m.duplicate + 1 \in Nat
  BY <1>1, <1>3 DEF Metrics!Counters
<1>6. Metrics!RecordReceived(m, key) \in Metrics!Counters
  BY <1>1, <1>4, <1>5 DEF Metrics!RecordReceived, Metrics!Counters
<1>7. Metrics!RecordDuplicate(m) \in Metrics!Counters
  BY <1>5 DEF Metrics!RecordDuplicate, Metrics!Counters
<1>8. Metrics!RecordMalformed(m) \in Metrics!Counters
  BY <1>5 DEF Metrics!RecordMalformed, Metrics!Counters
<1> QED
  BY <1>6, <1>7, <1>8

LEMMA ArmTailType ==
  ASSUME NEW f \in [present : BOOLEAN, id : Nat, base : Nat, size : Nat]
  PROVE  ArmTail(f, FromEof) \in [id : Nat, off : Nat]
  BY DEF ArmTail, NoId

LEMMA RememberType ==
  ASSUME NEW s \in Seq(Keys), NEW key \in Keys
  PROVE  Remember(s, key, EffectiveWindow(Window)) \in Seq(Keys)
<1>1. Append(s, key) \in Seq(Keys)
  OBVIOUS
<1> QED
  BY <1>1, WindowPositive, EvictKeepsNewest DEF Remember, W

LEMMA InitType == Init => TypeOK
<1> SUFFICES ASSUME Init PROVE TypeOK
  OBVIOUS
<1>1. metrics \in Metrics!Counters
  BY DEF Init, Metrics!ZeroMetrics, Metrics!Counters, Metrics!Unset
<1>2. journal \in [Channels -> Seq(Envelopes)]
  BY DEF Init
<1>3. /\ file \in [Channels -> [present : BOOLEAN, id : Nat, base : Nat, size : Nat]]
      /\ tail \in [Channels -> [id : Nat, off : Nat]]
  BY DEF Init, NoId
<1>4. /\ produced \in [Channels -> Nat] /\ seq \in [Channels -> Nat]
      /\ sent \in [Channels -> Nat]
  BY DEF Init
<1>5. /\ batch \in Seq(Nat) /\ wlog \in Seq(Keys) /\ seen \in Seq(Keys)
      /\ unproven \subseteq [key : Keys, after : Nat] /\ refused \subseteq Envelopes
  BY DEF Init
<1> QED
  BY <1>1, <1>2, <1>3, <1>4, <1>5 DEF Init, TypeOK

(* Types along the steps of the producer and the sender.                   *)

LEMMA ProducerType ==
  ASSUME TypeOK, NEW c \in Channels, AppendLine(c) \/ RemoveFile(c)
  PROVE  TypeOK'
<1>1. CASE AppendLine(c)
  <2>1. produced[c] \in Nat /\ produced[c] + 1 \in Nat /\ file[c].size + 1 \in Nat
    BY DEF TypeOK
  <2>2. produced' \in [Channels -> Nat]
    BY <1>1, <2>1 DEF TypeOK, AppendLine
  <2>3. file' \in [Channels -> [present : BOOLEAN, id : Nat, base : Nat, size : Nat]]
    <3>1. CASE file' = [file EXCEPT ![c].size = @ + 1]
      BY <2>1, <3>1 DEF TypeOK
    <3>2. CASE \E i \in 1..FileBound :
                 file' = [file EXCEPT ![c] = [present |-> TRUE, id |-> i,
                                              base |-> produced[c], size |-> 1]]
      BY <2>1, <3>2, BoundAssumption DEF TypeOK
    <3> QED
      BY <1>1, <3>1, <3>2 DEF AppendLine
  <2> QED
    BY <1>1, <2>2, <2>3 DEF TypeOK, AppendLine, senderVars, receiverVars
<1>2. CASE RemoveFile(c)
  <2>1. file' \in [Channels -> [present : BOOLEAN, id : Nat, base : Nat, size : Nat]]
    BY <1>2 DEF TypeOK, RemoveFile
  <2> QED
    BY <1>2, <2>1 DEF TypeOK, RemoveFile, senderVars, receiverVars
<1> QED
  BY <1>1, <1>2

LEMMA PollType ==
  ASSUME TypeOK, NEW c \in Channels, Poll(c)
  PROVE  phase' \in Channels /\ batch' \in Seq(Nat) /\ tail' \in [Channels -> [id : Nat, off : Nat]]
<1>1. /\ tail[c] \in [id : Nat, off : Nat]
      /\ file[c] \in [present : BOOLEAN, id : Nat, base : Nat, size : Nat]
  BY DEF TypeOK
<1>2. /\ PolledLines(tail[c], file[c]) \in Seq(Nat)
      /\ TailAfterPoll(tail[c], file[c]) \in [id : Nat, off : Nat]
  BY <1>1, PolledLinesType
<1> QED
  BY <1>2 DEF Poll, TypeOK

LEMMA LoopType ==
  ASSUME TypeOK, SenderLoop
  PROVE  TypeOK'
<1> USE DEF sourceVars, receiverVars
<1>1. CASE PollTicks
  BY <1>1, PollType DEF PollTicks, TypeOK, Channels
<1>2. CASE SenderExit
  BY <1>2 DEF SenderExit, TypeOK
<1>3. CASE EndTicks
  BY <1>3, PollType DEF EndTicks, TypeOK, Channels
<1>4. CASE EndDom
  <2>1. phase' = "idle" /\ batch' \in Seq(Nat)
    BY <1>4 DEF EndDom
  <2>2. UNCHANGED <<tail, stop, session, seq, send, sent, failures, acked, abandoned,
                    file, produced, net, rstate, lives, journal, wlog, unproven, refused, seen, metrics>>
    BY <1>4 DEF EndDom
  <2> QED
    BY <2>1, <2>2 DEF TypeOK
<1>5. ASSUME InLoop
      PROVE  phase \in Channels /\ Head(batch) \in Nat /\ Tail(batch) \in Seq(Nat)
  BY <1>5 DEF InLoop, LoopLeft, TypeOK
<1>6. CASE SkipMalformed
  BY <1>5, <1>6 DEF SkipMalformed, TypeOK
<1>7. CASE PostLine
  <2>1. phase \in Channels /\ Head(batch) \in Nat /\ Tail(batch) \in Seq(Nat)
    BY <1>5, <1>7 DEF PostLine
  <2>2. seq[phase] + 1 \in Nat /\ session \in Nat
    BY <2>1 DEF TypeOK
  <2>3. NextEnvelope \in Envelopes
    BY <2>1, <2>2 DEF NextEnvelope, Envelopes, Keys
  <2> DEFINE req == [env |-> NextEnvelope, attempt |-> 1]
  <2>4. req \in Requests
    BY <2>3 DEF Requests
  <2>5. send' \in Sends /\ net' \subseteq Requests
    BY <1>7, <2>4 DEF PostLine, Post, Sends, Statuses, Reaches, TypeOK
  <2>6. seq' \in [Channels -> Nat]
    BY <1>7, <2>1, <2>2 DEF PostLine, TypeOK
  <2> QED
    BY <1>7, <2>1, <2>5, <2>6 DEF PostLine, TypeOK
<1> QED
  BY <1>1, <1>2, <1>3, <1>4, <1>6, <1>7 DEF SenderLoop

LEMMA AttemptType ==
  ASSUME TypeOK, AttemptEnds
  PROVE  TypeOK'
<1> USE DEF sourceVars, receiverVars
<1>1. send \in Sends /\ send.req \in Requests /\ send.req.env \in Envelopes
      /\ send.req.env.key.ch \in Channels /\ send.req.attempt \in Nat
  BY DEF AttemptEnds, SendSucceeds, AttemptFails, SendFails, TypeOK, Sends, Requests,
         Envelopes, Keys
<1>2. GivenUp(send.req) \subseteq Requests
  BY DEF GivenUp, TypeOK
<1>3. CASE SendSucceeds
  <2> DEFINE c == send.req.env.key.ch
  <2>1. c \in Channels /\ sent \in [Channels -> Nat] /\ sent' = [sent EXCEPT ![c] = @ + 1]
    BY <1>1, <1>3 DEF SendSucceeds, TypeOK
  <2>2. sent' \in [Channels -> Nat]
    <3> HIDE DEF c
    <3> QED BY <2>1
  <2> QED
    BY <1>1, <1>3, <2>2 DEF SendSucceeds, TypeOK
<1>4. CASE AttemptFails
  <2>1. send.req.attempt + 1 \in Nat
    BY <1>1
  <2>2. NextAttempt(send.req) \in Requests
    BY <1>1, <2>1 DEF NextAttempt, Requests
  <2>3. send' \in Sends /\ net' \subseteq Requests
    BY <1>2, <1>4, <2>2 DEF AttemptFails, Sends, Statuses, Reaches
  <2> QED
    BY <1>4, <2>3 DEF AttemptFails, TypeOK
<1>5. CASE SendFails
  <2>1. failures' \in Nat
    BY <1>5 DEF SendFails, TypeOK, FailuresAfterGivingUp
  <2> QED
    BY <1>1, <1>2, <1>5, <2>1 DEF SendFails, TypeOK
<1> QED
  BY <1>3, <1>4, <1>5 DEF AttemptEnds

LEMMA SenderLifecycleType ==
  ASSUME TypeOK, SenderLifecycle
  PROVE  TypeOK'
<1> USE DEF sourceVars, receiverVars
<1>1. CASE SenderStart
  <2>1. \A c \in Channels : ArmTail(file[c], FromEof) \in [id : Nat, off : Nat]
    BY ArmTailType DEF TypeOK
  <2>2. tail' \in [Channels -> [id : Nat, off : Nat]] /\ session' \in Nat
    BY <1>1, <2>1 DEF SenderStart, NextSession, TypeOK
  <2> QED
    BY <1>1, <2>2 DEF SenderStart, TypeOK
<1>2. CASE SenderStop
  BY <1>2 DEF SenderStop, TypeOK
<1>3. CASE SenderKilled
  <2>1. abandoned' \subseteq Envelopes
    BY <1>3 DEF SenderKilled, TypeOK, Sends, Requests
  <2> QED
    BY <1>3, <2>1 DEF SenderKilled, TypeOK
<1> QED
  BY <1>1, <1>2, <1>3 DEF SenderLifecycle

\* What every answer of the receiver has in common.
LEMMA AcceptFrame ==
  ASSUME NEW req, Accept(req)
  PROVE  /\ rstate # "down" /\ net' = net \ {req}
         /\ UNCHANGED <<tail, phase, batch, stop, session, seq, sent, failures, acked,
                        abandoned, produced, file, rstate, lives>>
         /\ \E st \in Statuses : Respond(req, st)
<1>1. Handling(req)
  BY DEF Accept, RefuseStopped, AcceptReject, AcceptDuplicate, ToWrite, AcceptNew,
         AcceptIoError, AcceptUnread, AcceptMismatch, AcceptSwapped
<1>2. Respond(req, "ok") \/ Respond(req, "error")
  BY DEF Accept, RefuseStopped, AcceptReject, AcceptDuplicate, AcceptNew,
         AcceptIoError, AcceptUnread, AcceptMismatch, AcceptSwapped
<1> QED
  BY <1>1, <1>2 DEF Handling, Statuses, sourceVars

(* Types along the steps of the receiver.                                  *)

LEMMA ReceiverLifecycleType ==
  ASSUME TypeOK, ReceiverLifecycle
  PROVE  TypeOK'
<1> USE DEF sourceVars, senderVars
<1>1. CASE ReceiverStart
  <2>1. metrics' \in Metrics!Counters
    BY <1>1 DEF ReceiverStart, Metrics!ZeroMetrics, Metrics!Counters, Metrics!Unset
  <2> QED
    BY <1>1, <2>1 DEF ReceiverStart, TypeOK
<1>2. CASE ReceiverStop
  BY <1>2 DEF ReceiverStop, TypeOK
<1>3. CASE ReceiverExit
  BY <1>3 DEF ReceiverExit, TypeOK
<1> QED
  BY <1>1, <1>2, <1>3 DEF ReceiverLifecycle

LEMMA AcceptType ==
  ASSUME TypeOK, NEW req \in net, Accept(req)
  PROVE  TypeOK'
<1>1. /\ req \in Requests /\ req.env \in Envelopes /\ req.env.key \in Keys
      /\ req.env.key.ch \in Channels
  BY DEF TypeOK, Requests, Envelopes, Keys
<1>2. send' \in Sends \cup {NoSend}
  BY AcceptFrame DEF Respond, TypeOK, Sends
<1>3. ASSUME AppendToJournal(req.env)
      PROVE  journal' \in [Channels -> Seq(Envelopes)]
  <2>1. Append(journal[req.env.key.ch], req.env) \in Seq(Envelopes)
    BY <1>1 DEF TypeOK
  <2> QED
    BY <1>1, <1>3, <2>1 DEF AppendToJournal, TypeOK
<1>4. /\ Metrics!RecordReceived(metrics, req.env.key) \in Metrics!Counters
      /\ Metrics!RecordDuplicate(metrics) \in Metrics!Counters
      /\ Metrics!RecordMalformed(metrics) \in Metrics!Counters
  BY <1>1, MetricsType DEF TypeOK
<1>5. SeenAfterWrite(req.env.key) \in Seq(Keys)
  BY <1>1, RememberType DEF SeenAfterWrite, TypeOK
<1>6. /\ refused \cup {req.env} \subseteq Envelopes
      /\ Unproven(req.env.key) \subseteq [key : Keys, after : Nat]
  <2>1. Len(wlog) \in Nat
    BY DEF TypeOK
  <2> QED
    BY <1>1, <2>1 DEF Unproven, TypeOK
<1>7. ASSUME /\ UNCHANGED <<wlog, seen>> \/ (wlog' \in Seq(Keys) /\ seen' \in Seq(Keys))
             /\ unproven' = unproven \/ unproven' = Unproven(req.env.key)
             /\ refused' = refused \/ refused' = refused \cup {req.env}
             /\ journal' = journal \/ AppendToJournal(req.env)
             /\ metrics' = metrics \/ metrics' \in Metrics!Counters
      PROVE  TypeOK'
  <2>1. journal' \in [Channels -> Seq(Envelopes)]
    BY <1>3, <1>7 DEF TypeOK
  <2>2. /\ unproven' \subseteq [key : Keys, after : Nat] /\ refused' \subseteq Envelopes
        /\ metrics' \in Metrics!Counters /\ wlog' \in Seq(Keys) /\ seen' \in Seq(Keys)
    BY <1>6, <1>7 DEF TypeOK
  <2> QED
    BY <1>2, <2>1, <2>2, AcceptFrame DEF TypeOK
<1>8. CASE RefuseStopped(req)
  BY <1>7, <1>8 DEF RefuseStopped
<1>9. CASE AcceptReject(req)
  BY <1>4, <1>7, <1>9 DEF AcceptReject
<1>10. CASE AcceptDuplicate(req)
  BY <1>4, <1>7, <1>10 DEF AcceptDuplicate
<1>11. CASE AcceptNew(req)
  <2>1. wlog' \in Seq(Keys)
    BY <1>1, <1>11 DEF AcceptNew, TypeOK
  <2> QED
    BY <1>4, <1>5, <1>7, <1>11, <2>1 DEF AcceptNew
<1>12. CASE AcceptIoError(req)
  BY <1>7, <1>12 DEF AcceptIoError, SeenAfterFailedWrite
<1>13. CASE AcceptUnread(req)
  BY <1>7, <1>13 DEF AcceptUnread
<1>14. CASE AcceptMismatch(req)
  BY <1>4, <1>7, <1>14 DEF AcceptMismatch
<1>15. CASE AcceptSwapped(req)
  BY <1>4, <1>7, <1>15 DEF AcceptSwapped
<1> QED
  BY <1>8, <1>9, <1>10, <1>11, <1>12, <1>13, <1>14, <1>15 DEF Accept

LEMMA StepType == TypeOK /\ [Next]_vars => TypeOK'
<1> SUFFICES ASSUME TypeOK, [Next]_vars PROVE TypeOK'
  OBVIOUS
<1>1. CASE UNCHANGED vars
  BY <1>1 DEF vars, sourceVars, senderVars, receiverVars, TypeOK
<1> QED
  BY <1>1, ProducerType, LoopType, AttemptType, SenderLifecycleType,
     ReceiverLifecycleType, AcceptType DEF Next, Producer

\* The state of the bridge always has its declared shape: in particular no
\* counter of the receiver ever goes negative, whatever arrives late.
THEOREM TypeCorrect == Spec => []TypeOK
<1> QED
  BY InitType, StepType, PTL DEF Spec

-----------------------------------------------------------------------------
(* The duplicate window and the distance of duplicates.                    *)

UnprovenBehind == \A x \in unproven : x.after <= Len(wlog)

WindowInv == TypeOK /\ WindowIsSuffix /\ DuplicateDistance /\ UnprovenBehind

\* Only an append or a new receiver process moves the window and its logs.
LEMMA WindowMoves ==
  ASSUME Next
  PROVE  \/ wlog' = <<>> /\ seen' = <<>> /\ unproven' = {}
         \/ UNCHANGED <<wlog, seen, unproven>>
         \/ \E req \in net : AcceptNew(req)
         \/ \E req \in net : /\ ToWrite(req) /\ UNCHANGED <<wlog, seen>>
                            /\ unproven' = Unproven(req.env.key)
<1> USE DEF receiverVars
<1>1. CASE Producer
  BY <1>1 DEF Producer, AppendLine, RemoveFile
<1>2. CASE SenderLoop
  BY <1>2 DEF SenderLoop, PollTicks, SenderExit, EndTicks, EndDom, SkipMalformed, PostLine
<1>3. CASE AttemptEnds
  BY <1>3 DEF AttemptEnds, SendSucceeds, AttemptFails, SendFails
<1>4. CASE SenderLifecycle
  BY <1>4 DEF SenderLifecycle, SenderStart, SenderStop, SenderKilled
<1>5. CASE ReceiverLifecycle
  BY <1>5 DEF ReceiverLifecycle, ReceiverStart, ReceiverStop, ReceiverExit
<1>6. ASSUME NEW req \in net, Accept(req)
      PROVE  \/ UNCHANGED <<wlog, seen, unproven>> \/ AcceptNew(req)
             \/ ToWrite(req) /\ UNCHANGED <<wlog, seen>> /\ unproven' = Unproven(req.env.key)
  BY <1>6 DEF Accept, RefuseStopped, AcceptReject, AcceptDuplicate, AcceptIoError, AcceptUnread,
              AcceptMismatch, AcceptSwapped, SeenAfterFailedWrite
<1> QED
  BY <1>1, <1>2, <1>3, <1>4, <1>5, <1>6 DEF Next

\* The last occurrence of a key that the window does not hold lies a window back.
LEMMA ForgottenIsFar ==
  ASSUME NEW S, NEW log \in Seq(S), NEW win \in Seq(S), NEW key \in S,
         NEW w \in Nat \ {0},
         NewestOf(win, log, w), ~Remembers(win, key),
         NEW p \in 1..Len(log), log[p] = key
  PROVE  Len(log) - p >= w
<1> DEFINE n == Len(log)
           m == Len(win)
<1>1. n \in Nat /\ m \in Nat /\ m = (IF n < w THEN n ELSE w)
  BY DEF NewestOf
<1>2. \A i \in 1..m : win[i] = log[n - m + i]
  BY DEF NewestOf
<1>3. \A i \in 1..m : win[i] # key
  BY DEF Remembers
<1>4. p \in 1..n
  OBVIOUS
<1> HIDE DEF n, m
<1>5. SUFFICES ASSUME p > n - m PROVE FALSE
  BY <1>1, <1>4 DEF n
<1> DEFINE i == p - (n - m)
<1>6. i \in 1..m /\ n - m + i = p
  BY <1>1, <1>4, <1>5
<1> QED
  BY <1>2, <1>3, <1>6

\* Remembering a key that the window does not hold keeps the window the newest
\* part of the log, and equal keys of the log far apart.
LEMMA RememberKeepsWindow ==
  ASSUME NEW S, NEW log \in Seq(S), NEW win \in Seq(S), NEW key \in S,
         NEW w \in Nat \ {0},
         NewestOf(win, log, w), FarApart(log, w), ~Remembers(win, key)
  PROVE  /\ NewestOf(Remember(win, key, w), Append(log, key), w)
         /\ FarApart(Append(log, key), w)
<1> DEFINE n == Len(log)
           m == Len(win)
           log1 == Append(log, key)
           win1 == Append(win, key)
           new == Evict(win1, w)
           k == Len(new)
<1>1. n \in Nat /\ m \in Nat /\ m = (IF n < w THEN n ELSE w)
  BY DEF NewestOf
<1>2. \A i \in 1..m : win[i] = log[n - m + i]
  BY DEF NewestOf
<1>3. \A i \in 1..m : win[i] # key
  BY DEF Remembers
<1>4. \A i, j \in 1..n : i < j /\ log[i] = log[j] => j - i > w
  BY DEF FarApart
<1>5. /\ log1 \in Seq(S) /\ Len(log1) = n + 1
      /\ \A i \in 1..n : log1[i] = log[i]
      /\ log1[n + 1] = key
  OBVIOUS
<1>6. /\ win1 \in Seq(S) /\ Len(win1) = m + 1
      /\ \A i \in 1..m : win1[i] = win[i]
      /\ win1[m + 1] = key
  OBVIOUS
<1>7. /\ k = (IF m + 1 > w THEN w ELSE m + 1)
      /\ \A i \in 1..k : new[i] = win1[(m + 1) - k + i]
  <2>1. /\ Len(Evict(win1, w)) = (IF Len(win1) > w THEN w ELSE Len(win1))
        /\ \A i \in 1..Len(Evict(win1, w)) :
             Evict(win1, w)[i] = win1[Len(win1) - Len(Evict(win1, w)) + i]
    <3> HIDE DEF win1
    <3> QED BY <1>6, EvictKeepsNewest
  <2> HIDE DEF win1
  <2> QED
    BY <1>6, <2>1
<1>8. new = Remember(win, key, w)
  BY DEF Remember
<1> HIDE DEF n, m, log1, win1, new, k
<1>9. k \in Nat /\ k = (IF n + 1 < w THEN n + 1 ELSE w)
  BY <1>1, <1>7
<1>10. \A i \in 1..k : new[i] = log1[(n + 1) - k + i]
  <2> SUFFICES ASSUME NEW i \in 1..k PROVE new[i] = log1[(n + 1) - k + i]
    OBVIOUS
  <2> DEFINE p == (m + 1) - k + i
  <2>1. p \in Nat /\ p = (m + 1) - k + i /\ p \in 1..(m + 1)
    BY <1>1, <1>7, <1>9
  <2> HIDE DEF p
  <2>2. new[i] = win1[p]
    BY <1>7, <2>1
  <2>3. CASE p = m + 1
    <3>1. (n + 1) - k + i = n + 1
      BY <1>1, <1>9, <2>1, <2>3
    <3> QED
      BY <1>5, <1>6, <2>2, <2>3, <3>1
  <2>4. CASE p # m + 1
    <3>1. p \in 1..m /\ n - m + p = (n + 1) - k + i /\ n - m + p \in 1..n
      BY <1>1, <1>9, <2>1, <2>4
    <3> QED
      BY <1>2, <1>5, <1>6, <2>2, <3>1
  <2> QED
    BY <2>3, <2>4
<1>11. \A i \in 1..n : log[i] = key => (n + 1) - i > w
  <2> SUFFICES ASSUME NEW i \in 1..n, log[i] = key PROVE (n + 1) - i > w
    OBVIOUS
  <2>1. n - i >= w
    BY ForgottenIsFar DEF n
  <2> QED
    BY <1>1, <2>1
<1>12. FarApart(log1, w)
  <2> SUFFICES ASSUME NEW i \in 1..(n + 1), NEW j \in 1..(n + 1),
                      i < j, log1[i] = log1[j]
               PROVE  j - i > w
    BY <1>5 DEF FarApart
  <2>1. CASE j = n + 1
    BY <1>1, <1>5, <1>11, <2>1
  <2>2. CASE j # n + 1
    <3>1. i \in 1..n /\ j \in 1..n
      BY <1>1, <2>2
    <3> QED BY <1>4, <1>5, <3>1
  <2> QED
    BY <2>1, <2>2
<1>13. NewestOf(new, log1, w)
  <2>1. Len(new) = k
    BY DEF k
  <2> QED
    BY <1>5, <1>9, <1>10, <2>1 DEF NewestOf
<1> QED
  BY <1>8, <1>12, <1>13 DEF log1

LEMMA NewWriteKeepsWindow ==
  ASSUME WindowInv, NEW req \in net, AcceptNew(req)
  PROVE  WindowIsSuffix' /\ DuplicateDistance' /\ UnprovenBehind'
<1>1. req.env.key \in Keys /\ wlog \in Seq(Keys) /\ seen \in Seq(Keys)
  BY DEF WindowInv, TypeOK, Requests, Envelopes
<1>2. /\ wlog' = Append(wlog, req.env.key)
      /\ seen' = Remember(seen, req.env.key, W)
      /\ ~Remembers(seen, req.env.key)
      /\ unproven' = unproven
  BY DEF AcceptNew, ToWrite, SeenAfterWrite, W, IsDuplicate
<1>3. NewestOf(seen, wlog, W) /\ FarApart(wlog, W)
  BY DEF WindowInv, WindowIsSuffix, DuplicateDistance, W
<1>4. NewestOf(seen', wlog', W) /\ FarApart(wlog', W)
  BY <1>1, <1>2, <1>3, WindowPositive, RememberKeepsWindow
<1>5. /\ Len(wlog) \in Nat /\ Len(wlog') = Len(wlog) + 1
      /\ \A p \in 1..Len(wlog) : wlog'[p] = wlog[p]
  BY <1>1, <1>2
<1>6. UnprovenBehind'
  BY <1>2, <1>5 DEF WindowInv, UnprovenBehind, TypeOK
<1>7. \A x \in unproven' : \A p \in 1..x.after : wlog'[p] = x.key => x.after - p >= W
  <2> SUFFICES ASSUME NEW x \in unproven, NEW p \in 1..x.after, wlog'[p] = x.key
               PROVE  x.after - p >= W
    BY <1>2
  <2>1. x.after \in Nat /\ x.after <= Len(wlog)
    BY DEF WindowInv, UnprovenBehind, TypeOK
  <2>2. p \in 1..Len(wlog)
    BY <1>5, <2>1
  <2> QED
    BY <1>5, <2>2 DEF WindowInv, DuplicateDistance, W
<1> QED
  BY <1>4, <1>6, <1>7 DEF WindowIsSuffix, DuplicateDistance, W

\* An append that accept does not take for written finds the key forgotten as well.
LEMMA UnprovenKeepsWindow ==
  ASSUME WindowInv, NEW req \in net, ToWrite(req), UNCHANGED <<wlog, seen>>,
         unproven' = Unproven(req.env.key)
  PROVE  WindowIsSuffix' /\ DuplicateDistance' /\ UnprovenBehind'
<1>1. req.env.key \in Keys /\ wlog \in Seq(Keys) /\ seen \in Seq(Keys) /\ Len(wlog) \in Nat
  BY DEF WindowInv, TypeOK, Requests, Envelopes
<1>2. ~Remembers(seen, req.env.key)
  BY DEF ToWrite, IsDuplicate
<1>3. NewestOf(seen, wlog, W)
  BY DEF WindowInv, WindowIsSuffix, W
<1>4. \A p \in 1..Len(wlog) : wlog[p] = req.env.key => Len(wlog) - p >= W
  BY <1>1, <1>2, <1>3, WindowPositive, ForgottenIsFar
<1>5. \A x \in unproven' : x \in unproven \/ (x.key = req.env.key /\ x.after = Len(wlog))
  BY DEF Unproven
<1>6. UnprovenBehind'
  BY <1>1, <1>5 DEF WindowInv, UnprovenBehind
<1>7. \A x \in unproven' : \A p \in 1..x.after : wlog'[p] = x.key => x.after - p >= W
  BY <1>4, <1>5 DEF WindowInv, DuplicateDistance, W
<1> QED
  BY <1>6, <1>7 DEF WindowInv, WindowIsSuffix, DuplicateDistance, W

LEMMA EmptyWindow == NewestOf(<<>>, <<>>, W) /\ FarApart(<<>>, W)
<1>1. Len(<<>>) = 0 /\ 1..0 = {}
  OBVIOUS
<1> QED
  BY <1>1, WindowPositive DEF NewestOf, FarApart

LEMMA WindowStep == WindowInv /\ [Next]_vars => WindowInv'
<1> SUFFICES ASSUME WindowInv, [Next]_vars PROVE WindowInv'
  OBVIOUS
<1>1. TypeOK'
  BY StepType DEF WindowInv
<1>2. CASE UNCHANGED <<wlog, seen, unproven>>
  BY <1>1, <1>2 DEF WindowInv, WindowIsSuffix, DuplicateDistance, UnprovenBehind
<1>3. CASE wlog' = <<>> /\ seen' = <<>> /\ unproven' = {}
  BY <1>1, <1>3, EmptyWindow
  DEF WindowInv, WindowIsSuffix, DuplicateDistance, UnprovenBehind, W
<1>4. ASSUME NEW req \in net, AcceptNew(req)
      PROVE  WindowInv'
  BY <1>1, <1>4, NewWriteKeepsWindow DEF WindowInv
<1>5. ASSUME NEW req \in net, ToWrite(req), UNCHANGED <<wlog, seen>>,
             unproven' = Unproven(req.env.key)
      PROVE  WindowInv'
  BY <1>1, <1>5, UnprovenKeepsWindow DEF WindowInv
<1>6. CASE UNCHANGED vars
  BY <1>2, <1>6 DEF vars, receiverVars
<1> QED
  BY <1>2, <1>3, <1>4, <1>5, <1>6, WindowMoves

LEMMA WindowAlways == Spec => []WindowInv
<1>1. Init => WindowInv
  <2> SUFFICES ASSUME Init PROVE WindowInv
    OBVIOUS
  <2>1. wlog = <<>> /\ seen = <<>> /\ unproven = {}
    BY DEF Init
  <2> QED
    BY <2>1, InitType, EmptyWindow
    DEF WindowInv, WindowIsSuffix, DuplicateDistance, UnprovenBehind, W
<1> QED
  BY <1>1, WindowStep, PTL DEF Spec

\* A receiver process appends a key it wrote once more only after a window of other
\* writes, for every window size and fault set, and whether the later append is
\* verified or not.  Appends that fail their verification are no writes.
THEOREM DuplicatesAreFarApart == Spec => []DuplicateDistance
<1>1. WindowInv => DuplicateDistance
  BY DEF WindowInv
<1> QED
  BY <1>1, WindowAlways, PTL

-----------------------------------------------------------------------------
(* Identities: no two envelopes share a key.                               *)

\* Appending to a journal adds that envelope and loses none.
LEMMA AppendGrowsJournal ==
  ASSUME TypeOK, NEW env \in Envelopes, AppendToJournal(env)
  PROVE  /\ JournaledEnvelopes' \subseteq JournaledEnvelopes \cup {env}
         /\ Journaled(env)'
         /\ \A c \in Channels : \A i \in 1..Len(journal[c]) :
              i \in 1..Len(journal'[c]) /\ journal'[c][i] = journal[c][i]
<1> DEFINE d == env.key.ch
<1>1. d \in Channels /\ journal \in [Channels -> Seq(Envelopes)]
  BY DEF Envelopes, Keys, TypeOK
<1>2. journal' = [journal EXCEPT ![d] = Append(@, env)]
  BY DEF AppendToJournal
<1> HIDE DEF d
<1>3. /\ journal[d] \in Seq(Envelopes)
      /\ journal'[d] = Append(journal[d], env)
      /\ \A c \in Channels : c # d => journal'[c] = journal[c]
  BY <1>1, <1>2
<1>4. /\ Len(journal'[d]) = Len(journal[d]) + 1
      /\ Len(journal[d]) \in Nat
      /\ \A i \in 1..Len(journal[d]) : journal'[d][i] = journal[d][i]
      /\ journal'[d][Len(journal[d]) + 1] = env
  BY <1>3
<1>5. \A c \in Channels : \A i \in 1..Len(journal[c]) :
        i \in 1..Len(journal'[c]) /\ journal'[c][i] = journal[c][i]
  BY <1>3, <1>4
<1>6. \A c \in Channels : \A i \in 1..Len(journal'[c]) :
        journal'[c][i] = env \/ (i \in 1..Len(journal[c]) /\ journal'[c][i] = journal[c][i])
  BY <1>3, <1>4
<1>7. JournaledEnvelopes' \subseteq JournaledEnvelopes \cup {env}
  BY <1>6 DEF JournaledEnvelopes
<1>8. Journaled(env)'
  <2>1. Len(journal[d]) + 1 \in 1..Len(journal'[d])
    BY <1>4
  <2> QED
    BY <1>4, <2>1 DEF Journaled, d
<1> QED
  BY <1>5, <1>7, <1>8

\* A step brings no envelope into being, except the one PostLine wraps.
LEMMA EnvelopesStep ==
  ASSUME TypeOK, Next
  PROVE  \/ Everywhere' \subseteq Everywhere
         \/ PostLine /\ Everywhere' \subseteq Everywhere \cup {NextEnvelope}
<1> DEFINE InNet == {req.env : req \in net}
<1>1. ASSUME UNCHANGED <<acked, abandoned, send>>
      PROVE  Known' = Known
  BY <1>1 DEF Known
<1>2. ASSUME UNCHANGED journal
      PROVE  JournaledEnvelopes' = JournaledEnvelopes
  BY <1>2 DEF JournaledEnvelopes
<1>3. CASE Producer
  BY <1>1, <1>2, <1>3 DEF Producer, AppendLine, RemoveFile, senderVars, receiverVars, Everywhere
<1>4. CASE SenderLoop
  <2>1. CASE PostLine
    <3>1. /\ send' = [req |-> [env |-> NextEnvelope, attempt |-> 1], status |-> "waiting"]
          /\ send'.req.env = NextEnvelope
          /\ InNet' \subseteq InNet \cup {NextEnvelope}
          /\ UNCHANGED <<acked, abandoned, journal>>
      BY <2>1 DEF PostLine, Post, Reaches, receiverVars
    <3>2. Known' \subseteq Known \cup {NextEnvelope}
      BY <3>1 DEF Known
    <3> QED
      BY <1>2, <2>1, <3>1, <3>2 DEF Everywhere
  <2> QED
    BY <1>1, <1>2, <1>4, <2>1 DEF SenderLoop, PollTicks, SenderExit, EndTicks, EndDom,
         SkipMalformed, receiverVars, Everywhere
<1>5. CASE AttemptEnds
  <2>1. send # NoSend
    BY <1>5 DEF AttemptEnds, SendSucceeds, AttemptFails, SendFails
  <2>2. JournaledEnvelopes' = JournaledEnvelopes
    BY <1>2, <1>5 DEF AttemptEnds, SendSucceeds, AttemptFails, SendFails, receiverVars
  <2>3. NextAttempt(send.req).env = send.req.env
    BY <2>1 DEF NextAttempt, TypeOK, Sends, Requests
  <2>4. InNet' \subseteq InNet \cup {send.req.env}
    BY <1>5, <2>3 DEF AttemptEnds, SendSucceeds, AttemptFails, SendFails, GivenUp, Reaches
  <2>5. Known' \subseteq Known
    <3>1. CASE SendSucceeds
      BY <2>1, <3>1 DEF SendSucceeds, Known
    <3>2. CASE AttemptFails
      BY <2>1, <2>3, <3>2 DEF AttemptFails, Known
    <3>3. CASE SendFails
      BY <2>1, <3>3 DEF SendFails, Known
    <3> QED
      BY <1>5, <3>1, <3>2, <3>3 DEF AttemptEnds
  <2>6. send.req.env \in Known
    BY <2>1 DEF Known
  <2> QED
    BY <2>2, <2>4, <2>5, <2>6 DEF Everywhere
<1>6. CASE SenderLifecycle
  <2>1. Known' \subseteq Known
    BY <1>6 DEF SenderLifecycle, SenderStart, SenderStop, SenderKilled, Known
  <2> QED
    BY <1>2, <1>6, <2>1 DEF SenderLifecycle, SenderStart, SenderStop, SenderKilled,
         receiverVars, Everywhere
<1>7. CASE ReceiverLifecycle
  BY <1>1, <1>2, <1>7 DEF ReceiverLifecycle, ReceiverStart, ReceiverStop, ReceiverExit,
       senderVars, Everywhere
<1>8. ASSUME NEW req \in net, Accept(req)
      PROVE  Everywhere' \subseteq Everywhere
  <2>1. net' \subseteq net /\ UNCHANGED <<acked, abandoned>>
    BY <1>8, AcceptFrame DEF sourceVars
  <2>2. \E st \in Statuses : Respond(req, st)
    BY <1>8, AcceptFrame
  <2>3. Known' \subseteq Known
    BY <2>1, <2>2, NoSendAssumption DEF Known, Respond, TypeOK, Sends
  <2>4. req.env \in Envelopes /\ req.env \in InNet
    BY DEF TypeOK, Requests
  <2>5. JournaledEnvelopes' \subseteq JournaledEnvelopes \cup {req.env}
    <3>1. CASE AppendToJournal(req.env)
      BY <2>4, <3>1, AppendGrowsJournal
    <3>2. CASE UNCHANGED journal
      BY <1>2, <3>2
    <3> QED
      BY <1>8, <3>1, <3>2 DEF Accept, RefuseStopped, AcceptReject, AcceptDuplicate,
           AcceptNew, AcceptIoError, AcceptUnread, AcceptMismatch, AcceptSwapped
  <2> QED
    BY <2>1, <2>3, <2>4, <2>5 DEF Everywhere
<1> QED
  BY <1>3, <1>4, <1>5, <1>6, <1>7, <1>8 DEF Next

\* How a step moves the counters that number envelopes.
LEMMA CountersStep ==
  ASSUME TypeOK, Next
  PROVE  \/ session' = session /\ seq' = seq
         \/ session' = session + 1
         \/ PostLine /\ session' = session
<1> USE DEF senderVars
<1>1. CASE Producer
  BY <1>1 DEF Producer, AppendLine, RemoveFile
<1>2. CASE SenderLoop
  BY <1>2 DEF SenderLoop, PollTicks, SenderExit, EndTicks, EndDom, SkipMalformed, PostLine
<1>3. CASE AttemptEnds
  BY <1>3 DEF AttemptEnds, SendSucceeds, AttemptFails, SendFails
<1>4. CASE SenderLifecycle
  BY <1>4 DEF SenderLifecycle, SenderStart, SenderStop, SenderKilled, NextSession
<1>5. CASE ReceiverLifecycle
  BY <1>5 DEF ReceiverLifecycle, ReceiverStart, ReceiverStop, ReceiverExit
<1>6. CASE \E req \in net : Accept(req)
  BY <1>6, AcceptFrame DEF sourceVars
<1> QED
  BY <1>1, <1>2, <1>3, <1>4, <1>5, <1>6 DEF Next

LEMMA EnvelopesTyped ==
  ASSUME TypeOK
  PROVE  Everywhere \subseteq Envelopes
<1>1. Known \subseteq Envelopes
  BY DEF TypeOK, Known, Sends, Requests
<1>2. {req.env : req \in net} \subseteq Envelopes
  BY DEF TypeOK, Requests
<1>3. JournaledEnvelopes \subseteq Envelopes
  BY DEF TypeOK, JournaledEnvelopes
<1> QED
  BY <1>1, <1>2, <1>3 DEF Everywhere

LEMMA IdentityStep ==
  ASSUME TypeOK, IdentityInv, Next
  PROVE  IdentityInv'
<1>1. /\ \A e \in Everywhere :
           /\ e.key.sess \in Nat /\ e.key.seq \in Nat /\ e.key.ch \in Channels
           /\ e.key.sess <= session
           /\ e.key.sess = session => e.key.seq <= seq[e.key.ch]
      /\ \A e, f \in Everywhere : e.key = f.key => e = f
  BY EnvelopesTyped DEF IdentityInv, Envelopes, Keys
<1>2. session \in Nat /\ seq \in [Channels -> Nat]
  BY DEF TypeOK
<1>3. CASE Everywhere' \subseteq Everywhere /\ ~PostLine
  <2>1. CASE session' = session /\ seq' = seq
    BY <1>1, <1>3, <2>1 DEF IdentityInv
  <2>2. CASE session' = session + 1
    <3>1. \A e \in Everywhere' : e.key.sess <= session' /\ e.key.sess # session'
      BY <1>1, <1>2, <1>3, <2>2
    <3> QED
      BY <1>1, <1>3, <3>1 DEF IdentityInv
  <2> QED
    BY <1>3, <2>1, <2>2, CountersStep
<1>4. CASE PostLine /\ Everywhere' \subseteq Everywhere \cup {NextEnvelope}
  <2>1. /\ session' = session /\ seq' = [seq EXCEPT ![phase] = @ + 1]
        /\ phase \in Channels
    BY <1>4 DEF PostLine, InLoop
  <2>2. /\ NextEnvelope.key.sess = session
        /\ NextEnvelope.key.ch = phase
        /\ NextEnvelope.key.seq = seq[phase] + 1
    BY DEF NextEnvelope
  <2>3. \A c \in Channels : seq[c] \in Nat /\ seq'[c] \in Nat /\ seq[c] <= seq'[c]
    BY <1>2, <2>1
  <2>4. seq'[phase] = seq[phase] + 1
    BY <1>2, <2>1
  <2>5. \A e \in Everywhere :
          e.key.sess = session => e.key.seq <= seq'[e.key.ch]
    BY <1>1, <2>3
  <2>6. \A e \in Everywhere : e.key # NextEnvelope.key
    <3> SUFFICES ASSUME NEW e \in Everywhere, e.key = NextEnvelope.key PROVE FALSE
      OBVIOUS
    <3>1. e.key.seq = seq[phase] + 1 /\ e.key.seq <= seq[phase]
      BY <1>1, <2>2
    <3> QED
      BY <2>1, <2>3, <3>1
  <2>7. \A e \in Everywhere' :
          /\ e.key.sess <= session'
          /\ e.key.sess = session' => e.key.seq <= seq'[e.key.ch]
    <3> SUFFICES ASSUME NEW e \in Everywhere'
                 PROVE  /\ e.key.sess <= session'
                        /\ e.key.sess = session' => e.key.seq <= seq'[e.key.ch]
      OBVIOUS
    <3>1. CASE e \in Everywhere
      BY <1>1, <2>1, <2>5, <3>1
    <3>2. CASE e = NextEnvelope
      BY <1>2, <2>1, <2>2, <2>3, <2>4, <3>2
    <3> QED
      BY <1>4, <3>1, <3>2
  <2>8. \A e, f \in Everywhere' : e.key = f.key => e = f
    BY <1>1, <1>4, <2>6
  <2> QED
    BY <2>7, <2>8 DEF IdentityInv
<1>5. PostLine => Everywhere' \subseteq Everywhere \cup {NextEnvelope}
  BY EnvelopesStep
<1> QED
  BY <1>3, <1>4, <1>5, EnvelopesStep

LEMMA IdentityAlways == Spec => [](TypeOK /\ IdentityInv)
<1>1. Init => TypeOK /\ IdentityInv
  <2> SUFFICES ASSUME Init PROVE TypeOK /\ IdentityInv
    OBVIOUS
  <2>1. Len(<<>>) = 0 /\ 1..0 = {}
    OBVIOUS
  <2>2. JournaledEnvelopes = {}
    BY <2>1 DEF Init, JournaledEnvelopes
  <2>3. Everywhere = {}
    BY <2>2 DEF Init, Everywhere, Known
  <2> QED
    BY <2>3, InitType DEF IdentityInv
<1>2. TypeOK /\ IdentityInv /\ [Next]_vars => (TypeOK /\ IdentityInv)'
  <2> SUFFICES ASSUME TypeOK, IdentityInv, [Next]_vars PROVE (TypeOK /\ IdentityInv)'
    OBVIOUS
  <2>1. TypeOK'
    BY StepType
  <2>2. CASE Next
    BY <2>1, <2>2, IdentityStep
  <2>3. CASE UNCHANGED vars
    <3>1. UNCHANGED <<Known, JournaledEnvelopes>>
      BY <2>3 DEF vars, senderVars, receiverVars, Known, JournaledEnvelopes
    <3> QED
      BY <2>1, <2>3, <3>1 DEF vars, senderVars, Everywhere, IdentityInv
  <2> QED
    BY <2>2, <2>3
<1> QED
  BY <1>1, <1>2, PTL DEF Spec

\* Two payloads never share an envelope identity in a journal: a session is
\* fresh for every sender process and numbers are never reused within it.
THEOREM IdentityNamesOnePayload == Spec => []KeyNamesOneLine
<1>1. IdentityInv => KeyNamesOneLine
  BY DEF IdentityInv, KeyNamesOneLine, Everywhere, JournaledEnvelopes
<1> QED
  BY <1>1, IdentityAlways, PTL

-----------------------------------------------------------------------------
(* Acknowledgements, when the receiver has no shutdown window.             *)

KeyJournaled(key) == \E j \in 1..Len(journal[key.ch]) : journal[key.ch][j].key = key

Placed(env) == Journaled(env) \/ env \in refused

AnswerPlaced == send # NoSend => (send.status = "ok" => Placed(send.req.env))

SeenJournaled == \A i \in 1..Len(seen) : KeyJournaled(seen[i])

LEMMA AckInvParts ==
  AckInv <=> /\ IdentityInv /\ rstate # "stopping"
             /\ SeenJournaled /\ AnswerPlaced /\ AckedIsJournaled
  BY DEF AckInv, SeenJournaled, KeyJournaled, AnswerPlaced, Placed

\* A new window holds old keys and the one just written.
LEMMA RememberedKeys ==
  ASSUME NEW s \in Seq(Keys), NEW key \in Keys, NEW w \in Nat \ {0},
         NEW i \in 1..Len(Remember(s, key, w))
  PROVE  Remember(s, key, w)[i] = key \/ \E k \in 1..Len(s) : Remember(s, key, w)[i] = s[k]
<1> DEFINE s1 == Append(s, key)
           r == Evict(s1, w)
<1>1. /\ s1 \in Seq(Keys) /\ Len(s1) = Len(s) + 1 /\ Len(s) \in Nat
      /\ \A k \in 1..Len(s) : s1[k] = s[k]
      /\ s1[Len(s) + 1] = key
  OBVIOUS
<1>2. r = Remember(s, key, w)
  BY DEF Remember
<1> HIDE DEF s1
<1>3. /\ Len(r) = (IF Len(s1) > w THEN w ELSE Len(s1))
      /\ \A j \in 1..Len(r) : r[j] = s1[Len(s1) - Len(r) + j]
  BY <1>1, EvictKeepsNewest
<1> HIDE DEF r
<1>4. i \in 1..Len(r) /\ Len(r) \in Nat
  BY <1>1, <1>2, <1>3
<1> DEFINE p == Len(s1) - Len(r) + i
<1>5. p \in 1..(Len(s) + 1) /\ r[i] = s1[p]
  <2>1. r[i] = s1[p]
    BY <1>3, <1>4
  <2>2. Len(r) <= Len(s1) /\ Len(s1) \in Nat
    BY <1>1, <1>3
  <2>3. p \in Int /\ 1 <= p /\ p <= Len(s1)
    BY <1>4, <2>2
  <2> QED
    BY <1>1, <2>1, <2>3
<1> HIDE DEF p
<1>6. CASE p = Len(s) + 1
  BY <1>1, <1>2, <1>5, <1>6
<1>7. CASE p # Len(s) + 1
  <2>1. p \in 1..Len(s)
    BY <1>1, <1>5, <1>7
  <2> QED
    BY <1>1, <1>2, <1>5, <2>1
<1> QED
  BY <1>6, <1>7

LEMMA JournaledStays ==
  ASSUME TypeOK, NEW env \in Envelopes, AppendToJournal(env)
  PROVE  /\ \A e \in Envelopes : Journaled(e) => Journaled(e)'
         /\ \A key \in Keys : KeyJournaled(key) => KeyJournaled(key)'
         /\ Journaled(env)' /\ KeyJournaled(env.key)'
<1>1. /\ Journaled(env)'
      /\ \A c \in Channels : \A i \in 1..Len(journal[c]) :
           i \in 1..Len(journal'[c]) /\ journal'[c][i] = journal[c][i]
  BY AppendGrowsJournal
<1>2. \A e \in Envelopes : Journaled(e) => Journaled(e)'
  <2> SUFFICES ASSUME NEW e \in Envelopes, Journaled(e) PROVE Journaled(e)'
    OBVIOUS
  <2>1. e.key.ch \in Channels
    BY DEF Envelopes, Keys
  <2> QED
    BY <1>1, <2>1 DEF Journaled
<1>3. \A key \in Keys : KeyJournaled(key) => KeyJournaled(key)'
  <2> SUFFICES ASSUME NEW key \in Keys, KeyJournaled(key) PROVE KeyJournaled(key)'
    OBVIOUS
  <2>1. key.ch \in Channels
    BY DEF Keys
  <2> QED
    BY <1>1, <2>1 DEF KeyJournaled
<1>4. KeyJournaled(env.key)'
  BY <1>1 DEF Journaled, KeyJournaled
<1> QED
  BY <1>1, <1>2, <1>3, <1>4

\* What an answer leaves behind: nothing placed is lost, and a request answered
\* with "ok" is placed.
LEMMA AnswerStep ==
  ASSUME TypeOK, AnswerPlaced, AckedIsJournaled, NEW req \in net, acked' = acked,
         \A e \in Envelopes : Placed(e) => Placed(e)',
         \/ Respond(req, "error")
         \/ Respond(req, "ok") /\ Placed(req.env)'
  PROVE  AnswerPlaced' /\ AckedIsJournaled'
<1>1. acked \subseteq Envelopes /\ req.env \in Envelopes
  BY DEF TypeOK, Requests
<1>2. AckedIsJournaled'
  BY <1>1 DEF AckedIsJournaled, Placed, Journaled
<1>3. send # NoSend => send \in Sends /\ send.req.env \in Envelopes
  BY DEF TypeOK, Sends, Requests
<1>4. CASE send # NoSend /\ send.req = req
  <2>1. send'.req = req /\ (send'.status = "ok" => Respond(req, "ok"))
    BY <1>3, <1>4 DEF Respond, Sends
  <2>2. send'.status = "ok" => Placed(req.env)'
    <3> SUFFICES ASSUME send'.status = "ok", Respond(req, "error") PROVE FALSE
      OBVIOUS
    <3>1. send'.status = "error"
      BY <1>3, <1>4 DEF Respond, Sends
    <3> QED
      BY <3>1
  <2> QED
    BY <1>2, <2>1, <2>2 DEF AnswerPlaced, Placed, Journaled
<1>5. CASE ~(send # NoSend /\ send.req = req)
  <2>1. send' = send
    BY <1>5 DEF Respond
  <2> SUFFICES ASSUME send # NoSend, send.status = "ok", NEW e \in Envelopes,
                      e = send.req.env
               PROVE  Placed(e)'
    BY <1>2, <1>3, <2>1 DEF AnswerPlaced, Placed, Journaled
  <2> QED
    BY DEF AnswerPlaced
<1> QED
  BY <1>4, <1>5

LEMMA AckAccept ==
  ASSUME TypeOK, AckInv, NEW req \in net, Accept(req)
  PROVE  rstate' # "stopping" /\ SeenJournaled' /\ AnswerPlaced' /\ AckedIsJournaled'
<1>1. /\ IdentityInv /\ rstate # "stopping"
      /\ SeenJournaled /\ AnswerPlaced /\ AckedIsJournaled
  BY AckInvParts
<1>2. /\ req.env \in Envelopes /\ req.env.key \in Keys /\ req.env.key.ch \in Channels
      /\ req.env \in Everywhere
  BY DEF TypeOK, Requests, Envelopes, Keys, Everywhere
<1>3. acked' = acked /\ rstate' = rstate
  BY AcceptFrame
<1>4. ASSUME UNCHANGED <<journal, seen>>, refused \subseteq refused',
             Respond(req, "error") \/ (Respond(req, "ok") /\ Placed(req.env)')
      PROVE  rstate' # "stopping" /\ SeenJournaled' /\ AnswerPlaced' /\ AckedIsJournaled'
  <2>1. \A e \in Envelopes : Placed(e) => Placed(e)'
    BY <1>4 DEF Placed, Journaled
  <2>2. AnswerPlaced' /\ AckedIsJournaled'
    BY <1>1, <1>3, <1>4, <2>1, AnswerStep
  <2> QED
    BY <1>1, <1>3, <1>4, <2>2 DEF SeenJournaled, KeyJournaled
<1>5. ASSUME AppendToJournal(req.env), refused' = refused,
             Respond(req, "error") \/ Respond(req, "ok"),
             seen' = seen \/ seen' = Remember(seen, req.env.key, W)
      PROVE  rstate' # "stopping" /\ SeenJournaled' /\ AnswerPlaced' /\ AckedIsJournaled'
  <2>1. /\ \A e \in Envelopes : Journaled(e) => Journaled(e)'
        /\ \A key \in Keys : KeyJournaled(key) => KeyJournaled(key)'
        /\ Journaled(req.env)' /\ KeyJournaled(req.env.key)'
    BY <1>2, <1>5, JournaledStays
  <2>2. AnswerPlaced' /\ AckedIsJournaled'
    <3>1. /\ \A e \in Envelopes : Placed(e) => Placed(e)'
          /\ Placed(req.env)'
      BY <1>5, <2>1 DEF Placed
    <3> QED
      BY <1>1, <1>3, <1>5, <3>1, AnswerStep
  <2>3. seen \in Seq(Keys) /\ seen' \in Seq(Keys)
    BY <1>2, <1>5, RememberType DEF TypeOK, W
  <2>4. ASSUME NEW key \in Keys, NEW i \in 1..Len(seen'), seen'[i] = key
        PROVE  KeyJournaled(key)'
    <3>1. key = req.env.key \/ \E k \in 1..Len(seen) : key = seen[k]
      BY <1>2, <1>5, <2>3, <2>4, WindowPositive, RememberedKeys
    <3>2. ASSUME NEW k \in 1..Len(seen), key = seen[k] PROVE KeyJournaled(key)'
      <4>1. KeyJournaled(key)
        BY <1>1, <3>2 DEF SeenJournaled
      <4> QED
        BY <2>1, <4>1
    <3>3. ASSUME key = req.env.key PROVE KeyJournaled(key)'
      BY <2>1, <3>3 DEF KeyJournaled
    <3> QED
      BY <3>1, <3>2, <3>3
  <2>5. \A i \in 1..Len(seen') : seen'[i] \in Keys
    BY <2>3
  <2>6. SeenJournaled'
    BY <2>4, <2>5 DEF SeenJournaled, KeyJournaled
  <2> QED
    BY <1>1, <1>3, <2>2, <2>6
<1>6. CASE AcceptReject(req) \/ AcceptSwapped(req)
  <2>1. /\ UNCHANGED <<journal, seen>> /\ refused' = refused \cup {req.env}
        /\ Respond(req, "ok")
    BY <1>6 DEF AcceptReject, AcceptSwapped
  <2> QED
    BY <1>4, <2>1 DEF Placed
<1>7. CASE AcceptDuplicate(req)
  <2>1. UNCHANGED <<journal, seen, refused>> /\ Respond(req, "ok")
    BY <1>7 DEF AcceptDuplicate
  <2>2. PICK i \in 1..Len(seen) : seen[i] = req.env.key
    BY <1>7 DEF AcceptDuplicate, IsDuplicate, Remembers
  <2>3. PICK j \in 1..Len(journal[req.env.key.ch]) :
          journal[req.env.key.ch][j].key = req.env.key
    BY <1>1, <2>2 DEF SeenJournaled, KeyJournaled
  <2>4. journal[req.env.key.ch][j] \in Everywhere
    BY <1>2 DEF Everywhere, JournaledEnvelopes
  <2>5. journal[req.env.key.ch][j] = req.env
    BY <1>1, <1>2, <2>3, <2>4 DEF IdentityInv
  <2>6. Placed(req.env)'
    BY <2>1, <2>5 DEF Placed, Journaled
  <2> QED
    BY <1>4, <2>1, <2>6
<1>8. CASE AcceptNew(req)
  BY <1>5, <1>8 DEF AcceptNew, SeenAfterWrite, W
<1>9. CASE AcceptIoError(req)
  BY <1>4, <1>9 DEF AcceptIoError, SeenAfterFailedWrite
<1>10. CASE AcceptUnread(req)
  BY <1>5, <1>10 DEF AcceptUnread
<1>11. CASE AcceptMismatch(req)
  BY <1>5, <1>11 DEF AcceptMismatch
<1> QED
  BY <1>1, <1>6, <1>7, <1>8, <1>9, <1>10, <1>11 DEF Accept, RefuseStopped

LEMMA AckStep ==
  ASSUME "stop" \notin Faults, TypeOK, AckInv, Next
  PROVE  rstate' # "stopping" /\ SeenJournaled' /\ AnswerPlaced' /\ AckedIsJournaled'
<1>1. /\ IdentityInv /\ rstate # "stopping"
      /\ SeenJournaled /\ AnswerPlaced /\ AckedIsJournaled
  BY AckInvParts
<1> USE DEF receiverVars, senderVars
<1>2. ASSUME UNCHANGED <<rstate, journal, refused, seen, send, acked>>
      PROVE  rstate' # "stopping" /\ SeenJournaled' /\ AnswerPlaced' /\ AckedIsJournaled'
  BY <1>1, <1>2 DEF SeenJournaled, KeyJournaled, AnswerPlaced, AckedIsJournaled, Placed, Journaled
<1>3. ASSUME UNCHANGED <<rstate, journal, refused, seen, acked>>,
             send' = NoSend \/ send'.status = "waiting"
      PROVE  rstate' # "stopping" /\ SeenJournaled' /\ AnswerPlaced' /\ AckedIsJournaled'
  BY <1>1, <1>3 DEF SeenJournaled, KeyJournaled, AnswerPlaced, AckedIsJournaled, Placed, Journaled
<1>4. CASE Producer
  BY <1>2, <1>4 DEF Producer, AppendLine, RemoveFile
<1>5. CASE SenderLoop
  BY <1>2, <1>3, <1>5 DEF SenderLoop, PollTicks, SenderExit, EndTicks, EndDom,
       SkipMalformed, PostLine, Post
<1>6. CASE AttemptEnds
  <2>1. CASE SendSucceeds
    BY <1>1, <2>1 DEF SendSucceeds, SeenJournaled, KeyJournaled, AnswerPlaced,
         AckedIsJournaled, Placed, Journaled
  <2> QED
    BY <1>3, <1>6, <2>1 DEF AttemptEnds, AttemptFails, SendFails
<1>7. CASE SenderLifecycle
  BY <1>2, <1>3, <1>7 DEF SenderLifecycle, SenderStart, SenderStop, SenderKilled
<1>8. CASE ReceiverLifecycle
  <2>1. UNCHANGED <<journal, refused, send, acked>> /\ rstate' # "stopping" /\ (seen' = seen \/ seen' = <<>>)
    BY <1>1, <1>8 DEF ReceiverLifecycle, ReceiverStart, ReceiverStop, ReceiverExit
  <2>2. SeenJournaled'
    <3>1. Len(<<>>) = 0 /\ 1..0 = {}
      OBVIOUS
    <3> QED
      BY <1>1, <2>1, <3>1 DEF SeenJournaled, KeyJournaled
  <2> QED
    BY <1>1, <2>1, <2>2 DEF AnswerPlaced, AckedIsJournaled, Placed, Journaled
<1>9. CASE \E req \in net : Accept(req)
  BY <1>9, AckAccept
<1> QED
  BY <1>4, <1>5, <1>6, <1>7, <1>8, <1>9 DEF Next

LEMMA AckAlways ==
  ASSUME "stop" \notin Faults
  PROVE  Spec => []AckInv
<1>1. Init => AckInv
  <2> SUFFICES ASSUME Init PROVE AckInv
    OBVIOUS
  <2>1. Len(<<>>) = 0 /\ 1..0 = {}
    OBVIOUS
  <2>2. Everywhere = {}
    BY <2>1 DEF Init, Everywhere, Known, JournaledEnvelopes
  <2> QED
    BY <2>1, <2>2 DEF Init, AckInv, IdentityInv, AckedIsJournaled
<1>2. TypeOK /\ AckInv /\ [Next]_vars => AckInv'
  <2> SUFFICES ASSUME TypeOK, AckInv, [Next]_vars PROVE AckInv'
    OBVIOUS
  <2>1. CASE Next
    <3>1. IdentityInv'
      BY <2>1, IdentityStep DEF AckInv
    <3> QED
      BY <2>1, <3>1, AckStep, AckInvParts DEF AckInv, SeenJournaled, KeyJournaled, AnswerPlaced, Placed
  <2>2. CASE UNCHANGED vars
    <3>1. UNCHANGED <<Known, JournaledEnvelopes>>
      BY <2>2 DEF vars, senderVars, receiverVars, Known, JournaledEnvelopes
    <3>2. Everywhere' = Everywhere
      BY <2>2, <3>1 DEF vars, Everywhere
    <3>3. IdentityInv'
      BY <2>2, <3>2 DEF vars, senderVars, IdentityInv, AckInv
    <3> QED
      BY <2>2, <3>3 DEF vars, senderVars, receiverVars, AckInv, AckedIsJournaled, Placed, Journaled
  <2> QED
    BY <2>1, <2>2
<1> QED
  BY <1>1, <1>2, TypeCorrect, PTL DEF Spec

\* What the sender counts as sent is in a journal, or a receiver refused it: its
\* validation did, or the journal was replaced under the write.  This holds for every
\* window, retry limit and schedule of lost, late and repeated requests, failed
\* writes, crashes and restarts, as long as the receiver never serves while stopping.
THEOREM AcknowledgedIsJournaled ==
  ASSUME "stop" \notin Faults
  PROVE  Spec => []AckedIsJournaled
<1>1. AckInv => AckedIsJournaled
  BY DEF AckInv
<1> QED
  BY <1>1, AckAlways, PTL

-----------------------------------------------------------------------------
(* Copies: an append uses up an attempt.                                    *)

\* the attempts of an envelope that the receiver may still handle
Attempts(env) == {req.attempt : req \in {r \in net : r.env = env}}

\* the attempts made of an envelope, or all it will ever have
Used(env) == IF send # NoSend /\ send.req.env = env THEN send.req.attempt ELSE MaxRetries

\* Copies and outstanding attempts together never exceed the attempts made.
CopyInv ==
  /\ \A req \in net : req.attempt \in 1..MaxRetries
  /\ send # NoSend => send.req.attempt \in 1..MaxRetries
  /\ \A env \in Envelopes : Cardinality(Copies(env)) + Cardinality(Attempts(env)) <= Used(env)

LEMMA CopiesAreFinite ==
  ASSUME TypeOK, NEW env \in Envelopes
  PROVE  IsFiniteSet(Copies(env)) /\ Cardinality(Copies(env)) \in Nat
<1>1. env.key.ch \in Channels
  BY DEF Envelopes, Keys
<1>2. Len(journal[env.key.ch]) \in Nat
  BY <1>1 DEF TypeOK
<1>3. IsFiniteSet(1..Len(journal[env.key.ch]))
  BY <1>2, FS_Interval
<1> QED
  BY <1>3, FS_Subset, FS_CardinalityType DEF Copies

LEMMA AttemptsAreFinite ==
  ASSUME \A req \in net : req.attempt \in 1..MaxRetries, NEW env
  PROVE  IsFiniteSet(Attempts(env)) /\ Cardinality(Attempts(env)) \in Nat
<1>1. IsFiniteSet(1..MaxRetries)
  BY FS_Interval, BoundAssumption
<1>2. Attempts(env) \subseteq 1..MaxRetries
  BY DEF Attempts
<1> QED
  BY <1>1, <1>2, FS_Subset, FS_CardinalityType

LEMMA OneMore ==
  ASSUME NEW S, NEW x, IsFiniteSet(S)
  PROVE  IsFiniteSet(S \cup {x}) /\ Cardinality(S \cup {x}) <= Cardinality(S) + 1
<1>1. Cardinality(S) \in Nat
  BY FS_CardinalityType
<1> QED
  BY <1>1, FS_AddElement

\* A step that appends nothing and adds no attempt.
LEMMA CopiesShrink ==
  ASSUME TypeOK, CopyInv, journal' = journal, net' \subseteq net,
         send' = send \/ send' = NoSend
  PROVE  CopyInv'
<1>1. MaxRetries \in Nat
  BY BoundAssumption
<1>2. \A env : Attempts(env)' \subseteq Attempts(env)
  BY DEF Attempts
<1>3. ASSUME NEW env \in Envelopes
      PROVE  (Cardinality(Copies(env)) + Cardinality(Attempts(env)) <= Used(env))'
  <2>1. Copies(env)' = Copies(env)
    BY DEF Copies
  <2>2. IsFiniteSet(Attempts(env)) /\ Cardinality(Attempts(env)) \in Nat
    BY AttemptsAreFinite DEF CopyInv
  <2>3. Cardinality(Attempts(env)') <= Cardinality(Attempts(env)) /\ Cardinality(Attempts(env)') \in Nat
    BY <1>2, <2>2, FS_Subset, FS_CardinalityType
  <2>4. Used(env) \in Nat /\ Used(env)' \in Nat /\ Used(env) <= Used(env)'
    BY <1>1 DEF Used, CopyInv
  <2>5. Cardinality(Copies(env)) \in Nat
    BY CopiesAreFinite
  <2>6. Cardinality(Copies(env)) + Cardinality(Attempts(env)) <= Used(env)
    BY DEF CopyInv
  <2> QED
    BY <2>1, <2>2, <2>3, <2>4, <2>5, <2>6
<1> QED
  BY <1>3 DEF CopyInv

LEMMA NextEnvelopeType ==
  ASSUME TypeOK, PostLine
  PROVE  NextEnvelope \in Envelopes
<1>1. phase \in Channels /\ batch # <<>>
  BY DEF PostLine, InLoop, LoopLeft
<1>2. Head(batch) \in Nat /\ seq[phase] + 1 \in Nat /\ session \in Nat
  BY <1>1 DEF TypeOK
<1> QED
  BY <1>1, <1>2 DEF NextEnvelope, Envelopes, Keys

LEMMA CopiesPost ==
  ASSUME TypeOK, IdentityInv, CopyInv, PostLine
  PROVE  CopyInv'
<1> PICK p \in Channels : phase = p
  BY DEF PostLine, InLoop
<1> PICK e \in Envelopes : e = NextEnvelope
  BY NextEnvelopeType
<1> DEFINE q == [env |-> e, attempt |-> 1]
<1>1. /\ send = NoSend /\ send' = [req |-> q, status |-> "waiting"]
      /\ net' \subseteq net \cup {q} /\ journal' = journal
  BY DEF PostLine, InLoop, Post, Reaches, receiverVars
<1>2. send' # NoSend /\ send'.req = q
  <2>1. send' \in Sends
    BY <1>1 DEF Sends, Requests, Statuses
  <2> QED
    BY <1>1, <2>1, NoSendAssumption
<1>3. e \notin Everywhere
  <2> SUFFICES ASSUME e \in Everywhere PROVE FALSE
    OBVIOUS
  <2>1. e.key.sess = session /\ e.key.ch = p /\ e.key.seq = seq[p] + 1 /\ seq[p] \in Nat
    BY DEF NextEnvelope, TypeOK
  <2>2. e.key.seq <= seq[p]
    BY <2>1 DEF IdentityInv
  <2> QED
    BY <2>1, <2>2
<1>4. Copies(e) = {} /\ Attempts(e) = {}
  <2>1. e.key.ch \in Channels
    BY DEF Envelopes, Keys
  <2> QED
    BY <1>3, <2>1 DEF Copies, Attempts, Everywhere, JournaledEnvelopes
<1>5. MaxRetries \in Nat \ {0} /\ 1 \in 1..MaxRetries
  BY BoundAssumption
<1>6. ASSUME NEW env \in Envelopes
      PROVE  (Cardinality(Copies(env)) + Cardinality(Attempts(env)) <= Used(env))'
  <2>1. Copies(env)' = Copies(env)
    BY <1>1 DEF Copies
  <2>2. CASE env = e
    <3>1. Attempts(env)' \subseteq {1}
      BY <1>1, <1>4, <2>2 DEF Attempts
    <3>2. Cardinality({1}) = 1 /\ IsFiniteSet({1})
      BY FS_Singleton
    <3>3. Cardinality(Attempts(env)') <= 1 /\ Cardinality(Attempts(env)') \in Nat
      BY <3>1, <3>2, FS_Subset, FS_CardinalityType
    <3>4. Cardinality(Copies(env)') = 0
      BY <1>4, <2>1, <2>2, FS_EmptySet
    <3>5. Used(env)' = 1
      BY <1>2, <2>2 DEF Used
    <3> QED
      BY <3>3, <3>4, <3>5
  <2>3. CASE env # e
    <3>1. Attempts(env)' \subseteq Attempts(env)
      BY <1>1, <2>3 DEF Attempts
    <3>2. IsFiniteSet(Attempts(env)) /\ Cardinality(Attempts(env)) \in Nat
      BY AttemptsAreFinite DEF CopyInv
    <3>3. Cardinality(Attempts(env)') <= Cardinality(Attempts(env)) /\ Cardinality(Attempts(env)') \in Nat
      BY <3>1, <3>2, FS_Subset, FS_CardinalityType
    <3>4. Used(env)' = MaxRetries /\ Used(env) = MaxRetries
      BY <1>1, <1>2, <2>3 DEF Used
    <3>5. Cardinality(Copies(env)) \in Nat
      BY CopiesAreFinite
    <3>6. Cardinality(Copies(env)) + Cardinality(Attempts(env)) <= Used(env)
      BY DEF CopyInv
    <3> QED
      BY <1>5, <2>1, <3>2, <3>3, <3>4, <3>5, <3>6
  <2> QED
    BY <2>2, <2>3
<1>7. \A req \in net' : req.attempt \in 1..MaxRetries
  BY <1>1, <1>5 DEF CopyInv
<1> QED
  BY <1>2, <1>5, <1>6, <1>7 DEF CopyInv

LEMMA CopiesRetry ==
  ASSUME TypeOK, CopyInv, AttemptFails
  PROVE  CopyInv'
<1> PICK e : e = send.req.env
  OBVIOUS
<1> PICK a : a = send.req.attempt
  OBVIOUS
<1> PICK q : q = NextAttempt(send.req)
  OBVIOUS
<1>1. /\ send # NoSend /\ send' = [req |-> q, status |-> "waiting"] /\ a < MaxRetries
      /\ net' \subseteq net \cup {q} /\ journal' = journal
  BY DEF AttemptFails, RetriesLeft, GivenUp, Reaches, receiverVars
<1>2. send.req \in Requests /\ e \in Envelopes /\ a \in Nat /\ a \in 1..MaxRetries
  BY <1>1 DEF TypeOK, Sends, Requests, CopyInv
<1>3. q \in Requests /\ q.env = e /\ q.attempt = a + 1
  <2>1. a + 1 \in Nat
    BY <1>2
  <2> QED
    BY <1>2, <2>1 DEF NextAttempt, Requests
<1>4. send' # NoSend /\ send'.req = q
  <2>1. send' \in Sends
    BY <1>1, <1>3 DEF Sends, Statuses
  <2> QED
    BY <1>1, <2>1, NoSendAssumption
<1>5. MaxRetries \in Nat /\ a + 1 \in 1..MaxRetries
  BY <1>1, <1>2, BoundAssumption
<1>6. ASSUME NEW env \in Envelopes
      PROVE  (Cardinality(Copies(env)) + Cardinality(Attempts(env)) <= Used(env))'
  <2>1. Copies(env)' = Copies(env) /\ Cardinality(Copies(env)) \in Nat
    BY <1>1, CopiesAreFinite DEF Copies
  <2>2. IsFiniteSet(Attempts(env)) /\ Cardinality(Attempts(env)) \in Nat
    BY AttemptsAreFinite DEF CopyInv
  <2>3. Cardinality(Copies(env)) + Cardinality(Attempts(env)) <= Used(env)
    BY DEF CopyInv
  <2>4. CASE env = e
    <3>1. Attempts(env)' \subseteq Attempts(env) \cup {a + 1}
      BY <1>1, <1>3 DEF Attempts
    <3>2. /\ IsFiniteSet(Attempts(env) \cup {a + 1})
          /\ Cardinality(Attempts(env) \cup {a + 1}) <= Cardinality(Attempts(env)) + 1
      BY <2>2, OneMore
    <3>3. /\ Cardinality(Attempts(env)') <= Cardinality(Attempts(env) \cup {a + 1})
          /\ Cardinality(Attempts(env)') \in Nat
          /\ Cardinality(Attempts(env) \cup {a + 1}) \in Nat
      BY <3>1, <3>2, FS_Subset, FS_CardinalityType
    <3>4. Used(env) = a /\ Used(env)' = a + 1
      BY <1>1, <1>3, <1>4, <2>4 DEF Used
    <3> QED
      BY <1>2, <2>1, <2>2, <2>3, <3>2, <3>3, <3>4
  <2>5. CASE env # e
    <3>1. Attempts(env)' \subseteq Attempts(env)
      BY <1>1, <1>3, <2>5 DEF Attempts
    <3>2. Cardinality(Attempts(env)') <= Cardinality(Attempts(env)) /\ Cardinality(Attempts(env)') \in Nat
      BY <2>2, <3>1, FS_Subset, FS_CardinalityType
    <3>3. Used(env)' = MaxRetries /\ Used(env) = MaxRetries
      BY <1>1, <1>3, <1>4, <2>5 DEF Used
    <3> QED
      BY <1>5, <2>1, <2>2, <2>3, <3>2, <3>3
  <2> QED
    BY <2>4, <2>5
<1>7. \A req \in net' : req.attempt \in 1..MaxRetries
  BY <1>1, <1>3, <1>5 DEF CopyInv
<1> QED
  BY <1>3, <1>4, <1>5, <1>6, <1>7 DEF CopyInv

LEMMA CopiesAccept ==
  ASSUME TypeOK, CopyInv, NEW req \in net, Accept(req)
  PROVE  CopyInv'
<1> PICK e \in Envelopes : e = req.env
  BY DEF TypeOK, Requests
<1>1. PICK st \in Statuses : net' = net \ {req} /\ Respond(req, st)
  BY AcceptFrame
<1>2. (send' = NoSend <=> send = NoSend) /\ (send # NoSend => send'.req = send.req)
  BY <1>1, NoSendAssumption DEF Respond, TypeOK, Sends
<1>3. \A env : Used(env)' = Used(env)
  BY <1>2 DEF Used
<1>4. MaxRetries \in Nat
  BY BoundAssumption
<1>5. journal' = journal \/ AppendToJournal(e)
  BY DEF Accept, RefuseStopped, AcceptReject, AcceptDuplicate, AcceptNew, AcceptIoError,
         AcceptUnread, AcceptMismatch, AcceptSwapped
<1>6. ASSUME NEW env \in Envelopes
      PROVE  (Cardinality(Copies(env)) + Cardinality(Attempts(env)) <= Used(env))'
  <2>1. /\ IsFiniteSet(Attempts(env)) /\ Cardinality(Attempts(env)) \in Nat
        /\ IsFiniteSet(Copies(env)) /\ Cardinality(Copies(env)) \in Nat
    BY AttemptsAreFinite, CopiesAreFinite DEF CopyInv
  <2>2. Cardinality(Copies(env)) + Cardinality(Attempts(env)) <= Used(env) /\ Used(env) \in Nat
    BY <1>4 DEF CopyInv, Used
  <2>3. /\ Attempts(env)' \subseteq Attempts(env)
        /\ Cardinality(Attempts(env)') <= Cardinality(Attempts(env))
        /\ Cardinality(Attempts(env)') \in Nat
    <3>1. Attempts(env)' \subseteq Attempts(env)
      BY <1>1 DEF Attempts
    <3> QED
      BY <2>1, <3>1, FS_Subset, FS_CardinalityType
  <2>4. CASE Copies(env)' = Copies(env)
    BY <1>3, <2>1, <2>2, <2>3, <2>4
  <2>5. CASE AppendToJournal(e) /\ env = e
    <3> PICK d \in Channels : d = e.key.ch
      BY DEF Envelopes, Keys
    <3> PICK x : x = Len(journal[d]) + 1
      OBVIOUS
    <3>1. /\ journal'[d] = Append(journal[d], e) /\ journal[d] \in Seq(Envelopes)
      BY <2>5 DEF AppendToJournal, TypeOK
    <3>2. /\ Len(journal'[d]) = Len(journal[d]) + 1 /\ Len(journal[d]) \in Nat
          /\ \A i \in 1..Len(journal[d]) : journal'[d][i] = journal[d][i]
      BY <3>1
    <3>3. Copies(env)' \subseteq Copies(env) \cup {x}
      BY <2>5, <3>2 DEF Copies
    <3>4. /\ IsFiniteSet(Copies(env) \cup {x})
          /\ Cardinality(Copies(env) \cup {x}) <= Cardinality(Copies(env)) + 1
      BY <2>1, OneMore
    <3>5. /\ Cardinality(Copies(env)') <= Cardinality(Copies(env) \cup {x})
          /\ Cardinality(Copies(env)') \in Nat
          /\ Cardinality(Copies(env) \cup {x}) \in Nat
      BY <3>3, <3>4, FS_Subset, FS_CardinalityType
    <3>6. req.attempt \in Attempts(env) /\ Attempts(env)' \subseteq Attempts(env) \ {req.attempt}
      <4>1. \A r \in Requests : r = [env |-> r.env, attempt |-> r.attempt]
        BY DEF Requests
      <4>2. \A r \in net : r.env = req.env /\ r.attempt = req.attempt => r = req
        BY <4>1 DEF TypeOK
      <4> QED
        BY <1>1, <2>5, <4>2 DEF Attempts
    <3>7. /\ IsFiniteSet(Attempts(env) \ {req.attempt})
          /\ Cardinality(Attempts(env) \ {req.attempt}) = Cardinality(Attempts(env)) - 1
      BY <2>1, <3>6, FS_RemoveElement
    <3>8. /\ Cardinality(Attempts(env)') <= Cardinality(Attempts(env) \ {req.attempt})
          /\ Cardinality(Attempts(env) \ {req.attempt}) \in Nat
      BY <3>6, <3>7, FS_Subset, FS_CardinalityType
    <3> QED
      BY <1>3, <2>1, <2>2, <2>3, <3>4, <3>5, <3>7, <3>8
  <2>6. CASE AppendToJournal(e) /\ env # e
    <3>1. Copies(env)' = Copies(env)
      <4> PICK d \in Channels : d = e.key.ch
        BY DEF Envelopes, Keys
      <4> PICK c \in Channels : c = env.key.ch
        BY DEF Envelopes, Keys
      <4>1. CASE c # d
        <5>1. journal'[c] = journal[c]
          BY <2>6, <4>1 DEF AppendToJournal, TypeOK
        <5> QED
          BY <5>1 DEF Copies
      <4>2. CASE c = d
        <5>1. journal'[d] = Append(journal[d], e) /\ journal[d] \in Seq(Envelopes)
          BY <2>6 DEF AppendToJournal, TypeOK
        <5>2. /\ Len(journal'[d]) = Len(journal[d]) + 1 /\ Len(journal[d]) \in Nat
              /\ \A i \in 1..Len(journal[d]) : journal'[d][i] = journal[d][i]
              /\ journal'[d][Len(journal[d]) + 1] = e
          BY <5>1
        <5>3. 1..Len(journal'[d]) = 1..Len(journal[d]) \cup {Len(journal[d]) + 1}
          BY <5>2
        <5> QED
          BY <2>6, <4>2, <5>2, <5>3 DEF Copies
      <4> QED
        BY <4>1, <4>2
    <3> QED
      BY <2>4, <3>1
  <2>7. journal' = journal => Copies(env)' = Copies(env)
    BY DEF Copies
  <2> QED
    BY <1>5, <2>4, <2>5, <2>6, <2>7
<1>7. \A r \in net' : r.attempt \in 1..MaxRetries
  BY <1>1 DEF CopyInv
<1> QED
  BY <1>2, <1>6, <1>7 DEF CopyInv

LEMMA CopiesStep ==
  ASSUME TypeOK, IdentityInv, CopyInv, [Next]_vars
  PROVE  CopyInv'
<1> USE DEF receiverVars, senderVars
<1>1. CASE UNCHANGED vars
  BY <1>1, CopiesShrink DEF vars
<1>2. CASE Producer
  BY <1>2, CopiesShrink DEF Producer, AppendLine, RemoveFile
<1>3. CASE PollTicks \/ SenderExit \/ EndTicks \/ EndDom \/ SkipMalformed
  BY <1>3, CopiesShrink DEF PollTicks, SenderExit, EndTicks, EndDom, SkipMalformed
<1>4. CASE SendSucceeds \/ SendFails
  BY <1>4, CopiesShrink DEF SendSucceeds, SendFails, GivenUp
<1>5. CASE SenderLifecycle
  BY <1>5, CopiesShrink DEF SenderLifecycle, SenderStart, SenderStop, SenderKilled
<1>6. CASE ReceiverLifecycle
  BY <1>6, CopiesShrink DEF ReceiverLifecycle, ReceiverStart, ReceiverStop, ReceiverExit
<1> QED
  BY <1>1, <1>2, <1>3, <1>4, <1>5, <1>6, CopiesPost, CopiesRetry, CopiesAccept
  DEF Next, SenderLoop, AttemptEnds

\* However an append ends, it uses up an attempt: for every window, retry limit, fault
\* set and schedule of crashes and late requests, a payload is in the journals at most
\* once for each POST attempt its sender may make.
THEOREM CopiesAreBounded == Spec => []CopiesAreAttempts
<1>1. Init => CopyInv
  <2> SUFFICES ASSUME Init PROVE CopyInv
    OBVIOUS
  <2>1. Len(<<>>) = 0 /\ 1..0 = {}
    OBVIOUS
  <2>2. \A env \in Envelopes : Copies(env) = {} /\ Attempts(env) = {}
    <3>1. \A env \in Envelopes : env.key.ch \in Channels
      BY DEF Envelopes, Keys
    <3> QED
      BY <2>1, <3>1 DEF Init, Copies, Attempts
  <2>3. \A env : Used(env) = MaxRetries
    BY DEF Init, Used
  <2>4. Cardinality({}) = 0 /\ MaxRetries \in Nat
    BY FS_EmptySet, BoundAssumption
  <2>5. \A env \in Envelopes :
          Cardinality(Copies(env)) + Cardinality(Attempts(env)) <= Used(env)
    BY <2>2, <2>3, <2>4
  <2> QED
    BY <2>5 DEF Init, CopyInv
<1>2. TypeOK /\ IdentityInv /\ CopyInv /\ [Next]_vars => CopyInv'
  BY CopiesStep
<1>3. TypeOK /\ CopyInv => CopiesAreAttempts
  <2> SUFFICES ASSUME TypeOK, CopyInv, NEW c \in Channels, NEW i \in 1..Len(journal[c])
               PROVE  Cardinality(Copies(journal[c][i])) <= MaxRetries
    BY DEF CopiesAreAttempts
  <2> PICK env \in Envelopes : env = journal[c][i]
    BY DEF TypeOK
  <2>1. Cardinality(Copies(env)) \in Nat /\ Cardinality(Attempts(env)) \in Nat
    BY CopiesAreFinite, AttemptsAreFinite DEF CopyInv
  <2>2. Cardinality(Copies(env)) + Cardinality(Attempts(env)) <= Used(env)
    BY DEF CopyInv
  <2>3. Used(env) <= MaxRetries /\ Used(env) \in Nat /\ MaxRetries \in Nat
    BY BoundAssumption DEF Used, CopyInv
  <2> QED
    BY <2>1, <2>2, <2>3
<1> QED
  BY <1>1, <1>2, <1>3, IdentityAlways, PTL DEF Spec

-----------------------------------------------------------------------------
(* Source lines: a session offers each line once.                           *)

\* What the running sender has used up of a channel: its numbers and the lines
\* of its envelopes.
Marks(c) ==
  {seq[c]} \cup {e.line : e \in {f \in Known : f.key.sess = session /\ f.key.ch = c}}

\* the lines still to be posted from the batch
Pending(c) == IF phase = c THEN {batch[i] : i \in 1..Len(batch)} ELSE {}

\* A poll will return no line up to l any more, unless it skips to the end.
Behind(c, l) ==
  /\ l <= produced[c]
  /\ file[c].present /\ ~Replaced(tail[c], file[c]) =>
       l <= file[c].base + ReadFrom(tail[c], file[c])

FilesHoldTheNewest ==
  \A c \in Channels : file[c].present => produced[c] = file[c].base + file[c].size

BatchAscends == \A i, j \in 1..Len(batch) : i < j => batch[i] < batch[j]

TailInv ==
  /\ FilesHoldTheNewest
  /\ \A c \in Channels : \A l \in Marks(c) \cup Pending(c) : Behind(c, l)
  /\ \A c \in Channels : \A l \in Marks(c), b \in Pending(c) : l < b
  /\ BatchAscends

OfferInv == TailInv /\ LineOfferedOnce

LEMMA KnownStep ==
  ASSUME TypeOK, Next
  PROVE  \/ Known' \subseteq Known
         \/ PostLine /\ Known' \subseteq Known \cup {NextEnvelope}
<1>1. CASE UNCHANGED <<acked, abandoned, send>>
  BY <1>1 DEF Known
<1>2. CASE Producer
  BY <1>1, <1>2 DEF Producer, AppendLine, RemoveFile, senderVars
<1>3. CASE SenderLoop
  <2>1. CASE PostLine
    <3>1. /\ send'.req.env = NextEnvelope
          /\ UNCHANGED <<acked, abandoned>>
      BY <2>1 DEF PostLine, Post
    <3> QED
      BY <2>1, <3>1 DEF Known
  <2> QED
    BY <1>1, <1>3, <2>1 DEF SenderLoop, PollTicks, SenderExit, EndTicks, EndDom, SkipMalformed
<1>4. CASE AttemptEnds
  <2>1. send # NoSend
    BY <1>4 DEF AttemptEnds, SendSucceeds, AttemptFails, SendFails
  <2>2. NextAttempt(send.req).env = send.req.env
    BY <2>1 DEF NextAttempt, TypeOK, Sends, Requests
  <2>3. CASE SendSucceeds
    BY <2>1, <2>3 DEF SendSucceeds, Known
  <2>4. CASE AttemptFails
    BY <2>1, <2>2, <2>4 DEF AttemptFails, Known
  <2>5. CASE SendFails
    BY <2>1, <2>5 DEF SendFails, Known
  <2> QED
    BY <1>4, <2>3, <2>4, <2>5 DEF AttemptEnds
<1>5. CASE SenderLifecycle
  BY <1>5 DEF SenderLifecycle, SenderStart, SenderStop, SenderKilled, Known
<1>6. CASE ReceiverLifecycle
  BY <1>1, <1>6 DEF ReceiverLifecycle, ReceiverStart, ReceiverStop, ReceiverExit, senderVars
<1>7. ASSUME NEW req \in net, Accept(req)
      PROVE  Known' \subseteq Known
  <2>1. UNCHANGED <<acked, abandoned>>
    BY <1>7, AcceptFrame DEF sourceVars
  <2>2. \E st \in Statuses : Respond(req, st)
    BY <1>7, AcceptFrame
  <2> QED
    BY <2>1, <2>2, NoSendAssumption DEF Known, Respond, TypeOK, Sends
<1> QED
  BY <1>2, <1>3, <1>4, <1>5, <1>6, <1>7 DEF Next

LEMMA OfferTypes ==
  ASSUME TypeOK
  PROVE  /\ \A c \in Channels : /\ produced[c] \in Nat /\ seq[c] \in Nat
                                /\ file[c] \in [present : BOOLEAN, id : Nat, base : Nat, size : Nat]
                                /\ tail[c] \in [id : Nat, off : Nat]
                                /\ ReadFrom(tail[c], file[c]) \in Nat
                                /\ ReadFrom(tail[c], file[c]) <= file[c].size
                                /\ Marks(c) \subseteq Nat /\ Pending(c) \subseteq Nat
         /\ \A e \in Known : e.line \in Nat /\ e.key.ch \in Channels
         /\ session \in Nat
<1>1. \A c \in Channels : /\ produced[c] \in Nat /\ seq[c] \in Nat
                          /\ file[c] \in [present : BOOLEAN, id : Nat, base : Nat, size : Nat]
                          /\ tail[c] \in [id : Nat, off : Nat]
  BY DEF TypeOK
<1>2. ASSUME NEW t \in [id : Nat, off : Nat],
             NEW f \in [present : BOOLEAN, id : Nat, base : Nat, size : Nat]
      PROVE  ReadFrom(t, f) \in Nat /\ ReadFrom(t, f) <= f.size
  BY DEF ReadFrom
<1>3. \A e \in Known : e.line \in Nat /\ e.key.ch \in Channels
  BY EnvelopesTyped DEF Everywhere, Envelopes, Keys
<1>4. \A c \in Channels : Marks(c) \subseteq Nat
  BY <1>1, <1>3 DEF Marks
<1>5. \A c \in Channels : Pending(c) \subseteq Nat
  BY DEF TypeOK, Pending
<1> QED
  BY <1>1, <1>2, <1>3, <1>4, <1>5 DEF TypeOK

\* Fewer envelopes, the same numbers and lines: nothing to show.
LEMMA OfferShrinks ==
  ASSUME TypeOK, OfferInv, Known' \subseteq Known,
         UNCHANGED <<produced, file, tail, session, seq>>,
         \/ UNCHANGED <<phase, batch>>
         \/ phase' \notin Channels /\ (batch' = batch \/ batch' = <<>>)
  PROVE  OfferInv'
<1>1. \A c \in Channels : Marks(c)' \subseteq Marks(c) /\ Pending(c)' \subseteq Pending(c)
  BY DEF Marks, Pending
<1>2. BatchAscends'
  BY DEF OfferInv, TailInv, BatchAscends
<1>3. LineOfferedOnce'
  BY DEF OfferInv, LineOfferedOnce
<1>4. \A c \in Channels : \A l : Behind(c, l)' <=> Behind(c, l)
  BY DEF Behind
<1> QED
  BY <1>1, <1>2, <1>3, <1>4 DEF OfferInv, TailInv, FilesHoldTheNewest

LEMMA ProducerOffers ==
  ASSUME TypeOK, OfferInv, Producer
  PROVE  OfferInv'
<1>1. PICK c \in Channels : AppendLine(c) \/ RemoveFile(c)
  BY DEF Producer
<1>2. UNCHANGED <<acked, abandoned, send, session, seq, phase, batch, tail>>
  BY <1>1 DEF AppendLine, RemoveFile, senderVars
<1>3. Known' = Known
  BY <1>2 DEF Known
<1>4. \A d \in Channels : Marks(d)' = Marks(d) /\ Pending(d)' = Pending(d)
  BY <1>2, <1>3 DEF Marks, Pending
<1>5. BatchAscends' /\ LineOfferedOnce'
  BY <1>2, <1>3 DEF OfferInv, TailInv, BatchAscends, LineOfferedOnce
<1>6. ASSUME NEW d \in Channels
      PROVE  /\ file'[d].present => produced'[d] = file'[d].base + file'[d].size
             /\ \A l \in Nat : Behind(d, l) => Behind(d, l)'
  <2> DEFINE f == file[d]
             t == tail[d]
             p == produced[d]
  <2>1. /\ f \in [present : BOOLEAN, id : Nat, base : Nat, size : Nat]
        /\ t \in [id : Nat, off : Nat] /\ p \in Nat
        /\ f.present => p = f.base + f.size
    BY OfferTypes DEF OfferInv, TailInv, FilesHoldTheNewest
  <2>2. CASE file'[d] = f /\ produced'[d] = p
    BY <1>2, <2>1, <2>2 DEF Behind
  <2>3. CASE f.present /\ file'[d] = [f EXCEPT !.size = @ + 1] /\ produced'[d] = p + 1
    <3>1. /\ file'[d].present = f.present /\ file'[d].id = f.id /\ file'[d].base = f.base
          /\ file'[d].size = f.size + 1
      BY <2>1, <2>3
    <3>2. ReadFrom(t, file'[d]) >= ReadFrom(t, f) /\ ReadFrom(t, f) \in Nat /\ ReadFrom(t, file'[d]) \in Nat
      BY <2>1, <3>1 DEF ReadFrom
    <3>3. Replaced(t, file'[d]) <=> Replaced(t, f)
      BY <3>1 DEF Replaced
    <3>4. tail'[d] = t
      BY <1>2
    <3> HIDE DEF f, t, p
    <3>5. \A l \in Nat : Behind(d, l) <=> l <= p /\ (~Replaced(t, f) => l <= f.base + ReadFrom(t, f))
      BY <2>3 DEF Behind, f, t, p
    <3>6. \A l \in Nat : Behind(d, l)' <=>
            l <= p + 1 /\ (~Replaced(t, file'[d]) => l <= f.base + ReadFrom(t, file'[d]))
      BY <2>3, <3>1, <3>4 DEF Behind
    <3> QED
      BY <2>1, <2>3, <3>1, <3>2, <3>3, <3>5, <3>6
  <2>4. CASE ~f.present /\ \E i \in Nat : file'[d] = [present |-> TRUE, id |-> i, base |-> p, size |-> 1]
             /\ produced'[d] = p + 1
    <3>1. file'[d].base = p /\ file'[d].size = 1 /\ produced'[d] = p + 1
      BY <2>4
    <3>2. tail'[d] = t
      BY <1>2
    <3>3. ReadFrom(t, file'[d]) \in Nat
      BY <2>1, <3>1 DEF ReadFrom
    <3>4. \A l \in Nat : Behind(d, l) => l <= p
      BY DEF Behind
    <3> HIDE DEF f, t, p
    <3>5. \A l \in Nat : l <= p => Behind(d, l)'
      BY <2>1, <3>1, <3>2, <3>3 DEF Behind
    <3> QED
      BY <3>1, <3>4, <3>5
  <2>5. CASE ~file'[d].present /\ produced'[d] = p
    BY <1>2, <2>1, <2>5 DEF Behind
  <2> QED
    <3>1. CASE d # c
      <4>1. file'[d] = file[d] /\ produced'[d] = produced[d]
        BY <1>1, <3>1 DEF AppendLine, RemoveFile, TypeOK
      <4> QED
        BY <2>2, <4>1
    <3>2. CASE d = c /\ AppendLine(c)
      <4>1. produced'[d] = p + 1
        BY <3>2 DEF AppendLine, TypeOK
      <4>2. \/ f.present /\ file'[d] = [f EXCEPT !.size = @ + 1]
            \/ ~f.present /\ \E i \in Nat : file'[d] = [present |-> TRUE, id |-> i, base |-> p, size |-> 1]
        <5>1. f.present /\ file' = [file EXCEPT ![c].size = @ + 1] =>
                file'[d] = [f EXCEPT !.size = @ + 1]
          BY <3>2 DEF TypeOK
        <5>2. ASSUME NEW i \in 1..FileBound,
                     file' = [file EXCEPT ![c] = [present |-> TRUE, id |-> i,
                                                  base |-> produced[c], size |-> 1]]
              PROVE  file'[d] = [present |-> TRUE, id |-> i, base |-> p, size |-> 1] /\ i \in Nat
          BY <3>2, <5>2, BoundAssumption DEF TypeOK
        <5> QED
          BY <3>2, <5>1, <5>2 DEF AppendLine
      <4> QED
        BY <2>3, <2>4, <4>1, <4>2
    <3>3. CASE d = c /\ RemoveFile(c)
      <4>1. ~file'[d].present /\ produced'[d] = produced[d]
        BY <3>3 DEF RemoveFile, TypeOK
      <4> QED
        BY <2>5, <4>1
    <3> QED
      BY <1>1, <3>1, <3>2, <3>3
<1> QED
  BY <1>4, <1>5, <1>6, OfferTypes DEF OfferInv, TailInv, FilesHoldTheNewest

\* The lines of a poll are the ones behind the tail, in order, up to the newest.
LEMMA PolledAscend ==
  ASSUME NEW t \in [id : Nat, off : Nat],
         NEW f \in [present : BOOLEAN, id : Nat, base : Nat, size : Nat],
         NEW b, b = PolledLines(t, f)
  PROVE  /\ b \in Seq(Nat)
         /\ \A i, j \in 1..Len(b) : i < j => b[i] < b[j]
         /\ \A i \in 1..Len(b) : /\ f.present /\ ~Replaced(t, f)
                                 /\ f.base + ReadFrom(t, f) < b[i] /\ b[i] <= f.base + f.size
<1>1. b \in Seq(Nat)
  BY PolledLinesType
<1>2. CASE ~f.present \/ Replaced(t, f)
  <2>1. b = <<>>
    BY <1>2 DEF PolledLines
  <2> QED
    BY <1>1, <2>1
<1>3. CASE f.present /\ ~Replaced(t, f)
  <2> DEFINE r == ReadFrom(t, f)
             n == f.size - r
  <2>1. r \in Nat /\ r <= f.size
    BY DEF ReadFrom
  <2>2. b = [i \in 1..n |-> f.base + r + i]
    BY <1>3 DEF PolledLines, Lines
  <2> HIDE DEF r
  <2>3. n \in Nat
    BY <2>1
  <2> HIDE DEF n
  <2>4. Len(b) = n
    BY <1>1, <2>2, <2>3
  <2>5. \A i \in 1..Len(b) : b[i] = f.base + r + i
    BY <2>2, <2>4
  <2>6. \A i \in 1..Len(b) : f.base + r < b[i] /\ b[i] <= f.base + f.size
    BY <2>1, <2>3, <2>4, <2>5 DEF n
  <2>7. \A i, j \in 1..Len(b) : i < j => b[i] < b[j]
    BY <2>1, <2>3, <2>4, <2>5
  <2> QED
    BY <1>1, <1>3, <2>6, <2>7 DEF r
<1> QED
  BY <1>2, <1>3

LEMMA PollOffers ==
  ASSUME TypeOK, OfferInv, NEW c \in Channels, Poll(c),
         UNCHANGED <<produced, file, session, seq, send, acked, abandoned>>
  PROVE  OfferInv'
<1>1. Known' = Known
  BY DEF Known
<1>2. LineOfferedOnce'
  BY <1>1 DEF OfferInv, LineOfferedOnce
<1>3. \A d \in Channels : Marks(d)' = Marks(d)
  BY <1>1 DEF Marks
<1> DEFINE f == file[c]
           t == tail[c]
           b == batch'
<1>4. /\ f \in [present : BOOLEAN, id : Nat, base : Nat, size : Nat]
      /\ t \in [id : Nat, off : Nat] /\ produced[c] \in Nat
      /\ f.present => produced[c] = f.base + f.size
  BY OfferTypes DEF OfferInv, TailInv, FilesHoldTheNewest
<1>5. phase' = c /\ b = PolledLines(t, f) /\ tail' = [tail EXCEPT ![c] = TailAfterPoll(t, f)]
  BY DEF Poll
<1>6. tail'[c] = TailAfterPoll(t, f) /\ \A d \in Channels : d # c => tail'[d] = tail[d]
  BY <1>5 DEF TypeOK
<1>7. /\ b \in Seq(Nat)
      /\ \A i, j \in 1..Len(b) : i < j => b[i] < b[j]
      /\ \A i \in 1..Len(b) : /\ f.present /\ ~Replaced(t, f)
                              /\ f.base + ReadFrom(t, f) < b[i] /\ b[i] <= f.base + f.size
  BY <1>4, <1>5, PolledAscend
<1>8. BatchAscends'
  BY <1>7 DEF BatchAscends
<1>9. \A d \in Channels : Pending(d)' = IF d = c THEN {b[i] : i \in 1..Len(b)} ELSE {}
  BY <1>5 DEF Pending
<1>10. \A l \in Nat : l <= produced[c] => Behind(c, l)'
  <2>1. f.present => tail'[c].off = f.size
    BY <1>6 DEF TailAfterPoll
  <2>2. f.present => ReadFrom(tail'[c], f) = f.size
    BY <1>4, <2>1 DEF ReadFrom
  <2> QED
    BY <1>4, <2>2 DEF Behind
<1>11. \A d \in Channels : d # c => \A l : Behind(d, l)' <=> Behind(d, l)
  BY <1>6 DEF Behind
<1>12. \A d \in Channels : \A l \in (Marks(d) \cup Pending(d))' : Behind(d, l)'
  <2> SUFFICES ASSUME NEW d \in Channels, NEW l \in (Marks(d) \cup Pending(d))'
               PROVE  Behind(d, l)'
    OBVIOUS
  <2>1. CASE d # c
    BY <1>3, <1>9, <1>11, <2>1 DEF OfferInv, TailInv
  <2>2. CASE d = c /\ l \in Marks(c)
    <3>1. l \in Nat /\ l <= produced[c]
      BY <2>2, OfferTypes DEF OfferInv, TailInv, Behind
    <3> QED
      BY <1>10, <2>2, <3>1
  <2>3. CASE d = c /\ l \in {b[i] : i \in 1..Len(b)}
    <3>1. l \in Nat /\ l <= produced[c]
      BY <1>4, <1>7, <2>3
    <3> QED
      BY <1>10, <2>3, <3>1
  <2> QED
    BY <1>3, <1>9, <2>1, <2>2, <2>3
<1>13. \A d \in Channels : \A l \in Marks(d)', p \in Pending(d)' : l < p
  <2> SUFFICES ASSUME NEW l \in Marks(c), NEW i \in 1..Len(b)
               PROVE  l < b[i]
    BY <1>3, <1>9
  <2>1. l \in Nat /\ Behind(c, l) /\ b[i] \in Nat
    BY <1>7, OfferTypes DEF OfferInv, TailInv
  <2>2. l <= f.base + ReadFrom(t, f) /\ f.base + ReadFrom(t, f) < b[i]
    BY <1>7, <2>1 DEF Behind
  <2>3. f.base + ReadFrom(t, f) \in Nat
    BY <1>4, OfferTypes
  <2> QED
    BY <2>1, <2>2, <2>3
<1>14. FilesHoldTheNewest'
  BY DEF OfferInv, TailInv, FilesHoldTheNewest
<1> QED
  BY <1>2, <1>8, <1>12, <1>13, <1>14 DEF OfferInv, TailInv

LEMMA StartOffers ==
  ASSUME TypeOK, IdentityInv, OfferInv, SenderStart
  PROVE  OfferInv'
<1>1. UNCHANGED <<produced, file, batch, send, acked, abandoned>> /\ phase' = "idle"
      /\ session' = session + 1 /\ seq' = [c \in Channels |-> 0]
  BY DEF SenderStart, NextSession, sourceVars
<1>2. Known' = Known
  BY <1>1 DEF Known
<1>3. \A e \in Known : e.key.sess # session'
  BY <1>1, EnvelopesTyped, OfferTypes DEF IdentityInv, Everywhere, Envelopes, Keys
<1>4. \A c \in Channels : Marks(c)' = {0} /\ Pending(c)' = {}
  BY <1>1, <1>2, <1>3 DEF Marks, Pending, Channels
<1>5. TypeOK'
  BY StepType DEF Next, SenderLifecycle
<1>6. \A c \in Channels : Behind(c, 0)'
  <2> SUFFICES ASSUME NEW c \in Channels PROVE Behind(c, 0)'
    OBVIOUS
  <2>1. /\ produced'[c] \in Nat /\ file'[c].base \in Nat
        /\ tail'[c] \in [id : Nat, off : Nat] /\ file'[c].size \in Nat
    BY <1>5 DEF TypeOK
  <2>2. ReadFrom(tail'[c], file'[c]) \in Nat
    BY <2>1 DEF ReadFrom
  <2> QED
    BY <2>1, <2>2 DEF Behind
<1>7. FilesHoldTheNewest' /\ BatchAscends' /\ LineOfferedOnce'
  BY <1>1, <1>2 DEF OfferInv, TailInv, FilesHoldTheNewest, BatchAscends, LineOfferedOnce
<1> QED
  BY <1>4, <1>6, <1>7 DEF OfferInv, TailInv

\* Taking the head off the batch leaves its later, larger lines.
LEMMA TailOfBatch ==
  ASSUME TypeOK, BatchAscends, batch # <<>>, batch' = Tail(batch), NEW p \in Channels, phase = p,
         phase' = p
  PROVE  /\ Head(batch) \in Pending(p) /\ Head(batch) \in Nat
         /\ Pending(p)' \subseteq Pending(p)
         /\ \A b \in Pending(p)' : Head(batch) < b
         /\ BatchAscends'
<1>1. /\ batch \in Seq(Nat) /\ Len(batch) > 0
      /\ Len(batch') = Len(batch) - 1
      /\ \A i \in 1..Len(batch') : i + 1 \in 1..Len(batch) /\ batch'[i] = batch[i + 1]
      /\ Head(batch) = batch[1] /\ 1 \in 1..Len(batch)
  BY DEF TypeOK
<1>2. \A i \in 1..Len(batch') : batch[1] < batch'[i]
  BY <1>1 DEF BatchAscends
<1>3. BatchAscends'
  BY <1>1 DEF BatchAscends
<1> QED
  BY <1>1, <1>2, <1>3 DEF Pending

LEMMA SkipOffers ==
  ASSUME TypeOK, OfferInv, SkipMalformed
  PROVE  OfferInv'
<1> PICK p \in Channels : phase = p
  BY DEF SkipMalformed, InLoop
<1>1. /\ UNCHANGED <<produced, file, tail, session, seq, acked, abandoned, send>>
      /\ phase' = p /\ batch # <<>> /\ batch' = Tail(batch)
  BY DEF SkipMalformed, InLoop, LoopLeft, sourceVars
<1>2. Known' = Known
  BY <1>1 DEF Known
<1>3. Pending(p)' \subseteq Pending(p) /\ BatchAscends'
  BY <1>1, TailOfBatch DEF OfferInv, TailInv
<1>4. \A c \in Channels : Marks(c)' = Marks(c) /\ Pending(c)' \subseteq Pending(c)
  BY <1>1, <1>2, <1>3 DEF Marks, Pending
<1>5. \A c \in Channels : \A l : Behind(c, l)' <=> Behind(c, l)
  BY <1>1 DEF Behind
<1>6. FilesHoldTheNewest' /\ LineOfferedOnce'
  BY <1>1, <1>2 DEF OfferInv, TailInv, FilesHoldTheNewest, LineOfferedOnce
<1> QED
  BY <1>3, <1>4, <1>5, <1>6 DEF OfferInv, TailInv

LEMMA PostOffers ==
  ASSUME TypeOK, OfferInv, PostLine
  PROVE  OfferInv'
<1> PICK p \in Channels : phase = p
  BY DEF PostLine, InLoop
<1>1. /\ UNCHANGED <<produced, file, tail, session, acked, abandoned>>
      /\ phase' = p /\ batch # <<>> /\ batch' = Tail(batch)
      /\ seq' = [seq EXCEPT ![p] = @ + 1]
      /\ send'.req.env = NextEnvelope
  BY DEF PostLine, InLoop, LoopLeft, Post, sourceVars
<1> DEFINE h == Head(batch)
<1>2. Known' \subseteq Known \cup {NextEnvelope}
  BY <1>1 DEF Known
<1>3. /\ NextEnvelope.key.sess = session /\ NextEnvelope.key.ch = p
      /\ NextEnvelope.line = h
  BY DEF NextEnvelope
<1>4. /\ h \in Pending(p) /\ h \in Nat
      /\ Pending(p)' \subseteq Pending(p)
      /\ \A b \in Pending(p)' : h < b
      /\ BatchAscends'
  BY <1>1, TailOfBatch DEF OfferInv, TailInv
<1> HIDE DEF h
<1>5. \A l \in Marks(p) : l \in Nat /\ l < h
  BY <1>1, <1>4, OfferTypes DEF OfferInv, TailInv
<1>6. seq[p] \in Marks(p) /\ seq[p] \in Nat
  BY <1>1, OfferTypes DEF Marks
<1>7. seq'[p] = seq[p] + 1 /\ \A c \in Channels : c # p => seq'[c] = seq[c]
  BY <1>1 DEF TypeOK
<1>8. \A c \in Channels : c # p => Marks(c)' \subseteq Marks(c) /\ Pending(c)' = {}
  BY <1>1, <1>2, <1>3, <1>7 DEF Marks, Pending
<1>9. Marks(p)' \subseteq Marks(p) \cup {h, seq[p] + 1}
  BY <1>1, <1>2, <1>3, <1>7 DEF Marks
<1>10. \A l \in Marks(p)' : l \in Nat /\ l <= h
  <2>1. seq[p] + 1 <= h
    BY <1>4, <1>5, <1>6
  <2> QED
    BY <1>4, <1>5, <1>6, <1>9, <2>1
<1>11. \A c \in Channels : \A l : Behind(c, l)' <=> Behind(c, l)
  BY <1>1 DEF Behind
<1>12. \A l \in Nat : l <= h => Behind(p, l)
  <2>1. Behind(p, h)
    BY <1>1, <1>4 DEF OfferInv, TailInv
  <2>2. /\ produced[p] \in Nat
        /\ file[p].base + ReadFrom(tail[p], file[p]) \in Nat
    BY <1>1, OfferTypes
  <2> QED
    BY <1>4, <2>1, <2>2 DEF Behind
<1>13. \A c \in Channels : \A l \in (Marks(c) \cup Pending(c))' : Behind(c, l)'
  <2> SUFFICES ASSUME NEW c \in Channels, NEW l \in (Marks(c) \cup Pending(c))'
               PROVE  Behind(c, l)
    BY <1>11
  <2>1. CASE c # p
    BY <1>8, <2>1 DEF OfferInv, TailInv
  <2>2. CASE c = p
    BY <1>4, <1>10, <1>12, <2>2 DEF OfferInv, TailInv
  <2> QED
    BY <2>1, <2>2
<1>14. \A c \in Channels : \A l \in Marks(c)', b \in Pending(c)' : l < b
  <2> SUFFICES ASSUME NEW l \in Marks(p)', NEW b \in Pending(p)'
               PROVE  l < b
    BY <1>8
  <2>1. l \in Nat /\ l <= h /\ h < b /\ b \in Nat
    BY <1>1, <1>4, <1>10, OfferTypes
  <2> QED
    BY <1>4, <2>1
<1>15. LineOfferedOnce'
  <2> SUFFICES ASSUME NEW e \in Known', NEW f \in Known',
                      e.key.sess = f.key.sess, e.key.ch = f.key.ch, e.line = f.line
               PROVE  e = f
    BY DEF LineOfferedOnce
  <2>1. ASSUME NEW x \in Known, x.key.sess = session, x.key.ch = p, x.line = h
        PROVE  FALSE
    <3>1. x.line \in Marks(p)
      BY <2>1 DEF Marks
    <3> QED
      BY <1>5, <2>1, <3>1
  <2>2. CASE e \in Known /\ f \in Known
    BY <2>2 DEF OfferInv, LineOfferedOnce
  <2> QED
    BY <1>2, <1>3, <2>1, <2>2
<1>16. FilesHoldTheNewest'
  BY <1>1 DEF OfferInv, TailInv, FilesHoldTheNewest
<1> QED
  BY <1>4, <1>13, <1>14, <1>15, <1>16 DEF OfferInv, TailInv

LEMMA OfferStep ==
  ASSUME TypeOK, IdentityInv, OfferInv, [Next]_vars
  PROVE  OfferInv'
<1> USE DEF sourceVars, senderVars, receiverVars
<1>1. ASSUME Next, ~PostLine PROVE Known' \subseteq Known
  BY <1>1, KnownStep
<1>2. CASE UNCHANGED vars
  <2>1. Known' = Known
    BY <1>2 DEF vars, Known
  <2> QED
    BY <1>2, <2>1, OfferShrinks DEF vars
<1>3. CASE Producer
  BY <1>3, ProducerOffers
<1>4. CASE SenderLoop
  <2>1. CASE PollTicks
    BY <2>1, PollOffers DEF PollTicks, Channels
  <2>2. CASE EndTicks
    BY <2>2, PollOffers DEF EndTicks, Channels
  <2>3. CASE SenderExit \/ EndDom
    <3>1. /\ UNCHANGED <<produced, file, tail, session, seq>>
          /\ phase' \notin Channels /\ (batch' = batch \/ batch' = <<>>)
          /\ UNCHANGED <<acked, abandoned, send>>
      BY <2>3 DEF SenderExit, EndDom, Channels
    <3>2. Known' = Known
      BY <3>1 DEF Known
    <3> QED
      BY <3>1, <3>2, OfferShrinks
  <2> QED
    BY <1>4, <2>1, <2>2, <2>3, SkipOffers, PostOffers DEF SenderLoop
<1>5. CASE AttemptEnds
  <2>1. UNCHANGED <<produced, file, tail, session, seq, phase, batch>> /\ ~PostLine
    BY <1>5 DEF AttemptEnds, SendSucceeds, AttemptFails, SendFails, PostLine, InLoop
  <2> QED
    BY <1>1, <1>5, <2>1, OfferShrinks DEF Next
<1>6. CASE SenderStart
  BY <1>6, StartOffers
<1>7. CASE SenderStop \/ SenderKilled
  <2>1. /\ UNCHANGED <<produced, file, tail, session, seq>>
        /\ \/ UNCHANGED <<phase, batch>>
           \/ phase' \notin Channels /\ (batch' = batch \/ batch' = <<>>)
    BY <1>7 DEF SenderStop, SenderKilled, Channels
  <2>2. Known' \subseteq Known
    BY <1>7 DEF SenderStop, SenderKilled, Known
  <2> QED
    BY <2>1, <2>2, OfferShrinks
<1>8. CASE ReceiverLifecycle
  <2>1. UNCHANGED <<produced, file, tail, session, seq, phase, batch, acked, abandoned, send>>
    BY <1>8 DEF ReceiverLifecycle, ReceiverStart, ReceiverStop, ReceiverExit
  <2>2. Known' = Known
    BY <2>1 DEF Known
  <2> QED
    BY <2>1, <2>2, OfferShrinks
<1>9. ASSUME NEW req \in net, Accept(req) PROVE OfferInv'
  <2>1. UNCHANGED <<produced, file, tail, session, seq, phase, batch>>
    BY <1>9, AcceptFrame DEF sourceVars
  <2>2. ~PostLine \/ Known' \subseteq Known
    <3>1. PostLine => seq' # seq
      BY DEF PostLine, InLoop, TypeOK
    <3> QED
      BY <2>1, <3>1
  <2> QED
    BY <1>1, <1>9, <2>1, <2>2, OfferShrinks DEF Next
<1> QED
  BY <1>2, <1>3, <1>4, <1>5, <1>6, <1>7, <1>8, <1>9 DEF Next, SenderLifecycle

LEMMA OfferAlways == Spec => []OfferInv
<1>1. Init => OfferInv
  <2> SUFFICES ASSUME Init PROVE OfferInv
    OBVIOUS
  <2>1. Len(<<>>) = 0 /\ 1..0 = {}
    OBVIOUS
  <2>2. Known = {}
    BY DEF Init, Known
  <2>3. \A c \in Channels : Marks(c) = {0} /\ Pending(c) = {}
    BY <2>1, <2>2 DEF Init, Marks, Pending, Channels
  <2>4. \A c \in Channels : Behind(c, 0) /\ ~file[c].present
    BY DEF Init, Behind
  <2>5. BatchAscends
    BY <2>1 DEF Init, BatchAscends
  <2> QED
    BY <2>2, <2>3, <2>4, <2>5 DEF OfferInv, TailInv, FilesHoldTheNewest, LineOfferedOnce
<1>2. TypeOK /\ IdentityInv /\ OfferInv /\ [Next]_vars => OfferInv'
  BY OfferStep
<1> QED
  BY <1>1, <1>2, IdentityAlways, PTL DEF Spec

\* A sender process offers a source line under one number only, however often the
\* file under its tail is removed, recreated under the same or another inode, or
\* found shorter than the offset: whatever a poll returns lies behind everything the
\* session has numbered.
THEOREM LinesAreOfferedOnce == Spec => []LineOfferedOnce
<1>1. OfferInv => LineOfferedOnce
  BY DEF OfferInv
<1> QED
  BY <1>1, OfferAlways, PTL

-----------------------------------------------------------------------------
(* The order of a journal: one sender process, one receiver process.         *)

Awaited == IF send = NoSend THEN {} ELSE {send.req}

\* The newest number of its channel, and in the window if it was ever appended.
Latest(env) ==
  /\ env.key.seq = seq[env.key.ch]
  /\ \A i \in 1..Len(journal[env.key.ch]) :
       journal[env.key.ch][i].key.seq = env.key.seq => Remembers(seen, env.key)

JournalsAscend ==
  \A c \in Channels : \A i, j \in 1..Len(journal[c]) :
    i < j => journal[c][i].key.seq < journal[c][j].key.seq

JournalsBelow == \A c \in Channels : \A i \in 1..Len(journal[c]) : journal[c][i].key.seq <= seq[c]

NothingYet == net = {} /\ \A c \in Channels : journal[c] = <<>>

OrderInv ==
  /\ JournalsAscend /\ JournalsBelow
  /\ session = 0 => phase = "down" /\ NothingYet
  /\ lives = 0 => rstate = "down" /\ NothingYet
  /\ \A req \in net \cup Awaited : Latest(req.env)
  /\ \A r, q \in net : r = q
  /\ send # NoSend => phase \in Channels /\ net \subseteq {send.req}
  /\ send # NoSend => (send.status = "ok" => net = {})
  /\ phase # "down" /\ send = NoSend => net = {}

OneRun ==
  /\ ~LateDelivery /\ SessionBound <= 1 /\ LifeBound <= 1
  /\ Faults \subseteq {"io_error", "swapped", "stop"}

LEMMA JournalTypes ==
  ASSUME TypeOK
  PROVE  \A c \in Channels : \A i \in 1..Len(journal[c]) :
           journal[c][i] \in Envelopes /\ journal[c][i].key.seq \in Nat
<1>1. \A c \in Channels : \A i \in 1..Len(journal[c]) : journal[c][i] \in Envelopes
  BY DEF TypeOK
<1>2. \A e \in Envelopes : e.key.seq \in Nat
  BY DEF Envelopes, Keys
<1> QED
  BY <1>1, <1>2

LEMMA RememberedIsHeld ==
  ASSUME NEW S, NEW s \in Seq(S), NEW key \in S, NEW w \in Nat \ {0}
  PROVE  Remembers(Remember(s, key, w), key)
<1> DEFINE s1 == Append(s, key)
           r == Evict(s1, w)
<1>1. /\ s1 \in Seq(S) /\ Len(s1) \in Nat \ {0} /\ s1[Len(s1)] = key
  OBVIOUS
<1> HIDE DEF s1
<1>2. /\ Len(r) = (IF Len(s1) > w THEN w ELSE Len(s1))
      /\ \A j \in 1..Len(r) : r[j] = s1[Len(s1) - Len(r) + j]
  BY <1>1, EvictKeepsNewest
<1> HIDE DEF r
<1>3. Len(r) \in 1..Len(r) /\ r[Len(r)] = s1[Len(s1) - Len(r) + Len(r)]
  <2>1. Len(r) \in 1..Len(r)
    BY <1>1, <1>2
  <2> QED
    BY <1>2, <2>1
<1>4. r[Len(r)] = key
  BY <1>1, <1>2, <1>3
<1> QED
  BY <1>3, <1>4 DEF Remembers, Remember, r, s1

\* The steps that change neither journals nor window nor numbers.
LEMMA OrderKept ==
  ASSUME TypeOK, OrderInv, UNCHANGED <<journal, seq, session>>,
         seen' = seen,
         net' \cup Awaited' \subseteq net \cup Awaited \/
           (\A req \in net' \cup Awaited' : \E q \in net \cup Awaited : req.env = q.env)
  PROVE  /\ JournalsAscend' /\ JournalsBelow'
         /\ \A req \in (net \cup Awaited)' : Latest(req.env)'
<1>1. JournalsAscend' /\ JournalsBelow'
  BY DEF OrderInv, JournalsAscend, JournalsBelow
<1>2. \A e : Latest(e)' <=> Latest(e)
  BY DEF Latest
<1> QED
  BY <1>1, <1>2 DEF OrderInv

LEMMA OrderAccept ==
  ASSUME TypeOK, OneRun, OrderInv, NEW req \in net, Accept(req)
  PROVE  OrderInv'
<1>1. /\ req \in Requests /\ req.env \in Envelopes /\ req.env.key \in Keys
      /\ req.env.key.ch \in Channels /\ req.env.key.seq \in Nat
  BY DEF TypeOK, Requests, Envelopes, Keys
<1>2. /\ net' = net \ {req} /\ UNCHANGED <<phase, seq, session, rstate, lives>>
      /\ rstate # "down"
  BY AcceptFrame DEF sourceVars
<1>3. net = {req} /\ net' = {}
  BY <1>2 DEF OrderInv
<1>4. lives # 0 /\ session # 0
  BY <1>2, <1>3 DEF OrderInv, NothingYet
<1>5. send # NoSend => send.req = req
  BY DEF OrderInv
<1>6. PICK st \in Statuses : Respond(req, st)
  BY AcceptFrame
<1>7. (send' = NoSend <=> send = NoSend) /\ Awaited' = Awaited
  BY <1>6, NoSendAssumption DEF Awaited, Respond, TypeOK, Sends
<1>8. ASSUME JournalsAscend', JournalsBelow', Latest(req.env)'
      PROVE  OrderInv'
  <2>1. \A r \in (net \cup Awaited)' : r = req
    BY <1>3, <1>5, <1>7 DEF Awaited
  <2> QED
    BY <1>2, <1>3, <1>4, <1>7, <1>8, <2>1 DEF OrderInv
<1>9. JournalsAscend /\ JournalsBelow /\ Latest(req.env)
  BY DEF OrderInv
<1>10. CASE journal' = journal /\ seen' = seen
  BY <1>2, <1>8, <1>9, <1>10 DEF JournalsAscend, JournalsBelow, Latest
<1>11. CASE AcceptNew(req)
  <2> DEFINE d == req.env.key.ch
             n == req.env.key.seq
  <2>1. journal' = [journal EXCEPT ![d] = Append(@, req.env)] /\ ~Remembers(seen, req.env.key)
        /\ seen' = Remember(seen, req.env.key, W)
    BY <1>11 DEF AcceptNew, ToWrite, AppendToJournal, IsDuplicate, SeenAfterWrite, W
  <2>2. /\ journal[d] \in Seq(Envelopes)
        /\ journal'[d] = Append(journal[d], req.env)
        /\ \A c \in Channels : c # d => journal'[c] = journal[c]
    BY <1>1, <2>1 DEF TypeOK
  <2>3. \A i \in 1..Len(journal[d]) : journal[d][i].key.seq < n
    <3> SUFFICES ASSUME NEW i \in 1..Len(journal[d]) PROVE journal[d][i].key.seq < n
      OBVIOUS
    <3>1. journal[d][i].key.seq <= seq[d] /\ seq[d] = n /\ journal[d][i].key.seq # n
      BY <1>1, <1>9, <2>1 DEF JournalsBelow, Latest
    <3>2. journal[d][i].key.seq \in Nat
      BY <1>1, JournalTypes
    <3> QED
      BY <1>1, <3>1, <3>2
  <2>4. seq[d] = n
    BY <1>9 DEF Latest
  <2>5. /\ Len(journal'[d]) = Len(journal[d]) + 1 /\ Len(journal[d]) \in Nat
        /\ \A i \in 1..Len(journal[d]) : journal'[d][i] = journal[d][i]
        /\ journal'[d][Len(journal[d]) + 1].key.seq = n
    BY <2>2
  <2> HIDE DEF d, n
  <2>6. JournalsAscend'
    <3> SUFFICES ASSUME NEW c \in Channels, NEW i \in 1..Len(journal'[c]),
                        NEW j \in 1..Len(journal'[c]), i < j
                 PROVE  journal'[c][i].key.seq < journal'[c][j].key.seq
      BY DEF JournalsAscend
    <3>1. CASE c # d
      BY <1>9, <2>2, <3>1 DEF JournalsAscend
    <3>2. CASE c = d /\ j = Len(journal[d]) + 1
      BY <2>3, <2>5, <3>2
    <3>3. CASE c = d /\ j # Len(journal[d]) + 1
      <4>1. i \in 1..Len(journal[d]) /\ j \in 1..Len(journal[d])
        BY <2>5, <3>3
      <4> QED
        BY <1>9, <2>5, <3>3, <4>1 DEF JournalsAscend
    <3> QED
      BY <3>1, <3>2, <3>3
  <2>7. JournalsBelow'
    <3> SUFFICES ASSUME NEW c \in Channels, NEW i \in 1..Len(journal'[c])
                 PROVE  journal'[c][i].key.seq <= seq[c]
      BY <1>2 DEF JournalsBelow
    <3>1. CASE c # d
      BY <1>9, <2>2, <3>1 DEF JournalsBelow
    <3>2. CASE c = d /\ i = Len(journal[d]) + 1
      BY <1>1, <2>4, <2>5, <3>2 DEF n
    <3>3. CASE c = d /\ i # Len(journal[d]) + 1
      <4>1. i \in 1..Len(journal[d])
        BY <2>5, <3>3
      <4> QED
        BY <1>9, <2>5, <3>3, <4>1 DEF JournalsBelow
    <3> QED
      BY <3>1, <3>2, <3>3
  <2>8. Remembers(seen', req.env.key)
    BY <1>1, <2>1, RememberedIsHeld, WindowPositive DEF TypeOK
  <2>9. Latest(req.env)'
    BY <1>2, <1>9, <2>8 DEF Latest
  <2> QED
    BY <1>8, <2>6, <2>7, <2>9
<1>12. CASE \/ RefuseStopped(req) \/ AcceptReject(req) \/ AcceptDuplicate(req)
            \/ AcceptIoError(req) \/ AcceptSwapped(req)
  BY <1>10, <1>12 DEF RefuseStopped, AcceptReject, AcceptDuplicate, AcceptIoError,
                      AcceptSwapped, SeenAfterFailedWrite
<1>13. ~AcceptUnread(req) /\ ~AcceptMismatch(req)
  BY DEF OneRun, AcceptUnread, AcceptMismatch
<1> QED
  BY <1>11, <1>12, <1>13 DEF Accept

LEMMA OrderPost ==
  ASSUME TypeOK, OrderInv, PostLine
  PROVE  OrderInv'
<1> PICK p \in Channels : phase = p
  BY DEF PostLine, InLoop
<1> PICK e \in Envelopes : e = NextEnvelope
  BY NextEnvelopeType
<1>1. /\ seq' = [seq EXCEPT ![p] = @ + 1] /\ phase' = p /\ send = NoSend
      /\ UNCHANGED <<journal, seen, lives, rstate, session>>
      /\ send' = [req |-> [env |-> e, attempt |-> 1], status |-> "waiting"]
      /\ net' = net \cup Reaches([env |-> e, attempt |-> 1])
  BY DEF PostLine, InLoop, Post, receiverVars
<1>2. net = {} /\ session # 0
  BY <1>1 DEF OrderInv, Channels
<1> DEFINE q == [env |-> e, attempt |-> 1]
<1>3. net' \subseteq {q} /\ (rstate = "down" => net' = {})
  BY <1>1, <1>2 DEF Reaches
<1>4. e.key.ch = p /\ e.key.seq = seq[p] + 1
  BY DEF NextEnvelope
<1>5. seq'[p] = seq[p] + 1 /\ seq[p] \in Nat /\ \A c \in Channels : c # p => seq'[c] = seq[c]
  BY <1>1 DEF TypeOK
<1>6. \A c \in Channels : \A i \in 1..Len(journal[c]) :
        journal[c][i].key.seq \in Nat /\ journal[c][i].key.seq <= seq[c] /\ seq[c] \in Nat
  BY JournalTypes DEF OrderInv, JournalsBelow, TypeOK
<1>7. JournalsAscend' /\ JournalsBelow'
  BY <1>1, <1>5, <1>6 DEF OrderInv, JournalsAscend, JournalsBelow
<1>8. Latest(e)'
  <2>1. \A i \in 1..Len(journal[p]) : journal[p][i].key.seq # seq[p] + 1
    BY <1>5, <1>6
  <2> QED
    BY <1>1, <1>4, <1>5, <2>1 DEF Latest
<1>9. send' # NoSend
  <2>1. send' \in Sends
    BY <1>1 DEF Sends, Requests, Statuses
  <2> QED
    BY <2>1, NoSendAssumption
<1>10. \A r \in (net \cup Awaited)' : r = q
  BY <1>1, <1>3, <1>9 DEF Awaited
<1>11. send'.req = q /\ send'.status = "waiting" /\ q.env = e
  BY <1>1
<1>12. lives = 0 => rstate' = "down" /\ NothingYet'
  BY <1>1, <1>3 DEF OrderInv, NothingYet
<1> HIDE DEF q
<1> QED
  BY <1>1, <1>2, <1>3, <1>7, <1>8, <1>9, <1>10, <1>11, <1>12 DEF OrderInv

LEMMA OrderStep ==
  ASSUME TypeOK, OneRun, OrderInv, [Next]_vars
  PROVE  OrderInv'
<1> USE DEF sourceVars, senderVars, receiverVars
<1>1. ASSUME UNCHANGED <<journal, seq, session, seen, lives, rstate, net, send>>,
             phase' = phase \/ (phase' = "down" /\ send = NoSend) \/
               (phase # "down" /\ phase' # "down" /\ send = NoSend)
      PROVE  OrderInv'
  <2>1. Awaited' = Awaited
    BY <1>1 DEF Awaited
  <2>2. /\ JournalsAscend' /\ JournalsBelow'
        /\ \A req \in (net \cup Awaited)' : Latest(req.env)'
    BY <1>1, <2>1, OrderKept
  <2> QED
    BY <1>1, <2>2 DEF OrderInv, NothingYet
<1>2. CASE UNCHANGED vars
  BY <1>1, <1>2 DEF vars
<1>3. CASE Producer
  BY <1>1, <1>3 DEF Producer, AppendLine, RemoveFile
<1>4. CASE SenderLoop
  <2>1. CASE PollTicks \/ SenderExit \/ EndTicks \/ EndDom \/ SkipMalformed
    <3>1. phase \in Channels => phase # "down"
      BY DEF Channels
    <3>2. phase = "idle" => send = NoSend
      BY DEF OrderInv, Channels
    <3> QED
      BY <1>1, <2>1, <3>1, <3>2 DEF PollTicks, SenderExit, EndTicks, EndDom, SkipMalformed, Poll, InLoop
  <2> QED
    BY <1>4, <2>1, OrderPost DEF SenderLoop
<1>5. CASE AttemptEnds
  <2>1. /\ send # NoSend /\ phase \in Channels /\ net \subseteq {send.req}
        /\ send \in Sends /\ send.req \in Requests
    BY <1>5 DEF AttemptEnds, SendSucceeds, AttemptFails, SendFails, OrderInv, TypeOK, Sends
  <2>2. UNCHANGED <<journal, seq, session, seen, lives, rstate, phase>>
    BY <1>5 DEF AttemptEnds, SendSucceeds, AttemptFails, SendFails
  <2>3. session # 0
    BY <2>1 DEF OrderInv, Channels
  <2>4. ASSUME send' = NoSend, net' = {} PROVE OrderInv'
    <3>1. (net \cup Awaited)' = {}
      BY <2>4 DEF Awaited
    <3>2. JournalsAscend' /\ JournalsBelow'
      BY <2>2, <3>1, OrderKept
    <3> QED
      BY <2>2, <2>3, <2>4, <3>1, <3>2 DEF OrderInv, NothingYet
  <2>5. CASE SendSucceeds
    <3>1. net' = {} /\ send' = NoSend
      BY <2>1, <2>5 DEF SendSucceeds, OrderInv
    <3> QED
      BY <2>4, <3>1
  <2>6. CASE SendFails
    <3>1. net' = {} /\ send' = NoSend
      BY <2>1, <2>6 DEF SendFails, GivenUp, OneRun
    <3> QED
      BY <2>4, <3>1
  <2>7. CASE AttemptFails
    <3> PICK q : q = NextAttempt(send.req)
      OBVIOUS
    <3>1. /\ q \in Requests /\ q.env = send.req.env
      <4>1. send.req.env \in Envelopes /\ send.req.attempt + 1 \in Nat
        BY <2>1 DEF Requests
      <4> QED
        BY <2>1, <4>1 DEF NextAttempt, Requests
    <3>2. send' = [req |-> q, status |-> "waiting"] /\ net' \subseteq {q}
          /\ (rstate = "down" => net' = {})
      BY <2>1, <2>7 DEF AttemptFails, GivenUp, OneRun, Reaches
    <3>3. send' # NoSend /\ send'.req = q /\ send'.status = "waiting"
      <4>1. send' \in Sends
        BY <3>1, <3>2 DEF Sends, Statuses
      <4> QED
        BY <3>2, <4>1, NoSendAssumption
    <3>4. \A r \in (net \cup Awaited)' : r = q
      BY <3>2, <3>3 DEF Awaited
    <3>5. send.req \in net \cup Awaited
      BY <2>1 DEF Awaited
    <3>6. /\ JournalsAscend' /\ JournalsBelow'
          /\ \A req \in (net \cup Awaited)' : Latest(req.env)'
      BY <2>2, <3>1, <3>4, <3>5, OrderKept
    <3> QED
      BY <2>1, <2>2, <2>3, <3>2, <3>3, <3>4, <3>6 DEF OrderInv, NothingYet
  <2> QED
    BY <1>5, <2>5, <2>6, <2>7 DEF AttemptEnds
<1>6. CASE SenderStart
  <2>1. session = 0 /\ phase = "down"
    BY <1>6, BoundAssumption DEF SenderStart, OneRun, TypeOK
  <2>2. NothingYet /\ send = NoSend
    BY <2>1 DEF OrderInv, Channels
  <2>3. /\ UNCHANGED <<journal, seen, lives, rstate, net, send>> /\ session' = 1
        /\ phase' = "idle"
    BY <1>6, <2>1 DEF SenderStart, NextSession
  <2>4. NothingYet' /\ Awaited' = {}
    BY <2>2, <2>3 DEF NothingYet, Awaited
  <2>5. JournalsAscend' /\ JournalsBelow'
    <3>1. Len(<<>>) = 0 /\ 1..0 = {}
      OBVIOUS
    <3> QED
      BY <2>4, <3>1 DEF NothingYet, JournalsAscend, JournalsBelow
  <2> QED
    BY <2>2, <2>3, <2>4, <2>5 DEF OrderInv, NothingYet
<1>7. CASE SenderStop
  BY <1>1, <1>7 DEF SenderStop
<1>8. CASE SenderKilled
  <2>1. /\ UNCHANGED <<journal, seq, session, seen, lives, rstate, net>>
        /\ send' = NoSend /\ phase' = "down"
    BY <1>8 DEF SenderKilled
  <2>2. (net \cup Awaited)' \subseteq net \cup Awaited
    BY <2>1 DEF Awaited
  <2>3. /\ JournalsAscend' /\ JournalsBelow'
        /\ \A req \in (net \cup Awaited)' : Latest(req.env)'
    BY <2>1, <2>2, OrderKept
  <2> QED
    BY <2>1, <2>3 DEF OrderInv, NothingYet
<1>9. CASE ReceiverStart
  <2>1. lives = 0 /\ rstate = "down"
    BY <1>9, BoundAssumption DEF ReceiverStart, OneRun, TypeOK
  <2>2. NothingYet
    BY <2>1 DEF OrderInv
  <2>3. /\ UNCHANGED <<journal, seq, session, net, send, phase>> /\ lives' = 1
    BY <1>9, <2>1 DEF ReceiverStart
  <2>4. NothingYet' /\ Awaited' = Awaited
    BY <2>2, <2>3 DEF NothingYet, Awaited
  <2>5. JournalsAscend' /\ JournalsBelow' /\ \A e \in Envelopes : Latest(e) => Latest(e)'
    <3>1. Len(<<>>) = 0 /\ 1..0 = {}
      OBVIOUS
    <3>2. \A e \in Envelopes : e.key.ch \in Channels
      BY DEF Envelopes, Keys
    <3> QED
      BY <2>3, <2>4, <3>1, <3>2 DEF NothingYet, JournalsAscend, JournalsBelow, Latest
  <2>6. \A r \in Awaited : r.env \in Envelopes
    BY DEF Awaited, TypeOK, Sends, Requests
  <2> QED
    BY <2>2, <2>3, <2>4, <2>5, <2>6 DEF OrderInv, NothingYet
<1>10. CASE ReceiverStop
  <2>1. lives # 0
    BY <1>10 DEF ReceiverStop, OrderInv
  <2>2. UNCHANGED <<journal, seq, session, seen, lives, net, send, phase>>
    BY <1>10 DEF ReceiverStop
  <2>3. Awaited' = Awaited
    BY <2>2 DEF Awaited
  <2>4. /\ JournalsAscend' /\ JournalsBelow'
        /\ \A req \in (net \cup Awaited)' : Latest(req.env)'
    BY <2>2, <2>3, OrderKept
  <2> QED
    BY <2>1, <2>2, <2>4 DEF OrderInv, NothingYet
<1>11. CASE ReceiverExit
  <2>1. /\ UNCHANGED <<journal, seq, session, seen, lives, send, phase>>
        /\ net' = {} /\ rstate' = "down"
    BY <1>11 DEF ReceiverExit
  <2>2. (net \cup Awaited)' \subseteq net \cup Awaited
    BY <2>1 DEF Awaited
  <2>3. /\ JournalsAscend' /\ JournalsBelow'
        /\ \A req \in (net \cup Awaited)' : Latest(req.env)'
    BY <2>1, <2>2, OrderKept
  <2> QED
    BY <2>1, <2>3 DEF OrderInv, NothingYet
<1>12. CASE \E req \in net : Accept(req)
  BY <1>12, OrderAccept
<1> QED
  BY <1>2, <1>3, <1>4, <1>5, <1>6, <1>7, <1>8, <1>9, <1>10, <1>11, <1>12
  DEF Next, SenderLifecycle, ReceiverLifecycle

\* Each journal holds the envelopes in the order of their numbers, each once, for
\* every window (a window of one key is enough) and retry limit, whatever fails before
\* the line is appended, as long as each process runs once, an abandoned attempt does
\* not arrive late, and every appended line can be read back.
THEOREM JournalsAreInOrder ==
  ASSUME ~LateDelivery, SessionBound <= 1, LifeBound <= 1,
         Faults \subseteq {"io_error", "swapped", "stop"}
  PROVE  Spec => []OrderPreserved
<1>1. OneRun
  BY DEF OneRun
<1>2. Init => OrderInv
  <2> SUFFICES ASSUME Init PROVE OrderInv
    OBVIOUS
  <2>1. Len(<<>>) = 0 /\ 1..0 = {}
    OBVIOUS
  <2>2. NothingYet /\ Awaited = {}
    BY DEF Init, NothingYet, Awaited
  <2> QED
    BY <2>1, <2>2 DEF Init, OrderInv, NothingYet, JournalsAscend, JournalsBelow
<1>3. TypeOK /\ OrderInv /\ [Next]_vars => OrderInv'
  BY <1>1, OrderStep
<1>4. OrderInv => OrderPreserved
  BY DEF OrderInv, JournalsAscend, OrderPreserved
<1> QED
  BY <1>2, <1>3, <1>4, TypeCorrect, PTL DEF Spec

-----------------------------------------------------------------------------
(* The refinement of the delivery contract.                                 *)

\* Every envelope is one the contract has a name for.
EnvelopesInUse == [key : KeysInUse, line : LineNumbers]

SettleInv ==
  /\ session <= SessionBound /\ (phase # "down" => session >= 1)
  /\ \A c \in Channels : produced[c] <= LineBound[c]
  /\ Known \subseteq EnvelopesInUse
  /\ \A req \in net : req.env \in Known
  /\ send # NoSend => phase \in Channels /\ send.req.env \notin acked \cup abandoned

\* A key is written once by a receiver process.
WrittenOnce ==
  /\ \A i, j \in 1..Len(wlog) : wlog[i] = wlog[j] => i = j
  /\ WrittenKeys \subseteq KeysInUse

LEMMA KeysAreFinite == IsFiniteSet(KeysInUse)
<1> DEFINE A == 1..SessionBound
           T == (A \X Channels) \X LineNumbers
           f == [t \in T |-> [sess |-> t[1][1], ch |-> t[1][2], seq |-> t[2]]]
<1>1. IsFiniteSet(A) /\ IsFiniteSet(LineNumbers)
  <2>1. SessionBound \in Int /\ LineBound["tick"] + LineBound["dom"] \in Int
    BY BoundAssumption DEF Channels
  <2> QED
    BY <2>1, FS_Interval DEF LineNumbers
<1>2. IsFiniteSet(Channels)
  <2>1. IsFiniteSet({"tick"} \cup {"dom"}) /\ {"tick"} \cup {"dom"} = Channels
    BY FS_Singleton, FS_AddElement DEF Channels
  <2> QED
    BY <2>1
<1>3. IsFiniteSet(T)
  <2>1. IsFiniteSet(A \X Channels)
    BY <1>1, <1>2, FS_Product
  <2> QED
    BY <1>1, <2>1, FS_Product
<1>4. f \in Surjection(T, KeysInUse)
  <2>1. f \in [T -> KeysInUse]
    BY DEF KeysInUse
  <2>2. ASSUME NEW k \in KeysInUse PROVE \E t \in T : f[t] = k
    <3>1. << <<k.sess, k.ch>>, k.seq >> \in T
      BY DEF KeysInUse
    <3>2. f[<< <<k.sess, k.ch>>, k.seq >>] = k
      BY <3>1 DEF KeysInUse
    <3> QED
      BY <3>1, <3>2
  <2> QED
    BY <2>1, <2>2 DEF Surjection
<1> QED
  BY <1>3, <1>4, FS_Surjection

\* A sequence without repetition is no longer than the set it draws from.
LEMMA DistinctIsShort ==
  ASSUME NEW S, IsFiniteSet(S), NEW T, NEW s \in Seq(T),
         \A i \in 1..Len(s) : s[i] \in S,
         \A i, j \in 1..Len(s) : s[i] = s[j] => i = j
  PROVE  Len(s) <= Cardinality(S)
<1> DEFINE f == [i \in 1..Len(s) |-> s[i]]
<1>1. f \in Injection(1..Len(s), S)
  <2>1. f \in [1..Len(s) -> S]
    OBVIOUS
  <2>2. IsInjective(f)
    BY DEF IsInjective
  <2> QED
    BY <2>1, <2>2 DEF Injection
<1>2. Cardinality(1..Len(s)) = Len(s)
  <2>1. Len(s) \in Nat /\ 1 \in Int
    OBVIOUS
  <2>2. Cardinality(1..Len(s)) = IF 1 > Len(s) THEN 0 ELSE Len(s) - 1 + 1
    BY <2>1, FS_Interval
  <2> QED
    BY <2>1, <2>2
<1> QED
  BY <1>1, <1>2, FS_Injection

\* As long as nothing was evicted, the window is the whole write log.
LEMMA WindowIsLog ==
  ASSUME TypeOK, WindowIsSuffix, WrittenOnce, Cardinality(KeysInUse) <= Window
  PROVE  \A key : Remembers(seen, key) <=> key \in WrittenKeys
<1>1. wlog \in Seq(Keys) /\ seen \in Seq(Keys)
  BY DEF TypeOK
<1>2. Len(wlog) <= Cardinality(KeysInUse)
  <2>1. \A i \in 1..Len(wlog) : wlog[i] \in KeysInUse
    BY DEF WrittenOnce, WrittenKeys
  <2> QED
    BY <1>1, <2>1, KeysAreFinite, DistinctIsShort DEF WrittenOnce
<1>3. Len(wlog) <= W /\ W \in Nat
  <2>1. Window <= W /\ Window \in Nat /\ W \in Nat
    BY BoundAssumption, WindowPositive DEF W, EffectiveWindow
  <2>2. Cardinality(KeysInUse) \in Nat
    BY KeysAreFinite, FS_CardinalityType
  <2> QED
    BY <1>1, <1>2, <2>1, <2>2
<1>4. Len(seen) = Len(wlog)
  BY <1>1, <1>3 DEF WindowIsSuffix, NewestOf, W
<1>5. \A i \in 1..Len(seen) : seen[i] = wlog[i]
  <2>1. \A i \in 1..Len(seen) : seen[i] = wlog[Len(wlog) - Len(seen) + i]
    BY DEF WindowIsSuffix, NewestOf
  <2>2. \A i \in 1..Len(seen) : Len(wlog) - Len(seen) + i = i
    BY <1>1, <1>4
  <2> QED
    BY <2>1, <2>2
<1> QED
  BY <1>4, <1>5 DEF Remembers, WrittenKeys

\* What becomes of the envelopes in a step: PostLine brings one more, an attempt ends,
\* or they stay as they are.
LEMMA SettleStep ==
  ASSUME TypeOK, TailInv, SettleInv, Next
  PROVE  SettleInv'
<1> USE DEF sourceVars, senderVars, receiverVars
<1>1. send # NoSend => send \in Sends /\ send.req \in Requests
  BY DEF TypeOK, Sends
<1>2. ASSUME UNCHANGED <<session, send, acked, abandoned>>, net' \subseteq net,
             \A c \in Channels : produced'[c] <= LineBound[c],
             phase' = phase \/ (send = NoSend /\ (phase' # "down" => phase # "down"))
      PROVE  SettleInv'
  <2>1. Known' = Known
    BY <1>2 DEF Known
  <2> QED
    BY <1>2, <2>1 DEF SettleInv
<1>3. CASE Producer
  <2>1. PICK c \in Channels : AppendLine(c) \/ RemoveFile(c)
    BY <1>3 DEF Producer
  <2>2. \A d \in Channels : produced'[d] <= LineBound[d]
    <3>1. CASE AppendLine(c)
      <4>1. produced' = [produced EXCEPT ![c] = @ + 1] /\ produced[c] < LineBound[c]
        BY <3>1 DEF AppendLine
      <4>2. \A d \in Channels : produced[d] \in Nat /\ LineBound[d] \in Nat /\ produced[d] <= LineBound[d]
        BY BoundAssumption DEF TypeOK, SettleInv
      <4>3. \A d \in Channels : produced'[d] = IF d = c THEN produced[c] + 1 ELSE produced[d]
        BY <4>1 DEF TypeOK
      <4> QED
        BY <4>1, <4>2, <4>3
    <3>2. CASE RemoveFile(c)
      BY <3>2 DEF RemoveFile, SettleInv
    <3> QED
      BY <2>1, <3>1, <3>2
  <2> QED
    BY <1>2, <2>1, <2>2 DEF AppendLine, RemoveFile
<1>4. CASE PostLine
  <2> PICK p \in Channels : phase = p
    BY <1>4 DEF PostLine, InLoop
  <2> PICK e \in Envelopes : e = NextEnvelope
    BY <1>4, NextEnvelopeType
  <2>1. /\ send' = [req |-> [env |-> e, attempt |-> 1], status |-> "waiting"]
        /\ net' \subseteq net \cup {[env |-> e, attempt |-> 1]}
        /\ UNCHANGED <<session, phase, acked, abandoned, produced>>
        /\ send = NoSend /\ batch # <<>>
    BY <1>4 DEF PostLine, InLoop, LoopLeft, Post, Reaches
  <2>2. send' # NoSend /\ send'.req.env = e
    <3>1. send' \in Sends
      BY <2>1 DEF Sends, Requests, Statuses
    <3> QED
      BY <2>1, <3>1, NoSendAssumption
  <2>3. Known' = Known \cup {e}
    BY <2>1, <2>2 DEF Known
  <2>4. /\ e.key.sess = session /\ e.key.ch = p /\ e.key.seq = seq[p] + 1
        /\ e.line = Head(batch)
    BY DEF NextEnvelope
  <2>5. Head(batch) \in Pending(p) /\ Head(batch) \in Nat
    <3>1. batch \in Seq(Nat) /\ Len(batch) > 0 /\ Head(batch) = batch[1]
      BY <2>1 DEF TypeOK
    <3> QED
      BY <3>1 DEF Pending
  <2>6. seq[p] \in Nat /\ seq[p] < Head(batch) /\ Head(batch) <= produced[p]
    <3>1. seq[p] \in Marks(p)
      BY DEF Marks
    <3> QED
      BY <2>5, <3>1, OfferTypes DEF TailInv, Behind
  <2>7. e \in EnvelopesInUse
    <3>1. session \in 1..SessionBound
      BY <1>4, BoundAssumption DEF SettleInv, TypeOK, Channels
    <3>2. \A n \in Nat : 1 <= n /\ n <= produced[p] => n \in LineNumbers
      <4>1. /\ produced[p] \in Nat /\ produced[p] <= LineBound[p]
            /\ LineBound["tick"] \in Nat /\ LineBound["dom"] \in Nat
            /\ p = "tick" \/ p = "dom"
        BY BoundAssumption DEF TypeOK, SettleInv, Channels
      <4> QED
        BY <4>1 DEF LineNumbers
    <3>3. seq[p] + 1 \in LineNumbers /\ Head(batch) \in LineNumbers
      <4>1. produced[p] \in Nat
        BY DEF TypeOK
      <4>2. seq[p] + 1 \in Nat /\ 1 <= seq[p] + 1 /\ seq[p] + 1 <= produced[p] /\ 1 <= Head(batch)
        BY <2>5, <2>6, <4>1
      <4> QED
        BY <2>5, <2>6, <3>2, <4>2
    <3>4. e.key \in KeysInUse
      <4>1. e.key \in Keys
        BY DEF Envelopes
      <4> QED
        BY <2>4, <3>1, <3>3, <4>1 DEF Keys, KeysInUse
    <3> QED
      BY <2>4, <3>3, <3>4 DEF Envelopes, EnvelopesInUse
  <2>8. e \notin acked \cup abandoned
    <3>1. e \in Known => e.line \in Marks(p)
      BY <2>4 DEF Marks
    <3>2. \A l \in Marks(p) : l \in Nat /\ l < Head(batch)
      BY <2>5, OfferTypes DEF TailInv
    <3>3. e \notin Known
      BY <2>4, <2>5, <3>1, <3>2
    <3> QED
      BY <3>3 DEF Known
  <2> QED
    BY <2>1, <2>2, <2>3, <2>7, <2>8 DEF SettleInv
<1>5. CASE PollTicks \/ SenderExit \/ EndTicks \/ EndDom \/ SkipMalformed
  <2>1. /\ \A c \in Channels : produced'[c] <= LineBound[c]
        /\ UNCHANGED <<session, send, acked, abandoned, net>>
    BY <1>5 DEF SettleInv, PollTicks, SenderExit, EndTicks, EndDom, SkipMalformed
  <2>2. (phase = "idle" => send = NoSend) /\ (phase \in Channels => phase # "down")
    BY DEF SettleInv, Channels
  <2> QED
    BY <1>2, <1>5, <2>1, <2>2 DEF PollTicks, SenderExit, EndTicks, EndDom, SkipMalformed, Poll, InLoop
<1>6. CASE AttemptEnds
  <2>1. send # NoSend
    BY <1>6 DEF AttemptEnds, SendSucceeds, AttemptFails, SendFails
  <2>2. UNCHANGED <<session, phase, produced>>
    BY <1>6 DEF AttemptEnds, SendSucceeds, AttemptFails, SendFails
  <2>3. send.req.env \in Known
    BY <2>1 DEF Known
  <2>4. CASE SendSucceeds \/ SendFails
    <3>1. Known' = Known /\ send' = NoSend
      BY <2>1, <2>4 DEF SendSucceeds, SendFails, Known
    <3>2. net' \subseteq net
      BY <2>4 DEF SendSucceeds, SendFails, GivenUp
    <3> QED
      BY <2>2, <3>1, <3>2 DEF SettleInv
  <2>5. CASE AttemptFails
    <3> PICK q : q = NextAttempt(send.req)
      OBVIOUS
    <3>1. q \in Requests /\ q.env = send.req.env
      <4>1. send.req.env \in Envelopes /\ send.req.attempt + 1 \in Nat
        BY <1>1, <2>1 DEF Requests
      <4> QED
        BY <1>1, <2>1, <4>1 DEF NextAttempt, Requests
    <3>2. /\ send' = [req |-> q, status |-> "waiting"] /\ net' \subseteq net \cup {q}
          /\ UNCHANGED <<acked, abandoned>>
      BY <2>5 DEF AttemptFails, GivenUp, Reaches
    <3>3. send' # NoSend /\ send'.req = q
      <4>1. send' \in Sends
        BY <3>1, <3>2 DEF Sends, Statuses
      <4> QED
        BY <3>2, <4>1, NoSendAssumption
    <3>4. Known' = Known
      BY <2>1, <3>1, <3>2, <3>3 DEF Known
    <3> QED
      BY <2>1, <2>2, <2>3, <3>1, <3>2, <3>3, <3>4 DEF SettleInv
  <2> QED
    BY <1>6, <2>4, <2>5 DEF AttemptEnds
<1>7. CASE SenderStart
  <2>1. /\ UNCHANGED <<send, acked, abandoned, net, produced>> /\ phase' = "idle" /\ phase = "down"
        /\ session' = session + 1 /\ session < SessionBound
    BY <1>7 DEF SenderStart, NextSession
  <2>2. Known' = Known /\ send = NoSend
    BY <2>1 DEF Known, SettleInv, Channels
  <2>3. session \in Nat /\ SessionBound \in Nat
    BY BoundAssumption DEF TypeOK
  <2> QED
    BY <2>1, <2>2, <2>3 DEF SettleInv
<1>8. CASE SenderStop
  BY <1>2, <1>8 DEF SenderStop, SettleInv
<1>9. CASE SenderKilled
  <2>1. Known' = Known /\ send' = NoSend
    BY <1>9 DEF SenderKilled, Known
  <2> QED
    BY <1>9, <2>1 DEF SenderKilled, SettleInv
<1>10. CASE ReceiverLifecycle
  <2>1. /\ UNCHANGED <<session, send, acked, abandoned, produced, phase>> /\ net' \subseteq net
    BY <1>10 DEF ReceiverLifecycle, ReceiverStart, ReceiverStop, ReceiverExit
  <2> QED
    BY <1>2, <2>1 DEF SettleInv
<1>11. ASSUME NEW req \in net, Accept(req) PROVE SettleInv'
  <2>1. UNCHANGED <<acked, abandoned, session, phase, produced>> /\ net' \subseteq net
    BY <1>11, AcceptFrame DEF sourceVars
  <2>2. PICK st \in Statuses : Respond(req, st)
    BY <1>11, AcceptFrame
  <2>3. (send' = NoSend <=> send = NoSend) /\ (send # NoSend => send'.req = send.req)
    BY <2>2, NoSendAssumption DEF Respond, TypeOK, Sends
  <2>4. Known' = Known
    BY <2>1, <2>3 DEF Known
  <2> QED
    BY <2>1, <2>3, <2>4 DEF SettleInv
<1> QED
  BY <1>3, <1>4, <1>5, <1>6, <1>7, <1>8, <1>9, <1>10, <1>11
  DEF Next, SenderLoop, SenderLifecycle, ReceiverLifecycle

LEMMA WrittenStep ==
  ASSUME TypeOK, WindowIsSuffix, SettleInv, WrittenOnce, Next,
         Cardinality(KeysInUse) <= Window
  PROVE  WrittenOnce'
<1>1. CASE wlog' = <<>>
  <2>1. Len(<<>>) = 0 /\ 1..0 = {}
    OBVIOUS
  <2> QED
    BY <1>1, <2>1 DEF WrittenOnce, WrittenKeys
<1>2. CASE wlog' = wlog
  BY <1>2 DEF WrittenOnce, WrittenKeys
<1>3. ASSUME NEW req \in net, AcceptNew(req) PROVE WrittenOnce'
  <2> PICK key \in Keys : key = req.env.key
    BY DEF TypeOK, Requests, Envelopes
  <2>1. wlog' = Append(wlog, key) /\ ~Remembers(seen, key)
    BY <1>3 DEF AcceptNew, ToWrite, IsDuplicate
  <2>2. key \notin WrittenKeys
    BY <2>1, WindowIsLog
  <2>3. key \in KeysInUse
    BY DEF SettleInv, EnvelopesInUse
  <2>4. /\ Len(wlog') = Len(wlog) + 1 /\ Len(wlog) \in Nat
        /\ \A i \in 1..Len(wlog) : wlog'[i] = wlog[i]
        /\ wlog'[Len(wlog) + 1] = key
    BY <2>1 DEF TypeOK
  <2>5. \A i \in 1..Len(wlog') : i \in 1..Len(wlog) \/ i = Len(wlog) + 1
    BY <2>4
  <2>6. \A i \in 1..Len(wlog) : wlog'[i] # key
    BY <2>2, <2>4 DEF WrittenKeys
  <2>7. \A i, j \in 1..Len(wlog') : wlog'[i] = wlog'[j] => i = j
    BY <2>4, <2>5, <2>6 DEF WrittenOnce
  <2>8. \A i \in 1..Len(wlog') : wlog'[i] \in KeysInUse
    BY <2>3, <2>4, <2>5 DEF WrittenOnce, WrittenKeys
  <2> QED
    BY <2>7, <2>8 DEF WrittenOnce, WrittenKeys, KeysInUse
<1> QED
  BY <1>1, <1>2, <1>3, WindowMoves

RefineInv ==
  /\ TypeOK /\ IdentityInv /\ WindowIsSuffix /\ AckInv
  /\ TailInv /\ SettleInv /\ WrittenOnce

\* Every step is one of the contract's or changes nothing it sees.
LEMMA StepRefines ==
  ASSUME Cardinality(KeysInUse) <= Window, Faults \subseteq {"io_error", "swapped"},
         RefineInv, [Next]_vars
  PROVE  [Delivery!Next]_(Delivery!vars)
<1> USE DEF sourceVars, senderVars, receiverVars, RefineInv
<1>1. ASSUME UNCHANGED <<send, wlog, refused, journal, acked, abandoned>>
      PROVE  UNCHANGED Delivery!vars
  BY <1>1 DEF Delivery!vars, Known, WrittenKeys
<1>2. CASE UNCHANGED vars
  BY <1>1, <1>2 DEF vars
<1>3. CASE Producer
  BY <1>1, <1>3 DEF Producer, AppendLine, RemoveFile
<1>4. CASE PollTicks \/ SenderExit \/ EndTicks \/ EndDom \/ SkipMalformed
  BY <1>1, <1>4 DEF PollTicks, SenderExit, EndTicks, EndDom, SkipMalformed
<1>5. CASE PostLine
  <2> PICK p \in Channels : phase = p
    BY <1>5 DEF PostLine, InLoop
  <2> PICK e \in Envelopes : e = NextEnvelope
    BY <1>5, NextEnvelopeType
  <2>1. /\ send' = [req |-> [env |-> e, attempt |-> 1], status |-> "waiting"]
        /\ UNCHANGED <<wlog, refused, journal, acked, abandoned>> /\ send = NoSend
    BY <1>5 DEF PostLine, InLoop, Post
  <2>2. send' # NoSend /\ send'.req.env = e
    <3>1. send' \in Sends
      BY <2>1 DEF Sends, Requests, Statuses
    <3> QED
      BY <2>1, <3>1, NoSendAssumption
  <2>3. Known' = Known \cup {e}
    BY <2>1, <2>2 DEF Known
  <2>4. \A f \in Known : f.key # e.key
    <3> SUFFICES ASSUME NEW f \in Known, f.key = e.key PROVE FALSE
      OBVIOUS
    <3>1. f.key.sess = session /\ f.key.ch = p /\ f.key.seq = seq[p] + 1
      BY DEF NextEnvelope
    <3>2. f.key.seq <= seq[p] /\ seq[p] \in Nat
      BY <3>1 DEF IdentityInv, Everywhere, TypeOK
    <3> QED
      BY <3>1, <3>2
  <2>5. e \in EnvelopesInUse
    <3>1. SettleInv'
      BY <1>5, SettleStep DEF Next, SenderLoop
    <3>2. e \in Known'
      BY <2>3
    <3>3. EnvelopesInUse' = EnvelopesInUse
      BY DEF EnvelopesInUse, KeysInUse, LineNumbers
    <3> QED
      BY <3>1, <3>2, <3>3 DEF SettleInv
  <2>6. Delivery!Offer(e)
    BY <2>1, <2>3, <2>4 DEF Delivery!Offer, WrittenKeys
  <2> QED
    BY <2>5, <2>6 DEF Delivery!Next, EnvelopesInUse
<1>6. CASE SendSucceeds
  <2> PICK e : e = send.req.env
    OBVIOUS
  <2>1. /\ acked' = acked \cup {e} /\ send' = NoSend /\ send # NoSend /\ send.status = "ok"
        /\ UNCHANGED <<wlog, refused, journal, abandoned>>
    BY <1>6 DEF SendSucceeds
  <2>2. Known' = Known /\ e \in Known
    BY <2>1 DEF Known
  <2>3. e \notin acked \cup abandoned
    BY <2>1 DEF SettleInv
  <2>4. Journaled(e) \/ e \in refused
    BY <2>1 DEF AckInv
  <2>5. Delivery!Acknowledge(e)
    BY <2>1, <2>2, <2>3, <2>4
    DEF Delivery!Acknowledge, Delivery!Settling, Delivery!InJournal, Journaled, WrittenKeys
  <2> QED
    BY <2>2, <2>5 DEF Delivery!Next
<1>7. CASE AttemptFails
  <2> PICK q : q = NextAttempt(send.req)
    OBVIOUS
  <2>1. /\ send # NoSend /\ send' = [req |-> q, status |-> "waiting"]
        /\ UNCHANGED <<wlog, refused, journal, acked, abandoned>>
    BY <1>7 DEF AttemptFails
  <2>2. q \in Requests /\ q.env = send.req.env
    <3>1. send.req \in Requests
      BY <2>1 DEF TypeOK, Sends
    <3>2. send.req.env \in Envelopes /\ send.req.attempt + 1 \in Nat
      BY <3>1 DEF Requests
    <3> QED
      BY <3>1, <3>2 DEF NextAttempt, Requests
  <2>3. send' # NoSend /\ send'.req = q
    <3>1. send' \in Sends
      BY <2>1, <2>2 DEF Sends, Statuses
    <3> QED
      BY <2>1, <3>1, NoSendAssumption
  <2>4. Known' = Known
    BY <2>1, <2>2, <2>3 DEF Known
  <2> QED
    BY <2>1, <2>4 DEF Delivery!vars, WrittenKeys
<1>8. ASSUME NEW e, send # NoSend, e = send.req.env, abandoned' = abandoned \cup {e},
             send' = NoSend, UNCHANGED <<wlog, refused, journal, acked>>
      PROVE  [Delivery!Next]_(Delivery!vars)
  <2>1. Known' = Known /\ e \in Known
    BY <1>8 DEF Known
  <2>2. e \notin acked \cup abandoned
    BY <1>8 DEF SettleInv
  <2>3. Delivery!Abandon(e)
    BY <1>8, <2>1, <2>2 DEF Delivery!Abandon, Delivery!Settling, WrittenKeys
  <2> QED
    BY <2>1, <2>3 DEF Delivery!Next
<1>9. CASE SendFails
  BY <1>8, <1>9 DEF SendFails
<1>10. CASE SenderStart \/ SenderStop
  BY <1>1, <1>10 DEF SenderStart, SenderStop
<1>11. CASE SenderKilled
  BY <1>1, <1>8, <1>11 DEF SenderKilled
<1>12. CASE ReceiverStart
  <2>1. wlog' = <<>> /\ UNCHANGED <<send, refused, journal, acked, abandoned>>
    BY <1>12 DEF ReceiverStart
  <2>2. WrittenKeys' = {} /\ Known' = Known
    <3>1. Len(<<>>) = 0 /\ 1..0 = {}
      OBVIOUS
    <3> QED
      BY <2>1, <3>1 DEF WrittenKeys, Known
  <2> QED
    BY <2>1, <2>2 DEF Delivery!Next, Delivery!ReceiverForgets
<1>13. CASE ReceiverStop \/ ReceiverExit
  BY <1>1, <1>13 DEF ReceiverStop, ReceiverExit
<1>14. ASSUME NEW req \in net, Accept(req)
       PROVE  [Delivery!Next]_(Delivery!vars)
  <2>1. UNCHANGED <<acked, abandoned>>
    BY <1>14, AcceptFrame DEF sourceVars
  <2>2. PICK st \in Statuses : Respond(req, st)
    BY <1>14, AcceptFrame
  <2>3. (send' = NoSend <=> send = NoSend) /\ (send # NoSend => send'.req = send.req)
    BY <2>2, NoSendAssumption DEF Respond, TypeOK, Sends
  <2>4. Known' = Known
    BY <2>1, <2>3 DEF Known
  <2>5. CASE RefuseStopped(req) \/ AcceptDuplicate(req) \/ AcceptIoError(req)
    BY <2>1, <2>4, <2>5
    DEF RefuseStopped, AcceptDuplicate, AcceptIoError, Delivery!vars, WrittenKeys
  <2>6. CASE AcceptNew(req)
    <3> PICK e \in Envelopes : e = req.env
      BY DEF TypeOK, Requests
    <3>1. /\ journal' = [journal EXCEPT ![e.key.ch] = Append(@, e)]
          /\ wlog' = Append(wlog, e.key) /\ ~Remembers(seen, e.key) /\ refused' = refused
      BY <2>6 DEF AcceptNew, ToWrite, AppendToJournal, IsDuplicate
    <3>2. e.key \notin WrittenKeys
      BY <3>1, WindowIsLog
    <3>3. WrittenKeys' = WrittenKeys \cup {e.key}
      <4>1. /\ Len(wlog') = Len(wlog) + 1 /\ Len(wlog) \in Nat
            /\ \A i \in 1..Len(wlog) : wlog'[i] = wlog[i]
            /\ wlog'[Len(wlog) + 1] = e.key
        BY <3>1 DEF TypeOK, Envelopes
      <4>2. 1..Len(wlog') = 1..Len(wlog) \cup {Len(wlog) + 1}
        BY <4>1
      <4> QED
        BY <4>1, <4>2 DEF WrittenKeys
    <3>4. e \in Known
      BY DEF SettleInv
    <3>5. Delivery!Write(e)
      BY <2>1, <2>4, <3>1, <3>2, <3>3, <3>4 DEF Delivery!Write
    <3> QED
      BY <3>4, <3>5 DEF Delivery!Next
  <2>7. CASE AcceptReject(req) \/ AcceptSwapped(req)
    <3>1. refused' = refused \cup {req.env} /\ UNCHANGED <<wlog, journal>>
      BY <2>7 DEF AcceptReject, AcceptSwapped
    <3>2. req.env \in Known
      BY DEF SettleInv
    <3>3. Delivery!Refuse(req.env)
      BY <2>1, <2>4, <3>1, <3>2 DEF Delivery!Refuse, WrittenKeys
    <3> QED
      BY <3>2, <3>3 DEF Delivery!Next
  <2>8. ~AcceptUnread(req) /\ ~AcceptMismatch(req)
    BY DEF AcceptUnread, AcceptMismatch
  <2> QED
    BY <1>14, <2>5, <2>6, <2>7, <2>8 DEF Accept
<1> QED
  BY <1>2, <1>3, <1>4, <1>5, <1>6, <1>7, <1>9, <1>10, <1>11, <1>12, <1>13, <1>14
  DEF Next, SenderLoop, AttemptEnds, SenderLifecycle, ReceiverLifecycle

LEMMA SettleAlways == Spec => [](TypeOK /\ SettleInv)
<1>1. Init => SettleInv
  <2> SUFFICES ASSUME Init PROVE SettleInv
    OBVIOUS
  <2>1. Known = {}
    BY DEF Init, Known
  <2> QED
    BY <2>1, BoundAssumption DEF Init, SettleInv
<1>2. TypeOK /\ OfferInv /\ SettleInv /\ [Next]_vars => SettleInv'
  <2> SUFFICES ASSUME TypeOK, OfferInv, SettleInv, [Next]_vars PROVE SettleInv'
    OBVIOUS
  <2>1. CASE Next
    BY <2>1, SettleStep DEF OfferInv
  <2>2. CASE UNCHANGED vars
    <3>1. Known' = Known
      BY <2>2 DEF vars, senderVars, Known
    <3> QED
      BY <2>2, <3>1 DEF vars, senderVars, sourceVars, SettleInv
  <2> QED
    BY <2>1, <2>2
<1> QED
  BY <1>1, <1>2, TypeCorrect, OfferAlways, PTL DEF Spec

\* The bridge implements the delivery contract, for every number of source lines,
\* sender and receiver processes, files and retries: an envelope is offered once under a
\* fresh identity, written at most once by a receiver process, acknowledged only when a
\* journal holds it or the receiver refused it, and acknowledged or abandoned once, never
\* both.  The window must hold every key in use, an appended line that stays can be read
\* back, and no receiver serves while stopping.
THEOREM DeliveryIsImplemented ==
  ASSUME Cardinality(KeysInUse) <= Window, Faults \subseteq {"io_error", "swapped"}
  PROVE  Spec => ImplementsDelivery
<1>1. Init => Delivery!Init /\ WrittenOnce
  <2> SUFFICES ASSUME Init PROVE Delivery!Init /\ WrittenOnce
    OBVIOUS
  <2>1. Len(<<>>) = 0 /\ 1..0 = {}
    OBVIOUS
  <2>2. Known = {} /\ WrittenKeys = {}
    BY <2>1 DEF Init, Known, WrittenKeys
  <2> QED
    BY <2>1, <2>2 DEF Init, Delivery!Init, WrittenOnce
<1>2. /\ TypeOK /\ WindowInv /\ SettleInv /\ WrittenOnce
      /\ [Next]_vars
      => WrittenOnce'
  <2> SUFFICES ASSUME TypeOK, WindowInv, SettleInv, WrittenOnce, [Next]_vars PROVE WrittenOnce'
    OBVIOUS
  <2>1. CASE Next
    BY <2>1, WrittenStep DEF WindowInv
  <2>2. CASE UNCHANGED vars
    BY <2>2 DEF vars, receiverVars, WrittenOnce, WrittenKeys
  <2> QED
    BY <2>1, <2>2
<1>3. /\ TypeOK /\ IdentityInv /\ WindowInv /\ AckInv /\ OfferInv /\ SettleInv /\ WrittenOnce
      /\ [Next]_vars
      => [Delivery!Next]_(Delivery!vars)
  BY StepRefines DEF RefineInv, WindowInv, OfferInv
<1>4. "stop" \notin Faults
  OBVIOUS
<1>5. Spec => []AckInv
  BY <1>4, AckAlways
<1> QED
  BY <1>1, <1>2, <1>3, <1>5, IdentityAlways, WindowAlways, OfferAlways, SettleAlways, PTL
  DEF Spec, Delivery!Spec, ImplementsDelivery

-----------------------------------------------------------------------------
(* What both ends count.                                                    *)

Outstanding == IF send = NoSend THEN 0 ELSE 1

LEMMA AccountingStep ==
  ASSUME TypeOK, SettleInv, SenderAccounting, Next
  PROVE  SenderAccounting'
<1> USE DEF sourceVars, senderVars, receiverVars
<1>1. /\ seq["tick"] \in Nat /\ seq["dom"] \in Nat /\ sent["tick"] \in Nat /\ sent["dom"] \in Nat
      /\ failures \in Nat /\ Outstanding \in Nat
  BY DEF TypeOK, Channels, Outstanding
<1>2. SenderAccounting <=>
        (phase # "down" => seq["tick"] + seq["dom"] = sent["tick"] + sent["dom"] + failures + Outstanding)
  BY DEF SenderAccounting, Outstanding
<1>3. SenderAccounting' <=>
        (phase' # "down" => seq'["tick"] + seq'["dom"] =
                              sent'["tick"] + sent'["dom"] + failures' + Outstanding')
  BY DEF SenderAccounting, Outstanding
<1>4. ASSUME UNCHANGED <<seq, sent, failures>>, Outstanding' = Outstanding,
             phase' # "down" => phase # "down"
      PROVE  SenderAccounting'
  BY <1>2, <1>3, <1>4
<1>5. CASE Producer
  BY <1>4, <1>5 DEF Producer, AppendLine, RemoveFile, Outstanding
<1>6. CASE PollTicks \/ SenderExit \/ EndTicks \/ EndDom \/ SkipMalformed
  BY <1>4, <1>6 DEF PollTicks, SenderExit, EndTicks, EndDom, SkipMalformed, Outstanding
<1>7. CASE PostLine
  <2>1. phase \in Channels /\ send = NoSend /\ seq' = [seq EXCEPT ![phase] = @ + 1]
        /\ UNCHANGED <<phase, sent, failures>>
        /\ send' = [req |-> [env |-> NextEnvelope, attempt |-> 1], status |-> "waiting"]
    BY <1>7 DEF PostLine, InLoop, Post
  <2>2. send' # NoSend
    <3>1. send' \in Sends
      BY <1>7, <2>1, NextEnvelopeType DEF Sends, Requests, Statuses
    <3> QED
      BY <3>1, NoSendAssumption
  <2>3. Outstanding = 0 /\ Outstanding' = 1
    BY <2>1, <2>2 DEF Outstanding
  <2>4. seq'["tick"] + seq'["dom"] = seq["tick"] + seq["dom"] + 1
    <3>1. /\ seq'["tick"] = IF phase = "tick" THEN seq["tick"] + 1 ELSE seq["tick"]
          /\ seq'["dom"] = IF phase = "dom" THEN seq["dom"] + 1 ELSE seq["dom"]
      BY <2>1 DEF TypeOK, Channels
    <3>2. phase = "tick" \/ phase = "dom"
      BY <2>1 DEF Channels
    <3> QED
      BY <1>1, <3>1, <3>2
  <2>5. phase # "down"
    BY <2>1 DEF Channels
  <2> QED
    BY <1>1, <1>2, <1>3, <2>1, <2>3, <2>4, <2>5
<1>8. CASE SendSucceeds
  <2> PICK c \in Channels : c = send.req.env.key.ch
    BY <1>8 DEF SendSucceeds, TypeOK, Sends, Requests, Envelopes, Keys
  <2>1. sent' = [sent EXCEPT ![c] = @ + 1] /\ Outstanding = 1 /\ Outstanding' = 0
        /\ UNCHANGED <<phase, seq, failures>>
    BY <1>8 DEF SendSucceeds, Outstanding
  <2>2. sent'["tick"] + sent'["dom"] = sent["tick"] + sent["dom"] + 1
    <3>1. /\ sent'["tick"] = IF c = "tick" THEN sent["tick"] + 1 ELSE sent["tick"]
          /\ sent'["dom"] = IF c = "dom" THEN sent["dom"] + 1 ELSE sent["dom"]
      BY <2>1 DEF TypeOK, Channels
    <3>2. c = "tick" \/ c = "dom"
      BY DEF Channels
    <3> QED
      BY <1>1, <3>1, <3>2
  <2> QED
    BY <1>1, <1>2, <1>3, <2>1, <2>2
<1>9. CASE AttemptFails
  <2>1. send # NoSend /\ UNCHANGED <<phase, seq, sent, failures>>
        /\ send' = [req |-> NextAttempt(send.req), status |-> "waiting"]
    BY <1>9 DEF AttemptFails
  <2>2. send' # NoSend
    <3>1. send.req \in Requests
      BY <2>1 DEF TypeOK, Sends
    <3>2. send.req.env \in Envelopes /\ send.req.attempt + 1 \in Nat
      BY <3>1 DEF Requests
    <3>3. NextAttempt(send.req) \in Requests
      BY <3>1, <3>2 DEF NextAttempt, Requests
    <3>4. send' \in Sends
      BY <2>1, <3>3 DEF Sends, Statuses
    <3> QED
      BY <3>4, NoSendAssumption
  <2> QED
    BY <1>4, <2>1, <2>2 DEF Outstanding
<1>10. CASE SendFails
  <2>1. failures' = failures + 1 /\ Outstanding = 1 /\ Outstanding' = 0
        /\ UNCHANGED <<phase, seq, sent>>
    BY <1>10 DEF SendFails, FailuresAfterGivingUp, Outstanding
  <2> QED
    BY <1>1, <1>2, <1>3, <2>1
<1>11. CASE SenderStart
  <2>1. /\ seq' = [c \in Channels |-> 0] /\ sent' = [c \in Channels |-> 0] /\ failures' = 0
        /\ send' = send /\ phase = "down"
    BY <1>11 DEF SenderStart
  <2>2. Outstanding' = 0
    BY <2>1 DEF SettleInv, Outstanding, Channels
  <2> QED
    BY <1>3, <2>1, <2>2 DEF Channels
<1>12. CASE SenderStop
  BY <1>4, <1>12 DEF SenderStop, Outstanding
<1>13. CASE SenderKilled
  BY <1>3, <1>13 DEF SenderKilled
<1>14. CASE ReceiverLifecycle
  BY <1>4, <1>14 DEF ReceiverLifecycle, ReceiverStart, ReceiverStop, ReceiverExit, Outstanding
<1>15. ASSUME NEW req \in net, Accept(req) PROVE SenderAccounting'
  <2>1. UNCHANGED <<phase, seq, sent, failures>>
    BY <1>15, AcceptFrame DEF sourceVars
  <2>2. PICK st \in Statuses : Respond(req, st)
    BY <1>15, AcceptFrame
  <2>3. send' = NoSend <=> send = NoSend
    BY <2>2, NoSendAssumption DEF Respond, TypeOK, Sends
  <2> QED
    BY <1>4, <2>1, <2>3 DEF Outstanding
<1> QED
  BY <1>5, <1>6, <1>7, <1>8, <1>9, <1>10, <1>11, <1>12, <1>13, <1>14, <1>15
  DEF Next, SenderLoop, AttemptEnds, SenderLifecycle, ReceiverLifecycle

(* The gaps of a session.                                                   *)

Arrivals(c) == {i \in 1..Len(wlog) : wlog[i].ch = c}

\* With one session, a channel expects a number exactly when it has written one.
Expects(c) ==
  /\ Arrivals(c) = {} => metrics.next[c] = 0
  /\ Arrivals(c) # {} => metrics.next[c] # 0 /\ metrics.sess[c] = 1

GapsAreDropped ==
  Cardinality(Missing("tick")) + Cardinality(Missing("dom")) <= metrics.dropped

GapInv == (\A c \in Channels : Expects(c)) /\ GapsAreDropped

LEMMA MetricsFields ==
  ASSUME TypeOK
  PROVE  /\ metrics.dropped \in Nat
         /\ metrics.next \in [Channels -> Nat] /\ metrics.sess \in [Channels -> Nat]
  BY DEF TypeOK, Metrics!Counters

LEMMA MissingIsFinite ==
  ASSUME TypeOK, NEW c \in Channels
  PROVE  IsFiniteSet(Missing(c)) /\ Cardinality(Missing(c)) \in Nat
<1>1. metrics.next[c] \in Nat
  BY MetricsFields
<1>2. IsFiniteSet(1..(metrics.next[c] - 1))
  BY <1>1, FS_Interval
<1>3. Missing(c) \subseteq 1..(metrics.next[c] - 1)
  BY DEF Missing
<1>4. IsFiniteSet(Missing(c))
  BY <1>2, <1>3, FS_Subset
<1> QED
  BY <1>4, FS_CardinalityType

\* What record_tick_received does to the expectation of a channel.
LEMMA ReceivedFields ==
  ASSUME NEW m \in Metrics!Counters, NEW key \in Keys
  PROVE  LET r == Metrics!RecordReceived(m, key)
         IN /\ r.dropped = m.dropped + Metrics!Gap(m, key)
            /\ r.next[key.ch] = Metrics!NextExpected(m, key)
            /\ r.sess[key.ch] = key.sess
            /\ \A c \in Channels : c # key.ch => r.next[c] = m.next[c] /\ r.sess[c] = m.sess[c]
            /\ key.ch \in Channels
  BY DEF Metrics!RecordReceived, Metrics!Counters, Keys

\* A verified write adds to the missing numbers of its channel what it skipped, and
\* nothing to the other channel's.
LEMMA MissingGrows ==
  ASSUME TypeOK, GapInv, NEW key \in Keys, key.sess = 1, key.seq >= 1,
         wlog' = Append(wlog, key), metrics' = Metrics!RecordReceived(metrics, key)
  PROVE  /\ \A c \in Channels : c # key.ch => Missing(c)' \subseteq Missing(c)
         /\ \/ Missing(key.ch)' \subseteq Missing(key.ch) /\ metrics'.dropped >= metrics.dropped
            \/ \E n \in Nat : /\ n < key.seq
                              /\ Missing(key.ch)' \subseteq Missing(key.ch) \cup (n..(key.seq - 1))
                              /\ metrics'.dropped = metrics.dropped + (key.seq - n)
         /\ \A c \in Channels : Expects(c)'
<1> DEFINE d == key.ch
           n == metrics.next[d]
           s == key.seq
<1>1. /\ d \in Channels /\ s \in Nat /\ n \in Nat /\ metrics.dropped \in Nat
      /\ metrics \in Metrics!Counters
  BY MetricsFields DEF Keys, TypeOK
<1>2. /\ metrics'.dropped = metrics.dropped + Metrics!Gap(metrics, key)
      /\ metrics'.next[d] = Metrics!NextExpected(metrics, key)
      /\ metrics'.sess[d] = 1
      /\ \A c \in Channels : c # d => metrics'.next[c] = metrics.next[c] /\ metrics'.sess[c] = metrics.sess[c]
  BY <1>1, ReceivedFields
<1>3. /\ Len(wlog') = Len(wlog) + 1 /\ Len(wlog) \in Nat
      /\ \A i \in 1..Len(wlog) : wlog'[i] = wlog[i]
      /\ wlog'[Len(wlog) + 1] = key
  BY DEF TypeOK
<1>4. 1..Len(wlog') = 1..Len(wlog) \cup {Len(wlog) + 1}
  BY <1>3
<1>5. \A c \in Channels : c # d => Arrivals(c)' = Arrivals(c)
  BY <1>3, <1>4 DEF Arrivals
<1>6. Arrivals(d)' = Arrivals(d) \cup {Len(wlog) + 1}
  BY <1>3, <1>4 DEF Arrivals
<1>7. \A c \in Channels : Missing(c) =
        {q \in 1..(metrics.next[c] - 1) :
           /\ \A i \in Arrivals(c) : wlog[i].seq # q
           /\ \E i \in Arrivals(c) : wlog[i].seq < q /\ \A j \in Arrivals(c) : i <= j}
  BY DEF Missing, Arrivals
<1>8. \A c \in Channels : Missing(c)' =
        {q \in 1..(metrics'.next[c] - 1) :
           /\ \A i \in Arrivals(c)' : wlog'[i].seq # q
           /\ \E i \in Arrivals(c)' : wlog'[i].seq < q /\ \A j \in Arrivals(c)' : i <= j}
  BY DEF Missing, Arrivals
<1>9. \A c \in Channels : \A i \in Arrivals(c) : i \in 1..Len(wlog) /\ wlog'[i] = wlog[i]
  BY <1>3 DEF Arrivals
<1>10. \A c \in Channels : c # d => Missing(c)' \subseteq Missing(c)
  BY <1>2, <1>5, <1>7, <1>8, <1>9
<1>11. Expects(d) /\ \A c \in Channels : Expects(c)
  BY <1>1 DEF GapInv
<1>12. CASE Arrivals(d) = {}
  <2>1. n = 0 /\ Metrics!Expected(metrics, key) = 0
    BY <1>11, <1>12 DEF Expects, Metrics!Expected, Metrics!Unset
  <2>2. metrics'.next[d] = s + 1 /\ metrics'.dropped = metrics.dropped
    BY <1>1, <1>2, <2>1 DEF Metrics!NextExpected, Metrics!Gap, Metrics!Unset
  <2>3. Missing(d)' = {}
    <3> SUFFICES ASSUME NEW q \in Missing(d)' PROVE FALSE
      OBVIOUS
    <3>1. q \in 1..(s + 1 - 1) /\ wlog'[Len(wlog) + 1].seq # q /\ wlog'[Len(wlog) + 1].seq < q
      BY <1>1, <1>6, <1>8, <1>12, <2>2
    <3> QED
      BY <1>1, <1>3, <3>1
  <2>4. \A c \in Channels : Expects(c)'
    <3>1. metrics'.next[d] # 0
      BY <1>1, <2>2
    <3> QED
      BY <1>1, <1>2, <1>5, <1>6, <1>11, <3>1 DEF Expects
  <2> QED
    BY <1>1, <1>10, <2>2, <2>3, <2>4
<1>13. CASE Arrivals(d) # {}
  <2>1. n # 0 /\ Metrics!Expected(metrics, key) = n
    BY <1>11, <1>13 DEF Expects, Metrics!Expected
  <2>2. /\ metrics'.next[d] = IF s >= n THEN s + 1 ELSE n
        /\ metrics'.dropped = metrics.dropped + (IF s > n THEN s - n ELSE 0)
    BY <1>1, <1>2, <2>1 DEF Metrics!NextExpected, Metrics!Gap, Metrics!Unset
  <2>3. ASSUME NEW q \in Missing(d)'
        PROVE  /\ q \in 1..(metrics'.next[d] - 1) /\ q # s
               /\ q \in 1..(n - 1) => q \in Missing(d)
    <3>1. /\ q \in 1..(metrics'.next[d] - 1)
          /\ \A i \in Arrivals(d)' : wlog'[i].seq # q
      BY <1>1, <1>8
    <3>2. PICK i \in Arrivals(d)' : wlog'[i].seq < q /\ \A j \in Arrivals(d)' : i <= j
      BY <1>1, <1>8
    <3>3. i \in Arrivals(d)
      <4>1. PICK j \in Arrivals(d) : TRUE
        BY <1>13
      <4>2. j \in 1..Len(wlog) /\ i <= j
        BY <1>1, <1>6, <1>9, <3>2, <4>1
      <4> QED
        BY <1>3, <1>6, <3>2, <4>2
    <3>4. wlog[i].seq < q /\ \A j \in Arrivals(d) : i <= j
      BY <1>1, <1>6, <1>9, <3>2, <3>3
    <3>5. \A j \in Arrivals(d) : wlog[j].seq # q
      BY <1>1, <1>6, <1>9, <3>1
    <3>6. q # s
      BY <1>3, <1>6, <3>1
    <3> QED
      BY <1>1, <1>7, <3>1, <3>3, <3>4, <3>5, <3>6
  <2>4. metrics'.next[d] # 0
    BY <1>1, <2>1, <2>2
  <2>5. \A c \in Channels : Expects(c)'
    BY <1>1, <1>2, <1>5, <1>6, <1>11, <2>4 DEF Expects
  <2>6. CASE s > n
    <3>1. \A q \in Missing(d)' : q \in Missing(d) \/ q \in n..(s - 1)
      BY <1>1, <2>1, <2>2, <2>3, <2>6
    <3> QED
      BY <1>1, <1>10, <2>2, <2>5, <2>6, <3>1
  <2>7. CASE ~(s > n)
    <3>1. \A q \in Missing(d)' : q \in Missing(d)
      BY <1>1, <2>1, <2>2, <2>3, <2>7
    <3> QED
      BY <1>1, <1>10, <2>2, <2>5, <2>7, <3>1
  <2> QED
    BY <2>6, <2>7
<1> QED
  BY <1>12, <1>13

\* The missing numbers of both channels together.
LEMMA DroppedCovers ==
  ASSUME TypeOK, TypeOK', GapInv, NEW c \in Channels, NEW d \in Channels, c # d,
         NEW n \in Nat, NEW s \in Nat, n <= s,
         Missing(c)' \subseteq Missing(c),
         Missing(d)' \subseteq Missing(d) \cup (n..(s - 1)),
         metrics'.dropped >= metrics.dropped + (s - n)
  PROVE  GapsAreDropped'
<1>1. /\ IsFiniteSet(Missing(c)) /\ Cardinality(Missing(c)) \in Nat
      /\ IsFiniteSet(Missing(d)) /\ Cardinality(Missing(d)) \in Nat
  BY MissingIsFinite
<1>2. IsFiniteSet(Missing(c)') /\ Cardinality(Missing(c)') <= Cardinality(Missing(c))
  BY <1>1, FS_Subset
<1> DEFINE I == n..(s - 1)
<1>3. IsFiniteSet(I) /\ Cardinality(I) = s - n
  <2>1. s - 1 \in Int /\ n \in Int
    OBVIOUS
  <2>2. IsFiniteSet(I) /\ Cardinality(I) = IF n > s - 1 THEN 0 ELSE s - 1 - n + 1
    BY <2>1, FS_Interval
  <2> QED
    BY <2>2
<1> HIDE DEF I
<1>4. IsFiniteSet(Missing(d) \cup I) /\ Cardinality(Missing(d) \cup I) <= Cardinality(Missing(d)) + (s - n)
  <2>1. /\ IsFiniteSet(Missing(d) \cup I)
        /\ Cardinality(Missing(d) \cup I)
             = Cardinality(Missing(d)) + Cardinality(I) - Cardinality(Missing(d) \cap I)
    BY <1>1, <1>3, FS_Union
  <2>2. IsFiniteSet(Missing(d) \cap I)
    BY <1>1, FS_Subset
  <2>3. Cardinality(Missing(d) \cap I) \in Nat
    BY <2>2, FS_CardinalityType
  <2> QED
    BY <1>1, <1>3, <2>1, <2>3
<1>5. IsFiniteSet(Missing(d)') /\ Cardinality(Missing(d)') <= Cardinality(Missing(d)) + (s - n)
  <2>1. Missing(d)' \subseteq Missing(d) \cup I
    BY DEF I
  <2>2. IsFiniteSet(Missing(d)') /\ Cardinality(Missing(d)') <= Cardinality(Missing(d) \cup I)
    BY <1>4, <2>1, FS_Subset
  <2>3. Cardinality(Missing(d)') \in Nat /\ Cardinality(Missing(d) \cup I) \in Nat
    BY <1>4, <2>2, FS_CardinalityType
  <2> QED
    BY <1>1, <1>4, <2>2, <2>3
<1>6. Cardinality(Missing(c)') \in Nat /\ Cardinality(Missing(d)') \in Nat
  BY <1>2, <1>5, FS_CardinalityType
<1>7. Cardinality(Missing(c)) + Cardinality(Missing(d)) <= metrics.dropped
  BY <1>1 DEF GapInv, GapsAreDropped, Channels
<1>8. metrics.dropped \in Nat /\ metrics'.dropped \in Nat
  BY DEF TypeOK, Metrics!Counters
<1>9. Cardinality(Missing(c)') + Cardinality(Missing(d)') <= metrics'.dropped
  BY <1>1, <1>2, <1>5, <1>6, <1>7, <1>8
<1> QED
  BY <1>6, <1>9 DEF GapsAreDropped, Channels

\* The write log and the metrics move together.
LEMMA MetricsMove ==
  ASSUME TypeOK, Next
  PROVE  \/ UNCHANGED <<wlog, metrics>>
         \/ wlog' = <<>> /\ metrics' = Metrics!ZeroMetrics
         \/ /\ wlog' = wlog /\ metrics'.next = metrics.next /\ metrics'.sess = metrics.sess
            /\ metrics'.dropped >= metrics.dropped
         \/ \E req \in net : AcceptNew(req)
<1> USE DEF receiverVars
<1>1. CASE Producer
  BY <1>1 DEF Producer, AppendLine, RemoveFile
<1>2. CASE SenderLoop
  BY <1>2 DEF SenderLoop, PollTicks, SenderExit, EndTicks, EndDom, SkipMalformed, PostLine
<1>3. CASE AttemptEnds
  BY <1>3 DEF AttemptEnds, SendSucceeds, AttemptFails, SendFails
<1>4. CASE SenderLifecycle
  BY <1>4 DEF SenderLifecycle, SenderStart, SenderStop, SenderKilled
<1>5. CASE ReceiverLifecycle
  BY <1>5 DEF ReceiverLifecycle, ReceiverStart, ReceiverStop, ReceiverExit
<1>6. ASSUME NEW m \in Metrics!Counters
      PROVE  LET r == Metrics!RecordDuplicate(m)
                 f == Metrics!RecordMalformed(m)
             IN /\ r.next = m.next /\ r.sess = m.sess /\ r.dropped >= m.dropped
                /\ f.next = m.next /\ f.sess = m.sess /\ f.dropped >= m.dropped
  BY DEF Metrics!RecordDuplicate, Metrics!RecordMalformed, Metrics!Counters
<1>7. ASSUME NEW req \in net, Accept(req)
      PROVE  \/ UNCHANGED <<wlog, metrics>>
             \/ /\ wlog' = wlog /\ metrics'.next = metrics.next /\ metrics'.sess = metrics.sess
                /\ metrics'.dropped >= metrics.dropped
             \/ AcceptNew(req)
  BY <1>6, <1>7 DEF Accept, RefuseStopped, AcceptReject, AcceptDuplicate, AcceptIoError,
                      AcceptUnread, AcceptMismatch, AcceptSwapped, TypeOK
<1> QED
  BY <1>1, <1>2, <1>3, <1>4, <1>5, <1>7 DEF Next

LEMMA GapStep ==
  ASSUME SessionBound <= 1, TypeOK, TypeOK', SettleInv, GapInv, Next
  PROVE  GapInv'
<1>1. CASE UNCHANGED <<wlog, metrics>>
  <2>1. \A c \in Channels : Missing(c)' = Missing(c) /\ (Expects(c) => Expects(c)')
    BY <1>1 DEF Missing, Expects, Arrivals
  <2>2. metrics'.dropped = metrics.dropped
    BY <1>1
  <2> QED
    BY <2>1, <2>2 DEF GapInv, GapsAreDropped, Channels
<1>2. CASE wlog' = <<>> /\ metrics' = Metrics!ZeroMetrics
  <2>1. \A c \in Channels : metrics'.next[c] = 0
    BY <1>2 DEF Metrics!ZeroMetrics, Metrics!Unset
  <2>2. \A c \in Channels : Missing(c)' = {}
    <3>1. 1..(0 - 1) = {}
      OBVIOUS
    <3> QED
      BY <2>1, <3>1 DEF Missing
  <2>3. \A c \in Channels : Expects(c)'
    <3>1. Len(<<>>) = 0 /\ 1..0 = {}
      OBVIOUS
    <3> QED
      BY <1>2, <2>1, <3>1 DEF Expects, Arrivals
  <2>4. GapsAreDropped'
    <3>1. Cardinality({}) = 0 /\ metrics'.dropped = 0
      BY <1>2, FS_EmptySet DEF Metrics!ZeroMetrics
    <3> QED
      BY <2>2, <3>1 DEF GapsAreDropped, Channels
  <2> QED
    BY <2>3, <2>4 DEF GapInv
<1>3. CASE /\ wlog' = wlog /\ metrics'.next = metrics.next /\ metrics'.sess = metrics.sess
           /\ metrics'.dropped >= metrics.dropped
  <2>1. \A c \in Channels : Missing(c)' = Missing(c)
    BY <1>3 DEF Missing
  <2>2. \A c \in Channels : Expects(c)'
    BY <1>3 DEF GapInv, Expects, Arrivals
  <2>3. metrics'.dropped \in Nat /\ metrics.dropped \in Nat
    BY DEF TypeOK, Metrics!Counters
  <2>4. Cardinality(Missing("tick")) \in Nat /\ Cardinality(Missing("dom")) \in Nat
    BY MissingIsFinite DEF Channels
  <2> QED
    BY <1>3, <2>1, <2>2, <2>3, <2>4 DEF GapInv, GapsAreDropped, Channels
<1>4. ASSUME NEW req \in net, AcceptNew(req) PROVE GapInv'
  <2> PICK key \in Keys : key = req.env.key
    BY DEF TypeOK, Requests, Envelopes
  <2>1. wlog' = Append(wlog, key) /\ metrics' = Metrics!RecordReceived(metrics, key)
    BY <1>4 DEF AcceptNew
  <2>2. key \in KeysInUse
    BY DEF SettleInv, EnvelopesInUse
  <2>3. key.sess = 1 /\ key.seq \in Nat /\ key.seq >= 1 /\ key.ch \in Channels
    BY <2>2, BoundAssumption DEF KeysInUse, LineNumbers, Channels
  <2>4. /\ \A c \in Channels : c # key.ch => Missing(c)' \subseteq Missing(c)
        /\ \/ Missing(key.ch)' \subseteq Missing(key.ch) /\ metrics'.dropped >= metrics.dropped
           \/ \E n \in Nat : /\ n < key.seq
                             /\ Missing(key.ch)' \subseteq Missing(key.ch) \cup (n..(key.seq - 1))
                             /\ metrics'.dropped = metrics.dropped + (key.seq - n)
        /\ \A c \in Channels : Expects(c)'
    BY <2>1, <2>3, MissingGrows
  <2> PICK c \in Channels : c # key.ch
    BY DEF Channels
  <2>5. metrics'.dropped \in Nat /\ metrics.dropped \in Nat
    BY DEF TypeOK, Metrics!Counters
  <2>6. GapsAreDropped'
    <3>1. CASE Missing(key.ch)' \subseteq Missing(key.ch) /\ metrics'.dropped >= metrics.dropped
      <4>1. metrics'.dropped >= metrics.dropped + (0 - 0)
        BY <2>5, <3>1
      <4>2. Missing(key.ch)' \subseteq Missing(key.ch) \cup (0..(0 - 1))
        BY <3>1
      <4> QED
        BY <2>3, <2>4, <4>1, <4>2, DroppedCovers
    <3>2. ASSUME NEW n \in Nat, n < key.seq,
                 Missing(key.ch)' \subseteq Missing(key.ch) \cup (n..(key.seq - 1)),
                 metrics'.dropped = metrics.dropped + (key.seq - n)
          PROVE  GapsAreDropped'
      <4>1. metrics'.dropped >= metrics.dropped + (key.seq - n)
        BY <2>5, <2>3, <3>2
      <4>2. n <= key.seq
        BY <2>3, <3>2
      <4> QED
        BY <2>3, <2>4, <3>2, <4>1, <4>2, DroppedCovers
    <3> QED
      BY <2>4, <3>1, <3>2
  <2> QED
    BY <2>4, <2>6 DEF GapInv
<1> QED
  BY <1>1, <1>2, <1>3, <1>4, MetricsMove

\* Both ends count what they lose, for every window, retry limit, fault set and number of
\* receiver processes: a number of a running sender is a success, a counted failure or
\* the POST it awaits, and the receiver's Dropped covers every gap in what one sender
\* process numbered, whether the missing envelope was lost or arrives late.
THEOREM LossesAreCounted ==
  ASSUME SessionBound <= 1
  PROVE  Spec => []LossesCounted
<1>1. Init => SenderAccounting /\ GapInv
  <2> SUFFICES ASSUME Init PROVE SenderAccounting /\ GapInv
    OBVIOUS
  <2>1. Len(<<>>) = 0 /\ 1..0 = {} /\ 1..(0 - 1) = {}
    OBVIOUS
  <2>2. \A c \in Channels : metrics.next[c] = 0
    BY DEF Init, Metrics!ZeroMetrics, Metrics!Unset
  <2>3. \A c \in Channels : Missing(c) = {} /\ Expects(c)
    BY <2>1, <2>2 DEF Init, Missing, Expects, Arrivals
  <2>4. GapsAreDropped
    <3>1. Cardinality({}) = 0 /\ metrics.dropped = 0
      BY FS_EmptySet DEF Init, Metrics!ZeroMetrics
    <3> QED
      BY <2>3, <3>1 DEF GapsAreDropped, Channels
  <2>5. SenderAccounting
    BY DEF Init, SenderAccounting
  <2> QED
    BY <2>3, <2>4, <2>5 DEF GapInv
<1>2. /\ TypeOK /\ TypeOK' /\ SettleInv /\ SenderAccounting /\ GapInv
      /\ [Next]_vars
      => (SenderAccounting /\ GapInv)'
  <2> SUFFICES ASSUME TypeOK, TypeOK', SettleInv, SenderAccounting, GapInv, [Next]_vars
               PROVE  (SenderAccounting /\ GapInv)'
    OBVIOUS
  <2>1. CASE Next
    BY <2>1, AccountingStep, GapStep
  <2>2. CASE UNCHANGED vars
    <3>1. \A c \in Channels : Missing(c)' = Missing(c) /\ (Expects(c) => Expects(c)')
      BY <2>2 DEF vars, receiverVars, Missing, Expects, Arrivals
    <3>2. metrics'.dropped = metrics.dropped
      BY <2>2 DEF vars, receiverVars
    <3>3. GapInv'
      BY <3>1, <3>2 DEF GapInv, GapsAreDropped, Channels
    <3>4. SenderAccounting'
      BY <2>2 DEF vars, senderVars, SenderAccounting
    <3> QED
      BY <3>3, <3>4
  <2> QED
    BY <2>1, <2>2
<1>3. SenderAccounting /\ GapInv => LossesCounted
  BY DEF GapInv, GapsAreDropped, LossesCounted
<1> QED
  BY <1>1, <1>2, <1>3, SettleAlways, PTL DEF Spec
=============================================================================
