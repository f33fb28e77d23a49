----------------------------- MODULE GapMetrics -----------------------------
(***************************************************************************)
(* The receive-side counters of BridgeMetrics                              *)
(* (bridge/src/hotirjam_bridge/metrics.py).  next[c] = 0 is Python's None:  *)
(* sequence numbers start at 1.                                             *)
(***************************************************************************)
EXTENDS Integers

CONSTANT Channels

Unset == 0

Counters ==
  [next : [Channels -> Nat], sess : [Channels -> Nat], received : [Channels -> Nat],
   dropped : Nat, duplicate : Nat, malformed : Nat]

ZeroMetrics ==
  [next |-> [c \in Channels |-> Unset], sess |-> [c \in Channels |-> Unset],
   received |-> [c \in Channels |-> 0],
   dropped |-> 0, duplicate |-> 0, malformed |-> 0]

\* the sequence number a channel expects; a new session forgets the old one
Expected(m, key) ==
  IF m.sess[key.ch] = key.sess THEN m.next[key.ch] ELSE Unset

\* mutant: the gap is counted only from the second missing number on
GapOffByOne(m, key) ==
  IF Expected(m, key) # Unset /\ key.seq > Expected(m, key)
  THEN key.seq - Expected(m, key) - 1 ELSE 0

\* the numbers skipped when key arrives
Gap(m, key) ==
  IF Expected(m, key) # Unset /\ key.seq > Expected(m, key)
  THEN key.seq - Expected(m, key) ELSE 0

NextExpected(m, key) ==
  IF Expected(m, key) = Unset \/ key.seq >= Expected(m, key)
  THEN key.seq + 1 ELSE Expected(m, key)

\* _record_seq_gap and record_tick_received / record_dom_received.  A number
\* below the expected one moves nothing: a late arrival stays counted as
\* dropped.
RecordReceived(m, key) ==
  [m EXCEPT
     !.dropped = @ + Gap(m, key),
     !.sess[key.ch] = key.sess,
     !.next[key.ch] = NextExpected(m, key),
     !.received[key.ch] = @ + 1]

RecordDuplicate(m) == [m EXCEPT !.duplicate = @ + 1]

RecordMalformed(m) == [m EXCEPT !.malformed = @ + 1, !.dropped = @ + 1]
=============================================================================
