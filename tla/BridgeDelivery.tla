--------------------------- MODULE BridgeDelivery ---------------------------
(***************************************************************************)
(* What the bridge promises, without batches, retries, windows or networks: *)
(* an offered envelope is written at most once by each receiver process,    *)
(* and is settled at most once, as acknowledged (then a journal holds it or *)
(* a receiver refused it) or as abandoned (then it may or may not be        *)
(* written, even later).                                                   *)
(***************************************************************************)
EXTENDS Sequences, Naturals

CONSTANTS Envelopes, Channels

VARIABLES offered, written, refused, journal, acked, abandoned

vars == <<offered, written, refused, journal, acked, abandoned>>

Init ==
  /\ offered = {} /\ written = {} /\ refused = {}
  /\ journal = [c \in Channels |-> <<>>]
  /\ acked = {} /\ abandoned = {}

InJournal(env) ==
  \E i \in 1..Len(journal[env.key.ch]) : journal[env.key.ch][i] = env

Offer(env) ==
  /\ env \notin offered
  /\ \A e \in offered : e.key # env.key
  /\ offered' = offered \cup {env}
  /\ UNCHANGED <<written, refused, journal, acked, abandoned>>

Write(env) ==
  /\ env \in offered /\ env.key \notin written
  /\ journal' = [journal EXCEPT ![env.key.ch] = Append(@, env)]
  /\ written' = written \cup {env.key}
  /\ UNCHANGED <<offered, refused, acked, abandoned>>

\* A receiver turns the envelope down: it is written nowhere by this attempt.
Refuse(env) ==
  /\ env \in offered
  /\ refused' = refused \cup {env}
  /\ UNCHANGED <<offered, written, journal, acked, abandoned>>

Settling(env) == env \in offered /\ env \notin acked \cup abandoned

Acknowledge(env) ==
  /\ Settling(env) /\ (InJournal(env) \/ env \in refused)
  /\ acked' = acked \cup {env}
  /\ UNCHANGED <<offered, written, refused, journal, abandoned>>

Abandon(env) ==
  /\ Settling(env)
  /\ abandoned' = abandoned \cup {env}
  /\ UNCHANGED <<offered, written, refused, journal, acked>>

\* A new receiver process remembers nothing.
ReceiverForgets ==
  /\ written' = {}
  /\ UNCHANGED <<offered, refused, journal, acked, abandoned>>

Next ==
  \/ \E env \in Envelopes : Offer(env)
  \/ \E env \in offered : Write(env) \/ Refuse(env) \/ Acknowledge(env) \/ Abandon(env)
  \/ ReceiverForgets

Spec == Init /\ [][Next]_vars
=============================================================================
