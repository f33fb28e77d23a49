-------------------------- MODULE ObjectiveRecorder --------------------------
(***************************************************************************)
(* The engineering observer of the objective engine (objective_engineering/):   *)
(* it reads the stream of snapshots, names why a side changed, and raises an      *)
(* anomaly for what the engine must not do. It never touches the engine. A       *)
(* session (session.py) shows it each frame of the controller it drives.         *)
(*                                                                         *)
(* A snapshot is [price, active, state]; active[s] is a swing or None. The       *)
(* files of samples, changes and anomalies are abstracted to the reasons and       *)
(* the anomalies of the newest sample.                                       *)
(***************************************************************************)
EXTENDS Optional, Integers, Sequences, SequencesExt

Codes == {"UNEXPECTED_REPLACEMENT", "SIDE_COUPLING", "UNEXPLAINED_FLICKER",
          "INVALID_NONE", "IMPOSSIBLE_TRANSITION"}
Window3 == 3     \* flicker_window

\* side_fields: what a snapshot says of a side. Identity is the price.
Field(snapshot, s) ==
  LET a == snapshot.active[s]
  IN  [price    |-> IF a = None THEN None ELSE a.price,
       distance |-> IF a = None THEN -1
                    ELSE IF a.price >= snapshot.price THEN a.price - snapshot.price
                    ELSE snapshot.price - a.price,
       state    |-> snapshot.state[s]]

NoField == [price |-> None, distance |-> -1, state |-> None]

\* infer_side_reason. A replacement is nearer than the previous sample was, which
\* was measured from the previous price.
Reason(before, now) ==
  CASE now.state = None /\ now.price = None ->
         CASE before.price = None -> "NONE"
           [] before.price # None /\ before.state = "SUPERSEDED" ->
                "LIFECYCLE_SUPERSEDED"
           [] OTHER -> "CLEARED_UNEXPLAINED"
    [] now.state = "NEW"        -> "FIRST_ASSIGNMENT"
    [] now.state = "PERSISTED"  -> "UNCHANGED"
    [] now.state = "BREACHED"   -> "CONFIRMED_BROKEN"
    [] now.state = "SUPERSEDED" -> "LIFECYCLE_SUPERSEDED"
    [] OTHER -> IF before.price # None /\ now.distance >= before.distance
                THEN "UNEXPECTED_NOT_NEARER" ELSE "NEARER_ELIGIBLE"

\* check_invalid_none and check_impossible_transition.
InvalidNone(now) ==
  \/ now.price = None /\ now.state \in {"NEW", "PERSISTED", "REPLACED"}
  \/ now.price # None /\ now.state = "BREACHED"
Impossible(before, now) ==
  \/ /\ before.price = None /\ before.state = None
     /\ now.state \in {"REPLACED", "BREACHED", "SUPERSEDED", "PERSISTED"}
  \/ now.state = "REPLACED" /\ before.price # None /\ now.price = before.price
  \/ now.state \in {"NEW", "PERSISTED"} /\ now.price = None

\* check_side_coupling: both sides changed at once, out of nothing.
Coupled(before, now) ==
  \A s \in {"HIGH", "LOW"} :
    /\ before[s].price # now[s].price
    /\ before[s].state = "PERSISTED"
    /\ now[s].state \notin {"BREACHED", "SUPERSEDED"}

\* check_flicker: an identity left and taken again within the window.
Flickers(history, now) ==
  LET recent == IF Len(history) > Window3
                THEN SubSeq(history, Len(history) - Window3 + 1, Len(history))
                ELSE history
  IN  /\ now.state \notin {"BREACHED", "SUPERSEDED"}
      /\ Len(recent) >= 2 /\ now.price # None
      /\ Last(recent) # now.price
      /\ \E k \in 1..(Len(recent) - 1) : recent[k] = now.price

\* _detect_anomalies, for the snapshot that follows the ones recorded.
Anomalies(recorder, before, now) ==
  LET first == recorder.before = None
      Found(code, P(_)) ==
        {[code |-> code, side |-> s] : s \in {t \in {"HIGH", "LOW"} : P(t)}}
  IN  Found("INVALID_NONE", LAMBDA s : InvalidNone(now[s]))
      \cup Found("IMPOSSIBLE_TRANSITION",
                 LAMBDA s : ~first /\ Impossible(before[s], now[s]))
      \cup Found("UNEXPECTED_REPLACEMENT",
                 LAMBDA s : /\ now[s].state = "REPLACED"
                            /\ Reason(before[s], now[s]) = "UNEXPECTED_NOT_NEARER")
      \cup (IF ~first /\ Coupled(before, now)
            THEN {[code |-> "SIDE_COUPLING", side |-> None]} ELSE {})
      \cup Found("UNEXPLAINED_FLICKER",
                 LAMBDA s : ~first /\ Flickers(recorder.history[s], now[s]))

\* Whether a side gets a line in the file of changes: on the first sample only
\* if it has an objective.
Changes(first, before, now) ==
  IF first THEN now.price # None
  ELSE now.price # before.price \/ now.state # before.state

\* _change_from_side, as far as the last line of a side tells where it stands.
Standing(field) == [price |-> field.price, state |-> field.state]

\* observe. The histories are kept as far as the window reaches, of the file of
\* changes the last line of each side.
NoRecorder == [before |-> None, history |-> [s \in {"HIGH", "LOW"} |-> << >>],
               changes |-> [s \in {"HIGH", "LOW"} |-> Standing(NoField)],
               found |-> {}]

Observed(recorder, snapshot) ==
  LET first  == recorder.before = None
      now    == [s \in {"HIGH", "LOW"} |-> Field(snapshot, s)]
      before == [s \in {"HIGH", "LOW"} |->
                   IF first THEN NoField ELSE Field(recorder.before, s)]
  IN  [before  |-> snapshot,
       history |-> [s \in {"HIGH", "LOW"} |->
                      LET h == Append(recorder.history[s], now[s].price)
                      IN  IF Len(h) > Window3 THEN Tail(h) ELSE h],
       changes |-> [s \in {"HIGH", "LOW"} |->
                      IF Changes(first, before[s], now[s]) THEN Standing(now[s])
                      ELSE recorder.changes[s]],
       found   |-> Anomalies(recorder, before, now)]
=============================================================================
