---------------------------- MODULE TailAndWindow ----------------------------
(***************************************************************************)
(* What the two ends of the bridge keep between two lines: the sender's        *)
(* read-only tail of a journal file (bridge/src/hotirjam_bridge/sender/tail.py)  *)
(* and the receiver's bounded duplicate window (receiver/dedupe.py).            *)
(*                                                                         *)
(* A file is a record [present, id, base, size]: id is its (device, inode)     *)
(* pair, and its complete lines are the numbers base + 1 .. base + size, a     *)
(* number for every line the producer ever wrote.  Offsets count complete      *)
(* lines; a partial last line is a line that is not there yet.                 *)
(* A tail is a record [id, off]; NoId stands for file_id None.                 *)
(*                                                                         *)
(* An OrderedDict whose keys keep insertion order is a sequence of keys,       *)
(* oldest first.                                                           *)
(***************************************************************************)
EXTENDS Naturals, Sequences

NoId == 0

Lines(base, from, to) == [i \in 1..(to - from) |-> base + from + i]

\* NdjsonTail.__init__: arm at the end of an existing file, or at its start
ArmTail(file, fromEof) ==
  IF fromEof /\ file.present
  THEN [id |-> file.id, off |-> file.size]
  ELSE [id |-> NoId, off |-> 0]

\* A different inode under the same path: the tail skips to its end.
Replaced(tail, file) == tail.id # NoId /\ tail.id # file.id

\* The offset the read starts from; a file shorter than the offset was
\* truncated, and the tail parks at its end.
ReadFrom(tail, file) == IF file.size < tail.off THEN file.size ELSE tail.off

\* mutant: the offset is not moved behind the lines returned
TailNotAdvanced(tail, file) ==
  IF ~file.present THEN [tail EXCEPT !.id = NoId]
  ELSE [id |-> file.id, off |-> ReadFrom(tail, file)]

\* NdjsonTail.poll: the tail afterwards ...
TailAfterPoll(tail, file) ==
  IF ~file.present THEN [tail EXCEPT !.id = NoId]
  ELSE [id |-> file.id, off |-> file.size]

\* ... and the lines it returns
PolledLines(tail, file) ==
  IF ~file.present \/ Replaced(tail, file) THEN <<>>
  ELSE Lines(file.base, ReadFrom(tail, file), file.size)

-----------------------------------------------------------------------------
\* max(1, int(window)): a configured window of zero still remembers one key.
EffectiveWindow(w) == IF w < 1 THEN 1 ELSE w

\* mutant: only the newest key is compared
RemembersNewest(seen, key) == Len(seen) > 0 /\ seen[Len(seen)] = key

\* __contains__
Remembers(seen, key) == \E i \in 1..Len(seen) : seen[i] = key

\* mutant: the loop condition `len(self._seen) >= self._window'
EvictOneTooMany(seen, w) ==
  IF Len(seen) >= w THEN SubSeq(seen, Len(seen) - w + 2, Len(seen)) ELSE seen

\* popitem(last=False) until at most w keys are left
Evict(seen, w) ==
  IF Len(seen) > w THEN SubSeq(seen, Len(seen) - w + 1, Len(seen)) ELSE seen

\* seen_before of a key the window does not hold: append it, then evict
Remember(seen, key, w) == Evict(Append(seen, key), w)

\* win holds the newest w elements of log, or all of a shorter one
NewestOf(win, log, w) ==
  /\ Len(win) = (IF Len(log) < w THEN Len(log) ELSE w)
  /\ \A i \in 1..Len(win) : win[i] = log[Len(log) - Len(win) + i]

\* equal elements of log have at least w others between them
FarApart(log, w) ==
  \A i, j \in 1..Len(log) : i < j /\ log[i] = log[j] => j - i > w
=============================================================================
