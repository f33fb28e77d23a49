------------------------------ MODULE LiveTail ------------------------------
(***************************************************************************)
(* The journal of live ticks between its writer and its readers.            *)
(*   live_data/ndjson_tail.py     NdjsonFileTail: the offset of a reader      *)
(*   live_data/ingress.py         LiveTickIngress: what is proven consumed    *)
(*   retention/files.py           enforce_ndjson_size_limit: the trim         *)
(*   live_validator/app.py        poll_once: when the trim runs               *)
(*                                                                         *)
(* Every reader is a process (dashboard, live validator, ...) with an offset  *)
(* of its own into the file; one of them, the Owner, removes what it has      *)
(* consumed.  The writer appends at any time, and a line may be in the file    *)
(* in part.  Nothing synchronizes the three.                               *)
(***************************************************************************)
EXTENDS Integers, Sequences, FiniteSets, FiniteSetsExt

CONSTANTS
  Readers,       \* the processes that tail the journal
  Owner,         \* the one that trims it: the live validator
  MaxBytes,      \* the size above which it is trimmed, in pieces
  LineBound,     \* lines written in a behaviour (bound)
  RestartBound   \* restarts of readers (bound)

ASSUME TailAssumption ==
  /\ Owner \in Readers
  /\ MaxBytes \in Nat /\ LineBound \in Nat /\ RestartBound \in Nat

\* A line is two pieces, so that a reader may find the first without the second,
\* the one with the newline.
Pieces == [line : Nat, end : BOOLEAN]
First(l)  == [line |-> l, end |-> FALSE]
Second(l) == [line |-> l, end |-> TRUE]

VARIABLES
  exists,    \* whether the file exists
  file,      \* its pieces
  lines,     \* lines begun so far
  partial,   \* whether the last one lacks its second piece
  pc,        \* per reader: "idle", "read" (after the stat), and for the Owner
             \* "polled", "swap" and "park" in a trim
  tail,      \* per reader: _initialized and _offset
  proven,    \* _proven_consumed_offset of the Owner, 0 for None
  kept,      \* the bytes a trim retains
  got,       \* per reader: the lines it was given, over all its restarts
  since,     \* per reader: the lines begun when it was armed last
  restarts,  \* restarts so far
  exposed    \* the lines a trim found unread, or that were written during one

vars == <<exists, file, lines, partial, pc, tail, proven, kept, got, since,
          restarts, exposed>>

TypeOK ==
  /\ exists \in BOOLEAN /\ file \in Seq(Pieces)
  /\ lines \in Nat /\ partial \in BOOLEAN
  /\ pc \in [Readers -> {"idle", "read", "polled", "swap", "park"}]
  /\ \A r \in Readers \ {Owner} : pc[r] \in {"idle", "read"}
  /\ tail \in [Readers -> [armed : BOOLEAN, offset : Nat]]
  /\ proven \in Nat
  /\ kept \in Seq(Pieces)
  /\ got \in [Readers -> Seq(Nat)] /\ since \in [Readers -> Nat]
  /\ restarts \in Nat /\ exposed \in SUBSET Nat

Unarmed == [armed |-> FALSE, offset |-> 0]

Init ==
  /\ exists \in BOOLEAN /\ file = <<>>
  /\ lines = 0 /\ partial = FALSE
  /\ pc = [r \in Readers |-> "idle"]
  /\ tail = [r \in Readers |-> Unarmed]
  /\ proven = 0 /\ kept = <<>>
  /\ got = [r \in Readers |-> <<>>] /\ since = [r \in Readers |-> 0]
  /\ restarts = 0 /\ exposed = {}

-----------------------------------------------------------------------------
(* The writer.  It opens the file for each line, so it finds the file a trim  *)
(* put in place.                                                           *)

InTrim == pc[Owner] \in {"swap", "park"}

Put(piece) ==
  /\ exists' = TRUE /\ file' = Append(file, piece)
  /\ exposed' = IF InTrim THEN exposed \cup {piece.line} ELSE exposed
  /\ UNCHANGED <<pc, tail, proven, kept, got, since, restarts>>

BeginLine ==
  /\ ~partial /\ lines < LineBound
  /\ lines' = lines + 1 /\ partial' = TRUE
  /\ Put(First(lines + 1))

EndLine ==
  /\ partial
  /\ partial' = FALSE
  /\ Put(Second(lines))
  /\ UNCHANGED lines

-----------------------------------------------------------------------------
(* NdjsonFileTail.poll: the size first, the bytes later.                     *)

ArmAt == Len(file)

\* The Owner goes on to the trim after every poll, whatever the poll found.
AfterPoll(r) == IF r = Owner THEN "polled" ELSE "idle"

Arm(r) ==
  /\ pc[r] = "idle" /\ exists /\ ~tail[r].armed
  /\ tail' = [tail EXCEPT ![r] = [armed |-> TRUE, offset |-> ArmAt]]
  /\ since' = [since EXCEPT ![r] = lines]
  /\ pc' = [pc EXCEPT ![r] = AfterPoll(r)]
  /\ UNCHANGED <<exists, file, lines, partial, proven, kept, got, restarts, exposed>>

\* a file that is shorter than the offset is read from its start
OffsetFor(r) == IF Len(file) < tail[r].offset THEN 0 ELSE tail[r].offset

Stat(r) ==
  /\ pc[r] = "idle" /\ exists /\ tail[r].armed
  /\ tail' = [tail EXCEPT ![r].offset = OffsetFor(r)]
  /\ pc' = [pc EXCEPT ![r] = IF Len(file) = OffsetFor(r) THEN AfterPoll(r) ELSE "read"]
  /\ UNCHANGED <<exists, file, lines, partial, proven, kept, got, since, restarts,
                 exposed>>

\* mutant: a partial line at the end holds back the complete ones before it
LastEndIfWhole(s) == IF s # <<>> /\ s[Len(s)].end THEN Len(s) ELSE 0

\* content.rfind: the position of the last newline, 0 if there is none
LastEnd(s) == Max({0} \cup {i \in 1..Len(s) : s[i].end})

\* A line is parsed if it is whole; what is between two newlines and is not a
\* line is skipped by the parser.
WholeAt(s, i) ==
  /\ s[i].end /\ i > 1 /\ s[i - 1] = First(s[i].line)
  /\ i > 2 => s[i - 2].end

\* the members of a set of positions, from the first to the last
InOrder(S) ==
  CHOOSE q \in [1..Cardinality(S) -> S] :
    /\ \A i, j \in DOMAIN q : i < j => q[i] < q[j]
    /\ \A x \in S : \E i \in DOMAIN q : q[i] = x

LinesIn(s) ==
  LET at == InOrder({i \in 1..LastEnd(s) : WholeAt(s, i)})
  IN [k \in DOMAIN at |-> s[at[k]].line]

\* mutant: a partial line at the end keeps the offset where it was
NotAdvanced(r, s) == tail[r].offset + (IF LastEnd(s) = Len(s) THEN Len(s) ELSE 0)

Advanced(r, s) == tail[r].offset + LastEnd(s)

\* Bytes are proven consumed once a poll returned lines.
Read(r) ==
  /\ pc[r] = "read"
  /\ LET content == SubSeq(file, tail[r].offset + 1, Len(file))
     IN /\ tail' = [tail EXCEPT ![r].offset = Advanced(r, content)]
        /\ got' = [got EXCEPT ![r] = @ \o LinesIn(content)]
        /\ proven' = IF r = Owner /\ LastEnd(content) > 0 THEN tail'[r].offset ELSE proven
  /\ pc' = [pc EXCEPT ![r] = AfterPoll(r)]
  /\ UNCHANGED <<exists, file, lines, partial, kept, since, restarts, exposed>>

-----------------------------------------------------------------------------
(* The trim, after a poll of the Owner: every twentieth poll, any poll here.  *)

NoTrim ==
  /\ pc[Owner] = "polled"
  /\ pc' = [pc EXCEPT ![Owner] = "idle"]
  /\ UNCHANGED <<exists, file, lines, partial, tail, proven, kept, got, since,
                 restarts, exposed>>

\* mutant: the whole file is dropped
DropAll == Len(file)

DropThrough == Min({proven, Len(file)})

ReadRetained ==
  /\ pc[Owner] = "polled"
  /\ proven > 0 /\ Len(file) > MaxBytes
  /\ kept' = SubSeq(file, DropThrough + 1, Len(file))
  /\ exposed' = exposed \cup {kept'[i].line : i \in 1..Len(kept')}
  /\ pc' = [pc EXCEPT ![Owner] = "swap"]
  /\ UNCHANGED <<exists, file, lines, partial, tail, proven, got, since, restarts>>

\* os.replace: what was written since ReadRetained is gone
Swap ==
  /\ pc[Owner] = "swap"
  /\ file' = kept /\ kept' = <<>>
  /\ pc' = [pc EXCEPT ![Owner] = "park"]
  /\ UNCHANGED <<exists, lines, partial, tail, proven, got, since, restarts, exposed>>

\* the temporary file cannot be written or put in place
SwapFails ==
  /\ pc[Owner] = "swap"
  /\ kept' = <<>>
  /\ pc' = [pc EXCEPT ![Owner] = "idle"]
  /\ UNCHANGED <<exists, file, lines, partial, tail, proven, got, since, restarts, exposed>>

ProvenAfterTrim == 0

\* mark_prefix_removed, with the size the file has by now
Park ==
  /\ pc[Owner] = "park"
  /\ tail' = [tail EXCEPT ![Owner] = [armed |-> TRUE, offset |-> Len(file)]]
  /\ proven' = ProvenAfterTrim
  /\ pc' = [pc EXCEPT ![Owner] = "idle"]
  /\ UNCHANGED <<exists, file, lines, partial, kept, got, since, restarts, exposed>>

-----------------------------------------------------------------------------
\* A reader dies, wherever it is, and comes back with nothing but the file.
Restart(r) ==
  /\ restarts < RestartBound
  /\ restarts' = restarts + 1
  /\ tail' = [tail EXCEPT ![r] = Unarmed]
  /\ pc' = [pc EXCEPT ![r] = "idle"]
  /\ proven' = IF r = Owner THEN 0 ELSE proven
  /\ kept' = IF r = Owner THEN <<>> ELSE kept
  /\ UNCHANGED <<exists, file, lines, partial, got, since, exposed>>

Poll(r) == Arm(r) \/ Stat(r) \/ Read(r)
Trim == NoTrim \/ ReadRetained \/ Swap \/ SwapFails \/ Park

Next ==
  \/ BeginLine \/ EndLine
  \/ \E r \in Readers : Poll(r) \/ Restart(r)
  \/ Trim

Spec == Init /\ [][Next]_vars

\* Readers poll in a loop; the writer owes nothing, not even the rest of a line.
FairSpec == Spec /\ \A r \in Readers : WF_vars(Poll(r) \/ (r = Owner /\ Trim))

-----------------------------------------------------------------------------
\* The Owner is given each line at most once and in the order of the file, over
\* all its trims and restarts.
OwnerInOrder ==
  \A i, j \in 1..Len(got[Owner]) : i < j => got[Owner][i] < got[Owner][j]

\* The line is complete and was begun after the reader was armed.
Due(r, l) ==
  tail[r].armed /\ l \in (since[r] + 1)..lines /\ (l = lines => ~partial)

InFileBehind(r, l) ==
  \E i \in (tail[r].offset + 1)..Len(file) : file[i] = Second(l)

Given(r, l) == \E i \in 1..Len(got[r]) : got[r][i] = l

\* A line is due, and the reader will never see it.
Lost(r, l) == Due(r, l) /\ ~Given(r, l) /\ ~InFileBehind(r, l)

\* What is proven consumed is where the Owner stands in the file as it is now.
ProvenIsCurrent == proven \in {0, tail[Owner].offset}

\* A trim costs the Owner nothing but the lines that were unread when it began or
\* were written while it ran: never one from before, and never a later one.
LossIsExposed == \A l \in 1..lines : Lost(Owner, l) => l \in exposed

\* Another reader, whose offset is into the old file, may see a line twice, but
\* only one that a trim had retained.
ReplayIsExposed ==
  \A r \in Readers : \A i, j \in 1..Len(got[r]) :
    i < j /\ got[r][i] >= got[r][j] => got[r][j] \in exposed

\* All that a trim can do to the lines, over any number of trims and restarts: the next
\* one removes nothing that was not consumed, and what is lost or seen twice was unread
\* when a trim began or was written while it ran.
TrimIsExposed == ProvenIsCurrent /\ LossIsExposed /\ ReplayIsExposed

\* Every complete line behind the offset of a reader is passed some day, also
\* while the file is trimmed under the reader, and whatever follows the line.
LineIsPassed ==
  \A r \in Readers, l \in 1..LineBound :
    (tail[r].armed /\ InFileBehind(r, l)) ~> ~(tail[r].armed /\ InFileBehind(r, l))

\* The trim "never touches unconsumed market bytes": once it is over, every line
\* the Owner was due is given or still ahead of its offset.
NothingIsLost == pc[Owner] = "idle" => \A l \in 1..lines : ~Lost(Owner, l)
=============================================================================
