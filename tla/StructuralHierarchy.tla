------------------------ MODULE StructuralHierarchy ------------------------
(***************************************************************************)
(* The registry of confirmed swings the objectives are chosen from            *)
(* (objective_diagnostics/persistent_hierarchy.py, with the labels of           *)
(* significance_diagnostics.py and candidate_report.py).                       *)
(*                                                                         *)
(* A swing gets its parent, depth and category once, when it is first seen;      *)
(* afterwards only its lifecycle moves. The rolling lists of swings it is fed    *)
(* forget; the registry does not, and a checkpoint carries it over a restart.    *)
(*                                                                         *)
(* An id is a position in registry: ids are given in order and never removed.   *)
(* At most one swing of each side is new in an evaluation (a tick closes at      *)
(* most one bar; with two, LiveValidator!ListedAreRegistered would find one        *)
(* missing), so a batch that displaces its own members does not arise. The transition journal and its      *)
(* counter hierarchy_version are abstracted to whether registry moved: every     *)
(* journaled transition changes a record or adds one.                          *)
(***************************************************************************)
EXTENDS Optional, Integers, FiniteSets, Sequences

CONSTANTS
  Prices,           \* prices, in ticks
  Strengths,        \* strengths of a swing, 0 to 100
  Times,            \* confirmation times: the bars, numbered
  MicroProminence,  \* _MICRO_PROMINENCE_TICKS
  MajorProminence,  \* _MAJOR_PROMINENCE_TICKS
  Inherited         \* the checkpoints that the first process may find

ASSUME HierarchyAssumption ==
  /\ Prices \subseteq Int /\ Strengths \subseteq 0..100 /\ Times \subseteq Int
  /\ None \notin Int /\ None \notin [price : Prices, strength : Strengths, at : Times]
  /\ MicroProminence \in Nat /\ MajorProminence \in Nat \ {0}
  /\ \A d \in Inherited : d.version \in {1, 2}

Sides      == {"HIGH", "LOW"}
Categories == {"MICRO", "MINOR", "MAJOR"}
Lifecycles == {"ACTIVE", "CHALLENGED", "CONFIRMED_BROKEN", "SUPERSEDED",
               "ARCHIVED"}
Terminal   == {"CONFIRMED_BROKEN", "SUPERSEDED", "ARCHIVED"}
Root       == 0     \* parent_id is None
Version    == 2     \* CHECKPOINT_VERSION; the version before knew BREACHED

Swing == [price : Prices, strength : Strengths, at : Times]
Record == [side : Sides, swing : Swing, parent : Nat, depth : Nat,
           category : Categories, lifecycle : Lifecycles,
           extreme : Prices \cup {None},
           started : BOOLEAN,    \* challenge_started_at is there
           reclaimed : BOOLEAN]  \* the last challenge was reclaimed

VARIABLES
  registry,  \* _records: a sequence, the id is the position
  frontier,  \* _frontiers: for each side the ids still open to the right
  fragments, \* _record_json: each record as it was last encoded
  saved      \* the checkpoint file: a registry and its frontiers

hvars == <<registry, frontier, fragments, saved>>

Hierarchy == [registry |-> registry, frontier |-> frontier,
              fragments |-> fragments]

\* mutant: a record of the same lifecycle is not encoded again.
PutWithLifecycle(h, reg) ==
  [h EXCEPT !.registry = reg,
            !.fragments = [i \in DOMAIN reg |->
               IF /\ i \in DOMAIN h.registry
                  /\ reg[i].lifecycle = h.registry[i].lifecycle
               THEN h.fragments[i] ELSE reg[i]]]
\* _put_record, for every record a step stores: only those are encoded again.
Put(h, reg) ==
  [h EXCEPT !.registry = reg,
            !.fragments = [i \in DOMAIN reg |->
               IF i \in DOMAIN h.registry /\ reg[i] = h.registry[i]
               THEN h.fragments[i] ELSE reg[i]]]

\* The document a checkpoint writes is put together from the fragments; the
\* reference serializer encodes the records themselves.
Document(h) ==
  [version |-> Version, registry |-> h.fragments, frontier |-> h.frontier]

\* restore, with _rebuild_json_caches: a swing that the old version had breached
\* comes back as challenged, by nobody knows which price.
Loaded(document) ==
  LET Migrated(r) == IF document.version = 1 /\ r.lifecycle = "BREACHED"
                     THEN [r EXCEPT !.lifecycle = "CHALLENGED"] ELSE r
      records == [i \in DOMAIN document.registry |-> Migrated(document.registry[i])]
  IN  [registry |-> records, frontier |-> document.frontier, fragments |-> records]

\* p is on the far side of q, seen from the price: above a high, below a low.
Beyond(side, p, q) == IF side = "HIGH" THEN p > q ELSE p < q

PriceOf(r) == r.swing.price

-----------------------------------------------------------------------------
(* Ingestion: the fingerprint, the parent, and what a swing displaces.        *)

\* mutant: only the live swings are remembered.
SeenAlive(h, side, swing) ==
  \E i \in DOMAIN h.registry : /\ h.registry[i].side = side
                               /\ h.registry[i].swing = swing
                               /\ h.registry[i].lifecycle \notin Terminal
\* The fingerprint of a swing is its side, price, strength and time.
Seen(h, side, swing) ==
  \E i \in DOMAIN h.registry : /\ h.registry[i].side = side
                               /\ h.registry[i].swing = swing

\* mutant: a swing at the same price is kept on the frontier.
EnclosingOrLevel(h, side, price) ==
  {k \in 1..Len(h.frontier[side]) :
     ~Beyond(side, price, PriceOf(h.registry[h.frontier[side][k]]))}
\* How much of a frontier encloses a price: the ids after it are popped.
Enclosing(h, side, price) ==
  {k \in 1..Len(h.frontier[side]) :
     Beyond(side, PriceOf(h.registry[h.frontier[side][k]]), price)}
Kept(h, side, price) ==
  LET K == Enclosing(h, side, price)
  IN  IF K = {} THEN << >>
      ELSE SubSeq(h.frontier[side], 1, CHOOSE k \in K : \A j \in K : j <= k)

\* _assign_parent, with what the arrival leaves of its side's frontier, and the
\* record _ingest stores, before it is classified.
Placed(h, side, swing, kept) ==
  LET parent == IF kept = << >> THEN Root ELSE kept[Len(kept)]
  IN  [Put(h, Append(h.registry,
         [side |-> side, swing |-> swing, parent |-> parent,
          depth |-> IF parent = Root THEN 0 ELSE h.registry[parent].depth + 1,
          category |-> "MICRO", lifecycle |-> "ACTIVE", extreme |-> None,
          started |-> FALSE, reclaimed |-> FALSE]))
       EXCEPT !.frontier[side] = Append(kept, Len(h.registry) + 1)]
Ingested(h, side, swing) ==
  IF swing = None THEN h ELSE Placed(h, side, swing, Kept(h, side, swing.price))

\* The swings the registry has not seen, highs before lows: new is for each
\* side the swing that is new, or None.
Ingest(h, new) == Ingested(Ingested(h, "HIGH", new["HIGH"]), "LOW", new["LOW"])

NewIds(h, after) == (Len(h.registry) + 1)..Len(after.registry)

\* The ids an arrival popped from its side's frontier.
Displaced(h, after, side) ==
  {h.frontier[side][k] : k \in 1..Len(h.frontier[side])} \
  {after.frontier[side][k] : k \in 1..Len(after.frontier[side])}

-----------------------------------------------------------------------------
(* Classification, frozen at confirmation.                                  *)

Distance(p, q) == IF p >= q THEN p - q ELSE q - p
AtMost(bound, x) == IF x > bound THEN bound ELSE x
AtLeast(bound, x) == IF x < bound THEN bound ELSE x

Prominence(reg, i) ==
  LET D == {Distance(PriceOf(reg[i]), PriceOf(reg[j])) :
              j \in {k \in DOMAIN reg : reg[k].side # reg[i].side}}
  IN  IF D = {} THEN reg[i].swing.strength \div 10
      ELSE CHOOSE d \in D : \A e \in D : d <= e

Persistence(r, prominence) ==
  AtLeast(0, AtMost(100, AtMost(50, r.swing.strength \div 2)
                         + AtMost(50, (prominence * 50) \div MajorProminence)
                         - AtMost(40, r.depth * 15)))

Category(reg, i) ==
  LET prominence == Prominence(reg, i)
  IN  IF /\ reg[i].depth = 0 /\ prominence >= MajorProminence
         /\ Persistence(reg[i], prominence) >= 55
      THEN "MAJOR"
      ELSE IF prominence < MicroProminence THEN "MICRO" ELSE "MINOR"

\* mutant: the swings of before are classified again, against the new ones.
ClassifiedAgain(reg, ids) ==
  [i \in DOMAIN reg |-> [reg[i] EXCEPT !.category = Category(reg, i)]]
Classified(reg, ids) ==
  [i \in DOMAIN reg |->
     IF i \in ids THEN [reg[i] EXCEPT !.category = Category(reg, i)] ELSE reg[i]]

-----------------------------------------------------------------------------
(* Lifecycle.                                                              *)

\* A new swing on the other side settles a challenge, one way or the other,
\* when the price is on the same side of the challenged swing as it is.
Accepts(r, evidence, price) ==
  /\ Beyond(r.side, PriceOf(evidence), PriceOf(r))
  /\ Beyond(r.side, price, PriceOf(r))
Reclaims(r, evidence, price) ==
  /\ Beyond(r.side, PriceOf(r), PriceOf(evidence))
  /\ Beyond(r.side, PriceOf(r), price)

Resolved(reg, ids, price) ==
  LET Evidence(i) == {reg[j] : j \in {k \in ids : reg[k].side # reg[i].side}}
  IN  [i \in DOMAIN reg |->
         IF reg[i].lifecycle # "CHALLENGED" THEN reg[i]
         ELSE IF \E e \in Evidence(i) : Accepts(reg[i], e, price)
              THEN [reg[i] EXCEPT !.lifecycle = "CONFIRMED_BROKEN"]
         ELSE IF \E e \in Evidence(i) : Reclaims(reg[i], e, price)
              THEN [reg[i] EXCEPT !.lifecycle = "ACTIVE", !.reclaimed = TRUE]
         ELSE reg[i]]

\* A new governing root retires the major swings it displaced.
Superseded(h, after, reg) ==
  LET Governs(side) == \E n \in NewIds(h, after) :
        reg[n].side = side /\ reg[n].category = "MAJOR" /\ reg[n].parent = Root
      Retired(i) == /\ Governs(reg[i].side)
                    /\ i \in Displaced(h, after, reg[i].side)
                    /\ reg[i].category = "MAJOR"
                    /\ reg[i].lifecycle \in {"ACTIVE", "CHALLENGED"}
  IN  [i \in DOMAIN reg |->
         IF Retired(i) THEN [reg[i] EXCEPT !.lifecycle = "SUPERSEDED"]
         ELSE reg[i]]

\* A trade through an active swing challenges it; going on extends the challenge.
ChallengedBy(r, price) ==
  IF ~Beyond(r.side, price, PriceOf(r)) THEN r
  ELSE IF r.lifecycle = "ACTIVE"
       THEN [r EXCEPT !.lifecycle = "CHALLENGED", !.extreme = price,
                      !.started = TRUE]
  ELSE IF /\ r.lifecycle = "CHALLENGED"
          /\ r.extreme = None \/ Beyond(r.side, price, r.extreme)
       THEN [r EXCEPT !.extreme = price]
  ELSE r

\* evaluate, on a hierarchy: what is new at this price, and what follows, each
\* step storing its records. after is the hierarchy with what is new.
Names(h, ids)           == Put(h, Classified(h.registry, ids))
Resolves(h, ids, price) == Put(h, Resolved(h.registry, ids, price))
Retires(h, before, after) == Put(h, Superseded(before, after, h.registry))
Challenges(h, price) ==
  Put(h, [i \in DOMAIN h.registry |-> ChallengedBy(h.registry[i], price)])
Moved(before, after, ids, price) ==
  Challenges(Retires(Resolves(Names(after, ids), ids, price), before, after), price)
Follows(before, after, price) == Moved(before, after, NewIds(before, after), price)
Evaluated(h, new, price) == Follows(h, Ingest(h, new), price)

\* _challenge_state, what a report says of a challenge.
ChallengeStates == {"NONE", "UNDER_CHALLENGE", "RECLAIMED", "CONFIRMED_BROKEN",
                    "RESOLVED"}
ChallengeState(r) ==
  CASE r.lifecycle = "CHALLENGED" -> "UNDER_CHALLENGE"
    [] r.lifecycle = "ACTIVE" /\ r.reclaimed -> "RECLAIMED"
    [] r.lifecycle = "CONFIRMED_BROKEN" -> "CONFIRMED_BROKEN"
    [] r.lifecycle \in {"SUPERSEDED", "ARCHIVED"} /\ r.started -> "RESOLVED"
    [] OTHER -> "NONE"

\* evaluate_eligibility, for a record at a price.
Eligible(r, price) ==
  /\ r.category = "MAJOR"
  /\ r.lifecycle \in {"ACTIVE", "CHALLENGED"}
  /\ r.lifecycle = "CHALLENGED" \/ Beyond(r.side, PriceOf(r), price)
\* mutant: a dead swing on the right side of the price is offered again.
EligibleDead(r, price) ==
  /\ r.category = "MAJOR"
  /\ r.lifecycle = "CHALLENGED" \/ Beyond(r.side, PriceOf(r), price)

-----------------------------------------------------------------------------
(* The registry as a process of its own: fed swings and prices, archived,      *)
(* checkpointed when something moved, restored.                              *)

\* checkpoint(), as a process would leave the file after this evaluation.
Checkpointed(after) == IF after.registry # registry THEN Document(after) ELSE saved

\* There is a file, or an empty hierarchy is what the process starts with.
HInit ==
  /\ saved \in Inherited
  /\ registry = Loaded(saved).registry
  /\ frontier = Loaded(saved).frontier
  /\ fragments = Loaded(saved).fragments

EvaluateHierarchy(new, price) ==
  LET after == Evaluated(Hierarchy, new, price)
  IN  /\ registry' = after.registry
      /\ frontier' = after.frontier
      /\ fragments' = after.fragments
      /\ saved' = Checkpointed(after)

\* archive(): a dead swing, closed by a later root. No caller under src.
Archive(i, closing) ==
  /\ i \in DOMAIN registry /\ closing \in DOMAIN registry
  /\ registry[i].lifecycle \in Terminal \ {"ARCHIVED"}
  /\ registry[closing].parent = Root
  /\ registry[closing].swing.at > registry[i].swing.at
  /\ LET after == Put(Hierarchy, [registry EXCEPT ![i].lifecycle = "ARCHIVED"])
     IN  /\ registry' = after.registry
         /\ fragments' = after.fragments
         /\ saved' = Document(after)
  /\ UNCHANGED frontier

\* A new process finds the file.
Restore ==
  /\ registry' = Loaded(saved).registry
  /\ frontier' = Loaded(saved).frontier
  /\ fragments' = Loaded(saved).fragments
  /\ UNCHANGED saved

Unseen(side) == {None} \cup {w \in Swing : ~Seen(Hierarchy, side, w)}

HNext ==
  \/ \E high \in Unseen("HIGH"), low \in Unseen("LOW"), price \in Prices :
       EvaluateHierarchy([s \in Sides |-> IF s = "HIGH" THEN high ELSE low],
                         price)
  \/ \E i, closing \in DOMAIN registry : Archive(i, closing)
  \/ Restore

HSpec == HInit /\ [][HNext]_hvars

-----------------------------------------------------------------------------
(* Properties.                                                             *)

\* An earlier swing of the same side, strictly further out.
Encloses(reg, i, j) ==
  /\ i < j /\ reg[i].side = reg[j].side
  /\ Beyond(reg[i].side, PriceOf(reg[i]), PriceOf(reg[j]))

NearestParents(reg) ==
  \A j \in DOMAIN reg :
    LET p == reg[j].parent
    IN  IF p = Root
        THEN reg[j].depth = 0 /\ ~\E i \in DOMAIN reg : Encloses(reg, i, j)
        ELSE /\ p \in DOMAIN reg /\ Encloses(reg, p, j)
             /\ ~\E i \in DOMAIN reg : i > p /\ Encloses(reg, i, j)
             /\ reg[j].depth = reg[p].depth + 1

\* The stack of _assign_parent computes what build_hierarchy's docstring
\* promises: the parent of a swing is the latest earlier swing of its side that
\* is strictly further out, and its depth is the length of the parent chain.
ParentsAreNearest == NearestParents(registry)

\* No later swing of its side reaches the swing i.
Unreached(reg, side, i) ==
  /\ reg[i].side = side
  /\ \A j \in DOMAIN reg : j > i /\ reg[j].side = side =>
       Beyond(side, PriceOf(reg[i]), PriceOf(reg[j]))

\* A frontier holds the standing swings of its side, in their order.
Nested(h) ==
  \A side \in Sides :
    /\ \A a, b \in DOMAIN h.frontier[side] :
         a < b => h.frontier[side][a] < h.frontier[side][b]
    /\ \A i \in DOMAIN h.registry :
         Unreached(h.registry, side, i)
           <=> \E k \in DOMAIN h.frontier[side] : h.frontier[side][k] = i

WellFormed(h) ==
  /\ h.registry \in Seq(Record)
  /\ h.frontier \in [Sides -> Seq(DOMAIN h.registry)]

Distinct(reg) ==
  \A i, j \in DOMAIN reg :
    reg[i].side = reg[j].side /\ reg[i].swing = reg[j].swing => i = j

\* A checkpoint that the first process finds was written by one before it.
ASSUME InheritedAssumption ==
  \A d \in Inherited :
    /\ WellFormed(Loaded(d)) /\ Nested(Loaded(d))
    /\ NearestParents(Loaded(d).registry) /\ Distinct(Loaded(d).registry)

\* A swing is registered once, however often the lists repeat it and whatever
\* restarts lie between.
NoSwingTwice == Distinct(registry)

\* A restart would find what the registry holds: every transition was saved, each
\* record as it is and not as an older fragment had it.
SavedIsCurrent == Loaded(saved) = Hierarchy

\* What a swing is was decided when it was confirmed, and a dead swing stays
\* dead: whatever happens, restarts included.
Frozen(a, b) ==
  /\ a.side = b.side /\ a.swing = b.swing /\ a.parent = b.parent
  /\ a.depth = b.depth /\ a.category = b.category
StructureIsPermanent ==
  [][\A i \in DOMAIN registry :
       /\ i \in DOMAIN registry'
       /\ Frozen(registry[i], registry'[i])
       /\ registry[i].lifecycle \in Terminal =>
            registry'[i].lifecycle \in {registry[i].lifecycle, "ARCHIVED"}]_hvars
=============================================================================
