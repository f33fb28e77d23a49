------------------------- MODULE ObjectiveSelection -------------------------
(***************************************************************************)
(* The objective engine (objective/objective_engine.py): on each side the       *)
(* nearest eligible major swing of the registry, kept until it is broken,       *)
(* superseded or a nearer one appears.                                      *)
(*                                                                         *)
(* An objective is remembered by value, as the swing it stands for (price,       *)
(* strength, time), not by its id: the engine finds it again in each report by    *)
(* comparing those.                                                        *)
(***************************************************************************)
EXTENDS StructuralHierarchy

\* The values of PersistenceState; a side that never had an objective has none.
States == {"NEW", "PERSISTED", "REPLACED", "BREACHED", "SUPERSEDED"}

ASSUME StatesAssumption == None \notin States

VARIABLES
  active,    \* for each side the objective in force, or None
  barred,    \* for each side the objectives that were breached or superseded
  state      \* for each side the persistence state of the newest snapshot

ovars == <<active, barred, state>>

OInit ==
  /\ active = [s \in Sides |-> None]
  /\ barred = [s \in Sides |-> {}]
  /\ state  = [s \in Sides |-> None]

-----------------------------------------------------------------------------
\* The order candidates are chosen in: nearer, stronger, later, lower.
Preferred(a, b, price) ==
  LET da == Distance(a.price, price)
      db == Distance(b.price, price)
  IN  \/ da < db
      \/ da = db /\ a.strength > b.strength
      \/ da = db /\ a.strength = b.strength /\ a.at > b.at
      \/ da = db /\ a.strength = b.strength /\ a.at = b.at /\ a.price <= b.price

\* _pick_nearest_eligible over the swings of a side that are not barred.
Candidates(reg, side, price, excluded) ==
  {reg[i].swing : i \in {k \in DOMAIN reg : /\ reg[k].side = side
                                            /\ Eligible(reg[k], price)
                                            /\ reg[k].swing \notin excluded}}
Pick(reg, side, price, excluded) ==
  LET C == Candidates(reg, side, price, excluded)
  IN  IF C = {} THEN None
      ELSE CHOOSE c \in C : \A d \in C : Preferred(c, d, price)

\* The lifecycle a report gives an objective: of the swing with its values.
LifecycleOf(reg, side, objective) ==
  LET I == {i \in DOMAIN reg : /\ reg[i].side = side
                               /\ reg[i].swing = objective}
  IN  IF I = {} THEN None ELSE reg[CHOOSE i \in I : \A j \in I : i <= j].lifecycle

\* mutant: nearness is asked before the lifecycle.
ReconciledNearestFirst(reg, side, previous, pick, price) ==
  CASE previous = None ->
         <<pick, IF pick = None THEN None ELSE "NEW">>
    [] /\ previous # None /\ pick # None /\ pick # previous
       /\ Distance(pick.price, price) < Distance(previous.price, price) ->
         <<pick, "REPLACED">>
    [] OTHER -> <<previous, "PERSISTED">>

\* _reconcile_side: the objective a side goes on with, and how it came to it.
Reconciled(reg, side, previous, pick, price) ==
  CASE previous = None ->
         <<pick, IF pick = None THEN None ELSE "NEW">>
    [] /\ previous # None
       /\ LifecycleOf(reg, side, previous) = "CONFIRMED_BROKEN" ->
         <<None, "BREACHED">>
    [] /\ previous # None
       /\ LifecycleOf(reg, side, previous) = "SUPERSEDED" ->
         <<pick, "SUPERSEDED">>
    [] OTHER ->
         IF /\ pick # None /\ pick # previous
            /\ Distance(pick.price, price) < Distance(previous.price, price)
         THEN <<pick, "REPLACED">>
         ELSE <<previous, "PERSISTED">>

\* ObjectiveEngine.evaluate on the report of a registry at a price; the sides
\* do not see one another.
EvaluateObjectives(reg, price) ==
  LET Next(s) == Reconciled(reg, s, active[s],
                            Pick(reg, s, price, barred[s]), price)
  IN  /\ active' = [s \in Sides |-> Next(s)[1]]
      /\ state'  = [s \in Sides |-> Next(s)[2]]
      /\ barred' = [s \in Sides |->
                      IF active[s] # None /\ Next(s)[2] \in {"BREACHED", "SUPERSEDED"}
                      THEN barred[s] \cup {active[s]} ELSE barred[s]]

-----------------------------------------------------------------------------
(* What the log says of it: derive_diagnostic_log, from the report's rows of a     *)
(* side and the price of the objective.                                       *)

CategoryRank == [c \in Categories |->
                   CASE c = "MAJOR" -> 0 [] c = "MINOR" -> 1 [] c = "MICRO" -> 2]
LifecycleRank == [l \in Lifecycles |->
                   CASE l = "ACTIVE" -> 0 [] l = "CHALLENGED" -> 1
                     [] l = "SUPERSEDED" -> 2 [] l = "CONFIRMED_BROKEN" -> 3
                     [] l = "ARCHIVED" -> 4]

\* mutant: the rows are left in the order of the registry.
RowBeforeById(reg, i, j, price) == i <= j
\* sort_candidates, for two rows at the same price: the distance is the same.
RowBefore(reg, i, j, price) ==
  LET a == reg[i]
      b == reg[j]
      Key(r) == <<CategoryRank[r.category], LifecycleRank[r.lifecycle],
                  IF Eligible(r, price) THEN 0 ELSE 1>>
      k == Key(a)
      m == Key(b)
  IN  \/ k[1] < m[1]
      \/ k[1] = m[1] /\ k[2] < m[2]
      \/ k[1] = m[1] /\ k[2] = m[2] /\ k[3] < m[3]
      \/ k = m /\ i <= j

\* _to_report: what a row of the report says of a record.
Row(r, price) == [swing |-> r.swing, eligible |-> Eligible(r, price),
                  challenge |-> ChallengeState(r)]

\* _find_by_price: the row the log names as the selected one.
LoggedAs(reg, side, objective, price) ==
  LET I == {i \in DOMAIN reg : /\ reg[i].side = side
                               /\ objective # None
                               /\ PriceOf(reg[i]) = objective.price}
  IN  IF I = {} THEN None
      ELSE Row(reg[CHOOSE i \in I : \A j \in I : RowBefore(reg, i, j, price)],
               price)
=============================================================================
