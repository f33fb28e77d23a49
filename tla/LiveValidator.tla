---------------------------- MODULE LiveValidator ----------------------------
(***************************************************************************)
(* The live validator: one process that turns each tick of the feed into bars,   *)
(* swings, the registry, objectives and the four stages after them, checkpoints    *)
(* the registry and the initiative, and logs the frame                          *)
(* (live_validator/controller.py, pipeline.py, app.py, logger.py).               *)
(*                                                                         *)
(* on_tick is synchronous, so a tick is one action, but the process may die       *)
(* inside it, between the durable writes it makes in order: the registry's         *)
(* checkpoint, the initiative's, the log line. A write that fails raises out of     *)
(* run(), which catches only KeyboardInterrupt, and ends the process likewise.      *)
(* A restart finds the two checkpoints; bars, swings, objectives and the frame      *)
(* start empty, and the tail starts at the end of the journal. It goes back in it    *)
(* when it finds the file shorter than its offset: old ticks are read again, which     *)
(* join the forming bar as late ones, or make the old bars of a new process again.    *)
(***************************************************************************)
EXTENDS ObjectiveSelection, TickBars, EpisodeStages, ObjectiveRecorder

CONSTANTS
  Quotes,        \* the prices the n-th tick of the feed may have: a sequence of sets (bound)
  JoinBound,     \* ticks of the feed in the bucket of the one before (bound)
  RestartBound,  \* restarts in a behaviour (bound)
  Remnants,      \* how many ticks may be gone from a shorter file (bound)
  RewindBound    \* shorter files in a behaviour (bound)

ASSUME ValidatorAssumption ==
  /\ Quotes \in Seq(SUBSET Prices)
  /\ 0..100 \subseteq Strengths /\ 0..Len(Quotes) \subseteq Times
  /\ None \notin [price : Prices, active : [Sides -> Swing \cup {None}],
                  state : [Sides -> States \cup {None}]]
  /\ None \notin [swing : Swing, eligible : BOOLEAN, challenge : ChallengeStates]
  /\ JoinBound \in Nat /\ RestartBound \in Nat
  /\ Remnants \subseteq Nat /\ RewindBound \in Nat

\* What classification leaves of the major swings, each with the swings of the other
\* side it was measured against: a root fell short of them only for one that was
\* near, or as there was none yet, and two that share a price were not alive at once.
Opposite(reg, i) == {o \in DOMAIN reg : reg[o].side # reg[i].side}
Apart(reg, i, j) == Distance(PriceOf(reg[i]), PriceOf(reg[j]))
Confirmed(reg) ==
  /\ \A i \in DOMAIN reg : reg[i].category = "MAJOR" =>
       reg[i].depth = 0 /\ \E o \in Opposite(reg, i) : o <= i + 1
  /\ \A i \in DOMAIN reg : reg[i].category # "MAJOR" /\ reg[i].depth = 0 =>
       \/ \E o \in Opposite(reg, i) : Apart(reg, i, o) < MajorProminence
       \/ \A o \in Opposite(reg, i) : o > i
  /\ \A i, j \in DOMAIN reg :
       /\ i < j /\ reg[i].side = reg[j].side /\ PriceOf(reg[i]) = PriceOf(reg[j])
       /\ reg[i].category = "MAJOR" /\ reg[j].category = "MAJOR"
       => reg[i].lifecycle \in Terminal

\* A swing that nothing was measured against has the prominence of its strength, at
\* most 10, which does not make it major.
ASSUME ConfirmedAssumption ==
  /\ MajorProminence > 10
  /\ \A d \in Inherited : Confirmed(Loaded(d).registry)

VARIABLES
  up,         \* whether the process runs
  bars,       \* TickBarBuilder
  swings,     \* SwingConfirmer
  phase,      \* InitiativeEngine._previous_state
  savedPhase, \* its checkpoint
  frame,      \* latest, with the objectives it was built from
  recorder,   \* the observer a session attaches to the frames
  evaluated,  \* evaluations of this process
  feed,       \* the ticks written so far, each with its bucket and its price
  cursor,     \* how many of them the tail has passed
  told,       \* history: each swing a frame was made with, and its id
  spent,      \* history: an EXPIRED was reported, and nobody in control since
  restarts, rewinds

remarks == <<told, spent>>
lvars == <<hvars, ovars, up, bars, swings, phase, savedPhase, frame, recorder,
           evaluated, feed, cursor, remarks, restarts, rewinds>>

\* empty_frame.
NoFrame == [price |-> None, active |-> [s \in Sides |-> None],
            state |-> [s \in Sides |-> None], initiative |-> NoInitiative,
            response |-> [side |-> "NONE", state |-> "FAILED", preserved |-> TRUE],
            continuation |-> [side |-> "NONE", score |-> 0, pressure |-> 0,
                              decay |-> 0, state |-> "WEAK"],
            break |-> NoBreak]

Fresh ==
  /\ up = TRUE /\ bars = NoBars /\ swings = NoSwings
  /\ frame = NoFrame /\ recorder = NoRecorder /\ evaluated = 0

LInit ==
  /\ HInit /\ OInit /\ Fresh
  /\ phase = "NONE" /\ savedPhase = "NONE"
  /\ feed = << >> /\ cursor = 0 /\ told = {} /\ spent = FALSE
  /\ restarts = 0 /\ rewinds = 0

-----------------------------------------------------------------------------
(* One tick.                                                               *)

\* The confirmer's list of a side, and the swing of it the registry lacks: a tick
\* closes at most one bar, and everything listed before has been ingested.
Listed(lists, s) == IF s = "HIGH" THEN lists.highs ELSE lists.lows
Arrival(lists, s) ==
  LET U == {k \in DOMAIN Listed(lists, s) :
              ~Seen(Hierarchy, s, Listed(lists, s)[k])}
  IN  IF U = {} THEN None ELSE Listed(lists, s)[CHOOSE k \in U : TRUE]

\* ArchitecturePipeline.evaluate, after the objectives: every stage sees the same
\* bars, and the objectives of this tick.
Starts(candles, price, objectives, states) ==
  [NoFrame EXCEPT !.price = price, !.active = objectives, !.state = states,
                  !.initiative = Initiative(candles, phase)]
Answers(f, candles) == [f EXCEPT !.response = Response(candles, f.initiative)]
Continues(f, candles) ==
  [f EXCEPT !.continuation = Continuation(candles, f.initiative, f.response)]
Breaks(f) ==
  [f EXCEPT !.break = Break(f.initiative, f.response, f.continuation, f.active, f.price)]
Staged(candles, price, objectives, states) ==
  Breaks(Continues(Answers(Starts(candles, price, objectives, states), candles), candles))

\* The tick's bucket and price go into the bars; a bar that closes goes into the
\* swings. Both are lost with the process.
Ingests(b, price) ==
  /\ bars' = AfterTick(bars, b, price)
  /\ swings' = IF Closes(bars, b) THEN AfterBar(swings, bars.forming) ELSE swings

\* The tick that poll_once takes next: one that was written before, or else a new
\* one, in the newest bucket or the one after it.
Newest == IF feed = << >> THEN 0 ELSE feed[Len(feed)].at
Joined == {k \in 2..Len(feed) : feed[k].at = feed[k - 1].at}
NewBuckets == {Newest + 1} \cup
              (IF feed # << >> /\ Cardinality(Joined) < JoinBound THEN {Newest} ELSE {})
Coming ==
  IF cursor < Len(feed) THEN {feed[cursor + 1]}
  ELSE IF Len(feed) < Len(Quotes)
  THEN {[at |-> b, price |-> p] : b \in NewBuckets, p \in Quotes[Len(feed) + 1]}
  ELSE {}
Arrives(b, price) ==
  /\ up /\ [at |-> b, price |-> price] \in Coming
  /\ feed' = IF cursor < Len(feed) THEN feed
             ELSE Append(feed, [at |-> b, price |-> price])
  /\ cursor' = cursor + 1

\* mutant: the phase is saved before it advances.
PhaseSavedBefore(before, after) == before
\* What the initiative's checkpoint holds after an evaluation.
PhaseSaved(before, after) == after

\* The history: the swings by their ids, and whether an end of an initiative was
\* reported after which nobody came to control again.
Entries(reg) == {[id |-> i, side |-> reg[i].side, swing |-> reg[i].swing] : i \in DOMAIN reg}
Spent(initiative) == initiative.phase = "EXPIRED" \/ (spent /\ initiative.side = "NONE")

\* on_tick and _evaluate, to the end.
Tick(b, price) ==
  /\ Arrives(b, price)
  /\ Ingests(b, price)
  /\ EvaluateHierarchy([s \in Sides |-> Arrival(swings', s)], price)
  /\ EvaluateObjectives(registry', price)
  /\ frame' = Staged(Candles(bars'), price, active', state')
  /\ phase' = frame'.initiative.phase
  /\ savedPhase' = PhaseSaved(phase, phase')
  /\ evaluated' = evaluated + 1
  /\ recorder' = Observed(recorder, [price |-> price, active |-> active',
                                     state |-> state'])
  /\ told' = told \cup Entries(registry')
  /\ spent' = Spent(frame'.initiative)
  /\ UNCHANGED <<up, restarts, rewinds>>

Gone == /\ up' = FALSE
        /\ UNCHANGED <<bars, swings, active, barred, state, frame, recorder,
                       evaluated, phase, registry, frontier, fragments,
                       told, restarts, rewinds>>

\* The process dies between two ticks, or within one: before anything of it was
\* saved, after the registry was, or after the initiative was too.
Dies == up /\ Gone /\ UNCHANGED <<saved, savedPhase, feed, cursor, spent>>

DiesInTick(b, price) ==
  LET lists == IF Closes(bars, b) THEN AfterBar(swings, bars.forming) ELSE swings
      after == Evaluated(Hierarchy, [s \in Sides |-> Arrival(lists, s)], price)
      next  == Initiative(Candles(AfterTick(bars, b, price)), phase)
  IN  /\ Arrives(b, price)
      /\ Gone
      /\ saved' = Checkpointed(after)
      /\ \/ UNCHANGED <<savedPhase, spent>>
         \/ /\ savedPhase' = PhaseSaved(phase, next.phase)
            /\ spent' = (spent /\ next.side = "NONE")

Restart ==
  /\ ~up /\ restarts < RestartBound
  /\ Restore
  /\ phase' = savedPhase
  /\ up' = TRUE /\ bars' = NoBars /\ swings' = NoSwings
  /\ frame' = NoFrame /\ recorder' = NoRecorder /\ evaluated' = 0
  /\ active' = [s \in Sides |-> None]
  /\ barred' = [s \in Sides |-> {}]
  /\ state'  = [s \in Sides |-> None]
  /\ cursor' = Len(feed)
  /\ restarts' = restarts + 1
  /\ UNCHANGED <<savedPhase, feed, remarks, rewinds>>

\* The file was trimmed or replaced by another process, and is shorter than the
\* tail's offset: it is read from its start, behind the ticks that are gone from it.
Rewind ==
  /\ up /\ rewinds < RewindBound
  /\ cursor' \in {n \in Remnants : n < cursor}
  /\ rewinds' = rewinds + 1
  /\ UNCHANGED <<hvars, ovars, up, bars, swings, phase, savedPhase, frame, recorder,
                 evaluated, feed, remarks, restarts>>

LNext ==
  \/ \E tick \in Coming :
       \/ Tick(tick.at, tick.price)
       \/ restarts < RestartBound /\ DiesInTick(tick.at, tick.price)
  \/ restarts < RestartBound /\ Dies
  \/ Restart
  \/ Rewind

LSpec == LInit /\ [][LNext]_lvars

-----------------------------------------------------------------------------
(* Properties.                                                             *)

\* The frame was built by this process.
Current == up /\ frame.price # None

\* Every swing the confirmer lists is registered, exactly once, dead or alive, and
\* every swing that a frame of any process was made with still has its id: though
\* the lists forget and start anew with each process, and a tail that goes back feeds
\* old ticks to it, which make the old swings again. One side sees at most one
\* arrival a tick.
ListedAreRegistered ==
  /\ NoSwingTwice
  /\ Current => \A s \in Sides : \A k \in DOMAIN Listed(swings, s) :
                   Seen(Hierarchy, s, Listed(swings, s)[k])
  /\ up => told \subseteq Entries(registry)

\* While the process runs, a restart would go on from exactly where it is:
\* registry, frontiers and the initiative's phase.
CheckpointIsCurrent == up => SavedIsCurrent /\ savedPhase = phase

\* What is offered on a side is alive in the registry of the same frame, and no
\* eligible swing is nearer; nothing is offered only while there is nothing to
\* offer, or in the one frame that reports a breach.
Offers(i, s) == registry[i].side = s /\ Eligible(registry[i], frame.price)
ObjectiveIsNearest ==
  Current => \A s \in Sides :
    IF active[s] = None
    THEN state[s] # "BREACHED" => ~\E i \in DOMAIN registry : Offers(i, s)
    ELSE /\ LifecycleOf(registry, s, active[s]) \in {"ACTIVE", "CHALLENGED"}
         /\ \A i \in DOMAIN registry : Offers(i, s) =>
              Distance(active[s].price, frame.price)
                <= Distance(PriceOf(registry[i]), frame.price)

\* The log finds the objective again by its price alone, in rows sorted for a
\* reader, and names the very swing that is in force, as one whose challenge is
\* open or was survived. Only where the price touches it is the objective in
\* force no longer eligible.
LogNamesTheObjective ==
  Current => \A s \in Sides :
    LET row == LoggedAs(registry, s, active[s], frame.price)
    IN  IF active[s] = None THEN row = None
        ELSE /\ row # None /\ row.swing = active[s]
             /\ row.challenge \in {"NONE", "UNDER_CHALLENGE", "RECLAIMED"}
             /\ row.eligible \/ row.swing.price = frame.price

\* The break engine speaks of an objective that the same frame offers, on the
\* side the controlling initiative pushes to.
TargetIsOffered ==
  frame.break.target # "NONE" =>
    /\ frame.active[frame.break.target] # None
    /\ frame.initiative.side = frame.break.side
    /\ frame.break.target = (IF frame.initiative.side = "BUYER" THEN "HIGH" ELSE "LOW")

\* Someone is in control exactly in the phases that say so, in the frame and,
\* over a crash, in what the next process starts from.
ControlHasAPhase ==
  frame.price # None =>
    (frame.initiative.side # "NONE") =
      (frame.initiative.phase \in {"EMERGING", "DOMINANT", "WEAKENING"})

\* The observer never sees what the engine's contract excludes: a state without
\* its objective, or a transition out of nothing. Its other codes can be raised
\* by a legal engine.
NothingImpossible ==
  ~\E found \in recorder.found :
     found.code \in {"INVALID_NONE", "IMPOSSIBLE_TRANSITION"}

\* Read to its end, the file of changes tells where each side stands.
ChangesAreComplete ==
  Current => \A s \in Sides :
    recorder.changes[s] = [price |-> IF active[s] = None THEN None ELSE active[s].price,
                           state |-> state[s]]

\* What the chain says of one frame agrees from stage to stage, and the observer
\* beside it agrees with the engine on what can follow what.
ChainIsCoherent ==
  TargetIsOffered /\ ControlHasAPhase /\ NothingImpossible /\ ChangesAreComplete

\* Two reports that an initiative expired have someone in control between them, in a
\* frame or at least in a checkpoint, whatever deaths and restarts lie between: no end
\* is reported again by the process that finds the phase it left.
ExpiresOnce ==
  [][evaluated' = evaluated + 1 /\ frame'.initiative.phase = "EXPIRED" => ~spent]_lvars
=============================================================================
