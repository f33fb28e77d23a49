---------------------------- MODULE TradeProofs ----------------------------
(***************************************************************************)
(* Theorems about TradeLifecycle, for all prices, stop distances, windows,  *)
(* caps and bounds.                                                        *)
(***************************************************************************)
EXTENDS TradeLifecycle, FiniteSetTheorems, TLAPS

USE DEF None

-----------------------------------------------------------------------------
(* The operations on a plan book.                                          *)

\* One plan of the book is open if there is an active one, and none otherwise.
WellFormed(book) ==
  /\ book \in PlanBooks
  /\ book.active \in 0..Len(book.plans)
  /\ \A i \in 1..Len(book.plans) : Open(book.plans[i]) <=> i = book.active

\* What is settled in one book stays as it is in the other.
Extends(new, old) ==
  /\ Len(new.plans) \in Nat /\ Len(old.plans) \in Nat
  /\ Len(old.plans) <= Len(new.plans)
  /\ \A i \in 1..Len(old.plans) :
       ~Open(old.plans[i]) => new.plans[i] = old.plans[i]

LEMMA ExitResult ==
  ASSUME NEW plan, NEW p
  PROVE  Exit(plan, p) \in Results
  BY DEF Exit, Results

LEMMA SeqEntry ==
  ASSUME NEW S, NEW s \in Seq(S)
  PROVE  /\ Len(s) \in Nat /\ s \in [1..Len(s) -> S]
         /\ \A i \in 1..Len(s) : s[i] \in S
  OBVIOUS

\* A closed plan gets a result and nothing else changes.
LEMMA ClosedBook ==
  ASSUME NEW book, WellFormed(book), NEW p, Exits(book, p),
         NEW b, b = Closed(book, p)
  PROVE  WellFormed(b) /\ b.active = 0 /\ Extends(b, book)
<1> DEFINE a == book.active
           r == Exit(book.plans[a], p)
           q == [book.plans EXCEPT ![a].result = r]
<1>1. /\ book.plans \in Seq(Plans) /\ Len(book.plans) \in Nat
      /\ book.plans \in [1..Len(book.plans) -> Plans]
      /\ book.last \in Decisions \cup {"NONE"}
      /\ book.active \in Nat
  BY SeqEntry DEF WellFormed, PlanBooks
<1>2. a \in 1..Len(book.plans) /\ r \in Results /\ r # "NONE"
  BY <1>1, ExitResult DEF WellFormed, Exits
<1>3. book = [plans |-> book.plans, active |-> book.active, last |-> book.last]
  BY DEF WellFormed, PlanBooks
<1>4. b = [plans |-> q, active |-> 0, last |-> book.last]
  BY <1>3 DEF Closed
<1> HIDE DEF r
<1>5. /\ q \in [1..Len(book.plans) -> Plans]
      /\ \A i \in 1..Len(book.plans) : i # a => q[i] = book.plans[i]
      /\ q[a].result = r
  BY <1>1, <1>2 DEF Plans
<1>6. q \in Seq(Plans) /\ Len(q) = Len(book.plans)
  BY <1>1, <1>5
<1> HIDE DEF q
<1>7. b \in PlanBooks /\ b.plans = q /\ b.active = 0
  BY <1>1, <1>4, <1>6 DEF PlanBooks
<1>8. \A i \in 1..Len(book.plans) : ~Open(q[i])
  BY <1>2, <1>5 DEF WellFormed, Open
<1>9. \A i \in 1..Len(book.plans) : ~Open(book.plans[i]) => q[i] = book.plans[i]
  BY <1>2, <1>5 DEF WellFormed
<1> QED
  BY <1>1, <1>6, <1>7, <1>8, <1>9 DEF WellFormed, Extends

LEMMA UpdatedBook ==
  ASSUME NEW book, WellFormed(book), NEW p, NEW b, b = Updated(book, p)
  PROVE  /\ WellFormed(b) /\ Extends(b, book)
         /\ b.active = (IF Exits(book, p) THEN 0 ELSE book.active)
<1>1. CASE Exits(book, p)
  BY <1>1, ClosedBook DEF Updated
<1>2. CASE ~Exits(book, p)
  <2>1. b = book
    BY <1>2 DEF Updated
  <2>2. Len(book.plans) \in Nat
    BY SeqEntry DEF WellFormed, PlanBooks
  <2> QED
    BY <1>2, <2>1, <2>2 DEF Extends
<1> QED
  BY <1>1, <1>2

\* A new plan is the only open one.
LEMMA BookWithPlan ==
  ASSUME NEW book, WellFormed(book), book.active = 0,
         NEW plan \in Plans, Open(plan),
         NEW b, b = WithPlan(book, plan)
  PROVE  /\ WellFormed(b) /\ Extends(b, book)
         /\ b.active = Len(book.plans) + 1 /\ b.plans[b.active] = plan
<1>1. book.plans \in Seq(Plans) /\ Len(book.plans) \in Nat
  BY SeqEntry DEF WellFormed, PlanBooks
<1> DEFINE q == Append(book.plans, plan)
<1>2. /\ q \in Seq(Plans) /\ Len(q) = Len(book.plans) + 1
      /\ \A i \in 1..Len(book.plans) : q[i] = book.plans[i]
      /\ q[Len(book.plans) + 1] = plan
  BY <1>1
<1> HIDE DEF q
<1>3. /\ b.plans = q /\ b.active = Len(book.plans) + 1 /\ b.last = book.last
      /\ b \in PlanBooks
  <2>1. book = [plans |-> book.plans, active |-> book.active, last |-> book.last]
    BY DEF WellFormed, PlanBooks
  <2>2. b = [plans |-> q, active |-> Len(book.plans) + 1, last |-> book.last]
    BY <2>1 DEF q, WithPlan
  <2> QED
    BY <1>1, <1>2, <2>2 DEF WellFormed, PlanBooks
<1>4. \A i \in 1..(Len(book.plans) + 1) :
        i \in 1..Len(book.plans) \/ i = Len(book.plans) + 1
  BY <1>1
<1>5. \A i \in 1..Len(book.plans) : ~Open(book.plans[i]) /\ i # Len(book.plans) + 1
  BY <1>1 DEF WellFormed
<1>6. b.active \in 0..Len(b.plans) /\ Len(b.plans) = Len(book.plans) + 1
  BY <1>1, <1>2, <1>3
<1>7. \A i \in 1..Len(b.plans) : Open(b.plans[i]) <=> i = b.active
  BY <1>2, <1>3, <1>4, <1>5, <1>6
<1> QED
  BY <1>1, <1>2, <1>3, <1>6, <1>7 DEF WellFormed, Extends

\* observe assigns _last_decision after everything else.
LEMMA BookWithLast ==
  ASSUME NEW book, WellFormed(book), NEW d \in Decisions,
         NEW b, b = [book EXCEPT !.last = d]
  PROVE  WellFormed(b) /\ b.plans = book.plans /\ b.active = book.active
<1>1. book = [plans |-> book.plans, active |-> book.active, last |-> book.last]
  BY DEF WellFormed, PlanBooks
<1>2. b = [plans |-> book.plans, active |-> book.active, last |-> d]
  BY <1>1
<1> QED
  BY <1>2 DEF WellFormed, PlanBooks

\* What _load brings back is what was saved.
LEMMA RestoredBook ==
  ASSUME NEW book, WellFormed(book)
  PROVE  Restored(book) = book
<1>1. Len(book.plans) \in Nat /\ book.active \in Nat
  BY SeqEntry DEF WellFormed, PlanBooks
<1>2. book = [plans |-> book.plans, active |-> book.active, last |-> book.last]
  BY DEF WellFormed, PlanBooks
<1>3. CASE book.active = 0
  BY <1>2, <1>3 DEF Restored
<1>4. CASE book.active # 0
  BY <1>1, <1>4 DEF Restored, WellFormed
<1> QED
  BY <1>3, <1>4

SameBook(file, book) == file.plans = book.plans /\ file.active = book.active

LEMMA SavedBook ==
  ASSUME WellFormed(engine), WellFormed(planFile), SameBook(planFile, engine), NEW p
  PROVE  /\ WellFormed(Saved(engine, p)) /\ Extends(Saved(engine, p), planFile)
         /\ SameBook(Saved(engine, p), Updated(engine, p))
<1>1. CASE Exits(engine, p)
  <2> DEFINE b == Closed(engine, p)
  <2>1. WellFormed(b) /\ Extends(b, engine)
    BY <1>1, ClosedBook
  <2>2. Saved(engine, p) = b /\ Updated(engine, p) = b
    BY <1>1 DEF Saved, Updated
  <2> HIDE DEF b
  <2> QED
    BY <2>1, <2>2 DEF SameBook, Extends
<1>2. CASE ~Exits(engine, p)
  <2>1. Len(planFile.plans) \in Nat
    BY SeqEntry DEF WellFormed, PlanBooks
  <2> QED
    BY <1>2, <2>1 DEF Saved, Updated, SameBook, Extends
<1> QED
  BY <1>1, <1>2

-----------------------------------------------------------------------------
(* Types.                                                                  *)

Locks == [state : {"IDLE", "ACTIVE"}, plan : Nat, blocked : Nat]

LEMMA LockType ==
  ASSUME NEW l \in Locks, NEW i \in Nat
  PROVE  /\ Activated(l, i) \in Locks /\ Released(l) \in Locks /\ IdleLock \in Locks
         /\ [l EXCEPT !.blocked = @ + 1] \in Locks
<1>1. Activated(l, i) \in Locks /\ Released(l) \in Locks /\ IdleLock \in Locks
  BY DEF Locks, Activated, Released, IdleLock
<1>2. l.blocked + 1 \in Nat
  BY DEF Locks
<1>3. [l EXCEPT !.blocked = @ + 1] \in Locks
  BY <1>2 DEF Locks
<1> QED
  BY <1>1, <1>3

LEMMA StreakType ==
  ASSUME streak \in Streaks, NEW side \in Sides \cup {None}
  PROVE  /\ NextStreak(side) \in Streaks
         /\ DecisionOf(NextStreak(side)) \in Decisions
<1>1. StableWindow \in Nat /\ StableWindow # 0 /\ None \notin Sides
  BY LifecycleAssumption DEF Sides
<1>2. NextStreak(side) \in Streaks
  <2>1. CASE side = None
    BY <2>1 DEF NextStreak, Streaks
  <2>2. CASE side # None /\ side = streak.side
    <3> DEFINE n == IF streak.n < StableWindow THEN streak.n + 1 ELSE streak.n
    <3>1. streak \in [side : Sides, n : 1..StableWindow]
      BY <2>2, <1>1 DEF Streaks
    <3>2. n \in 1..StableWindow
      BY <1>1, <3>1
    <3>3. streak = [side |-> streak.side, n |-> streak.n]
      BY <3>1
    <3>4. NextStreak(side) = [side |-> streak.side, n |-> n]
      BY <2>2, <3>3 DEF NextStreak
    <3> HIDE DEF n
    <3> QED
      BY <3>1, <3>2, <3>4 DEF Streaks
  <2>3. CASE side # None /\ side # streak.side
    <3>1. NextStreak(side) = [side |-> side, n |-> 1]
      BY <2>3 DEF NextStreak
    <3> QED
      BY <1>1, <2>3, <3>1 DEF Streaks
  <2> QED
    BY <2>1, <2>2, <2>3
<1>3. \A s \in Streaks : DecisionOf(s) \in Decisions
  BY <1>1 DEF Streaks, DecisionOf, Decisions
<1> QED
  BY <1>2, <1>3

-----------------------------------------------------------------------------
(* The invariant of the books and the lock.  It holds down or up: a process   *)
(* that dies leaves memory and file equal, and the next one loads the file.   *)

\* The last part is what lets observe drop the closes of its own update_price:
\* there are none, since no price is newer than the one the exits were checked
\* against.
BookInv ==
  /\ WellFormed(engine) /\ WellFormed(planFile) /\ SameBook(planFile, engine)
  /\ lock.plan = engine.active
  /\ lock.state = "ACTIVE" <=> engine.active # 0
  /\ ~Exits(engine, price)

LEMMA NoExitsUpdated ==
  ASSUME NEW book, NEW p, ~Exits(book, p)
  PROVE  Updated(book, p) = book /\ Saved(book, p) = planFile
  BY DEF Updated, Saved

\* A plan is opened inside its own band.
LEMMA FreshPlanHolds ==
  ASSUME NEW plan \in Plans, plan.entry \in Int, plan.risk \in Risks
  PROVE  Exit(plan, plan.entry) = "NONE"
<1>1. plan.risk \in Nat \ {0} /\ RewardRatio \in Nat \ {0}
  BY LifecycleAssumption
<1>2. Gain(plan, plan.entry) = 0
  BY DEF Gain
<1>3. RewardRatio * plan.risk > 0
  <2> DEFINE k == plan.risk
  <2>1. k \in Nat \ {0}
    BY <1>1
  <2> HIDE DEF k
  <2>2. RewardRatio * k > 0
    BY <1>1, <2>1
  <2> QED
    BY <2>2 DEF k
<1>4. RewardRatio * plan.risk \in Int
  BY <1>1
<1> DEFINE t == RewardRatio * plan.risk
<1> HIDE DEF t
<1>5. t > 0 /\ t \in Int
  BY <1>3, <1>4 DEF t
<1>6. Exit(plan, plan.entry) =
        (IF 0 <= -plan.risk THEN "LOSS" ELSE IF 0 >= t THEN "WIN" ELSE "NONE")
  BY <1>2 DEF Exit, t
<1> QED
  BY <1>1, <1>5, <1>6

LEMMA PriceArrives ==
  ASSUME TypeOK, BookInv, NEW p \in Prices \cup {NoPrice},
         engine' = Updated(engine, p), planFile' = Saved(engine, p),
         lock' = LockAfterUpdate(p), price' = p
  PROVE  BookInv' /\ Extends(engine', engine) /\ Extends(planFile', planFile)
<1>1. /\ WellFormed(engine') /\ Extends(engine', engine)
      /\ engine'.active = (IF Exits(engine, p) THEN 0 ELSE engine.active)
  <2> DEFINE b == Updated(engine, p)
  <2>1. /\ WellFormed(b) /\ Extends(b, engine)
        /\ b.active = (IF Exits(engine, p) THEN 0 ELSE engine.active)
    BY UpdatedBook DEF BookInv
  <2> HIDE DEF b
  <2>2. engine' = b
    BY DEF b
  <2> QED
    BY <2>1, <2>2
<1>2. /\ WellFormed(planFile') /\ Extends(planFile', planFile)
      /\ SameBook(planFile', engine')
  <2> DEFINE f == Saved(engine, p)
             b == Updated(engine, p)
  <2>1. WellFormed(f) /\ Extends(f, planFile) /\ SameBook(f, b)
    BY SavedBook DEF BookInv
  <2> HIDE DEF f, b
  <2>2. planFile' = f /\ engine' = b
    BY DEF f, b
  <2> QED
    BY <2>1, <2>2
<1>3. lock'.plan = engine'.active /\ (lock'.state = "ACTIVE" <=> engine'.active # 0)
  BY <1>1 DEF BookInv, LockAfterUpdate, Released, TypeOK
<1>4. ~Exits(engine, p)'
  <2>1. CASE Exits(engine, p)
    BY <1>1, <2>1 DEF Exits
  <2>2. CASE ~Exits(engine, p)
    <3>1. engine' = engine
      BY <2>2, NoExitsUpdated
    <3> QED
      BY <2>2, <3>1 DEF Exits
  <2> QED
    BY <2>1, <2>2
<1>5. ~Exits(engine, price)'
  BY <1>4 DEF Exits
<1> QED
  BY <1>1, <1>2, <1>3, <1>5 DEF BookInv

LEMMA PlanIsOpened ==
  ASSUME TypeOK, BookInv, NEW risk \in Risks, OpenPlan(risk)
  PROVE  BookInv' /\ Extends(engine', engine) /\ Extends(planFile', planFile)
<1>1. Updated(engine, price) = engine
  BY NoExitsUpdated DEF BookInv
<1>2. engine.active = 0 /\ decision \in Sides /\ price \in Int
  BY <1>1, LifecycleAssumption DEF OpenPlan, PlansAt, TypeOK
<1> DEFINE plan == NewPlan(risk)
           book == WithPlan(engine, plan)
           full == [book EXCEPT !.last = decision]
<1>3. /\ plan \in Plans /\ Open(plan)
      /\ plan.entry = price /\ plan.risk = risk
  BY <1>2, LifecycleAssumption DEF NewPlan, Plans, Open, Results, TypeOK
<1> HIDE DEF plan
<1>4. /\ WellFormed(book) /\ Extends(book, engine)
      /\ book.active = Len(engine.plans) + 1 /\ book.plans[book.active] = plan
  BY <1>2, <1>3, BookWithPlan DEF BookInv
<1>5. /\ engine' = full /\ planFile' = book
      /\ lock' = Activated(lock, book.active) /\ price' = price
  BY <1>1 DEF OpenPlan, GateAndNote, plan
<1> HIDE DEF book
<1>6. WellFormed(full) /\ full.plans = book.plans /\ full.active = book.active
  BY <1>4, BookWithLast DEF TypeOK
<1> HIDE DEF full
<1>7. SameBook(planFile, engine)' /\ Extends(engine', engine) /\ Extends(planFile', planFile)
  BY <1>4, <1>5, <1>6 DEF SameBook, Extends, BookInv
<1>8. Len(engine.plans) \in Nat
  BY SeqEntry DEF BookInv, WellFormed, PlanBooks
<1>9. lock'.plan = engine'.active /\ (lock'.state = "ACTIVE" <=> engine'.active # 0)
  BY <1>4, <1>5, <1>6, <1>8 DEF Activated, TypeOK
<1>10. Exit(plan, price) = "NONE"
  <2>1. Exit(plan, plan.entry) = "NONE"
    BY <1>2, <1>3, FreshPlanHolds
  <2> QED
    BY <1>3, <2>1
<1>11. ~Exits(engine, price)'
  BY <1>4, <1>5, <1>6, <1>10 DEF Exits
<1> QED
  BY <1>4, <1>5, <1>6, <1>7, <1>9, <1>11 DEF BookInv

LEMMA NoPlanIsOpened ==
  ASSUME TypeOK, BookInv, NoNewPlan
  PROVE  BookInv' /\ Extends(engine', engine) /\ Extends(planFile', planFile)
<1> DEFINE full == [engine EXCEPT !.last = decision]
<1>1. engine' = full /\ planFile' = planFile /\ price' = price
  BY NoExitsUpdated DEF BookInv, NoNewPlan, GateAndNote
<1>2. WellFormed(full) /\ full.plans = engine.plans /\ full.active = engine.active
  BY BookWithLast DEF BookInv, TypeOK
<1> HIDE DEF full
<1>3. lock'.plan = lock.plan /\ lock'.state = lock.state
  BY DEF NoNewPlan, TypeOK
<1>4. ~Exits(engine, price)'
  BY <1>1, <1>2 DEF Exits, BookInv
<1>5. Extends(engine', engine) /\ Extends(planFile', planFile)
  BY <1>1, <1>2, SeqEntry DEF Extends, BookInv, WellFormed, PlanBooks
<1> QED
  BY <1>1, <1>2, <1>3, <1>4, <1>5 DEF BookInv, SameBook

LEMMA ProcessStarts ==
  ASSUME TypeOK, BookInv, Start
  PROVE  BookInv' /\ Extends(engine', engine) /\ planFile' = planFile
<1>1. engine' = planFile /\ planFile' = planFile /\ price' = NoPrice
  BY RestoredBook DEF BookInv, Start, files
<1>2. lock'.plan = engine'.active /\ (lock'.state = "ACTIVE" <=> engine'.active # 0)
  BY DEF Start, Activated, IdleLock
<1>3. ~Exits(engine, price)'
  BY <1>1 DEF Exits
<1>4. Extends(engine', engine)
  BY <1>1, SeqEntry DEF Extends, BookInv, SameBook, WellFormed, PlanBooks
<1> QED
  BY <1>1, <1>2, <1>3, <1>4 DEF BookInv, SameBook

\* the steps that leave the books, the lock and the price alone
BooksUnchanged == UNCHANGED <<engine, planFile, lock, price>>

LEMMA QuietSteps ==
  ASSUME BookInv, BooksUnchanged
  PROVE  BookInv' /\ Extends(engine', engine) /\ Extends(planFile', planFile)
<1>1. BookInv'
  BY DEF BookInv, BooksUnchanged, Exits
<1>2. Extends(engine', engine) /\ Extends(planFile', planFile)
  BY SeqEntry DEF Extends, BookInv, BooksUnchanged, WellFormed, PlanBooks
<1> QED
  BY <1>1, <1>2

\* Every step keeps the invariant, and keeps in both books what is settled.
LEMMA BookStep ==
  ASSUME TypeOK, BookInv, [Next]_vars
  PROVE  BookInv' /\ Extends(engine', engine) /\ Extends(planFile', planFile)
<1>1. CASE Start
  <2>1. Extends(planFile', planFile)
    BY <1>1, ProcessStarts, SeqEntry DEF Extends, BookInv, WellFormed, PlanBooks
  <2> QED
    BY <1>1, <2>1, ProcessStarts
<1>2. CASE Crash
  BY <1>2, QuietSteps DEF Crash, BooksUnchanged, files
<1>3. ASSUME NEW p \in Prices, OnTick(p)
      PROVE  BookInv' /\ Extends(engine', engine) /\ Extends(planFile', planFile)
  BY <1>3, PriceArrives DEF OnTick
<1>4. CASE Evaluate
  BY <1>4, PriceArrives DEF Evaluate, TypeOK
<1>5. CASE NoNewPlan
  BY <1>5, NoPlanIsOpened
<1>6. ASSUME NEW risk \in Risks, OpenPlan(risk)
      PROVE  BookInv' /\ Extends(engine', engine) /\ Extends(planFile', planFile)
  BY <1>6, PlanIsOpened
<1>7. CASE LifetimeStep
  BY <1>7, QuietSteps DEF LifetimeStep, PersistSignal, FlushLifetime, BooksUnchanged, files
<1>8. CASE AccountStep
  BY <1>8, QuietSteps DEF AccountStep, BookTrade, FlushAccount, BooksUnchanged, files
<1>9. CASE UNCHANGED vars
  BY <1>9, QuietSteps DEF vars, files, BooksUnchanged
<1> QED
  BY <1>1, <1>2, <1>3, <1>4, <1>5, <1>6, <1>7, <1>8, <1>9 DEF Next, Snapshot, PlanStep

-----------------------------------------------------------------------------
(* Every step keeps the types.                                             *)

LEMMA MaturedType ==
  ASSUME records \in Seq(Signals), NEW k
  PROVE  Matured(k) \in Seq(Signals)
<1>1. Len(records) \in Nat /\ \A i \in 1..Len(records) : records[i] \in Signals
  BY SeqEntry
<1> DEFINE turned(i) == IF i <= k THEN [records[i] EXCEPT !.done = TRUE] ELSE records[i]
<1>2. \A i \in 1..Len(records) : turned(i) \in Signals
  BY <1>1 DEF Signals
<1>3. Matured(k) = [i \in 1..Len(records) |-> turned(i)]
  BY DEF Matured
<1> HIDE DEF turned
<1> QED
  BY <1>1, <1>2, <1>3

Stores == [signals : Seq(Nat), ids : SUBSET Nat, pending : SUBSET Nat, noTrade : Nat]

LEMMA NotedType ==
  ASSUME lifetime \in Stores, recorded \in Nat
  PROVE  NotedLifetime \in Stores
<1>1. lifetime.noTrade + 1 \in Nat
  BY DEF Stores
<1> QED
  BY <1>1 DEF NotedLifetime, Stores

LEMMA TrimmedType ==
  ASSUME NEW store \in Stores
  PROVE  Trimmed(store) \in Stores
<1> DEFINE n == Overflow(store.signals)
           q == SubSeq(store.signals, n + 1, Len(store.signals))
           d == {store.signals[i] : i \in 1..n}
<1>1. store.signals \in Seq(Nat) /\ Len(store.signals) \in Nat
  BY SeqEntry DEF Stores
<1>2. n \in 0..Len(store.signals)
  BY <1>1, LifecycleAssumption DEF Overflow
<1>3. q \in Seq(Nat)
  BY <1>1, <1>2
<1>4. Trimmed(store) = [store EXCEPT !.signals = q, !.ids = store.ids \ d]
  BY DEF Trimmed
<1> HIDE DEF q, d
<1> QED
  BY <1>3, <1>4 DEF Stores

LEMMA PointsType ==
  ASSUME NEW plan \in Plans
  PROVE  Points(plan) \in Int
<1>1. RewardRatio * plan.risk \in Int /\ -plan.risk \in Int
  BY LifecycleAssumption DEF Plans
<1> QED
  BY <1>1 DEF Points

LEMMA EvaluateType ==
  ASSUME TypeOK, Evaluate
  PROVE  /\ streak' \in Streaks /\ decision' \in Decisions
         /\ records' \in Seq(Signals) /\ issued' \in Nat /\ recorded' \in Nat
<1>1. PICK side \in Sides \cup {None}, k \in 0..Len(records) :
        /\ streak' = NextStreak(side)
        /\ decision' = DecisionOf(NextStreak(side))
        /\ \/ /\ issued' = issued + 1 /\ recorded' = issued + 1
              /\ records' = Append(Matured(k), [id |-> issued + 1, done |-> FALSE])
           \/ /\ issued' = issued /\ recorded' = 0
              /\ records' = Matured(k)
  <2>1. PICK side \in Sides \cup {None}, k \in 0..Len(records) :
          /\ streak' = NextStreak(side)
          /\ decision' = DecisionOf(streak')
          /\ IF Records(decision')
             THEN /\ issued' = issued + 1 /\ recorded' = issued + 1
                  /\ records' = Append(Matured(k), [id |-> issued + 1, done |-> FALSE])
             ELSE /\ issued' = issued /\ recorded' = 0
                  /\ records' = Matured(k)
    BY DEF Evaluate
  <2> QED
    BY <2>1
<1>2. streak' \in Streaks /\ decision' \in Decisions
  BY <1>1, StreakType DEF TypeOK
<1>3. Matured(k) \in Seq(Signals)
  BY MaturedType DEF TypeOK
<1>4. issued + 1 \in Nat /\ [id |-> issued + 1, done |-> FALSE] \in Signals
  BY DEF TypeOK, Signals
<1>5. records' \in Seq(Signals)
  BY <1>1, <1>3, <1>4
<1> QED
  BY <1>1, <1>2, <1>4, <1>5 DEF TypeOK

\* The part of the type invariant that BookInv does not give.
RestOfTypes ==
  /\ pc \in Steps
  /\ lives \in Nat /\ issued \in Nat
  /\ price \in Prices \cup {NoPrice}
  /\ streak \in Streaks
  /\ decision \in Decisions /\ recorded \in Nat
  /\ last \in [observed : Decisions \cup {None}, planning : Decisions \cup {None},
               counted : Decisions \cup {None}]
  /\ lock \in Locks
  /\ records \in Seq(Signals)
  /\ lifetime \in Stores
  /\ lifeFile \in [signals : Seq(Nat), pending : SUBSET Nat, noTrade : Nat]
  /\ account \in [trades : Seq(Trades), ids : SUBSET Nat]
  /\ accountFile \in Seq(Trades)

LEMMA TypeParts ==
  BookInv => (TypeOK <=> RestOfTypes)
  BY DEF BookInv, WellFormed, TypeOK, RestOfTypes, Locks, Stores

LEMMA StartTypes ==
  ASSUME TypeOK, BookInv, Start
  PROVE  RestOfTypes'
<1>1. engine'.active \in Nat
  BY RestoredBook DEF Start, BookInv, WellFormed, PlanBooks
<1>2. lock' \in Locks
  <2> DEFINE a == engine'.active
  <2>1. lock' = Activated(IdleLock, a) \/ lock' = IdleLock
    BY DEF Start
  <2>2. a \in Nat
    BY <1>1
  <2> HIDE DEF a
  <2>3. IdleLock \in Locks
    BY DEF Locks, IdleLock
  <2>4. Activated(IdleLock, a) \in Locks
    BY <2>2, <2>3, LockType
  <2> QED
    BY <2>1, <2>3, <2>4
<1>3. LoadedLifetime \in Stores
  <2>1. lifeFile.signals \in Seq(Nat)
    BY DEF TypeOK
  <2>2. {lifeFile.signals[i] : i \in 1..Len(lifeFile.signals)} \subseteq Nat
    BY <2>1, SeqEntry
  <2> QED
    BY <2>1, <2>2 DEF LoadedLifetime, Stores, TypeOK
<1>4. LoadedAccount \in [trades : Seq(Trades), ids : SUBSET Nat]
  <2>1. {accountFile[i].plan : i \in 1..Len(accountFile)} \subseteq Nat
    <3>1. \A i \in 1..Len(accountFile) : accountFile[i] \in Trades
      BY SeqEntry DEF TypeOK
    <3> QED
      BY <3>1 DEF Trades
  <2> QED
    BY <2>1 DEF LoadedAccount, TypeOK
<1> QED
  BY <1>2, <1>3, <1>4 DEF Start, RestOfTypes, TypeOK, Steps, Decisions, Streaks, files

\* The lock after any update of a plan is a lock.
LEMMA LockUpdated ==
  ASSUME TypeOK, NEW p
  PROVE  LockAfterUpdate(p) \in Locks
<1>1. lock \in Locks
  BY DEF TypeOK, Locks
<1> QED
  BY <1>1, LockType DEF LockAfterUpdate

LEMMA TickTypes ==
  ASSUME TypeOK, NEW p \in Prices, OnTick(p)
  PROVE  RestOfTypes'
<1>1. lock' \in Locks
  BY LockUpdated DEF OnTick
<1> QED
  BY <1>1 DEF OnTick, RestOfTypes, TypeOK, Stores

LEMMA EvaluateTypes ==
  ASSUME TypeOK, Evaluate
  PROVE  RestOfTypes'
<1>1. lock' \in Locks
  BY LockUpdated DEF Evaluate
<1>2. decision' \in Decisions /\ last' = [last EXCEPT !.observed = decision']
  BY EvaluateType DEF Evaluate
<1>3. last' \in [observed : Decisions \cup {None}, planning : Decisions \cup {None},
                 counted : Decisions \cup {None}]
  BY <1>2 DEF TypeOK
<1> QED
  BY <1>1, <1>3, EvaluateType DEF Evaluate, RestOfTypes, TypeOK, Stores, Steps

LEMMA GateTypes ==
  ASSUME TypeOK, GateAndNote, lock' \in Locks
  PROVE  RestOfTypes'
<1>1. lifetime' \in Stores
  BY NotedType DEF GateAndNote, TypeOK, Stores
<1>2. last' \in [observed : Decisions \cup {None}, planning : Decisions \cup {None},
                 counted : Decisions \cup {None}]
  BY DEF GateAndNote, TypeOK
<1> QED
  BY <1>1, <1>2 DEF GateAndNote, RestOfTypes, TypeOK, Steps

LEMMA PlanTypes ==
  ASSUME TypeOK, BookInv, PlanStep
  PROVE  RestOfTypes'
<1>1. lock \in Locks
  BY DEF TypeOK, Locks
<1>2. CASE NoNewPlan
  <2>1. lock' \in Locks
    BY <1>1, <1>2, LockType DEF NoNewPlan
  <2> QED
    BY <1>2, <2>1, GateTypes DEF NoNewPlan
<1>3. ASSUME NEW risk \in Risks, OpenPlan(risk)
      PROVE  RestOfTypes'
  <2>1. engine'.active \in Nat
    BY <1>3, PlanIsOpened, SeqEntry DEF BookInv, WellFormed, PlanBooks
  <2>2. PICK i \in Nat : lock' = Activated(lock, i)
    <3>1. lock' = Activated(lock, planFile'.active) /\ planFile'.active = engine'.active
      BY <1>3, PlanIsOpened DEF OpenPlan, BookInv, SameBook
    <3> QED
      BY <2>1, <3>1
  <2>3. lock' \in Locks
    BY <1>1, <2>2, LockType
  <2> QED
    BY <1>3, <2>3, GateTypes DEF OpenPlan
<1> QED
  BY <1>2, <1>3 DEF PlanStep

LEMMA LifetimeTypes ==
  ASSUME TypeOK, LifetimeStep
  PROVE  RestOfTypes'
<1>1. lifetime \in Stores
  BY DEF TypeOK, Stores
<1>2. CASE FlushLifetime
  <2>1. lifetime' \in Stores
    BY <1>1, <1>2, TrimmedType DEF FlushLifetime
  <2>2. lifeFile' \in [signals : Seq(Nat), pending : SUBSET Nat, noTrade : Nat]
    BY <1>2, <2>1 DEF FlushLifetime, Stores
  <2> QED
    BY <1>2, <2>1, <2>2 DEF FlushLifetime, RestOfTypes, TypeOK, Steps, Locks
<1>3. ASSUME NEW i \in 1..Len(records), PersistSignal(i)
      PROVE  RestOfTypes'
  <2>1. records[i].id \in Nat
    <3>1. records \in Seq(Signals)
      BY DEF TypeOK
    <3>2. records[i] \in Signals
      BY <3>1, SeqEntry
    <3> QED
      BY <3>2 DEF Signals
  <2>2. Append(lifetime.signals, records[i].id) \in Seq(Nat)
    BY <1>1, <2>1 DEF Stores
  <2>3. lifetime' \in Stores
    BY <1>1, <1>3, <2>1, <2>2 DEF PersistSignal, Stores
  <2> QED
    BY <1>3, <2>3 DEF PersistSignal, RestOfTypes, TypeOK, Locks, files
<1> QED
  BY <1>2, <1>3 DEF LifetimeStep

LEMMA AccountTypes ==
  ASSUME TypeOK, AccountStep
  PROVE  RestOfTypes'
<1>1. CASE FlushAccount
  BY <1>1 DEF FlushAccount, RestOfTypes, TypeOK, Steps, Locks, Stores
<1>2. ASSUME NEW i \in 1..Len(engine.plans), BookTrade(i)
      PROVE  RestOfTypes'
  <2>1. engine.plans[i] \in Plans /\ i \in Nat
    BY SeqEntry DEF TypeOK, PlanBooks
  <2>2. [plan |-> i, points |-> Points(engine.plans[i])] \in Trades
    BY <2>1, PointsType DEF Trades
  <2>3. account' \in [trades : Seq(Trades), ids : SUBSET Nat]
    BY <1>2, <2>1, <2>2 DEF BookTrade, TypeOK
  <2> QED
    BY <1>2, <2>3 DEF BookTrade, RestOfTypes, TypeOK, Locks, Stores, files
<1> QED
  BY <1>1, <1>2 DEF AccountStep

\* Every step keeps the types, given the invariant of the books.
LEMMA TypeStep ==
  ASSUME TypeOK, BookInv, [Next]_vars
  PROVE  TypeOK'
<1>1. BookInv'
  BY BookStep
<1>2. RestOfTypes'
  <2>1. CASE Start
    BY <2>1, StartTypes
  <2>2. CASE Crash
    BY <2>2 DEF Crash, RestOfTypes, TypeOK, Steps, Locks, Stores, files
  <2>3. ASSUME NEW p \in Prices, OnTick(p)
        PROVE  RestOfTypes'
    BY <2>3, TickTypes
  <2>4. CASE Evaluate
    BY <2>4, EvaluateTypes
  <2>5. CASE PlanStep
    BY <2>5, PlanTypes
  <2>6. CASE LifetimeStep
    BY <2>6, LifetimeTypes
  <2>7. CASE AccountStep
    BY <2>7, AccountTypes
  <2>8. CASE UNCHANGED vars
    BY <2>8 DEF vars, RestOfTypes, TypeOK, Locks, Stores, files
  <2> QED
    BY <2>1, <2>2, <2>3, <2>4, <2>5, <2>6, <2>7, <2>8 DEF Next, Snapshot
<1>3. TypeOK' <=> RestOfTypes'
  BY <1>1 DEF BookInv, WellFormed, TypeOK, RestOfTypes, Locks, Stores
<1> QED
  BY <1>2, <1>3

LEMMA Beginning ==
  ASSUME Init
  PROVE  TypeOK /\ BookInv
<1>1. NoPlans \in PlanBooks /\ NoPlans.plans = <<>> /\ NoPlans.active = 0
  BY DEF NoPlans, PlanBooks, Decisions
<1>2. WellFormed(NoPlans)
  BY <1>1 DEF WellFormed
<1>3. BookInv
  BY <1>1, <1>2 DEF Init, BookInv, SameBook, Exits, IdleLock
<1>4. RestOfTypes
  BY DEF Init, RestOfTypes, Steps, Streaks, Decisions, Locks, IdleLock, Stores
<1> QED
  BY <1>3, <1>4, TypeParts

\* Every value the dashboard keeps or saves has its type, for all parameters.
THEOREM TypesHold == Spec => []TypeOK
<1>1. Init => TypeOK /\ BookInv
  BY Beginning
<1>2. TypeOK /\ BookInv /\ [Next]_vars => TypeOK' /\ BookInv'
  BY TypeStep, BookStep
<1> QED
  BY <1>1, <1>2, PTL DEF Spec

\* The books and the lock agree in every reachable state.
THEOREM BooksHold == Spec => [](TypeOK /\ BookInv)
<1>1. Init => TypeOK /\ BookInv
  BY Beginning
<1>2. TypeOK /\ BookInv /\ [Next]_vars => TypeOK' /\ BookInv'
  BY TypeStep, BookStep
<1> QED
  BY <1>1, <1>2, PTL DEF Spec

\* There is one open plan at most, and the lock is held exactly for it.
THEOREM OneOpenPlanHolds == Spec => []OneOpenPlan
<1>1. BookInv => OneOpenPlan
  BY SeqEntry DEF BookInv, WellFormed, PlanBooks, OneOpenPlan
<1> QED
  BY <1>1, BooksHold, PTL

\* No price leaves a plan open that it ends.
THEOREM OpenPlanInsideBandHolds == Spec => []OpenPlanInsideBand
<1>1. BookInv => OpenPlanInsideBand
  BY DEF BookInv, Exits, OpenPlanInsideBand
<1> QED
  BY <1>1, BooksHold, PTL

-----------------------------------------------------------------------------
(* The account.  The memory of the process and the file are each at most a    *)
(* copy of what the books have settled, and settled plans never change.      *)

AccountInv ==
  /\ BookedFrom(accountFile, planFile.plans)
  /\ BookedFrom(account.trades, engine.plans)
  /\ account.ids = {account.trades[i].plan : i \in 1..Len(account.trades)}

\* What was booked from a book is booked from every later one.
LEMMA BookedStays ==
  ASSUME NEW old, NEW new, Extends(new, old), NEW trades,
         BookedFrom(trades, old.plans)
  PROVE  BookedFrom(trades, new.plans)
<1>1. ASSUME NEW k \in 1..Len(old.plans), ~Open(old.plans[k])
      PROVE  k \in 1..Len(new.plans) /\ new.plans[k] = old.plans[k]
  BY <1>1 DEF Extends
<1>2. \A k \in 1..Len(old.plans) : ~Open(old.plans[k]) =>
        k \in 1..Len(new.plans) /\ new.plans[k] = old.plans[k]
  BY <1>1
<1> QED
  BY <1>2, Zenon DEF BookedFrom

LEMMA TradeIsBooked ==
  ASSUME TypeOK, AccountInv, NEW i \in 1..Len(engine.plans), BookTrade(i)
  PROVE  AccountInv'
<1> DEFINE t == [plan |-> i, points |-> Points(engine.plans[i])]
           q == Append(account.trades, t)
           n == Len(account.trades)
<1>1. account.trades \in Seq(Trades) /\ n \in Nat /\ i \in Nat
      /\ engine.plans[i] \in Plans
  BY SeqEntry DEF TypeOK, PlanBooks
<1>2. t \in Trades /\ t.plan = i /\ t.points = Points(engine.plans[i])
  BY <1>1, PointsType DEF Trades
<1>3. /\ engine' = engine /\ planFile' = planFile /\ accountFile' = accountFile
      /\ account' = [trades |-> q, ids |-> account.ids \cup {i}]
      /\ ~Open(engine.plans[i]) /\ i \notin account.ids
  BY DEF BookTrade, files, Unbooked
<1> HIDE DEF t
<1>4. /\ Len(q) = n + 1 /\ q[n + 1] = t
      /\ \A j \in 1..n : q[j] = account.trades[j]
  BY <1>1, <1>2
<1>5. \A j \in 1..(n + 1) : j \in 1..n \/ j = n + 1
  BY <1>1
<1> HIDE DEF q
<1>6. \A j \in 1..n : q[j].plan \in account.ids /\ q[j].plan # i
  BY <1>3, <1>4 DEF AccountInv
<1>7. BookedFrom(q, engine.plans)
  <2>1. \A j, k \in 1..Len(q) : q[j].plan = q[k].plan => j = k
    BY <1>2, <1>4, <1>5, <1>6 DEF AccountInv, BookedFrom
  <2>2. \A j \in 1..Len(q) :
          /\ q[j].plan \in 1..Len(engine.plans)
          /\ ~Open(engine.plans[q[j].plan])
          /\ q[j].points = Points(engine.plans[q[j].plan])
    BY <1>2, <1>3, <1>4, <1>5 DEF AccountInv, BookedFrom
  <2> QED
    BY <2>1, <2>2 DEF BookedFrom
<1>8. account'.ids = {q[j].plan : j \in 1..Len(q)}
  <2>1. 1..Len(q) = (1..n) \cup {n + 1}
    BY <1>1, <1>4
  <2> QED
    BY <1>2, <1>3, <1>4, <2>1 DEF AccountInv
<1> QED
  BY <1>3, <1>7, <1>8 DEF AccountInv

LEMMA AccountFlushed ==
  ASSUME BookInv, AccountInv, FlushAccount
  PROVE  AccountInv'
<1>1. engine' = engine /\ planFile' = planFile /\ account' = account
      /\ accountFile' = account.trades /\ planFile.plans = engine.plans
  BY DEF FlushAccount, BookInv, SameBook
<1> QED
  BY <1>1 DEF AccountInv

LEMMA AccountStarts ==
  ASSUME BookInv, AccountInv, Start
  PROVE  AccountInv'
<1>1. engine' = planFile /\ planFile' = planFile /\ accountFile' = accountFile
      /\ account' = LoadedAccount
  BY RestoredBook DEF Start, files, BookInv
<1> QED
  BY <1>1 DEF AccountInv, LoadedAccount

\* the steps that leave the account and its file alone
AccountUnchanged == UNCHANGED <<account, accountFile>>

LEMMA AccountStays ==
  ASSUME AccountInv, AccountUnchanged,
         Extends(engine', engine), Extends(planFile', planFile)
  PROVE  AccountInv'
<1>1. account' = account /\ accountFile' = accountFile
  BY DEF AccountUnchanged
<1>2. BookedFrom(accountFile, planFile'.plans) /\ BookedFrom(account.trades, engine'.plans)
  BY BookedStays DEF AccountInv
<1> QED
  BY <1>1, <1>2 DEF AccountInv

LEMMA AccountKept ==
  ASSUME TypeOK, BookInv, AccountInv, [Next]_vars
  PROVE  AccountInv'
<1>1. Extends(engine', engine) /\ Extends(planFile', planFile)
  BY BookStep
<1>2. CASE Start
  BY <1>2, AccountStarts
<1>3. CASE FlushAccount
  BY <1>3, AccountFlushed
<1>4. ASSUME NEW i \in 1..Len(engine.plans), BookTrade(i)
      PROVE  AccountInv'
  BY <1>4, TradeIsBooked
<1>5. CASE AccountUnchanged
  BY <1>1, <1>5, AccountStays
<1>6. \/ Start \/ FlushAccount \/ AccountUnchanged
      \/ \E i \in 1..Len(engine.plans) : BookTrade(i)
  BY DEF Next, Snapshot, AccountUnchanged, Crash, OnTick, Evaluate, PlanStep,
         OpenPlan, NoNewPlan, GateAndNote, LifetimeStep, FlushLifetime,
         PersistSignal, AccountStep, vars, files
<1> QED
  BY <1>2, <1>3, <1>4, <1>5, <1>6

\* No closed plan is booked twice or with other points than those of its exit,
\* whatever crashes and restarts lie between the plan file and the account file.
THEOREM BookedOnceHolds == Spec => []BookedOnce
<1>1. Init => AccountInv
  BY DEF Init, AccountInv, BookedFrom, NoPlans
<1>2. AccountInv /\ (TypeOK /\ BookInv) /\ [Next]_vars => AccountInv'
  BY AccountKept
<1>3. AccountInv => BookedOnce
  BY DEF AccountInv, BookedOnce
<1> QED
  BY <1>1, <1>2, <1>3, BooksHold, PTL DEF Spec

-----------------------------------------------------------------------------
(* The dashboard implements the ledger.  A tick or a snapshot that closes the *)
(* open plan is ClosePosition, OpenPlan is OpenPosition, FlushAccount is       *)
(* BookPositions or nothing; no other step touches the two files.            *)

\* The trades in memory are those of the file, and newer ones behind them.
LedgerInv ==
  /\ Len(accountFile) <= Len(account.trades)
  /\ \A i \in 1..Len(accountFile) : account.trades[i] = accountFile[i]

LEMMA LedgerStep ==
  ASSUME TypeOK, LedgerInv, [Next]_vars
  PROVE  LedgerInv'
<1>1. /\ account.trades \in Seq(Trades) /\ Len(account.trades) \in Nat
      /\ accountFile \in Seq(Trades) /\ Len(accountFile) \in Nat
  BY SeqEntry DEF TypeOK
<1>2. CASE Start
  <2>1. account'.trades = accountFile /\ accountFile' = accountFile
    BY <1>2 DEF Start, LoadedAccount, files
  <2> QED
    BY <1>1, <2>1 DEF LedgerInv
<1>3. CASE FlushAccount
  <2>1. account' = account /\ accountFile' = account.trades
    BY <1>3 DEF FlushAccount
  <2> QED
    BY <1>1, <2>1 DEF LedgerInv
<1>4. ASSUME NEW i \in 1..Len(engine.plans), BookTrade(i)
      PROVE  LedgerInv'
  <2> DEFINE t == [plan |-> i, points |-> Points(engine.plans[i])]
  <2>1. account'.trades = Append(account.trades, t) /\ accountFile' = accountFile
    BY <1>4 DEF BookTrade, files
  <2>2. i \in Nat /\ engine.plans[i] \in Plans
    BY SeqEntry DEF TypeOK, PlanBooks
  <2>3. t \in Trades
    BY <2>2, PointsType DEF Trades
  <2> HIDE DEF t
  <2> QED
    BY <1>1, <2>1, <2>3 DEF LedgerInv
<1>5. CASE AccountUnchanged
  BY <1>5 DEF AccountUnchanged, LedgerInv
<1>6. \/ Start \/ FlushAccount \/ AccountUnchanged
      \/ \E i \in 1..Len(engine.plans) : BookTrade(i)
  BY DEF Next, Snapshot, AccountUnchanged, Crash, OnTick, Evaluate, PlanStep,
         OpenPlan, NoNewPlan, GateAndNote, LifetimeStep, FlushLifetime,
         PersistSignal, AccountStep, vars, files
<1> QED
  BY <1>2, <1>3, <1>4, <1>5, <1>6

LEMMA SavingCloses ==
  ASSUME BookInv, NEW p, planFile' = Saved(engine, p), UNCHANGED accountFile
  PROVE  [Ledger!Next]_(Ledger!vars)
<1>1. CASE Exits(engine, p)
  <2> DEFINE a == engine.active
             r == Exit(engine.plans[a], p)
  <2>1. a \in 1..Len(planFile.plans) /\ Open(planFile.plans[a])
    BY <1>1, SeqEntry DEF BookInv, WellFormed, PlanBooks, SameBook, Exits
  <2>2. r \in {"WIN", "LOSS"}
    BY <1>1, ExitResult DEF Exits, Results
  <2>3. planFile'.plans = [planFile.plans EXCEPT ![a].result = r]
    BY <1>1 DEF Saved, Closed, BookInv, SameBook, WellFormed, PlanBooks
  <2> HIDE DEF a, r
  <2>4. Ledger!ClosePosition(a)
    BY <2>1, <2>2, <2>3 DEF Ledger!ClosePosition, Ledger!IsOpen, Open
  <2> QED
    BY <2>1, <2>4 DEF Ledger!Next
<1>2. CASE ~Exits(engine, p)
  BY <1>2 DEF Saved, Ledger!vars
<1> QED
  BY <1>1, <1>2

LEMMA OpeningOpens ==
  ASSUME TypeOK, BookInv, NEW risk \in Risks, OpenPlan(risk)
  PROVE  Ledger!Next
<1> DEFINE plan == NewPlan(risk)
           old == planFile.plans
<1>1. Updated(engine, price) = engine
  BY NoExitsUpdated DEF BookInv
<1>2. engine.active = 0 /\ decision \in Sides /\ price \in Int
  BY <1>1, LifecycleAssumption DEF OpenPlan, PlansAt, TypeOK
<1>3. plan \in Plans /\ plan.result = "NONE"
  BY <1>2, LifecycleAssumption DEF NewPlan, Plans, Results, TypeOK
<1>4. old \in Seq(Plans) /\ Len(old) \in Nat
  BY SeqEntry DEF TypeOK, PlanBooks
<1>5. planFile'.plans = Append(old, plan) /\ accountFile' = accountFile
  BY <1>1 DEF OpenPlan, GateAndNote, WithPlan, BookInv, SameBook, WellFormed, PlanBooks
<1> HIDE DEF plan
<1>6. \A i \in 1..Len(old) : old[i].result # "NONE"
  BY <1>2, <1>4 DEF BookInv, WellFormed, SameBook, Open
<1> HIDE DEF old
<1>7. LET new == Append(old, plan)
      IN /\ Len(new) = Len(old) + 1 /\ SubSeq(new, 1, Len(old)) = old
         /\ new[Len(new)].result = "NONE"
  BY <1>3, <1>4
<1> QED
  BY <1>5, <1>6, <1>7 DEF Ledger!Next, Ledger!OpenPosition, Ledger!IsOpen, old

\* What is closed is won or lost, and Points and Outcome agree on it.
LEMMA OutcomeIsPoints ==
  ASSUME NEW plan \in Plans, ~Open(plan)
  PROVE  Points(plan) = Ledger!Outcome(plan)
  BY DEF Points, Ledger!Outcome, Plans, Results, Open

LEMMA FlushingBooks ==
  ASSUME TypeOK, BookInv, AccountInv, LedgerInv, FlushAccount
  PROVE  [Ledger!Next]_(Ledger!vars)
<1> DEFINE old == accountFile
           new == account.trades
<1>1. /\ old \in Seq(Trades) /\ Len(old) \in Nat
      /\ new \in Seq(Trades) /\ Len(new) \in Nat
  BY SeqEntry DEF TypeOK
<1>2. accountFile' = new /\ planFile' = planFile
  BY DEF FlushAccount
<1>3. Len(old) <= Len(new) /\ \A i \in 1..Len(old) : new[i] = old[i]
  BY DEF LedgerInv
<1>4. BookedFrom(new, planFile.plans)
  BY DEF AccountInv, BookInv, SameBook
<1>5. \A i \in 1..Len(planFile.plans) : planFile.plans[i] \in Plans
  BY SeqEntry DEF TypeOK, PlanBooks
<1> HIDE DEF old, new
<1>6. CASE Len(old) = Len(new)
  <2>1. new = old
    BY <1>1, <1>3, <1>6
  <2> QED
    BY <1>2, <2>1 DEF Ledger!vars, old
<1>7. CASE Len(old) < Len(new)
  <2>1. SubSeq(new, 1, Len(old)) = old
    BY <1>1, <1>3
  <2>2. ASSUME NEW k \in (Len(old) + 1)..Len(new)
        PROVE  /\ new[k].plan \in 1..Len(planFile.plans)
               /\ planFile.plans[new[k].plan].result # "NONE"
               /\ new[k].points = Ledger!Outcome(planFile.plans[new[k].plan])
               /\ \A j \in 1..(k - 1) : new[j].plan # new[k].plan
    <3>1. k \in 1..Len(new) /\ \A j \in 1..(k - 1) : j \in 1..Len(new) /\ j # k
      BY <1>1
    <3> QED
      BY <1>4, <1>5, <3>1, OutcomeIsPoints DEF BookedFrom, Open
  <2> QED
    BY <1>2, <1>7, <2>1, <2>2
    DEF Ledger!Next, Ledger!BookPositions, Ledger!IsOpen, old
<1> QED
  BY <1>1, <1>3, <1>6, <1>7

FilesUnchanged == UNCHANGED <<planFile, accountFile>>

LEMMA StepImplements ==
  ASSUME TypeOK, BookInv, AccountInv, LedgerInv, [Next]_vars
  PROVE  [Ledger!Next]_(Ledger!vars)
<1>1. ASSUME NEW p \in Prices, OnTick(p)
      PROVE  [Ledger!Next]_(Ledger!vars)
  BY <1>1, SavingCloses DEF OnTick
<1>2. CASE Evaluate
  BY <1>2, SavingCloses DEF Evaluate
<1>3. CASE NoNewPlan
  BY <1>3, SavingCloses DEF NoNewPlan, GateAndNote
<1>4. ASSUME NEW risk \in Risks, OpenPlan(risk)
      PROVE  [Ledger!Next]_(Ledger!vars)
  BY <1>4, OpeningOpens
<1>5. CASE FlushAccount
  BY <1>5, FlushingBooks
<1>6. CASE FilesUnchanged
  BY <1>6 DEF FilesUnchanged, Ledger!vars
<1>7. \/ \E p \in Prices : OnTick(p)
      \/ Evaluate \/ NoNewPlan
      \/ \E risk \in Risks : OpenPlan(risk)
      \/ FlushAccount \/ FilesUnchanged
  BY DEF Next, Snapshot, FilesUnchanged, Start, Crash, PlanStep, LifetimeStep,
         FlushLifetime, PersistSignal, AccountStep, BookTrade, vars, files
<1> QED
  BY <1>1, <1>2, <1>3, <1>4, <1>5, <1>6, <1>7

\* Seen through its two files the dashboard is the ledger, for all parameters.
THEOREM LedgerIsImplemented == Spec => ImplementsLedger
<1>1. Init => AccountInv /\ LedgerInv
  BY DEF Init, AccountInv, LedgerInv, BookedFrom, NoPlans
<1>2. /\ AccountInv /\ LedgerInv /\ (TypeOK /\ BookInv) /\ [Next]_vars
      => AccountInv' /\ LedgerInv'
  BY AccountKept, LedgerStep
<1>3. Init => Ledger!Init
  BY DEF Init, Ledger!Init, NoPlans
<1>4. AccountInv /\ LedgerInv /\ (TypeOK /\ BookInv) /\ [Next]_vars
      => [Ledger!Next]_(Ledger!vars)
  BY StepImplements
<1> QED
  BY <1>1, <1>2, <1>3, <1>4, BooksHold, PTL DEF Spec, Ledger!Spec, ImplementsLedger

-----------------------------------------------------------------------------
(* Every signal is answered.                                               *)

BornIn(plans, n) == {i \in 1..Len(plans) : plans[i].born = n}

\* Closing a plan changes neither how many there are nor who opened them.
LEMMA UpdatedBirths ==
  ASSUME NEW book, WellFormed(book), NEW p, NEW b, b = Updated(book, p)
  PROVE  /\ b.last = book.last /\ Len(b.plans) = Len(book.plans)
         /\ \A i \in 1..Len(book.plans) : b.plans[i].born = book.plans[i].born
<1>1. /\ book.plans \in Seq(Plans) /\ Len(book.plans) \in Nat
      /\ book.plans \in [1..Len(book.plans) -> Plans]
      /\ book = [plans |-> book.plans, active |-> book.active, last |-> book.last]
  BY SeqEntry DEF WellFormed, PlanBooks
<1>2. CASE Exits(book, p)
  <2> DEFINE a == book.active
             r == Exit(book.plans[a], p)
             q == [book.plans EXCEPT ![a].result = r]
  <2>1. b = [plans |-> q, active |-> 0, last |-> book.last]
    BY <1>1, <1>2 DEF Updated, Closed
  <2>2. r \in Results
    BY ExitResult
  <2> HIDE DEF r
  <2>3. /\ q \in [1..Len(book.plans) -> Plans]
        /\ \A i \in 1..Len(book.plans) : q[i].born = book.plans[i].born
    BY <1>1, <2>2 DEF Plans
  <2>4. Len(q) = Len(book.plans)
    BY <1>1, <2>3
  <2> HIDE DEF q
  <2> QED
    BY <2>1, <2>3, <2>4
<1>3. CASE ~Exits(book, p)
  BY <1>3 DEF Updated
<1> QED
  BY <1>2, <1>3

LEMMA BirthsCount ==
  ASSUME NEW plans \in Seq(Plans), NEW n
  PROVE  IsFiniteSet(BornIn(plans, n)) /\ Cardinality(BornIn(plans, n)) \in Nat
<1>1. Len(plans) \in Nat
  OBVIOUS
<1>2. IsFiniteSet(1..Len(plans))
  BY <1>1, FS_Interval
<1>3. BornIn(plans, n) \subseteq 1..Len(plans)
  BY DEF BornIn
<1> QED
  BY <1>2, <1>3, FS_Subset, FS_CardinalityType

LEMMA OneMoreBirth ==
  ASSUME NEW plans \in Seq(Plans), NEW plan \in Plans,
         NEW q, q = Append(plans, plan)
  PROVE  Cardinality(BornIn(q, plan.born)) = Cardinality(BornIn(plans, plan.born)) + 1
<1> DEFINE n == plan.born
           k == Len(plans) + 1
<1>1. /\ Len(plans) \in Nat /\ Len(q) = k /\ q[k] = plan
      /\ \A i \in 1..Len(plans) : q[i] = plans[i] /\ i # k
      /\ \A i \in 1..k : i \in 1..Len(plans) \/ i = k
      /\ k \in 1..k /\ 1..Len(plans) \subseteq 1..k
  OBVIOUS
<1>2. BornIn(q, n) = BornIn(plans, n) \cup {k} /\ k \notin BornIn(plans, n)
  <2> HIDE DEF k
  <2> QED
    BY <1>1 DEF BornIn
<1> QED
  BY <1>2, BirthsCount, FS_AddElement

\* The plans of this process with the signals the lock blocked are the signals of
\* this process, but for the one a snapshot is about to answer.
CountInv ==
  /\ \A i \in 1..Len(engine.plans) : engine.plans[i].born <= lives
  /\ Up => Len(records) = Cardinality(BornIn(engine.plans, lives)) + lock.blocked
                          + (IF pc = "plan" /\ recorded # 0 THEN 1 ELSE 0)

\* What the tracker remembers is what the controller remembers, but for the
\* decision of a snapshot under way; the engine remembers the same once a
\* snapshot is over.  What it restored from its file is overwritten by the first
\* snapshot, which decides for no side: no window is full after one sample.
MemoryInv ==
  /\ streak.side # None => price # NoPrice
  /\ last.planning # None => engine.last = last.planning
  /\ IF pc = "plan"
     THEN /\ decision = DecisionOf(streak) /\ last.observed = decision
          /\ last.planning = None => decision = "NO_TRADE"
          /\ recorded # 0 <=> decision \in Sides /\ decision # last.planning
     ELSE /\ last.observed = last.planning
          /\ last.planning = None => streak.n = 0

AnswerInv == CountInv /\ (Up => MemoryInv)

LEMMA PriceKnown ==
  ASSUME TypeOK, MemoryInv, decision = DecisionOf(streak), decision \in Sides
  PROVE  price # NoPrice
<1>1. StableWindow \in Nat /\ StableWindow # 0 /\ None \notin Sides
  BY LifecycleAssumption DEF Sides
<1>2. streak.side # None
  BY <1>1 DEF TypeOK, Streaks, DecisionOf, Sides
<1> QED
  BY <1>2 DEF MemoryInv

LEMMA MaturedLength ==
  ASSUME TypeOK, NEW k
  PROVE  Matured(k) \in Seq(Signals) => Len(Matured(k)) = Len(records)
<1>1. Len(records) \in Nat
  BY DEF TypeOK
<1> QED
  BY <1>1 DEF Matured

LEMMA LockBlocked ==
  ASSUME TypeOK, NEW p
  PROVE  LockAfterUpdate(p).blocked = lock.blocked
  BY DEF LockAfterUpdate, Released, TypeOK

\* A price that arrives closes a plan at most.
LEMMA PriceCounts ==
  ASSUME TypeOK, BookInv, CountInv, NEW p, engine' = Updated(engine, p), lives' = lives
  PROVE  /\ engine'.last = engine.last
         /\ BornIn(engine'.plans, lives') = BornIn(engine.plans, lives)
         /\ \A i \in 1..Len(engine'.plans) : engine'.plans[i].born <= lives'
<1> DEFINE b == Updated(engine, p)
<1>1. /\ b.last = engine.last /\ Len(b.plans) = Len(engine.plans)
      /\ \A i \in 1..Len(engine.plans) : b.plans[i].born = engine.plans[i].born
  BY UpdatedBirths DEF BookInv
<1> HIDE DEF b
<1>2. engine' = b
  BY DEF b
<1> QED
  BY <1>1, <1>2 DEF BornIn, CountInv

LEMMA TickAnswers ==
  ASSUME TypeOK, BookInv, AnswerInv, NEW p \in Prices, OnTick(p)
  PROVE  AnswerInv'
<1>1. /\ engine'.last = engine.last
      /\ BornIn(engine'.plans, lives') = BornIn(engine.plans, lives)
      /\ \A i \in 1..Len(engine'.plans) : engine'.plans[i].born <= lives'
  BY PriceCounts DEF OnTick, AnswerInv
<1>2. lock'.blocked = lock.blocked
  BY LockBlocked DEF OnTick
<1>3. CountInv'
  BY <1>1, <1>2 DEF OnTick, AnswerInv, CountInv, Up
<1>4. p # NoPrice
  BY LifecycleAssumption
<1>5. MemoryInv'
  BY <1>1, <1>4 DEF OnTick, AnswerInv, MemoryInv, Up
<1> QED
  BY <1>3, <1>5 DEF AnswerInv

LEMMA EvaluateAnswers ==
  ASSUME TypeOK, BookInv, AnswerInv, StableWindow # 1, Evaluate
  PROVE  AnswerInv'
<1>1. /\ engine'.last = engine.last
      /\ BornIn(engine'.plans, lives') = BornIn(engine.plans, lives)
      /\ \A i \in 1..Len(engine'.plans) : engine'.plans[i].born <= lives'
  BY PriceCounts DEF Evaluate, AnswerInv
<1>2. lock'.blocked = lock.blocked
  BY LockBlocked DEF Evaluate
<1>3. PICK side \in Sides \cup {None}, k \in 0..Len(records) :
        /\ side # None => price # NoPrice
        /\ streak' = NextStreak(side)
        /\ decision' = DecisionOf(streak')
        /\ IF Records(decision')
           THEN /\ issued' = issued + 1 /\ recorded' = issued + 1
                /\ records' = Append(Matured(k), [id |-> issued + 1, done |-> FALSE])
           ELSE /\ recorded' = 0
                /\ records' = Matured(k)
  BY DEF Evaluate
<1>4. Matured(k) \in Seq(Signals) /\ Len(Matured(k)) = Len(records) /\ Len(records) \in Nat
  BY MaturedType, MaturedLength DEF TypeOK
<1>5. /\ pc = "poll" /\ pc' = "plan" /\ price' = price /\ lives' = lives
      /\ last' = [last EXCEPT !.observed = decision'] /\ decision' \in Decisions
  BY EvaluateType DEF Evaluate
<1>6. last'.planning = last.planning /\ last'.observed = decision'
  BY <1>5 DEF TypeOK
<1>7. streak'.side # None => price # NoPrice
  <2>1. CASE side = None
    BY <1>3, <2>1 DEF NextStreak
  <2>2. CASE side # None
    BY <1>3, <2>2
  <2> QED
    BY <2>1, <2>2
<1>8. decision' \in Sides => price # NoPrice
  <2>1. StableWindow # 0 /\ None \notin Sides
    BY LifecycleAssumption DEF Sides
  <2>2. streak' \in Streaks
    BY EvaluateType
  <2>3. decision' \in Sides => streak'.side # None
    BY <1>3, <2>1, <2>2 DEF Streaks, DecisionOf, Sides
  <2> QED
    BY <1>7, <2>3
<1>9. issued + 1 # 0
  BY DEF TypeOK
<1>10. recorded' # 0 <=> decision' \in Sides /\ decision' # last.planning
  BY <1>3, <1>5, <1>8, <1>9 DEF Records, AnswerInv, MemoryInv, Up
<1>11. last.planning = None => decision' = "NO_TRADE"
  <2> SUFFICES ASSUME last.planning = None
               PROVE  decision' = "NO_TRADE"
    OBVIOUS
  <2>1. streak.n = 0
    BY <1>5 DEF AnswerInv, MemoryInv, Up
  <2>2. StableWindow \in Nat /\ StableWindow > 1
    BY LifecycleAssumption
  <2>3. streak.side = None
    BY <2>1, <2>2 DEF TypeOK, Streaks
  <2>4. NextStreak(side).n \in {0, 1}
    BY <2>3 DEF NextStreak
  <2> QED
    BY <1>3, <2>2, <2>4 DEF DecisionOf
<1>12. MemoryInv'
  BY <1>1, <1>3, <1>5, <1>6, <1>7, <1>10, <1>11 DEF AnswerInv, MemoryInv, Up
<1>13. CountInv'
  <2> DEFINE n == Cardinality(BornIn(engine.plans, lives))
  <2>1. n \in Nat /\ lock.blocked \in Nat
    BY BirthsCount DEF TypeOK, PlanBooks
  <2>2. Len(records) = n + lock.blocked
    BY <1>5, <2>1 DEF AnswerInv, CountInv, Up
  <2>3. Len(records') = Len(records) + (IF recorded' # 0 THEN 1 ELSE 0)
    <3>1. CASE Records(decision')
      <4>1. Len(Append(Matured(k), [id |-> issued + 1, done |-> FALSE]))
              = Len(Matured(k)) + 1
        <5>1. [id |-> issued + 1, done |-> FALSE] \in Signals
          BY DEF TypeOK, Signals
        <5> QED
          BY <1>4, <5>1
      <4> QED
        BY <1>3, <1>4, <1>9, <3>1, <4>1
    <3>2. CASE ~Records(decision')
      BY <1>3, <1>4, <3>2
    <3> QED
      BY <3>1, <3>2
  <2>4. n = Cardinality(BornIn(engine'.plans, lives'))
    BY <1>1
  <2> HIDE DEF n
  <2> QED
    BY <1>1, <1>2, <1>5, <2>1, <2>2, <2>3, <2>4 DEF CountInv
<1> QED
  BY <1>12, <1>13 DEF AnswerInv

LEMMA GateMemory ==
  ASSUME TypeOK, AnswerInv, GateAndNote, engine'.last = decision
  PROVE  MemoryInv'
<1>1. last'.planning = decision /\ last'.observed = last.observed
  BY DEF GateAndNote, TypeOK
<1>2. decision # None
  BY DEF TypeOK, Decisions, Sides
<1> QED
  BY <1>1, <1>2 DEF GateAndNote, AnswerInv, MemoryInv, Up

\* The signal of a snapshot opens a plan, and no other decision does.
LEMMA OpeningAnswers ==
  ASSUME TypeOK, BookInv, AnswerInv, NEW risk \in Risks, OpenPlan(risk)
  PROVE  AnswerInv'
<1>1. Updated(engine, price) = engine
  BY NoExitsUpdated DEF BookInv
<1>2. pc = "plan" /\ pc' = "lifetime" /\ lives' = lives /\ records' = records
  BY DEF OpenPlan, GateAndNote
<1>3. /\ decision \in Sides /\ decision # engine.last
      /\ price \in Int
  BY <1>1, LifecycleAssumption DEF OpenPlan, PlansAt, TypeOK
<1>4. recorded # 0
  <2>1. last.planning # None
    BY <1>2, <1>3 DEF AnswerInv, MemoryInv, Up, Sides
  <2> QED
    BY <1>2, <1>3, <2>1 DEF AnswerInv, MemoryInv, Up
<1> DEFINE plan == NewPlan(risk)
           book == WithPlan(engine, plan)
<1>5. plan \in Plans /\ plan.born = lives
  BY <1>3, LifecycleAssumption DEF NewPlan, Plans, Results, TypeOK
<1>6. engine.plans \in Seq(Plans) /\ Len(engine.plans) \in Nat
  BY DEF TypeOK, PlanBooks
<1> HIDE DEF plan
<1>7. book.plans = Append(engine.plans, plan)
  BY DEF WithPlan, TypeOK, PlanBooks
<1>8. /\ engine' = [book EXCEPT !.last = decision]
      /\ lock' = Activated(lock, book.active)
  BY <1>1 DEF OpenPlan, plan
<1>9. /\ engine'.plans = Append(engine.plans, plan) /\ engine'.last = decision
      /\ lock'.blocked = lock.blocked
  BY <1>7, <1>8 DEF WithPlan, Activated, TypeOK, PlanBooks
<1>10. MemoryInv'
  BY <1>9, GateMemory DEF OpenPlan
<1>11. \A i \in 1..Len(engine'.plans) : engine'.plans[i].born <= lives'
  <2> DEFINE q == Append(engine.plans, plan)
  <2>1. /\ Len(q) = Len(engine.plans) + 1 /\ q[Len(engine.plans) + 1] = plan
        /\ \A i \in 1..Len(engine.plans) : q[i] = engine.plans[i]
        /\ \A i \in 1..(Len(engine.plans) + 1) :
             i \in 1..Len(engine.plans) \/ i = Len(engine.plans) + 1
    BY <1>5, <1>6
  <2>2. lives \in Nat
    BY DEF TypeOK
  <2> HIDE DEF q
  <2>3. \A i \in 1..Len(q) : q[i].born <= lives
    BY <1>5, <2>1, <2>2 DEF AnswerInv, CountInv
  <2> QED
    BY <1>2, <1>9, <2>3 DEF q
<1>12. CountInv'
  <2> DEFINE n == Cardinality(BornIn(engine.plans, lives))
  <2>1. n \in Nat /\ lock.blocked \in Nat
    BY BirthsCount, <1>6 DEF TypeOK
  <2>2. Len(records) = n + lock.blocked + 1
    BY <1>2, <1>4, <2>1 DEF AnswerInv, CountInv, Up
  <2>3. Cardinality(BornIn(engine'.plans, lives')) = n + 1
    BY <1>2, <1>5, <1>6, <1>9, OneMoreBirth
  <2> HIDE DEF n
  <2> QED
    BY <1>2, <1>9, <1>11, <2>1, <2>2, <2>3 DEF CountInv
<1> QED
  BY <1>10, <1>12 DEF AnswerInv

\* A signal that opens no plan is counted by the lock.
LEMMA PassingAnswers ==
  ASSUME TypeOK, BookInv, AnswerInv, NoNewPlan
  PROVE  AnswerInv'
<1>1. Updated(engine, price) = engine
  BY NoExitsUpdated DEF BookInv
<1>2. pc = "plan" /\ pc' = "lifetime" /\ lives' = lives /\ records' = records
  BY DEF NoNewPlan, GateAndNote
<1>3. engine'.plans = engine.plans /\ engine'.last = decision
  BY <1>1 DEF NoNewPlan, TypeOK, PlanBooks
<1>4. MemoryInv'
  BY <1>3, GateMemory DEF NoNewPlan
<1>5. recorded # 0 <=> Blocked
  <2>1. MemoryInv
    BY <1>2 DEF AnswerInv, Up
  <2>2. ~PlansAt(engine)
    BY <1>1 DEF NoNewPlan
  <2>3. recorded # 0 <=> decision \in Sides /\ decision # last.planning
    BY <1>2, <2>1 DEF MemoryInv
  <2>4. CASE recorded # 0
    <3>1. price # NoPrice
      BY <1>2, <2>1, <2>3, <2>4, PriceKnown DEF MemoryInv
    <3>2. decision # engine.last
      BY <1>2, <2>1, <2>3, <2>4 DEF MemoryInv, Sides
    <3>3. ~AllowsNewPlan
      BY <2>2, <2>3, <2>4, <3>1, <3>2 DEF PlansAt, AllowsNewPlan, BookInv
    <3> QED
      BY <2>3, <2>4, <3>3 DEF Blocked
  <2>5. CASE recorded = 0
    BY <2>3, <2>5 DEF Blocked
  <2> QED
    BY <2>4, <2>5
<1>6. lock'.blocked = lock.blocked + (IF recorded # 0 THEN 1 ELSE 0)
  <2>1. lock.blocked \in Nat
    BY DEF TypeOK
  <2>2. CASE Blocked
    BY <1>5, <2>1, <2>2 DEF NoNewPlan, TypeOK
  <2>3. CASE ~Blocked
    BY <1>5, <2>1, <2>3 DEF NoNewPlan
  <2> QED
    BY <2>2, <2>3
<1>7. CountInv'
  <2> DEFINE n == Cardinality(BornIn(engine.plans, lives))
  <2>1. n \in Nat /\ lock.blocked \in Nat
    BY BirthsCount DEF TypeOK, PlanBooks
  <2>2. Len(records) = n + lock.blocked + (IF recorded # 0 THEN 1 ELSE 0)
    BY <1>2, <2>1 DEF AnswerInv, CountInv, Up
  <2>3. Cardinality(BornIn(engine'.plans, lives')) = n
    BY <1>2, <1>3
  <2> HIDE DEF n
  <2> QED
    BY <1>2, <1>3, <1>6, <2>1, <2>2, <2>3 DEF AnswerInv, CountInv
<1> QED
  BY <1>4, <1>7 DEF AnswerInv

\* Nothing of an earlier process is counted: every plan of the file is older.
LEMMA StartAnswers ==
  ASSUME TypeOK, BookInv, AnswerInv, Start
  PROVE  AnswerInv'
<1>1. engine' = planFile /\ lives' = lives + 1 /\ records' = <<>> /\ pc' = "poll"
  BY RestoredBook DEF BookInv, Start
<1>2. engine'.plans = engine.plans
  BY <1>1 DEF BookInv, SameBook
<1>3. lock'.blocked = 0
  BY DEF Start, Activated, IdleLock
<1>4. lives \in Nat /\ \A i \in 1..Len(engine.plans) : engine.plans[i].born \in Nat
  <2>1. engine.plans \in Seq(Plans)
    BY DEF TypeOK, PlanBooks
  <2>2. \A i \in 1..Len(engine.plans) : engine.plans[i] \in Plans
    BY <2>1, SeqEntry
  <2> QED
    BY <2>2 DEF TypeOK, Plans
<1>5. BornIn(engine'.plans, lives') = {}
  BY <1>1, <1>2, <1>4 DEF BornIn, AnswerInv, CountInv
<1>6. Cardinality(BornIn(engine'.plans, lives')) = 0
  BY <1>5, FS_EmptySet
<1>7. CountInv'
  BY <1>1, <1>2, <1>3, <1>4, <1>6 DEF AnswerInv, CountInv
<1>8. MemoryInv'
  BY <1>1 DEF Start, MemoryInv
<1> QED
  BY <1>7, <1>8 DEF AnswerInv

LEMMA RestAnswers ==
  ASSUME AnswerInv, pc' \notin {"plan", "down"}, pc \notin {"plan", "down"},
         UNCHANGED <<engine, lives, lock, records, streak, price, last, recorded>>
  PROVE  AnswerInv'
<1>1. CountInv'
  BY DEF AnswerInv, CountInv, Up
<1>2. MemoryInv'
  BY DEF AnswerInv, MemoryInv, Up
<1> QED
  BY <1>1, <1>2 DEF AnswerInv

LEMMA AnswerStep ==
  ASSUME TypeOK, BookInv, AnswerInv, StableWindow # 1, [Next]_vars
  PROVE  AnswerInv'
<1>1. CASE Start
  BY <1>1, StartAnswers
<1>2. CASE Crash
  BY <1>2 DEF Crash, files, AnswerInv, CountInv, Up
<1>3. ASSUME NEW p \in Prices, OnTick(p)
      PROVE  AnswerInv'
  BY <1>3, TickAnswers
<1>4. CASE Evaluate
  BY <1>4, EvaluateAnswers
<1>5. CASE NoNewPlan
  BY <1>5, PassingAnswers
<1>6. ASSUME NEW risk \in Risks, OpenPlan(risk)
      PROVE  AnswerInv'
  BY <1>6, OpeningAnswers
<1>7. CASE LifetimeStep
  BY <1>7, RestAnswers DEF LifetimeStep, PersistSignal, FlushLifetime, files
<1>8. CASE AccountStep
  BY <1>8, RestAnswers DEF AccountStep, BookTrade, FlushAccount, files
<1>9. CASE UNCHANGED vars
  BY <1>9 DEF vars, files, AnswerInv, CountInv, MemoryInv, Up
<1> QED
  BY <1>1, <1>2, <1>3, <1>4, <1>5, <1>6, <1>7, <1>8, <1>9 DEF Next, Snapshot, PlanStep

\* Every signal of a process opens a plan or is counted as blocked, if the policy
\* waits for more than one sample (SIGNAL_STABILITY_WINDOW is 3).  With one it
\* would fail: a process that restores the decision it had when a plan was closed
\* takes the same decision, new to the tracker, for the old one.
THEOREM SignalsAreAnsweredHolds ==
  ASSUME StableWindow # 1
  PROVE  Spec => []SignalsAreAnswered
<1>1. Init => AnswerInv
  <2> SUFFICES ASSUME Init
               PROVE  AnswerInv
    OBVIOUS
  <2>1. engine.plans = <<>> /\ pc = "down"
    BY DEF Init, NoPlans
  <2> QED
    BY <2>1 DEF AnswerInv, CountInv, Up
<1>2. TypeOK /\ BookInv /\ AnswerInv /\ [Next]_vars => AnswerInv'
  BY AnswerStep
<1>3. AnswerInv => SignalsAreAnswered
  BY DEF AnswerInv, CountInv, BornIn, SignalsAreAnswered
<1> QED
  BY <1>1, <1>2, <1>3, BooksHold, PTL DEF Spec
=============================================================================
