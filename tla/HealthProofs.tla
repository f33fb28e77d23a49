---------------------------- MODULE HealthProofs ----------------------------
(***************************************************************************)
(* Theorems about FeedHealth, for all thresholds, ring capacities and        *)
(* bounds.                                                                 *)
(***************************************************************************)
EXTENDS FeedHealth, SequenceTheorems, TLAPS

-----------------------------------------------------------------------------
(* The ring.                                                               *)

\* Adding to the ring keeps it within its capacity and invents no records.
LEMMA RingKeepsRecords ==
  ASSUME NEW k \in Nat, memory \in Seq(0..k),
         NEW n \in Nat, NEW e \in Nat, k <= e
  PROVE  /\ Remember(n, e) \in Seq(0..e) /\ Len(Remember(n, e)) <= Capacity
         /\ \A i \in DOMAIN Remember(n, e) :
              \/ Remember(n, e)[i] = e
              \/ \E j \in DOMAIN memory : Remember(n, e)[i] = memory[j]
<1> DEFINE more == [i \in 1..n |-> e]
           all  == memory \o more
<1>1. /\ more \in Seq(0..e) /\ Len(more) = n
      /\ \A i \in 1..n : more[i] = e
  OBVIOUS
<1>2. memory \in Seq(0..e) /\ Len(memory) \in Nat
  OBVIOUS
<1> HIDE DEF more
<1>3. /\ all \in Seq(0..e) /\ Len(all) = Len(memory) + n
      /\ \A i \in 1..Len(all) :
           all[i] = IF i <= Len(memory) THEN memory[i] ELSE more[i - Len(memory)]
  BY <1>1, <1>2
<1>4. \A i \in 1..Len(all) : all[i] = e \/ \E j \in DOMAIN memory : all[i] = memory[j]
  BY <1>1, <1>2, <1>3
<1> HIDE DEF all
<1> DEFINE kept == Newest(all)
<1>5. /\ kept \in Seq(0..e) /\ Len(kept) <= Capacity
      /\ \A i \in 1..Len(kept) : \E j \in 1..Len(all) : kept[i] = all[j]
  <2>1. CASE Len(all) <= Capacity
    <3>1. kept = all
      BY <2>1 DEF Newest
    <3> QED
      BY <1>3, <2>1, <3>1
  <2>2. CASE ~(Len(all) <= Capacity)
    <3> DEFINE first == Len(all) - Capacity + 1
    <3>1. kept = SubSeq(all, first, Len(all))
      BY <2>2 DEF Newest
    <3>2. /\ Capacity \in Nat /\ Len(all) \in Nat /\ first \in 1..Len(all)
          /\ \A i \in 1..Capacity : first + i - 1 \in 1..Len(all)
      BY <1>3, <2>2, HealthAssumption
    <3> HIDE DEF first
    <3>3. \A i \in first..Len(all) : all[i] \in 0..e
      BY <1>3, <3>2
    <3>4. Len(all) - first + 1 = Capacity /\ first <= Len(all)
      BY <1>3, <3>2 DEF first
    <3>5. /\ SubSeq(all, first, Len(all)) \in Seq(0..e)
          /\ Len(SubSeq(all, first, Len(all))) = Capacity
          /\ \A i \in 1..Capacity :
               SubSeq(all, first, Len(all))[i] = all[first + i - 1]
      BY <3>2, <3>3, <3>4, SubSeqProperties
    <3> HIDE DEF kept
    <3>6. /\ kept \in Seq(0..e) /\ Len(kept) = Capacity
          /\ \A i \in 1..Capacity : kept[i] = all[first + i - 1]
      BY <3>1, <3>5
    <3>7. ASSUME NEW i \in 1..Len(kept)
          PROVE  \E j \in 1..Len(all) : kept[i] = all[j]
      <4>1. i \in 1..Capacity
        BY <3>6
      <4>2. first + i - 1 \in 1..Len(all) /\ kept[i] = all[first + i - 1]
        BY <3>2, <3>6, <4>1 DEF first
      <4> QED
        BY <4>2
    <3> QED
      BY <3>2, <3>6, <3>7
  <2> QED
    BY <2>1, <2>2
<1>6. DOMAIN kept = 1..Len(kept) /\ kept = Remember(n, e)
  BY <1>5 DEF Remember, all, more
<1> HIDE DEF kept
<1> QED
  BY <1>4, <1>5, <1>6

-----------------------------------------------------------------------------
(* The invariant.                                                          *)

\* A status may lag behind the age of its feed, but is never worse than it: no
\* evaluation improves a status, only a delivery does.
StatusLags ==
  \A f \in Feeds :
    /\ status[f] = "HEALTHY" => age[f] # Never
    /\ status[f] = "STALE" => age[f] >= Stall
    /\ status[f] = "DISCONNECTED" => age[f] = Never \/ age[f] >= Disconnect

HealthInv ==
  TypeOK /\ StatusLags /\ LabelsAgree /\ EventsTellStatus /\ StaleIsExposed

LEMMA Beginning == Init => HealthInv
<1> SUFFICES ASSUME Init PROVE HealthInv
  OBVIOUS
<1>1. memory \in Seq(0..era) /\ Len(memory) = 0 /\ DOMAIN memory = {}
  BY DEF Init
<1>2. TypeOK
  <2>1. velocity \in BOOLEAN /\ liquidity \in BOOLEAN
    BY DEF Init
  <2>2. /\ age \in [Feeds -> {Never} \cup (0..Disconnect)]
        /\ status \in [Feeds -> Statuses] /\ event \in [Feeds -> Events]
    BY DEF Init, Statuses, Events
  <2>3. exposed \in SUBSET (1..era)
    BY DEF Init
  <2> QED
    BY <1>1, <2>1, <2>2, <2>3, HealthAssumption DEF Init, TypeOK
<1>3. StatusLags /\ LabelsAgree /\ EventsTellStatus
  BY DEF Init, StatusLags, LabelsAgree, EventsTellStatus, PriceKnown, Feeds
<1>4. StaleIsExposed
  BY <1>1 DEF StaleIsExposed
<1> QED
  BY <1>2, <1>3, <1>4 DEF HealthInv

LEMMA Thresholds ==
  /\ Stall \in Nat /\ Stall > 0 /\ Disconnect \in Nat /\ Stall <= Disconnect
  /\ Capacity \in Nat
  BY HealthAssumption

\* What an evaluation finds, for an age and a status that lags behind it.
LEMMA Evaluation ==
  ASSUME HealthInv, NEW f \in Feeds, NEW s, s = StatusAt(age[f])
  PROVE  /\ s \in Statuses
         /\ s = "HEALTHY" => age[f] # Never /\ status[f] = "HEALTHY"
         /\ s = "STALE" => age[f] >= Stall /\ status[f] # "DISCONNECTED"
         /\ s = "DISCONNECTED" => age[f] = Never \/ age[f] >= Disconnect
         /\ s # "DISCONNECTED" => age[f] # Never
  BY Thresholds DEF HealthInv, TypeOK, StatusLags, StatusAt, Statuses, Never

\* An evaluation begins an era or leaves it as it is.
LEMMA Eras ==
  ASSUME HealthInv, NEW s
  PROVE  /\ era \in Nat /\ EraAfter(s) \in Nat /\ era <= EraAfter(s)
         /\ ~Lost(s) => EraAfter(s) = era
         /\ Lost(s) => EraAfter(s) = era + 1
  BY DEF EraAfter, HealthInv, TypeOK

\* Records of earlier eras stay exposed when records of this era are added.
LEMMA RememberStep ==
  ASSUME HealthInv, NEW n \in Nat, NEW e \in Nat, NEW x \in SUBSET (1..e),
         era <= e, exposed \subseteq x,
         \A d \in (era + 1)..e : d \in x
  PROVE  /\ Remember(n, e) \in Seq(0..e) /\ Len(Remember(n, e)) <= Capacity
         /\ \A i \in DOMAIN Remember(n, e) : \A d \in (Remember(n, e)[i] + 1)..e : d \in x
<1>1. era \in Nat /\ memory \in Seq(0..era) /\ exposed \subseteq 1..era
  BY DEF HealthInv, TypeOK
<1>2. \A j \in DOMAIN memory : \A d \in (memory[j] + 1)..e : d \in x
  <2> SUFFICES ASSUME NEW j \in DOMAIN memory, NEW d \in (memory[j] + 1)..e
               PROVE  d \in x
    OBVIOUS
  <2>1. memory[j] \in 0..era
    BY <1>1
  <2>2. CASE d <= era
    BY <1>1, <2>1, <2>2 DEF HealthInv, StaleIsExposed
  <2>3. CASE d > era
    BY <1>1, <2>1, <2>3
  <2> QED
    BY <1>1, <2>1, <2>2, <2>3
<1> DEFINE r == Remember(n, e)
<1>3. /\ r \in Seq(0..e) /\ Len(r) <= Capacity
      /\ \A i \in DOMAIN r : r[i] = e \/ \E j \in DOMAIN memory : r[i] = memory[j]
  BY <1>1, RingKeepsRecords
<1> HIDE DEF r
<1>4. \A i \in DOMAIN r : \A d \in (r[i] + 1)..e : d \in x
  BY <1>2, <1>3
<1> QED
  BY <1>3, <1>4 DEF r

-----------------------------------------------------------------------------
(* What an evaluation does to the labels and to the log.                   *)

LEMMA EvaluatedLabels ==
  ASSUME HealthInv, NEW s, s = StatusAt(age["tick"])
  PROVE  /\ SyncConnection(s) \in {"CONNECTING", "CONNECTED", "DISCONNECTED"}
         /\ SyncMarket(s) \in {"WAITING", "OPEN"}
         /\ PriceKnown <=> SyncMarket(s) = "OPEN"
         /\ PriceKnown => SyncConnection(s) = IF s = "DISCONNECTED"
                                              THEN "DISCONNECTED" ELSE "CONNECTED"
<1>1. s # "DISCONNECTED" => PriceKnown
  BY DEF StatusAt, PriceKnown
<1>2. /\ PriceKnown <=> market = "OPEN"
      /\ connection \in {"CONNECTING", "CONNECTED", "DISCONNECTED"}
      /\ market \in {"WAITING", "OPEN"}
  BY DEF HealthInv, TypeOK, LabelsAgree
<1> QED
  BY <1>1, <1>2 DEF SyncConnection, SyncMarket

LEMMA EvaluatedEvents ==
  ASSUME HealthInv, NEW f \in Feeds, NEW s, s = StatusAt(age[f]),
         NEW v, v = Logged(status[f], s, event[f])
  PROVE  /\ v \in Events
         /\ s = "HEALTHY" => v \in {"connected", "resumed"}
         /\ f = "dom" /\ s = "STALE" => v = "stalled"
         /\ f = "dom" /\ s = "DISCONNECTED" => v \in {"lost", "none"}
<1>1. /\ status[f] \in Statuses /\ event[f] \in Events
      /\ status[f] = "HEALTHY" => event[f] \in {"connected", "resumed"}
      /\ f = "dom" /\ status[f] = "STALE" => event[f] = "stalled"
      /\ f = "dom" /\ status[f] = "DISCONNECTED" => event[f] \in {"lost", "none"}
  BY DEF HealthInv, TypeOK, EventsTellStatus
<1>2. /\ s \in Statuses
      /\ s = "HEALTHY" => status[f] = "HEALTHY"
      /\ s = "STALE" => status[f] # "DISCONNECTED"
  BY Evaluation
<1> QED
  BY <1>1, <1>2 DEF Logged, Events, Statuses

-----------------------------------------------------------------------------
(* The steps.                                                              *)

\* A step that moves the loop on and touches nothing else.
LEMMA LoopStep ==
  ASSUME HealthInv, pc # "stopped",
         pc' \in {"ticks", "doms", "check", "render"},
         UNCHANGED <<age, status, event, connection, market, velocity,
                     liquidity, memory, ticks, doms, era, exposed>>
  PROVE  HealthInv'
<1>1. TypeOK'
  BY DEF HealthInv, TypeOK
<1>2. LabelsAgree'
  BY DEF HealthInv, LabelsAgree, PriceKnown
<1>3. StatusLags' /\ EventsTellStatus' /\ StaleIsExposed'
  BY DEF HealthInv, StatusLags, EventsTellStatus, StaleIsExposed
<1> QED
  BY <1>1, <1>2, <1>3 DEF HealthInv

LEMMA ElapseStep == HealthInv /\ Elapse => HealthInv'
<1> SUFFICES ASSUME HealthInv, Elapse PROVE HealthInv'
  OBVIOUS
<1>1. \A f \in Feeds :
        /\ age'[f] \in {Never} \cup (0..Disconnect)
        /\ age'[f] = Never <=> age[f] = Never
        /\ age[f] # Never => age'[f] >= age[f]
  BY Thresholds DEF Elapse, Older, HealthInv, TypeOK, Never
<1>2. age' \in [Feeds -> {Never} \cup (0..Disconnect)]
  BY <1>1 DEF Elapse
<1>3. TypeOK'
  BY <1>2 DEF Elapse, HealthInv, TypeOK
<1>4. StatusLags'
  BY <1>1, Thresholds DEF Elapse, HealthInv, TypeOK, StatusLags, Never
<1>5. LabelsAgree'
  BY <1>1 DEF Elapse, HealthInv, LabelsAgree, PriceKnown, Feeds
<1>6. EventsTellStatus' /\ StaleIsExposed'
  BY DEF Elapse, HealthInv, EventsTellStatus, StaleIsExposed
<1> QED
  BY <1>3, <1>4, <1>5, <1>6 DEF HealthInv

LEMMA OnTickStep == HealthInv /\ OnTick => HealthInv'
<1> SUFFICES ASSUME HealthInv, OnTick PROVE HealthInv'
  OBVIOUS
<1>1. TypeOK
  BY DEF HealthInv
<1>2. /\ age' \in [Feeds -> {Never} \cup (0..Disconnect)]
      /\ age'["tick"] = 0 /\ age'["dom"] = age["dom"]
      /\ status' \in [Feeds -> Statuses]
      /\ status'["tick"] = "HEALTHY" /\ status'["dom"] = status["dom"]
  BY <1>1, Thresholds DEF OnTick, TypeOK, Feeds, Statuses
<1>3. /\ event' \in [Feeds -> Events]
      /\ event'["tick"] \in {"connected", "resumed"}
      /\ event'["dom"] = event["dom"]
  <2>1. Logged(status["tick"], "HEALTHY", event["tick"]) \in {"connected", "resumed"}
    BY DEF HealthInv, EventsTellStatus, Logged, Feeds
  <2> QED
    BY <1>1, <2>1 DEF OnTick, TypeOK, Feeds, Events
<1>4. /\ memory' \in Seq(0..era) /\ Len(memory') <= Capacity
      /\ \A i \in DOMAIN memory' : \A d \in (memory'[i] + 1)..era : d \in exposed
  <2>1. /\ Remember(1, era) \in Seq(0..era) /\ Len(Remember(1, era)) <= Capacity
        /\ \A i \in DOMAIN Remember(1, era) :
             \A d \in (Remember(1, era)[i] + 1)..era : d \in exposed
    <3>1. era \in Nat /\ exposed \in SUBSET (1..era) /\ \A d \in (era + 1)..era : d \in exposed
      BY <1>1 DEF TypeOK
    <3> QED
      BY <3>1, RememberStep
  <2>2. memory' = Remember(1, era) \/ memory' = memory
    BY DEF OnTick
  <2> QED
    BY <1>1, <2>1, <2>2 DEF HealthInv, TypeOK, StaleIsExposed
<1>5. velocity' \in BOOLEAN
  BY <1>1 DEF OnTick, TypeOK
<1>6. TypeOK'
  BY <1>1, <1>2, <1>3, <1>4, <1>5 DEF OnTick, TypeOK
<1>7. StatusLags'
  BY <1>2 DEF HealthInv, StatusLags, Feeds, Never
<1>8. LabelsAgree'
  BY <1>2 DEF OnTick, LabelsAgree, PriceKnown, Never
<1>9. EventsTellStatus'
  BY <1>2, <1>3 DEF HealthInv, EventsTellStatus, Feeds
<1>10. StaleIsExposed'
  BY <1>4 DEF OnTick, StaleIsExposed
<1> QED
  BY <1>6, <1>7, <1>8, <1>9, <1>10 DEF HealthInv

LEMMA OnDomStep == HealthInv /\ OnDom => HealthInv'
<1> SUFFICES ASSUME HealthInv, OnDom PROVE HealthInv'
  OBVIOUS
<1>1. TypeOK
  BY DEF HealthInv
<1>2. /\ age' \in [Feeds -> {Never} \cup (0..Disconnect)]
      /\ age'["dom"] = 0 /\ age'["tick"] = age["tick"]
      /\ status' \in [Feeds -> Statuses]
      /\ status'["dom"] = "HEALTHY" /\ status'["tick"] = status["tick"]
  BY <1>1, Thresholds DEF OnDom, TypeOK, Feeds, Statuses
<1>3. /\ event' \in [Feeds -> Events]
      /\ event'["dom"] \in {"connected", "resumed"}
      /\ event'["tick"] = event["tick"]
  <2>1. Logged(status["dom"], "HEALTHY", event["dom"]) \in {"connected", "resumed"}
    BY DEF HealthInv, EventsTellStatus, Logged, Feeds
  <2> QED
    BY <1>1, <2>1 DEF OnDom, TypeOK, Feeds, Events
<1>4. /\ memory' \in Seq(0..era) /\ Len(memory') <= Capacity
      /\ \A i \in DOMAIN memory' : \A d \in (memory'[i] + 1)..era : d \in exposed
  <2>1. era \in Nat /\ exposed \in SUBSET (1..era) /\ \A d \in (era + 1)..era : d \in exposed
    BY <1>1 DEF TypeOK
  <2>2. /\ Remember(1, era) \in Seq(0..era) /\ Len(Remember(1, era)) <= Capacity
        /\ \A i \in DOMAIN Remember(1, era) :
             \A d \in (Remember(1, era)[i] + 1)..era : d \in exposed
    BY <2>1, RememberStep
  <2>3. memory' = Remember(1, era)
    BY DEF OnDom
  <2> QED
    BY <2>2, <2>3
<1>5. TypeOK'
  BY <1>1, <1>2, <1>3, <1>4 DEF OnDom, TypeOK
<1>6. StatusLags'
  BY <1>2 DEF HealthInv, StatusLags, Feeds, Never
<1>7. LabelsAgree'
  BY <1>2 DEF OnDom, HealthInv, LabelsAgree, PriceKnown
<1>8. EventsTellStatus'
  BY <1>2, <1>3 DEF HealthInv, EventsTellStatus, Feeds
<1>9. StaleIsExposed'
  BY <1>4 DEF OnDom, StaleIsExposed
<1> QED
  BY <1>5, <1>6, <1>7, <1>8, <1>9 DEF HealthInv

\* The health check clears the memory at every transition it is the first to see.
LEMMA CheckStep == HealthInv /\ CheckConnectionHealth => HealthInv'
<1> SUFFICES ASSUME HealthInv, CheckConnectionHealth PROVE HealthInv'
  OBVIOUS
<1> DEFINE now == StatusAt(age["tick"])
<1>1. TypeOK
  BY DEF HealthInv
<1>2. /\ status' = [f \in Feeds |-> StatusAt(age[f])] /\ status'["tick"] = now
      /\ event' = [f \in Feeds |-> Logged(status[f], StatusAt(age[f]), event[f])]
      /\ connection' = SyncConnection(now) /\ market' = SyncMarket(now)
      /\ memory' = (IF ClearsMemory(now) THEN <<>> ELSE memory)
      /\ era' = EraAfter(now) /\ exposed' = exposed
      /\ age' = age /\ liquidity' \in BOOLEAN
  BY DEF CheckConnectionHealth, Feeds
<1>3. \A f \in Feeds :
        /\ status'[f] \in Statuses
        /\ status'[f] = "HEALTHY" => age[f] # Never
        /\ status'[f] = "STALE" => age[f] >= Stall
        /\ status'[f] = "DISCONNECTED" => age[f] = Never \/ age[f] >= Disconnect
  BY <1>2, Evaluation
<1>4. /\ SyncConnection(now) \in {"CONNECTING", "CONNECTED", "DISCONNECTED"}
      /\ SyncMarket(now) \in {"WAITING", "OPEN"}
      /\ PriceKnown <=> SyncMarket(now) = "OPEN"
      /\ PriceKnown => SyncConnection(now) = IF now = "DISCONNECTED"
                                             THEN "DISCONNECTED" ELSE "CONNECTED"
  BY EvaluatedLabels
<1>5. \A f \in Feeds :
        /\ event'[f] \in Events
        /\ status'[f] = "HEALTHY" => event'[f] \in {"connected", "resumed"}
        /\ f = "dom" /\ status'[f] = "STALE" => event'[f] = "stalled"
        /\ f = "dom" /\ status'[f] = "DISCONNECTED" => event'[f] \in {"lost", "none"}
  BY <1>2, EvaluatedEvents
<1>6. /\ memory' \in Seq(0..era') /\ Len(memory') <= Capacity
      /\ era' \in Nat /\ exposed' \in SUBSET (1..era')
      /\ \A i \in DOMAIN memory' : \A d \in (memory'[i] + 1)..era' : d \in exposed'
  <2>1. /\ era \in Nat /\ era' \in Nat /\ era <= era'
        /\ ~Lost(now) => era' = era
    BY <1>2, Eras
  <2>2. exposed' \in SUBSET (1..era')
    BY <1>1, <1>2, <2>1 DEF TypeOK
  <2>3. CASE ClearsMemory(now)
    <3>1. memory' = <<>>
      BY <1>2, <2>3
    <3>2. memory' \in Seq(0..era') /\ Len(memory') = 0 /\ DOMAIN memory' = {}
      BY <3>1
    <3> QED
      BY <2>1, <2>2, <3>2, Thresholds
  <2>4. CASE ~ClearsMemory(now)
    <3>1. ~Lost(now)
      BY <2>4 DEF ClearsMemory, Lost
    <3>2. memory' = memory /\ era' = era
      BY <1>2, <2>1, <2>4, <3>1
    <3> QED
      BY <1>1, <1>2, <2>1, <2>2, <3>2 DEF HealthInv, TypeOK, StaleIsExposed
  <2> QED
    BY <2>3, <2>4
<1> HIDE DEF now
<1>7. TypeOK'
  <2>1. status' \in [Feeds -> Statuses] /\ event' \in [Feeds -> Events]
    BY <1>2, <1>3, <1>5
  <2> QED
    BY <1>1, <1>2, <1>4, <1>6, <2>1 DEF CheckConnectionHealth, TypeOK
<1>8. StatusLags'
  BY <1>2, <1>3 DEF StatusLags
<1>9. LabelsAgree'
  BY <1>2, <1>4 DEF LabelsAgree, PriceKnown
<1>10. EventsTellStatus'
  BY <1>5 DEF EventsTellStatus, Feeds
<1>11. StaleIsExposed'
  BY <1>6 DEF StaleIsExposed
<1> QED
  BY <1>7, <1>8, <1>9, <1>10, <1>11 DEF HealthInv

\* A frame that is the first to see a disconnect exposes it.
LEMMA SnapshotStep == HealthInv /\ Snapshot => HealthInv'
<1> SUFFICES ASSUME HealthInv, Snapshot PROVE HealthInv'
  OBVIOUS
<1> DEFINE now == StatusAt(age["tick"])
<1>1. TypeOK
  BY DEF HealthInv
<1>2. /\ status' = [status EXCEPT !["tick"] = now]
      /\ connection' = SyncConnection(now) /\ market' = SyncMarket(now)
      /\ era' = EraAfter(now)
      /\ exposed' = (IF Lost(now) THEN exposed \cup {era + 1} ELSE exposed)
      /\ memory' = Remember(RecordsOfFrame(now), era')
      /\ age' = age /\ event' = event
  BY DEF Snapshot
<1>3. /\ now \in Statuses
      /\ now = "HEALTHY" => age["tick"] # Never /\ status["tick"] = "HEALTHY"
      /\ now = "STALE" => age["tick"] >= Stall
      /\ now = "DISCONNECTED" => age["tick"] = Never \/ age["tick"] >= Disconnect
  BY Evaluation DEF Feeds
<1>4. /\ SyncConnection(now) \in {"CONNECTING", "CONNECTED", "DISCONNECTED"}
      /\ SyncMarket(now) \in {"WAITING", "OPEN"}
      /\ PriceKnown <=> SyncMarket(now) = "OPEN"
      /\ PriceKnown => SyncConnection(now) = IF now = "DISCONNECTED"
                                             THEN "DISCONNECTED" ELSE "CONNECTED"
  BY EvaluatedLabels
<1>5. /\ status' \in [Feeds -> Statuses]
      /\ status'["tick"] = now /\ status'["dom"] = status["dom"]
  BY <1>1, <1>2, <1>3 DEF TypeOK, Feeds
<1>6. /\ memory' \in Seq(0..era') /\ Len(memory') <= Capacity
      /\ era' \in Nat /\ exposed' \in SUBSET (1..era')
      /\ \A i \in DOMAIN memory' : \A d \in (memory'[i] + 1)..era' : d \in exposed'
  <2>1. /\ era \in Nat /\ era' \in Nat /\ era <= era'
        /\ ~Lost(now) => era' = era
        /\ Lost(now) => era' = era + 1
    BY <1>2, Eras
  <2>2. exposed \in SUBSET (1..era)
    BY <1>1 DEF TypeOK
  <2>3. /\ exposed' \in SUBSET (1..era') /\ exposed \subseteq exposed'
        /\ \A d \in (era + 1)..era' : d \in exposed'
    <3>1. CASE Lost(now)
      BY <1>2, <2>1, <2>2, <3>1
    <3>2. CASE ~Lost(now)
      BY <1>2, <2>1, <2>2, <3>2
    <3> QED
      BY <3>1, <3>2
  <2> DEFINE n == RecordsOfFrame(now)
             r == Remember(n, era')
  <2>4. n \in Nat
    BY DEF RecordsOfFrame
  <2> HIDE DEF n
  <2>5. /\ r \in Seq(0..era') /\ Len(r) <= Capacity
        /\ \A i \in DOMAIN r : \A d \in (r[i] + 1)..era' : d \in exposed'
    BY <2>1, <2>3, <2>4, RememberStep
  <2>6. memory' = r
    BY <1>2 DEF n
  <2> QED
    BY <2>1, <2>3, <2>5, <2>6
<1> HIDE DEF now
<1>7. TypeOK'
  BY <1>1, <1>2, <1>4, <1>5, <1>6 DEF Snapshot, TypeOK
<1>8. StatusLags'
  BY <1>2, <1>3, <1>5 DEF HealthInv, StatusLags, Feeds
<1>9. LabelsAgree'
  BY <1>2, <1>4, <1>5 DEF LabelsAgree, PriceKnown
<1>10. EventsTellStatus'
  BY <1>2, <1>3, <1>5 DEF HealthInv, EventsTellStatus, Feeds
<1>11. StaleIsExposed'
  BY <1>6 DEF StaleIsExposed
<1> QED
  BY <1>7, <1>8, <1>9, <1>10, <1>11 DEF HealthInv

LEMMA StopStep == HealthInv /\ Stop => HealthInv'
<1> SUFFICES ASSUME HealthInv, Stop PROVE HealthInv'
  OBVIOUS
<1>1. TypeOK' /\ LabelsAgree'
  BY DEF Stop, HealthInv, TypeOK, LabelsAgree, PriceKnown
<1>2. StatusLags' /\ EventsTellStatus' /\ StaleIsExposed'
  BY DEF Stop, HealthInv, StatusLags, EventsTellStatus, StaleIsExposed
<1> QED
  BY <1>1, <1>2 DEF HealthInv

LEMMA HealthStep == HealthInv /\ [Next]_vars => HealthInv'
<1> SUFFICES ASSUME HealthInv, [Next]_vars PROVE HealthInv'
  OBVIOUS
<1>1. CASE Elapse
  BY <1>1, ElapseStep
<1>2. CASE OnTick
  BY <1>2, OnTickStep
<1>3. CASE OnDom
  BY <1>3, OnDomStep
<1>4. CASE NoMoreTicks
  BY <1>4, LoopStep DEF NoMoreTicks
<1>5. CASE NoMoreDoms
  BY <1>5, LoopStep DEF NoMoreDoms
<1>6. CASE CheckConnectionHealth
  BY <1>6, CheckStep
<1>7. CASE Snapshot
  BY <1>7, SnapshotStep
<1>8. CASE NoFrame
  BY <1>8, LoopStep DEF NoFrame
<1>9. CASE Stop
  BY <1>9, StopStep
<1>10. CASE UNCHANGED vars
  BY <1>10 DEF vars, HealthInv, TypeOK, StatusLags, LabelsAgree, EventsTellStatus,
               StaleIsExposed, PriceKnown
<1> QED
  BY <1>1, <1>2, <1>3, <1>4, <1>5, <1>6, <1>7, <1>8, <1>9, <1>10 DEF Next, Loop

-----------------------------------------------------------------------------
(* The theorems.                                                           *)

\* The types, the lag of a status, and the three properties hold together.
THEOREM HealthHolds == Spec => []HealthInv
<1> QED
  BY Beginning, HealthStep, PTL DEF Spec

\* The state is of its types, whatever the thresholds and the capacity.
THEOREM HealthTypeCorrect == Spec => []TypeOK
<1>1. HealthInv => TypeOK
  BY DEF HealthInv
<1> QED
  BY <1>1, HealthHolds, PTL

\* The labels on the screen agree with the status of the tick feed.
THEOREM LabelsAgreeHolds == Spec => []LabelsAgree
<1>1. HealthInv => LabelsAgree
  BY DEF HealthInv
<1> QED
  BY <1>1, HealthHolds, PTL

\* The event log tells the status of the order book, and of healthy ticks.
THEOREM EventsTellStatusHolds == Spec => []EventsTellStatus
<1>1. HealthInv => EventsTellStatus
  BY DEF HealthInv
<1> QED
  BY <1>1, HealthHolds, PTL

\* What the operator reads never contradicts the status of the feeds.
THEOREM PanelTellsStatusHolds == Spec => []PanelTellsStatus
<1>1. LabelsAgree /\ EventsTellStatus => PanelTellsStatus
  BY DEF PanelTellsStatus
<1> QED
  BY <1>1, LabelsAgreeHolds, EventsTellStatusHolds, PTL

\* Only a disconnect that a frame saw first leaves older records in the memory.
THEOREM StaleIsExposedHolds == Spec => []StaleIsExposed
<1>1. HealthInv => StaleIsExposed
  BY DEF HealthInv
<1> QED
  BY <1>1, HealthHolds, PTL
=============================================================================
