---------------------------- MODULE LibraryProofs ----------------------------
(* What the workers, the request and reply between processes, the producer of *)
(* asynq tasks, the ordered ids and the configuration promise for any number  *)
(* of each, and that the library side by side promises all of it.             *)
EXTENDS MCLibrary, CachesProofs

----------------------------------------------------------------------------
(* OrderedIds: the last key is that of the last id's time or the next one.    *)

GenInv(g) ==
    gen[g].at = "store" =>
        /\ gen[g].key \in {gen[g].asked, gen[g].asked + 1}
        /\ gen[g].alone = TRUE => gen[g].key = NextKey(gen[g].asked)

IdsInv ==
    /\ IdsTypeOK
    /\ lastV7time \in {lastAsked, lastAsked + 1}
    /\ \A g \in Goroutines : GenInv(g)

LEMMA SortKeyIsNat == ASSUME NEW n \in Nanos PROVE SortKey(n) \in Nat
<1> USE OrderedAssumption
<1>1. n \div NanoPerMilli \in Nat /\ (n % NanoPerMilli) \in Nat
  OBVIOUS
<1>2. (n \div NanoPerMilli) * SeqWidth \in Nat
  BY <1>1
<1>3. (n % NanoPerMilli) \div SeqTick \in Nat
  BY <1>1
<1> QED
  BY <1>2, <1>3 DEF SortKey

LEMMA IdsInvInit == IdsInit => IdsInv
BY DEF IdsInit, IdsInv, IdsTypeOK, Gen, GenInv

LEMMA IdsInvStep == IdsInv /\ [IdsNext]_idVars => IdsInv'
<1> SUFFICES ASSUME IdsInv, [IdsNext]_idVars PROVE IdsInv'
  OBVIOUS
<1>1. lastV7time \in Nat /\ lastAsked \in Nat /\ gen \in [Goroutines -> Gen]
  BY DEF IdsInv, IdsTypeOK
<1>2. ASSUME NEW g \in Goroutines, NEW n \in Nanos, Compares(g, n) PROVE IdsInv'
  <2> DEFINE k == SortKey(n)
  <2> DEFINE q == [at |-> "store", asked |-> k, key |-> NextKey(k), alone |-> TRUE]
  <2>1. k \in Nat
    BY SortKeyIsNat
  <2>2. gen' = [gen EXCEPT ![g] = q] /\ UNCHANGED <<lastV7time, lastAsked>>
    BY <1>2 DEF Compares
  <2> HIDE DEF k
  <2>3. NextKey(k) \in Nat /\ NextKey(k) \in {k, k + 1}
    BY <1>1, <2>1 DEF NextKey
  <2>4. q \in Gen
    BY <2>1, <2>3 DEF Gen
  <2>5. gen' \in [Goroutines -> Gen]
    BY <1>1, <2>2, <2>4
  <2>6. ASSUME NEW h \in Goroutines PROVE GenInv(h)'
    <3>1. CASE h = g
      <4>1. gen'[h] = q
        BY <1>1, <2>2, <3>1
      <4>2. NextKey(k)' = NextKey(k)
        BY <2>2 DEF NextKey, k
      <4> QED
        BY <2>2, <2>3, <4>1 DEF GenInv, NextKey
    <3>2. CASE h # g
      <4>1. gen'[h] = gen[h]
        BY <1>1, <2>2, <3>2
      <4> QED
        BY <2>2, <4>1 DEF IdsInv, GenInv, NextKey
    <3> QED
      BY <3>1, <3>2
  <2> QED
    BY <2>2, <2>5, <2>6 DEF IdsInv, IdsTypeOK
<1>3. ASSUME NEW g \in Goroutines, Stores(g) PROVE IdsInv'
  <2>1. /\ gen[g] \in Gen /\ gen[g].at = "store"
        /\ lastV7time' = gen[g].key /\ lastAsked' = gen[g].asked
    BY <1>1, <1>3 DEF Stores
  <2>2. gen[g].key \in Nat /\ gen[g].asked \in Nat
    BY <2>1 DEF Gen
  <2>3. lastV7time' \in {lastAsked', lastAsked' + 1}
    BY <2>1 DEF IdsInv, GenInv
  <2>4. ASSUME NEW h \in Goroutines
        PROVE  gen'[h] \in Gen /\ GenInv(h)'
    <3>1. CASE h = g
      <4>1. gen'[h] = [gen[g] EXCEPT !.at = "idle"]
        BY <1>3, <3>1 DEF Stores
      <4> QED
        BY <2>1, <4>1 DEF Gen, GenInv
    <3>2. CASE h # g
      <4>1. gen'[h] = [gen[h] EXCEPT !.alone = FALSE] /\ gen[h] \in Gen
        BY <1>1, <1>3, <3>2 DEF Stores
      <4>2. /\ gen'[h] \in Gen /\ gen'[h].at = gen[h].at /\ gen'[h].key = gen[h].key
            /\ gen'[h].asked = gen[h].asked /\ gen'[h].alone = FALSE
        BY <4>1 DEF Gen
      <4> QED
        BY <4>2 DEF IdsInv, GenInv
    <3> QED
      BY <3>1, <3>2
  <2>5. gen' \in [Goroutines -> Gen]
    BY <1>3, <2>4 DEF Stores
  <2> QED
    BY <2>1, <2>2, <2>3, <2>4, <2>5 DEF IdsInv, IdsTypeOK
<1>4. CASE UNCHANGED idVars
  BY <1>4 DEF IdsInv, IdsTypeOK, GenInv, NextKey, idVars
<1> QED
  BY <1>2, <1>3, <1>4 DEF IdsNext

\* An id that no other call came in between has a key apart from the last one's,
\* and a greater one if its time is later (uuid/uuid.go 123-140).
THEOREM IdsOrdered == IdsSpec => []OrderedUnlessOverlapped
<1>1. IdsInv => OrderedUnlessOverlapped
  <2> SUFFICES ASSUME IdsInv, NEW g \in Goroutines, gen[g].at = "store", gen[g].alone
               PROVE  gen[g].key # lastV7time /\ (gen[g].asked > lastAsked => gen[g].key > lastV7time)
    BY DEF OrderedUnlessOverlapped
  <2>1. gen[g].alone \in BOOLEAN /\ gen[g].asked \in Nat /\ lastV7time \in Nat /\ lastAsked \in Nat
    BY DEF IdsInv, IdsTypeOK, Gen
  <2>2. gen[g].alone = TRUE
    BY <2>1, Zenon
  <2>3. gen[g].key = NextKey(gen[g].asked)
    BY <2>2 DEF IdsInv, GenInv
  <2>4. lastV7time \in {lastAsked, lastAsked + 1}
    BY DEF IdsInv
  <2> QED
    BY <2>1, <2>3, <2>4 DEF NextKey
<1> QED
  BY <1>1, IdsInvInit, IdsInvStep, PTL DEF IdsSpec

----------------------------------------------------------------------------
(* Workers: a run that holds a name was allowed to by a leadership, and no    *)
(* two instances lead in one term.                                            *)

RunType == [at : RunStages, term : 0 .. MaxTerms, err : BOOLEAN]

Leading(r) == run[r].at \in {"leads", "running", "counted", "over"}

WorkersTyped ==
    /\ run \in [Runs -> RunType]
    /\ locks \in [Instances -> SUBSET Names]
    /\ term \in 0 .. MaxTerms

Exclusive ==
    \A r, s \in Runs : Busy(r) /\ Busy(s) /\ SameName(r, s) /\ r[1] = s[1] => r = s

InTerm(r) == Leading(r) => run[r].term <= term /\ (run[r].term = term => leader = r[1])

Apart ==
    \A r, s \in Runs : Leading(r) /\ Leading(s) /\ r[1] # s[1] => run[r].term # run[s].term

WorkersInv ==
    /\ WorkersTyped
    /\ LocksAreHeld /\ Exclusive /\ Apart
    /\ \A r \in Runs : InTerm(r)

LEMMA RunParts ==
    ASSUME NEW r \in Runs
    PROVE  r[1] \in Instances /\ r[2] \in WorkerIds /\ NameOf[r[2]] \in Names
BY WorkersAssumption DEF Runs

LEMMA NoRunType == NoRun \in RunType /\ NoRun.at = "none"
BY WorkersAssumption DEF NoRun, RunType, RunStages

LEMMA WorkersInvInit == WorkersInit => WorkersInv
<1> SUFFICES ASSUME WorkersInit PROVE WorkersInv
  OBVIOUS
<1>1. \A r \in Runs : run[r] = NoRun /\ ~ Leading(r) /\ ~ Busy(r)
  BY NoRunType DEF WorkersInit, Leading, Busy
<1>2. WorkersTyped
  BY NoRunType, WorkersAssumption DEF WorkersInit, WorkersTyped
<1>3. LocksAreHeld
  BY <1>1 DEF LocksAreHeld, WorkersInit
<1> QED
  BY <1>1, <1>2, <1>3 DEF WorkersInv, Exclusive, Apart, InTerm

\* A step after which no run holds what it did not hold, nor leads that did not.
LEMMA StageStep ==
    ASSUME WorkersInv, UNCHANGED <<locks, leader, term>>, run' \in [Runs -> RunType],
           \A r \in Runs : /\ Busy(r)' <=> Busy(r)
                           /\ Leading(r)' => Leading(r) /\ run'[r].term = run[r].term
    PROVE  WorkersInv'
<1>1. LocksAreHeld'
  BY DEF WorkersInv, LocksAreHeld
<1>2. Exclusive'
  BY DEF WorkersInv, Exclusive, SameName
<1>3. Apart'
  BY DEF WorkersInv, Apart
<1>4. \A r \in Runs : InTerm(r)'
  BY DEF WorkersInv, InTerm
<1>5. WorkersTyped'
  BY DEF WorkersInv, WorkersTyped
<1> QED
  BY <1>1, <1>2, <1>3, <1>4, <1>5 DEF WorkersInv

LEMMA AtStep ==
    ASSUME WorkersInv, NEW r \in Runs, NEW q \in RunType, run' = [run EXCEPT ![r] = q],
           UNCHANGED <<locks, leader, term>>,
           (q.at \in {"running", "counted", "over"}) <=> Busy(r),
           q.at \in {"leads", "running", "counted", "over"} => Leading(r) /\ q.term = run[r].term
    PROVE  WorkersInv'
<1>1. run' \in [Runs -> RunType] /\ run'[r] = q
  BY DEF WorkersInv, WorkersTyped
<1>2. \A s \in Runs : s # r => run'[s] = run[s]
  BY DEF WorkersInv, WorkersTyped
<1>3. ASSUME NEW s \in Runs
      PROVE  /\ Busy(s)' <=> Busy(s)
             /\ Leading(s)' => Leading(s) /\ run'[s].term = run[s].term
  <2>1. CASE s = r
    BY <1>1, <2>1 DEF Busy, Leading
  <2>2. CASE s # r
    BY <1>2, <2>2 DEF Busy, Leading
  <2> QED
    BY <2>1, <2>2
<1> QED
  BY <1>1, <1>3, StageStep

LEMMA LifeStep ==
    ASSUME WorkersInv, NEW i \in Instances,
           \/ NewRunner(i) \/ RunnerRuns(i) \/ SchedulerStarts(i) \/ RunnerStops(i)
           \/ \E w \in WorkerIds : RegisterWorker(i, w)
    PROVE  WorkersInv'
<1>1. UNCHANGED <<locks, leader, term>>
  BY DEF NewRunner, RunnerRuns, SchedulerStarts, RunnerStops, RegisterWorker
<1>2. CASE RunnerStops(i)
  <2>1. run' = [r \in Runs |-> IF r[1] = i /\ run[r].at = "due" THEN NoRun ELSE run[r]]
    BY <1>2 DEF RunnerStops
  <2>2. \A r \in Runs : run'[r] = run[r] \/ (run[r].at = "due" /\ run'[r] = NoRun)
    BY <2>1
  <2>3. run' \in [Runs -> RunType]
    BY <2>1, NoRunType DEF WorkersInv, WorkersTyped
  <2>4. ASSUME NEW r \in Runs
        PROVE  /\ Busy(r)' <=> Busy(r)
               /\ Leading(r)' => Leading(r) /\ run'[r].term = run[r].term
    BY <2>2, NoRunType DEF Busy, Leading
  <2> QED
    BY <1>1, <2>3, <2>4, StageStep
<1>3. CASE ~ RunnerStops(i)
  <2>1. UNCHANGED run
    BY <1>3 DEF NewRunner, RunnerRuns, SchedulerStarts, RegisterWorker
  <2>2. run' \in [Runs -> RunType]
    BY <2>1 DEF WorkersInv, WorkersTyped
  <2>3. \A r \in Runs : /\ Busy(r)' <=> Busy(r)
                        /\ Leading(r)' => Leading(r) /\ run'[r].term = run[r].term
    BY <2>1 DEF Busy, Leading
  <2> QED
    BY <1>1, <2>2, <2>3, StageStep
<1> QED
  BY <1>2, <1>3

LEMMA DiesStep ==
    ASSUME WorkersInv, NEW i \in Instances, Dies(i)
    PROVE  WorkersInv'
<1>1. run' = [r \in Runs |-> IF r[1] = i THEN NoRun ELSE run[r]] /\ term' = term
      /\ locks' = [locks EXCEPT ![i] = {}]
      /\ leader' = IF leader = i THEN NoInstance ELSE leader
  BY DEF Dies
<1>2. WorkersTyped'
  BY <1>1, NoRunType DEF WorkersInv, WorkersTyped
<1>3. \A r \in Runs : r[1] = i => ~ Busy(r)' /\ ~ Leading(r)'
  BY <1>1, NoRunType DEF Busy, Leading
<1>4. \A r \in Runs : r[1] # i => run'[r] = run[r]
  BY <1>1
<1>5. \A r \in Runs : r[1] # i => (Busy(r)' <=> Busy(r)) /\ (Leading(r)' <=> Leading(r))
  BY <1>4 DEF Busy, Leading
<1>6. LocksAreHeld'
  <2> SUFFICES ASSUME NEW j \in Instances, NEW n \in Names
               PROVE  n \in locks'[j] <=> \E r \in Runs : r[1] = j /\ NameOf[r[2]] = n /\ Busy(r)'
    BY DEF LocksAreHeld
  <2>1. CASE j = i
    BY <1>1, <1>3, <2>1 DEF WorkersInv, WorkersTyped
  <2>2. CASE j # i
    <3>1. locks'[j] = locks[j]
      BY <1>1, <2>2 DEF WorkersInv, WorkersTyped
    <3> QED
      BY <1>5, <2>2, <3>1 DEF WorkersInv, LocksAreHeld
  <2> QED
    BY <2>1, <2>2
<1>7. Exclusive'
  BY <1>3, <1>5 DEF WorkersInv, Exclusive, SameName
<1>8. Apart'
  BY <1>3, <1>4, <1>5 DEF WorkersInv, Apart
<1>9. ASSUME NEW r \in Runs PROVE InTerm(r)'
  BY <1>1, <1>3, <1>4, <1>5 DEF WorkersInv, InTerm
<1> QED
  BY <1>2, <1>6, <1>7, <1>8, <1>9 DEF WorkersInv

LEMMA ElectStep == WorkersInv /\ Elect => WorkersInv'
<1> SUFFICES ASSUME WorkersInv, Elect PROVE WorkersInv'
  OBVIOUS
<1>1. term' = term + 1 /\ term < MaxTerms /\ UNCHANGED <<locks, run>> /\ term \in 0 .. MaxTerms
  BY DEF Elect, WorkersInv, WorkersTyped
<1>2. WorkersTyped'
  BY <1>1, WorkersAssumption DEF WorkersInv, WorkersTyped
<1>3. LocksAreHeld' /\ Exclusive' /\ Apart'
  BY <1>1 DEF WorkersInv, LocksAreHeld, Exclusive, Apart, SameName, Busy, Leading
<1>4. ASSUME NEW r \in Runs PROVE InTerm(r)'
  <2>1. run[r].term \in Nat /\ term \in Nat
    BY DEF WorkersInv, WorkersTyped, RunType
  <2>2. Leading(r) => run[r].term <= term
    BY DEF WorkersInv, InTerm
  <2>3. Leading(r)' => run'[r].term < term'
    BY <1>1, <2>1, <2>2 DEF Leading
  <2> QED
    BY <1>1, <2>1, <2>3 DEF InTerm
<1> QED
  BY <1>2, <1>3, <1>4 DEF WorkersInv

LEMMA AsksStep ==
    ASSUME WorkersInv, NEW r \in Runs, AsksIfLeader(r)
    PROVE  WorkersInv'
<1>1. UNCHANGED <<locks, leader, term>> /\ run[r].at = "due"
  BY DEF AsksIfLeader
<1>2. CASE leader # r[1]
  <2>1. run' = [run EXCEPT ![r] = NoRun]
    BY <1>2 DEF AsksIfLeader
  <2> QED
    BY <1>1, <2>1, NoRunType, AtStep DEF Busy
<1>3. CASE leader = r[1]
  <2> DEFINE q == [at |-> "leads", term |-> term, err |-> FALSE]
  <2>1. run' = [run EXCEPT ![r] = q]
    BY <1>3 DEF AsksIfLeader
  <2>2. q \in RunType /\ q.at = "leads" /\ q.term = term
    BY DEF RunType, RunStages, WorkersInv, WorkersTyped
  <2> HIDE DEF q
  <2>3. run'[r] = q /\ run' \in [Runs -> RunType] /\ \A s \in Runs : s # r => run'[s] = run[s]
    BY <2>1, <2>2 DEF WorkersInv, WorkersTyped
  <2>4. ~ Busy(r) /\ ~ Busy(r)'
    BY <1>1, <2>2, <2>3 DEF Busy
  <2>5. \A s \in Runs : Busy(s)' <=> Busy(s)
    BY <2>3, <2>4 DEF Busy
  <2>6. \A s \in Runs : s # r => (Leading(s)' <=> Leading(s)) /\ InTerm(s)
    BY <2>3 DEF Leading, WorkersInv
  <2>7. LocksAreHeld' /\ Exclusive'
    BY <1>1, <2>5 DEF WorkersInv, LocksAreHeld, Exclusive, SameName
  <2>8. ASSUME NEW s \in Runs PROVE InTerm(s)'
    <3>1. CASE s = r
      <4>1. term \in Nat
        BY DEF WorkersInv, WorkersTyped
      <4> QED
        BY <1>1, <1>3, <2>2, <2>3, <3>1, <4>1 DEF InTerm
    <3>2. CASE s # r
      BY <1>1, <2>3, <2>6, <3>2 DEF InTerm
    <3> QED
      BY <3>1, <3>2
  <2>9. ASSUME NEW s \in Runs, Leading(s), s[1] # r[1], s # r PROVE run[s].term # term
    BY <1>3, <2>6, <2>9 DEF InTerm
  <2>10. Apart'
    BY <2>2, <2>3, <2>6, <2>9 DEF WorkersInv, Apart
  <2>11. WorkersTyped'
    BY <1>1, <2>3 DEF WorkersInv, WorkersTyped
  <2> QED
    BY <2>7, <2>8, <2>10, <2>11 DEF WorkersInv
<1> QED
  BY <1>2, <1>3

LEMMA TakesStep ==
    ASSUME WorkersInv, NEW r \in Runs, TakesLock(r)
    PROVE  WorkersInv'
<1> DEFINE i == r[1]
<1> DEFINE n == NameOf[r[2]]
<1>1. UNCHANGED <<leader, term>> /\ run[r].at = "leads" /\ i \in Instances /\ n \in Names
  BY RunParts DEF TakesLock
<1>2. CASE n \in locks[i]
  <2>1. run' = [run EXCEPT ![r] = NoRun] /\ UNCHANGED locks
    BY <1>2 DEF TakesLock
  <2> QED
    BY <1>1, <2>1, NoRunType, AtStep DEF Busy
<1>3. CASE n \notin locks[i]
  <2> DEFINE q == [run[r] EXCEPT !.at = "running"]
  <2>1. run' = [run EXCEPT ![r] = q] /\ locks' = [locks EXCEPT ![i] = @ \cup {n}]
    BY <1>3 DEF TakesLock, At, WorkersInv, WorkersTyped, RunType
  <2>2. q \in RunType /\ q.at = "running" /\ q.term = run[r].term
    BY DEF RunType, RunStages, WorkersInv, WorkersTyped
  <2> HIDE DEF q
  <2>3. run'[r] = q /\ run' \in [Runs -> RunType] /\ \A s \in Runs : s # r => run'[s] = run[s]
    BY <2>1, <2>2 DEF WorkersInv, WorkersTyped
  <2>4. Busy(r)' /\ ~ Busy(r) /\ Leading(r) /\ Leading(r)'
    BY <1>1, <2>2, <2>3 DEF Busy, Leading
  <2>5. \A s \in Runs : s # r => (Busy(s)' <=> Busy(s)) /\ (Leading(s)' <=> Leading(s))
    BY <2>3 DEF Busy, Leading
  <2>6. \A s \in Runs : run'[s].term = run[s].term
    BY <2>2, <2>3
  <2>7. locks' \in [Instances -> SUBSET Names] /\ locks'[i] = locks[i] \cup {n}
        /\ \A j \in Instances : j # i => locks'[j] = locks[j]
    BY <1>1, <2>1 DEF WorkersInv, WorkersTyped
  <2>8. \A s \in Runs : s[1] = i /\ NameOf[s[2]] = n => ~ Busy(s)
    BY <1>1, <1>3 DEF WorkersInv, LocksAreHeld
  <2>9. LocksAreHeld'
    <3> SUFFICES ASSUME NEW j \in Instances, NEW m \in Names
                 PROVE  m \in locks'[j] <=> \E s \in Runs : s[1] = j /\ NameOf[s[2]] = m /\ Busy(s)'
      BY DEF LocksAreHeld
    <3>1. m \in locks[j] <=> \E s \in Runs : s[1] = j /\ NameOf[s[2]] = m /\ Busy(s)
      BY DEF WorkersInv, LocksAreHeld
    <3>2. CASE j = i /\ m = n
      BY <2>4, <2>7, <3>2
    <3>3. CASE ~ (j = i /\ m = n)
      <4>1. m \in locks'[j] <=> m \in locks[j]
        BY <2>7, <3>3
      <4>2. \A s \in Runs : s[1] = j /\ NameOf[s[2]] = m => s # r
        BY <3>3
      <4> QED
        BY <2>5, <3>1, <4>1, <4>2
    <3> QED
      BY <3>2, <3>3
  <2>10. Exclusive'
    BY <2>4, <2>5, <2>8 DEF WorkersInv, Exclusive, SameName
  <2>11. Apart'
    BY <2>4, <2>5, <2>6 DEF WorkersInv, Apart
  <2>12. \A s \in Runs : InTerm(s)'
    BY <1>1, <2>4, <2>5, <2>6 DEF WorkersInv, InTerm
  <2>13. WorkersTyped'
    BY <1>1, <2>3, <2>7 DEF WorkersInv, WorkersTyped
  <2> QED
    BY <2>9, <2>10, <2>11, <2>12, <2>13 DEF WorkersInv
<1> QED
  BY <1>2, <1>3

LEMMA UnlocksStep ==
    ASSUME WorkersInv, NEW r \in Runs, Unlocks(r)
    PROVE  WorkersInv'
<1> DEFINE i == r[1]
<1> DEFINE n == NameOf[r[2]]
<1>1. UNCHANGED <<leader, term>> /\ run[r].at = "over" /\ i \in Instances /\ n \in Names
      /\ run' = [run EXCEPT ![r] = NoRun] /\ locks' = [locks EXCEPT ![i] = @ \ {n}]
  BY RunParts DEF Unlocks
<1>2. run'[r] = NoRun /\ run' \in [Runs -> RunType] /\ \A s \in Runs : s # r => run'[s] = run[s]
  BY <1>1, NoRunType DEF WorkersInv, WorkersTyped
<1>3. Busy(r) /\ ~ Busy(r)' /\ ~ Leading(r)'
  BY <1>1, <1>2, NoRunType DEF Busy, Leading
<1>4. \A s \in Runs : s # r => /\ Busy(s)' <=> Busy(s)
                               /\ Leading(s)' <=> Leading(s)
                               /\ run'[s].term = run[s].term
  BY <1>2 DEF Busy, Leading
<1>5. locks' \in [Instances -> SUBSET Names] /\ locks'[i] = locks[i] \ {n}
      /\ \A j \in Instances : j # i => locks'[j] = locks[j]
  BY <1>1 DEF WorkersInv, WorkersTyped
<1>6. \A s \in Runs : s # r /\ s[1] = i /\ NameOf[s[2]] = n => ~ Busy(s)
  BY <1>3 DEF WorkersInv, Exclusive, SameName
<1>7. LocksAreHeld'
  <2> SUFFICES ASSUME NEW j \in Instances, NEW m \in Names
               PROVE  m \in locks'[j] <=> \E s \in Runs : s[1] = j /\ NameOf[s[2]] = m /\ Busy(s)'
    BY DEF LocksAreHeld
  <2>1. m \in locks[j] <=> \E s \in Runs : s[1] = j /\ NameOf[s[2]] = m /\ Busy(s)
    BY DEF WorkersInv, LocksAreHeld
  <2>2. CASE j = i /\ m = n
    BY <1>3, <1>4, <1>5, <1>6, <2>2
  <2>3. CASE ~ (j = i /\ m = n)
    <3>1. m \in locks'[j] <=> m \in locks[j]
      BY <1>5, <2>3
    <3>2. \A s \in Runs : s[1] = j /\ NameOf[s[2]] = m => s # r
      BY <2>3
    <3> QED
      BY <1>4, <2>1, <3>1, <3>2
  <2> QED
    BY <2>2, <2>3
<1>8. Exclusive'
  BY <1>3, <1>4 DEF WorkersInv, Exclusive, SameName
<1>9. Apart'
  BY <1>3, <1>4 DEF WorkersInv, Apart
<1>10. \A s \in Runs : InTerm(s)'
  BY <1>1, <1>3, <1>4 DEF WorkersInv, InTerm
<1>11. WorkersTyped'
  BY <1>1, <1>2, <1>5 DEF WorkersInv, WorkersTyped
<1> QED
  BY <1>7, <1>8, <1>9, <1>10, <1>11 DEF WorkersInv

LEMMA RunStep ==
    ASSUME WorkersInv, NEW r \in Runs, Due(r) \/ RunEnds(r) \/ CountsFailure(r)
    PROVE  WorkersInv'
<1>1. UNCHANGED <<locks, leader, term>>
  BY DEF Due, RunEnds, CountsFailure
<1>2. run \in [Runs -> RunType] /\ run[r] \in RunType
  BY DEF WorkersInv, WorkersTyped
<1>3. CASE Due(r)
  <2> DEFINE q == [run[r] EXCEPT !.at = "due"]
  <2>1. run' = [run EXCEPT ![r] = q] /\ run[r].at = "none"
    BY <1>2, <1>3 DEF Due, At, RunType
  <2>2. q \in RunType /\ q.at = "due"
    BY <1>2 DEF RunType, RunStages
  <2> HIDE DEF q
  <2> QED
    BY <1>1, <2>1, <2>2, AtStep DEF Busy
<1>4. CASE RunEnds(r)
  <2>1. PICK e \in BOOLEAN : run' = [run EXCEPT ![r].at = "counted", ![r].err = e]
    BY <1>4 DEF RunEnds
  <2> DEFINE q == [run[r] EXCEPT !.at = "counted", !.err = e]
  <2>2. run' = [run EXCEPT ![r] = q] /\ run[r].at = "running"
    BY <1>2, <1>4, <2>1 DEF RunEnds, RunType
  <2>3. q \in RunType /\ q.at = "counted" /\ q.term = run[r].term
    BY <1>2 DEF RunType, RunStages
  <2> HIDE DEF q
  <2> QED
    BY <1>1, <2>2, <2>3, AtStep DEF Busy, Leading
<1>5. CASE CountsFailure(r)
  <2> DEFINE q == [run[r] EXCEPT !.at = "over"]
  <2>1. run' = [run EXCEPT ![r] = q] /\ run[r].at = "counted"
    BY <1>2, <1>5 DEF CountsFailure, At, RunType
  <2>2. q \in RunType /\ q.at = "over" /\ q.term = run[r].term
    BY <1>2 DEF RunType, RunStages
  <2> HIDE DEF q
  <2> QED
    BY <1>1, <2>1, <2>2, AtStep DEF Busy, Leading
<1> QED
  BY <1>3, <1>4, <1>5

LEMMA WorkersInvStep == WorkersInv /\ [WorkersNext]_workersVars => WorkersInv'
<1> SUFFICES ASSUME WorkersInv, [WorkersNext]_workersVars PROVE WorkersInv'
  OBVIOUS
<1>1. CASE UNCHANGED workersVars
  BY <1>1 DEF WorkersInv, WorkersTyped, LocksAreHeld, Exclusive, Apart, InTerm, SameName, Busy,
              Leading, workersVars
<1>2. ASSUME NEW i \in Instances, Crash(i) \/ \E w \in WorkerIds : RegisterPanics(i, w)
      PROVE  WorkersInv'
  BY <1>2, DiesStep DEF Crash, RegisterPanics
<1> QED
  BY <1>1, <1>2, ElectStep, LifeStep, RunStep, AsksStep, TakesStep, UnlocksStep DEF WorkersNext

\* Runs of one name overlap on instances that led in different terms at most:
\* the name keeps them apart on one instance, and within a term only one
\* instance may begin one (workers/locker.go 69-90).
THEOREM OverlapsNeedElection == WorkersSpec => []OverlapNeedsElection
<1>1. WorkersInv => OverlapNeedsElection
  <2>1. \A r \in Runs : Busy(r) => Leading(r)
    BY DEF Busy, Leading
  <2> QED
    BY <2>1 DEF WorkersInv, OverlapNeedsElection, Exclusive, Apart
<1> QED
  BY <1>1, WorkersInvInit, WorkersInvStep, PTL DEF WorkersSpec

\* No lock stays behind a run that is over, and no run that holds one is
\* without it (workers/locker.go 73-87).
THEOREM LocksHeld == WorkersSpec => []LocksAreHeld
<1>1. WorkersInv => LocksAreHeld
  BY DEF WorkersInv
<1> QED
  BY <1>1, WorkersInvInit, WorkersInvStep, PTL DEF WorkersSpec

\* A step after which the same runs are busy for the same terms.
LEMMA RunsKept ==
    ASSUME UNCHANGED term, \A r \in Runs : /\ Busy(r)' <=> Busy(r)
                                           /\ Busy(r) => run'[r].term = run[r].term
    PROVE  UNCHANGED <<term, UnderWay>>
<1>1. \A r \in Runs : Busy(r) => Seen(r)' = Seen(r)
  BY DEF Seen
<1> QED
  BY <1>1 DEF UnderWay

LEMMA RunKept ==
    ASSUME WorkersTyped, NEW r \in Runs, NEW q, run' = [run EXCEPT ![r] = q], UNCHANGED term,
           (q.at \in {"running", "counted", "over"}) <=> Busy(r),
           Busy(r) => q.term = run[r].term
    PROVE  UNCHANGED <<term, UnderWay>>
<1>1. run'[r] = q /\ \A s \in Runs : s # r => run'[s] = run[s]
  BY DEF WorkersTyped
<1>2. ASSUME NEW s \in Runs
      PROVE  (Busy(s)' <=> Busy(s)) /\ (Busy(s) => run'[s].term = run[s].term)
  <2>1. CASE s = r
    BY <1>1, <2>1 DEF Busy
  <2>2. CASE s # r
    BY <1>1, <2>2 DEF Busy
  <2> QED
    BY <2>1, <2>2
<1> QED
  BY <1>2, RunsKept

LEMMA SeenParts ==
    \A r \in Runs : /\ Seen(r).id = r /\ Seen(r).on = r[1]
                    /\ Seen(r).name = NameOf[r[2]] /\ Seen(r).term = run[r].term
BY DEF Seen

LEMMA TakesBegins ==
    ASSUME WorkersInv, NEW r \in Runs, TakesLock(r)
    PROVE  [Elected!Next]_<<term, UnderWay>>
<1>1. UNCHANGED term /\ run[r].at = "leads" /\ r[1] \in Instances /\ NameOf[r[2]] \in Names
      /\ WorkersTyped /\ ~ Busy(r) /\ Leading(r)
  BY RunParts DEF TakesLock, WorkersInv, Busy, Leading
<1>2. CASE NameOf[r[2]] \in locks[r[1]]
  BY <1>1, <1>2, NoRunType, RunKept DEF TakesLock
<1>3. CASE NameOf[r[2]] \notin locks[r[1]]
  <2> DEFINE q == [run[r] EXCEPT !.at = "running"]
  <2>1. run' = [run EXCEPT ![r] = q]
    BY <1>3 DEF TakesLock, At, WorkersInv, WorkersTyped, RunType
  <2>2. q.at = "running" /\ q.term = run[r].term
    BY DEF RunType, WorkersInv, WorkersTyped
  <2> HIDE DEF q
  <2>3. run'[r] = q /\ \A s \in Runs : s # r => run'[s] = run[s]
    BY <1>1, <2>1 DEF WorkersTyped
  <2>4. Busy(r)' /\ Seen(r)' = Seen(r)
    BY <2>2, <2>3 DEF Busy, Seen
  <2>5. \A s \in Runs : s # r => (Busy(s)' <=> Busy(s)) /\ Seen(s)' = Seen(s)
    BY <2>3 DEF Busy, Seen
  <2>6. UnderWay' = UnderWay \cup {Seen(r)}
    BY <1>1, <2>4, <2>5 DEF UnderWay
  <2>7. run[r].term \in 0 .. term
    BY <1>1 DEF WorkersInv, WorkersTyped, RunType, InTerm
  <2>8. ASSUME NEW s \in Runs, Busy(s)
        PROVE  s # r /\ IF s[1] = r[1] THEN NameOf[s[2]] # NameOf[r[2]]
                        ELSE run[s].term # run[r].term
    <3>1. s # r /\ Leading(s)
      BY <1>1, <2>8 DEF Busy, Leading
    <3>2. CASE s[1] = r[1]
      BY <1>1, <1>3, <2>8, <3>1, <3>2 DEF WorkersInv, LocksAreHeld
    <3>3. CASE s[1] # r[1]
      BY <1>1, <3>1, <3>3 DEF WorkersInv, Apart
    <3> QED
      BY <3>1, <3>2, <3>3
  <2>9. \A u \in UnderWay : u.id # r /\ IF u.on = r[1] THEN u.name # NameOf[r[2]]
                                        ELSE u.term # run[r].term
    BY <2>8, SeenParts DEF UnderWay
  <2>10. Elected!Begin(r, r[1], NameOf[r[2]], run[r].term)
    BY <1>1, <2>6, <2>9 DEF Elected!Begin, Seen
  <2> QED
    BY <1>1, <2>7, <2>10 DEF Elected!Next
<1> QED
  BY <1>2, <1>3

LEMMA UnlocksEnds ==
    ASSUME WorkersInv, NEW r \in Runs, Unlocks(r)
    PROVE  Elected!Next
<1>1. UNCHANGED term /\ Busy(r) /\ run' = [run EXCEPT ![r] = NoRun] /\ WorkersTyped
  BY DEF Unlocks, Busy, WorkersInv
<1>2. run'[r] = NoRun /\ \A s \in Runs : s # r => run'[s] = run[s]
  BY <1>1 DEF WorkersTyped
<1>3. ~ Busy(r)'
  BY <1>2, NoRunType DEF Busy
<1>4. \A s \in Runs : s # r => (Busy(s)' <=> Busy(s)) /\ Seen(s)' = Seen(s)
  BY <1>2 DEF Busy, Seen
<1>5. \A s \in Runs : s # r => Seen(s) # Seen(r)
  BY SeenParts
<1>6. UnderWay' = UnderWay \ {Seen(r)} /\ Seen(r) \in UnderWay
  BY <1>1, <1>3, <1>4, <1>5 DEF UnderWay
<1> QED
  BY <1>1, <1>6 DEF Elected!Next, Elected!End

LEMMA DiesTogether ==
    ASSUME WorkersInv, NEW i \in Instances, Dies(i)
    PROVE  Elected!Next
<1>1. UNCHANGED term /\ run' = [r \in Runs |-> IF r[1] = i THEN NoRun ELSE run[r]]
  BY DEF Dies
<1>2. \A r \in Runs : IF r[1] = i THEN ~ Busy(r)' ELSE (Busy(r)' <=> Busy(r)) /\ Seen(r)' = Seen(r)
  BY <1>1, NoRunType DEF Busy, Seen
<1>3. UnderWay' = {u \in UnderWay : u.on # i}
  BY <1>2, SeenParts DEF UnderWay
<1> QED
  BY <1>1, <1>3 DEF Elected!Next, Elected!Die

LEMMA ElectedStep ==
    WorkersInv /\ [WorkersNext]_workersVars => [Elected!Next]_<<term, UnderWay>>
<1> SUFFICES ASSUME WorkersInv, [WorkersNext]_workersVars
             PROVE  [Elected!Next]_<<term, UnderWay>>
  OBVIOUS
<1>1. CASE UNCHANGED workersVars
  BY <1>1, RunsKept DEF workersVars, Busy
<1>2. CASE Elect
  BY <1>2 DEF Elect, Elected!Next, Elected!Elect, UnderWay, Seen, Busy
<1>3. ASSUME NEW i \in Instances,
             \/ NewRunner(i) \/ RunnerRuns(i) \/ SchedulerStarts(i)
             \/ \E w \in WorkerIds : RegisterWorker(i, w)
      PROVE  UNCHANGED <<term, UnderWay>>
  BY <1>3, RunsKept DEF NewRunner, RunnerRuns, SchedulerStarts, RegisterWorker, Busy
<1>4. ASSUME NEW i \in Instances, RunnerStops(i) PROVE UNCHANGED <<term, UnderWay>>
  <2>1. UNCHANGED term
        /\ run' = [r \in Runs |-> IF r[1] = i /\ run[r].at = "due" THEN NoRun ELSE run[r]]
    BY <1>4 DEF RunnerStops
  <2>2. \A r \in Runs : run'[r] = run[r] \/ (run[r].at = "due" /\ run'[r] = NoRun)
    BY <2>1
  <2> QED
    BY <2>1, <2>2, NoRunType, RunsKept DEF Busy
<1>5. ASSUME NEW i \in Instances, Crash(i) \/ \E w \in WorkerIds : RegisterPanics(i, w)
      PROVE  Elected!Next
  BY <1>5, DiesTogether DEF Crash, RegisterPanics
<1>6. ASSUME NEW r \in Runs, Due(r) \/ AsksIfLeader(r) PROVE UNCHANGED <<term, UnderWay>>
  <2>1. UNCHANGED term /\ ~ Busy(r) /\ WorkersTyped
    BY <1>6 DEF Due, AsksIfLeader, Busy, WorkersInv
  <2>2. PICK q : run' = [run EXCEPT ![r] = q] /\ q.at \in {"due", "leads", "none"}
    <3>1. CASE Due(r)
      <4>1. run' = [run EXCEPT ![r] = [run[r] EXCEPT !.at = "due"]]
            /\ [run[r] EXCEPT !.at = "due"].at = "due"
        BY <2>1, <3>1 DEF Due, At, WorkersTyped, RunType
      <4> QED
        BY <4>1
    <3>2. CASE AsksIfLeader(r)
      <4> DEFINE q == IF leader = r[1] THEN [at |-> "leads", term |-> term, err |-> FALSE]
                      ELSE NoRun
      <4>1. run' = [run EXCEPT ![r] = q]
        BY <3>2 DEF AsksIfLeader
      <4>2. q.at \in {"due", "leads", "none"}
        BY NoRunType
      <4> HIDE DEF q
      <4> QED
        BY <4>1, <4>2
    <3> QED
      BY <1>6, <3>1, <3>2
  <2> QED
    BY <2>1, <2>2, RunKept
<1>7. ASSUME NEW r \in Runs, RunEnds(r) \/ CountsFailure(r) PROVE UNCHANGED <<term, UnderWay>>
  <2>1. UNCHANGED term /\ Busy(r) /\ WorkersTyped /\ run[r] \in RunType
    BY <1>7 DEF RunEnds, CountsFailure, Busy, WorkersInv, WorkersTyped
  <2>2. PICK q : /\ run' = [run EXCEPT ![r] = q]
                 /\ q.at \in {"counted", "over"} /\ q.term = run[r].term
    <3>1. CASE RunEnds(r)
      <4>1. PICK e \in BOOLEAN : run' = [run EXCEPT ![r].at = "counted", ![r].err = e]
        BY <3>1 DEF RunEnds
      <4> DEFINE q == [run[r] EXCEPT !.at = "counted", !.err = e]
      <4>2. run' = [run EXCEPT ![r] = q] /\ q.at = "counted" /\ q.term = run[r].term
        BY <2>1, <4>1 DEF WorkersTyped, RunType
      <4> HIDE DEF q
      <4> QED
        BY <4>2
    <3>2. CASE CountsFailure(r)
      <4> DEFINE q == [run[r] EXCEPT !.at = "over"]
      <4>1. run' = [run EXCEPT ![r] = q] /\ q.at = "over" /\ q.term = run[r].term
        BY <2>1, <3>2 DEF CountsFailure, At, WorkersTyped, RunType
      <4> HIDE DEF q
      <4> QED
        BY <4>1
    <3> QED
      BY <1>7, <3>1, <3>2
  <2> QED
    BY <2>1, <2>2, RunKept
<1> QED
  BY <1>1, <1>2, <1>3, <1>4, <1>5, <1>6, <1>7, TakesBegins, UnlocksEnds DEF WorkersNext

\* The workers implement ElectedRun: a run begins when none of its name is under
\* way on its instance and none of its term on another, although the lock asks
\* for the leadership before it takes its mutex, and only its own end or that
\* of its instance ends it (workers/locker.go 69-90).
THEOREM RunsAreElected == WorkersSpec => Elected!Spec
<1>1. WorkersInit => Elected!Init
  <2> SUFFICES ASSUME WorkersInit PROVE Elected!Init
    OBVIOUS
  <2>1. \A r \in Runs : ~ Busy(r)
    BY NoRunType DEF WorkersInit, Busy
  <2> QED
    BY <2>1 DEF WorkersInit, Elected!Init, UnderWay
<1> QED
  BY <1>1, WorkersInvInit, WorkersInvStep, ElectedStep, PTL DEF WorkersSpec, Elected!Spec

\* A run whose execution is counted and whose failure may yet be.
Outstanding(i, n) == \E r \in Runs : r[1] = i /\ NameOf[r[2]] = n /\ run[r].at = "counted"

NoMoreFailures(i, n) ==
    failures[i][n] + (IF Outstanding(i, n) THEN 1 ELSE 0) <= executions[i][n]

LifeTyped ==
    /\ runner \in [Instances -> {"none", "new", "refused", "waiting", "started", "stopped"}]
    /\ jobs \in [Instances -> SUBSET WorkerIds]
    /\ leader \in Instances \cup {NoInstance}
    /\ runsBegun \in 0 .. MaxRuns

CountsInv ==
    /\ LifeTyped
    /\ executions \in [Instances -> [Names -> Nat]]
    /\ failures \in [Instances -> [Names -> Nat]]
    /\ \A i \in Instances : \A n \in Names : NoMoreFailures(i, n)

LEMMA CountsInvInit == WorkersInit => CountsInv
<1> SUFFICES ASSUME WorkersInit PROVE CountsInv
  OBVIOUS
<1>1. LifeTyped
  BY WorkersAssumption DEF WorkersInit, LifeTyped
<1>2. \A i, n : ~ Outstanding(i, n)
  BY NoRunType DEF WorkersInit, Outstanding
<1> QED
  BY <1>1, <1>2 DEF WorkersInit, CountsInv, NoMoreFailures

\* A step that counts nothing and after which no run is about to.
LEMMA CountsKept ==
    ASSUME CountsInv, LifeTyped', UNCHANGED <<executions, failures>>,
           \A r \in Runs : run'[r].at = "counted" => run[r].at = "counted"
    PROVE  CountsInv'
<1>1. \A i, n : Outstanding(i, n)' => Outstanding(i, n)
  BY DEF Outstanding
<1>2. ASSUME NEW i \in Instances, NEW n \in Names PROVE NoMoreFailures(i, n)'
  <2>1. failures[i][n] \in Nat /\ executions[i][n] \in Nat /\ NoMoreFailures(i, n)
    BY DEF CountsInv
  <2> QED
    BY <1>1, <2>1 DEF NoMoreFailures
<1> QED
  BY <1>2 DEF CountsInv

LEMMA LifeCounts ==
    ASSUME WorkersInv, CountsInv, NEW i \in Instances,
           \/ NewRunner(i) \/ RunnerRuns(i) \/ SchedulerStarts(i) \/ RunnerStops(i)
           \/ \E w \in WorkerIds : RegisterWorker(i, w)
    PROVE  CountsInv'
<1>1. LifeTyped
  BY DEF CountsInv
<1>2. LifeTyped' /\ UNCHANGED <<executions, failures>>
  BY <1>1 DEF LifeTyped, NewRunner, RunnerRuns, SchedulerStarts, RunnerStops, RegisterWorker
<1>3. ASSUME NEW r \in Runs, run'[r].at = "counted" PROVE run[r].at = "counted"
  <2>1. CASE RunnerStops(i)
    <3>1. run'[r] \in {NoRun, run[r]}
      BY <2>1 DEF RunnerStops
    <3> QED
      BY <1>3, <3>1, NoRunType
  <2>2. CASE UNCHANGED run
    BY <1>3, <2>2
  <2> QED
    BY <2>1, <2>2 DEF NewRunner, RunnerRuns, SchedulerStarts, RegisterWorker
<1> QED
  BY <1>2, <1>3, CountsKept

\* An instance that dies has no run and counts from nothing.
LEMMA DiesCounts ==
    ASSUME WorkersInv, CountsInv, NEW i \in Instances, Dies(i)
    PROVE  CountsInv'
<1>1. LifeTyped'
  <2>1. LifeTyped
    BY DEF CountsInv
  <2> QED
    BY <2>1 DEF LifeTyped, Dies
<1>2. /\ executions' = [executions EXCEPT ![i] = [n \in Names |-> 0]]
      /\ failures' = [failures EXCEPT ![i] = [n \in Names |-> 0]]
      /\ \A r \in Runs : run'[r] = IF r[1] = i THEN NoRun ELSE run[r]
  BY DEF Dies
<1>3. /\ executions' \in [Instances -> [Names -> Nat]]
      /\ failures' \in [Instances -> [Names -> Nat]]
  BY <1>2 DEF CountsInv
<1>4. ASSUME NEW j \in Instances, NEW n \in Names PROVE NoMoreFailures(j, n)'
  <2>1. CASE j = i
    <3>1. ~ Outstanding(j, n)'
      BY <1>2, <2>1, NoRunType DEF Outstanding
    <3>2. failures'[j][n] = 0 /\ executions'[j][n] = 0
      BY <1>2, <2>1 DEF CountsInv
    <3> QED
      BY <3>1, <3>2 DEF NoMoreFailures
  <2>2. CASE j # i
    <3>1. Outstanding(j, n)' <=> Outstanding(j, n)
      BY <1>2, <2>2 DEF Outstanding
    <3>2. failures'[j] = failures[j] /\ executions'[j] = executions[j]
      BY <1>2, <2>2 DEF CountsInv
    <3> QED
      BY <3>1, <3>2 DEF CountsInv, NoMoreFailures
  <2> QED
    BY <2>1, <2>2
<1> QED
  BY <1>1, <1>3, <1>4 DEF CountsInv

\* Its lock keeps the runs of a name apart, so that the one that is counted now
\* is the only one of its name that may be outstanding.
LEMMA RunEndsCounts ==
    ASSUME WorkersInv, CountsInv, NEW r \in Runs, RunEnds(r)
    PROVE  CountsInv'
<1> DEFINE i == r[1]
           n == NameOf[r[2]]
<1>1. /\ i \in Instances /\ n \in Names /\ run[r].at = "running"
      /\ executions' = [executions EXCEPT ![i][n] = @ + 1]
      /\ UNCHANGED <<runner, jobs, leader, failures, runsBegun>>
  BY RunParts DEF RunEnds
<1> HIDE DEF i, n
<1>2. executions \in [Instances -> [Names -> Nat]] /\ failures \in [Instances -> [Names -> Nat]]
  BY DEF CountsInv
<1>3. /\ executions' \in [Instances -> [Names -> Nat]]
      /\ executions'[i][n] = executions[i][n] + 1
      /\ \A j \in Instances : \A m \in Names :
            ~ (j = i /\ m = n) => executions'[j][m] = executions[j][m]
  BY <1>1, <1>2
<1>4. \A s \in Runs : s # r => run'[s] = run[s]
  BY DEF RunEnds, WorkersInv, WorkersTyped
<1>5. ~ Outstanding(i, n)
  BY <1>1 DEF Outstanding, WorkersInv, Exclusive, SameName, Busy, i, n
<1>6. ASSUME NEW j \in Instances, NEW m \in Names PROVE NoMoreFailures(j, m)'
  <2>1. failures[j][m] \in Nat /\ executions[j][m] \in Nat /\ NoMoreFailures(j, m)
    BY <1>2 DEF CountsInv
  <2>2. CASE j = i /\ m = n
    BY <1>1, <1>3, <1>5, <2>1, <2>2 DEF NoMoreFailures
  <2>3. CASE ~ (j = i /\ m = n)
    <3>1. Outstanding(j, m)' <=> Outstanding(j, m)
      BY <1>1, <1>4, <2>3 DEF Outstanding, i, n
    <3> QED
      BY <1>1, <1>3, <2>1, <2>3, <3>1 DEF NoMoreFailures
  <2> QED
    BY <2>2, <2>3
<1> QED
  BY <1>1, <1>3, <1>6 DEF CountsInv, LifeTyped

LEMMA FailureCounts ==
    ASSUME WorkersInv, CountsInv, NEW r \in Runs, CountsFailure(r)
    PROVE  CountsInv'
<1> DEFINE i == r[1]
           n == NameOf[r[2]]
<1>1. /\ i \in Instances /\ n \in Names /\ run[r].at = "counted"
      /\ UNCHANGED <<runner, jobs, leader, executions, runsBegun>>
  BY RunParts DEF CountsFailure
<1>2. failures' = IF run[r].err THEN [failures EXCEPT ![i][n] = @ + 1] ELSE failures
  BY DEF CountsFailure
<1> HIDE DEF i, n
<1>3. executions \in [Instances -> [Names -> Nat]] /\ failures \in [Instances -> [Names -> Nat]]
  BY DEF CountsInv
<1>4. /\ failures' \in [Instances -> [Names -> Nat]]
      /\ failures'[i][n] <= failures[i][n] + 1
      /\ \A j \in Instances : \A m \in Names :
            ~ (j = i /\ m = n) => failures'[j][m] = failures[j][m]
  <2>1. failures[i][n] \in Nat
    BY <1>1, <1>3
  <2>2. CASE failures' = [failures EXCEPT ![i][n] = @ + 1]
    BY <1>1, <1>3, <2>1, <2>2
  <2>3. CASE failures' = failures
    BY <1>3, <2>1, <2>3
  <2> QED
    BY <1>2, <2>2, <2>3
<1>5. run'[r].at = "over" /\ \A s \in Runs : s # r => run'[s] = run[s]
  BY DEF CountsFailure, At, WorkersInv, WorkersTyped, RunType
<1>6. Outstanding(i, n) /\ ~ Outstanding(i, n)'
  <2>1. Outstanding(i, n)
    BY <1>1 DEF Outstanding, i, n
  <2>2. \A s \in Runs : s[1] = i /\ NameOf[s[2]] = n /\ run[s].at = "counted" => s = r
    BY <1>1 DEF WorkersInv, Exclusive, SameName, Busy, i, n
  <2>3. \A s \in Runs : s[1] = i /\ NameOf[s[2]] = n => run'[s].at # "counted"
    BY <1>5, <2>2
  <2> QED
    BY <1>1, <2>1, <2>3 DEF Outstanding
<1>7. ASSUME NEW j \in Instances, NEW m \in Names PROVE NoMoreFailures(j, m)'
  <2>1. /\ failures[j][m] \in Nat /\ failures'[j][m] \in Nat /\ executions[j][m] \in Nat
        /\ NoMoreFailures(j, m)
    BY <1>3, <1>4 DEF CountsInv
  <2>2. CASE j = i /\ m = n
    BY <1>1, <1>4, <1>6, <2>1, <2>2 DEF NoMoreFailures
  <2>3. CASE ~ (j = i /\ m = n)
    <3>1. Outstanding(j, m)' <=> Outstanding(j, m)
      BY <1>1, <1>5, <2>3 DEF Outstanding, i, n
    <3> QED
      BY <1>1, <1>4, <2>1, <2>3, <3>1 DEF NoMoreFailures
  <2> QED
    BY <2>2, <2>3
<1> QED
  BY <1>1, <1>3, <1>4, <1>7 DEF CountsInv, LifeTyped

LEMMA CountsInvStep == WorkersInv /\ CountsInv /\ [WorkersNext]_workersVars => CountsInv'
<1> SUFFICES ASSUME WorkersInv, CountsInv, [WorkersNext]_workersVars PROVE CountsInv'
  OBVIOUS
<1>1. LifeTyped
  BY DEF CountsInv
<1>2. CASE UNCHANGED workersVars
  BY <1>1, <1>2, CountsKept DEF LifeTyped, workersVars
<1>3. CASE Elect
  BY <1>1, <1>3, CountsKept DEF LifeTyped, Elect
<1>4. ASSUME NEW r \in Runs, Due(r) \/ AsksIfLeader(r) \/ TakesLock(r) \/ Unlocks(r)
      PROVE  CountsInv'
  <2>1. UNCHANGED <<runner, jobs, leader, executions, failures>>
        /\ (UNCHANGED runsBegun \/ (runsBegun' = runsBegun + 1 /\ runsBegun < MaxRuns))
    BY <1>4 DEF Due, AsksIfLeader, TakesLock, Unlocks
  <2>2. LifeTyped'
    BY <1>1, <2>1, WorkersAssumption DEF LifeTyped
  <2>3. run \in [Runs -> RunType]
    BY DEF WorkersInv, WorkersTyped
  <2>4. (\A s \in Runs : s # r => run'[s] = run[s]) /\ run'[r].at # "counted"
    <3>1. \/ \E e \in {"due", "running"} : run' = [run EXCEPT ![r].at = e]
          \/ \E q : q.at # "counted" /\ run' = [run EXCEPT ![r] = q]
      <4>1. CASE Due(r) \/ Unlocks(r)
        BY <4>1, NoRunType DEF Due, Unlocks, At
      <4>2. CASE AsksIfLeader(r)
        <5> DEFINE q == [at |-> "leads", term |-> term, err |-> FALSE]
        <5>1. q.at # "counted"
          OBVIOUS
        <5>2. run' = [run EXCEPT ![r] = q] \/ run' = [run EXCEPT ![r] = NoRun]
          BY <4>2 DEF AsksIfLeader
        <5> HIDE DEF q
        <5> QED
          BY <5>1, <5>2, NoRunType
      <4>3. CASE TakesLock(r)
        BY <4>3, NoRunType DEF TakesLock, At
      <4> QED
        BY <1>4, <4>1, <4>2, <4>3
    <3> QED
      BY <2>3, <3>1 DEF RunType
  <2> QED
    BY <2>1, <2>2, <2>4, CountsKept
<1>5. ASSUME NEW i \in Instances, Crash(i) \/ \E w \in WorkerIds : RegisterPanics(i, w)
      PROVE  CountsInv'
  BY <1>5, DiesCounts DEF Crash, RegisterPanics
<1> QED
  BY <1>2, <1>3, <1>4, <1>5, LifeCounts, RunEndsCounts, FailureCounts DEF WorkersNext

LEMMA WorkersAreTyped == WorkersInv /\ CountsInv => WorkersTypeOK
BY DEF WorkersInv, WorkersTyped, RunType, CountsInv, LifeTyped, WorkersTypeOK

\* Monitor never shows more failures of a worker's name than executions, although
\* it counts the two one after the other and two workers may share the name
\* (workers/monitor.go): the lock of the name keeps their runs apart.
THEOREM FailuresAreExecutions ==
    WorkersSpec => [](\A i \in Instances : \A n \in Names : failures[i][n] <= executions[i][n])
<1>1. CountsInv => \A i \in Instances : \A n \in Names : failures[i][n] <= executions[i][n]
  BY DEF CountsInv, NoMoreFailures
<1>2. WorkersInv /\ CountsInv /\ [WorkersNext]_workersVars => (WorkersInv /\ CountsInv)'
  BY WorkersInvStep, CountsInvStep
<1> QED
  BY <1>1, <1>2, WorkersInvInit, CountsInvInit, PTL DEF WorkersSpec

----------------------------------------------------------------------------
(* Comms: a reply on its way is what a handler made of the request it is for. *)

CommsInv ==
    /\ CommsTypeOK
    /\ \A s \in Sends : \A n \in DOMAIN replies[s] :
          replies[s][n].of = s /\ replies[s][n] \in handled
    /\ AnswerIsOwn

From(s) == {m.outcome : m \in {n \in handled : n.of = s}}

LEMMA CommsInvInit == CommsInit => CommsInv
<1> SUFFICES ASSUME CommsInit PROVE CommsInv
  OBVIOUS
<1>1. CommsTypeOK
  BY CommsAssumption DEF CommsInit, CommsTypeOK, Sent
<1> QED
  BY <1>1 DEF CommsInit, CommsInv, AnswerIsOwn

LEMMA ListenStep ==
    ASSUME CommsInv, NEW r \in Responders, ListenEnds(r) \/ \E t \in Topics : Listen(r, t)
    PROVE  CommsInv'
<1>1. UNCHANGED <<send, replies, handled>>
  BY DEF ListenEnds, Listen
<1>2. CommsTypeOK'
  <2>1. CASE ListenEnds(r)
    BY <2>1 DEF ListenEnds, CommsInv, CommsTypeOK
  <2>2. ASSUME NEW t \in Topics, Listen(r, t) PROVE CommsTypeOK'
    BY <2>2, CommsAssumption DEF Listen, CommsInv, CommsTypeOK
  <2> QED
    BY <2>1, <2>2
<1> QED
  BY <1>1, <1>2 DEF CommsInv, AnswerIsOwn

LEMMA HandlesStep ==
    ASSUME CommsInv, NEW r \in Responders, NEW o \in Outcomes, Handles(r, o)
    PROVE  CommsInv'
<1> DEFINE s == Head(pending[r])
<1> DEFINE m == [of |-> s, outcome |-> o]
<1>1. pending[r] \in Seq(Sends) /\ pending[r] # <<>>
  BY DEF Handles, CommsInv, CommsTypeOK
<1>2. s \in Sends /\ Tail(pending[r]) \in Seq(Sends)
  BY <1>1
<1>3. handled' = handled \cup {m} /\ UNCHANGED <<send, listen, listens>>
      /\ pending' = [pending EXCEPT ![r] = Tail(pending[r])]
      /\ (replies' = [replies EXCEPT ![s] = Append(replies[s], m)] \/ UNCHANGED replies)
  BY DEF Handles, Responds
<1> HIDE DEF s
<1>4. m \in Reply /\ m.of = s
  BY <1>2 DEF Reply
<1> HIDE DEF m
<1>5. replies \in [Sends -> Seq(Reply)] /\ handled \subseteq Reply
  BY DEF CommsInv, CommsTypeOK
<1>6. replies' \in [Sends -> Seq(Reply)]
  <2>1. Append(replies[s], m) \in Seq(Reply)
    BY <1>2, <1>4, <1>5
  <2> QED
    BY <1>3, <1>5, <2>1
<1>7. CommsTypeOK'
  BY <1>2, <1>3, <1>4, <1>6 DEF CommsInv, CommsTypeOK
<1>8. ASSUME NEW t \in Sends, NEW n \in DOMAIN replies'[t]
      PROVE  replies'[t][n].of = t /\ replies'[t][n] \in handled'
  <2>1. CASE replies'[t] = replies[t]
    BY <1>3, <1>8, <2>1 DEF CommsInv
  <2>2. CASE t = s /\ replies'[t] = Append(replies[s], m)
    <3>1. n \in 1 .. Len(replies[s]) + 1 /\ replies[s] \in Seq(Reply)
      BY <1>2, <1>5, <1>8, <2>2
    <3>2. CASE n = Len(replies[s]) + 1
      <4>1. replies'[t][n] = m
        BY <2>2, <3>1, <3>2
      <4> QED
        BY <1>3, <1>4, <2>2, <4>1
    <3>3. CASE n # Len(replies[s]) + 1
      <4>1. n \in DOMAIN replies[s] /\ replies'[t][n] = replies[s][n]
        BY <2>2, <3>1, <3>3
      <4> QED
        BY <1>2, <1>3, <2>2, <4>1 DEF CommsInv
    <3> QED
      BY <3>2, <3>3
  <2>3. replies'[t] = replies[t] \/ (t = s /\ replies'[t] = Append(replies[s], m))
    BY <1>2, <1>3, <1>5
  <2> QED
    BY <2>1, <2>2, <2>3
<1>9. AnswerIsOwn'
  <2> SUFFICES ASSUME NEW t \in Sends
               PROVE  /\ send[t].of = t
                      /\ send[t].result = "data" => From(t)' \cap {"data", "blank", "empty"} # {}
                      /\ send[t].result = "error" => "error" \in From(t)'
    BY <1>3 DEF AnswerIsOwn, From
  <2>1. From(t) \subseteq From(t)'
    BY <1>3 DEF From
  <2>2. /\ send[t].of = t
        /\ send[t].result = "data" => From(t) \cap {"data", "blank", "empty"} # {}
        /\ send[t].result = "error" => "error" \in From(t)
    BY DEF CommsInv, AnswerIsOwn, From
  <2> QED
    BY <2>1, <2>2
<1> QED
  BY <1>7, <1>8, <1>9 DEF CommsInv

\* A Send that is not over has no answer yet, and its end leaves the others alone.
LEMMA SendStep ==
    ASSUME CommsInv, NEW s \in Sends, NEW q \in Sent, send' = [send EXCEPT ![s] = q],
           replies' = replies \/ replies' = [replies EXCEPT ![s] = <<>>],
           pending' \in [Responders -> Seq(Sends)], UNCHANGED <<listen, handled, listens>>,
           q.of = s,
           q.result = "data" => From(s) \cap {"data", "blank", "empty"} # {},
           q.result = "error" => "error" \in From(s)
    PROVE  CommsInv'
<1>1. send \in [Sends -> Sent] /\ replies \in [Sends -> Seq(Reply)]
  BY DEF CommsInv, CommsTypeOK
<1>2. <<>> \in Seq(Reply)
  OBVIOUS
<1>3. replies' \in [Sends -> Seq(Reply)]
  BY <1>1, <1>2
<1>4. CommsTypeOK'
  BY <1>1, <1>3 DEF CommsInv, CommsTypeOK
<1>5. \A t \in Sends : replies'[t] = replies[t] \/ replies'[t] = <<>>
  BY <1>1
<1>6. \A t \in Sends : \A n \in DOMAIN replies'[t] :
         replies'[t][n].of = t /\ replies'[t][n] \in handled'
  BY <1>5 DEF CommsInv
<1>7. AnswerIsOwn'
  <2> SUFFICES ASSUME NEW t \in Sends
               PROVE  /\ send'[t].of = t
                      /\ send'[t].result = "data" => From(t) \cap {"data", "blank", "empty"} # {}
                      /\ send'[t].result = "error" => "error" \in From(t)
    BY DEF AnswerIsOwn, From
  <2>1. CASE t = s
    BY <1>1, <2>1
  <2>2. CASE t # s
    BY <1>1, <2>2 DEF CommsInv, AnswerIsOwn, From
  <2> QED
    BY <2>1, <2>2
<1> QED
  BY <1>4, <1>6, <1>7 DEF CommsInv

LEMMA SenderStep ==
    ASSUME CommsInv, NEW s \in Sends,
           SendAnswered(s) \/ SendTimesOut(s) \/ \E t \in Topics : SendBegins(s, t)
    PROVE  CommsInv'
<1>1. replies[s] \in Seq(Reply) /\ pending \in [Responders -> Seq(Sends)]
  BY DEF CommsInv, CommsTypeOK
<1>2. CASE SendAnswered(s)
  <2> DEFINE m == Head(replies[s])
  <2> DEFINE q == [at |-> "done", of |-> m.of, result |-> Read(m.outcome)]
  <2>1. replies[s] # <<>> /\ m = replies[s][1] /\ 1 \in DOMAIN replies[s]
    BY <1>1, <1>2 DEF SendAnswered
  <2>2. m \in Reply /\ m.of = s /\ m \in handled
    BY <1>1, <2>1 DEF CommsInv
  <2>3. send' = [send EXCEPT ![s] = q] /\ replies' = [replies EXCEPT ![s] = <<>>]
        /\ UNCHANGED <<pending, listen, handled, listens>>
    BY <1>2 DEF SendAnswered, Back
  <2> HIDE DEF m
  <2>4. m.outcome \in From(s) /\ m.outcome \in Outcomes
    BY <2>2 DEF From, Reply
  <2>5. /\ Read(m.outcome) \in {"unreadable", "error", "data"}
        /\ Read(m.outcome) = "error" => m.outcome = "error"
        /\ Read(m.outcome) = "data" => m.outcome \in {"data", "blank", "empty"}
    BY <2>4 DEF Read, Outcomes
  <2>6. q \in Sent /\ q.of = s /\ q.result = Read(m.outcome)
    BY <2>2, <2>5 DEF Sent
  <2> HIDE DEF q
  <2>7. /\ q.result = "data" => From(s) \cap {"data", "blank", "empty"} # {}
        /\ q.result = "error" => "error" \in From(s)
    BY <2>4, <2>5, <2>6
  <2> QED
    BY <1>1, <2>3, <2>6, <2>7, SendStep
<1>3. CASE SendTimesOut(s)
  <2> DEFINE q == [at |-> "done", of |-> s, result |-> "timeout"]
  <2>1. send' = [send EXCEPT ![s] = q] /\ replies' = [replies EXCEPT ![s] = <<>>]
        /\ UNCHANGED <<pending, listen, handled, listens>>
    BY <1>3 DEF SendTimesOut, Back
  <2>2. q \in Sent /\ q.of = s /\ q.result = "timeout"
    BY DEF Sent
  <2> HIDE DEF q
  <2> QED
    BY <1>1, <2>1, <2>2, SendStep
<1>4. ASSUME NEW t \in Topics, SendBegins(s, t) PROVE CommsInv'
  <2> DEFINE on == {r \in Responders : listen[r] = t}
  <2> DEFINE q == [at |-> IF on = {} THEN "done" ELSE "waiting", of |-> s,
                   result |-> IF on = {} THEN "nobody" ELSE "none"]
  <2>1. send' = [send EXCEPT ![s] = q] /\ UNCHANGED <<listen, replies, handled, listens>>
    BY <1>4 DEF SendBegins
  <2>2. PICK got \in SUBSET on :
           pending' = [r \in Responders |-> IF r \in got THEN Append(pending[r], s) ELSE pending[r]]
    BY <1>4 DEF SendBegins
  <2>3. \A r \in Responders : Append(pending[r], s) \in Seq(Sends)
    BY <1>1
  <2>4. pending' \in [Responders -> Seq(Sends)]
    BY <1>1, <2>2, <2>3
  <2>5. q \in Sent /\ q.of = s /\ q.result \in {"nobody", "none"}
    BY DEF Sent
  <2> HIDE DEF q
  <2> QED
    BY <2>1, <2>4, <2>5, SendStep
<1> QED
  BY <1>2, <1>3, <1>4

LEMMA CommsInvStep == CommsInv /\ [CommsNext]_commsVars => CommsInv'
<1> SUFFICES ASSUME CommsInv, [CommsNext]_commsVars PROVE CommsInv'
  OBVIOUS
<1>1. CASE UNCHANGED commsVars
  BY <1>1 DEF CommsInv, CommsTypeOK, AnswerIsOwn, commsVars
<1> QED
  BY <1>1, ListenStep, HandlesStep, SenderStep DEF CommsNext

\* Send comes back with what a handler made of that request, whoever else
\* answers, stops or is late (comms/sender.go 43-60, comms/responder.go 41-52).
THEOREM AnswersAreOwn == CommsSpec => []AnswerIsOwn
<1>1. CommsInv => AnswerIsOwn
  BY DEF CommsInv
<1> QED
  BY <1>1, CommsInvInit, CommsInvStep, PTL DEF CommsSpec

----------------------------------------------------------------------------
(* AsynqQueue: the id that a push uses.                                       *)

Task == [state : States, body : Jobs \cup {"none"}, queue : NamedQueues, retry : Nat,
         retried : Nat, verdict : {"none", "ok", "retry", "archive", "revoke"}]

\* While a push of a shared job is between its append and the use of it, the
\* room behind the options has its id, or another push has written there.
IdsKept == \A j \in Shared : Between(j) => spare = j \/ j \in overlapped

\* A task is archived before its time on a verdict that was counted.
Marked(id) ==
    /\ task[id].state # "none" => task[id].body \in Jobs
    /\ task[id].verdict = "archive" => "dead" \in observed[id]
    /\ task[id].state = "archived" /\ task[id].retried < task[id].retry => "dead" \in observed[id]

Nowhere(j) ==
    handledOk[j] = "never" /\ stray[j] = 0 /\ \A id \in Jobs : task[id].body # j

\* A job that was pushed once has one task at most, and when its handler has
\* succeeded that task is about to go, unless asynq took it back.
PushedOnce(j) ==
    /\ pushes[j] = 0 => ~ Between(j) /\ Nowhere(j)
    /\ pushes[j] = 1 /\ Between(j) => Nowhere(j)
    /\ stray[j] > 0 => j \in takenBack
    /\ pushes[j] <= 1 => \A a, b \in Jobs : task[a].body = j /\ task[b].body = j => a = b
    /\ pushes[j] <= 1 /\ j \notin takenBack /\ handledOk[j] # "never" =>
          /\ handledOk[j] = "once"
          /\ \A id \in Jobs : task[id].body = j =>
                task[id].state = "judged" /\ task[id].verdict = "ok"

AsynqInv ==
    /\ AsynqTypeOK
    /\ IdsKept /\ OwnIdUnlessShared
    /\ \A j \in Jobs : Marked(j) /\ PushedOnce(j)

LEMMA NoTaskType ==
    NoTask \in Task /\ NoTask.state = "none" /\ NoTask.body = "none" /\ NoTask.verdict = "none"
BY DEF NoTask, Task, States, NamedQueues

LEMMA AsynqInvInit == AsynqInit => AsynqInv
<1> SUFFICES ASSUME AsynqInit PROVE AsynqInv
  OBVIOUS
<1>1. NoTask \in Task /\ NoTask.state = "none" /\ NoTask.body = "none" /\ NoTask.verdict = "none"
  BY NoTaskType
<1>2. AsynqTypeOK
  BY <1>1, AsynqAssumption DEF AsynqInit, AsynqTypeOK, Task
<1>3. IdsKept /\ OwnIdUnlessShared
  BY <1>1, AsynqAssumption DEF AsynqInit, IdsKept, OwnIdUnlessShared, Between
<1>4. \A j \in Jobs : Marked(j) /\ PushedOnce(j)
  BY <1>1, AsynqAssumption DEF AsynqInit, Marked, PushedOnce, Nowhere, Between
<1> QED
  BY <1>2, <1>3, <1>4 DEF AsynqInv

LEMMA AppendsStep ==
    ASSUME AsynqInv, NEW j \in Jobs, PushAppends(j)
    PROVE  AsynqInv'
<1>1. /\ push' = [push EXCEPT ![j] = "appended"] /\ pushes' = [pushes EXCEPT ![j] = @ + 1]
      /\ UNCHANGED <<task, stray, observed, handledOk, takenBack>> /\ ~ Between(j)
  BY DEF PushAppends, Between
<1>2. AsynqTypeOK'
  <2>1. spare' \in Jobs \cup {"none"} /\ overlapped' \subseteq Jobs
    BY AsynqAssumption DEF PushAppends, AsynqInv, AsynqTypeOK
  <2> QED
    BY <1>1, <2>1 DEF AsynqInv, AsynqTypeOK
<1>3. \A k \in Jobs : k # j => (Between(k)' <=> Between(k)) /\ pushes'[k] = pushes[k]
  BY <1>1 DEF AsynqInv, AsynqTypeOK, Between
<1>4. overlapped \subseteq overlapped'
  BY DEF PushAppends
<1>5. IdsKept'
  <2> SUFFICES ASSUME NEW k \in Shared, Between(k)' PROVE spare' = k \/ k \in overlapped'
    BY DEF IdsKept
  <2>1. CASE k = j
    BY <2>1 DEF PushAppends
  <2>2. CASE k # j /\ j \in Shared
    BY <1>3, <2>2, AsynqAssumption DEF PushAppends
  <2>3. CASE k # j /\ j \notin Shared
    BY <1>3, <2>3, AsynqAssumption DEF PushAppends, AsynqInv, IdsKept
  <2> QED
    BY <2>1, <2>2, <2>3
<1>6. OwnIdUnlessShared'
  BY <1>1, <1>4 DEF AsynqInv, OwnIdUnlessShared
<1>7. ASSUME NEW k \in Jobs PROVE Marked(k)' /\ PushedOnce(k)'
  <2>1. Marked(k) /\ PushedOnce(k) /\ pushes[k] \in Nat
    BY DEF AsynqInv, AsynqTypeOK
  <2>2. Marked(k)'
    BY <1>1, <2>1 DEF Marked
  <2>3. CASE k = j
    <3>1. pushes'[k] = pushes[k] + 1
      BY <1>1, <2>3 DEF AsynqInv, AsynqTypeOK
    <3>2. pushes'[k] <= 1 => pushes[k] = 0
      BY <2>1, <3>1
    <3>3. pushes'[k] # 0 /\ (Nowhere(k) => Nowhere(k)')
      BY <1>1, <2>1, <3>1 DEF Nowhere
    <3>4. pushes'[k] = 1 => pushes'[k] <= 1
      OBVIOUS
    <3> QED
      BY <1>1, <2>1, <2>2, <3>2, <3>3, <3>4 DEF PushedOnce, Nowhere
  <2>4. CASE k # j
    BY <1>1, <1>3, <2>1, <2>2, <2>4 DEF PushedOnce, Nowhere
  <2> QED
    BY <2>3, <2>4
<1> QED
  BY <1>2, <1>5, <1>6, <1>7 DEF AsynqInv

\* A push comes to its end, without a task or with one of its job.
LEMMA PushEndsStep ==
    ASSUME AsynqInv, NEW j \in Jobs, Between(j), NEW id \in Jobs, NEW t \in Task, NEW e \in {"done", "error"},
           push' = [push EXCEPT ![j] = e],
           UNCHANGED <<spare, pushes, stray, observed, overlapped, handledOk, takenBack>>,
           \/ UNCHANGED task
           \/ /\ task' = [task EXCEPT ![id] = t]
              /\ t.body = j /\ t.state \in {"scheduled", "pending"} /\ t.verdict = "none"
              /\ j = id \/ j \in overlapped
    PROVE  AsynqInv'
<1>1. task \in [Jobs -> Task] /\ push \in [Jobs -> {"idle", "appended", "done", "error"}]
  BY DEF AsynqInv, AsynqTypeOK, Task
<1>2. AsynqTypeOK'
  BY <1>1 DEF AsynqInv, AsynqTypeOK, Task
<1>3. ~ Between(j)' /\ \A k \in Jobs : k # j => (Between(k)' <=> Between(k))
  BY <1>1 DEF Between
<1>4. IdsKept'
  BY <1>3, AsynqAssumption DEF AsynqInv, IdsKept
<1>5. \A i \in Jobs : task'[i] = task[i] \/ (i = id /\ task'[i] = t)
  BY <1>1
<1>6. \A i \in Jobs : task'[i] = t => t.body = j \/ task'[i] = task[i]
  BY <1>1
<1>7. OwnIdUnlessShared'
  <2> SUFFICES ASSUME NEW i \in Jobs PROVE task'[i].body \in {i, "none"} \cup overlapped
    BY DEF OwnIdUnlessShared
  <2>1. CASE UNCHANGED task
    BY <2>1 DEF AsynqInv, OwnIdUnlessShared
  <2>2. CASE ~ UNCHANGED task
    BY <1>5, <2>2 DEF AsynqInv, OwnIdUnlessShared
  <2> QED
    BY <2>1, <2>2
<1>8. ASSUME NEW i \in Jobs PROVE Marked(i)'
  <2>1. CASE task'[i] = task[i]
    BY <2>1 DEF AsynqInv, Marked
  <2>2. CASE ~ UNCHANGED task /\ i = id /\ task'[i] = t
    BY <2>2 DEF Marked
  <2> QED
    BY <1>5, <2>1, <2>2
<1>9. ASSUME NEW k \in Jobs PROVE PushedOnce(k)'
  <2>1. PushedOnce(k) /\ pushes[k] \in Nat
    BY DEF AsynqInv, AsynqTypeOK
  <2>2. CASE UNCHANGED task
    BY <1>3, <2>1, <2>2 DEF PushedOnce, Nowhere
  <2>3. CASE ~ UNCHANGED task /\ k # j
    <3>1. \A i \in Jobs : task'[i].body = k => task'[i] = task[i]
      BY <1>5, <2>3
    <3> QED
      BY <1>3, <2>1, <2>3, <3>1 DEF PushedOnce, Nowhere
  <2>4. CASE ~ UNCHANGED task /\ k = j
    <3>1. pushes[k] # 0
      BY <2>1, <2>4 DEF PushedOnce
    <3>2. pushes[k] <= 1 => Nowhere(k)
      BY <2>1, <2>4, <3>1 DEF PushedOnce
    <3>3. \A i \in Jobs : i # id => task'[i] = task[i]
      BY <1>5
    <3> QED
      BY <1>3, <2>1, <2>4, <3>1, <3>2, <3>3 DEF PushedOnce, Nowhere
  <2> QED
    BY <2>2, <2>3, <2>4
<1> QED
  BY <1>2, <1>4, <1>7, <1>8, <1>9 DEF AsynqInv

LEMMA EnqueuesStep ==
    ASSUME AsynqInv, NEW j \in Jobs, PushEnqueues(j) \/ PushFails(j)
    PROVE  AsynqInv'
<1> DEFINE id == IdUsed(j)
<1> DEFINE opts == AsynqOpts(OptionsOf[j])
<1> DEFINE t == [state |-> IF opts.later THEN "scheduled" ELSE "pending", body |-> j,
                 queue |-> QueueFromOptions(OptionsOf[j]), retry |-> opts.retry,
                 retried |-> 0, verdict |-> "none"]
<1>1. Between(j) /\ UNCHANGED <<spare, pushes, stray, observed, overlapped, handledOk, takenBack>>
  BY DEF PushEnqueues, PushFails
<1>2. NoTask \in Task
  BY NoTaskType
<1>3. CASE PushFails(j)
  BY <1>1, <1>2, <1>3, PushEndsStep DEF PushFails
<1>4. CASE PushEnqueues(j) /\ task[id].state # "none"
  <2>1. push' = [push EXCEPT ![j] = "error"] /\ UNCHANGED task
    BY <1>4 DEF PushEnqueues
  <2> QED
    BY <1>1, <1>2, <2>1, PushEndsStep
<1>5. CASE PushEnqueues(j) /\ task[id].state = "none"
  <2>1. task' = [task EXCEPT ![id] = t]
    BY <1>5 DEF PushEnqueues
  <2>2. PICK e \in {"done", "error"} : push' = [push EXCEPT ![j] = e]
    BY <1>5 DEF PushEnqueues
  <2>3. t \in Task /\ t.body = j /\ t.state \in {"scheduled", "pending"} /\ t.verdict = "none"
    BY OptionsAssumption DEF Task, States, NamedQueues
  <2> HIDE DEF t
  <2>4. CASE id \in Jobs
    <3>1. j = id \/ j \in overlapped
      BY <1>1 DEF AsynqInv, IdsKept, IdUsed
    <3> QED
      BY <1>1, <2>1, <2>2, <2>3, <2>4, <3>1, PushEndsStep
  <2>5. CASE id \notin Jobs
    <3>1. UNCHANGED task
      BY <2>1, <2>5 DEF AsynqInv, AsynqTypeOK
    <3> QED
      BY <1>1, <1>2, <2>2, <3>1, PushEndsStep
  <2> QED
    BY <2>4, <2>5
<1> QED
  BY <1>3, <1>4, <1>5

\* A success of a job that was pushed once is the first, and its task is judged so.
SucceedsAs(j, t) ==
    j \in Jobs /\ pushes[j] <= 1 /\ j \notin takenBack' /\ handledOk'[j] # "never" =>
        /\ handledOk'[j] = "once"
        /\ t.body = j => t.state = "judged" /\ t.verdict = "ok"

\* A task goes on: it stays the job's, or is gone. What the step must show is
\* what its record and the history say of it.
LEMMA TaskGoes ==
    ASSUME AsynqInv, NEW id \in Jobs, NEW t \in Task, task' = [task EXCEPT ![id] = t],
           UNCHANGED <<push, spare, pushes, overlapped>>,
           t.body \in {task[id].body, "none"}, t.state # "none" => t.body \in Jobs,
           observed' \in [Jobs -> SUBSET {"processed", "errors", "dead", "skip", "reported"}],
           \A i \in Jobs : i # id => observed'[i] = observed[i],
           t.verdict = "archive" => "dead" \in observed'[id],
           t.state = "archived" /\ t.retried < t.retry => "dead" \in observed'[id],
           handledOk' \in [Jobs -> {"never", "once", "again"}],
           takenBack \subseteq takenBack', takenBack' \subseteq Jobs,
           stray' \in [Jobs -> 0 .. MaxStrays],
           \A j \in Jobs : j # task[id].body =>
              handledOk'[j] = handledOk[j] /\ stray'[j] = stray[j],
           \A j \in Jobs : j = task[id].body /\ stray'[j] > 0 => j \in takenBack',
           SucceedsAs(task[id].body, t)
    PROVE  AsynqInv'
<1>1. task \in [Jobs -> Task] /\ "none" \notin Jobs
  BY AsynqAssumption DEF AsynqInv, AsynqTypeOK, Task
<1>2. task'[id] = t /\ \A i \in Jobs : i # id => task'[i] = task[i]
  BY <1>1
<1>3. AsynqTypeOK'
  BY <1>1 DEF AsynqInv, AsynqTypeOK, Task
<1>4. IdsKept'
  BY DEF AsynqInv, IdsKept, Between
<1>5. OwnIdUnlessShared'
  <2> SUFFICES ASSUME NEW i \in Jobs PROVE task'[i].body \in {i, "none"} \cup overlapped
    BY DEF OwnIdUnlessShared
  <2>1. task[i].body \in {i, "none"} \cup overlapped
    BY DEF AsynqInv, OwnIdUnlessShared
  <2> QED
    BY <1>2, <2>1
<1>6. ASSUME NEW i \in Jobs PROVE Marked(i)'
  BY <1>2 DEF AsynqInv, Marked
<1>7. ASSUME NEW j \in Jobs PROVE PushedOnce(j)'
  <2>1. PushedOnce(j) /\ pushes[j] \in Nat
    BY DEF AsynqInv, AsynqTypeOK
  <2>2. \A i \in Jobs : task'[i].body = j => task[i].body = j
    BY <1>1, <1>2
  <2>3. CASE j = task[id].body
    <3>1. ~ Nowhere(j)
      BY <2>3 DEF Nowhere
    <3>2. pushes[j] # 0 /\ ~ (pushes[j] = 1 /\ Between(j))
      BY <2>1, <3>1 DEF PushedOnce
    <3>3. pushes[j] <= 1 => \A i \in Jobs : task'[i].body = j => i = id
      BY <2>1, <2>2, <2>3 DEF PushedOnce
    <3>4. Between(j)' <=> Between(j)
      BY DEF Between
    <3>5. ASSUME pushes[j] <= 1, j \notin takenBack', handledOk'[j] # "never"
          PROVE  /\ handledOk'[j] = "once"
                 /\ \A i \in Jobs : task'[i].body = j =>
                       task'[i].state = "judged" /\ task'[i].verdict = "ok"
      BY <1>2, <2>3, <3>3, <3>5 DEF SucceedsAs
    <3>6. stray'[j] > 0 => j \in takenBack'
      BY <2>3
    <3>7. pushes' = pushes /\ pushes'[j] # 0 /\ ~ (pushes'[j] = 1 /\ Between(j)')
      BY <3>2, <3>4
    <3>8. pushes'[j] <= 1 => \A m, n \in Jobs : task'[m].body = j /\ task'[n].body = j => m = n
      BY <3>3, <3>7
    <3> QED
      BY <3>5, <3>6, <3>7, <3>8 DEF PushedOnce
  <2>4. CASE j # task[id].body
    <3>1. \A i \in Jobs : task'[i].body = j => task'[i] = task[i]
      BY <1>1, <1>2, <2>4
    <3>2. Between(j)' <=> Between(j)
      BY DEF Between
    <3> QED
      BY <2>1, <2>4, <3>1, <3>2 DEF PushedOnce, Nowhere
  <2> QED
    BY <2>3, <2>4
<1> QED
  BY <1>3, <1>4, <1>5, <1>6, <1>7 DEF AsynqInv

LEMMA AsynqParts ==
    ASSUME AsynqInv, NEW id \in Jobs
    PROVE  /\ task[id] \in Task /\ Marked(id)
           /\ observed \in [Jobs -> SUBSET {"processed", "errors", "dead", "skip", "reported"}]
           /\ handledOk \in [Jobs -> {"never", "once", "again"}]
           /\ takenBack \subseteq Jobs /\ stray \in [Jobs -> 0 .. MaxStrays]
           /\ \A j \in Jobs : stray[j] > 0 => j \in takenBack
           /\ \A j \in Jobs : PushedOnce(j)
<1>1. \A j \in Jobs : PushedOnce(j)
  BY DEF AsynqInv
<1>2. \A j \in Jobs : stray[j] > 0 => j \in takenBack
  BY <1>1 DEF PushedOnce
<1> QED
  BY <1>1, <1>2 DEF AsynqInv, AsynqTypeOK, Task

\* asynq takes a task back for another attempt, or archives it.
LEMMA RetriedTask ==
    ASSUME NEW id \in Jobs, task[id] \in Task
    PROVE  /\ Retried(id) \in Task /\ Retried(id).body = task[id].body
           /\ Retried(id).verdict \in {task[id].verdict, "none"}
           /\ Retried(id).state \in {"archived", "pending"}
           /\ Retried(id).state = "archived" => ~ (Retried(id).retried < Retried(id).retry)
<1>1. CASE task[id].retried >= task[id].retry
  BY <1>1 DEF Retried, Task, States
<1>2. CASE ~ (task[id].retried >= task[id].retry)
  <2> DEFINE t == [task[id] EXCEPT !.state = "pending", !.retried = task[id].retried + 1,
                                   !.verdict = "none"]
  <2>1. Retried(id) = t
    BY <1>2 DEF Retried, Task
  <2>2. task[id].retried + 1 \in Nat
    BY DEF Task
  <2>3. t \in Task /\ t.body = task[id].body /\ t.verdict = "none" /\ t.state = "pending"
    BY <2>2 DEF Task, States
  <2> HIDE DEF t
  <2> QED
    BY <2>1, <2>3
<1> QED
  BY <1>1, <1>2

LEMMA QueueStep ==
    ASSUME AsynqInv, NEW id \in Jobs, TaskDue(id) \/ TaskStarts(id)
    PROVE  AsynqInv'
<1>1. PICK st \in {"pending", "active"} : task' = [task EXCEPT ![id] = [task[id] EXCEPT !.state = st]]
  BY DEF TaskDue, TaskStarts, Becomes
<1>2. UNCHANGED <<push, spare, pushes, stray, overlapped, observed, handledOk, takenBack>>
      /\ task[id].state \in {"scheduled", "pending"}
  BY DEF TaskDue, TaskStarts, Becomes
<1> DEFINE t == [task[id] EXCEPT !.state = st]
<1>3. t \in Task /\ t.body = task[id].body /\ t.verdict = task[id].verdict /\ t.state = st
  BY AsynqParts DEF Task, States
<1>4. task' = [task EXCEPT ![id] = t]
  BY <1>1
<1> HIDE DEF t
<1> QED
  <2>1. SucceedsAs(task[id].body, t)
    BY <1>2, AsynqParts DEF SucceedsAs, PushedOnce
  <2>2. /\ t.state # "none" => t.body \in Jobs
        /\ t.verdict = "archive" => "dead" \in observed[id]
    BY <1>2, <1>3, AsynqParts DEF Marked
  <2> QED
    BY <1>2, <1>3, <1>4, <2>1, <2>2, AsynqParts, TaskGoes

LEMMA SettlesStep ==
    ASSUME AsynqInv, NEW id \in Jobs, TaskSettles(id)
    PROVE  AsynqInv'
<1>1. /\ task' = [task EXCEPT ![id] = Settled(id)] /\ task[id].state = "judged"
      /\ UNCHANGED <<push, spare, pushes, stray, overlapped, observed, handledOk, takenBack>>
  BY DEF TaskSettles, Becomes
<1>2. task[id] \in Task /\ Marked(id)
  BY AsynqParts
<1>3. CASE task[id].verdict = "retry"
  <2>1. Settled(id) = Retried(id)
    BY <1>3 DEF Settled
  <2> QED
    <3>1. SucceedsAs(task[id].body, Retried(id))
      BY <1>1, <1>3, AsynqParts DEF SucceedsAs, PushedOnce
    <3>2. /\ Retried(id).state # "none" => Retried(id).body \in Jobs
          /\ Retried(id).verdict # "archive"
      BY <1>1, <1>2, <1>3, RetriedTask DEF Marked
    <3>3. \A i \in Jobs : i # id => observed'[i] = observed[i]
      BY <1>1
    <3> QED
      BY <1>1, <1>2, <2>1, <3>1, <3>2, <3>3, RetriedTask, AsynqParts, TaskGoes
<1>4. CASE task[id].verdict = "archive"
  <2> DEFINE t == [task[id] EXCEPT !.state = "archived"]
  <2>1. Settled(id) = t
    BY <1>4 DEF Settled
  <2>2. t \in Task /\ t.body = task[id].body /\ t.verdict = "archive" /\ t.state = "archived"
    BY <1>2, <1>4 DEF Task, States
  <2> HIDE DEF t
  <2> QED
    <3>1. SucceedsAs(task[id].body, t)
      BY <1>1, <1>4, AsynqParts DEF SucceedsAs, PushedOnce
    <3>2. t.body \in Jobs /\ "dead" \in observed'[id]
      BY <1>1, <1>2, <1>4, <2>2 DEF Marked
    <3> QED
      BY <1>1, <2>1, <2>2, <3>1, <3>2, AsynqParts, TaskGoes
<1>5. CASE task[id].verdict \notin {"retry", "archive"}
  <2>1. Settled(id) = NoTask
    BY <1>5 DEF Settled
  <2> QED
    <3>1. SucceedsAs(task[id].body, NoTask)
      <4> SUFFICES ASSUME task[id].body \in Jobs, pushes[task[id].body] <= 1,
                          task[id].body \notin takenBack', handledOk'[task[id].body] # "never"
                   PROVE  handledOk'[task[id].body] = "once" /\ NoTask.body # task[id].body
        BY DEF SucceedsAs
      <4>1. PushedOnce(task[id].body)
        BY AsynqParts
      <4> QED
        BY <1>1, <4>1, NoTaskType, AsynqAssumption DEF PushedOnce
    <3> QED
      BY <1>1, <2>1, <3>1, NoTaskType, AsynqParts, TaskGoes
<1> QED
  BY <1>3, <1>4, <1>5

LEMMA TakenBackStep ==
    ASSUME AsynqInv, NEW id \in Jobs, WorkerDies(id) \/ TaskGivenBack(id)
    PROVE  AsynqInv'
<1> DEFINE b == task[id].body
           u == [task[id] EXCEPT !.state = "pending", !.verdict = "none"]
<1>1. PICK t \in {Retried(id), u} : task' = [task EXCEPT ![id] = t]
  BY DEF WorkerDies, TaskGivenBack, Becomes
<1>2. /\ takenBack' = takenBack \cup {b}
      /\ UNCHANGED <<push, spare, pushes, overlapped, observed, handledOk>>
      /\ task[id].state \in {"active", "judged"}
  BY DEF WorkerDies, TaskGivenBack, TakenBack, Becomes
<1>3. stray' = stray \/ (stray' = [stray EXCEPT ![b] = stray[b] + 1] /\ stray[b] < MaxStrays)
  BY DEF WorkerDies, TaskGivenBack
<1>4. task[id] \in Task /\ Marked(id)
  BY AsynqParts
<1>5. b \in Jobs
  BY <1>2, <1>4 DEF Marked
<1>6. u \in Task /\ u.body = b /\ u.verdict = "none" /\ u.state = "pending"
  BY <1>4 DEF Task, States
<1>7. /\ t \in Task /\ t.body = b /\ (t.verdict = "archive" => "dead" \in observed[id])
      /\ t.state \in {"archived", "pending"}
      /\ t.state = "archived" => ~ (t.retried < t.retry)
  <2>1. CASE t = u
    BY <1>6, <2>1
  <2>2. CASE t = Retried(id)
    BY <1>4, <2>2, RetriedTask DEF Marked
  <2> HIDE DEF u
  <2> QED
    BY <2>1, <2>2
<1> HIDE DEF b, u
<1>8. stray' \in [Jobs -> 0 .. MaxStrays] /\ \A j \in Jobs : j # b => stray'[j] = stray[j]
  <2>1. stray \in [Jobs -> 0 .. MaxStrays] /\ MaxStrays \in Nat
    BY AsynqParts, AsynqAssumption
  <2>2. stray[b] \in 0 .. MaxStrays
    BY <1>5, <2>1
  <2>3. CASE stray' = stray
    BY <2>1, <2>3
  <2>4. CASE stray' = [stray EXCEPT ![b] = stray[b] + 1] /\ stray[b] < MaxStrays
    <3>1. stray[b] + 1 \in 0 .. MaxStrays
      BY <2>1, <2>2, <2>4
    <3> QED
      BY <1>5, <2>1, <2>4, <3>1
  <2> QED
    BY <1>3, <2>3, <2>4
<1>9. takenBack \subseteq takenBack' /\ takenBack' \subseteq Jobs /\ b \in takenBack'
  BY <1>2, <1>5, AsynqParts
<1>10. SucceedsAs(b, t)
  BY <1>9 DEF SucceedsAs
<1> QED
  BY <1>1, <1>2, <1>5, <1>7, <1>8, <1>9, <1>10, AsynqParts, TaskGoes DEF b

\* An attempt that asynq has given up belongs to a job that it took back.
LEMMA StrayStep ==
    ASSUME AsynqInv, NEW j \in Jobs, StrayEnds(j)
    PROVE  AsynqInv'
<1>1. /\ stray[j] > 0 /\ stray' = [stray EXCEPT ![j] = stray[j] - 1]
      /\ UNCHANGED <<push, spare, task, pushes, observed, overlapped, takenBack>>
      /\ \/ handledOk' = handledOk
         \/ handledOk' = [handledOk EXCEPT ![j] = IF handledOk[j] = "never" THEN "once" ELSE "again"]
  BY DEF StrayEnds, Succeeded
<1>2. /\ stray \in [Jobs -> 0 .. MaxStrays] /\ MaxStrays \in Nat
      /\ handledOk \in [Jobs -> {"never", "once", "again"}]
  BY AsynqParts, AsynqAssumption
<1>3. stray'[j] = stray[j] - 1 /\ stray' \in [Jobs -> 0 .. MaxStrays]
  <2>1. stray[j] - 1 \in 0 .. MaxStrays
    BY <1>1, <1>2
  <2> QED
    BY <1>1, <1>2, <2>1
<1>4. handledOk' \in [Jobs -> {"never", "once", "again"}]
  BY <1>1, <1>2
<1>5. AsynqTypeOK' /\ IdsKept' /\ OwnIdUnlessShared'
  BY <1>1, <1>3, <1>4 DEF AsynqInv, AsynqTypeOK, IdsKept, OwnIdUnlessShared, Between
<1>6. ASSUME NEW k \in Jobs PROVE Marked(k)' /\ PushedOnce(k)'
  <2>1. Marked(k) /\ PushedOnce(k) /\ stray[k] \in Nat
    BY <1>2 DEF AsynqInv
  <2>2. Marked(k)'
    BY <1>1, <2>1 DEF Marked
  <2>3. Between(k)' <=> Between(k)
    BY <1>1 DEF Between
  <2>4. CASE k = j
    <3>1. ~ Nowhere(k) /\ k \in takenBack
      BY <1>1, <2>1, <2>4 DEF Nowhere, PushedOnce
    <3> QED
      BY <1>1, <2>1, <2>2, <2>3, <3>1 DEF PushedOnce
  <2>5. CASE k # j
    <3>1. handledOk'[k] = handledOk[k] /\ stray'[k] = stray[k]
      BY <1>1, <1>2, <2>5
    <3> QED
      BY <1>1, <2>1, <2>2, <2>3, <3>1 DEF PushedOnce, Nowhere
  <2> QED
    BY <2>4, <2>5
<1> QED
  BY <1>5, <1>6 DEF AsynqInv

\* What an attempt is counted as.
LEMMA ObservedStep ==
    ASSUME AsynqInv, NEW id \in Jobs, NEW err \in HandlerErrors \cup {{}, {"fail", "dead"}},
           Observe(id, err)
    PROVE  /\ observed' \in [Jobs -> SUBSET {"processed", "errors", "dead", "skip", "reported"}]
           /\ \A i \in Jobs : i # id => observed'[i] = observed[i]
           /\ "dead" \in err => "dead" \in observed'[id]
<1> DEFINE o == {"processed"} \cup (err \ {"fail"}) \cup (IF "fail" \in err THEN {"errors"} ELSE {})
                   \cup (IF Reported(err) THEN {"reported"} ELSE {})
<1>1. observed' = [observed EXCEPT ![id] = o]
  BY DEF Observe
<1>2. o \in SUBSET {"processed", "errors", "dead", "skip", "reported"} /\ ("dead" \in err => "dead" \in o)
  BY DEF HandlerErrors
<1> HIDE DEF o
<1> QED
  BY <1>1, <1>2, AsynqParts

WithVerdict(id, v) == [task[id] EXCEPT !.state = "judged", !.verdict = v]

LEMMA WithVerdictTask ==
    ASSUME NEW id \in Jobs, task[id] \in Task, NEW v \in {"ok", "retry", "archive", "revoke"}
    PROVE  /\ WithVerdict(id, v) \in Task /\ WithVerdict(id, v).body = task[id].body
           /\ WithVerdict(id, v).state = "judged" /\ WithVerdict(id, v).verdict = v
BY DEF WithVerdict, Task, States

LEMMA FailsStep ==
    ASSUME AsynqInv, NEW id \in Jobs, HandlerMissing(id) \/ \E e \in HandlerErrors : JobFails(id, e)
    PROVE  AsynqInv'
<1>1. PICK err \in HandlerErrors \cup {{}, {"fail", "dead"}}, v \in {"ok", "retry", "archive", "revoke"} :
         Observe(id, err) /\ Judge(id, v) /\ (v = "archive" => "dead" \in err)
  <2>1. CASE HandlerMissing(id)
    BY <2>1 DEF HandlerMissing
  <2>2. ASSUME NEW e \in HandlerErrors, JobFails(id, e)
        PROVE  /\ Observe(id, e) /\ Judge(id, Verdict(e))
               /\ Verdict(e) \in {"ok", "retry", "archive", "revoke"}
               /\ Verdict(e) = "archive" => "dead" \in e
    BY <2>2 DEF JobFails, Verdict
  <2> QED
    BY <2>1, <2>2
<1> DEFINE t == WithVerdict(id, v)
<1>2. /\ task' = [task EXCEPT ![id] = t] /\ task[id].state = "active"
      /\ UNCHANGED <<push, spare, pushes, stray, overlapped, handledOk, takenBack>>
  <2>1. task[id].state = "active" /\ UNCHANGED <<stray, handledOk, takenBack>>
    BY DEF HandlerMissing, JobFails
  <2>2. task' = [task EXCEPT ![id] = t] /\ UNCHANGED <<push, spare, pushes, overlapped>>
    BY <1>1 DEF Judge, Becomes, WithVerdict
  <2> QED
    BY <2>1, <2>2
<1>3. t \in Task /\ t.body = task[id].body /\ t.state = "judged" /\ t.verdict = v
  <2>1. task[id] \in Task
    BY AsynqParts
  <2> QED
    BY <2>1, WithVerdictTask
<1> HIDE DEF t
<1>4. /\ observed' \in [Jobs -> SUBSET {"processed", "errors", "dead", "skip", "reported"}]
      /\ \A i \in Jobs : i # id => observed'[i] = observed[i]
      /\ v = "archive" => "dead" \in observed'[id]
  BY <1>1, ObservedStep
<1> QED
  <2>1. SucceedsAs(task[id].body, t)
    BY <1>2, AsynqParts DEF SucceedsAs, PushedOnce
  <2>2. t.body \in Jobs
    BY <1>2, <1>3, AsynqParts DEF Marked
  <2> QED
    BY <1>2, <1>3, <1>4, <2>1, <2>2, AsynqParts, TaskGoes

LEMMA SucceedsStep ==
    ASSUME AsynqInv, NEW id \in Jobs, JobSucceeds(id)
    PROVE  AsynqInv'
<1> DEFINE t == WithVerdict(id, "ok")
<1> DEFINE b == task[id].body
<1>1. /\ task' = [task EXCEPT ![id] = t] /\ task[id].state = "active"
      /\ UNCHANGED <<push, spare, pushes, stray, overlapped, takenBack>>
      /\ Observe(id, {})
      /\ handledOk' = [handledOk EXCEPT ![b] = IF handledOk[b] = "never" THEN "once" ELSE "again"]
  BY DEF JobSucceeds, Succeeded, Judge, Becomes, WithVerdict
<1>2. t \in Task /\ t.body = b /\ t.state = "judged" /\ t.verdict = "ok"
  <2>1. task[id] \in Task
    BY AsynqParts
  <2> QED
    BY <2>1, WithVerdictTask
<1> HIDE DEF t
<1>3. b \in Jobs /\ PushedOnce(b)
  BY <1>1, AsynqParts DEF Marked
<1>4. /\ observed' \in [Jobs -> SUBSET {"processed", "errors", "dead", "skip", "reported"}]
      /\ \A i \in Jobs : i # id => observed'[i] = observed[i]
  BY <1>1, ObservedStep
<1>5. /\ handledOk' \in [Jobs -> {"never", "once", "again"}]
      /\ \A j \in Jobs : j # b => handledOk'[j] = handledOk[j]
  BY <1>1, AsynqParts
<1>6. pushes[b] <= 1 /\ b \notin takenBack => handledOk'[b] = "once"
  <2>1. pushes[b] <= 1 /\ b \notin takenBack => handledOk[b] = "never"
    BY <1>1, <1>3 DEF PushedOnce
  <2> QED
    BY <1>1, <1>3, <2>1, AsynqParts
<1> QED
  <2>1. SucceedsAs(task[id].body, t)
    BY <1>1, <1>2, <1>6 DEF SucceedsAs
  <2>2. /\ stray' \in [Jobs -> 0 .. MaxStrays] /\ takenBack' = takenBack
        /\ takenBack \subseteq Jobs /\ \A j \in Jobs : stray'[j] = stray[j]
        /\ \A j \in Jobs : stray'[j] > 0 => j \in takenBack'
    BY <1>1, AsynqParts
  <2>3. \A j \in Jobs : j # task[id].body => handledOk'[j] = handledOk[j] /\ stray'[j] = stray[j]
    BY <1>5, <2>2
  <2>4. UNCHANGED <<push, spare, pushes, overlapped>> /\ task' = [task EXCEPT ![id] = t]
    BY <1>1
  <2> QED
    BY <1>2, <1>3, <1>4, <1>5, <2>1, <2>2, <2>3, <2>4, TaskGoes

LEMMA AsynqInvStep == AsynqInv /\ [AsynqNext]_asynqVars => AsynqInv'
<1> SUFFICES ASSUME AsynqInv, [AsynqNext]_asynqVars PROVE AsynqInv'
  OBVIOUS
<1>1. CASE UNCHANGED asynqVars
  BY <1>1 DEF AsynqInv, AsynqTypeOK, IdsKept, OwnIdUnlessShared, Marked, PushedOnce, Nowhere,
              Between, asynqVars
<1> QED
  BY <1>1, AppendsStep, EnqueuesStep, QueueStep, SettlesStep, TakenBackStep, StrayStep,
     FailsStep, SucceedsStep DEF AsynqNext

THEOREM AsynqInvariant == AsynqSpec => []AsynqInv
BY AsynqInvInit, AsynqInvStep, PTL DEF AsynqSpec

\* A task is not under another job's id, but for pushes that overlapped and
\* share their options (queue/producer.go 49).
THEOREM OwnIds == AsynqSpec => []OwnIdUnlessShared
<1>1. AsynqInv => OwnIdUnlessShared
  BY DEF AsynqInv
<1> QED
  BY <1>1, AsynqInvariant, PTL

\* What was pushed once succeeds once, unless asynq takes it back without a
\* verdict: from a dead worker, or from one that goes on with it
\* (queue/consumer.go 161-180, queue/asynq/consumer.go 84-93).
THEOREM SucceedsOnce == AsynqSpec => []AgainOnlyIfTakenBack
<1>1. AsynqInv => AgainOnlyIfTakenBack
  <2> SUFFICES ASSUME AsynqInv, NEW j \in Jobs, handledOk[j] = "again", ~ (pushes[j] > 1)
               PROVE  j \in takenBack
    BY DEF AgainOnlyIfTakenBack
  <2>1. pushes[j] \in Nat /\ PushedOnce(j)
    BY DEF AsynqInv, AsynqTypeOK
  <2>2. pushes[j] <= 1
    BY <2>1
  <2> QED
    BY <2>1, <2>2 DEF PushedOnce
<1> QED
  BY <1>1, AsynqInvariant, PTL

\* Nothing is archived before its time that was not counted as deadlettered
\* (queue/consumer_observer.go 109-137).
THEOREM ArchivesCounted == AsynqSpec => []ArchivedIsCounted
<1>1. AsynqInv => ArchivedIsCounted
  BY DEF AsynqInv, Marked, ArchivedIsCounted
<1> QED
  BY <1>1, AsynqInvariant, PTL

----------------------------------------------------------------------------
(* Config: the value a field has is from the last extractor so far that has a *)
(* say in it, or, once the flags have passed it, from its flag.               *)

FlaggedBefore(f) == \E n \in 1 .. field - 1 : fields[n].name = f /\ Tagged(fields[n])

FlagOf(f) == IF given["flags"][f] # "nothing" THEN "flags" ELSE "default"

FromOf(n, f) == IF order[n] = "flags" THEN FlagOf(f) ELSE order[n]

LastSayer(f, last) ==
    \/ conf[f] = "nothing" /\ \A n \in 1 .. last : ~ Says(n, f)
    \/ \E n \in 1 .. last : /\ conf[f] = FromOf(n, f) /\ Says(n, f)
                            /\ \A m \in n + 1 .. last : ~ Says(m, f)

\* What the environment sees in a field is what the extractors before it say.
SeenAsIs(f) == f \notin Overwritten => (Zero(f) <=> ~ Filled(extractor, f))

ConfigInv ==
    /\ ConfigTypeOK
    /\ field > 1 => extractor <= Len(order) /\ order[extractor] = "flags"
    /\ parsed = "ok" => extractor > Len(order)
    /\ \A f \in Leaves :
          IF FlaggedBefore(f) THEN conf[f] = FlagOf(f)
          ELSE LastSayer(f, extractor - 1) /\ SeenAsIs(f)

LEMMA ConfigParts ==
    ASSUME ConfigInv
    PROVE  /\ fields \in Seq(Field) /\ order \in Seq(Extractors)
           /\ Len(order) \in Nat /\ Len(fields) \in Nat /\ extractor \in Nat /\ field \in Nat
           /\ extractor >= 1 /\ field >= 1
           /\ DOMAIN fields = 1 .. Len(fields) /\ DOMAIN order = 1 .. Len(order)
<1>1. fields \in Seq(Field) /\ order \in Seq(Extractors)
  BY ConfigAssumption DEF ConfigInv, ConfigTypeOK
<1>2. extractor \in 1 .. Len(order) + 1 /\ field \in 1 .. Len(fields) + 1
  BY DEF ConfigInv, ConfigTypeOK
<1> QED
  BY <1>1, <1>2

LEMMA ConfigInvInit == ConfigInit => ConfigInv
<1> SUFFICES ASSUME ConfigInit PROVE ConfigInv
  OBVIOUS
<1>1. fields \in Seq(Field) /\ order \in Seq(Extractors) /\ extractor = 1 /\ field = 1
  BY ConfigAssumption DEF ConfigInit
<1>2. sane \subseteq Extractors
  BY <1>1 DEF ConfigInit, Range
<1>3. ConfigTypeOK
  BY <1>1, <1>2 DEF ConfigInit, ConfigTypeOK
<1>4. \A f \in Leaves : LastSayer(f, extractor - 1) /\ ~ FlaggedBefore(f) /\ SeenAsIs(f)
  BY <1>1 DEF ConfigInit, LastSayer, FlaggedBefore, SeenAsIs, Zero, Filled
<1> QED
  BY <1>1, <1>3, <1>4 DEF ConfigInit, ConfigInv

\* An extractor offers a field something, nothing, or the zero value of its type.
LEMMA OfferIsAmount ==
    ASSUME ConfigInv, NEW n \in DOMAIN order, NEW f \in Leaves
    PROVE  Offer(n, f) \in Amounts
<1>1. order[n] \in Range(order)
  BY DEF Range
<1>2. given \in [Range(order) -> [Leaves -> Amounts]]
  BY DEF ConfigInv, ConfigTypeOK
<1>3. given[order[n]][f] \in Amounts
  BY <1>1, <1>2
<1> QED
  BY <1>3 DEF Offer, Amounts

\* One extractor further a field is filled if this one fills it, or if it was and
\* this one does not put the zero value over it.
LEMMA FilledGrows ==
    ASSUME ConfigInv, NEW f, extractor \in DOMAIN order
    PROVE  Filled(extractor + 1, f) <=>
              \/ Offer(extractor, f) = "value"
              \/ Filled(extractor, f) /\ (order[extractor] = "env" \/ Offer(extractor, f) # "zero")
<1> USE ConfigParts
<1> DEFINE E == extractor
           V(m) == Offer(m, f) = "value"
           K(k) == order[k] # "env" => Offer(k, f) # "zero"
<1>1. Filled(E + 1, f) <=> \E m \in 1 .. E : V(m) /\ \A k \in m + 1 .. E : K(k)
  BY DEF Filled
<1>2. Filled(E, f) <=> \E m \in 1 .. E - 1 : V(m) /\ \A k \in m + 1 .. E - 1 : K(k)
  BY DEF Filled
<1>3. E \in Nat /\ E >= 1
  OBVIOUS
<1>4. V(E) <=> Offer(E, f) = "value"
  OBVIOUS
<1>5. K(E) <=> (order[E] = "env" \/ Offer(E, f) # "zero")
  OBVIOUS
<1> HIDE DEF E, V, K
<1>6. (\E m \in 1 .. E : V(m) /\ \A k \in m + 1 .. E : K(k))
         <=> V(E) \/ ((\E m \in 1 .. E - 1 : V(m) /\ \A k \in m + 1 .. E - 1 : K(k)) /\ K(E))
  <2>1. ASSUME NEW m \in 1 .. E, V(m) /\ \A k \in m + 1 .. E : K(k), m # E
        PROVE  m \in 1 .. E - 1 /\ (\A k \in m + 1 .. E - 1 : K(k)) /\ K(E)
    BY <1>3, <2>1
  <2>2. ASSUME NEW m \in 1 .. E - 1, V(m), \A k \in m + 1 .. E - 1 : K(k), K(E)
        PROVE  m \in 1 .. E /\ \A k \in m + 1 .. E : K(k)
    <3>1. \A k \in m + 1 .. E : k \in m + 1 .. E - 1 \/ k = E
      BY <1>3
    <3> QED
      BY <1>3, <2>2, <3>1
  <2>3. V(E) => E \in 1 .. E /\ \A k \in E + 1 .. E : K(k)
    BY <1>3
  <2> QED
    BY <2>1, <2>2, <2>3
<1> QED
  BY <1>1, <1>2, <1>4, <1>5, <1>6 DEF E

\* Once an extractor said what it offers, the field is zero if that is.
LEMMA ZeroAsOffered ==
    ASSUME ConfigInv, NEW n \in DOMAIN order, NEW f \in Leaves, Offer(n, f) # "nothing",
           conf[f] = FromOf(n, f)
    PROVE  Zero(f) <=> Offer(n, f) = "zero"
<1>1. order[n] \in Extractors
  BY ConfigParts
<1>2. CASE order[n] = "flags"
  BY <1>2 DEF FromOf, FlagOf, Offer, Zero, Extractors
<1>3. CASE order[n] # "flags"
  BY <1>1, <1>3 DEF FromOf, Offer, Zero, Extractors
<1> QED
  BY <1>2, <1>3

\* An extractor that is through with every field leaves each with a value of its
\* own where it has a say and as it was where it has none.
LEMMA ExtractsStep ==
    ASSUME ConfigInv, NEW new \in [Leaves -> Extractors \cup {"nothing", "default"}],
           Extracts(new), parsed = "running", extractor <= Len(order),
           \A f \in Leaves :
              \/ Says(extractor, f) /\ new[f] = FromOf(extractor, f)
              \/ ~ Says(extractor, f) /\ new[f] = conf[f] /\ ~ FlaggedBefore(f)
    PROVE  ConfigInv'
<1> USE ConfigParts
<1>1. /\ conf' = new /\ extractor' = extractor + 1 /\ field' = 1
      /\ UNCHANGED <<fields, order, given, sane, parsed>>
  BY DEF Extracts
<1>2. Leaves' = Leaves
  BY <1>1 DEF Leaves
<1>3. ConfigTypeOK'
  BY <1>1, <1>2 DEF ConfigInv, ConfigTypeOK
<1>4. /\ \A n, f : Offer(n, f)' = Offer(n, f)
      /\ \A n, f : FromOf(n, f)' = FromOf(n, f)
  BY <1>1, Zenon DEF Offer, FromOf, FlagOf, HasFlag
<1>5. /\ \A n, f : Filled(n, f)' = Filled(n, f)
      /\ \A n, f : Says(n, f)' = Says(n, f)
  BY <1>1, <1>4, Zenon DEF Filled, Says
<1>6. ASSUME NEW f \in Leaves
      PROVE  \/ new[f] = "nothing" /\ \A n \in 1 .. extractor : ~ Says(n, f)
             \/ \E n \in 1 .. extractor : /\ new[f] = FromOf(n, f) /\ Says(n, f)
                                           /\ \A m \in n + 1 .. extractor : ~ Says(m, f)
  <2>1. CASE Says(extractor, f) /\ new[f] = FromOf(extractor, f)
    <3>1. extractor \in 1 .. extractor /\ \A m \in extractor + 1 .. extractor : FALSE
      OBVIOUS
    <3> QED
      BY <2>1, <3>1
  <2>2. CASE ~ Says(extractor, f) /\ new[f] = conf[f] /\ ~ FlaggedBefore(f)
    <3>1. LastSayer(f, extractor - 1)
      BY <2>2 DEF ConfigInv
    <3>2. \A n \in 1 .. extractor : n \in 1 .. extractor - 1 \/ n = extractor
      OBVIOUS
    <3>3. CASE conf[f] = "nothing" /\ \A n \in 1 .. extractor - 1 : ~ Says(n, f)
      BY <2>2, <3>2, <3>3
    <3>4. CASE \E n \in 1 .. extractor - 1 : /\ conf[f] = FromOf(n, f) /\ Says(n, f)
                                             /\ \A m \in n + 1 .. extractor - 1 : ~ Says(m, f)
      <4>1. PICK n \in 1 .. extractor - 1 : /\ conf[f] = FromOf(n, f) /\ Says(n, f)
                                            /\ \A m \in n + 1 .. extractor - 1 : ~ Says(m, f)
        BY <3>4
      <4>2. n \in 1 .. extractor
            /\ \A m \in n + 1 .. extractor : m \in n + 1 .. extractor - 1 \/ m = extractor
        BY <4>1
      <4> QED
        BY <2>2, <4>1, <4>2
    <3> QED
      BY <3>1, <3>3, <3>4 DEF LastSayer
  <2> QED
    BY <2>1, <2>2
<1>7. ASSUME NEW f \in Leaves PROVE LastSayer(f, extractor - 1)'
  <2>1. extractor' - 1 = extractor
    BY <1>1
  <2> QED
    BY <1>1, <1>4, <1>5, <1>6, <2>1 DEF LastSayer
<1>8. \A f \in Leaves : ~ FlaggedBefore(f)'
  BY <1>1 DEF FlaggedBefore
<1>9. extractor \in DOMAIN order
  OBVIOUS
<1>10. ASSUME NEW f \in Leaves, f \notin Overwritten
       PROVE  Zero(f)' <=> ~ Filled(extractor + 1, f)
  <2>1. /\ Offer(extractor, f) \in Amounts
        /\ Filled(extractor + 1, f) <=>
              \/ Offer(extractor, f) = "value"
              \/ Filled(extractor, f)
                 /\ (order[extractor] = "env" \/ Offer(extractor, f) # "zero")
    BY <1>9, OfferIsAmount, FilledGrows
  <2>2. Says(extractor, f) <=>
           /\ Offer(extractor, f) # "nothing"
           /\ order[extractor] = "env" => ~ Filled(extractor, f)
    BY <1>10 DEF Says
  <2>3. CASE Says(extractor, f) /\ new[f] = FromOf(extractor, f)
    <3>1. order[extractor] \in Extractors
      BY <1>9
    <3>2. CASE order[extractor] = "flags"
      <4>1. Zero(f)' <=> Offer(extractor, f) = "zero"
        BY <1>1, <2>2, <2>3, <3>2 DEF FromOf, FlagOf, Offer, Zero, Extractors
      <4> QED
        BY <2>1, <2>2, <2>3, <3>2, <4>1 DEF Amounts
    <3>3. CASE order[extractor] # "flags"
      <4>1. Zero(f)' <=> Offer(extractor, f) = "zero"
        BY <1>1, <2>2, <2>3, <3>1, <3>3 DEF FromOf, Offer, Zero, Extractors
      <4> QED
        BY <2>1, <2>2, <2>3, <4>1 DEF Amounts
    <3> QED
      BY <3>2, <3>3
  <2>4. CASE ~ Says(extractor, f) /\ new[f] = conf[f] /\ ~ FlaggedBefore(f)
    <3>1. Zero(f)' <=> Zero(f)
      BY <1>1, <2>4 DEF Zero
    <3>2. Zero(f) <=> ~ Filled(extractor, f)
      BY <1>10, <2>4 DEF ConfigInv, SeenAsIs
    <3> QED
      BY <2>1, <2>2, <2>4, <3>1, <3>2 DEF Amounts
  <2> QED
    BY <2>3, <2>4
<1>11. \A f \in Leaves : SeenAsIs(f)'
  BY <1>1, <1>5, <1>10 DEF SeenAsIs
<1>12. (field > 1)' = FALSE /\ (parsed = "ok")' = FALSE
  BY <1>1
<1> QED
  BY <1>1, <1>2, <1>3, <1>7, <1>8, <1>11, <1>12 DEF ConfigInv

LEMMA YamlKeeps == ConfigInv /\ ExtractYaml => ConfigInv'
<1> SUFFICES ASSUME ConfigInv, ExtractYaml PROVE ConfigInv'
  OBVIOUS
<1> USE ConfigParts
<1> DEFINE new == [f \in Leaves |-> IF given["yaml"][f] # "nothing" THEN "yaml" ELSE conf[f]]
<1>1. On("yaml") /\ Extracts(new)
  BY DEF ExtractYaml
<1>2. parsed = "running" /\ extractor <= Len(order) /\ order[extractor] = "yaml"
  BY <1>1 DEF On
<1>3. conf \in [Leaves -> Extractors \cup {"nothing", "default"}]
  BY DEF ConfigInv, ConfigTypeOK
<1>4. new \in [Leaves -> Extractors \cup {"nothing", "default"}]
  BY <1>3 DEF Extractors
<1>5. \A f \in Leaves : ~ FlaggedBefore(f)
  BY <1>2 DEF ConfigInv, FlaggedBefore
<1>6. \A f : Says(extractor, f) <=> given["yaml"][f] # "nothing"
  BY <1>2 DEF Says, Offer
<1>7. \A f : FromOf(extractor, f) = "yaml"
  BY <1>2 DEF FromOf
<1>8. \A f \in Leaves :
         \/ Says(extractor, f) /\ new[f] = FromOf(extractor, f)
         \/ ~ Says(extractor, f) /\ new[f] = conf[f] /\ ~ FlaggedBefore(f)
  BY <1>5, <1>6, <1>7
<1> QED
  <2> HIDE DEF new
  <2> QED
    BY <1>1, <1>2, <1>4, <1>8, ExtractsStep

\* The environment sees whether a field has the zero value, and the invariant what
\* that says of the extractors before it.
LEMMA EnvKeeps == ConfigInv /\ ExtractEnv => ConfigInv'
<1> SUFFICES ASSUME ConfigInv, ExtractEnv PROVE ConfigInv'
  OBVIOUS
<1> USE ConfigParts
<1> DEFINE new == [f \in Leaves |->
                      IF given["env"][f] # "nothing" /\ (Zero(f) \/ f \in Overwritten)
                      THEN "env" ELSE conf[f]]
<1>1. On("env") /\ Extracts(new)
  BY DEF ExtractEnv
<1>2. parsed = "running" /\ extractor <= Len(order) /\ order[extractor] = "env"
  BY <1>1 DEF On
<1>3. conf \in [Leaves -> Extractors \cup {"nothing", "default"}]
  BY DEF ConfigInv, ConfigTypeOK
<1>4. new \in [Leaves -> Extractors \cup {"nothing", "default"}]
  BY <1>3 DEF Extractors
<1>5. \A f \in Leaves : ~ FlaggedBefore(f)
  BY <1>2 DEF ConfigInv, FlaggedBefore
<1>6. \A f : FromOf(extractor, f) = "env"
  BY <1>2 DEF FromOf
<1>7. ASSUME NEW f \in Leaves
      PROVE  Says(extractor, f) <=>
                given["env"][f] # "nothing" /\ (Zero(f) \/ f \in Overwritten)
  <2>1. SeenAsIs(f)
    BY <1>5 DEF ConfigInv
  <2>2. Offer(extractor, f) = given["env"][f]
    BY <1>2 DEF Offer
  <2> QED
    BY <1>2, <2>1, <2>2 DEF Says, SeenAsIs
<1>8. \A f \in Leaves :
         \/ Says(extractor, f) /\ new[f] = FromOf(extractor, f)
         \/ ~ Says(extractor, f) /\ new[f] = conf[f] /\ ~ FlaggedBefore(f)
  BY <1>5, <1>6, <1>7
<1> QED
  <2> HIDE DEF new
  <2> QED
    BY <1>1, <1>2, <1>4, <1>8, ExtractsStep

\* The flags have passed every field, and so have said what they have to say.
LEMMA FlagsEndKeeps == ConfigInv /\ FlagsEnd => ConfigInv'
<1> SUFFICES ASSUME ConfigInv, FlagsEnd PROVE ConfigInv'
  OBVIOUS
<1> USE ConfigParts
<1>1. On("flags") /\ field > Len(fields) /\ Extracts(conf)
  BY DEF FlagsEnd
<1>2. parsed = "running" /\ extractor <= Len(order) /\ order[extractor] = "flags"
  BY <1>1 DEF On
<1>3. conf \in [Leaves -> Extractors \cup {"nothing", "default"}]
      /\ field \in 1 .. Len(fields) + 1
  BY DEF ConfigInv, ConfigTypeOK
<1>4. field - 1 = Len(fields)
  BY <1>1, <1>3
<1>5. \A f : FlaggedBefore(f) <=> HasFlag(f)
  BY <1>4 DEF FlaggedBefore, HasFlag
<1>6. \A f : Says(extractor, f) <=> HasFlag(f)
  BY <1>2 DEF Says, Offer
<1>7. \A f : FromOf(extractor, f) = FlagOf(f)
  BY <1>2 DEF FromOf
<1>8. \A f \in Leaves : FlaggedBefore(f) => conf[f] = FlagOf(f)
  BY DEF ConfigInv
<1>9. \A f \in Leaves :
         \/ Says(extractor, f) /\ conf[f] = FromOf(extractor, f)
         \/ ~ Says(extractor, f) /\ conf[f] = conf[f] /\ ~ FlaggedBefore(f)
  BY <1>5, <1>6, <1>7, <1>8
<1> QED
  BY <1>1, <1>2, <1>3, <1>9, ExtractsStep

\* A field that the flags pass is set to what its flag has, or stays as it is.
LEMMA FlagsFieldKeeps == ConfigInv /\ FlagsField => ConfigInv'
<1> SUFFICES ASSUME ConfigInv, FlagsField PROVE ConfigInv'
  OBVIOUS
<1> USE ConfigParts
<1> DEFINE x == fields[field]
<1>1. /\ parsed = "running" /\ extractor <= Len(order) /\ order[extractor] = "flags"
      /\ field <= Len(fields)
      /\ conf' = IF Tagged(x) THEN [conf EXCEPT ![x.name] = FlagValue(x)] ELSE conf
      /\ field' = field + 1
      /\ UNCHANGED <<fields, order, given, sane, extractor, parsed>>
  BY DEF FlagsField, InFlags, On
<1>2. Leaves' = Leaves
  BY <1>1 DEF Leaves
<1>3. field \in DOMAIN fields
  BY <1>1
<1>4. conf \in [Leaves -> Extractors \cup {"nothing", "default"}]
  BY DEF ConfigInv, ConfigTypeOK
<1>5. FlagValue(x) = FlagOf(x.name)
  BY DEF FlagValue, FlagOf
<1>6. FlagOf(x.name) \in {"flags", "default"}
  BY DEF FlagOf
<1>7. conf' \in [Leaves -> Extractors \cup {"nothing", "default"}]
  <2> HIDE DEF x
  <2> QED
    BY <1>1, <1>4, <1>5, <1>6 DEF Extractors
<1>8. ConfigTypeOK'
  BY <1>1, <1>2, <1>7 DEF ConfigInv, ConfigTypeOK
<1>9. /\ \A n, f : Offer(n, f)' = Offer(n, f)
      /\ \A n, f : FromOf(n, f)' = FromOf(n, f)
      /\ \A f : FlagOf(f)' = FlagOf(f)
  BY <1>1, Zenon DEF Offer, FromOf, FlagOf, HasFlag
<1>10. /\ \A n, f : Filled(n, f)' = Filled(n, f)
       /\ \A n, f : Says(n, f)' = Says(n, f)
  BY <1>1, <1>9, Zenon DEF Filled, Says
<1>11. ASSUME NEW f
       PROVE  FlaggedBefore(f)' <=> FlaggedBefore(f) \/ (x.name = f /\ Tagged(x))
  <2>1. \A n \in 1 .. field : n \in 1 .. field - 1 \/ n = field
    OBVIOUS
  <2>2. field' - 1 = field /\ field \in 1 .. field
        /\ \A n \in 1 .. field - 1 : n \in 1 .. field
    BY <1>1
  <2> DEFINE P(n) == fields[n].name = f /\ Tagged(fields[n])
  <2>3. FlaggedBefore(f)' <=> \E n \in 1 .. field : P(n)
    <3>1. field' - 1 = field /\ fields' = fields
      BY <1>1, <2>2
    <3> QED
      BY <3>1, Zenon DEF FlaggedBefore, Tagged
  <2>4. FlaggedBefore(f) <=> \E n \in 1 .. field - 1 : P(n)
    BY DEF FlaggedBefore
  <2>5. (x.name = f /\ Tagged(x)) <=> P(field)
    OBVIOUS
  <2> HIDE DEF P, x
  <2>6. (\E n \in 1 .. field : P(n)) <=> (\E n \in 1 .. field - 1 : P(n)) \/ P(field)
    BY <2>1, <2>2
  <2> QED
    BY <2>3, <2>4, <2>5, <2>6
<1>12. ASSUME NEW f \in Leaves
       PROVE  IF FlaggedBefore(f)' THEN conf'[f] = FlagOf(f)
              ELSE LastSayer(f, extractor - 1)' /\ SeenAsIs(f)'
  <2>1. CASE x.name = f /\ Tagged(x)
    <3>1. conf'[f] = FlagOf(f)
      <4> HIDE DEF x
      <4> QED
        BY <1>1, <1>4, <1>5, <2>1
    <3> QED
      BY <1>11, <2>1, <3>1
  <2>2. CASE ~ (x.name = f /\ Tagged(x))
    <3>1. conf'[f] = conf[f]
      <4> HIDE DEF x
      <4> QED
        BY <1>1, <1>4, <2>2
    <3>2. FlaggedBefore(f)' <=> FlaggedBefore(f)
      BY <1>11, <2>2
    <3>3. CASE FlaggedBefore(f)
      BY <3>1, <3>2, <3>3 DEF ConfigInv
    <3>4. CASE ~ FlaggedBefore(f)
      <4>1. LastSayer(f, extractor - 1) /\ SeenAsIs(f)
        BY <3>4 DEF ConfigInv
      <4>2. LastSayer(f, extractor - 1)'
        BY <1>1, <1>9, <1>10, <3>1, <4>1 DEF LastSayer
      <4>3. Zero(f)' <=> Zero(f)
        BY <1>1, <3>1 DEF Zero
      <4>4. SeenAsIs(f)'
        BY <1>1, <1>10, <4>1, <4>3 DEF SeenAsIs
      <4> QED
        BY <3>2, <3>4, <4>2, <4>4
    <3> QED
      BY <3>3, <3>4
  <2> QED
    BY <2>1, <2>2
<1>13. (parsed = "ok")' = FALSE /\ (extractor <= Len(order) /\ order[extractor] = "flags")'
  BY <1>1
<1> QED
  BY <1>1, <1>2, <1>8, <1>9, <1>12, <1>13 DEF ConfigInv

\* Whether Parse goes on or ends, the configuration is what the extractors so far
\* made it.
LEMMA ParsedMoves ==
    ASSUME ConfigInv, UNCHANGED <<fields, order, given, sane, extractor, field, conf>>,
           parsed' \in {"running", "ok", "error", "panic"},
           parsed' = "ok" => extractor > Len(order)
    PROVE  ConfigInv'
<1>1. UNCHANGED <<fields, order, given, sane, extractor, field, conf>>
  OBVIOUS
<1>2. ConfigTypeOK'
  <2>1. Leaves' = Leaves
    BY <1>1 DEF Leaves
  <2> QED
    BY <1>1, <2>1 DEF ConfigInv, ConfigTypeOK
<1>3. \A n, f : Offer(n, f)' = Offer(n, f)
  BY <1>1, Zenon DEF Offer, HasFlag
<1>4. /\ \A n, f : FromOf(n, f)' = FromOf(n, f)
      /\ \A f : FlagOf(f)' = FlagOf(f) /\ FlaggedBefore(f)' = FlaggedBefore(f)
      /\ \A f : Zero(f)' = Zero(f)
      /\ Leaves' = Leaves
  BY <1>1, Zenon DEF FromOf, FlagOf, FlaggedBefore, Zero, Leaves
<1>5. /\ \A n, f : Filled(n, f)' = Filled(n, f)
      /\ \A n, f : Says(n, f)' = Says(n, f)
  BY <1>1, <1>3, Zenon DEF Filled, Says
<1>6. /\ \A f : LastSayer(f, extractor - 1)' <=> LastSayer(f, extractor - 1)
      /\ \A f : SeenAsIs(f)' <=> SeenAsIs(f)
  BY <1>1, <1>4, <1>5 DEF LastSayer, SeenAsIs
<1>7. \A f \in Leaves :
         IF FlaggedBefore(f)' THEN conf'[f] = FlagOf(f)'
         ELSE LastSayer(f, extractor - 1)' /\ SeenAsIs(f)'
  BY <1>1, <1>4, <1>6 DEF ConfigInv
<1> QED
  BY <1>1, <1>2, <1>4, <1>7 DEF ConfigInv

LEMMA ConfigInvStep == ConfigInv /\ [ConfigNext]_configVars => ConfigInv'
<1> SUFFICES ASSUME ConfigInv, [ConfigNext]_configVars PROVE ConfigInv'
  OBVIOUS
<1>1. CASE \E e \in Extractors : ExtractFails(e)
  BY <1>1, ParsedMoves DEF ExtractFails, Ends
<1>2. CASE ExtractYaml
  BY <1>2, YamlKeeps
<1>3. CASE ExtractEnv
  BY <1>3, EnvKeeps
<1>4. CASE FlagsField
  BY <1>4, FlagsFieldKeeps
<1>5. CASE FlagsFieldFails
  BY <1>5, ParsedMoves DEF FlagsFieldFails, Ends
<1>6. CASE FlagsFieldPanics
  BY <1>6, ParsedMoves DEF FlagsFieldPanics, Ends
<1>7. CASE FlagsEnd
  BY <1>7, FlagsEndKeeps
<1>8. CASE ParseEnds
  BY <1>8, ParsedMoves DEF ParseEnds, Ends
<1>9. CASE UNCHANGED configVars
  <2>1. UNCHANGED <<fields, order, given, sane, extractor, field, conf, parsed>>
    BY <1>9 DEF configVars
  <2>2. parsed \in {"running", "ok", "error", "panic"} /\ (parsed = "ok" => extractor > Len(order))
    BY DEF ConfigInv, ConfigTypeOK
  <2> QED
    BY <2>1, <2>2, ParsedMoves
<1> QED
  BY <1>1, <1>2, <1>3, <1>4, <1>5, <1>6, <1>7, <1>8, <1>9 DEF ConfigNext

THEOREM ConfigInvariant == ConfigSpec => []ConfigInv
BY ConfigInvInit, ConfigInvStep, PTL DEF ConfigSpec

\* When the parse is over there is one extractor that the invariant can mean.
LEMMA TakenIsLast == ConfigInv => LastSayWins
<1> SUFFICES ASSUME ConfigInv, parsed = "ok", NEW f \in Leaves
             PROVE  LET say == {n \in DOMAIN order : Says(n, f)}
                        last == order[CHOOSE n \in say : \A m \in say : m <= n]
                    IN conf[f] = IF say = {} THEN "nothing"
                                 ELSE IF last = "flags" /\ given["flags"][f] = "nothing"
                                      THEN "default" ELSE last
  BY DEF LastSayWins
<1> USE ConfigParts
<1> DEFINE say == {n \in DOMAIN order : Says(n, f)}
           top == CHOOSE n \in say : \A m \in say : m <= n
<1>1. extractor - 1 = Len(order)
  BY DEF ConfigInv, ConfigTypeOK
<1>2. field = 1
  BY <1>1 DEF ConfigInv
<1>3. ~ FlaggedBefore(f)
  BY <1>2 DEF FlaggedBefore
<1>4. LastSayer(f, Len(order))
  BY <1>1, <1>3 DEF ConfigInv
<1>5. CASE conf[f] = "nothing" /\ \A n \in 1 .. Len(order) : ~ Says(n, f)
  <2>1. say = {}
    BY <1>5
  <2> HIDE DEF say
  <2> QED
    BY <1>5, <2>1 DEF say
<1>6. CASE \E n \in 1 .. Len(order) : /\ conf[f] = FromOf(n, f) /\ Says(n, f)
                                      /\ \A m \in n + 1 .. Len(order) : ~ Says(m, f)
  <2>1. PICK n \in 1 .. Len(order) : /\ conf[f] = FromOf(n, f) /\ Says(n, f)
                                     /\ \A m \in n + 1 .. Len(order) : ~ Says(m, f)
    BY <1>6
  <2>2. n \in say /\ \A m \in say : m \in Int /\ m <= n
    BY <2>1
  <2>3. top \in say /\ \A m \in say : m <= top
    <3> HIDE DEF say
    <3> QED
      BY <2>2
  <2> HIDE DEF top, say
  <2>4. top = n
    BY <2>2, <2>3
  <2>5. conf[f] = IF order[top] = "flags" /\ given["flags"][f] = "nothing"
                  THEN "default" ELSE order[top]
    BY <2>1, <2>4 DEF FromOf, FlagOf
  <2> QED
    BY <2>2, <2>5 DEF top, say
<1> QED
  BY <1>4, <1>5, <1>6 DEF LastSayer

\* What a field ends up with is from the last extractor that has a say in it, for
\* every type, order of extractors and input (config/parser.go 27-35,
\* config/env.go 20-25, config/flags.go 46-68).
THEOREM LastSayIsTaken == ConfigSpec => []LastSayWins
BY ConfigInvariant, TakenIsLast, PTL

----------------------------------------------------------------------------
(* The parts side by side: the library implements each of them, so that what  *)
(* is proved of a part is proved of it.                                       *)

LEMMA StepOfEachPart ==
    [LibraryNext]_vars =>
        /\ [CacheNext]_cacheVars /\ [WorkersNext]_workersVars /\ [CommsNext]_commsVars
        /\ [AsynqNext]_asynqVars /\ [IdsNext]_idVars /\ [ConfigNext]_configVars
<1>1. CASE UNCHANGED vars
  BY <1>1 DEF vars
<1>2. CASE LibraryNext
  BY <1>2 DEF LibraryNext
<1> QED
  BY <1>1, <1>2

\* What the runs check of each part side by side is what the part promises on
\* its own: a step of the library is a step of one part and a stutter of the
\* others.
LEMMA LibraryIsItsParts ==
    LibrarySpec =>
        CacheSpec /\ WorkersSpec /\ CommsSpec /\ AsynqSpec /\ IdsSpec /\ ConfigSpec
<1>1. LibraryInit =>
          CacheInit /\ WorkersInit /\ CommsInit /\ AsynqInit /\ IdsInit /\ ConfigInit
  BY DEF LibraryInit
<1> QED
  BY <1>1, StepOfEachPart, PTL
     DEF LibrarySpec, CacheSpec, WorkersSpec, CommsSpec, AsynqSpec, IdsSpec, ConfigSpec

\* Each part's variables stay what its module says.
THEOREM LibraryTyped == LibrarySpec => []LibraryTypeOK
<1>1. WorkersSpec => []WorkersTypeOK
  <2>1. WorkersInv /\ CountsInv /\ [WorkersNext]_workersVars => (WorkersInv /\ CountsInv)'
    BY WorkersInvStep, CountsInvStep
  <2> QED
    BY <2>1, WorkersAreTyped, WorkersInvInit, CountsInvInit, PTL DEF WorkersSpec
<1>2. CommsSpec => []CommsTypeOK
  <2>1. CommsInv => CommsTypeOK
    BY DEF CommsInv
  <2> QED
    BY <2>1, CommsInvInit, CommsInvStep, PTL DEF CommsSpec
<1>3. AsynqSpec => []AsynqTypeOK
  <2>1. AsynqInv => AsynqTypeOK
    BY DEF AsynqInv
  <2> QED
    BY <2>1, AsynqInvariant, PTL
<1>4. IdsSpec => []IdsTypeOK
  <2>1. IdsInv => IdsTypeOK
    BY DEF IdsInv
  <2> QED
    BY <2>1, IdsInvInit, IdsInvStep, PTL DEF IdsSpec
<1>5. ConfigSpec => []ConfigTypeOK
  <2>1. ConfigInv => ConfigTypeOK
    BY DEF ConfigInv
  <2> QED
    BY <2>1, ConfigInvariant, PTL
<1> QED
  BY <1>1, <1>2, <1>3, <1>4, <1>5, CachesBounded, LibraryIsItsParts, PTL DEF LibraryTypeOK

\* And what a part promises holds of the library, whatever the others do.
THEOREM LibraryKeepsPromises ==
    LibrarySpec => [](/\ CacheServesFresh /\ LostOnlyToRace
                      /\ OverlapNeedsElection /\ LocksAreHeld
                      /\ AnswerIsOwn
                      /\ OwnIdUnlessShared /\ AgainOnlyIfTakenBack /\ ArchivedIsCounted
                      /\ OrderedUnlessOverlapped
                      /\ LastSayWins)
BY LibraryIsItsParts, CachesServeFresh, LossesAreRaces, OverlapsNeedElection, LocksHeld,
   AnswersAreOwn, OwnIds, SucceedsOnce, ArchivesCounted, IdsOrdered, LastSayIsTaken, PTL
=============================================================================
