------------------------- MODULE NatsJobOnceProofs -------------------------
(* With the processed log kept, NatsQueue implements JobOnce: the initial    *)
(* states map to its initial state, and every step to one of its steps or to *)
(* a stutter.                                                                *)
EXTENDS NatsQueueProofs

----------------------------------------------------------------------------
(* The status of an id, by its parts.                                        *)

Decided(i, v) == \E x \in Deliveries : Id(x) = i /\ verdict[x] = v
Held(i) == \E x \in Deliveries : Id(x) = i /\ stage[x] \in Holding

LEMMA StatusParts ==
    ASSUME NEW i \in Ids
    PROVE  JobStatus(i) = IF Decided(i, "ok") THEN "succeeded"
                          ELSE IF Decided(i, "discard") THEN "discarded"
                          ELSE IF Held(i) THEN "held"
                          ELSE IF kv[i] = "none" THEN "idle" ELSE "abandoned"
BY DEF JobStatus, Decided, Held

LEMMA StatusPartsNext ==
    ASSUME NEW i \in Ids
    PROVE  JobStatus(i)' = IF Decided(i, "ok")' THEN "succeeded"
                           ELSE IF Decided(i, "discard")' THEN "discarded"
                           ELSE IF Held(i)' THEN "held"
                           ELSE IF kv'[i] = "none" THEN "idle" ELSE "abandoned"
BY DEF JobStatus, Decided, Held

\* The status of an id follows from its deliveries and its entry in the log.
LEMMA StatusKept ==
    ASSUME NEW i \in Ids,
           \A y \in Deliveries : Id(y) = i =>
               /\ verdict'[y] = verdict[y]
               /\ stage'[y] \in Holding <=> stage[y] \in Holding,
           kv'[i] = "none" <=> kv[i] = "none"
    PROVE  JobStatus(i)' = JobStatus(i)
<1>1. /\ Decided(i, "ok")' <=> Decided(i, "ok")
      /\ Decided(i, "discard")' <=> Decided(i, "discard")
      /\ Held(i)' <=> Held(i)
    BY DEF Decided, Held, Id
<1>2. QED
    BY <1>1, StatusParts, StatusPartsNext

\* A delivery's step leaves other deliveries and other ids alone.
LEMMA Frame ==
    ASSUME TypeOK, NEW x \in Deliveries, HandleMessage(x) \/ Handler(x)
    PROVE  /\ \A y \in Deliveries : y # x => stage'[y] = stage[y] /\ verdict'[y] = verdict[y]
           /\ \A i \in Ids : i # Id(x) => kv'[i] = kv[i]
<1> USE DEF TypeOK
<1>1. CASE HandleMessage(x)
  <2>1. CASE DropUnidentified(x) \/ Postpone(x) \/ ResolveConflict(x) \/ RejectMalformed(x)
    BY <2>1 DEF DropUnidentified, Postpone, ResolveConflict, RejectMalformed, Finish
  <2>2. CASE Claim(x) \/ FindClaimed(x) \/ Forward(x)
    BY <2>2 DEF Claim, FindClaimed, Forward, MoveTo
  <2>3. CASE FailToClaim(x)
    BY <2>3 DEF FailToClaim, Put, Finish
  <2>4. QED
    BY <1>1, <2>1, <2>2, <2>3 DEF HandleMessage
<1>2. CASE Handler(x)
  <2>1. CASE Start(x)
    BY <2>1 DEF Start, MoveTo
  <2>2. CASE HandlerReturns(x)
    BY <2>2 DEF HandlerReturns, MoveTo
  <2>3. CASE AckMark(x)
    BY <2>3 DEF AckMark, Put, MoveTo, AckFailed, Finish
  <2>4. CASE AckConfirm(x)
    BY <2>4 DEF AckConfirm, AckFailed, Finish
  <2>5. CASE ReleaseClaim(x)
    BY <2>5 DEF ReleaseClaim, Put, MoveTo
  <2>6. CASE NakDelivery(x) \/ Discard(x)
    BY <2>6 DEF NakDelivery, Discard, Finish
  <2>7. QED
    BY <1>2, <2>1, <2>2, <2>3, <2>4, <2>5, <2>6 DEF Handler
<1>3. QED
    BY <1>1, <1>2

\* The moves JobOnce allows one id.
Moves == {<<"idle", "held">>, <<"held", "idle">>, <<"held", "succeeded">>,
          <<"held", "discarded">>, <<"idle", "abandoned">>, <<"held", "abandoned">>}

Moved(i) == JobStatus(i)' = JobStatus(i) \/ <<JobStatus(i), JobStatus(i)'>> \in Moves

\* A delivery that holds its id undecided, or settles a decided one, says what
\* the status of the id is.
LEMMA OwnerStatus ==
    ASSUME TypeOK, VerdictInv, ClaimInv, LogKept, NEW x \in Deliveries, Owns(x)
    PROVE  /\ Id(x) \in Ids
           /\ kv[Id(x)] # "none"
           /\ verdict[x] = "ok" => JobStatus(Id(x)) = "succeeded"
           /\ verdict[x] = "discard" => JobStatus(Id(x)) = "discarded"
           /\ ~ Final(x) => JobStatus(Id(x)) = "held"
<1>1. Id(x) \in Ids /\ kv[Id(x)] # "none"
    BY DEF ClaimInv
<1>2. \A y \in Deliveries : Id(y) = Id(x) /\ Final(y) => y = x
    BY DEF ClaimInv, Owns
<1>3. Decided(Id(x), "ok") <=> verdict[x] = "ok"
    BY <1>2 DEF Decided, Final
<1>4. Decided(Id(x), "discard") <=> verdict[x] = "discard"
    BY <1>2 DEF Decided, Final
<1>5. ~ Final(x) => Held(Id(x))
    BY DEF Held, Owns
<1>6. QED
    BY <1>1, <1>3, <1>4, <1>5, StatusParts DEF Final

LEMMA OwnerStatusNext ==
    ASSUME TypeOK', VerdictInv', ClaimInv', LogKept, NEW x \in Deliveries, Owns(x)'
    PROVE  /\ verdict'[x] = "ok" => JobStatus(Id(x))' = "succeeded"
           /\ verdict'[x] = "discard" => JobStatus(Id(x))' = "discarded"
           /\ ~ Final(x)' => JobStatus(Id(x))' = "held"
<1>1. Id(x) \in Ids
    BY DEF ClaimInv, Id
<1>2. \A y \in Deliveries : Id(y) = Id(x) /\ Final(y)' => y = x
    BY DEF ClaimInv, Owns, Id
<1>3. Decided(Id(x), "ok")' <=> verdict'[x] = "ok"
    BY <1>2 DEF Decided, Final, Id
<1>4. Decided(Id(x), "discard")' <=> verdict'[x] = "discard"
    BY <1>2 DEF Decided, Final, Id
<1>5. ~ Final(x)' => Held(Id(x))'
    BY DEF Held, Owns, Id
<1>6. JobStatus(Id(x))' = IF Decided(Id(x), "ok")' THEN "succeeded"
                          ELSE IF Decided(Id(x), "discard")' THEN "discarded"
                          ELSE IF Held(Id(x))' THEN "held"
                          ELSE IF kv'[Id(x)] = "none" THEN "idle" ELSE "abandoned"
    BY <1>1, StatusPartsNext
<1>7. QED
    BY <1>3, <1>4, <1>5, <1>6 DEF Final

\* An id nobody owns is idle, or abandoned if its entry is still there.
LEMMA UnownedStatus ==
    ASSUME NEW i \in Ids, \A y \in Deliveries : Id(y) = i => ~ Owns(y)
    PROVE  JobStatus(i) = IF kv[i] = "none" THEN "idle" ELSE "abandoned"
<1>1. ~ Decided(i, "ok") /\ ~ Decided(i, "discard") /\ ~ Held(i)
    BY DEF Decided, Held, Owns, Final
<1>2. QED
    BY <1>1, StatusParts

LEMMA UnownedStatusNext ==
    ASSUME NEW i \in Ids, \A y \in Deliveries : Id(y) = i => ~ Owns(y)'
    PROVE  JobStatus(i)' = IF kv'[i] = "none" THEN "idle" ELSE "abandoned"
<1>1. ~ Decided(i, "ok")' /\ ~ Decided(i, "discard")' /\ ~ Held(i)'
    BY DEF Decided, Held, Owns, Final, Id
<1>2. QED
    BY <1>1, StatusPartsNext

----------------------------------------------------------------------------
(* Steps.                                                                    *)

\* handleMessage takes an id, gives one up, or leaves it alone.
LEMMA HandleMessageMoves ==
    ASSUME TypeOK, VerdictInv, ClaimInv, LogKept, TypeOK', VerdictInv', ClaimInv',
           NEW x \in Deliveries, HandleMessage(x), Id(x) \in Ids
    PROVE  Moved(Id(x))
<1> USE DEF TypeOK, Moved, Moves
<1> DEFINE i == Id(x)
<1>0. /\ \A y \in Deliveries : y # x => stage'[y] = stage[y] /\ verdict'[y] = verdict[y]
      /\ \A y \in Deliveries : y # x => (Owns(y)' <=> Owns(y))
    BY Frame DEF Owns, Final
<1>1. CASE DropUnidentified(x) \/ Postpone(x) \/ FindClaimed(x) \/ ResolveConflict(x) \/ Forward(x)
  <2>1. kv' = kv /\ verdict' = verdict
    BY <1>1 DEF DropUnidentified, Postpone, FindClaimed, ResolveConflict, Forward
  <2>2. stage'[x] \in Holding <=> stage[x] \in Holding
    BY <1>1 DEF DropUnidentified, Postpone, FindClaimed, ResolveConflict, Forward, Finish, MoveTo,
                Claimable, AtHead, Holding, Busy
  <2>3. QED
    BY <1>0, <2>1, <2>2, StatusKept
<1>2. CASE Claim(x)
  <2>1. kv[i] = "none" /\ stage'[x] = "claimed" /\ verdict[x] = "none" /\ verdict' = verdict
    BY <1>2 DEF Claim, Claimable, AtHead, MoveTo, LogKept, VerdictInv, StageAgrees, Unsettled
  <2>2. JobStatus(i) = "idle"
    BY <2>1, UnownedStatus DEF ClaimInv
  <2>3. JobStatus(i)' = "held"
    BY <2>1, OwnerStatusNext DEF Owns, Final, Holding
  <2>4. QED
    BY <2>2, <2>3
<1>3. CASE FailToClaim(x)
  <2>1. /\ stage[x] = "batch" /\ stage'[x] = "done" /\ verdict[x] = "none" /\ verdict' = verdict
        /\ kv[i] # "none" => kv' = kv
    BY <1>3 DEF FailToClaim, Claimable, AtHead, Finish, VerdictInv, StageAgrees, Unsettled
  <2>2. CASE kv[i] # "none"
    <3>1. stage'[x] \in Holding <=> stage[x] \in Holding
      BY <2>1 DEF Holding, Busy
    <3>2. QED
      BY <1>0, <2>1, <2>2, <3>1, StatusKept
  <2>3. CASE kv[i] = "none"
    <3>1. \A y \in Deliveries : Id(y) = i => ~ Owns(y)
      BY <2>3 DEF ClaimInv
    <3>2. ~ Owns(x)'
      BY <2>1 DEF Owns, Final, Holding, Busy
    <3>3. JobStatus(i) = "idle" /\ JobStatus(i)' \in {"idle", "abandoned"}
      BY <1>0, <2>3, <3>1, <3>2, UnownedStatus, UnownedStatusNext
    <3>4. QED
      BY <3>3
  <2>4. QED
    BY <2>2, <2>3
<1>4. CASE RejectMalformed(x)
  <2>1. stage[x] = "claimed" /\ stage'[x] = "done" /\ verdict[x] = "none" /\ verdict' = verdict /\ kv' = kv
    BY <1>4 DEF RejectMalformed, Finish, VerdictInv, StageAgrees, Unsettled
  <2>2. Owns(x) /\ ~ Final(x) /\ ~ Owns(x)'
    BY <2>1 DEF Owns, Final, Holding, Busy
  <2>3. \A y \in Deliveries : Id(y) = i => ~ Owns(y)'
    BY <1>0, <2>2 DEF ClaimInv
  <2>4. JobStatus(i) = "held" /\ JobStatus(i)' = "abandoned"
    BY <2>1, <2>2, <2>3, OwnerStatus, UnownedStatusNext
  <2>5. QED
    BY <2>4
<1>5. QED
    BY <1>1, <1>2, <1>3, <1>4 DEF HandleMessage

\* The handler settles the id, gives it up, or goes on holding it.
LEMMA HandlerMoves ==
    ASSUME TypeOK, VerdictInv, ClaimInv, LogKept, TypeOK', VerdictInv', ClaimInv',
           NEW x \in Deliveries, Handler(x), Id(x) \in Ids
    PROVE  Moved(Id(x))
<1> USE DEF TypeOK, Moved, Moves
<1> DEFINE i == Id(x)
<1>0. /\ \A y \in Deliveries : y # x => stage'[y] = stage[y] /\ verdict'[y] = verdict[y]
      /\ \A y \in Deliveries : y # x => (Owns(y)' <=> Owns(y))
    BY Frame DEF Owns, Final
<1>1. CASE Start(x) \/ HandlerReturns(x)
  <2>1. /\ stage[x] \in {"queued", "running"}
        /\ verdict[x] = "none"
        /\ Owns(x)'
    BY <1>1 DEF Start, HandlerReturns, MoveTo, LogKept, AckStage, Verdicts, VerdictInv, StageAgrees, Unsettled,
                Owns, Final, Holding, Busy
  <2>2. JobStatus(i) = "held"
    BY <2>1, OwnerStatus DEF Owns, Final, Holding, Busy
  <2>3. JobStatus(i)' \in {"held", "succeeded", "discarded"}
    BY <2>1, OwnerStatusNext DEF Final
  <2>4. QED
    BY <2>2, <2>3
<1>2. CASE AckMark(x) \/ AckConfirm(x) \/ Discard(x)
  <2>1. stage[x] \in {"acking", "marked", "discarding"} /\ verdict' = verdict
    BY <1>2 DEF AckMark, AckConfirm, Discard
  <2>2. Final(x) /\ Owns(x) /\ Owns(x)'
    BY <2>1 DEF VerdictInv, StageAgrees, Owns, Final
  <2>3. JobStatus(i)' = JobStatus(i)
    BY <2>1, <2>2, OwnerStatus, OwnerStatusNext DEF Final
  <2>4. QED
    BY <2>3
<1>3. CASE ReleaseClaim(x)
  <2>1. stage[x] = "releasing" /\ stage'[x] = "nakking" /\ verdict[x] = "err" /\ verdict' = verdict
    BY <1>3 DEF ReleaseClaim, MoveTo, VerdictInv, StageAgrees
  <2>2. Owns(x) /\ ~ Final(x) /\ ~ Owns(x)'
    BY <2>1 DEF Owns, Final, Holding, Busy
  <2>3. \A y \in Deliveries : Id(y) = i => ~ Owns(y)'
    BY <1>0, <2>2 DEF ClaimInv
  <2>4. JobStatus(i) = "held" /\ JobStatus(i)' \in {"idle", "abandoned"}
    BY <2>2, <2>3, OwnerStatus, UnownedStatusNext
  <2>5. QED
    BY <2>4
<1>4. CASE NakDelivery(x)
  <2>1. kv' = kv /\ verdict' = verdict /\ (stage'[x] \in Holding <=> stage[x] \in Holding)
    BY <1>4 DEF NakDelivery, Finish, Holding, Busy
  <2>2. QED
    BY <1>0, <2>1, StatusKept
<1>5. QED
    BY <1>1, <1>2, <1>3, <1>4 DEF Handler

\* The server, the producers and a shutdown's beginning change no status; a
\* process that ends abandons what it held.
LEMMA SurroundingsMoves ==
    ASSUME TypeOK, VerdictInv, ClaimInv, LogKept, NEW i \in Ids,
           Server \/ (\E p \in Procs : Lifetime(p)) \/ UNCHANGED vars
    PROVE  \/ JobStatus(i)' = JobStatus(i)
           \/ JobStatus(i) = "held" /\ JobStatus(i)' = "abandoned"
<1> USE DEF TypeOK
<1>1. ASSUME NEW p \in Procs, NEW m \in Msgs, Fetch(p, m)
      PROVE  JobStatus(i)' = JobStatus(i)
  <2> DEFINE d == <<m, delivered[m] + 1>>
  <2>1. /\ stage' = [stage EXCEPT ![d] = "batch"]
        /\ verdict' = verdict
        /\ kv' = kv
    BY <1>1 DEF Fetch
  <2>2. d \in Deliveries => stage[d] = "none"
    BY <1>1 DEF VerdictInv, Untouched
  <2>3. \A y \in Deliveries : stage'[y] \in Holding <=> stage[y] \in Holding
    BY <2>1, <2>2 DEF Holding, Busy
  <2>4. QED
    BY <2>1, <2>3, StatusKept
<1>2. ASSUME NEW p \in Procs, ProcessEnds(p)
      PROVE  \/ JobStatus(i)' = JobStatus(i)
             \/ JobStatus(i) = "held" /\ JobStatus(i)' = "abandoned"
  <2>1. /\ verdict' = verdict
        /\ kv' = kv
        /\ \A y \in Deliveries : stage'[y] \in Holding => stage[y] \in Holding
    BY <1>2 DEF ProcessEnds, Holding, Busy
  <2>2. /\ Decided(i, "ok")' <=> Decided(i, "ok")
        /\ Decided(i, "discard")' <=> Decided(i, "discard")
        /\ Held(i)' => Held(i)
    BY <2>1 DEF Decided, Held, Id
  <2>3. Held(i) => kv[i] # "none"
    BY DEF Held, ClaimInv, Owns
  <2>4. QED
    BY <2>1, <2>2, <2>3, StatusParts, StatusPartsNext
<1>3. CASE \/ \E m \in Msgs : Push(m) \/ AckWaitLapse(m) \/ BecomeDue(m)
           \/ \E p \in Procs : Cancel(p) \/ CloseConn(p)
           \/ UNCHANGED vars
  <2>1. stage' = stage /\ verdict' = verdict /\ kv' = kv
    BY <1>3 DEF Push, AckWaitLapse, BecomeDue, Cancel, CloseConn, vars
  <2>2. QED
    BY <2>1, StatusKept
<1>4. \A j \in Ids : ~ Expire(j)
    BY DEF Expire, LogKept
<1>5. QED
    BY <1>1, <1>2, <1>3, <1>4 DEF Server, Lifetime

\* Every step of NatsQueue is a step of JobOnce or leaves every status alone.
LEMMA StepSimulation ==
    ASSUME TypeOK, VerdictInv, ClaimInv, LogKept, TypeOK', VerdictInv', ClaimInv', [Next]_vars
    PROVE  [Job!Next]_([i \in Ids |-> JobStatus(i)])
<1> DEFINE job == [i \in Ids |-> JobStatus(i)]
           jobNext == [i \in Ids |-> JobStatus(i)']
<1>0. job' = jobNext
    OBVIOUS
<1>1. ASSUME NEW x \in Deliveries, HandleMessage(x) \/ Handler(x)
      PROVE  Job!Next \/ job' = job
  <2>1. \A y \in Deliveries : y # x => stage'[y] = stage[y] /\ verdict'[y] = verdict[y]
    BY <1>1, Frame
  <2>2. \A j \in Ids : j # Id(x) => JobStatus(j)' = JobStatus(j)
    BY <1>1, <2>1, Frame, StatusKept
  <2>3. CASE Id(x) \notin Ids \/ JobStatus(Id(x))' = JobStatus(Id(x))
    <3>1. \A j \in Ids : JobStatus(j)' = JobStatus(j)
      BY <2>2, <2>3
    <3>2. QED
      BY <1>0, <3>1
  <2>4. CASE Id(x) \in Ids /\ JobStatus(Id(x))' # JobStatus(Id(x))
    <3> DEFINE i == Id(x)
    <3>1. <<JobStatus(i), JobStatus(i)'>> \in Moves
      BY <1>1, <2>4, HandleMessageMoves, HandlerMoves DEF Moved
    <3>2. job' = [job EXCEPT ![i] = JobStatus(i)']
      BY <1>0, <2>2, <2>4
    <3>3. job[i] = JobStatus(i)
      BY <2>4
    <3>4. job' = [j \in Ids |-> IF j \in {i} THEN JobStatus(i)' ELSE job[j]]
      BY <1>0, <2>2, <2>4
    <3>5. CASE JobStatus(i)' = "abandoned"
      <4>1. Job!Abandon({i})
        BY <3>1, <3>3, <3>4, <3>5 DEF Job!Abandon, Moves
      <4>2. QED
        BY <2>4, <4>1 DEF Job!Next
    <3>6. CASE JobStatus(i)' # "abandoned"
      <4>1. Job!Take(i) \/ Job!Retry(i) \/ Job!Succeed(i) \/ Job!Discard(i)
        BY <3>1, <3>2, <3>3, <3>6
        DEF Job!Take, Job!Retry, Job!Succeed, Job!Discard, Job!Turn, Moves
      <4>2. QED
        BY <2>4, <4>1 DEF Job!Next
    <3>7. QED
      BY <3>5, <3>6
  <2>5. QED
    BY <2>3, <2>4
<1>2. CASE Server \/ (\E p \in Procs : Lifetime(p)) \/ UNCHANGED vars
  <2> DEFINE S == {i \in Ids : JobStatus(i)' # JobStatus(i)}
  <2>1. \A i \in S : JobStatus(i) = "held" /\ JobStatus(i)' = "abandoned"
    BY <1>2, SurroundingsMoves
  <2>2. job' = [i \in Ids |-> IF i \in S THEN "abandoned" ELSE job[i]]
    BY <1>0, <2>1
  <2>3. Job!Abandon(S)
    BY <2>1, <2>2 DEF Job!Abandon
  <2>4. QED
    BY <2>3 DEF Job!Next
<1>3. QED
    BY <1>1, <1>2 DEF Next

\* The queue driver and the consumer implement JobOnce when the log is kept:
\* whatever overlaps, is lost or dies, an id is tried by one delivery at a time
\* and never again once an attempt succeeded or discarded it
\* (nats/consumer.go 198-228, nats/message.go 36-64).
THEOREM LogImplementsJobOnce == LogKept => (Spec => ImplementsJobOnce)
<1> SUFFICES ASSUME LogKept
             PROVE  Spec => ImplementsJobOnce
    OBVIOUS
<1>1. Init => Job!Init
  <2> SUFFICES ASSUME Init, NEW i \in Ids
               PROVE  JobStatus(i) = "idle"
    BY DEF Job!Init
  <2>1. kv[i] = "none" /\ \A y \in Deliveries : ~ Owns(y)
    BY DEF Init, Owns, Final, Holding, Busy
  <2>2. QED
    BY <2>1, UnownedStatus
<1>2. /\ TypeOK /\ VerdictInv /\ ClaimInv
      /\ (TypeOK /\ VerdictInv /\ ClaimInv)'
      /\ [Next]_vars
      => [Job!Next]_([i \in Ids |-> JobStatus(i)])
    BY StepSimulation
<1>3. QED
    BY <1>1, <1>2, VerdictsAgree, ClaimsExclusive, PTL DEF Spec, ImplementsJobOnce, Job!Spec
=============================================================================
