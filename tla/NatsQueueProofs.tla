-------------------------- MODULE NatsQueueProofs --------------------------
(* Theorems about NatsQueue, for every value of its constants.               *)
EXTENDS NatsQueue, TLAPS

----------------------------------------------------------------------------
(* The typing invariant.                                                     *)

\* A step of handleMessage leaves every variable in its range.
LEMMA HandleMessageTyping ==
    ASSUME TypeOK, NEW x \in Deliveries, HandleMessage(x)
    PROVE  TypeOK'
<1> USE NatsQueueAssumption
<1>0. x[1] \in Msgs
    BY DEF Deliveries
<1>1. CASE DropUnidentified(x)
    BY <1>0, <1>1 DEF TypeOK, DropUnidentified, AtHead, Term, Finish, BrokerStates, Stages, AckTries
<1>2. CASE Postpone(x)
    BY <1>0, <1>2 DEF TypeOK, Postpone, AtHead, Finish, BrokerStates, Stages, AckTries
<1>3. CASE Claim(x)
    BY <1>0, <1>3 DEF TypeOK, Claim, Claimable, AtHead, MoveTo, Id, LogStates, Stages
<1>4. CASE FindClaimed(x)
    BY <1>0, <1>4 DEF TypeOK, FindClaimed, MoveTo, Stages
<1>5. CASE FailToClaim(x)
    BY <1>0, <1>5 DEF TypeOK, FailToClaim, Claimable, Put, Nak, Finish, Id, BrokerStates, LogStates, Stages, AckTries
<1>6. CASE ResolveConflict(x)
    BY <1>0, <1>6 DEF TypeOK, ResolveConflict, Nak, Term, Finish, BrokerStates, Stages, AckTries
<1>7. CASE RejectMalformed(x)
    BY <1>0, <1>7 DEF TypeOK, RejectMalformed, Nak, Finish, BrokerStates, Stages, AckTries
<1>8. CASE Forward(x)
    BY <1>0, <1>8 DEF TypeOK, Forward, MoveTo, Stages
<1>9. QED
    BY <1>1, <1>2, <1>3, <1>4, <1>5, <1>6, <1>7, <1>8 DEF HandleMessage

\* A step of the handler leaves every variable in its range.
LEMMA HandlerTyping ==
    ASSUME TypeOK, NEW x \in Deliveries, Handler(x)
    PROVE  TypeOK'
<1> USE NatsQueueAssumption
<1>0. x[1] \in Msgs
    BY DEF Deliveries
<1>1. CASE Start(x)
    BY <1>0, <1>1 DEF TypeOK, Start, MoveTo, Stages, Busy, Verdicts
<1>2. CASE HandlerReturns(x)
    BY <1>0, <1>2 DEF TypeOK, HandlerReturns, MoveTo, AckStage, Stages, Busy, Verdicts
<1>3. CASE AckMark(x)
  <2>1. PICK o \in Answers(proc[x]) :
           Put(x, o, "processed") /\ (IF o = "ok" THEN MoveTo(x, "marked") ELSE AckFailed(x))
    BY <1>3 DEF AckMark
  <2>2. kv' \in [Ids -> LogStates]
    BY <2>1 DEF TypeOK, Put, LogStates
  <2>3. /\ stage' \in [Deliveries -> Stages]
        /\ proc' \in [Deliveries -> Procs \cup {NoProc}]
        /\ tries' \in [Deliveries -> 0 .. AckTries - 1]
    BY <2>1 DEF TypeOK, MoveTo, AckFailed, AckStage, AckTries, Finish, Stages, Busy
  <2>4. QED
    BY <1>3, <2>2, <2>3 DEF TypeOK, AckMark
<1>4. CASE AckConfirm(x)
    BY <1>0, <1>4 DEF TypeOK, AckConfirm, AckFailed, AckStage, AckTries, Finish, BrokerStates, Stages, Busy
<1>5. CASE ReleaseClaim(x)
    BY <1>0, <1>5 DEF TypeOK, ReleaseClaim, Put, MoveTo, LogStates, Stages, Busy
<1>6. CASE NakDelivery(x)
    BY <1>0, <1>6 DEF TypeOK, NakDelivery, Nak, Finish, BrokerStates, Stages, AckTries
<1>7. CASE Discard(x)
    BY <1>0, <1>7 DEF TypeOK, Discard, Term, Finish, BrokerStates, Stages, AckTries
<1>8. QED
    BY <1>1, <1>2, <1>3, <1>4, <1>5, <1>6, <1>7 DEF Handler

\* So does a step of the server, and one of a process's lifetime.
LEMMA SurroundingsTyping ==
    ASSUME TypeOK, Server \/ \E p \in Procs : Lifetime(p)
    PROVE  TypeOK'
<1> USE NatsQueueAssumption
<1>1. ASSUME NEW m \in Msgs, Push(m) \/ AckWaitLapse(m) \/ BecomeDue(m)
      PROVE  TypeOK'
    BY <1>1 DEF TypeOK, Push, AckWaitLapse, BecomeDue, BrokerStates
<1>2. ASSUME NEW p \in Procs, NEW m \in Msgs, Fetch(p, m)
      PROVE  TypeOK'
  <2>1. delivered[m] + 1 \in 1 .. MaxDelivery
    BY <1>2 DEF TypeOK, Fetch
  <2>2. delivered' \in [Msgs -> 0 .. MaxDelivery]
    BY <1>2, <2>1 DEF TypeOK, Fetch
  <2>3. broker' \in [Msgs -> BrokerStates]
    BY <1>2 DEF TypeOK, Fetch, BrokerStates
  <2>4. PICK d : /\ stage' = [stage EXCEPT ![d] = "batch"]
                 /\ proc' = [proc EXCEPT ![d] = p]
    BY <1>2 DEF Fetch
  <2>5. /\ stage' \in [Deliveries -> Stages]
        /\ proc' \in [Deliveries -> Procs \cup {NoProc}]
    BY <2>4 DEF TypeOK, Stages
  <2>6. QED
    BY <1>2, <2>2, <2>3, <2>5 DEF TypeOK, Fetch
<1>3. ASSUME NEW i \in Ids, Expire(i)
      PROVE  TypeOK'
    BY <1>3 DEF TypeOK, Expire, LogStates
<1>4. ASSUME NEW p \in Procs, Lifetime(p)
      PROVE  TypeOK'
  <2>1. CASE Cancel(p) \/ CloseConn(p)
    BY <2>1 DEF TypeOK, Cancel, CloseConn
  <2>2. CASE ProcessEnds(p)
    BY <2>2 DEF TypeOK, ProcessEnds, Stages, AckTries
  <2>3. QED
    BY <1>4, <2>1, <2>2 DEF Lifetime
<1>5. QED
    BY <1>1, <1>2, <1>3, <1>4 DEF Server

\* Every variable stays in its range; in particular the Ack attempts never
\* exceed those given to flow.RetryDelay (queue/consumer.go 175-178).
THEOREM Typing == Spec => []TypeOK
<1>1. Init => TypeOK
    BY NatsQueueAssumption
    DEF Init, TypeOK, BrokerStates, LogStates, Stages, AckTries, Verdicts
<1>2. TypeOK /\ [Next]_vars => TypeOK'
  <2>1. ASSUME TypeOK, UNCHANGED vars
        PROVE  TypeOK'
    BY <2>1 DEF TypeOK, vars
  <2>2. QED
    BY <2>1, HandleMessageTyping, HandlerTyping, SurroundingsTyping DEF Next
<1>3. QED
    BY <1>1, <1>2, PTL DEF Spec

----------------------------------------------------------------------------
(* What a delivery's stage says of its verdict.                              *)

Unsettled == {"none", "batch", "conflict", "claimed", "queued", "running"}

StageAgrees(x) ==
    /\ stage[x] \in Unsettled => verdict[x] = "none"
    /\ stage[x] \in {"acking", "marked"} => verdict[x] = "ok"
    /\ stage[x] \in {"releasing", "nakking"} => verdict[x] = "err"
    /\ stage[x] = "discarding" => verdict[x] = "discard"

\* A delivery the server has not made yet is nobody's.
Untouched(x) ==
    /\ x[2] > delivered[x[1]] => stage[x] = "none"
    /\ stage[x] = "none" => proc[x] = NoProc

VerdictInv == \A x \in Deliveries : StageAgrees(x) /\ Untouched(x)

\* A processed mark and a removal each have a verdict behind them.
MarkEarned ==
    \A i \in Ids : kv[i] = "processed" =>
        \E y \in Deliveries : Id(y) = i /\ verdict[y] = "ok"

RemovalInv == MarkEarned /\ RemovedOnlyIfSettled

\* Whoever holds or has settled an id has its claim in the log, and nobody
\* else holds it.
Final(x) == verdict[x] \in {"ok", "discard"}
Owns(x) == stage[x] \in Holding \/ Final(x)

ClaimInv ==
    LogKept => /\ \A x \in Deliveries :
                     Owns(x) => Id(x) \in Ids /\ kv[Id(x)] # "none"
               /\ \A x, y \in Deliveries :
                     Owns(x) /\ Owns(y) /\ Id(x) = Id(y) => x = y

\* Steps of one delivery keep VerdictInv: only Start and HandlerReturns decide,
\* and they decide a delivery that was undecided.
LEMMA VerdictStep ==
    ASSUME TypeOK, VerdictInv, NEW x \in Deliveries, HandleMessage(x) \/ Handler(x)
    PROVE  VerdictInv'
<1> USE DEF TypeOK, VerdictInv, StageAgrees, Untouched, Unsettled
<1>0. x[1] \in Msgs /\ x[2] \in 1 .. MaxDelivery
    BY DEF Deliveries
<1>1. CASE HandleMessage(x)
  <2>1. CASE DropUnidentified(x)
    BY <2>1 DEF DropUnidentified, AtHead, Finish
  <2>2. CASE Postpone(x)
    BY <2>2 DEF Postpone, AtHead, Finish
  <2>3. CASE Claim(x)
    BY <2>3 DEF Claim, Claimable, AtHead, MoveTo
  <2>4. CASE FindClaimed(x)
    BY <2>4 DEF FindClaimed, Claimable, AtHead, MoveTo
  <2>5. CASE FailToClaim(x)
    BY <2>5 DEF FailToClaim, Claimable, AtHead, Finish
  <2>6. CASE ResolveConflict(x)
    BY <2>6 DEF ResolveConflict, Finish
  <2>7. CASE RejectMalformed(x)
    BY <2>7 DEF RejectMalformed, Finish
  <2>8. CASE Forward(x)
    BY <2>8 DEF Forward, MoveTo
  <2>9. QED
    BY <1>1, <2>1, <2>2, <2>3, <2>4, <2>5, <2>6, <2>7, <2>8 DEF HandleMessage
<1>2. CASE Handler(x)
  <2>1. CASE Start(x)
    BY <2>1 DEF Start, MoveTo
  <2>2. CASE HandlerReturns(x)
    BY <2>2 DEF HandlerReturns, MoveTo, AckStage, Verdicts
  <2>3. CASE AckMark(x)
    BY <2>3 DEF AckMark, MoveTo, AckFailed, AckStage, Finish
  <2>4. CASE AckConfirm(x)
    BY <2>4 DEF AckConfirm, AckFailed, AckStage, Finish
  <2>5. CASE ReleaseClaim(x)
    BY <2>5 DEF ReleaseClaim, MoveTo
  <2>6. CASE NakDelivery(x)
    BY <2>6 DEF NakDelivery, Finish
  <2>7. CASE Discard(x)
    BY <2>7 DEF Discard, Finish
  <2>8. QED
    BY <1>2, <2>1, <2>2, <2>3, <2>4, <2>5, <2>6, <2>7 DEF Handler
<1>3. QED
    BY <1>1, <1>2

\* The rest of the system touches a delivery to make it or to end it.
LEMMA VerdictSurroundings ==
    ASSUME TypeOK, VerdictInv, Server \/ \E p \in Procs : Lifetime(p)
    PROVE  VerdictInv'
<1> USE DEF TypeOK, VerdictInv, StageAgrees, Untouched, Unsettled
<1>1. ASSUME NEW m \in Msgs, Push(m) \/ AckWaitLapse(m) \/ BecomeDue(m)
      PROVE  VerdictInv'
    BY <1>1 DEF Push, AckWaitLapse, BecomeDue
<1>2. ASSUME NEW p \in Procs, NEW m \in Msgs, Fetch(p, m)
      PROVE  VerdictInv'
  <2> DEFINE d == <<m, delivered[m] + 1>>
  <2>1. /\ d \in Deliveries
        /\ d[1] = m
        /\ d[2] > delivered[m]
    <3>1. delivered[m] + 1 \in 1 .. MaxDelivery
      BY <1>2, NatsQueueAssumption DEF Fetch
    <3>2. d \in Deliveries
      BY <3>1 DEF Deliveries
    <3>3. QED
      BY <3>1, <3>2
  <2>2. /\ stage' = [stage EXCEPT ![d] = "batch"]
        /\ delivered' = [delivered EXCEPT ![m] = @ + 1]
        /\ proc' = [proc EXCEPT ![d] = p]
        /\ verdict' = verdict
    BY <1>2 DEF Fetch
  <2>3. verdict[d] = "none"
    BY <2>1
  <2>4. ASSUME NEW y \in Deliveries
        PROVE  StageAgrees(y)'
    BY <2>1, <2>2, <2>3
  <2>5. ASSUME NEW y \in Deliveries
        PROVE  Untouched(y)'
    <3>1. y[1] \in Msgs /\ y[2] \in 1 .. MaxDelivery /\ y = <<y[1], y[2]>>
      BY DEF Deliveries
    <3>2. CASE y = d
      BY <2>1, <2>2, <3>2
    <3>3. CASE y # d
      BY <2>1, <2>2, <3>1, <3>3
    <3>4. QED
      BY <3>2, <3>3
  <2>6. QED
    BY <2>4, <2>5
<1>3. ASSUME NEW i \in Ids, Expire(i)
      PROVE  VerdictInv'
    BY <1>3 DEF Expire
<1>4. ASSUME NEW p \in Procs, Lifetime(p)
      PROVE  VerdictInv'
  <2>1. CASE Cancel(p) \/ CloseConn(p)
    BY <2>1 DEF Cancel, CloseConn
  <2>2. CASE ProcessEnds(p)
    <3>1. ASSUME NEW y \in Deliveries, proc[y] = p
          PROVE  StageAgrees(y)' /\ Untouched(y)'
      BY <2>2, <3>1, NatsQueueAssumption DEF ProcessEnds
    <3>2. ASSUME NEW y \in Deliveries, proc[y] # p
          PROVE  StageAgrees(y)' /\ Untouched(y)'
      BY <2>2, <3>2 DEF ProcessEnds
    <3>3. QED
      BY <3>1, <3>2
  <2>3. QED
    BY <1>4, <2>1, <2>2 DEF Lifetime
<1>5. QED
    BY <1>1, <1>2, <1>3, <1>4 DEF Server

\* VerdictInv holds throughout.
LEMMA VerdictsAgree == Spec => [](TypeOK /\ VerdictInv)
<1>1. Init => VerdictInv
  BY NatsQueueAssumption
  DEF Init, VerdictInv, StageAgrees, Untouched, Unsettled, Deliveries
<1>2. TypeOK /\ VerdictInv /\ [Next]_vars => VerdictInv'
  <2>1. ASSUME VerdictInv, UNCHANGED vars
        PROVE  VerdictInv'
    BY <2>1 DEF VerdictInv, StageAgrees, Untouched, vars
  <2>2. QED
    BY <2>1, VerdictStep, VerdictSurroundings DEF Next
<1>3. QED
  BY <1>1, <1>2, Typing, PTL DEF Spec

\* A final verdict is never revised.
LEMMA FinalStays ==
    ASSUME TypeOK, VerdictInv, [Next]_vars, NEW y \in Deliveries, Final(y)
    PROVE  verdict'[y] = verdict[y]
<1> USE DEF TypeOK, VerdictInv, StageAgrees, Unsettled, Final
<1>1. ASSUME NEW x \in Deliveries, HandleMessage(x)
      PROVE  verdict' = verdict
    BY <1>1 DEF HandleMessage, DropUnidentified, Postpone, Claim, FindClaimed, FailToClaim,
                ResolveConflict, RejectMalformed, Forward
<1>2. ASSUME NEW x \in Deliveries, Handler(x)
      PROVE  verdict'[y] = verdict[y]
  <2>1. CASE Start(x)
    BY <2>1 DEF Start
  <2>2. CASE HandlerReturns(x)
    BY <2>2 DEF HandlerReturns
  <2>3. CASE ~ Start(x) /\ ~ HandlerReturns(x)
    BY <1>2, <2>3 DEF Handler, AckMark, AckConfirm, ReleaseClaim, NakDelivery, Discard
  <2>4. QED
    BY <2>1, <2>2, <2>3
<1>3. CASE Server \/ \E p \in Procs : Lifetime(p)
    BY <1>3 DEF Server, Push, AckWaitLapse, BecomeDue, Fetch, Expire,
                Lifetime, Cancel, CloseConn, ProcessEnds
<1>4. CASE UNCHANGED vars
    BY <1>4 DEF vars
<1>5. QED
    BY <1>1, <1>2, <1>3, <1>4 DEF Next

----------------------------------------------------------------------------
(* Removal.                                                                  *)

\* Who removes what: Term for want of an id or for a processed mark, Ack, and
\* Term for a discarded job.
LEMMA Removals ==
    ASSUME TypeOK, [Next]_vars, NEW m \in Msgs, broker'[m] = "gone", broker[m] # "gone"
    PROVE  \E x \in Deliveries :
              /\ x[1] = m
              /\ \/ Id(x) = NoId
                 \/ kv[Id(x)] = "processed"
                 \/ stage[x] \in {"marked", "discarding"}
<1> USE DEF TypeOK
<1>1. ASSUME NEW x \in Deliveries, HandleMessage(x)
      PROVE  x[1] = m /\ (Id(x) = NoId \/ kv[Id(x)] = "processed")
  <2>1. CASE DropUnidentified(x)
    BY <2>1 DEF DropUnidentified, Term
  <2>2. CASE Postpone(x)
    BY <2>2 DEF Postpone
  <2>3. CASE Claim(x) \/ FindClaimed(x) \/ Forward(x)
    BY <2>3 DEF Claim, FindClaimed, Forward
  <2>4. CASE FailToClaim(x) \/ RejectMalformed(x)
    BY <2>4 DEF FailToClaim, RejectMalformed, Nak
  <2>5. CASE ResolveConflict(x)
    BY <2>5 DEF ResolveConflict, Nak, Term
  <2>6. QED
    BY <1>1, <2>1, <2>2, <2>3, <2>4, <2>5 DEF HandleMessage
<1>2. ASSUME NEW x \in Deliveries, Handler(x)
      PROVE  x[1] = m /\ stage[x] \in {"marked", "discarding"}
  <2>1. CASE AckConfirm(x)
    BY <2>1 DEF AckConfirm
  <2>2. CASE Discard(x)
    BY <2>2 DEF Discard, Term
  <2>3. CASE NakDelivery(x)
    BY <2>3 DEF NakDelivery, Nak
  <2>4. CASE Start(x) \/ HandlerReturns(x) \/ AckMark(x) \/ ReleaseClaim(x)
    BY <2>4 DEF Start, HandlerReturns, AckMark, ReleaseClaim
  <2>5. QED
    BY <1>2, <2>1, <2>2, <2>3, <2>4 DEF Handler
<1>3. ~ (Server \/ \E p \in Procs : Lifetime(p))
    BY DEF Server, Push, AckWaitLapse, BecomeDue, Fetch, Expire,
           Lifetime, Cancel, CloseConn, ProcessEnds
<1>4. CASE UNCHANGED vars
    BY <1>4 DEF vars
<1>5. QED
    BY <1>1, <1>2, <1>3, <1>4 DEF Next

\* Who marks an id processed: a delivery that is acking.
LEMMA Marks ==
    ASSUME TypeOK, [Next]_vars, NEW i \in Ids, kv'[i] = "processed", kv[i] # "processed"
    PROVE  \E x \in Deliveries : Id(x) = i /\ stage[x] = "acking"
<1> USE DEF TypeOK
<1>1. ASSUME NEW x \in Deliveries, HandleMessage(x)
      PROVE  FALSE
    BY <1>1 DEF HandleMessage, DropUnidentified, Postpone, Claim, FindClaimed, FailToClaim, Put,
                ResolveConflict, RejectMalformed, Forward
<1>2. ASSUME NEW x \in Deliveries, Handler(x)
      PROVE  Id(x) = i /\ stage[x] = "acking"
  <2>1. CASE AckMark(x)
    BY <2>1 DEF AckMark, Put
  <2>2. CASE ReleaseClaim(x)
    BY <2>2 DEF ReleaseClaim, Put
  <2>3. QED
    BY <1>2, <2>1, <2>2 DEF Handler, Start, HandlerReturns, AckConfirm, NakDelivery, Discard
<1>3. ~ (Server \/ \E p \in Procs : Lifetime(p))
    BY DEF Server, Push, AckWaitLapse, BecomeDue, Fetch, Expire,
           Lifetime, Cancel, CloseConn, ProcessEnds
<1>4. CASE UNCHANGED vars
    BY <1>4 DEF vars
<1>5. QED
    BY <1>1, <1>2, <1>3, <1>4 DEF Next

\* RemovalInv holds throughout.
LEMMA RemovalsEarned == Spec => []RemovalInv
<1>1. Init => RemovalInv
    BY DEF Init, RemovalInv, MarkEarned, RemovedOnlyIfSettled
<1>2. TypeOK /\ VerdictInv /\ RemovalInv /\ [Next]_vars => RemovalInv'
  <2> SUFFICES ASSUME TypeOK, VerdictInv, RemovalInv, [Next]_vars
               PROVE  RemovalInv'
    OBVIOUS
  <2>1. ASSUME NEW i \in Ids, kv'[i] = "processed"
        PROVE  \E y \in Deliveries : Id(y) = i /\ verdict'[y] = "ok"
    <3>1. PICK y \in Deliveries : Id(y) = i /\ verdict[y] = "ok"
      BY <2>1, Marks DEF RemovalInv, MarkEarned, VerdictInv, StageAgrees
    <3>2. QED
      BY <3>1, FinalStays DEF Final
  <2>2. ASSUME NEW m \in Msgs, broker'[m] = "gone"
        PROVE  \/ IdOf[m] = NoId
               \/ \E k \in 1 .. MaxDelivery : verdict'[<<m, k>>] \in {"ok", "discard"}
               \/ \E y \in Deliveries : Id(y) = IdOf[m] /\ verdict'[y] = "ok"
    <3>1. \A k \in 1 .. MaxDelivery : <<m, k>> \in Deliveries
      BY DEF Deliveries
    <3>2. CASE broker[m] = "gone"
      BY <3>1, <3>2, FinalStays DEF RemovalInv, RemovedOnlyIfSettled, Final
    <3>3. CASE broker[m] # "gone"
      <4>1. PICK x \in Deliveries :
               /\ x[1] = m
               /\ \/ Id(x) = NoId
                  \/ kv[Id(x)] = "processed"
                  \/ stage[x] \in {"marked", "discarding"}
        BY <2>2, <3>3, Removals
      <4>2. Id(x) = IdOf[m] /\ x[2] \in 1 .. MaxDelivery /\ x = <<m, x[2]>>
        BY <4>1 DEF Id, Deliveries
      <4>3. CASE Id(x) # NoId /\ kv[Id(x)] = "processed"
        <5>1. Id(x) \in Ids
          BY <4>2, <4>3, NatsQueueAssumption
        <5>2. QED
          BY <4>2, <4>3, <5>1, FinalStays DEF RemovalInv, MarkEarned, Final
      <4>4. CASE stage[x] \in {"marked", "discarding"}
        <5>1. Final(x)
          BY <4>4 DEF VerdictInv, StageAgrees, Final
        <5>2. QED
          BY <4>2, <5>1, FinalStays DEF Final
      <4>5. QED
        BY <4>1, <4>2, <4>3, <4>4
    <3>4. QED
      BY <3>2, <3>3
  <2>3. QED
    BY <2>1, <2>2 DEF RemovalInv, MarkEarned, RemovedOnlyIfSettled, Id
<1>3. QED
    BY <1>1, <1>2, VerdictsAgree, PTL DEF Spec

\* In every environment, and with the log on or off, the server forgets a
\* message only if it had no id, one of its deliveries succeeded or discarded
\* it, or a message with its id succeeded: neither Ack nor any of the Terms
\* removes a job nobody finished (nats/consumer.go 179-219, nats/message.go
\* 36-53).
THEOREM RemovalIsEarned == Spec => []RemovedOnlyIfSettled
<1>1. RemovalInv => RemovedOnlyIfSettled
    BY DEF RemovalInv
<1>2. QED
    BY <1>1, RemovalsEarned, PTL

----------------------------------------------------------------------------
(* Claims.                                                                   *)

\* What a step does to the set of owners and to the log: nobody comes to own
\* an id except by claiming it while the log has no entry for it, and an entry
\* goes only when its owner, whose attempt failed, gives it up.
LEMMA ClaimSteps ==
    ASSUME TypeOK, VerdictInv, ClaimInv, LogKept, [Next]_vars
    PROVE  \/ /\ \A y \in Deliveries : Owns(y)' => Owns(y)
              /\ \A i \in Ids : kv[i] # "none" => kv'[i] # "none"
           \/ \E x \in Deliveries :
                 /\ Claim(x)
                 /\ verdict' = verdict
           \/ \E x \in Deliveries : ReleaseClaim(x)
<1> USE DEF TypeOK, VerdictInv, StageAgrees, Unsettled, Holding, Busy, Owns, Final
<1> DEFINE Tame == /\ \A y \in Deliveries : Owns(y)' => Owns(y)
                   /\ \A i \in Ids : kv[i] # "none" => kv'[i] # "none"
<1>1. ASSUME NEW x \in Deliveries, HandleMessage(x)
      PROVE  Tame \/ (Claim(x) /\ verdict' = verdict)
  <2>1. CASE Claim(x)
    BY <2>1 DEF Claim
  <2>2. CASE DropUnidentified(x) \/ Postpone(x)
    BY <2>2 DEF DropUnidentified, Postpone, Finish
  <2>3. CASE FindClaimed(x) \/ Forward(x)
    BY <2>3 DEF FindClaimed, Forward, MoveTo
  <2>4. CASE FailToClaim(x)
    BY <2>4 DEF FailToClaim, Put, Finish
  <2>5. CASE ResolveConflict(x) \/ RejectMalformed(x)
    BY <2>5 DEF ResolveConflict, RejectMalformed, Finish
  <2>6. QED
    BY <1>1, <2>1, <2>2, <2>3, <2>4, <2>5 DEF HandleMessage
<1>2. ASSUME NEW x \in Deliveries, Handler(x)
      PROVE  Tame \/ ReleaseClaim(x)
  <2>1. CASE Start(x)
    BY <2>1 DEF Start, MoveTo
  <2>2. CASE HandlerReturns(x)
    BY <2>2 DEF HandlerReturns, MoveTo
  <2>3. CASE AckMark(x)
    BY <2>3 DEF AckMark, Put, MoveTo, AckFailed, AckStage, Finish
  <2>4. CASE AckConfirm(x)
    BY <2>4 DEF AckConfirm, AckFailed, AckStage, Finish
  <2>5. CASE NakDelivery(x) \/ Discard(x)
    BY <2>5 DEF NakDelivery, Discard, Finish
  <2>6. QED
    BY <1>2, <2>1, <2>2, <2>3, <2>4, <2>5 DEF Handler
<1>3. ASSUME NEW m \in Msgs, Push(m) \/ AckWaitLapse(m) \/ BecomeDue(m)
      PROVE  Tame
    BY <1>3 DEF Push, AckWaitLapse, BecomeDue
<1>4. ASSUME NEW p \in Procs, NEW m \in Msgs, Fetch(p, m)
      PROVE  Tame
    BY <1>4 DEF Fetch
<1>5. \A i \in Ids : ~ Expire(i)
    BY DEF Expire, LogKept
<1>6. ASSUME NEW p \in Procs, Lifetime(p)
      PROVE  Tame
    BY <1>6 DEF Lifetime, Cancel, CloseConn, ProcessEnds
<1>7. CASE UNCHANGED vars
    BY <1>7 DEF vars
<1>8. QED
    BY <1>1, <1>2, <1>3, <1>4, <1>5, <1>6, <1>7 DEF Next, Server

\* ClaimInv holds throughout.
LEMMA ClaimsExclusive == Spec => []ClaimInv
<1>1. Init => ClaimInv
    BY DEF Init, ClaimInv, Owns, Final, Holding, Busy
<1>2. TypeOK /\ VerdictInv /\ ClaimInv /\ [Next]_vars => ClaimInv'
  <2> SUFFICES ASSUME TypeOK, VerdictInv, ClaimInv, [Next]_vars, LogKept
               PROVE  ClaimInv'
    BY DEF ClaimInv, LogKept
  <2> DEFINE Tame == /\ \A y \in Deliveries : Owns(y)' => Owns(y)
                     /\ \A i \in Ids : kv[i] # "none" => kv'[i] # "none"
  <2>0. \A y \in Deliveries : Id(y) \in Ids \cup {NoId}
    BY NatsQueueAssumption DEF Id, Deliveries
  <2>1. CASE Tame
    BY <2>0, <2>1 DEF ClaimInv, Id
  <2>2. ASSUME NEW x \in Deliveries, Claim(x), verdict' = verdict
        PROVE  ClaimInv'
    <3>1. /\ Id(x) \in Ids
          /\ kv[Id(x)] = "none"
          /\ kv' = [kv EXCEPT ![Id(x)] = "processing"]
          /\ stage' = [stage EXCEPT ![x] = "claimed"]
      BY <2>2, <2>0 DEF Claim, Claimable, MoveTo, LogKept
    <3>2. \A y \in Deliveries : Owns(y) => Id(y) # Id(x)
      BY <3>1 DEF ClaimInv
    <3>3. \A y \in Deliveries : Owns(y)' => Owns(y) \/ y = x
      BY <2>2, <3>1 DEF TypeOK, Owns, Final, Holding, Busy
    <3>4. \A y \in Deliveries : Owns(y)' => Id(y) \in Ids /\ kv'[Id(y)] # "none"
      BY <3>1, <3>2, <3>3 DEF TypeOK, ClaimInv
    <3>5. QED
      BY <3>2, <3>3, <3>4 DEF ClaimInv, Id
  <2>3. ASSUME NEW x \in Deliveries, ReleaseClaim(x)
        PROVE  ClaimInv'
    <3>1. /\ stage[x] = "releasing"
          /\ verdict[x] = "err"
          /\ verdict' = verdict
          /\ stage' = [stage EXCEPT ![x] = "nakking"]
          /\ \A i \in Ids : i # Id(x) => kv'[i] = kv[i]
      BY <2>3 DEF TypeOK, VerdictInv, StageAgrees, ReleaseClaim, MoveTo, Put
    <3>2. Owns(x) /\ ~ Owns(x)'
      BY <3>1 DEF TypeOK, Owns, Final, Holding, Busy
    <3>3. \A y \in Deliveries : Owns(y)' => Owns(y) /\ y # x
      BY <3>1, <3>2 DEF TypeOK, Owns, Final
    <3>4. \A y \in Deliveries : Owns(y)' => Id(y) # Id(x)
      BY <3>2, <3>3 DEF ClaimInv
    <3>5. \A y \in Deliveries : Owns(y)' => Id(y) \in Ids /\ kv'[Id(y)] # "none"
      BY <3>1, <3>3, <3>4 DEF ClaimInv
    <3>6. QED
      BY <3>3, <3>5 DEF ClaimInv, Id
  <2>4. QED
    BY <2>1, <2>2, <2>3, ClaimSteps
<1>3. QED
    BY <1>1, <1>2, VerdictsAgree, PTL DEF Spec

\* Deliveries of one id may overlap in any number of processes, replies may be
\* lost and processes may die at any point: at most one is ever between its
\* claim and the end of its settling (nats/consumer.go 198-228, nats/message.go
\* 36-64).
THEOREM OneHolder == Spec => []SingleHolder
<1>1. ClaimInv => SingleHolder
    BY DEF ClaimInv, SingleHolder, Owns
<1>2. QED
    BY <1>1, ClaimsExclusive, PTL

\* ... and at most one ever comes to a final decision: once a handler has
\* succeeded or discarded the job, no other delivery of its id runs to one,
\* even when the Ack or Term is lost (nats/consumer.go 205-219).
THEOREM OneSettlement == Spec => []SettledOnce
<1>1. ClaimInv => SettledOnce
    BY DEF ClaimInv, SettledOnce, Owns, Final
<1>2. QED
    BY <1>1, ClaimsExclusive, PTL

\* Nothing takes a processed mark back while the log is kept: the Delete in
\* Nack names no owner, but the only entry it can meet is its own delivery's
\* (nats/message.go 57-62).
THEOREM MarksLast == Spec => MarkStays
<1>1. TypeOK /\ VerdictInv /\ ClaimInv /\ RemovalInv /\ [Next]_vars
        => [LogKept => \A i \in Ids : kv[i] = "processed" => kv'[i] = "processed"]_vars
  <2> SUFFICES ASSUME TypeOK, VerdictInv, ClaimInv, RemovalInv, [Next]_vars, LogKept,
                      NEW i \in Ids, kv[i] = "processed"
               PROVE  kv'[i] = "processed"
    OBVIOUS
  <2>1. PICK y \in Deliveries : Id(y) = i /\ verdict[y] = "ok"
    BY DEF RemovalInv, MarkEarned
  <2>2. ASSUME NEW x \in Deliveries, HandleMessage(x)
        PROVE  kv'[i] = kv[i]
    BY <2>2 DEF TypeOK, LogKept, HandleMessage, DropUnidentified, Postpone, Claim, FindClaimed,
                FailToClaim, Put, ResolveConflict, RejectMalformed, Forward
  <2>3. ASSUME NEW x \in Deliveries, Handler(x)
        PROVE  kv'[i] = "processed"
    <3>1. CASE AckMark(x)
      BY <3>1 DEF TypeOK, AckMark, Put
    <3>2. CASE ReleaseClaim(x)
      <4>1. Owns(x) /\ x # y
        BY <2>1, <3>2 DEF VerdictInv, StageAgrees, ReleaseClaim, Owns, Holding, Busy
      <4>2. Owns(y)
        BY <2>1 DEF Owns, Final
      <4>3. Id(x) # i
        BY <2>1, <4>1, <4>2 DEF ClaimInv
      <4>4. QED
        BY <3>2, <4>3 DEF TypeOK, ReleaseClaim, Put
    <3>3. QED
      BY <2>3, <3>1, <3>2 DEF Handler, Start, HandlerReturns, AckConfirm, NakDelivery, Discard
  <2>4. CASE Server \/ \E p \in Procs : Lifetime(p)
    BY <2>4 DEF LogKept, Server, Push, AckWaitLapse, BecomeDue, Fetch, Expire,
                Lifetime, Cancel, CloseConn, ProcessEnds
  <2>5. CASE UNCHANGED vars
    BY <2>5 DEF vars
  <2>6. QED
    BY <2>2, <2>3, <2>4, <2>5 DEF Next
<1>2. QED
    BY <1>1, VerdictsAgree, ClaimsExclusive, RemovalsEarned, PTL DEF Spec, MarkStays

----------------------------------------------------------------------------
(* Orphans.                                                                  *)

\* Calls answer and processes live.
Calm == Env \subseteq {"expiry"}

\* A claim in progress may be x's.
Claimant(x) ==
    \/ stage[x] \in Holding \ {"marked"}
    \/ verdict[x] = "discard"
    \/ x[1] \in Malformed /\ stage[x] = "done"

Claimed(i) == \E x \in Deliveries : Id(x) = i /\ Claimant(x)

\* Live deliveries are in serving processes, an entry in progress has a
\* claimant, and without the log there are no entries.
OrphanInv ==
    Calm =>
        /\ \A p \in Procs : mode[p] = "run"
        /\ \A x \in Deliveries :
              /\ Live(x) => proc[x] \in Procs
              /\ stage[x] \in {"acking", "releasing"} => ProcessLogEnabled
        /\ \A i \in Ids : ProcessLogEnabled \/ kv[i] = "none"
        /\ \A i \in Ids : kv[i] = "processing" => Claimed(i)

\* In calm every call of a live delivery is answered.
LEMMA CalmAnswers ==
    ASSUME Calm, OrphanInv, NEW x \in Deliveries, Live(x)
    PROVE  Answers(proc[x]) = {"ok"}
BY DEF Calm, OrphanInv, Answers

\* A step of one delivery leaves the others where they are, and is a claim, a
\* mark, a release, or changes neither the log nor who claims.
LEMMA OrphanStep ==
    ASSUME TypeOK, VerdictInv, OrphanInv, Calm,
           NEW x \in Deliveries, HandleMessage(x) \/ Handler(x)
    PROVE  OrphanInv'
<1> USE DEF TypeOK
<1> DEFINE Others == /\ mode' = mode
                     /\ \A y \in Deliveries : y # x =>
                           /\ stage'[y] = stage[y] /\ proc'[y] = proc[y]
                           /\ verdict'[y] = verdict[y]
           Placed == /\ Live(x)' => proc'[x] = proc[x] /\ Live(x)
                     /\ stage'[x] \in {"acking", "releasing"} => ProcessLogEnabled
<1>0. Id(x) \in Ids \cup {NoId}
    BY NatsQueueAssumption DEF Id, Deliveries
<1>1. Others /\ Placed
  <2>1. CASE HandleMessage(x)
    BY <2>1 DEF HandleMessage, DropUnidentified, Postpone, Claim, Claimable, AtHead,
                FindClaimed, FailToClaim, ResolveConflict, RejectMalformed, Forward,
                MoveTo, Finish, Live
  <2>2. CASE Start(x) \/ HandlerReturns(x)
    BY <2>2 DEF Start, HandlerReturns, AckStage, Verdicts, MoveTo, Live
  <2>3. CASE AckMark(x) \/ AckConfirm(x)
    BY <2>3 DEF AckMark, AckConfirm, AckFailed, AckStage, MoveTo, Finish, Live
  <2>4. CASE ReleaseClaim(x) \/ NakDelivery(x) \/ Discard(x)
    BY <2>4 DEF ReleaseClaim, NakDelivery, Discard, MoveTo, Finish, Live
  <2> QED
    BY <2>1, <2>2, <2>3, <2>4 DEF Handler
<1>2. \/ kv' = kv /\ (ProcessLogEnabled /\ Claimant(x) => Claimant(x)')
      \/ /\ ProcessLogEnabled /\ Claimant(x)'
         /\ kv' = [kv EXCEPT ![Id(x)] = "processing"]
      \/ ProcessLogEnabled /\ kv' = [kv EXCEPT ![Id(x)] = "processed"]
      \/ ProcessLogEnabled /\ kv' = [kv EXCEPT ![Id(x)] = "none"]
  <2> USE DEF Claimant, Holding, Busy
  <2>1. CASE DropUnidentified(x) \/ Postpone(x)
    BY <2>1 DEF DropUnidentified, Postpone, AtHead, Finish
  <2>2. CASE Claim(x)
    BY <2>2 DEF Claim, MoveTo
  <2>3. CASE FindClaimed(x)
    BY <2>3 DEF FindClaimed, Claimable, AtHead, MoveTo
  <2>4. CASE FailToClaim(x)
    BY <2>4, CalmAnswers DEF FailToClaim, Claimable, AtHead, Live
  <2>5. CASE ResolveConflict(x) \/ RejectMalformed(x)
    BY <2>5 DEF ResolveConflict, RejectMalformed, Finish
  <2>6. CASE Forward(x) \/ Start(x)
    BY <2>6 DEF Forward, Start, MoveTo
  <2>7. CASE HandlerReturns(x)
    BY <2>7 DEF HandlerReturns, AckStage, Verdicts, MoveTo
  <2>8. CASE AckMark(x)
    BY <2>8, CalmAnswers DEF AckMark, Put, OrphanInv, Live
  <2>9. CASE AckConfirm(x)
    BY <2>9, CalmAnswers DEF AckConfirm, Finish, VerdictInv, StageAgrees, Live
  <2>10. CASE ReleaseClaim(x)
    BY <2>10, CalmAnswers DEF ReleaseClaim, Put, OrphanInv, Live
  <2>11. CASE NakDelivery(x) \/ Discard(x)
    BY <2>11 DEF NakDelivery, Discard, Finish, VerdictInv, StageAgrees
  <2> QED
    BY <2>1, <2>2, <2>3, <2>4, <2>5, <2>6, <2>7, <2>8, <2>9, <2>10, <2>11
    DEF HandleMessage, Handler
<1>3. \A y \in Deliveries : y # x => (Claimant(y)' <=> Claimant(y)) /\ (Live(y)' <=> Live(y))
    BY <1>1 DEF Claimant, Live
<1>4. \A i \in Ids : kv'[i] = "processing" => Claimed(i)'
  <2> SUFFICES ASSUME NEW i \in Ids, kv'[i] = "processing"
               PROVE  Claimed(i)'
    OBVIOUS
  <2>1. CASE i = Id(x) /\ kv' # kv
    BY <1>2, <2>1 DEF Claimed, Id
  <2>2. CASE i # Id(x) \/ kv' = kv
    <3>1. kv[i] = "processing" /\ ProcessLogEnabled
      BY <1>2, <2>2 DEF OrphanInv
    <3>2. PICK y \in Deliveries : Id(y) = i /\ Claimant(y)
      BY <3>1 DEF OrphanInv, Claimed
    <3>3. CASE y = x
      <4>1. kv' = kv \/ Claimant(x)'
        BY <1>2, <2>2, <3>2, <3>3
      <4>2. Claimant(x)'
        BY <1>2, <3>1, <3>2, <3>3, <4>1
      <4> QED
        BY <3>2, <3>3, <4>2 DEF Claimed, Id
    <3>4. CASE y # x
      BY <1>3, <3>2, <3>4 DEF Claimed, Id
    <3> QED
      BY <3>3, <3>4
  <2> QED
    BY <2>1, <2>2
<1>5. \A i \in Ids : ProcessLogEnabled \/ kv'[i] = "none"
    BY <1>2 DEF OrphanInv
<1>6. \A y \in Deliveries :
         /\ Live(y)' => proc'[y] \in Procs
         /\ stage'[y] \in {"acking", "releasing"} => ProcessLogEnabled
    BY <1>1, <1>3 DEF OrphanInv
<1> QED
    BY <1>1, <1>4, <1>5, <1>6 DEF OrphanInv

LEMMA OrphanSurroundings ==
    ASSUME TypeOK, VerdictInv, OrphanInv, Calm, Server \/ \E p \in Procs : Lifetime(p)
    PROVE  OrphanInv'
<1> USE DEF TypeOK, OrphanInv, Claimed, Claimant, Live
<1>1. ASSUME NEW m \in Msgs, Push(m) \/ AckWaitLapse(m) \/ BecomeDue(m)
      PROVE  OrphanInv'
    BY <1>1 DEF Push, AckWaitLapse, BecomeDue, Id
<1>2. ASSUME NEW p \in Procs, NEW m \in Msgs, Fetch(p, m)
      PROVE  OrphanInv'
  <2>1. PICK d \in Deliveries :
           /\ stage[d] = "none"
           /\ stage' = [stage EXCEPT ![d] = "batch"]
           /\ proc' = [proc EXCEPT ![d] = p]
    <3>1. delivered[m] + 1 \in 1 .. MaxDelivery /\ delivered[m] + 1 > delivered[m]
      BY <1>2, NatsQueueAssumption DEF Fetch
    <3>2. <<m, delivered[m] + 1>> \in Deliveries
      BY <3>1 DEF Deliveries
    <3>3. stage[<<m, delivered[m] + 1>>] = "none"
      BY <3>1, <3>2 DEF VerdictInv, Untouched
    <3> QED
      BY <1>2, <3>2, <3>3 DEF Fetch
  <2>2. \A y \in Deliveries : Claimant(y) => Claimant(y)'
    BY <1>2, <2>1 DEF Fetch, Holding, Busy
  <2>3. \A i \in Ids : kv'[i] = "processing" => Claimed(i)'
    BY <1>2, <2>2 DEF Fetch, Id
  <2> QED
    BY <1>2, <2>1, <2>3 DEF Fetch
<1>3. ASSUME NEW i \in Ids, Expire(i)
      PROVE  OrphanInv'
    BY <1>3 DEF Expire, Id
<1>4. ASSUME NEW p \in Procs, Lifetime(p)
      PROVE  OrphanInv'
    BY <1>4 DEF Lifetime, Cancel, CloseConn, ProcessEnds, Calm
<1> QED
    BY <1>1, <1>2, <1>3, <1>4 DEF Server

\* While calls answer and processes live, a claim in progress is that of a
\* delivery that is being worked on, was discarded, or had a malformed body,
\* however many claims expire under their holders (nats/consumer.go 185-233).
THEOREM ClaimsAreOwned == Spec => []NoOrphanClaims
<1>1. Init => OrphanInv
    BY DEF Init, OrphanInv, Live
<1>2. TypeOK /\ VerdictInv /\ OrphanInv /\ [Next]_vars => OrphanInv'
  <2>1. ASSUME OrphanInv, UNCHANGED vars PROVE OrphanInv'
    BY <2>1 DEF OrphanInv, Claimed, Claimant, Live, Id, vars
  <2>2. CASE ~ Calm
    BY <2>2 DEF OrphanInv, Calm
  <2> QED
    BY <2>1, <2>2, OrphanStep, OrphanSurroundings DEF Next
<1>3. OrphanInv => NoOrphanClaims
    BY DEF OrphanInv, NoOrphanClaims, Calm, Claimed, Claimant
<1> QED
    BY <1>1, <1>2, <1>3, VerdictsAgree, PTL DEF Spec
=============================================================================
