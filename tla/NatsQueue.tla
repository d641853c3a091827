----------------------------- MODULE NatsQueue -----------------------------
(* The NATS JetStream queue driver (queue/nats) under the job consumer       *)
(* (queue/consumer.go): processes sharing one JetStream consumer fetch       *)
(* messages, claim the message's id in the processed log (a KV bucket), run  *)
(* the handler and settle the delivery.                                      *)
(*                                                                           *)
(* A delivery is a message and its delivery count, so a redelivered message  *)
(* is a second delivery, possibly in another process, while the first is     *)
(* still being worked on.  Time is abstract: the server's ack-wait may lapse *)
(* whenever a delivery is unsettled.                                         *)
EXTENDS Integers, FiniteSets

CONSTANTS
    Msgs,               \* messages the producers push
    Ids, NoId,          \* Nats-Msg-Id values, and the empty header
    IdOf,               \* the id each message carries
    Procs, NoProc,      \* consumer processes
    Delayed,            \* messages pushed with After or At
    Malformed,          \* messages whose body is not a job
    Unhandled,          \* messages whose task has no registered handler
    MaxDelivery,        \* ConsumerOpts.MaxDelivery of the driver
    Concurrency,        \* ConsumerOpts.Concurrency
    ProcessLogEnabled,  \* ConsumerOpts.ProcessLogEnabled
    Env                 \* what may go wrong: "fault", "expiry", "crash", "shutdown"

ASSUME NatsQueueAssumption ==
    /\ NoId \notin Ids
    /\ IdOf \in [Msgs -> Ids \cup {NoId}]
    /\ NoProc \notin Procs
    /\ Delayed \cup Malformed \cup Unhandled \subseteq Msgs
    /\ MaxDelivery \in Nat \ {0}
    /\ Concurrency \in Nat \ {0}
    /\ ProcessLogEnabled \in BOOLEAN
    /\ Env \subseteq {"fault", "expiry", "crash", "shutdown"}

VARIABLES
    broker,     \* the server's record of each message
    delivered,  \* how often the server has delivered it
    due,        \* messages whose Nak-Until time has passed
    kv,         \* the processed log
    stage,      \* how far each delivery has got
    proc,       \* the process that holds it
    tries,      \* failed Ack attempts of a delivery
    mode,       \* consumer processes: serving, ctx cancelled, driver closed
    verdict     \* history: what the handler of a delivery decided

vars == <<broker, delivered, due, kv, stage, proc, tries, mode, verdict>>

Deliveries == Msgs \X (1 .. MaxDelivery)
Id(x) == IdOf[x[1]]
Same(x) == {y \in Deliveries : Id(y) = Id(x)}

BrokerStates == {"unsent", "ready", "pending", "postponed", "gone"}
LogStates == {"none", "processing", "processed"}
Verdicts == {"none", "ok", "err", "discard"}

\* Consumer.handler is executing the delivery.
Busy == {"running", "acking", "marked", "releasing", "nakking", "discarding"}
Stages == {"none", "batch", "conflict", "claimed", "queued", "done"} \cup Busy
\* The delivery got past the processed log and has not given its claim up.
Holding == {"claimed", "queued"} \cup (Busy \ {"nakking"})
Live(x) == stage[x] \notin {"none", "done"}

Init ==
    /\ broker = [m \in Msgs |-> "unsent"]
    /\ delivered = [m \in Msgs |-> 0]
    /\ due = Msgs \ Delayed
    /\ kv = [i \in Ids |-> "none"]
    /\ stage = [x \in Deliveries |-> "none"]
    /\ proc = [x \in Deliveries |-> NoProc]
    /\ tries = [x \in Deliveries |-> 0]
    /\ mode = [p \in Procs |-> "run"]
    /\ verdict = [x \in Deliveries |-> "none"]

----------------------------------------------------------------------------
(* Remote calls.                                                             *)

\* A request under the worker's context answers, takes effect without the
\* caller learning of it ("late"), or is lost.  Once the context is cancelled
\* (or the connection closed) the caller never sees an answer.
Answers(p) ==
    (IF mode[p] = "run" THEN {"ok"} ELSE {"late", "lost"})
        \cup (IF "fault" \in Env THEN {"late", "lost"} ELSE {})

\* Nak and Term are published without a context or a reply, and the code
\* ignores their errors: they reach the server or they do not.
Reaches(p) ==
    {mode[p] # "closed"} \cup (IF "fault" \in Env THEN {FALSE} ELSE {})

Put(x, o, v) == kv' = IF o = "lost" THEN kv ELSE [kv EXCEPT ![Id(x)] = v]

\* The server requeues a message it still waits for; a stale Nak counts too.
Nak(x) ==
    \E r \in Reaches(proc[x]) :
        broker' = IF r /\ broker[x[1]] \in {"pending", "postponed"}
                  THEN [broker EXCEPT ![x[1]] = "ready"] ELSE broker

Term(x) ==
    \E r \in Reaches(proc[x]) :
        broker' = IF r THEN [broker EXCEPT ![x[1]] = "gone"] ELSE broker

MoveTo(x, s) ==
    /\ stage' = [stage EXCEPT ![x] = s]
    /\ UNCHANGED <<proc, tries>>

Finish(x) ==
    /\ stage' = [stage EXCEPT ![x] = "done"]
    /\ proc' = [proc EXCEPT ![x] = NoProc]
    /\ tries' = [tries EXCEPT ![x] = 0]

----------------------------------------------------------------------------
(* The server and the producers.                                             *)

\* Producer.Push: the stream stores the message.  A second message with the
\* same id is one published outside the stream's duplicate window.
Push(m) ==
    /\ broker[m] = "unsent"
    /\ broker' = [broker EXCEPT ![m] = "ready"]
    /\ UNCHANGED <<delivered, due, kv, stage, proc, tries, mode, verdict>>

\* The fetch loop receives m; ctx is only looked at between two batches, so a
\* Fetch in progress when it is cancelled still delivers.
Fetch(p, m) ==
    /\ mode[p] # "closed"
    /\ broker[m] = "ready"
    /\ delivered[m] < MaxDelivery
    /\ broker' = [broker EXCEPT ![m] = "pending"]
    /\ delivered' = [delivered EXCEPT ![m] = @ + 1]
    /\ stage' = [stage EXCEPT ![<<m, delivered[m] + 1>>] = "batch"]
    /\ proc' = [proc EXCEPT ![<<m, delivered[m] + 1>>] = p]
    /\ UNCHANGED <<due, kv, tries, mode, verdict>>

\* AckWait or BackOff runs out on an unsettled delivery, alive or not.
AckWaitLapse(m) ==
    /\ broker[m] = "pending"
    /\ broker' = [broker EXCEPT ![m] = "ready"]
    /\ UNCHANGED <<delivered, due, kv, stage, proc, tries, mode, verdict>>

\* The Nak-Until time passes, and with it the delay of a NakWithDelay.
BecomeDue(m) ==
    /\ m \notin due
    /\ due' = due \cup {m}
    /\ broker' = IF broker[m] = "postponed"
                 THEN [broker EXCEPT ![m] = "ready"] ELSE broker
    /\ UNCHANGED <<delivered, kv, stage, proc, tries, mode, verdict>>

\* ProcessedLogTTL drops an entry of the bucket.
Expire(i) ==
    /\ "expiry" \in Env
    /\ kv[i] # "none"
    /\ kv' = [kv EXCEPT ![i] = "none"]
    /\ UNCHANGED <<broker, delivered, due, stage, proc, tries, mode, verdict>>

----------------------------------------------------------------------------
(* Consumer.handleMessage: one goroutine per process, one message at a time. *)

\* x is the next message of its process's batch.
AtHead(x) ==
    /\ stage[x] = "batch"
    /\ \A y \in Deliveries :
          proc[y] = proc[x] => stage[y] \notin {"conflict", "claimed"}

DropUnidentified(x) ==
    /\ AtHead(x)
    /\ Id(x) = NoId
    /\ Term(x)
    /\ Finish(x)
    /\ UNCHANGED <<delivered, due, kv, mode, verdict>>

\* Variant: the delay is looked at only once the id is claimed.
PostponeClaimed(x) ==
    /\ AtHead(x)
    /\ Id(x) # NoId
    /\ x[1] \notin due
    /\ kv[Id(x)] = "none"
    /\ kv' = [kv EXCEPT ![Id(x)] = "processing"]
    /\ Nak(x)
    /\ Finish(x)
    /\ UNCHANGED <<delivered, due, mode, verdict>>

Postpone(x) ==
    /\ AtHead(x)
    /\ Id(x) # NoId
    /\ x[1] \notin due
    /\ \E r \in Reaches(proc[x]) :
          broker' = IF r /\ broker[x[1]] = "pending"
                    THEN [broker EXCEPT ![x[1]] = "postponed"] ELSE broker
    /\ Finish(x)
    /\ UNCHANGED <<delivered, due, kv, mode, verdict>>

Claimable(x) == AtHead(x) /\ Id(x) # NoId /\ x[1] \in due

\* Variant: a claim that is not marked processed is taken over.
ClaimUnlessProcessed(x) ==
    /\ Claimable(x)
    /\ "ok" \in Answers(proc[x])
    /\ kv[Id(x)] # "processed"
    /\ kv' = [kv EXCEPT ![Id(x)] = "processing"]
    /\ MoveTo(x, "claimed")
    /\ UNCHANGED <<broker, delivered, due, mode, verdict>>

\* kv.Create succeeds for one delivery of an id ...
Claim(x) ==
    /\ Claimable(x)
    /\ ProcessLogEnabled => /\ "ok" \in Answers(proc[x])
                            /\ kv[Id(x)] = "none"
    /\ kv' = IF ProcessLogEnabled THEN [kv EXCEPT ![Id(x)] = "processing"] ELSE kv
    /\ MoveTo(x, "claimed")
    /\ UNCHANGED <<broker, delivered, due, mode, verdict>>

\* ... is refused while the key exists ...
FindClaimed(x) ==
    /\ Claimable(x)
    /\ ProcessLogEnabled
    /\ "ok" \in Answers(proc[x])
    /\ kv[Id(x)] # "none"
    /\ MoveTo(x, "conflict")
    /\ UNCHANGED <<broker, delivered, due, kv, mode, verdict>>

\* ... and on any other error the message is put back, whether or not the
\* claim was recorded.
FailToClaim(x) ==
    /\ Claimable(x)
    /\ ProcessLogEnabled
    /\ \E o \in Answers(proc[x]) \ {"ok"} :
          IF kv[Id(x)] = "none" THEN Put(x, o, "processing") ELSE UNCHANGED kv
    /\ Nak(x)
    /\ Finish(x)
    /\ UNCHANGED <<delivered, due, mode, verdict>>

\* Variant: any existing claim counts as processed.
ResolveByExistence(x) ==
    /\ stage[x] = "conflict"
    /\ Term(x)
    /\ Finish(x)
    /\ UNCHANGED <<delivered, due, kv, mode, verdict>>

\* Variant: the redelivery is put back with message.Nack, which releases.
ResolveByNack(x) ==
    /\ stage[x] = "conflict"
    /\ \E o \in Answers(proc[x]) :
          IF o = "ok" /\ kv[Id(x)] = "processed"
          THEN Term(x) /\ UNCHANGED kv
          ELSE Nak(x) /\ Put(x, o, "none")
    /\ Finish(x)
    /\ UNCHANGED <<delivered, due, mode, verdict>>

\* The id is taken: Term when the log says processed, otherwise Nak.
ResolveConflict(x) ==
    /\ stage[x] = "conflict"
    /\ \E o \in Answers(proc[x]) :
          IF o = "ok" /\ kv[Id(x)] = "processed" THEN Term(x) ELSE Nak(x)
    /\ Finish(x)
    /\ UNCHANGED <<delivered, due, kv, mode, verdict>>

\* The body does not unmarshal: Nak, with the claim left behind.
RejectMalformed(x) ==
    /\ stage[x] = "claimed"
    /\ x[1] \in Malformed
    /\ Nak(x)
    /\ Finish(x)
    /\ UNCHANGED <<delivered, due, kv, mode, verdict>>

\* out <- message: blocks while the consumer's channel is full.
Forward(x) ==
    /\ stage[x] = "claimed"
    /\ x[1] \notin Malformed
    /\ Cardinality({y \in Deliveries : proc[y] = proc[x] /\ stage[y] = "queued"})
          < 2 * Concurrency
    /\ MoveTo(x, "queued")
    /\ UNCHANGED <<broker, delivered, due, kv, mode, verdict>>

----------------------------------------------------------------------------
(* queue.Consumer.handler over the driver's message.                         *)

\* A worker, or Consume itself draining the channel after the driver's Close.
Start(x) ==
    /\ stage[x] = "queued"
    /\ Cardinality({y \in Deliveries : proc[y] = proc[x] /\ stage[y] \in Busy})
          < Concurrency + (IF mode[proc[x]] = "closed" THEN 1 ELSE 0)
    /\ IF x[1] \in Unhandled
       THEN MoveTo(x, "discarding") /\ verdict' = [verdict EXCEPT ![x] = "discard"]
       ELSE MoveTo(x, "running") /\ UNCHANGED verdict
    /\ UNCHANGED <<broker, delivered, due, kv, mode>>

AckStage == IF ProcessLogEnabled THEN "acking" ELSE "marked"

\* nil, ErrSkipRetry or ErrDeadLetter, any other error
HandlerReturns(x) ==
    /\ stage[x] = "running"
    /\ \E v \in Verdicts \ {"none"} :
          /\ verdict' = [verdict EXCEPT ![x] = v]
          /\ MoveTo(x, CASE v = "ok" -> AckStage
                         [] v = "discard" -> "discarding"
                         [] v = "err" -> IF ProcessLogEnabled THEN "releasing"
                                         ELSE "nakking")
    /\ UNCHANGED <<broker, delivered, due, kv, mode>>

\* The retry count handed to flow.RetryDelay; ConsumerOpts.AckAttempts does not
\* reach it.
AckTries == 3

\* Variant: one attempt too many.
AckFailedOnceMore(x) ==
    \/ /\ tries[x] < AckTries
       /\ tries' = [tries EXCEPT ![x] = @ + 1]
       /\ stage' = [stage EXCEPT ![x] = AckStage]
       /\ UNCHANGED proc
    \/ tries[x] = AckTries /\ Finish(x)

\* Variant: the attempts are not counted.
AckFailedForever(x) == MoveTo(x, AckStage)

\* An Ack attempt failed: again from its first step, until the attempts are
\* used up or the context is found cancelled.
AckFailed(x) ==
    \/ /\ tries[x] + 1 < AckTries
       /\ tries' = [tries EXCEPT ![x] = @ + 1]
       /\ stage' = [stage EXCEPT ![x] = AckStage]
       /\ UNCHANGED proc
    \/ /\ tries[x] + 1 = AckTries \/ mode[proc[x]] # "run"
       /\ Finish(x)

\* message.Ack, first step: mark the id processed.
AckMark(x) ==
    /\ stage[x] = "acking"
    /\ \E o \in Answers(proc[x]) :
          /\ Put(x, o, "processed")
          /\ IF o = "ok" THEN MoveTo(x, "marked") ELSE AckFailed(x)
    /\ UNCHANGED <<broker, delivered, due, mode, verdict>>

\* message.Ack, second step: DoubleAck, which the server confirms.
AckConfirm(x) ==
    /\ stage[x] = "marked"
    /\ \E o \in Answers(proc[x]) :
          /\ broker' = IF o = "lost" THEN broker ELSE [broker EXCEPT ![x[1]] = "gone"]
          /\ IF o = "ok" THEN Finish(x) ELSE AckFailed(x)
    /\ UNCHANGED <<delivered, due, kv, mode, verdict>>

\* message.Nack, first step: delete the claim, whoever made it; the error is
\* ignored.
ReleaseClaim(x) ==
    /\ stage[x] = "releasing"
    /\ \E o \in Answers(proc[x]) : Put(x, o, "none")
    /\ MoveTo(x, "nakking")
    /\ UNCHANGED <<broker, delivered, due, mode, verdict>>

\* message.Nack, second step.
NakDelivery(x) ==
    /\ stage[x] = "nakking"
    /\ Nak(x)
    /\ Finish(x)
    /\ UNCHANGED <<delivered, due, kv, mode, verdict>>

\* Variant: the claim is released as Nack releases it.
DiscardReleasing(x) ==
    /\ stage[x] = "discarding"
    /\ \E o \in Answers(proc[x]) : Put(x, o, "none")
    /\ Term(x)
    /\ Finish(x)
    /\ UNCHANGED <<delivered, due, mode, verdict>>

\* message.Cancel and message.Deadletter: the claim stays.
Discard(x) ==
    /\ stage[x] = "discarding"
    /\ Term(x)
    /\ Finish(x)
    /\ UNCHANGED <<delivered, due, kv, mode, verdict>>

----------------------------------------------------------------------------
(* Consume's lifetime.                                                       *)

Cancel(p) ==
    /\ "shutdown" \in Env
    /\ mode[p] = "run"
    /\ mode' = [mode EXCEPT ![p] = "stopping"]
    /\ UNCHANGED <<broker, delivered, due, kv, stage, proc, tries, verdict>>

CloseConn(p) ==
    /\ mode[p] = "stopping"
    /\ mode' = [mode EXCEPT ![p] = "closed"]
    /\ UNCHANGED <<broker, delivered, due, kv, stage, proc, tries, verdict>>

\* The process ends, after a shutdown or by crashing (a handler's panic is not
\* recovered), and what it held in memory is gone; a new one takes its place.
ProcessEnds(p) ==
    /\ mode[p] = "closed" \/ "crash" \in Env
    /\ mode' = [mode EXCEPT ![p] = "run"]
    /\ stage' = [x \in Deliveries |-> IF proc[x] = p THEN "done" ELSE stage[x]]
    /\ tries' = [x \in Deliveries |-> IF proc[x] = p THEN 0 ELSE tries[x]]
    /\ proc' = [x \in Deliveries |-> IF proc[x] = p THEN NoProc ELSE proc[x]]
    /\ UNCHANGED <<broker, delivered, due, kv, verdict>>

----------------------------------------------------------------------------
Server == \/ \E m \in Msgs : Push(m) \/ AckWaitLapse(m) \/ BecomeDue(m)
          \/ \E p \in Procs, m \in Msgs : Fetch(p, m)
          \/ \E i \in Ids : Expire(i)

HandleMessage(x) ==
    \/ DropUnidentified(x) \/ Postpone(x)
    \/ Claim(x) \/ FindClaimed(x) \/ FailToClaim(x) \/ ResolveConflict(x)
    \/ RejectMalformed(x) \/ Forward(x)

Handler(x) ==
    \/ Start(x) \/ HandlerReturns(x)
    \/ AckMark(x) \/ AckConfirm(x)
    \/ ReleaseClaim(x) \/ NakDelivery(x) \/ Discard(x)

Lifetime(p) == Cancel(p) \/ CloseConn(p) \/ ProcessEnds(p)

Next ==
    \/ Server
    \/ \E x \in Deliveries : HandleMessage(x) \/ Handler(x)
    \/ \E p \in Procs : Lifetime(p)

Spec == Init /\ [][Next]_vars

\* The goroutines are scheduled, handlers return and timers fire.  Processes are
\* not restarted so fast that none ever gets to fetch (strong fairness of
\* Fetch).  Nobody is obliged to push, cancel or crash.
Fairness ==
    /\ \A x \in Deliveries : WF_vars(HandleMessage(x)) /\ WF_vars(Handler(x))
    /\ \A m \in Msgs : /\ WF_vars(AckWaitLapse(m))
                       /\ WF_vars(BecomeDue(m))
                       /\ SF_vars(\E p \in Procs : Fetch(p, m))
    /\ \A p \in Procs : /\ WF_vars(CloseConn(p))
                        /\ WF_vars(mode[p] = "closed" /\ ProcessEnds(p))

FairSpec == Spec /\ Fairness
----------------------------------------------------------------------------
(* Properties.                                                               *)

TypeOK ==
    /\ broker \in [Msgs -> BrokerStates]
    /\ delivered \in [Msgs -> 0 .. MaxDelivery]
    /\ due \subseteq Msgs
    /\ kv \in [Ids -> LogStates]
    /\ stage \in [Deliveries -> Stages]
    /\ proc \in [Deliveries -> Procs \cup {NoProc}]
    /\ tries \in [Deliveries -> 0 .. AckTries - 1]
    /\ mode \in [Procs -> {"run", "stopping", "closed"}]
    /\ verdict \in [Deliveries -> Verdicts]

\* The log is kept for as long as anyone may still ask for an entry.
LogKept == ProcessLogEnabled /\ "expiry" \notin Env

\* However deliveries of one id overlap, in one process or in several, at most
\* one is between its claim and the end of its settling (nats/consumer.go
\* 198-228, nats/message.go 36-64).
SingleHolder ==
    LogKept => \A x, y \in Deliveries :
        stage[x] \in Holding /\ stage[y] \in Holding /\ Id(x) = Id(y) => x = y

\* At most one delivery of an id ever reaches a final decision: a handler that
\* succeeded, or discarded the job, is never run again for that id, whatever
\* is lost on the way to the server (nats/consumer.go 201-219).
SettledOnce ==
    LogKept => \A x, y \in Deliveries :
        /\ verdict[x] \in {"ok", "discard"}
        /\ verdict[y] \in {"ok", "discard"}
        /\ Id(x) = Id(y)
        => x = y

\* The server forgets a message only if it had no id, one of its own
\* deliveries succeeded or discarded it, or a message of the same id succeeded:
\* Term as "already processed" never hits a job nobody finished
\* (nats/consumer.go 205-219, nats/message.go 36-64).
RemovedOnlyIfSettled ==
    \A m \in Msgs : broker[m] = "gone" =>
        \/ IdOf[m] = NoId
        \/ \E k \in 1 .. MaxDelivery : verdict[<<m, k>>] \in {"ok", "discard"}
        \/ \E y \in Deliveries : Id(y) = IdOf[m] /\ verdict[y] = "ok"

\* Once an id is marked processed nothing takes the mark back: Nack's
\* unconditional Delete only ever removes the claim of its own delivery
\* (nats/message.go 57-62).
MarkStays ==
    [][LogKept => \A i \in Ids : kv[i] = "processed" => kv'[i] = "processed"]_vars

\* While calls succeed and processes live, a claim in progress is somebody's: no
\* path of handleMessage or of settling leaves one behind, a premature
\* delivery of a delayed message included.  Discarded jobs keep theirs, and so
\* do bodies that do not unmarshal (nats/consumer.go 185-233).
NoOrphanClaims ==
    Env \subseteq {"expiry"} => \A i \in Ids : kv[i] = "processing" =>
        \E x \in Deliveries :
            /\ Id(x) = i
            /\ \/ stage[x] \in Holding
               \/ verdict[x] = "discard"
               \/ x[1] \in Malformed /\ stage[x] = "done"

\* The status of an id as JobOnce sees it.
JobStatus(i) ==
    LET by(v) == \E x \in Deliveries : Id(x) = i /\ verdict[x] = v
        held == \E x \in Deliveries : Id(x) = i /\ stage[x] \in Holding
    IN  IF by("ok") THEN "succeeded"
        ELSE IF by("discard") THEN "discarded"
        ELSE IF held THEN "held"
        ELSE IF kv[i] = "none" THEN "idle" ELSE "abandoned"

Job == INSTANCE JobOnce WITH job <- [i \in Ids |-> JobStatus(i)]

\* With the log kept, the driver and the consumer together implement JobOnce.
ImplementsJobOnce == Job!Spec

\* The server holds m back for good, its deliveries used up, and none of them
\* is still being worked on.
GivenUp(m) ==
    /\ broker[m] = "ready"
    /\ delivered[m] = MaxDelivery
    /\ \A k \in 1 .. MaxDelivery : ~ Live(<<m, k>>)

\* A pushed message is eventually removed or has used up its deliveries, and
\* no delivery of it hangs: lost replies, orphaned claims and processes that
\* end do not leave it circling or stuck (nats/consumer.go 150-169, 174-235).
EventuallySettled ==
    \A m \in Msgs : broker[m] # "unsent" ~>
        \/ GivenUp(m)
        \/ broker[m] = "gone" /\ \A k \in 1 .. MaxDelivery : ~ Live(<<m, k>>)

\* nats/consumer.go 211-213: "nak so the job isn't lost forever if the original
\* attempt later fails": a job whose attempt failed is given up only when every
\* delivery it was due has been handed to the handler.
FailedAttemptIsRetried ==
    \A m \in Msgs :
        GivenUp(m) /\ (\E k \in 1 .. MaxDelivery : verdict[<<m, k>>] = "err")
            => \A k \in 1 .. MaxDelivery : verdict[<<m, k>>] # "none"
=============================================================================
