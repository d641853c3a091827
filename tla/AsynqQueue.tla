----------------------------- MODULE AsynqQueue -----------------------------
(* Jobs on the asynq driver (queue/asynq/), from Producer.Push to the        *)
(* verdict of Consumer.handler. Redis and asynq are external: asynq keeps a  *)
(* task by its id, runs it, retries it, archives it, and takes back a task   *)
(* whose worker has died, or that is still at work when its time is up.      *)
EXTENDS Integers, FiniteSets, Sequences, SequencesExt

CONSTANTS
    Jobs,           \* the ids of the jobs
    OptionsOf,      \* the options each is made with
    Shared,         \* the jobs made with one slice of options that has room for more
    Unhandled,      \* the jobs of a task that nobody registered a handler for
    Queues,         \* the queues the consumer is given
    DefaultRetry,   \* asynq's own MaxRetry
    MaxPushes,      \* bound: the pushes of each job
    MaxStrays       \* bound: the attempts under way at each job that asynq has given up

OptionTypes == {"OnQueue", "At", "After", "MaxTries"}

ASSUME AsynqAssumption ==
    /\ \A j \in Jobs : \A n \in DOMAIN OptionsOf[j] : OptionsOf[j][n].type \in OptionTypes
    /\ "none" \notin Jobs
    /\ Shared \subseteq Jobs /\ Unhandled \subseteq Jobs
    /\ DefaultRetry \in Nat /\ \A j \in Jobs : MaxPushes[j] \in Nat
    /\ MaxStrays \in Nat

VARIABLES
    push,       \* where the Push of each job is
    spare,      \* the element after the shared options: the id of the last append
    task,       \* what asynq has under each id
    pushes,
    stray,      \* how many attempts at each job are under way that asynq has given up
    observed,   \* which of ConsumerObserver's counters the last attempt at each task went
                \* into, of those that asynq waited for
    overlapped, \* history: jobs whose options another push wrote to meanwhile
    handledOk,  \* history: whether a job's handler succeeded, once or more often
    takenBack   \* history: the jobs that asynq took back without a verdict

asynqVars == <<push, spare, task, pushes, stray, observed, overlapped, handledOk, takenBack>>

States == {"none", "scheduled", "pending", "active", "judged", "archived"}
NoTask == [state |-> "none", body |-> "none", queue |-> "none", retry |-> 0, retried |-> 0,
           verdict |-> "none"]

AsynqInit ==
    /\ push = [j \in Jobs |-> "idle"]
    /\ spare = "none"
    /\ task = [j \in Jobs |-> NoTask]
    /\ pushes = [j \in Jobs |-> 0]
    /\ stray = [j \in Jobs |-> 0]
    /\ observed = [j \in Jobs |-> {}]
    /\ overlapped = {}
    /\ handledOk = [j \in Jobs |-> "never"]
    /\ takenBack = {}

----------------------------------------------------------------------------
(* Options.                                                                  *)

Values(opts, types) ==
    LET of == SelectSeq(opts, LAMBDA o : o.type \in types)
    IN [n \in DOMAIN of |-> of[n].value]

\* The first queue named, and none is "default".
QueueFromOptions(opts) ==
    LET qs == Values(opts, {"OnQueue"}) IN IF qs = <<>> THEN "default" ELSE Head(qs)

\* Each option becomes one of asynq's, in order, and asynq takes the last of a
\* kind. A number of tries is given as a number of retries.
AsynqOpts(opts) ==
    LET tries == Values(opts, {"MaxTries"})  whens == Values(opts, {"At", "After"})
    IN [retry |-> IF tries = <<>> THEN DefaultRetry ELSE Last(tries),
        later |-> whens # <<>> /\ Last(whens) = "later"]

\* What a job is made with is a number of tries.
ASSUME OptionsAssumption == \A j \in Jobs : AsynqOpts(OptionsOf[j]).retry \in Nat

----------------------------------------------------------------------------
(* Producer.Push.                                                            *)

Between(j) == push[j] = "appended"

\* Variant: an id that is in the options already stays.
PushAppendsOnce(j) ==
    /\ push[j] # "appended"
    /\ pushes[j] < MaxPushes[j]
    /\ pushes' = [pushes EXCEPT ![j] = @ + 1]
    /\ push' = [push EXCEPT ![j] = "appended"]
    /\ spare' = IF spare = "none" THEN j ELSE spare
    /\ UNCHANGED <<task, stray, observed, overlapped, handledOk, takenBack>>

\* append puts the id behind the options: in a new slice, or in the room that
\* the slices of the other Shared jobs have there too.
PushAppends(j) ==
    /\ push[j] # "appended"
    /\ pushes[j] < MaxPushes[j]
    /\ pushes' = [pushes EXCEPT ![j] = @ + 1]
    /\ push' = [push EXCEPT ![j] = "appended"]
    /\ IF j \in Shared
       THEN /\ spare' = j
            /\ overlapped' = overlapped \cup {k \in Shared \ {j} : Between(k)}
       ELSE UNCHANGED <<spare, overlapped>>
    /\ UNCHANGED <<task, stray, observed, handledOk, takenBack>>

IdUsed(j) == IF j \in Shared THEN spare ELSE j

\* asynq refuses an id it has. It keeps one until its task has succeeded or been
\* revoked, and an archived one for good.
PushEnqueues(j) ==
    LET id == IdUsed(j)  opts == AsynqOpts(OptionsOf[j])
    IN /\ Between(j)
       /\ IF task[id].state # "none"
          THEN push' = [push EXCEPT ![j] = "error"] /\ UNCHANGED task
          ELSE /\ task' = [task EXCEPT ![id] =
                    [state |-> IF opts.later THEN "scheduled" ELSE "pending", body |-> j,
                     queue |-> QueueFromOptions(OptionsOf[j]), retry |-> opts.retry,
                     retried |-> 0, verdict |-> "none"]]
               /\ push' \in {[push EXCEPT ![j] = e] : e \in {"done", "error"}}
       /\ UNCHANGED <<spare, pushes, stray, observed, overlapped, handledOk, takenBack>>

\* Redis is not there, or the context of the caller is done. The caller may push
\* again, as it may when only the answer was lost.
PushFails(j) ==
    /\ Between(j)
    /\ push' = [push EXCEPT ![j] = "error"]
    /\ UNCHANGED <<spare, task, pushes, stray, observed, overlapped, handledOk, takenBack>>

----------------------------------------------------------------------------
(* A task.                                                                   *)

Becomes(id, t) ==
    /\ task' = [task EXCEPT ![id] = t]
    /\ UNCHANGED <<push, spare, pushes, overlapped>>

\* asynq moves a scheduled task when its time has come.
TaskDue(id) ==
    /\ task[id].state = "scheduled"
    /\ Becomes(id, [task[id] EXCEPT !.state = "pending"])
    /\ UNCHANGED <<stray, observed, handledOk, takenBack>>

\* A worker of the consumer's server takes it, and gives the message to the
\* consumer. What Push marshalled can be unmarshalled.
TaskStarts(id) ==
    /\ task[id].state = "pending" /\ task[id].queue \in Queues
    /\ Becomes(id, [task[id] EXCEPT !.state = "active"])
    /\ UNCHANGED <<stray, observed, handledOk, takenBack>>

\* How a handler comes back: an error may wrap either sentinel, or both.
HandlerErrors == {{"fail"}, {"fail", "skip"}, {"fail", "dead"}, {"fail", "skip", "dead"}}

\* Sentry is told of an error that neither skipper knows.
Skippers == {"dead", "skip"}
Reported(err) == err # {} /\ err \cap Skippers = {}

\* Every attempt is processed, an error is an error, and each sentinel counts.
Observe(id, err) ==
    observed' = [observed EXCEPT ![id] =
        {"processed"} \cup (err \ {"fail"}) \cup (IF "fail" \in err THEN {"errors"} ELSE {})
            \cup (IF Reported(err) THEN {"reported"} ELSE {})]

\* The verdict goes to asynq's handler through a channel with room for it: nil,
\* RevokeTask, SkipRetry, or another error.
Judge(id, v) == Becomes(id, [task[id] EXCEPT !.state = "judged", !.verdict = v])

Verdict(err) ==
    CASE "skip" \in err -> "revoke"
      [] "dead" \in err /\ "skip" \notin err -> "archive"
      [] OTHER -> "retry"

\* Variant: nobody is told of a task that has no handler.
HandlerMissingUnseen(id) ==
    /\ task[id].state = "active" /\ task[id].body \in Unhandled
    /\ Judge(id, "archive")
    /\ UNCHANGED <<stray, observed, handledOk, takenBack>>

HandlerMissing(id) ==
    /\ task[id].state = "active" /\ task[id].body \in Unhandled
    /\ Observe(id, {"fail", "dead"})
    /\ Judge(id, "archive")
    /\ UNCHANGED <<stray, handledOk, takenBack>>

JobFails(id, err) ==
    /\ task[id].state = "active" /\ task[id].body \notin Unhandled
    /\ Observe(id, err)
    /\ Judge(id, Verdict(err))
    /\ UNCHANGED <<stray, handledOk, takenBack>>

Succeeded(j) ==
    handledOk' = [handledOk EXCEPT ![j] = IF @ = "never" THEN "once" ELSE "again"]

JobSucceeds(id) ==
    /\ task[id].state = "active" /\ task[id].body \notin Unhandled
    /\ Observe(id, {})
    /\ Judge(id, "ok")
    /\ Succeeded(task[id].body)
    /\ UNCHANGED <<stray, takenBack>>

\* asynq: a task that has had its retries is archived, and so is one whose
\* error is SkipRetry.
Retried(id) ==
    IF task[id].retried >= task[id].retry THEN [task[id] EXCEPT !.state = "archived"]
    ELSE [task[id] EXCEPT !.state = "pending", !.retried = @ + 1, !.verdict = "none"]

\* Variant: a success is not told to asynq, which takes the task back.
SettledLate(id) == CASE task[id].verdict \in {"retry", "ok"} -> Retried(id)
                     [] task[id].verdict = "archive" -> [task[id] EXCEPT !.state = "archived"]
                     [] OTHER -> NoTask

Settled(id) == CASE task[id].verdict = "retry" -> Retried(id)
                 [] task[id].verdict = "archive" -> [task[id] EXCEPT !.state = "archived"]
                 [] OTHER -> NoTask

TaskSettles(id) ==
    /\ task[id].state = "judged"
    /\ Becomes(id, Settled(id))
    /\ UNCHANGED <<stray, observed, handledOk, takenBack>>

TakenBack(id) == takenBack' = takenBack \cup {task[id].body}

\* The worker's process ends, before or after the handler, and asynq takes the
\* task back when its lease has run out.
WorkerDies(id) ==
    /\ task[id].state \in {"active", "judged"}
    /\ Becomes(id, Retried(id))
    /\ TakenBack(id)
    /\ UNCHANGED <<stray, observed, handledOk>>

\* asynq puts a task back as it is when the time its server has to shut down is
\* up, and retries it when its deadline or its lease has passed. The consumer has
\* the message all the same, and goes on with it.
TaskGivenBack(id) ==
    LET j == task[id].body
    IN /\ \/ /\ task[id].state = "active" /\ stray[j] < MaxStrays
             /\ stray' = [stray EXCEPT ![j] = @ + 1]
          \/ task[id].state = "judged" /\ UNCHANGED stray
       /\ \E t \in {Retried(id), [task[id] EXCEPT !.state = "pending", !.verdict = "none"]} :
             Becomes(id, t)
       /\ TakenBack(id)
       /\ UNCHANGED <<observed, handledOk>>

\* An attempt that asynq has given up ends, and its verdict goes nowhere: the
\* handler returned an error or was not there, its process ended, or it succeeded.
StrayEnds(j) ==
    /\ stray[j] > 0
    /\ stray' = [stray EXCEPT ![j] = @ - 1]
    /\ UNCHANGED handledOk \/ (j \notin Unhandled /\ Succeeded(j))
    /\ UNCHANGED <<push, spare, task, pushes, observed, overlapped, takenBack>>

----------------------------------------------------------------------------
AsynqNext ==
    \E j \in Jobs :
        \/ PushAppends(j) \/ PushEnqueues(j) \/ PushFails(j)
        \/ TaskDue(j) \/ TaskStarts(j) \/ TaskSettles(j) \/ WorkerDies(j)
        \/ TaskGivenBack(j) \/ StrayEnds(j)
        \/ HandlerMissing(j) \/ JobSucceeds(j)
        \/ \E err \in HandlerErrors : JobFails(j, err)

AsynqSpec == AsynqInit /\ [][AsynqNext]_asynqVars

----------------------------------------------------------------------------
(* Properties.                                                               *)

NamedQueues == {"none"} \cup {QueueFromOptions(OptionsOf[j]) : j \in Jobs}

AsynqTypeOK ==
    /\ push \in [Jobs -> {"idle", "appended", "done", "error"}]
    /\ spare \in Jobs \cup {"none"}
    /\ task \in [Jobs -> [state : States, body : Jobs \cup {"none"}, queue : NamedQueues,
                          retry : Nat, retried : Nat,
                          verdict : {"none", "ok", "retry", "archive", "revoke"}]]
    /\ pushes \in [Jobs -> Nat] /\ stray \in [Jobs -> 0 .. MaxStrays]
    /\ observed \in [Jobs -> SUBSET {"processed", "errors", "dead", "skip", "reported"}]
    /\ overlapped \subseteq Jobs /\ takenBack \subseteq Jobs
    /\ handledOk \in [Jobs -> {"never", "once", "again"}]

\* A task is under the id of the job it carries, which is what makes a second
\* push of a job a duplicate. A job gets under another's id only when both were
\* made with one slice of options and their pushes overlapped
\* (queue/producer.go 49, queue/asynq/producer.go 38-43).
OwnIdUnlessShared ==
    \A id \in Jobs : task[id].body \in {id, "none"} \cup overlapped

\* A job's handler succeeds a second time only if asynq took its task back
\* without a verdict or it was pushed again: no verdict makes asynq bring back
\* what succeeded, and no other job's task carries it (queue/consumer.go 161-180,
\* queue/asynq/message.go 27-30, queue/asynq/consumer.go 84-93).
AgainOnlyIfTakenBack ==
    \A j \in Jobs : handledOk[j] = "again" => j \in takenBack \/ pushes[j] > 1

\* A job that is archived although it has retries left was counted as
\* deadlettered: by its handler's error, or because there is no handler
\* (queue/consumer.go 149-153, 167-169, queue/consumer_observer.go 109-137).
ArchivedIsCounted ==
    \A id \in Jobs : task[id].state = "archived" /\ task[id].retried < task[id].retry
                       => "dead" \in observed[id]
=============================================================================
