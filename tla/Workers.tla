------------------------------ MODULE Workers ------------------------------
(* The scheduled workers (workers/): each instance of the program has a      *)
(* Runner, which is a gocron scheduler over a Locker that only the leader of *)
(* a redis election may lock. The scheduler and the election are external.   *)
EXTENDS Integers, FiniteSets

CONSTANTS
    Instances, WorkerIds,
    Names, NameOf,      \* Worker.Name(): two workers may share one
    IntervalOf,         \* what Worker.Interval() holds: "duration", "cron", "badcron", "other"
    Slots,              \* bound: runs of a worker at once on an instance
    MaxTerms, MaxRuns,  \* bounds: elections; runs
    NoInstance

ASSUME WorkersAssumption ==
    /\ NameOf \in [WorkerIds -> Names]
    /\ IntervalOf \in [WorkerIds -> {"duration", "cron", "badcron", "other"}]
    /\ MaxTerms \in Nat /\ MaxRuns \in Nat
    /\ NoInstance \notin Instances

VARIABLES
    runner,     \* how far each instance has come
    jobs,       \* the workers its scheduler has
    locks,      \* Locker.locks
    leader,     \* whose IsLeader() is true
    term,       \* elections so far
    run,        \* the runs of a worker on an instance
    executions, failures,   \* Monitor, by name
    runsBegun   \* history: runs so far

workersVars == <<runner, jobs, locks, leader, term, run, executions, failures, runsBegun>>

Runs == Instances \X WorkerIds \X Slots

\* A run is due, has found its instance the leader in a term, holds the lock and
\* is in Worker.Run, has been counted as an execution, or is over but for Unlock.
RunStages == {"none", "due", "leads", "running", "counted", "over"}
NoRun == [at |-> "none", term |-> 0, err |-> FALSE]

WorkersInit ==
    /\ runner = [i \in Instances |-> "none"]
    /\ jobs = [i \in Instances |-> {}]
    /\ locks = [i \in Instances |-> {}]
    /\ leader = NoInstance /\ term = 0
    /\ run = [r \in Runs |-> NoRun]
    /\ executions = [i \in Instances |-> [n \in Names |-> 0]]
    /\ failures = [i \in Instances |-> [n \in Names |-> 0]]
    /\ runsBegun = 0

----------------------------------------------------------------------------
(* The life of a Runner.                                                     *)

\* The Locker comes first. Without redis there is no runner at all.
NewRunner(i) ==
    /\ runner[i] = "none"
    /\ \E e \in {"new", "refused"} : runner' = [runner EXCEPT ![i] = e]
    /\ UNCHANGED <<jobs, locks, leader, term, run, executions, failures, runsBegun>>

\* A process that ends takes its runs, its locks and its counts with it. It may
\* come back as a new one, which leads again when it is elected.
Dies(i) ==
    /\ runner' = [runner EXCEPT ![i] = "none"]
    /\ jobs' = [jobs EXCEPT ![i] = {}]
    /\ locks' = [locks EXCEPT ![i] = {}]
    /\ leader' = IF leader = i THEN NoInstance ELSE leader
    /\ run' = [r \in Runs |-> IF r[1] = i THEN NoRun ELSE run[r]]
    /\ executions' = [executions EXCEPT ![i] = [n \in Names |-> 0]]
    /\ failures' = [failures EXCEPT ![i] = [n \in Names |-> 0]]
    /\ UNCHANGED <<term, runsBegun>>

Crash(i) == runner[i] # "none" /\ Dies(i)

\* NewJob refuses a cron expression it cannot parse.
RegisterWorker(i, w) ==
    /\ runner[i] \in {"new", "waiting", "started"}
    /\ w \notin jobs[i]
    /\ IntervalOf[w] # "other"
    /\ jobs' = IF IntervalOf[w] = "badcron" THEN jobs ELSE [jobs EXCEPT ![i] = @ \cup {w}]
    /\ UNCHANGED <<runner, locks, leader, term, run, executions, failures, runsBegun>>

\* Interval().Kind() panics on what is neither a duration nor a string.
RegisterPanics(i, w) ==
    /\ runner[i] \in {"new", "waiting", "started"}
    /\ IntervalOf[w] = "other"
    /\ Dies(i)

\* Run goes into the election, and waits for it to have an outcome.
RunnerRuns(i) ==
    /\ runner[i] = "new"
    /\ runner' = [runner EXCEPT ![i] = "waiting"]
    /\ UNCHANGED <<jobs, locks, leader, term, run, executions, failures, runsBegun>>

SchedulerStarts(i) ==
    /\ runner[i] = "waiting"
    /\ term > 0
    /\ runner' = [runner EXCEPT ![i] = "started"]
    /\ UNCHANGED <<jobs, locks, leader, term, run, executions, failures, runsBegun>>

\* Shutdown begins no more runs. Those there are go on.
RunnerStops(i) ==
    /\ runner[i] = "started"
    /\ runner' = [runner EXCEPT ![i] = "stopped"]
    /\ run' = [r \in Runs |-> IF r[1] = i /\ run[r].at = "due" THEN NoRun ELSE run[r]]
    /\ UNCHANGED <<jobs, locks, leader, term, executions, failures, runsBegun>>

\* The election moves at any time: a leader may lose it in the middle of a run. A
\* runner that was stopped is in it until its context is done.
Elect ==
    /\ term < MaxTerms
    /\ term' = term + 1
    /\ leader' \in {i \in Instances : runner[i] \in {"waiting", "started", "stopped"}}
                   \cup {NoInstance}
    /\ leader' # leader
    /\ UNCHANGED <<runner, jobs, locks, run, executions, failures, runsBegun>>

----------------------------------------------------------------------------
(* One run of a worker, in the order of gocron's executor.                   *)

At(r, stage) == run' = [run EXCEPT ![r].at = stage]

\* gocron does not wait for the last run of a job to end.
Due(r) ==
    /\ runner[r[1]] = "started" /\ r[2] \in jobs[r[1]]
    /\ run[r].at = "none"
    /\ runsBegun < MaxRuns
    /\ runsBegun' = runsBegun + 1
    /\ At(r, "due")
    /\ UNCHANGED <<runner, jobs, locks, leader, term, executions, failures>>

\* Lock asks whether it leads before it takes its mutex, and does not ask again.
AsksIfLeader(r) ==
    /\ run[r].at = "due"
    /\ run' = [run EXCEPT ![r] = IF leader = r[1] THEN [at |-> "leads", term |-> term, err |-> FALSE]
                                 ELSE NoRun]
    /\ UNCHANGED <<runner, jobs, locks, leader, term, executions, failures, runsBegun>>

\* Variant: whatever has the key is not looked at.
TakesLockBlindly(r) ==
    /\ run[r].at = "leads"
    /\ locks' = [locks EXCEPT ![r[1]] = @ \cup {NameOf[r[2]]}]
    /\ At(r, "running")
    /\ UNCHANGED <<runner, jobs, leader, term, executions, failures, runsBegun>>

\* Under the mutex: the run begins if its name was free.
TakesLock(r) ==
    /\ run[r].at = "leads"
    /\ IF NameOf[r[2]] \in locks[r[1]]
       THEN run' = [run EXCEPT ![r] = NoRun] /\ UNCHANGED locks
       ELSE /\ locks' = [locks EXCEPT ![r[1]] = @ \cup {NameOf[r[2]]}]
            /\ At(r, "running")
    /\ UNCHANGED <<runner, jobs, leader, term, executions, failures, runsBegun>>

\* Worker.Run comes back, of itself or because its timeout has passed.
RunEnds(r) ==
    /\ run[r].at = "running"
    /\ \E e \in BOOLEAN : run' = [run EXCEPT ![r].at = "counted", ![r].err = e]
    /\ executions' = [executions EXCEPT ![r[1]][NameOf[r[2]]] = @ + 1]
    /\ UNCHANGED <<runner, jobs, locks, leader, term, failures, runsBegun>>

\* Monitor.run counts the failure after the execution.
CountsFailure(r) ==
    /\ run[r].at = "counted"
    /\ failures' = IF run[r].err THEN [failures EXCEPT ![r[1]][NameOf[r[2]]] = @ + 1]
                   ELSE failures
    /\ At(r, "over")
    /\ UNCHANGED <<runner, jobs, locks, leader, term, executions, runsBegun>>

\* Variant: an instance that does not lead any more keeps its keys.
UnlocksIfLeader(r) ==
    /\ run[r].at = "over"
    /\ locks' = IF leader = r[1] THEN [locks EXCEPT ![r[1]] = @ \ {NameOf[r[2]]}] ELSE locks
    /\ run' = [run EXCEPT ![r] = NoRun]
    /\ UNCHANGED <<runner, jobs, leader, term, executions, failures, runsBegun>>

\* Unlock deletes the key, leader or not.
Unlocks(r) ==
    /\ run[r].at = "over"
    /\ locks' = [locks EXCEPT ![r[1]] = @ \ {NameOf[r[2]]}]
    /\ run' = [run EXCEPT ![r] = NoRun]
    /\ UNCHANGED <<runner, jobs, leader, term, executions, failures, runsBegun>>

----------------------------------------------------------------------------
WorkersNext ==
    \/ Elect
    \/ \E i \in Instances :
          \/ NewRunner(i) \/ RunnerRuns(i) \/ SchedulerStarts(i) \/ RunnerStops(i)
          \/ Crash(i)
          \/ \E w \in WorkerIds : RegisterWorker(i, w) \/ RegisterPanics(i, w)
    \/ \E r \in Runs :
          \/ Due(r) \/ AsksIfLeader(r) \/ TakesLock(r)
          \/ RunEnds(r) \/ CountsFailure(r) \/ Unlocks(r)

WorkersSpec == WorkersInit /\ [][WorkersNext]_workersVars

----------------------------------------------------------------------------
(* Properties.                                                               *)

WorkersTypeOK ==
    /\ runner \in [Instances -> {"none", "new", "refused", "waiting", "started", "stopped"}]
    /\ jobs \in [Instances -> SUBSET WorkerIds]
    /\ locks \in [Instances -> SUBSET Names]
    /\ leader \in Instances \cup {NoInstance}
    /\ term \in 0 .. MaxTerms
    /\ run \in [Runs -> [at : RunStages, term : 0 .. MaxTerms, err : BOOLEAN]]
    /\ executions \in [Instances -> [Names -> Nat]]
    /\ failures \in [Instances -> [Names -> Nat]]
    /\ runsBegun \in 0 .. MaxRuns

Busy(r) == run[r].at \in {"running", "counted", "over"}
SameName(r, s) == NameOf[r[2]] = NameOf[s[2]]

\* Two runs under one name overlap only on two instances that led in two
\* different terms: never on one instance, also for two workers of one name, and
\* never within a term, although Lock looks at the leadership before its mutex
\* and nobody looks at it again (workers/locker.go 69-90).
OverlapNeedsElection ==
    \A r, s \in Runs :
        r # s /\ SameName(r, s) /\ Busy(r) /\ Busy(s)
            => r[1] # s[1] /\ run[r].term # run[s].term

\* A key of the locker is that of a run which is under way and will give it back:
\* no lock is left behind by a refused, stopped or failed run, which would keep
\* that worker from ever running again (workers/locker.go 73-87).
LocksAreHeld ==
    \A i \in Instances : \A n \in Names :
        n \in locks[i] <=> \E r \in Runs : r[1] = i /\ NameOf[r[2]] = n /\ Busy(r)

\* The runs as ElectedRun sees them: a run is under way while it holds its name.
Seen(r) == [id |-> r, on |-> r[1], name |-> NameOf[r[2]], term |-> run[r].term]
UnderWay == {Seen(r) : r \in {s \in Runs : Busy(s)}}
Elected == INSTANCE ElectedRun WITH Ids <- Runs, runs <- UnderWay
=============================================================================
