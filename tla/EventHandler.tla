---------------------------- MODULE EventHandler ----------------------------
(* The event dispatcher (events/events.go): dispatchers put one task per     *)
(* listener on a bounded channel, workers run them, Flush stops the workers  *)
(* and drains the channel with a goroutine of its own.                       *)
(*                                                                           *)
(* All dispatches are of one event type.  A listener may itself dispatch     *)
(* (Parent), and is blocked for as long as that Dispatch is.                 *)
EXTENDS Integers, FiniteSets, Sequences

CONSTANTS
    Dispatches,     \* calls of Dispatch and DispatchChannel
    Channelled,     \* those that are calls of DispatchChannel
    Parent,         \* the task whose listener makes the call, or NoTask
    NoTask,
    Off, Select,    \* a goroutine that is not running, or at its select
    Workers,        \* the worker goroutines of a Run
    QueueCap,       \* the capacity of the events channel
    MaxListeners,   \* bound on the registered listeners
    MaxFlushes,     \* bound on the calls of Flush
    Orderly         \* Flush is called with no dispatch from outside the
                    \* listeners under way, and none begins until it returns

Tasks == Dispatches \X (1 .. MaxListeners)
Drainers == 1 .. MaxFlushes
Runners == Workers \cup Drainers

ASSUME EventHandlerAssumption ==
    /\ Channelled \subseteq Dispatches
    /\ NoTask \notin Tasks /\ Off \notin Tasks /\ Select \notin Tasks
    /\ Off # Select
    /\ Parent \in [Dispatches -> Tasks \cup {NoTask}]
    /\ Workers \cap Drainers = {}
    /\ QueueCap \in Nat
    /\ MaxListeners \in Nat /\ MaxFlushes \in Nat
    /\ Orderly \in BOOLEAN

VARIABLES
    listeners,  \* listeners registered for the event
    call,       \* progress of each dispatch
    owned,      \* the listeners each dispatch found
    added,      \* tasks it has added to the wait group
    sent,       \* tasks it has sent to the channel
    queue,      \* the events channel
    wg,         \* the wait group of tasks
    runner,     \* the goroutines that run tasks: off, at their select, or a task
    verdict,    \* how each task ended
    results,    \* values sent on a dispatch's result channel
    out,        \* the result channel
    closed,     \* the closed channel
    cancelled,  \* the context of Run
    flush,      \* the caller of Flush
    flushes,    \* calls of Flush so far
    owed        \* history: the tasks in memory when Flush was called

callVars == <<call, owned, added, sent>>
taskVars == <<queue, wg, runner, verdict>>
resultVars == <<results, out>>
flushVars == <<closed, flush, flushes, owed>>
vars == <<listeners, callVars, taskVars, resultVars, cancelled, flushVars>>

Outside(d) == Parent[d] = NoTask
Of(d) == {t \in Tasks : t[1] = d /\ t[2] <= owned[d]}
Running(t) == \E r \in Runners : runner[r] = t
Finished(t) == verdict[t] # "none"
InMemory(t) == t[2] <= added[t[1]] /\ ~ Finished(t)
WorkersGone == \A w \in Workers : runner[w] = Off

Init ==
    /\ listeners = 0
    /\ call = [d \in Dispatches |-> "idle"]
    /\ owned = [d \in Dispatches |-> 0]
    /\ added = [d \in Dispatches |-> 0]
    /\ sent = [d \in Dispatches |-> 0]
    /\ queue = <<>>
    /\ wg = 0
    /\ runner = [r \in Runners |-> Off]
    /\ verdict = [t \in Tasks |-> "none"]
    /\ results = [d \in Dispatches |-> 0]
    /\ out = [d \in Dispatches |-> "none"]
    /\ closed = FALSE
    /\ cancelled = FALSE
    /\ flush = "idle"
    /\ flushes = 0
    /\ owed = {}

----------------------------------------------------------------------------
(* Listen, Dispatch and DispatchChannel.                                     *)

Listen ==
    /\ listeners < MaxListeners
    /\ listeners' = listeners + 1
    /\ UNCHANGED <<callVars, taskVars, resultVars, cancelled, flushVars>>

\* getHandlers takes the listeners registered by now; without any the call is
\* refused.
Dispatch(d) ==
    /\ call[d] = "idle"
    /\ Outside(d) \/ Running(Parent[d])
    /\ Orderly /\ Outside(d) => flush \notin {"waiting", "joining"}
    /\ call' = [call EXCEPT ![d] = IF listeners = 0 THEN "refused" ELSE "adding"]
    /\ owned' = [owned EXCEPT ![d] = listeners]
    /\ out' = [out EXCEPT ![d] = IF d \in Channelled /\ listeners > 0 THEN "open" ELSE @]
    /\ UNCHANGED <<listeners, added, sent, taskVars, results, cancelled, flushVars>>

\* The loop over the listeners: count the task ...
Add(d) ==
    /\ call[d] = "adding"
    /\ added[d] < owned[d]
    /\ call' = [call EXCEPT ![d] = "sending"]
    /\ added' = [added EXCEPT ![d] = @ + 1]
    /\ wg' = wg + 1
    /\ UNCHANGED <<listeners, owned, sent, queue, runner, verdict, resultVars, cancelled, flushVars>>

\* Variant: the channel is not bounded.
SendUnbounded(d) ==
    /\ call[d] = "sending"
    /\ call' = [call EXCEPT ![d] = "adding"]
    /\ sent' = [sent EXCEPT ![d] = @ + 1]
    /\ queue' = Append(queue, <<d, added[d]>>)
    /\ UNCHANGED <<listeners, owned, added, wg, runner, verdict, resultVars, cancelled, flushVars>>

\* ... then send it, which blocks while the channel is full.
Send(d) ==
    /\ call[d] = "sending"
    /\ Len(queue) < QueueCap
    /\ call' = [call EXCEPT ![d] = "adding"]
    /\ sent' = [sent EXCEPT ![d] = @ + 1]
    /\ queue' = Append(queue, <<d, added[d]>>)
    /\ UNCHANGED <<listeners, owned, added, wg, runner, verdict, resultVars, cancelled, flushVars>>

Return(d) ==
    /\ call[d] = "adding"
    /\ added[d] = owned[d]
    /\ call' = [call EXCEPT ![d] = "returned"]
    /\ UNCHANGED <<listeners, owned, added, sent, taskVars, resultVars, cancelled, flushVars>>

\* Variant: the goroutine that closes the channel is started before the loop.
CloseResultsEarly(d) ==
    /\ out[d] = "open"
    /\ \A t \in Of(d) : t[2] <= added[d] => Finished(t)
    /\ out' = [out EXCEPT ![d] = "closed"]
    /\ UNCHANGED <<listeners, callVars, taskVars, results, cancelled, flushVars>>

\* The goroutine started after the loop waits for every task's results.Done.
CloseResults(d) ==
    /\ out[d] = "open"
    /\ call[d] = "returned"
    /\ \A t \in Of(d) : Finished(t)
    /\ out' = [out EXCEPT ![d] = "closed"]
    /\ UNCHANGED <<listeners, callVars, taskVars, results, cancelled, flushVars>>

----------------------------------------------------------------------------
(* The goroutines that run tasks.                                            *)

\* A worker's select may pick a task although closed or the context is ready.
Take(r) ==
    /\ runner[r] = Select
    /\ queue # <<>>
    /\ runner' = [runner EXCEPT ![r] = Head(queue)]
    /\ queue' = Tail(queue)
    /\ UNCHANGED <<listeners, callVars, wg, verdict, resultVars, cancelled, flushVars>>

\* A worker leaves when told to, Flush's goroutine when the channel is empty.
Leave(r) ==
    /\ runner[r] = Select
    /\ IF r \in Workers THEN closed \/ cancelled ELSE queue = <<>>
    /\ runner' = [runner EXCEPT ![r] = Off]
    /\ UNCHANGED <<listeners, callVars, queue, wg, verdict, resultVars, cancelled, flushVars>>

\* Variant: a panic unwinds past wg.Done.
FinishUnlessPanic(r) ==
    LET t == runner[r]
    IN  /\ t \in Tasks
        /\ \A d \in Dispatches : Parent[d] = t => call[d] \notin {"adding", "sending"}
        /\ \E v \in {"ok", "err", "panic"} :
              /\ verdict' = [verdict EXCEPT ![t] = v]
              /\ results' = IF out[t[1]] # "none" /\ v # "panic"
                            THEN [results EXCEPT ![t[1]] = @ + 1] ELSE results
              /\ wg' = IF v = "panic" THEN wg ELSE wg - 1
        /\ runner' = [runner EXCEPT ![r] = Select]
        /\ UNCHANGED <<listeners, callVars, queue, out, cancelled, flushVars>>

\* Variant: a panic is recovered outside the worker's loop.
FinishPanicEndsWorker(r) ==
    LET t == runner[r]
    IN  /\ t \in Tasks
        /\ \A d \in Dispatches : Parent[d] = t => call[d] \notin {"adding", "sending"}
        /\ \E v \in {"ok", "err", "panic"} :
              /\ verdict' = [verdict EXCEPT ![t] = v]
              /\ results' = IF out[t[1]] # "none" /\ v # "panic"
                            THEN [results EXCEPT ![t[1]] = @ + 1] ELSE results
              /\ runner' = [runner EXCEPT ![r] = IF v = "panic" THEN Off ELSE Select]
        /\ wg' = wg - 1
        /\ UNCHANGED <<listeners, callVars, queue, out, cancelled, flushVars>>

\* The listener returns nil or an error, which goes to the result channel, or
\* panics, which is recovered; results.Done and wg.Done in either case.
Finish(r) ==
    LET t == runner[r]
    IN  /\ t \in Tasks
        /\ \A d \in Dispatches : Parent[d] = t => call[d] \notin {"adding", "sending"}
        /\ \E v \in {"ok", "err", "panic"} :
              /\ verdict' = [verdict EXCEPT ![t] = v]
              /\ results' = IF out[t[1]] # "none" /\ v # "panic"
                            THEN [results EXCEPT ![t[1]] = @ + 1] ELSE results
        /\ wg' = wg - 1
        /\ runner' = [runner EXCEPT ![r] = Select]
        /\ UNCHANGED <<listeners, callVars, queue, out, cancelled, flushVars>>

----------------------------------------------------------------------------
(* Run, Flush and Reset.                                                     *)

\* Run, on a fresh or a reset handler, with a context of its own.
Run ==
    /\ ~ closed
    /\ WorkersGone
    /\ runner' = [r \in Runners |-> IF r \in Workers THEN Select ELSE runner[r]]
    /\ cancelled' = FALSE
    /\ UNCHANGED <<listeners, callVars, queue, wg, verdict, resultVars, flushVars>>

Cancel ==
    /\ ~ cancelled
    /\ ~ WorkersGone
    /\ cancelled' = TRUE
    /\ UNCHANGED <<listeners, callVars, taskVars, resultVars, flushVars>>

\* Flush closes e.closed and starts the draining goroutine.
Flush ==
    /\ flush = "idle"
    /\ flushes < MaxFlushes
    /\ Orderly => \A d \in Dispatches :
                      Outside(d) => call[d] \notin {"adding", "sending"}
    /\ closed' = TRUE
    /\ flush' = "waiting"
    /\ flushes' = flushes + 1
    /\ owed' = {t \in Tasks : InMemory(t)}
    /\ runner' = [runner EXCEPT ![flushes + 1] = Select]
    /\ UNCHANGED <<listeners, callVars, queue, wg, verdict, resultVars, cancelled>>

\* Variant: Flush looks at the channel instead of waiting for the tasks.
TasksDrained ==
    /\ flush = "waiting"
    /\ queue = <<>>
    /\ flush' = "joining"
    /\ UNCHANGED <<listeners, callVars, taskVars, resultVars, cancelled, closed, flushes, owed>>

\* e.wg.Wait()
TasksDone ==
    /\ flush = "waiting"
    /\ wg = 0
    /\ flush' = "joining"
    /\ UNCHANGED <<listeners, callVars, taskVars, resultVars, cancelled, closed, flushes, owed>>

\* e.running.Wait()
WorkersDone ==
    /\ flush = "joining"
    /\ WorkersGone
    /\ flush' = "returned"
    /\ UNCHANGED <<listeners, callVars, taskVars, resultVars, cancelled, closed, flushes, owed>>

\* Reset, which must only be called after Flush has returned.
Reset ==
    /\ flush = "returned"
    /\ closed' = FALSE
    /\ flush' = "idle"
    /\ owed' = {}
    /\ UNCHANGED <<listeners, callVars, taskVars, resultVars, cancelled, flushes>>

----------------------------------------------------------------------------
Caller(d) == Dispatch(d) \/ Add(d) \/ Send(d) \/ Return(d) \/ CloseResults(d)
Goroutine(r) == Take(r) \/ Leave(r) \/ Finish(r)

Next ==
    \/ Listen
    \/ \E d \in Dispatches : Caller(d)
    \/ \E r \in Runners : Goroutine(r)
    \/ Run \/ Cancel
    \/ Flush \/ TasksDone \/ WorkersDone \/ Reset

Spec == Init /\ [][Next]_vars

\* Goroutines are scheduled and listeners return, as HandlerTimeout asks them
\* to.  Nobody is obliged to dispatch, run, cancel, flush or reset.
FairSpec ==
    /\ Spec
    /\ \A d \in Dispatches : WF_vars(Add(d) \/ Send(d) \/ Return(d)) /\ WF_vars(CloseResults(d))
    /\ \A r \in Runners : WF_vars(Goroutine(r))
    /\ WF_vars(TasksDone) /\ WF_vars(WorkersDone)

----------------------------------------------------------------------------
(* Properties.                                                               *)

TypeOK ==
    /\ listeners \in 0 .. MaxListeners
    /\ call \in [Dispatches -> {"idle", "refused", "adding", "sending", "returned"}]
    /\ owned \in [Dispatches -> 0 .. MaxListeners]
    /\ added \in [Dispatches -> 0 .. MaxListeners]
    /\ sent \in [Dispatches -> 0 .. MaxListeners]
    /\ queue \in Seq(Tasks) /\ Len(queue) <= QueueCap
    /\ wg \in Nat
    /\ runner \in [Runners -> Tasks \cup {Off, Select}]
    /\ verdict \in [Tasks -> {"none", "ok", "err", "panic"}]
    /\ results \in [Dispatches -> Nat]
    /\ out \in [Dispatches -> {"none", "open", "closed"}]
    /\ closed \in BOOLEAN /\ cancelled \in BOOLEAN
    /\ flush \in {"idle", "waiting", "joining", "returned"}
    /\ flushes \in 0 .. MaxFlushes
    /\ owed \subseteq Tasks

\* A result channel is closed only after every listener of its dispatch has
\* finished, with one result of each that did not panic: no listener ever
\* sends on a closed channel (events.go 143-172).
ClosedMeansComplete ==
    \A d \in Dispatches : out[d] = "closed" =>
        /\ \A t \in Of(d) : Finished(t)
        /\ results[d] = Cardinality({t \in Of(d) : verdict[t] # "panic"})

\* When Flush has returned every task in memory at the call has run and no
\* worker of Run is left, whatever dispatches or is cancelled meanwhile
\* (events.go 208-224).
FlushComplete ==
    flush = "returned" => (\A t \in owed : Finished(t)) /\ WorkersGone

\* The tasks and Flush as ListenerOnce sees them.
Life ==
    [t \in Tasks |->
        CASE Finished(t) -> "over"
          [] Running(t) /\ ~ Finished(t) -> "running"
          [] InMemory(t) /\ ~ Running(t) -> "accepted"
          [] OTHER -> "absent"]

Flushing == IF flush = "joining" THEN "waiting" ELSE flush

Once == INSTANCE ListenerOnce WITH life <- Life, flushing <- Flushing, found <- owed

\* Called in good order Flush returns, also when listeners panic, when the
\* context was cancelled before it and when Run was never called (events.go
\* 148-152, 210-224).
FlushReturns == flush = "waiting" ~> flush = "returned"

\* While the handler runs a dispatch gets through the full channel and each of
\* its listeners runs to its end, whichever of them panic (events.go 138-165,
\* 191-206).
EveryTaskRuns ==
    \A d \in Dispatches : call[d] \in {"adding", "sending"} /\ ~ WorkersGone ~>
        \/ call[d] = "returned" /\ \A t \in Of(d) : Finished(t)
        \/ cancelled \/ closed
=============================================================================
