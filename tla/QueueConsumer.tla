--------------------------- MODULE QueueConsumer ---------------------------
(* The job consumer's goroutines (queue/consumer.go): a driver sends         *)
(* messages on a bounded channel, workers handle them until the context is   *)
(* cancelled, and Consume closes the driver and drains what is left.         *)
(*                                                                           *)
(* The two drivers differ in who sends and in what Close does: the NATS      *)
(* driver's one goroutine works through the batch it fetched whatever        *)
(* happens to its connection; each Asynq task has a goroutine that sends and *)
(* then waits for the verdict, and Shutdown waits for these, up to a timeout *)
(* after which their tasks go back to the server.                            *)
EXTENDS Integers, FiniteSets, Sequences

CONSTANTS
    NMsgs,          \* messages the driver has to deliver
    Workers,        \* the consumer's goroutines, one per Concurrency
    Drivers,        \* the drivers a consumer may be given
    AsynqSlots,     \* the tasks Asynq runs at a time: its own Concurrency option
    NoMsg, Off,     \* a goroutine waiting for a message, or ended
    Requeues        \* whether Asynq's shutdown timeout may be reached

Msgs == 1 .. NMsgs
Concurrency == Cardinality(Workers)

ASSUME QueueConsumerAssumption ==
    /\ NMsgs \in Nat
    /\ IsFiniteSet(Workers) /\ Workers # {}
    /\ NoMsg \notin Msgs /\ Off \notin Msgs /\ NoMsg # Off
    /\ Drivers \subseteq {"nats", "asynq"}
    /\ AsynqSlots \in Nat \ {0}
    /\ Requeues \in BOOLEAN

VARIABLES
    driver,     \* the driver this consumer has
    msg,        \* where each message is
    requeued,   \* messages Asynq took back
    messages,   \* the consumer's channel
    worker,     \* what each worker is handling
    cancelled,  \* the context of Consume
    main,       \* Consume's own progress after the cancellation
    left,       \* iterations of the drain loop still to come
    draining,   \* the message Consume itself is handling
    owed        \* history: what the channel held when its length was read

vars == <<driver, msg, requeued, messages, worker, cancelled, main, left, draining, owed>>

InFlight == {m \in Msgs : msg[m] \in {"sending", "queued", "handling"}}

Init ==
    /\ driver \in Drivers
    /\ msg = [m \in Msgs |-> "server"]
    /\ requeued = {}
    /\ messages = <<>>
    /\ worker = [w \in Workers |-> NoMsg]
    /\ cancelled = FALSE
    /\ main = "serving"
    /\ left = 0
    /\ draining = NoMsg
    /\ owed = {}

----------------------------------------------------------------------------
(* The drivers.                                                              *)

\* The server's next message reaches out <- msg: NATS works through its batch
\* one at a time and does not look at the context in between; Asynq runs as
\* many tasks as it has slots, which need not be as many as there are workers,
\* until it is shut down.
Offer(m) ==
    /\ msg[m] = "server"
    /\ \A n \in 1 .. m - 1 : msg[n] # "server"
    /\ \/ driver = "nats" /\ \A n \in Msgs : msg[n] # "sending"
       \/ /\ driver = "asynq"
          /\ main = "serving"
          /\ Cardinality(InFlight \ requeued) < AsynqSlots
    /\ msg' = [msg EXCEPT ![m] = "sending"]
    /\ UNCHANGED <<driver, requeued, messages, worker, cancelled, main, left, draining, owed>>

\* Variant: one place too many.
SendOverfull(m) ==
    /\ msg[m] = "sending"
    /\ Len(messages) <= 2 * Concurrency
    /\ msg' = [msg EXCEPT ![m] = "queued"]
    /\ messages' = Append(messages, m)
    /\ UNCHANGED <<driver, requeued, worker, cancelled, main, left, draining, owed>>

\* The channel holds twice the concurrency.
Send(m) ==
    /\ msg[m] = "sending"
    /\ Len(messages) < 2 * Concurrency
    /\ msg' = [msg EXCEPT ![m] = "queued"]
    /\ messages' = Append(messages, m)
    /\ UNCHANGED <<driver, requeued, worker, cancelled, main, left, draining, owed>>

----------------------------------------------------------------------------
(* The workers.                                                              *)

\* select picks a message, also when the context is done.
Take(w) ==
    /\ worker[w] = NoMsg
    /\ messages # <<>>
    /\ worker' = [worker EXCEPT ![w] = Head(messages)]
    /\ msg' = [msg EXCEPT ![Head(messages)] = "handling"]
    /\ messages' = Tail(messages)
    /\ UNCHANGED <<driver, requeued, cancelled, main, left, draining, owed>>

\* Variant: an error from the handler ends the worker.
HandleAndStop(w) ==
    /\ worker[w] \in Msgs
    /\ msg' = [msg EXCEPT ![worker[w]] = "done"]
    /\ worker' = [worker EXCEPT ![w] = Off]
    /\ UNCHANGED <<driver, requeued, messages, cancelled, main, left, draining, owed>>

\* handler settles the message; its error is ignored.
Handle(w) ==
    /\ worker[w] \in Msgs
    /\ msg' = [msg EXCEPT ![worker[w]] = "done"]
    /\ worker' = [worker EXCEPT ![w] = NoMsg]
    /\ UNCHANGED <<driver, requeued, messages, cancelled, main, left, draining, owed>>

Leave(w) ==
    /\ worker[w] = NoMsg
    /\ cancelled
    /\ worker' = [worker EXCEPT ![w] = Off]
    /\ UNCHANGED <<driver, msg, requeued, messages, cancelled, main, left, draining, owed>>

----------------------------------------------------------------------------
(* Consume after the cancellation.                                           *)

Cancel ==
    /\ ~ cancelled
    /\ cancelled' = TRUE
    /\ UNCHANGED <<driver, msg, requeued, messages, worker, main, left, draining, owed>>

\* <-ctx.Done() and the driver's Close is called.
CallClose ==
    /\ main = "serving"
    /\ cancelled
    /\ main' = "closing"
    /\ UNCHANGED <<driver, msg, requeued, messages, worker, cancelled, left, draining, owed>>

\* Asynq gives up waiting and returns the unfinished tasks to the server; their
\* goroutines and messages stay where they are.
ShutdownTimeout ==
    /\ Requeues
    /\ driver = "asynq"
    /\ main = "closing"
    /\ InFlight \ requeued # {}
    /\ requeued' = requeued \cup InFlight
    /\ UNCHANGED <<driver, msg, messages, worker, cancelled, main, left, draining, owed>>

\* Variant: Consume returns without a drain.
CloseReturnsUndrained ==
    /\ main = "closing"
    /\ driver = "asynq" => InFlight \subseteq requeued
    /\ main' = "draining"
    /\ left' = 0
    /\ owed' = {messages[i] : i \in DOMAIN messages}
    /\ UNCHANGED <<driver, msg, requeued, messages, worker, cancelled, draining>>

\* Close returns, at once or when Asynq's tasks are over, and the length of
\* the channel is read.
CloseReturns ==
    /\ main = "closing"
    /\ driver = "asynq" => InFlight \subseteq requeued
    /\ main' = "draining"
    /\ left' = Len(messages)
    /\ owed' = {messages[i] : i \in DOMAIN messages}
    /\ UNCHANGED <<driver, msg, requeued, messages, worker, cancelled, draining>>

\* for range size: the receive blocks while the channel is empty.
DrainTake ==
    /\ main = "draining"
    /\ draining = NoMsg
    /\ left > 0
    /\ messages # <<>>
    /\ draining' = Head(messages)
    /\ msg' = [msg EXCEPT ![Head(messages)] = "handling"]
    /\ messages' = Tail(messages)
    /\ left' = left - 1
    /\ UNCHANGED <<driver, requeued, worker, cancelled, main, owed>>

DrainHandle ==
    /\ draining \in Msgs
    /\ msg' = [msg EXCEPT ![draining] = "done"]
    /\ draining' = NoMsg
    /\ UNCHANGED <<driver, requeued, messages, worker, cancelled, main, left, owed>>

Return ==
    /\ main = "draining"
    /\ draining = NoMsg
    /\ left = 0
    /\ main' = "returned"
    /\ UNCHANGED <<driver, msg, requeued, messages, worker, cancelled, left, draining, owed>>

----------------------------------------------------------------------------
Drain == CallClose \/ CloseReturns \/ DrainTake \/ DrainHandle \/ Return

Next ==
    \/ \E m \in Msgs : Offer(m) \/ Send(m)
    \/ \E w \in Workers : Take(w) \/ Handle(w) \/ Leave(w)
    \/ Cancel \/ ShutdownTimeout
    \/ Drain

Spec == Init /\ [][Next]_vars

\* Goroutines are scheduled, handlers return and the shutdown timeout fires.
\* Nobody is obliged to cancel, and no message to arrive.
FairSpec ==
    /\ Spec
    /\ \A m \in Msgs : WF_vars(Send(m))
    /\ \A w \in Workers : WF_vars(Take(w) \/ Handle(w) \/ Leave(w))
    /\ WF_vars(ShutdownTimeout)
    /\ WF_vars(Drain)

----------------------------------------------------------------------------
(* Properties.                                                               *)

TypeOK ==
    /\ driver \in Drivers
    /\ msg \in [Msgs -> {"server", "sending", "queued", "handling", "done"}]
    /\ requeued \subseteq Msgs
    /\ messages \in Seq(Msgs) /\ Len(messages) <= 2 * Concurrency
    /\ worker \in [Workers -> Msgs \cup {NoMsg, Off}]
    /\ cancelled \in BOOLEAN
    /\ main \in {"serving", "closing", "draining", "returned"}
    /\ left \in 0 .. 2 * Concurrency
    /\ draining \in Msgs \cup {NoMsg}
    /\ owed \subseteq Msgs

\* When Consume returns, every message the channel held after the driver's
\* Close has been taken from it, by Consume or by a worker that had not yet
\* seen the cancellation; senders that come late do not push one out of the
\* drain's count (queue/consumer.go 123-135).
DrainComplete ==
    main = "returned" => \A m \in owed : msg[m] \in {"handling", "done"}

\* The messages and Consume as ConsumeOnce sees them.
Life == [m \in Msgs |-> IF msg[m] \in {"server", "sending"} THEN "away" ELSE msg[m]]
Phase == IF main \in {"serving", "closing"} THEN "serving" ELSE main

Once == INSTANCE ConsumeOnce
            WITH Slots <- Concurrency, life <- Life, line <- messages, phase <- Phase

\* Until the context is cancelled a message on its way to the channel is
\* handled, however full the channel and however many handlers fail
\* (queue/consumer.go 104-121).
ServedWhileUp ==
    \A m \in Msgs : msg[m] \in {"sending", "queued"} ~> msg[m] = "done" \/ cancelled

\* An Asynq task that began ends with its verdict or goes back to the server,
\* through a shutdown too: its goroutine is not left waiting for a verdict
\* with the server counting on it (queue/asynq/consumer.go 85-94).
TaskEnds ==
    \A m \in Msgs : driver = "asynq" /\ msg[m] = "sending" ~> msg[m] = "done" \/ m \in requeued

\* queue/consumer.go 101-103: Consume "blocks until the context is cancelled.
\* When this happens, the Close(ctx) method is called on the consumer driver."
ConsumeReturns == cancelled ~> main = "returned"
=============================================================================
