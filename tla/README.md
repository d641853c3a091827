# A verification of windowframe

windowframe is a Go library of service building blocks: job queues with NATS
JetStream and Asynq drivers, an in-process event dispatcher, periodic workers
with leader election, an HTTP server with idempotency and logging middleware,
caches, request/reply over a pub/sub client, and small helpers. This directory
holds TLA+ models of the parts that carry concurrent or stateful logic, TLC
configurations that check them on small instances, and TLAPS proofs of the
properties that matter most. Paths below are relative to `src/`.

## Inventory

| Component | State it keeps | Operations | Hard behaviours | What makes it correct |
|---|---|---|---|---|
| NATS queue driver `queue/nats` | messages and delivery counts at the server, the processed log (KV bucket) | `Push`, fetch loop, `handleMessage`, `Ack`, `Nack`, `Cancel`, `Deadletter`, `InProgress`, `Close` | redelivery while a delivery is alive, lost replies, crash between claim and settling, TTL, shutdown | one holder and one final decision per id; nothing unfinished is removed; nothing hangs |
| Job consumer `queue/consumer.go` | message channel, handlers, worker goroutines | `Consume`, `handler`, `heartbeat`, `RegisterHandler`, `Close` | drain racing with workers, blocked senders, unsynchronised handler map | every message taken is handled; `Consume` returns after cancellation |
| Producer `queue/producer.go`, `options.go` | a driver | `Push` | aliasing of the options slice | every job gets its own id |
| Asynq driver `queue/asynq` | asynq server | `Consume`, `Close`, message result channel | shutdown while a handler waits for the verdict | a task ends with its verdict, and what succeeded does not come back |
| Events `events` | task queue of 100, listeners, two wait groups, closed channel | `Listen`, `Dispatch`, `DispatchChannel`, `Run`, `Flush`, `Reset` | full queue with every worker dispatching, listeners that panic, flush while dispatching | each listener runs once per event; results close once; flush leaves nothing |
| Workers `workers` | scheduled jobs, local lock table, leader status | `NewRunner`, `Register`, `Run`, `Stop`, `Lock`, `Unlock` | leadership lost between check and run | runs of a name overlap only across an election; no lock stays behind |
| Idempotency middleware `http/middleware` | lock and recorded response per key in Redis | the middleware, `Lock`, `Unlock`, `Get`, `Store` | lock TTL expiring under its holder, unowned unlock, failing store | the handler runs once per key; replays are the recorded response |
| HTTP server `http/http.go`, `validation`, `httperrors`, `common` | route table, server | `Start`, `Stop`, `Register`, handler pipeline, error mapping | stop before or during start, requests in flight, an error that three places may answer | one response per request, with the status the error asks for; `Stop` drains and returns |
| Caches `cache` | entries with expiry | `Get`, `Put`, `Delete`, `Len` | expiry decided under a read lock and applied later | nothing expired is served; a fresh entry is lost to an expiry only in a race |
| Comms `comms` | pub/sub subscription, reply subject | `Send`, `Listen` | timeout racing the reply | a sender sees its reply or an error |
| UUID, duration, config, log | an ordering timestamp; none; none; context attributes | `OrderedAt`, `String`, `Parse`, handlers | unsynchronised global; replacement order | ids ascend; text denotes the duration; precedence of sources |
| crypto, database, redis, storage, tracing, otel, profiling, grpc, francis, test | clients and configuration | thin wrappers | none of their own | – |

Interaction: the producer hands a job to a driver's `Push`; a driver's
`Consume` sends messages into the consumer's channel; a consumer worker calls
the registered handler and settles the message through the driver's `Ack`,
`Nack`, `Cancel` or `Deadletter`; `Consume` calls the driver's `Close` after
cancellation and then drains the channel itself.

## Modules

| Module | Stands for | Role |
|---|---|---|
| `NatsQueue` | `queue/nats` (`consumer.go`, `message.go`, `producer.go`) under `queue/consumer.go` | processes, JetStream and the processed log, one action per step that another process or the server can come between |
| `JobOnce` | what the processed log promises | abstract specification of one id; `NatsQueue` implements it (`ImplementsJobOnce`) |
| `QueueConsumer` | `queue/consumer.go`, with `queue/asynq/consumer.go` and the sending side of `queue/nats/consumer.go` | the goroutines of one process: driver, channel, workers, cancellation, drain |
| `ConsumeOnce` | its promise | the abstract specification of what becomes of the messages of one `Consume` |
| `EventHandler` | `events/events.go` | dispatch, workers, result channels, flush and reset |
| `ListenerOnce` | its promise | the abstract specification of a dispatch's tasks and of `Flush` |
| `Idempotency` | `http/middleware/idempotent.go`, `idempotent_store.go` | requests of one key over Redis |
| `ReplayOnce` | its promise | the abstract specification of one key's requests, at most one of which is recorded |
| `HttpServer` | `http/http.go` with `http/validation`, `http/httperrors`, `http/middleware/logger.go` | set-up, `Start` and `Stop`, and a request through the pipeline |
| `Caches` | `cache` | the four caches, a step for each stretch under a lock |
| `Workers` | `workers` | runners, the locker and one run of a worker |
| `ElectedRun` | its promise | the abstract specification of which runs may be under way together |
| `Comms` | `comms` | senders, responders, the broker between them |
| `AsynqQueue` | `queue/asynq` with `queue/producer.go`, `options.go`, `errors.go`, `consumer_observer.go` and `handler` of `queue/consumer.go` | a job from `Push` to its verdict |
| `OrderedIds` | `OrderedAt` in `uuid/uuid.go` | ids from goroutines that share one global |
| `Config` | `config` | the parser over its extractors, the flags field by field |
| `MCNatsQueue`, `MCEventHandler`, `MCIdempotency`, `MCHttpServer`, `MCLibrary` | – | instances for TLC; `MCLibrary` puts the six components after `HttpServer` side by side |
| `NatsQueueProofs`, `NatsJobOnceProofs`, `QueueConsumerProofs`, `EventHandlerProofs`, `IdempotencyProofs`, `HttpServerProofs`, `CachesProofs`, `LibraryProofs` | – | theorems for all values of the constants |

A definition that begins with `\* Variant:` is a wrong version of the
definition after it, as a plausible slip in the code would make it. No
specification uses it: put in the place of the right one it shows which property
notices.

### NatsQueue

A delivery is a message with its delivery count, `<<m, k>>`; several deliveries
of a message, or of two messages with one `Nats-Msg-Id`, may be alive at once in
different processes. `broker` and `delivered` are the server's record of a message,
`kv` the bucket, `stage` the program counter of a delivery, `mode` the life of a
process, `verdict` a history of what handlers decided.

| Code | Actions |
|---|---|
| `Producer.Push` | `Push` (the id may be empty; `Delayed` messages are not yet `due`) |
| fetch loop, the server's redelivery | `Fetch`, `AckWaitLapse`, `BecomeDue`, `Expire` (`ProcessedLogTTL`) |
| `handleMessage` 185-235 | `DropUnidentified`, `Postpone`, `Claim`, `FindClaimed`, `FailToClaim`, `ResolveConflict`, `RejectMalformed`, `Forward` |
| `queue.Consumer.handler` | `Start`, `HandlerReturns`, `AckFailed` (`flow.RetryDelay`) |
| `Message.Ack`, `Nack`, `Cancel`/`Deadletter` | `AckMark` then `AckConfirm`; `ReleaseClaim` then `NakDelivery`; `Discard` |
| cancellation, `Close`, end of the process | `Cancel`, `CloseConn`, `ProcessEnds` |

A remote call that waits for an answer has three outcomes: it is answered, it takes effect without
the caller learning of it, or it is lost. Calls under a cancelled context have
only the last two. `Nak` and `Term` are published without waiting: they arrive
or they do not. Time is left out: `AckWaitLapse` may happen whenever a
delivery is not settled, which contains every combination of `AckWait`,
`BackOff` and heartbeat (`InProgress` does nothing the model could tell apart).

A failed `Ack` is tried three times (`AckTries`): the count is written into the
call of `flow.RetryDelay`, and `ConsumerOpts.AckAttempts` does not reach it.

### QueueConsumer

`messages` is the channel of twice the concurrency, `worker` what each worker
holds, `main` how far `Consume` has come after the cancellation, `left` what
remains of `for range size`. `driver` is chosen in `Init`: NATS has one goroutine
which sends a batch without looking at its context and whose `Close` does
not wait; Asynq has one goroutine per task, as many as its own `Concurrency` allows (`AsynqSlots`; the consumer's
option of that name is another one), and its `Shutdown` waits for them up to a timeout
(`ShutdownTimeout`), after which the tasks are back at the server while their
goroutines still wait. `Once` maps it to `ConsumeOnce`: a message is queued while it is in the channel,
being handled while a goroutine holds it, owed if the channel held it when `Consume` counted.

### EventHandler

A task is a dispatch and the number of a listener. `Dispatch` takes the
listeners under the lock, `Add` counts a task in the wait group, `Send` puts it
into the channel and blocks when that is full, `CloseResults` is
`DispatchChannel`'s second goroutine. Workers and `Flush`'s draining goroutine are `Runners`:
`Take`, `Finish` (with a result, or a panic that is recovered), `Leave`. `Flush`,
`TasksDone`, `WorkersDone` are the three stretches of `Flush`, `Reset` makes the
handler usable again. `Parent` says which dispatch is made by a listener;
`Orderly` limits `Flush` to moments when no outside dispatch is under way.
`Once` maps it to `ListenerOnce`: a task is accepted when it is added to the wait group, running while a goroutine has it and over
when it has a verdict.

### Idempotency

`stage` is a request's place between its middleware's Redis calls. `lock` and
`cache` are the two keys in Redis, `wrote` the status and the body a request's own handler
wrote, `from` and `sent` whose response its client got and what of it. A body comes in one `Write` or in several: the
recorder passes each on and keeps the last (`AsSent`, `BodyKept`). A handler's mapped
and validation errors are written as responses with a nil error (`http/http.go`
221-269), so they are `Respond` here, recorded and replayed like any other;
`HandlerFails` is an error returned before anything was written, `RespondAndFail` one behind a response, that of its
last `Write` for one: the client has the response and Redis does not. The clients, the crashes, lost answers
and the two TTLs are an environment chosen in `Init` from `Envs`, so one run
covers several combinations without their product.

`Once` maps it to `ReplayOnce`: a request is waiting, served (from the lock to its
return) or over, `record` is the response in Redis and `answer` is `from`. The mapping is a
refinement in `Calm` environments, those without the two TTLs, whatever crashes and answers are
lost; when a lock expires under a slow handler, two requests are served at once and it fails.

### HttpServer

`start`, `cancel` and `done` are what `Start` and `Stop` share without a lock:
`StartMarshals`, `StartSetsCancel`, `StartServes` and `StartReturns` are its four
stretches (`StartFailsToMarshal` ends it before the second), and a `Stop` reads both fields in one step (`StopCalled`). A request is a record: `at` is its stage, `err`
what the stage returned, `sent` every status that was written to it. The steps
follow `wrapHandler` (`Bind`, `Validate`, `HandlerSucceeds` or `HandlerFails`, `Reply`),
then the way out through the logger and echo's error handler (`LoggerReturns`,
`Finish`), both of which call `HandleError`. An error is the set of what `errors.Is` and
`errors.As` would find in it, so wrapping and joining need no structure of their own;
`StatusOf` is `getErrorCodeAndResponse`, in its order. The body of an application's error handler is any value:
`Encodable` says whether the JSON encoder takes it. If not, `wrapHandler` returns the encoder's error
(`ErrorResponses`), while `handleError` logs it and writes nothing, which net/http makes a 200 (`Finish`).
A middleware on either side of the logger passes, answers by itself as `Idempotent` does, returns an error, or returns one
behind a response (`OuterMiddleware`, `InnerMiddleware`, `MiddlewareFailsLate`). `cause`, `ran`, `wrote` and `answered`
are histories. echo and net/http are external: the router, what a broken connection does, the end of the grace period.

### The smaller components

- **`Caches`**: `cacheKind` is chosen in `Init`. `Get` is `GetRead` under
  the lock, `GetJudge` on the copy, and `GetExpire`, which deletes whatever the key
  holds by then. `raced` and `lost` are histories of that. The LRU list is
  golang-lru's; `LruCacheExpiring` takes the time before that list's lock (`PutBegin`, `PutAdd`).
- **`Workers`**: `locks` is `Locker.locks` of each instance, `leader` what
  `IsLeader` says. A run passes `Due`, `AsksIfLeader`, `TakesLock`, `RunEnds`,
  `CountsFailure` and `Unlocks`; an election or a crash may come between any two. gocron does not wait
  for the last run of a job, so several may be under way (`Slots`). `Elected` maps the runs that hold their name to `ElectedRun`;
  each keeps its identity there, or two of one name would look like one.
- **`Comms`**: `pending` is what a subscription holds, taken one by one;
  requests and replies may be lost; `SendTimesOut` may come when the reply
  is there already. A reply of a foreign responder may be no JSON or one without the fields of a response, which
  reads as a success.
- **`AsynqQueue`**: `spare` is the array element behind an options slice that several
  jobs share, which `append` writes without growing. `task` is what asynq keeps
  under an id. `Settled` and `Retried` are asynq's reading of a verdict; `WorkerDies` brings an unsettled task back. So does
  `TaskGivenBack` under a live worker, when the time of the server's shutdown is up or a deadline or lease has passed: the
  consumer goes on with the message, and `stray` counts these attempts until they end (`StrayEnds`).
- **`OrderedIds`**: the comparison with `lastV7time` and its assignment are
  two steps (`Compares`, `Stores`), as nothing guards it.
- **`Config`**: `conf` says of each field which extractor its value is from, and `given` what each has for it: nothing,
  the zero value of its type, or another. Only to the environment is a zero value different, whoever wrote it (`Zero`): it leaves a
  field alone that is not zero. `FlagsField` is one
  turn of `processItem`; it has an error and a panic beside it.

## Runs

| Run | Instance | Shows |
|---|---|---|
| `nats_redeliver` | two messages with one id, two deliveries each, two processes; lost and late replies, crashes | `SingleHolder`, `SettledOnce`, `RemovedOnlyIfSettled`, `MarkStays`, and that driver and consumer implement `JobOnce` |
| `nats_unusual` | one message without an id, one malformed, one delayed and unhandled; claims expire | no path leaves a claim behind (`NoOrphanClaims`), nothing unfinished is removed |
| `nats_settles` | one delayed message, two processes; faults, expiry, crashes and shutdowns together | every pushed message is eventually removed or has used up its deliveries |
| `nats_burnt` | one message, three deliveries, nothing goes wrong but a slow handler | *refuted:* `FailedAttemptIsRetried` |
| `consumer_drain` | five messages, two workers (a channel of four), both drivers, five Asynq slots | `DrainComplete`; everything is handled while up; no Asynq task is stranded |
| `consumer_steal` | the same for `ConsumeReturns` | *refuted* |
| `events_restart` | two dispatches of two listeners over a channel of one place, one worker, two flushes | closed result channels are complete; `Flush` finishes what is in memory and returns, again after `Reset`; dispatches get through |
| `events_hang` | a dispatch by a listener during `Flush` | *refuted:* `FlushReturns` |
| `idem_replay` | three requests of one key, one without, one with a bad key; three environments | one request at a time; the handler writes twice only if a response was lost or its handler failed behind it; replays agree; locks do not stay |
| `idem_status` | a 201, or a body in several pieces, is replayed | *refuted:* `ReplaysRecorded` |
| `http_requests` | one request on either of two routes, six kinds of error, two error handlers that overlap, one with bodies that cannot be encoded, middleware that passes, answers and fails, with and without the logger; two Stops | one response per request, with the status that is asked for; `Stop` drains and returns |
| `library` | one small component per behaviour, see below | `CacheServesFresh`, `LostOnlyToRace`; `OverlapNeedsElection`, `LocksAreHeld`; `AnswerIsOwn`; `OwnIdUnlessShared`, `AgainOnlyIfTakenBack`, `ArchivedIsCounted`; `OrderedUnlessOverlapped`; `LastSayWins` |

`library` composes components that share no state. `focus`, chosen in `Init`,
says which one moves in a behaviour, so that their state spaces add up instead of
multiplying; the others stay in an initial state. Its property is each
component's own, and `LibraryTypeOK` the conjunction of their types.

**Bounds.** Two deliveries of each of two messages with one id are the smallest
instance in which both kinds of overlap (redelivery, duplicate publication)
meet, and two processes the smallest in which one can die under the other.
`FailedAttemptIsRetried` needs a third delivery to be used up. The channel of
`QueueConsumer` holds four with two workers, so five messages fill it and leave
one blocked once the workers have ended, for Asynq too, which has five slots. A channel of one place makes the second task of a dispatch block;
two flushes are the second use after `Reset`. Three requests of a key are the
holder, one refused and one that comes after. Requests of
`HttpServer` share nothing but the life of the server, so one is enough beside two
Stops, the second of which finds what the first has left. In `library`: two
goroutines on two keys of a cache of one place; two instances, two elections and three runs are the fewest in which runs of two
terms and of two workers of one name meet; two senders and two responders cross; two jobs share an
options slice and one is pushed twice, and at most one attempt at each is under way that asynq has given up (`MaxStrays`), which is
enough for a stray success beside that of the task; two ids of six times with a millisecond of
six nanoseconds hit the same key, the next one and the next millisecond; six orders of
extractors over four shapes of configuration put each extractor behind each, with fields that are zero by default, that
say overwrite, and that cannot be read. The proofs remove the bounds for
the safety properties they cover. Deadlock is not an error in these models:
pushes, dispatches, requests, runs and terms are finite, and all of them end.

**Fairness.** Goroutines are scheduled, handlers and listeners return, timers
fire, and Redis and NATS expire what has a TTL: weak fairness of those actions.
`Fetch` has strong fairness over all processes, which says that processes are
not restarted so fast that none ever gets to fetch. Nobody is obliged to push,
dispatch, request, cancel, flush or reset; a fault or a crash is never owed. In
`HttpServer` the steps of `Start` follow each other, a request's stages and its handler come to an end, and a
`Stop` whose channel is closed returns; the context given to `Stop` need never end, so `StopComesBack` does not rest on it.
`library` has safety properties only and no fairness. Without a
TTL on the lock or the log nothing is assumed to free an orphan.

## Disagreements found

- **`FailedAttemptIsRetried`** (`queue/nats/consumer.go:219`). A redelivery that meets a claim in
  progress is put back without a delay and comes round at once, so that one long
  attempt lets the others be used up; when it then fails, the job is given up.
- **`FlushReturns`** (`events/events.go:217`). The draining goroutine ends on
  the first empty channel. A listener that dispatches afterwards leaves a task
  nobody takes.
- **`ConsumeReturns`** (`queue/consumer.go:131`). The drain counts the channel's
  messages while workers at their `select` still take some: the last receive blocks
  for ever.
- **`ReplaysRecorded`** (`http/middleware/idempotent.go:123`). The body is written before
  the status, so a replay is always a 200; and the recorder keeps the last `Write` (`idempotent.go:182`), so of a body in several
  the replay has the last part only.

Others are read off the models without a run of their own:

- `queue/nats/message.go:61`: `Delete` runs under the handler's context and its error is dropped, while
  `Nak` takes no context. After a cancellation the message is back with its claim still there, although
  line 55 says that `Nack` releases the claim (`ReleaseClaim`, `NakDelivery`).
- `http/middleware/idempotent.go:150`: `Store` runs under the request's context, so a client that
  leaves takes the record with it and a retry runs the handler again; `HandledOnce` names that
  exception (`FailToStore`) and that of an error behind a response (`RespondAndFail`).
- `http/README.md:88-91` says that the handler is invoked even when validation
  failed and its response discarded. The code returns before it calls the handler (`http/http.go:241-244`, `Validate`).
- `http/README.md:95-96` promises a status to every error. If the body an application's error handler makes of it cannot be
  encoded, `handleError` writes nothing and the request is answered with an empty 200 (`http/http.go:352-358`); `StatusAsAsked`
  names that exception.
- `http/README.md:108-110` says what is unmatched becomes a logged 500. The validator's error for a request that is not
  a struct is written as 503 and not logged, because `Validate` ignores whether the mapping knew it (`http/http.go:242`).
- `wrapHandler` writes a mapped error without looking whether the handler has
  already written (`http/http.go:250`): the second body is appended to the first. `AnsweredOnce` leaves out handlers that write by themselves.
- A `Stop` between the two assignments of `Start` (`http/http.go:125-126`) waits on a nil
  channel, for ever if its context has no deadline.
- `config/flags.go:62-67`: a flag's default overrides what an earlier extractor found, but gives way to the environment behind
  it if it is the zero value (`config/env.go:20-25`), and a duration type with a name of its own is read as an `int64` flag.
- `queue/asynq/producer.go:62` hands a number of tries to `asynq.MaxRetry`: one
  attempt more than asked for.
- An error that wraps both sentinels is counted as deadlettered and cancelled
  (`queue/consumer.go:164`, `queue/consumer_observer.go:128-133`); a job archived because its retries are used up is not counted as deadlettered at all.
- `uuid.OrderedAt` gives `k`, `k + 1`, `k` to three ids of one time (`uuid/uuid.go:132-138`).
- `comms`: an error with an empty text arrives as a success (`sender.go:55`), and the context given to `Send` has no part in it (`sender.go:44`).
- A listener that panics sends no result although `events/README.md:36` promises one per listener, and
  listeners may run before `Dispatch` returns although line 85 says otherwise.

## Proofs

The constants are subject only to each module's named assumption
(`NatsQueueAssumption`, …): any finite or infinite set of messages, processes,
dispatches or requests, any number of deliveries, any environment.

- **`NatsQueueProofs`**: `Typing`, `OneHolder`, `OneSettlement`, `RemovalIsEarned`,
  `MarksLast`, `ClaimsAreOwned`. `SingleHolder` alone is not inductive: a state with one holder and
  an empty log entry would let a second in. `ClaimInv` says that whoever holds or has
  settled an id has its entry in the log and nobody else holds it; `VerdictInv`
  ties a delivery's stage to its verdict; `RemovalInv` puts a verdict behind each
  processed mark and each removal. `OrphanInv`, for calm environments, gives every
  entry in progress a delivery that may have made it; a delivery that has written its mark
  no longer counts, because its entry may have expired and be another's.
- **`NatsJobOnceProofs`**: `LogImplementsJobOnce`. The status of an id is a function of its
  deliveries and its entry; every step leaves it alone, except the claim, the
  release, the two decisions and the ways to abandon, which are the actions of `JobOnce`.
- **`QueueConsumerProofs`**: `Typing`, `DrainTakesAll`. What is owed and still in the
  channel is among the first `left` places (`OwedInv`): receives by workers only
  move it forward, late sends are behind it. That needs each message in the
  channel once (`ChannelInv`) and handled by one goroutine (`WorkInv`). The same
  lemma shows why `Consume` can hang: the places may run out before `left` does.
  `MessagesHandledOnce`: the consumer implements `ConsumeOnce`. `SlotsInv` gives each message being handled a goroutine
  of its own, so a goroutine that is free to take one leaves the number below `Concurrency`, the drain one above it.
- **`EventHandlerProofs`**: `Typing`, `ResultsComplete`, `FlushWaits`, for nested
  dispatches too. The wait group equals the number of unfinished tasks (`CountInv`), a
  task is in one place at a time (`TaskInv`), so zero means all are done.
  `ListenersRunOnce`: the handler implements `ListenerOnce`. Besides these invariants that needs the goroutine of a
  `Flush` that was not called yet to be free (`DrainersInv`), or its start would take a running task away.
- **`IdempotencyProofs`**: `Typing`, `LockExcludes`, `HandlerRunsOnce`, `ReplaysAreOne`.
  `LockInv`: while locks do not expire the lock is there as long as a request is
  between `Lock` and `Unlock`; hence an unlock by name is an unlock by the owner.
  `RecordInv`: what a handler wrote is recorded, on its way, or lost.
  `ServedOnce`: in `Calm` environments the middleware implements `ReplayOnce`. `AnswerInv` says which stages have
  been answered and by whom; with the lock's invariant a `Store` is then a record by the request that was answered
  with it, and every other step moves one request or nothing.

- **`HttpServerProofs`**: `HttpTyped`, `RequestsAnsweredOnce`, `StatusesAsAsked`, `StopsDrained`.
  `AnsweredOnce` and `StatusAsAsked` speak of finished requests only; `RequestInv` says of every stage (`Sound`) what may have been
  written by then: nothing before the stage that answers, one response at most on the way out, and behind that stage
  either a response that fits the first error (`Fits`) or none, with that error, or the encoder's when its body cannot be
  encoded, still on its way (`Owed`). `StopInv`: nothing arrives before the server serves, and when `Start`
  has returned its requests are over or its grace period is.
- **`CachesProofs`**: `CachesServeFresh`, `LossesAreRaces`, `CachesBounded`. `CacheInv` says that a
  Get which has left its lock holds a copy, and that what is under its key by then is that entry, nothing, or from a Put that
  raced it; one about to delete has a copy that has expired, so what it takes out too early is from a race.
  The bound needs `ListInv`: the list of an LRU cache names what is held, each key once, so the eviction of its last place makes
  room for one.
- **`LibraryProofs`**: `OverlapsNeedElection`, `LocksHeld`: the runs of a name on an instance exclude each
  other (`Exclusive`, from which also `FailuresAreExecutions`: `CountsInv` has each failure after its execution although `Monitor` adds them in two
  steps), and two that found two instances leading did so in two terms (`Apart`), because only the leader's runs are of
  the present term (`InTerm`). `RunsAreElected`: with these the workers implement `ElectedRun`; a run begins where it takes its name and
  ends where it gives it back. `AnswersAreOwn`: every reply on its way is to its own request and has its handler
  behind it. `OwnIds`, `SucceedsOnce`, `ArchivesCounted`: between its append and its enqueueing a push has its own id
  behind the options or is known to overlap (`IdsKept`); a job pushed once has one task at most, and if asynq never took that
  back no other attempt is under way and a success is about to end it (`PushedOnce`); an archiving verdict was counted (`Marked`).
  `IdsOrdered`: the last key is the one asked for or the next, and so is that of each call under way.
  `LastSayIsTaken`: `ConfigInv` follows the parser, what each field has been given so far, by which extractor, and whether that
  is the zero value. `LibraryTyped` and `LibraryKeepsPromises` carry the components' theorems over to their
  composition, whose steps are each a step of one of them.

Each invariant was model-checked on the run's instance before it was proved.
Every safety property of the runs is proved. Only model-checked is
everything under fairness (`EventuallySettled`,
`FlushReturns`, `EveryTaskRuns`, `ServedWhileUp`, `TaskEnds`, `KeyFreed`,
`StopComesBack`), which the proof
system cannot treat. The disagreements above are counterexamples, not theorems.

## Not modelled

- *Time and its arithmetic.* `BackOff` replaces `AckWait` at the server while the
  heartbeat stays at ten seconds; the models let an ack-wait lapse at any time, which
  includes that case but cannot tell it from others.
- *Times before 1970* in `OrderedAt`: `OrderedIds` takes its times from `Nat`. Of earlier ones `uuid/uuid.go:128-131` rounds
  toward zero and shifts a negative number.
- *Set-up*: `NewConsumer`, streams and durable or ephemeral consumers, options,
  `RegisterShutdown` and its functions. They run before or after the
  concurrent part, or do not influence it.
- *`RegisterHandler` during `Consume`*: the handler map is read without the
  lock; a model would only restate that this is a data race.
- *`http/common`, `http/handlers/docs`, the metrics, tracing and zap middlewares*: typed values on a context,
  fixed pages, and calls of libraries around `next`; an `InnerMiddleware` stands for them.
- *Conversions without state*: `duration`, `uuid/sql.go` (which leaves its receiver as it was for `nil` and for an empty value, where its
  comments speak of a null UUID), `config/redacted.go`, `log`.
- *Observers beyond their counters*: the producer's counters are registered and never
  incremented; `Monitor` observes nanoseconds under a name in seconds (`workers/monitor.go:51`).
- *Thin wrappers*: `crypto`, `database`, `redis`, `storage`, `tracing`, `otel`, `profiling`,
  `grpc`, `francis`, `test` hold no state of their own.

## Plan

Done, in this order: `NatsQueue` with `JobOnce` and its proofs; `QueueConsumer`;
`EventHandler` and its proofs; `Idempotency` and its proofs; the proofs of
`QueueConsumer`; `HttpServer` and its proofs; `Caches`, `Workers`, `Comms`, `AsynqQueue`, `OrderedIds`, `Config`,
their common run and their proofs; the abstract specifications `ListenerOnce`, `ReplayOnce`, `ConsumeOnce` and
`ElectedRun`.

Still to do, the most important first:

1. `AsynqQueue` under `QueueConsumer`: the whole path from `Push` through the
   channel and its drain to the verdict, in one composition.
2. `Idempotency` inside `HttpServer`: which of a request's responses is recorded when the logger or
   `handleError` writes it.
3. `NatsTimers`: the schedule of `AckWait`, `BackOff` and heartbeat.
4. A refinement of `Caches` to an abstract map with expiry, up to the race it allows.
5. `duration` as a function against a reference definition.
