---------------------------- MODULE Idempotency ----------------------------
(* The idempotency middleware (http/middleware/idempotent.go) and its Redis  *)
(* store (idempotent_store.go): requests that carry one key take a lock, look *)
(* for a recorded response, run the handler, record what it wrote, unlock.   *)
(*                                                                           *)
(* A response is known by the request whose handler wrote it. Its headers are *)
(* recorded and replayed with it; its status, and whether its body came in    *)
(* one Write, are modelled.                                                   *)

CONSTANTS
    Requests,
    Keys,               \* values of X-Idempotency-Key
    NoKey, BadKey,      \* the header is missing, or not a UUID
    KeyOf,              \* the key of each request
    SkipMissingKeys,    \* IdempotentOpts.SkipMissingKeys
    Codes, Bodies,      \* the statuses a handler may write; whether a body comes in one
                        \* Write ("whole") or in several ("pieces")
    OK,                 \* 200, the status of a response that never set one
    Nobody,
    Envs                \* for each environment what may go wrong in it

Written == [code : Codes, body : Bodies]

Troubles == {"fault", "crash", "disconnect", "locktimeout", "ttl"}

ASSUME IdempotencyAssumption ==
    /\ NoKey \notin Keys /\ BadKey \notin Keys /\ NoKey # BadKey
    /\ KeyOf \in [Requests -> Keys \cup {NoKey, BadKey}]
    /\ SkipMissingKeys \in BOOLEAN
    /\ OK \in Codes /\ Bodies \subseteq {"whole", "pieces"}
    /\ Nobody \notin Requests /\ Nobody \notin Written
    /\ Envs \subseteq SUBSET Troubles

VARIABLES
    env,        \* what may go wrong in this behaviour
    lock,       \* the keys whose <key>:lock exists in Redis
    cache,      \* the response stored under each key
    stage,      \* progress of each request
    gone,       \* requests whose client went away: their context is cancelled
    reply,      \* what the client was sent
    sent,       \* its status and body, when it is a response of a handler
    from,       \* and whose response it is
    wrote,      \* what each request's own handler wrote
    unstored    \* history: requests whose response did not get to the store

replyVars == <<reply, sent, from>>
historyVars == <<wrote, unstored>>
vars == <<env, lock, cache, stage, gone, replyVars, historyVars>>

Keyed == {r \in Requests : KeyOf[r] \in Keys}
Holding == {"looking", "handling", "storing", "unlocking"}
Active == Holding \cup {"locking", "unkeyed"}

\* A call to Redis under the request's context answers, or fails without
\* effect, or fails although it took effect.
Answers(r) == r \notin gone
Fails(r) == "fault" \in env \/ r \in gone

Init ==
    /\ env \in Envs
    /\ lock = {}
    /\ cache = [k \in Keys |-> Nobody]
    /\ stage = [r \in Requests |-> "idle"]
    /\ gone = {}
    /\ reply = [r \in Requests |-> "none"]
    /\ sent = [r \in Requests |-> Nobody]
    /\ from = [r \in Requests |-> Nobody]
    /\ wrote = [r \in Requests |-> Nobody]
    /\ unstored = {}

GoTo(r, s) == stage' = [stage EXCEPT ![r] = s]

\* The middleware answers by itself, or returns an error that becomes a 500.
Answer(r, what) ==
    /\ reply' = [reply EXCEPT ![r] = what]
    /\ UNCHANGED <<sent, from>>

Send(r, s, author) ==
    /\ reply' = [reply EXCEPT ![r] = "response"]
    /\ sent' = [sent EXCEPT ![r] = s]
    /\ from' = [from EXCEPT ![r] = author]

----------------------------------------------------------------------------
(* The middleware.                                                           *)

\* Variant: the error of uuid.Parse is dropped.
ArriveUnparsed(r) ==
    /\ stage[r] = "idle"
    /\ KeyOf[r] # NoKey
    /\ GoTo(r, "locking")
    /\ UNCHANGED <<env, lock, cache, gone, replyVars, historyVars>>

Arrive(r) ==
    /\ stage[r] = "idle"
    /\ KeyOf[r] \in Keys
    /\ GoTo(r, "locking")
    /\ UNCHANGED <<env, lock, cache, gone, replyVars, historyVars>>

ArriveUnkeyed(r) ==
    /\ stage[r] = "idle"
    /\ KeyOf[r] = NoKey /\ SkipMissingKeys
    /\ GoTo(r, "unkeyed")
    /\ UNCHANGED <<env, lock, cache, gone, replyVars, historyVars>>

Reject(r) ==
    /\ stage[r] = "idle"
    /\ KeyOf[r] = BadKey \/ (KeyOf[r] = NoKey /\ ~ SkipMissingKeys)
    /\ Answer(r, "invalid")
    /\ GoTo(r, "done")
    /\ UNCHANGED <<env, lock, cache, gone, historyVars>>

\* SET <key>:lock NX EX
Lock(r) ==
    /\ stage[r] = "locking"
    /\ Answers(r)
    /\ KeyOf[r] \notin lock
    /\ lock' = lock \cup {KeyOf[r]}
    /\ GoTo(r, "looking")
    /\ UNCHANGED <<env, cache, gone, replyVars, historyVars>>

\* Variant: the deferred Unlock also runs when the lock was not acquired.
FindLockedAndUnlock(r) ==
    /\ stage[r] = "locking"
    /\ Answers(r)
    /\ KeyOf[r] \in lock
    /\ Answer(r, "locked")
    /\ GoTo(r, "unlocking")
    /\ UNCHANGED <<env, lock, cache, gone, historyVars>>

FindLocked(r) ==
    /\ stage[r] = "locking"
    /\ Answers(r)
    /\ KeyOf[r] \in lock
    /\ Answer(r, "locked")
    /\ GoTo(r, "done")
    /\ UNCHANGED <<env, lock, cache, gone, historyVars>>

FailToLock(r) ==
    /\ stage[r] = "locking"
    /\ Fails(r)
    /\ lock' \in {lock, lock \cup {KeyOf[r]}}
    /\ Answer(r, "failed")
    /\ GoTo(r, "done")
    /\ UNCHANGED <<env, cache, gone, historyVars>>

\* GET <key>: nothing recorded yet.
Miss(r) ==
    /\ stage[r] = "looking"
    /\ Answers(r)
    /\ cache[KeyOf[r]] = Nobody
    /\ GoTo(r, "handling")
    /\ UNCHANGED <<env, lock, cache, gone, replyVars, historyVars>>

\* The recorder passes every Write on to the client, and keeps the last one.
AsSent(w) == [code |-> w.code, body |-> "whole"]
BodyKept(w) == IF w.body = "pieces" THEN "last" ELSE "whole"

\* The recorded body is written before the recorded status: the server has
\* sent 200 by then and ignores the late WriteHeader.
Replayed(w) == [code |-> OK, body |-> BodyKept(w)]

Replay(r) ==
    /\ stage[r] = "looking"
    /\ Answers(r)
    /\ cache[KeyOf[r]] # Nobody
    /\ Send(r, Replayed(wrote[cache[KeyOf[r]]]), cache[KeyOf[r]])
    /\ GoTo(r, "unlocking")
    /\ UNCHANGED <<env, lock, cache, gone, historyVars>>

\* Variant: an error of Get is taken for a miss.
FailToLookAndGoOn(r) ==
    /\ stage[r] = "looking"
    /\ Fails(r)
    /\ GoTo(r, "handling")
    /\ UNCHANGED <<env, lock, cache, gone, replyVars, historyVars>>

FailToLook(r) ==
    /\ stage[r] = "looking"
    /\ Fails(r)
    /\ Answer(r, "failed")
    /\ GoTo(r, "unlocking")
    /\ UNCHANGED <<env, lock, cache, gone, historyVars>>

\* The handler writes a response, which goes to the client as it is recorded.
Writes(r) == \E w \in Written : Send(r, AsSent(w), r) /\ wrote' = [wrote EXCEPT ![r] = w]

Respond(r) ==
    /\ stage[r] \in {"handling", "unkeyed"}
    /\ Writes(r)
    /\ GoTo(r, IF stage[r] = "handling" THEN "storing" ELSE "done")
    /\ UNCHANGED <<env, lock, cache, gone, unstored>>

\* It writes one and returns an error all the same, that of its last Write or
\* another: what the client has of it is not recorded.
RespondAndFail(r) ==
    /\ stage[r] = "handling"
    /\ Writes(r)
    /\ unstored' = unstored \cup {r}
    /\ GoTo(r, "unlocking")
    /\ UNCHANGED <<env, lock, cache, gone>>

\* It returns an error and has written nothing: nothing is recorded.
HandlerFails(r) ==
    /\ stage[r] \in {"handling", "unkeyed"}
    /\ Answer(r, "failed")
    /\ GoTo(r, IF stage[r] = "handling" THEN "unlocking" ELSE "done")
    /\ UNCHANGED <<env, lock, cache, gone, historyVars>>

\* SET <key> NX EX: a response that is already there stays.
Stored(r) ==
    [cache EXCEPT ![KeyOf[r]] = IF @ = Nobody THEN r ELSE @]

\* Variant: SET <key> EX.
StoreOver(r) ==
    /\ stage[r] = "storing"
    /\ Answers(r)
    /\ cache' = [cache EXCEPT ![KeyOf[r]] = r]
    /\ GoTo(r, "unlocking")
    /\ UNCHANGED <<env, lock, gone, replyVars, historyVars>>

Store(r) ==
    /\ stage[r] = "storing"
    /\ Answers(r)
    /\ cache' = Stored(r)
    /\ GoTo(r, "unlocking")
    /\ UNCHANGED <<env, lock, gone, replyVars, historyVars>>

FailToStore(r) ==
    /\ stage[r] = "storing"
    /\ Fails(r)
    /\ \/ cache' = cache /\ unstored' = unstored \cup {r}
       \/ cache' = Stored(r) /\ unstored' = unstored
    /\ GoTo(r, "unlocking")
    /\ UNCHANGED <<env, lock, gone, replyVars, wrote>>

\* DEL <key>:lock, whoever set it, under a context of its own.
Unlock(r) ==
    /\ stage[r] = "unlocking"
    /\ lock' = lock \ {KeyOf[r]}
    /\ GoTo(r, "done")
    /\ UNCHANGED <<env, cache, gone, replyVars, historyVars>>

\* Variant: Unlock under the request's context.
FailToUnlockForTheGone(r) ==
    /\ stage[r] = "unlocking"
    /\ Fails(r)
    /\ GoTo(r, "done")
    /\ UNCHANGED <<env, lock, cache, gone, replyVars, historyVars>>

\* Its error is ignored.
FailToUnlock(r) ==
    /\ stage[r] = "unlocking"
    /\ "fault" \in env
    /\ GoTo(r, "done")
    /\ UNCHANGED <<env, lock, cache, gone, replyVars, historyVars>>

----------------------------------------------------------------------------
(* The environment.                                                          *)

Disconnect(r) ==
    /\ "disconnect" \in env
    /\ stage[r] \in Active
    /\ r \notin gone
    /\ gone' = gone \cup {r}
    /\ UNCHANGED <<env, lock, cache, stage, replyVars, historyVars>>

\* The process that serves r ends.
Crash(r) ==
    /\ "crash" \in env
    /\ stage[r] \in Active
    /\ unstored' = IF stage[r] = "storing" THEN unstored \cup {r} ELSE unstored
    /\ GoTo(r, "done")
    /\ UNCHANGED <<env, lock, cache, gone, replyVars, wrote>>

LockExpires(k) ==
    /\ "locktimeout" \in env
    /\ k \in lock
    /\ lock' = lock \ {k}
    /\ UNCHANGED <<env, cache, stage, gone, replyVars, historyVars>>

ResponseExpires(k) ==
    /\ "ttl" \in env
    /\ cache[k] # Nobody
    /\ cache' = [cache EXCEPT ![k] = Nobody]
    /\ UNCHANGED <<env, lock, stage, gone, replyVars, historyVars>>

----------------------------------------------------------------------------
Locking(r) == Lock(r) \/ FindLocked(r) \/ FailToLock(r)
Looking(r) == Miss(r) \/ Replay(r) \/ FailToLook(r)
Handling(r) == Respond(r) \/ RespondAndFail(r) \/ HandlerFails(r)
Settling(r) == Store(r) \/ FailToStore(r) \/ Unlock(r) \/ FailToUnlock(r)
Serve(r) == Locking(r) \/ Looking(r) \/ Handling(r) \/ Settling(r)

Next ==
    \/ \E r \in Requests :
          \/ Arrive(r) \/ ArriveUnkeyed(r) \/ Reject(r)
          \/ Serve(r)
          \/ Disconnect(r) \/ Crash(r)
    \/ \E k \in Keys : LockExpires(k) \/ ResponseExpires(k)

Spec == Init /\ [][Next]_vars

\* A request that is being served is served to its end, and Redis expires
\* keys.  Nobody is obliged to send a request.
FairSpec ==
    /\ Spec
    /\ \A r \in Requests : WF_vars(Serve(r))
    /\ \A k \in Keys : WF_vars(LockExpires(k))

----------------------------------------------------------------------------
(* Properties.                                                               *)

TypeOK ==
    /\ env \in Envs
    /\ lock \subseteq Keys
    /\ cache \in [Keys -> Requests \cup {Nobody}]
    /\ stage \in [Requests -> Active \cup {"idle", "done"}]
    /\ gone \subseteq Requests
    /\ reply \in [Requests -> {"none", "invalid", "locked", "failed", "response"}]
    /\ sent \in [Requests -> [code : Codes, body : {"whole", "last"}] \cup {Nobody}]
    /\ from \in [Requests -> Requests \cup {Nobody}]
    /\ wrote \in [Requests -> Written \cup {Nobody}]
    /\ unstored \subseteq Requests

\* While locks outlive their holders at most one request of a key is between
\* its Lock and its Unlock: Unlock, which deletes whatever lock there is, only
\* ever runs for the request that set it (idempotent.go 88-97,
\* idempotent_store.go 40-46).
OneAtATime ==
    "locktimeout" \notin env =>
        \A x, y \in Keyed :
            /\ KeyOf[x] = KeyOf[y]
            /\ stage[x] \in Holding /\ stage[y] \in Holding
            => x = y

\* Within the life of locks and of stored responses the handler writes a
\* second response for a key only if the first one was lost on its way to the
\* store, or its handler returned an error behind it (idempotent.go 103-153).
HandledOnce ==
    env \cap {"locktimeout", "ttl"} = {} =>
        \A x, y \in Keyed :
            KeyOf[x] = KeyOf[y] /\ wrote[x] # Nobody /\ wrote[y] # Nobody
                => x = y \/ x \in unstored \/ y \in unstored

\* All replays of a key are of one response, which a request with that key
\* wrote, also when the lock expired and several handlers ran side by side
\* (idempotent.go 105-127, idempotent_store.go 66-80).
ReplaysAgree ==
    "ttl" \notin env =>
        \A x \in Keyed : from[x] \notin {Nobody, x} =>
            /\ from[x] = cache[KeyOf[x]]
            /\ KeyOf[from[x]] = KeyOf[x]
            /\ wrote[from[x]] # Nobody

\* The requests with a key as ReplayOnce sees them.
Served(s) ==
    CASE s \in {"idle", "locking"} -> "waiting"
      [] s \in Holding -> "served"
      [] OTHER -> "over"

Progress == [r \in Keyed |-> Served(stage[r])]
AnsweredWith == [r \in Keyed |-> from[r]]

Once == INSTANCE ReplayOnce
            WITH Requests <- Keyed, at <- Progress, record <- cache, answer <- AnsweredWith

\* Locks and recorded responses last.
Calm == env \cap {"locktimeout", "ttl"} = {}

Held(k) == \E r \in Requests : KeyOf[r] = k /\ stage[r] \in Holding

\* A key does not stay locked: while Redis answers and processes live its
\* holder frees it even when its client goes away; failing that, LockTTL does
\* (idempotent.go 88-97).
KeyFreed ==
    \A k \in Keys :
        /\ k \in lock
        /\ "locktimeout" \in env \/ (Held(k) /\ env \subseteq {"disconnect", "ttl"})
        ~> k \notin lock

\* http/README.md 196-198: "The first request takes a lock, runs, and has its
\* status, headers and body recorded; later requests with the same key replay
\* that recorded response".
ReplaysRecorded ==
    \A x \in Keyed : from[x] # Nobody => sent[x] = AsSent(wrote[from[x]])
=============================================================================
