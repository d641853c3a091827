----------------------------- MODULE HttpServer -----------------------------
(* The HTTP server (http/http.go with http/validation, http/httperrors and  *)
(* http/middleware/logger.go). Routes are registered, Start serves until    *)
(* its context ends or Stop is called, and each request passes a middleware *)
(* of the application, the logger where it is used, a middleware inside it, *)
(* binding, validation and its handler, whose error becomes a response.     *)
(*                                                                          *)
(* An error is the set of what errors.Is and errors.As find in it, so that  *)
(* wrapped and joined errors are there too; one they find nothing in is {}. *)
(* A middleware lets a request pass, answers or fails it, or fails once it   *)
(* was answered; one that drops or replaces an error is left out.            *)
(* echo and net/http are external: the router, the write of a response,     *)
(* the graceful shutdown.                                                   *)
EXTENDS Integers, FiniteSets, Sequences, FiniteSetsExt

CONSTANTS
    Requests, Stoppers,   \* requests, and callers of Stop
    Routes,               \* what may be registered: records of RouteType
    Errors,               \* the errors middleware and handlers return
    ErrorHandlers,        \* the functions given to HandleErrors
    Takes,                \* the errors each of those maps
    CodeOf,               \* the status it maps them to
    Unencodable,          \* those whose response body the JSON encoder refuses
    NoRoute

Kinds == {"HTTPError", "StatusCoder", "NoRows", "ErrValidation", "ErrBadRequest", "ErrUnauth",
          "ErrForbidden", "ErrNotFound", "ValidationError", "Unique"}

NoError == {"nil"}

\* What handlers.Metadata says of a route: whether the method is one that
\* Register knows, whether the OpenAPI operation can be built, what validation
\* does, and whether the response goes through the JSON encoder.
RouteType == [method : BOOLEAN, spec : {"none", "valid", "invalid"}, validate : BOOLEAN, json : BOOLEAN]

\* The code a *echo.HTTPError carries, the one of the router's own errors, and
\* the Code of every route's metadata.
OwnCode == 409
RouterCode == 404
Success == 201

\* The status of a middleware that answers by itself: what Idempotent has for a
\* key in use stands for them all.
MiddlewareCode == 423

ASSUME HttpAssumption ==
    /\ Routes \subseteq RouteType
    /\ Errors \subseteq SUBSET Kinds
    /\ NoRoute \notin Routes
    /\ Takes \in [ErrorHandlers -> SUBSET SUBSET Kinds]
    /\ CodeOf \in [ErrorHandlers -> Nat]
    /\ Unencodable \subseteq ErrorHandlers

VARIABLES
    logger,         \* whether middleware.Logger is used
    handleErrors,   \* the error handlers, in the order given
    routes, spec,   \* routes registered; operations in the OpenAPI document
    schema,         \* the document as Start marshalled it
    start,          \* where the call of Start is
    cancel,         \* whether h.cancel is set
    done,           \* h.done
    ended,          \* whether the run context is cancelled
    stop,           \* where each call of Stop is
    seen,           \* the channel each call of Stop waits on
    graceOver,      \* whether the shutdown gave up waiting for requests
    req             \* where each request is

setup == <<logger, handleErrors, routes, spec>>
life == <<schema, start, cancel, done, ended, stop, seen, graceOver>>
vars == <<logger, handleErrors, routes, spec, schema, start, cancel, done, ended, stop, seen,
          graceOver, req>>

InFlight == {r \in Requests : req[r].at \notin {"new", "done"}}

Fresh == [at |-> "new", route |-> NoRoute, err |-> NoError, sent |-> <<>>, ran |-> FALSE,
          invalid |-> FALSE, logged |-> FALSE, cause |-> NoError, wrote |-> FALSE,
          answered |-> FALSE]

Init ==
    /\ logger \in BOOLEAN
    /\ handleErrors = <<>>
    /\ routes = {} /\ spec = {} /\ schema = {}
    /\ start = "idle" /\ cancel = FALSE /\ done = "nil" /\ ended = FALSE
    /\ stop = [s \in Stoppers |-> "idle"]
    /\ seen = [s \in Stoppers |-> "nil"]
    /\ graceOver = FALSE
    /\ req = [r \in Requests |-> Fresh]

----------------------------------------------------------------------------
(* Setting up: New, Register, HandleErrors.                                  *)

HandleErrors(f) ==
    /\ start = "idle"
    /\ f \notin {handleErrors[i] : i \in DOMAIN handleErrors}
    /\ handleErrors' = Append(handleErrors, f)
    /\ UNCHANGED <<logger, routes, spec, life, req>>

\* buildSchema reflects the request, the responses and the auths of a route into
\* an operation, and either that is added to the document or nothing is.
BuildSchema(p) == IF p.spec = "valid" THEN spec \cup {p} ELSE spec

\* Register panics on a method it does not know, before anything is done, and
\* on an operation that cannot be built, after the route is there. A caller
\* may recover from either and go on.
Register(p) ==
    /\ start = "idle"
    /\ p.method
    /\ routes' = routes \cup {p}
    /\ spec' = BuildSchema(p)
    /\ UNCHANGED <<logger, handleErrors, life, req>>

----------------------------------------------------------------------------
(* Start and Stop. Neither field they share is guarded by a lock.            *)

\* The document cannot be marshalled: Start returns, and nothing is set.
StartFailsToMarshal ==
    /\ start = "idle"
    /\ start' = "refused"
    /\ UNCHANGED <<setup, schema, cancel, done, ended, stop, seen, graceOver, req>>

\* The document is marshalled once; what is registered later is not in it.
StartMarshals ==
    /\ start = "idle"
    /\ schema' = spec
    /\ start' = "begun"
    /\ UNCHANGED <<setup, cancel, done, ended, stop, seen, graceOver, req>>

StartSetsCancel ==
    /\ start = "begun"
    /\ cancel' = TRUE
    /\ start' = "armed"
    /\ UNCHANGED <<setup, schema, done, ended, stop, seen, graceOver, req>>

StartServes ==
    /\ start = "armed"
    /\ done' = "open"
    /\ start' = "serving"
    /\ UNCHANGED <<setup, schema, cancel, ended, stop, seen, graceOver, req>>

\* The context given to Start ends.
ContextEnds ==
    /\ start # "idle"
    /\ ~ ended
    /\ ended' = TRUE
    /\ UNCHANGED <<setup, schema, start, cancel, done, stop, seen, graceOver, req>>

\* Variant: the server is shut down without waiting for its requests.
StartReturnsAtOnce ==
    /\ start = "serving"
    /\ ended
    /\ start' = "returned"
    /\ done' = "closed"
    /\ UNCHANGED <<setup, schema, cancel, ended, stop, seen, graceOver, req>>

\* Variant: only a failing Start closes the channel.
StartReturnsOpen ==
    /\ start = "serving"
    /\ ended
    /\ InFlight = {} \/ graceOver
    /\ start' = "returned"
    /\ UNCHANGED <<setup, schema, cancel, done, ended, stop, seen, graceOver, req>>

\* sc.Start comes back once the requests are over, and the deferred close runs.
StartReturns ==
    /\ start = "serving"
    /\ ended
    /\ InFlight = {} \/ graceOver
    /\ start' = "returned"
    /\ done' = "closed"
    /\ UNCHANGED <<setup, schema, cancel, ended, stop, seen, graceOver, req>>

\* echo's grace period runs out; handlers that are running go on.
GraceEnds ==
    /\ start = "serving"
    /\ ended
    /\ InFlight # {}
    /\ ~ graceOver
    /\ graceOver' = TRUE
    /\ UNCHANGED <<setup, schema, start, cancel, done, ended, stop, seen, req>>

\* The address cannot be bound: Start returns an error.
StartFails ==
    /\ start = "serving"
    /\ InFlight = {}
    /\ \A r \in Requests : req[r].at = "new"
    /\ start' = "returned"
    /\ done' = "closed"
    /\ UNCHANGED <<setup, schema, cancel, ended, stop, seen, graceOver, req>>

\* Stop on a server whose cancel is not set does nothing.
StopTooEarly(s) ==
    /\ stop[s] = "idle"
    /\ ~ cancel
    /\ stop' = [stop EXCEPT ![s] = "nothing"]
    /\ UNCHANGED <<setup, schema, start, cancel, done, ended, seen, graceOver, req>>

\* Stop cancels the run context and waits on the channel it finds: between
\* StartSetsCancel and StartServes that is nil, on which it waits for ever.
StopCalled(s) ==
    /\ stop[s] = "idle"
    /\ cancel
    /\ ended' = TRUE
    /\ seen' = [seen EXCEPT ![s] = IF done = "nil" THEN "nil" ELSE "made"]
    /\ stop' = [stop EXCEPT ![s] = "waiting"]
    /\ UNCHANGED <<setup, schema, start, cancel, done, graceOver, req>>

StopReturns(s) ==
    /\ stop[s] = "waiting"
    /\ seen[s] = "made" /\ done = "closed"
    /\ stop' = [stop EXCEPT ![s] = "stopped"]
    /\ UNCHANGED <<setup, schema, start, cancel, done, ended, seen, graceOver, req>>

\* The context given to Stop ends first.
StopGivesUp(s) ==
    /\ stop[s] = "waiting"
    /\ stop' = [stop EXCEPT ![s] = "error"]
    /\ UNCHANGED <<setup, schema, start, cancel, done, ended, seen, graceOver, req>>

----------------------------------------------------------------------------
(* From an error to a status.                                                *)

BuiltIn == << <<"NoRows", 404>>, <<"ErrValidation", 422>>, <<"ErrBadRequest", 400>>,
              <<"ErrUnauth", 401>>, <<"ErrForbidden", 403>>, <<"ErrNotFound", 404>>,
              <<"ValidationError", 422>>, <<"Unique", 422>> >>

BuiltInFor(e) == {i \in DOMAIN BuiltIn : BuiltIn[i][1] \in e}
HandlersFor(e) == {i \in DOMAIN handleErrors : e \in Takes[handleErrors[i]]}

\* getErrorCodeAndResponse: an HTTPError first, then the application's error
\* handlers in their order, then the built-in mappings in theirs.
Handled(e) == "HTTPError" \in e \/ HandlersFor(e) # {} \/ BuiltInFor(e) # {}

\* Variant: the built-in mappings come before the application's.
BuiltInFirst(e) ==
    IF "HTTPError" \in e THEN OwnCode
    ELSE IF BuiltInFor(e) # {} THEN BuiltIn[Min(BuiltInFor(e))][2]
    ELSE IF HandlersFor(e) # {} THEN CodeOf[handleErrors[Min(HandlersFor(e))]]
    ELSE 503

StatusOf(e) ==
    IF "HTTPError" \in e THEN OwnCode
    ELSE IF HandlersFor(e) # {} THEN CodeOf[handleErrors[Min(HandlersFor(e))]]
    ELSE IF BuiltInFor(e) # {} THEN BuiltIn[Min(BuiltInFor(e))][2]
    ELSE 503

\* The body is any value when an error handler makes it: the first that takes
\* the error does.
Encodable(e) ==
    \/ "HTTPError" \in e
    \/ \A i \in HandlersFor(e) :
          (\A j \in HandlersFor(e) : i <= j) => handleErrors[i] \notin Unencodable

\* Writing a response. sent holds the status of each that is written: net/http
\* sends the first, and only the bodies of the others.
Written(q, code) == [q EXCEPT !.sent = Append(@, code)]

\* Variant: a response that has begun is not noticed.
HandleErrorAgain(q) ==
    IF q.err = NoError THEN q
    ELSE IF ~ Encodable(q.err) THEN [q EXCEPT !.logged = TRUE]
    ELSE IF Handled(q.err) THEN Written(q, StatusOf(q.err))
    ELSE [Written(q, IF "StatusCoder" \in q.err THEN RouterCode ELSE 500)
             EXCEPT !.logged = @ \/ "StatusCoder" \notin q.err]

\* handleError, the error handler of echo: nothing once a response is
\* committed; a mapped error gets its status, and is only logged when its body
\* cannot be encoded; of the others those without a status of their own are
\* logged and become a 500. That the client may be gone makes no difference
\* here.
HandleError(q) ==
    IF q.err = NoError \/ q.sent # <<>> THEN q
    ELSE IF ~ Encodable(q.err) THEN [q EXCEPT !.logged = TRUE]
    ELSE IF Handled(q.err) THEN Written(q, StatusOf(q.err))
    ELSE [Written(q, IF "StatusCoder" \in q.err THEN RouterCode ELSE 500)
             EXCEPT !.logged = @ \/ "StatusCoder" \notin q.err]

----------------------------------------------------------------------------
(* A request. at is where it is: in the middleware outside the logger, in the *)
(* one inside it, in wrapHandler's steps, on its way back.                    *)

Becomes(r, q) == req' = [req EXCEPT ![r] = q] /\ UNCHANGED <<setup, life>>

\* err is the error a stage returns; cause remembers the first.
Failed(q, at, e) == [q EXCEPT !.at = at, !.err = e, !.cause = IF @ = NoError THEN e ELSE @]

\* c.JSON: an encoder that fails has written nothing and its error is returned;
\* a connection that breaks has the response committed, and returns one too.
Responded(q, code, e) == [Written(q, code) EXCEPT !.at = "back", !.err = e]
Responses(q, code, encodable) ==
    IF encodable THEN {Responded(q, code, e) : e \in {NoError, {}}}
    ELSE {Failed(q, "back", {})}

\* wrapHandler answers error e by itself, with the status of the mapping.
ErrorResponses(q, e) == Responses([q EXCEPT !.cause = e], StatusOf(e), Encodable(e))

\* The request comes in by the listener, for a registered route.
Arrive(r) ==
    /\ start = "serving" /\ ~ ended
    /\ req[r].at = "new"
    /\ \E p \in routes : Becomes(r, [req[r] EXCEPT !.at = "outer", !.route = p])

\* A middleware around the logger lets it pass, answers it as Idempotent does a
\* key in use or a replay, or returns an error of its own.
OuterMiddleware(r) ==
    /\ req[r].at = "outer"
    /\ \/ Becomes(r, [req[r] EXCEPT !.at = "inner"])
       \/ Becomes(r, [Written(req[r], MiddlewareCode) EXCEPT !.at = "leaving", !.answered = TRUE])
       \/ \E e \in Errors : Becomes(r, Failed(req[r], "leaving", e))

\* So does one inside it; the router's error when no route fits comes from here.
InnerMiddleware(r) ==
    /\ req[r].at = "inner"
    /\ \/ Becomes(r, [req[r] EXCEPT !.at = "binding"])
       \/ Becomes(r, [Written(req[r], MiddlewareCode) EXCEPT !.at = "back", !.answered = TRUE])
       \/ \E e \in Errors \cup {{"StatusCoder"}} : Becomes(r, Failed(req[r], "back", e))

\* Either may fail when the response is already written, as Idempotent does when
\* it cannot store it.
MiddlewareFailsLate(r) ==
    /\ req[r].at \in {"back", "leaving"}
    /\ req[r].sent # <<>> /\ req[r].err = NoError
    /\ \E e \in Errors : Becomes(r, [req[r] EXCEPT !.err = e])

Bind(r) ==
    /\ req[r].at = "binding"
    /\ \/ Becomes(r, [req[r] EXCEPT !.at = "validating"])
       \/ Becomes(r, Failed(req[r], "back", {"ErrBadRequest"}))

\* What the validator says of a request it does not let through: the fields at
\* fault, or that it is not a struct.
Invalidities == {{"ValidationError"}, {}}

\* Either is written with the status of the mapping, whether it has one or not,
\* and the handler is not called.
Validate(r) ==
    /\ req[r].at = "validating"
    /\ \/ Becomes(r, [req[r] EXCEPT !.at = "handling"])
       \/ /\ req[r].route.validate
          /\ \E e \in Invalidities : \E q \in ErrorResponses(req[r], e) :
                Becomes(r, [q EXCEPT !.invalid = TRUE])

\* The handler has the context and may write to the client by itself.
HandlerWrites(r) ==
    /\ req[r].at = "handling"
    /\ ~ req[r].ran
    /\ Becomes(r, [Written(req[r], Success) EXCEPT !.ran = TRUE, !.wrote = TRUE])

\* It returns a response, or an error: one that is mapped is written here,
\* what was written before or not, and any other goes back.
HandlerSucceeds(r) ==
    /\ req[r].at = "handling"
    /\ Becomes(r, [req[r] EXCEPT !.at = "replying", !.ran = TRUE])

HandlerFails(r) ==
    /\ req[r].at = "handling"
    /\ \E e \in Errors :
          IF Handled(e)
          THEN \E q \in ErrorResponses(req[r], e) : Becomes(r, [q EXCEPT !.ran = TRUE])
          ELSE Becomes(r, [Failed(req[r], "back", e) EXCEPT !.ran = TRUE])

\* NoContent, String or JSON.
Reply(r) ==
    /\ req[r].at = "replying"
    /\ \E encodable \in BOOLEAN :
          /\ encodable \/ req[r].route.json
          /\ \E q \in Responses(req[r], Success, encodable) : Becomes(r, q)

\* The logger has the error handled and returns nil; without it the error goes on.
LoggerReturns(r) ==
    /\ req[r].at = "back"
    /\ Becomes(r, IF logger THEN [HandleError(req[r]) EXCEPT !.at = "leaving", !.err = NoError]
                            ELSE [req[r] EXCEPT !.at = "leaving"])

\* echo hands what comes out of the chain to its error handler, and net/http
\* answers 200 when nothing at all was written.
Finish(r) ==
    /\ req[r].at = "leaving"
    /\ LET q == HandleError(req[r])
       IN Becomes(r, [IF q.sent = <<>> THEN Written(q, 200) ELSE q EXCEPT !.at = "done"])

Serve(r) ==
    \/ OuterMiddleware(r) \/ InnerMiddleware(r) \/ MiddlewareFailsLate(r)
    \/ Bind(r) \/ Validate(r)
    \/ HandlerWrites(r) \/ HandlerSucceeds(r) \/ HandlerFails(r) \/ Reply(r)
    \/ LoggerReturns(r) \/ Finish(r)

----------------------------------------------------------------------------
Next ==
    \/ \E f \in ErrorHandlers : HandleErrors(f)
    \/ \E p \in Routes : Register(p)
    \/ StartFailsToMarshal \/ StartMarshals \/ StartSetsCancel \/ StartServes
    \/ StartReturns \/ StartFails
    \/ ContextEnds \/ GraceEnds
    \/ \E s \in Stoppers : StopTooEarly(s) \/ StopCalled(s) \/ StopReturns(s) \/ StopGivesUp(s)
    \/ \E r \in Requests : Arrive(r) \/ Serve(r)

Spec == Init /\ [][Next]_vars

\* The steps of Start follow each other, handlers return, and the shutdown
\* comes to its end. Nobody is obliged to call Start or Stop, and the context
\* given to Stop need not end.
FairSpec ==
    /\ Spec
    /\ WF_vars(StartSetsCancel \/ StartServes \/ StartReturns)
    /\ \A r \in Requests : WF_vars(Serve(r))
    /\ \A s \in Stoppers : WF_vars(StopReturns(s))

----------------------------------------------------------------------------
(* Properties.                                                               *)

Request ==
    [at : {"new", "outer", "inner", "binding", "validating", "handling", "replying", "back",
           "leaving", "done"},
     route : Routes \cup {NoRoute}, err : (SUBSET Kinds) \cup {NoError}, sent : Seq(Nat),
     ran : BOOLEAN, invalid : BOOLEAN, logged : BOOLEAN,
     cause : (SUBSET Kinds) \cup {NoError}, wrote : BOOLEAN, answered : BOOLEAN]

TypeOK ==
    /\ logger \in BOOLEAN
    /\ handleErrors \in Seq(ErrorHandlers)
    /\ routes \subseteq Routes /\ spec \subseteq Routes /\ schema \subseteq Routes
    /\ start \in {"idle", "refused", "begun", "armed", "serving", "returned"}
    /\ cancel = (start \in {"armed", "serving", "returned"})
    /\ done = CASE start = "serving" -> "open" [] start = "returned" -> "closed" [] OTHER -> "nil"
    /\ ended \in BOOLEAN
    /\ stop \in [Stoppers -> {"idle", "nothing", "waiting", "stopped", "error"}]
    /\ seen \in [Stoppers -> {"nil", "made"}]
    /\ graceOver \in BOOLEAN
    /\ req \in [Requests -> Request]

\* Every request is answered, and by one response, whichever stage failed and
\* whether the logger, echo or wrapHandler dealt with the error, also when the
\* connection broke under the first response. Only a handler that writes to
\* the client by itself and then returns something can have a second response
\* appended to its own (http/http.go 247-252, 343-369).
AnsweredOnce ==
    \A r \in Requests : req[r].at = "done" =>
        /\ Len(req[r].sent) >= 1
        /\ ~ req[r].wrote => Len(req[r].sent) = 1

\* What http/README.md's table of errors allows for error e.
Documented(e, code) ==
    IF "HTTPError" \in e THEN code = OwnCode
    ELSE IF \E i \in DOMAIN handleErrors : e \in Takes[handleErrors[i]]
    THEN \E i \in DOMAIN handleErrors :
            /\ e \in Takes[handleErrors[i]] /\ code = CodeOf[handleErrors[i]]
            /\ \A j \in 1 .. i - 1 : e \notin Takes[handleErrors[j]]
    ELSE IF e \cap (Kinds \ {"StatusCoder"}) # {}
    THEN \E i \in DOMAIN BuiltIn : BuiltIn[i][1] \in e /\ code = BuiltIn[i][2]
    ELSE code = IF e = {} THEN 500 ELSE RouterCode

\* The same error gets the same documented status wherever it comes from, a
\* middleware on either side of the logger, the binder, the validator, the
\* handler or the encoder; a request that a middleware answers keeps that
\* answer, and one without an error has its success, whatever fails behind the
\* response. Only the error of an error handler's own making, a body that
\* cannot be encoded, changes a status: to that of the encoder's error where
\* wrapHandler writes, and to a 200 with nothing but a line in the log where
\* handleError does. Left out are a handler's own writing and the validator's
\* failure on what is not a struct, which is written as 503 without being
\* looked at (http/http.go 241-252, 343-369).
StatusAsAsked ==
    \A r \in Requests :
        req[r].at = "done" /\ ~ req[r].wrote /\ ~ (req[r].invalid /\ req[r].cause = {}) =>
            LET e == req[r].cause
                code == req[r].sent[1]
            IN  IF req[r].answered THEN code = MiddlewareCode
                ELSE IF e = NoError THEN code = Success
                ELSE IF Encodable(e) THEN Documented(e, code)
                ELSE \/ code = 200 /\ req[r].logged
                     \/ Encodable({}) /\ Documented({}, code)

\* A Stop that returned nil, having found a server, leaves one whose Start has
\* returned and that handles no request any more, unless its grace period was
\* over (http/http.go 127-155).
StopDrains ==
    \A s \in Stoppers : stop[s] = "stopped" =>
        start = "returned" /\ (InFlight = {} \/ graceOver)

\* And a Stop that finds the server serving comes back, without a deadline of
\* its own. One that comes between the two assignments of Start does not
\* (http/http.go 124-127, 143-155).
StopComesBack ==
    \A s \in Stoppers : (stop[s] = "waiting" /\ seen[s] = "made") ~> stop[s] # "waiting"
=============================================================================
