----------------------------- MODULE MCLibrary -----------------------------
(* The library's smaller components side by side: a behaviour is one of one  *)
(* component, chosen in the initial state, while the others stay as they are *)
(* at first. They share nothing in the code.                                 *)
EXTENDS Caches, Workers, Comms, AsynqQueue, OrderedIds, Config, TLC

CONSTANTS
    k1, k2, c1, c2,                             \* Caches
    i1, i2, wa, wb, wcron, wraw, name,          \* Workers
    s1, s2, d1, d2,                             \* Comms
    g1, g2                                      \* OrderedIds

\* Two workers of one name, one whose cron expression cannot be parsed, and one
\* whose interval is neither a string nor a duration.
OneName == [w \in {wa, wb, wcron, wraw} |-> name]
Intervals == (wa :> "duration" @@ wb :> "cron" @@ wcron :> "badcron" @@ wraw :> "other")

\* A job with queues and tries, and one with two times, made with one slice.
JobOptions ==
    "j1" :> <<[type |-> "OnQueue", value |-> "mail"], [type |-> "OnQueue", value |-> "other"],
              [type |-> "MaxTries", value |-> 1]>>
    @@ "j2" :> <<[type |-> "At", value |-> "past"], [type |-> "After", value |-> "later"]>>
PushesOf == "j1" :> 2 @@ "j2" :> 1

\* Fields with a flag, whose default is the zero value for "a", one without, and
\* one whose flag is of another kind.
Plain(n, kind, flag) == [name |-> n, kind |-> kind, flag |-> flag]
Good == <<Plain("a", "string", "a"), Plain("b", "duration", "b"), Plain("s", "struct", "")>>
Bare == <<Plain("c", "int", "")>>
Named == <<Plain("l", "slice", "l"), Plain("b", "durationalias", "b")>>
Nested == <<Plain("l", "aliasslice", "l"), Plain("s", "struct", "s")>>
SomeShapes == {Good, Bare, Named, Nested}
SomeFlags == {[flag |-> "a", kind |-> "string"], [flag |-> "b", kind |-> "duration"],
              [flag |-> "l", kind |-> "slice"]}
SomeOrders == {<<>>, <<"yaml", "env", "flags">>, <<"flags", "env">>, <<"env", "yaml">>,
               <<"yaml", "env">>, <<"flags", "yaml">>}

VARIABLE focus

Parts == {"caches", "workers", "comms", "asynq", "ids", "config"}

vars == <<focus, cacheVars, workersVars, commsVars, asynqVars, idVars, configVars>>

LibraryInit ==
    /\ focus \in Parts
    /\ CacheInit /\ (focus # "caches" => cacheKind = "fixed")
    /\ WorkersInit /\ CommsInit /\ AsynqInit /\ IdsInit
    /\ ConfigInit /\ (focus # "config" => fields = Good /\ order = <<>> /\ sane = {})

LibraryNext ==
    /\ UNCHANGED focus
    /\ \/ /\ focus = "caches" /\ CacheNext
          /\ UNCHANGED <<workersVars, commsVars, asynqVars, idVars, configVars>>
       \/ /\ focus = "workers" /\ WorkersNext
          /\ UNCHANGED <<cacheVars, commsVars, asynqVars, idVars, configVars>>
       \/ /\ focus = "comms" /\ CommsNext
          /\ UNCHANGED <<cacheVars, workersVars, asynqVars, idVars, configVars>>
       \/ /\ focus = "asynq" /\ AsynqNext
          /\ UNCHANGED <<cacheVars, workersVars, commsVars, idVars, configVars>>
       \/ /\ focus = "ids" /\ IdsNext
          /\ UNCHANGED <<cacheVars, workersVars, commsVars, asynqVars, configVars>>
       \/ /\ focus = "config" /\ ConfigNext
          /\ UNCHANGED <<cacheVars, workersVars, commsVars, asynqVars, idVars>>

LibrarySpec == LibraryInit /\ [][LibraryNext]_vars

\* Each component's variables are what its module says.
LibraryTypeOK ==
    CacheTypeOK /\ WorkersTypeOK /\ CommsTypeOK /\ AsynqTypeOK /\ IdsTypeOK /\ ConfigTypeOK
=============================================================================
