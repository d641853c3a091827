---------------------------- MODULE MCHttpServer ----------------------------
(* A server with a typed JSON route that has an operation, and one that does *)
(* not validate and whose operation cannot be built; errors that wrap one    *)
(* sentinel, two, none; and two error handlers that overlap, of which one    *)
(* makes a body that cannot be encoded.                                      *)
EXTENDS HttpServer, TLC

CONSTANTS r1, r2, s1, s2, catchAll, channel

Typed == [method |-> TRUE, spec |-> "valid", validate |-> TRUE, json |-> TRUE]
Plain == [method |-> TRUE, spec |-> "invalid", validate |-> FALSE, json |-> FALSE]
Bad == [method |-> FALSE, spec |-> "none", validate |-> FALSE, json |-> FALSE]
SomeRoutes == {Typed, Plain, Bad}

SomeErrors == {{}, {"StatusCoder"}, {"HTTPError", "ErrNotFound"}, {"Unique"},
               {"ErrForbidden", "ErrNotFound"}, {"NoRows"}}

WhoTakes == (catchAll :> (SUBSET Kinds) @@ channel :> {{"Unique"}, {"NoRows"}})
WhichCode == (catchAll :> 403 @@ channel :> 402)
=============================================================================
