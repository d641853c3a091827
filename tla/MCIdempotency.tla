--------------------------- MODULE MCIdempotency ---------------------------
(* Instances of Idempotency for TLC.                                         *)
EXTENDS Idempotency, TLC

CONSTANTS r1, r2, r3, r4, r5, k1

\* Three requests with one key, one without and one with a bad one.
Mostly == [r \in Requests |-> CASE r = r4 -> NoKey [] r = r5 -> BadKey [] OTHER -> k1]

\* What may go wrong together: everything but expiry, lock expiry with
\* everything but a second life of the response, and clients going away alone.
Weathers ==
    { {"fault", "crash", "disconnect"},
      {"crash", "locktimeout", "fault"},
      {"disconnect", "ttl"} }
=============================================================================
