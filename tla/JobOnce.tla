------------------------------ MODULE JobOnce ------------------------------
(* What the processed log promises for each Nats-Msg-Id: one attempt at a    *)
(* time, a failed attempt may be followed by another, and nothing follows an *)
(* attempt that succeeded or discarded the job.  An id may also be abandoned *)
(* while nothing has come of it: a claim left behind shuts the id for good   *)
(* (until ProcessedLogTTL, which is outside this promise).                   *)
CONSTANT Ids

VARIABLE job

Status == {"idle", "held", "succeeded", "discarded", "abandoned"}

Init == job = [i \in Ids |-> "idle"]

Turn(i, from, to) == job[i] = from /\ job' = [job EXCEPT ![i] = to]

Take(i) == Turn(i, "idle", "held")
Retry(i) == Turn(i, "held", "idle")
Succeed(i) == Turn(i, "held", "succeeded")
Discard(i) == Turn(i, "held", "discarded")

\* A process that ends abandons all it held at once.
Abandon(S) ==
    /\ \A i \in S : job[i] \in {"idle", "held"}
    /\ job' = [i \in Ids |-> IF i \in S THEN "abandoned" ELSE job[i]]

Next ==
    \/ \E i \in Ids : Take(i) \/ Retry(i) \/ Succeed(i) \/ Discard(i)
    \/ \E S \in SUBSET Ids : Abandon(S)

Spec == Init /\ [][Next]_job
=============================================================================
