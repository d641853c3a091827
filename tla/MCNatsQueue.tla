---------------------------- MODULE MCNatsQueue ----------------------------
(* Instances of NatsQueue for TLC.                                           *)
EXTENDS NatsQueue, TLC

\* All messages carry the same id: repeats of one job.
OneId == [m \in Msgs |-> CHOOSE i \in Ids : TRUE]

\* Messages m1 .. carry ids of their own; m0, if present, carries none.
CONSTANTS m0, m1, m2, i1, i2
OwnId == [m \in Msgs |-> CASE m = m0 -> NoId [] m = m1 -> i1 [] m = m2 -> i2]

Interchangeable == Permutations(Procs)
=============================================================================
