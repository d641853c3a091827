----------------------------- MODULE ElectedRun -----------------------------
(* What the leader lock promises the scheduled workers: a run is begun for a *)
(* term of the election, when none for that term is under way on another     *)
(* instance and none of its name on its own. It ends by itself, or with its  *)
(* instance.                                                                 *)
EXTENDS Naturals

CONSTANTS Ids, Instances, Names

VARIABLES
    term,       \* elections so far
    runs        \* the runs under way: which, where, of which name, for which term

Init == term = 0 /\ runs = {}

Elect ==
    /\ term' = term + 1
    /\ UNCHANGED runs

\* A run may be begun for a term that has passed, even on an instance that leads
\* no more.
Begin(k, i, n, t) ==
    /\ \A u \in runs : u.id # k /\ IF u.on = i THEN u.name # n ELSE u.term # t
    /\ runs' = runs \cup {[id |-> k, on |-> i, name |-> n, term |-> t]}
    /\ UNCHANGED term

End(u) ==
    /\ runs' = runs \ {u}
    /\ UNCHANGED term

Die(i) ==
    /\ runs' = {u \in runs : u.on # i}
    /\ UNCHANGED term

Next ==
    \/ Elect
    \/ \E i \in Instances :
          \/ Die(i)
          \/ \E k \in Ids, n \in Names, t \in 0 .. term : Begin(k, i, n, t)
    \/ \E u \in runs : End(u)

Spec == Init /\ [][Next]_<<term, runs>>
=============================================================================
