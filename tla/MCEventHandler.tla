--------------------------- MODULE MCEventHandler ---------------------------
(* Instances of EventHandler for TLC.                                        *)
EXTENDS EventHandler, TLC

CONSTANTS d1, d2

\* Every dispatch is made from outside the listeners.
Flat == [d \in Dispatches |-> NoTask]

\* d2 is made by the first listener of d1.
Nested == [d \in Dispatches |-> IF d = d2 THEN <<d1, 1>> ELSE NoTask]

Interchangeable == Permutations(Workers)
=============================================================================
