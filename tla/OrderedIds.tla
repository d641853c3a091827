----------------------------- MODULE OrderedIds -----------------------------
(* uuid.OrderedAt: ids that sort by a time which the caller gives. The first *)
(* bytes are the time, a counter bumped when two ids would be alike, and the *)
(* rest is random. What was given out last is a global that nothing guards.  *)
EXTENDS Integers

CONSTANTS
    Goroutines,
    Nanos,          \* the times asked for, in nanoseconds since 1970
    NanoPerMilli,   \* 1000000 in the code
    SeqTick,        \* 256: seq counts in units of 2^8 nanoseconds
    SeqWidth        \* 4096: seq has 12 bits

\* Of a time before 1970 the code cuts the sign of its counter off, and the id
\* sorts behind later ones. Such times are not modelled.
\* A counter within a millisecond, and one more, fits its bits (3906 + 1 < 4096).
ASSUME OrderedAssumption ==
    /\ Nanos \subseteq Nat
    /\ NanoPerMilli \in Nat \ {0} /\ SeqTick \in Nat \ {0} /\ SeqWidth \in Nat \ {0}
    /\ (NanoPerMilli - 1) \div SeqTick + 1 < SeqWidth

VARIABLES
    lastV7time,
    gen,            \* each goroutine's call of getV7Time
    lastAsked       \* history: the time that the last id was asked for

idVars == <<lastV7time, gen, lastAsked>>

\* milli << 12 + seq: what the bytes of an id hold before the random ones, and
\* so the order of ids.
SortKey(nano) ==
    (nano \div NanoPerMilli) * SeqWidth + (nano % NanoPerMilli) \div SeqTick

\* alone: no other call has stored its time since this one compared its own.
Gen == [at : {"idle", "store"}, asked : Nat, key : Nat, alone : BOOLEAN]

IdsInit ==
    /\ lastV7time = 0 /\ lastAsked = 0
    /\ gen = [g \in Goroutines |-> [at |-> "idle", asked |-> 0, key |-> 0, alone |-> TRUE]]

\* Variant: the bump is of the time asked for, the last one not looked at.
NextKeyUnbumped(now) == now

NextKey(now) == IF now = lastV7time THEN lastV7time + 1 ELSE now

Compares(g, nano) ==
    /\ gen[g].at = "idle"
    /\ gen' = [gen EXCEPT ![g] = [at |-> "store", asked |-> SortKey(nano),
                                  key |-> NextKey(SortKey(nano)), alone |-> TRUE]]
    /\ UNCHANGED <<lastV7time, lastAsked>>

Stores(g) ==
    /\ gen[g].at = "store"
    /\ lastV7time' = gen[g].key
    /\ lastAsked' = gen[g].asked
    /\ gen' = [h \in Goroutines |-> IF h = g THEN [gen[g] EXCEPT !.at = "idle"]
                                    ELSE [gen[h] EXCEPT !.alone = FALSE]]

IdsNext == \E g \in Goroutines : Stores(g) \/ \E n \in Nanos : Compares(g, n)

IdsSpec == IdsInit /\ [][IdsNext]_idVars

----------------------------------------------------------------------------
IdsTypeOK ==
    /\ lastV7time \in Nat /\ lastAsked \in Nat
    /\ gen \in [Goroutines -> Gen]

\* Of two ids given out one after the other, with no call in between that both
\* ran alongside, the second has another key, also for the same time, and a
\* greater one when its time is later, also when the first was bumped into that
\* time. It says nothing of ids further apart: three for one time get the keys
\* k, k + 1, k (uuid/uuid.go 97-140).
OrderedUnlessOverlapped ==
    \A g \in Goroutines :
        gen[g].at = "store" /\ gen[g].alone =>
            /\ gen[g].key # lastV7time
            /\ gen[g].asked > lastAsked => gen[g].key > lastV7time
=============================================================================
