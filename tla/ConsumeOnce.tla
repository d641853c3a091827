---------------------------- MODULE ConsumeOnce ----------------------------
(* What the consumer promises the messages of its channel: each is handled   *)
(* once, they are begun in the order in which they came, no more of them at  *)
(* once than there are slots (the drain has one of its own), and Consume     *)
(* returns when none that it found at its close is still waiting.            *)
EXTENDS Naturals, FiniteSets, Sequences

CONSTANTS Msgs, Slots

VARIABLES
    life,       \* "away", "queued", "handling" or "done", of each message
    line,       \* the messages that wait, in order
    phase,      \* "serving", "draining" or "returned"
    owed        \* the messages that waited at the close

Handling == {m \in Msgs : life[m] = "handling"}
SlotsNow == IF phase = "draining" THEN Slots + 1 ELSE Slots

Init ==
    /\ life = [m \in Msgs |-> "away"]
    /\ line = <<>>
    /\ phase = "serving"
    /\ owed = {}

Turn(m, before, after) ==
    /\ life[m] = before
    /\ life' = [life EXCEPT ![m] = after]
    /\ UNCHANGED <<phase, owed>>

Arrive(m) ==
    /\ Turn(m, "away", "queued")
    /\ line' = Append(line, m)

Begin ==
    /\ line # <<>>
    /\ Cardinality(Handling) < SlotsNow
    /\ Turn(Head(line), "queued", "handling")
    /\ line' = Tail(line)

End(m) ==
    /\ Turn(m, "handling", "done")
    /\ UNCHANGED line

Close ==
    /\ phase = "serving"
    /\ phase' = "draining"
    /\ owed' = {line[i] : i \in DOMAIN line}
    /\ UNCHANGED <<life, line>>

Return ==
    /\ phase = "draining"
    /\ \A m \in owed : life[m] # "queued"
    /\ phase' = "returned"
    /\ UNCHANGED <<life, line, owed>>

Next ==
    \/ \E m \in Msgs : Arrive(m) \/ End(m)
    \/ Begin \/ Close \/ Return

Spec == Init /\ [][Next]_<<life, line, phase, owed>>
=============================================================================
