---------------------------- MODULE ListenerOnce ----------------------------
(* What the event handler promises the listeners of each dispatch: each is   *)
(* called once and to its end, in any order and by anybody, and Flush lets   *)
(* go only when all it found accepted have ended.                            *)
CONSTANT Tasks

VARIABLES
    life,       \* "absent", "accepted", "running" or "over", of each task
    flushing,   \* "idle", "waiting" or "returned"
    found       \* the tasks that were accepted and not over at the call of Flush

Init ==
    /\ life = [t \in Tasks |-> "absent"]
    /\ flushing = "idle"
    /\ found = {}

Moves(t, before, after) ==
    /\ life[t] = before
    /\ life' = [life EXCEPT ![t] = after]
    /\ UNCHANGED <<flushing, found>>

Accept(t) == Moves(t, "absent", "accepted")
Begin(t) == Moves(t, "accepted", "running")
End(t) == Moves(t, "running", "over")

Flush ==
    /\ flushing = "idle"
    /\ flushing' = "waiting"
    /\ found' = {t \in Tasks : life[t] \in {"accepted", "running"}}
    /\ UNCHANGED life

Return ==
    /\ flushing = "waiting"
    /\ \A t \in found : life[t] = "over"
    /\ flushing' = "returned"
    /\ UNCHANGED <<life, found>>

Reset ==
    /\ flushing = "returned"
    /\ flushing' = "idle"
    /\ found' = {}
    /\ UNCHANGED life

Next ==
    \/ \E t \in Tasks : Accept(t) \/ Begin(t) \/ End(t)
    \/ Flush \/ Return \/ Reset

Spec == Init /\ [][Next]_<<life, flushing, found>>
=============================================================================
