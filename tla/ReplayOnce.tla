----------------------------- MODULE ReplayOnce -----------------------------
(* What the idempotency middleware promises the requests of each key while   *)
(* locks and recorded responses last: one is served at a time, a handler     *)
(* answers only while nothing is recorded, a record is made once and by the  *)
(* request that was answered with it, and whoever comes later gets it. A     *)
(* request may leave at any time, answered or not, recorded or not.          *)
CONSTANTS Requests, Keys, KeyOf, Nobody

VARIABLES
    at,         \* "waiting", "served" or "over", of each request
    record,     \* whose response is recorded under each key
    answer      \* whose response each request was answered with

Init ==
    /\ at = [r \in Requests |-> "waiting"]
    /\ record = [k \in Keys |-> Nobody]
    /\ answer = [r \in Requests |-> Nobody]

Enter(r) ==
    /\ at[r] = "waiting"
    /\ \A x \in Requests : KeyOf[x] = KeyOf[r] => at[x] # "served"
    /\ at' = [at EXCEPT ![r] = "served"]
    /\ UNCHANGED <<record, answer>>

Answer(r, author) ==
    /\ at[r] = "served" /\ answer[r] = Nobody
    /\ answer' = [answer EXCEPT ![r] = author]
    /\ UNCHANGED <<at, record>>

Handle(r) == record[KeyOf[r]] = Nobody /\ Answer(r, r)

Replay(r) == record[KeyOf[r]] # Nobody /\ Answer(r, record[KeyOf[r]])

Record(r) ==
    /\ at[r] = "served" /\ answer[r] = r
    /\ record[KeyOf[r]] = Nobody
    /\ record' = [record EXCEPT ![KeyOf[r]] = r]
    /\ UNCHANGED <<at, answer>>

Leave(r) ==
    /\ at[r] # "over"
    /\ at' = [at EXCEPT ![r] = "over"]
    /\ UNCHANGED <<record, answer>>

Next == \E r \in Requests : Enter(r) \/ Handle(r) \/ Replay(r) \/ Record(r) \/ Leave(r)

Spec == Init /\ [][Next]_<<at, record, answer>>
=============================================================================
