------------------------- MODULE IdempotencyProofs -------------------------
(* What Idempotency promises for any requests, keys, responses and           *)
(* environments.                                                             *)
EXTENDS Idempotency, TLAPS

\* The stages that follow Lock are those of requests with a key, and tell
\* whether the request's handler has written.
StageInv ==
    \A r \in Requests :
        /\ stage[r] \in Holding \cup {"locking"} => KeyOf[r] \in Keys
        /\ stage[r] = "unkeyed" => KeyOf[r] \notin Keys
        /\ stage[r] = "storing" => wrote[r] # Nobody
        /\ stage[r] \in {"idle", "locking", "looking", "handling"} => wrote[r] = Nobody

LocksLast == "locktimeout" \notin env
ResponsesLast == "ttl" \notin env

\* While locks last, the lock of a key is there as long as a request holds it.
LockInv ==
    LocksLast => \A r \in Requests : stage[r] \in Holding => KeyOf[r] \in lock

\* What is stored under a key is the response of a request with that key.
CacheInv ==
    \A k \in Keys : cache[k] # Nobody =>
        KeyOf[cache[k]] = k /\ wrote[cache[k]] # Nobody

\* While both last, a handler runs for a key without a recorded response, and
\* what it wrote is recorded, on its way there, or lost.
RecordInv ==
    LocksLast /\ ResponsesLast =>
        \A r \in Keyed :
            /\ stage[r] \in {"handling", "storing"} => cache[KeyOf[r]] = Nobody
            /\ wrote[r] # Nobody =>
                  stage[r] = "storing" \/ cache[KeyOf[r]] # Nobody \/ r \in unstored

IInv ==
    /\ TypeOK /\ StageInv /\ LockInv /\ CacheInv /\ RecordInv
    /\ OneAtATime /\ HandledOnce /\ ReplaysAgree

----------------------------------------------------------------------------
LEMMA InitIInv == Init => IInv
BY IdempotencyAssumption
   DEF Init, IInv, TypeOK, StageInv, LockInv, CacheInv, RecordInv, OneAtATime,
       HandledOnce, ReplaysAgree, Keyed, Holding, Active, LocksLast, ResponsesLast

\* The step relation by the action that is taken.
LEMMA Steps ==
    ASSUME Next
    PROVE  \/ \E r \in Requests : Arrive(r) \/ ArriveUnkeyed(r) \/ Reject(r)
           \/ \E r \in Requests : Lock(r)
           \/ \E r \in Requests : FindLocked(r) \/ FailToLock(r)
           \/ \E r \in Requests : Miss(r)
           \/ \E r \in Requests : Replay(r)
           \/ \E r \in Requests : FailToLook(r)
           \/ \E r \in Requests : Respond(r) \/ RespondAndFail(r)
           \/ \E r \in Requests : HandlerFails(r)
           \/ \E r \in Requests : Store(r)
           \/ \E r \in Requests : FailToStore(r)
           \/ \E r \in Requests : Unlock(r) \/ FailToUnlock(r)
           \/ \E r \in Requests : Disconnect(r)
           \/ \E r \in Requests : Crash(r)
           \/ \E k \in Keys : LockExpires(k)
           \/ \E k \in Keys : ResponseExpires(k)
BY DEF Next, Serve, Locking, Looking, Handling, Settling

\* What a client may be sent of a response.
SentBodies == [code : Codes, body : {"whole", "last"}]

LEMMA BodiesSent ==
    \A w \in Written : AsSent(w) \in SentBodies /\ Replayed(w) \in SentBodies
BY IdempotencyAssumption DEF Written, AsSent, Replayed, BodyKept, SentBodies

LEMMA TypeStep ==
    ASSUME IInv, [Next]_vars
    PROVE  TypeOK'
<1> USE IdempotencyAssumption
    DEF IInv, Holding, Active, GoTo, Answer, Send, replyVars, historyVars
<1>1. ASSUME NEW r \in Requests,
             Arrive(r) \/ ArriveUnkeyed(r) \/ Reject(r) \/ Miss(r) \/ FailToLook(r)
      PROVE  TypeOK'
    BY <1>1 DEF Arrive, ArriveUnkeyed, Reject, Miss, FailToLook, TypeOK
<1>2. ASSUME NEW r \in Requests, Lock(r) \/ FindLocked(r) \/ FailToLock(r)
      PROVE  TypeOK'
    BY <1>2 DEF Lock, FindLocked, FailToLock, StageInv, TypeOK
<1>8. ASSUME NEW r \in Requests, Replay(r)
      PROVE  TypeOK'
    <2> DEFINE a == cache[KeyOf[r]]
    <2>1. a \in Requests /\ wrote[a] \in Written
        BY <1>8 DEF Replay, CacheInv, StageInv, TypeOK
    <2>2. Replayed(wrote[a]) \in SentBodies
        BY <2>1, BodiesSent
    <2> HIDE DEF a
    <2>3. sent' = [sent EXCEPT ![r] = Replayed(wrote[a])] /\ from' = [from EXCEPT ![r] = a]
        BY <1>8 DEF Replay, a
    <2>4. sent' \in [Requests -> SentBodies \cup {Nobody}]
        BY <2>2, <2>3 DEF TypeOK, SentBodies
    <2> QED
        BY <1>8, <2>1, <2>3, <2>4 DEF Replay, TypeOK, SentBodies
<1>9. ASSUME NEW r \in Requests, Respond(r) \/ RespondAndFail(r)
      PROVE  TypeOK'
    <2>1. PICK w \in Written : Send(r, AsSent(w), r) /\ wrote' = [wrote EXCEPT ![r] = w]
        BY <1>9 DEF Respond, RespondAndFail, Writes
    <2>2. AsSent(w) \in SentBodies
        BY BodiesSent
    <2>3. sent' \in [Requests -> SentBodies \cup {Nobody}]
        BY <2>1, <2>2 DEF TypeOK, SentBodies
    <2>4. wrote' \in [Requests -> Written \cup {Nobody}]
        BY <2>1 DEF TypeOK
    <2> QED
        BY <1>9, <2>1, <2>3, <2>4 DEF Respond, RespondAndFail, TypeOK, SentBodies
<1>3. ASSUME NEW r \in Requests,
             HandlerFails(r) \/ Unlock(r) \/ FailToUnlock(r) \/ Disconnect(r) \/
             Crash(r)
      PROVE  TypeOK'
    BY <1>3 DEF HandlerFails, Unlock, FailToUnlock, Disconnect, Crash, TypeOK
<1>4. ASSUME NEW r \in Requests, Store(r)
      PROVE  TypeOK'
    BY <1>4 DEF Store, Stored, TypeOK
<1>5. ASSUME NEW r \in Requests, FailToStore(r)
      PROVE  TypeOK'
    BY <1>5 DEF FailToStore, Stored, TypeOK
<1>6. ASSUME NEW k \in Keys, LockExpires(k) \/ ResponseExpires(k)
      PROVE  TypeOK'
    BY <1>6 DEF LockExpires, ResponseExpires, TypeOK
<1>7. CASE UNCHANGED vars
    BY <1>7 DEF vars, TypeOK
<1> QED
    BY <1>1, <1>2, <1>3, <1>4, <1>5, <1>6, <1>7, <1>8, <1>9, Steps

LEMMA StageStep ==
    ASSUME IInv, [Next]_vars
    PROVE  StageInv'
<1> USE IdempotencyAssumption
    DEF IInv, Holding, Active, GoTo, Answer, Send, replyVars, historyVars
<1>1. ASSUME NEW r \in Requests,
             Arrive(r) \/ ArriveUnkeyed(r) \/ Reject(r) \/ Lock(r) \/
             FindLocked(r) \/ FailToLock(r)
      PROVE  StageInv'
    BY <1>1 DEF Arrive, ArriveUnkeyed, Reject, Lock, FindLocked, FailToLock,
               StageInv, TypeOK
<1>2. ASSUME NEW r \in Requests,
             Miss(r) \/ Replay(r) \/ FailToLook(r) \/ Respond(r) \/ RespondAndFail(r) \/
             HandlerFails(r) \/ Store(r)
      PROVE  StageInv'
    BY <1>2 DEF Miss, Replay, FailToLook, Respond, RespondAndFail, Writes, HandlerFails, Store,
               StageInv, TypeOK
<1>3. ASSUME NEW r \in Requests,
             FailToStore(r) \/ Unlock(r) \/ FailToUnlock(r) \/ Disconnect(r) \/
             Crash(r)
      PROVE  StageInv'
    BY <1>3 DEF FailToStore, Unlock, FailToUnlock, Disconnect, Crash, StageInv,
               TypeOK
<1>4. ASSUME NEW k \in Keys, LockExpires(k) \/ ResponseExpires(k)
      PROVE  StageInv'
    BY <1>4 DEF LockExpires, ResponseExpires, StageInv, TypeOK
<1>5. CASE UNCHANGED vars
    BY <1>5 DEF vars, StageInv
<1> QED
    BY <1>1, <1>2, <1>3, <1>4, <1>5, Steps

\* Only Unlock deletes a lock that lasts, and it runs for the one that holds it.
LEMMA LockStep ==
    ASSUME IInv, [Next]_vars
    PROVE  LockInv'
<1> USE IdempotencyAssumption
    DEF IInv, Holding, Active, GoTo, Answer, Send, replyVars, historyVars
<1>1. ASSUME NEW r \in Requests,
             Arrive(r) \/ ArriveUnkeyed(r) \/ Reject(r) \/ Lock(r) \/
             FindLocked(r) \/ FailToLock(r)
      PROVE  LockInv'
    BY <1>1 DEF Arrive, ArriveUnkeyed, Reject, Lock, FindLocked, FailToLock,
               LockInv, LocksLast, TypeOK
<1>2. ASSUME NEW r \in Requests,
             Miss(r) \/ Replay(r) \/ FailToLook(r) \/ Respond(r) \/ RespondAndFail(r) \/
             HandlerFails(r) \/ Store(r)
      PROVE  LockInv'
    BY <1>2 DEF Miss, Replay, FailToLook, Respond, RespondAndFail, Writes, HandlerFails,
           Store, LockInv,
               LocksLast, TypeOK
<1>3. ASSUME NEW r \in Requests,
             FailToStore(r) \/ Disconnect(r) \/ Crash(r)
      PROVE  LockInv'
    BY <1>3 DEF FailToStore, Disconnect, Crash, LockInv, LocksLast, TypeOK
<1>4. ASSUME NEW r \in Requests, Unlock(r) \/ FailToUnlock(r)
      PROVE  LockInv'
    BY <1>4 DEF Unlock, FailToUnlock, LockInv, OneAtATime, LocksLast, Keyed,
               TypeOK
<1>5. ASSUME NEW k \in Keys, LockExpires(k) \/ ResponseExpires(k)
      PROVE  LockInv'
    BY <1>5 DEF LockExpires, ResponseExpires, LockInv, LocksLast, TypeOK
<1>6. CASE UNCHANGED vars
    BY <1>6 DEF vars, LockInv, LocksLast
<1> QED
    BY <1>1, <1>2, <1>3, <1>4, <1>5, <1>6, Steps

\* Only Lock lets a request in, and only when no request holds its key.
LEMMA OneAtATimeStep ==
    ASSUME IInv, [Next]_vars
    PROVE  OneAtATime'
<1> USE IdempotencyAssumption
    DEF IInv, Holding, Active, GoTo, Answer, Send, replyVars, historyVars
<1>1. ASSUME NEW r \in Requests,
             Arrive(r) \/ ArriveUnkeyed(r) \/ Reject(r) \/ FindLocked(r) \/
             FailToLock(r) \/ Miss(r)
      PROVE  OneAtATime'
    BY <1>1 DEF Arrive, ArriveUnkeyed, Reject, FindLocked, FailToLock, Miss,
               OneAtATime, TypeOK, Keyed
<1>2. ASSUME NEW r \in Requests, Lock(r)
      PROVE  OneAtATime'
    BY <1>2 DEF Lock, LockInv, OneAtATime, LocksLast, TypeOK, Keyed
<1>3. ASSUME NEW r \in Requests,
             Replay(r) \/ FailToLook(r) \/ Respond(r) \/ RespondAndFail(r) \/ HandlerFails(r) \/
             Store(r) \/ FailToStore(r)
      PROVE  OneAtATime'
    BY <1>3 DEF Replay, FailToLook, Respond, RespondAndFail, Writes, HandlerFails, Store,
           FailToStore,
               OneAtATime, TypeOK, Keyed
<1>4. ASSUME NEW r \in Requests,
             Unlock(r) \/ FailToUnlock(r) \/ Disconnect(r) \/ Crash(r)
      PROVE  OneAtATime'
    BY <1>4 DEF Unlock, FailToUnlock, Disconnect, Crash, OneAtATime, TypeOK,
               Keyed
<1>5. ASSUME NEW k \in Keys, LockExpires(k) \/ ResponseExpires(k)
      PROVE  OneAtATime'
    BY <1>5 DEF LockExpires, ResponseExpires, OneAtATime, TypeOK, Keyed
<1>6. CASE UNCHANGED vars
    BY <1>6 DEF vars, OneAtATime
<1> QED
    BY <1>1, <1>2, <1>3, <1>4, <1>5, <1>6, Steps

\* Only Store and FailToStore record, under the key of their own request.
LEMMA CacheStep ==
    ASSUME IInv, [Next]_vars
    PROVE  CacheInv'
<1> USE IdempotencyAssumption
    DEF IInv, Holding, Active, GoTo, Answer, Send, replyVars, historyVars
<1>1. ASSUME NEW r \in Requests,
             Arrive(r) \/ ArriveUnkeyed(r) \/ Reject(r) \/ Lock(r) \/
             FindLocked(r) \/ FailToLock(r)
      PROVE  CacheInv'
    BY <1>1 DEF Arrive, ArriveUnkeyed, Reject, Lock, FindLocked, FailToLock,
               CacheInv, TypeOK
<1>2. ASSUME NEW r \in Requests,
             Miss(r) \/ Replay(r) \/ FailToLook(r) \/ Respond(r) \/ RespondAndFail(r) \/
             HandlerFails(r) \/ Unlock(r) \/ FailToUnlock(r)
      PROVE  CacheInv'
    BY <1>2 DEF Miss, Replay, FailToLook, Respond, RespondAndFail, Writes, HandlerFails, Unlock,
               FailToUnlock, CacheInv, TypeOK
<1>3. ASSUME NEW r \in Requests, Store(r)
      PROVE  CacheInv'
    BY <1>3 DEF Store, Stored, CacheInv, StageInv, TypeOK
<1>4. ASSUME NEW r \in Requests, FailToStore(r)
      PROVE  CacheInv'
    BY <1>4 DEF FailToStore, Stored, CacheInv, StageInv, TypeOK
<1>5. ASSUME NEW r \in Requests, Disconnect(r) \/ Crash(r)
      PROVE  CacheInv'
    BY <1>5 DEF Disconnect, Crash, CacheInv, TypeOK
<1>6. ASSUME NEW k \in Keys, LockExpires(k) \/ ResponseExpires(k)
      PROVE  CacheInv'
    BY <1>6 DEF LockExpires, ResponseExpires, CacheInv, TypeOK
<1>7. CASE UNCHANGED vars
    BY <1>7 DEF vars, CacheInv, StageInv, TypeOK
<1> QED
    BY <1>1, <1>2, <1>3, <1>4, <1>5, <1>6, <1>7, Steps

\* The one handler of a key at work finds no record and leaves one or none.
LEMMA RecordStep ==
    ASSUME IInv, [Next]_vars
    PROVE  RecordInv'
<1> USE IdempotencyAssumption
    DEF IInv, Holding, Active, GoTo, Answer, Send, replyVars, historyVars
<1>1. ASSUME NEW r \in Requests,
             Arrive(r) \/ ArriveUnkeyed(r) \/ Reject(r) \/ Lock(r) \/
             FindLocked(r) \/ FailToLock(r)
      PROVE  RecordInv'
    BY <1>1 DEF Arrive, ArriveUnkeyed, Reject, Lock, FindLocked, FailToLock,
               RecordInv, LocksLast, ResponsesLast, TypeOK, Keyed
<1>2. ASSUME NEW r \in Requests,
             Miss(r) \/ Replay(r) \/ FailToLook(r) \/ HandlerFails(r) \/
             Unlock(r) \/ FailToUnlock(r)
      PROVE  RecordInv'
    BY <1>2 DEF Miss, Replay, FailToLook, HandlerFails, Unlock, FailToUnlock,
               RecordInv, LocksLast, ResponsesLast, TypeOK, Keyed
<1>3. ASSUME NEW r \in Requests, Respond(r) \/ RespondAndFail(r)
      PROVE  RecordInv'
    BY <1>3 DEF Respond, RespondAndFail, Writes, RecordInv, StageInv, LocksLast,
           ResponsesLast, TypeOK,
               Keyed
<1>4. ASSUME NEW r \in Requests, Store(r)
      PROVE  RecordInv'
    BY <1>4 DEF Store, Stored, RecordInv, OneAtATime, LocksLast, ResponsesLast,
               TypeOK, Keyed
<1>5. ASSUME NEW r \in Requests, FailToStore(r)
      PROVE  RecordInv'
    BY <1>5 DEF FailToStore, Stored, RecordInv, OneAtATime, LocksLast,
               ResponsesLast, TypeOK, Keyed
<1>6. ASSUME NEW r \in Requests, Disconnect(r) \/ Crash(r)
      PROVE  RecordInv'
    BY <1>6 DEF Disconnect, Crash, RecordInv, LocksLast, ResponsesLast, TypeOK,
               Keyed
<1>7. ASSUME NEW k \in Keys, LockExpires(k)
      PROVE  RecordInv'
    BY <1>7 DEF LockExpires, RecordInv, LocksLast, TypeOK, Keyed
<1>8. ASSUME NEW k \in Keys, ResponseExpires(k)
      PROVE  RecordInv'
    BY <1>8 DEF ResponseExpires, RecordInv, ResponsesLast, TypeOK, Keyed
<1>9. CASE UNCHANGED vars
    BY <1>9 DEF vars, RecordInv, LocksLast, ResponsesLast
<1> QED
    BY <1>1, <1>2, <1>3, <1>4, <1>5, <1>6, <1>7, <1>8, <1>9, Steps

\* Only Respond and RespondAndFail write, and what was written before it is recorded or lost.
LEMMA HandledOnceStep ==
    ASSUME IInv, [Next]_vars
    PROVE  HandledOnce'
<1> USE IdempotencyAssumption
    DEF IInv, Holding, Active, GoTo, Answer, Send, replyVars, historyVars
<1>1. ASSUME NEW r \in Requests,
             Arrive(r) \/ ArriveUnkeyed(r) \/ Reject(r) \/ Lock(r) \/
             FindLocked(r) \/ FailToLock(r)
      PROVE  HandledOnce'
    BY <1>1 DEF Arrive, ArriveUnkeyed, Reject, Lock, FindLocked, FailToLock,
               HandledOnce, TypeOK, Keyed
<1>2. ASSUME NEW r \in Requests,
             Miss(r) \/ Replay(r) \/ FailToLook(r) \/ HandlerFails(r) \/
             Store(r) \/ FailToStore(r)
      PROVE  HandledOnce'
    BY <1>2 DEF Miss, Replay, FailToLook, HandlerFails, Store, FailToStore,
               HandledOnce, TypeOK, Keyed
<1>3. ASSUME NEW r \in Requests, Respond(r) \/ RespondAndFail(r)
      PROVE  HandledOnce'
    BY <1>3 DEF Respond, RespondAndFail, Writes, HandledOnce, RecordInv, StageInv, OneAtATime,
               LocksLast, ResponsesLast, TypeOK, Keyed
<1>4. ASSUME NEW r \in Requests,
             Unlock(r) \/ FailToUnlock(r) \/ Disconnect(r) \/ Crash(r)
      PROVE  HandledOnce'
    BY <1>4 DEF Unlock, FailToUnlock, Disconnect, Crash, HandledOnce, TypeOK,
               Keyed
<1>5. ASSUME NEW k \in Keys, LockExpires(k)
      PROVE  HandledOnce'
    BY <1>5 DEF LockExpires, HandledOnce, TypeOK, Keyed
<1>6. ASSUME NEW k \in Keys, ResponseExpires(k)
      PROVE  HandledOnce'
    BY <1>6 DEF ResponseExpires, HandledOnce, RecordInv, StageInv, OneAtATime,
               LocksLast, ResponsesLast, TypeOK, Keyed
<1>7. CASE UNCHANGED vars
    BY <1>7 DEF vars, HandledOnce
<1> QED
    BY <1>1, <1>2, <1>3, <1>4, <1>5, <1>6, <1>7, Steps

\* Only Replay answers with the response of another, the one that is stored.
LEMMA ReplaysAgreeStep ==
    ASSUME IInv, [Next]_vars
    PROVE  ReplaysAgree'
<1> USE IdempotencyAssumption
    DEF IInv, Holding, Active, GoTo, Answer, Send, replyVars, historyVars
<1>1. ASSUME NEW r \in Requests,
             Arrive(r) \/ ArriveUnkeyed(r) \/ Reject(r) \/ Lock(r) \/ Miss(r) \/
             FailToLook(r)
      PROVE  ReplaysAgree'
    BY <1>1 DEF Arrive, ArriveUnkeyed, Reject, Lock, Miss, FailToLook,
               ReplaysAgree, TypeOK, Keyed
<1>2. ASSUME NEW r \in Requests, FindLocked(r) \/ FailToLock(r)
      PROVE  ReplaysAgree'
    BY <1>2 DEF FindLocked, FailToLock, ReplaysAgree, CacheInv, StageInv,
               TypeOK, Keyed
<1>3. ASSUME NEW r \in Requests, Replay(r)
      PROVE  ReplaysAgree'
    BY <1>3 DEF Replay, ReplaysAgree, CacheInv, TypeOK, Keyed
<1>4. ASSUME NEW r \in Requests,
             Respond(r) \/ RespondAndFail(r) \/ HandlerFails(r) \/ Unlock(r) \/
             FailToUnlock(r) \/
             Disconnect(r) \/ Crash(r)
      PROVE  ReplaysAgree'
    BY <1>4 DEF Respond, RespondAndFail, Writes, HandlerFails, Unlock, FailToUnlock,
           Disconnect, Crash,
               ReplaysAgree, TypeOK, Keyed
<1>5. ASSUME NEW r \in Requests, Store(r)
      PROVE  ReplaysAgree'
    BY <1>5 DEF Store, Stored, ReplaysAgree, TypeOK, Keyed
<1>6. ASSUME NEW r \in Requests, FailToStore(r)
      PROVE  ReplaysAgree'
    BY <1>6 DEF FailToStore, Stored, ReplaysAgree, TypeOK, Keyed
<1>7. ASSUME NEW k \in Keys, LockExpires(k) \/ ResponseExpires(k)
      PROVE  ReplaysAgree'
    BY <1>7 DEF LockExpires, ResponseExpires, ReplaysAgree, TypeOK, Keyed
<1>8. CASE UNCHANGED vars
    BY <1>8 DEF vars, ReplaysAgree
<1> QED
    BY <1>1, <1>2, <1>3, <1>4, <1>5, <1>6, <1>7, <1>8, Steps

LEMMA IInvStep == IInv /\ [Next]_vars => IInv'
BY TypeStep, StageStep, LockStep, OneAtATimeStep, CacheStep, RecordStep, HandledOnceStep,
   ReplaysAgreeStep DEF IInv

----------------------------------------------------------------------------
\* The strengthening is an invariant.
THEOREM Inductive == Spec => []IInv
BY InitIInv, IInvStep, PTL DEF Spec

\* Every variable stays in its range.
THEOREM Typing == Spec => []TypeOK
<1>1. IInv => TypeOK
    BY DEF IInv
<1> QED
    BY <1>1, Inductive, PTL

\* While locks outlive their holders the lock of a key excludes, although
\* Unlock deletes it without looking whose it is.
THEOREM LockExcludes == Spec => []OneAtATime
<1>1. IInv => OneAtATime
    BY DEF IInv
<1> QED
    BY <1>1, Inductive, PTL

\* The handler writes a second response for a key only when the first was lost
\* on its way to the store, or failed behind what it wrote.
THEOREM HandlerRunsOnce == Spec => []HandledOnce
<1>1. IInv => HandledOnce
    BY DEF IInv
<1> QED
    BY <1>1, Inductive, PTL

\* All replays of a key are of the one response that is stored, however many
\* handlers ran side by side.
THEOREM ReplaysAreOne == Spec => []ReplaysAgree
<1>1. IInv => ReplaysAgree
    BY DEF IInv
<1> QED
    BY <1>1, Inductive, PTL

----------------------------------------------------------------------------
(* While locks and recorded responses last the middleware implements          *)
(* ReplayOnce: every step is one of its steps for one request, or a stutter.  *)

\* A request about to record has been answered with its own response; one whose
\* handler may still run has not been answered.
AnswerInv ==
    \A r \in Requests :
        /\ stage[r] \in {"idle", "locking", "looking", "handling"} => from[r] = Nobody
        /\ stage[r] = "storing" => from[r] = r

OnceInv == IInv /\ AnswerInv /\ Calm

LEMMA AnswerStep ==
    ASSUME IInv, AnswerInv, [Next]_vars
    PROVE  AnswerInv'
<1> USE DEF IInv, Holding, Active, GoTo, Answer, Send, replyVars, historyVars
<1>1. ASSUME NEW r \in Requests,
             Arrive(r) \/ ArriveUnkeyed(r) \/ Reject(r) \/ Lock(r) \/
             FindLocked(r) \/ FailToLock(r)
      PROVE  AnswerInv'
    BY <1>1 DEF Arrive, ArriveUnkeyed, Reject, Lock, FindLocked, FailToLock,
               AnswerInv, TypeOK
<1>2. ASSUME NEW r \in Requests,
             Miss(r) \/ Replay(r) \/ FailToLook(r) \/ HandlerFails(r)
      PROVE  AnswerInv'
    BY <1>2 DEF Miss, Replay, FailToLook, HandlerFails, AnswerInv, TypeOK
<1>3. ASSUME NEW r \in Requests, Respond(r) \/ RespondAndFail(r)
      PROVE  AnswerInv'
    BY <1>3 DEF Respond, RespondAndFail, Writes, AnswerInv, TypeOK
<1>4. ASSUME NEW r \in Requests,
             Store(r) \/ FailToStore(r) \/ Unlock(r) \/ FailToUnlock(r) \/
             Disconnect(r) \/ Crash(r)
      PROVE  AnswerInv'
    BY <1>4 DEF Store, FailToStore, Unlock, FailToUnlock, Disconnect, Crash,
               AnswerInv, TypeOK
<1>5. ASSUME NEW k \in Keys, LockExpires(k) \/ ResponseExpires(k)
      PROVE  AnswerInv'
    BY <1>5 DEF LockExpires, ResponseExpires, AnswerInv
<1>6. CASE UNCHANGED vars
    BY <1>6 DEF vars, AnswerInv
<1> QED
    BY <1>1, <1>2, <1>3, <1>4, <1>5, <1>6, Steps

\* What a step that moves one request does to what ReplayOnce sees.
LEMMA ProgressMoves ==
    ASSUME TypeOK, NEW r \in Requests, NEW s, GoTo(r, s)
    PROVE  /\ r \in Keyed => /\ Progress[r] = Served(stage[r])
                             /\ Progress' = [Progress EXCEPT ![r] = Served(s)]
           /\ r \notin Keyed \/ Served(s) = Served(stage[r]) => Progress' = Progress
BY DEF TypeOK, GoTo, Progress, Keyed

LEMMA AnswerMoves ==
    ASSUME TypeOK, NEW r \in Keyed, NEW a, from' = [from EXCEPT ![r] = a]
    PROVE  AnsweredWith' = [AnsweredWith EXCEPT ![r] = a] /\ AnsweredWith[r] = from[r]
BY DEF TypeOK, AnsweredWith, Keyed

LEMMA AnswerStays == ASSUME UNCHANGED from PROVE AnsweredWith' = AnsweredWith
BY DEF AnsweredWith

LEMMA Waiting == Served("idle") = "waiting" /\ Served("locking") = "waiting"
BY DEF Served, Holding

LEMMA OnceStep ==
    ASSUME OnceInv, [Next]_vars
    PROVE  [Once!Next]_<<Progress, cache, AnsweredWith>>
<1> DEFINE Stutter == UNCHANGED <<Progress, cache, AnsweredWith>>
<1> USE DEF OnceInv, IInv
<1>1. ASSUME NEW r \in Requests, Arrive(r) \/ ArriveUnkeyed(r) \/ Reject(r)
      PROVE  Stutter
  <2>1. UNCHANGED <<cache, from>>
    BY <1>1 DEF Arrive, ArriveUnkeyed, Reject, Answer, replyVars
  <2>2. CASE Arrive(r)
    <3>1. GoTo(r, "locking") /\ Served("locking") = Served(stage[r])
      BY <2>2, Waiting DEF Arrive
    <3> QED
      BY <2>1, <3>1, ProgressMoves, AnswerStays
  <2>3. CASE ArriveUnkeyed(r) \/ Reject(r)
    <3>1. r \notin Keyed /\ (GoTo(r, "unkeyed") \/ GoTo(r, "done"))
      BY <2>3, IdempotencyAssumption DEF ArriveUnkeyed, Reject, Keyed
    <3> QED
      BY <2>1, <3>1, ProgressMoves, AnswerStays
  <2> QED
    BY <1>1, <2>2, <2>3
<1>2. ASSUME NEW r \in Requests, Lock(r)
      PROVE  Once!Enter(r) /\ r \in Keyed
  <2>1. stage[r] = "locking" /\ KeyOf[r] \notin lock /\ GoTo(r, "looking") /\ r \in Keyed
        /\ UNCHANGED <<cache, from>>
    BY <1>2 DEF Lock, StageInv, Holding, Keyed, replyVars
  <2>2. Served("locking") = "waiting" /\ Served("looking") = "served"
    BY DEF Served, Holding
  <2>3. ASSUME NEW x \in Keyed, KeyOf[x] = KeyOf[r] PROVE Progress[x] # "served"
    <3>1. stage[x] \notin Holding
      BY <2>1, <2>3 DEF LockInv, Calm, LocksLast, Keyed
    <3> QED
      BY <2>3, <3>1 DEF Progress, Served
  <2>4. Progress[r] = "waiting" /\ Progress' = [Progress EXCEPT ![r] = "served"]
    BY <2>1, <2>2, ProgressMoves, Zenon DEF Served
  <2> QED
    BY <2>1, <2>3, <2>4, AnswerStays DEF Once!Enter
<1>3. ASSUME NEW r \in Requests, FindLocked(r) \/ FailToLock(r)
      PROVE  Once!Leave(r) /\ r \in Keyed
  <2>1. stage[r] = "locking" /\ GoTo(r, "done") /\ r \in Keyed /\ UNCHANGED <<cache, from>>
    BY <1>3 DEF FindLocked, FailToLock, StageInv, Keyed, Answer
  <2>2. Progress[r] # "over" /\ Progress' = [Progress EXCEPT ![r] = "over"]
    BY <2>1, ProgressMoves DEF Served, Holding
  <2> QED
    BY <2>1, <2>2, AnswerStays DEF Once!Leave
<1>4. ASSUME NEW r \in Requests, Miss(r) \/ FailToLook(r)
      PROVE  Stutter
  <2>1. /\ stage[r] = "looking" /\ (GoTo(r, "handling") \/ GoTo(r, "unlocking"))
        /\ UNCHANGED <<cache, from>>
    BY <1>4 DEF Miss, FailToLook, Answer, replyVars
  <2>2. Served("handling") = Served(stage[r]) /\ Served("unlocking") = Served(stage[r])
    BY <2>1 DEF Served, Holding
  <2> QED
    BY <2>1, <2>2, ProgressMoves, AnswerStays
<1>5. ASSUME NEW r \in Requests, Replay(r)
      PROVE  Once!Replay(r) /\ r \in Keyed
  <2>1. /\ stage[r] = "looking" /\ GoTo(r, "unlocking") /\ r \in Keyed
        /\ cache[KeyOf[r]] # Nobody /\ from' = [from EXCEPT ![r] = cache[KeyOf[r]]]
        /\ cache' = cache /\ from[r] = Nobody
    BY <1>5 DEF Replay, Send, StageInv, AnswerInv, Keyed, Holding
  <2>2. Served("unlocking") = Served(stage[r]) /\ Served(stage[r]) = "served"
    BY <2>1 DEF Served, Holding
  <2>3. Progress[r] = "served" /\ Progress' = Progress
    BY <2>1, <2>2, ProgressMoves
  <2>4. /\ AnsweredWith' = [AnsweredWith EXCEPT ![r] = cache[KeyOf[r]]]
        /\ AnsweredWith[r] = Nobody
    BY <2>1, AnswerMoves
  <2> QED
    BY <2>1, <2>3, <2>4 DEF Once!Replay, Once!Answer
<1>6. ASSUME NEW r \in Requests, Respond(r) \/ RespondAndFail(r)
      PROVE  (Once!Handle(r) /\ r \in Keyed) \/ Stutter
  <2>1. /\ stage[r] \in {"handling", "unkeyed"} /\ cache' = cache
        /\ stage[r] = "handling" => GoTo(r, "storing") \/ GoTo(r, "unlocking")
        /\ stage[r] = "unkeyed" => GoTo(r, "done")
        /\ from' = [from EXCEPT ![r] = r]
    BY <1>6 DEF Respond, RespondAndFail, Writes, Send
  <2>2. CASE stage[r] = "handling"
    <3>1. r \in Keyed /\ from[r] = Nobody /\ (GoTo(r, "storing") \/ GoTo(r, "unlocking"))
      BY <2>1, <2>2 DEF StageInv, AnswerInv, Keyed, Holding
    <3>2. cache[KeyOf[r]] = Nobody
      BY <2>2, <3>1 DEF RecordInv, Calm, LocksLast, ResponsesLast
    <3>3. /\ Served("storing") = Served(stage[r]) /\ Served(stage[r]) = "served"
          /\ Served("unlocking") = Served(stage[r])
      BY <2>2 DEF Served, Holding
    <3>4. Progress[r] = "served" /\ Progress' = Progress
      BY <3>1, <3>3, ProgressMoves
    <3>5. AnsweredWith' = [AnsweredWith EXCEPT ![r] = r] /\ AnsweredWith[r] = Nobody
      BY <2>1, <3>1, AnswerMoves
    <3> QED
      BY <2>1, <3>1, <3>2, <3>4, <3>5 DEF Once!Handle, Once!Answer
  <2>3. CASE stage[r] = "unkeyed"
    <3>1. r \notin Keyed /\ GoTo(r, "done")
      BY <2>1, <2>3 DEF StageInv, Keyed
    <3>2. AnsweredWith' = AnsweredWith
      BY <2>1, <3>1 DEF AnsweredWith, TypeOK, Keyed
    <3> QED
      BY <2>1, <3>1, <3>2, ProgressMoves
  <2> QED
    BY <2>1, <2>2, <2>3
<1>7. ASSUME NEW r \in Requests, HandlerFails(r)
      PROVE  Stutter
  <2>1. /\ stage[r] \in {"handling", "unkeyed"} /\ UNCHANGED <<cache, from>>
        /\ GoTo(r, IF stage[r] = "handling" THEN "unlocking" ELSE "done")
    BY <1>7 DEF HandlerFails, Answer
  <2>2. CASE stage[r] = "handling"
    <3>1. Served("unlocking") = Served(stage[r]) /\ GoTo(r, "unlocking")
      BY <2>1, <2>2 DEF Served, Holding
    <3> QED
      BY <2>1, <3>1, ProgressMoves, AnswerStays
  <2>3. CASE stage[r] = "unkeyed"
    <3>1. r \notin Keyed /\ GoTo(r, "done")
      BY <2>1, <2>3 DEF StageInv, Keyed
    <3> QED
      BY <2>1, <3>1, ProgressMoves, AnswerStays
  <2> QED
    BY <2>1, <2>2, <2>3
<1>8. ASSUME NEW r \in Requests, Store(r) \/ FailToStore(r)
      PROVE  (Once!Record(r) /\ r \in Keyed) \/ Stutter
  <2>1. /\ stage[r] = "storing" /\ GoTo(r, "unlocking") /\ cache' \in {cache, Stored(r)}
        /\ UNCHANGED from
    BY <1>8 DEF Store, FailToStore, replyVars
  <2>2. r \in Keyed /\ from[r] = r
    BY <2>1 DEF StageInv, AnswerInv, Keyed, Holding
  <2>3. cache[KeyOf[r]] = Nobody /\ Stored(r) = [cache EXCEPT ![KeyOf[r]] = r]
    BY <2>1, <2>2 DEF RecordInv, Calm, LocksLast, ResponsesLast, Stored
  <2>4. Served("unlocking") = Served(stage[r]) /\ Served(stage[r]) = "served"
    BY <2>1 DEF Served, Holding
  <2>5. Progress[r] = "served" /\ Progress' = Progress
    BY <2>1, <2>2, <2>4, ProgressMoves
  <2>6. AnsweredWith' = AnsweredWith /\ AnsweredWith[r] = r
    BY <2>1, <2>2 DEF AnsweredWith
  <2> QED
    BY <2>1, <2>2, <2>3, <2>5, <2>6 DEF Once!Record
<1>9. ASSUME NEW r \in Requests, Unlock(r) \/ FailToUnlock(r) \/ Crash(r)
      PROVE  (Once!Leave(r) /\ r \in Keyed) \/ Stutter
  <2>1. stage[r] \in Active /\ GoTo(r, "done") /\ UNCHANGED <<cache, from>>
    BY <1>9 DEF Unlock, FailToUnlock, Crash, Active, Holding, replyVars
  <2>2. CASE r \in Keyed
    <3>1. stage[r] # "unkeyed"
      BY <2>2 DEF StageInv, Keyed
    <3>2. Served(stage[r]) # "over" /\ Served("done") = "over"
      BY <2>1, <3>1 DEF Served, Active, Holding
    <3>3. Progress[r] # "over" /\ Progress' = [Progress EXCEPT ![r] = "over"]
      BY <2>1, <2>2, <3>2, ProgressMoves
    <3> QED
      BY <2>1, <2>2, <3>3, AnswerStays DEF Once!Leave
  <2>3. CASE r \notin Keyed
    BY <2>1, <2>3, ProgressMoves, AnswerStays
  <2> QED
    BY <2>2, <2>3
<1>10. ASSUME NEW r \in Requests, Disconnect(r)
       PROVE  Stutter
  BY <1>10 DEF Disconnect, Progress, AnsweredWith, replyVars
<1>11. ASSUME NEW k \in Keys, LockExpires(k) \/ ResponseExpires(k)
       PROVE  FALSE
  BY <1>11 DEF LockExpires, ResponseExpires, Calm
<1>12. CASE UNCHANGED vars
  BY <1>12 DEF vars, replyVars, Progress, AnsweredWith
<1> QED
  <2> HIDE DEF Stutter
  <2>1. CASE Next
    <3>1. Stutter \/ \E r \in Keyed : \/ Once!Enter(r) \/ Once!Handle(r) \/ Once!Replay(r)
                                     \/ Once!Record(r) \/ Once!Leave(r)
      BY <1>1, <1>2, <1>3, <1>4, <1>5, <1>6, <1>7, <1>8, <1>9, <1>10, <1>11, <2>1, Steps
    <3> QED
      BY <3>1 DEF Once!Next, Stutter
  <2> QED
    BY <1>12, <2>1 DEF Stutter

\* While locks and recorded responses last, whatever fails, crashes or goes away,
\* the requests of a key are served one after the other, and none is handled once
\* a response is recorded (idempotent.go 82-153, idempotent_store.go 40-80).
THEOREM ServedOnce == Spec /\ Calm => Once!Spec
<1>1. Init /\ Calm => OnceInv /\ Once!Init
  <2> SUFFICES ASSUME Init, Calm PROVE OnceInv /\ Once!Init
    OBVIOUS
  <2>1. AnswerInv
    BY DEF Init, AnswerInv
  <2>2. Progress = [r \in Keyed |-> "waiting"]
    BY Waiting DEF Init, Progress, Keyed
  <2>3. AnsweredWith = [r \in Keyed |-> Nobody]
    BY DEF Init, AnsweredWith, Keyed
  <2> QED
    BY <2>1, <2>2, <2>3, InitIInv DEF OnceInv, Once!Init, Init
<1>2. OnceInv /\ [Next]_vars => OnceInv'
  <2> SUFFICES ASSUME OnceInv, [Next]_vars PROVE OnceInv'
    OBVIOUS
  <2>1. UNCHANGED env
    BY Steps DEF vars, Arrive, ArriveUnkeyed, Reject, Lock, FindLocked, FailToLock, Miss,
           Replay,
       FailToLook, Respond, RespondAndFail, Writes, HandlerFails, Store, FailToStore, Unlock,
       FailToUnlock, Disconnect, Crash, LockExpires, ResponseExpires
  <2> QED
    BY <2>1, IInvStep, AnswerStep DEF OnceInv, Calm
<1> QED
  BY <1>1, <1>2, OnceStep, PTL DEF Spec, Once!Spec
=============================================================================
