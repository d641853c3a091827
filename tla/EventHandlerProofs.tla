------------------------- MODULE EventHandlerProofs -------------------------
(* What EventHandler promises for any number of dispatches, listeners,       *)
(* workers and calls of Flush, and any capacity of the events channel.       *)
EXTENDS EventHandler, FiniteSetTheorems, TLAPS

Queued(t) == \E i \in DOMAIN queue : queue[i] = t
Unfinished == {t \in Tasks : InMemory(t)}
Answered(d) == {t \in Of(d) : verdict[t] \in {"ok", "err"}}

\* A dispatch has sent what it counted, up to the task it is sending.
CallInv ==
    \A d \in Dispatches :
        /\ sent[d] <= added[d] /\ added[d] <= owned[d]
        /\ call[d] = "idle" => owned[d] = 0 /\ out[d] = "none"
        /\ added[d] = IF call[d] = "sending" THEN sent[d] + 1 ELSE sent[d]
        /\ call[d] = "returned" => added[d] = owned[d]

\* A task that was sent is in one place: the channel, a goroutine, or done.
TaskInv ==
    /\ \A t \in Tasks :
          /\ Queued(t) => t[2] <= sent[t[1]] /\ ~ Running(t)
          /\ Running(t) => t[2] <= sent[t[1]]
          /\ Finished(t) => t[2] <= sent[t[1]] /\ ~ Queued(t) /\ ~ Running(t)
    /\ \A r, s \in Runners : runner[r] \in Tasks /\ runner[r] = runner[s] => r = s
    /\ \A i, j \in DOMAIN queue : queue[i] = queue[j] => i = j

\* The wait group counts the tasks in memory.
CountInv == IsFiniteSet(Unfinished) /\ wg = Cardinality(Unfinished)

ResultInv ==
    \A d \in Dispatches :
        /\ IsFiniteSet(Answered(d))
        /\ results[d] = IF out[d] = "none" THEN 0 ELSE Cardinality(Answered(d))
        /\ out[d] = "closed" => call[d] = "returned" /\ \A t \in Of(d) : Finished(t)

FlushInv ==
    /\ flush # "idle" => closed
    /\ \A t \in owed : t[2] <= added[t[1]]
    /\ flush \in {"joining", "returned"} => \A t \in owed : Finished(t)
    /\ flush = "returned" => WorkersGone

IInv == TypeOK /\ CallInv /\ TaskInv /\ CountInv /\ ResultInv /\ FlushInv

----------------------------------------------------------------------------
LEMMA TaskShape ==
    \A t \in Tasks : t[1] \in Dispatches /\ t[2] \in 1 .. MaxListeners /\ t = <<t[1], t[2]>>
BY DEF Tasks

LEMMA InitIInv == Init => IInv
<1> SUFFICES ASSUME Init PROVE IInv
    OBVIOUS
<1> USE EventHandlerAssumption
<1>1. TypeOK
  <2>1. queue \in Seq(Tasks) /\ Len(queue) <= QueueCap
    BY DEF Init
  <2>2. closed \in BOOLEAN /\ cancelled \in BOOLEAN
    BY Zenon DEF Init
  <2>3. QED
    BY <2>1, <2>2 DEF Init, TypeOK
<1>2. CallInv
    BY DEF Init, CallInv
<1>3. TaskInv
    BY TaskShape DEF Init, TaskInv, Queued, Running, Finished
<1>4. Unfinished = {}
    BY TaskShape DEF Init, Unfinished, InMemory
<1>5. CountInv
    BY <1>4, FS_EmptySet DEF CountInv, Init
<1>6. \A d \in Dispatches : Answered(d) = {}
    BY DEF Init, Answered, Of
<1>7. ResultInv
    BY <1>6, FS_EmptySet DEF ResultInv, Init
<1>8. FlushInv
    BY DEF Init, FlushInv
<1> QED
    BY <1>1, <1>2, <1>3, <1>5, <1>7, <1>8 DEF IInv

----------------------------------------------------------------------------
(* Steps.                                                                    *)

\* The step relation by the action that is taken.
LEMMA Steps ==
    ASSUME Next
    PROVE  \/ Listen
           \/ \E d \in Dispatches : Dispatch(d)
           \/ \E d \in Dispatches : Add(d)
           \/ \E d \in Dispatches : Send(d)
           \/ \E d \in Dispatches : Return(d)
           \/ \E d \in Dispatches : CloseResults(d)
           \/ \E r \in Runners : Take(r)
           \/ \E r \in Runners : Leave(r)
           \/ \E r \in Runners : Finish(r)
           \/ Run \/ Cancel \/ Flush \/ TasksDone \/ WorkersDone \/ Reset
BY DEF Next, Caller, Goroutine

LEMMA CallStep ==
    ASSUME IInv, [Next]_vars
    PROVE  CallInv'
<1> USE EventHandlerAssumption DEF IInv
<1>1. ASSUME NEW d \in Dispatches, Dispatch(d) PROVE CallInv'
    BY <1>1 DEF Dispatch, CallInv, TypeOK
<1>2. ASSUME NEW d \in Dispatches, Add(d) PROVE CallInv'
    BY <1>2 DEF Add, CallInv, TypeOK, resultVars
<1>3. ASSUME NEW d \in Dispatches, Send(d) PROVE CallInv'
    BY <1>3 DEF Send, CallInv, TypeOK, resultVars
<1>4. ASSUME NEW d \in Dispatches, Return(d) PROVE CallInv'
    BY <1>4 DEF Return, CallInv, TypeOK, resultVars
<1>5. ASSUME NEW d \in Dispatches, CloseResults(d) PROVE CallInv'
    BY <1>5 DEF CloseResults, CallInv, TypeOK, callVars
<1>6. CASE UNCHANGED <<callVars, out>>
    BY <1>6 DEF CallInv, callVars
<1>7. ASSUME NEW r \in Runners, Take(r) \/ Leave(r) \/ Finish(r) PROVE UNCHANGED <<callVars, out>>
    BY <1>7 DEF Take, Leave, Finish, resultVars
<1>8. CASE Listen \/ Run \/ Cancel \/ Flush \/ TasksDone \/ WorkersDone \/ Reset \/ UNCHANGED vars
    BY <1>6, <1>8 DEF Listen, Run, Cancel, Flush, TasksDone, WorkersDone, Reset, vars, resultVars
<1> QED
    BY <1>1, <1>2, <1>3, <1>4, <1>5, <1>6, <1>7, <1>8, Steps

LEMMA TaskStep ==
    ASSUME IInv, [Next]_vars
    PROVE  TaskInv'
<1> USE EventHandlerAssumption DEF IInv
<1>1. ASSUME NEW d \in Dispatches, Send(d) PROVE TaskInv'
  <2> DEFINE t == <<d, added[d]>>
  <2>1. /\ t \in Tasks /\ t[1] = d /\ t[2] = sent[d] + 1
        /\ queue' = Append(queue, t)
        /\ queue \in Seq(Tasks)
        /\ runner' = runner /\ verdict' = verdict
        /\ sent' = [sent EXCEPT ![d] = @ + 1]
    BY <1>1 DEF Send, CallInv, TypeOK, Tasks
  <2>2. ~ Queued(t) /\ ~ Running(t) /\ ~ Finished(t)
    BY <2>1 DEF TaskInv, TypeOK
  <2>3. \A u \in Tasks : Queued(u)' => Queued(u) \/ u = t
    BY <2>1 DEF Queued
  <2>4. \A u \in Tasks : sent'[u[1]] >= sent[u[1]] /\ sent[u[1]] \in Nat /\ sent'[u[1]] \in Nat
    <3>1. \A e \in Dispatches : sent'[e] >= sent[e] /\ sent[e] \in Nat /\ sent'[e] \in Nat
      BY <2>1 DEF TypeOK
    <3>2. QED
      BY <3>1, TaskShape
  <2>5. \A i, j \in DOMAIN queue' : queue'[i] = queue'[j] => i = j
    BY <2>1, <2>2 DEF TaskInv, Queued
  <2> HIDE DEF t
  <2>6. t[2] <= sent'[t[1]]
    BY <2>1 DEF TypeOK
  <2>7. \A u \in Tasks : (Running(u)' <=> Running(u)) /\ (Finished(u)' <=> Finished(u))
    BY <2>1 DEF Running, Finished
  <2>8. \A u \in Tasks : u[2] <= sent[u[1]] => u[2] <= sent'[u[1]]
    BY <2>4, TaskShape
  <2>9. \A r, s \in Runners : runner'[r] \in Tasks /\ runner'[r] = runner'[s] => r = s
    BY <2>1 DEF TaskInv
  <2>10. QED
    BY <2>2, <2>3, <2>5, <2>6, <2>7, <2>8, <2>9 DEF TaskInv
<1>2. ASSUME NEW r \in Runners, Take(r) PROVE TaskInv'
  <2> DEFINE t == Head(queue)
  <2>1. /\ queue \in Seq(Tasks) /\ queue # <<>>
        /\ queue' = Tail(queue)
        /\ runner' = [runner EXCEPT ![r] = t]
        /\ sent' = sent /\ verdict' = verdict
        /\ runner[r] = Select
    BY <1>2 DEF Take, callVars, TypeOK
  <2>2. /\ t \in Tasks /\ 1 \in DOMAIN queue /\ t = queue[1]
        /\ DOMAIN queue = 1 .. Len(queue)
        /\ DOMAIN queue' = 1 .. Len(queue) - 1
        /\ \A i \in DOMAIN queue' : i + 1 \in DOMAIN queue /\ queue'[i] = queue[i + 1]
    BY <2>1
  <2> HIDE DEF t
  <2>3. Queued(t) /\ ~ Running(t) /\ ~ Finished(t) /\ t[2] <= sent[t[1]]
    BY <2>2 DEF Queued, TaskInv
  <2>4. \A u \in Tasks : Queued(u)' => Queued(u) /\ u # t
    BY <2>2 DEF Queued, TaskInv
  <2>5. \A u \in Tasks : Running(u)' => Running(u) \/ u = t
    BY <2>1 DEF Running, TypeOK
  <2>6. \A s, q \in Runners : runner'[s] \in Tasks /\ runner'[s] = runner'[q] => s = q
    BY <2>1, <2>3 DEF Running, TaskInv, TypeOK
  <2>7. \A i, j \in DOMAIN queue' : queue'[i] = queue'[j] => i = j
    BY <2>2 DEF TaskInv
  <2>8. \A u \in Tasks : Finished(u)' = Finished(u)
    BY <2>1 DEF Finished
  <2>9. QED
    BY <2>1, <2>3, <2>4, <2>5, <2>6, <2>7, <2>8 DEF TaskInv
<1>3. ASSUME NEW r \in Runners, Leave(r) PROVE TaskInv'
    BY <1>3 DEF Leave, callVars, TaskInv, TypeOK, Queued, Running, Finished
<1>4. ASSUME NEW r \in Runners, Finish(r) PROVE TaskInv'
    BY <1>4 DEF Finish, callVars, TaskInv, TypeOK, Queued, Running, Finished
<1>5. CASE Run
    BY <1>5 DEF Run, callVars, TaskInv, TypeOK, Queued, Running, Finished, Runners
<1>6. CASE Flush
    BY <1>6 DEF Flush, callVars, TaskInv, TypeOK, Queued, Running, Finished, Runners, Drainers
<1>7. CASE UNCHANGED <<sent, queue, runner, verdict>>
    BY <1>7 DEF TaskInv, Queued, Running, Finished
<1>8. ASSUME NEW d \in Dispatches, Dispatch(d) \/ Add(d) \/ Return(d) \/ CloseResults(d)
      PROVE  UNCHANGED <<sent, queue, runner, verdict>>
    BY <1>8 DEF Dispatch, Add, Return, CloseResults, callVars, taskVars
<1>9. CASE Listen \/ Cancel \/ TasksDone \/ WorkersDone \/ Reset \/ UNCHANGED vars
    BY <1>7, <1>9 DEF Listen, Cancel, TasksDone, WorkersDone, Reset, vars, callVars, taskVars
<1> QED
    BY <1>1, <1>2, <1>3, <1>4, <1>5, <1>6, <1>7, <1>8, <1>9, Steps

LEMMA CountStep ==
    ASSUME IInv, [Next]_vars
    PROVE  CountInv'
<1> USE EventHandlerAssumption DEF IInv
<1>1. ASSUME NEW d \in Dispatches, Add(d) PROVE CountInv'
  <2> DEFINE t == <<d, added[d] + 1>>
  <2>1. t \in Tasks /\ t \notin Unfinished
    BY <1>1 DEF Add, TypeOK, Tasks, Unfinished, InMemory
  <2>2. ~ Finished(t)
    BY <1>1, <2>1 DEF Add, CallInv, TaskInv, TypeOK
  <2>a. \A u \in Tasks : u = t <=> u[1] = d /\ u[2] = added[d] + 1
    BY <2>1, TaskShape
  <2>b. added' = [added EXCEPT ![d] = @ + 1] /\ verdict' = verdict
    BY <1>1 DEF Add
  <2> HIDE DEF t
  <2>3. \A u \in Tasks : (u[2] <= added'[u[1]]) <=> (u[2] <= added[u[1]] \/ u = t)
    <3>1. \A e \in Dispatches : /\ added[e] \in Nat
                                 /\ added'[e] = IF e = d THEN added[d] + 1 ELSE added[e]
      BY <2>b DEF TypeOK
    <3>2. \A u \in Tasks : u[1] \in Dispatches /\ u[2] \in Nat
      BY TaskShape
    <3>3. QED
      BY <2>a, <3>1, <3>2
  <2>4. \A u \in Tasks : InMemory(u)' <=> InMemory(u) \/ u = t
    BY <2>2, <2>3, <2>b DEF InMemory, Finished
  <2>5. Unfinished' = Unfinished \cup {t}
    BY <2>1, <2>4 DEF Unfinished
  <2>6. QED
    BY <1>1, <2>1, <2>5, FS_AddElement DEF Add, CountInv
<1>2. ASSUME NEW r \in Runners, Finish(r) PROVE CountInv'
  <2> DEFINE t == runner[r]
  <2>1. t \in Tasks /\ Running(t) /\ ~ Finished(t)
    BY <1>2 DEF Finish, Running, TaskInv
  <2>2. t \in Unfinished
    BY <2>1, TaskShape DEF Unfinished, InMemory, TaskInv, CallInv, TypeOK
  <2>3. Unfinished' = Unfinished \ {t}
    BY <1>2, <2>1 DEF Finish, callVars, TypeOK, Unfinished, InMemory, Finished
  <2>4. QED
    BY <1>2, <2>2, <2>3, FS_RemoveElement DEF Finish, CountInv
<1>3. CASE UNCHANGED <<added, verdict, wg>>
  <2>1. Unfinished' = Unfinished
    BY <1>3 DEF Unfinished, InMemory, Finished
  <2>2. QED
    BY <1>3, <2>1 DEF CountInv
<1>4. ASSUME NEW d \in Dispatches, Dispatch(d) \/ Send(d) \/ Return(d) \/ CloseResults(d)
      PROVE  UNCHANGED <<added, verdict, wg>>
    BY <1>4 DEF Dispatch, Send, Return, CloseResults, callVars, taskVars
<1>5. ASSUME NEW r \in Runners, Take(r) \/ Leave(r) PROVE UNCHANGED <<added, verdict, wg>>
    BY <1>5 DEF Take, Leave, callVars
<1>6. CASE Listen \/ Run \/ Cancel \/ Flush \/ TasksDone \/ WorkersDone \/ Reset \/ UNCHANGED vars
    BY <1>3, <1>6 DEF Listen, Run, Cancel, Flush, TasksDone, WorkersDone, Reset, vars, callVars, taskVars
<1> QED
    BY <1>1, <1>2, <1>3, <1>4, <1>5, <1>6, Steps

LEMMA ResultStep ==
    ASSUME IInv, [Next]_vars
    PROVE  ResultInv'
<1> USE EventHandlerAssumption DEF IInv
<1>1. ASSUME NEW d \in Dispatches, Dispatch(d) PROVE ResultInv'
  <2>1. \A t \in Tasks : t[1] = d => verdict[t] = "none"
    BY <1>1, TaskShape DEF Dispatch, CallInv, TaskInv, TypeOK, Finished
  <2>2. Answered(d) = {} /\ Answered(d)' = {}
    BY <1>1, <2>1 DEF Dispatch, taskVars, Answered, Of
  <2>3. \A e \in Dispatches \ {d} : Of(e)' = Of(e) /\ Answered(e)' = Answered(e)
    BY <1>1 DEF Dispatch, taskVars, Answered, Of, TypeOK
  <2>4. results[d] = 0 /\ out[d] = "none"
    BY <1>1 DEF Dispatch, CallInv, ResultInv
  <2>5. IsFiniteSet(Answered(d)') /\ Cardinality(Answered(d)') = 0
    BY <2>2, FS_EmptySet
  <2>6. /\ results' = results /\ out'[d] # "closed"
        /\ \A e \in Dispatches \ {d} : out'[e] = out[e] /\ call'[e] = call[e]
        /\ \A t \in Tasks : Finished(t)' <=> Finished(t)
    BY <1>1, <2>4 DEF Dispatch, taskVars, TypeOK, Finished
  <2>7. \A e \in Dispatches : Of(e) \subseteq Tasks
    BY DEF Of
  <2>8. QED
    BY <2>3, <2>4, <2>5, <2>6, <2>7 DEF ResultInv
<1>2. ASSUME NEW d \in Dispatches, CloseResults(d) PROVE ResultInv'
  <2>1. \A e \in Dispatches : Of(e)' = Of(e) /\ Answered(e)' = Answered(e)
    BY <1>2 DEF CloseResults, callVars, taskVars, Answered, Of
  <2>2. QED
    BY <1>2, <2>1 DEF CloseResults, callVars, taskVars, ResultInv, TypeOK, Finished
<1>3. ASSUME NEW r \in Runners, Finish(r) PROVE ResultInv'
  <2>0. PICK t \in Tasks, d \in Dispatches : t = runner[r] /\ d = t[1]
    BY <1>3, TaskShape DEF Finish
  <2>1. Running(t) /\ ~ Finished(t)
    BY <2>0 DEF Running, TaskInv
  <2>2. t \in Of(d) /\ t \notin Answered(d)
    BY <2>0, <2>1, TaskShape DEF Of, Answered, TaskInv, CallInv, TypeOK, Finished
  <2>3. out[d] # "closed"
    BY <2>1, <2>2 DEF ResultInv
  <2>4. PICK v \in {"ok", "err", "panic"} :
           /\ verdict' = [verdict EXCEPT ![t] = v]
           /\ results' = IF out[d] # "none" /\ v # "panic"
                         THEN [results EXCEPT ![d] = @ + 1] ELSE results
    BY <1>3, <2>0 DEF Finish
  <2>5. owned' = owned /\ out' = out /\ call' = call
    BY <1>3 DEF Finish, callVars
  <2>6. \A e \in Dispatches : Of(e)' = Of(e)
    BY <2>5 DEF Of
  <2>7. \A e \in Dispatches \ {d} : Answered(e)' = Answered(e)
    BY <2>0, <2>4, <2>6 DEF Answered, Of, TypeOK
  <2>11. \A e \in Dispatches : \A u \in Of(e) : Finished(u) => Finished(u)'
    BY <2>0, <2>4 DEF TypeOK, Finished, Of
  <2>8. CASE v = "panic"
    <3>1. Answered(d)' = Answered(d)
      BY <2>2, <2>4, <2>6, <2>8 DEF Answered, TypeOK
    <3>2. QED
      BY <2>3, <2>4, <2>5, <2>6, <2>7, <2>8, <2>11, <3>1 DEF ResultInv
  <2>9. CASE v # "panic"
    <3>1. Answered(d)' = Answered(d) \cup {t}
      BY <2>2, <2>4, <2>6, <2>9 DEF Answered, TypeOK, Of
    <3>2. IsFiniteSet(Answered(d)') /\ Cardinality(Answered(d)') = Cardinality(Answered(d)) + 1
      BY <2>2, <3>1, FS_AddElement DEF ResultInv
    <3>3. results'[d] = IF out[d] = "none" THEN 0 ELSE Cardinality(Answered(d)')
      BY <2>4, <2>9, <3>2 DEF ResultInv, TypeOK
    <3>4. \A e \in Dispatches \ {d} : results'[e] = results[e]
      BY <2>4 DEF TypeOK
    <3>5. QED
      BY <2>3, <2>5, <2>6, <2>7, <2>11, <3>2, <3>3, <3>4 DEF ResultInv
  <2>10. QED
    BY <2>8, <2>9
<1>4. CASE UNCHANGED <<owned, verdict, results, out>> /\ \A d \in Dispatches : call[d] = "returned" => call'[d] = "returned"
  <2>1. \A e \in Dispatches : Of(e)' = Of(e) /\ Answered(e)' = Answered(e)
    BY <1>4 DEF Answered, Of
  <2>2. QED
    BY <1>4, <2>1 DEF ResultInv, Finished
<1>5. ASSUME NEW d \in Dispatches, Add(d) \/ Send(d) \/ Return(d) PROVE ResultInv'
    BY <1>4, <1>5 DEF Add, Send, Return, resultVars, taskVars, TypeOK
<1>6. ASSUME NEW r \in Runners, Take(r) \/ Leave(r) PROVE ResultInv'
    BY <1>4, <1>6 DEF Take, Leave, callVars, resultVars
<1>7. CASE Listen \/ Run \/ Cancel \/ Flush \/ TasksDone \/ WorkersDone \/ Reset \/ UNCHANGED vars
    BY <1>4, <1>7 DEF Listen, Run, Cancel, Flush, TasksDone, WorkersDone, Reset, vars, callVars, taskVars, resultVars
<1> QED
    BY <1>1, <1>2, <1>3, <1>5, <1>6, <1>7, Steps

LEMMA FlushStep ==
    ASSUME IInv, [Next]_vars
    PROVE  FlushInv'
<1> USE EventHandlerAssumption DEF IInv
<1>1. ASSUME NEW d \in Dispatches, Add(d) PROVE FlushInv'
  <2>1. \A t \in Tasks : t[2] <= added[t[1]] => t[2] <= added'[t[1]]
    <3>1. \A e \in Dispatches : added[e] \in Nat /\ added'[e] \in Nat /\ added[e] <= added'[e]
      BY <1>1 DEF Add, TypeOK
    <3>2. \A t \in Tasks : t[1] \in Dispatches /\ t[2] \in Nat
      BY TaskShape
    <3>3. QED
      BY <3>1, <3>2
  <2>2. QED
    BY <1>1, <2>1 DEF Add, flushVars, FlushInv, TypeOK, Finished, WorkersGone
<1>2. ASSUME NEW r \in Runners, Take(r) PROVE FlushInv'
    BY <1>2 DEF Take, callVars, flushVars, FlushInv, TypeOK, Finished, WorkersGone, Runners
<1>3. ASSUME NEW r \in Runners, Leave(r) PROVE FlushInv'
    BY <1>3 DEF Leave, callVars, flushVars, FlushInv, TypeOK, Finished, WorkersGone, Runners
<1>4. ASSUME NEW r \in Runners, Finish(r) PROVE FlushInv'
  <2>1. \A t \in Tasks : Finished(t) => Finished(t)'
    BY <1>4 DEF Finish, Finished, TypeOK
  <2>2. \A w \in Workers : runner[w] = Off => runner'[w] = Off
    BY <1>4 DEF Finish, TypeOK, Runners
  <2>3. QED
    BY <1>4, <2>1, <2>2 DEF Finish, callVars, flushVars, FlushInv, TypeOK, WorkersGone
<1>5. CASE Run
    BY <1>5 DEF Run, callVars, flushVars, FlushInv, Finished
<1>6. CASE Flush
  <2>1. flush' = "waiting" /\ closed' /\ added' = added
    BY <1>6 DEF Flush, callVars
  <2>2. \A t \in owed' : t[2] <= added[t[1]]
    BY <1>6 DEF Flush, InMemory
  <2>3. QED
    BY <2>1, <2>2 DEF FlushInv
<1>7. CASE TasksDone
  <2>1. Unfinished = {}
    BY <1>7, FS_EmptySet DEF TasksDone, CountInv
  <2>2. \A t \in owed : Finished(t)
    BY <2>1 DEF FlushInv, Unfinished, InMemory, TypeOK
  <2>3. QED
    BY <1>7, <2>2 DEF TasksDone, callVars, taskVars, FlushInv, Finished
<1>8. CASE WorkersDone
    BY <1>8 DEF WorkersDone, callVars, taskVars, FlushInv, Finished, WorkersGone
<1>9. CASE Reset
    BY <1>9 DEF Reset, FlushInv
<1>10. CASE UNCHANGED <<added, verdict, runner, flushVars>>
    BY <1>10 DEF flushVars, FlushInv, Finished, WorkersGone
<1>11. ASSUME NEW d \in Dispatches, Dispatch(d) \/ Send(d) \/ Return(d) \/ CloseResults(d)
       PROVE  UNCHANGED <<added, verdict, runner, flushVars>>
    BY <1>11 DEF Dispatch, Send, Return, CloseResults, callVars, taskVars, flushVars
<1>12. CASE Listen \/ Cancel \/ UNCHANGED vars
    BY <1>10, <1>12 DEF Listen, Cancel, vars, callVars, taskVars, flushVars
<1> QED
    BY <1>1, <1>2, <1>3, <1>4, <1>5, <1>6, <1>7, <1>8, <1>9, <1>10, <1>11, <1>12, Steps

LEMMA TypeStep ==
    ASSUME IInv, [Next]_vars
    PROVE  TypeOK'
<1> USE EventHandlerAssumption DEF IInv
<1>1. wg' \in Nat
    BY CountStep, FS_CardinalityType DEF CountInv
<1>2. results' \in [Dispatches -> Nat]
  <2>1. ASSUME NEW r \in Runners, Finish(r) PROVE results' \in [Dispatches -> Nat]
    <3>1. \/ results' = results
          \/ \E d \in Dispatches : results' = [results EXCEPT ![d] = @ + 1]
      BY <2>1, TaskShape DEF Finish
    <3>2. results \in [Dispatches -> Nat]
      BY DEF TypeOK
    <3>3. ASSUME NEW d \in Dispatches, results' = [results EXCEPT ![d] = @ + 1]
          PROVE  results' \in [Dispatches -> Nat]
      BY <3>2, <3>3
    <3>4. QED
      BY <3>1, <3>2, <3>3
  <2>2. ASSUME \A r \in Runners : ~ Finish(r) PROVE results' = results
    BY <2>2, Steps DEF Listen, Dispatch, Add, Send, Return, CloseResults, Take, Leave,
          Run, Cancel, Flush, TasksDone, WorkersDone, Reset, vars, resultVars
  <2>3. QED
    BY <2>1, <2>2 DEF TypeOK
<1>3. closed' \in BOOLEAN /\ cancelled' \in BOOLEAN
  <2>1. closed \in BOOLEAN /\ cancelled \in BOOLEAN
    BY Zenon DEF TypeOK
  <2>2. QED
    BY <2>1, Steps, Zenon DEF Listen, Dispatch, Add, Send, Return, CloseResults, Take, Leave,
          Finish, Run, Cancel, Flush, TasksDone, WorkersDone, Reset, vars, flushVars
<1>4. ASSUME NEW d \in Dispatches, Dispatch(d) PROVE TypeOK'
    BY <1>1, <1>2, <1>3, <1>4 DEF Dispatch, TypeOK, taskVars, flushVars
<1>5. ASSUME NEW d \in Dispatches, Add(d) PROVE TypeOK'
    BY <1>1, <1>2, <1>3, <1>5 DEF Add, TypeOK, resultVars, flushVars
<1>6. ASSUME NEW d \in Dispatches, Send(d) PROVE TypeOK'
  <2>1. <<d, added[d]>> \in Tasks /\ sent[d] + 1 = added[d]
    BY <1>6 DEF Send, CallInv, TypeOK, Tasks
  <2>2. queue' \in Seq(Tasks) /\ Len(queue') <= QueueCap
    BY <1>6, <2>1 DEF Send, TypeOK
  <2>3. sent' \in [Dispatches -> 0 .. MaxListeners]
    BY <1>6, <2>1 DEF Send, TypeOK
  <2>4. QED
    BY <1>1, <1>2, <1>3, <1>6, <2>2, <2>3 DEF Send, TypeOK, resultVars, flushVars
<1>7. ASSUME NEW d \in Dispatches, Return(d) PROVE TypeOK'
    BY <1>1, <1>2, <1>3, <1>7 DEF Return, TypeOK, taskVars, resultVars, flushVars
<1>8. ASSUME NEW d \in Dispatches, CloseResults(d) PROVE TypeOK'
    BY <1>1, <1>2, <1>3, <1>8 DEF CloseResults, TypeOK, callVars, taskVars, flushVars
<1>9. ASSUME NEW r \in Runners, Take(r) PROVE TypeOK'
  <2>1. queue' \in Seq(Tasks) /\ Len(queue') <= QueueCap /\ Head(queue) \in Tasks
    BY <1>9 DEF Take, TypeOK
  <2>2. QED
    BY <1>1, <1>2, <1>3, <1>9, <2>1 DEF Take, TypeOK, callVars, resultVars, flushVars
<1>10. ASSUME NEW r \in Runners, Leave(r) PROVE TypeOK'
    BY <1>1, <1>2, <1>3, <1>10 DEF Leave, TypeOK, callVars, resultVars, flushVars
<1>11. ASSUME NEW r \in Runners, Finish(r) PROVE TypeOK'
  <2>1. verdict' \in [Tasks -> {"none", "ok", "err", "panic"}]
    BY <1>11 DEF Finish, TypeOK
  <2>2. QED
    BY <1>1, <1>2, <1>3, <1>11, <2>1 DEF Finish, TypeOK, callVars, flushVars
<1>12. CASE Run
    BY <1>1, <1>2, <1>3, <1>12 DEF Run, TypeOK, callVars, resultVars, flushVars
<1>13. CASE Flush
  <2>1. runner' \in [Runners -> Tasks \cup {Off, Select}]
    BY <1>13 DEF Flush, TypeOK
  <2>2. owed' \subseteq Tasks /\ flush' = "waiting" /\ flushes' \in 0 .. MaxFlushes
    BY <1>13 DEF Flush, TypeOK
  <2>3. UNCHANGED <<listeners, callVars, queue, verdict, out>>
    BY <1>13 DEF Flush, resultVars
  <2>4. QED
    BY <1>1, <1>2, <1>3, <2>1, <2>2, <2>3 DEF TypeOK, callVars
<1>14. CASE Listen \/ Cancel \/ TasksDone \/ WorkersDone \/ Reset \/ UNCHANGED vars
    BY <1>1, <1>2, <1>3, <1>14 DEF Listen, Cancel, TasksDone, WorkersDone, Reset, TypeOK,
          vars, callVars, taskVars, resultVars, flushVars
<1> QED
    BY <1>4, <1>5, <1>6, <1>7, <1>8, <1>9, <1>10, <1>11, <1>12, <1>13, <1>14, Steps

----------------------------------------------------------------------------
(* Theorems.                                                                 *)

\* The inductive invariant: what each dispatch has sent, where each task is,
\* what the wait group and the result counts count, and what Flush has seen.
THEOREM Inductive == Spec => []IInv
<1>1. IInv /\ [Next]_vars => IInv'
    BY TypeStep, CallStep, TaskStep, CountStep, ResultStep, FlushStep DEF IInv
<1>2. QED
    BY <1>1, InitIInv, PTL DEF Spec

\* Every variable stays in its range; for wg that means that no wg.Done is one
\* too many, which would make the WaitGroup panic (events.go 144-147).
THEOREM Typing == Spec => []TypeOK
BY Inductive, PTL DEF IInv

\* No result channel is closed early, so no listener sends on a closed one, and
\* a closed one has given a result for each listener that did not panic.
THEOREM ResultsComplete == Spec => []ClosedMeansComplete
<1>1. IInv => ClosedMeansComplete
  <2> SUFFICES ASSUME IInv, NEW d \in Dispatches, out[d] = "closed"
               PROVE  /\ \A t \in Of(d) : Finished(t)
                      /\ results[d] = Cardinality({t \in Of(d) : verdict[t] # "panic"})
    BY DEF ClosedMeansComplete
  <2>1. \A t \in Of(d) : Finished(t)
    BY DEF IInv, ResultInv
  <2>2. {t \in Of(d) : verdict[t] # "panic"} = Answered(d)
    BY <2>1 DEF IInv, TypeOK, Answered, Finished, Of
  <2>3. QED
    BY <2>1, <2>2 DEF IInv, ResultInv
<1>2. QED
    BY <1>1, Inductive, PTL

\* Whatever dispatches, panics or is cancelled while Flush waits, it does not
\* return before the tasks it found have run and the workers are gone.
THEOREM FlushWaits == Spec => []FlushComplete
<1>1. IInv => FlushComplete
    BY DEF IInv, FlushInv, FlushComplete
<1>2. QED
    BY <1>1, Inductive, PTL


----------------------------------------------------------------------------
(* The handler implements ListenerOnce.                                      *)

\* The goroutine of a Flush that has not been called is not running.
DrainersInv == \A r \in Drainers : r > flushes => runner[r] = Off

OnceInv == IInv /\ DrainersInv

LEMMA DrainersStep ==
    ASSUME TypeOK, DrainersInv, [Next]_vars
    PROVE  DrainersInv'
<1> USE EventHandlerAssumption DEF TypeOK, DrainersInv, Runners, Drainers
<1>1. ASSUME NEW r \in Runners, Take(r) \/ Leave(r) \/ Finish(r) PROVE DrainersInv'
  <2>1. /\ runner[r] # Off /\ flushes' = flushes
        /\ \A s \in Runners : s # r => runner'[s] = runner[s]
    BY <1>1 DEF Take, Leave, Finish, flushVars
  <2> QED
    BY <2>1
<1>2. CASE Run
    BY <1>2 DEF Run, flushVars
<1>3. CASE Flush
    BY <1>3 DEF Flush
<1>4. CASE UNCHANGED <<runner, flushes>>
    BY <1>4
<1>5. ASSUME NEW d \in Dispatches, Dispatch(d) \/ Add(d) \/ Send(d) \/ Return(d) \/ CloseResults(d)
      PROVE  UNCHANGED <<runner, flushes>>
    BY <1>5 DEF Dispatch, Add, Send, Return, CloseResults, taskVars, flushVars
<1>6. CASE Listen \/ Cancel \/ TasksDone \/ WorkersDone \/ Reset \/ UNCHANGED vars
    BY <1>6 DEF Listen, Cancel, TasksDone, WorkersDone, Reset, vars, taskVars, flushVars
<1> QED
    BY <1>1, <1>2, <1>3, <1>4, <1>5, <1>6, Steps

\* A task's life depends on the number added, the goroutines and the verdicts.
LEMMA LifeStays ==
    ASSUME UNCHANGED added,
           \A t \in Tasks : (Running(t)' <=> Running(t)) /\ (Finished(t)' <=> Finished(t))
    PROVE  Life' = Life
BY DEF Life, InMemory

LEMMA LifeOver == \A t \in Tasks : Finished(t)' => Life'[t] = "over"
BY DEF Life, InMemory

LEMMA LifeMoves ==
    ASSUME NEW t \in Tasks, NEW before, NEW after, Life[t] = before, Life'[t] = after,
           \A u \in Tasks \ {t} : Life'[u] = Life[u],
           UNCHANGED <<flush, owed>>
    PROVE  Once!Moves(t, before, after)
<1>1. Life = [u \in Tasks |-> Life[u]] /\ Life' = [u \in Tasks |-> Life'[u]]
    BY DEF Life
<1>2. Life' = [Life EXCEPT ![t] = after]
    BY <1>1
<1> QED
    BY <1>2 DEF Once!Moves, Flushing

\* What the tasks in one place are to ListenerOnce.
LEMMA LifeIs ==
    ASSUME IInv, NEW t \in Tasks
    PROVE  /\ Finished(t) => Life[t] = "over"
           /\ Running(t) => Life[t] = "running"
           /\ Queued(t) => Life[t] = "accepted"
           /\ Life[t] \in {"accepted", "running"} <=> InMemory(t)
<1>1. /\ Running(t) => ~ Finished(t) /\ t[2] <= sent[t[1]]
      /\ Queued(t) => ~ Finished(t) /\ ~ Running(t) /\ t[2] <= sent[t[1]]
    BY DEF IInv, TaskInv
<1>2. t[1] \in Dispatches /\ t[2] \in Nat
    BY TaskShape
<1>3. t[2] <= sent[t[1]] => t[2] <= added[t[1]]
    BY <1>2, EventHandlerAssumption DEF IInv, CallInv, TypeOK
<1> QED
    BY <1>1, <1>3 DEF Life, InMemory

LEMMA OnceStep ==
    ASSUME OnceInv, [Next]_vars
    PROVE  [Once!Next]_<<Life, Flushing, owed>>
<1> DEFINE Stutter == UNCHANGED <<Life, Flushing, owed>>
<1> USE EventHandlerAssumption DEF OnceInv
<1>1. ASSUME NEW d \in Dispatches, Add(d)
      PROVE  \E t \in Tasks : Once!Accept(t)
  <2>a. added[d] + 1 \in 1 .. MaxListeners
    BY <1>1 DEF Add, IInv, TypeOK
  <2>b. <<d, added[d] + 1>> \in Tasks
    BY <2>a DEF Tasks
  <2>0. PICK t \in Tasks : t = <<d, added[d] + 1>>
    BY <2>b
  <2>1. /\ t[1] = d /\ t[2] = added[d] + 1
        /\ added' = [added EXCEPT ![d] = @ + 1]
        /\ sent[d] <= added[d] /\ sent[d] \in Nat /\ added \in [Dispatches -> Nat]
        /\ UNCHANGED <<runner, verdict, flush, owed>>
    BY <1>1, <2>0 DEF Add, IInv, CallInv, TypeOK, flushVars
  <2>2. ~ Running(t) /\ ~ Finished(t) /\ ~ InMemory(t)
    BY <2>1 DEF IInv, TaskInv, InMemory
  <2>3. \A u \in Tasks : (Running(u)' <=> Running(u)) /\ (Finished(u)' <=> Finished(u))
    BY <2>1 DEF Running, Finished
  <2>4. \A u \in Tasks \ {t} : InMemory(u)' <=> InMemory(u)
    <3>1. TAKE u \in Tasks \ {t}
    <3>2. u[1] \in Dispatches /\ u[2] \in Nat /\ u = <<u[1], u[2]>>
      BY TaskShape
    <3>3. u[1] = d => u[2] # added[d] + 1
      BY <2>0, <3>2
    <3> QED
      BY <2>1, <2>3, <3>2, <3>3 DEF InMemory
  <2>5. InMemory(t)' /\ ~ Running(t)' /\ ~ Finished(t)'
    <3>1. t[2] <= added'[t[1]]
      BY <2>1
    <3> QED
      BY <2>1, <2>2, <2>3, <3>1 DEF InMemory
  <2>6. Life[t] = "absent"
    BY <2>1, <2>2 DEF Life
  <2>6b. Life'[t] = "accepted"
    BY <2>1, <2>5 DEF Life
  <2>7. \A u \in Tasks \ {t} : Life'[u] = Life[u]
    BY <2>3, <2>4 DEF Life
  <2>8. Once!Moves(t, "absent", "accepted")
    BY <2>1, <2>6, <2>6b, <2>7, LifeMoves
  <2> QED
    BY <2>1, <2>8 DEF Once!Accept
<1>2. ASSUME NEW r \in Runners, Take(r)
      PROVE  \E t \in Tasks : Once!Begin(t)
  <2>0. PICK t \in Tasks : t = Head(queue)
    BY <1>2 DEF Take, IInv, TypeOK
  <2>1. /\ queue \in Seq(Tasks) /\ queue # <<>> /\ runner[r] = Select
        /\ runner \in [Runners -> Tasks \cup {Off, Select}]
        /\ runner' = [runner EXCEPT ![r] = t]
        /\ UNCHANGED <<added, verdict, flush, owed>>
    BY <1>2, <2>0 DEF Take, IInv, TypeOK, callVars, flushVars
  <2>2. Queued(t)
    BY <2>0, <2>1 DEF Queued
  <2>3. Running(t)' /\ \A u \in Tasks \ {t} : Running(u)' <=> Running(u)
    <3>1. /\ runner'[r] = t
          /\ \A s \in Runners \ {r} : runner'[s] = runner[s]
      BY <2>1
    <3> QED
      BY <2>1, <2>2, <3>1, EventHandlerAssumption DEF Running
  <2>4. \A u \in Tasks : (Finished(u)' <=> Finished(u)) /\ (InMemory(u)' <=> InMemory(u))
    BY <2>1 DEF Finished, InMemory
  <2>5. Life[t] = "accepted" /\ ~ Finished(t)
    BY <2>2, LifeIs DEF IInv, TaskInv
  <2>6. Life'[t] = "running"
    BY <2>2, <2>3, <2>4, <2>5 DEF Life, InMemory
  <2>7. \A u \in Tasks \ {t} : Life'[u] = Life[u]
    BY <2>3, <2>4 DEF Life
  <2>8. Once!Moves(t, "accepted", "running")
    BY <2>1, <2>2, <2>5, <2>6, <2>7, LifeMoves
  <2> QED
    BY <2>2, <2>8 DEF Once!Begin
<1>3. ASSUME NEW r \in Runners, Finish(r)
      PROVE  \E t \in Tasks : Once!End(t)
  <2>0. PICK t \in Tasks : t = runner[r]
    BY <1>3 DEF Finish
  <2>1. /\ runner[r] = t /\ runner \in [Runners -> Tasks \cup {Off, Select}]
        /\ runner' = [runner EXCEPT ![r] = Select]
        /\ \E v \in {"ok", "err", "panic"} : verdict' = [verdict EXCEPT ![t] = v]
        /\ verdict \in [Tasks -> {"none", "ok", "err", "panic"}]
        /\ UNCHANGED <<added, flush, owed>>
    BY <1>3, <2>0 DEF Finish, IInv, TypeOK, callVars, flushVars
  <2>2. Running(t) /\ \A s \in Runners : runner[s] = t => s = r
    BY <2>1 DEF IInv, TaskInv, Running
  <2>3. \A u \in Tasks \ {t} : Running(u)' <=> Running(u)
    BY <2>1 DEF Running
  <2>4. Finished(t)' /\ \A u \in Tasks \ {t} : Finished(u)' <=> Finished(u)
    <3>1. PICK v \in {"ok", "err", "panic"} : verdict' = [verdict EXCEPT ![t] = v]
      BY <2>1
    <3>2. verdict'[t] = v /\ \A u \in Tasks \ {t} : verdict'[u] = verdict[u]
      BY <2>1, <3>1
    <3> QED
      BY <3>2 DEF Finished
  <2>5. \A u \in Tasks \ {t} : InMemory(u)' <=> InMemory(u)
    BY <2>1, <2>4 DEF InMemory
  <2>6. Life[t] = "running"
    BY <2>1, <2>2, LifeIs
  <2>7. Life'[t] = "over"
    BY <2>1, <2>4, LifeOver
  <2>8. \A u \in Tasks \ {t} : Life'[u] = Life[u]
    BY <2>3, <2>4, <2>5 DEF Life
  <2>9. Once!Moves(t, "running", "over")
    BY <2>1, <2>6, <2>7, <2>8, LifeMoves
  <2> QED
    BY <2>1, <2>9 DEF Once!End
<1>4. CASE Flush
  <2>1. /\ flush = "idle" /\ flush' = "waiting" /\ owed' = {t \in Tasks : InMemory(t)}
        /\ runner' = [runner EXCEPT ![flushes + 1] = Select]
        /\ UNCHANGED <<added, verdict>>
        /\ flushes + 1 \in Runners /\ runner[flushes + 1] = Off
        /\ runner \in [Runners -> Tasks \cup {Off, Select}]
    BY <1>4 DEF Flush, IInv, TypeOK, DrainersInv, Drainers, Runners, callVars
  <2>2. \A t \in Tasks : (Running(t)' <=> Running(t)) /\ (Finished(t)' <=> Finished(t))
    BY <2>1 DEF Running, Finished
  <2>3. Life' = Life
    BY <2>1, <2>2, LifeStays
  <2>4. owed' = {t \in Tasks : Life[t] \in {"accepted", "running"}}
    BY <2>1, LifeIs
  <2>5. Once!Flush
    BY <2>1, <2>3, <2>4 DEF Once!Flush, Flushing
  <2> QED
    BY <2>5 DEF Once!Next
<1>5. CASE WorkersDone
  <2>1. flush = "joining" /\ flush' = "returned" /\ UNCHANGED <<taskVars, added, owed>>
    BY <1>5 DEF WorkersDone, callVars
  <2>2. Life' = Life
    BY <2>1, LifeStays DEF taskVars, Running, Finished
  <2>3. \A t \in owed : t \in Tasks /\ Finished(t)
    BY <2>1 DEF IInv, FlushInv, TypeOK
  <2>4. \A t \in owed : Life[t] = "over"
    BY <2>3, LifeIs
  <2>5. Once!Return
    BY <2>1, <2>2, <2>4 DEF Once!Return, Flushing
  <2> QED
    BY <2>5 DEF Once!Next
<1>6. CASE Reset
  <2>1. /\ flush = "returned" /\ flush' = "idle" /\ owed' = {}
        /\ UNCHANGED <<taskVars, added>>
    BY <1>6 DEF Reset, callVars
  <2>2. Life' = Life
    BY <2>1, LifeStays DEF taskVars, Running, Finished
  <2>3. Once!Reset
    BY <2>1, <2>2 DEF Once!Reset, Flushing
  <2> QED
    BY <2>3 DEF Once!Next
<1>7. CASE UNCHANGED <<added, runner, verdict, Flushing, owed>>
    BY <1>7, LifeStays DEF Running, Finished
<1>8. ASSUME NEW r \in Runners, Leave(r)
      PROVE  Stutter
  <2>1. /\ runner[r] = Select /\ runner' = [runner EXCEPT ![r] = Off]
        /\ runner \in [Runners -> Tasks \cup {Off, Select}]
        /\ UNCHANGED <<added, verdict, flush, owed>>
    BY <1>8 DEF Leave, IInv, TypeOK, callVars, flushVars
  <2>2. \A t \in Tasks : (Running(t)' <=> Running(t)) /\ (Finished(t)' <=> Finished(t))
    BY <2>1 DEF Running, Finished
  <2> QED
    BY <2>1, <2>2, LifeStays DEF Flushing
<1>9. CASE Run
  <2>1. /\ \A r \in Workers : runner[r] = Off /\ runner'[r] = Select
        /\ \A r \in Runners \ Workers : runner'[r] = runner[r]
        /\ UNCHANGED <<added, verdict, flush, owed>>
    BY <1>9 DEF Run, WorkersGone, Runners, callVars, flushVars
  <2>2. \A t \in Tasks : (Running(t)' <=> Running(t)) /\ (Finished(t)' <=> Finished(t))
    BY <2>1 DEF Running, Finished
  <2> QED
    BY <2>1, <2>2, LifeStays DEF Flushing
<1>10. ASSUME NEW d \in Dispatches, Dispatch(d) \/ Send(d) \/ Return(d) \/ CloseResults(d)
       PROVE  UNCHANGED <<added, runner, verdict, Flushing, owed>>
    BY <1>10 DEF Dispatch, Send, Return, CloseResults, callVars, taskVars, flushVars, Flushing
<1>11. CASE Listen \/ Cancel \/ TasksDone \/ UNCHANGED vars
    BY <1>7, <1>11 DEF Listen, Cancel, TasksDone, vars, callVars, taskVars, flushVars, Flushing
<1> QED
    BY <1>1, <1>2, <1>3, <1>4, <1>5, <1>6, <1>7, <1>8, <1>9, <1>10, <1>11, Steps DEF Once!Next

\* Every listener of a dispatch is called once, by a worker or by Flush's own
\* goroutine, and Flush returns when those it found have ended (events.go
\* 136-166, 191-224).
THEOREM ListenersRunOnce == Spec => Once!Spec
<1>1. Init => OnceInv /\ Once!Init
  <2> SUFFICES ASSUME Init PROVE OnceInv /\ Once!Init
    OBVIOUS
  <2>1. \A r \in Runners : runner[r] = Off
    BY DEF Init
  <2>2. DrainersInv
    BY <2>1 DEF DrainersInv, Runners
  <2>3. \A t \in Tasks : ~ Running(t) /\ ~ Finished(t)
    BY <2>1, EventHandlerAssumption DEF Init, Running, Finished
  <2>4. \A t \in Tasks : ~ InMemory(t)
    BY TaskShape DEF Init, InMemory
  <2>5. Life = [t \in Tasks |-> "absent"]
    BY <2>3, <2>4 DEF Life
  <2> QED
    BY <2>2, <2>5, InitIInv DEF OnceInv, Once!Init, Flushing, Init
<1>2. OnceInv /\ [Next]_vars => OnceInv'
  <2>1. IInv /\ [Next]_vars => IInv'
    BY TypeStep, CallStep, TaskStep, CountStep, ResultStep, FlushStep DEF IInv
  <2> QED
    BY <2>1, DrainersStep DEF OnceInv, IInv
<1>3. OnceInv /\ [Next]_vars => [Once!Next]_<<Life, Flushing, owed>>
    BY OnceStep
<1> QED
    BY <1>1, <1>2, <1>3, PTL DEF Spec, Once!Spec
=============================================================================
