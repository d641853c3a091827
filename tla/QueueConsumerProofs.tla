------------------------ MODULE QueueConsumerProofs ------------------------
(* What QueueConsumer promises for any number of messages and workers.       *)
EXTENDS QueueConsumer, FiniteSetTheorems, TLAPS

\* The channel holds each queued message once, and no other.
ChannelInv ==
    /\ \A i \in DOMAIN messages : msg[messages[i]] = "queued"
    /\ \A m \in Msgs : msg[m] = "queued" => \E i \in DOMAIN messages : messages[i] = m
    /\ \A i, j \in DOMAIN messages : messages[i] = messages[j] => i = j

\* What the drain owes is ahead, in the channel, of the receives it has left:
\* workers that take a message only bring the rest nearer.
OwedInv ==
    /\ main \in {"serving", "closing"} => owed = {}
    /\ main = "returned" => left = 0
    /\ \A m \in owed : msg[m] \in {"queued", "handling", "done"}
    /\ \A i \in DOMAIN messages : messages[i] \in owed => i <= left

\* A message is handled by one goroutine.
WorkInv ==
    /\ \A w \in Workers : worker[w] \in Msgs => msg[worker[w]] = "handling"
    /\ draining \in Msgs => msg[draining] = "handling"
    /\ \A w \in Workers : worker[w] \in Msgs => worker[w] # draining
    /\ \A v, w \in Workers : worker[w] \in Msgs /\ worker[v] = worker[w] => v = w

IInv == TypeOK /\ ChannelInv /\ OwedInv /\ WorkInv

LEMMA ConcurrencyType == Concurrency \in Nat
BY QueueConsumerAssumption, FS_CardinalityType DEF Concurrency

LEMMA InitIInv == Init => IInv
<1> SUFFICES ASSUME Init PROVE IInv
    OBVIOUS
<1>1. cancelled \in BOOLEAN
    BY Zenon DEF Init
<1>2. TypeOK
    BY <1>1, ConcurrencyType DEF Init, TypeOK
<1>3. ChannelInv /\ OwedInv /\ WorkInv
    BY QueueConsumerAssumption DEF Init, ChannelInv, OwedInv, WorkInv
<1> QED
    BY <1>2, <1>3 DEF IInv

----------------------------------------------------------------------------
(* The channel.                                                              *)

\* What a receive takes from the channel, and what it leaves there.
LEMMA Receive ==
    ASSUME TypeOK, messages # <<>>
    PROVE  /\ Head(messages) = messages[1] /\ 1 \in DOMAIN messages
           /\ Head(messages) \in Msgs
           /\ Tail(messages) \in Seq(Msgs)
           /\ Len(Tail(messages)) = Len(messages) - 1
           /\ DOMAIN Tail(messages) = 1 .. Len(messages) - 1
           /\ \A i \in DOMAIN Tail(messages) :
                  i + 1 \in DOMAIN messages /\ Tail(messages)[i] = messages[i + 1]
BY DEF TypeOK

\* A receive leaves the channel in order, whoever receives.
LEMMA ReceiveKeepsChannel ==
    ASSUME IInv, messages # <<>>,
           messages' = Tail(messages),
           msg' = [msg EXCEPT ![Head(messages)] = "handling"]
    PROVE  /\ ChannelInv'
           /\ \A m \in owed : msg'[m] \in {"queued", "handling", "done"}
           /\ \A i \in DOMAIN messages' : messages'[i] \in owed => i <= left - 1
<1> USE DEF IInv
<1> DEFINE h == Head(messages)
<1>0. h = messages[1] /\ 1 \in DOMAIN messages /\ h \in Msgs
    BY Receive
<1>1. \A i \in DOMAIN messages' : i + 1 \in DOMAIN messages /\ messages'[i] = messages[i + 1]
    BY Receive
<1>2. \A i \in DOMAIN messages' : messages'[i] # h /\ messages'[i] \in Msgs
    BY <1>0, <1>1 DEF ChannelInv, TypeOK
<1> HIDE DEF h
<1>3. \A m \in Msgs : msg'[m] = IF m = h THEN "handling" ELSE msg[m]
    BY <1>0 DEF TypeOK, h
<1>4. \A i \in DOMAIN messages' : msg'[messages'[i]] = "queued"
    BY <1>1, <1>2, <1>3 DEF ChannelInv
<1>5. ASSUME NEW m \in Msgs, msg'[m] = "queued"
      PROVE  \E i \in DOMAIN messages' : messages'[i] = m
  <2>1. m # h /\ msg[m] = "queued"
    BY <1>3, <1>5
  <2>2. PICK i \in DOMAIN messages : messages[i] = m
    BY <2>1 DEF ChannelInv
  <2>3. i # 1 /\ i \in 1 .. Len(messages)
    BY <2>1, <2>2, <1>0 DEF TypeOK
  <2>4. i - 1 \in DOMAIN messages'
    BY <2>3, Receive DEF TypeOK
  <2> QED
    BY <2>2, <2>3, <2>4, <1>1
<1>6. \A i, j \in DOMAIN messages' : messages'[i] = messages'[j] => i = j
  <2>1. \A i \in DOMAIN messages' : i \in Int
    BY Receive DEF TypeOK
  <2> QED
    BY <1>1, <2>1 DEF ChannelInv
<1>7. \A i \in DOMAIN messages' : messages'[i] \in owed => i <= left - 1
  <2>1. \A i \in DOMAIN messages' : i \in Int
    BY Receive DEF TypeOK
  <2> QED
    BY <1>1, <2>1 DEF OwedInv, TypeOK
<1> QED
    BY <1>3, <1>4, <1>5, <1>6, <1>7 DEF ChannelInv, OwedInv, TypeOK

----------------------------------------------------------------------------
(* Steps.                                                                    *)

LEMMA OfferStep ==
    ASSUME IInv, NEW m \in Msgs, Offer(m)
    PROVE  IInv'
<1> USE DEF IInv
<1>1. TypeOK'
    BY DEF Offer, TypeOK
<1>2. ChannelInv' /\ OwedInv' /\ WorkInv'
    BY DEF Offer, TypeOK, ChannelInv, OwedInv, WorkInv
<1> QED
    BY <1>1, <1>2

LEMMA SendStep ==
    ASSUME IInv, NEW m \in Msgs, Send(m)
    PROVE  IInv'
<1> USE DEF IInv
<1> USE ConcurrencyType
<1>1. TypeOK'
    BY DEF Send, TypeOK
<1>2. /\ DOMAIN messages' = DOMAIN messages \cup {Len(messages) + 1}
      /\ \A i \in DOMAIN messages : messages'[i] = messages[i] /\ i # Len(messages) + 1
      /\ messages'[Len(messages) + 1] = m
    BY DEF Send, TypeOK
<1>3. m \notin owed /\ \A i \in DOMAIN messages : messages[i] # m
    BY DEF Send, ChannelInv, OwedInv
<1>4. \A n \in Msgs : msg'[n] = IF n = m THEN "queued" ELSE msg[n]
    BY DEF Send, TypeOK
<1>5. \A i \in DOMAIN messages : messages[i] \in Msgs
    BY DEF TypeOK
<1>6. ChannelInv'
    BY <1>2, <1>3, <1>4, <1>5 DEF ChannelInv
<1>7. OwedInv'
    BY <1>2, <1>3, <1>4 DEF OwedInv, Send, TypeOK
<1>8. WorkInv'
    BY <1>4 DEF WorkInv, Send, TypeOK
<1> QED
    BY <1>1, <1>6, <1>7, <1>8

LEMMA WorkerStep ==
    ASSUME IInv, NEW w \in Workers, Take(w) \/ Handle(w) \/ Leave(w)
    PROVE  IInv'
<1> USE DEF IInv
<1>1. CASE Take(w)
  <2>1. cancelled' \in BOOLEAN
    BY <1>1, Zenon DEF Take, TypeOK
  <2>2. TypeOK'
    BY <1>1, <2>1, Receive, ConcurrencyType DEF Take, TypeOK
  <2>3. msg[Head(messages)] = "queued"
    BY <1>1, Receive DEF Take, ChannelInv
  <2>4. WorkInv'
    BY <1>1, <2>3, Receive DEF Take, TypeOK, WorkInv
  <2>5. \A i \in DOMAIN messages' : i \in Int
    BY <2>2 DEF TypeOK
  <2>6. OwedInv'
    BY <1>1, <2>5, ReceiveKeepsChannel DEF Take, TypeOK, OwedInv
  <2>7. QED
    BY <1>1, <2>2, <2>4, <2>6, ReceiveKeepsChannel DEF Take
<1>2. CASE Handle(w)
  <2>1. msg[worker[w]] = "handling"
    BY <1>2 DEF Handle, WorkInv
  <2>2. TypeOK'
    BY <1>2 DEF Handle, TypeOK
  <2>3. ChannelInv' /\ OwedInv'
    BY <1>2, <2>1 DEF Handle, TypeOK, ChannelInv, OwedInv
  <2>4. WorkInv'
    BY <1>2, QueueConsumerAssumption DEF Handle, TypeOK, WorkInv
  <2> QED
    BY <2>2, <2>3, <2>4
<1>3. CASE Leave(w)
  <2>1. TypeOK'
    BY <1>3 DEF Leave, TypeOK
  <2>2. ChannelInv' /\ OwedInv' /\ WorkInv'
    BY <1>3, QueueConsumerAssumption DEF Leave, TypeOK, ChannelInv, OwedInv, WorkInv
  <2> QED
    BY <2>1, <2>2
<1> QED
    BY <1>1, <1>2, <1>3

LEMMA CancelStep ==
    ASSUME IInv, Cancel \/ CallClose \/ ShutdownTimeout
    PROVE  IInv'
<1> USE DEF IInv
<1>1. cancelled' \in BOOLEAN
    BY Zenon DEF Cancel, CallClose, ShutdownTimeout, TypeOK
<1>2. TypeOK'
    BY <1>1 DEF Cancel, CallClose, ShutdownTimeout, TypeOK, InFlight
<1>3. ChannelInv' /\ OwedInv' /\ WorkInv'
    BY DEF Cancel, CallClose, ShutdownTimeout, ChannelInv, OwedInv, WorkInv
<1> QED
    BY <1>2, <1>3

LEMMA CloseReturnsStep ==
    ASSUME IInv, CloseReturns
    PROVE  IInv'
<1> USE DEF IInv
<1>1. TypeOK'
    BY DEF CloseReturns, TypeOK
<1>2. ChannelInv' /\ WorkInv'
    BY DEF CloseReturns, ChannelInv, WorkInv
<1>3. OwedInv'
    BY DEF CloseReturns, TypeOK, ChannelInv, OwedInv
<1> QED
    BY <1>1, <1>2, <1>3

LEMMA DrainStep ==
    ASSUME IInv, DrainTake \/ DrainHandle \/ Return
    PROVE  IInv'
<1> USE DEF IInv
<1>1. CASE DrainTake
  <2>1. cancelled' \in BOOLEAN
    BY <1>1, Zenon DEF DrainTake, TypeOK
  <2>2. TypeOK'
    BY <1>1, <2>1, Receive, ConcurrencyType DEF DrainTake, TypeOK
  <2>3. msg[Head(messages)] = "queued"
    BY <1>1, Receive DEF DrainTake, ChannelInv
  <2>4. WorkInv'
    BY <1>1, <2>3, Receive DEF DrainTake, TypeOK, WorkInv
  <2>5. OwedInv'
    BY <1>1, ReceiveKeepsChannel DEF DrainTake, OwedInv
  <2>6. QED
    BY <1>1, <2>2, <2>4, <2>5, ReceiveKeepsChannel DEF DrainTake
<1>2. CASE DrainHandle
  <2>1. TypeOK'
    BY <1>2 DEF DrainHandle, TypeOK
  <2>2. ChannelInv' /\ OwedInv'
    BY <1>2 DEF DrainHandle, TypeOK, ChannelInv, OwedInv, WorkInv
  <2>3. WorkInv'
    BY <1>2, QueueConsumerAssumption DEF DrainHandle, TypeOK, WorkInv
  <2> QED
    BY <2>1, <2>2, <2>3
<1>3. CASE Return
  <2>1. TypeOK'
    BY <1>3 DEF Return, TypeOK
  <2>2. ChannelInv' /\ OwedInv' /\ WorkInv'
    BY <1>3 DEF Return, ChannelInv, OwedInv, WorkInv
  <2> QED
    BY <2>1, <2>2
<1> QED
    BY <1>1, <1>2, <1>3

----------------------------------------------------------------------------
\* The strengthening is an invariant.
THEOREM Inductive == Spec => []IInv
<1>1. ASSUME IInv, Next PROVE IInv'
    BY <1>1, OfferStep, SendStep, WorkerStep, CancelStep, CloseReturnsStep, DrainStep
    DEF Next, Drain
<1>2. ASSUME IInv, UNCHANGED vars PROVE IInv'
    BY <1>2 DEF IInv, TypeOK, ChannelInv, OwedInv, WorkInv, vars
<1> QED
    BY <1>1, <1>2, InitIInv, PTL DEF Spec

\* Every variable stays in its range; the channel never holds more than twice
\* the concurrency.
THEOREM Typing == Spec => []TypeOK
<1>1. IInv => TypeOK
    BY DEF IInv
<1> QED
    BY <1>1, Inductive, PTL

\* Whatever workers take and late senders put into the channel during the
\* drain, Consume returns only when all it owed has been taken from it.
THEOREM DrainTakesAll == Spec => []DrainComplete
<1>1. ASSUME IInv PROVE DrainComplete
  <2>1. ASSUME main = "returned", NEW m \in owed, msg[m] = "queued" PROVE FALSE
    <3>1. PICK i \in DOMAIN messages : messages[i] = m
      BY <1>1, <2>1 DEF IInv, TypeOK, ChannelInv
    <3>2. i \in Int /\ i >= 1
      BY <1>1 DEF IInv, TypeOK
    <3> QED
      BY <1>1, <2>1, <3>1, <3>2 DEF IInv, OwedInv
  <2> QED
    BY <1>1, <2>1 DEF IInv, OwedInv, DrainComplete
<1> QED
    BY <1>1, Inductive, PTL


----------------------------------------------------------------------------
(* The consumer implements ConsumeOnce.                                      *)

\* What is being handled is in the hands of a goroutine: a worker's, or, while
\* it drains, Consume's own.
SlotsInv ==
    /\ \A m \in Msgs : msg[m] = "handling" => draining = m \/ \E w \in Workers : worker[w] = m
    /\ draining # NoMsg => main = "draining"

OnceInv == IInv /\ SlotsInv

\* ConsumeOnce counts with a Cardinality of its own.
LEMMA SameCount == \A S : Once!Cardinality(S) = Cardinality(S)
BY DEF Cardinality, Once!Cardinality

LEMMA SlotsStep ==
    ASSUME OnceInv, [Next]_vars
    PROVE  SlotsInv'
<1> USE QueueConsumerAssumption DEF OnceInv, IInv, SlotsInv
<1>1. ASSUME NEW m \in Msgs, Offer(m) \/ Send(m) PROVE SlotsInv'
    BY <1>1 DEF Offer, Send, TypeOK
<1>2. ASSUME NEW w \in Workers, Take(w) PROVE SlotsInv'
  <2>1. /\ worker[w] = NoMsg /\ worker' = [worker EXCEPT ![w] = Head(messages)]
        /\ msg' = [msg EXCEPT ![Head(messages)] = "handling"]
        /\ Head(messages) \in Msgs
        /\ UNCHANGED <<draining, main>>
    BY <1>2, Receive DEF Take
  <2>2. \A m \in Msgs : msg'[m] = "handling" => msg[m] = "handling" \/ m = Head(messages)
    BY <2>1 DEF TypeOK
  <2>3. worker'[w] = Head(messages) /\ \A v \in Workers : worker[v] \in Msgs => worker'[v] = worker[v]
    BY <2>1 DEF TypeOK
  <2> QED
    BY <2>1, <2>2, <2>3
<1>3. ASSUME NEW w \in Workers, Handle(w) PROVE SlotsInv'
    BY <1>3 DEF Handle, TypeOK
<1>4. ASSUME NEW w \in Workers, Leave(w) PROVE SlotsInv'
    BY <1>4 DEF Leave, TypeOK
<1>5. CASE DrainTake
    BY <1>5, Receive DEF DrainTake, TypeOK
<1>6. CASE DrainHandle
    BY <1>6 DEF DrainHandle, TypeOK
<1>7. CASE Cancel \/ ShutdownTimeout \/ CallClose \/ CloseReturns \/ Return \/ UNCHANGED vars
    BY <1>7 DEF Cancel, ShutdownTimeout, CallClose, CloseReturns, Return, vars
<1> QED
    BY <1>1, <1>2, <1>3, <1>4, <1>5, <1>6, <1>7 DEF Next, Drain

\* As many messages are being handled as goroutines have one at most. So there
\* is a slot when a goroutine that may take a message has none.
LEMMA SlotFree ==
    ASSUME OnceInv,
           \/ \E w \in Workers : worker[w] = NoMsg
           \/ main = "draining" /\ draining = NoMsg
    PROVE  Cardinality(Once!Handling) < Once!SlotsNow
<1> USE QueueConsumerAssumption DEF OnceInv, IInv, SlotsInv
<1> DEFINE hands == {w \in Workers : worker[w] \in Msgs}
<1> DEFINE held == {worker[w] : w \in hands}
<1>1. Once!Handling = {m \in Msgs : msg[m] = "handling"}
    BY DEF Once!Handling, Life
<1>2. /\ IsFiniteSet(hands) /\ Cardinality(hands) <= Concurrency
      /\ (\E w \in Workers : worker[w] = NoMsg) => Cardinality(hands) < Concurrency
    BY FS_Subset, FS_CardinalityType DEF Concurrency
<1>3. IsFiniteSet(held) /\ Cardinality(held) <= Cardinality(hands)
  <2> DEFINE f == [w \in hands |-> worker[w]]
  <2>1. f \in Surjection(hands, held)
    BY DEF Surjection
  <2> HIDE DEF hands, held, f
  <2> QED
    BY <1>2, <2>1, FS_Surjection
<1>4. Cardinality(held) \in Nat /\ Cardinality(hands) \in Nat /\ Concurrency \in Nat
    BY <1>2, <1>3, FS_CardinalityType, ConcurrencyType
<1>5. Once!Handling \subseteq held \cup {draining}
    BY <1>1
<1> HIDE DEF hands, held
<1>6. CASE draining = NoMsg
  <2>1. Once!Handling \subseteq held
    BY <1>1, <1>5, <1>6
  <2>2. Cardinality(Once!Handling) \in Nat /\ Cardinality(Once!Handling) <= Cardinality(held)
    BY <1>3, <2>1, FS_Subset, FS_CardinalityType
  <2> QED
    BY <1>2, <1>3, <1>4, <2>2 DEF Once!SlotsNow, Phase
<1>7. CASE draining # NoMsg
  <2>1. IsFiniteSet(held \cup {draining}) /\ Cardinality(held \cup {draining}) <= Cardinality(held) + 1
    <3>1. /\ IsFiniteSet(held \cup {draining})
          /\ \/ Cardinality(held \cup {draining}) = Cardinality(held)
             \/ Cardinality(held \cup {draining}) = Cardinality(held) + 1
        BY <1>3, FS_AddElement, ZenonT(30)
    <3> QED
        BY <1>4, <3>1, SMTT(30)
  <2>2. /\ Cardinality(Once!Handling) \in Nat
        /\ Cardinality(Once!Handling) <= Cardinality(held \cup {draining})
        /\ Cardinality(held \cup {draining}) \in Nat
    BY <1>5, <2>1, FS_Subset, FS_CardinalityType
  <2>3. Cardinality(hands) < Concurrency /\ Once!SlotsNow = Concurrency + 1
    BY <1>2, <1>7 DEF Once!SlotsNow, Phase
  <2> QED
    BY <1>3, <1>4, <2>1, <2>2, <2>3
<1> QED
    BY <1>6, <1>7

LEMMA LifeTurns ==
    ASSUME TypeOK, NEW m \in Msgs, NEW s, msg' = [msg EXCEPT ![m] = s],
           s \notin {"server", "sending"}, UNCHANGED <<Phase, owed>>
    PROVE  Once!Turn(m, Life[m], s)
<1>1. Life' = [Life EXCEPT ![m] = s]
    BY DEF Life, TypeOK
<1> QED
    BY <1>1 DEF Once!Turn

LEMMA OnceStep ==
    ASSUME OnceInv, [Next]_vars
    PROVE  [Once!Next]_<<Life, messages, Phase, owed>>
<1> USE DEF OnceInv, IInv
<1>1. ASSUME NEW m \in Msgs, Send(m)
      PROVE  Once!Arrive(m)
  <2>1. /\ msg' = [msg EXCEPT ![m] = "queued"] /\ msg[m] = "sending"
        /\ messages' = Append(messages, m) /\ UNCHANGED <<main, owed>>
    BY <1>1 DEF Send
  <2>2. Life[m] = "away" /\ UNCHANGED Phase
    BY <2>1 DEF Life, Phase
  <2> QED
    BY <2>1, <2>2, LifeTurns DEF Once!Arrive
<1>2. ASSUME messages # <<>>, messages' = Tail(messages),
             msg' = [msg EXCEPT ![Head(messages)] = "handling"],
             Cardinality(Once!Handling) < Once!SlotsNow,
             UNCHANGED <<main, owed>>
      PROVE  Once!Begin
  <2>1. PICK h \in Msgs : h = Head(messages)
    BY <1>2, Receive
  <2>2. msg[h] = "queued"
    BY <1>2, <2>1, Receive DEF ChannelInv
  <2>3. Life[h] = "queued" /\ UNCHANGED Phase
    BY <1>2, <2>2 DEF Life, Phase
  <2>4. Once!Turn(h, "queued", "handling")
    BY <1>2, <2>1, <2>3, LifeTurns
  <2>5. Once!Turn(Head(messages), "queued", "handling")
    BY <2>1, <2>4 DEF Once!Turn
  <2> QED
    BY <1>2, <2>5, SameCount DEF Once!Begin
<1>3. ASSUME NEW m \in Msgs, msg[m] = "handling", msg' = [msg EXCEPT ![m] = "done"],
             UNCHANGED <<messages, main, owed>>
      PROVE  Once!End(m)
  <2>1. Life[m] = "handling" /\ UNCHANGED Phase
    BY <1>3 DEF Life, Phase
  <2> QED
    BY <1>3, <2>1, LifeTurns DEF Once!End
<1>4. ASSUME NEW w \in Workers, Take(w)
      PROVE  Once!Begin
    BY <1>2, <1>4, SlotFree DEF Take
<1>5. CASE DrainTake
  <2>1. Cardinality(Once!Handling) < Once!SlotsNow
    BY <1>5, SlotFree DEF DrainTake
  <2>2. Once!Begin
    BY <1>2, <1>5, <2>1 DEF DrainTake
  <2> QED
    BY <2>2 DEF Once!Next
<1>6. ASSUME NEW w \in Workers, Handle(w)
      PROVE  \E m \in Msgs : Once!End(m)
  <2>1. PICK m \in Msgs : m = worker[w]
    BY <1>6 DEF Handle
  <2>2. msg[m] = "handling"
    BY <2>1 DEF WorkInv
  <2>3. Once!End(m)
    BY <1>3, <1>6, <2>1, <2>2 DEF Handle
  <2> QED
    BY <2>3
<1>7. CASE DrainHandle
  <2>1. PICK m \in Msgs : m = draining
    BY <1>7 DEF DrainHandle
  <2>2. msg[m] = "handling"
    BY <2>1 DEF WorkInv
  <2>3. Once!End(m)
    BY <1>3, <1>7, <2>1, <2>2 DEF DrainHandle
  <2> QED
    BY <2>3 DEF Once!Next
<1>8. CASE CloseReturns
  <2>1. Life' = Life
    BY <1>8 DEF CloseReturns, Life
  <2>2. Once!Close
    BY <1>8, <2>1 DEF CloseReturns, Once!Close, Phase
  <2> QED
    BY <2>2 DEF Once!Next
<1>9. CASE Return
  <2>1. Life' = Life /\ main = "draining" /\ left = 0 /\ UNCHANGED <<messages, owed>>
        /\ main' = "returned"
    BY <1>9 DEF Return, Life
  <2>2. ASSUME NEW m \in owed, Life[m] = "queued" PROVE FALSE
    <3>1. m \in Msgs /\ msg[m] = "queued"
      BY <2>2 DEF TypeOK, Life
    <3>2. PICK i \in DOMAIN messages : messages[i] = m
      BY <3>1 DEF ChannelInv
    <3>3. i \in Int /\ i >= 1
      BY DEF TypeOK
    <3> QED
      BY <2>1, <2>2, <3>2, <3>3 DEF OwedInv
  <2>3. Once!Return
    BY <2>1, <2>2 DEF Once!Return, Phase
  <2> QED
    BY <2>3 DEF Once!Next
<1>10. ASSUME NEW m \in Msgs, Offer(m)
       PROVE  UNCHANGED <<Life, messages, Phase, owed>>
  <2>1. msg' = [msg EXCEPT ![m] = "sending"] /\ msg[m] = "server"
        /\ UNCHANGED <<messages, main, owed>>
    BY <1>10 DEF Offer
  <2>2. \A n \in Msgs : msg'[n] = msg[n] \/ (msg'[n] = "sending" /\ msg[n] = "server")
    BY <2>1 DEF TypeOK
  <2> QED
    BY <2>1, <2>2 DEF Life, Phase
<1>11. ASSUME UNCHANGED <<msg, messages, main, owed>> \/ CallClose
       PROVE  UNCHANGED <<Life, messages, Phase, owed>>
    BY <1>11 DEF CallClose, Life, Phase
<1>12. ASSUME NEW w \in Workers, Leave(w)
       PROVE  UNCHANGED <<msg, messages, main, owed>>
    BY <1>12 DEF Leave
<1>13. CASE Cancel \/ ShutdownTimeout \/ CallClose \/ UNCHANGED vars
    BY <1>11, <1>13 DEF Cancel, ShutdownTimeout, vars
<1> QED
    BY <1>1, <1>4, <1>5, <1>6, <1>7, <1>8, <1>9, <1>10, <1>11, <1>12, <1>13
       DEF Next, Drain, Once!Next

\* Every message that reaches the channel is handled once and in the order of
\* the channel, at most Concurrency at a time and one more during the drain,
\* and Consume returns when nothing it owed is left there (queue/consumer.go
\* 104-135).
THEOREM MessagesHandledOnce == Spec => Once!Spec
<1>1. Init => OnceInv /\ Once!Init
  <2> SUFFICES ASSUME Init PROVE OnceInv /\ Once!Init
    OBVIOUS
  <2>1. SlotsInv
    BY DEF Init, SlotsInv
  <2>2. Once!Init
    BY DEF Init, Once!Init, Life, Phase
  <2> QED
    BY <2>1, <2>2, InitIInv DEF OnceInv
<1>2. OnceInv /\ [Next]_vars => OnceInv'
  <2>1. ASSUME IInv, Next PROVE IInv'
    BY <2>1, OfferStep, SendStep, WorkerStep, CancelStep, CloseReturnsStep, DrainStep
    DEF Next, Drain
  <2>2. ASSUME IInv, UNCHANGED vars PROVE IInv'
    BY <2>2 DEF IInv, TypeOK, ChannelInv, OwedInv, WorkInv, vars
  <2> QED
    BY <2>1, <2>2, SlotsStep DEF OnceInv
<1>3. OnceInv /\ [Next]_vars => [Once!Next]_<<Life, messages, Phase, owed>>
    BY OnceStep
<1> QED
    BY <1>1, <1>2, <1>3, PTL DEF Spec, Once!Spec
=============================================================================
