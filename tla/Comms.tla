------------------------------- MODULE Comms -------------------------------
(* Request and reply between processes (comms/): Sender.Send over core NATS  *)
(* to every Responder that listens on the topic. The broker is external: it  *)
(* gives a request to each subscription once or not at all, and says so when *)
(* there is none.                                                            *)
EXTENDS Integers, Sequences, SequencesExt

CONSTANTS
    Sends,          \* calls of Send, each with a payload of its own
    Responders,
    Topics,
    MaxListens      \* bound: calls of Listen

ASSUME CommsAssumption == MaxListens \in Nat

VARIABLES
    send,       \* each Send: where it is, and what it came back with, from which request
    listen,     \* the topic each Responder listens on, if it does
    pending,    \* the messages of its subscription, which it takes one by one
    replies,    \* what is on its way back to each Send
    handled,    \* history: the messages handlers had, with the outcome
    listens

commsVars == <<send, listen, pending, replies, handled, listens>>

\* What the handler does: data, an error with a text, an error without one. A
\* program that is no Responder may listen too, and answers what is no response:
\* null or an object without its fields, or what does not fit it at all.
Outcomes == {"data", "error", "blank", "empty", "foreign"}

Sent == [at : {"idle", "waiting", "done"}, of : Sends,
         result : {"none", "data", "error", "timeout", "nobody", "unreadable"}]
Reply == [of : Sends, outcome : Outcomes]

CommsInit ==
    /\ send = [s \in Sends |-> [at |-> "idle", of |-> s, result |-> "none"]]
    /\ listen = [r \in Responders |-> "off"]
    /\ pending = [r \in Responders |-> <<>>]
    /\ replies = [s \in Sends |-> <<>>]
    /\ handled = {}
    /\ listens = 0

----------------------------------------------------------------------------
(* Responder.                                                                *)

Listen(r, t) ==
    /\ listen[r] = "off"
    /\ listens < MaxListens
    /\ listens' = listens + 1
    /\ listen' = [listen EXCEPT ![r] = t]
    /\ UNCHANGED <<send, pending, replies, handled>>

\* ctx is done and Listen unsubscribes: what it had not taken is gone. The end
\* of the process does the same.
ListenEnds(r) ==
    /\ listen[r] # "off"
    /\ listen' = [listen EXCEPT ![r] = "off"]
    /\ pending' = [pending EXCEPT ![r] = <<>>]
    /\ UNCHANGED <<send, replies, handled, listens>>

\* A reply reaches a Send that is waiting for it. Later ones find nobody.
Responds(s, to, outcome) ==
    /\ handled' = handled \cup {[of |-> s, outcome |-> outcome]}
    /\ \/ /\ send[to].at = "waiting"
          /\ replies' = [replies EXCEPT ![to] = Append(@, [of |-> s, outcome |-> outcome])]
       \/ UNCHANGED replies

\* Variant: the answer goes to whoever asked last.
HandlesCrossed(r, outcome) ==
    /\ pending[r] # <<>>
    /\ Responds(Head(pending[r]), Last(pending[r]), outcome)
    /\ pending' = [pending EXCEPT ![r] = Tail(@)]
    /\ UNCHANGED <<send, listen, listens>>

\* The callback of the subscription: the handler's error goes back as its text,
\* Respond's own error is dropped, and the reply may be lost on its way.
Handles(r, outcome) ==
    /\ pending[r] # <<>>
    /\ Responds(Head(pending[r]), Head(pending[r]), outcome)
    /\ pending' = [pending EXCEPT ![r] = Tail(@)]
    /\ UNCHANGED <<send, listen, listens>>

----------------------------------------------------------------------------
(* Sender.                                                                   *)

\* The request goes to each subscription, or gets lost on the way to some. That
\* there is nobody at all, Request is told at once.
SendBegins(s, t) ==
    LET on == {r \in Responders : listen[r] = t}
    IN /\ send[s].at = "idle"
       /\ \E got \in SUBSET on :
             pending' = [r \in Responders |-> IF r \in got THEN Append(pending[r], s)
                                              ELSE pending[r]]
       /\ send' = [send EXCEPT ![s] = [at |-> IF on = {} THEN "done" ELSE "waiting", of |-> s,
                                             result |-> IF on = {} THEN "nobody" ELSE "none"]]
       /\ UNCHANGED <<listen, replies, handled, listens>>

Back(s, of, result) ==
    /\ send' = [send EXCEPT ![s] = [at |-> "done", of |-> of, result |-> result]]
    /\ replies' = [replies EXCEPT ![s] = <<>>]

\* An error is what has a text: one without is a success to the caller, and so is
\* what has no field of a response.
Read(outcome) ==
    CASE outcome = "foreign" -> "unreadable"
      [] outcome = "error"   -> "error"
      [] OTHER               -> "data"

\* The first reply is the answer.
SendAnswered(s) ==
    /\ send[s].at = "waiting"
    /\ replies[s] # <<>>
    /\ Back(s, Head(replies[s]).of, Read(Head(replies[s]).outcome))
    /\ UNCHANGED <<listen, pending, handled, listens>>

\* Request's own timeout, which may come with the reply already there. The
\* context given to Send has no part in it.
SendTimesOut(s) ==
    /\ send[s].at = "waiting"
    /\ Back(s, s, "timeout")
    /\ UNCHANGED <<listen, pending, handled, listens>>

----------------------------------------------------------------------------
CommsNext ==
    \/ \E r \in Responders :
          \/ ListenEnds(r)
          \/ \E t \in Topics : Listen(r, t)
          \/ \E o \in Outcomes : Handles(r, o)
    \/ \E s \in Sends :
          \/ SendAnswered(s) \/ SendTimesOut(s)
          \/ \E t \in Topics : SendBegins(s, t)

CommsSpec == CommsInit /\ [][CommsNext]_commsVars

----------------------------------------------------------------------------
(* Properties.                                                               *)

CommsTypeOK ==
    /\ send \in [Sends -> Sent]
    /\ listen \in [Responders -> Topics \cup {"off"}]
    /\ pending \in [Responders -> Seq(Sends)]
    /\ replies \in [Sends -> Seq(Reply)]
    /\ handled \subseteq Reply
    /\ listens \in 0 .. MaxListens

\* What Send comes back with is what some handler made of that very request:
\* data only if an answer to it had no text of an error (there was none, it was
\* blank, or the answer was no response), an error only if one had. Neither a
\* timeout that races the reply, nor a second responder, nor a responder that
\* stops changes that (comms/responder.go 41-52, comms/sender.go 43-60).
AnswerIsOwn ==
    \A s \in Sends :
        LET from == {m.outcome : m \in {n \in handled : n.of = s}}
        IN /\ send[s].of = s
           /\ send[s].result = "data" => from \cap {"data", "blank", "empty"} # {}
           /\ send[s].result = "error" => "error" \in from
=============================================================================
