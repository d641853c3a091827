-------------------------- MODULE HttpServerProofs --------------------------
(* What HttpServer promises for any number of requests and callers of Stop,  *)
(* any routes and error handlers, and any errors.                            *)
EXTENDS HttpServer, WellFoundedInduction, TLAPS

\* The stages before the handler, and those before a response.
Early == {"new", "outer", "inner", "binding", "validating"}
Unanswered == Early \cup {"handling", "replying"}

\* The requests StatusAsAsked is about, and what it asks of their status.
Ordinary(q) == q.wrote = FALSE /\ ~ (q.invalid = TRUE /\ q.cause = {})

Fits(q, code) ==
    IF q.answered = TRUE THEN code = MiddlewareCode
    ELSE IF q.cause = NoError THEN code = Success
    ELSE IF Encodable(q.cause) THEN Documented(q.cause, code)
    ELSE (code = 200 /\ q.logged = TRUE) \/ (Encodable({}) /\ Documented({}, code))

\* A request that failed and has no response. It carries its first error, or
\* the one of the encoder that refused that error's body, or none because the
\* logger, which could not write it either, has returned.
Owed(q) ==
    /\ q.sent = <<>> /\ q.answered = FALSE /\ q.cause \in SUBSET Kinds
    /\ \/ q.err = q.cause
       \/ ~ Encodable(q.cause) /\ q.err = {}
       \/ ~ Encodable(q.cause) /\ q.err = NoError /\ q.logged = TRUE

\* Before a response nothing is sent, unless the handler did it by itself, and
\* nothing failed. Behind it a response is owed or there is one that fits.
Sound(q) ==
    /\ q.at \in Early => q.wrote = FALSE
    /\ q.at \in Unanswered => q.err = NoError /\ q.cause = NoError /\ q.answered = FALSE
    /\ q.at \in Unanswered /\ q.wrote = FALSE => q.sent = <<>>
    /\ q.wrote = FALSE => Len(q.sent) <= 1
    /\ q.at = "done" => q.sent # <<>>
    /\ q.at \notin Unanswered /\ Ordinary(q) =>
          Owed(q) \/ (q.sent # <<>> /\ Fits(q, q.sent[1]))

RequestInv == \A r \in Requests : Sound(req[r])

\* Nothing arrives before the server serves, and none is left when it returns.
StopInv ==
    /\ start \in {"idle", "begun", "armed"} => \A r \in Requests : req[r].at = "new"
    /\ start = "returned" => InFlight = {} \/ graceOver
    /\ \A s \in Stoppers : stop[s] = "stopped" => start = "returned"

IInv == TypeOK /\ RequestInv /\ StopInv

----------------------------------------------------------------------------
(* The status of an error.                                                   *)

Less == {ss \in Nat \X Nat : ss[1] < ss[2]}

LEMMA NatWellFounded == IsWellFoundedOn(Less, Nat)
BY NatLessThanWellFounded DEF OpToRel, Less

\* The first of some positions is one of them, and none comes before it.
LEMMA MinIsFirst ==
    ASSUME NEW S, S \subseteq Nat, S # {}
    PROVE  Min(S) \in S /\ \A y \in S : Min(S) <= y
<1>1. PICK x \in S : \A y \in S : ~ (<<y, x>> \in Less)
  BY NatWellFounded, WFMin
<1>2. ASSUME NEW y \in S PROVE x <= y
  <2>1. x \in Nat /\ y \in Nat /\ <<y, x>> \in Nat \X Nat
    OBVIOUS
  <2>2. <<y, x>>[1] = y /\ <<y, x>>[2] = x
    OBVIOUS
  <2>3. ~ (y < x)
    BY <1>1, <2>1, <2>2 DEF Less
  <2> QED
    BY <2>1, <2>3
<1> QED
  BY <1>2 DEF Min

LEMMA StatusIsNat ==
    ASSUME TypeOK, NEW e
    PROVE  StatusOf(e) \in Nat
<1> USE HttpAssumption
<1>1. CASE "HTTPError" \in e
  BY <1>1 DEF StatusOf, OwnCode
<1>2. CASE HandlersFor(e) # {}
  <2>1. Min(HandlersFor(e)) \in DOMAIN handleErrors
    <3>1. HandlersFor(e) \subseteq DOMAIN handleErrors /\ DOMAIN handleErrors \subseteq Nat
      BY DEF HandlersFor, TypeOK
    <3> QED
      BY <1>2, <3>1, MinIsFirst
  <2>2. CodeOf[handleErrors[Min(HandlersFor(e))]] \in Nat
    BY <2>1 DEF TypeOK
  <2> QED
    BY <1>1, <1>2, <2>2 DEF StatusOf
<1>3. CASE BuiltInFor(e) # {}
  <2>1. BuiltInFor(e) \subseteq 1 .. 8
    BY DEF BuiltInFor, BuiltIn
  <2>2. Min(BuiltInFor(e)) \in 1 .. 8
    BY <1>3, <2>1, MinIsFirst
  <2>3. \A i \in 1 .. 8 : BuiltIn[i][2] \in Nat
    BY DEF BuiltIn
  <2> QED
    BY <1>1, <1>2, <2>2, <2>3 DEF StatusOf
<1> QED
  BY <1>1, <1>2, <1>3 DEF StatusOf

LEMMA KindsAreErrors == ASSUME NEW e \in SUBSET Kinds PROVE e # NoError
BY DEF Kinds, NoError

LEMMA BuiltInKinds ==
    /\ DOMAIN BuiltIn = 1 .. 8
    /\ \A x \in Kinds \ {"StatusCoder", "HTTPError"} : \E i \in 1 .. 8 : BuiltIn[i][1] = x
BY DEF BuiltIn, Kinds

\* The status of a mapped error is the one that is documented for it: of the
\* error handlers that take it the first decides.
LEMMA MappedIsDocumented ==
    ASSUME TypeOK, NEW e \in SUBSET Kinds, Handled(e)
    PROVE  Documented(e, StatusOf(e))
<1>1. CASE "HTTPError" \in e
  BY <1>1 DEF StatusOf, Documented
<1>2. CASE "HTTPError" \notin e /\ HandlersFor(e) # {}
  <2> DEFINE i == Min(HandlersFor(e))
  <2>1. HandlersFor(e) \subseteq DOMAIN handleErrors /\ DOMAIN handleErrors \subseteq Nat
    BY DEF HandlersFor, TypeOK
  <2>2. i \in HandlersFor(e) /\ \A j \in HandlersFor(e) : i <= j
    BY <1>2, <2>1, MinIsFirst
  <2>3. StatusOf(e) = CodeOf[handleErrors[i]]
    BY <1>2 DEF StatusOf
  <2> HIDE DEF i
  <2>4. i \in DOMAIN handleErrors /\ e \in Takes[handleErrors[i]] /\ i \in Nat
    BY <2>1, <2>2 DEF HandlersFor
  <2>5. \A j \in 1 .. i - 1 : e \notin Takes[handleErrors[j]]
    <3> SUFFICES ASSUME NEW j \in 1 .. i - 1, e \in Takes[handleErrors[j]] PROVE FALSE
      OBVIOUS
    <3>1. j \in DOMAIN handleErrors
      BY <2>4 DEF TypeOK
    <3>2. j \in HandlersFor(e)
      BY <3>1 DEF HandlersFor
    <3> QED
      BY <2>2, <2>4, <3>2
  <2> QED
    BY <1>2, <2>3, <2>4, <2>5 DEF Documented
<1>3. CASE "HTTPError" \notin e /\ HandlersFor(e) = {} /\ BuiltInFor(e) # {}
  <2> DEFINE i == Min(BuiltInFor(e))
  <2>1. BuiltInFor(e) \subseteq 1 .. 8
    BY BuiltInKinds DEF BuiltInFor
  <2>2. i \in BuiltInFor(e)
    BY <1>3, <2>1, MinIsFirst
  <2>3. StatusOf(e) = BuiltIn[i][2]
    BY <1>3 DEF StatusOf
  <2> HIDE DEF i
  <2>4. i \in DOMAIN BuiltIn /\ BuiltIn[i][1] \in e
    BY <2>2 DEF BuiltInFor
  <2>5. BuiltIn[i][1] # "StatusCoder"
    BY <2>4 DEF BuiltIn
  <2>6. ~ \E j \in DOMAIN handleErrors : e \in Takes[handleErrors[j]]
    BY <1>3 DEF HandlersFor
  <2> QED
    BY <1>3, <2>3, <2>4, <2>5, <2>6 DEF Documented
<1> QED
  BY <1>1, <1>2, <1>3 DEF Handled

\* So is what the error handler of echo gives to any other.
LEMMA OtherIsDocumented ==
    ASSUME NEW e \in SUBSET Kinds, ~ Handled(e)
    PROVE  Documented(e, IF "StatusCoder" \in e THEN RouterCode ELSE 500)
<1>1. "HTTPError" \notin e /\ HandlersFor(e) = {} /\ BuiltInFor(e) = {}
  BY DEF Handled
<1>2. ~ \E j \in DOMAIN handleErrors : e \in Takes[handleErrors[j]]
  BY <1>1 DEF HandlersFor
<1>3. e \cap (Kinds \ {"StatusCoder"}) = {}
  <2> SUFFICES ASSUME NEW x \in e, x \in Kinds, x # "StatusCoder" PROVE FALSE
    OBVIOUS
  <2>1. PICK i \in 1 .. 8 : BuiltIn[i][1] = x
    BY <1>1, BuiltInKinds
  <2> QED
    BY <1>1, <2>1, BuiltInKinds DEF BuiltInFor
<1>4. e = {} <=> "StatusCoder" \notin e
  BY <1>3
<1> QED
  BY <1>1, <1>2, <1>3, <1>4 DEF Documented

----------------------------------------------------------------------------
(* What a step makes of the record of a request.                             *)

LEMMA WrittenFields ==
    ASSUME NEW q \in Request, NEW c \in Nat
    PROVE  /\ Written(q, c) = [q EXCEPT !.sent = Append(q.sent, c)]
           /\ Append(q.sent, c) \in Seq(Nat) /\ Append(q.sent, c) # <<>>
           /\ Len(Append(q.sent, c)) = Len(q.sent) + 1
           /\ q.sent = <<>> => Append(q.sent, c)[1] = c
<1>1. q.sent \in Seq(Nat)
  BY DEF Request
<1> QED
  BY <1>1 DEF Written

\* On the way in nothing but the place changes.
LEMMA MovesSound ==
    ASSUME NEW o \in Request, Sound(o), o.at \in Unanswered,
           NEW q \in Request, q.at \in Unanswered, q.at \in Early => o.at \in Early,
           q.err = o.err, q.cause = o.cause, q.answered = o.answered, q.sent = o.sent,
           q.wrote = o.wrote
    PROVE  Sound(q)
BY DEF Sound, Unanswered, Early

LEMMA FailsSound ==
    ASSUME NEW o \in Request, Sound(o), o.at \in Unanswered,
           NEW q \in Request, q.at \in {"back", "leaving"}, q.sent = o.sent, q.wrote = o.wrote,
           q.answered = o.answered, q.cause \in SUBSET Kinds,
           q.err = q.cause \/ (~ Encodable(q.cause) /\ q.err = {})
    PROVE  Sound(q)
<1>1. q.answered = FALSE /\ (q.wrote = FALSE => q.sent = <<>>)
  BY DEF Sound
<1>2. q.wrote = FALSE => Len(q.sent) <= 1
  BY <1>1
<1>3. Ordinary(q) => Owed(q)
  BY <1>1 DEF Ordinary, Owed
<1>4. q.at \notin Unanswered /\ q.at \notin Early /\ q.at # "done"
  BY DEF Unanswered, Early
<1> QED
  BY <1>1, <1>2, <1>3, <1>4 DEF Sound

LEMMA WritesSound ==
    ASSUME NEW o \in Request, Sound(o), o.at \in Unanswered, NEW c \in Nat,
           NEW q \in Request, q.at \in {"back", "leaving"}, q.sent = Append(o.sent, c),
           q.wrote = o.wrote, Ordinary(q) => Fits(q, c)
    PROVE  Sound(q)
<1>1. q.wrote = FALSE => o.sent = <<>>
  BY DEF Sound
<1>2. q.sent # <<>> /\ (q.wrote = FALSE => q.sent[1] = c /\ Len(q.sent) = 1)
  BY <1>1, WrittenFields
<1>3. Ordinary(q) => q.wrote = FALSE
  BY DEF Ordinary
<1>4. q.at \notin Unanswered /\ q.at \notin Early /\ q.at # "done"
  BY DEF Unanswered, Early
<1> QED
  BY <1>2, <1>3, <1>4 DEF Sound

LEMMA FailedFields ==
    ASSUME NEW o \in Request, NEW e \in SUBSET Kinds, NEW at \in {"back", "leaving"}
    PROVE  LET q == Failed(o, at, e)
           IN  /\ q \in Request /\ q.at = at /\ q.err = e /\ q.sent = o.sent
               /\ q.cause = IF o.cause = NoError THEN e ELSE o.cause
               /\ q.wrote = o.wrote /\ q.answered = o.answered /\ q.invalid = o.invalid
BY DEF Failed, Request

LEMMA RespondedFields ==
    ASSUME NEW o \in Request, NEW c \in Nat, NEW x \in (SUBSET Kinds) \cup {NoError}
    PROVE  LET q == Responded(o, c, x)
           IN  /\ q \in Request /\ q.at = "back" /\ q.sent = Append(o.sent, c)
               /\ q.cause = o.cause /\ q.wrote = o.wrote /\ q.answered = o.answered
               /\ q.invalid = o.invalid
<1> DEFINE s == Append(o.sent, c)
<1>1. Written(o, c) = [o EXCEPT !.sent = s] /\ s \in Seq(Nat)
  BY WrittenFields
<1> HIDE DEF s
<1> DEFINE q == [[o EXCEPT !.sent = s] EXCEPT !.at = "back", !.err = x]
<1>2. Responded(o, c, x) = q
  BY <1>1 DEF Responded
<1>3. /\ q \in Request /\ q.at = "back" /\ q.sent = s
      /\ q.cause = o.cause /\ q.wrote = o.wrote /\ q.answered = o.answered
      /\ q.invalid = o.invalid
  BY <1>1 DEF Request
<1> HIDE DEF q
<1> QED
  BY <1>2, <1>3 DEF s

\* wrapHandler's answer to an error: the response of the mapping, or nothing
\* and the error of the encoder.
LEMMA ErrorResponseFields ==
    ASSUME TypeOK, NEW o \in Request, NEW e \in SUBSET Kinds, NEW q \in ErrorResponses(o, e)
    PROVE  /\ q \in Request /\ q.at = "back" /\ q.cause = e
           /\ q.wrote = o.wrote /\ q.answered = o.answered /\ q.invalid = o.invalid
           /\ \/ Encodable(e) /\ q.sent = Append(o.sent, StatusOf(e))
              \/ ~ Encodable(e) /\ q.sent = o.sent /\ q.err = {}
<1> DEFINE p == [o EXCEPT !.cause = e]
<1> DEFINE c == StatusOf(e)
<1>1. c \in Nat
  BY StatusIsNat
<1>2. /\ p \in Request /\ p.cause = e /\ p.sent = o.sent
      /\ p.wrote = o.wrote /\ p.answered = o.answered /\ p.invalid = o.invalid
  BY DEF Request
<1>3. q \in Responses(p, c, Encodable(e))
  BY DEF ErrorResponses
<1> HIDE DEF p, c
<1>4. CASE Encodable(e)
  <2>1. PICK x \in (SUBSET Kinds) \cup {NoError} : q = Responded(p, c, x)
    BY <1>3, <1>4 DEF Responses
  <2>2. /\ q \in Request /\ q.at = "back" /\ q.sent = Append(p.sent, c)
        /\ q.cause = p.cause /\ q.wrote = p.wrote /\ q.answered = p.answered
        /\ q.invalid = p.invalid
    BY <1>1, <1>2, <2>1, RespondedFields
  <2> QED
    BY <1>2, <1>4, <2>2 DEF c
<1>5. CASE ~ Encodable(e)
  <2>1. q = Failed(p, "back", {}) /\ {} \in SUBSET Kinds
    BY <1>3, <1>5 DEF Responses
  <2>2. /\ q \in Request /\ q.at = "back" /\ q.err = {} /\ q.sent = p.sent
        /\ q.cause = IF p.cause = NoError THEN {} ELSE p.cause
        /\ q.wrote = p.wrote /\ q.answered = p.answered /\ q.invalid = p.invalid
    BY <1>2, <2>1, FailedFields
  <2> QED
    BY <1>2, <1>5, <2>2, KindsAreErrors
<1> QED
  BY <1>4, <1>5

\* The answer fits an error that is mapped, and is owed if it was not written.
LEMMA ErrorResponseSound ==
    ASSUME TypeOK, NEW o \in Request, Sound(o), o.at \in Unanswered,
           NEW e \in SUBSET Kinds, NEW q \in ErrorResponses(o, e),
           NEW p \in Request, p.at = q.at, p.sent = q.sent, p.err = q.err, p.cause = q.cause,
           p.wrote = q.wrote, p.answered = q.answered,
           Ordinary(p) => Handled(e)
    PROVE  Sound(p)
<1>1. o.answered = FALSE
  BY DEF Sound
<1>2. CASE Encodable(e) /\ q.sent = Append(o.sent, StatusOf(e))
  <2>1. Ordinary(p) => Documented(e, StatusOf(e))
    BY MappedIsDocumented
  <2>2. p.answered # TRUE /\ p.cause = e /\ e # NoError
    <3>1. q.answered = o.answered /\ q.cause = e
      BY ErrorResponseFields
    <3> QED
      BY <1>1, <3>1, KindsAreErrors
  <2>3. Ordinary(p) => Fits(p, StatusOf(e))
    BY <1>2, <2>1, <2>2 DEF Fits
  <2>4. p.at = "back" /\ p.wrote = o.wrote /\ StatusOf(e) \in Nat
    BY ErrorResponseFields, StatusIsNat
  <2> QED
    BY <1>2, <2>3, <2>4, WritesSound
<1>3. CASE ~ Encodable(e) /\ q.sent = o.sent /\ q.err = {}
  <2>1. p.at = "back" /\ p.wrote = o.wrote /\ p.cause = e /\ p.answered = o.answered
    BY ErrorResponseFields
  <2> QED
    BY <1>3, <2>1, FailsSound
<1> QED
  BY <1>2, <1>3, ErrorResponseFields

\* The error handler writes a response only where there is none, and one that
\* fits unless its body cannot be encoded, which is logged.
LEMMA HandleErrorFields ==
    ASSUME TypeOK, NEW q \in Request, Sound(q), q.at \in {"back", "leaving"}
    PROVE  LET h == HandleError(q)
           IN  /\ h \in Request /\ h.cause = q.cause /\ h.wrote = q.wrote
               /\ h.invalid = q.invalid /\ h.answered = q.answered
               /\ h.wrote = FALSE => Len(h.sent) <= 1
               /\ Ordinary(h) =>
                     \/ h.sent # <<>> /\ Fits(h, h.sent[1])
                     \/ /\ h.sent = <<>> /\ h.answered = FALSE /\ h.logged = TRUE
                        /\ h.cause \in SUBSET Kinds /\ ~ Encodable(h.cause)
<1>1. /\ Ordinary(q) => Owed(q) \/ (q.sent # <<>> /\ Fits(q, q.sent[1]))
      /\ q.wrote = FALSE => Len(q.sent) <= 1
  BY DEF Sound, Unanswered, Early
<1>2. CASE q.err = NoError \/ q.sent # <<>>
  <2>1. HandleError(q) = q
    BY <1>2 DEF HandleError
  <2>2. Owed(q) => /\ q.sent = <<>> /\ q.answered = FALSE /\ q.logged = TRUE
                   /\ q.cause \in SUBSET Kinds /\ ~ Encodable(q.cause)
    BY <1>2, KindsAreErrors DEF Owed
  <2> QED
    BY <1>1, <2>1, <2>2
<1>3. CASE ~ (q.err = NoError \/ q.sent # <<>>)
  <2>1. q.err \in SUBSET Kinds /\ q.sent = <<>>
    BY <1>3 DEF Request
  <2>2. Ordinary(q) => /\ q.answered = FALSE /\ q.cause \in SUBSET Kinds
                       /\ q.err = q.cause \/ (~ Encodable(q.cause) /\ q.err = {})
    <3>1. Ordinary(q) => Owed(q)
      BY <1>1, <2>1
    <3>2. q.err # NoError
      BY <1>3
    <3>3. Owed(q) => q.err = q.cause \/ (~ Encodable(q.cause) /\ q.err = {})
      BY <3>2 DEF Owed
    <3>4. Owed(q) => q.answered = FALSE /\ q.cause \in SUBSET Kinds
      BY DEF Owed
    <3> QED
      BY <3>1, <3>3, <3>4
  <2>3. CASE ~ Encodable(q.err)
    <3> DEFINE h == [q EXCEPT !.logged = TRUE]
    <3>1. HandleError(q) = h
      BY <1>3, <2>3 DEF HandleError
    <3>2. /\ h \in Request /\ h.cause = q.cause /\ h.wrote = q.wrote /\ h.invalid = q.invalid
          /\ h.answered = q.answered /\ h.sent = q.sent /\ h.logged = TRUE
      BY DEF Request
    <3> HIDE DEF h
    <3>3. Ordinary(h) => Ordinary(q)
      BY <3>2 DEF Ordinary
    <3> QED
      BY <1>1, <2>1, <2>2, <2>3, <3>1, <3>2, <3>3
  <2>4. ASSUME NEW c \in Nat, NEW b \in BOOLEAN, Documented(q.err, c), Encodable(q.err),
               HandleError(q) = [q EXCEPT !.sent = Append(q.sent, c), !.logged = b]
        PROVE  LET h == HandleError(q)
               IN  /\ h \in Request /\ h.cause = q.cause /\ h.wrote = q.wrote
                   /\ h.invalid = q.invalid /\ h.answered = q.answered
                   /\ Len(h.sent) <= 1
                   /\ Ordinary(h) => h.sent # <<>> /\ Fits(h, h.sent[1])
    <3> DEFINE s == Append(q.sent, c)
    <3>1. s \in Seq(Nat) /\ s # <<>> /\ s[1] = c /\ Len(s) = 1
      BY <2>1, WrittenFields
    <3> HIDE DEF s
    <3> DEFINE h == [q EXCEPT !.sent = s, !.logged = b]
    <3>2. /\ h \in Request /\ h.cause = q.cause /\ h.wrote = q.wrote /\ h.invalid = q.invalid
          /\ h.answered = q.answered /\ h.sent = s
      BY <3>1 DEF Request
    <3>3. HandleError(q) = h
      BY <2>4 DEF s
    <3> HIDE DEF h
    <3>4. Ordinary(h) => Ordinary(q)
      BY <3>2 DEF Ordinary
    <3>5. Ordinary(h) => Fits(h, c)
      <4>1. CASE q.err = q.cause
        BY <2>2, <2>4, <3>2, <3>4, <4>1, KindsAreErrors DEF Fits
      <4>2. CASE ~ Encodable(q.cause) /\ q.err = {}
        BY <2>2, <2>4, <3>2, <3>4, <4>2, KindsAreErrors DEF Fits
      <4> QED
        BY <2>2, <3>4, <4>1, <4>2
    <3>6. h.sent # <<>> /\ h.sent[1] = c
      BY <3>1, <3>2
    <3>7. Len(h.sent) <= 1
      <4>1. Len(s) <= 1
        BY <3>1
      <4> QED
        BY <3>2, <4>1
    <3> QED
      BY <3>2, <3>3, <3>5, <3>6, <3>7, Zenon
  <2>5. CASE Encodable(q.err) /\ Handled(q.err)
    <3> DEFINE c == StatusOf(q.err)
    <3>1. c \in Nat /\ Documented(q.err, c)
      BY <2>1, <2>5, StatusIsNat, MappedIsDocumented
    <3>2. q.logged \in BOOLEAN
      BY DEF Request
    <3>3. HandleError(q) = Written(q, c)
      BY <1>3, <2>5 DEF HandleError
    <3> HIDE DEF c
    <3>4. Written(q, c) = [q EXCEPT !.sent = Append(q.sent, c), !.logged = q.logged]
      <4> DEFINE s == Append(q.sent, c)
      <4>1. Written(q, c) = [q EXCEPT !.sent = s]
        BY <3>1, WrittenFields
      <4> HIDE DEF s
      <4>2. [q EXCEPT !.sent = s] = [q EXCEPT !.sent = s, !.logged = q.logged]
        BY DEF Request
      <4> QED
        BY <4>1, <4>2 DEF s
    <3> QED
      BY <2>4, <2>5, <3>1, <3>2, <3>3, <3>4
  <2>6. CASE Encodable(q.err) /\ ~ Handled(q.err)
    <3> DEFINE c == IF "StatusCoder" \in q.err THEN RouterCode ELSE 500
    <3>1. c \in Nat /\ Documented(q.err, c)
      BY <2>1, <2>6, OtherIsDocumented DEF RouterCode
    <3>2. PICK b \in BOOLEAN : b = (Written(q, c).logged \/ "StatusCoder" \notin q.err)
      BY Zenon
    <3>3. HandleError(q) = [Written(q, c) EXCEPT !.logged = b]
      BY <1>3, <2>6, <3>2 DEF HandleError
    <3> HIDE DEF c
    <3>4. [Written(q, c) EXCEPT !.logged = b] = [q EXCEPT !.sent = Append(q.sent, c), !.logged = b]
      BY <3>1, WrittenFields DEF Request
    <3> QED
      BY <2>4, <2>6, <3>1, <3>3, <3>4
  <2> QED
    BY <2>3, <2>5, <2>6
<1> QED
  BY <1>2, <1>3

----------------------------------------------------------------------------
(* The steps of a request.                                                   *)

Goes(r, q) == q \in Request /\ Sound(q) /\ q.at # "new" /\ Becomes(r, q)

LEMMA EarlyStep ==
    ASSUME IInv, NEW r \in Requests,
           Arrive(r) \/ OuterMiddleware(r) \/ InnerMiddleware(r) \/ Bind(r) \/ HandlerSucceeds(r)
    PROVE  \E q : Goes(r, q)
<1> DEFINE o == req[r]
<1> USE HttpAssumption
<1>1. o \in Request /\ Sound(o)
  BY DEF IInv, TypeOK, RequestInv
<1>2. o.at \in {"new", "outer", "inner", "binding", "handling"}
  BY DEF Arrive, OuterMiddleware, InnerMiddleware, Bind, HandlerSucceeds
<1>3. o.at \in Unanswered /\ o.cause = NoError /\ o.answered = FALSE
  BY <1>1, <1>2 DEF Sound, Unanswered, Early
<1>4. ASSUME NEW e \in SUBSET Kinds, NEW at \in {"back", "leaving"}, Becomes(r, Failed(o, at, e))
      PROVE  \E q : Goes(r, q)
  <2> DEFINE q == Failed(o, at, e)
  <2>1. /\ q \in Request /\ q.at = at /\ q.err = e /\ q.sent = o.sent
        /\ q.cause = IF o.cause = NoError THEN e ELSE o.cause
        /\ q.wrote = o.wrote /\ q.answered = o.answered
    BY <1>1, FailedFields
  <2>2. Becomes(r, q)
    BY <1>4
  <2> HIDE DEF q, o
  <2>3. Sound(q)
    BY <1>1, <1>3, <2>1, FailsSound
  <2> QED
    BY <2>1, <2>2, <2>3 DEF Goes
<1>5. ASSUME NEW at \in {"inner", "binding", "validating"}, Becomes(r, [o EXCEPT !.at = at]),
             o.at \in {"outer", "inner", "binding"}
      PROVE  \E q : Goes(r, q)
  <2> DEFINE q == [o EXCEPT !.at = at]
  <2>1. /\ q \in Request /\ q.at = at /\ q.err = o.err /\ q.sent = o.sent
        /\ q.cause = o.cause /\ q.wrote = o.wrote /\ q.answered = o.answered
    BY <1>1 DEF Request
  <2>2. Becomes(r, q)
    BY <1>5
  <2> HIDE DEF q, o
  <2>3. Sound(q)
    BY <1>1, <1>3, <1>5, <2>1, MovesSound DEF Unanswered, Early
  <2> QED
    BY <2>1, <2>2, <2>3 DEF Goes
<1>6. ASSUME NEW at \in {"back", "leaving"},
             Becomes(r, [Written(o, MiddlewareCode) EXCEPT !.at = at, !.answered = TRUE])
      PROVE  \E q : Goes(r, q)
  <2> DEFINE s == Append(o.sent, MiddlewareCode)
  <2>1. MiddlewareCode \in Nat
    BY DEF MiddlewareCode
  <2>2. Written(o, MiddlewareCode) = [o EXCEPT !.sent = s] /\ s \in Seq(Nat)
    BY <1>1, <2>1, WrittenFields
  <2> HIDE DEF s
  <2> DEFINE q == [[o EXCEPT !.sent = s] EXCEPT !.at = at, !.answered = TRUE]
  <2>3. /\ q \in Request /\ q.at = at /\ q.sent = s /\ q.wrote = o.wrote /\ q.answered = TRUE
    BY <1>1, <2>2 DEF Request
  <2>4. Becomes(r, q)
    BY <1>6, <2>2
  <2> HIDE DEF q, o
  <2>5. Fits(q, MiddlewareCode)
    BY <2>3 DEF Fits
  <2>6. Sound(q)
    BY <1>1, <1>3, <2>1, <2>3, <2>5, WritesSound DEF s
  <2> QED
    BY <2>3, <2>4, <2>6 DEF Goes
<1>7. CASE Arrive(r)
  <2>1. PICK p \in routes : Becomes(r, [o EXCEPT !.at = "outer", !.route = p])
    BY <1>7 DEF Arrive
  <2> DEFINE q == [o EXCEPT !.at = "outer", !.route = p]
  <2>2. /\ q \in Request /\ q.at = "outer" /\ q.err = o.err /\ q.sent = o.sent
        /\ q.cause = o.cause /\ q.wrote = o.wrote /\ q.answered = o.answered
    BY <1>1 DEF Request, IInv, TypeOK
  <2>3. Becomes(r, q) /\ o.at = "new"
    BY <1>7, <2>1 DEF Arrive
  <2> HIDE DEF q, o
  <2>4. Sound(q)
    BY <1>1, <1>3, <2>2, <2>3, MovesSound DEF Unanswered, Early
  <2> QED
    BY <2>2, <2>3, <2>4 DEF Goes
<1>8. CASE OuterMiddleware(r)
  BY <1>4, <1>5, <1>6, <1>8 DEF OuterMiddleware
<1>9. CASE InnerMiddleware(r)
  <2>1. {"StatusCoder"} \in SUBSET Kinds
    BY DEF Kinds
  <2> QED
    BY <1>4, <1>5, <1>6, <1>9, <2>1 DEF InnerMiddleware
<1>10. CASE Bind(r)
  <2>1. {"ErrBadRequest"} \in SUBSET Kinds
    BY DEF Kinds
  <2> QED
    BY <1>4, <1>5, <1>10, <2>1 DEF Bind
<1>11. CASE HandlerSucceeds(r)
  <2> DEFINE q == [o EXCEPT !.at = "replying", !.ran = TRUE]
  <2>1. /\ q \in Request /\ q.at = "replying" /\ q.err = o.err /\ q.sent = o.sent
        /\ q.cause = o.cause /\ q.wrote = o.wrote /\ q.answered = o.answered
    BY <1>1 DEF Request
  <2>2. Becomes(r, q)
    BY <1>11 DEF HandlerSucceeds
  <2> HIDE DEF q, o
  <2>3. Sound(q)
    BY <1>1, <1>3, <2>1, MovesSound DEF Unanswered, Early
  <2> QED
    BY <2>1, <2>2, <2>3 DEF Goes
<1> QED
  BY <1>7, <1>8, <1>9, <1>10, <1>11

\* The validator's error for what is not a struct is the one left out.
LEMMA ValidateStep ==
    ASSUME IInv, NEW r \in Requests, Validate(r)
    PROVE  \E q : Goes(r, q)
<1> DEFINE o == req[r]
<1>1. o \in Request /\ Sound(o) /\ o.at = "validating" /\ o.at \in Unanswered /\ TypeOK
  BY DEF IInv, TypeOK, RequestInv, Validate, Unanswered, Early
<1>2. CASE Becomes(r, [o EXCEPT !.at = "handling"])
  <2> DEFINE q == [o EXCEPT !.at = "handling"]
  <2>1. /\ q \in Request /\ q.at = "handling" /\ q.err = o.err /\ q.sent = o.sent
        /\ q.cause = o.cause /\ q.wrote = o.wrote /\ q.answered = o.answered
    BY <1>1 DEF Request
  <2> HIDE DEF q
  <2>2. Sound(q)
    BY <1>1, <2>1, MovesSound DEF Unanswered, Early
  <2>3. Becomes(r, q)
    BY <1>2 DEF q
  <2> QED
    BY <2>1, <2>2, <2>3 DEF Goes
<1>3. ASSUME NEW e \in Invalidities, NEW a \in ErrorResponses(o, e),
             Becomes(r, [a EXCEPT !.invalid = TRUE])
      PROVE  \E q : Goes(r, q)
  <2>1. e \in SUBSET Kinds
    BY DEF Invalidities, Kinds
  <2>2. a \in Request /\ a.at = "back" /\ a.cause = e
    BY <1>1, <2>1, ErrorResponseFields
  <2> DEFINE q == [a EXCEPT !.invalid = TRUE]
  <2>3. /\ q \in Request /\ q.at = a.at /\ q.sent = a.sent /\ q.err = a.err
        /\ q.cause = a.cause /\ q.wrote = a.wrote /\ q.answered = a.answered /\ q.invalid = TRUE
    BY <2>2 DEF Request
  <2>4. Becomes(r, q)
    BY <1>3
  <2> HIDE DEF q, o
  <2>5. Ordinary(q) => Handled(e)
    <3>1. Ordinary(q) => e # {}
      BY <2>2, <2>3 DEF Ordinary
    <3>2. ASSUME e = {"ValidationError"} PROVE 7 \in BuiltInFor(e)
      BY <3>2 DEF BuiltInFor, BuiltIn
    <3>3. e # {} => 7 \in BuiltInFor(e)
      BY <3>2 DEF Invalidities
    <3> QED
      BY <3>1, <3>3 DEF Handled
  <2>6. Sound(q)
    BY <1>1, <2>1, <2>3, <2>5, ErrorResponseSound
  <2> QED
    BY <2>2, <2>3, <2>4, <2>6 DEF Goes
<1> QED
  BY <1>2, <1>3 DEF Validate

LEMMA HandlerStep ==
    ASSUME IInv, NEW r \in Requests, HandlerWrites(r) \/ HandlerFails(r)
    PROVE  \E q : Goes(r, q)
<1> DEFINE o == req[r]
<1> USE HttpAssumption
<1>1. o \in Request /\ Sound(o) /\ o.at = "handling" /\ o.at \in Unanswered /\ TypeOK
  BY DEF IInv, TypeOK, RequestInv, HandlerWrites, HandlerFails, Unanswered, Early
<1>2. CASE HandlerWrites(r)
  <2> DEFINE s == Append(o.sent, Success)
  <2>1. Written(o, Success) = [o EXCEPT !.sent = s] /\ s \in Seq(Nat)
    <3>1. Success \in Nat
      BY DEF Success
    <3> QED
      BY <1>1, <3>1, WrittenFields, Zenon
  <2> HIDE DEF s
  <2> DEFINE q == [[o EXCEPT !.sent = s] EXCEPT !.ran = TRUE, !.wrote = TRUE]
  <2>2. /\ q \in Request /\ q.at = "handling" /\ q.wrote = TRUE /\ q.err = o.err
        /\ q.cause = o.cause /\ q.answered = o.answered
    BY <1>1, <2>1 DEF Request
  <2>3. Becomes(r, q)
    BY <1>2, <2>1 DEF HandlerWrites
  <2> HIDE DEF q, o
  <2>4. Sound(q)
    BY <1>1, <2>2 DEF Sound, Unanswered, Early
  <2> QED
    BY <2>2, <2>3, <2>4 DEF Goes
<1>3. ASSUME NEW e \in Errors, Handled(e), NEW a \in ErrorResponses(o, e),
             Becomes(r, [a EXCEPT !.ran = TRUE])
      PROVE  \E q : Goes(r, q)
  <2>1. e \in SUBSET Kinds
    OBVIOUS
  <2>2. a \in Request /\ a.at = "back"
    BY <1>1, <2>1, ErrorResponseFields
  <2> DEFINE q == [a EXCEPT !.ran = TRUE]
  <2>3. /\ q \in Request /\ q.at = a.at /\ q.sent = a.sent /\ q.err = a.err
        /\ q.cause = a.cause /\ q.wrote = a.wrote /\ q.answered = a.answered
    BY <2>2 DEF Request
  <2>4. Becomes(r, q)
    BY <1>3
  <2> HIDE DEF q, o
  <2>5. Sound(q)
    BY <1>1, <1>3, <2>1, <2>3, ErrorResponseSound
  <2> QED
    BY <2>2, <2>3, <2>4, <2>5 DEF Goes
<1>4. ASSUME NEW e \in Errors, Becomes(r, [Failed(o, "back", e) EXCEPT !.ran = TRUE])
      PROVE  \E q : Goes(r, q)
  <2> DEFINE a == Failed(o, "back", e)
  <2>1. /\ a \in Request /\ a.at = "back" /\ a.err = e /\ a.sent = o.sent
        /\ a.cause = IF o.cause = NoError THEN e ELSE o.cause
        /\ a.wrote = o.wrote /\ a.answered = o.answered
    BY <1>1, FailedFields
  <2> HIDE DEF a
  <2> DEFINE q == [a EXCEPT !.ran = TRUE]
  <2>2. /\ q \in Request /\ q.at = "back" /\ q.sent = a.sent /\ q.err = a.err
        /\ q.cause = a.cause /\ q.wrote = a.wrote /\ q.answered = a.answered
    BY <2>1 DEF Request
  <2>3. Becomes(r, q)
    BY <1>4 DEF a
  <2> HIDE DEF q, o
  <2>4. Sound(q)
    <3>1. o.cause = NoError
      BY <1>1 DEF Sound
    <3> QED
      BY <1>1, <2>1, <2>2, <3>1, FailsSound
  <2> QED
    BY <2>2, <2>3, <2>4 DEF Goes
<1>5. CASE HandlerFails(r)
  BY <1>3, <1>4, <1>5 DEF HandlerFails
<1> QED
  BY <1>2, <1>5

LEMMA ReplyStep ==
    ASSUME IInv, NEW r \in Requests, Reply(r)
    PROVE  \E q : Goes(r, q)
<1> DEFINE o == req[r]
<1>1. o \in Request /\ Sound(o) /\ o.at \in Unanswered
  BY DEF IInv, TypeOK, RequestInv, Reply, Unanswered, Early
<1>2. Success \in Nat /\ {} \in SUBSET Kinds /\ o.cause = NoError /\ o.answered = FALSE
  BY <1>1 DEF Success, Sound
<1>3. PICK b \in BOOLEAN : \E q \in Responses(o, Success, b) : Becomes(r, q)
  BY DEF Reply
<1>4. PICK q \in Responses(o, Success, b) : Becomes(r, q)
  BY <1>3
<1> HIDE DEF o
<1>5. CASE b
  <2>1. PICK x \in (SUBSET Kinds) \cup {NoError} : q = Responded(o, Success, x)
    BY <1>4, <1>5 DEF Responses
  <2>2. /\ q \in Request /\ q.at = "back" /\ q.sent = Append(o.sent, Success)
        /\ q.cause = o.cause /\ q.wrote = o.wrote /\ q.answered = o.answered
    BY <1>1, <1>2, <2>1, RespondedFields
  <2>3. Fits(q, Success)
    BY <1>2, <2>2 DEF Fits
  <2>4. Sound(q)
    BY <1>1, <1>2, <2>2, <2>3, WritesSound
  <2> QED
    BY <1>4, <2>2, <2>4 DEF Goes
<1>6. CASE ~ b
  <2>1. q = Failed(o, "back", {})
    BY <1>4, <1>6 DEF Responses
  <2>2. /\ q \in Request /\ q.at = "back" /\ q.err = {} /\ q.sent = o.sent
        /\ q.cause = {} /\ q.wrote = o.wrote /\ q.answered = o.answered
    BY <1>1, <1>2, <2>1, FailedFields
  <2>3. Sound(q)
    BY <1>1, <1>2, <2>2, FailsSound
  <2> QED
    BY <1>4, <2>2, <2>3 DEF Goes
<1> QED
  BY <1>5, <1>6

\* Behind the response.
LEMMA LateStep ==
    ASSUME IInv, NEW r \in Requests, MiddlewareFailsLate(r) \/ LoggerReturns(r) \/ Finish(r)
    PROVE  \E q : Goes(r, q)
<1> DEFINE o == req[r]
<1> DEFINE h == HandleError(o)
<1> USE HttpAssumption
<1>1. o \in Request /\ Sound(o) /\ TypeOK /\ o.at \in {"back", "leaving"}
  BY DEF IInv, TypeOK, RequestInv, MiddlewareFailsLate, LoggerReturns, Finish
<1>2. /\ Ordinary(o) => Owed(o) \/ (o.sent # <<>> /\ Fits(o, o.sent[1]))
      /\ o.wrote = FALSE => Len(o.sent) <= 1
  BY <1>1 DEF Sound, Unanswered, Early
<1>3. /\ h \in Request /\ h.cause = o.cause /\ h.wrote = o.wrote
      /\ h.invalid = o.invalid /\ h.answered = o.answered
      /\ h.wrote = FALSE => Len(h.sent) <= 1
      /\ Ordinary(h) =>
            \/ h.sent # <<>> /\ Fits(h, h.sent[1])
            \/ /\ h.sent = <<>> /\ h.answered = FALSE /\ h.logged = TRUE
               /\ h.cause \in SUBSET Kinds /\ ~ Encodable(h.cause)
  BY <1>1, HandleErrorFields
\* A request that is behind its stages, with everything but its error as before.
<1>4. ASSUME NEW a \in Request, NEW q \in Request, q.at \in {"back", "leaving", "done"},
             q.sent = a.sent, q.cause = a.cause, q.wrote = a.wrote, q.invalid = a.invalid,
             q.answered = a.answered, q.logged = a.logged,
             a.wrote = FALSE => Len(a.sent) <= 1, q.at = "done" => a.sent # <<>>,
             Ordinary(a) => Owed(q) \/ (a.sent # <<>> /\ Fits(a, a.sent[1]))
      PROVE  Sound(q)
  <2>1. Ordinary(q) => Ordinary(a)
    BY <1>4 DEF Ordinary
  <2>2. Fits(a, a.sent[1]) => Fits(q, q.sent[1])
    BY <1>4 DEF Fits
  <2>3. q.at \notin Unanswered /\ q.at \notin Early
    BY <1>4 DEF Unanswered, Early
  <2>4. /\ q.wrote = FALSE => Len(q.sent) <= 1
        /\ q.at = "done" => q.sent # <<>>
    BY <1>4
  <2>5. Ordinary(q) => Owed(q) \/ (q.sent # <<>> /\ Fits(q, q.sent[1]))
    BY <1>4, <2>1, <2>2
  <2> QED
    BY <2>3, <2>4, <2>5, Zenon DEF Sound
<1>5. CASE MiddlewareFailsLate(r)
  <2>1. PICK e \in Errors : Becomes(r, [o EXCEPT !.err = e])
    BY <1>5 DEF MiddlewareFailsLate
  <2>2. o.sent # <<>> /\ ~ Owed(o)
    BY <1>5 DEF MiddlewareFailsLate, Owed
  <2> DEFINE q == [o EXCEPT !.err = e]
  <2>3. /\ q \in Request /\ q.at = o.at /\ q.sent = o.sent /\ q.cause = o.cause
        /\ q.wrote = o.wrote /\ q.invalid = o.invalid /\ q.answered = o.answered
        /\ q.logged = o.logged
    BY <1>1 DEF Request
  <2>4. Becomes(r, q)
    BY <2>1
  <2> HIDE DEF q, o, h
  <2>5. Sound(q)
    BY <1>1, <1>2, <1>4, <2>2, <2>3
  <2> QED
    BY <1>1, <2>3, <2>4, <2>5 DEF Goes
<1>6. CASE LoggerReturns(r) /\ logger
  <2>1. Becomes(r, [h EXCEPT !.at = "leaving", !.err = NoError])
    BY <1>6 DEF LoggerReturns
  <2> HIDE DEF h, o
  <2> DEFINE q == [h EXCEPT !.at = "leaving", !.err = NoError]
  <2>2. /\ q \in Request /\ q.at = "leaving" /\ q.sent = h.sent /\ q.cause = h.cause
        /\ q.wrote = h.wrote /\ q.invalid = h.invalid /\ q.answered = h.answered
        /\ q.logged = h.logged /\ q.err = NoError
    BY <1>3 DEF Request
  <2>3. Becomes(r, q)
    BY <2>1
  <2> HIDE DEF q
  <2>4. Ordinary(h) => Owed(q) \/ (h.sent # <<>> /\ Fits(h, h.sent[1]))
    BY <1>3, <2>2 DEF Owed
  <2>5. Sound(q)
    BY <1>3, <1>4, <2>2, <2>4
  <2> QED
    BY <2>2, <2>3, <2>5 DEF Goes
<1>7. CASE LoggerReturns(r) /\ ~ logger
  <2>1. Becomes(r, [o EXCEPT !.at = "leaving"])
    BY <1>7 DEF LoggerReturns
  <2> DEFINE q == [o EXCEPT !.at = "leaving"]
  <2>2. /\ q \in Request /\ q.at = "leaving" /\ q.sent = o.sent /\ q.cause = o.cause
        /\ q.wrote = o.wrote /\ q.invalid = o.invalid /\ q.answered = o.answered
        /\ q.logged = o.logged /\ q.err = o.err
    BY <1>1 DEF Request
  <2>3. Becomes(r, q)
    BY <2>1
  <2> HIDE DEF q, o, h
  <2>4. Owed(o) => Owed(q)
    BY <2>2 DEF Owed
  <2>5. Sound(q)
    BY <1>1, <1>2, <1>4, <2>2, <2>4
  <2> QED
    BY <2>2, <2>3, <2>5 DEF Goes
<1>8. CASE Finish(r)
  <2> DEFINE w == IF h.sent = <<>> THEN Written(h, 200) ELSE h
  <2>1. Becomes(r, [w EXCEPT !.at = "done"])
    BY <1>8 DEF Finish
  <2> HIDE DEF h, o
  <2>2. /\ w \in Request /\ w.sent # <<>> /\ (w.wrote = FALSE => Len(w.sent) <= 1)
        /\ Ordinary(w) => Fits(w, w.sent[1])
    <3>1. CASE h.sent # <<>>
      BY <1>3, <3>1
    <3>2. CASE h.sent = <<>>
      <4> DEFINE s == Append(h.sent, 200)
      <4>8. w = Written(h, 200) /\ h \in Request /\ 200 \in Nat
        BY <1>3, <3>2
      <4>1. w = [h EXCEPT !.sent = s] /\ s \in Seq(Nat)
        BY <4>8, WrittenFields, Zenon
      <4>2. s # <<>> /\ s[1] = 200 /\ Len(s) = 1
        BY <1>3, <3>2, WrittenFields
      <4> HIDE DEF s, w
      <4>3. /\ w \in Request /\ w.sent = s /\ w.cause = h.cause /\ w.wrote = h.wrote
            /\ w.invalid = h.invalid /\ w.answered = h.answered /\ w.logged = h.logged
        BY <1>3, <4>1 DEF Request
      <4>4. Ordinary(w) => Ordinary(h)
        BY <4>3 DEF Ordinary
      <4>5. Ordinary(w) => Fits(w, 200)
        BY <1>3, <3>2, <4>3, <4>4, KindsAreErrors DEF Fits
      <4>6. w.sent # <<>> /\ w.sent[1] = 200
        BY <4>2, <4>3
      <4>7. Len(w.sent) <= 1
        <5>1. Len(s) <= 1
          BY <4>2
        <5> QED
          BY <4>3, <5>1
      <4> QED
        BY <4>3, <4>5, <4>6, <4>7
    <3> QED
      BY <3>1, <3>2
  <2> HIDE DEF w
  <2> DEFINE q == [w EXCEPT !.at = "done"]
  <2>3. /\ q \in Request /\ q.at = "done" /\ q.sent = w.sent /\ q.cause = w.cause
        /\ q.wrote = w.wrote /\ q.invalid = w.invalid /\ q.answered = w.answered
        /\ q.logged = w.logged
    BY <2>2 DEF Request
  <2>4. Becomes(r, q)
    BY <2>1
  <2> HIDE DEF q
  <2>5. Sound(q)
    BY <1>4, <2>2, <2>3
  <2> QED
    BY <2>3, <2>4, <2>5 DEF Goes
<1> QED
  BY <1>5, <1>6, <1>7, <1>8

\* What fits an error depends on the error handlers.
LEMMA SoundWhileUnchanged == RequestInv /\ UNCHANGED <<handleErrors, req>> => RequestInv'
BY DEF RequestInv, Sound, Ordinary, Fits, Documented, Encodable, HandlersFor, Owed

\* A request on its way stays one that is typed and sound, and leaves the rest
\* of the server as it is.
LEMMA RequestStep ==
    ASSUME IInv, NEW r \in Requests, Arrive(r) \/ Serve(r)
    PROVE  IInv'
<1>1. PICK q : Goes(r, q)
  BY EarlyStep, ValidateStep, HandlerStep, ReplyStep, LateStep DEF Serve
<1>2. /\ req' = [req EXCEPT ![r] = q] /\ UNCHANGED <<setup, life>>
      /\ q \in Request /\ Sound(q) /\ q.at # "new"
  BY <1>1 DEF Goes, Becomes
<1>3. start = "serving" \/ req[r].at \notin {"new", "done"}
  BY DEF Arrive, Serve, OuterMiddleware, InnerMiddleware, MiddlewareFailsLate, Bind, Validate,
         HandlerWrites, HandlerSucceeds, HandlerFails, Reply, LoggerReturns, Finish
<1>4. req' \in [Requests -> Request]
  BY <1>2 DEF IInv, TypeOK
<1>5. TypeOK'
  BY <1>2, <1>4, Zenon DEF IInv, TypeOK, setup, life
<1>6. RequestInv'
  <2>1. handleErrors' = handleErrors
    BY <1>2 DEF setup
  <2>2. \A x \in Requests : Sound(req'[x])
    BY <1>2 DEF IInv, TypeOK, RequestInv
  <2> QED
    BY <2>1, <2>2 DEF RequestInv, Sound, Ordinary, Fits, Documented, Encodable, HandlersFor, Owed
<1>7. start = "returned" => graceOver
  BY <1>3 DEF IInv, StopInv, InFlight
<1>8. start \notin {"idle", "begun", "armed"}
  BY <1>3 DEF IInv, StopInv
<1>9. StopInv'
  BY <1>2, <1>7, <1>8 DEF IInv, StopInv, setup, life
<1> QED
  BY <1>5, <1>6, <1>9 DEF IInv

----------------------------------------------------------------------------
(* The other steps.                                                          *)

LEMMA InitIInv == Init => IInv
<1> SUFFICES ASSUME Init PROVE IInv
  OBVIOUS
<1> USE HttpAssumption
<1>1. Fresh \in Request /\ Sound(Fresh)
  BY DEF Fresh, Request, Sound, Unanswered, Early
<1>2. logger \in BOOLEAN /\ ended \in BOOLEAN /\ graceOver \in BOOLEAN
  BY Zenon DEF Init
<1>3. TypeOK
  <2>1. /\ handleErrors \in Seq(ErrorHandlers)
        /\ req \in [Requests -> Request]
        /\ stop \in [Stoppers -> {"idle", "nothing", "waiting", "stopped", "error"}]
        /\ seen \in [Stoppers -> {"nil", "made"}]
    BY <1>1 DEF Init
  <2>2. cancel = (start \in {"armed", "serving", "returned"})
    <3>1. start = "idle" /\ ~ (start \in {"armed", "serving", "returned"})
      BY DEF Init
    <3>2. cancel = FALSE
      BY Zenon DEF Init
    <3>3. (start \in {"armed", "serving", "returned"}) = FALSE
      BY <3>1
    <3> QED
      BY <3>2, <3>3
  <2>3. start = "idle" /\ done = "nil" /\ routes = {} /\ spec = {} /\ schema = {}
    BY DEF Init
  <2> QED
    BY <1>2, <2>1, <2>2, <2>3 DEF TypeOK
<1>4. RequestInv
  BY <1>1 DEF Init, RequestInv
<1>5. StopInv
  BY DEF Init, StopInv, Fresh
<1> QED
  BY <1>3, <1>4, <1>5 DEF IInv

LEMMA SetupStep ==
    ASSUME IInv, (\E f \in ErrorHandlers : HandleErrors(f)) \/ (\E p \in Routes : Register(p))
    PROVE  IInv'
<1>1. UNCHANGED <<life, req, logger>>
  BY DEF HandleErrors, Register
<1>2. handleErrors' \in Seq(ErrorHandlers)
  BY DEF HandleErrors, Register, IInv, TypeOK
<1>3. routes' \subseteq Routes /\ spec' \subseteq Routes
  BY DEF HandleErrors, Register, BuildSchema, IInv, TypeOK
<1>4. TypeOK'
  BY <1>1, <1>2, <1>3, Zenon DEF IInv, TypeOK, life
<1>5. RequestInv'
  <2>1. CASE \E f \in ErrorHandlers : HandleErrors(f)
    <3>1. \A r \in Requests : req[r].at = "new" /\ req'[r] = req[r]
      BY <1>1, <2>1 DEF HandleErrors, IInv, StopInv
    <3> QED
      BY <3>1 DEF IInv, RequestInv, Sound, Unanswered, Early
  <2>2. CASE \E p \in Routes : Register(p)
    BY <1>1, <2>2, SoundWhileUnchanged DEF Register, IInv
  <2> QED
    BY <2>1, <2>2
<1>6. StopInv'
  BY <1>1 DEF IInv, StopInv, InFlight, life
<1> QED
  BY <1>4, <1>5, <1>6 DEF IInv

LEMMA StartStep ==
    ASSUME IInv, StartFailsToMarshal \/ StartMarshals \/ StartSetsCancel \/ StartServes \/ StartReturns \/ StartFails
    PROVE  IInv'
<1>1. UNCHANGED <<setup, req, ended, stop, seen, graceOver>>
  BY DEF StartFailsToMarshal, StartMarshals, StartSetsCancel, StartServes, StartReturns, StartFails
<1>2. /\ schema' \subseteq Routes
      /\ start' \in {"refused", "begun", "armed", "serving", "returned"}
  BY DEF StartFailsToMarshal, StartMarshals, StartSetsCancel, StartServes, StartReturns, StartFails, IInv, TypeOK
<1>3. cancel' = (start' \in {"armed", "serving", "returned"})
  <2>1. cancel = (start \in {"armed", "serving", "returned"})
    BY DEF IInv, TypeOK
  <2>2. CASE StartFailsToMarshal \/ StartMarshals
    BY <2>1, <2>2 DEF StartFailsToMarshal, StartMarshals
  <2>3. CASE StartSetsCancel
    BY <2>3 DEF StartSetsCancel
  <2>4. CASE StartServes \/ StartReturns \/ StartFails
    BY <2>1, <2>4 DEF StartServes, StartReturns, StartFails
  <2> QED
    BY <2>2, <2>3, <2>4
<1>4. done' = CASE start' = "serving" -> "open" [] start' = "returned" -> "closed" [] OTHER -> "nil"
  BY DEF StartFailsToMarshal, StartMarshals, StartSetsCancel, StartServes, StartReturns, StartFails, IInv, TypeOK
<1>5. TypeOK'
  BY <1>1, <1>2, <1>3, <1>4 DEF IInv, TypeOK, setup
<1>6. RequestInv'
  BY <1>1, SoundWhileUnchanged DEF IInv, setup
<1>7. StopInv'
  <2>1. start \in {"idle", "begun", "armed", "serving"}
    BY DEF StartFailsToMarshal, StartMarshals, StartSetsCancel, StartServes, StartReturns, StartFails
  <2>2. start' = "returned" => InFlight = {} \/ graceOver
    BY DEF StartFailsToMarshal, StartMarshals, StartSetsCancel, StartServes, StartReturns, StartFails
  <2>3. start' \in {"refused", "begun", "armed"} => start \in {"idle", "begun"}
    BY DEF StartFailsToMarshal, StartMarshals, StartSetsCancel, StartServes, StartReturns, StartFails
  <2> QED
    BY <1>1, <1>2, <2>1, <2>2, <2>3 DEF IInv, StopInv, InFlight
<1> QED
  BY <1>5, <1>6, <1>7 DEF IInv

LEMMA StopStep ==
    ASSUME IInv, ContextEnds \/ GraceEnds
             \/ \E s \in Stoppers : StopTooEarly(s) \/ StopCalled(s) \/ StopReturns(s) \/ StopGivesUp(s)
    PROVE  IInv'
<1>1. UNCHANGED <<setup, req, schema, start, cancel, done>>
  BY DEF ContextEnds, GraceEnds, StopTooEarly, StopCalled, StopReturns, StopGivesUp
<1>2. /\ stop' \in [Stoppers -> {"idle", "nothing", "waiting", "stopped", "error"}]
      /\ seen' \in [Stoppers -> {"nil", "made"}]
  BY DEF ContextEnds, GraceEnds, StopTooEarly, StopCalled, StopReturns, StopGivesUp, IInv, TypeOK
<1>3. ended' \in BOOLEAN /\ graceOver' \in BOOLEAN
  BY Zenon DEF ContextEnds, GraceEnds, StopTooEarly, StopCalled, StopReturns, StopGivesUp, IInv,
               TypeOK
<1>4. TypeOK'
  BY <1>1, <1>2, <1>3 DEF IInv, TypeOK, setup
<1>5. RequestInv'
  BY <1>1, SoundWhileUnchanged DEF IInv, setup
<1>6. graceOver => graceOver'
  BY DEF ContextEnds, GraceEnds, StopTooEarly, StopCalled, StopReturns, StopGivesUp
<1>7. done = "closed" => start = "returned"
  BY DEF IInv, TypeOK
<1>8. \A s \in Stoppers : stop'[s] = "stopped" => stop[s] = "stopped" \/ done = "closed"
  BY DEF ContextEnds, GraceEnds, StopTooEarly, StopCalled, StopReturns, StopGivesUp, IInv, TypeOK
<1>9. StopInv'
  BY <1>1, <1>6, <1>7, <1>8 DEF IInv, StopInv, InFlight
<1> QED
  BY <1>4, <1>5, <1>9 DEF IInv

LEMMA StepIInv == IInv /\ [Next]_vars => IInv'
<1> SUFFICES ASSUME IInv, [Next]_vars PROVE IInv'
  OBVIOUS
<1>1. CASE UNCHANGED vars
  <2>1. TypeOK'
    BY <1>1, Zenon DEF IInv, TypeOK, vars
  <2>2. RequestInv' /\ StopInv'
    BY <1>1, SoundWhileUnchanged DEF IInv, StopInv, InFlight, vars
  <2> QED
    BY <2>1, <2>2 DEF IInv
<1> QED
  BY <1>1, SetupStep, StartStep, StopStep, RequestStep DEF Next

THEOREM HttpInvariant == Spec => []IInv
BY InitIInv, StepIInv, PTL DEF Spec

\* The server's state is what TypeOK says, and the channel of Start is there
\* exactly while Start is serving (http/http.go 124-127).
THEOREM HttpTyped == Spec => []TypeOK
<1>1. IInv => TypeOK
  BY DEF IInv
<1> QED
  BY <1>1, HttpInvariant, PTL

\* One response to every request that is over, whichever of the three places
\* that write one dealt with it, whatever middleware answers by itself and
\* whatever fails behind the response (http/http.go 241-252, 343-369).
THEOREM RequestsAnsweredOnce == Spec => []AnsweredOnce
<1>1. IInv => AnsweredOnce
  <2> SUFFICES ASSUME IInv, NEW r \in Requests, req[r].at = "done"
               PROVE  Len(req[r].sent) >= 1 /\ (~ req[r].wrote => Len(req[r].sent) = 1)
    BY DEF AnsweredOnce
  <2> DEFINE q == req[r]
  <2>1. q \in Request /\ Sound(q)
    BY DEF IInv, RequestInv, TypeOK
  <2>2. q.sent # <<>> /\ (q.wrote = FALSE => Len(q.sent) <= 1)
    BY <2>1 DEF Sound
  <2>3. q.sent \in Seq(Nat) /\ q.wrote \in BOOLEAN
    BY <2>1 DEF Request
  <2> HIDE DEF q
  <2>4. Len(q.sent) >= 1 /\ (q.wrote = FALSE => Len(q.sent) = 1)
    <3>1. Len(q.sent) \in Nat /\ Len(q.sent) # 0
      BY <2>2, <2>3
    <3>2. ASSUME NEW n \in Nat, n # 0 PROVE n >= 1 /\ (n <= 1 => n = 1)
      BY <3>2
    <3>3. Len(q.sent) >= 1 /\ (Len(q.sent) <= 1 => Len(q.sent) = 1)
      BY <3>1, <3>2
    <3> QED
      BY <2>2, <3>3, Zenon
  <2> QED
    BY <2>3, <2>4, Zenon DEF q
<1> QED
  BY <1>1, HttpInvariant, PTL

\* Whatever errors there are, however the error handlers overlap and whichever
\* of them make bodies that cannot be encoded, a request that is over has the
\* status of the middleware that answered it, its success, or the one that is
\* documented for the first error on its way, as far as it can be written
\* (http/http.go 238-252, 343-369).
THEOREM StatusesAsAsked == Spec => []StatusAsAsked
<1>1. IInv => StatusAsAsked
  <2> SUFFICES ASSUME IInv, NEW r \in Requests, req[r].at = "done", ~ req[r].wrote,
                      ~ (req[r].invalid /\ req[r].cause = {})
               PROVE  LET e == req[r].cause
                          code == req[r].sent[1]
                      IN  IF req[r].answered THEN code = MiddlewareCode
                          ELSE IF e = NoError THEN code = Success
                          ELSE IF Encodable(e) THEN Documented(e, code)
                          ELSE \/ code = 200 /\ req[r].logged
                               \/ Encodable({}) /\ Documented({}, code)
    BY DEF StatusAsAsked
  <2> DEFINE q == req[r]
  <2>1. q \in Request /\ Sound(q)
    BY DEF IInv, RequestInv, TypeOK
  <2>2. /\ q.wrote \in BOOLEAN /\ q.invalid \in BOOLEAN /\ q.answered \in BOOLEAN
        /\ q.logged \in BOOLEAN
    BY <2>1 DEF Request
  <2>3. q.wrote = FALSE /\ (q.invalid = TRUE => q.cause # {})
    BY <2>2, Zenon
  <2>4. Ordinary(q)
    BY <2>3 DEF Ordinary
  <2>5. q.sent # <<>> /\ q.at \notin Unanswered
    BY <2>1 DEF Sound, Unanswered, Early
  <2>6. Fits(q, q.sent[1])
    BY <2>1, <2>4, <2>5 DEF Sound, Owed
  <2> QED
    BY <2>2, <2>6, Zenon DEF Fits
<1> QED
  BY <1>1, HttpInvariant, PTL

\* A Stop that came back without an error leaves no request behind
\* (http/http.go 127-155).
THEOREM StopsDrained == Spec => []StopDrains
<1>1. IInv => StopDrains
  BY DEF IInv, StopInv, StopDrains
<1> QED
  BY <1>1, HttpInvariant, PTL
=============================================================================
