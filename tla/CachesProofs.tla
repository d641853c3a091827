---------------------------- MODULE CachesProofs ----------------------------
(* What Caches promises for any keys, callers, validities and bounds.        *)
EXTENDS Caches, SequenceTheorems, TLAPS

\* The part of the state that what is cached and answered depends on. The list
\* of an LRU cache and the bounds have an invariant of their own below.
CacheTyped ==
    /\ clock \in Nat /\ puts \in Nat
    /\ items \in [CacheKeys -> Entry \cup {NoEntry}]
    /\ call \in [Callers -> Call]

Under(c) == items[call[c].key]

\* A Get that has left its lock holds a copy of an entry. What is under its key
\* by then is that entry, or nothing, or comes from a Put that raced it.
Copied(c) ==
    call[c].at \in {"read", "expire"} =>
        /\ call[c].item \in Entry
        /\ call[c].item.put <= puts
        /\ Under(c) \in {NoEntry, call[c].item} \/ Under(c).put \in raced

Judged(c) ==
    /\ call[c].at = "read" => call[c].began <= clock /\ call[c].hit = FALSE
    /\ call[c].at = "expire" => call[c].item.expires < clock /\ call[c].hit = FALSE
    /\ call[c].at = "add" => call[c].hit = FALSE
    /\ call[c].hit = TRUE /\ cacheKind # "lru" => call[c].began <= call[c].item.expires

CacheInv ==
    /\ CacheTyped
    /\ \A k \in CacheKeys : items[k] # NoEntry => items[k].put <= puts
    /\ \A c \in Callers : Copied(c) /\ Judged(c)
    /\ lost \subseteq raced

LEMMA EntryIsNone == NoEntry \notin Entry
BY CacheAssumption DEF Entry

LEMMA EntryFields ==
    ASSUME NEW e \in Entry
    PROVE  e # NoEntry /\ e.put \in Nat /\ e.expires \in Nat
BY EntryIsNone DEF Entry

----------------------------------------------------------------------------
LEMMA CacheInvInit == CacheInit => CacheInv
<1> SUFFICES ASSUME CacheInit PROVE CacheInv
  OBVIOUS
<1>1. (CHOOSE k \in CacheKeys : TRUE) \in CacheKeys
  BY CacheAssumption
<1>2. call \in [Callers -> Call]
  BY <1>1 DEF CacheInit, Call
<1>3. \A c \in Callers : call[c].at = "idle" /\ call[c].hit = FALSE
  BY DEF CacheInit
<1> QED
  BY <1>2, <1>3 DEF CacheInit, CacheInv, CacheTyped, Copied, Judged

LEMMA TickInv == CacheInv /\ Tick => CacheInv'
<1> SUFFICES ASSUME CacheInv, Tick PROVE CacheInv'
  OBVIOUS
<1>1. CacheTyped'
  BY DEF CacheInv, CacheTyped, Tick
<1>2. ASSUME NEW c \in Callers PROVE Copied(c)' /\ Judged(c)'
  <2>1. Copied(c) /\ Judged(c) /\ call[c] \in Call /\ clock \in Nat
    BY DEF CacheInv, CacheTyped
  <2>2. Copied(c)'
    BY <2>1 DEF Copied, Under, Tick
  <2>3. call[c].began \in Nat
    BY <2>1 DEF Call
  <2>4. call[c].at = "expire" => call[c].item.expires \in Nat
    BY <2>1, EntryFields DEF Copied
  <2>5. Judged(c)'
    BY <2>1, <2>3, <2>4 DEF Judged, Tick
  <2> QED
    BY <2>2, <2>5
<1> QED
  BY <1>1, <1>2 DEF CacheInv, Tick

\* A caller that goes from one place to another leaves what is cached alone.
LEMMA CallMoves ==
    ASSUME CacheInv, NEW c \in Callers, NEW q \in Call, call' = [call EXCEPT ![c] = q],
           UNCHANGED <<cacheKind, clock, items, puts, raced, lost>>,
           Copied(c)', Judged(c)'
    PROVE  CacheInv'
<1>1. CacheTyped'
  BY DEF CacheInv, CacheTyped
<1>2. ASSUME NEW d \in Callers, d # c PROVE Copied(d)' /\ Judged(d)'
  <2>1. call'[d] = call[d]
    BY <1>2 DEF CacheInv, CacheTyped
  <2>2. Copied(d) /\ Judged(d)
    BY DEF CacheInv
  <2> QED
    BY <2>1, <2>2 DEF Copied, Judged, Under
<1> QED
  BY <1>1, <1>2 DEF CacheInv

LEMMA GetReadInv ==
    ASSUME CacheInv, NEW c \in Callers, NEW k \in CacheKeys, GetRead(c, k)
    PROVE  CacheInv'
<1> DEFINE q == [at |-> IF items[k] = NoEntry \/ cacheKind = "lru" THEN "idle" ELSE "read",
                 key |-> k, item |-> items[k], began |-> clock,
                 hit |-> items[k] # NoEntry /\ cacheKind = "lru"]
<1>1. items[k] \in Entry \cup {NoEntry} /\ clock \in Nat
  BY DEF CacheInv, CacheTyped
<1>2. q.hit \in BOOLEAN /\ q.at \in {"idle", "read"} /\ q.item = items[k] /\ q.began = clock
      /\ q.key = k
  OBVIOUS
<1>3. q.at = "read" => items[k] # NoEntry /\ cacheKind # "lru"
  OBVIOUS
<1>4. cacheKind # "lru" => q.hit = FALSE
  OBVIOUS
<1>5. q \in Call
  BY <1>1 DEF Call
<1>6. call' = [call EXCEPT ![c] = q] /\ UNCHANGED <<cacheKind, clock, items, puts, raced, lost>>
  BY DEF GetRead
<1> HIDE DEF q
<1>7. call'[c] = q
  BY <1>6 DEF CacheInv, CacheTyped
<1>8. items[k] # NoEntry => items[k].put <= puts
  BY DEF CacheInv
<1>9. Copied(c)'
  BY <1>1, <1>2, <1>3, <1>6, <1>7, <1>8 DEF Copied, Under
<1>10. Judged(c)'
  BY <1>1, <1>2, <1>3, <1>4, <1>6, <1>7 DEF Judged
<1> QED
  BY <1>5, <1>6, <1>9, <1>10, CallMoves

LEMMA GetJudgeInv ==
    ASSUME CacheInv, NEW c \in Callers, GetJudge(c)
    PROVE  CacheInv'
<1> DEFINE o == call[c]
<1> DEFINE q == [o EXCEPT !.at = IF o.item.expires < clock THEN "expire" ELSE "idle",
                          !.hit = ~ (o.item.expires < clock)]
<1>1. o \in Call /\ o.at = "read" /\ Copied(c) /\ Judged(c) /\ clock \in Nat
  BY DEF CacheInv, CacheTyped, GetJudge
<1>2. o.item \in Entry /\ o.item.expires \in Nat /\ o.began \in Nat /\ o.began <= clock
  BY <1>1, EntryFields DEF Copied, Judged, Call
<1>3. call' = [call EXCEPT ![c] = q] /\ UNCHANGED <<cacheKind, clock, items, puts, raced, lost>>
  BY DEF GetJudge, CacheInv, CacheTyped, Call
<1>4. q \in Call /\ q.key = o.key /\ q.item = o.item /\ q.began = o.began
  BY <1>1 DEF Call
<1>5. CASE o.item.expires < clock
  <2>1. q.at = "expire" /\ q.hit = FALSE
    BY <1>1, <1>5 DEF Call
  <2> HIDE DEF q
  <2>2. call'[c] = q
    BY <1>3 DEF CacheInv, CacheTyped
  <2>3. Copied(c)'
    BY <1>1, <1>3, <1>4, <2>2 DEF Copied, Under
  <2>4. Judged(c)'
    BY <1>3, <1>4, <1>5, <2>1, <2>2 DEF Judged
  <2> QED
    BY <1>3, <1>4, <2>3, <2>4, CallMoves
<1>6. CASE ~ (o.item.expires < clock)
  <2>1. q.at = "idle" /\ o.began <= o.item.expires
    BY <1>1, <1>2, <1>6 DEF Call
  <2> HIDE DEF q
  <2>2. call'[c] = q
    BY <1>3 DEF CacheInv, CacheTyped
  <2>3. Copied(c)'
    BY <2>1, <2>2 DEF Copied
  <2>4. Judged(c)'
    BY <1>3, <1>4, <2>1, <2>2 DEF Judged
  <2> QED
    BY <1>3, <1>4, <2>3, <2>4, CallMoves
<1> QED
  BY <1>5, <1>6

\* What is cached under a key goes away: no copy is contradicted by that.
LEMMA CopiesStand ==
    ASSUME CacheInv, NEW d \in Callers, call'[d] = call[d],
           UNCHANGED <<cacheKind, clock, puts, raced>>,
           \A x \in CacheKeys : items'[x] \in {items[x], NoEntry}
    PROVE  Copied(d)' /\ Judged(d)'
<1>1. Copied(d) /\ Judged(d) /\ call[d].key \in CacheKeys
  BY DEF CacheInv, CacheTyped, Call
<1>2. items'[call[d].key] \in {items[call[d].key], NoEntry}
  BY <1>1
<1>3. Judged(d)'
  BY <1>1 DEF Judged
<1>4. Copied(d)'
  BY <1>1, <1>2 DEF Copied, Under
<1> QED
  BY <1>3, <1>4

LEMMA GetExpireInv ==
    ASSUME CacheInv, NEW c \in Callers, GetExpire(c)
    PROVE  CacheInv'
<1> DEFINE k == call[c].key
<1> DEFINE q == [call[c] EXCEPT !.at = "idle"]
<1>1. call[c] \in Call /\ k \in CacheKeys /\ call[c].at = "expire" /\ Copied(c) /\ Judged(c)
  BY DEF CacheInv, CacheTyped, Call, GetExpire
<1>2. items' = [items EXCEPT ![k] = NoEntry] /\ call' = [call EXCEPT ![c] = q]
      /\ UNCHANGED <<cacheKind, clock, puts, raced>>
  BY DEF GetExpire, Removed, CacheInv, CacheTyped, Call
<1>3. q \in Call /\ q.at = "idle" /\ q.hit = FALSE
  BY <1>1 DEF Call, Judged
<1> HIDE DEF q
<1>4. CacheTyped'
  BY <1>2, <1>3 DEF CacheInv, CacheTyped
<1>5. \A x \in CacheKeys : items'[x] \in {items[x], NoEntry}
  BY <1>2 DEF CacheInv, CacheTyped
<1>6. ASSUME NEW d \in Callers PROVE Copied(d)' /\ Judged(d)'
  <2>1. CASE d = c
    <3>1. call'[d] = q
      BY <1>2, <2>1 DEF CacheInv, CacheTyped
    <3> QED
      BY <1>3, <3>1 DEF Copied, Judged
  <2>2. CASE d # c
    <3>1. call'[d] = call[d]
      BY <1>2, <2>2 DEF CacheInv, CacheTyped
    <3> QED
      BY <1>2, <1>5, <3>1, CopiesStand
  <2> QED
    BY <2>1, <2>2
<1>7. lost' \subseteq raced'
  <2> DEFINE now == items[k]
  <2>1. lost' = IF now # NoEntry /\ clock <= now.expires THEN lost \cup {now.put} ELSE lost
    BY DEF GetExpire
  <2>2. ASSUME now # NoEntry, clock <= now.expires PROVE now.put \in raced
    <3>1. now \in {NoEntry, call[c].item} \/ now.put \in raced
      BY <1>1 DEF Copied, Under
    <3>2. ASSUME now = call[c].item PROVE FALSE
      <4>1. now.expires < clock /\ now.expires \in Nat /\ clock \in Nat
        BY <1>1, <3>2, EntryFields DEF Judged, Copied, CacheInv, CacheTyped
      <4> QED
        BY <2>2, <4>1
    <3> QED
      BY <2>2, <3>1, <3>2
  <2> QED
    BY <1>2, <2>1, <2>2 DEF CacheInv
<1>8. \A x \in CacheKeys : items'[x] # NoEntry => items'[x].put <= puts'
  BY <1>2, <1>5 DEF CacheInv
<1> QED
  BY <1>4, <1>6, <1>7, <1>8 DEF CacheInv

\* A Put under key k, by a caller that has no Get under way: it is noted where
\* there is one of that key.
LEMMA StoresInv ==
    ASSUME CacheInv, NEW k \in CacheKeys, NEW v \in Nat, puts < MaxPuts,
           Keeps(k, [put |-> puts + 1, expires |-> v]), Counted(k),
           call' \in [Callers -> Call],
           \A d \in Callers : call'[d] = call[d] \/ (call'[d].at = "idle" /\ call'[d].hit = FALSE),
           UNCHANGED <<cacheKind, clock, lost>>
    PROVE  CacheInv'
<1> DEFINE e == [put |-> puts + 1, expires |-> v]
<1>1. puts \in Nat /\ puts' = puts + 1 /\ items \in [CacheKeys -> Entry \cup {NoEntry}]
  BY DEF CacheInv, CacheTyped, Counted
<1>2. e \in Entry /\ e.put = puts + 1
  BY <1>1, CacheAssumption DEF Entry
<1> HIDE DEF e
<1>3. /\ items' \in [CacheKeys -> Entry \cup {NoEntry}]
      /\ \A x \in CacheKeys : items'[x] \in {items[x], NoEntry} \/ (x = k /\ items'[x] = e)
  <2>1. PICK old : old = Head(recent)
    OBVIOUS
  <2>2. items' = [items EXCEPT ![k] = e] \/ items' = [items EXCEPT ![k] = e, ![old] = NoEntry]
    BY <2>1 DEF Keeps, e
  <2>3. CASE items' = [items EXCEPT ![k] = e]
    BY <1>1, <1>2, <2>3
  <2>4. CASE items' = [items EXCEPT ![k] = e, ![old] = NoEntry]
    BY <1>1, <1>2, <2>4
  <2> QED
    BY <2>2, <2>3, <2>4
<1>4. CacheTyped'
  BY <1>1, <1>3 DEF CacheInv, CacheTyped
<1>5. \A x \in CacheKeys : items[x] # NoEntry => items[x].put \in Nat /\ items[x].put <= puts
  BY <1>1, EntryFields DEF CacheInv
<1>6. \A x \in CacheKeys : items'[x] # NoEntry => items'[x].put <= puts'
  BY <1>1, <1>2, <1>3, <1>5
<1>7. raced \subseteq raced'
  BY DEF Counted
<1>8. ASSUME NEW d \in Callers PROVE Copied(d)' /\ Judged(d)'
  <2>1. CASE call'[d].at = "idle" /\ call'[d].hit = FALSE
    BY <2>1 DEF Copied, Judged
  <2>2. CASE call'[d] = call[d]
    <3>1. Copied(d) /\ Judged(d) /\ call[d].key \in CacheKeys
      BY DEF CacheInv, CacheTyped, Call
    <3>2. Judged(d)'
      BY <2>2, <3>1 DEF Judged
    <3>3. ASSUME call[d].at \in {"read", "expire"} PROVE Copied(d)'
      <4>1. call[d].item \in Entry /\ call[d].item.put <= puts /\ call[d].item.put \in Nat
        BY <3>1, <3>3, EntryFields DEF Copied
      <4>2. call[d].item.put <= puts'
        BY <1>1, <4>1
      <4>3. CASE items'[call[d].key] \in {items[call[d].key], NoEntry}
        BY <1>7, <2>2, <3>1, <4>1, <4>2, <4>3 DEF Copied, Under
      <4>4. CASE call[d].key = k /\ items'[k] = e
        <5>1. puts + 1 \in raced'
          BY <3>3, <4>4 DEF Counted
        <5> QED
          BY <1>2, <2>2, <4>1, <4>2, <4>4, <5>1 DEF Copied, Under
      <4> QED
        BY <1>3, <3>1, <4>3, <4>4
    <3>4. ASSUME call[d].at \notin {"read", "expire"} PROVE Copied(d)'
      BY <2>2, <3>4 DEF Copied
    <3> QED
      BY <3>2, <3>3, <3>4
  <2> QED
    BY <2>1, <2>2
<1>9. lost' \subseteq raced'
  BY <1>7 DEF CacheInv
<1> QED
  BY <1>4, <1>6, <1>8, <1>9 DEF CacheInv

LEMMA PutInv ==
    ASSUME CacheInv, NEW c \in Callers, NEW k \in CacheKeys, NEW v \in Validities, Put(c, k, v)
    PROVE  CacheInv'
<1>1. clock + v \in Nat /\ call' \in [Callers -> Call]
  BY CacheAssumption DEF CacheInv, CacheTyped, Put
<1> QED
  BY <1>1, StoresInv DEF Put

LEMMA PutBeginInv ==
    ASSUME CacheInv, NEW c \in Callers, NEW k \in CacheKeys, NEW v \in Validities,
           PutBegin(c, k, v)
    PROVE  CacheInv'
<1> DEFINE q == [at |-> "add", key |-> k, item |-> NoEntry, began |-> clock + v, hit |-> FALSE]
<1>1. clock + v \in Nat
  BY CacheAssumption DEF CacheInv, CacheTyped
<1>2. q \in Call /\ q.at = "add" /\ q.hit = FALSE
  BY <1>1 DEF Call
<1>3. call' = [call EXCEPT ![c] = q] /\ UNCHANGED <<cacheKind, clock, items, puts, raced, lost>>
  BY DEF PutBegin
<1> HIDE DEF q
<1>4. call'[c] = q
  BY <1>3 DEF CacheInv, CacheTyped
<1>5. Copied(c)' /\ Judged(c)'
  BY <1>2, <1>4 DEF Copied, Judged
<1> QED
  BY <1>2, <1>3, <1>5, CallMoves

\* The call of a Put has no answer, so that it is judged as it is.
LEMMA PutAddInv ==
    ASSUME CacheInv, NEW c \in Callers, PutAdd(c), call[c].hit = FALSE
    PROVE  CacheInv'
<1> DEFINE q == [call[c] EXCEPT !.at = "idle"]
<1>1. call[c] \in Call /\ call[c].key \in CacheKeys /\ call[c].began \in Nat
  BY DEF CacheInv, CacheTyped, Call
<1>2. q \in Call /\ q.at = "idle" /\ q.hit = FALSE
  BY <1>1 DEF Call
<1>3. call' = [call EXCEPT ![c] = q]
  BY DEF PutAdd, CacheInv, CacheTyped, Call
<1> HIDE DEF q
<1>4. /\ call' \in [Callers -> Call]
      /\ \A d \in Callers : call'[d] = call[d] \/ (call'[d].at = "idle" /\ call'[d].hit = FALSE)
  BY <1>2, <1>3 DEF CacheInv, CacheTyped
<1> QED
  BY <1>1, <1>4, StoresInv DEF PutAdd

LEMMA DeleteInv ==
    ASSUME CacheInv, NEW c \in Callers, NEW k \in CacheKeys, Delete(c, k)
    PROVE  CacheInv'
<1>1. items' = [items EXCEPT ![k] = NoEntry] /\ UNCHANGED <<cacheKind, clock, puts, call, raced, lost>>
  BY DEF Delete, Removed
<1>2. \A x \in CacheKeys : items'[x] \in {items[x], NoEntry}
  BY <1>1 DEF CacheInv, CacheTyped
<1>3. CacheTyped'
  BY <1>1 DEF CacheInv, CacheTyped
<1>4. \A d \in Callers : Copied(d)' /\ Judged(d)'
  BY <1>1, <1>2, CopiesStand
<1>5. \A x \in CacheKeys : items'[x] # NoEntry => items'[x].put <= puts'
  BY <1>1, <1>2 DEF CacheInv
<1> QED
  BY <1>1, <1>3, <1>4, <1>5 DEF CacheInv

LEMMA CacheInvStep == CacheInv /\ [CacheNext]_cacheVars => CacheInv'
<1> SUFFICES ASSUME CacheInv, [CacheNext]_cacheVars PROVE CacheInv'
  OBVIOUS
<1>1. CASE UNCHANGED cacheVars
  BY <1>1 DEF CacheInv, CacheTyped, Copied, Judged, Under, cacheVars
<1>2. ASSUME NEW c \in Callers, PutAdd(c) PROVE CacheInv'
  <2>1. call[c].hit = FALSE
    BY <1>2 DEF CacheInv, Judged, PutAdd
  <2> QED
    BY <1>2, <2>1, PutAddInv
<1> QED
  BY <1>1, <1>2, TickInv, GetReadInv, GetJudgeInv, GetExpireInv, PutInv, PutBeginInv, DeleteInv
     DEF CacheNext

THEOREM CacheInvariant == CacheSpec => []CacheInv
BY CacheInvInit, CacheInvStep, PTL DEF CacheSpec

----------------------------------------------------------------------------
\* No Get answers with what had expired when it was called, however long it
\* stays between its lock and its check (cache/expiring.go 26-47).
THEOREM CachesServeFresh == CacheSpec => []CacheServesFresh
<1>1. CacheInv => CacheServesFresh
  <2> SUFFICES ASSUME CacheInv, NEW c \in Callers, call[c].hit, cacheKind # "lru"
               PROVE  call[c].began <= call[c].item.expires
    BY DEF CacheServesFresh
  <2>1. call[c].hit \in BOOLEAN
    BY DEF CacheInv, CacheTyped, Call
  <2>2. call[c].hit = TRUE
    BY <2>1, Zenon
  <2> QED
    BY <2>2 DEF CacheInv, Judged
<1> QED
  BY <1>1, CacheInvariant, PTL

\* What a Get takes out before its time comes from a Put that came while such a
\* Get was under way (cache/expiring.go 41-43, 87-91).
THEOREM LossesAreRaces == CacheSpec => []LostOnlyToRace
<1>1. CacheInv => LostOnlyToRace
  BY DEF CacheInv, LostOnlyToRace
<1> QED
  BY <1>1, CacheInvariant, PTL
----------------------------------------------------------------------------
(* The list of an LRU cache: each key that is cached is in it once, so that   *)
(* taking one out and adding one keeps it within the size.                    *)

LEMMA RemovedFromList ==
    ASSUME NEW S, NEW s \in Seq(S), IsInjective(s), NEW k
    PROVE  LET t == RemoveFirst(s, k)
           IN  /\ t \in Seq(S) /\ IsInjective(t)
               /\ Range(t) = Range(s) \ {k}
               /\ Len(t) = IF k \in Range(s) THEN Len(s) - 1 ELSE Len(s)
<1>1. CASE ~ \E i \in 1 .. Len(s) : s[i] = k
  BY <1>1 DEF RemoveFirst, Range
<1>2. CASE \E i \in 1 .. Len(s) : s[i] = k
  <2>1. PICK i \in 1 .. Len(s) : s[i] = k
    BY <1>2
  <2>2. {j \in 1 .. Len(s) : s[j] = k} = {i}
    BY <2>1 DEF IsInjective
  <2>3. SelectInSeq(s, LAMBDA v : v = k) = i
    <3>1. Min({i}) = i
      BY DEF Min
    <3> QED
      BY <2>2, <3>1 DEF SelectInSeq
  <2> DEFINE a == SubSeq(s, 1, i - 1)
  <2> DEFINE b == SubSeq(s, i + 1, Len(s))
  <2> DEFINE t == a \o b
  <2>4. RemoveFirst(s, k) = t
    BY <1>2, <2>1, <2>3 DEF RemoveFirst, RemoveAt
  <2>5. /\ a \in Seq(S) /\ Len(a) = i - 1 /\ \A j \in 1 .. i - 1 : a[j] = s[j]
        /\ b \in Seq(S) /\ Len(b) = Len(s) - i /\ \A j \in 1 .. Len(s) - i : b[j] = s[j + i]
    BY <2>1
  <2> HIDE DEF a, b
  <2>6. /\ t \in Seq(S) /\ Len(t) = Len(s) - 1 /\ DOMAIN t = 1 .. Len(s) - 1
        /\ \A j \in 1 .. Len(s) - 1 : t[j] = IF j < i THEN s[j] ELSE s[j + 1]
    <3>1. t \in Seq(S) /\ Len(t) = Len(s) - 1
      <4>1. t \in Seq(S) /\ Len(t) = Len(a) + Len(b)
        BY <2>5, ConcatProperties
      <4>2. (i - 1) + (Len(s) - i) = Len(s) - 1
        BY <2>1
      <4> QED
        BY <2>5, <4>1, <4>2
    <3>2. ASSUME NEW j \in 1 .. Len(s) - 1 PROVE t[j] = IF j < i THEN s[j] ELSE s[j + 1]
      <4>1. CASE j < i
        BY <2>1, <2>5, <4>1
      <4>2. CASE ~ (j < i)
        <5>1. t[j] = b[j - (i - 1)] /\ j - (i - 1) \in 1 .. Len(s) - i
          BY <2>1, <2>5, <4>2, ConcatProperties
        <5>2. b[j - (i - 1)] = s[(j - (i - 1)) + i] /\ (j - (i - 1)) + i = j + 1
          BY <2>1, <2>5, <5>1
        <5> QED
          BY <4>2, <5>1, <5>2
      <4> QED
        BY <4>1, <4>2
    <3> QED
      BY <3>1, <3>2
  <2> HIDE DEF t
  <2> DEFINE from(j) == IF j < i THEN j ELSE j + 1
  <2>6a. \A j \in DOMAIN t : from(j) \in 1 .. Len(s) /\ t[j] = s[from(j)]
    BY <2>1, <2>6
  <2>6b. \A j, m \in DOMAIN t : from(j) = from(m) => j = m
    BY <2>1, <2>6
  <2>6c. \A j, m \in 1 .. Len(s) : s[j] = s[m] => j = m
    BY DEF IsInjective
  <2> HIDE DEF from
  <2>7. IsInjective(t)
    BY <2>6a, <2>6b, <2>6c DEF IsInjective
  <2>9. Range(t) = Range(s) \ {k}
    <3>1. ASSUME NEW j \in 1 .. Len(s) - 1 PROVE t[j] \in Range(s) /\ t[j] # k
      <4>1. PICK m \in 1 .. Len(s) : m # i /\ t[j] = s[m]
        BY <2>1, <2>6
      <4>2. s[m] # k
        BY <2>2, <4>1
      <4> QED
        BY <4>1, <4>2 DEF Range
    <3>2. ASSUME NEW j \in 1 .. Len(s), s[j] # k PROVE s[j] \in Range(t)
      <4>1. CASE j < i
        BY <2>1, <2>6, <4>1 DEF Range
      <4>2. CASE j > i
        <5>1. j - 1 \in 1 .. Len(s) - 1 /\ t[j - 1] = s[j]
          BY <2>1, <2>6, <4>2
        <5> QED
          BY <2>6, <5>1 DEF Range
      <4> QED
        BY <2>1, <3>2, <4>1, <4>2
    <3> QED
      BY <2>6, <3>1, <3>2 DEF Range
  <2>8. k \in Range(s)
    BY <2>1 DEF Range
  <2> QED
    BY <2>4, <2>6, <2>7, <2>8, <2>9
<1> QED
  BY <1>1, <1>2

LEMMA AddedToList ==
    ASSUME NEW S, NEW s \in Seq(S), IsInjective(s), NEW k \in S, k \notin Range(s)
    PROVE  /\ Append(s, k) \in Seq(S) /\ IsInjective(Append(s, k))
           /\ Range(Append(s, k)) = Range(s) \cup {k}
           /\ Len(Append(s, k)) = Len(s) + 1
<1> DEFINE t == Append(s, k)
<1>1. t \in Seq(S) /\ Len(t) = Len(s) + 1 /\ DOMAIN t = 1 .. Len(s) + 1
  OBVIOUS
<1>2. (\A i \in 1 .. Len(s) : t[i] = s[i]) /\ t[Len(s) + 1] = k
  OBVIOUS
<1> HIDE DEF t
<1>3. \A i \in 1 .. Len(s) : s[i] # k
  BY DEF Range
<1>4. IsInjective(t)
  BY <1>1, <1>2, <1>3 DEF IsInjective
<1>5. Range(t) = Range(s) \cup {k}
  BY <1>1, <1>2 DEF Range
<1> QED
  BY <1>1, <1>4, <1>5 DEF t

LEMMA TailOfList ==
    ASSUME NEW S, NEW s \in Seq(S), IsInjective(s), s # <<>>
    PROVE  /\ Tail(s) \in Seq(S) /\ IsInjective(Tail(s)) /\ Head(s) \in S
           /\ Range(Tail(s)) = Range(s) \ {Head(s)} /\ Head(s) \in Range(s)
           /\ Len(Tail(s)) = Len(s) - 1
<1> DEFINE t == Tail(s)
<1>1. t \in Seq(S) /\ Len(t) = Len(s) - 1 /\ Len(s) >= 1 /\ Head(s) = s[1]
  OBVIOUS
<1>2. \A i \in 1 .. Len(s) - 1 : t[i] = s[i + 1]
  OBVIOUS
<1>3. DOMAIN t = 1 .. Len(s) - 1 /\ DOMAIN s = 1 .. Len(s)
  BY <1>1
<1> HIDE DEF t
<1>4. IsInjective(t)
  <2> SUFFICES ASSUME NEW i \in 1 .. Len(s) - 1, NEW j \in 1 .. Len(s) - 1, t[i] = t[j]
               PROVE  i = j
    BY <1>3 DEF IsInjective
  <2>1. i + 1 \in DOMAIN s /\ j + 1 \in DOMAIN s
    BY <1>1, <1>3
  <2>2. s[i + 1] = s[j + 1]
    BY <1>2
  <2> QED
    BY <2>1, <2>2 DEF IsInjective
<1>5. Range(t) = Range(s) \ {s[1]}
  <2>1. ASSUME NEW i \in 1 .. Len(s) - 1 PROVE t[i] \in Range(s) /\ t[i] # s[1]
    BY <1>1, <1>2, <1>3 DEF IsInjective, Range
  <2>2. ASSUME NEW i \in 1 .. Len(s), s[i] # s[1] PROVE s[i] \in Range(t)
    <3>1. i - 1 \in 1 .. Len(s) - 1 /\ t[i - 1] = s[i]
      BY <1>1, <1>2, <2>2
    <3> QED
      BY <1>3, <3>1 DEF Range
  <2> QED
    BY <1>3, <2>1, <2>2 DEF Range
<1>6. s[1] \in Range(s) /\ s[1] \in S
  BY <1>1, <1>3 DEF Range
<1> QED
  BY <1>1, <1>4, <1>5, <1>6 DEF t

Held == {k \in CacheKeys : items[k] # NoEntry}

\* The list is what an LRU cache holds; the other caches have none. What is
\* counted stays within its bounds.
ListInv ==
    /\ recent \in Seq(CacheKeys) /\ IsInjective(recent)
    /\ IF Lru THEN Len(recent) <= Size /\ Range(recent) = Held ELSE recent = <<>>
    /\ cacheKind \in CacheKinds
    /\ clock \in 0 .. MaxClock /\ puts \in 0 .. MaxPuts
    /\ raced \subseteq 1 .. MaxPuts /\ lost \subseteq 1 .. MaxPuts

LEMMA ListInvInit == CacheInit => ListInv
<1> SUFFICES ASSUME CacheInit PROVE ListInv
  OBVIOUS
<1>1. recent = <<>> /\ items = [k \in CacheKeys |-> NoEntry]
  BY DEF CacheInit
<1>2. recent \in Seq(CacheKeys) /\ Len(recent) = 0 /\ DOMAIN recent = {}
  BY <1>1
<1>3. Range(recent) = {} /\ IsInjective(recent)
  BY <1>2 DEF Range, IsInjective
<1>4. Held = {}
  BY <1>1 DEF Held
<1>5. Len(recent) <= Size
  BY <1>2, CacheAssumption
<1>6. /\ cacheKind \in CacheKinds /\ clock \in 0 .. MaxClock /\ puts \in 0 .. MaxPuts
      /\ raced \subseteq 1 .. MaxPuts /\ lost \subseteq 1 .. MaxPuts
  BY CacheAssumption DEF CacheInit
<1> QED
  BY <1>1, <1>2, <1>3, <1>4, <1>5, <1>6 DEF ListInv

\* A key is added or made the most recent, after it is taken out.
LEMMA Moved ==
    ASSUME ListInv, NEW k \in CacheKeys
    PROVE  LET s == Append(Without(k), k)
           IN  /\ s \in Seq(CacheKeys) /\ IsInjective(s)
               /\ Range(s) = Range(recent) \cup {k}
               /\ Len(s) = IF k \in Range(recent) THEN Len(recent) ELSE Len(recent) + 1
<1> DEFINE r == Without(k)
<1>1. recent \in Seq(CacheKeys) /\ IsInjective(recent) /\ Len(recent) \in Nat
  BY DEF ListInv
<1>2. /\ r \in Seq(CacheKeys) /\ IsInjective(r) /\ Range(r) = Range(recent) \ {k}
      /\ Len(r) = IF k \in Range(recent) THEN Len(recent) - 1 ELSE Len(recent)
  BY <1>1, RemovedFromList DEF Without
<1> HIDE DEF r
<1>3. k \notin Range(r)
  BY <1>2
<1>4. /\ Append(r, k) \in Seq(CacheKeys) /\ IsInjective(Append(r, k))
      /\ Range(Append(r, k)) = Range(r) \cup {k} /\ Len(Append(r, k)) = Len(r) + 1
  BY <1>2, <1>3, AddedToList
<1>5. Range(r) \cup {k} = Range(recent) \cup {k}
  BY <1>2
<1>6. Len(r) + 1 = IF k \in Range(recent) THEN Len(recent) ELSE Len(recent) + 1
  BY <1>1, <1>2
<1> QED
  BY <1>4, <1>5, <1>6 DEF r

LEMMA GetReadList ==
    ASSUME CacheInv, ListInv, NEW c \in Callers, NEW k \in CacheKeys, GetRead(c, k)
    PROVE  ListInv'
<1> DEFINE s == Append(Without(k), k)
<1>1. UNCHANGED <<cacheKind, clock, items, puts, raced, lost>>
  BY DEF GetRead
<1>2. recent' = IF Lru /\ items[k] # NoEntry THEN s ELSE recent
  BY DEF GetRead, Touched
<1>3. CASE Lru /\ items[k] # NoEntry
  <2>1. k \in Range(recent) /\ Range(recent) \cup {k} = Range(recent)
    BY <1>3 DEF ListInv, Held
  <2>2. /\ s \in Seq(CacheKeys) /\ IsInjective(s)
        /\ Range(s) = Range(recent) /\ Len(s) = Len(recent)
    BY <2>1, Moved
  <2>3. recent' = s
    BY <1>2, <1>3
  <2> HIDE DEF s
  <2> QED
    BY <1>1, <1>3, <2>2, <2>3 DEF ListInv, Lru, Held
<1>4. CASE ~ (Lru /\ items[k] # NoEntry)
  <2>1. recent' = recent
    BY <1>2, <1>4
  <2> QED
    BY <1>1, <2>1 DEF ListInv, Lru, Held
<1> QED
  BY <1>3, <1>4

LEMMA RemovedList ==
    ASSUME CacheInv, ListInv, NEW k \in CacheKeys, Removed(k), lost' \subseteq 1 .. MaxPuts,
           UNCHANGED <<cacheKind, clock, puts, raced>>
    PROVE  ListInv'
<1> DEFINE r == Without(k)
<1>1. items' = [items EXCEPT ![k] = NoEntry] /\ recent' = r
  BY DEF Removed
<1>2. recent \in Seq(CacheKeys) /\ IsInjective(recent) /\ Len(recent) \in Nat
  BY DEF ListInv
<1>3. /\ r \in Seq(CacheKeys) /\ IsInjective(r) /\ Range(r) = Range(recent) \ {k}
      /\ Len(r) = IF k \in Range(recent) THEN Len(recent) - 1 ELSE Len(recent)
  BY <1>2, RemovedFromList DEF Without
<1>4. Len(r) <= Len(recent)
  BY <1>2, <1>3
<1>5. Held' = Held \ {k}
  BY <1>1 DEF CacheInv, CacheTyped, Held
<1>6. ASSUME ~ Lru PROVE r = <<>>
  <2>1. recent = <<>> /\ Range(recent) = {}
    BY <1>6 DEF ListInv, Range
  <2>2. Len(r) = 0
    BY <1>3, <2>1
  <2> HIDE DEF r
  <2> QED
    BY <1>3, <2>2
<1>7. Lru => Len(r) <= Size /\ Range(r) = Held \ {k}
  BY <1>2, <1>3, <1>4, CacheAssumption DEF ListInv
<1> HIDE DEF r
<1> QED
  BY <1>1, <1>3, <1>5, <1>6, <1>7 DEF ListInv, Lru

\* A list that is full has lost its oldest key before it has the new one.
LEMMA KeepsList ==
    ASSUME CacheInv, ListInv, NEW k \in CacheKeys, NEW e \in Entry, Keeps(k, e), Counted(k),
           puts < MaxPuts, UNCHANGED <<cacheKind, clock, lost>>
    PROVE  ListInv'
<1> DEFINE s == Append(Without(k), k)
           old == Head(recent)
           t == Append(Tail(recent), k)
<1>1. recent \in Seq(CacheKeys) /\ IsInjective(recent) /\ Len(recent) \in Nat
  BY DEF ListInv
<1>2. items \in [CacheKeys -> Entry \cup {NoEntry}] /\ e # NoEntry
  BY EntryIsNone DEF CacheInv, CacheTyped
<1>3. puts' \in 0 .. MaxPuts /\ raced' \subseteq 1 .. MaxPuts
  BY CacheAssumption DEF ListInv, Counted
<1>4. cacheKind' \in CacheKinds /\ clock' \in 0 .. MaxClock /\ lost' \subseteq 1 .. MaxPuts
  BY DEF ListInv
<1>5. CASE ~ Lru
  <2>1. recent' = recent
    BY <1>5 DEF Keeps
  <2> QED
    BY <1>3, <1>4, <1>5, <2>1 DEF ListInv, Lru
<1>6. CASE Lru /\ items[k] = NoEntry /\ Len(recent) = Size
  <2>1. items' = [items EXCEPT ![k] = e, ![old] = NoEntry] /\ recent' = t
    BY <1>6 DEF Keeps
  <2>2. recent # <<>>
    BY <1>6, CacheAssumption
  <2>3. /\ Tail(recent) \in Seq(CacheKeys) /\ IsInjective(Tail(recent)) /\ old \in CacheKeys
        /\ Range(Tail(recent)) = Range(recent) \ {old} /\ old \in Range(recent)
        /\ Len(Tail(recent)) = Len(recent) - 1
    BY <1>1, <2>2, TailOfList
  <2>4. k \notin Range(recent) /\ Range(recent) = Held
    BY <1>6 DEF ListInv, Held
  <2>5. k \notin Range(Tail(recent)) /\ old # k
    BY <2>3, <2>4
  <2>6. /\ t \in Seq(CacheKeys) /\ IsInjective(t)
        /\ Range(t) = Range(Tail(recent)) \cup {k} /\ Len(t) = Len(Tail(recent)) + 1
    BY <2>3, <2>5, AddedToList
  <2>7. Len(t) = Size
    BY <1>1, <1>6, <2>3, <2>6
  <2> HIDE DEF t, old
  <2>8. Held' = (Held \ {old}) \cup {k}
    BY <1>2, <2>1, <2>3, <2>5 DEF Held
  <2>9. Range(t) = Held'
    BY <2>3, <2>4, <2>6, <2>8
  <2> QED
    BY <1>3, <1>4, <1>6, <2>1, <2>6, <2>7, <2>9, CacheAssumption DEF ListInv, Lru
<1>7. CASE Lru /\ ~ (items[k] = NoEntry /\ Len(recent) = Size)
  <2>1. items' = [items EXCEPT ![k] = e] /\ recent' = s
    BY <1>7 DEF Keeps
  <2>2. /\ s \in Seq(CacheKeys) /\ IsInjective(s)
        /\ Range(s) = Range(recent) \cup {k}
        /\ Len(s) = IF k \in Range(recent) THEN Len(recent) ELSE Len(recent) + 1
    BY Moved
  <2>3. Range(recent) = Held /\ Len(recent) <= Size
    BY <1>7 DEF ListInv
  <2>4. k \in Range(recent) <=> items[k] # NoEntry
    BY <2>3 DEF Held
  <2> HIDE DEF s
  <2>5. Len(s) <= Size
    BY <1>1, <1>7, <2>2, <2>3, <2>4, CacheAssumption
  <2>6. Held' = Held \cup {k}
    BY <1>2, <2>1 DEF Held
  <2> QED
    BY <1>3, <1>4, <1>7, <2>1, <2>2, <2>3, <2>5, <2>6 DEF ListInv, Lru
<1> QED
  BY <1>5, <1>6, <1>7

LEMMA EntryMade == ASSUME CacheInv, puts < MaxPuts, NEW v \in Nat
                   PROVE  [put |-> puts + 1, expires |-> v] \in Entry
BY CacheAssumption DEF CacheInv, CacheTyped, Entry

LEMMA GetExpireList ==
    ASSUME CacheInv, ListInv, NEW c \in Callers, GetExpire(c)
    PROVE  ListInv'
<1>1. call[c].key \in CacheKeys
  BY DEF CacheInv, CacheTyped, Call
<1>2. items[call[c].key] # NoEntry => items[call[c].key].put \in 1 .. MaxPuts
  BY <1>1 DEF CacheInv, CacheTyped, Entry
<1>3. lost' \subseteq 1 .. MaxPuts
  BY <1>2 DEF GetExpire, ListInv
<1> QED
  BY <1>1, <1>3, RemovedList DEF GetExpire

LEMMA ListInvStep == CacheInv /\ ListInv /\ [CacheNext]_cacheVars => ListInv'
<1> SUFFICES ASSUME CacheInv, ListInv, [CacheNext]_cacheVars PROVE ListInv'
  OBVIOUS
<1>1. ASSUME UNCHANGED <<cacheKind, clock, items, recent, puts, raced, lost>> PROVE ListInv'
  BY <1>1 DEF ListInv, Lru, Held
<1>2. CASE UNCHANGED cacheVars
  BY <1>1, <1>2 DEF cacheVars
<1>3. CASE Tick
  <2>1. clock' \in 0 .. MaxClock
    BY <1>3, CacheAssumption DEF Tick, ListInv
  <2> QED
    BY <1>3, <2>1 DEF Tick, ListInv, Lru, Held
<1>4. ASSUME NEW c \in Callers, GetJudge(c) PROVE ListInv'
  BY <1>1, <1>4 DEF GetJudge
<1>5. ASSUME NEW c \in Callers, PutAdd(c) PROVE ListInv'
  <2>1. call[c].key \in CacheKeys /\ call[c].began \in Nat
    BY DEF CacheInv, CacheTyped, Call
  <2> QED
    BY <1>5, <2>1, EntryMade, KeepsList DEF PutAdd
<1>6. ASSUME NEW c \in Callers, NEW k \in CacheKeys, Delete(c, k) PROVE ListInv'
  <2>1. lost' \subseteq 1 .. MaxPuts
    BY <1>6 DEF Delete, ListInv
  <2> QED
    BY <1>6, <2>1, RemovedList DEF Delete
<1>7. ASSUME NEW c \in Callers, NEW k \in CacheKeys, NEW v \in Validities, Put(c, k, v)
      PROVE  ListInv'
  <2>1. clock + v \in Nat
    BY CacheAssumption DEF CacheInv, CacheTyped
  <2> QED
    BY <1>7, <2>1, EntryMade, KeepsList DEF Put
<1>8. ASSUME NEW c \in Callers, NEW k \in CacheKeys, NEW v \in Validities, PutBegin(c, k, v)
      PROVE  ListInv'
  BY <1>1, <1>8 DEF PutBegin
<1> QED
  BY <1>2, <1>3, <1>4, <1>5, <1>6, <1>7, <1>8, GetReadList, GetExpireList DEF CacheNext

\* An LRU cache never holds more than its size, its list and its map name the
\* same keys, and each key has one place in the list (cache/lru.go,
\* cache/lru_expiring.go); the counters and the calls stay what they are.
THEOREM CachesBounded == CacheSpec => []CacheTypeOK
<1>1. CacheInv /\ ListInv => CacheTypeOK
  BY DEF CacheInv, CacheTyped, ListInv, Held, CacheTypeOK, CacheBounded
<1>2. CacheInv /\ ListInv /\ [CacheNext]_cacheVars => (CacheInv /\ ListInv)'
  BY CacheInvStep, ListInvStep
<1> QED
  BY <1>1, <1>2, CacheInvInit, ListInvInit, PTL DEF CacheSpec
=============================================================================
