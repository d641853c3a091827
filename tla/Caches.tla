------------------------------- MODULE Caches -------------------------------
(* The four caches (cache/): ExpiringCache and FixedExpiryCache over a map   *)
(* under a read-write lock, LruCache and LruCacheExpiring over the LRU list  *)
(* of hashicorp/golang-lru, which is external. Each call holds the lock for  *)
(* a part of its work only, and goroutines come in between.                  *)
EXTENDS Integers, FiniteSets, SequencesExt

CONSTANTS
    CacheKeys, Callers,
    CacheKinds,     \* the caches there are
    Size,           \* of an LRU cache
    Validities,     \* what Put is given; FixedExpiryCache has one of them
    MaxPuts, MaxClock,
    NoEntry

ASSUME CacheAssumption ==
    /\ CacheKeys # {}
    /\ CacheKinds \subseteq {"expiring", "fixed", "lru", "lruexpiring"}
    /\ Size \in Nat \ {0}
    /\ Validities \subseteq Nat
    /\ MaxPuts \in Nat /\ MaxClock \in Nat
    /\ NoEntry \notin [put : 1 .. MaxPuts, expires : Nat]

VARIABLES
    cacheKind,
    clock,
    items,      \* what is cached: the number of the Put it is from, and its expiry
    recent,     \* the keys of an LRU cache, least recently used first
    puts,       \* Puts so far
    call,       \* where each goroutine's call is
    raced,      \* history: Puts that came while a Get of their key was under way
    lost        \* history: Puts taken out as expired before their time

cacheVars == <<cacheKind, clock, items, recent, puts, call, raced, lost>>

Entry == [put : 1 .. MaxPuts, expires : Nat]
Lru == cacheKind \in {"lru", "lruexpiring"}

\* at: between calls, before the check of the expiry, before the removal of
\* what had expired, or before the Add of an LRU cache's Put.
Call == [at : {"idle", "read", "expire", "add"}, key : CacheKeys, item : Entry \cup {NoEntry},
         began : Nat, hit : BOOLEAN]

CacheInit ==
    /\ cacheKind \in CacheKinds
    /\ clock = 0
    /\ items = [k \in CacheKeys |-> NoEntry]
    /\ recent = <<>>
    /\ puts = 0
    /\ call = [c \in Callers |-> [at |-> "idle", key |-> CHOOSE k \in CacheKeys : TRUE,
                                  item |-> NoEntry, began |-> 0, hit |-> FALSE]]
    /\ raced = {} /\ lost = {}

Tick ==
    /\ clock < MaxClock
    /\ clock' = clock + 1
    /\ UNCHANGED <<cacheKind, items, recent, puts, call, raced, lost>>

----------------------------------------------------------------------------
(* Get.                                                                      *)

\* A key is in the list once at most.
Without(k) == RemoveFirst(recent, k)

\* The Get of an LRU cache makes its key the most recent.
Touched(k) == IF items[k] # NoEntry THEN Append(Without(k), k) ELSE recent

\* The entry is copied under the lock. A missing key, and any entry of a cache
\* without expiry, is the answer.
GetRead(c, k) ==
    /\ call[c].at = "idle"
    /\ call' = [call EXCEPT ![c] =
          [at |-> IF items[k] = NoEntry \/ cacheKind = "lru" THEN "idle" ELSE "read", key |-> k,
           item |-> items[k], began |-> clock, hit |-> items[k] # NoEntry /\ cacheKind = "lru"]]
    /\ recent' = IF Lru THEN Touched(k) ELSE recent
    /\ UNCHANGED <<cacheKind, clock, items, puts, raced, lost>>

\* Variant: the comparison is the wrong way round.
GetJudgeReversed(c) ==
    /\ call[c].at = "read"
    /\ call' = [call EXCEPT ![c].at = IF clock < call[c].item.expires THEN "expire" ELSE "idle",
                            ![c].hit = clock >= call[c].item.expires]
    /\ UNCHANGED <<cacheKind, clock, items, recent, puts, raced, lost>>

\* item.expires.Before(now()), on the copy.
GetJudge(c) ==
    /\ call[c].at = "read"
    /\ call' = [call EXCEPT ![c].at = IF call[c].item.expires < clock THEN "expire" ELSE "idle",
                            ![c].hit = ~ (call[c].item.expires < clock)]
    /\ UNCHANGED <<cacheKind, clock, items, recent, puts, raced, lost>>

Removed(k) ==
    /\ items' = [items EXCEPT ![k] = NoEntry]
    /\ recent' = Without(k)

\* The key is deleted, whatever is under it by now.
GetExpire(c) ==
    /\ call[c].at = "expire"
    /\ Removed(call[c].key)
    /\ LET now == items[call[c].key]
       IN lost' = IF now # NoEntry /\ clock <= now.expires THEN lost \cup {now.put} ELSE lost
    /\ call' = [call EXCEPT ![c].at = "idle"]
    /\ UNCHANGED <<cacheKind, clock, puts, raced>>

----------------------------------------------------------------------------
(* Put, Delete.                                                              *)

\* Variant: a full list does not evict.
KeepsAll(k, v) ==
    /\ items' = [items EXCEPT ![k] = v]
    /\ recent' = IF Lru THEN Append(Without(k), k) ELSE recent

\* The entry goes in, and in an LRU cache that is full the oldest goes out.
Keeps(k, v) ==
    LET old == Head(recent)
    IN IF ~ Lru THEN items' = [items EXCEPT ![k] = v] /\ UNCHANGED recent
       ELSE IF items[k] = NoEntry /\ Len(recent) = Size
       THEN /\ items' = [items EXCEPT ![k] = v, ![old] = NoEntry]
            /\ recent' = Append(Tail(recent), k)
       ELSE items' = [items EXCEPT ![k] = v] /\ recent' = Append(Without(k), k)

Counted(k) ==
    /\ puts' = puts + 1
    /\ raced' = IF \E c \in Callers : call[c].at \in {"read", "expire"} /\ call[c].key = k
                THEN raced \cup {puts + 1} ELSE raced

\* FixedExpiryCache is an ExpiringCache that is always given the same.
FixedValidity(v) == \A w \in Validities : v <= w

\* ExpiringCache takes the time under its lock. LruCache has no expiry, and
\* what v is makes no difference to it.
Put(c, k, v) ==
    /\ cacheKind # "lruexpiring"
    /\ cacheKind = "fixed" => FixedValidity(v)
    /\ call[c].at = "idle"
    /\ puts < MaxPuts
    /\ Keeps(k, [put |-> puts + 1, expires |-> clock + v])
    /\ Counted(k)
    /\ UNCHANGED <<cacheKind, clock, call, lost>>

\* LruCacheExpiring takes the time first and the lock of the list later.
PutBegin(c, k, v) ==
    /\ cacheKind = "lruexpiring"
    /\ call[c].at = "idle"
    /\ puts < MaxPuts
    /\ call' = [call EXCEPT ![c] = [at |-> "add", key |-> k, item |-> NoEntry,
                                    began |-> clock + v, hit |-> FALSE]]
    /\ UNCHANGED <<cacheKind, clock, items, recent, puts, raced, lost>>

PutAdd(c) ==
    /\ call[c].at = "add"
    /\ puts < MaxPuts
    /\ Keeps(call[c].key, [put |-> puts + 1, expires |-> call[c].began])
    /\ Counted(call[c].key)
    /\ call' = [call EXCEPT ![c].at = "idle"]
    /\ UNCHANGED <<cacheKind, clock, lost>>

Delete(c, k) ==
    /\ call[c].at = "idle"
    /\ items[k] # NoEntry
    /\ Removed(k)
    /\ UNCHANGED <<cacheKind, clock, puts, call, raced, lost>>

CacheNext ==
    \/ Tick
    \/ \E c \in Callers :
          \/ GetJudge(c) \/ GetExpire(c) \/ PutAdd(c)
          \/ \E k \in CacheKeys :
                \/ GetRead(c, k) \/ Delete(c, k)
                \/ \E v \in Validities : Put(c, k, v) \/ PutBegin(c, k, v)

CacheSpec == CacheInit /\ [][CacheNext]_cacheVars

----------------------------------------------------------------------------
(* Properties.                                                               *)

\* An LRU cache holds no more than its size, and its list is what it holds, each
\* key in one place.
CacheBounded ==
    Lru => /\ Len(recent) <= Size
           /\ Range(recent) = {k \in CacheKeys : items[k] # NoEntry}
           /\ IsInjective(recent)

CacheTypeOK ==
    /\ CacheBounded
    /\ cacheKind \in CacheKinds
    /\ clock \in 0 .. MaxClock
    /\ items \in [CacheKeys -> Entry \cup {NoEntry}]
    /\ recent \in Seq(CacheKeys)
    /\ puts \in 0 .. MaxPuts
    /\ call \in [Callers -> Call]
    /\ raced \subseteq 1 .. MaxPuts /\ lost \subseteq 1 .. MaxPuts

\* No Get answers with an entry that had expired when it was called, although
\* the check comes after the lock is gone (cache/expiring.go 26-47,
\* cache/lru_expiring.go 23-33).
CacheServesFresh ==
    \A c \in Callers : call[c].hit /\ cacheKind # "lru" => call[c].began <= call[c].item.expires

\* Get deletes by key what it found to have expired, after its lock is gone.
\* An entry loses its life to that only when its Put came while such a Get was
\* under way (cache/expiring.go 41-43, 87-91, cache/lru_expiring.go 28-31).
LostOnlyToRace == lost \subseteq raced
=============================================================================
