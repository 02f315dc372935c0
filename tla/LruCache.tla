------------------------------- MODULE LruCache -------------------------------
(***************************************************************************)
(* KyrinLruCache: a list of pairs, the pair used last in front, and a map  *)
(* from the keys to their places in the list.  A place stays that of its   *)
(* pair when the list is spliced, so of the map only the set of keys is    *)
(* kept.  The lock is held during a call, which is one operator here.      *)
(***************************************************************************)
EXTENDS Naturals, Sequences, FiniteSets, SequencesExt

CONSTANTS Capacity,     \* m_capacity
          CacheKeys,    \* keys of the calls that KeepsLastUsed tries
          CacheCalls    \* bound: number of those calls

ASSUME CacheAssumption == Capacity \in Nat \ {0} /\ CacheCalls \in Nat

EmptyCache == [data |-> <<>>, map |-> {}]

\* m_map.find, and the place it holds.
Cached(c, k) == k \in c.map
Place(c, k) == CHOOSE i \in DOMAIN c.data : c.data[i].key = k
CachedValue(c, k) == c.data[Place(c, k)].value

\* get: the pair found moves to the front.
LeaveInPlace(c, k) == c
CacheGet(c, k) ==
    IF Cached(c, k)
    THEN LET i == Place(c, k) IN [c EXCEPT !.data = <<@[i]>> \o RemoveAt(@, i)]
    ELSE c

\* set: the pair it replaces goes or, when the cache is full, the last one.
DropPair(c, i) == [data |-> RemoveAt(c.data, i), map |-> c.map \ {c.data[i].key}]
RoomFor(c, k) ==
    IF Cached(c, k) THEN DropPair(c, Place(c, k))
    ELSE IF Cardinality(c.map) = Capacity THEN DropPair(c, Len(c.data)) ELSE c
CacheSet(c, k, v) ==
    LET room == RoomFor(c, k) IN
    [data |-> <<[key |-> k, value |-> v]>> \o room.data, map |-> room.map \cup {k}]

-----------------------------------------------------------------------------
(* What a least-recently-used cache promises, told from the calls alone.   *)
(* The i-th call of h gets h[i].key or sets it to the value i.             *)

\* The caches after 0, 1, ... calls.
Call(c, h, n) == IF h[n].set THEN CacheSet(c, h[n].key, n) ELSE CacheGet(c, h[n].key)
CachesAfter(empty, h) ==
    LET after[n \in 0..Len(h)] == IF n = 0 THEN empty ELSE Call(after[n - 1], h, n)
    IN after

\* The keys that the calls in used have used since they used k.
UsedSince(h, used, k) ==
    {h[i].key : i \in {j \in used : \A m \in used : h[m].key = k => m < j}}

\* Whether k is found: it was used, and since then fewer than Capacity other keys.
Finds(h, used, k) ==
    /\ \E i \in used : h[i].key = k
    /\ Cardinality(UsedSince(h, used, k)) < Capacity

\* A set uses its key, and a get the key it finds.
Uses(h, hit, n) == {i \in 1..n : h[i].set \/ hit[i]}
Hits(h) ==
    LET hit[n \in DOMAIN h] == Finds(h, Uses(h, hit, n - 1), h[n].key)
    IN hit

\* The value of the last set of k in h.
LastSet(h, k) ==
    CHOOSE i \in DOMAIN h : /\ h[i].set /\ h[i].key = k
                            /\ \A j \in DOMAIN h : h[j].set /\ h[j].key = k => j <= i

\* Every sequence of calls on an empty cache leaves one whose map and list agree and
\* are within the capacity, and which finds the keys used last and no others, each
\* with the value it was set to last.
KeepsLastUsed(empty) ==
    \A h \in [1..CacheCalls -> [set : BOOLEAN, key : CacheKeys]], k \in CacheKeys :
        LET c == CachesAfter(empty, h)[CacheCalls]
            found == Finds(h, Uses(h, Hits(h), CacheCalls), k)
        IN /\ c.map = {c.data[i].key : i \in DOMAIN c.data}
           /\ Len(c.data) = Cardinality(c.map) /\ Len(c.data) <= Capacity
           /\ Cached(c, k) = found
           /\ found => CachedValue(c, k) = LastSet(h, k)
=============================================================================
