---------------------------- MODULE KeyCenterProofs ----------------------------
(***************************************************************************)
(* Theorems about KeyCenter: the safety properties that the run key_center *)
(* checks hold for any number of users, keys, threads and publishers, and  *)
(* the cache keeps what it promises at any capacity, after any calls.      *)
(***************************************************************************)
EXTENDS KeyCenter, FiniteSetTheorems, WellFoundedInduction, TLAPS

\* What a request that is being filtered may have seen: the key its issuer has
\* now, and no key if the key center cannot be asked now.
SeenInv == \A t \in Threads : Active(t) =>
    /\ req[t] \in Requests
    /\ store[req[t].issuer] \in seen[t]
    /\ CanBeAsked \/ NoKey \in seen[t]

\* The verdicts.
VerdictInv == \A t \in Threads : pc[t] \in {"accepted", "refused"} =>
    /\ req[t] \in Requests
    /\ pc[t] = "accepted" => req[t].key \in seen[t]
    /\ pc[t] = "refused" => \E k \in seen[t] : k # req[t].key

\* One call at a time is between GET and SET, and the key it was compared with is
\* the administrator's still.
SetInv ==
    /\ \A p \in Publishers : pub_pc[p] \in {"sent", "set"} => pub_req[p] \in Publications
    /\ \A p \in Publishers : pub_pc[p] = "set" => pub_req[p].signer = store[Admin]
    /\ \A p, q \in Publishers : pub_pc[p] = "set" /\ pub_pc[q] = "set" => p = q

IInv == KeyTypeOK /\ SeenInv /\ VerdictInv /\ SetInv

LEMMA InitInv == Init => IInv
BY KeyCenterAssumption DEF Init, IInv, KeyTypeOK, SeenInv, VerdictInv, SetInv, Active

\* The calls of /SetKyrinKey.
LEMMA PublishInv ==
  ASSUME IInv, NEW p \in Publishers, Publish(p) \/ PublishStep(p)
  PROVE  IInv'
<1>. USE KeyCenterAssumption
<1>t. KeyTypeOK /\ SeenInv /\ VerdictInv /\ SetInv
  BY DEF IInv
<1>1. ASSUME UNCHANGED <<keycenter, filtering>> PROVE SeenInv' /\ VerdictInv'
  BY <1>t, <1>1 DEF SeenInv, VerdictInv, Active, CanBeAsked, keycenter, filtering
<1>2. CASE Publish(p)
  <2>1. KeyTypeOK'
    BY <1>t, <1>2 DEF Publish, KeyTypeOK, keycenter, filtering, counters
  <2>2. SetInv'
    BY <1>t, <1>2 DEF Publish, SetInv, KeyTypeOK, keycenter
  <2>. QED
    BY <1>1, <1>2, <2>1, <2>2 DEF IInv, Publish
<1>3. CASE Authenticate(p)
  <2>1. KeyTypeOK'
    BY <1>t, <1>3 DEF Authenticate, Ended, KeyTypeOK, keycenter, filtering, counters
  <2>2. SetInv'
    BY <1>t, <1>3 DEF Authenticate, Ended, Authorized, SetThreadFree, SetInv, KeyTypeOK, keycenter
  <2>. QED
    BY <1>1, <1>3, <2>1, <2>2 DEF IInv, Authenticate
<1>4. CASE RefuseKey(p) \/ PublishFails(p)
  <2>1. KeyTypeOK'
    BY <1>t, <1>4 DEF RefuseKey, PublishFails, Fault, Ended, KeyTypeOK, keycenter, filtering, counters
  <2>2. SetInv'
    BY <1>t, <1>4 DEF RefuseKey, PublishFails, Ended, SetInv, KeyTypeOK, keycenter
  <2>. QED
    BY <1>1, <1>4, <2>1, <2>2 DEF IInv, RefuseKey, PublishFails
<1>5. CASE SetKey(p)
  <2>. DEFINE r == pub_req[p]
  <2>1. /\ r \in Publications /\ r.key_id \in Ids /\ r.key_public \in Keys
        /\ pub_pc[p] = "set" /\ \A q \in Publishers \ {p} : pub_pc[q] # "set"
    BY <1>t, <1>5 DEF SetKey, SetInv
  <2>2. KeyTypeOK'
    BY <1>t, <1>5, <2>1 DEF SetKey, Ended, KeyTypeOK, counters
  <2>3. SetInv'
    BY <1>t, <1>5, <2>1 DEF SetKey, Ended, SetInv, KeyTypeOK
  <2>4. SeenInv'
    BY <1>t, <1>5, <2>1 DEF SetKey, SeenInv, Active, CanBeAsked, KeyTypeOK
  <2>5. VerdictInv'
    BY <1>t, <1>5, <2>1 DEF SetKey, VerdictInv, Active, KeyTypeOK
  <2>. QED
    BY <2>2, <2>3, <2>4, <2>5 DEF IInv
<1>. QED
  BY <1>2, <1>3, <1>4, <1>5 DEF PublishStep

\* The filter.
LEMMA FilterInv ==
  ASSUME IInv, NEW t \in Threads, Arrive(t) \/ RefuseIncomplete(t) \/ FilterStep(t)
  PROVE  IInv'
<1>. USE KeyCenterAssumption
<1>t. KeyTypeOK /\ SeenInv /\ VerdictInv /\ SetInv
  BY DEF IInv
<1>s. ASSUME UNCHANGED <<store, publishing>> PROVE SetInv'
  BY <1>t, <1>s DEF SetInv, publishing
<1>1. CASE Arrive(t)
  <2>1. PICK r \in Requests :
          /\ req' = [req EXCEPT ![t] = r]
          /\ seen' = [seen EXCEPT ![t] = {store[r.issuer]} \cup (IF CanBeAsked THEN {} ELSE {NoKey})]
          /\ m_cache' = CacheGet(m_cache, r.issuer)
          /\ pc' = [pc EXCEPT ![t] = IF Cached(m_cache, r.issuer)
                                     THEN Verdict(r, CachedValue(m_cache, r.issuer)) ELSE "call"]
    BY <1>1 DEF Arrive
  <2>2. m_cache' = EmptyCache /\ pc' = [pc EXCEPT ![t] = "call"]
    BY <1>t, <2>1 DEF KeyTypeOK, CacheGet, Cached, EmptyCache
  <2>3. KeyTypeOK'
    BY <1>t, <1>1, <2>1, <2>2 DEF Arrive, KeyTypeOK, keycenter, publishing, counters
  <2>4. SeenInv'
    BY <1>t, <1>1, <2>1, <2>2 DEF Arrive, SeenInv, KeyTypeOK, Active, CanBeAsked, keycenter
  <2>5. VerdictInv'
    BY <1>t, <2>1, <2>2 DEF VerdictInv, KeyTypeOK
  <2>. QED
    BY <1>s, <1>1, <2>3, <2>4, <2>5 DEF IInv, Arrive, keycenter
<1>2. CASE RefuseIncomplete(t)
  <2>1. KeyTypeOK'
    BY <1>t, <1>2 DEF RefuseIncomplete, KeyTypeOK, keycenter, publishing, counters
  <2>2. SeenInv' /\ VerdictInv'
    BY <1>t, <1>2 DEF RefuseIncomplete, SeenInv, VerdictInv, KeyTypeOK, Active, CanBeAsked, keycenter
  <2>. QED
    BY <1>s, <1>2, <2>1, <2>2 DEF IInv, RefuseIncomplete, keycenter
<1>3. CASE Ask(t)
  <2>1. KeyTypeOK'
    BY <1>t, <1>3 DEF Ask, KeyTypeOK, keycenter, publishing, counters
  <2>2. SeenInv' /\ VerdictInv'
    BY <1>t, <1>3 DEF Ask, SeenInv, VerdictInv, KeyTypeOK, Active, CanBeAsked, keycenter
  <2>. QED
    BY <1>s, <1>3, <2>1, <2>2 DEF IInv, Ask, keycenter
<1>4. CASE Answer(t)
  <2>. DEFINE fetched == Fetched(req[t].issuer)
  <2>1. /\ req[t] \in Requests /\ store[req[t].issuer] \in seen[t] /\ center_up
        /\ CanBeAsked \/ NoKey \in seen[t]
    BY <1>t, <1>4 DEF Answer, SeenInv, Active
  <2>2. fetched \in seen[t] /\ m_cache' = EmptyCache
    BY <1>t, <1>4, <2>1 DEF Answer, Fetched, Kept, NotRemembered, CanBeAsked, KeyTypeOK
  <2>3. pc' = [pc EXCEPT ![t] = IF fetched = req[t].key THEN "accepted" ELSE "refused"]
    BY <1>4 DEF Answer, Verdict
  <2>4. KeyTypeOK'
    BY <1>t, <1>4, <2>2, <2>3 DEF Answer, KeyTypeOK, keycenter, publishing, counters
  <2>5. SeenInv'
    BY <1>t, <1>4, <2>3 DEF Answer, SeenInv, KeyTypeOK, Active, CanBeAsked, keycenter
  <2>6. VerdictInv'
    BY <1>t, <1>4, <2>1, <2>2, <2>3 DEF Answer, VerdictInv, KeyTypeOK
  <2>. QED
    BY <1>s, <1>4, <2>4, <2>5, <2>6 DEF IInv, Answer, keycenter
<1>5. CASE AskFails(t)
  <2>1. /\ req[t] \in Requests /\ req[t].key \in Keys
        /\ NoKey \in seen'[t] /\ seen'[t] \subseteq Keys \cup {NoKey}
        /\ seen' = [seen EXCEPT ![t] = seen'[t]]
    BY <1>t, <1>5 DEF AskFails, SeenInv, Active, CanBeAsked, KeyTypeOK
  <2>2. KeyTypeOK'
    BY <1>t, <1>5, <2>1 DEF AskFails, Fault, KeyTypeOK, keycenter, publishing, counters
  <2>3. SeenInv'
    BY <1>t, <1>5, <2>1 DEF AskFails, SeenInv, KeyTypeOK, Active, CanBeAsked, keycenter
  <2>4. VerdictInv'
    BY <1>t, <1>5, <2>1 DEF AskFails, VerdictInv, KeyTypeOK
  <2>. QED
    BY <1>s, <1>5, <2>2, <2>3, <2>4 DEF IInv, AskFails, keycenter
<1>. QED
  BY <1>1, <1>2, <1>3, <1>4, <1>5 DEF FilterStep

\* Redis and the key center stop and start.
LEMMA ProcessInv ==
  ASSUME IInv, StopRedis \/ StartRedis \/ CrashCenter \/ StartCenter
  PROVE  IInv'
<1>. USE KeyCenterAssumption
<1>t. KeyTypeOK /\ SeenInv /\ VerdictInv /\ SetInv
  BY DEF IInv
<1>1. CASE StopRedis
  <2>0. seen' \in [Threads -> SUBSET (Keys \cup {NoKey})]
    BY <1>t, <1>1 DEF StopRedis, MayBeMissed, KeyTypeOK
  <2>a. context' \in [{"get", "set"} -> BOOLEAN]
    BY <1>t, <1>1 DEF StopRedis, KeyTypeOK
  <2>b. faults' \in Nat /\ starts' \in Nat
    BY <1>t, <1>1 DEF StopRedis, Fault, KeyTypeOK
  <2>c. redis_up' \in BOOLEAN /\ UNCHANGED <<store, center_up, pub_pc, pub_req, published, pc, req, m_cache>>
    BY <1>1 DEF StopRedis, publishing
  <2>1. KeyTypeOK'
    BY <1>t, <2>0, <2>a, <2>b, <2>c DEF KeyTypeOK
  <2>2. SeenInv' /\ VerdictInv'
    BY <1>t, <1>1 DEF StopRedis, MayBeMissed, SeenInv, VerdictInv, KeyTypeOK, Active, CanBeAsked
  <2>3. SetInv'
    BY <1>t, <1>1 DEF StopRedis, SetInv, publishing
  <2>. QED
    BY <2>1, <2>2, <2>3 DEF IInv
<1>2. CASE StartRedis
  <2>1. KeyTypeOK'
    BY <1>t, <1>2 DEF StartRedis, Start, KeyTypeOK, publishing, filtering
  <2>2. SeenInv' /\ VerdictInv' /\ SetInv'
    BY <1>t, <1>2 DEF StartRedis, SeenInv, VerdictInv, SetInv, Active, CanBeAsked, publishing, filtering
  <2>. QED
    BY <2>1, <2>2 DEF IInv
<1>3. CASE CrashCenter
  <2>0. seen' \in [Threads -> SUBSET (Keys \cup {NoKey})]
    BY <1>t, <1>3 DEF CrashCenter, MayBeMissed, KeyTypeOK
  <2>a. /\ pc' \in [Threads -> {"idle", "call", "asked", "accepted", "refused"}]
        /\ pub_pc' \in [Publishers -> {"idle", "sent", "set", "ok", "bad"}]
        /\ pub_req' \in [Publishers -> Publications \cup {Nothing}]
    BY <1>t, <1>3 DEF CrashCenter, HungUp, KeyTypeOK
  <2>b. faults' \in Nat /\ starts' \in Nat
    BY <1>t, <1>3 DEF CrashCenter, Fault, KeyTypeOK
  <2>c. center_up' \in BOOLEAN /\ UNCHANGED <<store, redis_up, context, published, req, m_cache>>
    BY <1>3 DEF CrashCenter
  <2>1. KeyTypeOK'
    BY <1>t, <2>0, <2>a, <2>b, <2>c DEF KeyTypeOK
  <2>2. SeenInv'
    BY <1>t, <1>3 DEF CrashCenter, MayBeMissed, HungUp, SeenInv, KeyTypeOK, Active, CanBeAsked
  <2>3. VerdictInv'
    BY <1>t, <1>3 DEF CrashCenter, MayBeMissed, HungUp, SeenInv, VerdictInv, KeyTypeOK, Active
  <2>4. SetInv'
    BY <1>t, <1>3 DEF CrashCenter, HungUp, SetInv, KeyTypeOK
  <2>. QED
    BY <2>1, <2>2, <2>3, <2>4 DEF IInv
<1>4. CASE StartCenter
  <2>1. KeyTypeOK'
    BY <1>t, <1>4 DEF StartCenter, Start, KeyTypeOK, publishing, filtering
  <2>2. SeenInv' /\ VerdictInv' /\ SetInv'
    BY <1>t, <1>4 DEF StartCenter, SeenInv, VerdictInv, SetInv, Active, CanBeAsked, publishing, filtering
  <2>. QED
    BY <2>1, <2>2 DEF IInv
<1>. QED
  BY <1>1, <1>2, <1>3, <1>4

LEMMA NextInv == IInv /\ [Next]_vars => IInv'
<1>. SUFFICES ASSUME IInv, [Next]_vars PROVE IInv'
  OBVIOUS
<1>1. CASE Next
  BY <1>1, PublishInv, FilterInv, ProcessInv DEF Next
<1>2. CASE UNCHANGED vars
  BY <1>2 DEF IInv, KeyTypeOK, SeenInv, VerdictInv, SetInv, Active, CanBeAsked,
              vars, keycenter, publishing, filtering, counters
<1>. QED
  BY <1>1, <1>2

LEMMA Invariance == Spec => []IInv
BY InitInv, NextInv, PTL DEF Spec

-----------------------------------------------------------------------------
\* No server accepts a request that was signed with a key its issuer did not have
\* while it was filtered.
THEOREM AcceptedTheorem == Spec => []AcceptedWasCurrent
<1>1. IInv => AcceptedWasCurrent
  BY DEF IInv, VerdictInv, AcceptedWasCurrent
<1>. QED
  BY <1>1, Invariance, PTL

\* No server refuses a request that was signed with the only key its issuer had
\* meanwhile, unless the key center could not be asked.
THEOREM RefusedTheorem == Spec => []RefusedForCause
<1>1. IInv => RefusedForCause
  BY DEF IInv, VerdictInv, RefusedForCause
<1>. QED
  BY <1>1, Invariance, PTL

\* Every key in redis was put there by a holder of the administrator's key, because
\* one thread handles the calls one after the other.
THEOREM PublishTheorem == Spec => PublishedByAdmin
<1>1. IInv /\ [Next]_vars => [AdminPublishes]_vars
  <2>. SUFFICES ASSUME IInv, [Next]_vars, store' # store
                PROVE  \E p \in Publishers : /\ pub_pc[p] = "set" /\ pub_pc'[p] = "ok"
                                             /\ pub_req[p].signer = store[Admin]
    BY DEF AdminPublishes
  <2>1. PICK p \in Publishers : SetKey(p)
    BY DEF Next, vars, keycenter, Publish, PublishStep, Authenticate, RefuseKey, PublishFails,
           Arrive, RefuseIncomplete, FilterStep, Ask, Answer, AskFails,
           StopRedis, StartRedis, CrashCenter, StartCenter
  <2>. QED
    BY <2>1 DEF SetKey, Ended, IInv, SetInv, KeyTypeOK
<1>. QED
  BY <1>1, Invariance, PTL DEF Spec, PublishedByAdmin

-----------------------------------------------------------------------------
(* The cache of the helper.                                                *)

Pairs == [key : CacheKeys, value : Nat]
CacheCall == [set : BOOLEAN, key : CacheKeys]
KeysTo(c, m) == {c.data[q].key : q \in 1..m}

\* The list and the map agree and are within the capacity.
Fits(c) ==
    /\ c \in [data : Seq(Pairs), map : SUBSET CacheKeys]
    /\ c.map = KeysTo(c, Len(c.data))
    /\ \A p, q \in 1..Len(c.data) : c.data[p].key = c.data[q].key => p = q
    /\ Len(c.data) <= Capacity

\* The list is in the order of the last uses, and what is not in it has been used
\* before all that is.
ByUse(c, h, used) ==
    /\ \A p \in 1..Len(c.data) :
         /\ \E i \in used : h[i].key = c.data[p].key
         /\ UsedSince(h, used, c.data[p].key) = KeysTo(c, p - 1)
    /\ \A i \in used : h[i].key \notin c.map =>
         Len(c.data) = Capacity /\ c.map \subseteq UsedSince(h, used, h[i].key)

\* A value is that of the last set of its key.
NewestOf(h, k, n, v) ==
    v \in 1..n /\ h[v].set /\ h[v].key = k /\ \A j \in 1..n : h[j].set /\ h[j].key = k => j <= v
Newest(c, h, n) == \A p \in 1..Len(c.data) : NewestOf(h, c.data[p].key, n, c.data[p].value)

\* The pair of k has come to the front, and place i is the one it, the last pair or
\* nothing was in.
Fronted(c, d, k, i) ==
    /\ d \in [data : Seq(Pairs), map : SUBSET CacheKeys]
    /\ i \in 1..(Len(c.data) + 1)
    /\ \/ i <= Len(c.data) /\ c.data[i].key = k /\ d.map = c.map
       \/ /\ k \notin c.map /\ i = Len(c.data) /\ Len(c.data) = Capacity
          /\ d.map = (c.map \ {c.data[i].key}) \cup {k}
       \/ /\ k \notin c.map /\ i = Len(c.data) + 1 /\ Len(c.data) < Capacity
          /\ d.map = c.map \cup {k}
    /\ Len(d.data) = IF i <= Len(c.data) THEN Len(c.data) ELSE Len(c.data) + 1
    /\ d.data[1].key = k
    /\ \A q \in 1..Len(c.data) : /\ q < i => d.data[q + 1] = c.data[q]
                                 /\ q > i => d.data[q] = c.data[q]

\* Induction up to n, for a set.
LEMMA CountingUp ==
  ASSUME NEW n \in Nat, NEW S, 0 \in S, \A k \in 0..n : k \in S /\ k < n => k + 1 \in S
  PROVE  0..n \subseteq S
<1>. DEFINE Left == {k \in Nat : k <= n /\ k \notin S}
<1>1. SUFFICES ASSUME Left # {} PROVE FALSE
  OBVIOUS
<1>2. PICK k \in Left : \A j \in Left : ~(<<j, k>> \in OpToRel(<, Nat))
  BY <1>1, NatLessThanWellFounded, WFMin, Zenon
<1>3. \A j \in Left : ~(j < k)
  BY <1>2 DEF OpToRel
<1>4. k \in Nat /\ k <= n /\ k \notin S /\ k # 0
  BY <1>2
<1>5. k - 1 \in Nat /\ k - 1 < k /\ k - 1 < n /\ (k - 1) + 1 = k
  BY <1>4
<1>6. k - 1 \in S
  BY <1>3, <1>5
<1>. QED
  BY <1>4, <1>5, <1>6

\* The keys of the first m pairs are m keys.
LEMMA KeysAreCounted ==
  ASSUME NEW c, Fits(c), NEW m \in 0..Len(c.data)
  PROVE  IsFiniteSet(KeysTo(c, m)) /\ Cardinality(KeysTo(c, m)) = m
<1>. DEFINE L == Len(c.data)
            S == {j \in 0..L : IsFiniteSet(KeysTo(c, j)) /\ Cardinality(KeysTo(c, j)) = j}
<1>1. L \in Nat
  BY DEF Fits
<1>2. 0 \in S
  <2>1. KeysTo(c, 0) = {}
    BY DEF KeysTo
  <2>2. IsFiniteSet({}) /\ Cardinality({}) = 0
    BY FS_EmptySet
  <2>3. IsFiniteSet(KeysTo(c, 0)) /\ Cardinality(KeysTo(c, 0)) = 0
    BY <2>1, <2>2
  <2>. QED
    BY <1>1, <2>3
<1>3. ASSUME NEW j \in 0..L, j \in S, j < L PROVE j + 1 \in S
  <2>1. KeysTo(c, j + 1) = KeysTo(c, j) \cup {c.data[j + 1].key}
    BY <1>1 DEF KeysTo
  <2>2. c.data[j + 1].key \notin KeysTo(c, j)
    BY <1>1, <1>3 DEF KeysTo, Fits
  <2>3. IsFiniteSet(KeysTo(c, j)) /\ Cardinality(KeysTo(c, j)) = j
    BY <1>3
  <2>4. IsFiniteSet(KeysTo(c, j + 1)) /\ Cardinality(KeysTo(c, j + 1)) = j + 1
    <3>. DEFINE K == KeysTo(c, j)
                k == c.data[j + 1].key
    <3>1. IsFiniteSet(K) /\ Cardinality(K) = j /\ k \notin K
      BY <2>2, <2>3
    <3>. HIDE DEF K, k
    <3>2. IsFiniteSet(K \cup {k}) /\ Cardinality(K \cup {k}) = j + 1
      BY <3>1, FS_AddElement
    <3>. QED
      BY <2>1, <3>2 DEF K, k
  <2>. QED
    BY <1>1, <1>3, <2>4
<1>4. 0..L \subseteq S
  <2>. HIDE DEF S, L
  <2>. QED
    BY <1>1, <1>2, <1>3, CountingUp
<1>. QED
  BY <1>4

\* What is found is what the cache holds.
LEMMA FoundIsCached ==
  ASSUME NEW c, Fits(c), NEW h, NEW n \in Nat, NEW used \in SUBSET (1..n), ByUse(c, h, used), NEW k
  PROVE  Finds(h, used, k) <=> k \in c.map
<1>1. CASE k \in c.map
  <2>1. PICK p \in 1..Len(c.data) : c.data[p].key = k
    BY <1>1 DEF Fits, KeysTo
  <2>2. Len(c.data) \in Nat /\ Len(c.data) <= Capacity
    BY DEF Fits
  <2>3. Cardinality(UsedSince(h, used, k)) = p - 1
    BY <2>1, <2>2, KeysAreCounted DEF ByUse
  <2>4. \E i \in used : h[i].key = k
    BY <2>1 DEF ByUse
  <2>. QED
    BY <1>1, <2>2, <2>3, <2>4, CacheAssumption DEF Finds
<1>2. CASE k \notin c.map
  <2>. SUFFICES ASSUME NEW i \in used, h[i].key = k
                PROVE  ~(Cardinality(UsedSince(h, used, k)) < Capacity)
    BY <1>2 DEF Finds
  <2>1. Len(c.data) = Capacity /\ c.map \subseteq UsedSince(h, used, k)
    BY <1>2 DEF ByUse
  <2>2. IsFiniteSet(UsedSince(h, used, k))
    <3>1. IsFiniteSet(1..n)
      BY FS_Interval
    <3>2. IsFiniteSet({j \in used : \A m \in used : h[m].key = k => m < j})
      BY <3>1, FS_Subset
    <3>. QED
      <4>. DEFINE J == {j \in used : \A m \in used : h[m].key = k => m < j}
                  f == [j \in J |-> h[j].key]
      <4>1. UsedSince(h, used, k) = {f[j] : j \in J}
        BY DEF UsedSince
      <4>2. f \in Surjection(J, {f[j] : j \in J})
        BY DEF Surjection
      <4>. HIDE DEF J, f
      <4>3. IsFiniteSet({f[j] : j \in J})
        BY <3>2, <4>2, FS_Surjection DEF J
      <4>. QED
        BY <4>1, <4>3
  <2>3. Cardinality(c.map) = Capacity
    BY <2>1, KeysAreCounted DEF Fits
  <2>4. Cardinality(c.map) <= Cardinality(UsedSince(h, used, k))
    BY <2>1, <2>2, FS_Subset
  <2>. QED
    BY <2>2, <2>3, <2>4, FS_CardinalityType, CacheAssumption
<1>. QED
  BY <1>1, <1>2

\* One more use.
LEMMA UsedOnceMore ==
  ASSUME NEW n \in Nat, NEW used \in SUBSET (1..n), NEW more, more = used \cup {n + 1}, NEW h, NEW k
  PROVE  /\ h[n + 1].key = k => UsedSince(h, more, k) = {}
         /\ h[n + 1].key # k =>
              \A x : x \in UsedSince(h, more, k) <=> x \in UsedSince(h, used, k) \/ x = h[n + 1].key
<1>1. CASE h[n + 1].key = k
  BY <1>1 DEF UsedSince
<1>2. CASE h[n + 1].key # k
  <2>. DEFINE since == {j \in used : \A m \in used : h[m].key = k => m < j}
              later == {j \in more : \A m \in more : h[m].key = k => m < j}
  <2>1. later = since \cup {n + 1}
    BY <1>2
  <2>2. UsedSince(h, more, k) = {h[j].key : j \in later}
    BY DEF UsedSince
  <2>3. UsedSince(h, used, k) = {h[j].key : j \in since}
    BY DEF UsedSince
  <2>. HIDE DEF since, later
  <2>. QED
    BY <1>2, <2>1, <2>2, <2>3
<1>. QED
  BY <1>1, <1>2

\* The pairs behind the front, and the keys before a place.
FrontedPairs(c, d, k, i) ==
    /\ \A p \in 2..Len(d.data) : p <= i =>
         p - 1 \in 1..Len(c.data) /\ d.data[p] = c.data[p - 1] /\ c.data[p - 1].key # k
    /\ \A p \in 2..Len(d.data) : p > i =>
         p \in 1..Len(c.data) /\ d.data[p] = c.data[p] /\ c.data[p].key # k
FrontedKeys(c, d, k, i) ==
    /\ \A q \in 1..Len(d.data) : q <= i => KeysTo(d, q) = {k} \cup KeysTo(c, q - 1)
    /\ \A q \in i..Len(c.data) : c.data[i].key = k => KeysTo(d, q) = KeysTo(c, q)
LEMMA FrontedPlaces ==
  ASSUME NEW c, Fits(c), NEW d, NEW k \in CacheKeys, NEW i, Fronted(c, d, k, i)
  PROVE  FrontedPairs(c, d, k, i) /\ FrontedKeys(c, d, k, i)
<1>. DEFINE L == Len(c.data)
<1>1. L \in Nat /\ Len(d.data) \in Nat /\ i \in 1..(L + 1)
  BY DEF Fits, Fronted
<1>2. Len(d.data) = IF i <= L THEN L ELSE L + 1
  BY DEF Fronted
<1>3. \A q \in 1..L : (q < i => d.data[q + 1] = c.data[q]) /\ (q > i => d.data[q] = c.data[q])
  BY DEF Fronted
<1>4. d.data[1].key = k
  BY DEF Fronted
<1>5. \A r \in 1..L : r # i => c.data[r].key # k
  BY <1>1 DEF Fits, Fronted, KeysTo
<1>6. ASSUME NEW p \in 2..Len(d.data)
      PROVE  /\ p <= i => p - 1 \in 1..L /\ d.data[p] = c.data[p - 1] /\ c.data[p - 1].key # k
             /\ p > i => p \in 1..L /\ d.data[p] = c.data[p] /\ c.data[p].key # k
  <2>1. CASE p <= i
    <3>1. p - 1 \in 1..L /\ p - 1 < i /\ (p - 1) + 1 = p /\ ~(p > i)
      BY <1>1, <1>2, <2>1
    <3>2. d.data[(p - 1) + 1] = c.data[p - 1] /\ c.data[p - 1].key # k
      BY <1>3, <1>5, <3>1
    <3>. QED
      BY <3>1, <3>2
  <2>2. CASE p > i
    <3>1. p \in 1..L
      BY <1>1, <1>2, <2>2
    <3>. QED
      BY <1>1, <1>3, <1>5, <2>2, <3>1
  <2>. QED
    BY <1>1, <2>1, <2>2
<1>7. ASSUME NEW q \in 1..Len(d.data), q <= i
      PROVE  KeysTo(d, q) = {k} \cup KeysTo(c, q - 1)
  <2>1. \A p \in 1..q : p = 1 \/ (p - 1 \in 1..(q - 1) /\ d.data[p] = c.data[p - 1])
    BY <1>1, <1>6, <1>7
  <2>2. \A p \in 1..(q - 1) : p + 1 \in 1..q /\ d.data[p + 1] = c.data[p]
    BY <1>1, <1>2, <1>3, <1>7
  <2>3. KeysTo(d, q) \subseteq {k} \cup KeysTo(c, q - 1)
    BY <1>4, <2>1 DEF KeysTo
  <2>4. KeysTo(c, q - 1) \subseteq KeysTo(d, q)
    BY <2>2 DEF KeysTo
  <2>5. k \in KeysTo(d, q)
    BY <1>1, <1>4 DEF KeysTo
  <2>. QED
    BY <2>3, <2>4, <2>5
<1>8. ASSUME NEW q \in i..L, c.data[i].key = k
      PROVE  KeysTo(d, q) = KeysTo(c, q)
  <2>1. KeysTo(d, i) = {k} \cup KeysTo(c, i - 1)
    BY <1>1, <1>2, <1>7, <1>8
  <2>2. KeysTo(d, i) = KeysTo(c, i)
    <3>1. 1..i = 1..(i - 1) \cup {i}
      BY <1>1
    <3>2. KeysTo(c, i) = KeysTo(c, i - 1) \cup {c.data[i].key}
      BY <3>1 DEF KeysTo
    <3>. QED
      BY <1>8, <2>1, <3>2
  <2>3. \A p \in (i + 1)..q : d.data[p] = c.data[p]
    BY <1>1, <1>3, <1>8
  <2>4. KeysTo(d, q) = KeysTo(d, i) \cup {d.data[p].key : p \in (i + 1)..q}
    BY <1>1, <1>8 DEF KeysTo
  <2>5. KeysTo(c, q) = KeysTo(c, i) \cup {c.data[p].key : p \in (i + 1)..q}
    BY <1>1, <1>8 DEF KeysTo
  <2>6. {d.data[p].key : p \in (i + 1)..q} = {c.data[p].key : p \in (i + 1)..q}
    BY <2>3
  <2>. QED
    BY <2>2, <2>4, <2>5, <2>6
<1>. QED
  BY <1>6, <1>7, <1>8 DEF FrontedPairs, FrontedKeys

LEMMA FrontedFits ==
  ASSUME NEW c, Fits(c), NEW d, NEW k \in CacheKeys, NEW i, Fronted(c, d, k, i)
  PROVE  Fits(d)
<1>. DEFINE L == Len(c.data)
<1>1. L \in Nat /\ Len(d.data) \in Nat /\ i \in 1..(L + 1) /\ L <= Capacity
  BY DEF Fits, Fronted
<1>2. Len(d.data) = IF i <= L THEN L ELSE L + 1
  BY DEF Fronted
<1>3. d \in [data : Seq(Pairs), map : SUBSET CacheKeys] /\ d.data[1].key = k
  BY DEF Fronted
<1>4. Len(d.data) <= Capacity
  BY <1>1, <1>2, CacheAssumption DEF Fronted
<1>5. ASSUME NEW p \in 1..Len(d.data), NEW q \in 1..Len(d.data), d.data[p].key = d.data[q].key
      PROVE  p = q
  <2>1. \A a, b \in 1..L : c.data[a].key = c.data[b].key => a = b
    BY DEF Fits
  <2>a. FrontedPairs(c, d, k, i)
    BY FrontedPlaces
  <2>2. /\ \A a \in 2..Len(d.data) : a <= i =>
             a - 1 \in 1..L /\ d.data[a] = c.data[a - 1] /\ c.data[a - 1].key # k
        /\ \A a \in 2..Len(d.data) : a > i =>
             a \in 1..L /\ d.data[a] = c.data[a] /\ c.data[a].key # k
    BY <2>a DEF FrontedPairs
  <2>3. CASE p = 1 \/ q = 1
    BY <1>1, <1>3, <1>5, <2>2, <2>3
  <2>4. CASE p \in 2..Len(d.data) /\ q \in 2..Len(d.data)
    <3>1. PICK a \in 1..L : (p <= i => a = p - 1) /\ (p > i => a = p) /\ d.data[p] = c.data[a]
      BY <1>1, <2>2, <2>4
    <3>2. PICK b \in 1..L : (q <= i => b = q - 1) /\ (q > i => b = q) /\ d.data[q] = c.data[b]
      BY <1>1, <2>2, <2>4
    <3>3. a = b
      BY <1>5, <2>1, <3>1, <3>2
    <3>. QED
      BY <1>1, <2>4, <3>1, <3>2, <3>3
  <2>. QED
    BY <1>1, <2>3, <2>4
<1>6. d.map = KeysTo(d, Len(d.data))
  <2>k. FrontedKeys(c, d, k, i)
    BY FrontedPlaces
  <2>a. \A q \in 1..Len(d.data) : q <= i => KeysTo(d, q) = {k} \cup KeysTo(c, q - 1)
    BY <2>k DEF FrontedKeys
  <2>b. \A q \in i..L : c.data[i].key = k => KeysTo(d, q) = KeysTo(c, q)
    BY <2>k DEF FrontedKeys
  <2>0. c.map = KeysTo(c, L)
    BY DEF Fits
  <2>1. CASE i <= L /\ c.data[i].key = k /\ d.map = c.map
    BY <1>1, <1>2, <2>0, <2>1, <2>b
  <2>2. CASE i = L /\ d.map = (c.map \ {c.data[i].key}) \cup {k}
    <3>1. KeysTo(d, L) = {k} \cup KeysTo(c, L - 1)
      BY <1>1, <1>2, <2>2, <2>a
    <3>2. KeysTo(c, L) = KeysTo(c, L - 1) \cup {c.data[L].key}
      BY <1>1, <2>2 DEF KeysTo
    <3>3. c.data[L].key \notin KeysTo(c, L - 1)
      BY <1>1, <2>2 DEF KeysTo, Fits
    <3>. QED
      BY <1>1, <1>2, <2>0, <2>2, <3>1, <3>2, <3>3
  <2>3. CASE i = L + 1 /\ d.map = c.map \cup {k}
    BY <1>1, <1>2, <2>0, <2>3, <2>a
  <2>. QED
    BY <2>1, <2>2, <2>3 DEF Fronted
<1>. QED
  BY <1>3, <1>4, <1>5, <1>6 DEF Fits

\* A use brings its key to the front, and keeps the order of the others.
LEMMA FrontedByUse ==
  ASSUME NEW c, Fits(c), NEW d, NEW k \in CacheKeys, NEW i, Fronted(c, d, k, i),
         NEW n \in Nat, NEW used \in SUBSET (1..n), NEW h, h[n + 1].key = k, ByUse(c, h, used),
         NEW more, more = used \cup {n + 1}
  PROVE  ByUse(d, h, more)
<1>. DEFINE L == Len(c.data)
<1>1. L \in Nat /\ Len(d.data) \in Nat /\ i \in 1..(L + 1) /\ L <= Capacity
  BY DEF Fits, Fronted
<1>2. Len(d.data) = IF i <= L THEN L ELSE L + 1
  BY DEF Fronted
<1>3. d.data[1].key = k
  BY DEF Fronted
<1>4. ASSUME NEW x
      PROVE  /\ x = k => UsedSince(h, more, x) = {}
             /\ x # k => UsedSince(h, more, x) = UsedSince(h, used, x) \cup {k}
  <2>1. /\ h[n + 1].key = x => UsedSince(h, more, x) = {}
        /\ h[n + 1].key # x =>
             \A y : y \in UsedSince(h, more, x) <=> y \in UsedSince(h, used, x) \/ y = h[n + 1].key
    BY UsedOnceMore
  <2>. QED
    BY <2>1
<1>f. Fits(d)
  BY FrontedFits
<1>p. FrontedPairs(c, d, k, i)
  BY FrontedPlaces
<1>k. FrontedKeys(c, d, k, i)
  BY FrontedPlaces
<1>a. \A q \in 1..Len(d.data) : q <= i => KeysTo(d, q) = {k} \cup KeysTo(c, q - 1)
  BY <1>k DEF FrontedKeys
<1>b. \A q \in i..L : c.data[i].key = k => KeysTo(d, q) = KeysTo(c, q)
  BY <1>k DEF FrontedKeys
<1>5. ASSUME NEW p \in 1..Len(d.data)
      PROVE  /\ \E j \in more : h[j].key = d.data[p].key
             /\ UsedSince(h, more, d.data[p].key) = KeysTo(d, p - 1)
  <2>1. CASE p = 1
    <3>1. KeysTo(d, p - 1) = {}
      BY <2>1 DEF KeysTo
    <3>. QED
      BY <1>3, <1>4, <2>1, <3>1
  <2>2. CASE p # 1
    <3>0. p \in 2..Len(d.data)
      BY <1>1, <2>2
    <3>1. PICK r \in 1..L : /\ p <= i => r = p - 1
                            /\ p > i => r = p
                            /\ d.data[p] = c.data[r] /\ c.data[r].key # k
      BY <1>1, <1>p, <3>0 DEF FrontedPairs
    <3>2. (\E j \in used : h[j].key = d.data[p].key) /\ UsedSince(h, used, d.data[p].key) = KeysTo(c, r - 1)
      BY <3>1 DEF ByUse
    <3>3. UsedSince(h, more, d.data[p].key) = KeysTo(c, r - 1) \cup {k}
      BY <1>4, <3>1, <3>2
    <3>4. CASE p <= i
      <4>1. p - 1 \in 1..Len(d.data) /\ p - 1 <= i /\ r - 1 = (p - 1) - 1
        BY <1>1, <2>2, <3>1, <3>4
      <4>2. KeysTo(d, p - 1) = {k} \cup KeysTo(c, r - 1)
        BY <1>a, <4>1
      <4>. QED
        BY <3>2, <3>3, <4>2
    <3>5. CASE p > i
      <4>1. i <= L /\ i # L /\ r - 1 = p - 1 /\ p - 1 \in i..L
        BY <1>1, <1>2, <3>1, <3>5
      <4>2. c.data[i].key = k
        BY <1>1, <4>1 DEF Fronted
      <4>3. KeysTo(d, p - 1) = KeysTo(c, r - 1)
        BY <1>b, <4>1, <4>2
      <4>4. k \in KeysTo(c, r - 1)
        BY <1>1, <4>1, <4>2 DEF KeysTo
      <4>. QED
        BY <3>2, <3>3, <4>3, <4>4
    <3>. QED
      BY <1>1, <3>4, <3>5
  <2>. QED
    BY <2>1, <2>2
<1>6. ASSUME NEW j \in more, h[j].key \notin d.map
      PROVE  Len(d.data) = Capacity /\ d.map \subseteq UsedSince(h, more, h[j].key)
  <2>. DEFINE x == h[j].key
  <2>0. k \in d.map
    <3>1. 1 \in 1..Len(d.data)
      BY <1>1, <1>2
    <3>. QED
      BY <1>3, <1>f, <3>1 DEF Fits, KeysTo
  <2>1. j \in used /\ x # k
    BY <1>6, <2>0
  <2>2. UsedSince(h, more, x) = UsedSince(h, used, x) \cup {k}
    BY <1>4, <2>1
  <2>3. CASE x \notin c.map
    <3>1. L = Capacity /\ c.map \subseteq UsedSince(h, used, x)
      BY <2>1, <2>3 DEF ByUse
    <3>2. Len(d.data) = Capacity /\ d.map \subseteq c.map \cup {k}
      BY <1>1, <1>2, <3>1 DEF Fronted
    <3>. QED
      BY <2>2, <3>1, <3>2
  <2>4. CASE x \in c.map
    <3>1. i = L /\ L = Capacity /\ x = c.data[i].key /\ d.map = (c.map \ {x}) \cup {k}
      BY <1>6, <2>4 DEF Fronted
    <3>2. UsedSince(h, used, x) = KeysTo(c, L - 1)
      BY <1>1, <3>1 DEF ByUse
    <3>3. c.map \ {x} \subseteq KeysTo(c, L - 1)
      BY <1>1, <3>1 DEF Fits, KeysTo
    <3>. QED
      BY <1>1, <1>2, <2>2, <3>1, <3>2, <3>3
  <2>. QED
    BY <2>3, <2>4
<1>. QED
  BY <1>5, <1>6 DEF ByUse

\* Its value is the newest, and so are the others still.
LEMMA FrontedNewest ==
  ASSUME NEW c, Fits(c), NEW d, NEW k \in CacheKeys, NEW i, Fronted(c, d, k, i),
         NEW n \in Nat, NEW h, h[n + 1].key = k, Newest(c, h, n),
         NewestOf(h, k, n + 1, d.data[1].value)
  PROVE  Newest(d, h, n + 1)
<1>1. Len(c.data) \in Nat /\ Len(d.data) \in Nat /\ i \in 1..(Len(c.data) + 1) /\ d.data[1].key = k
  BY DEF Fits, Fronted
<1>2. FrontedPairs(c, d, k, i)
  BY FrontedPlaces
<1>3. ASSUME NEW p \in 1..Len(d.data), p # 1
      PROVE  \E r \in 1..Len(c.data) : d.data[p] = c.data[r] /\ c.data[r].key # k
  <2>1. p \in 2..Len(d.data)
    BY <1>1, <1>3
  <2>2. CASE p <= i
    <3>1. p - 1 \in 1..Len(c.data) /\ d.data[p] = c.data[p - 1] /\ c.data[p - 1].key # k
      BY <1>2, <2>1, <2>2 DEF FrontedPairs
    <3>. QED
      BY <3>1
  <2>3. CASE p > i
    <3>1. p \in 1..Len(c.data) /\ d.data[p] = c.data[p] /\ c.data[p].key # k
      BY <1>2, <2>1, <2>3 DEF FrontedPairs
    <3>. QED
      BY <3>1
  <2>. QED
    BY <1>1, <2>1, <2>2, <2>3
<1>4. ASSUME NEW p \in 1..Len(d.data)
      PROVE  NewestOf(h, d.data[p].key, n + 1, d.data[p].value)
  <2>1. CASE p = 1
    BY <1>1, <2>1
  <2>2. CASE p # 1
    <3>1. PICK r \in 1..Len(c.data) : d.data[p] = c.data[r] /\ c.data[r].key # k
      BY <1>3, <2>2
    <3>2. NewestOf(h, c.data[r].key, n, c.data[r].value)
      BY <3>1 DEF Newest
    <3>3. NewestOf(h, c.data[r].key, n + 1, c.data[r].value)
      BY <3>1, <3>2 DEF NewestOf
    <3>. QED
      BY <3>1, <3>3
  <2>. QED
    BY <2>1, <2>2
<1>. QED
  BY <1>4 DEF Newest

-----------------------------------------------------------------------------
(* get and set.                                                            *)

LEMMA PlaceOfCached ==
  ASSUME NEW c, Fits(c), NEW k \in c.map
  PROVE  Place(c, k) \in 1..Len(c.data) /\ c.data[Place(c, k)].key = k
<1>1. DOMAIN c.data = 1..Len(c.data)
  BY DEF Fits
<1>2. \E i \in DOMAIN c.data : c.data[i].key = k
  BY <1>1 DEF Fits, KeysTo
<1>. QED
  BY <1>1, <1>2 DEF Place

LEMMA WithoutPlace ==
  ASSUME NEW s \in Seq(Pairs), NEW i \in 1..Len(s)
  PROVE  /\ RemoveAt(s, i) \in Seq(Pairs)
         /\ Len(RemoveAt(s, i)) = Len(s) - 1
         /\ \A q \in 1..Len(s) : q < i => RemoveAt(s, i)[q] = s[q]
         /\ \A q \in 1..Len(s) : q > i => RemoveAt(s, i)[q - 1] = s[q]
<1>. DEFINE a == SubSeq(s, 1, i - 1)
            b == SubSeq(s, i + 1, Len(s))
<1>1. a \in Seq(Pairs) /\ Len(a) = i - 1 /\ \A q \in 1..(i - 1) : a[q] = s[q]
  OBVIOUS
<1>2. b \in Seq(Pairs) /\ Len(b) = Len(s) - i /\ \A q \in 1..(Len(s) - i) : b[q] = s[i + q]
  OBVIOUS
<1>3. RemoveAt(s, i) = a \o b
  BY DEF RemoveAt
<1>. HIDE DEF a, b
<1>4. /\ a \o b \in Seq(Pairs) /\ Len(a \o b) = Len(s) - 1
      /\ \A q \in 1..(i - 1) : (a \o b)[q] = a[q]
      /\ \A q \in 1..(Len(s) - i) : (a \o b)[(i - 1) + q] = b[q]
  <2>0. a \in Seq(Pairs) /\ b \in Seq(Pairs)
    BY <1>1, <1>2
  <2>1. a \o b \in Seq(Pairs) /\ Len(a \o b) = Len(a) + Len(b)
    BY <2>0
  <2>2. \A q \in 1..Len(a) : (a \o b)[q] = a[q]
    BY <1>1, <1>2
  <2>3. \A q \in 1..Len(b) : (a \o b)[Len(a) + q] = b[q]
    BY <1>1, <1>2
  <2>4. Len(a) = i - 1 /\ Len(b) = Len(s) - i /\ Len(a) + Len(b) = Len(s) - 1
    BY <1>1, <1>2
  <2>5. \A q \in 1..(Len(s) - i) : (a \o b)[(i - 1) + q] = b[q]
    BY <2>3, <2>4
  <2>. QED
    BY <2>1, <2>2, <2>4, <2>5
<1>5. ASSUME NEW q \in 1..Len(s), q > i PROVE (a \o b)[q - 1] = s[q]
  <2>1. q - i \in 1..(Len(s) - i) /\ (i - 1) + (q - i) = q - 1 /\ i + (q - i) = q
    BY <1>5
  <2>. QED
    BY <1>2, <1>4, <2>1
<1>6. \A q \in 1..Len(s) : q < i => RemoveAt(s, i)[q] = s[q]
  <2>1. \A q \in 1..Len(s) : q < i => q \in 1..(i - 1)
    OBVIOUS
  <2>. QED
    BY <1>1, <1>3, <1>4, <2>1
<1>7. \A q \in 1..Len(s) : q > i => RemoveAt(s, i)[q - 1] = s[q]
  BY <1>3, <1>5
<1>. QED
  BY <1>3, <1>4, <1>6, <1>7

LEMMA InFront ==
  ASSUME NEW s \in Seq(Pairs), NEW e \in Pairs
  PROVE  /\ <<e>> \o s \in Seq(Pairs) /\ Len(<<e>> \o s) = Len(s) + 1 /\ (<<e>> \o s)[1] = e
         /\ \A q \in 1..Len(s) : (<<e>> \o s)[q + 1] = s[q]
OBVIOUS

\* The list that is left without the pair at a place, with another one in front.
Reordered(s, i, e, t) ==
    /\ t \in Seq(Pairs) /\ Len(t) = Len(s) /\ t[1] = e
    /\ \A q \in 1..Len(s) : (q < i => t[q + 1] = s[q]) /\ (q > i => t[q] = s[q])

LEMMA InFrontOfRest ==
  ASSUME NEW s \in Seq(Pairs), NEW i \in 1..Len(s), NEW e \in Pairs, NEW t, t = <<e>> \o RemoveAt(s, i)
  PROVE  Reordered(s, i, e, t)
<1>. DEFINE r == RemoveAt(s, i)
<1>1. /\ r \in Seq(Pairs) /\ Len(r) = Len(s) - 1
      /\ \A q \in 1..Len(s) : q < i => r[q] = s[q]
      /\ \A q \in 1..Len(s) : q > i => r[q - 1] = s[q]
  BY WithoutPlace
<1>. HIDE DEF r
<1>2. /\ t \in Seq(Pairs) /\ Len(t) = Len(r) + 1 /\ t[1] = e
      /\ \A q \in 1..Len(r) : t[q + 1] = r[q]
  BY <1>1, InFront DEF r
<1>3. ASSUME NEW q \in 1..Len(s), q < i PROVE t[q + 1] = s[q]
  BY <1>1, <1>2, <1>3
<1>4. ASSUME NEW q \in 1..Len(s), q > i PROVE t[q] = s[q]
  <2>1. q - 1 \in 1..Len(r) /\ (q - 1) + 1 = q
    BY <1>1, <1>4
  <2>. QED
    BY <1>1, <1>2, <1>4, <2>1
<1>. QED
  BY <1>1, <1>2, <1>3, <1>4 DEF Reordered

\* get of a key that is cached.
LEMMA GetFronts ==
  ASSUME NEW c, Fits(c), NEW k \in c.map
  PROVE  /\ Fronted(c, CacheGet(c, k), k, Place(c, k))
         /\ CacheGet(c, k).data[1] = c.data[Place(c, k)]
<1>. DEFINE i == Place(c, k)
            d == CacheGet(c, k)
<1>1. i \in 1..Len(c.data) /\ c.data[i].key = k
  BY PlaceOfCached
<1>2. c \in [data : Seq(Pairs), map : SUBSET CacheKeys] /\ Len(c.data) \in Nat /\ c.data[i] \in Pairs
  BY <1>1 DEF Fits
<1>3. d.data = <<c.data[i]>> \o RemoveAt(c.data, i) /\ d.map = c.map
      /\ d \in [data : {d.data}, map : {c.map}]
  BY <1>2 DEF CacheGet, Cached
<1>. HIDE DEF i, d
<1>4. /\ d.data \in Seq(Pairs) /\ Len(d.data) = Len(c.data) /\ d.data[1] = c.data[i]
      /\ \A q \in 1..Len(c.data) : (q < i => d.data[q + 1] = c.data[q]) /\ (q > i => d.data[q] = c.data[q])
  <2>1. Reordered(c.data, i, c.data[i], d.data)
    BY <1>1, <1>2, <1>3, InFrontOfRest
  <2>. QED
    BY <2>1 DEF Reordered
<1>5. d \in [data : Seq(Pairs), map : SUBSET CacheKeys]
  BY <1>2, <1>3, <1>4
<1>6. Fronted(c, d, k, i)
  BY <1>1, <1>2, <1>3, <1>4, <1>5 DEF Fronted
<1>. QED
  BY <1>4, <1>6 DEF i, d

\* set.
LEMMA SetFronts ==
  ASSUME NEW c, Fits(c), NEW k \in CacheKeys, NEW v \in Nat
  PROVE  /\ \E i : Fronted(c, CacheSet(c, k, v), k, i)
         /\ CacheSet(c, k, v).data[1].value = v
<1>. DEFINE d == CacheSet(c, k, v)
            e == [key |-> k, value |-> v]
            room == RoomFor(c, k)
            L == Len(c.data)
<1>1. c \in [data : Seq(Pairs), map : SUBSET CacheKeys] /\ L \in Nat /\ L <= Capacity /\ e \in Pairs
  BY DEF Fits, Pairs
<1>2. d.data = <<e>> \o room.data /\ d.map = room.map \cup {k} /\ d \in [data : {d.data}, map : {d.map}]
  BY DEF CacheSet
<1>3. Cardinality(c.map) = L
  BY <1>1, KeysAreCounted DEF Fits
<1>4. ASSUME NEW i \in 1..L, room = DropPair(c, i),
             \/ k \in c.map /\ c.data[i].key = k
             \/ k \notin c.map /\ i = L /\ L = Capacity
      PROVE  Fronted(c, d, k, i) /\ d.data[1] = e
  <2>1. room.data = RemoveAt(c.data, i) /\ room.map = c.map \ {c.data[i].key}
    BY <1>4 DEF DropPair
  <2>. HIDE DEF d, e, room
  <2>2. /\ d.data \in Seq(Pairs) /\ Len(d.data) = Len(c.data) /\ d.data[1] = e
        /\ \A q \in 1..Len(c.data) : (q < i => d.data[q + 1] = c.data[q]) /\ (q > i => d.data[q] = c.data[q])
    <3>1. Reordered(c.data, i, e, d.data)
      BY <1>1, <1>2, <2>1, InFrontOfRest
    <3>. QED
      BY <3>1 DEF Reordered
  <2>3. d \in [data : Seq(Pairs), map : SUBSET CacheKeys]
    BY <1>1, <1>2, <2>1, <2>2
  <2>4. d.map = (c.map \ {c.data[i].key}) \cup {k}
    BY <1>2, <2>1
  <2>5. e.key = k
    BY DEF e
  <2>. QED
    BY <1>1, <1>4, <2>2, <2>3, <2>4, <2>5 DEF Fronted
<1>5. CASE k \in c.map
  <2>1. room = DropPair(c, Place(c, k))
    BY <1>5 DEF RoomFor, Cached
  <2>2. Place(c, k) \in 1..L /\ c.data[Place(c, k)].key = k
    BY <1>5, PlaceOfCached
  <2>3. Fronted(c, d, k, Place(c, k)) /\ d.data[1] = e
    BY <1>4, <1>5, <2>1, <2>2
  <2>. QED
    BY <2>3
<1>6. CASE k \notin c.map /\ L = Capacity
  <2>1. room = DropPair(c, L)
    BY <1>3, <1>6 DEF RoomFor, Cached
  <2>2. L \in 1..L
    BY <1>1, <1>6, CacheAssumption
  <2>3. Fronted(c, d, k, L) /\ d.data[1] = e
    BY <1>4, <1>6, <2>1, <2>2
  <2>. QED
    BY <2>3
<1>7. CASE k \notin c.map /\ L # Capacity
  <2>1. room = c
    BY <1>3, <1>7 DEF RoomFor, Cached
  <2>. HIDE DEF d, e, room
  <2>2. /\ d.data \in Seq(Pairs) /\ Len(d.data) = L + 1 /\ d.data[1] = e
        /\ \A q \in 1..L : d.data[q + 1] = c.data[q]
    BY <1>1, <1>2, <2>1, InFront
  <2>3. d \in [data : Seq(Pairs), map : SUBSET CacheKeys] /\ d.map = c.map \cup {k}
    BY <1>1, <1>2, <2>1, <2>2
  <2>4. e.key = k /\ e.value = v
    BY DEF e
  <2>5. Fronted(c, d, k, L + 1)
    BY <1>1, <1>7, <2>2, <2>3, <2>4, CacheAssumption DEF Fronted
  <2>. QED
    BY <2>2, <2>4, <2>5 DEF d
<1>. QED
  BY <1>5, <1>6, <1>7

-----------------------------------------------------------------------------
(* Any number of calls.                                                    *)

LastUsedKept(c, h, used, n) == Fits(c) /\ ByUse(c, h, used) /\ Newest(c, h, n)

LEMMA OneCall ==
  ASSUME NEW c, NEW h, NEW n \in Nat, NEW used \in SUBSET (1..n), LastUsedKept(c, h, used, n),
         h[n + 1] \in CacheCall,
         NEW more, more = IF h[n + 1].set \/ Finds(h, used, h[n + 1].key) THEN used \cup {n + 1} ELSE used
  PROVE  LastUsedKept(Call(c, h, n + 1), h, more, n + 1)
<1>. DEFINE k == h[n + 1].key
            d == Call(c, h, n + 1)
<1>1. Fits(c) /\ ByUse(c, h, used) /\ Newest(c, h, n) /\ k \in CacheKeys /\ h[n + 1].set \in BOOLEAN
  BY DEF LastUsedKept, CacheCall
<1>2. Finds(h, used, k) <=> k \in c.map
  BY <1>1, FoundIsCached
<1>. HIDE DEF d
<1>3. CASE h[n + 1].set
  <2>1. d = CacheSet(c, k, n + 1) /\ more = used \cup {n + 1}
    BY <1>3 DEF Call, d
  <2>2. d.data[1].value = n + 1 /\ \E i : Fronted(c, d, k, i)
    BY <1>1, <2>1, SetFronts
  <2>3. PICK i : Fronted(c, d, k, i)
    BY <2>2
  <2>4. Fits(d)
    BY <1>1, <2>3, FrontedFits
  <2>5. ByUse(d, h, more)
    BY <1>1, <2>1, <2>3, FrontedByUse
  <2>6. Newest(d, h, n + 1)
    <3>1. NewestOf(h, k, n + 1, n + 1)
      BY <1>3 DEF NewestOf
    <3>2. NewestOf(h, k, n + 1, d.data[1].value)
      BY <2>2, <3>1
    <3>. QED
      BY <1>1, <2>3, <3>2, FrontedNewest
  <2>. QED
    BY <2>4, <2>5, <2>6 DEF LastUsedKept, d
<1>4. CASE ~h[n + 1].set /\ k \in c.map
  <2>. DEFINE i == Place(c, k)
  <2>1. d = CacheGet(c, k) /\ more = used \cup {n + 1}
    BY <1>2, <1>4 DEF Call, d
  <2>2. Fronted(c, d, k, i) /\ d.data[1] = c.data[i]
    BY <1>1, <1>4, <2>1, GetFronts
  <2>3. i \in 1..Len(c.data) /\ c.data[i].key = k
    BY <1>1, <1>4, PlaceOfCached
  <2>. HIDE DEF i
  <2>4. Fits(d)
    BY <1>1, <2>2, FrontedFits
  <2>5. ByUse(d, h, more)
    BY <1>1, <2>1, <2>2, FrontedByUse
  <2>6. Newest(d, h, n + 1)
    <3>1. NewestOf(h, k, n, c.data[i].value)
      BY <1>1, <2>3 DEF Newest
    <3>2. NewestOf(h, k, n + 1, c.data[i].value)
      BY <1>4, <3>1 DEF NewestOf
    <3>3. NewestOf(h, k, n + 1, d.data[1].value)
      BY <2>2, <3>2
    <3>. QED
      BY <1>1, <2>2, <3>3, FrontedNewest
  <2>. QED
    BY <2>4, <2>5, <2>6 DEF LastUsedKept, d
<1>5. CASE ~h[n + 1].set /\ k \notin c.map
  <2>1. d = c /\ more = used
    BY <1>2, <1>5 DEF Call, CacheGet, Cached, d
  <2>2. Newest(c, h, n + 1)
    BY <1>1, <1>5 DEF Newest, NewestOf
  <2>. QED
    BY <1>1, <2>1, <2>2 DEF LastUsedKept, d
<1>. QED
  BY <1>3, <1>4, <1>5

\* What the recursive definitions of the caches and the hits mean.
LEMMA CachesFollow ==
  ASSUME NEW empty, NEW h, Len(h) \in Nat
  PROVE  /\ CachesAfter(empty, h)[0] = empty
         /\ \A n \in 1..Len(h) : CachesAfter(empty, h)[n] = Call(CachesAfter(empty, h)[n - 1], h, n)
<1>. DEFINE L == Len(h)
            G(f, m) == [n \in 0..m |-> IF n = 0 THEN empty ELSE Call(f[n - 1], h, n)]
            S == {m \in 0..L : \E f : f = G(f, m)}
<1>1. 0 \in S
  <2>. DEFINE f == [n \in 0..0 |-> empty]
  <2>1. f = G(f, 0)
    OBVIOUS
  <2>. HIDE DEF f, G
  <2>. QED
    BY <2>1
<1>2. ASSUME NEW m \in 0..L, m \in S, m < L PROVE m + 1 \in S
  <2>1. PICK f : f = G(f, m)
    BY <1>2
  <2>. DEFINE g == [n \in 0..(m + 1) |-> IF n = m + 1 THEN Call(f[m], h, m + 1) ELSE f[n]]
  <2>2. ASSUME NEW n \in 0..(m + 1)
        PROVE  g[n] = IF n = 0 THEN empty ELSE Call(g[n - 1], h, n)
    <3>1. CASE n = m + 1
      <4>1. n # 0 /\ n - 1 = m /\ g[n] = Call(f[m], h, n) /\ g[m] = f[m]
        BY <3>1
      <4>. QED
        BY <4>1
    <3>2. CASE n # m + 1 /\ n # 0
      <4>1. n \in 0..m /\ n - 1 \in 0..m /\ n - 1 # m + 1
        BY <3>2
      <4>2. g[n] = f[n] /\ g[n - 1] = f[n - 1]
        BY <4>1, <3>2
      <4>3. f[n] = Call(f[n - 1], h, n)
        BY <2>1, <3>2, <4>1
      <4>. QED
        BY <3>2, <4>2, <4>3
    <3>3. CASE n = 0
      <4>1. 0 \in 0..m /\ n # m + 1
        BY <3>3
      <4>2. f[0] = empty
        BY <2>1, <4>1
      <4>. QED
        BY <3>3, <4>1, <4>2
    <3>. QED
      BY <3>1, <3>2, <3>3
  <2>3. g = G(g, m + 1)
    BY <2>2
  <2>. HIDE DEF g, G
  <2>. QED
    BY <1>2, <2>3
<1>3. L \in S
  <2>1. L \in 0..L
    OBVIOUS
  <2>. HIDE DEF S
  <2>2. 0..L \subseteq S
    BY <1>1, <1>2, CountingUp
  <2>. QED
    BY <2>1, <2>2
<1>4. CachesAfter(empty, h) = CHOOSE f : f = G(f, L)
  BY DEF CachesAfter
<1>5. CachesAfter(empty, h) = G(CachesAfter(empty, h), L)
  <2>1. \E f : f = G(f, L)
    BY <1>3
  <2>. HIDE DEF G
  <2>. QED
    BY <1>4, <2>1
<1>6. \A n \in 0..L : CachesAfter(empty, h)[n] = IF n = 0 THEN empty ELSE Call(CachesAfter(empty, h)[n - 1], h, n)
  BY <1>5
<1>. QED
  BY <1>6

LEMMA HitsFollow ==
  ASSUME NEW h, Len(h) \in Nat, DOMAIN h = 1..Len(h)
  PROVE  \A n \in 1..Len(h) : Hits(h)[n] = Finds(h, Uses(h, Hits(h), n - 1), h[n].key)
<1>. DEFINE L == Len(h)
            G(f, m) == [n \in 1..m |-> Finds(h, Uses(h, f, n - 1), h[n].key)]
            S == {m \in 0..L : \E f : f = G(f, m)}
<1>1. 0 \in S
  <2>. DEFINE f == [n \in 1..0 |-> FALSE]
  <2>1. f = G(f, 0)
    OBVIOUS
  <2>. HIDE DEF f, G
  <2>. QED
    BY <2>1
<1>2. ASSUME NEW m \in 0..L, m \in S, m < L PROVE m + 1 \in S
  <2>1. PICK f : f = G(f, m)
    BY <1>2
  <2>. DEFINE g == [n \in 1..(m + 1) |-> IF n = m + 1 THEN Finds(h, Uses(h, f, m), h[m + 1].key) ELSE f[n]]
  <2>2. \A n \in 1..m : g[n] = f[n]
    OBVIOUS
  <2>3. \A n \in 1..(m + 1) : Uses(h, g, n - 1) = Uses(h, f, n - 1)
    BY <2>2 DEF Uses
  <2>4. ASSUME NEW n \in 1..(m + 1)
        PROVE  g[n] = Finds(h, Uses(h, g, n - 1), h[n].key)
    <3>1. CASE n = m + 1
      <4>1. n - 1 = m /\ g[n] = Finds(h, Uses(h, f, m), h[n].key)
        BY <3>1
      <4>2. Uses(h, g, n - 1) = Uses(h, f, n - 1)
        BY <2>3
      <4>. QED
        BY <4>1, <4>2
    <3>2. CASE n # m + 1
      <4>1. n \in 1..m /\ g[n] = f[n]
        BY <3>2
      <4>2. f[n] = Finds(h, Uses(h, f, n - 1), h[n].key)
        BY <2>1, <4>1
      <4>3. Uses(h, g, n - 1) = Uses(h, f, n - 1)
        BY <2>3
      <4>. QED
        BY <4>1, <4>2, <4>3
    <3>. QED
      BY <3>1, <3>2
  <2>5. g = G(g, m + 1)
    BY <2>4
  <2>. HIDE DEF g, G
  <2>. QED
    BY <1>2, <2>5
<1>3. L \in S
  <2>1. L \in 0..L
    OBVIOUS
  <2>. HIDE DEF S
  <2>2. 0..L \subseteq S
    BY <1>1, <1>2, CountingUp
  <2>. QED
    BY <2>1, <2>2
<1>4. Hits(h) = CHOOSE f : f = G(f, L)
  BY DEF Hits
<1>5. Hits(h) = G(Hits(h), L)
  <2>1. \E f : f = G(f, L)
    BY <1>3
  <2>. HIDE DEF G
  <2>. QED
    BY <1>4, <2>1
<1>. QED
  BY <1>5

\* After n calls the cache is what its users expect.
LEMMA CallsKeep ==
  ASSUME NEW h \in Seq(CacheCall), NEW n \in 0..Len(h)
  PROVE  LastUsedKept(CachesAfter(EmptyCache, h)[n], h, Uses(h, Hits(h), n), n)
<1>. DEFINE L == Len(h)
            A == CachesAfter(EmptyCache, h)
            H == Hits(h)
            S == {m \in 0..L : LastUsedKept(A[m], h, Uses(h, H, m), m)}
<1>1. L \in Nat /\ DOMAIN h = 1..L
  OBVIOUS
<1>2. A[0] = EmptyCache /\ \A m \in 1..L : A[m] = Call(A[m - 1], h, m)
  BY <1>1, CachesFollow
<1>3. \A m \in 1..L : H[m] = Finds(h, Uses(h, H, m - 1), h[m].key)
  BY <1>1, HitsFollow
<1>. HIDE DEF A, H
<1>4. 0 \in S
  <2>1. EmptyCache.data = << >> /\ EmptyCache.map = {}
    BY DEF EmptyCache
  <2>2. Fits(EmptyCache)
    BY <2>1, CacheAssumption DEF Fits, KeysTo, EmptyCache
  <2>3. Uses(h, H, 0) = {}
    BY DEF Uses
  <2>4. ByUse(EmptyCache, h, {}) /\ Newest(EmptyCache, h, 0)
    BY <2>1 DEF ByUse, Newest
  <2>. QED
    <3>1. LastUsedKept(EmptyCache, h, {}, 0)
      BY <2>2, <2>4 DEF LastUsedKept
    <3>2. LastUsedKept(A[0], h, Uses(h, H, 0), 0)
      BY <1>2, <2>3, <3>1
    <3>. QED
      BY <1>1, <3>2
<1>5. ASSUME NEW m \in 0..L, m \in S, m < L PROVE m + 1 \in S
  <2>. DEFINE used == Uses(h, H, m)
              more == Uses(h, H, m + 1)
  <2>1. m + 1 \in 1..L /\ (m + 1) - 1 = m /\ m \in Nat
    BY <1>1, <1>5
  <2>2. A[m + 1] = Call(A[m], h, m + 1) /\ H[m + 1] = Finds(h, used, h[m + 1].key)
    BY <1>2, <1>3, <2>1
  <2>3. h[m + 1] \in CacheCall
    BY <2>1
  <2>4. used \in SUBSET (1..m)
    BY DEF Uses
  <2>5. more = IF h[m + 1].set \/ H[m + 1] THEN used \cup {m + 1} ELSE used
    BY <2>1 DEF Uses
  <2>. HIDE DEF used, more
  <2>6. LastUsedKept(A[m], h, used, m)
    BY <1>5 DEF used
  <2>7. LastUsedKept(Call(A[m], h, m + 1), h, more, m + 1)
    BY <2>1, <2>2, <2>3, <2>4, <2>5, <2>6, OneCall
  <2>8. LastUsedKept(A[m + 1], h, Uses(h, H, m + 1), m + 1)
    BY <2>2, <2>7 DEF more
  <2>. QED
    BY <2>1, <2>8
<1>6. 0..L \subseteq S
  <2>. HIDE DEF S
  <2>. QED
    BY <1>1, <1>4, <1>5, CountingUp
<1>. QED
  BY <1>6 DEF A, H

\* Every sequence of calls leaves a cache that finds the keys used last and no others,
\* each with the value it was set to last: KeepsLastUsed, for every capacity.
THEOREM CacheTheorem == KeepsLastUsed(EmptyCache)
<1>. SUFFICES ASSUME NEW h \in [1..CacheCalls -> CacheCall], NEW k \in CacheKeys
              PROVE  LET c == CachesAfter(EmptyCache, h)[CacheCalls]
                         found == Finds(h, Uses(h, Hits(h), CacheCalls), k)
                     IN /\ c.map = {c.data[i].key : i \in DOMAIN c.data}
                        /\ Len(c.data) = Cardinality(c.map) /\ Len(c.data) <= Capacity
                        /\ Cached(c, k) = found
                        /\ found => CachedValue(c, k) = LastSet(h, k)
  BY DEF KeepsLastUsed, CacheCall
<1>. DEFINE c == CachesAfter(EmptyCache, h)[CacheCalls]
            used == Uses(h, Hits(h), CacheCalls)
            found == Finds(h, used, k)
<1>1. h \in Seq(CacheCall) /\ Len(h) = CacheCalls /\ CacheCalls \in Nat /\ DOMAIN h = 1..CacheCalls
  BY CacheAssumption
<1>2. CacheCalls \in 0..Len(h)
  BY <1>1
<1>3. LastUsedKept(c, h, used, CacheCalls)
  BY <1>1, <1>2, CallsKeep
<1>4. used \in SUBSET (1..CacheCalls)
  BY DEF Uses
<1>. HIDE DEF c, used
<1>5. Fits(c) /\ ByUse(c, h, used) /\ Newest(c, h, CacheCalls)
  BY <1>3 DEF LastUsedKept
<1>6. c.map = {c.data[i].key : i \in DOMAIN c.data}
  BY <1>5 DEF Fits, KeysTo
<1>7. Len(c.data) = Cardinality(c.map) /\ Len(c.data) <= Capacity
  <2>1. Len(c.data) \in 0..Len(c.data) /\ c.map = KeysTo(c, Len(c.data)) /\ Len(c.data) <= Capacity
    BY <1>5 DEF Fits
  <2>. QED
    BY <1>5, <2>1, KeysAreCounted
<1>8. Cached(c, k) = found
  <2>1. found <=> k \in c.map
    BY <1>1, <1>4, <1>5, FoundIsCached
  <2>2. found \in BOOLEAN
    BY DEF Finds
  <2>. QED
    BY <2>1, <2>2 DEF Cached
<1>9. ASSUME found PROVE CachedValue(c, k) = LastSet(h, k)
  <2>1. k \in c.map
    BY <1>8, <1>9 DEF Cached
  <2>. DEFINE p == Place(c, k)
              v == c.data[p].value
  <2>2. p \in 1..Len(c.data) /\ c.data[p].key = k
    BY <1>5, <2>1, PlaceOfCached
  <2>3. /\ v \in 1..CacheCalls /\ h[v].set /\ h[v].key = k
        /\ \A j \in 1..CacheCalls : h[j].set /\ h[j].key = k => j <= v
    BY <1>5, <2>2 DEF Newest, NewestOf
  <2>. HIDE DEF v
  <2>4. LastSet(h, k) = v
    <3>. DEFINE SetLast(i) == h[i].set /\ h[i].key = k /\ \A j \in DOMAIN h : h[j].set /\ h[j].key = k => j <= i
    <3>1. LastSet(h, k) = CHOOSE i \in DOMAIN h : SetLast(i)
      BY DEF LastSet
    <3>2. v \in DOMAIN h /\ SetLast(v)
      BY <1>1, <2>3
    <3>3. ASSUME NEW i \in DOMAIN h, SetLast(i) PROVE i = v
      <4>1. i \in 1..CacheCalls /\ v <= i /\ i <= v
        BY <1>1, <2>3, <3>2, <3>3
      <4>. QED
        BY <1>1, <2>3, <4>1
    <3>. HIDE DEF SetLast
    <3>. QED
      BY <3>1, <3>2, <3>3
  <2>. QED
    BY <2>4 DEF CachedValue, v
<1>. QED
  BY <1>6, <1>7, <1>8, <1>9 DEF c, used

\* The cache of KyrinRsaHelper is in fact always empty, and an empty cache keeps the
\* keys used last.
THEOREM CacheKeepsLastUsedTheorem == Spec => []CacheKeepsLastUsed
<1>1. IInv => CacheKeepsLastUsed
  BY CacheTheorem DEF IInv, KeyTypeOK, CacheKeepsLastUsed, EmptyKeepsLastUsed
<1>. QED
  BY <1>1, Invariance, PTL
=============================================================================
