------------------------------- MODULE KeyCenter -------------------------------
(***************************************************************************)
(* The key center and the filter that asks it who may call.                *)
(*                                                                         *)
(* The key center keeps the public keys of the users in a redis of its     *)
(* own.  One thread handles /SetKyrinKey and one /GetKyrinKey, each with a *)
(* redisContext that is opened at the start and never again: a command on  *)
(* one that has failed is answered by NULL for ever.  The servers' threads *)
(* pass every request through ExamineIdentityRequestFilter, which fetches  *)
(* the public key of the issuer and compares what it makes of the          *)
(* signature with the digest of the request: it accepts what was signed    *)
(* with the private key that belongs to it.                                *)
(***************************************************************************)
EXTENDS Naturals, LruCache

CONSTANTS Ids,          \* key ids: issuers of requests, and Admin
          Admin,        \* "KeyCenterAdminPublicKey"
          Keys,         \* pairs of keys
          NoKey,        \* no key, or a text that is none
          AdminKey,     \* the key that the deployment publishes for Admin
          Threads,      \* server threads that filter requests
          Requests,     \* requests: their issuers and the keys they are signed with
          Publishers,   \* clients that call /SetKyrinKey
          Publications, \* their calls, with the keys they are signed with
          Nothing,      \* no call
          MaxPublish,   \* bound: calls of /SetKyrinKey
          MaxStart,     \* bound: restarts of the key center or of redis
          MaxFault      \* bound: stops of redis, crashes of the key center, lost
                        \*   calls and refused writes, together

ASSUME KeyCenterAssumption ==
    /\ Admin \in Ids /\ AdminKey \in Keys /\ NoKey \notin Keys
    /\ Requests \subseteq [issuer : Ids, key : Keys]
    /\ Publications \subseteq [key_id : Ids, key_public : Keys, signer : Keys]
    /\ Nothing \notin Publications \cup Requests
    /\ MaxPublish \in Nat /\ MaxStart \in Nat /\ MaxFault \in Nat

VARIABLES
    store,      \* redis: the public key of every id
    redis_up,   \* redis runs
    center_up,  \* the key center runs
    context,    \* m_redis_context of the get and of the set handler works
    pub_pc,     \* publishers: where the call is
    pub_req,    \* publishers: the call
    pc,         \* filtering threads: where the request is
    req,        \* filtering threads: the request
    seen,       \* history: the keys the issuer had since the request arrived, NoKey
                \*   also when the key center could not have been asked
    m_cache,    \* cache of KyrinRsaHelper, one for all threads of a server
    published, starts, faults   \* counters for the bounds

keycenter == <<store, redis_up, center_up, context>>
publishing == <<pub_pc, pub_req, published>>
filtering == <<pc, req, seen, m_cache>>
counters == <<starts, faults>>
vars == <<keycenter, publishing, filtering, counters>>

Fault == faults < MaxFault /\ faults' = faults + 1 /\ UNCHANGED starts
Start == starts < MaxStart /\ starts' = starts + 1 /\ UNCHANGED faults

Active(t) == pc[t] \in {"call", "asked"}
CanBeAsked == center_up /\ context["get"]

\* The reply to a call of /SetKyrinKey, which ends it.
Unanswered(p, answer) == UNCHANGED <<pub_pc, pub_req>>
Ended(p, answer) ==
    /\ pub_pc' = [pub_pc EXCEPT ![p] = answer]
    /\ pub_req' = [pub_req EXCEPT ![p] = Nothing]

\* The server threads of the key center handle one call at a time.
AnyTime == TRUE
SetThreadFree == \A p \in Publishers : pub_pc[p] # "set"
GetThreadFree == \A t \in Threads : pc[t] # "asked"

Init ==
    /\ store = [i \in Ids |-> IF i = Admin THEN AdminKey ELSE NoKey]
    /\ redis_up = TRUE /\ center_up = TRUE
    /\ context = [h \in {"get", "set"} |-> TRUE]
    /\ pub_pc = [p \in Publishers |-> "idle"]
    /\ pub_req = [p \in Publishers |-> Nothing]
    /\ pc = [t \in Threads |-> "idle"]
    /\ req = [t \in Threads |-> Nothing]
    /\ seen = [t \in Threads |-> {}]
    /\ m_cache = EmptyCache
    /\ published = 0 /\ starts = 0 /\ faults = 0

-----------------------------------------------------------------------------
(* /SetKyrinKey.                                                           *)

Publish(p) ==
    /\ pub_pc[p] \in {"idle", "ok", "bad"} /\ published < MaxPublish
    /\ published' = published + 1
    /\ pub_pc' = [pub_pc EXCEPT ![p] = "sent"]
    /\ \E r \in Publications : pub_req' = [pub_req EXCEPT ![p] = r]
    /\ UNCHANGED <<keycenter, filtering, counters>>

\* GET KeyCenterAdminPublicKey, and examine_legality.
Authorized(p) == context["set"] /\ pub_req[p].signer = store[Admin]
Authenticate(p) ==
    /\ pub_pc[p] = "sent" /\ center_up /\ SetThreadFree
    /\ \/ ~Authorized(p) /\ Ended(p, "bad")
       \/ Authorized(p) /\ pub_pc' = [pub_pc EXCEPT ![p] = "set"] /\ UNCHANGED pub_req
    /\ UNCHANGED <<keycenter, published, filtering, counters>>

\* SET: a reply of NULL is taken for a success.
SetKey(p) ==
    LET r == pub_req[p] IN
    /\ pub_pc[p] = "set" /\ center_up
    /\ Ended(p, "ok")
    /\ IF context["set"]
       THEN /\ store' = [store EXCEPT ![r.key_id] = r.key_public]
            /\ seen' = [t \in Threads |-> IF Active(t) /\ req[t].issuer = r.key_id
                                          THEN seen[t] \cup {r.key_public} ELSE seen[t]]
       ELSE UNCHANGED <<store, seen>>
    /\ UNCHANGED <<redis_up, center_up, context, published, pc, req, m_cache, counters>>

\* Redis answers SET by an error.
RefuseKey(p) ==
    /\ pub_pc[p] = "set" /\ center_up /\ context["set"]
    /\ Fault
    /\ Ended(p, "bad")
    /\ UNCHANGED <<keycenter, published, filtering>>

\* Nobody listens.
PublishFails(p) ==
    /\ pub_pc[p] = "sent" /\ ~center_up
    /\ Ended(p, "bad")
    /\ UNCHANGED <<keycenter, published, filtering, counters>>

-----------------------------------------------------------------------------
(* ExamineIdentityRequestFilter and KyrinRsaHelper.                        *)

\* A header or the body is missing.
RefuseIncomplete(t) ==
    /\ ~Active(t)
    /\ pc' = [pc EXCEPT ![t] = "idle"]
    /\ req' = [req EXCEPT ![t] = Nothing]
    /\ seen' = [seen EXCEPT ![t] = {}]
    /\ UNCHANGED <<keycenter, publishing, m_cache, counters>>

\* examine_legality.
Verdict(r, public_key) == IF public_key = r.key THEN "accepted" ELSE "refused"

\* examine_legality_from_user: only what the cache does not hold is fetched.
Arrive(t) ==
    /\ ~Active(t)
    /\ \E r \in Requests :
         /\ req' = [req EXCEPT ![t] = r]
         /\ seen' = [seen EXCEPT ![t] = {store[r.issuer]} \cup (IF CanBeAsked THEN {} ELSE {NoKey})]
         /\ m_cache' = CacheGet(m_cache, r.issuer)
         /\ pc' = [pc EXCEPT ![t] = IF Cached(m_cache, r.issuer)
                                    THEN Verdict(r, CachedValue(m_cache, r.issuer)) ELSE "call"]
    /\ UNCHANGED <<keycenter, publishing, counters>>

\* fetch_public_key: the get thread takes the call ...
Ask(t) ==
    /\ pc[t] = "call" /\ center_up /\ GetThreadFree
    /\ pc' = [pc EXCEPT ![t] = "asked"]
    /\ UNCHANGED <<keycenter, publishing, req, seen, m_cache, counters>>

\* ... and answers it.  The text of an error is taken for a key, of which no
\* signature is.  What was fetched is not kept.
Fetched(i) == IF context["get"] THEN store[i] ELSE NoKey
Remembered(c, i, k) == CacheSet(c, i, k)
NotRemembered(c, i, k) == c
Kept(c, i, k) == NotRemembered(c, i, k)
Answer(t) ==
    LET issuer == req[t].issuer IN
    /\ pc[t] = "asked" /\ center_up
    /\ pc' = [pc EXCEPT ![t] = Verdict(req[t], Fetched(issuer))]
    /\ m_cache' = Kept(m_cache, issuer, Fetched(issuer))
    /\ UNCHANGED <<keycenter, publishing, req, seen, counters>>

\* Nobody listens, or the call is lost before or after it was handled.
AskFails(t) ==
    /\ \/ pc[t] = "call" /\ ~center_up /\ UNCHANGED <<seen, counters>>
       \/ /\ pc[t] \in {"call", "asked"} /\ center_up /\ Fault
          /\ seen' = [seen EXCEPT ![t] = @ \cup {NoKey}]
    /\ pc' = [pc EXCEPT ![t] = "refused"]
    /\ UNCHANGED <<keycenter, publishing, req, m_cache>>

-----------------------------------------------------------------------------
(* Stops and restarts of redis, which keeps its data, and the key center.  *)

MayBeMissed == seen' = [t \in Threads |-> IF Active(t) THEN seen[t] \cup {NoKey} ELSE seen[t]]

StopRedis ==
    /\ redis_up /\ Fault
    /\ redis_up' = FALSE
    /\ context' = [h \in DOMAIN context |-> FALSE]
    /\ MayBeMissed
    /\ UNCHANGED <<store, center_up, publishing, pc, req, m_cache>>

StartRedis ==
    /\ ~redis_up /\ Start
    /\ redis_up' = TRUE
    /\ UNCHANGED <<store, center_up, context, publishing, filtering>>

\* The calls that the two threads were handling break.
HungUp(at) == IF at = "asked" THEN "refused" ELSE IF at = "set" THEN "bad" ELSE at
CrashCenter ==
    /\ center_up /\ Fault
    /\ center_up' = FALSE
    /\ pc' = [t \in Threads |-> HungUp(pc[t])]
    /\ pub_pc' = [p \in Publishers |-> HungUp(pub_pc[p])]
    /\ pub_req' = [p \in Publishers |-> IF HungUp(pub_pc[p]) = pub_pc[p]
                                          THEN pub_req[p] ELSE Nothing]
    /\ MayBeMissed
    /\ UNCHANGED <<store, redis_up, context, published, req, m_cache>>

\* redisConnect returns a context also when it fails, one that has failed.
StartCenter ==
    /\ ~center_up /\ Start
    /\ center_up' = TRUE
    /\ context' = [h \in DOMAIN context |-> redis_up]
    /\ UNCHANGED <<store, redis_up, publishing, filtering>>

-----------------------------------------------------------------------------
PublishStep(p) == Authenticate(p) \/ SetKey(p) \/ RefuseKey(p) \/ PublishFails(p)
FilterStep(t) == Ask(t) \/ Answer(t) \/ AskFails(t)

Next == \/ \E p \in Publishers : Publish(p) \/ PublishStep(p)
        \/ \E t \in Threads : Arrive(t) \/ RefuseIncomplete(t) \/ FilterStep(t)
        \/ StopRedis \/ StartRedis \/ CrashCenter \/ StartCenter

Spec == Init /\ [][Next]_vars

\* The threads keep running.  The get thread takes every call in the end, however
\* many arrive; those of /SetKyrinKey are few.
Fairness == /\ \A p \in Publishers : WF_vars(PublishStep(p))
            /\ \A t \in Threads : SF_vars(FilterStep(t))

LiveSpec == Spec /\ Fairness

-----------------------------------------------------------------------------
KeyTypeOK ==
    /\ store \in [Ids -> Keys \cup {NoKey}]
    /\ redis_up \in BOOLEAN /\ center_up \in BOOLEAN
    /\ context \in [{"get", "set"} -> BOOLEAN]
    /\ pub_pc \in [Publishers -> {"idle", "sent", "set", "ok", "bad"}]
    /\ pub_req \in [Publishers -> Publications \cup {Nothing}]
    /\ pc \in [Threads -> {"idle", "call", "asked", "accepted", "refused"}]
    /\ req \in [Threads -> Requests \cup {Nothing}]
    /\ seen \in [Threads -> SUBSET (Keys \cup {NoKey})]
    /\ m_cache = EmptyCache
    /\ published \in Nat /\ starts \in Nat /\ faults \in Nat

-----------------------------------------------------------------------------
(* Safety.                                                                 *)

\* A request is accepted only if it was signed with a key that its issuer had
\* between its arrival and the verdict: a key that was replaced before is of no
\* use, on whatever server thread.
AcceptedWasCurrent == \A t \in Threads : pc[t] = "accepted" => req[t].key \in seen[t]

\* A request is refused only if, between its arrival and the verdict, its issuer
\* had no key or another one, or the key center could not be asked.
RefusedForCause == \A t \in Threads : pc[t] = "refused" => seen[t] \ {req[t].key} # {}

\* A key is published only by a caller that has the administrator's key of that
\* moment, although it is compared one redis command earlier and may be replaced
\* itself.
AdminPublishes ==
    store' # store => \E p \in Publishers : /\ pub_pc[p] = "set" /\ pub_pc'[p] = "ok"
                                            /\ pub_req[p].signer = store[Admin]
PublishedByAdmin == [][AdminPublishes]_vars

\* The cache, from the state the helper creates it in and in fact leaves it in, finds
\* the keys used last and no others, each with the value it was set to last.
EmptyKeepsLastUsed == KeepsLastUsed(EmptyCache)
CacheKeepsLastUsed == m_cache = EmptyCache /\ EmptyKeepsLastUsed

-----------------------------------------------------------------------------
(* Liveness, under LiveSpec.                                               *)

\* Every call of the filter and of /SetKyrinKey comes to an end, whatever stops.
CallsEnd == /\ \A t \in Threads : Active(t) ~> ~Active(t)
            /\ \A p \in Publishers : pub_pc[p] = "sent" ~> pub_pc[p] \in {"ok", "bad"}
=============================================================================
