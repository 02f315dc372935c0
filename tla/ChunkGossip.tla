------------------------------ MODULE ChunkGossip ------------------------------
(***************************************************************************)
(* The gossip of the KyrinBox chunk servers: who is alive.                 *)
(*                                                                         *)
(* Every chunk server keeps a KyrinChunkGossiperStatus, four lists of      *)
(* kbids, their configs and a timestamp in seconds.  Its sync thread       *)
(* (gossip_sync) calls /GetStatus of up to four of the chunks it knows per *)
(* round, moves the ones that fail or come back between the lists, and     *)
(* replaces the whole status by the one of the callee when that is newer.  *)
(* Its server thread (KyrinChunkGossiperServer) registers callers it does  *)
(* not know and answers with the status.  m_status_lock is held within one *)
(* operation of the status, which is the grain of the actions.             *)
(***************************************************************************)
EXTENDS Naturals, FiniteSets

CONSTANTS Chunks,       \* kbids of chunk servers
          Seeds,        \* the ones whose ChunkRole is "Seed"
          Known,        \* Known[c]: the chunks that the config files of c list
          Ahead,        \* Ahead[c]: seconds by which the clock of c's machine is fast
          ServedEarly,  \* /GetStatus is answered before the lists are initialised
          Crashable,    \* chunk servers that may crash or be started
          Awake,        \* bound: chunk servers whose sync thread ends its sleep
          MaxStart,     \* bound: starts of a process
          MaxFault      \* bound: crashes, and calls to a running chunk server
                        \*   that fail, together

ASSUME GossipAssumption ==
    /\ Seeds \subseteq Chunks /\ Crashable \subseteq Chunks /\ Awake \subseteq Chunks
    /\ Known \in [Chunks -> SUBSET Chunks]
    /\ Ahead \in [Chunks -> Nat] /\ ServedEarly \in BOOLEAN
    /\ MaxStart \in Nat /\ MaxFault \in Nat

TwoRetries == 2
Retries == 3

\* The lists of a status, and the order in which gossip_sync picks from them.
AliveLists == {"seeds", "commons"}
Lists == {"seeds", "commons", "dead_seeds", "dead_commons"}
Turn == [seeds |-> 1, commons |-> 2, dead_seeds |-> 3, dead_commons |-> 4]
DeadSeeds == [seeds |-> "dead_seeds", commons |-> "dead_seeds"]
DeadOf == [seeds |-> "dead_seeds", commons |-> "dead_commons"]
AliveOf == [dead_seeds |-> "seeds", dead_commons |-> "commons"]

NoStatus == [seeds |-> {}, commons |-> {}, dead_seeds |-> {}, dead_commons |-> {},
             configs |-> {}, timestamp |-> 0]

VARIABLES
    up,         \* the process runs
    m_status,   \* KyrinChunkGossiperStatus
    clock,      \* time(NULL) on a machine whose clock is not fast
    pc,         \* sync thread: what it does next
    to_gossip,  \* sync thread: the picks of this round that are left
    retry,      \* sync thread: failed attempts of the current call
    response,   \* sync thread: the status received, t_status
    starts, faults  \* counters for the bounds

sync == <<pc, to_gossip, retry, response>>
counters == <<starts, faults>>
vars == <<up, m_status, clock, sync, counters>>

-----------------------------------------------------------------------------
(* Operations of KyrinChunkGossiperStatus.                                 *)

Now(c) == clock + Ahead[c]

\* set_item: the timestamp is new even if k is not in the list any more.
MoveAnyway(s, from, to, k, now) ==
    [s EXCEPT ![from] = @ \ {k}, ![to] = @ \cup {k}, !.timestamp = now]
Move(s, from, to, k, now) ==
    IF k \in s[from] THEN MoveAnyway(s, from, to, k, now)
    ELSE [s EXCEPT !.timestamp = now]

\* check_commons: a chunk without a config becomes a common.
AddCommon(s, k, now) ==
    [s EXCEPT !.commons = @ \cup {k}, !.configs = @ \cup {k}, !.timestamp = now]
NotAdded(s, k, now) == s
CheckCommons(s, k, now) == IF k \in s.configs THEN s ELSE AddCommon(s, k, now)

\* initialize leaves the dead lists alone.
Initialised(s, known, now) ==
    [s EXCEPT !.seeds = known \cap Seeds, !.commons = known \ Seeds,
              !.configs = known, !.timestamp = now]

\* The comparison of gossip_sync.
Newer(t, s) == t.timestamp > s.timestamp

-----------------------------------------------------------------------------
(* The sync thread between its steps.                                      *)

Pick(c) == CHOOSE p \in to_gossip[c] : \A q \in to_gossip[c] : Turn[p.list] <= Turn[q.list]

\* The next pick of the round, or the end of the round.
NextPick(c) ==
    /\ to_gossip' = [to_gossip EXCEPT ![c] = @ \ {Pick(c)}]
    /\ pc' = [pc EXCEPT ![c] = IF to_gossip[c] = {Pick(c)} THEN "sleep" ELSE "call"]
    /\ retry' = [retry EXCEPT ![c] = 0]
    /\ response' = [response EXCEPT ![c] = NoStatus]

\* The server thread of i, which handles one request at a time, works for c.
Serves(i, c) == pc[c] = "asked" /\ Pick(c).kbid = i
Free(i) == \A c \in Chunks : ~Serves(i, c)

\* After an attempt that failed: another one, or the chunk is given up.
AfterFailure(r) == IF r = Retries THEN "failed" ELSE "call"
CountAlways(r) == r + 1
CountFailure(r) == IF r = Retries THEN r ELSE r + 1

Init == /\ up = [c \in Chunks |-> FALSE]
        /\ m_status = [c \in Chunks |-> NoStatus]
        /\ clock = 1
        /\ pc = [c \in Chunks |-> "off"]
        /\ to_gossip = [c \in Chunks |-> {}]
        /\ retry = [c \in Chunks |-> 0]
        /\ response = [c \in Chunks |-> NoStatus]
        /\ starts = 0 /\ faults = 0

-----------------------------------------------------------------------------
(* start_gossip starts the server thread before it initialises the status; *)
(* the sync thread sleeps longer than that takes.                          *)

StartGossip(c) ==
    /\ c \in Crashable /\ ~up[c] /\ starts < MaxStart
    /\ starts' = starts + 1
    /\ up' = [up EXCEPT ![c] = TRUE]
    /\ pc' = [pc EXCEPT ![c] = "boot"]
    /\ UNCHANGED <<m_status, clock, to_gossip, retry, response, faults>>

Initialize(c) ==
    /\ pc[c] = "boot"
    /\ m_status' = [m_status EXCEPT ![c] = Initialised(@, Known[c], Now(c))]
    /\ pc' = [pc EXCEPT ![c] = "sleep"]
    /\ UNCHANGED <<up, clock, to_gossip, retry, response, counters>>

\* Nothing is on disk.  The call that the server thread was handling breaks.
Crash(c) ==
    /\ c \in Crashable /\ up[c] /\ faults < MaxFault
    /\ faults' = faults + 1
    /\ up' = [up EXCEPT ![c] = FALSE]
    /\ m_status' = [m_status EXCEPT ![c] = NoStatus]
    /\ to_gossip' = [to_gossip EXCEPT ![c] = {}]
    /\ response' = [response EXCEPT ![c] = NoStatus]
    /\ pc' = [p \in Chunks |-> CASE p = c -> "off"
                                 [] p # c /\ Serves(c, p) -> AfterFailure(retry[p])
                                 [] OTHER -> pc[p]]
    /\ retry' = [p \in Chunks |-> CASE p = c -> 0
                                    [] p # c /\ Serves(c, p) -> CountFailure(retry[p])
                                    [] OTHER -> retry[p]]
    /\ UNCHANGED <<clock, starts>>

-----------------------------------------------------------------------------
(* gossip_sync.                                                            *)

\* The picks of a round: one random member of every list that has one.
Picks(s) ==
    {P \in SUBSET {p \in [kbid : Chunks, list : Lists] : p.kbid \in s[p.list]} :
       \A l \in Lists : s[l] # {} => \E p \in P : {q \in P : q.list = l} = {p}}

StartRound(c) ==
    /\ c \in Awake /\ pc[c] = "sleep"
    /\ \E picks \in Picks(m_status[c]) \ {{}} : to_gossip' = [to_gossip EXCEPT ![c] = picks]
    /\ pc' = [pc EXCEPT ![c] = "call"]
    /\ UNCHANGED <<up, m_status, clock, retry, response, counters>>

\* get_config fails: a status adopted in this round does not know the pick.
SkipUnknown(c) ==
    /\ pc[c] = "call" /\ Pick(c).kbid \notin m_status[c].configs
    /\ NextPick(c)
    /\ UNCHANGED <<up, m_status, clock, counters>>

\* An attempt of POST /GetStatus fails: nobody listens, or the call is lost
\* before or after the callee has handled it.  A callee that is still at it has
\* nothing left to do but an answer that nobody reads.
CallFails(c) ==
    LET i == Pick(c).kbid IN
    /\ pc[c] \in {"call", "asked"}
    /\ i \in m_status[c].configs
    /\ \/ ~up[i] /\ UNCHANGED faults
       \/ up[i] /\ faults < MaxFault /\ faults' = faults + 1
    /\ pc' = [pc EXCEPT ![c] = AfterFailure(retry[c])]
    /\ retry' = [retry EXCEPT ![c] = CountFailure(@)]
    /\ UNCHANGED <<up, m_status, clock, to_gossip, response, starts>>

\* The server thread of i takes the call: check_commons.
Register(i, c) ==
    /\ pc[c] = "call" /\ Pick(c).kbid = i /\ i \in m_status[c].configs
    /\ up[i] /\ Free(i)
    /\ pc[i] = "boot" => ServedEarly
    /\ m_status' = [m_status EXCEPT ![i] = CheckCommons(@, c, Now(i))]
    /\ pc' = [pc EXCEPT ![c] = "asked"]
    /\ UNCHANGED <<up, clock, to_gossip, retry, response, counters>>

\* get_status_string, and the answer.  After three failed attempts the fourth,
\* that succeeds, leaves retry at 3 and so counts as a failure.
Reply(i, c) ==
    /\ Serves(i, c)
    /\ response' = [response EXCEPT ![c] = m_status[i]]
    /\ pc' = [pc EXCEPT ![c] = IF retry[c] = Retries THEN "failed"
                               ELSE IF Pick(c).list \in AliveLists THEN "compare" ELSE "revive"]
    /\ UNCHANGED <<up, m_status, clock, to_gossip, retry, counters>>

\* set_dead, when the pick came from a list of the living.
SetDead(c) ==
    LET p == Pick(c) IN
    /\ pc[c] = "failed"
    /\ m_status' = IF p.list \in AliveLists
                   THEN [m_status EXCEPT ![c] = Move(@, p.list, DeadOf[p.list], p.kbid, Now(c))]
                   ELSE m_status
    /\ NextPick(c)
    /\ UNCHANGED <<up, clock, counters>>

\* set_alive, when the pick came from a list of the dead.
SetAlive(c) ==
    LET p == Pick(c) IN
    /\ pc[c] = "revive"
    /\ m_status' = [m_status EXCEPT ![c] = Move(@, p.list, AliveOf[p.list], p.kbid, Now(c))]
    /\ pc' = [pc EXCEPT ![c] = "compare"]
    /\ UNCHANGED <<up, clock, to_gossip, retry, response, counters>>

\* The timestamps are read without the lock that from_string then takes.
KeepStatus(c) ==
    /\ pc[c] = "compare" /\ ~Newer(response[c], m_status[c])
    /\ NextPick(c)
    /\ UNCHANGED <<up, m_status, clock, counters>>

FindNewer(c) ==
    /\ pc[c] = "compare" /\ Newer(response[c], m_status[c])
    /\ pc' = [pc EXCEPT ![c] = "adopt"]
    /\ UNCHANGED <<up, m_status, clock, to_gossip, retry, response, counters>>

\* from_string fails on an answer that was damaged on its way.
Unreadable(c) ==
    /\ pc[c] = "compare" /\ faults < MaxFault
    /\ faults' = faults + 1
    /\ NextPick(c)
    /\ UNCHANGED <<up, m_status, clock, starts>>

\* from_string replaces the whole status.
Adopt(c) ==
    /\ pc[c] = "adopt"
    /\ m_status' = [m_status EXCEPT ![c] = response[c]]
    /\ NextPick(c)
    /\ UNCHANGED <<up, clock, counters>>

-----------------------------------------------------------------------------
(* Time.  Timestamps are only compared, so what counts is the order of the *)
(* ones given and of those that the clocks show from now on: when a second  *)
(* passes they are renumbered to stay small.                                *)

Times == {m_status[c].timestamp : c \in Chunks} \cup {response[c].timestamp : c \in Chunks}
Marks == Times \cup UNION {clock + 1 .. Now(c) + 1 : c \in Chunks}
Rank(t) == Cardinality({u \in Marks : 0 < u /\ u <= t})

Tick ==
    /\ \E t \in Times : clock <= t
    /\ clock' = Rank(clock + 1)
    /\ m_status' = [c \in Chunks |-> [m_status[c] EXCEPT !.timestamp = Rank(@)]]
    /\ response' = [c \in Chunks |-> [response[c] EXCEPT !.timestamp = Rank(@)]]
    /\ UNCHANGED <<up, pc, to_gossip, retry, counters>>

-----------------------------------------------------------------------------
SyncStep(c) == \/ StartRound(c) \/ SkipUnknown(c) \/ CallFails(c)
               \/ SetDead(c) \/ SetAlive(c)
               \/ KeepStatus(c) \/ FindNewer(c) \/ Unreadable(c) \/ Adopt(c)

SrvStep(i, c) == Register(i, c) \/ Reply(i, c)

Next == \/ \E c \in Chunks : \/ StartGossip(c) \/ Initialize(c) \/ Crash(c) \/ SyncStep(c)
                             \/ \E i \in Chunks : SrvStep(i, c)
        \/ Tick

Spec == Init /\ [][Next]_vars

\* The threads keep running and time passes.  A pick is random: a chunk that is
\* in a list again and again is picked again and again.
PickRound(c, k) == StartRound(c) /\ \E p \in to_gossip'[c] : p.kbid = k
Fairness ==
    /\ WF_vars(Tick)
    /\ \A c \in Crashable : WF_vars(Initialize(c))
    /\ \A c \in Awake :
         /\ WF_vars(SyncStep(c))
         /\ SF_vars(\E i \in Chunks : SrvStep(i, c))
         /\ \A k \in Awake : SF_vars(PickRound(c, k))

LiveSpec == Spec /\ Fairness

-----------------------------------------------------------------------------
StatusType == [seeds : SUBSET Chunks, commons : SUBSET Chunks, dead_seeds : SUBSET Chunks,
               dead_commons : SUBSET Chunks, configs : SUBSET Chunks, timestamp : Nat]
PickType == [kbid : Chunks, list : Lists]

TypeOK ==
    /\ up \in [Chunks -> BOOLEAN]
    /\ m_status \in [Chunks -> StatusType]
    /\ clock \in Nat \ {0}
    /\ pc \in [Chunks -> {"off", "boot", "sleep", "call", "asked", "failed", "revive", "compare", "adopt"}]
    /\ to_gossip \in [Chunks -> SUBSET PickType]
    /\ retry \in [Chunks -> 0..Retries]
    /\ response \in [Chunks -> StatusType]
    /\ starts \in Nat /\ faults \in Nat

-----------------------------------------------------------------------------
(* Safety.                                                                 *)

\* A chunk that a server knows is in exactly one of its lists, and has a config.
\* get_random_alive_3 relies on it: it would draw for ever from lists that hold
\* three kbids but not three chunks, and invent an empty config for a chunk that
\* has none.
ListsArePartition ==
    \A c \in Chunks : LET s == m_status[c] IN
        /\ s.configs = s.seeds \cup s.commons \cup s.dead_seeds \cup s.dead_commons
        /\ \A l, k \in Lists : l # k => s[l] \cap s[k] = {}

\* Only a config file makes a chunk a seed: whatever is moved, adopted or
\* registered, and however early, no common is ever taken for one.
RolesKept == \A c \in Chunks : m_status[c].seeds \cup m_status[c].dead_seeds \subseteq Seeds

\* Before the third fault nobody gives up a chunk that runs and goes on running:
\* it takes three failed attempts of one call, of one thread, after which even a
\* fourth that succeeds is too late.
NoFalseDeath ==
    faults <= 2 =>
        \A c \in Chunks, k \in Chunks \ Crashable : up[k] =>
            k \notin m_status[c].dead_seeds \cup m_status[c].dead_commons

-----------------------------------------------------------------------------
(* Where one may begin to watch a cluster instead of at its first start:   *)
(* some chunk servers run, all of them asleep, and whatever else they have *)
(* come to know and have given up, none of them is among the dead.         *)

SettledInit ==
    /\ up \in [Chunks -> BOOLEAN] /\ m_status \in [Chunks -> StatusType] /\ clock \in Nat \ {0}
    /\ \A c \in Chunks : ~up[c] => m_status[c] = NoStatus
    /\ pc = [c \in Chunks |-> IF up[c] THEN "sleep" ELSE "off"]
    /\ to_gossip = [c \in Chunks |-> {}]
    /\ retry = [c \in Chunks |-> 0]
    /\ response = [c \in Chunks |-> NoStatus]
    /\ starts = 0 /\ faults = 0
    /\ ListsArePartition /\ RolesKept /\ NoFalseDeath

SettledSpec == SettledInit /\ [][Next]_vars

-----------------------------------------------------------------------------
(* Liveness, under LiveSpec.                                               *)

\* Every chunk server that runs comes to know which chunks run.
Alive(s) == s.seeds \cup s.commons
Running == {c \in Chunks : up[c]}
EveryoneKnowsWhoRuns == <>[](\A c \in Running : Alive(m_status[c]) = Running)
=============================================================================
