--------------------------- MODULE ChunkGossipProofs ---------------------------
(***************************************************************************)
(* Theorems about ChunkGossip: what the four lists of a status are, for    *)
(* any number of chunk servers, however early, late or wrongly they are    *)
(* called, started and given up, and that nobody is given up too soon.     *)
(***************************************************************************)
EXTENDS ChunkGossip, FiniteSetTheorems, TLAPS

\* What holds of every status, also of one that is under way in an answer.
Partition(s) ==
    /\ s.configs = s.seeds \cup s.commons \cup s.dead_seeds \cup s.dead_commons
    /\ \A l, k \in Lists : l # k => s[l] \cap s[k] = {}
Good(s) ==
    /\ s \in StatusType
    /\ Partition(s)
    /\ s.seeds \cup s.dead_seeds \subseteq Seeds
StatusInv == \A c \in Chunks : Good(m_status[c]) /\ Good(response[c])

\* The lists of the dead are empty until the sync thread runs, which has a pick in
\* hand whenever it is not asleep.
NoDead(s) == s.dead_seeds = {} /\ s.dead_commons = {}
ThreadInv == \A c \in Chunks :
    /\ pc[c] = "off" <=> ~up[c]
    /\ pc[c] \in {"off", "boot"} => NoDead(m_status[c])
    /\ pc[c] \notin {"off", "boot", "sleep"} => to_gossip[c] # {}
    /\ pc[c] = "revive" => Pick(c).list \notin AliveLists

IInv == TypeOK /\ StatusInv /\ ThreadInv

-----------------------------------------------------------------------------
(* The operations of a status.                                             *)

LEMMA NoStatusIsGood == Good(NoStatus)
BY DEF Good, StatusType, Partition, NoStatus, Lists

LEMMA CheckCommonsIsGood ==
  ASSUME NEW now \in Nat, NEW s, Good(s), NEW k \in Chunks
  PROVE  /\ Good(CheckCommons(s, k, now))
         /\ CheckCommons(s, k, now).dead_seeds = s.dead_seeds
         /\ CheckCommons(s, k, now).dead_commons = s.dead_commons
<1>1. CASE k \in s.configs
  BY <1>1 DEF CheckCommons
<1>2. CASE k \notin s.configs
  <2>. DEFINE t == AddCommon(s, k, now)
  <2>1. /\ t \in StatusType /\ t.timestamp = now /\ t.seeds = s.seeds
        /\ t.commons = s.commons \cup {k} /\ t.dead_seeds = s.dead_seeds
        /\ t.dead_commons = s.dead_commons /\ t.configs = s.configs \cup {k}
    BY DEF AddCommon, Good, StatusType
  <2>2. k \notin s.seeds \cup s.commons \cup s.dead_seeds \cup s.dead_commons
    BY <1>2 DEF Good, Partition
  <2>3. Partition(t)
    BY <2>1, <2>2 DEF Good, Partition, Lists
  <2>4. Good(t)
    BY <2>1, <2>3 DEF Good
  <2>. QED
    BY <1>2, <2>1, <2>4 DEF CheckCommons
<1>. QED
  BY <1>1, <1>2

LEMMA InitialisedIsGood ==
  ASSUME NEW now \in Nat, NEW s, Good(s), NoDead(s), NEW known \in SUBSET Chunks
  PROVE  Good(Initialised(s, known, now))
<1>. DEFINE t == Initialised(s, known, now)
<1>1. /\ t \in StatusType /\ t.timestamp = now /\ t.seeds = known \cap Seeds
      /\ t.commons = known \ Seeds /\ t.dead_seeds = {} /\ t.dead_commons = {}
      /\ t.configs = known
  BY DEF Initialised, Good, StatusType, NoDead
<1>2. Partition(t)
  BY <1>1 DEF Partition, Lists
<1>. QED
  BY <1>1, <1>2 DEF Good

\* A move between the lists of the living and the dead, in one direction.
Opposite(from, to) == \/ from = "seeds" /\ to = "dead_seeds"
                      \/ from = "commons" /\ to = "dead_commons"
                      \/ from = "dead_seeds" /\ to = "seeds"
                      \/ from = "dead_commons" /\ to = "commons"

LEMMA MoveIsGood ==
  ASSUME NEW now \in Nat, NEW s, Good(s), NEW k \in Chunks, NEW from, NEW to, Opposite(from, to)
  PROVE  Good(Move(s, from, to, k, now))
<1>1. CASE k \notin s[from]
  <2>. DEFINE t == Move(s, from, to, k, now)
  <2>1. /\ t \in StatusType /\ t.timestamp = now /\ t.seeds = s.seeds
        /\ t.commons = s.commons /\ t.dead_seeds = s.dead_seeds
        /\ t.dead_commons = s.dead_commons /\ t.configs = s.configs
    BY <1>1 DEF Move, Good, StatusType
  <2>2. Partition(t)
    BY <2>1 DEF Good, Partition, Lists
  <2>. QED
    BY <2>1, <2>2 DEF Good
<1>2. CASE k \in s[from] /\ from = "seeds" /\ to = "dead_seeds"
  <2>. DEFINE t == MoveAnyway(s, "seeds", "dead_seeds", k, now)
  <2>1. /\ t \in StatusType /\ t.timestamp = now /\ t.seeds = s.seeds \ {k}
        /\ t.commons = s.commons /\ t.dead_seeds = s.dead_seeds \cup {k}
        /\ t.dead_commons = s.dead_commons /\ t.configs = s.configs
    BY <1>2 DEF MoveAnyway, Good, StatusType
  <2>2. Partition(t)
    BY <1>2, <2>1 DEF Good, Partition, Lists
  <2>. QED
    BY <1>2, <2>1, <2>2 DEF Good, Move
<1>3. CASE k \in s[from] /\ from = "commons" /\ to = "dead_commons"
  <2>. DEFINE t == MoveAnyway(s, "commons", "dead_commons", k, now)
  <2>1. /\ t \in StatusType /\ t.timestamp = now /\ t.seeds = s.seeds
        /\ t.commons = s.commons \ {k} /\ t.dead_seeds = s.dead_seeds
        /\ t.dead_commons = s.dead_commons \cup {k} /\ t.configs = s.configs
    BY <1>3 DEF MoveAnyway, Good, StatusType
  <2>2. Partition(t)
    BY <1>3, <2>1 DEF Good, Partition, Lists
  <2>. QED
    BY <1>3, <2>1, <2>2 DEF Good, Move
<1>4. CASE k \in s[from] /\ from = "dead_seeds" /\ to = "seeds"
  <2>. DEFINE t == MoveAnyway(s, "dead_seeds", "seeds", k, now)
  <2>1. /\ t \in StatusType /\ t.timestamp = now /\ t.seeds = s.seeds \cup {k}
        /\ t.commons = s.commons /\ t.dead_seeds = s.dead_seeds \ {k}
        /\ t.dead_commons = s.dead_commons /\ t.configs = s.configs
    BY <1>4 DEF MoveAnyway, Good, StatusType
  <2>2. Partition(t)
    BY <1>4, <2>1 DEF Good, Partition, Lists
  <2>. QED
    BY <1>4, <2>1, <2>2 DEF Good, Move
<1>5. CASE k \in s[from] /\ from = "dead_commons" /\ to = "commons"
  <2>. DEFINE t == MoveAnyway(s, "dead_commons", "commons", k, now)
  <2>1. /\ t \in StatusType /\ t.timestamp = now /\ t.seeds = s.seeds
        /\ t.commons = s.commons \cup {k} /\ t.dead_seeds = s.dead_seeds
        /\ t.dead_commons = s.dead_commons \ {k} /\ t.configs = s.configs
    BY <1>5 DEF MoveAnyway, Good, StatusType
  <2>2. Partition(t)
    BY <1>5, <2>1 DEF Good, Partition, Lists
  <2>. QED
    BY <1>5, <2>1, <2>2 DEF Good, Move
<1>. QED
  BY <1>1, <1>2, <1>3, <1>4, <1>5 DEF Opposite

-----------------------------------------------------------------------------
(* The picks of a round.                                                   *)

\* A set of picks that is not empty has one whose turn it is.
LEMMA PickIsOne ==
  ASSUME NEW c \in Chunks, to_gossip \in [Chunks -> SUBSET PickType], to_gossip[c] # {}
  PROVE  Pick(c) \in to_gossip[c] /\ Pick(c) \in PickType
<1>. DEFINE P == to_gossip[c]
<1>1. \A p \in P : p \in PickType /\ p.list \in Lists
  BY DEF PickType
<1>2. /\ Turn["seeds"] = 1 /\ Turn["commons"] = 2
      /\ Turn["dead_seeds"] = 3 /\ Turn["dead_commons"] = 4
  BY DEF Turn
<1>3. \E p \in P : \A q \in P : Turn[p.list] <= Turn[q.list]
  <2>1. CASE \E p \in P : p.list = "seeds"
    BY <1>1, <1>2, <2>1 DEF Lists
  <2>2. CASE (\A p \in P : p.list # "seeds") /\ \E p \in P : p.list = "commons"
    BY <1>1, <1>2, <2>2 DEF Lists
  <2>3. CASE (\A p \in P : p.list \notin {"seeds", "commons"}) /\ \E p \in P : p.list = "dead_seeds"
    BY <1>1, <1>2, <2>3 DEF Lists
  <2>4. CASE \A p \in P : p.list \notin {"seeds", "commons", "dead_seeds"}
    BY <1>1, <1>2, <2>4 DEF Lists
  <2>. QED
    BY <2>1, <2>2, <2>3, <2>4, Zenon
<1>4. Pick(c) \in P
  BY <1>3 DEF Pick
<1>. QED
  BY <1>1, <1>4
\* The end of work on a pick.
LEMMA NextPickFacts ==
  ASSUME TypeOK, StatusInv, NEW c \in Chunks, NextPick(c), to_gossip[c] # {}
  PROVE  /\ to_gossip' \in [Chunks -> SUBSET PickType] /\ retry' \in [Chunks -> 0..Retries]
         /\ pc' = [pc EXCEPT ![c] = pc'[c]] /\ pc'[c] \in {"sleep", "call"}
         /\ pc'[c] = "call" => to_gossip'[c] # {}
         /\ \A d \in Chunks \ {c} : to_gossip'[d] = to_gossip[d] /\ response'[d] = response[d]
         /\ response' \in [Chunks -> StatusType]
         /\ \A d \in Chunks : Good(response'[d])
<1>1. to_gossip' \in [Chunks -> SUBSET PickType] /\ retry' \in [Chunks -> 0..Retries]
  BY DEF NextPick, TypeOK, Retries
<1>2. /\ pc' = [pc EXCEPT ![c] = pc'[c]] /\ pc'[c] \in {"sleep", "call"}
      /\ pc'[c] = "call" => to_gossip'[c] # {}
  <2>1. Pick(c) \in to_gossip[c]
    BY PickIsOne DEF TypeOK
  <2>. QED
    BY <2>1 DEF NextPick, TypeOK
<1>3. Good(NoStatus) /\ NoStatus \in StatusType
  BY NoStatusIsGood DEF TypeOK, Good
<1>4. /\ response' \in [Chunks -> StatusType]
      /\ \A d \in Chunks : Good(response'[d])
  BY <1>3 DEF NextPick, TypeOK, StatusInv
<1>5. \A d \in Chunks \ {c} : to_gossip'[d] = to_gossip[d] /\ response'[d] = response[d]
  BY DEF NextPick, TypeOK
<1>. QED
  BY <1>1, <1>2, <1>4, <1>5

\* A pick stays what it is as long as the picks do.
LEMMA SamePick == ASSUME NEW c, to_gossip'[c] = to_gossip[c] PROVE Pick(c)' = Pick(c)
BY DEF Pick

\* The clocks.
LEMMA NowIsTime == ASSUME TypeOK, NEW c \in Chunks PROVE Now(c) \in Nat \ {0}
BY GossipAssumption DEF TypeOK, Now

-----------------------------------------------------------------------------
(* The invariant.                                                          *)

LEMMA SettledInv == SettledInit => IInv
<1>. SUFFICES ASSUME SettledInit PROVE IInv
  OBVIOUS
<1>1. StatusInv
  <2>1. \A c \in Chunks : Good(m_status[c])
    BY DEF SettledInit, ListsArePartition, RolesKept, Good, Partition
  <2>2. \A c \in Chunks : Good(response[c])
    BY NoStatusIsGood DEF SettledInit
  <2>. QED
    BY <2>1, <2>2 DEF StatusInv
<1>2. TypeOK
  <2>1. NoStatus \in StatusType
    BY NoStatusIsGood DEF Good
  <2>. QED
    BY <2>1 DEF SettledInit, TypeOK, Retries
<1>3. ThreadInv
  BY DEF SettledInit, ThreadInv, NoDead, NoStatus
<1>. QED
  BY <1>1, <1>2, <1>3 DEF IInv

\* A cluster that has never been started is settled: what is proved of SettledSpec
\* holds of Spec.
LEMMA InitIsSettled == Init => SettledInit
<1>. SUFFICES ASSUME Init PROVE SettledInit
  OBVIOUS
<1>1. clock = 1 /\ Good(NoStatus) /\ NoStatus \in StatusType
  BY NoStatusIsGood DEF Init, Good
<1>2. ListsArePartition /\ RolesKept /\ NoFalseDeath
  BY <1>1 DEF Good, Partition, ListsArePartition, RolesKept, Init, NoFalseDeath
<1>. QED
  BY <1>1, <1>2 DEF Init, SettledInit

LEMMA SpecIsSettled == Spec => SettledSpec
BY InitIsSettled, PTL DEF Spec, SettledSpec

\* The steps of a sync thread.
LEMMA SyncStepInv ==
  ASSUME IInv, NEW c \in Chunks, SyncStep(c)
  PROVE  IInv'
<1>. USE GossipAssumption
<1>t. /\ TypeOK /\ StatusInv /\ ThreadInv /\ \A d \in Chunks : Now(d) \in Nat
      /\ to_gossip \in [Chunks -> SUBSET PickType]
  BY NowIsTime DEF IInv, TypeOK
<1>0. CASE Unreadable(c)
  <2>1. /\ NextPick(c) /\ pc[c] = "compare" /\ to_gossip[c] # {}
        /\ UNCHANGED <<up, m_status, clock, starts>> /\ faults' \in Nat
    BY <1>t, <1>0 DEF Unreadable, ThreadInv, TypeOK
  <2>2. TypeOK'
    BY <1>t, <2>1, NextPickFacts DEF TypeOK
  <2>3. StatusInv'
    BY <1>t, <2>1, NextPickFacts DEF StatusInv
  <2>4. ThreadInv'
    BY <1>t, <2>1, NextPickFacts, SamePick DEF ThreadInv, TypeOK
  <2>. QED
    BY <2>2, <2>3, <2>4 DEF IInv
<1>1. CASE StartRound(c)
  <2>1. PICK P \in Picks(m_status[c]) : P # {} /\ to_gossip' = [to_gossip EXCEPT ![c] = P]
    BY <1>1 DEF StartRound
  <2>2. P \in SUBSET PickType
    BY <2>1 DEF Picks, PickType
  <2>3. TypeOK'
    BY <1>t, <1>1, <2>1, <2>2 DEF StartRound, TypeOK, counters
  <2>4. StatusInv'
    BY <1>t, <1>1 DEF StartRound, StatusInv
  <2>5. ThreadInv'
    BY <1>t, <1>1, <2>1, SamePick DEF StartRound, ThreadInv, TypeOK
  <2>. QED
    BY <2>3, <2>4, <2>5 DEF IInv
<1>2. CASE SkipUnknown(c) \/ KeepStatus(c)
  <2>1. /\ NextPick(c) /\ pc[c] \in {"call", "compare"} /\ to_gossip[c] # {}
        /\ UNCHANGED <<up, m_status, clock, counters>>
    BY <1>t, <1>2 DEF SkipUnknown, KeepStatus, ThreadInv
  <2>2. TypeOK'
    BY <1>t, <2>1, NextPickFacts DEF TypeOK, counters
  <2>3. StatusInv'
    BY <1>t, <2>1, NextPickFacts DEF StatusInv
  <2>4. ThreadInv'
    BY <1>t, <2>1, NextPickFacts, SamePick DEF ThreadInv, TypeOK
  <2>. QED
    BY <2>2, <2>3, <2>4 DEF IInv
<1>3. CASE CallFails(c)
  <2>1. /\ pc[c] \in {"call", "asked"} /\ to_gossip[c] # {}
        /\ AfterFailure(retry[c]) \in {"failed", "call"}
        /\ CountFailure(retry[c]) \in 0..Retries
    BY <1>t, <1>3 DEF CallFails, ThreadInv, AfterFailure, CountFailure, TypeOK, Retries
  <2>2. TypeOK'
    BY <1>t, <1>3, <2>1 DEF CallFails, TypeOK
  <2>3. StatusInv'
    BY <1>t, <1>3 DEF CallFails, StatusInv
  <2>4. ThreadInv'
    BY <1>t, <1>3, <2>1, SamePick DEF CallFails, ThreadInv, TypeOK
  <2>. QED
    BY <2>2, <2>3, <2>4 DEF IInv
<1>4. CASE SetDead(c)
  <2>. DEFINE p == Pick(c)
  <2>1. /\ NextPick(c) /\ pc[c] = "failed" /\ to_gossip[c] # {} /\ p \in PickType
        /\ UNCHANGED <<up, clock, counters>>
    BY <1>t, <1>4, PickIsOne DEF SetDead, ThreadInv
  <2>2. /\ m_status' \in [Chunks -> StatusType]
        /\ \A d \in Chunks : Good(m_status'[d])
        /\ \A d \in Chunks \ {c} : m_status'[d] = m_status[d]
    <3>1. CASE p.list \in AliveLists
      <4>1. Opposite(p.list, DeadOf[p.list]) /\ p.kbid \in Chunks
        BY <2>1, <3>1 DEF Opposite, DeadOf, AliveLists, PickType
      <4>2. Good(Move(m_status[c], p.list, DeadOf[p.list], p.kbid, Now(c)))
        BY <1>t, <4>1, MoveIsGood DEF StatusInv
      <4>. QED
        BY <1>t, <1>4, <3>1, <4>2 DEF SetDead, TypeOK, StatusInv, Good
    <3>2. CASE p.list \notin AliveLists
      BY <1>t, <1>4, <3>2 DEF SetDead, TypeOK, StatusInv
    <3>. QED
      BY <3>1, <3>2
  <2>3. TypeOK'
    BY <1>t, <2>1, <2>2, NextPickFacts DEF TypeOK, Good, counters
  <2>4. StatusInv'
    BY <1>t, <2>1, <2>2, NextPickFacts DEF StatusInv
  <2>5. ThreadInv'
    BY <1>t, <2>1, <2>2, NextPickFacts, SamePick DEF ThreadInv, TypeOK
  <2>. QED
    BY <2>3, <2>4, <2>5 DEF IInv
<1>5. CASE SetAlive(c)
  <2>. DEFINE p == Pick(c)
  <2>1. /\ pc[c] = "revive" /\ to_gossip[c] # {} /\ p \in PickType /\ p.list \notin AliveLists
    BY <1>t, <1>5, PickIsOne DEF SetAlive, ThreadInv
  <2>2. Opposite(p.list, AliveOf[p.list]) /\ p.kbid \in Chunks
    BY <2>1 DEF Opposite, AliveOf, AliveLists, PickType, Lists
  <2>3. Good(Move(m_status[c], p.list, AliveOf[p.list], p.kbid, Now(c)))
    BY <1>t, <2>2, MoveIsGood DEF StatusInv
  <2>4. TypeOK'
    BY <1>t, <1>5, <2>3 DEF SetAlive, TypeOK, Good, counters
  <2>5. StatusInv'
    BY <1>t, <1>5, <2>3 DEF SetAlive, StatusInv, TypeOK
  <2>6. ThreadInv'
    BY <1>t, <1>5, <2>1, SamePick DEF SetAlive, ThreadInv, TypeOK
  <2>. QED
    BY <2>4, <2>5, <2>6 DEF IInv
<1>6. CASE FindNewer(c)
  <2>1. pc[c] = "compare" /\ to_gossip[c] # {}
    BY <1>t, <1>6 DEF FindNewer, ThreadInv
  <2>2. TypeOK'
    BY <1>t, <1>6 DEF FindNewer, TypeOK, counters
  <2>3. StatusInv'
    BY <1>t, <1>6 DEF FindNewer, StatusInv
  <2>4. ThreadInv'
    BY <1>t, <1>6, <2>1, SamePick DEF FindNewer, ThreadInv, TypeOK
  <2>. QED
    BY <2>2, <2>3, <2>4 DEF IInv
<1>7. CASE Adopt(c)
  <2>1. /\ NextPick(c) /\ pc[c] = "adopt" /\ to_gossip[c] # {}
        /\ UNCHANGED <<up, clock, counters>>
        /\ m_status' = [m_status EXCEPT ![c] = response[c]]
    BY <1>t, <1>7 DEF Adopt, ThreadInv
  <2>2. m_status' \in [Chunks -> StatusType] /\ \A d \in Chunks : Good(m_status'[d])
    BY <1>t, <2>1 DEF StatusInv, TypeOK
  <2>3. TypeOK'
    BY <1>t, <2>1, <2>2, NextPickFacts DEF TypeOK, Good, counters
  <2>4. StatusInv'
    BY <1>t, <2>1, <2>2, NextPickFacts DEF StatusInv
  <2>5. ThreadInv'
    BY <1>t, <2>1, NextPickFacts, SamePick DEF ThreadInv, TypeOK
  <2>. QED
    BY <2>3, <2>4, <2>5 DEF IInv
<1>. QED
  BY <1>0, <1>1, <1>2, <1>3, <1>4, <1>5, <1>6, <1>7 DEF SyncStep
\* The steps of a server thread.
LEMMA SrvStepInv ==
  ASSUME IInv, NEW c \in Chunks, NEW i \in Chunks, SrvStep(i, c)
  PROVE  IInv'
<1>. USE GossipAssumption
<1>t. /\ TypeOK /\ StatusInv /\ ThreadInv /\ \A d \in Chunks : Now(d) \in Nat
      /\ to_gossip \in [Chunks -> SUBSET PickType]
  BY NowIsTime DEF IInv, TypeOK
<1>1. CASE Register(i, c)
  <2>1. /\ Good(CheckCommons(m_status[i], c, Now(i)))
        /\ NoDead(m_status[i]) => NoDead(CheckCommons(m_status[i], c, Now(i)))
    <3>1. Good(m_status[i]) /\ Now(i) \in Nat
      BY <1>t DEF StatusInv
    <3>2. /\ Good(CheckCommons(m_status[i], c, Now(i)))
          /\ CheckCommons(m_status[i], c, Now(i)).dead_seeds = m_status[i].dead_seeds
          /\ CheckCommons(m_status[i], c, Now(i)).dead_commons = m_status[i].dead_commons
      BY <3>1, CheckCommonsIsGood
    <3>. QED
      BY <3>2 DEF NoDead
  <2>2. pc[c] = "call" /\ to_gossip[c] # {}
    BY <1>t, <1>1 DEF Register, ThreadInv
  <2>3. TypeOK'
    BY <1>t, <1>1, <2>1 DEF Register, TypeOK, Good, counters
  <2>4. StatusInv'
    BY <1>t, <1>1, <2>1 DEF Register, StatusInv, TypeOK
  <2>5. ThreadInv'
    BY <1>t, <1>1, <2>1, <2>2, SamePick DEF Register, ThreadInv, TypeOK, NoDead
  <2>. QED
    BY <2>3, <2>4, <2>5 DEF IInv
<1>2. CASE Reply(i, c)
  <2>1. pc[c] = "asked" /\ to_gossip[c] # {}
    BY <1>t, <1>2 DEF Reply, Serves, ThreadInv
  <2>2. /\ pc' = [pc EXCEPT ![c] = pc'[c]] /\ pc'[c] \in {"failed", "compare", "revive"}
        /\ pc'[c] = "revive" => Pick(c).list \notin AliveLists
    BY <1>t, <1>2 DEF Reply, TypeOK
  <2>3. TypeOK'
    BY <1>t, <1>2, <2>2 DEF Reply, TypeOK, counters
  <2>4. StatusInv'
    BY <1>t, <1>2 DEF Reply, StatusInv, TypeOK
  <2>5. ThreadInv'
    BY <1>t, <1>2, <2>1, <2>2, SamePick DEF Reply, ThreadInv, TypeOK
  <2>. QED
    BY <2>3, <2>4, <2>5 DEF IInv
<1>. QED
  BY <1>1, <1>2 DEF SrvStep

\* Starts and crashes.
LEMMA ProcessInv ==
  ASSUME IInv, NEW c \in Chunks, StartGossip(c) \/ Initialize(c) \/ Crash(c)
  PROVE  IInv'
<1>. USE GossipAssumption
<1>t. TypeOK /\ StatusInv /\ ThreadInv /\ \A d \in Chunks : Now(d) \in Nat
  BY NowIsTime DEF IInv
<1>1. CASE StartGossip(c)
  <2>1. TypeOK'
    BY <1>t, <1>1 DEF StartGossip, TypeOK
  <2>2. StatusInv'
    BY <1>t, <1>1 DEF StartGossip, StatusInv
  <2>3. ThreadInv'
    BY <1>t, <1>1, SamePick DEF StartGossip, ThreadInv, TypeOK, NoDead
  <2>. QED
    BY <2>1, <2>2, <2>3 DEF IInv
<1>2. CASE Initialize(c)
  <2>1. Good(Initialised(m_status[c], Known[c], Now(c)))
    BY <1>t, <1>2, InitialisedIsGood DEF Initialize, StatusInv, ThreadInv
  <2>2. TypeOK'
    BY <1>t, <1>2, <2>1 DEF Initialize, TypeOK, Good, counters
  <2>3. StatusInv'
    BY <1>t, <1>2, <2>1 DEF Initialize, StatusInv, TypeOK
  <2>4. ThreadInv'
    BY <1>t, <1>2, SamePick DEF Initialize, ThreadInv, TypeOK, NoDead
  <2>. QED
    BY <2>2, <2>3, <2>4 DEF IInv
<1>3. CASE Crash(c)
  <2>1. Good(NoStatus) /\ NoStatus \in StatusType /\ NoDead(NoStatus)
    BY <1>t, NoStatusIsGood DEF Good, NoDead, NoStatus
  <2>2. \A d \in Chunks : /\ AfterFailure(retry[d]) \in {"failed", "call"}
                          /\ CountFailure(retry[d]) \in 0..Retries
    BY <1>t DEF TypeOK, AfterFailure, CountFailure, Retries
  <2>3. /\ pc'[c] = "off" /\ up'[c] = FALSE
        /\ \A d \in Chunks \ {c} : \/ pc'[d] = pc[d]
                                   \/ pc[d] = "asked" /\ pc'[d] \in {"failed", "call"}
        /\ \A d \in Chunks \ {c} : /\ up'[d] = up[d] /\ m_status'[d] = m_status[d]
                                   /\ to_gossip'[d] = to_gossip[d] /\ response'[d] = response[d]
        /\ m_status'[c] = NoStatus /\ response'[c] = NoStatus /\ clock' = clock
    BY <1>t, <1>3, <2>2 DEF Crash, TypeOK, Serves
  <2>4. retry' \in [Chunks -> 0..Retries]
    BY <1>t, <1>3, <2>2 DEF Crash, TypeOK, Retries
  <2>5. pc' \in [Chunks -> {"off", "boot", "sleep", "call", "asked", "failed", "revive", "compare", "adopt"}]
    <3>1. \A d \in Chunks : pc'[d] \in {"off", "boot", "sleep", "call", "asked", "failed", "revive", "compare", "adopt"}
      BY <1>t, <2>3 DEF TypeOK
    <3>2. pc' = [p \in Chunks |-> pc'[p]]
      BY <1>3 DEF Crash
    <3>. QED
      BY <3>1, <3>2
  <2>6. TypeOK'
    BY <1>t, <1>3, <2>1, <2>4, <2>5 DEF Crash, TypeOK
  <2>7. StatusInv'
    BY <1>t, <2>1, <2>3 DEF StatusInv
  <2>8. ThreadInv'
    BY <1>t, <2>1, <2>3, SamePick DEF ThreadInv
  <2>. QED
    BY <2>6, <2>7, <2>8 DEF IInv
<1>. QED
  BY <1>1, <1>2, <1>3

\* A second passes: ranks are counts of finitely many marks.
LEMMA TickInv ==
  ASSUME IInv, Tick
  PROVE  IInv'
<1>t. TypeOK /\ StatusInv /\ ThreadInv /\ clock \in Nat
  BY DEF IInv, TypeOK
<1>1. Marks \subseteq Nat /\ (\A c \in Chunks : Now(c) \in Nat /\ clock <= Now(c))
  <2>1. Times \subseteq Nat
    BY <1>t DEF Times, TypeOK, StatusType
  <2>2. \A c \in Chunks : Now(c) \in Nat /\ clock <= Now(c)
    BY <1>t, GossipAssumption DEF Now
  <2>3. \A c \in Chunks : clock + 1 .. Now(c) + 1 \subseteq Nat
    BY <1>t, <2>2
  <2>. QED
    BY <2>1, <2>2, <2>3 DEF Marks
<1>2. ASSUME NEW t \in Nat
      PROVE  /\ IsFiniteSet({u \in Marks : 0 < u /\ u <= t})
             /\ Rank(t) \in Nat
  <2>1. {u \in Marks : 0 < u /\ u <= t} \in SUBSET (1..t)
    <3>1. \A u \in Marks : u \in Nat
      BY <1>1
    <3>. QED
      BY <3>1
  <2>2. IsFiniteSet(1..t)
    <3>1. 1 \in Int /\ t \in Int
      OBVIOUS
    <3>. QED
      BY <3>1, FS_Interval
  <2>. QED
    BY <2>1, <2>2, FS_Subset, FS_CardinalityType DEF Rank
<1>4. clock' \in Nat \ {0}
  <2>. DEFINE S == {u \in Marks : 0 < u /\ u <= clock + 1}
  <2>1. clock + 1 \in S
    <3>1. PICK c \in Chunks : TRUE
      BY DEF Tick, Times
    <3>. QED
      BY <1>t, <1>1, <3>1 DEF Marks
  <2>2. IsFiniteSet(S) /\ Rank(clock + 1) = Cardinality(S) /\ Rank(clock + 1) \in Nat
    BY <1>t, <1>2 DEF Rank
  <2>3. Cardinality(S) # 0
    BY <2>1, <2>2, FS_EmptySet
  <2>. QED
    BY <2>2, <2>3 DEF Tick
<1>. DEFINE Ranked(s) == [s EXCEPT !.timestamp = Rank(@)]
<1>5. ASSUME NEW s \in StatusType, Good(s)
      PROVE  /\ Ranked(s) \in StatusType
             /\ Partition(Ranked(s)) /\ Ranked(s).seeds \cup Ranked(s).dead_seeds \subseteq Seeds
             /\ NoDead(s) => NoDead(Ranked(s))
  <2>. DEFINE r == Ranked(s)
  <2>0. Rank(s.timestamp) \in Nat
    BY <1>2 DEF StatusType
  <2>1. /\ r \in StatusType /\ r.seeds = s.seeds
        /\ r.commons = s.commons /\ r.dead_seeds = s.dead_seeds
        /\ r.dead_commons = s.dead_commons /\ r.configs = s.configs
    BY <2>0 DEF StatusType
  <2>2. Partition(r)
    BY <1>5, <2>1 DEF Good, Partition, Lists
  <2>. QED
    BY <1>5, <2>1, <2>2 DEF Good, NoDead
<1>6. /\ m_status' = [c \in Chunks |-> Ranked(m_status[c])]
      /\ response' = [c \in Chunks |-> Ranked(response[c])]
      /\ \A c \in Chunks : m_status[c] \in StatusType /\ response[c] \in StatusType
      /\ \A c \in Chunks : Good(m_status[c]) /\ Good(response[c])
  BY <1>t DEF Tick, TypeOK, StatusInv
<1>. HIDE DEF Ranked
<1>7. TypeOK'
  <2>1. \A c \in Chunks : Ranked(m_status[c]) \in StatusType /\ Ranked(response[c]) \in StatusType
    BY <1>5, <1>6
  <2>2. m_status' \in [Chunks -> StatusType] /\ response' \in [Chunks -> StatusType]
    BY <1>6, <2>1
  <2>3. UNCHANGED <<up, pc, to_gossip, retry, starts, faults>>
    BY DEF Tick, counters
  <2>. QED
    BY <1>t, <1>4, <2>2, <2>3 DEF TypeOK
<1>8. StatusInv'
  BY <1>5, <1>6 DEF StatusInv, Good, Partition
<1>9. ThreadInv'
  BY <1>t, <1>5, <1>6, SamePick DEF Tick, ThreadInv
<1>. QED
  BY <1>7, <1>8, <1>9 DEF IInv

LEMMA NextInv == IInv /\ [Next]_vars => IInv'
<1>. SUFFICES ASSUME IInv, [Next]_vars PROVE IInv'
  OBVIOUS
<1>1. CASE Next
  BY <1>1, SyncStepInv, SrvStepInv, ProcessInv, TickInv DEF Next
<1>2. CASE UNCHANGED vars
  <2>1. \A c \in Chunks : Pick(c)' = Pick(c)
    BY <1>2, SamePick DEF vars, sync
  <2>2. TypeOK'
    BY <1>2 DEF IInv, TypeOK, vars, sync, counters
  <2>3. StatusInv'
    BY <1>2 DEF IInv, StatusInv, vars, sync
  <2>4. ThreadInv'
    BY <1>2, <2>1 DEF IInv, ThreadInv, vars, sync
  <2>. QED
    BY <2>2, <2>3, <2>4 DEF IInv
<1>. QED
  BY <1>1, <1>2

LEMMA Invariance == SettledSpec => []IInv
BY SettledInv, NextInv, PTL DEF SettledSpec

-----------------------------------------------------------------------------
\* The four lists, the picks and the answers under way have their types, however
\* the clocks of the machines differ.
THEOREM GossipTypeCorrect == SettledSpec => []TypeOK
<1>1. IInv => TypeOK
  BY DEF IInv
<1>. QED
  BY <1>1, Invariance, PTL

\* Whatever is registered early, moved by a stale pick or adopted from another
\* chunk server: a chunk that a server knows is in exactly one of its lists.
THEOREM ListsTheorem == SettledSpec => []ListsArePartition
<1>1. IInv => ListsArePartition
  BY DEF IInv, StatusInv, Good, Partition, ListsArePartition
<1>. QED
  BY <1>1, Invariance, PTL

\* Only a config file makes a chunk a seed.
THEOREM RolesTheorem == SettledSpec => []RolesKept
<1>1. IInv => RolesKept
  BY DEF IInv, StatusInv, Good, RolesKept
<1>. QED
  BY <1>1, Invariance, PTL
-----------------------------------------------------------------------------
(* Who is given up.                                                        *)

\* The chunk servers that run and go on running; a status that gives none of them up.
Steady == {k \in Chunks \ Crashable : up[k]}
NotDead(s) == \A k \in Steady : k \notin s.dead_seeds \cup s.dead_commons

\* A thread that calls a steady chunk server has counted only calls that were lost.
Patient(c) ==
    /\ pc[c] \in {"off", "boot", "sleep"} => retry[c] = 0
    /\ to_gossip[c] # {} /\ Pick(c).kbid \in Steady => retry[c] <= faults /\ pc[c] # "failed"
Fair ==
    /\ \A c \in Chunks : NotDead(m_status[c]) /\ NotDead(response[c])
    /\ \A c \in Chunks : Patient(c)
DeathInv == faults <= 2 => Fair

\* What a thread does not touch it goes on waiting for.
LEMMA StaysPatient ==
  ASSUME TypeOK, NEW d \in Chunks, Patient(d), pc'[d] = pc[d] \/ pc'[d] \notin {"off", "boot", "sleep", "failed"},
         retry'[d] = retry[d], to_gossip'[d] = to_gossip[d],
         Steady' = Steady, faults' \in Nat, faults <= faults'
  PROVE  Patient(d)'
<1>1. Pick(d)' = Pick(d)
  BY SamePick
<1>2. retry[d] \in Nat /\ faults \in Nat
  BY DEF TypeOK, Retries
<1>. QED
  BY <1>1, <1>2 DEF Patient

LEMMA NextPickIsPatient ==
  ASSUME TypeOK, NEW c \in Chunks, NextPick(c), faults' \in Nat
  PROVE  /\ Patient(c)' /\ \A d \in Chunks \ {c} : pc'[d] = pc[d] /\ retry'[d] = retry[d]
<1>1. retry'[c] = 0 /\ pc'[c] \in {"sleep", "call"}
  BY DEF NextPick, TypeOK
<1>2. \A d \in Chunks \ {c} : pc'[d] = pc[d] /\ retry'[d] = retry[d]
  BY DEF NextPick, TypeOK
<1>. QED
  BY <1>1, <1>2 DEF Patient

\* A chunk server that does not crash runs as long as it does.
LEMMA SteadyStays ==
  ASSUME TypeOK, [Next]_vars
  PROVE  Steady' = Steady
<1>1. ASSUME NEW c \in Chunks, StartGossip(c) \/ Crash(c) PROVE Steady' = Steady
  <2>1. c \in Crashable /\ \A d \in Chunks \ {c} : up'[d] = up[d]
    BY <1>1 DEF StartGossip, Crash, TypeOK
  <2>. QED
    BY <2>1 DEF Steady
<1>2. \/ UNCHANGED up
      \/ \E c \in Chunks : StartGossip(c) \/ Crash(c)
  BY DEF Next, SyncStep, SrvStep, Initialize, StartRound, SkipUnknown, CallFails, SetDead, SetAlive,
         KeepStatus, FindNewer, Unreadable, Adopt, Register, Reply, Tick, vars
<1>. QED
  BY <1>1, <1>2 DEF Steady

\* The lists of the dead after an operation of a status.
LEMMA MoveIsFair ==
  ASSUME NEW s \in StatusType, NEW k, NEW from, NEW to, NEW now, Opposite(from, to), NotDead(s),
         to \in {"dead_seeds", "dead_commons"} => k \notin Steady
  PROVE  NotDead(Move(s, from, to, k, now))
<1>. DEFINE t == Move(s, from, to, k, now)
<1>1. t.dead_seeds \subseteq s.dead_seeds \cup (IF to = "dead_seeds" THEN {k} ELSE {})
  BY DEF Move, MoveAnyway, Opposite, StatusType
<1>2. t.dead_commons \subseteq s.dead_commons \cup (IF to = "dead_commons" THEN {k} ELSE {})
  BY DEF Move, MoveAnyway, Opposite, StatusType
<1>. HIDE DEF t
<1>3. NotDead(t)
  BY <1>1, <1>2 DEF NotDead
<1>. QED
  BY <1>3 DEF t

LEMMA NoStatusIsFair == NotDead(NoStatus)
BY DEF NotDead, NoStatus

LEMMA SyncStepDeath ==
  ASSUME IInv, Fair, faults' <= 2, NEW c \in Chunks, SyncStep(c), Steady' = Steady
  PROVE  Fair'
<1>t. /\ TypeOK /\ StatusInv /\ ThreadInv /\ faults \in Nat
      /\ to_gossip \in [Chunks -> SUBSET PickType]
      /\ \A d \in Chunks : /\ m_status[d] \in StatusType /\ response[d] \in StatusType
                           /\ NotDead(m_status[d]) /\ NotDead(response[d]) /\ Patient(d)
                           /\ retry[d] \in 0..Retries
  BY DEF IInv, Fair, TypeOK
<1>n. \A s : NotDead(s)' <=> NotDead(s)
  BY DEF NotDead
<1>a. ASSUME NextPick(c), faults' \in Nat, faults <= faults', \A d \in Chunks : NotDead(m_status'[d])
      PROVE  Fair'
  <2>1. \A d \in Chunks : NotDead(response'[d])
    BY <1>t, <1>a, NoStatusIsFair DEF NextPick, TypeOK
  <2>2. \A d \in Chunks : Patient(d)'
    <3>1. Patient(c)' /\ \A d \in Chunks \ {c} : pc'[d] = pc[d] /\ retry'[d] = retry[d]
      BY <1>t, <1>a, NextPickIsPatient
    <3>2. \A d \in Chunks \ {c} : to_gossip'[d] = to_gossip[d]
      BY <1>t, <1>a DEF NextPick
    <3>3. \A d \in Chunks \ {c} : Patient(d)'
      BY <1>t, <1>a, <3>1, <3>2, StaysPatient
    <3>. QED
      BY <3>1, <3>3
  <2>. QED
    BY <1>t, <1>n, <1>a, <2>1, <2>2 DEF Fair
<1>b. ASSUME \A d \in Chunks : NotDead(m_status'[d]), UNCHANGED response, faults' \in Nat,
             faults <= faults', Patient(c)',
             \A d \in Chunks \ {c} : pc'[d] = pc[d] /\ retry'[d] = retry[d] /\ to_gossip'[d] = to_gossip[d]
      PROVE  Fair'
  <2>1. \A d \in Chunks \ {c} : Patient(d)'
    BY <1>t, <1>b, StaysPatient
  <2>. QED
    BY <1>t, <1>n, <1>b, <2>1 DEF Fair
<1>0. CASE Unreadable(c)
  BY <1>t, <1>a, <1>0 DEF Unreadable
<1>1. CASE StartRound(c)
  <2>1. retry'[c] = 0 /\ pc'[c] = "call" /\ UNCHANGED <<m_status, response, faults>>
    BY <1>t, <1>1 DEF StartRound, Patient, TypeOK, counters
  <2>2. Patient(c)'
    BY <1>t, <2>1 DEF Patient
  <2>3. \A d \in Chunks \ {c} : pc'[d] = pc[d] /\ retry'[d] = retry[d] /\ to_gossip'[d] = to_gossip[d]
    BY <1>t, <1>1 DEF StartRound, TypeOK
  <2>. QED
    BY <1>t, <1>b, <2>1, <2>2, <2>3
<1>2. CASE SkipUnknown(c) \/ KeepStatus(c)
  BY <1>t, <1>a, <1>2 DEF SkipUnknown, KeepStatus, counters
<1>3. CASE CallFails(c)
  <2>1. /\ faults' \in Nat /\ faults <= faults'
        /\ Pick(c).kbid \in Steady => faults' = faults + 1
    BY <1>t, <1>3 DEF CallFails, Steady
  <2>2. /\ retry'[c] = CountFailure(retry[c]) /\ pc'[c] = AfterFailure(retry[c])
        /\ UNCHANGED <<m_status, response, to_gossip>>
    BY <1>t, <1>3 DEF CallFails, TypeOK
  <2>3. Pick(c)' = Pick(c) /\ to_gossip[c] # {} /\ pc'[c] \in {"failed", "call"}
    BY <1>t, <1>3, <2>2, SamePick DEF CallFails, ThreadInv, AfterFailure
  <2>4. Pick(c).kbid \in Steady => retry[c] <= faults /\ retry[c] <= 1
    BY <1>t, <1>3, <2>1, <2>3 DEF Patient
  <2>5. Pick(c).kbid \in Steady => retry'[c] <= faults' /\ pc'[c] = "call"
    BY <1>t, <2>1, <2>2, <2>4 DEF CountFailure, AfterFailure, Retries
  <2>6. Patient(c)'
    BY <2>3, <2>5 DEF Patient
  <2>7. \A d \in Chunks \ {c} : pc'[d] = pc[d] /\ retry'[d] = retry[d] /\ to_gossip'[d] = to_gossip[d]
    BY <1>t, <1>3 DEF CallFails, TypeOK
  <2>. QED
    BY <1>t, <1>b, <2>1, <2>2, <2>6, <2>7
<1>4. CASE SetDead(c)
  <2>. DEFINE p == Pick(c)
  <2>1. /\ NextPick(c) /\ pc[c] = "failed" /\ to_gossip[c] # {} /\ p \in PickType /\ UNCHANGED faults
        /\ p.kbid \notin Steady
    BY <1>t, <1>4, PickIsOne DEF SetDead, ThreadInv, Patient, counters
  <2>2. p.list \in AliveLists => NotDead(Move(m_status[c], p.list, DeadOf[p.list], p.kbid, Now(c)))
    BY <1>t, <2>1, MoveIsFair DEF Opposite, DeadOf, AliveLists
  <2>3. \A d \in Chunks : NotDead(m_status'[d])
    BY <1>t, <1>4, <2>2 DEF SetDead, TypeOK
  <2>. QED
    BY <1>t, <1>a, <2>1, <2>3
<1>5. CASE SetAlive(c)
  <2>. DEFINE p == Pick(c)
  <2>1. /\ pc[c] = "revive" /\ to_gossip[c] # {} /\ p \in PickType /\ p.list \notin AliveLists
    BY <1>t, <1>5, PickIsOne DEF SetAlive, ThreadInv
  <2>2. /\ Opposite(p.list, AliveOf[p.list])
        /\ AliveOf[p.list] \notin {"dead_seeds", "dead_commons"}
    BY <2>1 DEF Opposite, AliveOf, AliveLists, PickType, Lists
  <2>3. NotDead(Move(m_status[c], p.list, AliveOf[p.list], p.kbid, Now(c)))
    BY <1>t, <2>2, MoveIsFair
  <2>4. \A d \in Chunks : NotDead(m_status'[d])
    BY <1>t, <1>5, <2>3 DEF SetAlive, TypeOK
  <2>5. UNCHANGED <<response, faults, to_gossip, retry>> /\ pc' = [pc EXCEPT ![c] = "compare"]
    BY <1>5 DEF SetAlive, counters
  <2>6. Pick(c)' = Pick(c) /\ pc'[c] = "compare"
    BY <1>t, <2>5, SamePick DEF TypeOK
  <2>7. Patient(c)'
    BY <1>t, <2>5, <2>6 DEF Patient
  <2>8. \A d \in Chunks \ {c} : pc'[d] = pc[d] /\ retry'[d] = retry[d] /\ to_gossip'[d] = to_gossip[d]
    BY <1>t, <2>5 DEF TypeOK
  <2>. QED
    BY <1>t, <1>b, <2>4, <2>5, <2>7, <2>8
<1>6. CASE FindNewer(c)
  <2>1. UNCHANGED <<m_status, response, faults, to_gossip, retry>> /\ pc' = [pc EXCEPT ![c] = "adopt"]
    BY <1>6 DEF FindNewer, counters
  <2>2. Pick(c)' = Pick(c) /\ pc'[c] = "adopt"
    BY <1>t, <2>1, SamePick DEF TypeOK
  <2>3. Patient(c)'
    BY <1>t, <2>1, <2>2 DEF Patient
  <2>4. \A d \in Chunks \ {c} : pc'[d] = pc[d] /\ retry'[d] = retry[d] /\ to_gossip'[d] = to_gossip[d]
    BY <1>t, <2>1 DEF TypeOK
  <2>. QED
    BY <1>t, <1>b, <2>1, <2>3, <2>4
<1>7. CASE Adopt(c)
  <2>1. NextPick(c) /\ UNCHANGED faults /\ \A d \in Chunks : NotDead(m_status'[d])
    BY <1>t, <1>7 DEF Adopt, TypeOK, counters
  <2>. QED
    BY <1>t, <1>a, <2>1
<1>. QED
  BY <1>0, <1>1, <1>2, <1>3, <1>4, <1>5, <1>6, <1>7 DEF SyncStep

LEMMA SrvStepDeath ==
  ASSUME IInv, Fair, faults' <= 2, NEW c \in Chunks, NEW i \in Chunks, SrvStep(i, c), Steady' = Steady
  PROVE  Fair'
<1>t. /\ TypeOK /\ StatusInv /\ ThreadInv /\ faults \in Nat
      /\ \A d \in Chunks : /\ m_status[d] \in StatusType /\ NotDead(m_status[d])
                           /\ NotDead(response[d]) /\ Patient(d)
  BY DEF IInv, Fair, TypeOK
<1>n. \A s : NotDead(s)' <=> NotDead(s)
  BY DEF NotDead
<1>1. UNCHANGED <<to_gossip, retry, faults>> /\ Pick(c)' = Pick(c) /\ to_gossip[c] # {}
  BY <1>t, SamePick DEF SrvStep, Register, Reply, Serves, ThreadInv, counters
<1>2. \A d \in Chunks : NotDead(m_status'[d]) /\ NotDead(response'[d])
  <2>1. CASE Register(i, c)
    <3>1. NotDead(CheckCommons(m_status[i], c, Now(i)))
      <4>1. Good(m_status[i]) /\ Now(i) \in Nat
        BY <1>t, NowIsTime DEF StatusInv
      <4>2. /\ CheckCommons(m_status[i], c, Now(i)).dead_seeds = m_status[i].dead_seeds
            /\ CheckCommons(m_status[i], c, Now(i)).dead_commons = m_status[i].dead_commons
        BY <4>1, CheckCommonsIsGood
      <4>. QED
        BY <1>t, <4>2 DEF NotDead
    <3>. QED
      BY <1>t, <2>1, <3>1 DEF Register, TypeOK
  <2>2. CASE Reply(i, c)
    BY <1>t, <2>2 DEF Reply, TypeOK
  <2>. QED
    BY <2>1, <2>2 DEF SrvStep
<1>3. /\ \A d \in Chunks \ {c} : pc'[d] = pc[d]
      /\ pc'[c] \in {"asked", "failed", "compare", "revive"}
      /\ pc'[c] = "failed" => retry[c] = Retries
  BY <1>t DEF SrvStep, Register, Reply, TypeOK
<1>4. Patient(c)'
  <2>1. Pick(c).kbid \in Steady => retry[c] <= faults /\ retry[c] # Retries
    BY <1>t, <1>1 DEF Patient, Retries
  <2>. QED
    BY <1>1, <1>3, <2>1 DEF Patient
<1>5. \A d \in Chunks \ {c} : Patient(d)'
  BY <1>t, <1>1, <1>3, StaysPatient
<1>. QED
  BY <1>t, <1>n, <1>1, <1>2, <1>4, <1>5 DEF Fair

LEMMA ProcessDeath ==
  ASSUME IInv, Fair, NEW c \in Chunks, StartGossip(c) \/ Initialize(c) \/ Crash(c), Steady' = Steady
  PROVE  Fair'
<1>t. /\ TypeOK /\ ThreadInv /\ faults \in Nat
      /\ \A d \in Chunks : /\ m_status[d] \in StatusType /\ NotDead(m_status[d])
                           /\ NotDead(response[d]) /\ Patient(d)
  BY DEF IInv, Fair, TypeOK
<1>n. \A s : NotDead(s)' <=> NotDead(s)
  BY DEF NotDead
<1>1. CASE StartGossip(c) \/ Initialize(c)
  <2>1. UNCHANGED <<response, to_gossip, retry, faults>> /\ Pick(c)' = Pick(c)
    BY <1>1, SamePick DEF StartGossip, Initialize, counters
  <2>2. NotDead(Initialised(m_status[c], Known[c], Now(c)))
    BY <1>t DEF NotDead, Initialised, StatusType
  <2>3. \A d \in Chunks : NotDead(m_status'[d])
    BY <1>t, <1>1, <2>2 DEF StartGossip, Initialize, TypeOK
  <2>4. /\ pc[c] \in {"off", "boot"} /\ pc'[c] \in {"boot", "sleep"}
        /\ \A d \in Chunks \ {c} : pc'[d] = pc[d]
    BY <1>t, <1>1 DEF StartGossip, Initialize, ThreadInv, TypeOK
  <2>5. Patient(c)'
    BY <1>t, <2>1, <2>4 DEF Patient
  <2>6. \A d \in Chunks \ {c} : Patient(d)'
    BY <1>t, <2>1, <2>4, StaysPatient
  <2>. QED
    BY <1>t, <1>n, <2>1, <2>3, <2>5, <2>6 DEF Fair
<1>2. CASE Crash(c)
  <2>1. c \notin Steady /\ faults' = faults + 1
    BY <1>t, <1>2 DEF Crash, Steady
  <2>2. \A d \in Chunks : NotDead(m_status'[d]) /\ NotDead(response'[d])
    BY <1>t, <1>2, NoStatusIsFair DEF Crash, TypeOK
  <2>3. Patient(c)'
    BY <1>t, <1>2 DEF Crash, Patient, TypeOK
  <2>4. ASSUME NEW d \in Chunks \ {c} PROVE Patient(d)'
    <3>1. to_gossip'[d] = to_gossip[d] /\ Pick(d)' = Pick(d)
      BY <1>t, <1>2, SamePick DEF Crash, TypeOK
    <3>2. CASE Serves(c, d)
      <4>1. Pick(d).kbid \notin Steady /\ pc'[d] = AfterFailure(retry[d])
        BY <1>2, <2>1, <3>2 DEF Crash, Serves
      <4>. QED
        BY <3>1, <4>1 DEF Patient, AfterFailure
    <3>3. CASE ~Serves(c, d)
      <4>1. pc'[d] = pc[d] /\ retry'[d] = retry[d]
        BY <1>2, <3>3 DEF Crash
      <4>. QED
        BY <1>t, <2>1, <3>1, <4>1, StaysPatient
    <3>. QED
      BY <3>2, <3>3
  <2>. QED
    BY <1>t, <1>n, <2>1, <2>2, <2>3, <2>4 DEF Fair
<1>. QED
  BY <1>1, <1>2

LEMMA TickDeath ==
  ASSUME IInv, Fair, Tick, Steady' = Steady
  PROVE  Fair'
<1>t. /\ TypeOK /\ faults \in Nat
      /\ \A d \in Chunks : /\ m_status[d] \in StatusType /\ NotDead(m_status[d])
                           /\ response[d] \in StatusType /\ NotDead(response[d]) /\ Patient(d)
  BY DEF IInv, Fair, TypeOK
<1>n. \A s : NotDead(s)' <=> NotDead(s)
  BY DEF NotDead
<1>2. \A d \in Chunks : NotDead(m_status'[d]) /\ NotDead(response'[d])
  <2>1. \A d \in Chunks : /\ m_status'[d] = [m_status[d] EXCEPT !.timestamp = Rank(m_status[d].timestamp)]
                          /\ response'[d] = [response[d] EXCEPT !.timestamp = Rank(response[d].timestamp)]
    BY DEF Tick
  <2>2. \A d \in Chunks : /\ m_status'[d].dead_seeds = m_status[d].dead_seeds
                          /\ m_status'[d].dead_commons = m_status[d].dead_commons
                          /\ response'[d].dead_seeds = response[d].dead_seeds
                          /\ response'[d].dead_commons = response[d].dead_commons
    <3>. SUFFICES ASSUME NEW d \in Chunks
                  PROVE  /\ m_status'[d].dead_seeds = m_status[d].dead_seeds
                         /\ m_status'[d].dead_commons = m_status[d].dead_commons
                         /\ response'[d].dead_seeds = response[d].dead_seeds
                         /\ response'[d].dead_commons = response[d].dead_commons
      OBVIOUS
    <3>1. m_status[d] \in StatusType
      BY <1>t
    <3>2. response[d] \in StatusType
      BY <1>t
    <3>3. m_status'[d] = [m_status[d] EXCEPT !.timestamp = Rank(m_status[d].timestamp)]
      BY <2>1
    <3>4. response'[d] = [response[d] EXCEPT !.timestamp = Rank(response[d].timestamp)]
      BY <2>1
    <3>5. /\ m_status'[d].dead_seeds = m_status[d].dead_seeds
          /\ m_status'[d].dead_commons = m_status[d].dead_commons
      BY <3>1, <3>3 DEF StatusType
    <3>6. /\ response'[d].dead_seeds = response[d].dead_seeds
          /\ response'[d].dead_commons = response[d].dead_commons
      BY <3>2, <3>4 DEF StatusType
    <3>. QED
      BY <3>5, <3>6
  <2>. QED
    BY <1>t, <2>2 DEF NotDead
<1>3. UNCHANGED <<pc, to_gossip, retry, faults>>
  BY DEF Tick, counters
<1>4. \A d \in Chunks : Patient(d)'
  BY <1>t, <1>3, StaysPatient
<1>. QED
  BY <1>n, <1>2, <1>3, <1>4 DEF Fair

LEMMA NextDeath == IInv /\ DeathInv /\ [Next]_vars => DeathInv'
<1>. SUFFICES ASSUME IInv, DeathInv, [Next]_vars, faults' <= 2 PROVE Fair'
  BY DEF DeathInv
<1>s. Steady' = Steady
  BY SteadyStays DEF IInv
<1>f. faults \in Nat /\ faults <= faults'
  BY DEF IInv, TypeOK, Next, SyncStep, SrvStep, StartGossip, Initialize, Crash, StartRound, SkipUnknown,
         CallFails, SetDead, SetAlive, KeepStatus, FindNewer, Unreadable, Adopt, Register, Reply, Tick,
         vars, counters
<1>g. Fair
  <2>1. faults' \in Nat
    BY NextInv DEF IInv, TypeOK
  <2>. QED
    BY <1>f, <2>1 DEF DeathInv
<1>1. CASE Next
  BY <1>1, <1>s, <1>g, SyncStepDeath, SrvStepDeath, ProcessDeath, TickDeath DEF Next
<1>2. CASE UNCHANGED vars
  <2>1. \A s : NotDead(s)' <=> NotDead(s)
    BY <1>s DEF NotDead
  <2>2. UNCHANGED <<m_status, response, pc, to_gossip, retry, faults>>
    BY <1>2 DEF vars, sync, counters
  <2>3. \A c \in Chunks : Patient(c)'
    BY <1>g, <2>2, <1>s, StaysPatient DEF IInv, Fair, TypeOK
  <2>. QED
    BY <1>g, <2>1, <2>2, <2>3 DEF Fair
<1>. QED
  BY <1>1, <1>2

LEMMA SettledDeath == SettledInit => DeathInv
<1>. SUFFICES ASSUME SettledInit PROVE DeathInv
  OBVIOUS
<1>1. \A c \in Chunks : NotDead(m_status[c]) /\ NotDead(response[c])
  BY DEF SettledInit, NoFalseDeath, NotDead, Steady, NoStatus
<1>2. \A c \in Chunks : Patient(c)
  BY DEF SettledInit, Patient
<1>. QED
  BY <1>1, <1>2 DEF DeathInv, Fair

\* From any settled cluster, whatever the chunk servers adopt from each other and
\* however fast their clocks are: up to the second call that is lost or process that
\* crashes, nobody who runs and goes on running is in a list of the dead.
THEOREM NoFalseDeathTheorem == SettledSpec => []NoFalseDeath
<1>1. IInv /\ DeathInv => NoFalseDeath
  BY DEF DeathInv, Fair, NotDead, Steady, NoFalseDeath
<1>2. IInv /\ DeathInv /\ [Next]_vars => (IInv /\ DeathInv)'
  BY NextInv, NextDeath
<1>. QED
  BY <1>1, <1>2, SettledInv, SettledDeath, PTL DEF SettledSpec
=============================================================================
