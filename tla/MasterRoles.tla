----------------------------- MODULE MasterRoles -----------------------------
(***************************************************************************)
(* What the rest of a KyrinBox master sees of its sentinel: the answers of *)
(* KyrinMasterSentinel::get_status and ::get_leader.  MasterSentinel       *)
(* implements this module; OplogReplication is built on it, so that the    *)
(* replication of the oplog is checked against every behaviour of the      *)
(* roles that this module allows.                                          *)
(***************************************************************************)
EXTENDS Integers

CONSTANT N      \* master_count: the masters have kbid 1..N
ASSUME RolesAssumption == N \in Nat \ {0}

Masters == 1..N

\* KyrinMasterStatus
Leader == "leader"
Follower == "follower"
Consensus == "consensus"
Statuses == {Leader, Follower, Consensus}

VARIABLES m_status, m_leader
roles == <<m_status, m_leader>>

-----------------------------------------------------------------------------
\* start_sentinel: every master begins by looking for a leader and names
\* itself until one is found.
RolesInit == /\ m_status = [p \in Masters |-> Consensus]
             /\ m_leader = [p \in Masters |-> p]

\* The end of a ballot, m_status and m_leader written under both locks.
Settle(p, l) ==
    /\ m_status[p] = Consensus
    /\ m_leader' = [m_leader EXCEPT ![p] = l]
    /\ m_status' = [m_status EXCEPT ![p] = IF l = p THEN Leader ELSE Follower]

\* The master starts looking for a leader again; m_leader keeps its old value.
Reconsider(p) ==
    /\ m_status' = [m_status EXCEPT ![p] = Consensus]
    /\ UNCHANGED m_leader

\* A newer epoch met during a ballot, or a restart of the process.
NameItself(p) ==
    /\ m_status' = [m_status EXCEPT ![p] = Consensus]
    /\ m_leader' = [m_leader EXCEPT ![p] = p]

\* A master in ballot may settle again although the server thread has just
\* put it back in Consensus; no step takes it from Leader to Follower.
RolesStep(p) == \/ \E l \in Masters : Settle(p, l)
                \/ Reconsider(p)
                \/ NameItself(p)

RolesNext == \E p \in Masters : RolesStep(p)

RolesSpec == RolesInit /\ [][RolesNext]_roles

-----------------------------------------------------------------------------
\* A master that serves uploads names itself as the leader, and a follower
\* names another one: update_oplog of a follower never calls the follower.
RolesConsistent ==
    \A p \in Masters : /\ m_status[p] = Leader => m_leader[p] = p
                       /\ m_status[p] = Follower => m_leader[p] # p
=============================================================================
