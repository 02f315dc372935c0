----------------------------- MODULE MCSentinel -----------------------------
(***************************************************************************)
(* Instances of MasterSentinel for TLC.  The start of a cluster is checked *)
(* from Init.  A failing cluster is checked from a settled one, a state    *)
(* every start without faults can reach, so that the bounds are spent on   *)
(* the faults and not on the interleavings of the start.                   *)
(***************************************************************************)
EXTENDS MasterSentinel

\* All masters run, the one with the largest kbid won the first ballot.
SettledInit ==
    /\ up = [p \in Masters |-> TRUE]
    /\ m_status = [p \in Masters |-> IF p = N THEN Leader ELSE Follower]
    /\ m_leader = [p \in Masters |-> N]
    /\ m_vote = [p \in Masters |-> N]
    /\ m_epoch = [p \in Masters |-> 0]
    /\ pc = [p \in Masters |-> "top"]
    /\ leader = [p \in Masters |-> N]
    /\ target = [p \in Masters |-> 1]
    /\ votes = [p \in Masters |-> NoVotes]
    /\ me_vote = [p \in Masters |-> NoTicket]
    /\ retry = [p \in Masters |-> 0]
    /\ response = [p \in Masters |-> {}]
    /\ srv = [p \in Masters |-> SrvIdle]
    /\ lost = 0 /\ starts = 0 /\ crashes = 0

SettledSpec == SettledInit /\ [][Next]_vars
SettledLiveSpec == SettledSpec /\ Fairness
=============================================================================
