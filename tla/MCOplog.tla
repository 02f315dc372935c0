------------------------------- MODULE MCOplog -------------------------------
(***************************************************************************)
(* Instances of OplogReplication for TLC.                                  *)
(***************************************************************************)
EXTENDS OplogReplication, TLC

\* Nothing tells the files or the placements apart.
Symmetry == Permutations(Files) \cup Permutations(Hosts)

\* The ballots are over: the largest eligible master leads, the others follow.
Elected == CHOOSE l \in Eligible : \A m \in Eligible : m <= l
SettledInit ==
    /\ m_status = [m \in Masters |-> IF m = Elected THEN Leader ELSE Follower]
    /\ m_leader = [m \in Masters |-> Elected]
    /\ DataInit

SettledSpec == SettledInit /\ [][Next]_vars
SettledLiveSpec == SettledSpec /\ Fairness
=============================================================================
