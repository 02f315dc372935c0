------------------------------ MODULE SharedLog ------------------------------
(***************************************************************************)
(* What the two-phase replication of the oplog is for: the masters copy    *)
(* one log.  An entry, once chosen, is never replaced; every master has a  *)
(* prefix of the log, which only grows; an upload is acknowledged only     *)
(* when its entry is chosen.                                               *)
(***************************************************************************)
EXTENDS Integers

CONSTANTS Replicas, Ids, Values, None

VARIABLES log,      \* id -> the entry chosen, or None
          len,      \* replica -> the length of its copy
          acks      \* the entries acknowledged
vars == <<log, len, acks>>

Init == /\ log = [id \in Ids |-> None]
        /\ len = [r \in Replicas |-> 0]
        /\ acks = {}

\* A replica that has the whole log adds an entry.
Choose(r, v) ==
    /\ len[r] \in Ids /\ log[len[r]] = None
    /\ log' = [log EXCEPT ![len[r]] = v]
    /\ len' = [len EXCEPT ![r] = @ + 1]
    /\ UNCHANGED acks

\* A replica that is behind copies the next entry.
Learn(r) ==
    /\ len[r] \in Ids /\ log[len[r]] # None
    /\ len' = [len EXCEPT ![r] = @ + 1]
    /\ UNCHANGED <<log, acks>>

Acknowledge(id) ==
    /\ log[id] # None
    /\ acks' = acks \cup {[op_id |-> id, op |-> log[id]]}
    /\ UNCHANGED <<log, len>>

Next == \/ \E r \in Replicas : Learn(r) \/ \E v \in Values : Choose(r, v)
        \/ \E id \in Ids : Acknowledge(id)

Spec == Init /\ [][Next]_vars
=============================================================================
