------------------------------- MODULE MCGossip -------------------------------
(***************************************************************************)
(* Instances of ChunkGossip for TLC.                                       *)
(***************************************************************************)
EXTENDS ChunkGossip

CONSTANTS c1, c2, c3

\* Config files list the seeds and the chunk itself: the others come to know it
\* by its calls.  The seed's list another chunk, which does not run at first.
SeedsAndItself == [c \in Chunks |-> Seeds \cup {c} \cup (IF c \in Seeds THEN {c3} ELSE {})]

\* The clock of the seed's machine is a second fast.
SeedIsFast == [c \in Chunks |-> IF c \in Seeds THEN 1 ELSE 0]

\* The seed and c2 run and have initialised their lists, and the seed has given
\* up c3.
GivenUp(s, k) == [s EXCEPT !.commons = @ \ {k}, !.dead_commons = @ \cup {k}]
Settled ==
    /\ clock = 1
    /\ up = [c \in Chunks |-> c # c3]
    /\ m_status = [c \in Chunks |->
                     LET s == Initialised(NoStatus, Known[c], Now(c)) IN
                     CASE c = c3 -> NoStatus
                       [] c \in Seeds -> GivenUp(s, c3)
                       [] OTHER -> s]
    /\ SettledInit

SettledLiveSpec == Settled /\ [][Next]_vars /\ Fairness
=============================================================================
