------------------------------ MODULE MCKeyCenter ------------------------------
(***************************************************************************)
(* An instance of KeyCenter for TLC.                                       *)
(***************************************************************************)
EXTENDS KeyCenter

CONSTANTS k1, k2, u1

\* The user and the administrator sign with the first key.
UserAndAdmin == {[issuer |-> u1, key |-> k1], [issuer |-> Admin, key |-> k1]}

\* The administrator gives the user that key, or replaces its own; whoever has the
\* administrator's next key gives the user another one.
GiveAndReplace == {[key_id |-> u1, key_public |-> k1, signer |-> k1],
                   [key_id |-> Admin, key_public |-> k2, signer |-> k1],
                   [key_id |-> u1, key_public |-> k2, signer |-> k2]}
=============================================================================
