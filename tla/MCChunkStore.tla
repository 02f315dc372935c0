---------------------------- MODULE MCChunkStore -----------------------------
(***************************************************************************)
(* The instance of ChunkStore for TLC: a file that is uploaded twice, the  *)
(* second time shorter, while it is downloaded, and an upload of another   *)
(* file whose account and name make up the same key.                       *)
(***************************************************************************)
EXTENDS ChunkStore

CONSTANTS f1, f2, k1, u1, u2, u3
OneKey == [c \in Clients |-> k1]
TwoFiles == [c \in Clients |-> IF c = u3 THEN f2 ELSE f1]
TwoOneNone == [u \in Uploads |-> CASE u = u1 -> 2 [] u = u2 -> 1 [] u = u3 -> 0]
=============================================================================
