------------------------------- MODULE MCSlave --------------------------------
(***************************************************************************)
(* The instance of SlaveNode for TLC: every file has a placement of its own.*)
(***************************************************************************)
EXTENDS SlaveNode

CONSTANTS f1, f2, h1, h2
TwoUploads == {[file |-> f1, hosts |-> h1], [file |-> f2, hosts |-> h2]}
===============================================================================
