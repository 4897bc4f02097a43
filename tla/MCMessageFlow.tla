--------------------------- MODULE MCMessageFlow ---------------------------
(* Small instance of MessageFlow for TLC. *)
EXTENDS MessageFlow

CONSTANTS p1, p2, s1, c1, n1
=============================================================================
