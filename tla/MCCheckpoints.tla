--------------------------- MODULE MCCheckpoints ---------------------------
(* Small instance of Checkpoints for TLC. *)
EXTENDS Checkpoints, TLC

Symmetry == Permutations(Files)
=============================================================================
