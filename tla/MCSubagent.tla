---------------------------- MODULE MCSubagent ----------------------------
EXTENDS Subagent, TLC
Symmetry == Permutations(Messages)
===========================================================================
