--------------------------- MODULE MCSessionLock ---------------------------
EXTENDS SessionLock, TLC
Symmetry == Permutations(Pids) \cup Permutations(Sessions)
=============================================================================
