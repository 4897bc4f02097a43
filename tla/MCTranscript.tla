---------------------------- MODULE MCTranscript ----------------------------
EXTENDS Transcript, TLC
Symmetry == Permutations(Calls)
=============================================================================
