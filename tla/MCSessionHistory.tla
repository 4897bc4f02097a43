-------------------------- MODULE MCSessionHistory --------------------------
(* Small instance of SessionHistory for TLC. *)
EXTENDS SessionHistory

CONSTANTS l1, l2, l3, l4, l5, l6, l7, l8, l9

\* The second message and the third say the same, and so do all notes.
MCText(m) == IF m.kind = "note" THEN <<"note">> ELSE <<m.kind, IF m.at = 3 THEN 2 ELSE m.at>>
=============================================================================
