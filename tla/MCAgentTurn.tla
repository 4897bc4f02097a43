---------------------------- MODULE MCAgentTurn ----------------------------
(* Instances of AgentTurn for TLC. *)
EXTENDS AgentTurn

\* The first user says what the model answers; nobody else repeats anything.
MCText(m) == IF m = User(1) THEN Reply(<<>>) ELSE m
=============================================================================
