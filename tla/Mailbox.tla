------------------------------ MODULE Mailbox ------------------------------
(***************************************************************************)
(* What the message flow of the terminal interface promises, without its   *)
(* tasks, workers and flags: a line of messages, the messages taken out of *)
(* it and not settled yet, and what became of each.  MessageFlow is shown  *)
(* to implement it.                                                        *)
(***************************************************************************)
EXTENDS Sequences

CONSTANTS
    Messages,   \* everything a user or a background task may hand in
    Ends        \* Ends[m]: what may become of m once it is in hand

VARIABLES
    waiting,    \* the messages in line, oldest first
    inHand,     \* messages taken up and not settled yet
    outcome     \* "new", "open", or what became of the message

mailVars == <<waiting, inHand, outcome>>

InLine == {waiting[i] : i \in DOMAIN waiting}

Init ==
    /\ waiting = <<>>
    /\ inHand = {}
    /\ outcome = [m \in Messages |-> "new"]

\* A message is handed in: it lines up, or it is taken up at once.
Accept(m) ==
    /\ outcome[m] = "new"
    /\ outcome' = [outcome EXCEPT ![m] = "open"]
    /\ \/ waiting' = Append(waiting, m) /\ UNCHANGED inHand
       \/ inHand' = inHand \cup {m} /\ UNCHANGED waiting

\* The oldest message in line is taken up.
Take ==
    /\ waiting # <<>>
    /\ waiting' = Tail(waiting)
    /\ inHand' = inHand \cup {Head(waiting)}
    /\ UNCHANGED outcome

\* A message taken up finds the application busy and lines up again.
PutBack(m) ==
    /\ m \in inHand
    /\ waiting' = Append(waiting, m)
    /\ inHand' = inHand \ {m}
    /\ UNCHANGED outcome

\* A message in hand is settled for good; what settles it may take up the
\* next one in the same step.
Settle(m) ==
    /\ m \in inHand
    /\ \E end \in Ends[m] : outcome' = [outcome EXCEPT ![m] = end]
    /\ \/ inHand' = inHand \ {m} /\ UNCHANGED waiting
       \/ /\ waiting # <<>>
          /\ waiting' = Tail(waiting)
          /\ inHand' = (inHand \ {m}) \cup {Head(waiting)}

\* The whole line is sent with the turn that runs, or thrown away.
Empty(end) ==
    /\ waiting' = <<>>
    /\ outcome' = [m \in Messages |-> IF m \in InLine THEN end ELSE outcome[m]]
    /\ UNCHANGED inHand

Next ==
    \/ \E m \in Messages : Accept(m) \/ PutBack(m) \/ Settle(m)
    \/ Take
    \/ Empty("sent") \/ Empty("discarded")

Spec == Init /\ [][Next]_mailVars
=============================================================================
