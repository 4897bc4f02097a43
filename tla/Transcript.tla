----------------------------- MODULE Transcript -----------------------------
(***************************************************************************)
(* The transcript of a session, session.messages: the events of a turn are *)
(* coalesced into messages, results are put on the calls they answer, an   *)
(* interruption closes what is open, a rewind cuts the transcript, and a   *)
(* session that is read again starts with a fresh pointer.  A "!" command  *)
(* of the user runs beside the turns, its result is an event of a tool too.*)
(*                                                                         *)
(* A message has a kind, the call it shows if it is a tool's, and an end:  *)
(* of a tool the result it shows, of a thought whether it has a duration,  *)
(* of a reply whether it has text; None when there is none yet.            *)
(***************************************************************************)
EXTENDS Naturals, Sequences, SequencesExt

CONSTANTS Calls,    \* tool calls, each with its id and its result
          Commands, \* "!" commands of the user, each with its result
          None,     \* no call, no end
          Done,     \* an end that is not a result
          Cancelled,\* "[interrupted | tool cancelled]"
          MaxBatch, \* bound: calls announced before the first of them is answered
          MaxLen    \* bound: messages in a transcript

ASSUME TranscriptAssumption ==
    /\ {None, Done, Cancelled} \cap (Calls \cup Commands) = {}
    /\ Calls \cap Commands = {}
    /\ None # Done /\ None # Cancelled /\ Done # Cancelled
    /\ MaxBatch \in Nat \ {0} /\ MaxLen \in Nat

VARIABLES
    messages, \* session.messages
    pointer,  \* session._next_unmatched_tool_idx
    phase,    \* what the turn is doing
    thinking, \* thinking_started: a thought's end has not been sent
    left,     \* calls of the batch still to be announced
    running,  \* calls announced and not answered
    shells,   \* "!" commands that run
    torn,     \* history: an interruption has left a call open
    ahead,    \* history: a rewind has left the pointer behind the end
    crossed   \* history: a "!" command's result has gone to a running call

transcript == <<messages, pointer>>
turn == <<phase, thinking, left, running>>
history == <<torn, ahead, crossed>>
transcriptVars == <<transcript, turn, shells, history>>

TranscriptInit ==
    /\ messages = <<>> /\ pointer = 0
    /\ phase = "idle" /\ thinking = FALSE /\ left = 0 /\ running = <<>>
    /\ shells = {} /\ torn = FALSE /\ ahead = FALSE /\ crossed = FALSE

-----------------------------------------------------------------------------
(* add_event, on a transcript t = [m: messages, p: pointer].               *)

Now == [m |-> messages, p |-> pointer]
Becomes(t) == messages' = t.m /\ pointer' = t.p

Message(kind, call, end) == [kind |-> kind, call |-> call, end |-> end]
Appended(t, msg) == [t EXCEPT !.m = Append(@, msg)]
LastIs(t, kind) == t.m # <<>> /\ Last(t.m).kind = kind
LastEnds(t, end) == [t EXCEPT !.m[Len(t.m)].end = end]

IsOpen(msg) == msg.kind = "tool" /\ msg.end = None
OpenIn(t) == {i \in 1 .. Len(t.m) : IsOpen(t.m[i])}

AddUser(t) == Appended(t, Message("user", None, Done))

\* The text of a reply replaces the one before; it is blank or not.
AddReply(t, end) ==
    IF LastIs(t, "bot") THEN LastEnds(t, end) ELSE Appended(t, Message("bot", None, end))

AddThought(t, end) ==
    IF LastIs(t, "thinking") /\ Last(t.m).end = None
    THEN LastEnds(t, end)
    ELSE Appended(t, Message("thinking", None, end))

\* A reset that does not follow its reply becomes a message of its own.
AddReset(t) ==
    IF LastIs(t, "bot") THEN LastEnds(t, None) ELSE Appended(t, Message("bot_reset", None, Done))

\* A blank reply before a call is dropped.
AddCall(t, c) ==
    LET blank == LastIs(t, "bot") /\ Last(t.m).end = None
    IN Appended([t EXCEPT !.m = IF blank THEN Front(@) ELSE @], Message("tool", c, None))

\* Mutant: the latest open call is taken.
AddResult_last(t, r) ==
    LET open == OpenIn(t)
        i == CHOOSE k \in open : \A j \in open : j <= k
    IN IF open = {}
       THEN Appended([t EXCEPT !.p = Len(t.m)], Message("tool", None, r))
       ELSE [t EXCEPT !.m[i].end = r, !.p = i]

\* Mutant: a result is stored on the last call whether it is open or not.
AddResult_over(t, r) ==
    IF t.m # <<>> /\ Last(t.m).kind = "tool"
    THEN LastEnds(t, r)
    ELSE Appended(t, Message("tool", None, r))

\* A result goes to the first open call behind the pointer, whatever its id; with
\* none there it becomes a message of its own.
AddResult(t, r) ==
    LET from == IF t.p < Len(t.m) THEN t.p ELSE Len(t.m)
        open == {i \in OpenIn(t) : i > from}
        i == CHOOSE k \in open : \A j \in open : k <= j
    IN IF open = {}
       THEN Appended([t EXCEPT !.p = Len(t.m)], Message("tool", None, r))
       ELSE [t EXCEPT !.m[i].end = r, !.p = i]

AddDivider(t, text) ==
    IF LastIs(t, text) THEN t ELSE Appended(t, Message(text, None, Done))

\* One step of _finalize_open_messages: the message at i is looked at as it is
\* now, and what is added does not go to it in particular.
Finalize(acc, i) ==
    LET msg == acc.t.m[i] IN
    CASE ~acc.going -> acc
      [] acc.going /\ IsOpen(msg) -> [acc EXCEPT !.t = AddResult(@, Cancelled)]
      [] acc.going /\ msg.kind = "thinking" /\ msg.end = None ->
            [acc EXCEPT !.t = AddThought(@, Done)]
      [] OTHER -> [acc EXCEPT !.going = FALSE]

Interrupted(t) ==
    LET n == Len(t.m)
        looked[k \in 0 .. n] ==    \* after the last k messages
            IF k = 0 THEN [t |-> t, going |-> TRUE] ELSE Finalize(looked[k - 1], n + 1 - k)
    IN AddDivider(looked[n].t, "interrupted")

-----------------------------------------------------------------------------
(* A turn.                                                                 *)

Room == Len(messages) < MaxLen

\* The step has said something: full_assistant_parts.
Spoken ==
    \E i \in DOMAIN messages :
       /\ messages[i].kind = "bot" /\ messages[i].end = Done
       /\ \A j \in i + 1 .. Len(messages) :
             \/ messages[j].kind \in {"thinking", "bot_reset"}
             \/ messages[j].kind = "tool" /\ messages[j].end \in Commands

Fresh == Calls \ ({messages[i].call : i \in DOMAIN messages} \cup {messages[i].end : i \in DOMAIN messages})

Submit ==
    /\ phase = "idle" /\ Room
    /\ Becomes(AddUser(Now))
    /\ phase' = "model"
    /\ UNCHANGED <<thinking, left, running, shells, history>>

\* The stream's thinking_start and thinking_delta, and thinking_end.
Think(end) ==
    /\ phase = "model" /\ Room
    /\ end = Done => thinking
    /\ Becomes(AddThought(Now, end))
    /\ thinking' = (end = None)
    /\ UNCHANGED <<phase, left, running, shells, history>>

\* bot_delta and bot_text.
Speak(end) ==
    /\ phase = "model" /\ Room /\ ~thinking
    /\ end = None => ~(LastIs(Now, "bot") /\ Last(messages).end = Done)
    /\ Becomes(AddReply(Now, end))
    /\ UNCHANGED <<turn, shells, history>>

\* A retry drops what was said; a thought that was not ended stays open.
Reset ==
    /\ phase = "model" /\ Spoken /\ Room
    /\ Becomes(AddReset(Now))
    /\ UNCHANGED <<turn, shells, history>>

\* The calls of a batch are announced one by one, then run together.
Announce(c, n) ==
    /\ phase \in {"model", "announcing"} /\ Room /\ ~thinking
    /\ c \in Fresh
    /\ IF phase = "model" THEN n \in 0 .. MaxBatch - 1 ELSE n = left - 1
    /\ Becomes(AddCall(Now, c))
    /\ running' = Append(running, c)
    /\ left' = n /\ phase' = IF n = 0 THEN "running" ELSE "announcing"
    /\ UNCHANGED <<thinking, shells, history>>

\* The results come in the order of the calls.
Result ==
    /\ phase = "running"
    /\ Becomes(AddResult(Now, Head(running)))
    /\ running' = Tail(running)
    /\ phase' = IF Len(running) = 1 THEN "model" ELSE "running"
    /\ UNCHANGED <<thinking, left, shells, history>>

Queued ==
    /\ phase = "model" /\ Room /\ ~thinking
    /\ Becomes(AddUser(Now))
    /\ UNCHANGED <<turn, shells, history>>

TurnEnds ==
    /\ phase = "model" /\ ~thinking
    /\ phase' = "idle"
    /\ UNCHANGED <<transcript, thinking, left, running, shells, history>>

\* An error of the provider, after which a thought may stay open.
Fails ==
    /\ phase = "model" /\ Room
    /\ Becomes(Appended(Now, Message("error", None, Done)))
    /\ phase' = "idle" /\ thinking' = FALSE
    /\ UNCHANGED <<left, running, shells, history>>

\* record_session_interruption, between any two events of the turn.
Interrupt ==
    /\ phase # "idle"
    /\ Becomes(Interrupted(Now))
    /\ phase' = "idle" /\ thinking' = FALSE /\ left' = 0 /\ running' = <<>>
    /\ torn' = (torn \/ \E i \in DOMAIN messages' : IsOpen(messages'[i]))
    /\ UNCHANGED <<shells, ahead, crossed>>

-----------------------------------------------------------------------------
(* Between turns.                                                          *)

Compact ==
    /\ phase = "idle" /\ Room
    /\ Becomes(AddDivider(Now, "compacted"))
    /\ UNCHANGED <<turn, shells, history>>

Users == {i \in DOMAIN messages : messages[i].kind = "user"}

\* _truncate_transcript at a user's message; nobody touches the pointer.
Rewind(i) ==
    /\ phase = "idle" /\ i \in Users
    /\ messages' = IF \E j \in Users : j < i THEN SubSeq(messages, 1, i - 1) ELSE <<>>
    /\ ahead' = (ahead \/ pointer > Len(messages'))
    /\ UNCHANGED <<pointer, turn, shells, torn, crossed>>

\* The session is read from its file into a new object; commands that still run
\* belong to the old one.
Reload ==
    /\ phase = "idle"
    /\ pointer' = 0
    /\ shells' = {}
    /\ UNCHANGED <<messages, turn, history>>

-----------------------------------------------------------------------------
(* "!" commands of the user.                                               *)

\* _exec_shell_command, while no turn runs: the user's event, then the command.
\* Whatever turns start after that do not wait for it.
ShellStart(k) ==
    /\ phase = "idle" /\ Room
    /\ k \notin shells /\ \A i \in DOMAIN messages : messages[i].end # k
    /\ Becomes(AddUser(Now))
    /\ shells' = shells \cup {k}
    /\ UNCHANGED <<turn, history>>

\* execute_shell_command's event: a result like any other, so an open call gets it.
ShellEnds(k) ==
    /\ k \in shells /\ Room
    /\ Becomes(AddResult(Now, k))
    /\ shells' = shells \ {k}
    /\ crossed' = (crossed \/ Len(messages') = Len(messages))
    /\ UNCHANGED <<turn, torn, ahead>>

TranscriptNext ==
    \/ Submit \/ Queued \/ TurnEnds \/ Fails \/ Interrupt
    \/ \E end \in {None, Done} : Think(end) \/ Speak(end)
    \/ Reset \/ Result
    \/ \E c \in Calls, n \in 0 .. MaxBatch - 1 : Announce(c, n)
    \/ Compact \/ Reload
    \/ \E i \in 1 .. MaxLen : Rewind(i)
    \/ \E k \in Commands : ShellStart(k) \/ ShellEnds(k)

TranscriptSpec == TranscriptInit /\ [][TranscriptNext]_transcriptVars

-----------------------------------------------------------------------------
(* Properties.                                                             *)

Sane == ~torn /\ ~ahead /\ ~crossed

\* What is shown without a result is what runs, in the order it was announced:
\* no call of an earlier turn stays open and no running call has another's
\* result.  Exceptions: after an interruption that leaves a call open, after a
\* rewind behind the pointer, and after a "!" command that ended while a call was
\* open, whose result that call was given.
OpenIsRunning ==
    Sane => \E at \in [DOMAIN running -> DOMAIN messages] :
              /\ OpenIn(Now) = {at[k] : k \in DOMAIN running}
              /\ \A j, k \in DOMAIN running : j < k => at[j] < at[k]
              /\ \A k \in DOMAIN running : messages[at[k]].call = running[k]

\* "a tool/result pairing survives across replays": a call shows its own result,
\* every result of a call is shown there, and a message of its own is a "!"
\* command's, although results are matched by their order.  The same exceptions.
Paired ==
    Sane => \A i \in DOMAIN messages : messages[i].kind = "tool" =>
                IF messages[i].call = None
                THEN messages[i].end \in Commands
                ELSE messages[i].end \in {None, Cancelled, messages[i].call}

\* A result or a cancellation is stored once: until the message is cut by a
\* rewind no event changes a call that shows one.
ResultsStay ==
    [][\A i \in DOMAIN messages :
          messages[i].kind = "tool" /\ messages[i].end # None =>
             i > Len(messages') \/ messages'[i] = messages[i]]_transcriptVars

=============================================================================
