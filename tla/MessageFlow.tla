---------------------------- MODULE MessageFlow ----------------------------
(***************************************************************************)
(* The message flow of the terminal interface: what becomes of a line the  *)
(* user submits, or of a notification a background task raises, while      *)
(* turns, compactions and "!" commands run on the one event loop.          *)
(*                                                                         *)
(* A turn is a Textual worker: adding one to the exclusive group cancels   *)
(* the workers already there, and a worker cancelled before its first step *)
(* never runs its body.  Tasks made by create_task run in the order they   *)
(* were made ("ready" is the loop's FIFO); a step runs from one suspension *)
(* to the next, and input, notifications and completed waits may come      *)
(* between any two of them.  What happens inside a turn is AgentTurn.      *)
(***************************************************************************)
EXTENDS Naturals, Sequences, FiniteSets

CONSTANTS
    Prompts,      \* what goes through trigger_ai_response: lines the user types
                  \* for the model, skills, notifications of subagents
    Shells,       \* lines starting with "!"
    Compacts,     \* "/compact"
    ShellNotes,   \* notifications of background shell tasks
    None,
    MaxEsc,       \* bound: how often the user presses Esc
    MaxNew        \* bound: how often the user types "/new", or chooses in the
                  \* screen of "/resume", "/rewind" or "/fork"

Messages == Prompts \cup Shells \cup Compacts \cup ShellNotes

ASSUME KindsAssumption ==
    /\ Prompts \cap (Shells \cup Compacts \cup ShellNotes) = {}
    /\ Shells \cap (Compacts \cup ShellNotes) = {}
    /\ Compacts \cap ShellNotes = {}
    /\ None \notin Messages
    /\ MaxEsc \in Nat
    /\ MaxNew \in Nat

VARIABLES
    queue,         \* app.message_queue
    ready,         \* tasks made and not yet started, oldest first
    isGenerating,  \* app.is_generating
    isCompacting,  \* app.is_compacting and app._is_compacting
    worker,        \* the generate_ai_response worker of each message
    compaction,    \* the _run_compaction task of each message
    compactTask,   \* app._compact_task
    shells,        \* running exec_shell_command tasks
    cancelled,     \* tasks whose cancel() has not been delivered yet
    outcome,       \* what became of each message
    escs,          \* Esc presses so far
    session,       \* what is shown, as the number of such commands so far
    newCommand,    \* the command: not there, typed, or waiting for what it cancelled
    awaited,       \* the workers it waits for
    carried        \* history: it found a turn alive when it reset the app

newVars == <<session, newCommand, awaited, carried>>
vars == <<queue, ready, isGenerating, isCompacting, worker, compaction, compactTask,
          shells, cancelled, outcome, escs, newVars>>

Job(kind, m) == [kind |-> kind, msg |-> m]
JobKinds == {"drained", "dispatch", "slash", "shell", "worker", "compaction", "new"}

Init ==
    /\ queue = <<>>
    /\ ready = <<>>
    /\ isGenerating = FALSE
    /\ isCompacting = FALSE
    /\ worker = [m \in Messages |-> "none"]
    /\ compaction = [m \in Messages |-> "none"]
    /\ compactTask = None
    /\ shells = {}
    /\ cancelled = {}
    /\ outcome = [m \in Messages |-> "new"]
    /\ escs = 0
    /\ session = 0
    /\ newCommand = "no"
    /\ awaited = {}
    /\ carried = FALSE

-----------------------------------------------------------------------------
(* Helpers.  "r" is the ready queue the step leaves before what it adds.   *)

Busy == isGenerating \/ isCompacting

\* Workers Textual knows: an exclusive one cancels them all when it is added.
Workers == {m \in Messages : worker[m] \in {"pending", "running", "saving"}}

\* Workers whose coroutine is running, the ones w.is_running selects.
Turns == {m \in Messages : worker[m] \in {"running", "saving"}}

Queue(m, r) ==
    /\ queue' = Append(queue, m)
    /\ ready' = r
    /\ UNCHANGED <<worker, cancelled>>

\* Mutant: the worker group is not exclusive.
AddWorker_shared(m, r) ==
    /\ worker' = [worker EXCEPT ![m] = "pending"]
    /\ ready' = Append(r, Job("worker", m))
    /\ UNCHANGED <<queue, cancelled>>

\* The call app.generate_ai_response(m): a new worker of the exclusive group.
AddWorker(m, r) ==
    /\ cancelled' = cancelled \cup Workers
    /\ worker' = [worker EXCEPT ![m] = "pending"]
    /\ ready' = Append(r, Job("worker", m))
    /\ UNCHANGED queue

Trigger(m, r) == IF Busy THEN Queue(m, r) ELSE AddWorker(m, r)

\* CompactCommand.execute: checks the flags, then makes the compaction task,
\* which sets is_compacting only at its own first step.
ExecCompact(m, r) ==
    IF Busy
    THEN /\ Queue(m, r)
         /\ UNCHANGED <<compaction, compactTask>>
    ELSE /\ compaction' = [compaction EXCEPT ![m] = "pending"]
         /\ compactTask' = m
         /\ ready' = Append(r, Job("compaction", m))
         /\ UNCHANGED <<queue, worker, cancelled>>

\* Mutant: the message is read, not popped.
PopQueued_peeks(r) ==
    IF queue = <<>>
    THEN ready' = r /\ UNCHANGED queue
    ELSE /\ ready' = Append(r, Job("drained", Head(queue)))
         /\ UNCHANGED queue

\* Mutant: the newest message of the queue goes first.
PopQueued_newest(r) ==
    IF queue = <<>>
    THEN ready' = r /\ UNCHANGED queue
    ELSE /\ queue' = SubSeq(queue, 1, Len(queue) - 1)
         /\ ready' = Append(r, Job("drained", queue[Len(queue)]))

\* The next message of the queue gets a task of its own.
PopQueued(r) ==
    IF queue = <<>>
    THEN ready' = r /\ UNCHANGED queue
    ELSE /\ queue' = Tail(queue)
         /\ ready' = Append(r, Job("drained", Head(queue)))

Become(ms, what) == outcome' = [m \in Messages |-> IF m \in ms THEN what ELSE outcome[m]]

Becomes(m, what) == Become({m}, what)

QueuedMessages == {queue[i] : i \in DOMAIN queue}

-----------------------------------------------------------------------------
(* Input and notifications.                                                *)

SubmitPrompt(m) ==
    /\ m \in Prompts
    /\ outcome[m] = "new"
    /\ Becomes(m, "open")
    /\ Trigger(m, ready)
    /\ UNCHANGED <<isGenerating, isCompacting, compaction, compactTask, shells, escs, newVars>>

SubmitCommand(m) ==
    /\ m \in Shells \cup Compacts
    /\ outcome[m] = "new"
    /\ Becomes(m, "open")
    /\ IF Busy
       THEN Queue(m, ready)
       ELSE /\ ready' = Append(ready, Job(IF m \in Shells THEN "shell" ELSE "slash", m))
            /\ UNCHANGED <<queue, worker, cancelled>>
    /\ UNCHANGED <<isGenerating, isCompacting, compaction, compactTask, shells, escs, newVars>>

\* A background shell task ended or stayed silent: its callback looks at
\* is_generating alone and calls the worker itself.
ShellNotify(m) ==
    /\ m \in ShellNotes
    /\ outcome[m] = "new"
    /\ Becomes(m, "open")
    /\ IF isGenerating THEN Queue(m, ready) ELSE AddWorker(m, ready)
    /\ UNCHANGED <<isGenerating, isCompacting, compaction, compactTask, shells, escs, newVars>>

\* Esc cancels the running workers and the registered compaction, if any.
EscTargets ==
    Turns \cup {m \in {compactTask} \cap Compacts : compaction[m] \in {"pending", "running"}}

PressEsc ==
    /\ escs < MaxEsc
    /\ EscTargets # {}
    /\ cancelled' = cancelled \cup EscTargets
    /\ escs' = escs + 1
    /\ UNCHANGED <<queue, ready, isGenerating, isCompacting, worker, compaction,
                   compactTask, shells, outcome, newVars>>

\* "/new" is typed: like every other slash command it gets a task.
SubmitNew ==
    /\ session < MaxNew
    /\ newCommand = "no"
    /\ newCommand' = "typed"
    /\ ready' = Append(ready, Job("new", None))
    /\ UNCHANGED <<queue, isGenerating, isCompacting, worker, compaction, compactTask, shells,
                   cancelled, outcome, escs, session, awaited, carried>>

-----------------------------------------------------------------------------
(* The loop starts the oldest task.                                        *)

Starts(kind, m) ==
    /\ ready # <<>>
    /\ Head(ready) = Job(kind, m)

\* process_queued_message yields once before it dispatches.
QueuedYields(m) ==
    /\ Starts("drained", m)
    /\ ready' = Append(Tail(ready), Job("dispatch", m))
    /\ UNCHANGED <<queue, isGenerating, isCompacting, worker, compaction, compactTask,
                   shells, cancelled, outcome, escs, newVars>>

QueuedDispatches(m) ==
    /\ Starts("dispatch", m)
    /\ \/ /\ m \in Shells
          /\ ready' = Append(Tail(ready), Job("shell", m))
          /\ UNCHANGED <<queue, worker, cancelled, compaction, compactTask>>
       \/ /\ m \in Compacts
          /\ ExecCompact(m, Tail(ready))
       \/ /\ m \notin Shells \cup Compacts
          /\ Trigger(m, Tail(ready))
          /\ UNCHANGED <<compaction, compactTask>>
    /\ UNCHANGED <<isGenerating, isCompacting, shells, outcome, escs, newVars>>

SlashStarts(m) ==
    /\ Starts("slash", m)
    /\ ExecCompact(m, Tail(ready))
    /\ UNCHANGED <<isGenerating, isCompacting, shells, outcome, escs, newVars>>

ShellStarts(m) ==
    /\ Starts("shell", m)
    /\ ready' = Tail(ready)
    /\ shells' = shells \cup {m}
    /\ Becomes(m, "ran")
    /\ UNCHANGED <<queue, isGenerating, isCompacting, worker, compaction, compactTask,
                   cancelled, escs, newVars>>

\* A worker cancelled before its first step: the body never runs.
WorkerNeverRuns(m) ==
    /\ Starts("worker", m)
    /\ m \in cancelled
    /\ ready' = Tail(ready)
    /\ worker' = [worker EXCEPT ![m] = "done"]
    /\ cancelled' = cancelled \ {m}
    /\ Becomes(m, "lost")
    /\ UNCHANGED <<queue, isGenerating, isCompacting, compaction, compactTask, shells, escs, newVars>>

\* No provider or no model: the worker opens a dialog and returns.
WorkerRefuses(m) ==
    /\ Starts("worker", m)
    /\ m \notin cancelled
    /\ ready' = Tail(ready)
    /\ isGenerating' = FALSE
    /\ worker' = [worker EXCEPT ![m] = "done"]
    /\ Becomes(m, "refused")
    /\ UNCHANGED <<queue, isCompacting, compaction, compactTask, shells, cancelled, escs, newVars>>

TurnStarts(m) ==
    /\ Starts("worker", m)
    /\ m \notin cancelled
    /\ ready' = Tail(ready)
    /\ isGenerating' = TRUE
    /\ worker' = [worker EXCEPT ![m] = "running"]
    /\ Becomes(m, "sent")
    /\ UNCHANGED <<queue, isCompacting, compaction, compactTask, shells, cancelled, escs, newVars>>

CompactionNeverRuns(m) ==
    /\ Starts("compaction", m)
    /\ m \in cancelled
    /\ ready' = Tail(ready)
    /\ compaction' = [compaction EXCEPT ![m] = "done"]
    /\ compactTask' = None
    /\ cancelled' = cancelled \ {m}
    /\ Becomes(m, "lost")
    /\ UNCHANGED <<queue, isGenerating, isCompacting, worker, shells, escs, newVars>>

CompactionStarts(m) ==
    /\ Starts("compaction", m)
    /\ m \notin cancelled
    /\ ready' = Tail(ready)
    /\ isCompacting' = TRUE
    /\ compaction' = [compaction EXCEPT ![m] = "running"]
    /\ UNCHANGED <<queue, isGenerating, worker, compactTask, shells, cancelled, outcome, escs, newVars>>

\* What the commands begin with: they cancel what Esc cancels, then wait for
\* the workers.  One that has not begun may be among them.
Leaves ==
    /\ cancelled' = cancelled \cup EscTargets
    /\ newCommand' = "waiting"
    /\ \E late \in SUBSET (Workers \ Turns) : awaited' = Turns \cup late

\* NewCommand.execute.
NewStarts ==
    /\ Starts("new", None)
    /\ ready' = Tail(ready)
    /\ Leaves
    /\ UNCHANGED <<queue, isGenerating, isCompacting, worker, compaction, compactTask, shells,
                   outcome, escs, session, carried>>

\* The callbacks of the screens of "/resume", "/rewind" and "/fork".
Chosen ==
    /\ session < MaxNew
    /\ newCommand = "no"
    /\ Leaves
    /\ UNCHANGED <<queue, ready, isGenerating, isCompacting, worker, compaction, compactTask, shells,
                   outcome, escs, session, carried>>

-----------------------------------------------------------------------------
(* A task that was waiting goes on.                                        *)

\* Between its steps a turn takes everything queued for its session, and
\* does not look at what a line starts with.
TurnDrains(m) ==
    /\ worker[m] = "running"
    /\ m \notin cancelled
    /\ queue # <<>>
    /\ queue' = <<>>
    /\ Become(QueuedMessages, "sent")
    /\ UNCHANGED <<ready, isGenerating, isCompacting, worker, compaction, compactTask,
                   shells, cancelled, escs, newVars>>

\* Mutant: the finally block leaves the queue to later input.
Release_popsNothing(m) ==
    /\ isGenerating' = FALSE
    /\ worker' = [worker EXCEPT ![m] = "done"]
    /\ UNCHANGED <<queue, ready>>

\* The tail of the finally block of generate_ai_response.
Release(m) ==
    /\ isGenerating' = FALSE
    /\ worker' = [worker EXCEPT ![m] = "done"]
    /\ PopQueued(ready)

\* The turn ends, by itself or cancelled, and the finally block saves the
\* session: it waits for a thread, or the debounce skips the save.
TurnEnds(m) ==
    /\ worker[m] = "running"
    /\ cancelled' = cancelled \ {m}
    /\ \/ /\ worker' = [worker EXCEPT ![m] = "saving"]
          /\ UNCHANGED <<isGenerating, queue, ready>>
       \/ Release(m)
    /\ UNCHANGED <<isCompacting, compaction, compactTask, shells, outcome, escs, newVars>>

SaveEnds(m) ==
    /\ worker[m] = "saving"
    /\ m \notin cancelled
    /\ Release(m)
    /\ UNCHANGED <<isCompacting, compaction, compactTask, shells, cancelled, outcome, escs, newVars>>

\* A cancel delivered at that wait leaves the finally block: "except
\* Exception" does not catch CancelledError, and the rest is skipped.
SaveCut(m) ==
    /\ worker[m] = "saving"
    /\ m \in cancelled
    /\ worker' = [worker EXCEPT ![m] = "done"]
    /\ cancelled' = cancelled \ {m}
    /\ UNCHANGED <<queue, ready, isGenerating, isCompacting, compaction, compactTask,
                   shells, outcome, escs, newVars>>

CompactionEnds(m) ==
    /\ compaction[m] = "running"
    /\ isCompacting' = FALSE
    /\ compaction' = [compaction EXCEPT ![m] = "done"]
    /\ compactTask' = None
    /\ cancelled' = cancelled \ {m}
    /\ Becomes(m, IF m \in cancelled THEN "stopped" ELSE "compacted")
    /\ PopQueued(ready)
    /\ UNCHANGED <<isGenerating, worker, shells, escs, newVars>>

\* exec_shell_command pops the queue itself, unless a turn will.
ShellEnds(m) ==
    /\ m \in shells
    /\ shells' = shells \ {m}
    /\ IF isGenerating THEN UNCHANGED <<queue, ready>> ELSE PopQueued(ready)
    /\ UNCHANGED <<isGenerating, isCompacting, worker, compaction, compactTask,
                   cancelled, outcome, escs, newVars>>

\* The wait for a worker has a limit, at which wait_for cancels what it waits
\* for, the worker, once more, and goes on when that has ended.
NewInsists(m) ==
    /\ newCommand = "waiting"
    /\ m \in awaited \cap Turns
    /\ cancelled' = cancelled \cup {m}
    /\ UNCHANGED <<queue, ready, isGenerating, isCompacting, worker, compaction, compactTask, shells,
                   outcome, escs, newVars>>

\* The workers have ended and the background tasks are killed:
\* reset_app_state clears the flags and the queue, and what is shown
\* changes, whatever has been started meanwhile.
NewResets ==
    /\ newCommand = "waiting"
    /\ awaited \cap Workers = {}
    /\ newCommand' = "no"
    /\ awaited' = {}
    /\ session' = session + 1
    /\ carried' = (carried \/ Turns # {})
    /\ isGenerating' = FALSE
    /\ isCompacting' = FALSE
    /\ queue' = <<>>
    /\ Become(QueuedMessages, "discarded")
    /\ UNCHANGED <<ready, worker, compaction, compactTask, shells, cancelled, escs>>

-----------------------------------------------------------------------------
StartsTask(m) ==
    \/ QueuedYields(m) \/ QueuedDispatches(m) \/ SlashStarts(m) \/ ShellStarts(m)
    \/ WorkerNeverRuns(m) \/ WorkerRefuses(m) \/ TurnStarts(m)
    \/ CompactionNeverRuns(m) \/ CompactionStarts(m)

Proceeds(m) ==
    TurnEnds(m) \/ SaveEnds(m) \/ SaveCut(m) \/ CompactionEnds(m) \/ ShellEnds(m)

Next ==
    \/ \E m \in Messages :
         \/ SubmitPrompt(m) \/ SubmitCommand(m) \/ ShellNotify(m)
         \/ StartsTask(m) \/ TurnDrains(m) \/ Proceeds(m) \/ NewInsists(m)
    \/ PressEsc \/ SubmitNew \/ NewStarts \/ Chosen \/ NewResets

Spec == Init /\ [][Next]_vars

\* The loop never stops running what is ready, and every wait of a task ends:
\* streams, saves and commands have timeouts.  Nobody has to type anything,
\* and a turn need not look at the queue before it ends.
FairSpec ==
    /\ Spec
    /\ WF_vars(NewStarts \/ \E m \in Messages : StartsTask(m))
    /\ WF_vars(NewResets)
    /\ \A m \in Messages : WF_vars(Proceeds(m))

-----------------------------------------------------------------------------
(* Properties.                                                             *)

\* Every variable keeps its shape.
TypeOK ==
    /\ queue \in Seq(Messages)
    /\ ready \in Seq([kind : JobKinds, msg : Messages \cup {None}])
    /\ isGenerating \in BOOLEAN
    /\ isCompacting \in BOOLEAN
    /\ worker \in [Messages -> {"none", "pending", "running", "saving", "done"}]
    /\ compaction \in [Messages -> {"none", "pending", "running", "done"}]
    /\ compactTask \in Compacts \cup {None}
    /\ shells \in SUBSET Shells
    /\ cancelled \in SUBSET Messages
    /\ outcome \in [Messages -> {"new", "open", "sent", "ran", "compacted", "stopped",
                                  "refused", "lost", "discarded"}]
    /\ escs \in 0..MaxEsc
    /\ session \in 0..MaxNew
    /\ newCommand \in {"no", "typed", "waiting"}
    /\ awaited \in SUBSET Messages
    /\ carried \in BOOLEAN

\* The three places a message that is not settled can be in.
TaskMessages == {ready[i].msg : i \in DOMAIN ready} \ {None}
Compacting == {m \in Messages : compaction[m] = "running"}

\* A message is handled at most once and never dropped on the way: between
\* its arrival and its outcome it is in one place, once, although the queue is
\* emptied by turns that drain it and popped by three different finally
\* blocks, and a message may be put back when the app is busy again.
Placed ==
    /\ {m \in Messages : outcome[m] = "open"} = QueuedMessages \cup TaskMessages \cup Compacting
    /\ QueuedMessages \cap TaskMessages = {}
    /\ Compacting \cap (QueuedMessages \cup TaskMessages) = {}
    /\ \A i, j \in DOMAIN queue : queue[i] = queue[j] => i = j
    /\ \A i, j \in DOMAIN ready : ready[i].msg = ready[j].msg => i = j

\* Two turns never run at once on the one agent, and while one runs, or its
\* finally block saves, is_generating says so: nothing else may clear it,
\* whatever notification, Esc or queued message comes in between.  The one
\* exception is a command that resets the flag under a turn started while
\* it was waiting.
OneTurn ==
    ~carried => /\ \A m, n \in Turns : m = n
                /\ Turns # {} => isGenerating

\* The queue is served: whatever was accepted is settled in the end, by the
\* chain of turns, compactions and commands that pop it.  The chain breaks in
\* three places only: a save cut by a second Esc, a worker without provider,
\* and a compaction cancelled before its first step.
ChainBroken ==
    \/ isGenerating /\ Turns = {}
    \/ \E m \in Messages : outcome[m] = "refused"
    \/ \E m \in Compacts : outcome[m] = "lost"

Settles ==
    \A m \in Messages : outcome[m] = "open" ~> (outcome[m] # "open" \/ ChainBroken)

\* What may become of a message that is not in the queue any more.
Ends == [m \in Messages |-> CASE m \in Shells   -> {"ran"}
                              [] m \in Compacts -> {"compacted", "stopped", "lost"}
                              [] OTHER          -> {"sent", "refused", "lost"}]

\* The flow implements a mailbox: every message is handed in once, waits in
\* line in the order of arrival, is taken up by one task at a time and put
\* back at the end only, and is settled once, in a way that fits its kind.
\* Everything that waits is in a task, a running compaction or the queue.
Mail == INSTANCE Mailbox WITH waiting <- queue, inHand <- TaskMessages \cup Compacting
ImplementsMailbox == Mail!Spec

\* "is_generating must be released so later input starts a fresh generation
\* instead of being queued against a dead one": no turn, no flag.
FlagReleased == isGenerating => Turns # {}
=============================================================================
