---------------------------- MODULE Checkpoints ----------------------------
(***************************************************************************)
(* The checkpoints of the workspace: a snapshot before every message the   *)
(* user sees, the files each turn touched, and the rewind that drops turns *)
(* and puts the files back in a background task.                           *)
(*                                                                         *)
(* Git runs in worker threads, one operation at a time under the lock of   *)
(* the project, so an operation is one step; a cancelled task leaves its   *)
(* thread behind.  A file's content is who wrote it and when; a file that  *)
(* is not there is one more content, and a move changes two files.         *)
(***************************************************************************)
EXTENDS Naturals, Sequences, FiniteSets

CONSTANTS
    Files,
    None,        \* no checkpoint; files nobody has counted
    MaxEvents,   \* bound: messages that start a turn or are drained into one
    MaxEdits,    \* bound: writes to files
    MaxRewinds,  \* bound: rewinds
    MaxEscs,     \* bound: Esc presses
    MaxFails     \* bound: git operations that fail

ASSUME CheckpointsAssumption ==
    /\ {MaxEvents, MaxEdits, MaxRewinds, MaxEscs, MaxFails} \subseteq Nat
    /\ None \notin [Files -> [by : Nat, n : Nat]]

VARIABLES
    work,     \* the files of the workspace
    ref,      \* refs/johnston/checkpoints/<session>/<index>
    events,   \* the user events of session.messages
    phase,    \* what the turn is doing
    active,   \* active_user_event, by its number
    index,    \* active_msg_idx, plus one: 0 when there is no message to see
    tools,    \* has_tool_calls
    after,    \* what follows the count of touched files: "end", "shown", "hidden"
    tasks,    \* agent.rewind_git_restore_task and those it waits for, oldest first
    orphans,  \* threads whose task an Esc has cancelled
    used,     \* how often each bounded thing has happened
    gone,     \* history: turns rewound with their code, by number
    stale,    \* history: checkpoints a purge has failed to drop
    cut       \* history: an Esc has cancelled a task with a thread of git, or a
              \* stale checkpoint was restored

turn == <<phase, active, index, tools, after>>
vars == <<work, ref, events, turn, tasks, orphans, used, gone, stale, cut>>

Original == [by |-> 0, n |-> 0]
Removed == [by |-> 0, n |-> MaxEdits + 1]
Event(id, shown) ==
    [id |-> id, shown |-> shown, touched |-> None, changed |-> {}, sound |-> FALSE]

Init ==
    /\ work = [f \in Files |-> Original]
    /\ ref = [k \in 1 .. MaxEvents |-> None]
    /\ events = <<>>
    /\ phase = "idle" /\ active = 0 /\ index = 0 /\ tools = FALSE /\ after = "end"
    /\ tasks = <<>> /\ orphans = {}
    /\ used = [edits |-> 0, events |-> 0, rewinds |-> 0, escs |-> 0, fails |-> 0]
    /\ gone = {} /\ stale = {} /\ cut = FALSE

-----------------------------------------------------------------------------
(* Helpers.                                                                *)

Once(what, bound) == used[what] < bound /\ used' = [used EXCEPT ![what] = @ + 1]
Esc == Once("escs", MaxEscs)
Fails == Once("fails", MaxFails)

\* The turns a rewind counts: how many of the first i are to be seen, and of all.
Rank(s, i) == Cardinality({j \in 1 .. i : s[j].shown})
Visible == Rank(events, Len(events))

\* The active event, where it still is; what is noted on it is noted in place.
Active == {i \in DOMAIN events : events[i].id = active}

\* _touched_files: None when one of the turns was never counted.
Touched(dropped) ==
    LET seen == {i \in DOMAIN dropped : dropped[i].shown}
        counts == {dropped[i].touched : i \in seen}
    IN  IF None \in counts THEN None ELSE UNION counts

\* finalize_turn: a checkpoint that is not there counts as nothing touched.
Diff == IF index = 0 THEN None
        ELSE IF ref[index] = None THEN {}
        ELSE {f \in Files : work[f] # ref[index][f]}

\* git diff --name-only lists a file that was moved under its new name alone: next
\* to every name left out is one that is listed.
Listings == IF Diff = None THEN {None}
            ELSE {names \in SUBSET Diff : 2 * Cardinality(names) >= Cardinality(Diff)}

\* Mutant: every restore is a full one.
Restored_everything(k, files) == IF ref[k] # None THEN ref[k] ELSE work

\* restore_checkpoint: the files named, or everything.
Restored(k, files) ==
    [f \in Files |-> IF ref[k] # None /\ (files = None \/ f \in files)
                     THEN ref[k][f] ELSE work[f]]

\* purge_checkpoints_after, which may fail to drop some.
Purged(k, kept) == [i \in DOMAIN ref |-> IF i > k /\ i \notin kept THEN None ELSE ref[i]]

-----------------------------------------------------------------------------
(* Files are written.                                                      *)

TurnIsOpen == phase \in {"running", "finalizing"}

Write(f, by) ==
    /\ Once("edits", MaxEdits)
    /\ work' = [work EXCEPT ![f] = [by |-> by, n |-> used.edits + 1]]
    /\ IF TurnIsOpen
       THEN events' = [i \in DOMAIN events |->
                         [events[i] EXCEPT !.changed = IF i \in Active THEN @ \cup {f} ELSE @]]
       ELSE UNCHANGED events

\* The user writes, or what no turn counts as its own: a shell in the background, the
\* thread of a cancelled tool.
UserEdits(f) ==
    /\ Write(f, 0)
    /\ UNCHANGED <<ref, turn, tasks, orphans, gone, stale, cut>>

ToolEdits(f) ==
    /\ phase = "running"
    /\ tools' = TRUE
    /\ Write(f, active)
    /\ UNCHANGED <<ref, phase, active, index, after, tasks, orphans, gone, stale, cut>>

-----------------------------------------------------------------------------
(* A turn.                                                                 *)

AddEvent(shown) ==
    /\ Once("events", MaxEvents)
    /\ events' = Append(events, Event(used.events + 1, shown))
    /\ active' = used.events + 1
    /\ tools' = FALSE

\* A prompt, or a notification that is not shown.
Submit(shown) ==
    /\ phase = "idle"
    /\ AddEvent(shown)
    /\ phase' = "barrier"
    /\ UNCHANGED <<work, ref, index, after, tasks, orphans, gone, stale, cut>>

\* The snapshot is for the last message to be seen; without one there is none.
Snapshots ==
    /\ index' = Visible
    /\ phase' = IF index' = 0 THEN "running" ELSE "creating"

\* Mutant: the turn does not wait for a restore that runs.
BarrierPasses_unbarred ==
    /\ phase = "barrier"
    /\ Snapshots
    /\ UNCHANGED <<work, ref, events, active, tools, after, tasks, orphans, used, gone, stale, cut>>

\* _await_pending_git_restore.
BarrierPasses ==
    /\ phase = "barrier"
    /\ tasks = <<>>
    /\ Snapshots
    /\ UNCHANGED <<work, ref, events, active, tools, after, tasks, orphans, used, gone, stale, cut>>

\* Esc while the message is mounted or the session saved: the turn ends.
EscEarly ==
    /\ phase = "barrier"
    /\ Esc
    /\ phase' = "idle"
    /\ UNCHANGED <<work, ref, events, active, index, tools, after, tasks, orphans, gone, stale, cut>>

\* Esc at the barrier cancels the task that is awaited, down to the one that
\* runs; each one that waits catches the error and goes on, the turn too.
EscInBarrier ==
    /\ phase = "barrier"
    /\ tasks # <<>>
    /\ Esc
    /\ orphans' = orphans \cup {[op  |-> IF Head(tasks).restored THEN "purge" ELSE "restore",
                                 idx |-> Head(tasks).idx, files |-> Head(tasks).files]}
    /\ tasks' = Tail(tasks)
    /\ cut' = TRUE
    /\ IF Len(tasks) = 1 THEN Snapshots ELSE UNCHANGED <<index, phase>>
    /\ UNCHANGED <<work, ref, events, active, tools, after, gone, stale>>

\* create_checkpoint: what was saved under the index before is replaced.
CreateRuns ==
    /\ phase = "creating"
    /\ ref' = [ref EXCEPT ![index] = work]
    /\ phase' = "running"
    /\ events' = [i \in DOMAIN events |-> [events[i] EXCEPT !.sound = @ \/ i \in Active]]
    /\ stale' = stale \ {index}
    /\ UNCHANGED <<work, active, index, tools, after, tasks, orphans, used, gone, cut>>

CreateFails ==
    /\ phase = "creating"
    /\ Fails
    /\ phase' = "running"
    /\ UNCHANGED <<work, ref, events, active, index, tools, after, tasks, orphans, gone, stale, cut>>

EscInCreate ==
    /\ phase = "creating"
    /\ Esc
    /\ phase' = "idle"
    /\ orphans' = orphans \cup {[op |-> "create", idx |-> index, files |-> None]}
    /\ cut' = TRUE
    /\ UNCHANGED <<work, ref, events, active, index, tools, after, tasks, gone, stale>>

\* What comes next: the turn is over, or a message was taken from the queue.
Goes(next) ==
    \/ /\ next = "end"
       /\ phase' = "idle"
       /\ UNCHANGED <<events, active, tools, used>>
    \/ /\ next # "end"
       /\ AddEvent(next = "shown")
       /\ phase' = IF next = "shown" THEN "barrier" ELSE "running"

\* The turn ends, whatever ends it, or comes to a queued message.  If tools
\* were called, the files they touched are counted first.
Leaves(next) ==
    /\ phase = "running"
    /\ next # "end" => used.events < MaxEvents
    /\ IF tools
       THEN phase' = "finalizing" /\ after' = next /\ UNCHANGED <<events, active, tools, used>>
       ELSE Goes(next) /\ UNCHANGED after
    /\ UNCHANGED <<work, ref, index, tasks, orphans, gone, stale, cut>>

\* The count is noted on the event, then the turn goes on.
Noted(count, sound, uses) ==
    LET marked == [i \in DOMAIN events |->
                     IF i \in Active
                     THEN [events[i] EXCEPT !.touched = count, !.sound = @ /\ sound]
                     ELSE events[i]]
    IN  IF after = "end"
        THEN phase' = "idle" /\ events' = marked /\ used' = uses /\ UNCHANGED <<active, tools>>
        ELSE /\ phase' = IF after = "shown" THEN "barrier" ELSE "running"
             /\ events' = Append(marked, Event(used.events + 1, after = "shown"))
             /\ used' = [uses EXCEPT !.events = @ + 1]
             /\ active' = used.events + 1
             /\ tools' = FALSE

FinalizeRuns ==
    /\ phase = "finalizing"
    /\ \E names \in Listings : Noted(names, names = Diff, used)
    /\ UNCHANGED <<work, ref, index, after, tasks, orphans, gone, stale, cut>>

\* A git error counts as nothing touched.
FinalizeFails ==
    /\ phase = "finalizing"
    /\ index # 0
    /\ used.fails < MaxFails
    /\ Noted({}, FALSE, [used EXCEPT !.fails = @ + 1])
    /\ UNCHANGED <<work, ref, index, after, tasks, orphans, gone, stale, cut>>

\* An Esc at a queued message ends the turn, which counts again; at the end
\* it leaves the files uncounted.
EscInFinalize ==
    /\ phase = "finalizing"
    /\ Esc
    /\ phase' = IF after = "end" THEN "idle" ELSE "finalizing"
    /\ after' = "end"
    /\ UNCHANGED <<work, ref, events, active, index, tools, tasks, orphans, gone, stale, cut>>

-----------------------------------------------------------------------------
(* A rewind, with or without the code, to the k-th message to be seen.     *)

\* Where the transcript is cut; the first message takes everything with it.
Cutoff(k) ==
    IF k = 1 THEN 1
    ELSE CHOOSE i \in DOMAIN events :
           events[i].shown /\ Rank(events, i) = k

Rewind(k, code) ==
    /\ phase = "idle"
    /\ k \in 1 .. Visible
    /\ Once("rewinds", MaxRewinds)
    /\ LET dropped == SubSeq(events, Cutoff(k), Len(events))
       IN  /\ events' = SubSeq(events, 1, Cutoff(k) - 1)
           /\ tasks' = Append(tasks,
                [idx |-> k, files |-> Touched(dropped), restored |-> ~code,
                 dropped |-> {dropped[i].id : i \in DOMAIN dropped},
                 changed |-> UNION {dropped[i].changed : i \in DOMAIN dropped},
                 good |-> \A i \in DOMAIN dropped : dropped[i].shown /\ dropped[i].sound])
    /\ UNCHANGED <<work, ref, turn, orphans, gone, stale, cut>>

\* The oldest task runs; the others wait for it.
TaskRestored ==
    /\ tasks # <<>> /\ ~Head(tasks).restored
    /\ tasks' = [tasks EXCEPT ![1].restored = TRUE]
    /\ cut' = (cut \/ Head(tasks).idx \in stale)
    /\ UNCHANGED <<ref, events, turn, orphans, stale>>

RestoreRuns ==
    /\ TaskRestored
    /\ work' = Restored(Head(tasks).idx, Head(tasks).files)
    /\ gone' = IF Head(tasks).good THEN gone \cup Head(tasks).dropped ELSE gone
    /\ UNCHANGED used

\* A restore that fails says so to nobody, whatever it has restored; when the files of
\* the checkpoint cannot be listed, the ones it should restore are removed.
RestoreFails ==
    LET t == Head(tasks)
    IN  /\ TaskRestored
        /\ Fails
        /\ \/ \E part \in SUBSET (IF t.files = None THEN Files ELSE t.files) :
                  work' = Restored(t.idx, part)
           \/ /\ t.files # None /\ ref[t.idx] # None
              /\ work' = [f \in Files |-> IF f \in t.files THEN Removed ELSE work[f]]
        /\ UNCHANGED gone

\* What is above the index is dropped, but for what git fails to drop.
PurgesBut(kept) ==
    LET k == Head(tasks).idx
    IN  /\ tasks # <<>> /\ Head(tasks).restored
        /\ tasks' = Tail(tasks)
        /\ ref' = Purged(k, kept)
        /\ stale' = {i \in DOMAIN ref : IF i > k THEN i \in kept ELSE i \in stale}
        /\ UNCHANGED <<work, events, turn, orphans, gone, cut>>

PurgeRuns == PurgesBut({}) /\ UNCHANGED used

PurgeFails ==
    /\ Fails
    /\ \E kept \in SUBSET {i \in DOMAIN ref : ref[i] # None} : PurgesBut(kept)

\* A thread nobody waits for gets the lock.
OrphanRuns(o) ==
    /\ orphans' = orphans \ {o}
    /\ work' = IF o.op = "restore" THEN Restored(o.idx, o.files) ELSE work
    /\ ref' = CASE o.op = "create"  -> [ref EXCEPT ![o.idx] = work]
                [] o.op = "purge"   -> Purged(o.idx, {})
                [] o.op = "restore" -> ref
    /\ UNCHANGED <<events, turn, tasks, used, gone, stale, cut>>

-----------------------------------------------------------------------------
Next ==
    \/ \E f \in Files : UserEdits(f) \/ ToolEdits(f)
    \/ \E shown \in BOOLEAN : Submit(shown)
    \/ BarrierPasses \/ EscEarly \/ EscInBarrier
    \/ CreateRuns \/ CreateFails \/ EscInCreate
    \/ \E next \in {"end", "shown", "hidden"} : Leaves(next)
    \/ FinalizeRuns \/ FinalizeFails \/ EscInFinalize
    \/ \E k \in 1 .. MaxEvents, code \in BOOLEAN : Rewind(k, code)
    \/ RestoreRuns \/ RestoreFails \/ PurgeRuns \/ PurgeFails
    \/ \E o \in orphans : OrphanRuns(o)

Spec == Init /\ [][Next]_vars

-----------------------------------------------------------------------------
(* Properties.                                                             *)

Holds(snapshot, turns) == \E f \in Files : snapshot[f].by \in turns

\* What a rewind has undone stays undone: neither the workspace nor, when the
\* tasks are done that a later rewind would wait for, a checkpoint it can
\* choose holds a change of a turn that was rewound with its code, whatever
\* turns, rewinds, failures of git and edits of the user follow.  Not promised
\* for a turn whose own checkpoint or count failed or missed a moved file's old
\* name, for messages that are not shown, for a checkpoint git failed to drop,
\* and once such a one was restored or an Esc has cancelled a task of git.
Undone ==
    ~cut => /\ ~Holds(work, gone)
            /\ tasks = <<>> =>
                 \A k \in 1 .. Visible : ref[k] # None /\ k \notin stale => ~Holds(ref[k], gone)

\* A rewind that restores the files its turns touched leaves every other file
\* alone, though the user may have edited it before, between or after them.
OthersKept ==
    [][ (RestoreRuns /\ Head(tasks).good /\ Head(tasks).files # None /\ ~cut)
        => \A f \in Files : work'[f] # work[f] => f \in Head(tasks).changed ]_vars
=============================================================================
