------------------------------ MODULE Subagent ------------------------------
(***************************************************************************)
(* The life of subagents: spawn_subagent, message_subagent and kill as     *)
(* tools of the parent agent, the background task that runs one stream per *)
(* message (run_subagent_stream_bg), kills from the screens, and the       *)
(* cancellation of all when the session is left.                           *)
(*                                                                         *)
(* One action is a stretch of code between two awaits of one task, or the  *)
(* work of one thread.  The parent executes these tools one at a time:     *)
(* none is concurrency-safe (AgentTurn!Barrier), and subagents do not have *)
(* them.                                                                   *)
(***************************************************************************)
EXTENDS Naturals, FiniteSets, Sequences

CONSTANTS Subs,          \* subagents that may be spawned
          Isolated,      \* those that work in a git worktree of their own
          Messages,      \* follow-up messages
          MaxConcurrent, \* settings.subagents.max_concurrent
          None

ASSUME SubagentAssumption ==
    /\ Isolated \subseteq Subs
    /\ MaxConcurrent \in Nat \ {0}
    /\ None \notin Subs \cup Messages

VARIABLES
    status,     \* session.status; "none" before the session exists
    pending,    \* session.pending_messages
    suppress,   \* session.suppress_notification
    pc,         \* where the session's background task is; "none": no live task
    cancelling, \* task.cancel() was called and is not delivered yet
    worktree,   \* the worktree's directory exists
    attaching,  \* a thread makes or looks up the worktree
    removing,   \* a thread of the task's cleanup removes the worktree
    tool,       \* the tool call the parent executes
    fate,       \* history: what became of a follow-up
    late,       \* history: follow-ups in a queue that no task drains any more
    orphans,    \* history: sessions left "running" without a task
    overtaken,  \* history: sessions killed while a follow-up set them up
    undercut,   \* history: sessions whose worktree a thread removes under them
    resumed,    \* history: sessions a follow-up set up to run again
    heard       \* history: sessions whose last run the parent was told of

sessionVars == <<status, pending, suppress>>
taskVars == <<pc, cancelling>>
treeVars == <<worktree, attaching, removing>>
history == <<late, orphans, overtaken, undercut, resumed, heard>>
vars == <<sessionVars, taskVars, treeVars, tool, fate, history>>

Call(op, s, m) == [op |-> op, sub |-> s, msg |-> m]
Idle == Call("none", None, None)

\* session.async_task is set and not done.
Live(s) == pc[s] # "none"

\* is_active_subagent: what counts against the limit and what a cancel ends.
Active(s) == Live(s) \/ status[s] = "running"

\* A follow-up has marked the session "running" and waits for its save.
SettingUp(s) == tool.op = "save" /\ tool.sub = s

Set(f, s, v) == [f EXCEPT ![s] = v]
Elements(q) == {q[i] : i \in DOMAIN q}
Becomes(ms, what) == fate' = [m \in Messages |-> IF m \in ms THEN what ELSE fate[m]]

Init ==
    /\ status = [s \in Subs |-> "none"]
    /\ pending = [s \in Subs |-> <<>>]
    /\ suppress = [s \in Subs |-> FALSE]
    /\ pc = [s \in Subs |-> "none"]
    /\ cancelling = [s \in Subs |-> FALSE]
    /\ worktree = [s \in Subs |-> FALSE]
    /\ attaching = [s \in Subs |-> FALSE]
    /\ removing = [s \in Subs |-> FALSE]
    /\ tool = Idle
    /\ fate = [m \in Messages |-> "new"]
    /\ late = {} /\ orphans = {} /\ overtaken = {} /\ undercut = {} /\ resumed = {} /\ heard = {}

-----------------------------------------------------------------------------
(* spawn_subagent.                                                         *)

\* Mutant: the limit is off by one.
SpawnBegins_oneMore(s) ==
    /\ tool = Idle
    /\ status[s] = "none"
    /\ ~worktree[s] /\ ~attaching[s]
    /\ Cardinality({t \in Subs : Active(t)}) <= MaxConcurrent
    /\ tool' = Call("spawn", s, None)
    /\ attaching' = Set(attaching, s, s \in Isolated)
    /\ UNCHANGED <<sessionVars, taskVars, worktree, removing, fate, history>>

\* The limit is looked at first; git works in a thread then.
SpawnBegins(s) ==
    /\ tool = Idle
    /\ status[s] = "none"
    /\ ~worktree[s] /\ ~attaching[s]
    /\ Cardinality({t \in Subs : Active(t)}) < MaxConcurrent
    /\ tool' = Call("spawn", s, None)
    /\ attaching' = Set(attaching, s, s \in Isolated)
    /\ UNCHANGED <<sessionVars, taskVars, worktree, removing, fate, history>>

SpawnFails(s) ==
    /\ tool = Call("spawn", s, None)
    /\ ~attaching[s]
    /\ s \in Isolated /\ ~worktree[s]
    /\ tool' = Idle
    /\ UNCHANGED <<sessionVars, taskVars, treeVars, fate, history>>

SpawnStarts(s) ==
    /\ tool = Call("spawn", s, None)
    /\ ~attaching[s]
    /\ s \in Isolated => worktree[s]
    /\ status' = Set(status, s, "running")
    /\ pc' = Set(pc, s, "ready")
    /\ tool' = Idle
    /\ UNCHANGED <<pending, suppress, cancelling, treeVars, fate, history>>

-----------------------------------------------------------------------------
(* message_subagent (send_subagent_followup).                              *)

\* A live task will drain the message.
FollowupQueues(s, m) ==
    /\ tool = Idle
    /\ status[s] # "none" /\ fate[m] = "new"
    /\ Live(s)
    /\ suppress' = Set(suppress, s, FALSE)
    /\ pending' = Set(pending, s, Append(pending[s], m))
    /\ Becomes({m}, "queued")
    /\ late' = IF pc[s] = "cleanup" THEN late \cup {m} ELSE late
    /\ UNCHANGED <<status, taskVars, treeVars, tool, orphans, overtaken, undercut, resumed, heard>>

\* The worktree is there: the session is marked and saved, in a thread.
SetsUp(s, m) ==
    /\ status' = Set(status, s, "running")
    /\ tool' = Call("save", s, m)
    /\ orphans' = orphans \ {s}
    /\ resumed' = resumed \cup {s}
    /\ heard' = heard \ {s}

\* Without a live task the call starts one, after its worktree is made sure of.
FollowupBegins(s, m) ==
    /\ tool = Idle
    /\ status[s] # "none" /\ fate[m] = "new"
    /\ ~Live(s)
    /\ suppress' = Set(suppress, s, FALSE)
    /\ Becomes({m}, "setup")
    /\ overtaken' = overtaken \ {s}
    /\ undercut' = undercut \ {s}
    /\ IF s \in Isolated
       THEN /\ attaching' = Set(attaching, s, TRUE)
            /\ tool' = Call("attach", s, m)
            /\ UNCHANGED <<status, orphans, resumed, heard>>
       ELSE SetsUp(s, m) /\ UNCHANGED attaching
    /\ UNCHANGED <<pending, taskVars, worktree, removing, late>>

\* Mutant: the directory is not looked at again.
FollowupAttached_unchecked(s, m) ==
    /\ tool = Call("attach", s, m)
    /\ ~attaching[s]
    /\ SetsUp(s, m)
    /\ UNCHANGED <<pending, suppress, taskVars, treeVars, fate, late, overtaken, undercut>>

FollowupAttached(s, m) ==
    /\ tool = Call("attach", s, m)
    /\ ~attaching[s]
    /\ worktree[s]
    /\ SetsUp(s, m)
    /\ UNCHANGED <<pending, suppress, taskVars, treeVars, fate, late, overtaken, undercut>>

FollowupRefused(s, m) ==
    /\ tool = Call("attach", s, m)
    /\ ~attaching[s]
    /\ ~worktree[s]
    /\ tool' = Idle
    /\ Becomes({m}, "refused")
    /\ UNCHANGED <<sessionVars, taskVars, treeVars, history>>

\* The save is done: the task is made and registered in the session.
FollowupStarts(s, m) ==
    /\ tool = Call("save", s, m)
    /\ pc' = Set(pc, s, "ready")
    /\ tool' = Idle
    /\ Becomes({m}, "ran")
    /\ UNCHANGED <<sessionVars, cancelling, treeVars, history>>

FollowupSaveFails(s, m) ==
    /\ tool = Call("save", s, m)
    /\ status' = Set(status, s, "error")
    /\ tool' = Idle
    /\ Becomes({m}, "refused")
    /\ heard' = heard \cup {s}
    /\ UNCHANGED <<pending, suppress, taskVars, treeVars, late, orphans, overtaken, undercut, resumed>>

\* Esc cancels the parent's turn in an await of the tool: nothing catches
\* CancelledError, and what the call has set stays.
ToolStopped ==
    /\ tool # Idle
    /\ tool' = Idle
    /\ Becomes({tool.msg} \ {None}, "stopped")
    /\ orphans' = IF tool.op = "save" /\ status[tool.sub] = "running"
                  THEN orphans \cup {tool.sub} ELSE orphans
    /\ UNCHANGED <<sessionVars, taskVars, treeVars, late, overtaken, undercut, resumed, heard>>

\* The thread ends: an existing directory is taken as it is, a missing one is
\* made, or git fails.
AttachEnds(s) ==
    /\ attaching[s]
    /\ attaching' = Set(attaching, s, FALSE)
    /\ worktree' \in {Set(worktree, s, TRUE), worktree}
    /\ undercut' = IF removing[s] THEN undercut \cup {s} ELSE undercut
    /\ UNCHANGED <<sessionVars, taskVars, removing, tool, fate, late, orphans, overtaken, resumed, heard>>

-----------------------------------------------------------------------------
(* The background task: run_subagent_stream_bg.                            *)

TaskStarts(s) ==
    /\ pc[s] = "ready" /\ ~cancelling[s]
    /\ pc' = Set(pc, s, "stream")
    /\ UNCHANGED <<sessionVars, cancelling, treeVars, tool, fate, history>>

\* A task cancelled before its first step never enters its try block.
TaskNeverRuns(s) ==
    /\ pc[s] = "ready" /\ cancelling[s]
    /\ pc' = Set(pc, s, "none")
    /\ cancelling' = Set(cancelling, s, FALSE)
    /\ orphans' = IF status[s] = "running" THEN orphans \cup {s} ELSE orphans
    /\ late' = late \cup Elements(pending[s])
    /\ UNCHANGED <<sessionVars, treeVars, tool, fate, overtaken, undercut, resumed, heard>>

\* execute_session_turn: the stream ends by itself, or with an exception
\* ("raised"); the session gets its status and is saved in a thread.
StreamEnds(s) ==
    /\ pc[s] = "stream" /\ ~cancelling[s]
    /\ \/ /\ status' \in {Set(status, s, "completed"), Set(status, s, "error")}
          /\ pc' = Set(pc, s, "saving")
       \/ /\ status' = Set(status, s, "error")
          /\ pc' = Set(pc, s, "raised")
    /\ UNCHANGED <<pending, suppress, cancelling, treeVars, tool, fate, history>>

\* The finally block hands the cleanup of the worktree to a thread.
Cleanup(s) ==
    /\ pc' = Set(pc, s, "cleanup")
    /\ removing' = Set(removing, s, s \in Isolated)

\* Mutant: the next message is taken without marking the session running.
AfterTurn_keepsStatus(s) ==
    \/ /\ status[s] \in {"cancelled", "error"}
       /\ pending' = Set(pending, s, <<>>)
       /\ Becomes(Elements(pending[s]), "cleared")
       /\ Cleanup(s)
       /\ UNCHANGED status
    \/ /\ status[s] \notin {"cancelled", "error"}
       /\ pending[s] # <<>>
       /\ pending' = Set(pending, s, Tail(pending[s]))
       /\ Becomes({Head(pending[s])}, "ran")
       /\ UNCHANGED status
       /\ pc' = Set(pc, s, "stream")
       /\ UNCHANGED removing
    \/ /\ status[s] \notin {"cancelled", "error"}
       /\ pending[s] = <<>>
       /\ Cleanup(s)
       /\ UNCHANGED <<status, pending, fate>>

\* Mutant: the queue is not looked at again.
AfterTurn_oneMessage(s) ==
    /\ Cleanup(s)
    /\ UNCHANGED <<status, pending, fate>>

\* After the save: drop the queue, or take its next message, or clean up.
AfterTurn(s) ==
    \/ /\ status[s] \in {"cancelled", "error"}
       /\ pending' = Set(pending, s, <<>>)
       /\ Becomes(Elements(pending[s]), "cleared")
       /\ Cleanup(s)
       /\ UNCHANGED status
    \/ /\ status[s] \notin {"cancelled", "error"}
       /\ pending[s] # <<>>
       /\ pending' = Set(pending, s, Tail(pending[s]))
       /\ Becomes({Head(pending[s])}, "ran")
       /\ status' = Set(status, s, "running")
       /\ pc' = Set(pc, s, "stream")
       /\ UNCHANGED removing
    \/ /\ status[s] \notin {"cancelled", "error"}
       /\ pending[s] = <<>>
       /\ Cleanup(s)
       /\ UNCHANGED <<status, pending, fate>>

SaveEnds(s) ==
    /\ pc[s] \in {"saving", "raised", "stopping"} /\ ~cancelling[s]
    /\ AfterTurn(s)
    /\ UNCHANGED <<suppress, cancelling, worktree, attaching, tool, history>>

\* A failed save makes the run an error; that of a cancelled run raises
\* CancelledError, which leaves the loop before the queue is cleared.
SaveFails(s) ==
    /\ pc[s] \in {"saving", "stopping"} /\ ~cancelling[s]
    /\ IF pc[s] = "saving"
       THEN /\ status' = Set(status, s, "error")
            /\ pc' = Set(pc, s, "raised")
            /\ UNCHANGED removing
       ELSE Cleanup(s) /\ UNCHANGED status
    /\ late' = IF pc[s] = "stopping" THEN late \cup Elements(pending[s]) ELSE late
    /\ UNCHANGED <<pending, suppress, cancelling, worktree, attaching, tool, fate,
                   orphans, overtaken, undercut, resumed, heard>>

\* CancelledError at an await.  Inside the try block, the save after a
\* completion included, the run becomes a cancelled one; in a handler's save
\* it leaves for the finally block; in the cleanup it skips the notification.
CancelDelivered(s) ==
    /\ pc[s] \notin {"none", "ready"} /\ cancelling[s]
    /\ cancelling' = Set(cancelling, s, FALSE)
    /\ \/ /\ pc[s] \in {"stream", "saving"}
          /\ status' = Set(status, s, "cancelled")
          /\ pc' = Set(pc, s, "stopping")
          /\ UNCHANGED <<removing, late>>
       \/ /\ pc[s] \in {"raised", "stopping"}
          /\ Cleanup(s)
          /\ late' = late \cup Elements(pending[s])
          /\ UNCHANGED status
       \/ /\ pc[s] = "cleanup"
          /\ pc' = Set(pc, s, "none")
          /\ UNCHANGED <<status, removing, late>>
    /\ UNCHANGED <<pending, suppress, worktree, attaching, tool, fate,
                   orphans, overtaken, undercut, resumed, heard>>

\* The thread ends, also when nobody waits for it any more.
WorktreeRemoved(s) ==
    /\ removing[s]
    /\ removing' = Set(removing, s, FALSE)
    /\ worktree' = Set(worktree, s, FALSE)
    /\ UNCHANGED <<sessionVars, taskVars, attaching, tool, fate, history>>

\* Mutant: only a completed run is reported.
TaskEnds_onlyCompleted(s) ==
    /\ pc[s] = "cleanup" /\ ~cancelling[s] /\ ~removing[s]
    /\ suppress' = Set(suppress, s, suppress[s] \/ status[s] = "cancelled")
    /\ pc' = Set(pc, s, "none")
    /\ heard' = IF suppress'[s] \/ status[s] # "completed" THEN heard ELSE heard \cup {s}
    /\ UNCHANGED <<status, pending, cancelling, treeVars, tool, fate, late, orphans, overtaken,
                   undercut, resumed>>

\* The parent is notified, unless the run was cancelled; async_task is None.
TaskEnds(s) ==
    /\ pc[s] = "cleanup" /\ ~cancelling[s] /\ ~removing[s]
    /\ suppress' = Set(suppress, s, suppress[s] \/ status[s] = "cancelled")
    /\ pc' = Set(pc, s, "none")
    /\ heard' = IF suppress'[s] THEN heard ELSE heard \cup {s}
    /\ UNCHANGED <<status, pending, cancelling, treeVars, tool, fate, late, orphans, overtaken,
                   undercut, resumed>>

-----------------------------------------------------------------------------
(* Kills.                                                                  *)

\* kill_subagent, from the tool, the screens or TaskManager.kill_all.
Kill(s) ==
    /\ status[s] # "none"
    /\ suppress' = Set(suppress, s, TRUE)
    /\ pending' = Set(pending, s, <<>>)
    /\ Becomes(Elements(pending[s]), "cleared")
    /\ IF Live(s)
       THEN /\ cancelling' = Set(cancelling, s, TRUE)
            /\ UNCHANGED <<status, worktree, orphans, overtaken, undercut>>
       ELSE /\ status' = IF status[s] = "running" THEN Set(status, s, "cancelled") ELSE status
            /\ worktree' = Set(worktree, s, FALSE)
            /\ overtaken' = IF SettingUp(s) THEN overtaken \cup {s} ELSE overtaken
            /\ undercut' = IF SettingUp(s) THEN undercut \cup {s} ELSE undercut
            /\ orphans' = orphans \ {s}
            /\ UNCHANGED cancelling
    /\ UNCHANGED <<pc, attaching, removing, tool, late, resumed, heard>>

\* cancel_running_subagents when the session is left: the parent's turn has
\* been cancelled and waited for, so no tool call is under way.
CancelAll ==
    /\ tool = Idle
    /\ \E s \in Subs : Active(s)
    /\ suppress' = [s \in Subs |-> suppress[s] \/ Active(s)]
    /\ cancelling' = [s \in Subs |-> cancelling[s] \/ Live(s)]
    /\ status' = [s \in Subs |-> IF Active(s) /\ ~Live(s) THEN "cancelled" ELSE status[s]]
    /\ orphans' = {}
    /\ UNCHANGED <<pending, pc, treeVars, tool, fate, late, overtaken, undercut, resumed, heard>>

-----------------------------------------------------------------------------
ToolProceeds ==
    \E s \in Subs :
       \/ SpawnFails(s) \/ SpawnStarts(s)
       \/ \E m \in Messages :
            FollowupAttached(s, m) \/ FollowupRefused(s, m) \/ FollowupStarts(s, m) \/ FollowupSaveFails(s, m)

TaskProceeds(s) ==
    \/ TaskStarts(s) \/ TaskNeverRuns(s) \/ StreamEnds(s) \/ SaveEnds(s) \/ SaveFails(s)
    \/ CancelDelivered(s) \/ TaskEnds(s)

Threads(s) == AttachEnds(s) \/ WorktreeRemoved(s)

Next ==
    \/ \E s \in Subs :
         \/ SpawnBegins(s) \/ TaskProceeds(s) \/ Threads(s) \/ Kill(s)
         \/ \E m \in Messages : FollowupQueues(s, m) \/ FollowupBegins(s, m)
    \/ ToolProceeds \/ ToolStopped \/ CancelAll

Spec == Init /\ [][Next]_vars

\* The loop runs what is ready, streams and git have timeouts.  Nobody has to
\* spawn, write, stop or kill.
FairSpec ==
    /\ Spec
    /\ WF_vars(ToolProceeds)
    /\ \A s \in Subs : WF_vars(TaskProceeds(s)) /\ WF_vars(AttachEnds(s)) /\ WF_vars(WorktreeRemoved(s))

-----------------------------------------------------------------------------
(* Properties.                                                             *)

\* What the screens, the limit and a later kill read is true: a session that is
\* "running" has a task or a call that is about to make one, and one whose
\* stream runs is "running".  The status is written by the task, by two kinds of
\* cancellation and by follow-ups, in between each other's awaits.  Two
\* exceptions: a task cancelled before its first step or a follow-up stopped
\* during its save leave an orphan, and a kill during that save is overtaken by
\* the task the follow-up then starts.
StatusIsTrue ==
    \A s \in Subs :
      /\ status[s] = "running" =>
            Live(s) \/ SettingUp(s) \/ s \in orphans
      /\ pc[s] \in {"ready", "stream"} => status[s] = "running" \/ s \in overtaken

\* A stream never works in a directory that is gone: "so the subagent keeps
\* working on its own branch/cwd".  Exceptions: a kill while a follow-up sets the
\* session up, and a follow-up that finds the directory a cancelled task's thread
\* is still removing.
WorktreePresent ==
    \A s \in Isolated : pc[s] \in {"ready", "stream"} => worktree[s] \/ s \in undercut

\* The limit of concurrent subagents holds for spawns, although it is looked at
\* before the awaits of the spawn; follow-ups of finished subagents do not look
\* at it.
LimitOfSpawns ==
    Cardinality({s \in Subs \ resumed : Active(s)} \ {tool.sub}) <= MaxConcurrent

\* "auto-notify on completion": a run comes to an end after any number of kills,
\* stops and follow-ups, and whoever started it hears of it, unless it was killed
\* or left behind with its session, or is one of the orphans that nothing but
\* another kill ends.
ParentHears ==
    \A s \in Subs : status[s] = "running" ~>
        (s \in orphans \/ (status[s] # "running" /\ (s \in heard \/ suppress[s])))

\* "The message is queued and drained by the running stream": what was
\* answered with "[queued]" is run, or dropped with the run that failed or was
\* killed, unless it came when the task drains no more.
QueuedIsDrained ==
    \A m \in Messages : fate[m] = "queued" ~> (fate[m] # "queued" \/ m \in late)

=============================================================================
