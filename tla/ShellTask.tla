----------------------------- MODULE ShellTask ------------------------------
(***************************************************************************)
(* One command of the shell tool: the tool's coroutine (ShellTool.execute  *)
(* and _run_sync), the task that reads the command's output, the watcher   *)
(* of its hard limit, kills, Ctrl+B, Esc, and the notification of a        *)
(* background command's end.                                               *)
(*                                                                         *)
(* One action is a stretch of code between two awaits, or a step of the    *)
(* command's processes.  A time limit is a step that may be taken at any   *)
(* time.  The output itself is left out, and the reminders of an idle      *)
(* command, which change nothing here.                                     *)
(***************************************************************************)
EXTENDS Naturals, FiniteSets

CONSTANTS Modes,  \* "sync": no wait_seconds; "wait": N > 0; "background": 0
          Shapes  \* "plain"; "detaches": leaves a child with the pipe behind;
                  \* "closes": may close its output before it exits

ASSUME ShellAssumption ==
    /\ Modes \subseteq {"sync", "wait", "background"}
    /\ Shapes \subseteq {"plain", "detaches", "closes"}

VARIABLES
    cmd,          \* the call: its mode, the command's shape, a hard limit or none
    process,      \* the shell: "alive", or exited with "zero" or "nonzero"
    noticed,      \* the event loop knows of its exit: returncode is set
    child,        \* the child left behind is alive
    closed,       \* the shell has closed its output
    call,         \* where the tool's coroutine is
    told,         \* what the call returned
    reader,       \* where read_task is
    cut,          \* read_task.cancel() was called and is not delivered yet
    watcher,      \* where watcher_task is
    killer,       \* where kill() is
    terminations, \* terminations of the process group under way, by their caller
    isBackground, \* task.is_background (and background_event)
    registered,   \* the TaskManager has the task
    taskStatus,   \* task.status
    wasKilled,    \* task.was_killed
    timedOut,     \* task.timed_out
    taskSuppress, \* task.suppress_notification
    notified,     \* the status the notification reported, "none" before
    unreaped,     \* history: the reader ended without the exit code
    anonymous,    \* history: the notification did not find the task
    crossed,      \* history: Ctrl+B came when the tool no longer looked at it
    missed        \* history: promised a notification after the reader had ended

processVars == <<process, noticed, child, closed>>
toolVars == <<cmd, call, told>>
task == <<isBackground, registered, taskStatus, wasKilled, timedOut, taskSuppress, notified>>
past == <<unreaped, anonymous, crossed, missed>>
shellVars == <<processVars, toolVars, reader, cut, watcher, killer, terminations, task, past>>

Calls == [mode : Modes, shape : Shapes, hard : BOOLEAN]

\* The pipe is open while somebody has its writing end.
PipeOpen == (process = "alive" /\ ~closed) \/ child
Running == taskStatus = "running"
ReaderDone == reader = "done"

\* Without wait_seconds the timeout is the hard limit; with 0 the call returns
\* at once, with a registered background task.
ShellInit ==
    /\ cmd \in {c \in Calls : c.mode = "sync" => c.hard}
    /\ process = "alive" /\ noticed = FALSE /\ closed = FALSE
    /\ child = (cmd.shape = "detaches")
    /\ call = IF cmd.mode = "background" THEN "returned" ELSE "waiting"
    /\ told = IF cmd.mode = "background" THEN "background" ELSE "none"
    /\ isBackground = (cmd.mode = "background")
    /\ registered = isBackground
    /\ reader = "reading" /\ cut = FALSE
    /\ watcher = "sleeping" /\ killer = "none" /\ terminations = {}
    /\ taskStatus = "running" /\ wasKilled = FALSE /\ timedOut = FALSE /\ taskSuppress = FALSE
    /\ notified = "none"
    /\ unreaped = FALSE /\ anonymous = FALSE /\ crossed = FALSE /\ missed = FALSE

-----------------------------------------------------------------------------
(* The command's processes and their end.                                  *)

Exits ==
    /\ process = "alive"
    /\ process' \in {"zero", "nonzero"}
    /\ UNCHANGED <<noticed, child, closed, toolVars, reader, cut, watcher, killer, terminations,
                   task, past>>

ChildExits ==
    /\ child
    /\ child' = FALSE
    /\ UNCHANGED <<process, noticed, closed, toolVars, reader, cut, watcher, killer, terminations,
                   task, past>>

ClosesOutput ==
    /\ cmd.shape = "closes" /\ process = "alive" /\ ~closed
    /\ closed' = TRUE
    /\ UNCHANGED <<process, noticed, child, toolVars, reader, cut, watcher, killer, terminations,
                   task, past>>

ExitNoticed ==
    /\ process # "alive" /\ ~noticed
    /\ noticed' = TRUE
    /\ UNCHANGED <<process, child, closed, toolVars, reader, cut, watcher, killer, terminations,
                   task, past>>

\* SIGTERM to the group, then a wait for the exit of the shell; SIGKILL to the
\* group when it takes too long.
TerminationEnds(by) ==
    /\ by \in terminations
    /\ terminations' = terminations \ {by}
    /\ \/ noticed /\ UNCHANGED <<process, child>>
       \/ /\ ~noticed
          /\ process' = IF process = "alive" THEN "nonzero" ELSE process
          /\ child' = FALSE
    /\ UNCHANGED <<noticed, closed, toolVars, reader, cut, watcher, killer, task, past>>

\* terminate_process_tree does nothing once the shell's exit is known.
TerminateTree(by) ==
    terminations' = IF noticed THEN terminations ELSE terminations \cup {by}

-----------------------------------------------------------------------------
(* The tool's coroutine.                                                   *)

\* _promote_task_to_background.
Promote ==
    /\ isBackground' = TRUE
    /\ registered' = TRUE
    /\ call' = "returned"
    /\ told' = "background"
    /\ missed' = (ReaderDone /\ notified = "none")

\* Mutant: Ctrl+B is not looked at when the command has exited.
WaitReturns_ignoresCtrlB ==
    /\ call = "waiting"
    /\ \/ noticed /\ call' = "collecting" /\ UNCHANGED <<told, isBackground, registered, missed>>
       \/ isBackground /\ ~noticed /\ Promote
    /\ UNCHANGED <<processVars, cmd, reader, cut, watcher, killer, terminations, taskStatus,
                   wasKilled, timedOut, taskSuppress, notified, unreaped, anonymous, crossed>>

\* The shell exited, or Ctrl+B was pressed.
WaitReturns ==
    /\ call = "waiting"
    /\ \/ isBackground /\ Promote
       \/ /\ noticed /\ ~isBackground
          /\ call' = "collecting"
          /\ UNCHANGED <<told, isBackground, registered, missed>>
    /\ UNCHANGED <<processVars, cmd, reader, cut, watcher, killer, terminations, taskStatus,
                   wasKilled, timedOut, taskSuppress, notified, unreaped, anonymous, crossed>>

\* Mutant: the task is announced as a background one and not made one.
WaitMovesOn_unmarked ==
    /\ call = "waiting" /\ cmd.mode = "wait"
    /\ registered' = TRUE
    /\ call' = "returned" /\ told' = "background"
    /\ UNCHANGED <<processVars, cmd, reader, cut, watcher, killer, terminations, isBackground,
                   taskStatus, wasKilled, timedOut, taskSuppress, notified, past>>

\* wait_seconds are over.
WaitMovesOn ==
    /\ call = "waiting" /\ cmd.mode = "wait"
    /\ Promote
    /\ UNCHANGED <<processVars, cmd, reader, cut, watcher, killer, terminations, taskStatus,
                   wasKilled, timedOut, taskSuppress, notified, unreaped, anonymous, crossed>>

\* The timeout is over, or the hard limit while wait_seconds are not: the
\* group is terminated, whether or not the shell has exited.
WaitTimesOut ==
    /\ call = "waiting" /\ cmd.hard
    /\ call' = "terminating"
    /\ terminations' = terminations \cup {"tool"}
    /\ crossed' = (crossed \/ isBackground)
    /\ UNCHANGED <<processVars, cmd, told, reader, cut, watcher, killer, task, unreaped,
                   anonymous, missed>>

TimeoutTerminated ==
    /\ call = "terminating" /\ "tool" \notin terminations
    /\ call' = "cutting"
    /\ cut' = ~ReaderDone
    /\ UNCHANGED <<processVars, cmd, told, reader, watcher, killer, terminations, task, past>>

TimeoutReturns ==
    /\ call = "cutting" /\ ReaderDone
    /\ call' = "returned" /\ told' = "timeout"
    /\ UNCHANGED <<processVars, cmd, reader, cut, watcher, killer, terminations, task, past>>

\* The reader gets two seconds for the rest of the output.
CollectingTimesOut ==
    /\ call = "collecting" /\ ~ReaderDone /\ ~cut
    /\ cut' = TRUE
    /\ UNCHANGED <<processVars, toolVars, reader, watcher, killer, terminations, task, past>>

CollectingReturns ==
    /\ call = "collecting" /\ ReaderDone
    /\ call' = "returned" /\ told' = "result"
    /\ UNCHANGED <<processVars, cmd, reader, cut, watcher, killer, terminations, task, past>>

\* CancelledError: the reader is cancelled and waited for, then the group is
\* terminated.  _cancel_read_task swallows a second one, which a shielded
\* termination does not need.
Stopped ==
    /\ \/ /\ call \in {"waiting", "collecting"}
          /\ call' = "stopping"
          /\ cut' = ~ReaderDone
          /\ UNCHANGED told
       \/ /\ call \in {"terminating", "stopped"}
          /\ call' = "returned" /\ told' = "stopped"
          /\ UNCHANGED cut
    /\ crossed' = (crossed \/ isBackground)
    /\ UNCHANGED <<processVars, cmd, reader, watcher, killer, terminations, task, unreaped,
                   anonymous, missed>>

\* Mutant: the command is left running.
StopTerminates_reads ==
    /\ call = "stopping" /\ ReaderDone
    /\ call' = "stopped"
    /\ UNCHANGED <<processVars, cmd, told, reader, cut, watcher, killer, terminations, task,
                   past>>

StopTerminates ==
    /\ call = "stopping" /\ ReaderDone
    /\ call' = "stopped"
    /\ terminations' = terminations \cup {"tool"}
    /\ UNCHANGED <<processVars, cmd, told, reader, cut, watcher, killer, task, past>>

StopReturns ==
    /\ call = "stopped" /\ "tool" \notin terminations
    /\ call' = "returned" /\ told' = "stopped"
    /\ UNCHANGED <<processVars, cmd, reader, cut, watcher, killer, terminations, task, past>>

\* Ctrl+B (background_all): the task is in the table of foreground tasks until
\* the call returns.
CtrlB ==
    /\ call # "returned" /\ Running /\ ~isBackground
    /\ isBackground' = TRUE
    /\ crossed' = (crossed \/ call # "waiting")
    /\ UNCHANGED <<processVars, toolVars, reader, cut, watcher, killer, terminations, registered,
                   taskStatus, wasKilled, timedOut, taskSuppress, notified, unreaped, anonymous,
                   missed>>

-----------------------------------------------------------------------------
(* The reader, the watcher and kill().                                     *)

\* The end of the output, or a cancellation; the watcher is cancelled (what it
\* shields goes on).
ReadEnds ==
    /\ reader = "reading"
    /\ cut \/ ~PipeOpen
    /\ reader' = "closing"
    /\ cut' = FALSE
    /\ watcher' = "done"
    /\ UNCHANGED <<processVars, toolVars, killer, terminations, task, past>>

\* The log is closed; a cancellation in that await is swallowed.
LogClosed ==
    /\ reader = "closing"
    /\ reader' = "reaping"
    /\ cut' = FALSE
    /\ UNCHANGED <<processVars, toolVars, watcher, killer, terminations, task, past>>

FinalStatus ==
    CASE timedOut -> "error"
      [] ~timedOut /\ wasKilled -> "killed"
      [] ~timedOut /\ ~wasKilled -> IF noticed /\ process = "nonzero" THEN "error" ELSE "completed"

\* on_background_shell_completed: the status a notification reports.
Reported(st) ==
    CASE ~registered -> "completed"
      [] registered /\ (timedOut \/ st = "error") -> "error"
      [] registered /\ ~timedOut /\ st = "killed" -> "cancelled"
      [] registered /\ ~timedOut /\ st \notin {"error", "killed"} ->
            IF noticed /\ process = "nonzero" THEN "error" ELSE "completed"

\* Mutant: the subscribers are called before the terminal status is set.
ReaderEnds_notifiesFirst ==
    /\ reader = "reaping"
    /\ reader' = "done"
    /\ cut' = FALSE
    /\ unreaped' = ~noticed
    /\ taskStatus' = IF Running THEN FinalStatus ELSE taskStatus
    /\ IF isBackground /\ ~taskSuppress
       THEN notified' = Reported(taskStatus) /\ anonymous' = ~registered
       ELSE UNCHANGED <<notified, anonymous>>
    /\ UNCHANGED <<processVars, toolVars, watcher, killer, terminations, isBackground, registered,
                   wasKilled, timedOut, taskSuppress, crossed, missed>>

\* The exit code is known, or a second is over, or the wait is cancelled: the
\* first to set a terminal status wins, then the end is announced.
ReaderEnds ==
    /\ reader = "reaping"
    /\ reader' = "done"
    /\ cut' = FALSE
    /\ unreaped' = ~noticed
    /\ taskStatus' = IF Running THEN FinalStatus ELSE taskStatus
    /\ IF isBackground /\ ~taskSuppress
       THEN notified' = Reported(taskStatus') /\ anonymous' = ~registered
       ELSE UNCHANGED <<notified, anonymous>>
    /\ UNCHANGED <<processVars, toolVars, watcher, killer, terminations, isBackground, registered,
                   wasKilled, timedOut, taskSuppress, crossed, missed>>

\* The hard limit counts from the start, and is looked at in the background.
HardLimit ==
    /\ watcher = "sleeping" /\ Running /\ isBackground /\ cmd.hard
    /\ timedOut' = TRUE
    /\ watcher' = "done"
    /\ TerminateTree("watcher")
    /\ UNCHANGED <<processVars, toolVars, reader, cut, killer, isBackground, registered,
                   taskStatus, wasKilled, taskSuppress, notified, past>>

\* kill() of a task in the background: from the kill tool, which wants no
\* notification, from the screens, or from a rewind, which drops the task.
KillBegins ==
    /\ killer = "none" /\ registered /\ Running /\ call = "returned"
    /\ wasKilled' = TRUE
    /\ watcher' = "done"
    /\ killer' = "closing"
    /\ \/ taskSuppress' = TRUE /\ UNCHANGED registered
       \/ registered' = FALSE /\ UNCHANGED taskSuppress
       \/ UNCHANGED <<taskSuppress, registered>>
    /\ UNCHANGED <<processVars, toolVars, reader, cut, terminations, isBackground, taskStatus,
                   timedOut, notified, past>>

KillTerminates ==
    /\ killer = "closing"
    /\ killer' = "terminating"
    /\ TerminateTree("kill")
    /\ UNCHANGED <<processVars, toolVars, reader, cut, watcher, task, past>>

KillEnds ==
    /\ killer = "terminating" /\ "kill" \notin terminations
    /\ killer' = "done"
    /\ cut' = ~ReaderDone
    /\ taskStatus' = IF Running THEN "killed" ELSE taskStatus
    /\ UNCHANGED <<processVars, toolVars, reader, watcher, terminations, isBackground, registered,
                   wasKilled, timedOut, taskSuppress, notified, past>>

-----------------------------------------------------------------------------
CallProceeds ==
    \/ WaitReturns \/ WaitMovesOn \/ WaitTimesOut
    \/ TimeoutTerminated \/ TimeoutReturns \/ CollectingTimesOut \/ CollectingReturns
    \/ StopTerminates \/ StopReturns

ReaderProceeds == ReadEnds \/ LogClosed \/ ReaderEnds
KillProceeds == KillTerminates \/ KillEnds

ShellNext ==
    \/ Exits \/ ChildExits \/ ClosesOutput \/ ExitNoticed
    \/ \E by \in {"tool", "watcher", "kill"} : TerminationEnds(by)
    \/ CallProceeds \/ Stopped \/ CtrlB
    \/ ReaderProceeds \/ HardLimit \/ KillBegins \/ KillProceeds

ShellSpec == ShellInit /\ [][ShellNext]_shellVars

\* The event loop runs what is ready and its timers fire.  Commands need not
\* end, and nobody has to press a key or to kill.
ShellFairSpec ==
    /\ ShellSpec
    /\ WF_shellVars(ExitNoticed) /\ WF_shellVars(CallProceeds) /\ WF_shellVars(ReaderProceeds)
    /\ WF_shellVars(HardLimit) /\ WF_shellVars(KillProceeds)
    /\ \A by \in {"tool", "watcher", "kill"} : WF_shellVars(TerminationEnds(by))

-----------------------------------------------------------------------------
(* Properties.                                                             *)

\* What is said of a command's end is true, however its own exit, the hard
\* limit and kills cross: "completed" is said of a command that exited with 0 and
\* was neither killed nor timed out.  Exceptions: the reader ended without the
\* exit code, and a notification that no longer (after a rewind) or not yet
\* (Ctrl+B at the very end) finds its task says "completed" whatever happened.
ReportedTruly ==
    /\ taskStatus = "completed" /\ ~unreaped => process = "zero"
    /\ notified = "completed" /\ ~unreaped /\ ~anonymous =>
          process = "zero" /\ ~wasKilled /\ ~timedOut
    /\ notified = "cancelled" => wasKilled

\* A call answers with a result or with the promise of a notification, never
\* with a result and a notification later.  Exception: Ctrl+B pressed when the
\* call already collects the result, times out or is stopped.
ReportedOnce ==
    notified # "none" => told \in {"none", "background"} \/ crossed

\* A command whose timeout or stop was reported, or whose kill has ended, does
\* not run for ever: its shell is terminated, although the call may be cancelled
\* once more while it does so.
StoppedIsDead ==
    (told \in {"timeout", "stopped"} \/ killer = "done") ~> process # "alive"

\* "wait for notification": a command in the background that exits, or that has
\* a hard limit, is announced, unless the kill tool ended it.  Exceptions: the
\* reader had ended before the promise, and a child that outlives the shell with
\* the pipe open, which neither the hard limit nor a kill ends.
PromiseKept ==
    (told = "background" /\ (cmd.hard \/ process # "alive")) ~>
        (notified # "none" \/ taskSuppress \/ missed \/ (process # "alive" /\ child))

=============================================================================
