# Johnston in TLA+

TLA+ models of the concurrent core of Johnston, a terminal coding agent: one
asyncio process in which an agent talks to a model provider, runs tools, starts
subagents and keeps its sessions on disk. Paths below are relative to
`src/src/johnston/` unless they begin with `tests/`.

Every definition names the code it stands for in `PROJECT.json` under "map". A
property that a doc, a comment or a test of the repository states and the code does
not keep is refuted by a run ("findings") or stated with its exceptions; the
exceptions and the disagreements behind them are collected in section 16.

## 1. Inventory

| Component | State it keeps | Operations | Talks to |
|---|---|---|---|
| Circuit breaker, `core/infrastructure/runtime/circuit_breaker.py` | per provider: state, failure stamps, time of the trip, half-open slot | `allow_request`, `record_success`, `record_failure`, `get_state`, `remaining_cooldown`, `reset` | the request streams of the agent and of every subagent |
| Agent turn loop, `core/infrastructure/llm/base/{stream_loop,turn_execution,turn_context,message_queue}.py` | `messages`, `self.history`, the tool calls of a step, compactions so far | prepare, drain, request, execute tools in batches, compact, finish; stopped by `task.cancel()` | breaker, provider, tools, message queue |
| History, `llm/base/compaction/`, `llm/base/history_cache.py`, `domain/policies/messages.py` | none of its own; a process-wide cache of sanitized histories | sanitize, compact, cut at a turn | turn loop, rewind, fork, resume |
| Message flow, `tui/mixins/message_flow*.py`, `tui/presentation/commands/session_commands.py` | `message_queue`, `is_generating`, `is_compacting`, workers, `_compact_task` | a line is submitted, a notification arrives, Esc, `/compact`, `!`, `/new` | turn loop, sessions |
| Agent history across sessions, `tui/app/session_service.py`, `session_state.py`, `core/application/session/{lifecycle,shell_executor,rewind}.py` | `agent.history`, `session.agent_history`, `session.messages`, session files | save in a thread, `/new`, `/resume`, `/rewind`, `/fork`, quit | store, cache, turn loop |
| Session transcript, `runtime/session_coalescer.py`, `session_interruption.py` | the session's events, the index of the first unmatched call | add an event, match a result, close what is open | engine, store |
| Subagents, `application/session/{subagent_service,stream_runner,stream_followup}.py` | status, `async_task`, `pending_messages`, worktree | spawn, follow up, cancel, notify | store, worktrees, message flow |
| Shell commands, `core/tools/shell.py`, `infrastructure/tasks/`, `infrastructure/platform/process.py` | process, status, the reader and watcher tasks | run, read, watch, kill, time out, move to the background, notify, stop | message flow |
| MCP client, `infrastructure/mcp/` | clients by server, generation, locks, processes; per client the pending futures and the threads that read and write | start, list tools, call, restart, disable, stop all | tools |
| Session locks, `infrastructure/storage/session_store_locks.py`, `platform/session_lock.py` | lock files and sidecars, sessions open or read-only | probe, acquire, steal, release | every process on the project |
| Checkpoints, `storage/git_checkpoint*.py`, `rewind.py`, `generation/engine.py` | git refs, files touched by each turn, the chain of restore tasks | snapshot before a turn, count after it, restore and purge after a rewind | engine, git |
| Adapters, tools, permissions, settings, widgets | | I/O, policy tables, text, drawing | |

What is hard in it, and what each part must guarantee:

* **Breaker.** Streams admitted before a trip report after it; several ask for the
  one half-open slot; a stopped stream reports nothing. It must let one probe
  through, stay quiet for the cooldown, trip only on fresh failures, and recover.
* **Turn loop.** A stop can find the generator inside an await or suspended at a
  yield, when its `finally` runs later, under the next turn. Messages are queued and
  drained meanwhile, tools run in parallel, compaction rewrites the list. What is
  sent must be acceptable to a provider, in order, and complete.
* **Message flow.** Five kinds of tasks interleave on one loop with two flags and a
  queue popped in three places. No message may be lost or handled twice, no two
  turns may run at once, and the queue must be served.
* **Sessions.** Python lists are shared between the agent, the store, a save under
  way and a cache, and some code changes them in place. Sessions must not leak
  into each other, and a resumed one must have its context.
* **Transcript.** Results of parallel calls are matched to calls by order, through a
  pointer that outlives rewinds, and an interruption closes what is open by adding
  more results. A call must show its own result, and what is open must run.
* **Subagents.** The status of a subagent is written by its task, by two kinds of
  cancellation and by follow-ups, between each other's awaits; its worktree is made
  and removed in threads. The status must be true, the directory present, and the
  parent must hear of every end.
* **Shell commands.** The command's own exit, its limits, kills, Ctrl+B and Esc
  cross each other, and three tasks may set the final status. What is said must be
  true and said once, what was stopped must be dead, what was promised must come.
* **MCP.** Attempts of several generations, the thread of a disable and calls that
  restart a dead server share a registry by name. One process per server, none
  forgotten, all down in the end. On one server, calls share two locks, a thread that
  writes and a task that reads through another thread, while the process exits, is
  restarted or stopped. An answer must reach who asked, a server that answers must be
  heard, and every call must come back.
* **Locks.** A process lists, opens, steals and dies between the system calls of
  another. Who can save must hold the lock; nobody may overwrite another's save.
* **Checkpoints.** Snapshots, restores and purges run in threads chained behind each
  other; an index counts visible messages. What was undone must stay undone, and a
  file no turn touched must be left alone.

## 2. Plan and state

| Order | Module | Composes | State |
|---|---|---|---|
| 1 | `CircuitBreaker`, `OutboundProofs` | breaker and the streams that use it | checked, proved in part |
| 2 | `WireHistory`, `AgentTurn`, `AgentTurnProofs` | pure history functions; turn loop over them | checked, safety proved |
| 3 | `MessageFlow`, `MessageFlowProofs` | input, workers, commands on the event loop | checked, safety proved |
| 4 | `Mailbox` | abstract specification of 3, the refinement in `MessageFlowProofs` | checked and proved |
| 5 | `SessionHistory`, `SessionHistoryProofs` | context across sessions, with list identity | checked and proved |
| 6 | `Transcript`, `SessionProofs` | coalescer, interruption, rewind of the transcript | checked and proved |
| 7 | `Subagent`, `BackgroundProofs` | spawn, follow-up, cancel, finish, notify, worktree threads | checked, safety proved |
| 8 | `ShellTask`, `BackgroundProofs` | call, reader, watcher, kill, limits, notification | checked, safety proved |
| 9 | `McpPool`, `McpPoolProofs` | clients of a server over generations | checked, safety proved |
| 10 | `McpCalls`, `OutboundProofs` | requests, threads, locks and restarts of one client | checked, safety proved |
| 11 | `SessionLock`, `SessionProofs` | several processes, lock, sidecar, steal | checked and proved |
| 12 | `Checkpoints`, `CheckpointsProofs` | snapshots, counts, chain of restores, barrier | checked and proved |

Left of the plan: an abstract serial executor that `AgentTurn`'s batches implement.

## 3. CircuitBreaker

The breaker is called under its lock, so every public method is one step. A
stream (`_stream_attempts`) is a small program: `Start` or `Refuse`
(`allow_request`), then `Retry`/`Resume`, `RetryWithHints` (images replaced after a
vision error), and `Succeed`, `Fail` or `CancelStream`, which reports no outcome, as
the `CancelledError` handler does. Time is counted in ticks and kept as ages, so that
state is finite: `openAge` saturates at the cooldown, and failures are counted per
age up to the TTL. `admitted`, `sinceOk`, `sinceTrip` and `dropped` are history
variables that only properties read.

* Run `breaker`: three streams, one provider, threshold 2, cooldown 2, TTL 1, two
  attempts. Three streams are the fewest with which a late report, a probe and a
  refused request coexist; a threshold of 2 tells a fresh failure from an old one; a
  cooldown longer than the TTL lets failures expire while the breaker is open.
  `SingleProbe`, `TripsOnFreshFailures`, `CooldownIsQuiet` hold, and
  `RecoversUnlessDropped` (liveness), whose exception is a request cancelled in the
  half-open phase: a cancelled probe keeps the slot, and every later request is
  refused (`dropped` is also set when the cancelled request is an earlier one, after
  which the breaker recovers).
* `CooldownIsQuiet` is about the latest trip, not about the state: a stream that was
  running when the breaker opened may still report a success, which closes it at
  once, and then a request starts inside the cooldown. `sinceTrip` counts the ticks
  since the latest trip and is forgiven by such a success; a late failure that opens
  the breaker again and a failed probe start the count anew.
* Fairness: time passes, and every attempt ends because the transport has timeouts.
  Nobody has to start, cancel or reset.
* Proved (`OutboundProofs`): type correctness with the retry budget
  (`TypeCorrect`), `SingleProbeHolds`, `CooldownHolds`, for all streams, providers,
  thresholds and times. `SingleProbe` counts the requests admitted
  since the phase began and ties that count to the slot flag, which makes it
  inductive given the types: a second probe would need the flag that the first one
  set. `CooldownIsQuiet` needs `StampIsTrip`: while the breaker is open,
  `_opened_at` is the stamp of the latest trip, and a breaker that is closed or
  half-open has waited for it or heard of a success since.
  `TripsHold` proves `TripsOnFreshFailures` from `Fresh`: the failures counted for a
  provider are at most those since its last success. `Count` sums over the ages by a
  recursive function; `SetInduction`, induction stated of a set rather than of a
  predicate, gives that there is one such sum and that it grows by one when an age
  does and never by a tick.
* Only model-checked: recovery.

## 4. WireHistory and AgentTurn

`WireHistory` has the pure functions: `Sanitize` (calls without results get
synthetic ones, results without calls become user messages), `RecentTail` and
`Compacted` (the split and rebuild of a compaction), `RewindHistory`. A message is a
role, a number and call ids, and the synthetic user messages that the code recognises
by prefix have roles of their own. What a message says is the constant operator
`Text`, since a compaction compares texts: `Compacted` drops a collected user message
whose text any message of the tail has (`_summary_signature`, `mixin.py:488-493`). The
run lets the first user say what the model answers (`MCText`); the proofs assume nothing of
`Text`. `WireOK` is what
providers demand: every call answered once, right after it, and no stray result.

`AgentTurn` follows `stream_steps` from await to await, one action per stretch of
code between two suspensions: preparing (with a compaction first), draining the
queue one message per yield, requesting, answering, announcing calls, running them
in batches, recording results one by one, compacting, closing. A compaction in the
loop has three awaits and a yield: the summary (`compacting`), the sanitising of the
new list (`collected`, `mixin.py:496`), another one after the history was set
(`summarized`, `mixin.py:290`), then the history is set again (`Resync`) and the
dividers are yielded (`turn_execution.py:204`) while `stream_steps` still has its old
list (`compacted`; `stream_loop.py:431` takes the new one). `Sent` is the list that the
loop goes on with. `StopInside` is a
cancel in one of the generator's own awaits: the `finally` runs at once.
`StopOutside` is one while the generator is suspended at a yield: its `finally` is
left to `Finalize`, which may come during a later turn and replaces the history
then. `StopHandler` and `NoteInterruption` are `_handle_interruption`.

* Run `agent_turn`: two prompts, a notification, two replies with up to two calls,
  two stops, one compaction, a user budget of 2 (1.5 million states). Two calls are
  enough for a batch and a barrier, two stops for one to interrupt the handling of
  the other, two replies for results to be carried over a compaction.
* `WireContract` and `InStep`: what is sent is well formed, and the list to be sent
  (`Sent`) and the history agree, except in `summarized`, while the list to be sent is
  being made of the history. `UsersInOrder` and `KeptUnlessStopped`: users' messages come in
  order, and each way to lose one is named (a stop, a late finalizer, a rewind, the
  compaction's budget, a text that the tail has: `Repeated`). `RewindForgetsAligned` is the promise of `/rewind` where
  history and transcript are aligned (see section 16). `QueueIsServed` is liveness.
* A compaction takes the tail of the history before it awaits the summary and reads
  the history again after it (`mixin.py:339`, `:483`). A finalizer that comes in
  between leaves a tail of one history behind the users of another, possibly older
  ones behind newer ones. `mixed` remembers it, and `UsersInOrder` and
  `RewindForgetsAligned` except it. The bounds of the run do not reach it: the proof
  did not go through without it, and TLC then found it with another notification.
* Fairness is weak fairness of the loop's work and of the finalizer. It is written
  out with `Busy` in place of ENABLED, which spares the sanitizer at every state;
  `Busy` is when `Work` can step.
* `FreshIds = TRUE`: the provider names its calls. With `FALSE` the ids are
  `call_0, call_1, ...` again in each step (`stream_loop.py:127`), and `WireContract`
  fails; no document promises it for such a provider, so no run states it, and
  `WireContractHolds` is proved for the other kind only (`ASSUME FreshIds`).
* Proved (`AgentTurnProofs`), for every bound and either kind of provider:
  `InStepHolds` (inductive as it stands, one case per action) and `BarrierHolds`;
  `UsersInOrderHolds`, `KeptUnlessStoppedHolds` and `RewindForgetsAlignedHolds`.
* `OrderInv` carries the last three. That the request is in order is not inductive: a
  finalizer can make any abandoned list the history, the next turn makes the history
  the request, and every message that waits will be appended. So `ListsSettled` says
  that the history, the request and each abandoned list are in order and ahead of
  everything that waits, `QueuesOrdered` that the prompt, the drained messages and the
  queue are in order, `TailFits` that a compaction's tail is the end of the history
  unless a finalizer replaced it, and `PhaseFits` which of them are empty when. A
  step then needs only what each function does to a list (`Sanitized`, `Kept`,
  `CompactedIs`, `RewoundIs`): keep the order, add nobody. `KeptUnlessStopped` adds
  that within the budget a compaction loses nobody but `Repeated`, that the list it makes is that of the history of now
  unless a finalizer replaced it (`SummedFits`), and that the two lists still agree
  while the turn closes (`ClosesInStep`). `RewindForgetsAligned` adds that the visible
  turns rise and are before what waits (`VisibleSettled`); the cut itself
  (`RewindAligned`) is a pigeonhole: behind it are as many turns in the history as in
  the view, so one kept too many would need two of them to be the same turn.
* Proved too, for every bound and a provider that names its calls: `WireContractHolds`.
  The contract of one request says nothing of the list it is made from, so `WireInv`
  asks more of every list that can become the request (`ListsWithin`): no id is called
  twice, the results of a call stand together behind it in its order (`Tidy`), and no
  id is above the last one named. The request itself is `Wired` (`RequestWired`), or,
  while a step's calls run, wired up to the step's message and the results it has so
  far (`OpenedWired`); the history is open in the same way, unless a finalizer has
  brought one that does not know the step's ids. The step's new ids are above all
  that is known, which is where `FreshIds` is used. A sanitized list is wired again
  (`SanitizedWired`), by induction over what the sanitizer has made of the first
  messages; a filter that drops neither callers nor results keeps a list tidy
  (`FilteredTidy`), which a rewind and a compaction need.

## 5. MessageFlow and Mailbox

The event loop is modelled as asyncio has it: `ready` is the FIFO of tasks made and
not yet started, a step runs from one suspension to the next, and input,
notifications and completed waits may come between any two. A turn is a Textual
worker: adding one to the exclusive group cancels the others (`AddWorker`), and one
cancelled before its first step never runs its body (`WorkerNeverRuns`). These two
facts about libraries are marked external.

A message goes `new` (not there) -> `open` -> an outcome: `sent`, `ran`,
`compacted`, `stopped`, `refused`, `lost` (its worker never ran), `discarded` (by
`/new`). `SubmitPrompt`, `SubmitCommand` and `ShellNotify` are the three ways in,
with the three different guards the code has; `QueuedYields` and `QueuedDispatches`
are `process_queued_message` before and after its `sleep(0)`; `TurnEnds`, `SaveEnds`
and `SaveCut` are the `finally` block of `generate_ai_response` around its await;
`NewStarts` and `NewResets` are `/new` before and after its awaits; `Chosen` is a choice
in the screen of `/resume`, `/rewind` or `/fork`, which cancels, waits and resets in the
same way; `NewInsists` is the limit of two seconds on the wait, at which `wait_for`
cancels the worker once more. `queue` has no session ids: messages are queued for the
current session, and all four commands clear it.

`Mailbox` is what all this amounts to: a line of messages, a set in hand, and an
outcome for each; a message is accepted once, the oldest is taken up, one may be
put back at the end, a message in hand is settled once and as its kind allows, and
the line may be emptied by the turn that runs or by `/new`.

* Run `message_flow`: one message of each kind, two Esc, one `/new` or choice (142
  thousand states). One message of each kind is enough for each pair of tasks to meet; two
  Esc let the second find the first one's `finally`.
* `Placed`: a message that is open is in exactly one of queue, tasks and running
  compactions, once. `OneTurn`: two turns never run at once, and the flag is set
  while one does; excused only when `/new` or a choice reset it under a turn
  (`carried`).
  `Settles` (liveness): whatever was accepted is settled, unless the chain of
  poppers broke in one of three named places (`ChainBroken`). `ImplementsMailbox`:
  the refinement, with `waiting <- queue` and `inHand <- TaskMessages \cup Compacting`.
* Run `message_flow_stuck` refutes `FlagReleased`: an Esc during the final save
  leaves `is_generating` set.
* Fairness: the loop runs what is ready and every wait ends. Typing, Esc and the
  draining of the queue by a turn are free.
* Proved (`MessageFlowProofs`): `TypeCorrect`, `PlacedHolds`, `OneTurnHolds`, for
  every set of messages. The inductive invariant `IInv` adds to the properties:
  `Jobs` (what a task in `ready` says about its message and its worker), `Kinds`
  (only `/compact` has a compaction, and it has no worker) and `Alone`, which is
  `OneTurn` extended to workers that will start and are not cancelled: without it
  two pending workers could start one after the other. Lemmas on `Clean` say what
  appending to and popping from two sequences without repetition do.
* Proved (in the same module): `FlowIsMailbox`, `Spec => ImplementsMailbox`. By
  `Placed`, what is in hand is what is open and not queued (`Hand`), so each
  action's effect on the hand follows from its effect on `queue` and `outcome`, and
  its tasks need not be looked at. One more invariant is needed, `NoShellWorkers`: a
  `!` command has no worker, or it could end as a turn does.
* Only model-checked: `Settles`.

## 6. SessionHistory

`agent.history`, the store's `agent_history`, an entry of the sanitize cache and the
data of a save under way may be one list object. The model therefore has a heap:
`heap[l]` is the contents of list `l`, variables hold identities, `Fresh` is a new
list and `Become` empties those nobody refers to, as reference counting does. A
message stands for a prompt with its answer, a `!` command with its output, or an
interruption note. What a message says is the constant operator `Text`, as in section 4:
the cache finds an entry by the texts of its messages (`Entry`;
`history_cache.py:86-113`), whoever said them, and a save does not replace the stored
list by one that compares equal (`Replacing`; `session_service.py:242`). An entry's key
keeps the messages themselves only to tell when the cache took one context for another
(`Mistaken`). In the run the second and the third message say the same, and so do all
notes (`MCText`), so a prompt can be sent again in a fork or after a rewind; the proofs
assume nothing of `Text`.

`TurnStarts` and `TurnEnds` are the two calls of `sanitize_history_cached`, which
returns the cached list itself; `ShellEnds` and `TurnStops` append in place;
`SaveCollects` runs on the loop and copies the messages but not the history;
`SaveWrites` runs in a thread and looks up the current session again; `NewSession`
empties `agent.history` in place; `Resume` takes the session in memory first, when it
has messages or a history (`session_store.py:255`), and hands out its list; `Rewind` cuts transcript and history by their two index spaces;
`ChooseFork` cuts the history and leaves the fork to be made by the next input
(`Forks`, in `TurnStarts` and `ShellStarts`), which copies what the store has of the
parent; `Crash` and `Quit` start a new process.

* Run `session_history`: nine lists (more than can be in use at once), four
  messages, three sessions, one save besides those of a quit and of a fork, two
  commands, a cache of two (2.6 million states). Two commands reach each pair of new,
  resume, rewind, fork and restart; the fourth message is the note of a turn whose
  prompt, the third, repeats the second; a cache of two evicts.
* `Isolated`: nothing said in one session is in another one's context, store, file
  or transcript, but for what a fork has from its ancestors. `InOrder`: no message is
  repeated or out of order in any list in use. `ContextKept`: a resumed session has at
  least what its file holds, and a save takes no prompt from the context in the file
  that the session still shows.
* Excuses: `damaged` collects the sessions touched by a race that the code has and
  that would break these at once: a `!` command that ends in another session than it
  began in, or is appended to a list that another session has in the store or can find
  in the cache (`Keepers`); a context that the cache took for another one with the same
  texts (`Taken`), and everybody who keeps the list to which a stopped turn's note is
  then appended; a save that ends in another session or after newer events; a
  session resumed before its save was written; a list emptied in place that the store, a
  save or the cache still refers to; a cut of a history that is not the tail of the view (`Misaligned`); a fork chosen
  and not made (`CutShort`). A fork of a damaged session is damaged. The properties
  hold for all others.
* Safety only; no fairness is assumed.
* Proved (`SessionHistoryProofs`), for any number of sessions, messages, commands and
  cache entries: `InOrderHolds`, `IsolatedHolds` and `ContextKeptHolds`. First the types, of which the room
  for new lists is one: the lists in use are counted (`UsedCount`), so `Fresh` finds one
  (`FreshOne`). `HistoryInv` adds that every list, file, key and transcript holds
  messages that were said (`Told`), and every context is in order and without the
  running command's message (`Orderly`), which is why that message may go to the end.
  `ApartInv` says that all a session outside `damaged` has is its own (`Apart(s)`), and
  of the cache that what is found by a key of its own is its own. A cached list is
  shared by whoever has the same context, so `TurnNew` is needed: a turn under way
  holds a message no key of the cache has, so the list it ends with is new unless the
  cache mistakes it for another, and then the session is in `damaged`.
* The proof corrected the model twice. `Keepers` had missed sessions that find the
  list by their own context, through a cache entry made by an ancestor; and a late save
  can shorten a transcript below the point a fork was chosen at, which the code answers
  with the whole transcript (`KeptTranscript`).
* `ContextInv`, for `ContextKept`, adds a chain for every session outside `damaged`:
  what the file holds is a beginning of the stored list (`FileKept`), the prompts of
  that list that are shown are in the context (`StoreKept`), those of the file that a
  save shows are in what it writes, and those of what it writes that are shown are in
  the context (`SaveKept`). `TurnKept` and `CacheKept` carry the context through turns
  and the cache. The hard step is a cut: `/rewind` counts in what is shown and cuts the
  context, so the proof needs that each message is shown once (`ShownInv`) and that the
  visible messages of the context are the last ones shown, which is what `Misaligned`
  excuses (`CutSame`, by `VisibleSteps`, an induction over the context).
* The time of saves (1.5 s debounce) is abstracted: any save may not take place.
  `Writes` may leave the file alone only when nothing that is modelled changed.

## 7. Transcript

A message is a kind, the call it shows if it is a tool's, and an end (the result,
the duration of a thought, the text of a reply, or none yet). `AddReply`,
`AddThought`, `AddReset`, `AddCall`, `AddResult` and `AddDivider` are the branches of
`add_event`, each a function from a transcript and its pointer to the next; a turn
(`Submit` to `TurnEnds`) sends the events in the orders the engine can send them;
`Interrupted` is `Finalize` repeated over the transcript backwards, as
`_finalize_open_messages` does; `Rewind` cuts and leaves the pointer; `Reload` is a
session read from its file with a fresh pointer. A `!` command starts while nothing
runs (`ShellStart`, the user's event) and ends whenever it ends, in a later turn too
(`ShellEnds`); its result is an event like a call's and goes through `AddResult`.

* Run `transcript`: three calls, batches of up to three, one `!` command, at most
  seven messages (9 million states), with symmetry over the calls, which no property
  tells apart. Three calls are the fewest of which an interruption closes some and
  leaves some; seven messages hold two turns with a batch, or a turn with a batch
  beside a command.
* `OpenIsRunning`: what is shown without a result is what runs, in the order
  announced. `Paired`: a call shows its own result although results are matched by
  order, and what is no call shows a command's. `ResultsStay`: a stored result is never
  changed. Exceptions of the first two: `torn`, an interruption that left a call open,
  `ahead`, a rewind behind the pointer, and `crossed`, a command that ended while a
  call was open (section 16).
* Proved (`SessionProofs`), for any calls, batches and lengths: `OpenIsRunningHolds`,
  `PairedHolds`, `ResultsStayHolds`. The two invariants are not inductive: a result goes
  to the first open call behind the pointer, so one needs to know where both are.
  `TranscriptInv` adds that (`CallsInOrder`), while the exceptions have not happened: the
  open calls are the last messages, as many as run and the same calls (`AtEnd`), and the
  pointer is at a call, or before a command's result, ahead of all of them (`Behind`). It was checked on the run's
  instance before it was proved. `Follows(t, u)` is what every add has in common:
  messages are only added, closed calls stay as they are, `Good` is kept; it is
  transitive, and `InterruptedFollows` takes it through the steps of an interruption by
  `SetInduction`. `ResultsStay` needs the types alone and holds after the exceptions too.
* Safety only.

## 8. Subagent

One action is a stretch of a task between two awaits, or the work of one thread. The
parent's tools run one at a time (that is `AgentTurn`'s `Barrier`: none of them is
concurrency-safe), so `tool` is one variable; each subagent has a task (`pc`), a
cancellation not yet delivered, a queue, and a worktree that a thread of the tool
attaches and a thread of the task's cleanup removes. `Kill` has the two branches of
`kill_subagent`, with and without a live task; `CancelAll` is the session being left.

* Run `subagent`: two subagents, one isolated in a worktree, two follow-ups, a limit
  of one. Two subagents make the limit bite; one follow-up sets a run up while a
  second is queued behind it.
* `StatusIsTrue`: "running" means a task or a call about to make one, and a stream
  that runs is "running". `WorktreePresent`: no stream works in a directory that is
  gone. `LimitOfSpawns`: the limit holds although it is read before awaits.
  `ParentHears` (liveness): a run comes to an end and is reported, unless it was
  killed. `QueuedIsDrained` (liveness): a queued follow-up is run or dropped with its
  run.
* Exceptions, each set where the code lets it happen: `orphans` (a task cancelled
  before its first step, a follow-up stopped during its save), `overtaken` and
  `undercut` (a kill while a follow-up sets the session up; a directory that a
  cancelled cleanup still removes), `late` (queued on a task that drains no more),
  `resumed` (follow-ups do not look at the limit).
* Fairness: the loop runs what is ready, and git and streams have timeouts. A stream
  that waits for a permission has none (`interaction_service.py:66`): there the fairness
  is that of a user who answers. Nobody has to spawn, write, stop or kill.
* Proved (`BackgroundProofs`), for any number of subagents and messages and any
  limit: `StatusesAreTrue`, `WorktreesArePresent`, `SpawnsAreLimited`. The invariant
  says of each subagent what the tool call that has looked at it still knows after its
  awaits (`ToolKnows`), what the place of its task says of its status (`StatusFits`) and
  who may still add or remove its directory (`TreeFits`): a thread that removes it
  under a working task is `undercut`. The limit needs that a spawn past its check
  has still room for one (`Limited`); that rests on the parent's tools running one at
  a time, and on lemmas about the cardinality of the active ones.
* Only model-checked: `ParentHears`, `QueuedIsDrained`.

## 9. ShellTask

One command in one of three modes (no `wait_seconds`, N, 0) and of one of three
shapes: plain, leaving a child behind that holds the pipe, or closing its output
before it exits. The call (`execute`, `_run_sync`), the reader, the watcher of the
hard limit, a kill in its own task, Ctrl+B and Esc are actions; a time limit may be
reached at any time. `terminate_process_tree` is two steps around its await.

* Run `shell_task`: every mode with every shape.
* `ReportedTruly`: "completed" is said of a command that exited with 0 and was neither
  killed nor timed out. `ReportedOnce`: a result or a promise, never a result and a
  notification. `StoppedIsDead` and `PromiseKept` (liveness): what was stopped dies;
  what was promised is announced.
* Exceptions: `unreaped` (the reader ended without an exit code), `anonymous` (the
  notification does not find its task and says "completed"), `crossed` (Ctrl+B during
  the last stretch of a call), `missed` (the reader ended before the promise), and a
  child that outlives its shell with the pipe open.
* Fairness: the loop, the reader, the watcher and terminations proceed; a command
  need not exit.
* Proved (`BackgroundProofs`), for every mode and shape: `EndsAreReportedTruly`,
  `EndsAreReportedOnce`. The invariant ties the marks to the process (`Marked`), the
  terminal status to the reader's last step or to a kill (`ShellStatusFits`), the
  notification to that status (`NotificationFits`), and says that a call past its wait
  is in the background only if a Ctrl+B crossed it (`CallFits`).
* Only model-checked: `StoppedIsDead`, `PromiseKept`.

## 10. McpPool and McpCalls

A client object is registered before its process starts, and stays so while its
handshake runs; `stop_all` raises the generation and drops the locks; a disable runs
in a thread and deletes by name after its waits. Attempts (`load_server_tools_async`,
`Begin` to `Dropped`), the disable's thread (`toggle`) and a call that restarts a
dead server (`call`) are small programs over the registry. Requests and answers
count only for whether the server passes the handshake.

* Run `mcp_pool`: two attempts, of which one is the manager's warm-up, two clients,
  one `stop_all`. Two attempts meet in one generation, or one in each.
* `SharedProcess`: of the clients one generation asked for, one at most has a
  process. `Handled`: a live process belongs to the registered client or to one that
  somebody still handles. `StopsAll` (liveness): a client asked for before a
  `stop_all` comes down.
* Exceptions: `strays`, clients deleted by name or restarted outside the registry.
  `loose` records a process that no client refers to.
* Proved (`McpPoolProofs`), for any number of attempts, clients and generations:
  `ProcessesAreShared`, `ProcessesAreHandled`. A generation's start lock has one holder
  (`Exclusive`); `Owns(a)` says for each point of an attempt's program whether its
  client is still registered, being torn down or dead, and `Answered(c)` that somebody
  answers for each process. A stale attempt is told from a present one by its
  generation alone, which is why each clause of `Owns` is about the present one.
* Only model-checked: `StopsAll`.

`McpCalls` is the inside of one client. A call (`call_tool_async`) is a program:
`Begin`; `StartEnters`, `Spawned` or `SpawnFails` when the server is not there
(`start_async` under `_start_lock`); `Locked` and `Register` under `_call_lock`, which
is held until `Acked` or `AckTimesOut`; `Answered`, `NoAnswer` or `Cancel`. The handshake
goes the same way with the kind "init" and ends in `GivesUp`, the whole of `stop()`, when
it fails. Both locks are asyncio's: a queue whose head holds it. `WriterWrites` is the
writer's thread, `ThreadReads` and `ThreadEnds` the reader's threads, `ReaderReads` and
`ReaderDies` the task they feed. `PoolStops`, `PoolKills` and `PoolStopped` are `stop()`
in a thread of the pool. `exited` and `closed` are told apart because a child of the
server, such as `npx` starts, keeps its pipes open. `unread`, `leaked` and `crossed` are
history variables that only properties read.

* Run `mcp_calls`: two calls, two processes, one `stop()` (253 thousand states). Two
  calls meet at both locks and one restarts the server under the other; the second
  process is the one an answer may come too late for. Three processes and two
  `stop()` (805 thousand) were checked as well.
* `Matched`: whoever waits gets the answer to its own request, and what is registered
  belongs to a request in flight. `Heard`: a call never waits for an answer that lies in
  the running server's pipe and that nobody will read. `Returns` (liveness): every call
  comes back, whatever the server, its pipes, `stop()` and the other calls do.
* Exceptions: `leaked`, a handshake cancelled while it was written, stays registered;
  of `Heard`, a thread that reads an older process's pipe, `unread`, a reader that
  ended between the look at it and the call lock, and `crossed`, a start
  inside a `stop()`. The model checker finds a counterexample without each of them.
* Fairness: the loop takes the steps that are ready, Popen returns, and the time
  limits come. Neither server nor writer has to do anything: a server that reads
  nothing blocks the writer for ever.
* Proved (`OutboundProofs`), for any number of calls and processes: `AnswersAreMatched`,
  `ServersAreHeard`. For the first, `Flying(r)` collects the places a request or its
  answer can be in, on its way there, back or kept by a call; requests that fly have
  ids of their own (`Numbered`), so an answer with the id of a future is the
  answer to its request (`Owned`, `Future`). For the second, whoever starts the server or
  shakes hands is the head of the start lock (`Locks`), an open future has a reader or
  is in `unread` (`Open`), and a reader has a thread that feeds it or the end of the
  pipe in its queue (`Fed`).
* Only model-checked: `Returns`.

## 11. SessionLock

Several processes on one project. An action is what a process does between two
system calls that another can notice: the kernel's lock (`holder`) and the sidecar
(`meta`) are different variables, written in the order of `SessionLock.acquire`.
`Look` and `ProbeEnds` are the list of sessions, `Select` and `SelectReadOnly` a choice
from it, `StealLooks`, `StealKills` and `StealTakes` a theft, `Signs` the sidecar,
`SwitchLoads` and `SwitchTakes` the session being shown, `NewBegins` and `NewEnds` the
two halves of `/new` around its awaits; `Save`, `Exit` and `Dies` may come in between.
`inMemory` is `SessionStore._sessions`, which nothing but a deletion takes a session out
of: `base` is the version a process has of each, and opening a session again does not
read its file again. `refused` and `exposed` collect the processes and sessions for
which the code does not keep the promise (section 16).

* Run `session_lock`: three processes, one session, three saves, with symmetry over
  the processes. Three let a thief be robbed while the first owner dies.
* `WriterHolds`: who can save holds the lock, and the sidecar names it.
  `UpdatesKept`: no save overwrites one it has not read.
* Proved (`SessionProofs`), for any number of processes and sessions:
  `TypeCorrect` (a lock a store has listed is the kernel's) and `LockHeldByWriter`.
  The inductive invariant is `TypeOK` with `Sound(p)` for every process, which says
  for each point of a process's program what it holds and has written so far;
  `Undisturbed` and `Blank` say that a step of one process leaves `Sound` of the
  others alone, and are used in every case.
* Proved as well: `UpdatesAreKept`, for any number of saves. `UpToDate(q)` says that the
  version a process has is never newer than the session's and is the latest if the
  process has locked the session, unless the session is `exposed`, which it becomes when
  it is saved without its lock or locked with an old version. A save by another
  process needs its lock or exposes the session, and `LocksOK` gives the lock to one.

## 12. Checkpoints

A file's content is who wrote it and when. Git runs one operation at a time under
the project's lock, so an operation is one step; tasks made by rewinds are a queue
(`tasks`), each of which restores and then purges. `Submit` to `FinalizeRuns` are a
turn: the barrier, the snapshot at the index of the last visible message, edits by
tools and by the user, and the count of touched files. `Rewind` drops events and adds a
task, selective when every dropped turn has a count, a full restore otherwise.

* Run `checkpoints`: two files with symmetry, four messages, two edits, two rewinds,
  one Esc, one failure of git (9.0 million states). Two rewinds chain, and the
  second may go behind the first; two files let one be left alone.
* `Undone`: no change of a turn rewound with its code is in the workspace, or, when
  the chain is done, in a checkpoint a later rewind can choose. `OthersKept`: a
  selective restore leaves other files alone. Exceptions: turns whose own checkpoint or count
  failed or whose count missed the old name of a moved file (`sound`), messages that
  are not shown, checkpoints a purge failed to drop (`stale`), and what follows the
  restore of such a one or an Esc that cut a task (`cut`).
* What git may fail at: a snapshot, a count, a restore, which may have restored some
  files or, when it cannot list the checkpoint's, removes those it was to restore, and a
  purge, which may drop some checkpoints and keep others. `Listings` is git's detection
  of renames: next to every name a count leaves out is one that it lists.
* `UserEdits` are also the writes no turn counts as its own: those of a shell in the
  background and of the thread of a cancelled tool. They belong to nobody's turn, so
  `Undone` claims nothing of them.
* The turn of a message that is not shown replaces the checkpoint of the last one that
  is (section 16).
* Proved (`CheckpointsProofs`), for any number of files, messages, edits, rewinds,
  failures and Escs: `UndoneHolds`, `OthersKeptHolds`. `IInv` is `Good`, until an Esc has
  cut a task of git or a stale checkpoint was restored. `Good` follows every content of a file to the turn that wrote it:
  if that turn is an event whose checkpoint and count succeeded, it has not been
  counted yet or counts the file (`WorkCounted`, `RefsCounted`); if a waiting rewind drops
  it, the rewind's files name the file (`DropsFit`), so its restore takes the change
  away. The restore brings no other lost change back, because its checkpoint is there
  when its task comes (`PendingIsSaved`) and holds nothing of what it or a rewind before it
  undoes, unless a purge before it takes that checkpoint (`RefsClean`). For the rewinds to
  come, the checkpoint of every sound turn is saved, outlives the purges that wait,
  and is older than the turn or than a hidden one after it (`SoundIsSaved`, `LaterIsLater`).
  Indexes count the messages shown: `Rank` is a cardinality, and lemmas give
  that it grows by one with a message that is shown, that it reaches every number
  below it and that it depends on nothing else of the events.
* Nothing is stated of what must happen: git may never answer.

## 13. Runs

| Run | Expected | Shows |
|---|---|---|
| `breaker` | pass | half-open probe, fresh trips, quiet cooldown, recovery |
| `agent_turn` | pass | what is sent is well formed, in order, complete |
| `message_flow` | pass | one place, one turn, queue served, a mailbox |
| `message_flow_stuck` | violation | the flag is left set |
| `session_history` | pass | isolation, order, context kept |
| `transcript` | pass | results and calls matched by order belong together |
| `subagent` | pass | true statuses, directories, limit, ends reported, queue drained |
| `shell_task` | pass | true reports, once, dead when stopped, promises kept |
| `mcp_pool` | pass | one process, none forgotten, all stopped |
| `mcp_calls` | pass | answers to who asked, a server heard, every call back |
| `session_lock` | pass | who saves holds the lock, no save is overwritten |
| `checkpoints` | pass | what was undone stays undone, other files kept |

The breaker's streams start over for ever and its run checks deadlock. The
other runs are bounded by counters (messages, stops, commands, saves), so they
come to a stop by design and say `CHECK_DEADLOCK FALSE`. For each property of a
passing run `PROJECT.json` names a mutant, a plausible bug in one definition, under
which TLC finds the property violated. Symmetry is used in runs without liveness
only, over values that no definition tells apart.

## 14. Proofs

All proofs are of the modules' `Spec` (`ShellSpec`, `TranscriptSpec`), none uses its
fairness, and they assume only the named assumptions on the constants in each module
(`...Assumption`), which TLC evaluates in the runs, and `WireContractHolds` in
addition `FreshIds`, as that run does.
Every invariant proved was first model-checked on the instance of its run.

| Theorem | Property | Inductive argument |
|---|---|---|
| `OutboundProofs!TypeCorrect` | types and retry budget | by itself |
| `OutboundProofs!SingleProbeHolds` | `SingleProbe` | with the types; count tied to the slot flag |
| `OutboundProofs!CooldownHolds` | `CooldownIsQuiet` | with `StampIsTrip`: while open, `_opened_at` is the latest trip's stamp |
| `OutboundProofs!TripsHold` | `TripsOnFreshFailures` | `Fresh`: what is counted has failed since the last success |
| `AgentTurnProofs!InStepHolds` | `InStep` | inductive as stated, with `Sent` while a compaction ends |
| `AgentTurnProofs!BarrierHolds` | `Barrier` | batches are cut before and after an unsafe call |
| `AgentTurnProofs!UsersInOrderHolds` | `UsersInOrder` | `OrderInv`: every list that can become the request is ahead of what waits |
| `AgentTurnProofs!KeptUnlessStoppedHolds` | `KeptUnlessStopped` | with `InStep`, `ClosesInStep` and `SummedFits`; by text `Repeated` |
| `AgentTurnProofs!RewindForgetsAlignedHolds` | `RewindForgetsAligned` | with `VisibleSettled`; the cut by pigeonhole |
| `AgentTurnProofs!WireContractHolds` | `WireContract` | `WireInv`: tidy lists, ids below those to come; needs `FreshIds` |
| `MessageFlowProofs!TypeCorrect`, `PlacedHolds`, `OneTurnHolds` | types, `Placed`, `OneTurn` | `IInv` of section 5 |
| `MessageFlowProofs!FlowIsMailbox` | `ImplementsMailbox` | `IInv`, `NoShellWorkers`, the hand as open and not queued |
| `SessionProofs!TypeCorrect`, `LockHeldByWriter` | types, `WriterHolds` | `TypeOK` and `Sound(p)` for each process |
| `SessionProofs!UpdatesAreKept` | `UpdatesKept` | with that, `UpToDate(q)` for each process |
| `SessionProofs!OpenIsRunningHolds`, `PairedHolds` | `OpenIsRunning`, `Paired` | open calls last, the pointer before them |
| `SessionProofs!ResultsStayHolds` | `ResultsStay` | every add only adds, the interruption by induction |
| `BackgroundProofs!StatusesAreTrue`, `WorktreesArePresent` | `StatusIsTrue`, `WorktreePresent` | `Fits(s)` for each subagent |
| `BackgroundProofs!SpawnsAreLimited` | `LimitOfSpawns` | room for a spawn past its check |
| `BackgroundProofs!EndsAreReportedTruly`, `EndsAreReportedOnce` | `ReportedTruly`, `ReportedOnce` | status and notification fit the reader and the kills |
| `McpPoolProofs!ProcessesAreShared`, `ProcessesAreHandled` | `SharedProcess`, `Handled` | `Owns(a)`, one holder of a start lock |
| `OutboundProofs!AnswersAreMatched` | `Matched` | requests that fly have ids of their own |
| `OutboundProofs!ServersAreHeard` | `Heard` | start lock, reader fed, futures open only with a reader |
| `SessionHistoryProofs!InOrderHolds` | `InOrder` | `HistoryInv`: types with room for new lists, all told, all in order |
| `SessionHistoryProofs!IsolatedHolds` | `Isolated` | `ApartInv`: what a session has is its own, and what the cache finds by messages of its own |
| `SessionHistoryProofs!ContextKeptHolds` | `ContextKept` | `ContextInv`: from the file to the store, a save and the context |
| `CheckpointsProofs!UndoneHolds`, `OthersKeptHolds` | `Undone`, `OthersKept` | whose each content is, and which task will remove it |

What stays with TLC, and why:

* Liveness and everything under fairness (`RecoversUnlessDropped`, `Settles`,
  `ParentHears`, `QueuedIsDrained`, `StoppedIsDead`, `PromiseKept`, `StopsAll`,
  `Returns` and the like).
* Induction over data in the library's own form. Induction over numbers is at hand as
  a fact about sets (`SetInduction`), which is enough for the recursive functions of a
  model (`Count`, the interruption of a transcript) and for `FlattenSeq`, a function
  chosen by its recursive equation (`FlattenIsJoin`). `SelectSeq` and the folds over
  sets are not in reach, so `WireHistory` and `SessionHistory` filter with
  `FlattenSeq`.

## 15. Limits

* Not modelled: what texts say (in `WireHistory` and `SessionHistory`, which of them are
  equal is) and token counts, provider protocols, permissions, settings,
  rendering, the headless command, git worktrees (their outcomes are in `Subagent`
  and `Checkpoints`).
* `MessageFlow`: two of the commands that leave the view at once, messages bound to
  another session. `SessionHistory`: compaction; nobody types while a session
  is being switched. `SessionLock`: the fork that is written with its first message, a
  thief's own momentary probe, a holder that survives SIGTERM for a while.
  `ShellTask`: output, logs, reminders of idleness, the table of finished tasks.
  `McpPool` and `McpCalls`: the SSE transport, the synchronous paths, the server's own
  requests and notifications, and the tool catalogue. `Checkpoints`: nested
  repositories, ignored and large files, and names that are patterns (a restore of
  `f[1].txt` also restores `f1.txt`: `git_checkpoint_restore.py:77`).
* A background notification may start a turn while `/compact` rewrites the history
  (`message_flow_background.py:274`): reachable in `MessageFlow`, which has no history
  to tell the difference.
* A save dropped by the 1.5 s debounce (`session_service.py:307`) only delays what
  reaches the file; `SessionHistory` lets any save be left out. `WireHistory`: messages
  with an empty text, which a compaction never takes for equal.

## 16. Where the code and its words part

Each of these is a transition of a model; where a property would fail, its exception
names it.

* Breaker: a cancelled probe keeps the half-open slot (`stream_loop.py:209`), so the
  provider is refused until a reset (`dropped`).
* Turn loop: after a compaction whose tail begins with stray results a rewind keeps
  the turn it should remove (`mixin.py:237` against `rewind.py:206`). A stopped turn's
  finalizer during a compaction mixes two histories (`mixin.py:339`, `:483`; `mixed`).
  A compaction drops an earlier user message that says what some message of the tail
  says, a repeated "continue" for one (`mixin.py:488-493`, "Avoid duplicate user messages
  that are already in recent_tail"; `Repeated`). A stop at the dividers of a compaction
  leaves the generator with the list from before it, so its finalizer undoes the
  compaction (`turn_execution.py:205`, `stream_loop.py:431`). Call ids repeat
  between steps for a provider without ids (`stream_loop.py:127`).
* Message flow: a queued `!` or `/compact` is drained into the running turn as text
  (`message_queue.py:56`; `tests/ui/test_message_flow.py:305` expects a command). A message
  popped before `/new` is sent in the new session (`message_flow_queue.py:65`). An Esc
  during the final save leaves `is_generating` set (finding).
* Sessions: `/new` empties a list the store has kept, so a `/resume` has no context
  (`session_service.py:243`, `agent.py:178`). The cache hands out the list it keeps, so
  a rewound `!` output is sent again (`history_cache.py:131`, `shell_executor.py:115`),
  and a fork whose context is again the one its parent had gets the parent's list with
  the `!` outputs appended to it since. It knows texts only (`history_cache.py:86-113`):
  a fork whose prompt repeats the parent's and is stopped gets the list the parent has
  in the store, and the note of the interruption is appended to both
  (`engine.py:433`); a rewound prompt that is sent again brings back the note of its
  first time; after `/new` has emptied a cached list, the same prompt with the same
  answer ends with an empty context (`Mistaken`).
  A fork that is chosen and not made leaves the parent with the cut context, and the
  next save writes it (`session_commands.py:536`). A fork of the current state goes on
  with the list its parent has in the store, and a `!` output is appended to both.
  While a `!` command runs, or when its output was lost to a turn, `/rewind` and `/fork`
  cut more of the context than the view (`rewind.py:212` takes the last turns to "map
  1:1"). `/resume` of a session whose save is under way has the context before it.
* Transcript: of k announced calls an interruption closes half, rounded up
  (`session_interruption.py:53`; `:50` says "Finalize any in-flight"), and the next
  turn's results are shifted (`torn`). After a rewind behind the pointer new calls
  stay open and their results become messages of their own (`ahead`). A `!` command
  that ends while calls run gives its output to the first of them
  (`session_coalescer.py:59`, `shell_executor.py:99`), the calls' own results move on by
  one and the last becomes a message of its own, with that call's id on another
  (`crossed`; `session_coalescer.py:107`: "so a tool/result pairing survives across
  replays"). A reset after a thought becomes a message of its own.
* Subagents: a task cancelled before its first step stays "running" until it is
  killed again (`stream_runner.py:161`); a follow-up queued during the cleanup waits
  for the next one (`stream_runner.py:183`); a kill during a follow-up's save is
  overtaken (`stream_followup.py:103`).
* Shell: `terminate_process_tree` returns at once when the shell has exited
  (`process.py:122`), so neither the "hard kill limit" (`shell.py:154`) nor a kill ends
  a child that holds the pipe. A notification whose task was rewound says
  "completed".
* MCP: a cancellation or a time limit during Popen's thread leaves a process nobody
  refers to (`process_lifecycle.py:112`; `client_pool.py:135` says "never orphan the
  spawned subprocess"). A disable may delete a newer client.
* MCP requests: a server restarted while a child of the old one keeps its pipe is
  not read, as the old thread is alive (`process_transport.py:135`), and its handshake
  runs into its limit. The end of the old pipe, when it comes late, fails what the new
  server was asked (`process_transport.py:283`). A call cancelled in the handshake
  leaves a running server that was never initialised, and the next call finds it alive
  (`process_lifecycle.py:104`); other calls may be written before `initialize` is
  answered (`process_protocol.py:136`). "A cancelled call can never leave a dangling
  entry" (`process_protocol.py:153`), but a handshake in its write does (`leaked`:
  `process_transport.py:510` catches `Exception` only). A start inside a `stop()` loses
  the process (`crossed`).
* Locks: a session is read before its lock is acquired and a refusal is not looked
  at (`session_store_locks.py:30`, `session_service.py:60`): it is shown and saved next
  to its owner's. What a process has shown once it keeps in memory
  (`session_store.py:200`): a session left with `/new`, saved by another process and
  resumed is shown, locked and saved as it was, over the other's save (`exposed`). `/new`
  releases the lock before the last save. `steal` may read
  the sidecar of the holder before the present one; a sidecar stays after a release.
* Checkpoints: a hidden turn, such as a notification's, has the index of the last
  visible message and replaces its checkpoint with the files as that message's turn
  left them (`engine.py:187`, `git_checkpoint_ops.py:185`; `git_checkpoint.py:28` says
  "before each user message").
  "The restore itself is never cancelled" (`engine.py:156`), but an Esc at the barrier
  cancels the task it awaits: its thread goes on, the purge does not run (`cut`). A
  missing checkpoint or an error of git makes the count empty, so the turn is taken
  for one that touched nothing. A turn with text only has no count, so the next
  rewind is a full restore with `clean -fd`. A restore that fails is not reported; one
  whose `ls-tree` fails removes the files it should restore
  (`git_checkpoint_restore.py:66`). A moved file is counted under its new name
  (`git_checkpoint_ops.py:215`), so its old name does not come back. A purge that
  fails leaves the checkpoints of dropped turns to be chosen once a message has their
  index again (`git_checkpoint_restore.py:132`, `:161`; `:142` says why that must not
  happen; `stale`).
