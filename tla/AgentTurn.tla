----------------------------- MODULE AgentTurn -----------------------------
(***************************************************************************)
(* The agent turn loop of core/infrastructure/llm/base: stream_steps and   *)
(* the generators it drives (turn preparation, request attempts, tool      *)
(* execution, compaction), the message queue it drains, and what           *)
(* core/application/generation does to the history when the turn is        *)
(* stopped.                                                                *)
(*                                                                         *)
(* stream_steps is an async generator.  A stop (task.cancel()) finds it    *)
(* either inside one of its own awaits, so its `finally` runs at once, or  *)
(* suspended at a yield while the consumer awaits something else.  Then    *)
(* the consumer unwinds alone, and the event loop's generator finalizer    *)
(* runs the `finally` of the abandoned turn later.                         *)
(*                                                                         *)
(* msgs is the local list `messages` without its system prompt; history is *)
(* agent.history.  The request itself, its retries and the circuit breaker *)
(* are CircuitBreaker's; the memo of the sanitizer is taken to return what *)
(* the sanitizer returns.                                                  *)
(***************************************************************************)
EXTENDS WireHistory

CONSTANTS
  FreshIds,        \* the provider names its tool calls; else they are call_0, ...
  CompactLimit,    \* compactions in one turn (10 in the code)
  MaxUsers,        \* bound: user messages submitted
  MaxNotifications,\* bound: background notifications submitted
  MaxReplies,      \* bound: model responses
  MaxCalls,        \* bound: tool calls of one response
  MaxStops,        \* bound: task.cancel() calls
  MaxCompactions   \* bound: compactions attempted

ASSUME TurnAssumption ==
  /\ FreshIds \in BOOLEAN
  /\ {CompactLimit, MaxUsers, MaxNotifications, MaxReplies, MaxCalls,
      MaxStops, MaxCompactions} \subseteq Nat

VARIABLES
  history,    \* agent.history
  msgs,       \* messages[1:], while the loop runs
  queue,      \* pending messages: prompts and notifications
  drained,    \* taken from the queue, not yet in the history
  prompt,     \* user_text of the turn being prepared, in a sequence
  visible,    \* the user turns the UI shows
  phase,      \* where stream_steps is
  calls,      \* the tool calls of the step
  answered,   \* how many of them have their result in the history
  running,    \* the calls of the batch that have not returned
  tail,       \* recent_tail, while a compaction runs
  summed,     \* new_history sanitised, until stream_steps has it in its messages
  compacted,  \* _compacted_count_this_turn
  partial,    \* the stop found a partly streamed reply
  abandoned,  \* messages of turns whose finalizer has not run
  seen,       \* counters of the bounds
  overwritten,\* history: a finalizer replaced the history under a running turn
  mixed       \* history: a compaction's tail was put behind a history replaced meanwhile

lists   == <<history, msgs>>
step    == <<calls, answered, running>>
control == <<tail, summed, compacted, partial>>
ghosts  == <<overwritten, mixed>>
vars    == <<history, msgs, queue, drained, prompt, visible, phase, calls,
             answered, running, tail, summed, compacted, partial, abandoned, seen,
             overwritten, mixed>>

Phases == {"idle", "prep", "prepCompacting", "prepCollected", "prepared",
           "drain", "request", "replied", "announce", "running", "result",
           "compacting", "collected", "summarized", "compacted", "error",
           "closing", "stopped"}

\* The generator is inside one of its own awaits.
Awaiting == {"prep", "prepCompacting", "prepCollected", "prepared", "request",
             "running", "compacting", "collected", "summarized", "closing"}

\* The generator is suspended at a yield inside its try block.
Yielded == {"drain", "request", "replied", "announce", "result", "compacted",
            "error"}

\* The loop owns the history.
InLoop == Yielded \cup {"running", "compacting", "collected", "summarized"}

\* What the next request of the turn sends.  While a compaction ends, stream_steps
\* still holds the list from before it, and sends the new one.
Sent == IF phase \in {"summarized", "compacted"} THEN summed ELSE msgs

-----------------------------------------------------------------------------
Counters == [users : 0 .. MaxUsers, notes : 0 .. MaxNotifications,
             replies : 0 .. MaxReplies, ids : Nat, stops : 0 .. MaxStops,
             compactions : 0 .. MaxCompactions]

Message == [role : Roles, ref : Nat, calls : Seq(Nat)]

Init ==
  /\ history = <<>> /\ msgs = <<>>
  /\ queue = <<>> /\ drained = <<>> /\ prompt = <<>>
  /\ visible = <<>>
  /\ phase = "idle"
  /\ calls = <<>> /\ answered = 0 /\ running = {}
  /\ tail = <<>> /\ summed = <<>> /\ compacted = 0 /\ partial = FALSE
  /\ abandoned = <<>>
  /\ seen = [users |-> 0, notes |-> 0, replies |-> 0, ids |-> 0, stops |-> 0,
             compactions |-> 0]
  /\ overwritten = FALSE /\ mixed = FALSE

Counted(counter) == seen' = [seen EXCEPT ![counter] = @ + 1]

\* A user turn shows in the UI, a notification does not.
Shown(m) == IF m.role = "user" THEN Append(visible, m.ref) ELSE visible

-----------------------------------------------------------------------------
(* The host: the message queue and the start of a turn                     *)

Submit ==
  /\ seen.users < MaxUsers
  /\ Counted("users")
  /\ queue' = Append(queue, User(seen.users + 1))
  /\ UNCHANGED <<lists, drained, prompt, visible, phase, step, control,
                 abandoned, ghosts>>

\* A background task reports: a hidden message in the same queue.
Notify ==
  /\ seen.notes < MaxNotifications
  /\ Counted("notes")
  /\ queue' = Append(queue, Note(seen.notes + 1))
  /\ UNCHANGED <<lists, drained, prompt, visible, phase, step, control,
                 abandoned, ghosts>>

\* An idle host starts a turn with the first message that waits.
Begin ==
  /\ phase = "idle"
  /\ queue # <<>>
  /\ phase' = "prep"
  /\ prompt' = <<Head(queue)>>
  /\ queue' = Tail(queue)
  /\ visible' = Shown(Head(queue))
  /\ compacted' = 0
  /\ UNCHANGED <<lists, drained, step, tail, summed, partial, abandoned, seen,
                 ghosts>>

-----------------------------------------------------------------------------
(* _prepare_turn_context                                                   *)

\* The context is over the threshold at the start of the turn.
PrepCompact ==
  /\ phase = "prep"
  /\ Len(history) > 4
  /\ seen.compactions < MaxCompactions
  /\ Counted("compactions")
  /\ phase' = "prepCompacting"
  /\ tail' = RecentTail(history)
  /\ overwritten' = FALSE
  /\ UNCHANGED <<lists, queue, drained, prompt, visible, step, summed, compacted,
                 partial, abandoned, mixed>>

\* The summary has come: compact_history puts the new list together from the users
\* of the history of now and the tail of before, and awaits its sanitising.
Collect ==
  /\ phase \in {"prepCompacting", "compacting"}
  /\ phase' = IF phase = "compacting" THEN "collected" ELSE "prepCollected"
  /\ summed' = Compacted(history, tail)
  /\ mixed' = (mixed \/ overwritten)
  /\ UNCHANGED <<lists, queue, drained, prompt, visible, step, tail, compacted,
                 partial, abandoned, seen, overwritten>>

\* compact_history returns; a failure leaves the history as it is.
PrepCompacted ==
  /\ \/ phase = "prepCompacting" /\ history' = history
     \/ phase = "prepCollected" /\ history' = summed
  /\ phase' = "prepared"
  /\ tail' = <<>> /\ summed' = <<>>
  /\ UNCHANGED <<msgs, queue, drained, prompt, visible, step, compacted,
                 partial, abandoned, seen, ghosts>>

\* The top of the loop: the queue is emptied into `drained`, whose first message
\* is appended and yielded; with an empty queue the request starts.
LoopTop(h, ms) ==
  \/ /\ queue = <<>>
     /\ history' = h /\ msgs' = ms
     /\ phase' = "request"
     /\ UNCHANGED <<queue, drained, visible>>
  \/ /\ queue # <<>>
     /\ history' = Append(h, Head(queue)) /\ msgs' = Append(ms, Head(queue))
     /\ visible' = Shown(Head(queue))
     /\ drained' = Tail(queue)
     /\ queue' = <<>>
     /\ phase' = "drain"

\* The history is sanitised and the prompt is appended; the loop starts.
Prepare ==
  LET ms == Sanitize(history) \o prompt
  IN /\ phase \in {"prep", "prepared"}
     /\ LoopTop(ms, ms)
     /\ prompt' = <<>>
     /\ overwritten' = FALSE
     /\ UNCHANGED <<step, control, abandoned, seen, mixed>>

-----------------------------------------------------------------------------
(* stream_steps: the queue and the request                                 *)

\* Mutant: a drained message reaches the request but not agent.history.
DrainNext_msgsOnly ==
  /\ phase = "drain"
  /\ drained # <<>>
  /\ msgs' = Append(msgs, Head(drained))
  /\ visible' = Shown(Head(drained))
  /\ drained' = Tail(drained)
  /\ UNCHANGED <<history, queue, prompt, phase, step, control, abandoned, seen,
                 ghosts>>

DrainNext ==
  /\ phase = "drain"
  /\ drained # <<>>
  /\ history' = Append(history, Head(drained))
  /\ msgs' = Append(msgs, Head(drained))
  /\ visible' = Shown(Head(drained))
  /\ drained' = Tail(drained)
  /\ UNCHANGED <<queue, prompt, phase, step, control, abandoned, seen,
                 ghosts>>

DrainDone ==
  /\ phase = "drain"
  /\ drained = <<>>
  /\ phase' = "request"
  /\ UNCHANGED <<lists, queue, drained, prompt, visible, step, control,
                 abandoned, seen, ghosts>>

\* The model answers with text.
Answer ==
  /\ phase = "request"
  /\ seen.replies < MaxReplies
  /\ Counted("replies")
  /\ history' = Append(history, Reply(<<>>))
  /\ msgs' = Append(msgs, Reply(<<>>))
  /\ phase' = "replied"
  /\ UNCHANGED <<queue, drained, prompt, visible, step, control, abandoned,
                 ghosts>>

\* After a final text the loop goes on while messages wait.
NextMessages ==
  /\ phase = "replied"
  /\ queue # <<>>
  /\ LoopTop(history, msgs)
  /\ UNCHANGED <<prompt, step, control, abandoned, seen, ghosts>>

EndOfTurn ==
  /\ phase = "replied"
  /\ queue = <<>>
  /\ phase' = "closing"
  /\ UNCHANGED <<lists, queue, drained, prompt, visible, step, control,
                 abandoned, seen, ghosts>>

\* Mutant: every error is worth another attempt.
RequestFails_retries ==
  /\ phase = "request"
  /\ phase' = "drain"
  /\ UNCHANGED <<lists, queue, drained, prompt, visible, step, control,
                 abandoned, seen, ghosts>>

\* The request fails for good, or the breaker refuses it: an error is yielded.
RequestFails ==
  /\ phase = "request"
  /\ phase' = "error"
  /\ UNCHANGED <<lists, queue, drained, prompt, visible, step, control,
                 abandoned, seen, ghosts>>

ErrorShown ==
  /\ phase = "error"
  /\ phase' = "closing"
  /\ UNCHANGED <<lists, queue, drained, prompt, visible, step, control,
                 abandoned, seen, ghosts>>

-----------------------------------------------------------------------------
(* _execute_tool_calls                                                     *)

\* The model answers with n tool calls.
CallTools(n) ==
  /\ phase = "request"
  /\ seen.replies < MaxReplies
  /\ \E safe \in [1 .. n -> BOOLEAN] :
       LET id(i) == IF FreshIds THEN seen.ids + i ELSE i
           reply == Reply([i \in 1 .. n |-> id(i)])
       IN /\ calls' = [i \in 1 .. n |-> [id |-> id(i), safe |-> safe[i]]]
          /\ history' = Append(history, reply)
          /\ msgs' = Append(msgs, reply)
  /\ seen' = [seen EXCEPT !.replies = @ + 1,
                          !.ids = IF FreshIds THEN @ + n ELSE @]
  /\ answered' = 0
  /\ running' = {}
  /\ phase' = "announce"
  /\ UNCHANGED <<queue, drained, prompt, visible, control, abandoned,
                 ghosts>>

\* Mutant: a safe call joins the batch of whatever call precedes it.
Batch_joinsAny ==
  { i \in (answered + 1) .. Len(calls) :
      \A j \in (answered + 2) .. i : calls[j].safe }

\* The next batch: consecutive calls that are safe, or one call.
Batch ==
  { i \in (answered + 1) .. Len(calls) :
      i > answered + 1 => \A j \in (answered + 1) .. i : calls[j].safe }

StartBatch ==
  /\ phase = "announce"
  /\ phase' = "running"
  /\ running' = Batch
  /\ UNCHANGED <<lists, queue, drained, prompt, visible, calls, answered,
                 control, abandoned, seen, ghosts>>

\* A tool of the batch returns or raises; the results wait for the last one.
ToolReturns(i) ==
  /\ phase = "running"
  /\ i \in running
  /\ running' = running \ {i}
  /\ phase' = IF running = {i} THEN "result" ELSE "running"
  /\ UNCHANGED <<lists, queue, drained, prompt, visible, calls, answered,
                 control, abandoned, seen, ghosts>>

\* The result that has just been yielded is appended to both lists.
Result == ToolMsg(calls[answered + 1].id)

\* More calls wait: the next result of the batch, or the next batch.
Record ==
  /\ phase = "result"
  /\ answered + 1 < Len(calls)
  /\ history' = Append(history, Result)
  /\ msgs' = Append(msgs, Result)
  /\ answered' = answered + 1
  /\ phase' = IF answered + 2 \in Batch THEN "result" ELSE "announce"
  /\ UNCHANGED <<queue, drained, prompt, visible, calls, running, control,
                 abandoned, seen, ghosts>>

\* The last result of the step, and no compaction is due.
RecordLast ==
  /\ phase = "result"
  /\ answered + 1 = Len(calls)
  /\ LoopTop(Append(history, Result), Append(msgs, Result))
  /\ calls' = <<>> /\ answered' = 0
  /\ UNCHANGED <<prompt, running, control, abandoned, seen, ghosts>>

\* The last result, over the threshold: _set_history(messages[1:]), then
\* compact_history.
RecordAndCompact ==
  LET ms == Append(msgs, Result)
  IN /\ phase = "result"
     /\ answered + 1 = Len(calls)
     /\ Len(ms) > 4
     /\ compacted < CompactLimit
     /\ seen.compactions < MaxCompactions
     /\ Counted("compactions")
     /\ history' = ms /\ msgs' = ms
     /\ tail' = RecentTail(ms)
     /\ phase' = "compacting"
     /\ calls' = <<>> /\ answered' = 0
     /\ overwritten' = FALSE
     /\ UNCHANGED <<queue, drained, prompt, visible, running, summed, compacted,
                    partial, abandoned, mixed>>

\* compact_history sets the history and returns; its caller awaits another
\* sanitising, of that history.
CompactSucceeds ==
  /\ phase = "collected"
  /\ history' = summed
  /\ summed' = Sanitize(summed)
  /\ tail' = <<>>
  /\ phase' = "summarized"
  /\ overwritten' = FALSE
  /\ UNCHANGED <<msgs, queue, drained, prompt, visible, step, compacted, partial,
                 abandoned, seen, mixed>>

\* _execute_tool_calls sets the history to what the next request will send and
\* shows the dividers; stream_steps' own list is still the old one.
Resync ==
  /\ phase = "summarized"
  /\ history' = summed
  /\ compacted' = compacted + 1
  /\ phase' = "compacted"
  /\ overwritten' = FALSE
  /\ UNCHANGED <<msgs, queue, drained, prompt, visible, step, tail, summed,
                 partial, abandoned, seen, mixed>>

\* The dividers have been shown, or there was no summary: the next step.
AfterCompaction ==
  /\ phase \in {"compacting", "compacted"}
  /\ tail' = <<>> /\ summed' = <<>>
  /\ LoopTop(history, Sent)
  /\ UNCHANGED <<prompt, step, compacted, partial, abandoned, seen,
                 ghosts>>

-----------------------------------------------------------------------------
(* The end of a turn, stopped or not                                       *)

\* The `finally` of stream_steps after a normal end or an error.
Close ==
  /\ phase = "closing"
  /\ history' = Sanitize(msgs)
  /\ msgs' = <<>>
  /\ phase' = "idle"
  /\ calls' = <<>> /\ answered' = 0 /\ running' = {}
  /\ UNCHANGED <<queue, drained, prompt, visible, control, abandoned, seen,
                 ghosts>>

Unwound ==
  /\ phase' = "stopped"
  /\ msgs' = <<>> /\ drained' = <<>> /\ prompt' = <<>>
  /\ tail' = <<>> /\ summed' = <<>>
  /\ calls' = <<>> /\ answered' = 0 /\ running' = {}

Stop == seen.stops < MaxStops /\ Counted("stops")

\* The stop finds the generator in an await.  Before the loop nothing is undone
\* or saved; in the loop the `finally` sanitises what the turn had, unless a
\* second stop cuts that await short.
StopInside ==
  /\ phase \in Awaiting
  /\ \/ /\ phase \in InLoop
        /\ Stop
        /\ history' = Sanitize(msgs)
     \/ /\ phase \in InLoop
        /\ seen.stops + 1 < MaxStops
        /\ seen' = [seen EXCEPT !.stops = @ + 2]
        /\ UNCHANGED history
     \/ /\ phase \notin InLoop
        /\ Stop
        /\ UNCHANGED history
  /\ partial' \in IF phase = "request" THEN BOOLEAN ELSE {FALSE}
  /\ Unwound
  /\ UNCHANGED <<queue, visible, compacted, abandoned, ghosts>>

\* The stop finds the consumer in an await of its own: the generator stays
\* suspended at its yield with the turn's messages.
StopOutside ==
  /\ phase \in Yielded
  /\ Stop
  /\ abandoned' = Append(abandoned, msgs)
  /\ partial' \in IF phase = "request" THEN BOOLEAN ELSE {FALSE}
  /\ Unwound
  /\ UNCHANGED <<history, queue, visible, compacted, ghosts>>

\* _handle_interruption: the partial reply and the interruption note, ref 0.
NoteInterruption ==
  /\ phase = "stopped"
  /\ history' = history \o (IF partial THEN <<Reply(<<>>)>> ELSE <<>>)
                        \o <<Note(0)>>
  /\ phase' = "idle"
  /\ partial' = FALSE
  /\ UNCHANGED <<msgs, queue, drained, prompt, visible, step, tail, summed,
                 compacted, abandoned, seen, ghosts>>

\* A second stop while the handler finalizes the partial reply's widget.
StopHandler ==
  /\ phase = "stopped"
  /\ partial
  /\ Stop
  /\ phase' = "idle"
  /\ partial' = FALSE
  /\ UNCHANGED <<lists, queue, drained, prompt, visible, step, tail, summed,
                 compacted, abandoned, ghosts>>

\* The event loop closes an abandoned generator: its `finally` replaces the
\* history by what its turn had.
Finalize ==
  /\ abandoned # <<>>
  /\ history' = Sanitize(Head(abandoned))
  /\ abandoned' = Tail(abandoned)
  /\ overwritten' = TRUE
  /\ UNCHANGED <<msgs, queue, drained, prompt, visible, phase, step, control,
                 seen, mixed>>

\* The user rewinds to before visible turn k (counted from 0).
Rewind(k) ==
  /\ phase = "idle"
  /\ k < Len(visible)
  /\ visible' = SubSeq(visible, 1, k)
  /\ history' = RewindHistory(history, Len(visible), k)
  /\ UNCHANGED <<msgs, queue, drained, prompt, phase, step, control, abandoned,
                 seen, ghosts>>

-----------------------------------------------------------------------------
Preparing == PrepCompact \/ Collect \/ PrepCompacted \/ Prepare

Requesting ==
  \/ DrainNext \/ DrainDone \/ Answer \/ NextMessages \/ EndOfTurn
  \/ RequestFails \/ ErrorShown
  \/ \E n \in 1 .. MaxCalls : CallTools(n)

Executing ==
  \/ StartBatch \/ Record \/ RecordLast \/ RecordAndCompact
  \/ CompactSucceeds \/ Resync \/ AfterCompaction
  \/ \E i \in DOMAIN calls : ToolReturns(i)

Ending == Close \/ NoteInterruption

\* What the turn does when nobody stops it.
Work == Begin \/ Preparing \/ Requesting \/ Executing \/ Ending

Next ==
  \/ Submit \/ Notify
  \/ Work
  \/ StopInside \/ StopOutside \/ StopHandler
  \/ Finalize
  \/ \E k \in 0 .. (MaxUsers - 1) : Rewind(k)

\* Work can step: a turn is under way, or a message waits for the idle host.
Busy == phase # "idle" \/ queue # <<>>

\* The event loop runs the tasks that are ready and every await of the loop has a
\* timeout; nobody is bound to type, to stop or to rewind.  This is weak fairness
\* of Work and of Finalize with their enabling conditions written out, which
\* spares TLC the sanitizer in every ENABLED.
Fairness ==
  /\ []<>(~ Busy) \/ []<><<Work>>_vars
  /\ []<>(abandoned = <<>>) \/ []<><<Finalize>>_vars

Spec == Init /\ [][Next]_vars /\ Fairness

-----------------------------------------------------------------------------
(* Properties                                                              *)

\* "messages = [system] + self.history (invariant maintained below)"
\* (stream_loop.py): the list the provider is sent next and the history the token
\* count is kept for are the same while the loop runs, unless the finalizer of
\* an abandoned turn came in between.  At the end of a compaction, when the list
\* of stream_steps lags behind, it is the list the loop goes on with that counts;
\* while that one is being made the two may differ.
InStep == phase \in InLoop \ {"summarized"} /\ ~ overwritten => history = Sent

\* What is sent meets the provider's contract, after any stop, failed tool,
\* compaction, rewind or late finalizer.
WireContract == phase = "request" => WireOK(msgs)

\* A call that is not concurrency-safe runs alone, after the results of the calls
\* before it and before any call after it starts.
Barrier ==
  \A i \in running :
    /\ \A j \in running : i # j => calls[i].safe
    /\ \A j \in 1 .. (i - 1) : ~ calls[j].safe => j <= answered

UserRefs(h) == { h[i].ref : i \in { j \in DOMAIN h : h[j].role = "user" } }

Ordered(h) ==
  \A i, j \in DOMAIN h :
    i < j /\ h[i].role = "user" /\ h[j].role = "user" => h[i].ref < h[j].ref

\* The provider never sees a user message twice or before an earlier one, however
\* the messages were queued, drained, carried over a compaction or brought back.
\* Exception: a finalizer of an abandoned turn that comes while a summary is made:
\* the tail kept is of one history, the users before it are of the other.
UsersInOrder == phase = "request" /\ ~ mixed => Ordered(msgs)

\* No stray tool result, and no turn that a late finalizer brought back.
Aligned == \A m \in Range(RealUsers(history)) : m.role = "user" /\ m.ref \in Range(visible)

\* Where a user message can be on its way to the provider and after it.
Held == UNION { UserRefs(s) : s \in {queue, drained, prompt, history, Sent} }

\* The user messages whose text the tail of a compaction has.
Repeated == { m.ref : m \in { x \in Range(history) : x.role = "user" /\ Text(x) \in Texts(tail) } }

\* A user message is lost only by a stop, by the finalizer of a stopped turn, by a
\* rewind, by a compaction over its budget, to which stray tool results count, or
\* by one whose tail has the same text.
KeptUnlessStopped ==
  [][\/ Held \subseteq Held' \cup Repeated
     \/ seen'.stops # seen.stops
     \/ overwritten \/ overwritten'
     \/ Len(visible') < Len(visible)
     \/ Len(RealUsers(history)) > UserBudget]_vars

\* The same where each real user message of the history is a visible turn, lost or
\* compacted turns allowed: then the cut of the one index space is that of the other.
\* Exception: the order that a summary of two histories breaks, as above.
RewindForgetsAligned ==
  [][Len(visible') < Len(visible) /\ Aligned /\ ~ mixed =>
       UserRefs(history') \subseteq Range(visible')]_vars

\* A message that waits is taken up: by the running turn or by the next one.
QueueIsServed == \A u \in 1 .. MaxUsers : User(u) \in Range(queue) ~> User(u) \notin Range(queue)

=============================================================================
