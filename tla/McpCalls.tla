------------------------------ MODULE McpCalls ------------------------------
(***************************************************************************)
(* Requests to one MCP server over its standard streams: calls of tools    *)
(* that share one client, the locks they wait for, the thread that writes, *)
(* the thread and the task that read, the restart of a server that has     *)
(* exited, and stop().                                                     *)
(*                                                                         *)
(* One action is a stretch of code between two awaits, a step of a thread, *)
(* or a step of the server.  A time limit is a step that may be taken at   *)
(* any time.  The handshake is its first request; those that follow it go  *)
(* the same way.  The attempts of the pool are those of McpPool.           *)
(***************************************************************************)
EXTENDS Naturals, Sequences, SequencesExt

CONSTANTS Calls,    \* calls of tools, by whatever agent
          None,     \* no call
          MaxProcs, \* bound: processes started
          MaxStops  \* bound: stop() by the pool

ASSUME CallsAssumption ==
    /\ None \notin Calls
    /\ MaxProcs \in Nat \ {0}
    /\ MaxStops \in Nat

VARIABLES
    process,  \* self.process; 0: None
    born,     \* processes started so far
    exited,   \* those whose poll() is not None
    closed,   \* those whose pipes no process holds any more
    inbox,    \* requests a server has read and not answered
    outbox,   \* answers in its pipe
    call,     \* calls: [pc, req, fut, got, ack]
    nextId,   \* self.req_id
    pending,  \* self._pending_futures: the requests that wait for an answer
    startLock,\* self._start_lock: who holds it, then who waits for it
    callLock, \* self._call_lock, in the same way
    writes,   \* self._write_queue
    reader,   \* self._read_task is there and not done
    dying,    \* a reader that stop() has cancelled is not done yet
    lines,    \* self._queue
    thread,   \* the process whose output self._reader_thread reads; 0: none
    threads,  \* the processes that reader threads still read
    stopped,  \* self._stopped
    stopping, \* a thread of the pool is inside stop(): "no", "told" or "killed"
    stops,    \* calls of stop() by the pool
    leaked,   \* history: handshakes cancelled while they were written
    unread,   \* history: requests registered with no reader
    crossed   \* history: a start began while stop() was under way

serverVars == <<born, exited, closed, inbox, outbox>>
readVars == <<reader, dying, lines, thread, threads>>
stopVars == <<stopped, stopping, stops>>
history == <<leaked, unread, crossed>>
vars == <<process, serverVars, call, nextId, pending, startLock, callLock, writes, readVars, stopVars, history>>

Procs == 1 .. MaxProcs
Request(c, kind, id) == [by |-> c, kind |-> kind, id |-> id]
NoRequest == Request(None, "none", 0)
Eof == Request(None, "eof", 0)

Live == process # 0 /\ process \notin exited
At(c, where) == call[c].pc = where
Kind(c) == call[c].req.kind
Idle == [pc |-> "idle", req |-> NoRequest, fut |-> "none", got |-> NoRequest, ack |-> "none"]
Done == [Idle EXCEPT !.pc = "done"]

Init ==
    /\ process = 0 /\ born = 0 /\ exited = {} /\ closed = {}
    /\ inbox = [p \in Procs |-> {}] /\ outbox = [p \in Procs |-> <<>>]
    /\ call = [c \in Calls |-> Idle]
    /\ nextId = 0 /\ pending = {}
    /\ startLock = <<>> /\ callLock = <<>> /\ writes = <<>>
    /\ reader = FALSE /\ dying = FALSE /\ lines = <<>> /\ thread = 0 /\ threads = {}
    /\ stopped = FALSE /\ stopping = "no" /\ stops = 0
    /\ leaked = {} /\ unread = {} /\ crossed = FALSE

-----------------------------------------------------------------------------
(* The reader: one task on the loop, fed by a thread.                      *)

\* _fail_pending_futures, on the calls as they are in cs.
Failed(cs) ==
    [c \in Calls |-> IF cs[c].req \in pending /\ cs[c].fut = "open"
                     THEN [cs[c] EXCEPT !.fut = "failed"] ELSE cs[c]]

\* _start_async_reader, and the first step of the task, which comes before
\* whatever is ready later: a new queue, and a thread unless one is alive,
\* whatever process it reads.  The task of a stopped client ends at once.
StartReader(proc, halted) ==
    IF reader \/ halted
    THEN UNCHANGED <<reader, lines, thread, threads>>
    ELSE /\ reader' = TRUE /\ lines' = <<>>
         /\ IF thread \in threads \/ proc = 0
            THEN UNCHANGED <<thread, threads>>
            ELSE thread' = proc /\ threads' = threads \cup {proc}

Delivered(items) == lines' = IF reader THEN lines \o items ELSE lines

\* A line; a thread that finds the client stopped then ends.
ThreadReads(p) ==
    /\ p \in threads /\ outbox[p] # <<>>
    /\ outbox' = [outbox EXCEPT ![p] = Tail(@)]
    /\ IF stopped
       THEN threads' = threads \ {p} /\ Delivered(<<Head(outbox[p]), Eof>>)
       ELSE UNCHANGED threads /\ Delivered(<<Head(outbox[p])>>)
    /\ UNCHANGED <<process, born, exited, closed, inbox, call, nextId, pending, startLock, callLock,
                   writes, reader, dying, thread, stopVars, history>>

\* Mutant: the task is not told.
ThreadEnds_silent(p) ==
    /\ p \in threads /\ p \in closed /\ outbox[p] = <<>>
    /\ threads' = threads \ {p}
    /\ UNCHANGED <<process, serverVars, call, nextId, pending, startLock, callLock, writes,
                   reader, dying, lines, thread, stopVars, history>>

\* The end of the pipe.
ThreadEnds(p) ==
    /\ p \in threads /\ p \in closed /\ outbox[p] = <<>>
    /\ threads' = threads \ {p}
    /\ Delivered(<<Eof>>)
    /\ UNCHANGED <<process, serverVars, call, nextId, pending, startLock, callLock, writes,
                   reader, dying, thread, stopVars, history>>

\* The future registered under the answer's id, if there is one, gets it.
Answer(r) ==
    /\ call' = [c \in Calls |->
          IF call[c].fut = "open" /\ \E q \in pending : q.id = r.id /\ q = call[c].req
          THEN [call[c] EXCEPT !.fut = "answered", !.got = r] ELSE call[c]]
    /\ pending' = {q \in pending : q.id # r.id}

ReaderReads ==
    /\ reader /\ lines # <<>>
    /\ IF Head(lines) = Eof
       THEN reader' = FALSE /\ lines' = <<>> /\ call' = Failed(call) /\ pending' = {}
       ELSE Answer(Head(lines)) /\ lines' = Tail(lines) /\ UNCHANGED reader
    /\ UNCHANGED <<process, serverVars, nextId, startLock, callLock, writes, dying, thread, threads,
                   stopVars, history>>

\* The finally block of a reader that was cancelled.
ReaderDies ==
    /\ dying
    /\ dying' = FALSE
    /\ call' = Failed(call) /\ pending' = {}
    /\ UNCHANGED <<process, serverVars, nextId, startLock, callLock, writes, reader, lines, thread,
                   threads, stopVars, history>>

-----------------------------------------------------------------------------
(* stop(), in three parts.                                                 *)

\* Nothing is read any more, and who waits is told.
Told ==
    /\ stopped' = TRUE
    /\ reader' = FALSE /\ lines' = <<>>
    /\ dying' = (dying \/ reader)
    /\ pending' = {}

Killed ==
    /\ exited' = (exited \cup {process}) \cap Procs
    /\ closed' = (closed \cup {process}) \cap Procs

\* The process is forgotten and the threads are waited for; what was still to
\* be written goes nowhere, and is acknowledged when it was before the sentinel.
Acknowledged(cs, some) ==
    [c \in Calls |-> IF cs[c].req \in some THEN [cs[c] EXCEPT !.ack = "ok"] ELSE cs[c]]
Forgotten == process' = 0 /\ thread' = 0 /\ writes' = <<>>

PoolStops ==
    /\ stops < MaxStops /\ stopping = "no"
    /\ stops' = stops + 1 /\ stopping' = "told"
    /\ Told /\ call' = Failed(call)
    /\ UNCHANGED <<process, serverVars, nextId, startLock, callLock, writes, thread, threads, history>>

PoolKills ==
    /\ stopping = "told"
    /\ stopping' = "killed"
    /\ Killed
    /\ UNCHANGED <<process, born, inbox, outbox, call, nextId, pending, startLock, callLock, writes,
                   readVars, stopped, stops, history>>

\* A thread whose pipe has ended is gone within the second of the join.
PoolStopped ==
    /\ stopping = "killed" /\ thread \notin threads \cap closed
    /\ stopping' = "no"
    /\ Forgotten
    /\ \E some \in {{}, ToSet(writes)} : call' = Acknowledged(call, some)
    /\ UNCHANGED <<serverVars, nextId, pending, startLock, callLock, reader, dying, lines, threads,
                   stopped, stops, history>>

-----------------------------------------------------------------------------
(* A request.                                                              *)

\* Under _call_lock: the future, then the write, which a stopped client does
\* not begin: the lock is then free again.  lost: the reader started with it
\* finds the client stopped, and fails what is pending.
Register(c, kind, able, lost, queue) ==
    LET r == Request(c, kind, nextId + 1) IN
    /\ nextId' = nextId + 1
    /\ pending' = IF lost THEN {} ELSE pending \cup {r}
    /\ call' = [IF lost THEN Failed(call) ELSE call EXCEPT
                   ![c] = [Idle EXCEPT !.pc = IF able THEN "writing" ELSE "waiting",
                                       !.req = r, !.fut = IF lost THEN "failed" ELSE "open"]]
    /\ writes' = IF able THEN Append(writes, r) ELSE writes
    /\ callLock' = IF able THEN <<c>> \o queue ELSE queue
    /\ unread' = IF reader' \/ lost THEN unread ELSE unread \cup {r}

\* The lock is taken at once when it is free.
Sends(c, kind, proc, halted) ==
    LET lost == halted /\ ~reader IN
    /\ StartReader(proc, halted)
    /\ IF callLock = <<>>
       THEN Register(c, kind, ~halted /\ proc # 0, lost, <<>>)
       ELSE /\ call' = [IF lost THEN Failed(call) ELSE call EXCEPT
                           ![c] = [Idle EXCEPT !.pc = "locking", !.req = Request(c, kind, 0)]]
            /\ pending' = IF lost THEN {} ELSE pending
            /\ callLock' = Append(callLock, c)
            /\ UNCHANGED <<nextId, writes, unread>>

Locked(c) ==
    /\ At(c, "locking") /\ Head(callLock) = c
    /\ UNCHANGED reader
    /\ Register(c, Kind(c), ~stopped /\ process # 0, FALSE, Tail(callLock))
    /\ UNCHANGED <<process, serverVars, startLock, dying, lines, thread, threads, stopVars, leaked, crossed>>

\* call_tool_async.
Begin(c) ==
    /\ At(c, "idle")
    /\ IF Live
       THEN Sends(c, "call", process, stopped) /\ UNCHANGED startLock
       ELSE /\ call' = [call EXCEPT ![c].pc = "starting"]
            /\ startLock' = Append(startLock, c)
            /\ UNCHANGED <<callLock, nextId, pending, writes, reader, lines, thread, threads, unread>>
    /\ UNCHANGED <<process, serverVars, dying, stopVars, leaked, crossed>>

\* start_async, which another call may have done meanwhile.
StartEnters(c) ==
    /\ At(c, "starting") /\ Head(startLock) = c
    /\ stopped' = FALSE
    /\ crossed' = (crossed \/ stopping # "no")
    /\ IF Live
       THEN Sends(c, "call", process, FALSE) /\ startLock' = Tail(startLock)
       ELSE /\ call' = [call EXCEPT ![c].pc = "spawning"]
            /\ UNCHANGED <<startLock, callLock, nextId, pending, writes, reader, lines, thread, threads, unread>>
    /\ UNCHANGED <<process, serverVars, dying, stopping, stops, leaked>>

\* Popen's thread: by then a cancelled reader has taken the step it had left.
Spawned(c) ==
    /\ At(c, "spawning") /\ ~dying /\ born < MaxProcs
    /\ born' = born + 1 /\ process' = born + 1
    /\ Sends(c, "init", born + 1, stopped)
    /\ UNCHANGED <<exited, closed, inbox, outbox, startLock, dying, stopVars, leaked, crossed>>

\* The whole of stop(), on the loop; the call ends with an error.
GivesUp(c) ==
    /\ Told /\ Killed /\ Forgotten
    /\ threads' = threads \ {process}
    /\ call' = [Acknowledged(Failed(call), ToSet(writes)) EXCEPT ![c] = Done]
    /\ startLock' = Tail(startLock)
    /\ UNCHANGED <<born, inbox, outbox, nextId, stopping, stops, history>>

SpawnFails(c) ==
    /\ At(c, "spawning") /\ ~dying
    /\ GivesUp(c)
    /\ UNCHANGED callLock

\* The writer's thread: to whatever the process is now.
WriterWrites ==
    /\ writes # <<>>
    /\ writes' = Tail(writes)
    /\ LET r == Head(writes)
           written == process # 0 /\ process \notin closed
           ack == IF process # 0 /\ ~written THEN "failed" ELSE "ok" IN
       /\ inbox' = IF written THEN [inbox EXCEPT ![process] = @ \cup {r}] ELSE inbox
       /\ call' = [c \in Calls |-> IF call[c].req = r THEN [call[c] EXCEPT !.ack = ack] ELSE call[c]]
    /\ UNCHANGED <<process, born, exited, closed, outbox, nextId, pending, startLock, callLock,
                   readVars, stopVars, history>>

\* The write is over, and the lock is free.
Acked(c) ==
    /\ At(c, "writing") /\ call[c].ack # "none"
    /\ callLock' = Tail(callLock)
    /\ IF call[c].ack = "ok"
       THEN /\ call' = [call EXCEPT ![c].pc = "waiting"]
            /\ UNCHANGED <<process, serverVars, nextId, pending, startLock, writes, readVars, stopVars, history>>
       ELSE IF Kind(c) = "init"
       THEN GivesUp(c)
       ELSE /\ call' = [call EXCEPT ![c] = Done] /\ pending' = pending \ {call[c].req}
            /\ UNCHANGED <<process, serverVars, nextId, startLock, writes, readVars, stopVars, history>>

\* Mutant: the write is waited for.
AckTimesOut_never(c) == Acked(c)

\* _WRITE_ACK_TIMEOUT.
AckTimesOut(c) ==
    /\ At(c, "writing") /\ call[c].ack = "none"
    /\ callLock' = Tail(callLock)
    /\ call' = [call EXCEPT ![c].pc = "waiting"]
    /\ UNCHANGED <<process, serverVars, nextId, pending, startLock, writes, readVars, stopVars, history>>

\* The answer of the handshake lets the call go on; that of the call ends it.
Answered(c) ==
    /\ At(c, "waiting") /\ call[c].fut = "answered"
    /\ IF Kind(c) = "init"
       THEN Sends(c, "call", process, stopped) /\ startLock' = Tail(startLock)
       ELSE /\ call' = [call EXCEPT ![c] = Done]
            /\ UNCHANGED <<startLock, callLock, nextId, pending, writes, reader, lines, thread, threads, unread>>
    /\ UNCHANGED <<process, serverVars, dying, stopVars, leaked, crossed>>

\* The server's end, or the time limit.
NoAnswer(c) ==
    /\ At(c, "waiting") /\ call[c].fut # "answered"
    /\ UNCHANGED callLock
    /\ IF Kind(c) = "init"
       THEN GivesUp(c)
       ELSE /\ call' = [call EXCEPT ![c] = Done] /\ pending' = pending \ {call[c].req}
            /\ UNCHANGED <<process, serverVars, nextId, startLock, writes, readVars, stopVars, history>>

\* A lock is released by who holds it, or not waited for any more.
Left(queue, c) ==
    IF c \in ToSet(queue) THEN RemoveAt(queue, CHOOSE i \in DOMAIN queue : queue[i] = c) ELSE queue

\* Mutant: a call dropped in its write stays registered.
Cancel_keeps(c) ==
    /\ call[c].pc \notin {"idle", "done"}
    /\ call' = [call EXCEPT ![c] = Done]
    /\ startLock' = Left(startLock, c)
    /\ callLock' = Left(callLock, c)
    /\ IF At(c, "writing")
       THEN leaked' = (IF Kind(c) = "init" THEN leaked \cup {call[c].req} ELSE leaked) /\ UNCHANGED pending
       ELSE UNCHANGED leaked /\ pending' = pending \ {call[c].req}
    /\ UNCHANGED <<process, serverVars, nextId, writes, readVars, stopVars, unread, crossed>>

\* The agent's turn is interrupted: CancelledError at an await leaves the locks
\* and takes the request back, but for a handshake in its write.  A process that
\* is being started is lost.
Cancel(c) ==
    /\ call[c].pc \notin {"idle", "done"}
    /\ call' = [call EXCEPT ![c] = Done]
    /\ startLock' = Left(startLock, c)
    /\ callLock' = Left(callLock, c)
    /\ IF At(c, "writing") /\ Kind(c) = "init"
       THEN leaked' = leaked \cup {call[c].req} /\ UNCHANGED pending
       ELSE UNCHANGED leaked /\ pending' = pending \ {call[c].req}
    /\ UNCHANGED <<process, serverVars, nextId, writes, readVars, stopVars, unread, crossed>>

-----------------------------------------------------------------------------
(* The server.                                                             *)

Answers(p, r) ==
    /\ p \notin closed /\ r \in inbox[p]
    /\ inbox' = [inbox EXCEPT ![p] = @ \ {r}]
    /\ outbox' = [outbox EXCEPT ![p] = Append(@, r)]
    /\ UNCHANGED <<process, born, exited, closed, call, nextId, pending, startLock, callLock, writes,
                   readVars, stopVars, history>>

\* The process exits; a child of it, such as npx has, may keep the pipes.
Exits(p) ==
    /\ p <= born /\ p \notin exited
    /\ exited' = exited \cup {p}
    /\ closed' \in {closed, closed \cup {p}}
    /\ UNCHANGED <<process, born, inbox, outbox, call, nextId, pending, startLock, callLock, writes,
                   readVars, stopVars, history>>

ChildEnds(p) ==
    /\ p \in exited /\ p \notin closed
    /\ closed' = closed \cup {p}
    /\ UNCHANGED <<process, born, exited, inbox, outbox, call, nextId, pending, startLock, callLock,
                   writes, readVars, stopVars, history>>

-----------------------------------------------------------------------------
Proceeds(c) ==
    \/ StartEnters(c) \/ Spawned(c) \/ SpawnFails(c) \/ Locked(c)
    \/ Acked(c) \/ AckTimesOut(c) \/ Answered(c) \/ NoAnswer(c)

Next ==
    \/ \E c \in Calls : Begin(c) \/ Proceeds(c) \/ Cancel(c)
    \/ ReaderReads \/ ReaderDies \/ WriterWrites
    \/ PoolStops \/ PoolKills \/ PoolStopped
    \/ \E p \in Procs :
         \/ ThreadReads(p) \/ ThreadEnds(p) \/ Exits(p) \/ ChildEnds(p)
         \/ \E r \in inbox[p] : Answers(p, r)

Spec == Init /\ [][Next]_vars

\* The loop takes the steps that are ready, Popen returns, and the time limits
\* come.  Neither the server nor the writer has to do anything.
FairSpec ==
    /\ Spec
    /\ WF_vars(ReaderDies)
    /\ \A c \in Calls : WF_vars(Proceeds(c))

-----------------------------------------------------------------------------
(* Properties.                                                             *)

\* "fulfilling futures by request ID": whoever sends a request gets the answer to
\* it and to no other, across restarts and answers that come too late; and what
\* is registered belongs to a request in flight: "a cancelled call can never leave
\* a dangling entry".  The handshake, which is not written by a call, may: leaked.
Matched ==
    /\ \A c \in Calls : call[c].fut = "answered" => call[c].got = call[c].req
    /\ pending \subseteq leaked \cup
          {call[c].req : c \in {d \in Calls : call[d].pc \in {"writing", "waiting"}}}

\* A call waits while its answer is in the pipe of the running server.
AnswerInPipe(c) ==
    /\ At(c, "waiting") /\ call[c].fut = "open"
    /\ Live /\ ~stopped /\ call[c].req \in ToSet(outbox[process])

\* A server that answers is heard: the answer is read, or the call is told that
\* it failed, and never left to its time limit.  The reader's task, its thread
\* and the process are three things with ends of their own, and each is kept
\* when it is found alive.  Exceptions: a thread reads the pipe of an older
\* process that a child of it holds open; the reader ended after it was looked
\* at and before the call lock was there; a start took place inside stop().
Heard ==
    \A c \in Calls : AnswerInPipe(c) =>
        \/ reader /\ (process \in threads \/ Eof \in ToSet(lines))
        \/ threads \ {process} # {}
        \/ call[c].req \in unread
        \/ crossed

\* Every call comes back, with an answer or an error, whatever the server, its
\* pipes, stop() and the other calls do: nobody holds a lock for ever.
Returns == \A c \in Calls : call[c].pc # "idle" ~> call[c].pc = "done"
=============================================================================
