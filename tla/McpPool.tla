------------------------------ MODULE McpPool -------------------------------
(***************************************************************************)
(* The clients of one MCP server: attempts to start or refresh it (the     *)
(* background warmup, a toggle in the screen, the list of tools before a   *)
(* call), the restart of a dead server by a call, the thread that stops a  *)
(* server that was disabled, and the stop of all when the manager ends.    *)
(*                                                                         *)
(* One action is a stretch of code between two awaits, or the work of one  *)
(* thread.  Requests are left out but for what they decide: whether the    *)
(* server answers the handshake.                                           *)
(***************************************************************************)
EXTENDS Naturals, Sequences

CONSTANTS Attempts,   \* concurrent calls of load_server_tools_async
          Warmups,    \* those of the manager's own task, which stop_all cancels
          MaxClients, \* bound: client objects made
          MaxStops    \* bound: calls of stop_all

ASSUME McpAssumption ==
    /\ Warmups \subseteq Attempts
    /\ MaxClients \in Nat \ {0}
    /\ MaxStops \in Nat

VARIABLES
    generation, \* manager._generation
    registry,   \* manager.clients[name]; 0: none
    error,      \* manager._server_errors has the name
    enabled,    \* the server is enabled in the configuration
    asked,      \* generation in which each client was asked for, in the order made
    process,    \* client.process: "none", "alive", or "dead" (exited)
    stopped,    \* client._stopped
    stopping,   \* clients a teardown's thread is stopping
    attempt,    \* attempts: [pc, gen, client, bad, cancelled]
    toggle,     \* the thread of a disable: [pc, client]
    call,       \* a tool call that finds no process: [pc, client]
    loose,      \* a process runs that no client refers to
    strays      \* history: clients a disable deletes while they run, or a call restarts

clientVars == <<asked, process, stopped>>
vars == <<generation, registry, error, enabled, clientVars, stopping, attempt, toggle, call, loose, strays>>

Clients == 1 .. MaxClients
Made == DOMAIN asked
Fresh == Len(asked) + 1
NoClient == 0
IdleAttempt == [pc |-> "idle", gen |-> 0, client |-> NoClient, bad |-> FALSE, cancelled |-> FALSE]
IdleThread == [pc |-> "idle", client |-> NoClient]

Init ==
    /\ generation = 0 /\ registry = NoClient /\ error = FALSE /\ enabled = TRUE
    /\ asked = <<>> /\ process = <<>> /\ stopped = <<>>
    /\ stopping = {}
    /\ attempt = [a \in Attempts |-> IdleAttempt]
    /\ toggle = IdleThread /\ call = IdleThread
    /\ loose = FALSE /\ strays = {}

\* client.stop(): the process is terminated and forgotten.
StopClient(c) ==
    /\ process' = [process EXCEPT ![c] = "none"]
    /\ stopped' = [stopped EXCEPT ![c] = TRUE]
    /\ UNCHANGED asked

Move(a, where) == attempt' = [attempt EXCEPT ![a].pc = where]
Fail(a, bad) == attempt' = [attempt EXCEPT ![a].pc = "failed", ![a].bad = bad]
Starting(c) ==
    \/ \E a \in Attempts : attempt[a].client = c /\ attempt[a].pc \in {"spawning", "initializing"}
    \/ call.client = c /\ call.pc \in {"spawning", "initializing"}

-----------------------------------------------------------------------------
(* load_server_tools_async.                                                *)

Begin(a) ==
    /\ attempt[a].pc = "idle" /\ enabled
    /\ attempt' = [attempt EXCEPT ![a] = [IdleAttempt EXCEPT !.pc = "waiting", !.gen = generation]]
    /\ UNCHANGED <<generation, registry, error, enabled, clientVars, stopping, toggle, call, loose, strays>>

\* stop_all drops the locks when it changes the generation: the attempts of a
\* generation share one.
LockFree(g) ==
    \A a \in Attempts : attempt[a].gen = g => attempt[a].pc \in {"idle", "waiting"}

\* The client is registered before its process starts.
Creates(a) ==
    /\ Fresh \in Clients
    /\ asked' = Append(asked, attempt[a].gen)
    /\ process' = Append(process, "none")
    /\ stopped' = Append(stopped, FALSE)
    /\ registry' = Fresh
    /\ attempt' = [attempt EXCEPT ![a].pc = "spawning", ![a].client = Fresh]

\* Mutant: the registered client is not looked for.
Enter_always(a) ==
    /\ attempt[a].pc = "waiting" /\ ~attempt[a].cancelled
    /\ LockFree(attempt[a].gen)
    /\ \/ /\ generation # attempt[a].gen
          /\ attempt' = [attempt EXCEPT ![a] = IdleAttempt]
          /\ UNCHANGED <<clientVars, registry>>
       \/ generation = attempt[a].gen /\ Creates(a)
    /\ UNCHANGED <<generation, error, enabled, stopping, toggle, call, loose, strays>>

\* The lock is taken: the manager was stopped meanwhile, or there is a client,
\* or one is made.
Enter(a) ==
    /\ attempt[a].pc = "waiting" /\ ~attempt[a].cancelled
    /\ LockFree(attempt[a].gen)
    /\ \/ /\ generation # attempt[a].gen \/ registry # NoClient
          /\ attempt' = [attempt EXCEPT ![a] = IdleAttempt]
          /\ UNCHANGED <<clientVars, registry>>
       \/ generation = attempt[a].gen /\ registry = NoClient /\ Creates(a)
    /\ UNCHANGED <<generation, error, enabled, stopping, toggle, call, loose, strays>>

\* The thread that runs Popen is back; a failure stops the client.
Spawned(a) ==
    LET c == attempt[a].client IN
    /\ attempt[a].pc = "spawning" /\ ~attempt[a].cancelled
    /\ \/ /\ process' = [process EXCEPT ![c] = "alive"]
          /\ Move(a, "initializing")
          /\ UNCHANGED <<asked, stopped>>
       \/ /\ StopClient(c)
          /\ Fail(a, TRUE)
    /\ UNCHANGED <<generation, registry, error, enabled, stopping, toggle, call, loose, strays>>

\* The handshake and the first requests: a stopped client sends nothing, so it
\* only succeeds when it had succeeded before the stop.
Ready(a) ==
    LET c == attempt[a].client IN
    /\ attempt[a].pc = "initializing" /\ ~attempt[a].cancelled
    /\ ~stopped[c] \/ process[c] = "none"
    /\ IF generation # attempt[a].gen
       THEN Move(a, "failed") /\ UNCHANGED error
       ELSE error' = FALSE /\ attempt' = [attempt EXCEPT ![a] = IdleAttempt]
    /\ UNCHANGED <<generation, registry, enabled, clientVars, stopping, toggle, call, loose, strays>>

NotReady(a) ==
    /\ attempt[a].pc = "initializing" /\ ~attempt[a].cancelled
    /\ StopClient(attempt[a].client)
    /\ Fail(a, TRUE)
    /\ UNCHANGED <<generation, registry, error, enabled, stopping, toggle, call, loose, strays>>

\* A time limit, or the cancellation by stop_all.  In the await of Popen's
\* thread its result is dropped: the process comes up and belongs to nobody.
GivesUp(a) ==
    /\ \/ attempt[a].pc \in {"spawning", "initializing"}
       \/ attempt[a].pc = "waiting" /\ attempt[a].cancelled
    /\ loose' \in {loose, loose \/ attempt[a].pc = "spawning"}
    /\ IF attempt[a].pc = "waiting"
       THEN attempt' = [attempt EXCEPT ![a] = IdleAttempt]
       ELSE Fail(a, ~attempt[a].cancelled)
    /\ UNCHANGED <<generation, registry, error, enabled, clientVars, stopping, toggle, call, strays>>

\* Mutant: the client is dropped without being stopped.
Teardown_dropsOnly(a) ==
    /\ attempt[a].pc = "failed"
    /\ Move(a, "tearing")
    /\ UNCHANGED <<generation, registry, error, enabled, clientVars, stopping, toggle, call, loose, strays>>

\* _teardown_unready_client: the client is stopped in a thread ...
Teardown(a) ==
    /\ attempt[a].pc = "failed"
    /\ Move(a, "tearing")
    /\ stopping' = stopping \cup {attempt[a].client}
    /\ UNCHANGED <<generation, registry, error, enabled, clientVars, toggle, call, loose, strays>>

StopEnds(c) ==
    /\ c \in stopping
    /\ stopping' = stopping \ {c}
    /\ StopClient(c)
    /\ UNCHANGED <<generation, registry, error, enabled, attempt, toggle, call, loose, strays>>

\* Mutant: the attempt need not own the slot.
Dropped_unowned(a) ==
    /\ attempt[a].pc = "tearing"
    /\ attempt[a].client \notin stopping \/ attempt[a].cancelled
    /\ registry' = NoClient
    /\ error' = (error \/ attempt[a].bad)
    /\ attempt' = [attempt EXCEPT ![a] = IdleAttempt]
    /\ UNCHANGED <<generation, enabled, clientVars, stopping, toggle, call, loose, strays>>

\* ... and dropped, with its error remembered, when it still is the registered
\* one.  A cancellation only skips the wait for the thread.
Dropped(a) ==
    /\ attempt[a].pc = "tearing"
    /\ attempt[a].client \notin stopping \/ attempt[a].cancelled
    /\ IF registry = attempt[a].client
       THEN registry' = NoClient /\ error' = (error \/ attempt[a].bad)
       ELSE UNCHANGED <<registry, error>>
    /\ attempt' = [attempt EXCEPT ![a] = IdleAttempt]
    /\ UNCHANGED <<generation, enabled, clientVars, stopping, toggle, call, loose, strays>>

-----------------------------------------------------------------------------
(* stop_all, and the thread of a disable (stop_client).                    *)

StopAll ==
    /\ generation < MaxStops
    /\ generation' = generation + 1
    /\ error' = FALSE
    /\ registry' = NoClient
    /\ IF registry = NoClient THEN UNCHANGED clientVars ELSE StopClient(registry)
    /\ attempt' = [a \in Attempts |->
                     IF a \in Warmups /\ attempt[a].pc # "idle"
                     THEN [attempt[a] EXCEPT !.cancelled = TRUE] ELSE attempt[a]]
    /\ UNCHANGED <<enabled, stopping, toggle, call, loose, strays>>

Disable ==
    /\ enabled /\ toggle.pc = "idle"
    /\ enabled' = FALSE
    /\ IF registry = NoClient
       THEN error' = FALSE /\ UNCHANGED toggle
       ELSE toggle' = [pc |-> "stopping", client |-> registry] /\ UNCHANGED error
    /\ UNCHANGED <<generation, registry, clientVars, stopping, attempt, call, loose, strays>>

DisableStops ==
    LET c == toggle.client IN
    /\ toggle.pc = "stopping"
    /\ stopped' = [stopped EXCEPT ![c] = TRUE]
    /\ process' = [process EXCEPT ![c] = IF @ = "alive" THEN "dead" ELSE @]
    /\ toggle' = [toggle EXCEPT !.pc = "forgetting"]
    /\ UNCHANGED <<generation, registry, error, enabled, asked, stopping, attempt, call, loose, strays>>

\* stop() clears client.process at its end, whatever it is by then.
DisableForgets ==
    LET c == toggle.client IN
    /\ toggle.pc = "forgetting"
    /\ process' = [process EXCEPT ![c] = "none"]
    /\ loose' = (loose \/ process[c] = "alive")
    /\ toggle' = [toggle EXCEPT !.pc = "deleting"]
    /\ UNCHANGED <<generation, registry, error, enabled, asked, stopped, stopping, attempt, call, strays>>

\* The entry is deleted by its name; without one, KeyError leaves the error.
DisableDeletes ==
    /\ toggle.pc = "deleting"
    /\ toggle' = IdleThread
    /\ IF registry = NoClient
       THEN UNCHANGED <<registry, error, strays>>
       ELSE /\ registry' = NoClient
            /\ error' = FALSE
            /\ strays' = IF process[registry] = "alive" \/ Starting(registry)
                       THEN strays \cup {registry} ELSE strays
    /\ UNCHANGED <<generation, enabled, clientVars, stopping, attempt, call, loose>>

Enable ==
    /\ ~enabled /\ toggle.pc = "idle"
    /\ enabled' = TRUE
    /\ UNCHANGED <<generation, registry, error, clientVars, stopping, attempt, toggle, call, loose, strays>>

-----------------------------------------------------------------------------
(* A tool call of a client whose process is gone (call_tool_async).        *)

Crash(c) ==
    /\ c \in Made /\ process[c] = "alive"
    /\ process' = [process EXCEPT ![c] = "dead"]
    /\ UNCHANGED <<generation, registry, error, enabled, asked, stopped, stopping, attempt, toggle,
                   call, loose, strays>>

\* The client leaves "stopped" behind; what comes up need not be registered.
Restart(c) ==
    /\ stopped' = [stopped EXCEPT ![c] = FALSE]
    /\ IF process[c] = "alive"
       THEN call' = IdleThread /\ UNCHANGED strays
       ELSE call' = [pc |-> "spawning", client |-> c] /\ strays' = strays \cup {c}

\* Its own start lock is taken at once, or waited for.
CallBegins ==
    LET c == registry IN
    /\ call.pc = "idle"
    /\ c # NoClient /\ process[c] # "alive"
    /\ IF Starting(c)
       THEN call' = [pc |-> "waiting", client |-> c] /\ UNCHANGED <<stopped, strays>>
       ELSE Restart(c)
    /\ UNCHANGED <<generation, registry, error, enabled, asked, process, stopping, attempt, toggle, loose>>

CallStarts ==
    /\ call.pc = "waiting" /\ ~Starting(call.client)
    /\ Restart(call.client)
    /\ UNCHANGED <<generation, registry, error, enabled, asked, process, stopping, attempt, toggle, loose>>

CallSpawned ==
    LET c == call.client IN
    /\ call.pc = "spawning"
    /\ process' = [process EXCEPT ![c] = "alive"]
    /\ call' = [call EXCEPT !.pc = "initializing"]
    /\ UNCHANGED <<generation, registry, error, enabled, asked, stopped, stopping, attempt, toggle,
                   loose, strays>>

\* The handshake ends, or the call is cancelled; what it started stays.
CallEnds ==
    LET c == call.client IN
    /\ call' = IdleThread
    /\ \/ call.pc = "waiting" /\ UNCHANGED <<clientVars, loose>>
       \/ call.pc = "spawning" /\ loose' \in {loose, TRUE} /\ UNCHANGED clientVars
       \/ call.pc = "initializing" /\ UNCHANGED <<clientVars, loose>>
       \/ call.pc = "initializing" /\ StopClient(c) /\ UNCHANGED loose
    /\ UNCHANGED <<generation, registry, error, enabled, stopping, attempt, toggle, strays>>

-----------------------------------------------------------------------------
Proceeds(a) ==
    Enter(a) \/ Spawned(a) \/ Ready(a) \/ NotReady(a) \/ GivesUp(a) \/ Teardown(a) \/ Dropped(a)
DisableProceeds == DisableStops \/ DisableForgets \/ DisableDeletes
CallProceeds == CallStarts \/ CallSpawned \/ CallEnds

Next ==
    \/ \E a \in Attempts : Begin(a) \/ Proceeds(a)
    \/ \E c \in Clients : StopEnds(c) \/ Crash(c)
    \/ StopAll \/ Disable \/ DisableProceeds \/ Enable \/ CallBegins \/ CallProceeds

Spec == Init /\ [][Next]_vars

\* The loop and the threads go on, and every await has a time limit.  Nobody
\* has to start, call, disable or stop anything.
FairSpec ==
    /\ Spec
    /\ \A a \in Attempts : WF_vars(Proceeds(a))
    /\ \A c \in Clients : WF_vars(StopEnds(c))
    /\ WF_vars(DisableProceeds) /\ WF_vars(CallProceeds)

-----------------------------------------------------------------------------
(* Properties.                                                             *)

\* "concurrent callers share the first spawned process instead of double-starting
\* npx": of the clients one generation asked for, one at most has a process,
\* whatever attempts, calls and disables cross.  Exceptions: a client that is
\* being stopped, and one a disable has deleted by its name while it ran or a
\* call has restarted that is no longer the registered one.
SharedProcess ==
    \A c, d \in Made :
       /\ asked[c] = asked[d] /\ c # d
       /\ {c, d} \cap (stopping \cup (strays \ {registry})) = {}
       => ~(process[c] = "alive" /\ process[d] = "alive")

\* A stale attempt does not forget the client a newer one has registered,
\* "leaking its live subprocess": a process that runs belongs to the registered
\* client, or to one an attempt, a teardown, a disable or a call still handles.
\* Exceptions: the strays, and the processes no client refers to.
Handled ==
    \A c \in Made :
       process[c] = "alive" =>
          c \in {registry, toggle.client, call.client} \cup {attempt[a].client : a \in Attempts}
                \cup stopping \cup strays

\* stop_all reaches every server: a client asked for before it comes down,
\* although attempts still wait for the lock, start or tear down.  Exceptions:
\* a client a disable or a call left alive outside the registry.
Outdated(c) == c \in Made /\ asked[c] < generation
StopsAll ==
    \A c \in Clients : Outdated(c) ~> (c \in Made => process[c] # "alive" \/ c \in strays)

=============================================================================
