---------------------------- MODULE SessionLock ----------------------------
(***************************************************************************)
(* Several terminals (processes) on the saved sessions of one project: the *)
(* advisory file lock of a session, the list of sessions that probes it,   *)
(* opening, read-only opening, stealing, "/new", and processes that die.   *)
(*                                                                         *)
(* One action is what a process does between two system calls that another *)
(* process can notice.  A session a process has made itself and nobody can *)
(* have listed yet is Own.                                                 *)
(***************************************************************************)
EXTENDS Naturals

CONSTANTS Pids,     \* processes, each started once
          Sessions, \* saved sessions
          Own,      \* a session a process has made itself
          Nobody,   \* no process
          MaxSaves  \* bound: saves of a session

ASSUME LockAssumption ==
    /\ Own \notin Sessions /\ Nobody \notin Pids
    /\ MaxSaves \in Nat

VARIABLES
    up,      \* processes that run
    unborn,  \* processes to come
    pc,      \* what each process is doing
    open,    \* app.current_session_id
    readOnly,\* app.is_read_only
    target,  \* the row of the list each has looked at, its mark, and
    marked,  \* what is to be done with it
    how,
    victim,  \* the pid a steal has read
    inMemory,\* <<process, session>>: in sm._sessions
    base,    \* the version of each session a process has loaded or saved
    active,  \* <<process, session>>: in sm._active_locks
    holder,  \* the owner of each session's kernel lock
    meta,    \* the pid in each sidecar file
    version, \* saves of each session
    refused, \* history: processes refused a lock after a steal or of a row shown free
    exposed  \* history: sessions saved without their lock, or locked with an old version

lockVars == <<active, holder, meta>>
life == <<up, unborn>>
rowVars == <<target, marked, how>>
sm == <<inMemory, base>>
memory == <<pc, open, readOnly, rowVars, victim, sm>>
vars == <<life, memory, lockVars, version, refused, exposed>>

Init ==
    /\ up = {} /\ unborn = Pids
    /\ pc = [p \in Pids |-> "idle"]
    /\ open = [p \in Pids |-> Own]
    /\ readOnly = [p \in Pids |-> FALSE]
    /\ target = [p \in Pids |-> Own]
    /\ marked = [p \in Pids |-> FALSE]
    /\ how = [p \in Pids |-> "open"]
    /\ victim = [p \in Pids |-> Nobody]
    /\ inMemory = {}
    /\ base = [p \in Pids |-> [s \in Sessions |-> 0]]
    /\ active = {}
    /\ holder = [s \in Sessions |-> Nobody]
    /\ meta = [s \in Sessions |-> Nobody]
    /\ version = [s \in Sessions |-> 0]
    /\ refused = {} /\ exposed = {}

At(p, where) == p \in up /\ pc[p] = where
Goto(p, where) == pc' = [pc EXCEPT ![p] = where]

\* No row is looked at.
NoRow(p) ==
    /\ target' = [target EXCEPT ![p] = Own]
    /\ marked' = [marked EXCEPT ![p] = FALSE]
    /\ how' = [how EXCEPT ![p] = "open"]

\* A process that starts afresh, in a session of its own.
Forgets(p) ==
    /\ open' = [open EXCEPT ![p] = Own]
    /\ readOnly' = [readOnly EXCEPT ![p] = FALSE]
    /\ NoRow(p)

\* What SessionLock.release and SessionLock.acquire do to the kernel's lock.
Releases(p, s) ==
    /\ active' = active \ {<<p, s>>}
    /\ holder' = IF <<p, s>> \in active THEN [holder EXCEPT ![s] = Nobody] ELSE holder
Takes(p, s) ==
    /\ active' = active \cup {<<p, s>>}
    /\ holder' = [holder EXCEPT ![s] = p]

-----------------------------------------------------------------------------
(* Processes.                                                              *)

Start(p) ==
    /\ p \in unborn
    /\ up' = up \cup {p} /\ unborn' = unborn \ {p}
    /\ UNCHANGED <<memory, lockVars, version, refused, exposed>>

\* The kernel releases what a process that dies has locked; its sidecars stay, and
\* what it had in memory is gone.
Dies(p) ==
    /\ up' = up \ {p}
    /\ active' = active \ ({p} \X Sessions)
    /\ holder' = [s \in Sessions |-> IF holder[s] = p THEN Nobody ELSE holder[s]]
    /\ inMemory' = inMemory \ ({p} \X Sessions)
    /\ base' = [base EXCEPT ![p] = [s \in Sessions |-> 0]]
    /\ refused' = refused \ {p}

Exit(p) ==
    /\ p \in up
    /\ Dies(p) /\ Forgets(p) /\ Goto(p, "idle")
    /\ victim' = [victim EXCEPT ![p] = Nobody]
    /\ UNCHANGED <<unborn, meta, version, exposed>>

-----------------------------------------------------------------------------
(* The list of sessions, and what is chosen in it.                         *)

\* SessionLock.probe: a lock that is free is taken for a moment ...
Look(p, s) ==
    /\ At(p, "idle") /\ s # open[p]
    /\ target' = [target EXCEPT ![p] = s]
    /\ marked' = [marked EXCEPT ![p] = holder[s] # Nobody]
    /\ how' = [how EXCEPT ![p] = "open"]
    /\ IF holder[s] = Nobody
       THEN holder' = [holder EXCEPT ![s] = p] /\ Goto(p, "probing")
       ELSE UNCHANGED holder /\ Goto(p, "chosen")
    /\ UNCHANGED <<life, open, readOnly, victim, sm, active, meta, version, refused, exposed>>

ProbeEnds(p) ==
    /\ At(p, "probing")
    /\ holder' = [holder EXCEPT ![target[p]] = Nobody]
    /\ Goto(p, "chosen")
    /\ UNCHANGED <<life, open, readOnly, rowVars, victim, sm, active, meta, version, refused, exposed>>

Leave(p) ==
    /\ At(p, "chosen")
    /\ Goto(p, "idle")
    /\ NoRow(p)
    /\ UNCHANGED <<life, open, readOnly, victim, sm, lockVars, version, refused, exposed>>

\* Mutant: the row's mark is not looked at.
Select_unmarked(p) ==
    /\ At(p, "chosen")
    /\ Goto(p, "switching")
    /\ UNCHANGED <<life, open, readOnly, rowVars, victim, sm, lockVars, version, refused, exposed>>

\* A row that was not locked when the list was made is opened; of the others the
\* user opens it read-only or steals it.
Select(p) ==
    /\ At(p, "chosen") /\ ~marked[p]
    /\ Goto(p, "switching")
    /\ UNCHANGED <<life, open, readOnly, rowVars, victim, sm, lockVars, version, refused, exposed>>

SelectReadOnly(p) ==
    /\ At(p, "chosen") /\ marked[p]
    /\ Goto(p, "switching")
    /\ how' = [how EXCEPT ![p] = "read only"]
    /\ UNCHANGED <<life, open, readOnly, target, marked, victim, sm, lockVars, version, refused, exposed>>

-----------------------------------------------------------------------------
(* steal_session_lock.                                                     *)

\* The probe: of a lock that is held, the sidecar tells by whom.
StealLooks(p) ==
    LET s == target[p] IN
    /\ At(p, "chosen") /\ marked[p]
    /\ Goto(p, "killing")
    /\ how' = [how EXCEPT ![p] = "steal"]
    /\ victim' = [victim EXCEPT ![p] = IF holder[s] = Nobody THEN Nobody ELSE meta[s]]
    /\ UNCHANGED <<life, open, readOnly, target, marked, sm, lockVars, version, refused, exposed>>

StealKills(p) ==
    LET v == victim[p] IN
    /\ At(p, "killing")
    /\ \/ /\ v \in up \ {p}
          /\ Dies(v) /\ Forgets(v)
          /\ pc' = [pc EXCEPT ![p] = "taking", ![v] = "idle"]
          /\ victim' = [victim EXCEPT ![p] = Nobody, ![v] = Nobody]
       \/ /\ v \notin up \ {p}
          /\ Goto(p, "taking")
          /\ victim' = [victim EXCEPT ![p] = Nobody]
          /\ UNCHANGED <<up, active, holder, refused, open, readOnly, rowVars, sm>>
    /\ UNCHANGED <<unborn, meta, version, exposed>>

\* Whether it is acquired is not looked at.
StealTakes(p) ==
    LET s == target[p] IN
    /\ At(p, "taking")
    /\ \/ holder[s] = Nobody /\ Takes(p, s) /\ Goto(p, "signing steal")
       \/ holder[s] # Nobody /\ UNCHANGED <<active, holder>> /\ Goto(p, "switching")
    /\ UNCHANGED <<life, open, readOnly, rowVars, victim, sm, meta, version, refused, exposed>>

\* acquire writes its sidecar when it has the lock.
Signs(p) ==
    /\ \/ At(p, "signing") /\ Goto(p, "idle") /\ NoRow(p)
       \/ At(p, "signing steal") /\ Goto(p, "switching") /\ UNCHANGED rowVars
    /\ meta' = [meta EXCEPT ![target[p]] = p]
    /\ UNCHANGED <<life, open, readOnly, victim, sm, active, holder, version, refused, exposed>>

-----------------------------------------------------------------------------
(* load_session_ui.                                                        *)

\* SessionStore.get reads the file before the lock is acquired, and only of a session
\* the process has not in memory: "/new" leaves the ones it has shown there.
SwitchLoads(p) ==
    LET s == target[p]
        shown == how[p] = "read only" IN
    /\ At(p, "switching")
    /\ Releases(p, open[p])
    /\ open' = [open EXCEPT ![p] = s]
    /\ readOnly' = [readOnly EXCEPT ![p] = shown]
    /\ inMemory' = inMemory \cup {<<p, s>>}
    /\ base' = IF <<p, s>> \in inMemory THEN base ELSE [base EXCEPT ![p][s] = version[s]]
    /\ IF shown THEN NoRow(p) ELSE UNCHANGED rowVars
    /\ Goto(p, IF shown THEN "idle" ELSE "loaded")
    /\ refused' = refused \ {p}
    /\ UNCHANGED <<life, victim, meta, version, exposed>>

\* What is locked is not read again.
Exposes(p, s) == exposed' = IF base[p][s] # version[s] THEN exposed \cup {s} ELSE exposed

\* Mutant: the lock is acquired for sharing.
SwitchTakes_shared(p) ==
    LET s == open[p] IN
    /\ At(p, "loaded")
    /\ \/ /\ <<p, s>> \in active
          /\ Goto(p, "idle") /\ NoRow(p)
          /\ UNCHANGED <<active, holder>>
       \/ /\ <<p, s>> \notin active
          /\ Takes(p, s)
          /\ Goto(p, "signing") /\ UNCHANGED rowVars
    /\ Exposes(p, s)
    /\ UNCHANGED <<life, open, readOnly, victim, sm, meta, version, refused>>

\* A refusal is not looked at.
SwitchTakes(p) ==
    LET s == open[p]
        Done == Goto(p, "idle") /\ NoRow(p) IN
    /\ At(p, "loaded")
    /\ \/ /\ <<p, s>> \in active
          /\ Done /\ Exposes(p, s)
          /\ UNCHANGED <<active, holder, refused>>
       \/ /\ <<p, s>> \notin active /\ holder[s] = Nobody
          /\ Takes(p, s)
          /\ Goto(p, "signing") /\ UNCHANGED rowVars
          /\ Exposes(p, s)
          /\ UNCHANGED refused
       \/ /\ <<p, s>> \notin active /\ holder[s] # Nobody
          /\ refused' = IF how[p] = "open" /\ marked[p] THEN refused ELSE refused \cup {p}
          /\ Done
          /\ UNCHANGED <<active, holder, exposed>>
    /\ UNCHANGED <<life, open, readOnly, victim, sm, meta, version>>

-----------------------------------------------------------------------------
(* Work in the open session.                                               *)

\* write_session_data, also by the turn that "/new" has cancelled.
Save(p) ==
    LET s == open[p] IN
    /\ At(p, "idle") \/ At(p, "closing")
    /\ s \in Sessions /\ ~readOnly[p] /\ version[s] < MaxSaves
    /\ version' = [version EXCEPT ![s] = @ + 1]
    /\ base' = [base EXCEPT ![p][s] = version[s] + 1]
    /\ exposed' = IF <<p, s>> \in active THEN exposed ELSE exposed \cup {s}
    /\ UNCHANGED <<life, pc, open, readOnly, rowVars, victim, inMemory, lockVars, refused>>

\* A message typed into a read-only session forks it first.
Fork(p) ==
    /\ At(p, "idle") /\ readOnly[p]
    /\ Releases(p, open[p]) /\ Forgets(p)
    /\ UNCHANGED <<life, pc, victim, sm, meta, version, refused, exposed>>

\* "/new" releases the lock and then waits for the cancelled turn.
NewBegins(p) ==
    /\ At(p, "idle") /\ open[p] # Own
    /\ Releases(p, open[p])
    /\ Goto(p, "closing")
    /\ UNCHANGED <<life, open, readOnly, rowVars, victim, sm, meta, version, refused, exposed>>

NewEnds(p) ==
    /\ At(p, "closing")
    /\ Goto(p, "idle") /\ Forgets(p)
    /\ refused' = refused \ {p}
    /\ UNCHANGED <<life, victim, sm, lockVars, version, exposed>>

-----------------------------------------------------------------------------
Next ==
    \E p \in Pids :
       \/ Start(p) \/ Exit(p)
       \/ \E s \in Sessions : Look(p, s)
       \/ ProbeEnds(p) \/ Leave(p) \/ Select(p) \/ SelectReadOnly(p)
       \/ StealLooks(p) \/ StealKills(p) \/ StealTakes(p) \/ Signs(p)
       \/ SwitchLoads(p) \/ SwitchTakes(p)
       \/ Save(p) \/ Fork(p) \/ NewBegins(p) \/ NewEnds(p)

Spec == Init /\ [][Next]_vars

-----------------------------------------------------------------------------
(* Properties.                                                             *)

Counters == {"idle", "probing", "chosen", "killing", "taking", "signing", "signing steal",
             "switching", "loaded", "closing"}

ProcsOK ==
    /\ up \cap unborn = {} /\ up \cup unborn \subseteq Pids
    /\ pc \in [Pids -> Counters]
    /\ victim \in [Pids -> Pids \cup {Nobody}]
    /\ refused \subseteq up

RowsOK ==
    /\ open \in [Pids -> Sessions \cup {Own}]
    /\ readOnly \in [Pids -> BOOLEAN]
    /\ target \in [Pids -> Sessions \cup {Own}]
    /\ marked \in [Pids -> BOOLEAN]
    /\ how \in [Pids -> {"open", "read only", "steal"}]

LocksOK ==
    /\ active \subseteq up \X Sessions
    /\ holder \in [Sessions -> Pids \cup {Nobody}]
    /\ meta \in [Sessions -> Pids \cup {Nobody}]
    /\ \A p \in Pids, s \in Sessions : <<p, s>> \in active => holder[s] = p

SavesOK ==
    /\ inMemory \subseteq Pids \X Sessions
    /\ base \in [Pids -> [Sessions -> 0 .. MaxSaves]]
    /\ version \in [Sessions -> 0 .. MaxSaves]
    /\ exposed \subseteq Sessions

\* Every variable keeps its shape; the locks a store has listed are the kernel's.
TypeOK == ProcsOK /\ RowsOK /\ LocksOK /\ SavesOK

\* Who can save a session holds its lock, and the sidecar a thief would read
\* names it.  Exceptions: a session "/new" is leaving, and one that was opened
\* although its lock was refused: the list had shown it free, or the steal had
\* failed.
WriterHolds ==
    \A p \in up \ refused : \A s \in Sessions :
       pc[p] = "idle" /\ open[p] = s /\ ~readOnly[p] => holder[s] = p /\ meta[s] = p

Saves(p, s) ==
    open[p] = s /\ version'[s] # version[s] /\ base'[p][s] = version'[s]

\* The same, through steals, deaths and probes, of the sessions that were never
\* saved without their lock, nor locked by a process that had an older version of
\* them: one read before the lock was acquired, or kept in memory since it had
\* them open before.
UpdatesKept ==
    [][\A p \in Pids, s \in Sessions :
         Saves(p, s) /\ s \notin exposed' => base[p][s] = version[s]]_vars
=============================================================================
