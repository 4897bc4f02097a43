------------------------- MODULE MessageFlowProofs -------------------------
(***************************************************************************)
(* For every set of messages and every number of Esc presses and "/new"s:  *)
(* a message is in one place until it is settled, one turn runs at a time, *)
(* and the flow implements the mailbox.                                    *)
(***************************************************************************)
EXTENDS MessageFlow, TLAPS

-----------------------------------------------------------------------------
(* The queue and the ready tasks, as sets.                                 *)

JobType == [kind : JobKinds, msg : Messages \cup {None}]

Elems(s) == {s[i] : i \in DOMAIN s}
Named(r) == {r[i].msg : i \in DOMAIN r}

\* No message is twice in the queue and the ready tasks taken together.
Clean(q, r) ==
    /\ q \in Seq(Messages)
    /\ r \in Seq(JobType)
    /\ \A i, j \in DOMAIN q : q[i] = q[j] => i = j
    /\ \A i, j \in DOMAIN r : r[i].msg = r[j].msg => i = j
    /\ Elems(q) \cap Named(r) = {}

LEMMA JobIsTyped ==
    ASSUME NEW kind \in JobKinds, NEW m \in Messages \cup {None}
    PROVE  /\ Job(kind, m) \in JobType
           /\ Job(kind, m).msg = m
           /\ Job(kind, m).kind = kind
    BY DEF Job, JobType

\* The loop starts the oldest task.
LEMMA StartClean ==
    ASSUME NEW q, NEW r, Clean(q, r), r # <<>>
    PROVE  /\ Clean(q, Tail(r))
           /\ Named(Tail(r)) = Named(r) \ {Head(r).msg}
           /\ Elems(Tail(r)) \subseteq Elems(r)
           /\ Head(r) \in Elems(r)
           /\ Head(r).msg \in Named(r)
    <1> USE DEF Clean
    <1>1. /\ r \in Seq(JobType)
          /\ Len(r) \in Nat
          /\ Len(r) > 0
          /\ DOMAIN r = 1..Len(r)
          /\ Head(r) = r[1]
          /\ Tail(r) \in Seq(JobType)
          /\ DOMAIN Tail(r) = 1..(Len(r) - 1)
          /\ \A i \in DOMAIN Tail(r) : Tail(r)[i] = r[i + 1]
      OBVIOUS
    <1>2. \A i \in DOMAIN Tail(r) : i + 1 \in DOMAIN r /\ i + 1 # 1
      BY <1>1
    <1>3. \A i \in DOMAIN r : i = 1 \/ (i - 1 \in DOMAIN Tail(r) /\ Tail(r)[i - 1] = r[i])
      BY <1>1
    <1>4. Named(Tail(r)) = Named(r) \ {Head(r).msg}
      <2>1. ASSUME NEW i \in DOMAIN Tail(r)
            PROVE  Tail(r)[i].msg \in Named(r) \ {Head(r).msg}
        BY <1>1, <1>2 DEF Named
      <2>2. ASSUME NEW i \in DOMAIN r, r[i].msg # Head(r).msg
            PROVE  r[i].msg \in Named(Tail(r))
        BY <2>2, <1>1, <1>3 DEF Named
      <2>3. Named(Tail(r)) \subseteq Named(r) \ {Head(r).msg}
        BY ONLY <2>1, Zenon DEF Named
      <2>4. Named(r) \ {Head(r).msg} \subseteq Named(Tail(r))
        <3>1. ASSUME NEW x \in Named(r), x # Head(r).msg
              PROVE  x \in Named(Tail(r))
          <4>1. PICK i \in DOMAIN r : r[i].msg = x
            BY DEF Named
          <4> QED BY <4>1, <2>2, <3>1
        <3> QED BY ONLY <3>1, Zenon
      <2> QED BY ONLY <2>3, <2>4, Zenon
    <1>5. \A i, j \in DOMAIN Tail(r) : Tail(r)[i].msg = Tail(r)[j].msg => i = j
      <2> SUFFICES ASSUME NEW i \in DOMAIN Tail(r), NEW j \in DOMAIN Tail(r),
                          Tail(r)[i].msg = Tail(r)[j].msg
                   PROVE  i = j
        OBVIOUS
      <2>1. r[i + 1].msg = r[j + 1].msg
        BY <1>1
      <2>2. i + 1 = j + 1
        BY <2>1, <1>2
      <2> QED BY <2>2, <1>1
    <1>6. Elems(Tail(r)) \subseteq Elems(r)
      BY <1>1, <1>2 DEF Elems
    <1>7. Head(r) \in Elems(r) /\ Head(r).msg \in Named(r)
      BY <1>1 DEF Elems, Named
    <1> QED BY <1>1, <1>4, <1>5, <1>6, <1>7

\* A task is made.
LEMMA AddClean ==
    ASSUME NEW q, NEW r, Clean(q, r), NEW j \in JobType,
           j.msg \notin Elems(q), j.msg \notin Named(r)
    PROVE  /\ Clean(q, Append(r, j))
           /\ Named(Append(r, j)) = Named(r) \cup {j.msg}
           /\ Elems(Append(r, j)) = Elems(r) \cup {j}
    <1> USE DEF Clean
    <1> DEFINE s == Append(r, j)
    <1>1. /\ Len(r) \in Nat
          /\ DOMAIN r = 1..Len(r)
          /\ s \in Seq(JobType)
          /\ DOMAIN s = 1..(Len(r) + 1)
          /\ s[Len(r) + 1] = j
          /\ \A i \in DOMAIN r : s[i] = r[i]
      OBVIOUS
    <1> HIDE DEF s
    <1>2. \A i \in DOMAIN s : (i \in DOMAIN r /\ s[i] = r[i]) \/ (i = Len(r) + 1 /\ s[i] = j)
      BY <1>1
    <1>3. \A i \in DOMAIN r : i \in DOMAIN s /\ s[i] = r[i]
      BY <1>1
    <1>4. Named(s) = Named(r) \cup {j.msg}
      BY <1>1, <1>2, <1>3 DEF Named
    <1>5. Elems(s) = Elems(r) \cup {j}
      BY <1>1, <1>2, <1>3 DEF Elems
    <1>6. \A i, k \in DOMAIN s : s[i].msg = s[k].msg => i = k
      BY <1>1, <1>2 DEF Named
    <1> QED BY <1>1, <1>4, <1>5, <1>6 DEF s

\* A message is queued.
LEMMA QueueClean ==
    ASSUME NEW q, NEW r, Clean(q, r), NEW m \in Messages, m \notin Elems(q), m \notin Named(r)
    PROVE  /\ Clean(Append(q, m), r)
           /\ Elems(Append(q, m)) = Elems(q) \cup {m}
    <1> USE DEF Clean
    <1> DEFINE s == Append(q, m)
    <1>1. /\ Len(q) \in Nat
          /\ DOMAIN q = 1..Len(q)
          /\ s \in Seq(Messages)
          /\ DOMAIN s = 1..(Len(q) + 1)
          /\ s[Len(q) + 1] = m
          /\ \A i \in DOMAIN q : s[i] = q[i]
      OBVIOUS
    <1> HIDE DEF s
    <1>2. \A i \in DOMAIN s : (i \in DOMAIN q /\ s[i] = q[i]) \/ (i = Len(q) + 1 /\ s[i] = m)
      BY <1>1
    <1>3. \A i \in DOMAIN q : i \in DOMAIN s /\ s[i] = q[i]
      BY <1>1
    <1>5. Elems(s) = Elems(q) \cup {m}
      BY <1>1, <1>2, <1>3 DEF Elems
    <1>6. \A i, k \in DOMAIN s : s[i] = s[k] => i = k
      BY <1>1, <1>2 DEF Elems
    <1> QED BY <1>1, <1>5, <1>6 DEF s

\* A message leaves the queue.
LEMMA PopClean ==
    ASSUME NEW q, NEW r, Clean(q, r), q # <<>>
    PROVE  /\ Clean(Tail(q), r)
           /\ Elems(Tail(q)) = Elems(q) \ {Head(q)}
           /\ Head(q) \in Elems(q)
           /\ Head(q) \in Messages
    <1> USE DEF Clean
    <1>1. /\ Len(q) \in Nat
          /\ Len(q) > 0
          /\ DOMAIN q = 1..Len(q)
          /\ Head(q) = q[1]
          /\ Head(q) \in Messages
          /\ Tail(q) \in Seq(Messages)
          /\ DOMAIN Tail(q) = 1..(Len(q) - 1)
          /\ \A i \in DOMAIN Tail(q) : Tail(q)[i] = q[i + 1]
      OBVIOUS
    <1>2. \A i \in DOMAIN Tail(q) : i + 1 \in DOMAIN q /\ i + 1 # 1
      BY <1>1
    <1>3. \A i \in DOMAIN q : i = 1 \/ (i - 1 \in DOMAIN Tail(q) /\ Tail(q)[i - 1] = q[i])
      BY <1>1
    <1>4. Elems(Tail(q)) = Elems(q) \ {Head(q)}
      <2>1. ASSUME NEW i \in DOMAIN Tail(q)
            PROVE  Tail(q)[i] \in Elems(q) \ {Head(q)}
        BY <1>1, <1>2 DEF Elems
      <2>2. ASSUME NEW i \in DOMAIN q, q[i] # Head(q)
            PROVE  q[i] \in Elems(Tail(q))
        BY <2>2, <1>1, <1>3 DEF Elems
      <2> QED BY <2>1, <2>2 DEF Elems
    <1>5. \A i, j \in DOMAIN Tail(q) : Tail(q)[i] = Tail(q)[j] => i = j
      <2> SUFFICES ASSUME NEW i \in DOMAIN Tail(q), NEW j \in DOMAIN Tail(q), Tail(q)[i] = Tail(q)[j]
                   PROVE  i = j
        OBVIOUS
      <2>1. q[i + 1] = q[j + 1]
        BY <1>1
      <2>2. i + 1 = j + 1
        BY <2>1, <1>2
      <2> QED BY <2>2, <1>1
    <1>6. Head(q) \in Elems(q)
      BY <1>1 DEF Elems
    <1> QED BY <1>1, <1>4, <1>5, <1>6

LEMMA EmptyClean ==
    ASSUME NEW q, NEW r, Clean(q, r)
    PROVE  Clean(<<>>, r) /\ Elems(<<>>) = {}
    <1>1. DOMAIN <<>> = {}
      OBVIOUS
    <1>2. Elems(<<>>) = {}
      BY <1>1 DEF Elems
    <1> QED BY <1>1, <1>2 DEF Clean

-----------------------------------------------------------------------------
(* The inductive invariant.                                                *)

Held == Elems(queue) \cup Named(ready)
Open == {m \in Messages : outcome[m] = "open"}

\* Placed, with the ready tasks as a set.
PlacedInv ==
    /\ Clean(queue, ready)
    /\ Open = (Held \ {None}) \cup Compacting
    /\ Compacting \cap Held = {}

\* What a task is, its message and the state of its worker say.
JobOK(j) ==
    /\ IF j.kind = "new" THEN j.msg = None ELSE j.msg \in Messages
    /\ j.kind = "new" => newCommand = "typed"
    /\ j.kind = "worker" => worker[j.msg] = "pending"
    /\ j.kind \in {"slash", "compaction"} => j.msg \in Compacts
    /\ j.kind = "shell" => j.msg \in Shells

Jobs == \A j \in Elems(ready) : JobOK(j)

\* Only "/compact" has a compaction, and it has no worker.
Kinds ==
    \A m \in Messages : /\ worker[m] # "none" => m \notin Compacts
                        /\ compaction[m] # "none" => m \in Compacts

\* Workers that will start a turn when the loop gets to them.
Coming == {m \in Messages : worker[m] = "pending" /\ m \notin cancelled}

\* OneTurn, made inductive: no turn runs beside one that is coming.
Alone ==
    ~carried => /\ \A m, n \in Coming \cup Turns : m = n
                /\ Turns # {} => isGenerating

NewBound == newCommand # "no" => session < MaxNew

IInv == TypeOK /\ PlacedInv /\ Jobs /\ Kinds /\ Alone /\ NewBound

LEMMA NamesOfElems ==
    ASSUME NEW r, NEW j \in Elems(r)
    PROVE  j.msg \in Named(r)
    BY DEF Elems, Named

-----------------------------------------------------------------------------
(* What the operators of the actions do to the queue and the ready tasks.  *)

LEMMA QueueMoves ==
    ASSUME NEW m \in Messages, NEW r, Clean(queue, r),
           m \notin Elems(queue), m \notin Named(r), Queue(m, r)
    PROVE  /\ Clean(queue', ready')
           /\ Held' = Elems(queue) \cup Named(r) \cup {m}
           /\ Elems(ready') = Elems(r)
           /\ UNCHANGED <<worker, cancelled>>
    <1>1. queue' = Append(queue, m) /\ ready' = r /\ UNCHANGED <<worker, cancelled>>
      BY DEF Queue
    <1>2. Clean(Append(queue, m), r) /\ Elems(Append(queue, m)) = Elems(queue) \cup {m}
      BY QueueClean
    <1> QED BY <1>1, <1>2 DEF Held

LEMMA TaskMoves ==
    ASSUME NEW m \in Messages \cup {None}, NEW r, NEW kind \in JobKinds, Clean(queue, r),
           m \notin Elems(queue), m \notin Named(r),
           ready' = Append(r, Job(kind, m)), UNCHANGED queue
    PROVE  /\ Clean(queue', ready')
           /\ Held' = Elems(queue) \cup Named(r) \cup {m}
           /\ Elems(ready') = Elems(r) \cup {Job(kind, m)}
    <1>1. Job(kind, m) \in JobType /\ Job(kind, m).msg = m
      BY JobIsTyped
    <1> DEFINE j == Job(kind, m)
    <1> HIDE DEF j
    <1>2. /\ Clean(queue, Append(r, j))
          /\ Named(Append(r, j)) = Named(r) \cup {j.msg}
          /\ Elems(Append(r, j)) = Elems(r) \cup {j}
      BY <1>1, AddClean DEF j
    <1> QED BY <1>1, <1>2 DEF Held, j

LEMMA TriggerMoves ==
    ASSUME NEW m \in Messages, NEW r, Clean(queue, r),
           m \notin Elems(queue), m \notin Named(r), Trigger(m, r) \/ AddWorker(m, r)
    PROVE  /\ Clean(queue', ready')
           /\ Held' = Elems(queue) \cup Named(r) \cup {m}
           /\ \/ /\ Elems(ready') = Elems(r)
                 /\ UNCHANGED <<worker, cancelled>>
              \/ /\ Elems(ready') = Elems(r) \cup {Job("worker", m)}
                 /\ worker' = [worker EXCEPT ![m] = "pending"]
                 /\ cancelled' = cancelled \cup Workers
    <1>1. CASE Queue(m, r)
      BY <1>1, QueueMoves
    <1>2. CASE AddWorker(m, r)
      <2>1. /\ ready' = Append(r, Job("worker", m))
            /\ UNCHANGED queue
            /\ worker' = [worker EXCEPT ![m] = "pending"]
            /\ cancelled' = cancelled \cup Workers
        BY <1>2 DEF AddWorker
      <2>2. "worker" \in JobKinds
        BY DEF JobKinds
      <2> QED BY <2>1, <2>2, TaskMoves
    <1> QED BY <1>1, <1>2 DEF Trigger

LEMMA ExecCompactMoves ==
    ASSUME NEW m \in Messages, NEW r, Clean(queue, r),
           m \notin Elems(queue), m \notin Named(r), ExecCompact(m, r)
    PROVE  /\ Clean(queue', ready')
           /\ Held' = Elems(queue) \cup Named(r) \cup {m}
           /\ UNCHANGED <<worker, cancelled>>
           /\ \/ /\ Elems(ready') = Elems(r)
                 /\ UNCHANGED <<compaction, compactTask>>
              \/ /\ Elems(ready') = Elems(r) \cup {Job("compaction", m)}
                 /\ compaction' = [compaction EXCEPT ![m] = "pending"]
                 /\ compactTask' = m
    <1>1. CASE Queue(m, r) /\ UNCHANGED <<compaction, compactTask>>
      BY <1>1, QueueMoves
    <1>2. CASE /\ compaction' = [compaction EXCEPT ![m] = "pending"]
               /\ compactTask' = m
               /\ ready' = Append(r, Job("compaction", m))
               /\ UNCHANGED <<queue, worker, cancelled>>
      <2>2. "compaction" \in JobKinds
        BY DEF JobKinds
      <2> QED BY <1>2, <2>2, TaskMoves
    <1> QED BY <1>1, <1>2 DEF ExecCompact

LEMMA PopMoves ==
    ASSUME NEW r, Clean(queue, r), PopQueued(r)
    PROVE  /\ Clean(queue', ready')
           /\ Held' = Elems(queue) \cup Named(r)
           /\ \A j \in Elems(ready') :
                j \in Elems(r) \/ \E m \in Messages : j = Job("drained", m)
    <1>1. CASE queue = <<>>
      BY <1>1 DEF PopQueued, Held
    <1>2. CASE queue # <<>>
      <2> DEFINE m == Head(queue)
      <2>1. queue' = Tail(queue) /\ ready' = Append(r, Job("drained", m))
        BY <1>2 DEF PopQueued
      <2>2. /\ Clean(Tail(queue), r)
            /\ Elems(Tail(queue)) = Elems(queue) \ {m}
            /\ m \in Elems(queue)
            /\ m \in Messages
        BY <1>2, PopClean
      <2>3. Elems(queue) \cap Named(r) = {}
        BY DEF Clean
      <2>4. "drained" \in JobKinds
        BY DEF JobKinds
      <2> DEFINE j == Job("drained", m)
      <2>5. j \in JobType /\ j.msg = m
        BY <2>2, <2>4, JobIsTyped
      <2> HIDE DEF m, j
      <2>6. /\ Clean(Tail(queue), Append(r, j))
            /\ Named(Append(r, j)) = Named(r) \cup {j.msg}
            /\ Elems(Append(r, j)) = Elems(r) \cup {j}
        BY <2>2, <2>3, <2>5, AddClean
      <2>7. queue' = Tail(queue) /\ ready' = Append(r, j)
        BY <2>1 DEF j
      <2>8. Held' = Elems(queue) \cup Named(r)
        BY <2>7, <2>6, <2>5, <2>2 DEF Held
      <2> QED BY <2>2, <2>6, <2>7, <2>8 DEF j
    <1> QED BY <1>1, <1>2

\* What is known of the task the loop starts.
LEMMA StartFacts ==
    ASSUME IInv, NEW kind \in JobKinds, NEW m \in Messages \cup {None}, Starts(kind, m)
    PROVE  /\ Clean(queue, Tail(ready))
           /\ Elems(queue) \cup Named(Tail(ready)) = Held \ {m}
           /\ m \notin Elems(queue)
           /\ m \notin Named(Tail(ready))
           /\ m \in Held
           /\ m \notin Compacting
           /\ \A j \in Elems(Tail(ready)) : JobOK(j) /\ j.msg # m
           /\ JobOK(Job(kind, m))
    <1>1. Clean(queue, ready) /\ Compacting \cap Held = {}
      BY DEF IInv, PlacedInv
    <1>2. ready # <<>> /\ Head(ready) = Job(kind, m)
      BY DEF Starts
    <1>3. Job(kind, m).msg = m
      BY JobIsTyped
    <1>4. /\ Clean(queue, Tail(ready))
          /\ Named(Tail(ready)) = Named(ready) \ {m}
          /\ Elems(Tail(ready)) \subseteq Elems(ready)
          /\ Job(kind, m) \in Elems(ready)
          /\ m \in Named(ready)
      <2>1. /\ Clean(queue, Tail(ready))
            /\ Named(Tail(ready)) = Named(ready) \ {Head(ready).msg}
            /\ Elems(Tail(ready)) \subseteq Elems(ready)
            /\ Head(ready) \in Elems(ready)
            /\ Head(ready).msg \in Named(ready)
        BY <1>1, <1>2, StartClean
      <2>2. Head(ready).msg = m
        BY <1>2, <1>3
      <2> QED BY <2>1, <2>2, <1>2
    <1>5. m \notin Elems(queue)
      BY <1>1, <1>4 DEF Clean
    <1>6. \A j \in Elems(ready) : JobOK(j)
      BY DEF IInv, Jobs
    <1>7. ASSUME NEW j \in Elems(Tail(ready))
          PROVE  JobOK(j) /\ j.msg # m
      <2>1. j.msg \in Named(Tail(ready))
        BY NamesOfElems
      <2> QED BY <2>1, <1>4, <1>6
    <1> QED BY <1>1, <1>4, <1>5, <1>6, <1>7 DEF Held

\* A message that has just arrived is nowhere yet.
LEMMA NewFacts ==
    ASSUME IInv, NEW m \in Messages, outcome[m] = "new"
    PROVE  /\ Clean(queue, ready)
           /\ m \notin Elems(queue)
           /\ m \notin Named(ready)
           /\ m \notin Compacting
    <1>1. m \notin Open /\ m # None
      BY KindsAssumption DEF Open
    <1> QED BY <1>1 DEF IInv, PlacedInv, Held

\* The messages not settled after a step.
LEMMA OpenMoves ==
    ASSUME TypeOK, NEW ms \in SUBSET Messages, NEW what, Become(ms, what)
    PROVE  Open' = IF what = "open" THEN Open \cup ms ELSE Open \ ms
    <1>1. \A m \in Messages : outcome'[m] = IF m \in ms THEN what ELSE outcome[m]
      BY DEF Become
    <1> QED BY <1>1 DEF Open

LEMMA OneOpenMoves ==
    ASSUME TypeOK, NEW m \in Messages, NEW what, Becomes(m, what)
    PROVE  Open' = IF what = "open" THEN Open \cup {m} ELSE Open \ {m}
    <1>1. {m} \in SUBSET Messages /\ Become({m}, what)
      BY DEF Becomes
    <1> QED BY <1>1, OpenMoves

\* Tasks stay what they are while their workers stay pending.
LEMMA JobsStay ==
    ASSUME NEW R, \A j \in R : JobOK(j),
           newCommand' = newCommand \/ \A j \in R : j.kind # "new",
           \A j \in R : j.kind = "worker" => worker'[j.msg] = "pending"
    PROVE  \A j \in R : JobOK(j)'
    BY DEF JobOK

\* The tasks after a step of Trigger or ExecCompact.
LEMMA TriggerJobs ==
    ASSUME TypeOK, NEW m \in Messages, NEW R, \A j \in R : JobOK(j), UNCHANGED newCommand,
           \/ UNCHANGED worker /\ Elems(ready') = R
           \/ /\ worker' = [worker EXCEPT ![m] = "pending"]
              /\ Elems(ready') = R \cup {Job("worker", m)}
    PROVE  Jobs'
    <1>1. \A j \in R : j.kind = "worker" => worker[j.msg] = "pending"
      BY DEF JobOK
    <1>2. CASE UNCHANGED worker /\ Elems(ready') = R
      <2>1. \A j \in R : JobOK(j)'
        BY <1>1, <1>2, JobsStay
      <2> QED BY <2>1, <1>2 DEF Jobs
    <1>3. CASE /\ worker' = [worker EXCEPT ![m] = "pending"]
               /\ Elems(ready') = R \cup {Job("worker", m)}
      <2>1. worker \in [Messages -> {"none", "pending", "running", "saving", "done"}]
        BY DEF TypeOK
      <2>2. DOMAIN worker = Messages /\ worker'[m] = "pending"
        BY <1>3, <2>1
      <2>3. \A j \in R : j.kind = "worker" => worker'[j.msg] = "pending"
        <3> SUFFICES ASSUME NEW j \in R, j.kind = "worker"
                     PROVE  worker'[j.msg] = "pending"
          OBVIOUS
        <3>1. worker[j.msg] = "pending" /\ j.msg \in Messages
          BY DEF JobOK
        <3> QED BY <3>1, <1>3, <2>1
      <2>4. \A j \in R : JobOK(j)'
        BY <2>3, JobsStay
      <2>5. JobOK(Job("worker", m))'
        BY <2>2, KindsAssumption DEF JobOK, Job
      <2> QED BY <2>4, <2>5, <1>3 DEF Jobs
    <1> QED BY <1>2, <1>3

-----------------------------------------------------------------------------
(* Each action keeps every message in its one place and every task what it *)
(* is.                                                                     *)

LEMMA InputPlaced ==
    ASSUME IInv, NEW m \in Messages, SubmitPrompt(m) \/ SubmitCommand(m) \/ ShellNotify(m)
    PROVE  PlacedInv' /\ Jobs'
    <1>1. /\ outcome[m] = "new"
          /\ Becomes(m, "open")
          /\ UNCHANGED <<compaction, newCommand>>
      BY DEF SubmitPrompt, SubmitCommand, ShellNotify, newVars
    <1>2. /\ Clean(queue, ready)
          /\ m \notin Elems(queue)
          /\ m \notin Named(ready)
          /\ m \notin Compacting
      BY <1>1, NewFacts
    <1>3. TypeOK /\ PlacedInv /\ \A j \in Elems(ready) : JobOK(j)
      BY DEF IInv, Jobs
    <1>4. Open' = Open \cup {m} /\ Compacting' = Compacting
      BY <1>1, <1>3, OneOpenMoves DEF Compacting
    <1>5. ASSUME Clean(queue', ready'), Held' = Elems(queue) \cup Named(ready) \cup {m}
          PROVE  PlacedInv'
      <2>1. m # None
        BY KindsAssumption
      <2> QED BY <1>2, <1>3, <1>4, <1>5, <2>1 DEF PlacedInv, Held
    <1>6. CASE Trigger(m, ready) \/ AddWorker(m, ready)
      <2>1. /\ Clean(queue', ready')
            /\ Held' = Elems(queue) \cup Named(ready) \cup {m}
            /\ \/ UNCHANGED worker /\ Elems(ready') = Elems(ready)
               \/ /\ worker' = [worker EXCEPT ![m] = "pending"]
                  /\ Elems(ready') = Elems(ready) \cup {Job("worker", m)}
        BY <1>2, <1>6, TriggerMoves
      <2>2. Jobs'
        BY <2>1, <1>1, <1>3, TriggerJobs
      <2> QED BY <2>1, <2>2, <1>5
    <1>7. CASE Queue(m, ready)
      <2>1. /\ Clean(queue', ready')
            /\ Held' = Elems(queue) \cup Named(ready) \cup {m}
            /\ UNCHANGED worker /\ Elems(ready') = Elems(ready)
        BY <1>2, <1>7, QueueMoves
      <2>2. Jobs'
        BY <2>1, <1>1, <1>3, TriggerJobs
      <2> QED BY <2>1, <2>2, <1>5
    <1>8. CASE \E kind \in {"shell", "slash"} :
                 /\ ready' = Append(ready, Job(kind, m))
                 /\ UNCHANGED <<queue, worker, cancelled>>
                 /\ kind = "shell" => m \in Shells
                 /\ kind = "slash" => m \in Compacts
      <2>1. PICK kind \in {"shell", "slash"} :
                 /\ ready' = Append(ready, Job(kind, m))
                 /\ UNCHANGED <<queue, worker, cancelled>>
                 /\ kind = "shell" => m \in Shells
                 /\ kind = "slash" => m \in Compacts
        BY <1>8
      <2>2. kind \in JobKinds
        BY DEF JobKinds
      <2>3. /\ Clean(queue', ready')
            /\ Held' = Elems(queue) \cup Named(ready) \cup {m}
            /\ Elems(ready') = Elems(ready) \cup {Job(kind, m)}
        BY <1>2, <2>1, <2>2, TaskMoves
      <2>4. \A j \in Elems(ready) : JobOK(j)'
        BY <1>1, <1>3, <2>1, JobsStay DEF JobOK
      <2>5. JobOK(Job(kind, m))'
        BY <2>1, KindsAssumption DEF JobOK, Job
      <2>6. Jobs'
        BY <2>3, <2>4, <2>5 DEF Jobs
      <2> QED BY <2>3, <2>6, <1>5
    <1>9. CASE SubmitCommand(m)
      <2>1. m \in Shells \cup Compacts
        BY <1>9 DEF SubmitCommand
      <2>2. CASE Busy
        BY <2>2, <1>9, <1>7 DEF SubmitCommand
      <2>3. CASE ~ Busy
        <3>1. /\ ready' = Append(ready, Job(IF m \in Shells THEN "shell" ELSE "slash", m))
              /\ UNCHANGED <<queue, worker, cancelled>>
          BY <2>3, <1>9 DEF SubmitCommand
        <3>2. CASE m \in Shells
          <4>1. ready' = Append(ready, Job("shell", m))
            BY <3>1, <3>2
          <4> QED BY <4>1, <3>1, <3>2, <1>8
        <3>3. CASE m \notin Shells
          <4>1. ready' = Append(ready, Job("slash", m)) /\ m \in Compacts
            BY <3>1, <3>3, <2>1
          <4> QED BY <4>1, <3>1, <1>8
        <3> QED BY <3>2, <3>3
      <2> QED BY <2>2, <2>3
    <1>10. CASE SubmitPrompt(m)
      BY <1>10, <1>6 DEF SubmitPrompt
    <1>11. CASE ShellNotify(m)
      <2>1. Queue(m, ready) \/ AddWorker(m, ready)
        BY <1>11 DEF ShellNotify
      <2> QED BY <2>1, <1>6, <1>7
    <1> QED BY <1>9, <1>10, <1>11

LEMMA NewCommandPlaced ==
    ASSUME IInv, SubmitNew
    PROVE  PlacedInv' /\ Jobs'
    <1>1. /\ newCommand = "no"
          /\ newCommand' = "typed"
          /\ ready' = Append(ready, Job("new", None))
          /\ UNCHANGED <<queue, worker, compaction, outcome>>
      BY DEF SubmitNew
    <1>2. PlacedInv /\ Clean(queue, ready) /\ \A j \in Elems(ready) : JobOK(j)
      BY DEF IInv, PlacedInv, Jobs
    <1>3. None \notin Elems(queue)
      BY <1>2, KindsAssumption DEF Clean, Elems
    <1>4. None \notin Named(ready)
      <2> SUFFICES ASSUME NEW i \in DOMAIN ready, ready[i].msg = None
                   PROVE  FALSE
        BY DEF Named
      <2>1. JobOK(ready[i])
        BY <1>2 DEF Elems
      <2> QED BY <2>1, <1>1, KindsAssumption DEF JobOK
    <1>5. "new" \in JobKinds
      BY DEF JobKinds
    <1>6. /\ Clean(queue', ready')
          /\ Held' = Held \cup {None}
          /\ Elems(ready') = Elems(ready) \cup {Job("new", None)}
      BY <1>1, <1>2, <1>3, <1>4, <1>5, TaskMoves DEF Held
    <1>7. Open' = Open /\ Compacting' = Compacting
      BY <1>1 DEF Open, Compacting
    <1>8. None \notin Compacting
      BY KindsAssumption DEF Compacting
    <1>9. PlacedInv'
      BY <1>2, <1>6, <1>7, <1>8 DEF PlacedInv
    <1>10. \A j \in Elems(ready) : JobOK(j)'
      BY <1>1, <1>2 DEF JobOK
    <1>11. JobOK(Job("new", None))'
      BY <1>1 DEF JobOK, Job
    <1> QED BY <1>6, <1>9, <1>10, <1>11 DEF Jobs

LEMMA DispatchPlaced ==
    ASSUME IInv, NEW m \in Messages, QueuedYields(m) \/ QueuedDispatches(m) \/ SlashStarts(m)
    PROVE  PlacedInv' /\ Jobs'
    <1>1. PICK kind \in {"drained", "dispatch", "slash"} : Starts(kind, m)
      BY DEF QueuedYields, QueuedDispatches, SlashStarts
    <1>2. kind \in JobKinds
      BY DEF JobKinds
    <1> DEFINE r == Tail(ready)
    <1>3. /\ Clean(queue, r)
          /\ Elems(queue) \cup Named(r) = Held \ {m}
          /\ m \notin Elems(queue)
          /\ m \notin Named(r)
          /\ m \in Held
          /\ m \notin Compacting
          /\ \A j \in Elems(r) : JobOK(j) /\ j.msg # m
          /\ JobOK(Job(kind, m))
      BY <1>1, <1>2, StartFacts
    <1>4. UNCHANGED <<outcome, newCommand>>
      BY DEF QueuedYields, QueuedDispatches, SlashStarts, newVars
    <1>5. TypeOK /\ PlacedInv /\ m # None
      BY KindsAssumption DEF IInv
    <1> HIDE DEF r
    <1>6. ASSUME Clean(queue', ready'), Held' = Elems(queue) \cup Named(r) \cup {m},
                 Compacting' = Compacting
          PROVE  PlacedInv'
      <2>1. Held' = Held /\ Open' = Open
        BY <1>3, <1>4, <1>6 DEF Open
      <2> QED BY <2>1, <1>5, <1>6 DEF PlacedInv
    <1>7. CASE \E k \in {"dispatch", "shell"} :
                 /\ ready' = Append(r, Job(k, m))
                 /\ UNCHANGED <<queue, worker, compaction>>
                 /\ k = "shell" => m \in Shells
      <2>1. PICK k \in {"dispatch", "shell"} :
                 /\ ready' = Append(r, Job(k, m))
                 /\ UNCHANGED <<queue, worker, compaction>>
                 /\ k = "shell" => m \in Shells
        BY <1>7
      <2>2. k \in JobKinds
        BY DEF JobKinds
      <2>3. /\ Clean(queue', ready')
            /\ Held' = Elems(queue) \cup Named(r) \cup {m}
            /\ Elems(ready') = Elems(r) \cup {Job(k, m)}
        BY <1>3, <2>1, <2>2, TaskMoves
      <2>4. \A j \in Elems(r) : JobOK(j)'
        BY <1>3, <1>4, <2>1, JobsStay DEF JobOK
      <2>5. JobOK(Job(k, m))'
        BY <2>1, <1>5 DEF JobOK, Job
      <2>6. Compacting' = Compacting
        BY <2>1 DEF Compacting
      <2> QED BY <2>3, <2>4, <2>5, <2>6, <1>6 DEF Jobs
    <1>8. CASE ExecCompact(m, r) /\ m \in Compacts
      <2>1. /\ Clean(queue', ready')
            /\ Held' = Elems(queue) \cup Named(r) \cup {m}
            /\ UNCHANGED <<worker, cancelled>>
            /\ \/ /\ Elems(ready') = Elems(r)
                  /\ UNCHANGED <<compaction, compactTask>>
               \/ /\ Elems(ready') = Elems(r) \cup {Job("compaction", m)}
                  /\ compaction' = [compaction EXCEPT ![m] = "pending"]
                  /\ compactTask' = m
        BY <1>3, <1>8, ExecCompactMoves
      <2>2. compaction \in [Messages -> {"none", "pending", "running", "done"}]
        BY <1>5 DEF TypeOK
      <2>3. Compacting' = Compacting
        BY <2>1, <2>2, <1>3 DEF Compacting
      <2>4. \A j \in Elems(r) : JobOK(j)'
        BY <1>3, <1>4, <2>1, JobsStay DEF JobOK
      <2>5. JobOK(Job("compaction", m))'
        BY <1>8, <1>5 DEF JobOK, Job
      <2> QED BY <2>1, <2>3, <2>4, <2>5, <1>6 DEF Jobs
    <1>9. CASE Trigger(m, r) /\ UNCHANGED compaction
      <2>1. /\ Clean(queue', ready')
            /\ Held' = Elems(queue) \cup Named(r) \cup {m}
            /\ \/ UNCHANGED worker /\ Elems(ready') = Elems(r)
               \/ /\ worker' = [worker EXCEPT ![m] = "pending"]
                  /\ Elems(ready') = Elems(r) \cup {Job("worker", m)}
        BY <1>3, <1>9, TriggerMoves
      <2>2. \A j \in Elems(r) : JobOK(j)
        BY <1>3
      <2>3. Jobs'
        BY <2>1, <2>2, <1>4, <1>5, TriggerJobs
      <2>4. Compacting' = Compacting
        BY <1>9 DEF Compacting
      <2> QED BY <2>1, <2>3, <2>4, <1>6
    <1>10. CASE QueuedYields(m)
      <2>1. ready' = Append(r, Job("dispatch", m)) /\ UNCHANGED <<queue, worker, compaction>>
        BY <1>10 DEF QueuedYields, r
      <2> QED BY <2>1, <1>7
    <1>11. CASE QueuedDispatches(m)
      <2>1. \/ m \in Shells /\ ready' = Append(r, Job("shell", m))
                /\ UNCHANGED <<queue, worker, compaction>>
            \/ m \in Compacts /\ ExecCompact(m, r)
            \/ Trigger(m, r) /\ UNCHANGED compaction
        BY <1>11 DEF QueuedDispatches, r
      <2> QED BY <2>1, <1>7, <1>8, <1>9
    <1>12. CASE SlashStarts(m)
      <2>1. ExecCompact(m, r) /\ Starts("slash", m)
        BY <1>12 DEF SlashStarts, r
      <2>2. Job("slash", m) = Job(kind, m)
        BY <2>1, <1>1 DEF Starts
      <2>3. m \in Compacts
        BY <2>2, <1>3 DEF JobOK, Job
      <2> QED BY <2>1, <2>3, <1>8
    <1> QED BY <1>10, <1>11, <1>12

\* The tasks that settle the message they stand for, or hand it to a
\* compaction.
LEMMA StartPlaced ==
    ASSUME IInv, NEW m \in Messages,
           \/ ShellStarts(m) \/ WorkerNeverRuns(m) \/ WorkerRefuses(m) \/ TurnStarts(m)
           \/ CompactionNeverRuns(m) \/ CompactionStarts(m)
    PROVE  PlacedInv' /\ Jobs'
    <1>1. PICK kind \in {"shell", "worker", "compaction"} : Starts(kind, m)
      BY DEF ShellStarts, WorkerNeverRuns, WorkerRefuses, TurnStarts, CompactionNeverRuns,
             CompactionStarts
    <1>2. kind \in JobKinds
      BY DEF JobKinds
    <1> DEFINE r == Tail(ready)
    <1>3. /\ Clean(queue, r)
          /\ Elems(queue) \cup Named(r) = Held \ {m}
          /\ m \in Held
          /\ m \notin Compacting
          /\ \A j \in Elems(r) : JobOK(j) /\ j.msg # m
      BY <1>1, <1>2, StartFacts
    <1>4. TypeOK /\ PlacedInv /\ m # None
      BY KindsAssumption DEF IInv
    <1> HIDE DEF r
    <1>5. ready' = r /\ UNCHANGED <<queue, newCommand>>
      BY DEF ShellStarts, WorkerNeverRuns, WorkerRefuses, TurnStarts, CompactionNeverRuns,
             CompactionStarts, newVars, r
    <1>6. Clean(queue', ready') /\ Held' = Held \ {m}
      BY <1>3, <1>5 DEF Held
    <1>7. Jobs'
      <2>1. worker \in [Messages -> {"none", "pending", "running", "saving", "done"}]
        BY <1>4 DEF TypeOK
      <2>2. \/ UNCHANGED worker
            \/ \E w \in {"running", "done"} : worker' = [worker EXCEPT ![m] = w]
        BY DEF ShellStarts, WorkerNeverRuns, WorkerRefuses, TurnStarts, CompactionNeverRuns,
               CompactionStarts
      <2>3. \A j \in Elems(r) : j.kind = "worker" => worker'[j.msg] = worker[j.msg]
        <3> SUFFICES ASSUME NEW j \in Elems(r), j.kind = "worker"
                     PROVE  worker'[j.msg] = worker[j.msg]
          OBVIOUS
        <3>1. j.msg \in Messages /\ j.msg # m
          BY <1>3 DEF JobOK
        <3> QED BY <3>1, <2>1, <2>2
      <2>4. \A j \in Elems(r) : j.kind = "worker" => worker'[j.msg] = "pending"
        BY <2>3, <1>3 DEF JobOK
      <2>5. \A j \in Elems(r) : JobOK(j)'
        BY <2>4, <1>3, <1>5, JobsStay
      <2> QED BY <2>5, <1>5 DEF Jobs
    <1>8. CASE CompactionStarts(m)
      <2>1. /\ UNCHANGED outcome
            /\ compaction' = [compaction EXCEPT ![m] = "running"]
        BY <1>8 DEF CompactionStarts
      <2>2. Open' = Open /\ Compacting' = Compacting \cup {m}
        BY <2>1, <1>4 DEF Open, Compacting, TypeOK
      <2>3. PlacedInv'
        BY <2>2, <1>3, <1>4, <1>6 DEF PlacedInv
      <2> QED BY <2>3, <1>7
    <1>9. CASE ~ CompactionStarts(m)
      <2>1. \E what \in {"ran", "lost", "refused", "sent"} : Becomes(m, what)
        BY <1>9 DEF ShellStarts, WorkerNeverRuns, WorkerRefuses, TurnStarts, CompactionNeverRuns
      <2>2. Open' = Open \ {m}
        BY <2>1, <1>4, OneOpenMoves
      <2>3. Compacting' = Compacting
        <3>1. UNCHANGED compaction \/ compaction' = [compaction EXCEPT ![m] = "done"]
          BY <1>9 DEF ShellStarts, WorkerNeverRuns, WorkerRefuses, TurnStarts, CompactionNeverRuns
        <3> QED BY <3>1, <1>3, <1>4 DEF Compacting, TypeOK
      <2>4. PlacedInv'
        BY <2>2, <2>3, <1>3, <1>4, <1>6 DEF PlacedInv
      <2> QED BY <2>4, <1>7
    <1> QED BY <1>8, <1>9

LEMMA NewStartsPlaced ==
    ASSUME IInv, NewStarts
    PROVE  PlacedInv' /\ Jobs'
    <1>1. /\ Starts("new", None)
          /\ ready' = Tail(ready)
          /\ UNCHANGED <<queue, worker, compaction, outcome>>
      BY DEF NewStarts
    <1>2. "new" \in JobKinds
      BY DEF JobKinds
    <1>3. /\ Clean(queue, Tail(ready))
          /\ Elems(queue) \cup Named(Tail(ready)) = Held \ {None}
          /\ \A j \in Elems(Tail(ready)) : JobOK(j) /\ j.msg # None
      BY <1>1, <1>2, StartFacts
    <1>4. Clean(queue', ready') /\ Held' = Held \ {None}
      BY <1>1, <1>3 DEF Held
    <1>5. Open' = Open /\ Compacting' = Compacting
      BY <1>1 DEF Open, Compacting
    <1>6. PlacedInv'
      BY <1>4, <1>5 DEF IInv, PlacedInv
    <1>7. \A j \in Elems(Tail(ready)) : JobOK(j)'
      BY <1>1, <1>3 DEF JobOK
    <1> QED BY <1>1, <1>6, <1>7 DEF Jobs

\* Release and the other places that pop the queue.
LEMMA PopJobs ==
    ASSUME TypeOK, PlacedInv, Jobs, UNCHANGED newCommand, PopQueued(ready) \/ UNCHANGED <<queue, ready>>,
           NEW m \in Messages, worker[m] # "pending",
           UNCHANGED worker \/ worker' = [worker EXCEPT ![m] = "done"]
                            \/ worker' = [worker EXCEPT ![m] = "saving"]
    PROVE  /\ Clean(queue', ready')
           /\ Held' = Held
           /\ Jobs'
    <1>1. Clean(queue, ready)
      BY DEF PlacedInv
    <1>2. /\ Clean(queue', ready')
          /\ Held' = Held
          /\ \A j \in Elems(ready') :
               j \in Elems(ready) \/ \E x \in Messages : j = Job("drained", x)
      <2>1. CASE PopQueued(ready)
        BY <2>1, <1>1, PopMoves DEF Held
      <2>2. CASE UNCHANGED <<queue, ready>>
        BY <2>2, <1>1 DEF Held
      <2> QED BY <2>1, <2>2
    <1>3. \A j \in Elems(ready) : JobOK(j)'
      <2>1. \A j \in Elems(ready) : JobOK(j)
        BY DEF Jobs
      <2>2. \A j \in Elems(ready) : j.kind = "worker" => worker'[j.msg] = "pending"
        <3> SUFFICES ASSUME NEW j \in Elems(ready), j.kind = "worker"
                     PROVE  worker'[j.msg] = "pending"
          OBVIOUS
        <3>1. worker[j.msg] = "pending" /\ j.msg \in Messages
          BY <2>1 DEF JobOK
        <3>2. j.msg # m
          BY <3>1
        <3>3. worker \in [Messages -> {"none", "pending", "running", "saving", "done"}]
          BY DEF TypeOK
        <3> QED BY <3>1, <3>2, <3>3
      <2> QED BY <2>1, <2>2, JobsStay
    <1>4. \A x \in Messages : JobOK(Job("drained", x))'
      BY KindsAssumption DEF JobOK, Job
    <1> QED BY <1>2, <1>3, <1>4 DEF Jobs

LEMMA ProceedPlaced ==
    ASSUME IInv, NEW m \in Messages, Proceeds(m)
    PROVE  PlacedInv' /\ Jobs'
    <1>1. TypeOK /\ PlacedInv /\ Jobs /\ Kinds
      BY DEF IInv
    <1>2. CASE TurnEnds(m) \/ SaveEnds(m) \/ SaveCut(m)
      <2>1. /\ worker[m] \in {"running", "saving"}
            /\ UNCHANGED <<compaction, outcome, newCommand>>
            /\ PopQueued(ready) \/ UNCHANGED <<queue, ready>>
            /\ worker' = [worker EXCEPT ![m] = "done"] \/ worker' = [worker EXCEPT ![m] = "saving"]
        BY <1>2 DEF TurnEnds, SaveEnds, SaveCut, Release, newVars
      <2>2. Clean(queue', ready') /\ Held' = Held /\ Jobs'
        BY <2>1, <1>1, PopJobs
      <2>3. Open' = Open /\ Compacting' = Compacting
        BY <2>1 DEF Open, Compacting
      <2> QED BY <2>2, <2>3, <1>1 DEF PlacedInv
    <1>3. CASE ShellEnds(m)
      <2>1. /\ UNCHANGED <<worker, compaction, outcome, newCommand>>
            /\ PopQueued(ready) \/ UNCHANGED <<queue, ready>>
            /\ m \in Shells
        BY <1>3, <1>1 DEF ShellEnds, newVars, TypeOK
      <2>2. \A j \in Elems(ready) : JobOK(j)'
        BY <2>1, <1>1 DEF Jobs, JobOK
      <2>3. /\ Clean(queue', ready')
            /\ Held' = Held
            /\ \A j \in Elems(ready') :
                 j \in Elems(ready) \/ \E x \in Messages : j = Job("drained", x)
        <3>1. CASE PopQueued(ready)
          BY <3>1, <1>1, PopMoves DEF Held, PlacedInv
        <3>2. CASE UNCHANGED <<queue, ready>>
          BY <3>2, <1>1 DEF Held, PlacedInv
        <3> QED BY <2>1, <3>1, <3>2
      <2>4. \A x \in Messages : JobOK(Job("drained", x))'
        BY KindsAssumption DEF JobOK, Job
      <2>5. Open' = Open /\ Compacting' = Compacting
        BY <2>1 DEF Open, Compacting
      <2> QED BY <2>2, <2>3, <2>4, <2>5, <1>1 DEF PlacedInv, Jobs
    <1>4. CASE CompactionEnds(m)
      <2>1. /\ compaction[m] = "running"
            /\ compaction' = [compaction EXCEPT ![m] = "done"]
            /\ \E what \in {"stopped", "compacted"} : Becomes(m, what)
            /\ PopQueued(ready)
            /\ UNCHANGED <<worker, newCommand>>
        BY <1>4 DEF CompactionEnds, newVars
      <2>2. m \in Compacts /\ worker[m] # "pending"
        BY <2>1, <1>1 DEF Kinds
      <2>3. Clean(queue', ready') /\ Held' = Held /\ Jobs'
        BY <2>1, <2>2, <1>1, PopJobs
      <2>4. Open' = Open \ {m}
        BY <2>1, <1>1, OneOpenMoves
      <2>5. Compacting' = Compacting \ {m} /\ m \in Compacting
        BY <2>1, <1>1 DEF Compacting, TypeOK
      <2>6. PlacedInv'
        BY <2>3, <2>4, <2>5, <1>1 DEF PlacedInv
      <2> QED BY <2>3, <2>6
    <1> QED BY <1>2, <1>3, <1>4 DEF Proceeds

\* A turn takes the whole queue, or "/new" throws it away.
LEMMA EmptiedPlaced ==
    ASSUME IInv, NewResets \/ \E m \in Messages : TurnDrains(m)
    PROVE  PlacedInv' /\ Jobs'
    <1>1. /\ queue' = <<>>
          /\ \E what \in {"sent", "discarded"} : Become(QueuedMessages, what)
          /\ UNCHANGED <<ready, worker, compaction>>
          /\ newCommand' = newCommand \/ newCommand = "waiting"
      BY DEF NewResets, TurnDrains, newVars
    <1>2. TypeOK /\ PlacedInv /\ Jobs /\ Clean(queue, ready)
      BY DEF IInv, PlacedInv
    <1>3. QueuedMessages = Elems(queue) /\ Elems(queue) \in SUBSET Messages
      BY <1>2 DEF QueuedMessages, Elems, Clean
    <1>4. Open' = Open \ Elems(queue)
      BY <1>1, <1>2, <1>3, OpenMoves
    <1>5. Clean(queue', ready') /\ Elems(queue') = {}
      BY <1>1, <1>2, EmptyClean
    <1>6. Held' = Held \ Elems(queue)
      BY <1>1, <1>2, <1>5 DEF Held, Clean
    <1>7. Compacting' = Compacting
      BY <1>1 DEF Compacting
    <1>8. PlacedInv'
      BY <1>2, <1>4, <1>5, <1>6, <1>7, KindsAssumption DEF PlacedInv, Held
    <1>9. Jobs'
      BY <1>1, <1>2 DEF Jobs, JobOK
    <1> QED BY <1>8, <1>9

\* A choice in a screen makes no task, and there is no "/new" among the ready.
LEMMA ChosenPlaced ==
    ASSUME IInv, Chosen
    PROVE  PlacedInv' /\ Jobs'
    <1>1. /\ newCommand = "no"
          /\ UNCHANGED <<queue, ready, worker, compaction, outcome>>
      BY DEF Chosen
    <1>2. PlacedInv'
      BY <1>1 DEF IInv, PlacedInv, Open, Held, Compacting
    <1>3. Jobs'
      BY <1>1 DEF IInv, Jobs, JobOK
    <1> QED BY <1>2, <1>3

LEMMA PlacedStep ==
    ASSUME IInv, [Next]_vars
    PROVE  PlacedInv' /\ Jobs'
    <1>1. CASE PressEsc \/ (\E m \in Messages : NewInsists(m)) \/ UNCHANGED vars
      <2>1. UNCHANGED <<queue, ready, outcome, compaction, worker, newCommand>>
        BY <1>1 DEF PressEsc, NewInsists, vars, newVars
      <2>2. PlacedInv'
        BY <2>1 DEF IInv, PlacedInv, Open, Held, Compacting
      <2>3. Jobs'
        BY <2>1 DEF IInv, Jobs, JobOK
      <2> QED BY <2>2, <2>3
    <1>2. CASE \E m \in Messages : SubmitPrompt(m) \/ SubmitCommand(m) \/ ShellNotify(m)
      BY <1>2, InputPlaced
    <1>3. CASE \E m \in Messages : StartsTask(m)
      <2> PICK m \in Messages : StartsTask(m)
        BY <1>3
      <2>1. CASE QueuedYields(m) \/ QueuedDispatches(m) \/ SlashStarts(m)
        BY <2>1, DispatchPlaced
      <2>2. CASE \/ ShellStarts(m) \/ WorkerNeverRuns(m) \/ WorkerRefuses(m) \/ TurnStarts(m)
                 \/ CompactionNeverRuns(m) \/ CompactionStarts(m)
        BY <2>2, StartPlaced
      <2> QED BY <2>1, <2>2 DEF StartsTask
    <1>4. CASE \E m \in Messages : Proceeds(m)
      BY <1>4, ProceedPlaced
    <1>5. CASE NewResets \/ \E m \in Messages : TurnDrains(m)
      BY <1>5, EmptiedPlaced
    <1>6. CASE SubmitNew
      BY <1>6, NewCommandPlaced
    <1>7. CASE NewStarts
      BY <1>7, NewStartsPlaced
    <1>8. CASE Chosen
      BY <1>8, ChosenPlaced
    <1> QED BY <1>1, <1>2, <1>3, <1>4, <1>5, <1>6, <1>7, <1>8 DEF Next

-----------------------------------------------------------------------------
(* Types, kinds and bounds.                                                *)

\* What Queue, AddWorker, Trigger and ExecCompact do to the other variables.
LEMMA TriggerRest ==
    ASSUME NEW m \in Messages, NEW r, Queue(m, r) \/ AddWorker(m, r) \/ Trigger(m, r)
    PROVE  \/ UNCHANGED <<worker, cancelled>>
           \/ /\ worker' = [worker EXCEPT ![m] = "pending"]
              /\ cancelled' = cancelled \cup Workers
    BY DEF Queue, AddWorker, Trigger

LEMMA ExecCompactRest ==
    ASSUME NEW m \in Messages, NEW r, ExecCompact(m, r)
    PROVE  /\ UNCHANGED <<worker, cancelled>>
           /\ \/ UNCHANGED <<compaction, compactTask>>
              \/ /\ compaction' = [compaction EXCEPT ![m] = "pending"]
                 /\ compactTask' = m
    BY DEF ExecCompact, Queue

\* What the tasks the loop starts are about.
LEMMA StartKinds ==
    ASSUME IInv, NEW m \in Messages
    PROVE  /\ SlashStarts(m) => m \in Compacts
           /\ ShellStarts(m) => m \in Shells
           /\ WorkerNeverRuns(m) \/ WorkerRefuses(m) \/ TurnStarts(m) => worker[m] = "pending"
           /\ CompactionNeverRuns(m) \/ CompactionStarts(m) => m \in Compacts
    <1>1. ASSUME NEW kind \in JobKinds, Starts(kind, m)
          PROVE  JobOK(Job(kind, m))
      BY <1>1, StartFacts
    <1>2. {"slash", "shell", "worker", "compaction"} \subseteq JobKinds
      BY DEF JobKinds
    <1>3. SlashStarts(m) => m \in Compacts
      BY <1>1, <1>2 DEF SlashStarts, JobOK, Job
    <1>4. ShellStarts(m) => m \in Shells
      BY <1>1, <1>2 DEF ShellStarts, JobOK, Job
    <1>5. WorkerNeverRuns(m) \/ WorkerRefuses(m) \/ TurnStarts(m) => worker[m] = "pending"
      BY <1>1, <1>2 DEF WorkerNeverRuns, WorkerRefuses, TurnStarts, JobOK, Job
    <1>6. CompactionNeverRuns(m) \/ CompactionStarts(m) => m \in Compacts
      BY <1>1, <1>2 DEF CompactionNeverRuns, CompactionStarts, JobOK, Job
    <1> QED BY <1>3, <1>4, <1>5, <1>6

\* TypeOK without the queue and the ready tasks, which Clean has.
RestOK ==
    /\ isGenerating \in BOOLEAN
    /\ isCompacting \in BOOLEAN
    /\ worker \in [Messages -> {"none", "pending", "running", "saving", "done"}]
    /\ compaction \in [Messages -> {"none", "pending", "running", "done"}]
    /\ compactTask \in Compacts \cup {None}
    /\ shells \in SUBSET Shells
    /\ cancelled \in SUBSET Messages
    /\ outcome \in [Messages -> {"new", "open", "sent", "ran", "compacted", "stopped",
                                  "refused", "lost", "discarded"}]
    /\ escs \in 0..MaxEsc
    /\ session \in 0..MaxNew
    /\ newCommand \in {"no", "typed", "waiting"}
    /\ awaited \in SUBSET Messages
    /\ carried \in BOOLEAN

LEMMA RestStep ==
    ASSUME IInv, [Next]_vars
    PROVE  RestOK' /\ NewBound'
    <1> USE DEF RestOK, NewBound, newVars
    <1>1. RestOK /\ NewBound /\ Kinds
      BY DEF IInv, TypeOK
    <1>2. MaxEsc \in Nat /\ MaxNew \in Nat
      BY KindsAssumption
    <1>3. Workers \subseteq Messages /\ Turns \subseteq Messages /\ EscTargets \subseteq Messages
      BY DEF Workers, Turns, EscTargets, Messages
    <1>4. CASE UNCHANGED vars
      BY <1>1, <1>4 DEF vars
    <1>5. CASE PressEsc
      BY <1>1, <1>2, <1>3, <1>5 DEF PressEsc
    <1>6. CASE SubmitNew
      BY <1>1, <1>2, <1>6 DEF SubmitNew
    <1>7. CASE NewStarts
      <2>1. newCommand = "typed"
        <3>1. Starts("new", None) /\ "new" \in JobKinds
          BY <1>7 DEF NewStarts, JobKinds
        <3>2. JobOK(Job("new", None))
          BY <3>1, StartFacts
        <3> QED BY <3>2 DEF JobOK, Job
      <2> QED BY <1>1, <1>3, <1>7, <2>1 DEF NewStarts, Leaves
    <1>8. CASE NewResets
      <2>1. session' \in 0..MaxNew
        BY <1>1, <1>2, <1>8 DEF NewResets
      <2>2. carried' \in BOOLEAN
        <3>1. carried' = (carried \/ Turns # {})
          BY <1>8 DEF NewResets
        <3> QED BY ONLY <3>1, Zenon
      <2> QED BY <1>1, <1>8, <2>1, <2>2 DEF NewResets, Become
    <1>9. ASSUME NEW m \in Messages, SubmitPrompt(m) \/ SubmitCommand(m) \/ ShellNotify(m)
          PROVE  RestOK' /\ NewBound'
      <2>1. UNCHANGED <<worker, cancelled>> \/ (/\ worker' = [worker EXCEPT ![m] = "pending"]
                                              /\ cancelled' = cancelled \cup Workers)
        BY <1>9, TriggerRest DEF SubmitPrompt, SubmitCommand, ShellNotify
      <2> QED BY <1>1, <1>3, <1>9, <2>1 DEF SubmitPrompt, SubmitCommand, ShellNotify, Becomes, Become
    <1>10. ASSUME NEW m \in Messages, QueuedYields(m)
           PROVE  RestOK' /\ NewBound'
      BY <1>1, <1>10 DEF QueuedYields
    <1>11. ASSUME NEW m \in Messages, SlashStarts(m)
           PROVE  RestOK' /\ NewBound'
      BY <1>1, <1>11, ExecCompactRest, StartKinds DEF SlashStarts
    <1>12. ASSUME NEW m \in Messages, QueuedDispatches(m)
           PROVE  RestOK' /\ NewBound'
      <2>1. CASE UNCHANGED <<worker, cancelled, compaction, compactTask>>
        BY <1>1, <1>12, <2>1 DEF QueuedDispatches
      <2>2. CASE m \in Compacts /\ ExecCompact(m, Tail(ready))
        BY <1>1, <1>12, <2>2, ExecCompactRest DEF QueuedDispatches
      <2>3. CASE Trigger(m, Tail(ready)) /\ UNCHANGED <<compaction, compactTask>>
        BY <1>1, <1>3, <1>12, <2>3, TriggerRest DEF QueuedDispatches
      <2> QED BY <1>12, <2>1, <2>2, <2>3 DEF QueuedDispatches
    <1>13. ASSUME NEW m \in Messages, ShellStarts(m)
           PROVE  RestOK' /\ NewBound'
      BY <1>1, <1>13, StartKinds DEF ShellStarts, Becomes, Become
    <1>14. ASSUME NEW m \in Messages, WorkerNeverRuns(m) \/ WorkerRefuses(m) \/ TurnStarts(m)
           PROVE  RestOK' /\ NewBound'
      BY <1>1, <1>14 DEF WorkerNeverRuns, WorkerRefuses, TurnStarts, Becomes, Become
    <1>15. ASSUME NEW m \in Messages, CompactionNeverRuns(m) \/ CompactionStarts(m)
           PROVE  RestOK' /\ NewBound'
      BY <1>1, <1>15 DEF CompactionNeverRuns, CompactionStarts, Becomes, Become
    <1>16. ASSUME NEW m \in Messages, TurnDrains(m)
           PROVE  RestOK' /\ NewBound'
      BY <1>1, <1>16 DEF TurnDrains, Become
    <1>17. ASSUME NEW m \in Messages, TurnEnds(m) \/ SaveEnds(m) \/ SaveCut(m)
           PROVE  RestOK' /\ NewBound'
      BY <1>1, <1>17 DEF TurnEnds, SaveEnds, SaveCut, Release
    <1>18. ASSUME NEW m \in Messages, CompactionEnds(m)
           PROVE  RestOK' /\ NewBound'
      BY <1>1, <1>18 DEF CompactionEnds, Becomes, Become
    <1>19. ASSUME NEW m \in Messages, ShellEnds(m)
           PROVE  RestOK' /\ NewBound'
      BY <1>1, <1>19 DEF ShellEnds
    <1>20. CASE Chosen
      BY <1>1, <1>3, <1>20 DEF Chosen, Leaves
    <1>21. ASSUME NEW m \in Messages, NewInsists(m)
           PROVE  RestOK' /\ NewBound'
      BY <1>1, <1>21 DEF NewInsists
    <1> QED BY <1>4, <1>5, <1>6, <1>7, <1>8, <1>9, <1>10, <1>11, <1>12, <1>13, <1>14, <1>15,
               <1>16, <1>17, <1>18, <1>19, <1>20, <1>21 DEF Next, StartsTask, Proceeds

LEMMA TypeFromParts == PlacedInv /\ RestOK => TypeOK
    BY DEF PlacedInv, Clean, JobType, RestOK, TypeOK

LEMMA KindsStep ==
    ASSUME IInv, [Next]_vars
    PROVE  Kinds'
    <1>1. TypeOK /\ Kinds
      BY DEF IInv
    <1>2. ASSUME NEW m \in Messages, worker' = worker \/ m \notin Compacts,
                 \/ UNCHANGED worker
                 \/ \E w \in {"pending", "running", "saving", "done"} :
                      worker' = [worker EXCEPT ![m] = w],
                 compaction' = compaction \/ m \in Compacts,
                 \/ UNCHANGED compaction
                 \/ \E w \in {"pending", "running", "done"} :
                      compaction' = [compaction EXCEPT ![m] = w]
          PROVE  Kinds'
      BY <1>1, <1>2 DEF Kinds, TypeOK
    <1>3. CASE UNCHANGED <<worker, compaction>>
      BY <1>1, <1>3 DEF Kinds
    <1>4. CASE \/ UNCHANGED vars \/ PressEsc \/ SubmitNew \/ NewStarts \/ Chosen \/ NewResets
               \/ \E m \in Messages : NewInsists(m)
      BY <1>3, <1>4 DEF vars, PressEsc, SubmitNew, NewStarts, Chosen, NewResets, NewInsists
    <1>5. ASSUME NEW m \in Messages, SubmitPrompt(m) \/ SubmitCommand(m) \/ ShellNotify(m)
          PROVE  Kinds'
      <2>1. CASE SubmitCommand(m)
        BY <1>3, <2>1 DEF SubmitCommand, Queue
      <2>2. CASE SubmitPrompt(m) \/ ShellNotify(m)
        <3>1. m \notin Compacts /\ UNCHANGED compaction
          BY <2>2, KindsAssumption DEF SubmitPrompt, ShellNotify
        <3>2. UNCHANGED worker \/ worker' = [worker EXCEPT ![m] = "pending"]
          BY <2>2, TriggerRest DEF SubmitPrompt, ShellNotify
        <3> QED BY <3>1, <3>2, <1>2
      <2> QED BY <1>5, <2>1, <2>2
    <1>6. ASSUME NEW m \in Messages, QueuedYields(m) \/ ShellStarts(m) \/ TurnDrains(m) \/ ShellEnds(m)
          PROVE  Kinds'
      BY <1>3, <1>6 DEF QueuedYields, ShellStarts, TurnDrains, ShellEnds
    <1>7. ASSUME NEW m \in Messages, SlashStarts(m)
          PROVE  Kinds'
      <2>1. m \in Compacts /\ ExecCompact(m, Tail(ready))
        BY <1>7, StartKinds DEF SlashStarts
      <2> QED BY <2>1, <1>2, ExecCompactRest
    <1>8. ASSUME NEW m \in Messages, QueuedDispatches(m)
          PROVE  Kinds'
      <2>1. CASE UNCHANGED <<worker, compaction>>
        BY <1>3, <2>1
      <2>2. CASE m \in Compacts /\ ExecCompact(m, Tail(ready))
        BY <2>2, <1>2, ExecCompactRest
      <2>3. CASE m \notin Compacts /\ Trigger(m, Tail(ready)) /\ UNCHANGED compaction
        BY <2>3, <1>2, TriggerRest
      <2> QED BY <1>8, <2>1, <2>2, <2>3 DEF QueuedDispatches
    <1>9. ASSUME NEW m \in Messages, WorkerNeverRuns(m) \/ WorkerRefuses(m) \/ TurnStarts(m)
          PROVE  Kinds'
      <2>1. m \notin Compacts
        BY <1>9, <1>1, StartKinds DEF Kinds
      <2> QED BY <2>1, <1>2, <1>9 DEF WorkerNeverRuns, WorkerRefuses, TurnStarts
    <1>10. ASSUME NEW m \in Messages, CompactionNeverRuns(m) \/ CompactionStarts(m)
           PROVE  Kinds'
      BY <1>2, <1>10, StartKinds DEF CompactionNeverRuns, CompactionStarts
    <1>11. ASSUME NEW m \in Messages, TurnEnds(m) \/ SaveEnds(m) \/ SaveCut(m)
           PROVE  Kinds'
      <2>1. m \notin Compacts
        BY <1>11, <1>1 DEF TurnEnds, SaveEnds, SaveCut, Kinds
      <2> QED BY <2>1, <1>2, <1>11 DEF TurnEnds, SaveEnds, SaveCut, Release
    <1>12. ASSUME NEW m \in Messages, CompactionEnds(m)
           PROVE  Kinds'
      <2>1. m \in Compacts
        BY <1>12, <1>1 DEF CompactionEnds, Kinds
      <2> QED BY <2>1, <1>2, <1>12 DEF CompactionEnds
    <1> QED BY <1>4, <1>5, <1>6, <1>7, <1>8, <1>9, <1>10, <1>11, <1>12 DEF Next, StartsTask, Proceeds

-----------------------------------------------------------------------------
(* One turn at a time.                                                     *)

\* A worker added while no turn runs is the only one that will start.
LEMMA AddedIsAlone ==
    ASSUME TypeOK, NEW m \in Messages, Turns = {},
           worker' = [worker EXCEPT ![m] = "pending"], cancelled' = cancelled \cup Workers
    PROVE  Turns' = {} /\ Coming' \subseteq {m}
    <1>1. worker \in [Messages -> {"none", "pending", "running", "saving", "done"}]
      BY DEF TypeOK
    <1>2. \A x \in Messages \ {m} : worker'[x] = worker[x]
      BY <1>1
    <1>3. worker'[m] = "pending"
      BY <1>1
    <1>4. Turns' = {}
      BY <1>2, <1>3 DEF Turns
    <1>5. \A x \in Messages \ {m} : worker[x] = "pending" => x \in cancelled'
      BY DEF Workers
    <1>6. Coming' \subseteq {m}
      BY <1>2, <1>5 DEF Coming
    <1> QED BY <1>4, <1>6

LEMMA AloneStep ==
    ASSUME IInv, [Next]_vars
    PROVE  Alone'
    <1>1. TypeOK /\ Kinds /\ Alone
      BY DEF IInv
    <1>2. worker \in [Messages -> {"none", "pending", "running", "saving", "done"}]
      BY <1>1 DEF TypeOK
    <1>3. ASSUME UNCHANGED carried, Coming' \cup Turns' \subseteq Coming \cup Turns,
                 ~ carried => (Turns' # {} => isGenerating')
          PROVE  Alone'
      BY <1>1, <1>3 DEF Alone
    <1>4. ASSUME UNCHANGED <<carried, isGenerating, worker>>, cancelled \subseteq cancelled'
          PROVE  Alone'
      <2>1. Coming' \subseteq Coming /\ Turns' = Turns
        BY <1>4 DEF Coming, Turns
      <2>2. ~ carried => (Turns' # {} => isGenerating')
        BY <2>1, <1>1, <1>4 DEF Alone
      <2> QED BY <2>1, <2>2, <1>3, <1>4
    <1>5. ASSUME NEW m \in Messages, ~ isGenerating, UNCHANGED <<carried, isGenerating>>,
                 worker' = [worker EXCEPT ![m] = "pending"], cancelled' = cancelled \cup Workers
          PROVE  Alone'
      <2>1. CASE carried
        BY <2>1, <1>5 DEF Alone
      <2>2. CASE ~ carried
        <3>1. Turns = {}
          BY <2>2, <1>1, <1>5 DEF Alone
        <3>2. Turns' = {} /\ Coming' \subseteq {m}
          BY <3>1, <1>1, <1>5, AddedIsAlone
        <3> QED BY <3>2 DEF Alone
      <2> QED BY <2>1, <2>2
    <1>6. CASE \/ UNCHANGED vars \/ PressEsc \/ SubmitNew \/ NewStarts \/ Chosen
               \/ \E m \in Messages : NewInsists(m)
      BY <1>4, <1>6 DEF vars, newVars, PressEsc, SubmitNew, NewStarts, Chosen, Leaves, NewInsists
    <1>7. CASE NewResets
      <2>1. /\ carried' = (carried \/ Turns # {})
            /\ UNCHANGED <<worker, cancelled>>
        BY <1>7 DEF NewResets
      <2>2. Coming' = Coming /\ Turns' = Turns
        BY <2>1 DEF Coming, Turns
      <2>3. ~ carried' => ~ carried /\ Turns = {}
        BY ONLY <2>1, Zenon
      <2> QED BY <2>2, <2>3, <1>1 DEF Alone
    <1>8. ASSUME NEW m \in Messages, SubmitPrompt(m) \/ SubmitCommand(m) \/ ShellNotify(m)
          PROVE  Alone'
      <2>1. UNCHANGED <<carried, isGenerating>>
        BY <1>8 DEF SubmitPrompt, SubmitCommand, ShellNotify, newVars
      <2>2. UNCHANGED <<worker, cancelled>> \/ (~ isGenerating /\ AddWorker(m, ready))
        BY <1>8 DEF SubmitPrompt, SubmitCommand, ShellNotify, Trigger, Queue, Busy
      <2> QED BY <2>1, <2>2, <1>4, <1>5 DEF AddWorker
    <1>9. ASSUME NEW m \in Messages,
                 QueuedYields(m) \/ QueuedDispatches(m) \/ SlashStarts(m) \/ ShellStarts(m)
          PROVE  Alone'
      <2>1. UNCHANGED <<carried, isGenerating>>
        BY <1>9 DEF QueuedYields, QueuedDispatches, SlashStarts, ShellStarts, newVars
      <2>2. \/ UNCHANGED <<worker, cancelled>>
            \/ ExecCompact(m, Tail(ready))
            \/ Trigger(m, Tail(ready))
        BY <1>9 DEF QueuedYields, QueuedDispatches, SlashStarts, ShellStarts
      <2>3. UNCHANGED <<worker, cancelled>> \/ (~ isGenerating /\ AddWorker(m, Tail(ready)))
        BY <2>2, ExecCompactRest DEF Trigger, Queue, Busy
      <2> QED BY <2>1, <2>3, <1>4, <1>5 DEF AddWorker
    <1>10. ASSUME NEW m \in Messages, WorkerNeverRuns(m)
           PROVE  Alone'
      <2>1. /\ worker' = [worker EXCEPT ![m] = "done"]
            /\ cancelled' = cancelled \ {m}
            /\ UNCHANGED <<carried, isGenerating>>
        BY <1>10 DEF WorkerNeverRuns, newVars
      <2>2. Coming' \subseteq Coming /\ Turns' \subseteq Turns
        BY <2>1, <1>2 DEF Coming, Turns
      <2> QED BY <2>1, <2>2, <1>1, <1>3 DEF Alone
    <1>11. ASSUME NEW m \in Messages, WorkerRefuses(m) \/ TurnStarts(m)
           PROVE  Alone'
      <2>1. /\ m \notin cancelled
            /\ worker' = [worker EXCEPT ![m] = "done"] \/ worker' = [worker EXCEPT ![m] = "running"]
            /\ UNCHANGED <<carried, cancelled>>
        BY <1>11 DEF WorkerRefuses, TurnStarts, newVars
      <2>2. worker[m] = "pending" /\ m \in Coming
        BY <1>11, <2>1, StartKinds DEF Coming
      <2>3. Coming' \cup Turns' \subseteq Coming \cup Turns
        BY <2>1, <2>2, <1>2 DEF Coming, Turns
      <2>4. ~ carried => Turns = {}
        BY <2>2, <1>1 DEF Alone, Turns
      <2>5. ~ carried => (Turns' # {} => isGenerating')
        <3>1. CASE WorkerRefuses(m)
          <4>1. ~ carried => Turns' = {}
            BY <3>1, <2>4, <1>2 DEF WorkerRefuses, Turns
          <4> QED BY <4>1
        <3>2. CASE TurnStarts(m)
          BY <3>2 DEF TurnStarts
        <3> QED BY <1>11, <3>1, <3>2
      <2> QED BY <2>1, <2>3, <2>5, <1>3
    <1>12. ASSUME NEW m \in Messages,
                  CompactionNeverRuns(m) \/ CompactionStarts(m) \/ CompactionEnds(m)
           PROVE  Alone'
      <2>1. /\ UNCHANGED <<carried, isGenerating, worker>>
            /\ UNCHANGED cancelled \/ cancelled' = cancelled \ {m}
        BY <1>12 DEF CompactionNeverRuns, CompactionStarts, CompactionEnds, newVars
      <2>2. m \in Compacts
        BY <1>12, <1>1, StartKinds DEF CompactionEnds, Kinds
      <2>3. worker[m] = "none"
        BY <2>2, <1>1 DEF Kinds
      <2>4. Coming' \subseteq Coming /\ Turns' = Turns
        BY <2>1, <2>3 DEF Coming, Turns
      <2> QED BY <2>1, <2>4, <1>1, <1>3 DEF Alone
    <1>13. ASSUME NEW m \in Messages, TurnDrains(m) \/ ShellEnds(m)
           PROVE  Alone'
      BY <1>4, <1>13 DEF TurnDrains, ShellEnds, newVars
    <1>14. ASSUME NEW m \in Messages, TurnEnds(m) \/ SaveEnds(m) \/ SaveCut(m)
           PROVE  Alone'
      <2>1. /\ worker[m] \in {"running", "saving"}
            /\ \/ worker' = [worker EXCEPT ![m] = "saving"] /\ UNCHANGED isGenerating
               \/ worker' = [worker EXCEPT ![m] = "done"]
            /\ UNCHANGED cancelled \/ cancelled' = cancelled \ {m}
            /\ UNCHANGED carried
        BY <1>14 DEF TurnEnds, SaveEnds, SaveCut, Release, newVars
      <2>2. Coming' \subseteq Coming /\ Turns' \subseteq Turns /\ m \in Turns
        BY <2>1, <1>2 DEF Coming, Turns
      <2>3. ~ carried => Turns = {m} /\ isGenerating
        BY <2>2, <1>1 DEF Alone
      <2>4. ~ carried => (Turns' # {} => isGenerating')
        <3>1. CASE worker' = [worker EXCEPT ![m] = "done"]
          <4>1. m \notin Turns'
            BY <3>1, <1>2 DEF Turns
          <4> QED BY <4>1, <2>2, <2>3
        <3>2. CASE UNCHANGED isGenerating
          BY ONLY <3>2, <2>3, Zenon
        <3> QED BY <3>1, <3>2, <2>1
      <2> QED BY <2>1, <2>2, <2>4, <1>3
    <1> QED BY <1>6, <1>7, <1>8, <1>9, <1>10, <1>11, <1>12, <1>13, <1>14
            DEF Next, StartsTask, Proceeds

-----------------------------------------------------------------------------
(* The theorems.                                                           *)

LEMMA IInvInit == Init => IInv
    <1> SUFFICES ASSUME Init
                 PROVE  IInv
      OBVIOUS
    <1> USE DEF Init
    <1>1. DOMAIN <<>> = {}
      OBVIOUS
    <1>2. Elems(queue) = {} /\ Elems(ready) = {} /\ Named(ready) = {}
      BY <1>1 DEF Elems, Named
    <1>3. Clean(queue, ready)
      BY <1>1, <1>2 DEF Clean
    <1>4. Open = {} /\ Compacting = {} /\ Turns = {} /\ Coming = {}
      BY DEF Open, Compacting, Turns, Coming
    <1>5. PlacedInv
      BY <1>2, <1>3, <1>4 DEF PlacedInv, Held
    <1>6. RestOK /\ NewBound
      <2>1. isGenerating \in BOOLEAN /\ isCompacting \in BOOLEAN /\ carried \in BOOLEAN
        OBVIOUS
      <2>2. escs \in 0..MaxEsc /\ session \in 0..MaxNew
        BY KindsAssumption
      <2> QED BY <2>1, <2>2 DEF RestOK, NewBound
    <1>7. TypeOK
      BY <1>5, <1>6, TypeFromParts
    <1>8. Jobs /\ Kinds /\ Alone
      BY <1>2, <1>4 DEF Jobs, Kinds, Alone
    <1> QED BY <1>5, <1>6, <1>7, <1>8 DEF IInv

LEMMA IInvStep == IInv /\ [Next]_vars => IInv'
    <1> SUFFICES ASSUME IInv, [Next]_vars
                 PROVE  IInv'
      OBVIOUS
    <1>1. PlacedInv' /\ Jobs'
      BY PlacedStep
    <1>2. RestOK' /\ NewBound'
      BY RestStep
    <1>3. TypeOK'
      BY <1>1, <1>2 DEF PlacedInv, Clean, JobType, RestOK, TypeOK
    <1>4. Kinds'
      BY KindsStep
    <1>5. Alone'
      BY AloneStep
    <1> QED BY <1>1, <1>2, <1>3, <1>4, <1>5 DEF IInv

LEMMA IInvPlaced == IInv => Placed
    <1> SUFFICES ASSUME IInv
                 PROVE  Placed
      OBVIOUS
    <1>1. PlacedInv
      BY DEF IInv
    <1>2. QueuedMessages = Elems(queue) /\ TaskMessages = Named(ready) \ {None}
      BY DEF QueuedMessages, TaskMessages, Elems, Named
    <1>3. None \notin Elems(queue) /\ None \notin Compacting
      BY <1>1, KindsAssumption DEF PlacedInv, Clean, Elems, Compacting
    <1> QED BY <1>1, <1>2, <1>3 DEF Placed, PlacedInv, Clean, Held, Open

\* For every set of messages: the message flow keeps its variables in their
\* shapes.
THEOREM TypeCorrect == Spec => []TypeOK
    <1>1. IInv => TypeOK
      BY DEF IInv
    <1> QED BY <1>1, IInvInit, IInvStep, PTL DEF Spec

\* For every set of messages: whatever drains, pops and re-queues it, a
\* message that is not settled is in exactly one of the queue, the tasks and
\* the running compactions, once.
THEOREM PlacedHolds == Spec => []Placed
    BY IInvInit, IInvStep, IInvPlaced, PTL DEF Spec

\* For every set of messages and number of Esc presses: two turns never run
\* at once, and is_generating is set while one does, unless a "/new" reset it.
THEOREM OneTurnHolds == Spec => []OneTurn
    <1>1. IInv => OneTurn
      BY DEF IInv, Alone, OneTurn
    <1> QED BY <1>1, IInvInit, IInvStep, PTL DEF Spec

-----------------------------------------------------------------------------
(***************************************************************************)
(* The message flow implements the mailbox, for every set of messages and  *)
(* every number of Esc presses and "/new"s: each step of the flow is a     *)
(* step of the mailbox or changes nothing that the mailbox has.  What is   *)
(* in hand is what is open and not in the queue, so a step is judged by    *)
(* what it does to the queue and to the outcomes alone.                    *)
(***************************************************************************)

LEMMA HandIsTheRest ==
    ASSUME NEW q, NEW r, NEW c, NEW o, Clean(q, r),
           o = ((Elems(q) \cup Named(r)) \ {None}) \cup c,
           c \cap (Elems(q) \cup Named(r)) = {}
    PROVE  (Named(r) \ {None}) \cup c = o \ Elems(q)
    BY DEF Clean

\* In hand is what is open and not queued.
Hand == Open \ Elems(queue)

LEMMA HandIs ==
    ASSUME PlacedInv
    PROVE  TaskMessages \cup Compacting = Hand
    <1>1. TaskMessages = Named(ready) \ {None}
      BY DEF TaskMessages, Named
    <1> QED BY <1>1, HandIsTheRest DEF PlacedInv, Held, Hand

LEMMA HandWillBe ==
    ASSUME PlacedInv'
    PROVE  (TaskMessages \cup Compacting)' = Hand'
    <1>1. TaskMessages' = Named(ready') \ {None}
      BY DEF TaskMessages, Named
    <1>2. /\ Clean(queue', ready')
          /\ Open' = ((Elems(queue') \cup Named(ready')) \ {None}) \cup Compacting'
          /\ Compacting' \cap (Elems(queue') \cup Named(ready')) = {}
      BY DEF PlacedInv, Held
    <1> QED BY <1>1, <1>2, HandIsTheRest DEF Hand

LEMMA InLineIs == Mail!InLine = Elems(queue)
    BY DEF Mail!InLine, Elems

-----------------------------------------------------------------------------
(* The steps of the mailbox, by the queue and the outcomes.                *)

\* The line of the mailbox moves as the queue does.
LEMMA QueueSets ==
    ASSUME IInv
    PROVE  /\ Elems(queue) \subseteq Open
           /\ \A m \in Messages : m \notin Elems(queue) =>
                Elems(Append(queue, m)) = Elems(queue) \cup {m}
           /\ queue # <<>> => /\ Elems(Tail(queue)) = Elems(queue) \ {Head(queue)}
                              /\ Head(queue) \in Elems(queue)
           /\ Elems(<<>>) = {}
    <1>1. PlacedInv /\ Clean(queue, ready)
      BY DEF IInv, PlacedInv
    <1>2. Elems(queue) \subseteq Messages
      BY <1>1 DEF Clean, Elems
    <1>3. Elems(queue) \subseteq Open
      BY <1>1, <1>2, KindsAssumption DEF PlacedInv, Held
    <1>4. ASSUME NEW m \in Messages, m \notin Elems(queue)
          PROVE  Elems(Append(queue, m)) = Elems(queue) \cup {m}
      <2>1. queue \in Seq(Messages)
        BY <1>1 DEF Clean
      <2> QED BY <2>1, <1>4 DEF Elems
    <1>5. queue # <<>> => /\ Elems(Tail(queue)) = Elems(queue) \ {Head(queue)}
                          /\ Head(queue) \in Elems(queue)
      BY <1>1, PopClean
    <1>6. Elems(<<>>) = {}
      BY DEF Elems
    <1> QED BY <1>3, <1>4, <1>5, <1>6

\* Nothing the mailbox has changes.
LEMMA Stutters ==
    ASSUME PlacedInv, PlacedInv', UNCHANGED <<queue, outcome>>
    PROVE  [Mail!Next]_(Mail!mailVars)
    <1>1. UNCHANGED Hand
      BY DEF Hand, Open
    <1> QED BY <1>1, HandIs, HandWillBe DEF Mail!mailVars

LEMMA Takes ==
    ASSUME IInv, PlacedInv', UNCHANGED outcome, queue # <<>>, queue' = Tail(queue)
    PROVE  Mail!Take
    <1>1. PlacedInv
      BY DEF IInv
    <1>2. Hand' = Hand \cup {Head(queue)}
      BY QueueSets DEF Hand, Open
    <1> QED BY <1>1, <1>2, HandIs, HandWillBe DEF Mail!Take

LEMMA PutsBack ==
    ASSUME IInv, PlacedInv', UNCHANGED outcome, NEW m \in Messages, m \in Hand,
           queue' = Append(queue, m)
    PROVE  Mail!PutBack(m)
    <1>1. PlacedInv
      BY DEF IInv
    <1>2. Hand' = Hand \ {m}
      BY QueueSets DEF Hand, Open
    <1> QED BY <1>1, <1>2, HandIs, HandWillBe DEF Mail!PutBack

LEMMA OneChanges ==
    ASSUME TypeOK, NEW m \in Messages, NEW what, Becomes(m, what)
    PROVE  outcome' = [outcome EXCEPT ![m] = what]
    BY DEF TypeOK, Becomes, Become

LEMMA Accepts ==
    ASSUME IInv, PlacedInv', NEW m \in Messages, outcome[m] = "new", Becomes(m, "open"),
           UNCHANGED queue \/ queue' = Append(queue, m)
    PROVE  Mail!Accept(m)
    <1>1. PlacedInv /\ TypeOK
      BY DEF IInv
    <1>2. outcome' = [outcome EXCEPT ![m] = "open"]
      BY <1>1, OneChanges
    <1>3. Open' = Open \cup {m} /\ m \notin Open
      BY <1>1, OneOpenMoves DEF Open
    <1>4. m \notin Elems(queue)
      BY <1>3, QueueSets
    <1>5. CASE UNCHANGED queue
      <2>1. Hand' = Hand \cup {m}
        BY <1>3, <1>4, <1>5 DEF Hand
      <2> QED BY <1>1, <1>2, <1>5, <2>1, HandIs, HandWillBe DEF Mail!Accept
    <1>6. CASE queue' = Append(queue, m)
      <2>1. Hand' = Hand
        BY <1>3, <1>4, <1>6, QueueSets DEF Hand
      <2> QED BY <1>1, <1>2, <1>6, <2>1, HandIs, HandWillBe DEF Mail!Accept
    <1> QED BY <1>5, <1>6

LEMMA SettlesOne ==
    ASSUME IInv, PlacedInv', NEW m \in Messages, m \in Hand, NEW what \in Ends[m], what # "open",
           Becomes(m, what), UNCHANGED queue \/ (queue # <<>> /\ queue' = Tail(queue))
    PROVE  Mail!Settle(m)
    <1>1. PlacedInv /\ TypeOK
      BY DEF IInv
    <1>2. outcome' = [outcome EXCEPT ![m] = what]
      BY <1>1, OneChanges
    <1>3. Open' = Open \ {m}
      BY <1>1, OneOpenMoves
    <1>4. CASE UNCHANGED queue
      <2>1. Hand' = Hand \ {m}
        BY <1>3, <1>4 DEF Hand
      <2> QED BY <1>1, <1>2, <1>4, <2>1, HandIs, HandWillBe DEF Mail!Settle
    <1>5. CASE queue # <<>> /\ queue' = Tail(queue)
      <2>1. Hand' = (Hand \ {m}) \cup {Head(queue)}
        <3>1. Head(queue) # m
          BY <1>5, QueueSets DEF Hand
        <3> QED BY <1>3, <1>5, <3>1, QueueSets DEF Hand
      <2> QED BY <1>1, <1>2, <1>5, <2>1, HandIs, HandWillBe DEF Mail!Settle
    <1> QED BY <1>4, <1>5

LEMMA Empties ==
    ASSUME IInv, PlacedInv', NEW what \in {"sent", "discarded"}, queue' = <<>>,
           Become(QueuedMessages, what)
    PROVE  Mail!Empty(what)
    <1>1. PlacedInv /\ TypeOK
      BY DEF IInv
    <1>2. QueuedMessages = Elems(queue)
      BY DEF QueuedMessages, Elems
    <1>3. outcome' = [m \in Messages |-> IF m \in Mail!InLine THEN what ELSE outcome[m]]
      BY <1>2, InLineIs DEF Become
    <1>4. Open' = Open \ Elems(queue)
      <2>1. Elems(queue) \in SUBSET Messages
        BY QueueSets DEF Open
      <2> QED BY <1>1, <1>2, <2>1, OpenMoves
    <1>5. Hand' = Hand
      BY <1>4, QueueSets DEF Hand
    <1> QED BY <1>1, <1>3, <1>5, HandIs, HandWillBe DEF Mail!Empty

-----------------------------------------------------------------------------
(* A "!" line has no worker, so no turn is its end.                        *)

NoShellWorkers == \A m \in Messages : worker[m] # "none" => m \notin Shells

LEMMA NoShellWorkersStep ==
    ASSUME IInv, NoShellWorkers, [Next]_vars
    PROVE  NoShellWorkers'
    <1>1. TypeOK
      BY DEF IInv
    <1>2. ASSUME NEW m \in Messages, m \notin Shells,
                 \/ UNCHANGED worker
                 \/ \E w \in {"pending", "running", "saving", "done"} :
                      worker' = [worker EXCEPT ![m] = w]
          PROVE  NoShellWorkers'
      BY <1>1, <1>2 DEF NoShellWorkers, TypeOK
    <1>3. CASE UNCHANGED worker
      BY <1>3 DEF NoShellWorkers
    <1>4. CASE \/ UNCHANGED vars \/ PressEsc \/ SubmitNew \/ NewStarts \/ Chosen \/ NewResets
               \/ \E m \in Messages : NewInsists(m)
      BY <1>3, <1>4 DEF vars, PressEsc, SubmitNew, NewStarts, Chosen, NewResets, NewInsists
    <1>5. ASSUME NEW m \in Messages, SubmitPrompt(m) \/ ShellNotify(m)
          PROVE  NoShellWorkers'
      <2>1. m \notin Shells
        BY <1>5, KindsAssumption DEF SubmitPrompt, ShellNotify
      <2>2. UNCHANGED worker \/ worker' = [worker EXCEPT ![m] = "pending"]
        BY <1>5, TriggerRest DEF SubmitPrompt, ShellNotify
      <2> QED BY <2>1, <2>2, <1>2
    <1>6. ASSUME NEW m \in Messages,
                 SubmitCommand(m) \/ QueuedYields(m) \/ ShellStarts(m) \/ TurnDrains(m) \/ ShellEnds(m)
          PROVE  NoShellWorkers'
      BY <1>3, <1>6 DEF SubmitCommand, Queue, QueuedYields, ShellStarts, TurnDrains, ShellEnds
    <1>7. ASSUME NEW m \in Messages,
                 SlashStarts(m) \/ CompactionNeverRuns(m) \/ CompactionStarts(m) \/ CompactionEnds(m)
          PROVE  NoShellWorkers'
      BY <1>3, <1>7, ExecCompactRest
         DEF SlashStarts, CompactionNeverRuns, CompactionStarts, CompactionEnds
    <1>8. ASSUME NEW m \in Messages, QueuedDispatches(m)
          PROVE  NoShellWorkers'
      <2>1. CASE UNCHANGED worker
        BY <1>3, <2>1
      <2>2. CASE m \in Compacts /\ ExecCompact(m, Tail(ready))
        BY <2>2, <1>3, ExecCompactRest
      <2>3. CASE m \notin Shells /\ Trigger(m, Tail(ready))
        BY <2>3, <1>2, TriggerRest
      <2> QED BY <1>8, <2>1, <2>2, <2>3 DEF QueuedDispatches
    <1>9. ASSUME NEW m \in Messages, WorkerNeverRuns(m) \/ WorkerRefuses(m) \/ TurnStarts(m)
          PROVE  NoShellWorkers'
      <2>1. m \notin Shells
        BY <1>9, StartKinds DEF NoShellWorkers
      <2> QED BY <2>1, <1>2, <1>9 DEF WorkerNeverRuns, WorkerRefuses, TurnStarts
    <1>10. ASSUME NEW m \in Messages, TurnEnds(m) \/ SaveEnds(m) \/ SaveCut(m)
           PROVE  NoShellWorkers'
      <2>1. m \notin Shells
        BY <1>10 DEF TurnEnds, SaveEnds, SaveCut, NoShellWorkers
      <2> QED BY <2>1, <1>2, <1>10 DEF TurnEnds, SaveEnds, SaveCut, Release
    <1> QED BY <1>4, <1>5, <1>6, <1>7, <1>8, <1>9, <1>10 DEF Next, StartsTask, Proceeds

-----------------------------------------------------------------------------
(* Each step of the flow, as a step of the mailbox.                        *)

\* A message a task has started is in hand.
LEMMA StartedIsInHand ==
    ASSUME IInv, NEW kind \in JobKinds, NEW m \in Messages, Starts(kind, m)
    PROVE  m \in Hand
    <1>1. m \in Held /\ m \notin Elems(queue) /\ PlacedInv
      BY StartFacts DEF IInv
    <1> QED BY <1>1, KindsAssumption DEF Hand, PlacedInv

LEMMA InputIsMail ==
    ASSUME IInv, PlacedInv', NEW m \in Messages, SubmitPrompt(m) \/ SubmitCommand(m) \/ ShellNotify(m)
    PROVE  Mail!Accept(m)
    <1>1. outcome[m] = "new" /\ Becomes(m, "open")
      BY DEF SubmitPrompt, SubmitCommand, ShellNotify
    <1>2. UNCHANGED queue \/ queue' = Append(queue, m)
      BY DEF SubmitPrompt, SubmitCommand, ShellNotify, Trigger, AddWorker, Queue
    <1> QED BY <1>1, <1>2, Accepts

LEMMA DispatchIsMail ==
    ASSUME IInv, PlacedInv', NEW m \in Messages, QueuedYields(m) \/ QueuedDispatches(m) \/ SlashStarts(m)
    PROVE  [Mail!PutBack(m)]_(Mail!mailVars)
    <1>1. m \in Hand
      <2>1. PICK kind \in {"drained", "dispatch", "slash"} : Starts(kind, m)
        BY DEF QueuedYields, QueuedDispatches, SlashStarts
      <2>2. kind \in JobKinds
        BY DEF JobKinds
      <2> QED BY <2>1, <2>2, StartedIsInHand
    <1>2. UNCHANGED outcome
      BY DEF QueuedYields, QueuedDispatches, SlashStarts
    <1>3. UNCHANGED queue \/ queue' = Append(queue, m)
      BY DEF QueuedYields, QueuedDispatches, SlashStarts, ExecCompact, Trigger, AddWorker, Queue
    <1>4. CASE UNCHANGED queue
      <2>1. UNCHANGED Hand /\ PlacedInv
        BY <1>2, <1>4 DEF Hand, Open, IInv
      <2> QED BY <2>1, <1>2, <1>4, HandIs, HandWillBe DEF Mail!mailVars
    <1>5. CASE queue' = Append(queue, m)
      BY <1>1, <1>2, <1>5, PutsBack
    <1> QED BY <1>3, <1>4, <1>5

LEMMA StartIsMail ==
    ASSUME IInv, NoShellWorkers, PlacedInv', NEW m \in Messages,
           ShellStarts(m) \/ WorkerNeverRuns(m) \/ WorkerRefuses(m) \/ TurnStarts(m) \/ CompactionNeverRuns(m)
    PROVE  Mail!Settle(m)
    <1>1. m \in Hand
      <2>1. PICK kind \in {"shell", "worker", "compaction"} : Starts(kind, m)
        BY DEF ShellStarts, WorkerNeverRuns, WorkerRefuses, TurnStarts, CompactionNeverRuns
      <2>2. kind \in JobKinds
        BY DEF JobKinds
      <2> QED BY <2>1, <2>2, StartedIsInHand
    <1>2. UNCHANGED queue
      BY DEF ShellStarts, WorkerNeverRuns, WorkerRefuses, TurnStarts, CompactionNeverRuns
    <1>3. CASE ShellStarts(m)
      <2>1. m \in Shells
        BY <1>3, StartKinds
      <2>2. "ran" \in Ends[m]
        BY <2>1, KindsAssumption DEF Ends
      <2> QED BY <1>1, <1>2, <1>3, <2>2, SettlesOne DEF ShellStarts
    <1>4. CASE CompactionNeverRuns(m)
      <2>1. "lost" \in Ends[m]
        BY <1>4, StartKinds, KindsAssumption DEF Ends
      <2> QED BY <1>1, <1>2, <1>4, <2>1, SettlesOne DEF CompactionNeverRuns
    <1>5. CASE WorkerNeverRuns(m) \/ WorkerRefuses(m) \/ TurnStarts(m)
      <2>1. m \notin Shells /\ m \notin Compacts
        BY <1>5, StartKinds DEF NoShellWorkers, IInv, Kinds
      <2>2. {"sent", "refused", "lost"} \subseteq Ends[m]
        BY <2>1 DEF Ends
      <2>3. PICK what \in {"sent", "refused", "lost"} : Becomes(m, what)
        BY <1>5 DEF WorkerNeverRuns, WorkerRefuses, TurnStarts
      <2> QED BY <1>1, <1>2, <2>2, <2>3, SettlesOne
    <1> QED BY <1>3, <1>4, <1>5

LEMMA EndIsMail ==
    ASSUME IInv, PlacedInv', NEW m \in Messages, TurnEnds(m) \/ SaveEnds(m) \/ SaveCut(m) \/ ShellEnds(m)
    PROVE  [Mail!Take]_(Mail!mailVars)
    <1>1. UNCHANGED outcome /\ PlacedInv
      BY DEF TurnEnds, SaveEnds, SaveCut, ShellEnds, IInv
    <1>2. UNCHANGED queue \/ (queue # <<>> /\ queue' = Tail(queue))
      BY DEF TurnEnds, SaveEnds, SaveCut, ShellEnds, Release, PopQueued
    <1>3. CASE UNCHANGED queue
      <2>1. UNCHANGED Hand
        BY <1>1, <1>3 DEF Hand, Open
      <2> QED BY <2>1, <1>1, <1>3, HandIs, HandWillBe DEF Mail!mailVars
    <1>4. CASE queue # <<>> /\ queue' = Tail(queue)
      BY <1>1, <1>4, Takes
    <1> QED BY <1>2, <1>3, <1>4

LEMMA CompactionIsMail ==
    ASSUME IInv, PlacedInv', NEW m \in Messages, CompactionEnds(m)
    PROVE  Mail!Settle(m)
    <1>1. m \in Compacting /\ PlacedInv /\ Kinds
      BY DEF CompactionEnds, Compacting, IInv
    <1>2. m \in Hand
      BY <1>1 DEF PlacedInv, Held, Hand
    <1>3. m \in Compacts
      BY <1>1 DEF Kinds, Compacting
    <1>4. {"stopped", "compacted"} \subseteq Ends[m]
      BY <1>3, KindsAssumption DEF Ends
    <1>5. PICK what \in {"stopped", "compacted"} : Becomes(m, what)
      BY DEF CompactionEnds
    <1>6. UNCHANGED queue \/ (queue # <<>> /\ queue' = Tail(queue))
      BY DEF CompactionEnds, PopQueued
    <1> QED BY <1>2, <1>4, <1>5, <1>6, SettlesOne

LEMMA MailStep == IInv /\ NoShellWorkers /\ [Next]_vars => [Mail!Next]_(Mail!mailVars)
    <1> SUFFICES ASSUME IInv, NoShellWorkers, [Next]_vars
                 PROVE  [Mail!Next]_(Mail!mailVars)
      OBVIOUS
    <1>1. PlacedInv /\ PlacedInv'
      BY PlacedStep DEF IInv
    <1>2. ASSUME NEW m \in Messages, SubmitPrompt(m) \/ SubmitCommand(m) \/ ShellNotify(m)
          PROVE  Mail!Next
      BY <1>1, <1>2, InputIsMail DEF Mail!Next
    <1>3. ASSUME NEW m \in Messages, StartsTask(m)
          PROVE  [Mail!Next]_(Mail!mailVars)
      <2>1. CASE QueuedYields(m) \/ QueuedDispatches(m) \/ SlashStarts(m)
        BY <1>1, <2>1, DispatchIsMail DEF Mail!Next
      <2>2. CASE ShellStarts(m) \/ WorkerNeverRuns(m) \/ WorkerRefuses(m) \/ TurnStarts(m)
                 \/ CompactionNeverRuns(m)
        BY <1>1, <2>2, StartIsMail DEF Mail!Next
      <2>3. CASE CompactionStarts(m)
        BY <1>1, <2>3, Stutters DEF CompactionStarts
      <2> QED BY <1>3, <2>1, <2>2, <2>3 DEF StartsTask
    <1>4. ASSUME NEW m \in Messages, Proceeds(m)
          PROVE  [Mail!Next]_(Mail!mailVars)
      <2>1. CASE TurnEnds(m) \/ SaveEnds(m) \/ SaveCut(m) \/ ShellEnds(m)
        BY <1>1, <2>1, EndIsMail DEF Mail!Next
      <2>2. CASE CompactionEnds(m)
        BY <1>1, <2>2, CompactionIsMail DEF Mail!Next
      <2> QED BY <1>4, <2>1, <2>2 DEF Proceeds
    <1>5. CASE NewResets \/ \E m \in Messages : TurnDrains(m)
      <2>1. PICK what \in {"sent", "discarded"} : Become(QueuedMessages, what)
        BY <1>5 DEF NewResets, TurnDrains
      <2>2. queue' = <<>>
        BY <1>5 DEF NewResets, TurnDrains
      <2> QED BY <1>1, <2>1, <2>2, Empties DEF Mail!Next
    <1>6. CASE \/ PressEsc \/ SubmitNew \/ NewStarts \/ Chosen \/ UNCHANGED vars
               \/ \E m \in Messages : NewInsists(m)
      <2>1. UNCHANGED <<queue, outcome>>
        BY <1>6 DEF PressEsc, SubmitNew, NewStarts, Chosen, NewInsists, vars
      <2> QED BY <1>1, <2>1, Stutters
    <1> QED BY <1>2, <1>3, <1>4, <1>5, <1>6 DEF Next

LEMMA MailInit == Init => Mail!Init
    BY DEF Init, Mail!Init, TaskMessages, Compacting

\* For every set of messages and any number of Esc presses and "/new"s: the
\* message flow, with its tasks, workers, flags and three places that pop the
\* queue, is a mailbox.  A message is handed in once, waits in the order of
\* arrival, is in one hand at a time, goes back to the end of the line only,
\* and is settled once, in a way that fits its kind.
THEOREM FlowIsMailbox == Spec => ImplementsMailbox
    <1>1. Init => NoShellWorkers
      BY DEF Init, NoShellWorkers
    <1>2. IInv /\ NoShellWorkers /\ [Next]_vars => NoShellWorkers'
      BY NoShellWorkersStep
    <1> QED BY <1>1, <1>2, IInvInit, IInvStep, MailInit, MailStep, PTL DEF Spec, ImplementsMailbox, Mail!Spec
=============================================================================
