--------------------------- MODULE McpPoolProofs ----------------------------
(***************************************************************************)
(* Whatever the attempts, clients and stops: SharedProcess and Handled are *)
(* invariants of McpPool.                                                  *)
(*                                                                         *)
(* The inductive invariant says where a process that runs can be found.    *)
(* An attempt that holds the start lock owns its client from its creation  *)
(* to the end of its teardown, and no two of one generation hold it; while *)
(* its generation is the present one the client is the registered one,     *)
(* unless a disable deleted it by its name or a call restarted it.         *)
(***************************************************************************)
EXTENDS McpPool, TLAPS

Ids == {NoClient} \cup Made

Records ==
    [pc : {"idle", "waiting", "spawning", "initializing", "failed", "tearing"},
     gen : Nat, client : Nat, bad : BOOLEAN, cancelled : BOOLEAN]

\* What the variables range over.
ClientsOK ==
    /\ asked \in Seq(Nat)
    /\ process \in [Made -> {"none", "alive", "dead"}]
    /\ stopped \in [Made -> BOOLEAN]
AttemptsOK == attempt \in [Attempts -> Records]
ManagerOK ==
    /\ generation \in Nat
    /\ registry \in Ids /\ stopping \subseteq Made /\ strays \subseteq Made
    /\ toggle \in [pc : {"idle", "stopping", "forgetting", "deleting"}, client : Nat]
    /\ call \in [pc : {"idle", "waiting", "spawning", "initializing"}, client : Nat]
TypeOK == ClientsOK /\ AttemptsOK /\ ManagerOK

\* The attempt has the start lock and a client of its own.
Held(a) == attempt[a].pc \in {"spawning", "initializing", "failed", "tearing"}

\* Registered, or an exception the properties name.
Sheltered(c) == c = registry \/ c \in strays

\* What the program counter of an attempt says of its client.
Owns(a) ==
    LET c == attempt[a].client IN
    /\ attempt[a].gen <= generation
    /\ IF Held(a) THEN c \in Made /\ asked[c] = attempt[a].gen ELSE c = NoClient
    /\ attempt[a].gen = generation =>
          /\ attempt[a].pc \in {"spawning", "initializing"} => Sheltered(c)
          /\ attempt[a].pc = "failed" => Sheltered(c) \/ process[c] # "alive"
    /\ attempt[a].pc = "tearing" => c \in stopping \cup strays \/ process[c] # "alive"

\* The start lock of a generation has one holder.
Exclusive ==
    \A a, b \in Attempts : Held(a) /\ Held(b) /\ attempt[a].gen = attempt[b].gen => a = b

\* The registered client is of the present generation; what a call starts
\* again is on record.
Registered ==
    /\ registry # NoClient => asked[registry] = generation
    /\ call.pc \in {"spawning", "initializing"} => call.client \in strays
    /\ call.pc = "waiting" => call.client \in Made

\* Somebody answers for a process that runs.
Answered(c) ==
    process[c] = "alive" =>
       Sheltered(c) \/ c \in stopping \/ \E a \in Attempts : Held(a) /\ attempt[a].client = c

IInv ==
    /\ TypeOK /\ Exclusive /\ Registered
    /\ \A a \in Attempts : Owns(a)
    /\ \A c \in Made : Answered(c)

USE McpAssumption DEF NoClient

-----------------------------------------------------------------------------
(* What the assignments do to the attempts and to the clients.             *)

\* The attempt goes on alone; its program counter and its client change.
Steps(a, where, c) ==
    /\ AttemptsOK'
    /\ \A b \in Attempts \ {a} : attempt'[b] = attempt[b]
    /\ attempt'[a].pc = where /\ attempt'[a].client = c
    /\ attempt'[a].gen \in {attempt[a].gen, 0}
    /\ where # "idle" => attempt'[a].gen = attempt[a].gen

\* No client is made and the process of c is now p.
Becomes(c, p) ==
    /\ ClientsOK' /\ asked' = asked
    /\ process'[c] = p
    /\ \A d \in Made \ {c} : process'[d] = process[d]

\* Helpers that set an attempt aside, fail it, reset or start it change only it.
LEMMA MoveSteps ==
  ASSUME AttemptsOK, NEW a \in Attempts, NEW where \in {"initializing", "failed", "tearing"},
         Move(a, where)
  PROVE  Steps(a, where, attempt[a].client)
BY DEF AttemptsOK, Records, Move, Steps

\* A failed attempt keeps its client.
LEMMA FailSteps ==
  ASSUME AttemptsOK, NEW a \in Attempts, NEW bad \in BOOLEAN, Fail(a, bad)
  PROVE  Steps(a, "failed", attempt[a].client)
BY DEF AttemptsOK, Records, Fail, Steps

\* An attempt that is over has no client.
LEMMA ResetSteps ==
  ASSUME AttemptsOK, NEW a \in Attempts, attempt' = [attempt EXCEPT ![a] = IdleAttempt]
  PROVE  Steps(a, "idle", NoClient)
BY DEF AttemptsOK, Records, IdleAttempt, Steps

\* An attempt that creates its client holds the new one.
LEMMA CreatesSteps ==
  ASSUME AttemptsOK, ClientsOK, NEW a \in Attempts, Creates(a)
  PROVE  Steps(a, "spawning", Fresh)
<1>1. Fresh \in Nat
  BY DEF ClientsOK, Fresh
<1> QED
  BY <1>1 DEF AttemptsOK, Records, Creates, Steps

\* A new client has no process; the others are as they were.
LEMMA CreatesAppends ==
  ASSUME AttemptsOK, ClientsOK, NEW a \in Attempts, Creates(a)
  PROVE  /\ ClientsOK' /\ Made' = Made \cup {Fresh} /\ Fresh \notin Made /\ Fresh \in Nat
         /\ asked'[Fresh] = attempt[a].gen /\ process'[Fresh] = "none"
         /\ \A d \in Made : asked'[d] = asked[d] /\ process'[d] = process[d]
<1>1. /\ Len(asked) \in Nat /\ Made = 1 .. Len(asked) /\ attempt[a].gen \in Nat
      /\ asked \in Seq(Nat) /\ process \in Seq({"none", "alive", "dead"}) /\ stopped \in Seq(BOOLEAN)
      /\ Len(process) = Len(asked) /\ Len(stopped) = Len(asked)
  BY DEF ClientsOK, AttemptsOK, Records, Made
<1>2. /\ asked' \in Seq(Nat) /\ process' \in Seq({"none", "alive", "dead"}) /\ stopped' \in Seq(BOOLEAN)
      /\ Len(asked') = Len(asked) + 1 /\ Len(process') = Len(asked) + 1 /\ Len(stopped') = Len(asked) + 1
      /\ asked'[Fresh] = attempt[a].gen /\ process'[Fresh] = "none"
      /\ \A d \in 1 .. Len(asked) : asked'[d] = asked[d] /\ process'[d] = process[d]
  BY <1>1 DEF Creates, Fresh
<1>3. ClientsOK'
  BY <1>2 DEF ClientsOK, Made
<1>4. Made' = Made \cup {Fresh} /\ Fresh \notin Made /\ Fresh \in Nat
  BY <1>1, <1>2 DEF Made, Fresh
<1> QED
  BY <1>1, <1>2, <1>3, <1>4

\* A stopped client has no process; the others are as they were.
LEMMA StopBecomes ==
  ASSUME ClientsOK, NEW c \in Made, StopClient(c) PROVE Becomes(c, "none")
BY DEF ClientsOK, StopClient, Becomes, Made

\* A client's process is born or dies alone.
LEMMA SetBecomes ==
  ASSUME ClientsOK, NEW c \in Made, NEW p \in {"none", "alive", "dead"},
         asked' = asked, stopped' \in [Made -> BOOLEAN], process' = [process EXCEPT ![c] = p]
  PROVE  Becomes(c, p)
BY DEF ClientsOK, Becomes, Made

-----------------------------------------------------------------------------
(* Every step keeps the invariant.                                         *)

\* Nothing has been asked for: no attempt, no client, no process.
LEMMA InitIInv == Init => IInv
<1> SUFFICES ASSUME Init PROVE IInv
  OBVIOUS
<1>1. TypeOK
  BY DEF Init, TypeOK, ClientsOK, AttemptsOK, ManagerOK, Records, IdleAttempt,
     IdleThread, Ids, Made
<1>2. Exclusive /\ Registered
  BY DEF Init, Exclusive, Registered, Held, IdleAttempt, IdleThread
<1>3. ASSUME NEW a \in Attempts PROVE Owns(a)
  BY DEF Init, Owns, Held, IdleAttempt
<1>4. ASSUME NEW c \in Made PROVE Answered(c)
  BY DEF Init, Made
<1> QED
  BY <1>1, <1>2, <1>3, <1>4 DEF IInv

\* An attempt takes the lock: it goes away, or it makes a client.
LEMMA EnterKeeps == ASSUME IInv, NEW a \in Attempts, Enter(a) PROVE IInv'
<1>0. /\ ClientsOK /\ AttemptsOK /\ ManagerOK /\ Registered /\ Exclusive
      /\ \A b \in Attempts : Owns(b)
      /\ \A d \in Made : Answered(d)
  BY DEF IInv, TypeOK
<1>1. CASE attempt' = [attempt EXCEPT ![a] = IdleAttempt] /\ UNCHANGED <<clientVars, registry>>
  <2>1. Steps(a, "idle", NoClient)
    BY <1>0, <1>1, ResetSteps
  <2>2. TypeOK'
    BY <1>0, <1>1, <2>1 DEF TypeOK, ClientsOK, ManagerOK, Ids, Made, Steps, Enter, clientVars
  <2>3. Exclusive' /\ Registered'
    BY <1>0, <1>1, <2>1 DEF Exclusive, Registered, Held, Steps, Enter, clientVars, Made
  <2>4. ASSUME NEW b \in Attempts PROVE Owns(b)'
    BY <1>0, <1>1, <2>1 DEF Owns, Held, Sheltered, ManagerOK, Steps, Enter, clientVars, Made
  <2>5. ASSUME NEW d \in Made' PROVE Answered(d)'
    BY <1>0, <1>1, <2>1 DEF Answered, Held, Sheltered, Steps, Enter, clientVars, Made
  <2> QED
    BY <2>2, <2>3, <2>4, <2>5 DEF IInv
<1>2. CASE generation = attempt[a].gen /\ registry = NoClient /\ Creates(a)
  <2>1. Steps(a, "spawning", Fresh) /\ registry' = Fresh
    BY <1>0, <1>2, CreatesSteps DEF Creates
  <2>2. /\ ClientsOK' /\ Made' = Made \cup {Fresh} /\ Fresh \notin Made /\ Fresh \in Nat
        /\ asked'[Fresh] = attempt[a].gen /\ process'[Fresh] = "none"
        /\ \A d \in Made : asked'[d] = asked[d] /\ process'[d] = process[d]
    BY <1>0, <1>2, CreatesAppends
  <2>3. TypeOK'
    BY <1>0, <2>1, <2>2 DEF TypeOK, ManagerOK, Ids, Steps, Enter
  <2>4. Exclusive'
    BY <1>0, <2>1 DEF Exclusive, Held, LockFree, Steps, Enter
  <2>5. Registered'
    BY <1>0, <1>2, <2>1, <2>2 DEF Registered, Enter
  <2>6. ASSUME NEW b \in Attempts PROVE Owns(b)'
    <3>1. CASE b = a
      BY <1>0, <1>2, <2>1, <2>2, <3>1 DEF Owns, Held, Sheltered, Steps, Enter
    <3>2. CASE b # a
      <4>1. Held(b) => attempt[b].gen # generation
        BY <1>2 DEF Held, LockFree, Enter
      <4>2. attempt'[b] = attempt[b] /\ (Held(b) => attempt[b].client \in Made)
        BY <1>0, <2>1, <3>2 DEF Steps, Owns
      <4> QED
        BY <1>0, <2>2, <4>1, <4>2 DEF Owns, Held, Enter
    <3> QED
      BY <3>1, <3>2
  <2>7. ASSUME NEW d \in Made' PROVE Answered(d)'
    <3>1. CASE d = Fresh
      BY <2>2, <3>1 DEF Answered
    <3>2. CASE d \in Made
      <4>1. \A b \in Attempts : Held(b) /\ attempt[b].client = d
                                => Held(b)' /\ attempt'[b].client = d
        BY <1>2, <2>1, <2>2, <3>2 DEF Held, LockFree, Steps, Enter
      <4>2. process'[d] = process[d] /\ d # NoClient
        BY <1>0, <2>2, <3>2 DEF ClientsOK, Made
      <4> QED
        BY <1>0, <1>2, <3>2, <4>1, <4>2 DEF Answered, Sheltered, Enter
    <3> QED
      BY <2>2, <3>1, <3>2
  <2> QED
    BY <2>3, <2>4, <2>5, <2>6, <2>7 DEF IInv
<1> QED
  BY <1>1, <1>2 DEF Enter

\* An attempt begins.
LEMMA BeginKeeps == ASSUME IInv, NEW a \in Attempts, Begin(a) PROVE IInv'
<1>0. /\ ClientsOK /\ AttemptsOK /\ ManagerOK /\ Registered /\ Exclusive
      /\ \A b \in Attempts : Owns(b)
      /\ \A d \in Made : Answered(d)
  BY DEF IInv, TypeOK
<1>2. TypeOK'
  <2>1. ClientsOK'
    BY <1>0 DEF ClientsOK, clientVars, Made, Begin
  <2>2. AttemptsOK'
    BY <1>0 DEF AttemptsOK, Records, IdleAttempt, ManagerOK, Begin
  <2>3. ManagerOK'
    BY <1>0 DEF ManagerOK, Ids, Begin, IdleAttempt, clientVars, Made, AttemptsOK, Records
  <2> QED
    BY <2>1, <2>2, <2>3 DEF TypeOK
<1>3. Exclusive'
  BY <1>0 DEF Exclusive, Held, Begin, IdleAttempt, clientVars, Made, AttemptsOK, Records
<1>4. Registered'
  BY <1>0 DEF Registered, Owns, Held, Ids, ManagerOK, Begin, IdleAttempt, clientVars,
     Made, AttemptsOK, Records
<1>5. ASSUME NEW b \in Attempts PROVE Owns(b)'
  BY <1>0 DEF Owns, Held, Exclusive, Sheltered, Registered, ManagerOK, ClientsOK, Begin,
     IdleAttempt, clientVars, Made, AttemptsOK, Records
<1>6. ASSUME NEW d \in Made' PROVE Answered(d)'
  BY <1>0 DEF Answered, Sheltered, Owns, Held, Registered, Begin, IdleAttempt,
     clientVars, Made, AttemptsOK, Records
<1> QED
  BY <1>2, <1>3, <1>4, <1>5, <1>6 DEF IInv

\* Popen is back.
LEMMA SpawnedKeeps == ASSUME IInv, NEW a \in Attempts, Spawned(a) PROVE IInv'
<1>0. /\ ClientsOK /\ AttemptsOK /\ ManagerOK /\ Registered /\ Exclusive
      /\ \A b \in Attempts : Owns(b)
      /\ \A d \in Made : Answered(d)
  BY DEF IInv, TypeOK
<1>1. \/ Steps(a, "initializing", attempt[a].client) /\ Becomes(attempt[a].client, "alive")
      \/ Steps(a, "failed", attempt[a].client) /\ Becomes(attempt[a].client, "none")
  BY <1>0, MoveSteps, FailSteps, StopBecomes, SetBecomes DEF Spawned, Owns, Held, ClientsOK
<1>2. TypeOK'
  <2>1. ClientsOK'
    BY <1>0, <1>1 DEF Becomes
  <2>2. AttemptsOK'
    BY <1>0, <1>1 DEF Steps
  <2>3. ManagerOK'
    BY <1>0, <1>1 DEF ManagerOK, Ids, Spawned, Steps, Becomes, Made
  <2> QED
    BY <2>1, <2>2, <2>3 DEF TypeOK
<1>3. Exclusive'
  BY <1>0, <1>1 DEF Exclusive, Held, Spawned, Steps, Becomes, Made
<1>4. Registered'
  BY <1>0, <1>1 DEF Registered, Owns, Held, Ids, ManagerOK, Spawned, Steps, Becomes, Made
<1>5. ASSUME NEW b \in Attempts PROVE Owns(b)'
  <2>1. CASE b = a
    <3>1. CASE Steps(a, "initializing", attempt[a].client) /\ Becomes(attempt[a].client, "alive")
      BY <1>0, <2>1, <3>1 DEF Owns, Held, Sheltered, Spawned, Steps, Becomes, Made
    <3>2. CASE Steps(a, "failed", attempt[a].client) /\ Becomes(attempt[a].client, "none")
      BY <1>0, <2>1, <3>2 DEF Owns, Held, Sheltered, Spawned, Steps, Becomes, Made
    <3> QED
      BY <1>1, <3>1, <3>2
  <2>2. CASE b # a
    <3>1. Held(b) => attempt[b].client # attempt[a].client
      BY <1>0, <2>2 DEF Exclusive, Owns, Held, Spawned
    <3> QED
      BY <1>0, <1>1, <2>2, <3>1 DEF Owns, Held, Sheltered, Spawned, Steps, Becomes, Made
  <2> QED
    BY <2>1, <2>2
<1>6. ASSUME NEW d \in Made' PROVE Answered(d)'
  BY <1>0, <1>1 DEF Answered, Sheltered, Owns, Held, Registered, Spawned, Steps, Becomes, Made
<1> QED
  BY <1>2, <1>3, <1>4, <1>5, <1>6 DEF IInv

\* The handshake succeeds.
LEMMA ReadyKeeps == ASSUME IInv, NEW a \in Attempts, Ready(a) PROVE IInv'
<1>0. /\ ClientsOK /\ AttemptsOK /\ ManagerOK /\ Registered /\ Exclusive
      /\ \A b \in Attempts : Owns(b)
      /\ \A d \in Made : Answered(d)
  BY DEF IInv, TypeOK
<1>1. \/ Steps(a, "failed", attempt[a].client) /\ generation # attempt[a].gen
      \/ Steps(a, "idle", NoClient) /\ generation = attempt[a].gen
  BY <1>0, MoveSteps, ResetSteps DEF Ready
<1>2. TypeOK'
  <2>1. ClientsOK'
    BY <1>0, <1>1 DEF ClientsOK, clientVars, Made, Ready
  <2>2. AttemptsOK'
    BY <1>0, <1>1 DEF Steps
  <2>3. ManagerOK'
    BY <1>0, <1>1 DEF ManagerOK, Ids, Ready, Steps, clientVars, Made
  <2> QED
    BY <2>1, <2>2, <2>3 DEF TypeOK
<1>3. Exclusive'
  BY <1>0, <1>1 DEF Exclusive, Held, Ready, Steps, clientVars, Made
<1>4. Registered'
  BY <1>0, <1>1 DEF Registered, Owns, Held, Ids, ManagerOK, Ready, Steps, clientVars, Made
<1>5. ASSUME NEW b \in Attempts PROVE Owns(b)'
  BY <1>0, <1>1 DEF Owns, Held, Exclusive, Sheltered, Registered, ManagerOK, ClientsOK,
     Ready, Steps, clientVars, Made
<1>6. ASSUME NEW d \in Made' PROVE Answered(d)'
  BY <1>0, <1>1 DEF Answered, Sheltered, Owns, Held, Registered, Ready, Steps, clientVars, Made
<1> QED
  BY <1>2, <1>3, <1>4, <1>5, <1>6 DEF IInv

\* The handshake fails.
LEMMA NotReadyKeeps == ASSUME IInv, NEW a \in Attempts, NotReady(a) PROVE IInv'
<1>0. /\ ClientsOK /\ AttemptsOK /\ ManagerOK /\ Registered /\ Exclusive
      /\ \A b \in Attempts : Owns(b)
      /\ \A d \in Made : Answered(d)
  BY DEF IInv, TypeOK
<1>1. Steps(a, "failed", attempt[a].client) /\ Becomes(attempt[a].client, "none")
  BY <1>0, FailSteps, StopBecomes DEF NotReady, Owns, Held
<1>2. TypeOK'
  <2>1. ClientsOK'
    BY <1>0, <1>1 DEF Becomes
  <2>2. AttemptsOK'
    BY <1>0, <1>1 DEF Steps
  <2>3. ManagerOK'
    BY <1>0, <1>1 DEF ManagerOK, Ids, NotReady, Steps, Becomes, Made
  <2> QED
    BY <2>1, <2>2, <2>3 DEF TypeOK
<1>3. Exclusive'
  BY <1>0, <1>1 DEF Exclusive, Held, NotReady, Steps, Becomes, Made
<1>4. Registered'
  BY <1>0, <1>1 DEF Registered, Owns, Held, Ids, ManagerOK, NotReady, Steps, Becomes, Made
<1>5. ASSUME NEW b \in Attempts PROVE Owns(b)'
  BY <1>0, <1>1 DEF Owns, Held, Exclusive, Sheltered, Registered, ManagerOK, ClientsOK,
     NotReady, Steps, Becomes, Made
<1>6. ASSUME NEW d \in Made' PROVE Answered(d)'
  BY <1>0, <1>1 DEF Answered, Sheltered, Owns, Held, Registered, NotReady, Steps, Becomes, Made
<1> QED
  BY <1>2, <1>3, <1>4, <1>5, <1>6 DEF IInv

\* A time limit, or a cancellation.
LEMMA GivesUpKeeps == ASSUME IInv, NEW a \in Attempts, GivesUp(a) PROVE IInv'
<1>0. /\ ClientsOK /\ AttemptsOK /\ ManagerOK /\ Registered /\ Exclusive
      /\ \A b \in Attempts : Owns(b)
      /\ \A d \in Made : Answered(d)
  BY DEF IInv, TypeOK
<1>1. \/ Steps(a, "idle", NoClient) /\ attempt[a].pc = "waiting"
      \/ Steps(a, "failed", attempt[a].client) /\ attempt[a].pc \in {"spawning", "initializing"}
  BY <1>0, FailSteps, ResetSteps DEF GivesUp
<1>2. TypeOK'
  <2>1. ClientsOK'
    BY <1>0, <1>1 DEF ClientsOK, clientVars, Made, GivesUp
  <2>2. AttemptsOK'
    BY <1>0, <1>1 DEF Steps
  <2>3. ManagerOK'
    BY <1>0, <1>1 DEF ManagerOK, Ids, GivesUp, Steps, clientVars, Made
  <2> QED
    BY <2>1, <2>2, <2>3 DEF TypeOK
<1>3. Exclusive'
  BY <1>0, <1>1 DEF Exclusive, Held, GivesUp, Steps, clientVars, Made
<1>4. Registered'
  BY <1>0, <1>1 DEF Registered, Owns, Held, Ids, ManagerOK, GivesUp, Steps, clientVars, Made
<1>5. ASSUME NEW b \in Attempts PROVE Owns(b)'
  <2>1. CASE b = a
    <3>1. CASE Steps(a, "idle", NoClient) /\ attempt[a].pc = "waiting"
      BY <1>0, <2>1, <3>1 DEF Owns, Held, ManagerOK, GivesUp, Steps, clientVars, Made
    <3>2. CASE /\ Steps(a, "failed", attempt[a].client)
               /\ attempt[a].pc \in {"spawning", "initializing"}
      BY <1>0, <2>1, <3>2 DEF Owns, Held, Sheltered, GivesUp, Steps, clientVars, Made
    <3> QED
      BY <1>1, <3>1, <3>2
  <2>2. CASE b # a
    BY <1>0, <1>1, <2>2 DEF Owns, Held, Sheltered, GivesUp, Steps, clientVars, Made
  <2> QED
    BY <2>1, <2>2
<1>6. ASSUME NEW d \in Made' PROVE Answered(d)'
  BY <1>0, <1>1 DEF Answered, Sheltered, Owns, Held, Registered, GivesUp, Steps,
     clientVars, Made
<1> QED
  BY <1>2, <1>3, <1>4, <1>5, <1>6 DEF IInv

\* The teardown starts.
LEMMA TeardownKeeps == ASSUME IInv, NEW a \in Attempts, Teardown(a) PROVE IInv'
<1>0. /\ ClientsOK /\ AttemptsOK /\ ManagerOK /\ Registered /\ Exclusive
      /\ \A b \in Attempts : Owns(b)
      /\ \A d \in Made : Answered(d)
  BY DEF IInv, TypeOK
<1>1. Steps(a, "tearing", attempt[a].client)
  BY <1>0, MoveSteps DEF Teardown
<1>2. TypeOK'
  <2>1. ClientsOK'
    BY <1>0, <1>1 DEF ClientsOK, clientVars, Made, Teardown
  <2>2. AttemptsOK'
    BY <1>0, <1>1 DEF Steps
  <2>3. ManagerOK'
    BY <1>0, <1>1 DEF ManagerOK, Ids, Teardown, Steps, clientVars, Made, Owns, Held
  <2> QED
    BY <2>1, <2>2, <2>3 DEF TypeOK
<1>3. Exclusive'
  BY <1>0, <1>1 DEF Exclusive, Held, Teardown, Steps, clientVars, Made, Owns, Held
<1>4. Registered'
  BY <1>0, <1>1 DEF Registered, Owns, Held, Ids, ManagerOK, Teardown, Steps, clientVars,
     Made, Owns, Held
<1>5. ASSUME NEW b \in Attempts PROVE Owns(b)'
  BY <1>0, <1>1 DEF Owns, Held, Exclusive, Sheltered, Registered, ManagerOK, ClientsOK,
     Teardown, Steps, clientVars, Made, Owns, Held
<1>6. ASSUME NEW d \in Made' PROVE Answered(d)'
  BY <1>0, <1>1 DEF Answered, Sheltered, Owns, Held, Registered, Teardown, Steps,
     clientVars, Made, Owns, Held
<1> QED
  BY <1>2, <1>3, <1>4, <1>5, <1>6 DEF IInv

\* The teardown ends.
LEMMA DroppedKeeps == ASSUME IInv, NEW a \in Attempts, Dropped(a) PROVE IInv'
<1>0. /\ ClientsOK /\ AttemptsOK /\ ManagerOK /\ Registered /\ Exclusive
      /\ \A b \in Attempts : Owns(b)
      /\ \A d \in Made : Answered(d)
  BY DEF IInv, TypeOK
<1>1. Steps(a, "idle", NoClient)
  BY <1>0, ResetSteps DEF Dropped
<1>2. TypeOK'
  <2>1. ClientsOK'
    BY <1>0, <1>1 DEF ClientsOK, clientVars, Made, Dropped
  <2>2. AttemptsOK'
    BY <1>0, <1>1 DEF Steps
  <2>3. ManagerOK'
    BY <1>0, <1>1 DEF ManagerOK, Ids, Dropped, Steps, clientVars, Made
  <2> QED
    BY <2>1, <2>2, <2>3 DEF TypeOK
<1>3. Exclusive'
  BY <1>0, <1>1 DEF Exclusive, Held, Dropped, Steps, clientVars, Made
<1>4. Registered'
  BY <1>0, <1>1 DEF Registered, Owns, Held, Ids, ManagerOK, Dropped, Steps, clientVars, Made
<1>5. ASSUME NEW b \in Attempts PROVE Owns(b)'
  BY <1>0, <1>1 DEF Owns, Held, Exclusive, Sheltered, Registered, ManagerOK, ClientsOK,
     Dropped, Steps, clientVars, Made
<1>6. ASSUME NEW d \in Made' PROVE Answered(d)'
  BY <1>0, <1>1 DEF Answered, Sheltered, Owns, Held, Registered, Dropped, Steps,
     clientVars, Made
<1> QED
  BY <1>2, <1>3, <1>4, <1>5, <1>6 DEF IInv

\* A thread that stops a client ends.
LEMMA StopEndsKeeps == ASSUME IInv, NEW c \in Clients, StopEnds(c) PROVE IInv'
<1>0. /\ ClientsOK /\ AttemptsOK /\ ManagerOK /\ Registered /\ Exclusive
      /\ \A b \in Attempts : Owns(b)
      /\ \A d \in Made : Answered(d)
  BY DEF IInv, TypeOK
<1>1. Becomes(c, "none")
  BY <1>0, StopBecomes DEF StopEnds, ManagerOK
<1>2. TypeOK'
  <2>1. ClientsOK'
    BY <1>0, <1>1 DEF Becomes
  <2>2. AttemptsOK'
    BY <1>0, <1>1 DEF AttemptsOK, StopEnds
  <2>3. ManagerOK'
    BY <1>0, <1>1 DEF ManagerOK, Ids, StopEnds, Becomes, Made
  <2> QED
    BY <2>1, <2>2, <2>3 DEF TypeOK
<1>3. Exclusive'
  BY <1>0, <1>1 DEF Exclusive, Held, StopEnds, Becomes, Made
<1>4. Registered'
  BY <1>0, <1>1 DEF Registered, Owns, Held, Ids, ManagerOK, StopEnds, Becomes, Made
<1>5. ASSUME NEW b \in Attempts PROVE Owns(b)'
  BY <1>0, <1>1 DEF Owns, Held, Exclusive, Sheltered, Registered, ManagerOK, ClientsOK,
     StopEnds, Becomes, Made
<1>6. ASSUME NEW d \in Made' PROVE Answered(d)'
  BY <1>0, <1>1 DEF Answered, Sheltered, Owns, Held, Registered, StopEnds, Becomes, Made
<1> QED
  BY <1>2, <1>3, <1>4, <1>5, <1>6 DEF IInv

\* The manager stops all.
LEMMA StopAllKeeps == ASSUME IInv, StopAll PROVE IInv'
<1>0. /\ ClientsOK /\ AttemptsOK /\ ManagerOK /\ Registered /\ Exclusive
      /\ \A b \in Attempts : Owns(b)
      /\ \A d \in Made : Answered(d)
  BY DEF IInv, TypeOK
<1>1. /\ ClientsOK' /\ asked' = asked
      /\ \A d \in Made : process'[d] = IF d = registry THEN "none" ELSE process[d]
  <2>1. CASE registry = NoClient
    BY <1>0, <2>1 DEF StopAll, ClientsOK, clientVars, Made
  <2>2. CASE registry # NoClient
    BY <1>0, <2>2, StopBecomes DEF StopAll, Becomes, ManagerOK, Ids
  <2> QED
    BY <2>1, <2>2
<1>2. TypeOK'
  <2>1. ClientsOK'
    BY <1>0, <1>1 DEF ClientsOK, StopAll
  <2>2. AttemptsOK'
    BY <1>0, <1>1 DEF AttemptsOK, Records, StopAll
  <2>3. ManagerOK'
    BY <1>0, <1>1 DEF ManagerOK, Ids, StopAll, Made, AttemptsOK, Records
  <2> QED
    BY <2>1, <2>2, <2>3 DEF TypeOK
<1>3. Exclusive'
  BY <1>0, <1>1 DEF Exclusive, Held, StopAll, Made, AttemptsOK, Records
<1>4. Registered'
  BY <1>0, <1>1 DEF Registered, Owns, Held, Ids, ManagerOK, StopAll, Made, AttemptsOK, Records
<1>5. ASSUME NEW b \in Attempts PROVE Owns(b)'
  BY <1>0, <1>1 DEF Owns, Held, Exclusive, Sheltered, Registered, ManagerOK, ClientsOK,
     StopAll, Made, AttemptsOK, Records
<1>6. ASSUME NEW d \in Made' PROVE Answered(d)'
  BY <1>0, <1>1 DEF Answered, Sheltered, Owns, Held, Registered, StopAll, Made,
     AttemptsOK, Records
<1> QED
  BY <1>2, <1>3, <1>4, <1>5, <1>6 DEF IInv

\* A disable begins.
LEMMA DisableKeeps == ASSUME IInv, Disable PROVE IInv'
<1>0. /\ ClientsOK /\ AttemptsOK /\ ManagerOK /\ Registered /\ Exclusive
      /\ \A b \in Attempts : Owns(b)
      /\ \A d \in Made : Answered(d)
  BY DEF IInv, TypeOK
<1>2. TypeOK'
  <2>1. ClientsOK'
    BY <1>0 DEF ClientsOK, clientVars, Made, Disable
  <2>2. AttemptsOK'
    BY <1>0 DEF AttemptsOK, Disable
  <2>3. ManagerOK'
    BY <1>0 DEF ManagerOK, Ids, Disable, clientVars, Made, ClientsOK
  <2> QED
    BY <2>1, <2>2, <2>3 DEF TypeOK
<1>3. Exclusive'
  BY <1>0 DEF Exclusive, Held, Disable, clientVars, Made
<1>4. Registered'
  BY <1>0 DEF Registered, Owns, Held, Ids, ManagerOK, Disable, clientVars, Made
<1>5. ASSUME NEW b \in Attempts PROVE Owns(b)'
  BY <1>0 DEF Owns, Held, Exclusive, Sheltered, Registered, ManagerOK, ClientsOK,
     Disable, clientVars, Made
<1>6. ASSUME NEW d \in Made' PROVE Answered(d)'
  BY <1>0 DEF Answered, Sheltered, Owns, Held, Registered, Disable, clientVars, Made
<1> QED
  BY <1>2, <1>3, <1>4, <1>5, <1>6 DEF IInv

\* It stops the client.
LEMMA DisableStopsKeeps == ASSUME IInv, DisableStops PROVE IInv'
<1>0. /\ ClientsOK /\ AttemptsOK /\ ManagerOK /\ Registered /\ Exclusive
      /\ \A b \in Attempts : Owns(b)
      /\ \A d \in Made : Answered(d)
  BY DEF IInv, TypeOK
<1>1. /\ ClientsOK'
      /\ \A d \in Made : process'[d] = "alive" => process[d] = "alive"
  BY <1>0 DEF DisableStops, ClientsOK, Made
<1>2. TypeOK'
  <2>1. ClientsOK'
    BY <1>0, <1>1 DEF ClientsOK, DisableStops
  <2>2. AttemptsOK'
    BY <1>0, <1>1 DEF AttemptsOK, DisableStops
  <2>3. ManagerOK'
    BY <1>0, <1>1 DEF ManagerOK, Ids, DisableStops, Made
  <2> QED
    BY <2>1, <2>2, <2>3 DEF TypeOK
<1>3. Exclusive'
  BY <1>0, <1>1 DEF Exclusive, Held, DisableStops, Made
<1>4. Registered'
  BY <1>0, <1>1 DEF Registered, Owns, Held, Ids, ManagerOK, DisableStops, Made
<1>5. ASSUME NEW b \in Attempts PROVE Owns(b)'
  BY <1>0, <1>1 DEF Owns, Held, Exclusive, Sheltered, Registered, ManagerOK, ClientsOK,
     DisableStops, Made
<1>6. ASSUME NEW d \in Made' PROVE Answered(d)'
  BY <1>0, <1>1 DEF Answered, Sheltered, Owns, Held, Registered, DisableStops, Made
<1> QED
  BY <1>2, <1>3, <1>4, <1>5, <1>6 DEF IInv

\* It forgets the process.
LEMMA DisableForgetsKeeps == ASSUME IInv, DisableForgets PROVE IInv'
<1>0. /\ ClientsOK /\ AttemptsOK /\ ManagerOK /\ Registered /\ Exclusive
      /\ \A b \in Attempts : Owns(b)
      /\ \A d \in Made : Answered(d)
  BY DEF IInv, TypeOK
<1>1. /\ ClientsOK'
      /\ \A d \in Made : process'[d] = "alive" => process[d] = "alive"
  BY <1>0 DEF DisableForgets, ClientsOK, Made
<1>2. TypeOK'
  <2>1. ClientsOK'
    BY <1>0, <1>1 DEF ClientsOK, DisableForgets
  <2>2. AttemptsOK'
    BY <1>0, <1>1 DEF AttemptsOK, DisableForgets
  <2>3. ManagerOK'
    BY <1>0, <1>1 DEF ManagerOK, Ids, DisableForgets, Made
  <2> QED
    BY <2>1, <2>2, <2>3 DEF TypeOK
<1>3. Exclusive'
  BY <1>0, <1>1 DEF Exclusive, Held, DisableForgets, Made
<1>4. Registered'
  BY <1>0, <1>1 DEF Registered, Owns, Held, Ids, ManagerOK, DisableForgets, Made
<1>5. ASSUME NEW b \in Attempts PROVE Owns(b)'
  BY <1>0, <1>1 DEF Owns, Held, Exclusive, Sheltered, Registered, ManagerOK, ClientsOK,
     DisableForgets, Made
<1>6. ASSUME NEW d \in Made' PROVE Answered(d)'
  BY <1>0, <1>1 DEF Answered, Sheltered, Owns, Held, Registered, DisableForgets, Made
<1> QED
  BY <1>2, <1>3, <1>4, <1>5, <1>6 DEF IInv

\* It deletes the entry.
LEMMA DisableDeletesKeeps == ASSUME IInv, DisableDeletes PROVE IInv'
<1>0. /\ ClientsOK /\ AttemptsOK /\ ManagerOK /\ Registered /\ Exclusive
      /\ \A b \in Attempts : Owns(b)
      /\ \A d \in Made : Answered(d)
  BY DEF IInv, TypeOK
<1>2. TypeOK'
  <2>1. ClientsOK'
    BY <1>0 DEF ClientsOK, clientVars, Made, DisableDeletes
  <2>2. AttemptsOK'
    BY <1>0 DEF AttemptsOK, DisableDeletes
  <2>3. ManagerOK'
    BY <1>0 DEF ManagerOK, Ids, DisableDeletes, IdleThread, Starting, Made, clientVars
  <2> QED
    BY <2>1, <2>2, <2>3 DEF TypeOK
<1>3. Exclusive'
  BY <1>0 DEF Exclusive, Held, DisableDeletes, IdleThread, Starting, Made, clientVars
<1>4. Registered'
  BY <1>0 DEF Registered, Owns, Held, Ids, ManagerOK, DisableDeletes, IdleThread,
     Starting, Made, clientVars
<1>5. ASSUME NEW b \in Attempts PROVE Owns(b)'
  BY <1>0 DEF Owns, Held, Exclusive, Sheltered, Registered, ManagerOK, ClientsOK,
     DisableDeletes, IdleThread, Starting, Made, clientVars
<1>6. ASSUME NEW d \in Made' PROVE Answered(d)'
  BY <1>0 DEF Answered, Sheltered, Owns, Held, Registered, DisableDeletes, IdleThread,
     Starting, Made, clientVars
<1> QED
  BY <1>2, <1>3, <1>4, <1>5, <1>6 DEF IInv

\* The server is enabled again.
LEMMA EnableKeeps == ASSUME IInv, Enable PROVE IInv'
<1>0. /\ ClientsOK /\ AttemptsOK /\ ManagerOK /\ Registered /\ Exclusive
      /\ \A b \in Attempts : Owns(b)
      /\ \A d \in Made : Answered(d)
  BY DEF IInv, TypeOK
<1>2. TypeOK'
  <2>1. ClientsOK'
    BY <1>0 DEF ClientsOK, clientVars, Made, Enable
  <2>2. AttemptsOK'
    BY <1>0 DEF AttemptsOK, Enable
  <2>3. ManagerOK'
    BY <1>0 DEF ManagerOK, Ids, Enable, Made, clientVars
  <2> QED
    BY <2>1, <2>2, <2>3 DEF TypeOK
<1>3. Exclusive'
  BY <1>0 DEF Exclusive, Held, Enable, Made, clientVars
<1>4. Registered'
  BY <1>0 DEF Registered, Owns, Held, Ids, ManagerOK, Enable, Made, clientVars
<1>5. ASSUME NEW b \in Attempts PROVE Owns(b)'
  BY <1>0 DEF Owns, Held, Exclusive, Sheltered, Registered, ManagerOK, ClientsOK,
     Enable, Made, clientVars
<1>6. ASSUME NEW d \in Made' PROVE Answered(d)'
  BY <1>0 DEF Answered, Sheltered, Owns, Held, Registered, Enable, Made, clientVars
<1> QED
  BY <1>2, <1>3, <1>4, <1>5, <1>6 DEF IInv

\* A process exits.
LEMMA CrashKeeps == ASSUME IInv, NEW c \in Clients, Crash(c) PROVE IInv'
<1>0. /\ ClientsOK /\ AttemptsOK /\ ManagerOK /\ Registered /\ Exclusive
      /\ \A b \in Attempts : Owns(b)
      /\ \A d \in Made : Answered(d)
  BY DEF IInv, TypeOK
<1>1. Becomes(c, "dead")
  BY <1>0, SetBecomes DEF Crash, ClientsOK
<1>2. TypeOK'
  <2>1. ClientsOK'
    BY <1>0, <1>1 DEF Becomes
  <2>2. AttemptsOK'
    BY <1>0, <1>1 DEF AttemptsOK, Crash
  <2>3. ManagerOK'
    BY <1>0, <1>1 DEF ManagerOK, Ids, Crash, Becomes, Made
  <2> QED
    BY <2>1, <2>2, <2>3 DEF TypeOK
<1>3. Exclusive'
  BY <1>0, <1>1 DEF Exclusive, Held, Crash, Becomes, Made
<1>4. Registered'
  BY <1>0, <1>1 DEF Registered, Owns, Held, Ids, ManagerOK, Crash, Becomes, Made
<1>5. ASSUME NEW b \in Attempts PROVE Owns(b)'
  BY <1>0, <1>1 DEF Owns, Held, Exclusive, Sheltered, Registered, ManagerOK, ClientsOK,
     Crash, Becomes, Made
<1>6. ASSUME NEW d \in Made' PROVE Answered(d)'
  BY <1>0, <1>1 DEF Answered, Sheltered, Owns, Held, Registered, Crash, Becomes, Made
<1> QED
  BY <1>2, <1>3, <1>4, <1>5, <1>6 DEF IInv

\* A call finds no process.
LEMMA CallBeginsKeeps == ASSUME IInv, CallBegins PROVE IInv'
<1>0. /\ ClientsOK /\ AttemptsOK /\ ManagerOK /\ Registered /\ Exclusive
      /\ \A b \in Attempts : Owns(b)
      /\ \A d \in Made : Answered(d)
  BY DEF IInv, TypeOK
<1>1. /\ ClientsOK'
      /\ \/ call' = IdleThread /\ UNCHANGED strays
         \/ call' = [pc |-> "waiting", client |-> registry] /\ UNCHANGED strays
         \/ call' = [pc |-> "spawning", client |-> registry] /\ strays' = strays \cup {registry}
  BY <1>0 DEF CallBegins, Restart, ClientsOK, Made
<1>2. TypeOK'
  <2>1. ClientsOK'
    BY <1>0, <1>1 DEF ClientsOK, CallBegins
  <2>2. AttemptsOK'
    BY <1>0, <1>1 DEF AttemptsOK, CallBegins
  <2>3. ManagerOK'
    BY <1>0, <1>1 DEF ManagerOK, Ids, CallBegins, IdleThread, Made, ClientsOK
  <2> QED
    BY <2>1, <2>2, <2>3 DEF TypeOK
<1>3. Exclusive'
  BY <1>0, <1>1 DEF Exclusive, Held, CallBegins, IdleThread, Made
<1>4. Registered'
  BY <1>0, <1>1 DEF Registered, Owns, Held, Ids, ManagerOK, CallBegins, IdleThread, Made
<1>5. ASSUME NEW b \in Attempts PROVE Owns(b)'
  BY <1>0, <1>1 DEF Owns, Held, Exclusive, Sheltered, Registered, ManagerOK, ClientsOK,
     CallBegins, IdleThread, Made
<1>6. ASSUME NEW d \in Made' PROVE Answered(d)'
  BY <1>0, <1>1 DEF Answered, Sheltered, Owns, Held, Registered, CallBegins, IdleThread, Made
<1> QED
  BY <1>2, <1>3, <1>4, <1>5, <1>6 DEF IInv

\* It has waited for the start.
LEMMA CallStartsKeeps == ASSUME IInv, CallStarts PROVE IInv'
<1>0. /\ ClientsOK /\ AttemptsOK /\ ManagerOK /\ Registered /\ Exclusive
      /\ \A b \in Attempts : Owns(b)
      /\ \A d \in Made : Answered(d)
  BY DEF IInv, TypeOK
<1>1. /\ ClientsOK'
      /\ \/ call' = IdleThread /\ UNCHANGED strays
         \/ call' = [pc |-> "spawning", client |-> call.client] /\ strays' = strays \cup {call.client}
  BY <1>0 DEF CallStarts, Restart, ClientsOK, Made
<1>2. TypeOK'
  <2>1. ClientsOK'
    BY <1>0, <1>1 DEF ClientsOK, CallStarts
  <2>2. AttemptsOK'
    BY <1>0, <1>1 DEF AttemptsOK, CallStarts
  <2>3. ManagerOK'
    BY <1>0, <1>1 DEF ManagerOK, Ids, CallStarts, IdleThread, Made, ClientsOK, Registered
  <2> QED
    BY <2>1, <2>2, <2>3 DEF TypeOK
<1>3. Exclusive'
  BY <1>0, <1>1 DEF Exclusive, Held, CallStarts, IdleThread, Made
<1>4. Registered'
  BY <1>0, <1>1 DEF Registered, Owns, Held, Ids, ManagerOK, CallStarts, IdleThread, Made
<1>5. ASSUME NEW b \in Attempts PROVE Owns(b)'
  BY <1>0, <1>1 DEF Owns, Held, Exclusive, Sheltered, Registered, ManagerOK, ClientsOK,
     CallStarts, IdleThread, Made
<1>6. ASSUME NEW d \in Made' PROVE Answered(d)'
  BY <1>0, <1>1 DEF Answered, Sheltered, Owns, Held, Registered, CallStarts, IdleThread, Made
<1> QED
  BY <1>2, <1>3, <1>4, <1>5, <1>6 DEF IInv

\* Its process comes up.
LEMMA CallSpawnedKeeps == ASSUME IInv, CallSpawned PROVE IInv'
<1>0. /\ ClientsOK /\ AttemptsOK /\ ManagerOK /\ Registered /\ Exclusive
      /\ \A b \in Attempts : Owns(b)
      /\ \A d \in Made : Answered(d)
  BY DEF IInv, TypeOK
<1>1. Becomes(call.client, "alive")
  BY <1>0, SetBecomes DEF CallSpawned, Registered, ManagerOK, ClientsOK
<1>2. TypeOK'
  <2>1. ClientsOK'
    BY <1>0, <1>1 DEF Becomes
  <2>2. AttemptsOK'
    BY <1>0, <1>1 DEF AttemptsOK, CallSpawned
  <2>3. ManagerOK'
    BY <1>0, <1>1 DEF ManagerOK, Ids, CallSpawned, Becomes, Made
  <2> QED
    BY <2>1, <2>2, <2>3 DEF TypeOK
<1>3. Exclusive'
  BY <1>0, <1>1 DEF Exclusive, Held, CallSpawned, Becomes, Made
<1>4. Registered'
  BY <1>0, <1>1 DEF Registered, Owns, Held, Ids, ManagerOK, CallSpawned, Becomes, Made
<1>5. ASSUME NEW b \in Attempts PROVE Owns(b)'
  BY <1>0, <1>1 DEF Owns, Held, Exclusive, Sheltered, Registered, ManagerOK, ClientsOK,
     CallSpawned, Becomes, Made
<1>6. ASSUME NEW d \in Made' PROVE Answered(d)'
  BY <1>0, <1>1 DEF Answered, Sheltered, Owns, Held, Registered, CallSpawned, Becomes, Made
<1> QED
  BY <1>2, <1>3, <1>4, <1>5, <1>6 DEF IInv

\* It ends.
LEMMA CallEndsKeeps == ASSUME IInv, CallEnds PROVE IInv'
<1>0. /\ ClientsOK /\ AttemptsOK /\ ManagerOK /\ Registered /\ Exclusive
      /\ \A b \in Attempts : Owns(b)
      /\ \A d \in Made : Answered(d)
  BY DEF IInv, TypeOK
<1>1. /\ ClientsOK' /\ asked' = asked
      /\ \A d \in Made : process'[d] = "alive" => process[d] = "alive"
  <2>1. CASE UNCHANGED clientVars
    BY <1>0, <2>1 DEF clientVars, ClientsOK, Made
  <2>2. CASE StopClient(call.client) /\ call.pc = "initializing"
    BY <1>0, <2>2, StopBecomes DEF Becomes, Registered, ManagerOK
  <2> QED
    BY <2>1, <2>2 DEF CallEnds
<1>2. TypeOK'
  <2>1. ClientsOK'
    BY <1>0, <1>1 DEF ClientsOK, CallEnds
  <2>2. AttemptsOK'
    BY <1>0, <1>1 DEF AttemptsOK, CallEnds
  <2>3. ManagerOK'
    BY <1>0, <1>1 DEF ManagerOK, Ids, CallEnds, IdleThread, Made
  <2> QED
    BY <2>1, <2>2, <2>3 DEF TypeOK
<1>3. Exclusive'
  BY <1>0, <1>1 DEF Exclusive, Held, CallEnds, IdleThread, Made
<1>4. Registered'
  BY <1>0, <1>1 DEF Registered, Owns, Held, Ids, ManagerOK, CallEnds, IdleThread, Made
<1>5. ASSUME NEW b \in Attempts PROVE Owns(b)'
  BY <1>0, <1>1 DEF Owns, Held, Exclusive, Sheltered, Registered, ManagerOK, ClientsOK,
     CallEnds, IdleThread, Made
<1>6. ASSUME NEW d \in Made' PROVE Answered(d)'
  BY <1>0, <1>1 DEF Answered, Sheltered, Owns, Held, Registered, CallEnds, IdleThread, Made
<1> QED
  BY <1>2, <1>3, <1>4, <1>5, <1>6 DEF IInv

\* So does every step of the specification.
LEMMA NextKeeps == IInv /\ [Next]_vars => IInv'
<1> SUFFICES ASSUME IInv, [Next]_vars PROVE IInv'
  OBVIOUS
<1>1. ASSUME NEW a \in Attempts, Begin(a) \/ Proceeds(a) PROVE IInv'
  BY <1>1, BeginKeeps, EnterKeeps, SpawnedKeeps, ReadyKeeps, NotReadyKeeps, GivesUpKeeps,
     TeardownKeeps, DroppedKeeps DEF Proceeds
<1>2. ASSUME NEW c \in Clients, StopEnds(c) \/ Crash(c) PROVE IInv'
  BY <1>2, StopEndsKeeps, CrashKeeps
<1>3. CASE StopAll \/ Disable \/ DisableProceeds \/ Enable
  BY <1>3, StopAllKeeps, DisableKeeps, DisableStopsKeeps, DisableForgetsKeeps,
     DisableDeletesKeeps, EnableKeeps DEF DisableProceeds
<1>4. CASE CallBegins \/ CallProceeds
  BY <1>4, CallBeginsKeeps, CallStartsKeeps, CallSpawnedKeeps, CallEndsKeeps DEF CallProceeds
<1>5. CASE UNCHANGED vars
  BY <1>5 DEF vars, clientVars, IInv, TypeOK, ClientsOK, AttemptsOK, ManagerOK, Exclusive,
     Registered, Owns, Held, Answered, Sheltered, Ids, Made
<1> QED
  BY <1>1, <1>2, <1>3, <1>4, <1>5 DEF Next

\* IInv holds in every reachable state of the pool: a running process has an
\* attempt, the pool or a stop that will see to it.
THEOREM Invariance == Spec => []IInv
<1>1. Init => IInv
  BY InitIInv
<1>2. IInv /\ [Next]_vars => IInv'
  BY NextKeeps
<1> QED
  BY <1>1, <1>2, PTL DEF Spec

\* Of the clients one generation asked for, one at most has a process: each is
\* the registered one or has an attempt that holds the lock, and two of these
\* would be of the same generation.
LEMMA OneProcess == IInv => SharedProcess
<1> SUFFICES ASSUME IInv, NEW c \in Made, NEW d \in Made,
                    asked[c] = asked[d], c # d,
                    {c, d} \cap (stopping \cup (strays \ {registry})) = {},
                    process[c] = "alive", process[d] = "alive"
             PROVE  FALSE
  BY DEF SharedProcess
<1>1. ASSUME NEW e \in {c, d}
      PROVE  e = registry \/ \E a \in Attempts : Held(a) /\ attempt[a].client = e
  BY DEF IInv, Answered, Sheltered
<1>2. ASSUME NEW a \in Attempts, Held(a), attempt[a].client \in {c, d},
             attempt[a].gen = generation
      PROVE  attempt[a].client = registry
  BY <1>2 DEF IInv, Owns, Held, Sheltered
<1>3. CASE registry \in {c, d}
  <2>1. registry # NoClient
    BY <1>3 DEF IInv, TypeOK, ClientsOK, Made
  <2>2. asked[c] = generation /\ asked[d] = generation
    BY <1>3, <2>1 DEF IInv, Registered
  <2>3. ASSUME NEW a \in Attempts, Held(a), attempt[a].client \in {c, d}
        PROVE  attempt[a].client = registry
    BY <1>2, <2>2, <2>3 DEF IInv, Owns
  <2> QED
    BY <1>1, <2>3
<1>4. CASE registry \notin {c, d}
  <2>1. PICK a \in Attempts : Held(a) /\ attempt[a].client = c
    BY <1>1, <1>4
  <2>2. PICK b \in Attempts : Held(b) /\ attempt[b].client = d
    BY <1>1, <1>4
  <2>3. attempt[a].gen = attempt[b].gen
    BY <2>1, <2>2 DEF IInv, Owns
  <2> QED
    BY <2>1, <2>2, <2>3 DEF IInv, Exclusive
<1> QED
  BY <1>3, <1>4

\* However many attempts, calls and disables cross, the callers of one
\* generation share one process (client_pool.py, load_server_tools_async).
THEOREM ProcessesAreShared == Spec => []SharedProcess
BY Invariance, OneProcess, PTL

\* A stale attempt never forgets the client a newer one registered: who runs is
\* registered, or somebody still handles it (_teardown_unready_client).
THEOREM ProcessesAreHandled == Spec => []Handled
<1>1. IInv => Handled
  BY DEF IInv, Answered, Sheltered, Handled
<1> QED
  BY <1>1, Invariance, PTL

=============================================================================
