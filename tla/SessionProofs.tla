--------------------------- MODULE SessionProofs ---------------------------
(***************************************************************************)
(* Whatever the processes, sessions, calls and bounds.                     *)
(*                                                                         *)
(* SessionLock: TypeOK and WriterHolds are invariants, and no save         *)
(* overwrites another's.  The inductive invariant says of each process     *)
(* what its program counter means: which lock a probe or an acquire under  *)
(* way holds, which row it is about, and that the lock of a session it can *)
(* save stays listed while another row is looked at.  A step of one        *)
(* process leaves what it says of another one as it is, or kills that      *)
(* process.                                                                *)
(*                                                                         *)
(* Transcript: results are matched by the pointer and are yet the calls'   *)
(* own.  The inductive invariant says that the open calls are the last     *)
(* messages, that they are the calls that run, and that the pointer is     *)
(* before them; every add and the interruption's fold is shown to keep     *)
(* what it is about.                                                       *)
(***************************************************************************)
EXTENDS SessionLock, Transcript, FiniteSetTheorems, TLAPS

\* From the choice to the switch the row is a saved session.
RowKnown(p) ==
    /\ pc[p] \notin {"idle", "closing"} => target[p] \in Sessions
    /\ pc[p] \in {"loaded", "signing"} => open[p] = target[p] /\ ~readOnly[p]
    /\ pc[p] \in {"killing", "taking", "signing steal"} => how[p] = "steal"
    /\ pc[p] \in {"switching", "loaded"} => ~(how[p] = "open" /\ marked[p])

\* A probe holds a lock its process has not listed.
ProbeHolds(p) ==
    pc[p] = "probing" => holder[target[p]] = p /\ <<p, target[p]>> \notin active

Signing(p) == pc[p] \in {"signing", "signing steal"}

\* A listed lock has been signed, or is about to be.
Signed(p) ==
    /\ Signing(p) => <<p, target[p]>> \in active
    /\ \A s \in Sessions : <<p, s>> \in active => meta[s] = p \/ (Signing(p) /\ target[p] = s)

\* What can be saved is listed, also while another row is looked at or stolen.
WriterLists(p) ==
    /\ p \notin refused /\ pc[p] \notin {"closing", "loaded"}
    /\ open[p] \in Sessions /\ ~readOnly[p]
    => <<p, open[p]>> \in active

Sound(p) == RowKnown(p) /\ ProbeHolds(p) /\ Signed(p) /\ WriterLists(p)

IInv == TypeOK /\ \A p \in Pids : Sound(p)

\* What Sound says of a process q is not changed by a step.
Undisturbed(q) ==
    /\ pc'[q] = pc[q] /\ open'[q] = open[q] /\ readOnly'[q] = readOnly[q]
    /\ target'[q] = target[q] /\ marked'[q] = marked[q] /\ how'[q] = how[q]
    /\ q \in refused => q \in refused'
    /\ \A s \in Sessions :
          /\ <<q, s>> \in active' <=> <<q, s>> \in active
          /\ holder[s] = q => holder'[s] = q
          /\ <<q, s>> \in active => meta'[s] = meta[s]

\* A process that has just died.
Blank(q) ==
    /\ pc'[q] = "idle" /\ open'[q] = Own /\ readOnly'[q] = FALSE
    /\ \A s \in Sessions : <<q, s>> \notin active'

USE LockAssumption DEF At, Goto, NoRow, life, rowVars, sm, memory, lockVars

\* Both counters stay within their bound.
LEMMA Bounds == /\ 0 \in 0 .. MaxSaves
                /\ \A n \in 0 .. MaxSaves : n < MaxSaves => n + 1 \in 0 .. MaxSaves
OBVIOUS

\* The invariant holds at the start.
LEMMA InitIInv == Init => IInv
<1> SUFFICES ASSUME Init PROVE IInv
  OBVIOUS
<1>1. TypeOK
  BY DEF Init, TypeOK, ProcsOK, RowsOK, LocksOK, SavesOK, Counters
<1>2. \A p \in Pids : Sound(p)
  BY DEF Init, Sound, RowKnown, ProbeHolds, Signing, Signed, WriterLists
<1> QED
  BY <1>1, <1>2 DEF IInv

\* Who is not disturbed stays sound.
LEMMA UndisturbedSound ==
  ASSUME NEW q \in Pids, RowsOK, Sound(q), Undisturbed(q)
  PROVE  Sound(q)'
<1> USE DEF Undisturbed
<1>1. RowKnown(q)'
  BY DEF Sound, RowKnown
<1>2. ProbeHolds(q)'
  BY DEF Sound, RowKnown, ProbeHolds
<1>3. Signed(q)'
  BY DEF Sound, RowKnown, Signed, Signing
<1>4. WriterLists(q)'
  BY DEF Sound, WriterLists
<1> QED
  BY <1>1, <1>2, <1>3, <1>4 DEF Sound

\* So is who has died.
LEMMA BlankSound == ASSUME NEW q \in Pids, Blank(q) PROVE Sound(q)'
BY DEF Blank, Sound, RowKnown, ProbeHolds, Signed, Signing, WriterLists

\* A process starts.
LEMMA StartKeeps == ASSUME IInv, NEW p \in Pids, Start(p) PROVE IInv'
<1>0. /\ ProcsOK /\ RowsOK /\ LocksOK /\ SavesOK
     /\ RowKnown(p) /\ ProbeHolds(p) /\ Signed(p) /\ WriterLists(p)
  BY DEF IInv, TypeOK, Sound
<1>1. ProcsOK'
  BY <1>0 DEF ProcsOK, Counters, Start
<1>2. RowsOK'
  BY <1>0 DEF ProcsOK, RowsOK, RowKnown, Start
<1>3. LocksOK'
  BY <1>0 DEF ProcsOK, RowsOK, LocksOK, RowKnown, ProbeHolds, Start
<1>4. SavesOK'
  BY <1>0 DEF RowsOK, SavesOK, RowKnown, Start
<1>5. ASSUME NEW q \in Pids \ {p} PROVE Undisturbed(q)
  BY <1>0 DEF ProcsOK, RowsOK, LocksOK, RowKnown, ProbeHolds, Undisturbed, Start
<1>6. Sound(p)'
  BY <1>0 DEF Sound, RowKnown, ProbeHolds, Signed, Signing, WriterLists, Start
<1> QED
  BY <1>0, <1>1, <1>2, <1>3, <1>4, <1>5, <1>6, UndisturbedSound DEF IInv, TypeOK

\* A process ends or dies.
LEMMA ExitKeeps == ASSUME IInv, NEW p \in Pids, Exit(p) PROVE IInv'
<1>0. /\ ProcsOK /\ RowsOK /\ LocksOK /\ SavesOK
     /\ RowKnown(p) /\ ProbeHolds(p) /\ Signed(p) /\ WriterLists(p)
  BY DEF IInv, TypeOK, Sound
<1>1. ProcsOK'
  BY <1>0 DEF ProcsOK, Counters, Exit, Dies, Forgets
<1>2. RowsOK'
  BY <1>0 DEF ProcsOK, RowsOK, RowKnown, Exit, Dies, Forgets
<1>3. LocksOK'
  BY <1>0 DEF ProcsOK, RowsOK, LocksOK, RowKnown, ProbeHolds, Exit, Dies, Forgets
<1>4. SavesOK'
  <2>1. inMemory' \subseteq Pids \X Sessions /\ base' \in [Pids -> [Sessions -> 0 .. MaxSaves]]
    BY <1>0, Bounds DEF SavesOK, Exit, Dies, Forgets
  <2>2. version' \in [Sessions -> 0 .. MaxSaves] /\ exposed' \subseteq Sessions
    BY <1>0, Bounds DEF SavesOK, Exit, Dies, Forgets
  <2> QED
    BY <2>1, <2>2 DEF SavesOK
<1>5. ASSUME NEW q \in Pids \ {p} PROVE Undisturbed(q)
  BY <1>0 DEF ProcsOK, RowsOK, LocksOK, RowKnown, ProbeHolds, Undisturbed, Exit, Dies, Forgets
<1>6. Sound(p)'
  <2>1. Blank(p)
    BY <1>0 DEF ProcsOK, RowsOK, LocksOK, Blank, Exit, Dies, Forgets
  <2> QED
    BY <2>1, BlankSound
<1> QED
  BY <1>0, <1>1, <1>2, <1>3, <1>4, <1>5, <1>6, UndisturbedSound DEF IInv, TypeOK

\* A probe takes a free lock for a moment.
LEMMA LookKeeps == ASSUME IInv, NEW p \in Pids, NEW s \in Sessions, Look(p, s) PROVE IInv'
<1>0. /\ ProcsOK /\ RowsOK /\ LocksOK /\ SavesOK
     /\ RowKnown(p) /\ ProbeHolds(p) /\ Signed(p) /\ WriterLists(p)
  BY DEF IInv, TypeOK, Sound
<1>1. ProcsOK'
  <2>1. CASE holder[s] = Nobody
    BY <1>0, <2>1 DEF ProcsOK, Counters, Look
  <2>2. CASE holder[s] # Nobody
    BY <1>0, <2>2 DEF ProcsOK, Counters, Look
  <2> QED
    BY <1>0, <2>1, <2>2 DEF Look
<1>2. RowsOK'
  <2>1. CASE holder[s] = Nobody
    BY <1>0, <2>1 DEF ProcsOK, RowsOK, RowKnown, Look
  <2>2. CASE holder[s] # Nobody
    BY <1>0, <2>2 DEF ProcsOK, RowsOK, RowKnown, Look
  <2> QED
    BY <1>0, <2>1, <2>2 DEF Look
<1>3. LocksOK'
  <2>1. active' \subseteq up' \X Sessions
    <3>1. CASE holder[s] = Nobody
      BY <1>0, <3>1 DEF LocksOK, Look
    <3>2. CASE holder[s] # Nobody
      BY <1>0, <3>2 DEF LocksOK, Look
    <3> QED
      BY <1>0, <3>1, <3>2 DEF Look
  <2>2. /\ holder' \in [Sessions -> Pids \cup {Nobody}]
       /\ meta' \in [Sessions -> Pids \cup {Nobody}]
    <3>1. CASE holder[s] = Nobody
      BY <1>0, <3>1 DEF LocksOK, Look
    <3>2. CASE holder[s] # Nobody
      BY <1>0, <3>2 DEF LocksOK, Look
    <3> QED
      BY <1>0, <3>1, <3>2 DEF Look
  <2>3. ASSUME NEW q \in Pids, NEW r \in Sessions, <<q, r>> \in active' PROVE holder'[r] = q
    <3>1. CASE holder[s] = Nobody
      BY <1>0, <2>3, <3>1 DEF LocksOK, Look
    <3>2. CASE holder[s] # Nobody
      BY <1>0, <2>3, <3>2 DEF LocksOK, Look
    <3> QED
      BY <1>0, <3>1, <3>2 DEF Look
  <2> QED
    BY <2>1, <2>2, <2>3 DEF LocksOK
<1>4. SavesOK'
  <2>1. CASE holder[s] = Nobody
    BY <1>0, <2>1 DEF RowsOK, SavesOK, RowKnown, Look
  <2>2. CASE holder[s] # Nobody
    BY <1>0, <2>2 DEF RowsOK, SavesOK, RowKnown, Look
  <2> QED
    BY <1>0, <2>1, <2>2 DEF Look
<1>5. ASSUME NEW q \in Pids \ {p} PROVE Undisturbed(q)
  <2>1. CASE holder[s] = Nobody
    BY <1>0, <2>1 DEF ProcsOK, RowsOK, LocksOK, RowKnown, ProbeHolds, Undisturbed, Look
  <2>2. CASE holder[s] # Nobody
    BY <1>0, <2>2 DEF ProcsOK, RowsOK, LocksOK, RowKnown, ProbeHolds, Undisturbed, Look
  <2> QED
    BY <1>0, <2>1, <2>2 DEF Look
<1>6. Sound(p)'
  <2>1. RowKnown(p)'
    <3>1. CASE holder[s] = Nobody
      BY <1>0, <3>1 DEF ProcsOK, RowsOK, RowKnown, Look
    <3>2. CASE holder[s] # Nobody
      BY <1>0, <3>2 DEF ProcsOK, RowsOK, RowKnown, Look
    <3> QED
      BY <1>0, <3>1, <3>2 DEF Look
  <2>2. ProbeHolds(p)'
    <3>1. CASE holder[s] = Nobody
      BY <1>0, <3>1 DEF ProcsOK, RowsOK, LocksOK, RowKnown, ProbeHolds, Look
    <3>2. CASE holder[s] # Nobody
      BY <1>0, <3>2 DEF ProcsOK, RowsOK, LocksOK, RowKnown, ProbeHolds, Look
    <3> QED
      BY <1>0, <3>1, <3>2 DEF Look
  <2>3. Signed(p)'
    <3>1. CASE holder[s] = Nobody
      BY <1>0, <3>1 DEF ProcsOK, RowsOK, LocksOK, RowKnown, Signed, Signing, Look
    <3>2. CASE holder[s] # Nobody
      BY <1>0, <3>2 DEF ProcsOK, RowsOK, LocksOK, RowKnown, Signed, Signing, Look
    <3> QED
      BY <1>0, <3>1, <3>2 DEF Look
  <2>4. WriterLists(p)'
    <3>1. CASE holder[s] = Nobody
      BY <1>0, <3>1 DEF ProcsOK, RowsOK, LocksOK, RowKnown, Signed, Signing, WriterLists, Look
    <3>2. CASE holder[s] # Nobody
      BY <1>0, <3>2 DEF ProcsOK, RowsOK, LocksOK, RowKnown, Signed, Signing, WriterLists, Look
    <3> QED
      BY <1>0, <3>1, <3>2 DEF Look
  <2> QED
    BY <2>1, <2>2, <2>3, <2>4 DEF Sound
<1> QED
  BY <1>0, <1>1, <1>2, <1>3, <1>4, <1>5, <1>6, UndisturbedSound DEF IInv, TypeOK

\* The probe ends.
LEMMA ProbeEndsKeeps == ASSUME IInv, NEW p \in Pids, ProbeEnds(p) PROVE IInv'
<1>0. /\ ProcsOK /\ RowsOK /\ LocksOK /\ SavesOK
     /\ RowKnown(p) /\ ProbeHolds(p) /\ Signed(p) /\ WriterLists(p)
  BY DEF IInv, TypeOK, Sound
<1>1. ProcsOK'
  BY <1>0 DEF ProcsOK, Counters, ProbeEnds
<1>2. RowsOK'
  BY <1>0 DEF ProcsOK, RowsOK, RowKnown, ProbeEnds
<1>3. LocksOK'
  BY <1>0 DEF ProcsOK, RowsOK, LocksOK, RowKnown, ProbeHolds, ProbeEnds
<1>4. SavesOK'
  BY <1>0 DEF RowsOK, SavesOK, RowKnown, ProbeEnds
<1>5. ASSUME NEW q \in Pids \ {p} PROVE Undisturbed(q)
  BY <1>0 DEF ProcsOK, RowsOK, LocksOK, RowKnown, ProbeHolds, Undisturbed, ProbeEnds
<1>6. Sound(p)'
  <2>1. RowKnown(p)'
    BY <1>0 DEF ProcsOK, RowsOK, RowKnown, ProbeEnds
  <2>2. ProbeHolds(p)'
    BY <1>0 DEF ProcsOK, RowsOK, LocksOK, RowKnown, ProbeHolds, ProbeEnds
  <2>3. Signed(p)'
    BY <1>0 DEF ProcsOK, RowsOK, LocksOK, RowKnown, Signed, Signing, ProbeEnds
  <2>4. WriterLists(p)'
    BY <1>0 DEF ProcsOK, RowsOK, LocksOK, RowKnown, Signed, Signing, WriterLists, ProbeEnds
  <2> QED
    BY <2>1, <2>2, <2>3, <2>4 DEF Sound
<1> QED
  BY <1>0, <1>1, <1>2, <1>3, <1>4, <1>5, <1>6, UndisturbedSound DEF IInv, TypeOK

\* The list is left.
LEMMA LeaveKeeps == ASSUME IInv, NEW p \in Pids, Leave(p) PROVE IInv'
<1>0. /\ ProcsOK /\ RowsOK /\ LocksOK /\ SavesOK
     /\ RowKnown(p) /\ ProbeHolds(p) /\ Signed(p) /\ WriterLists(p)
  BY DEF IInv, TypeOK, Sound
<1>1. ProcsOK'
  BY <1>0 DEF ProcsOK, Counters, Leave
<1>2. RowsOK'
  BY <1>0 DEF ProcsOK, RowsOK, RowKnown, Leave
<1>3. LocksOK'
  BY <1>0 DEF ProcsOK, RowsOK, LocksOK, RowKnown, ProbeHolds, Leave
<1>4. SavesOK'
  BY <1>0 DEF RowsOK, SavesOK, RowKnown, Leave
<1>5. ASSUME NEW q \in Pids \ {p} PROVE Undisturbed(q)
  BY <1>0 DEF ProcsOK, RowsOK, LocksOK, RowKnown, ProbeHolds, Undisturbed, Leave
<1>6. Sound(p)'
  <2>1. RowKnown(p)'
    BY <1>0 DEF ProcsOK, RowsOK, RowKnown, Leave
  <2>2. ProbeHolds(p)'
    BY <1>0 DEF ProcsOK, RowsOK, LocksOK, RowKnown, ProbeHolds, Leave
  <2>3. Signed(p)'
    BY <1>0 DEF ProcsOK, RowsOK, LocksOK, RowKnown, Signed, Signing, Leave
  <2>4. WriterLists(p)'
    BY <1>0 DEF ProcsOK, RowsOK, LocksOK, RowKnown, Signed, Signing, WriterLists, Leave
  <2> QED
    BY <2>1, <2>2, <2>3, <2>4 DEF Sound
<1> QED
  BY <1>0, <1>1, <1>2, <1>3, <1>4, <1>5, <1>6, UndisturbedSound DEF IInv, TypeOK

\* A free row is chosen.
LEMMA SelectKeeps == ASSUME IInv, NEW p \in Pids, Select(p) PROVE IInv'
<1>0. /\ ProcsOK /\ RowsOK /\ LocksOK /\ SavesOK
     /\ RowKnown(p) /\ ProbeHolds(p) /\ Signed(p) /\ WriterLists(p)
  BY DEF IInv, TypeOK, Sound
<1>1. ProcsOK'
  BY <1>0 DEF ProcsOK, Counters, Select
<1>2. RowsOK'
  BY <1>0 DEF ProcsOK, RowsOK, RowKnown, Select
<1>3. LocksOK'
  BY <1>0 DEF ProcsOK, RowsOK, LocksOK, RowKnown, ProbeHolds, Select
<1>4. SavesOK'
  BY <1>0 DEF RowsOK, SavesOK, RowKnown, Select
<1>5. ASSUME NEW q \in Pids \ {p} PROVE Undisturbed(q)
  BY <1>0 DEF ProcsOK, RowsOK, LocksOK, RowKnown, ProbeHolds, Undisturbed, Select
<1>6. Sound(p)'
  <2>1. RowKnown(p)'
    BY <1>0 DEF ProcsOK, RowsOK, RowKnown, Select
  <2>2. ProbeHolds(p)'
    BY <1>0 DEF ProcsOK, RowsOK, LocksOK, RowKnown, ProbeHolds, Select
  <2>3. Signed(p)'
    BY <1>0 DEF ProcsOK, RowsOK, LocksOK, RowKnown, Signed, Signing, Select
  <2>4. WriterLists(p)'
    BY <1>0 DEF ProcsOK, RowsOK, LocksOK, RowKnown, Signed, Signing, WriterLists, Select
  <2> QED
    BY <2>1, <2>2, <2>3, <2>4 DEF Sound
<1> QED
  BY <1>0, <1>1, <1>2, <1>3, <1>4, <1>5, <1>6, UndisturbedSound DEF IInv, TypeOK

\* A locked row is chosen, to be read.
LEMMA SelectReadOnlyKeeps == ASSUME IInv, NEW p \in Pids, SelectReadOnly(p) PROVE IInv'
<1>0. /\ ProcsOK /\ RowsOK /\ LocksOK /\ SavesOK
     /\ RowKnown(p) /\ ProbeHolds(p) /\ Signed(p) /\ WriterLists(p)
  BY DEF IInv, TypeOK, Sound
<1>1. ProcsOK'
  BY <1>0 DEF ProcsOK, Counters, SelectReadOnly
<1>2. RowsOK'
  BY <1>0 DEF ProcsOK, RowsOK, RowKnown, SelectReadOnly
<1>3. LocksOK'
  BY <1>0 DEF ProcsOK, RowsOK, LocksOK, RowKnown, ProbeHolds, SelectReadOnly
<1>4. SavesOK'
  BY <1>0 DEF RowsOK, SavesOK, RowKnown, SelectReadOnly
<1>5. ASSUME NEW q \in Pids \ {p} PROVE Undisturbed(q)
  BY <1>0 DEF ProcsOK, RowsOK, LocksOK, RowKnown, ProbeHolds, Undisturbed, SelectReadOnly
<1>6. Sound(p)'
  <2>1. RowKnown(p)'
    BY <1>0 DEF ProcsOK, RowsOK, RowKnown, SelectReadOnly
  <2>2. ProbeHolds(p)'
    BY <1>0 DEF ProcsOK, RowsOK, LocksOK, RowKnown, ProbeHolds, SelectReadOnly
  <2>3. Signed(p)'
    BY <1>0 DEF ProcsOK, RowsOK, LocksOK, RowKnown, Signed, Signing, SelectReadOnly
  <2>4. WriterLists(p)'
    BY <1>0 DEF ProcsOK, RowsOK, LocksOK, RowKnown, Signed, Signing, WriterLists, SelectReadOnly
  <2> QED
    BY <2>1, <2>2, <2>3, <2>4 DEF Sound
<1> QED
  BY <1>0, <1>1, <1>2, <1>3, <1>4, <1>5, <1>6, UndisturbedSound DEF IInv, TypeOK

\* A steal reads the sidecar.
LEMMA StealLooksKeeps == ASSUME IInv, NEW p \in Pids, StealLooks(p) PROVE IInv'
<1>0. /\ ProcsOK /\ RowsOK /\ LocksOK /\ SavesOK
     /\ RowKnown(p) /\ ProbeHolds(p) /\ Signed(p) /\ WriterLists(p)
  BY DEF IInv, TypeOK, Sound
<1>1. ProcsOK'
  BY <1>0 DEF ProcsOK, Counters, LocksOK, RowKnown, StealLooks
<1>2. RowsOK'
  BY <1>0 DEF ProcsOK, RowsOK, RowKnown, StealLooks
<1>3. LocksOK'
  BY <1>0 DEF ProcsOK, RowsOK, LocksOK, RowKnown, ProbeHolds, StealLooks
<1>4. SavesOK'
  BY <1>0 DEF RowsOK, SavesOK, RowKnown, StealLooks
<1>5. ASSUME NEW q \in Pids \ {p} PROVE Undisturbed(q)
  BY <1>0 DEF ProcsOK, RowsOK, LocksOK, RowKnown, ProbeHolds, Undisturbed, StealLooks
<1>6. Sound(p)'
  <2>1. RowKnown(p)'
    BY <1>0 DEF ProcsOK, RowsOK, RowKnown, StealLooks
  <2>2. ProbeHolds(p)'
    BY <1>0 DEF ProcsOK, RowsOK, LocksOK, RowKnown, ProbeHolds, StealLooks
  <2>3. Signed(p)'
    BY <1>0 DEF ProcsOK, RowsOK, LocksOK, RowKnown, Signed, Signing, StealLooks
  <2>4. WriterLists(p)'
    BY <1>0 DEF ProcsOK, RowsOK, LocksOK, RowKnown, Signed, Signing, WriterLists, StealLooks
  <2> QED
    BY <2>1, <2>2, <2>3, <2>4 DEF Sound
<1> QED
  BY <1>0, <1>1, <1>2, <1>3, <1>4, <1>5, <1>6, UndisturbedSound DEF IInv, TypeOK

\* A steal kills the holder.
LEMMA StealKillsKeeps == ASSUME IInv, NEW p \in Pids, StealKills(p) PROVE IInv'
<1>0. /\ ProcsOK /\ RowsOK /\ LocksOK /\ SavesOK
     /\ RowKnown(p) /\ ProbeHolds(p) /\ Signed(p) /\ WriterLists(p)
  BY DEF IInv, TypeOK, Sound
<1>a. p \in up /\ victim[p] \in Pids \cup {Nobody}
  BY <1>0 DEF ProcsOK, StealKills
<1>1. ProcsOK'
  <2>1. CASE victim[p] \in up \ {p}
    BY <1>0, <2>1 DEF ProcsOK, Counters, StealKills, Dies, Forgets
  <2>2. CASE victim[p] \notin up \ {p}
    BY <1>0, <2>2 DEF ProcsOK, Counters, StealKills, Dies, Forgets
  <2> QED
    BY <1>0, <2>1, <2>2 DEF StealKills
<1>2. RowsOK'
  <2>1. CASE victim[p] \in up \ {p}
    BY <1>0, <2>1 DEF ProcsOK, RowsOK, RowKnown, StealKills, Dies, Forgets
  <2>2. CASE victim[p] \notin up \ {p}
    BY <1>0, <2>2 DEF ProcsOK, RowsOK, RowKnown, StealKills, Dies, Forgets
  <2> QED
    BY <1>0, <2>1, <2>2 DEF StealKills
<1>3. LocksOK'
  <2>1. active' \subseteq up' \X Sessions
    <3>1. CASE victim[p] \in up \ {p}
      BY <1>0, <1>a, <3>1 DEF LocksOK, StealKills, Dies, Forgets
    <3>2. CASE victim[p] \notin up \ {p}
      BY <1>0, <1>a, <3>2 DEF LocksOK, StealKills, Dies, Forgets
    <3> QED
      BY <1>0, <3>1, <3>2 DEF StealKills
  <2>2. /\ holder' \in [Sessions -> Pids \cup {Nobody}]
       /\ meta' \in [Sessions -> Pids \cup {Nobody}]
    <3>1. CASE victim[p] \in up \ {p}
      BY <1>0, <1>a, <3>1 DEF LocksOK, StealKills, Dies, Forgets
    <3>2. CASE victim[p] \notin up \ {p}
      BY <1>0, <1>a, <3>2 DEF LocksOK, StealKills, Dies, Forgets
    <3> QED
      BY <1>0, <3>1, <3>2 DEF StealKills
  <2>3. ASSUME NEW q \in Pids, NEW r \in Sessions, <<q, r>> \in active' PROVE holder'[r] = q
    <3>1. CASE victim[p] \in up \ {p}
      BY <1>0, <1>a, <2>3, <3>1 DEF LocksOK, StealKills, Dies, Forgets
    <3>2. CASE victim[p] \notin up \ {p}
      BY <1>0, <1>a, <2>3, <3>2 DEF LocksOK, StealKills, Dies, Forgets
    <3> QED
      BY <1>0, <3>1, <3>2 DEF StealKills
  <2> QED
    BY <2>1, <2>2, <2>3 DEF LocksOK
<1>4. SavesOK'
  <2>1. inMemory' \subseteq Pids \X Sessions /\ base' \in [Pids -> [Sessions -> 0 .. MaxSaves]]
    <3>1. CASE victim[p] \in up \ {p}
      BY <1>0, Bounds, <3>1 DEF SavesOK, StealKills, Dies, Forgets
    <3>2. CASE victim[p] \notin up \ {p}
      BY <1>0, Bounds, <3>2 DEF SavesOK, StealKills, Dies, Forgets
    <3> QED
      BY <1>0, <3>1, <3>2 DEF StealKills
  <2>2. version' \in [Sessions -> 0 .. MaxSaves] /\ exposed' \subseteq Sessions
    BY <1>0, Bounds DEF SavesOK, StealKills, Dies, Forgets
  <2> QED
    BY <2>1, <2>2 DEF SavesOK
<1>5. ASSUME NEW q \in Pids, q # p, q # victim[p] \/ victim[p] \notin up \ {p}
     PROVE  Undisturbed(q)
  <2>1. /\ pc'[q] = pc[q] /\ open'[q] = open[q] /\ readOnly'[q] = readOnly[q]
       /\ target'[q] = target[q] /\ marked'[q] = marked[q] /\ how'[q] = how[q]
    <3>1. CASE victim[p] \in up \ {p}
      BY <1>0, <1>5, <3>1 DEF RowsOK, ProcsOK, StealKills, Dies, Forgets
    <3>2. CASE victim[p] \notin up \ {p}
      BY <1>0, <1>5, <3>2 DEF RowsOK, ProcsOK, StealKills, Dies, Forgets
    <3> QED
      BY <1>0, <3>1, <3>2 DEF StealKills
  <2>2. q \in refused => q \in refused'
    <3>1. CASE victim[p] \in up \ {p}
      BY <1>0, <1>5, <3>1 DEF StealKills, Dies, Forgets
    <3>2. CASE victim[p] \notin up \ {p}
      BY <1>0, <1>5, <3>2 DEF StealKills, Dies, Forgets
    <3> QED
      BY <1>0, <3>1, <3>2 DEF StealKills
  <2>3. ASSUME NEW r \in Sessions
        PROVE  /\ <<q, r>> \in active' <=> <<q, r>> \in active
               /\ holder[r] = q => holder'[r] = q
               /\ <<q, r>> \in active => meta'[r] = meta[r]
    <3>1. CASE victim[p] \in up \ {p}
      BY <1>0, <1>5, <3>1 DEF LocksOK, StealKills, Dies, Forgets
    <3>2. CASE victim[p] \notin up \ {p}
      BY <1>0, <1>5, <3>2 DEF LocksOK, StealKills, Dies, Forgets
    <3> QED
      BY <1>0, <3>1, <3>2 DEF StealKills
  <2> QED
    BY <2>1, <2>2, <2>3 DEF Undisturbed
<1>6. ASSUME victim[p] \in up \ {p} PROVE Blank(victim[p])
  BY <1>0, <1>a, <1>6 DEF ProcsOK, RowsOK, Blank, StealKills, Dies, Forgets
<1>7. Sound(p)'
  <2>1. RowKnown(p)'
    <3>1. CASE victim[p] \in up \ {p}
      BY <1>0, <1>a, <3>1 DEF ProcsOK, RowsOK, RowKnown, StealKills, Dies, Forgets
    <3>2. CASE victim[p] \notin up \ {p}
      BY <1>0, <1>a, <3>2 DEF ProcsOK, RowsOK, RowKnown, StealKills, Dies, Forgets
    <3> QED
      BY <1>0, <3>1, <3>2 DEF StealKills
  <2>2. ProbeHolds(p)'
    <3>1. CASE victim[p] \in up \ {p}
      BY <1>0, <1>a, <3>1 DEF ProcsOK, RowsOK, LocksOK, RowKnown, ProbeHolds, StealKills, Dies, Forgets
    <3>2. CASE victim[p] \notin up \ {p}
      BY <1>0, <1>a, <3>2 DEF ProcsOK, RowsOK, LocksOK, RowKnown, ProbeHolds, StealKills, Dies, Forgets
    <3> QED
      BY <1>0, <3>1, <3>2 DEF StealKills
  <2>3. Signed(p)'
    <3>1. CASE victim[p] \in up \ {p}
      BY <1>0, <1>a, <3>1 DEF ProcsOK, RowsOK, LocksOK, RowKnown, Signed, Signing, StealKills, Dies, Forgets
    <3>2. CASE victim[p] \notin up \ {p}
      BY <1>0, <1>a, <3>2 DEF ProcsOK, RowsOK, LocksOK, RowKnown, Signed, Signing, StealKills, Dies, Forgets
    <3> QED
      BY <1>0, <3>1, <3>2 DEF StealKills
  <2>4. WriterLists(p)'
    <3>1. pc[p] = "killing" /\ open'[p] = open[p] /\ readOnly'[p] = readOnly[p]
      BY <1>0, <1>a DEF RowsOK, StealKills, Forgets
    <3>2. p \in refused => p \in refused'
      BY <1>a DEF StealKills, Dies
    <3>3. ASSUME NEW r \in Sessions, <<p, r>> \in active PROVE <<p, r>> \in active'
      BY <1>a, <3>3 DEF StealKills, Dies
    <3> QED
      BY <1>0, <3>1, <3>2, <3>3 DEF WriterLists
  <2> QED
    BY <2>1, <2>2, <2>3, <2>4 DEF Sound
<1>8. ASSUME NEW q \in Pids PROVE Sound(q)'
  BY <1>0, <1>5, <1>6, <1>7, UndisturbedSound, BlankSound DEF IInv, ProcsOK
<1> QED
  BY <1>1, <1>2, <1>3, <1>4, <1>8 DEF IInv, TypeOK

\* A steal acquires the lock, or not.
LEMMA StealTakesKeeps == ASSUME IInv, NEW p \in Pids, StealTakes(p) PROVE IInv'
<1>0. /\ ProcsOK /\ RowsOK /\ LocksOK /\ SavesOK
     /\ RowKnown(p) /\ ProbeHolds(p) /\ Signed(p) /\ WriterLists(p)
  BY DEF IInv, TypeOK, Sound
<1>a. p \in up /\ target[p] \in Sessions
  BY <1>0 DEF RowKnown, StealTakes
<1>b. ASSUME holder[target[p]] = Nobody
     PROVE  /\ active' = active \cup {<<p, target[p]>>} /\ up' = up /\ meta' = meta
            /\ holder' = [holder EXCEPT ![target[p]] = p]
  BY <1>b DEF StealTakes, Takes
<1>1. ProcsOK'
  <2>1. CASE holder[target[p]] = Nobody
    BY <1>0, <2>1 DEF ProcsOK, Counters, StealTakes, Takes
  <2>2. CASE holder[target[p]] # Nobody
    BY <1>0, <2>2 DEF ProcsOK, Counters, StealTakes, Takes
  <2> QED
    BY <1>0, <2>1, <2>2 DEF StealTakes
<1>2. RowsOK'
  <2>1. CASE holder[target[p]] = Nobody
    BY <1>0, <2>1 DEF ProcsOK, RowsOK, RowKnown, StealTakes, Takes
  <2>2. CASE holder[target[p]] # Nobody
    BY <1>0, <2>2 DEF ProcsOK, RowsOK, RowKnown, StealTakes, Takes
  <2> QED
    BY <1>0, <2>1, <2>2 DEF StealTakes
<1>3. LocksOK'
  <2>1. active' \subseteq up' \X Sessions
    <3>1. CASE holder[target[p]] = Nobody
      BY <1>0, <1>a, <1>b, <3>1 DEF LocksOK
    <3>2. CASE holder[target[p]] # Nobody
      BY <1>0, <1>a, <1>b, <3>2 DEF LocksOK, StealTakes, Takes
    <3> QED
      BY <1>0, <3>1, <3>2 DEF StealTakes
  <2>2. /\ holder' \in [Sessions -> Pids \cup {Nobody}]
       /\ meta' \in [Sessions -> Pids \cup {Nobody}]
    <3>1. CASE holder[target[p]] = Nobody
      BY <1>0, <1>a, <1>b, <3>1 DEF LocksOK
    <3>2. CASE holder[target[p]] # Nobody
      BY <1>0, <1>a, <1>b, <3>2 DEF LocksOK, StealTakes, Takes
    <3> QED
      BY <1>0, <3>1, <3>2 DEF StealTakes
  <2>3. ASSUME NEW q \in Pids, NEW r \in Sessions, <<q, r>> \in active' PROVE holder'[r] = q
    <3>1. CASE holder[target[p]] = Nobody
      BY <1>0, <1>a, <1>b, <2>3, <3>1 DEF LocksOK
    <3>2. CASE holder[target[p]] # Nobody
      BY <1>0, <1>a, <1>b, <2>3, <3>2 DEF LocksOK, StealTakes, Takes
    <3> QED
      BY <1>0, <3>1, <3>2 DEF StealTakes
  <2> QED
    BY <2>1, <2>2, <2>3 DEF LocksOK
<1>4. SavesOK'
  <2>1. CASE holder[target[p]] = Nobody
    BY <1>0, <2>1 DEF RowsOK, SavesOK, RowKnown, StealTakes, Takes
  <2>2. CASE holder[target[p]] # Nobody
    BY <1>0, <2>2 DEF RowsOK, SavesOK, RowKnown, StealTakes, Takes
  <2> QED
    BY <1>0, <2>1, <2>2 DEF StealTakes
<1>5. ASSUME NEW q \in Pids \ {p} PROVE Undisturbed(q)
  <2>1. /\ pc'[q] = pc[q] /\ open'[q] = open[q] /\ readOnly'[q] = readOnly[q]
       /\ target'[q] = target[q] /\ marked'[q] = marked[q] /\ how'[q] = how[q]
    <3>1. CASE holder[target[p]] = Nobody
      BY <1>0, <3>1 DEF RowsOK, ProcsOK, StealTakes, Takes
    <3>2. CASE holder[target[p]] # Nobody
      BY <1>0, <3>2 DEF RowsOK, ProcsOK, StealTakes, Takes
    <3> QED
      BY <1>0, <3>1, <3>2 DEF StealTakes
  <2>2. q \in refused => q \in refused'
    <3>1. CASE holder[target[p]] = Nobody
      BY <1>0, <3>1 DEF StealTakes, Takes
    <3>2. CASE holder[target[p]] # Nobody
      BY <1>0, <3>2 DEF StealTakes, Takes
    <3> QED
      BY <1>0, <3>1, <3>2 DEF StealTakes
  <2>3. ASSUME NEW r \in Sessions
        PROVE  /\ <<q, r>> \in active' <=> <<q, r>> \in active
               /\ holder[r] = q => holder'[r] = q
               /\ <<q, r>> \in active => meta'[r] = meta[r]
    <3>1. CASE holder[target[p]] = Nobody
      BY <1>0, <1>a, <1>b, <3>1 DEF LocksOK
    <3>2. CASE holder[target[p]] # Nobody
      BY <1>0, <1>a, <1>b, <3>2 DEF LocksOK, StealTakes, Takes
    <3> QED
      BY <1>0, <3>1, <3>2 DEF StealTakes
  <2> QED
    BY <2>1, <2>2, <2>3 DEF Undisturbed
<1>6. Sound(p)'
  <2>1. RowKnown(p)'
    <3>1. CASE holder[target[p]] = Nobody
      BY <1>0, <1>a, <1>b, <3>1 DEF ProcsOK, RowsOK, RowKnown, StealTakes, Takes
    <3>2. CASE holder[target[p]] # Nobody
      BY <1>0, <1>a, <1>b, <3>2 DEF ProcsOK, RowsOK, RowKnown, StealTakes, Takes
    <3> QED
      BY <1>0, <3>1, <3>2 DEF StealTakes
  <2>2. ProbeHolds(p)'
    <3>1. CASE holder[target[p]] = Nobody
      BY <1>0, <1>a, <1>b, <3>1 DEF ProcsOK, RowsOK, LocksOK, RowKnown, ProbeHolds, StealTakes, Takes
    <3>2. CASE holder[target[p]] # Nobody
      BY <1>0, <1>a, <1>b, <3>2 DEF ProcsOK, RowsOK, LocksOK, RowKnown, ProbeHolds, StealTakes, Takes
    <3> QED
      BY <1>0, <3>1, <3>2 DEF StealTakes
  <2>3. Signed(p)'
    <3>1. CASE holder[target[p]] = Nobody
      BY <1>0, <1>a, <1>b, <3>1 DEF ProcsOK, LocksOK, Signed, Signing, StealTakes, Takes
    <3>2. CASE holder[target[p]] # Nobody
      BY <1>0, <1>a, <1>b, <3>2 DEF ProcsOK, LocksOK, Signed, Signing, StealTakes, Takes
    <3> QED
      BY <1>0, <3>1, <3>2 DEF StealTakes
  <2>4. WriterLists(p)'
    <3>1. CASE holder[target[p]] = Nobody
      BY <1>0, <1>a, <1>b, <3>1 DEF ProcsOK, RowsOK, LocksOK, RowKnown, Signed, Signing, WriterLists, StealTakes, Takes
    <3>2. CASE holder[target[p]] # Nobody
      BY <1>0, <1>a, <1>b, <3>2 DEF ProcsOK, RowsOK, LocksOK, RowKnown, Signed, Signing, WriterLists, StealTakes, Takes
    <3> QED
      BY <1>0, <3>1, <3>2 DEF StealTakes
  <2> QED
    BY <2>1, <2>2, <2>3, <2>4 DEF Sound
<1> QED
  BY <1>0, <1>1, <1>2, <1>3, <1>4, <1>5, <1>6, UndisturbedSound DEF IInv, TypeOK

\* An acquire writes its sidecar.
LEMMA SignsKeeps == ASSUME IInv, NEW p \in Pids, Signs(p) PROVE IInv'
<1>0. /\ ProcsOK /\ RowsOK /\ LocksOK /\ SavesOK
     /\ RowKnown(p) /\ ProbeHolds(p) /\ Signed(p) /\ WriterLists(p)
  BY DEF IInv, TypeOK, Sound
<1>1. ProcsOK'
  <2>1. CASE pc[p] = "signing"
    BY <1>0, <2>1 DEF ProcsOK, Counters, Signs
  <2>2. CASE pc[p] = "signing steal"
    BY <1>0, <2>2 DEF ProcsOK, Counters, Signs
  <2> QED
    BY <1>0, <2>1, <2>2 DEF Signs
<1>2. RowsOK'
  <2>1. CASE pc[p] = "signing"
    BY <1>0, <2>1 DEF ProcsOK, RowsOK, RowKnown, Signs
  <2>2. CASE pc[p] = "signing steal"
    BY <1>0, <2>2 DEF ProcsOK, RowsOK, RowKnown, Signs
  <2> QED
    BY <1>0, <2>1, <2>2 DEF Signs
<1>3. LocksOK'
  <2>1. CASE pc[p] = "signing"
    BY <1>0, <2>1 DEF ProcsOK, RowsOK, LocksOK, RowKnown, ProbeHolds, Signs
  <2>2. CASE pc[p] = "signing steal"
    BY <1>0, <2>2 DEF ProcsOK, RowsOK, LocksOK, RowKnown, ProbeHolds, Signs
  <2> QED
    BY <1>0, <2>1, <2>2 DEF Signs
<1>4. SavesOK'
  <2>1. CASE pc[p] = "signing"
    BY <1>0, <2>1 DEF RowsOK, SavesOK, RowKnown, Signs
  <2>2. CASE pc[p] = "signing steal"
    BY <1>0, <2>2 DEF RowsOK, SavesOK, RowKnown, Signs
  <2> QED
    BY <1>0, <2>1, <2>2 DEF Signs
<1>5. ASSUME NEW q \in Pids \ {p} PROVE Undisturbed(q)
  <2>1. /\ pc'[q] = pc[q] /\ open'[q] = open[q] /\ readOnly'[q] = readOnly[q]
       /\ target'[q] = target[q] /\ marked'[q] = marked[q] /\ how'[q] = how[q]
    <3>1. CASE pc[p] = "signing"
      BY <1>0, <3>1 DEF RowsOK, ProcsOK, Signs
    <3>2. CASE pc[p] = "signing steal"
      BY <1>0, <3>2 DEF RowsOK, ProcsOK, Signs
    <3> QED
      BY <1>0, <3>1, <3>2 DEF Signs
  <2>2. q \in refused => q \in refused'
    <3>1. CASE pc[p] = "signing"
      BY <1>0, <3>1 DEF Signs
    <3>2. CASE pc[p] = "signing steal"
      BY <1>0, <3>2 DEF Signs
    <3> QED
      BY <1>0, <3>1, <3>2 DEF Signs
  <2>3. ASSUME NEW r \in Sessions
        PROVE  /\ <<q, r>> \in active' <=> <<q, r>> \in active
               /\ holder[r] = q => holder'[r] = q
               /\ <<q, r>> \in active => meta'[r] = meta[r]
    <3>1. CASE pc[p] = "signing"
      BY <1>0, <3>1 DEF RowsOK, LocksOK, RowKnown, ProbeHolds, Signed, Signing, Signs
    <3>2. CASE pc[p] = "signing steal"
      BY <1>0, <3>2 DEF RowsOK, LocksOK, RowKnown, ProbeHolds, Signed, Signing, Signs
    <3> QED
      BY <1>0, <3>1, <3>2 DEF Signs
  <2> QED
    BY <2>1, <2>2, <2>3 DEF Undisturbed
<1>6. Sound(p)'
  <2>1. RowKnown(p)'
    <3>1. CASE pc[p] = "signing"
      BY <1>0, <3>1 DEF ProcsOK, RowsOK, RowKnown, Signs
    <3>2. CASE pc[p] = "signing steal"
      BY <1>0, <3>2 DEF ProcsOK, RowsOK, RowKnown, Signs
    <3> QED
      BY <1>0, <3>1, <3>2 DEF Signs
  <2>2. ProbeHolds(p)'
    <3>1. CASE pc[p] = "signing"
      BY <1>0, <3>1 DEF ProcsOK, RowsOK, LocksOK, RowKnown, ProbeHolds, Signs
    <3>2. CASE pc[p] = "signing steal"
      BY <1>0, <3>2 DEF ProcsOK, RowsOK, LocksOK, RowKnown, ProbeHolds, Signs
    <3> QED
      BY <1>0, <3>1, <3>2 DEF Signs
  <2>3. Signed(p)'
    <3>1. CASE pc[p] = "signing"
      BY <1>0, <3>1 DEF ProcsOK, RowsOK, LocksOK, RowKnown, Signed, Signing, Signs
    <3>2. CASE pc[p] = "signing steal"
      BY <1>0, <3>2 DEF ProcsOK, RowsOK, LocksOK, RowKnown, Signed, Signing, Signs
    <3> QED
      BY <1>0, <3>1, <3>2 DEF Signs
  <2>4. WriterLists(p)'
    <3>1. CASE pc[p] = "signing"
      BY <1>0, <3>1 DEF ProcsOK, RowsOK, LocksOK, RowKnown, Signed, Signing, WriterLists, Signs
    <3>2. CASE pc[p] = "signing steal"
      BY <1>0, <3>2 DEF ProcsOK, RowsOK, LocksOK, RowKnown, Signed, Signing, WriterLists, Signs
    <3> QED
      BY <1>0, <3>1, <3>2 DEF Signs
  <2> QED
    BY <2>1, <2>2, <2>3, <2>4 DEF Sound
<1> QED
  BY <1>0, <1>1, <1>2, <1>3, <1>4, <1>5, <1>6, UndisturbedSound DEF IInv, TypeOK

\* The old session is released and the new one loaded.
LEMMA SwitchLoadsKeeps == ASSUME IInv, NEW p \in Pids, SwitchLoads(p) PROVE IInv'
<1>0. /\ ProcsOK /\ RowsOK /\ LocksOK /\ SavesOK
     /\ RowKnown(p) /\ ProbeHolds(p) /\ Signed(p) /\ WriterLists(p)
  BY DEF IInv, TypeOK, Sound
<1>1. ProcsOK'
  <2>1. CASE how[p] = "read only"
    BY <1>0, <2>1 DEF ProcsOK, Counters, SwitchLoads, Releases
  <2>2. CASE how[p] # "read only"
    BY <1>0, <2>2 DEF ProcsOK, Counters, SwitchLoads, Releases
  <2> QED
    BY <1>0, <2>1, <2>2 DEF SwitchLoads
<1>2. RowsOK'
  <2>1. CASE how[p] = "read only"
    BY <1>0, <2>1 DEF ProcsOK, RowsOK, RowKnown, SwitchLoads, Releases
  <2>2. CASE how[p] # "read only"
    BY <1>0, <2>2 DEF ProcsOK, RowsOK, RowKnown, SwitchLoads, Releases
  <2> QED
    BY <1>0, <2>1, <2>2 DEF SwitchLoads
<1>3. LocksOK'
  <2>1. CASE how[p] = "read only"
    BY <1>0, <2>1 DEF ProcsOK, RowsOK, LocksOK, RowKnown, ProbeHolds, SwitchLoads, Releases
  <2>2. CASE how[p] # "read only"
    BY <1>0, <2>2 DEF ProcsOK, RowsOK, LocksOK, RowKnown, ProbeHolds, SwitchLoads, Releases
  <2> QED
    BY <1>0, <2>1, <2>2 DEF SwitchLoads
<1>4. SavesOK'
  <2>1. inMemory' \subseteq Pids \X Sessions /\ base' \in [Pids -> [Sessions -> 0 .. MaxSaves]]
    <3>1. target[p] \in Sessions /\ version[target[p]] \in 0 .. MaxSaves
      BY <1>0 DEF RowKnown, SavesOK, SwitchLoads
    <3>2. \/ base' = base
          \/ base' = [base EXCEPT ![p] = [base[p] EXCEPT ![target[p]] = version[target[p]]]]
      BY DEF SwitchLoads
    <3>3. inMemory' = inMemory \cup {<<p, target[p]>>}
      BY DEF SwitchLoads
    <3> QED
      BY <1>0, <3>1, <3>2, <3>3 DEF SavesOK
  <2>2. version' \in [Sessions -> 0 .. MaxSaves] /\ exposed' \subseteq Sessions
    BY <1>0, Bounds DEF SavesOK, SwitchLoads, Releases
  <2> QED
    BY <2>1, <2>2 DEF SavesOK
<1>5. ASSUME NEW q \in Pids \ {p} PROVE Undisturbed(q)
  <2>1. /\ pc'[q] = pc[q] /\ open'[q] = open[q] /\ readOnly'[q] = readOnly[q]
       /\ target'[q] = target[q] /\ marked'[q] = marked[q] /\ how'[q] = how[q]
    <3>1. CASE how[p] = "read only"
      BY <1>0, <3>1 DEF RowsOK, ProcsOK, SwitchLoads, Releases
    <3>2. CASE how[p] # "read only"
      BY <1>0, <3>2 DEF RowsOK, ProcsOK, SwitchLoads, Releases
    <3> QED
      BY <1>0, <3>1, <3>2 DEF SwitchLoads
  <2>2. q \in refused => q \in refused'
    <3>1. CASE how[p] = "read only"
      BY <1>0, <3>1 DEF SwitchLoads, Releases
    <3>2. CASE how[p] # "read only"
      BY <1>0, <3>2 DEF SwitchLoads, Releases
    <3> QED
      BY <1>0, <3>1, <3>2 DEF SwitchLoads
  <2>3. ASSUME NEW r \in Sessions
        PROVE  /\ <<q, r>> \in active' <=> <<q, r>> \in active
               /\ holder[r] = q => holder'[r] = q
               /\ <<q, r>> \in active => meta'[r] = meta[r]
    <3>1. CASE how[p] = "read only"
      BY <1>0, <3>1 DEF RowsOK, LocksOK, RowKnown, ProbeHolds, SwitchLoads, Releases
    <3>2. CASE how[p] # "read only"
      BY <1>0, <3>2 DEF RowsOK, LocksOK, RowKnown, ProbeHolds, SwitchLoads, Releases
    <3> QED
      BY <1>0, <3>1, <3>2 DEF SwitchLoads
  <2> QED
    BY <2>1, <2>2, <2>3 DEF Undisturbed
<1>6. Sound(p)'
  <2>1. RowKnown(p)'
    <3>1. CASE how[p] = "read only"
      BY <1>0, <3>1 DEF ProcsOK, RowsOK, RowKnown, SwitchLoads, Releases
    <3>2. CASE how[p] # "read only"
      BY <1>0, <3>2 DEF ProcsOK, RowsOK, RowKnown, SwitchLoads, Releases
    <3> QED
      BY <1>0, <3>1, <3>2 DEF SwitchLoads
  <2>2. ProbeHolds(p)'
    <3>1. CASE how[p] = "read only"
      BY <1>0, <3>1 DEF ProcsOK, RowsOK, LocksOK, RowKnown, ProbeHolds, SwitchLoads, Releases
    <3>2. CASE how[p] # "read only"
      BY <1>0, <3>2 DEF ProcsOK, RowsOK, LocksOK, RowKnown, ProbeHolds, SwitchLoads, Releases
    <3> QED
      BY <1>0, <3>1, <3>2 DEF SwitchLoads
  <2>3. Signed(p)'
    <3>1. CASE how[p] = "read only"
      BY <1>0, <3>1 DEF ProcsOK, RowsOK, LocksOK, RowKnown, Signed, Signing, SwitchLoads, Releases
    <3>2. CASE how[p] # "read only"
      BY <1>0, <3>2 DEF ProcsOK, RowsOK, LocksOK, RowKnown, Signed, Signing, SwitchLoads, Releases
    <3> QED
      BY <1>0, <3>1, <3>2 DEF SwitchLoads
  <2>4. WriterLists(p)'
    <3>1. CASE how[p] = "read only"
      BY <1>0, <3>1 DEF ProcsOK, RowsOK, LocksOK, RowKnown, Signed, Signing, WriterLists, SwitchLoads, Releases
    <3>2. CASE how[p] # "read only"
      BY <1>0, <3>2 DEF ProcsOK, RowsOK, LocksOK, RowKnown, Signed, Signing, WriterLists, SwitchLoads, Releases
    <3> QED
      BY <1>0, <3>1, <3>2 DEF SwitchLoads
  <2> QED
    BY <2>1, <2>2, <2>3, <2>4 DEF Sound
<1> QED
  BY <1>0, <1>1, <1>2, <1>3, <1>4, <1>5, <1>6, UndisturbedSound DEF IInv, TypeOK

\* The loaded session is locked, or the refusal ignored.
LEMMA SwitchTakesKeeps == ASSUME IInv, NEW p \in Pids, SwitchTakes(p) PROVE IInv'
<1>0. /\ ProcsOK /\ RowsOK /\ LocksOK /\ SavesOK
     /\ RowKnown(p) /\ ProbeHolds(p) /\ Signed(p) /\ WriterLists(p)
  BY DEF IInv, TypeOK, Sound
<1>a. p \in up /\ target[p] \in Sessions /\ open[p] = target[p]
  BY <1>0 DEF RowKnown, SwitchTakes
<1>1. ProcsOK'
  <2>1. CASE <<p, open[p]>> \in active
    BY <1>0, <2>1 DEF ProcsOK, Counters, SwitchTakes, Takes
  <2>2. CASE <<p, open[p]>> \notin active /\ holder[open[p]] = Nobody
    BY <1>0, <2>2 DEF ProcsOK, Counters, SwitchTakes, Takes
  <2>3. CASE <<p, open[p]>> \notin active /\ holder[open[p]] # Nobody
    BY <1>0, <2>3 DEF ProcsOK, Counters, SwitchTakes, Takes
  <2> QED
    BY <1>0, <2>1, <2>2, <2>3 DEF SwitchTakes
<1>2. RowsOK'
  <2>1. CASE <<p, open[p]>> \in active
    BY <1>0, <2>1 DEF ProcsOK, RowsOK, RowKnown, SwitchTakes, Takes
  <2>2. CASE <<p, open[p]>> \notin active /\ holder[open[p]] = Nobody
    BY <1>0, <2>2 DEF ProcsOK, RowsOK, RowKnown, SwitchTakes, Takes
  <2>3. CASE <<p, open[p]>> \notin active /\ holder[open[p]] # Nobody
    BY <1>0, <2>3 DEF ProcsOK, RowsOK, RowKnown, SwitchTakes, Takes
  <2> QED
    BY <1>0, <2>1, <2>2, <2>3 DEF SwitchTakes
<1>3. LocksOK'
  <2>1. active' \subseteq up' \X Sessions
    <3>1. CASE <<p, open[p]>> \in active
      BY <1>0, <1>a, <3>1 DEF LocksOK, SwitchTakes, Takes
    <3>2. CASE <<p, open[p]>> \notin active /\ holder[open[p]] = Nobody
      BY <1>0, <1>a, <3>2 DEF LocksOK, SwitchTakes, Takes
    <3>3. CASE <<p, open[p]>> \notin active /\ holder[open[p]] # Nobody
      BY <1>0, <1>a, <3>3 DEF LocksOK, SwitchTakes, Takes
    <3> QED
      BY <1>0, <3>1, <3>2, <3>3 DEF SwitchTakes
  <2>2. /\ holder' \in [Sessions -> Pids \cup {Nobody}]
       /\ meta' \in [Sessions -> Pids \cup {Nobody}]
    <3>1. CASE <<p, open[p]>> \in active
      BY <1>0, <1>a, <3>1 DEF LocksOK, SwitchTakes, Takes
    <3>2. CASE <<p, open[p]>> \notin active /\ holder[open[p]] = Nobody
      BY <1>0, <1>a, <3>2 DEF LocksOK, SwitchTakes, Takes
    <3>3. CASE <<p, open[p]>> \notin active /\ holder[open[p]] # Nobody
      BY <1>0, <1>a, <3>3 DEF LocksOK, SwitchTakes, Takes
    <3> QED
      BY <1>0, <3>1, <3>2, <3>3 DEF SwitchTakes
  <2>3. ASSUME NEW q \in Pids, NEW r \in Sessions, <<q, r>> \in active' PROVE holder'[r] = q
    <3>1. CASE <<p, open[p]>> \in active
      BY <1>0, <1>a, <2>3, <3>1 DEF LocksOK, SwitchTakes, Takes
    <3>2. CASE <<p, open[p]>> \notin active /\ holder[open[p]] = Nobody
      BY <1>0, <1>a, <2>3, <3>2 DEF LocksOK, SwitchTakes, Takes
    <3>3. CASE <<p, open[p]>> \notin active /\ holder[open[p]] # Nobody
      BY <1>0, <1>a, <2>3, <3>3 DEF LocksOK, SwitchTakes, Takes
    <3> QED
      BY <1>0, <3>1, <3>2, <3>3 DEF SwitchTakes
  <2> QED
    BY <2>1, <2>2, <2>3 DEF LocksOK
<1>4. SavesOK'
  <2>1. CASE <<p, open[p]>> \in active
    BY <1>0, <2>1 DEF RowsOK, SavesOK, RowKnown, SwitchTakes, Takes, Exposes
  <2>2. CASE <<p, open[p]>> \notin active /\ holder[open[p]] = Nobody
    BY <1>0, <2>2 DEF RowsOK, SavesOK, RowKnown, SwitchTakes, Takes, Exposes
  <2>3. CASE <<p, open[p]>> \notin active /\ holder[open[p]] # Nobody
    BY <1>0, <2>3 DEF RowsOK, SavesOK, RowKnown, SwitchTakes, Takes, Exposes
  <2> QED
    BY <1>0, <2>1, <2>2, <2>3 DEF SwitchTakes
<1>5. ASSUME NEW q \in Pids \ {p} PROVE Undisturbed(q)
  <2>1. CASE <<p, open[p]>> \in active
    BY <1>0, <2>1 DEF ProcsOK, RowsOK, LocksOK, RowKnown, ProbeHolds, Undisturbed, SwitchTakes, Takes
  <2>2. CASE <<p, open[p]>> \notin active /\ holder[open[p]] = Nobody
    BY <1>0, <2>2 DEF ProcsOK, RowsOK, LocksOK, RowKnown, ProbeHolds, Undisturbed, SwitchTakes, Takes
  <2>3. CASE <<p, open[p]>> \notin active /\ holder[open[p]] # Nobody
    BY <1>0, <2>3 DEF ProcsOK, RowsOK, LocksOK, RowKnown, ProbeHolds, Undisturbed, SwitchTakes, Takes
  <2> QED
    BY <1>0, <2>1, <2>2, <2>3 DEF SwitchTakes
<1>6. Sound(p)'
  <2>1. RowKnown(p)'
    <3>1. CASE <<p, open[p]>> \in active
      BY <1>0, <1>a, <3>1 DEF ProcsOK, RowsOK, RowKnown, SwitchTakes, Takes
    <3>2. CASE <<p, open[p]>> \notin active /\ holder[open[p]] = Nobody
      BY <1>0, <1>a, <3>2 DEF ProcsOK, RowsOK, RowKnown, SwitchTakes, Takes
    <3>3. CASE <<p, open[p]>> \notin active /\ holder[open[p]] # Nobody
      BY <1>0, <1>a, <3>3 DEF ProcsOK, RowsOK, RowKnown, SwitchTakes, Takes
    <3> QED
      BY <1>0, <3>1, <3>2, <3>3 DEF SwitchTakes
  <2>2. ProbeHolds(p)'
    <3>1. CASE <<p, open[p]>> \in active
      BY <1>0, <1>a, <3>1 DEF ProcsOK, RowsOK, LocksOK, RowKnown, ProbeHolds, SwitchTakes, Takes
    <3>2. CASE <<p, open[p]>> \notin active /\ holder[open[p]] = Nobody
      BY <1>0, <1>a, <3>2 DEF ProcsOK, RowsOK, LocksOK, RowKnown, ProbeHolds, SwitchTakes, Takes
    <3>3. CASE <<p, open[p]>> \notin active /\ holder[open[p]] # Nobody
      BY <1>0, <1>a, <3>3 DEF ProcsOK, RowsOK, LocksOK, RowKnown, ProbeHolds, SwitchTakes, Takes
    <3> QED
      BY <1>0, <3>1, <3>2, <3>3 DEF SwitchTakes
  <2>3. Signed(p)'
    <3>1. CASE <<p, open[p]>> \in active
      BY <1>0, <1>a, <3>1 DEF ProcsOK, RowsOK, LocksOK, RowKnown, Signed, Signing, SwitchTakes, Takes
    <3>2. CASE <<p, open[p]>> \notin active /\ holder[open[p]] = Nobody
      BY <1>0, <1>a, <3>2 DEF ProcsOK, RowsOK, LocksOK, RowKnown, Signed, Signing, SwitchTakes, Takes
    <3>3. CASE <<p, open[p]>> \notin active /\ holder[open[p]] # Nobody
      BY <1>0, <1>a, <3>3 DEF ProcsOK, RowsOK, LocksOK, RowKnown, Signed, Signing, SwitchTakes, Takes
    <3> QED
      BY <1>0, <3>1, <3>2, <3>3 DEF SwitchTakes
  <2>4. WriterLists(p)'
    <3>1. CASE <<p, open[p]>> \in active
      BY <1>0, <1>a, <3>1 DEF ProcsOK, RowKnown, WriterLists, Signed, Signing, SwitchTakes, Takes
    <3>2. CASE <<p, open[p]>> \notin active /\ holder[open[p]] = Nobody
      BY <1>0, <1>a, <3>2 DEF ProcsOK, RowKnown, WriterLists, Signed, Signing, SwitchTakes, Takes
    <3>3. CASE <<p, open[p]>> \notin active /\ holder[open[p]] # Nobody
      BY <1>0, <1>a, <3>3 DEF ProcsOK, RowKnown, WriterLists, Signed, Signing, SwitchTakes, Takes
    <3> QED
      BY <1>0, <3>1, <3>2, <3>3 DEF SwitchTakes
  <2> QED
    BY <2>1, <2>2, <2>3, <2>4 DEF Sound
<1> QED
  BY <1>0, <1>1, <1>2, <1>3, <1>4, <1>5, <1>6, UndisturbedSound DEF IInv, TypeOK

\* The open session is saved.
LEMMA SaveKeeps == ASSUME IInv, NEW p \in Pids, Save(p) PROVE IInv'
<1>0. /\ ProcsOK /\ RowsOK /\ LocksOK /\ SavesOK
     /\ RowKnown(p) /\ ProbeHolds(p) /\ Signed(p) /\ WriterLists(p)
  BY DEF IInv, TypeOK, Sound
<1>1. ProcsOK'
  BY <1>0 DEF ProcsOK, Counters, Save
<1>2. RowsOK'
  BY <1>0 DEF ProcsOK, RowsOK, RowKnown, Save
<1>3. LocksOK'
  BY <1>0 DEF ProcsOK, RowsOK, LocksOK, RowKnown, ProbeHolds, Save
<1>4. SavesOK'
  <2>1. inMemory' \subseteq Pids \X Sessions /\ base' \in [Pids -> [Sessions -> 0 .. MaxSaves]]
    BY <1>0, Bounds DEF SavesOK, Save
  <2>2. version' \in [Sessions -> 0 .. MaxSaves] /\ exposed' \subseteq Sessions
    BY <1>0, Bounds DEF SavesOK, Save
  <2> QED
    BY <2>1, <2>2 DEF SavesOK
<1>5. ASSUME NEW q \in Pids \ {p} PROVE Undisturbed(q)
  BY <1>0 DEF ProcsOK, RowsOK, LocksOK, RowKnown, ProbeHolds, Undisturbed, Save
<1>6. Sound(p)'
  <2>1. RowKnown(p)'
    BY <1>0 DEF ProcsOK, RowsOK, RowKnown, Save
  <2>2. ProbeHolds(p)'
    BY <1>0 DEF ProcsOK, RowsOK, LocksOK, RowKnown, ProbeHolds, Save
  <2>3. Signed(p)'
    BY <1>0 DEF ProcsOK, RowsOK, LocksOK, RowKnown, Signed, Signing, Save
  <2>4. WriterLists(p)'
    BY <1>0 DEF ProcsOK, RowsOK, LocksOK, RowKnown, Signed, Signing, WriterLists, Save
  <2> QED
    BY <2>1, <2>2, <2>3, <2>4 DEF Sound
<1> QED
  BY <1>0, <1>1, <1>2, <1>3, <1>4, <1>5, <1>6, UndisturbedSound DEF IInv, TypeOK

\* A read-only session is forked.
LEMMA ForkKeeps == ASSUME IInv, NEW p \in Pids, Fork(p) PROVE IInv'
<1>0. /\ ProcsOK /\ RowsOK /\ LocksOK /\ SavesOK
     /\ RowKnown(p) /\ ProbeHolds(p) /\ Signed(p) /\ WriterLists(p)
  BY DEF IInv, TypeOK, Sound
<1>1. ProcsOK'
  BY <1>0 DEF ProcsOK, Counters, Fork, Releases, Forgets
<1>2. RowsOK'
  BY <1>0 DEF ProcsOK, RowsOK, RowKnown, Fork, Releases, Forgets
<1>3. LocksOK'
  BY <1>0 DEF ProcsOK, RowsOK, LocksOK, RowKnown, ProbeHolds, Fork, Releases, Forgets
<1>4. SavesOK'
  <2>1. inMemory' \subseteq Pids \X Sessions /\ base' \in [Pids -> [Sessions -> 0 .. MaxSaves]]
    BY <1>0, Bounds DEF SavesOK, Fork, Releases, Forgets
  <2>2. version' \in [Sessions -> 0 .. MaxSaves] /\ exposed' \subseteq Sessions
    BY <1>0, Bounds DEF SavesOK, Fork, Releases, Forgets
  <2> QED
    BY <2>1, <2>2 DEF SavesOK
<1>5. ASSUME NEW q \in Pids \ {p} PROVE Undisturbed(q)
  BY <1>0 DEF ProcsOK, RowsOK, LocksOK, RowKnown, ProbeHolds, Undisturbed, Fork, Releases, Forgets
<1>6. Sound(p)'
  <2>1. RowKnown(p)'
    BY <1>0 DEF ProcsOK, RowsOK, RowKnown, Fork, Releases, Forgets
  <2>2. ProbeHolds(p)'
    BY <1>0 DEF ProcsOK, RowsOK, LocksOK, RowKnown, ProbeHolds, Fork, Releases, Forgets
  <2>3. Signed(p)'
    BY <1>0 DEF ProcsOK, RowsOK, LocksOK, RowKnown, Signed, Signing, Fork, Releases, Forgets
  <2>4. WriterLists(p)'
    BY <1>0 DEF ProcsOK, RowsOK, LocksOK, RowKnown, Signed, Signing, WriterLists, Fork, Releases, Forgets
  <2> QED
    BY <2>1, <2>2, <2>3, <2>4 DEF Sound
<1> QED
  BY <1>0, <1>1, <1>2, <1>3, <1>4, <1>5, <1>6, UndisturbedSound DEF IInv, TypeOK

\* /new releases the lock.
LEMMA NewBeginsKeeps == ASSUME IInv, NEW p \in Pids, NewBegins(p) PROVE IInv'
<1>0. /\ ProcsOK /\ RowsOK /\ LocksOK /\ SavesOK
     /\ RowKnown(p) /\ ProbeHolds(p) /\ Signed(p) /\ WriterLists(p)
  BY DEF IInv, TypeOK, Sound
<1>1. ProcsOK'
  BY <1>0 DEF ProcsOK, Counters, NewBegins, Releases
<1>2. RowsOK'
  BY <1>0 DEF ProcsOK, RowsOK, RowKnown, NewBegins, Releases
<1>3. LocksOK'
  BY <1>0 DEF ProcsOK, RowsOK, LocksOK, RowKnown, ProbeHolds, NewBegins, Releases
<1>4. SavesOK'
  BY <1>0 DEF RowsOK, SavesOK, RowKnown, NewBegins, Releases
<1>5. ASSUME NEW q \in Pids \ {p} PROVE Undisturbed(q)
  <2>1. /\ pc'[q] = pc[q] /\ open'[q] = open[q] /\ readOnly'[q] = readOnly[q]
       /\ target'[q] = target[q] /\ marked'[q] = marked[q] /\ how'[q] = how[q]
    BY <1>0 DEF RowsOK, ProcsOK, NewBegins, Releases
  <2>2. q \in refused => q \in refused'
    BY <1>0 DEF NewBegins, Releases
  <2>3. ASSUME NEW r \in Sessions
        PROVE  /\ <<q, r>> \in active' <=> <<q, r>> \in active
               /\ holder[r] = q => holder'[r] = q
               /\ <<q, r>> \in active => meta'[r] = meta[r]
    BY <1>0 DEF RowsOK, LocksOK, RowKnown, ProbeHolds, NewBegins, Releases
  <2> QED
    BY <2>1, <2>2, <2>3 DEF Undisturbed
<1>6. Sound(p)'
  <2>1. RowKnown(p)'
    BY <1>0 DEF ProcsOK, RowsOK, RowKnown, NewBegins, Releases
  <2>2. ProbeHolds(p)'
    BY <1>0 DEF ProcsOK, RowsOK, LocksOK, RowKnown, ProbeHolds, NewBegins, Releases
  <2>3. Signed(p)'
    BY <1>0 DEF ProcsOK, RowsOK, LocksOK, RowKnown, Signed, Signing, NewBegins, Releases
  <2>4. WriterLists(p)'
    BY <1>0 DEF ProcsOK, RowsOK, LocksOK, RowKnown, Signed, Signing, WriterLists, NewBegins, Releases
  <2> QED
    BY <2>1, <2>2, <2>3, <2>4 DEF Sound
<1> QED
  BY <1>0, <1>1, <1>2, <1>3, <1>4, <1>5, <1>6, UndisturbedSound DEF IInv, TypeOK

\* /new has its new session.
LEMMA NewEndsKeeps == ASSUME IInv, NEW p \in Pids, NewEnds(p) PROVE IInv'
<1>0. /\ ProcsOK /\ RowsOK /\ LocksOK /\ SavesOK
     /\ RowKnown(p) /\ ProbeHolds(p) /\ Signed(p) /\ WriterLists(p)
  BY DEF IInv, TypeOK, Sound
<1>1. ProcsOK'
  BY <1>0 DEF ProcsOK, Counters, NewEnds, Forgets
<1>2. RowsOK'
  BY <1>0 DEF ProcsOK, RowsOK, RowKnown, NewEnds, Forgets
<1>3. LocksOK'
  BY <1>0 DEF ProcsOK, RowsOK, LocksOK, RowKnown, ProbeHolds, NewEnds, Forgets
<1>4. SavesOK'
  <2>1. inMemory' \subseteq Pids \X Sessions /\ base' \in [Pids -> [Sessions -> 0 .. MaxSaves]]
    BY <1>0, Bounds DEF SavesOK, NewEnds, Forgets
  <2>2. version' \in [Sessions -> 0 .. MaxSaves] /\ exposed' \subseteq Sessions
    BY <1>0, Bounds DEF SavesOK, NewEnds, Forgets
  <2> QED
    BY <2>1, <2>2 DEF SavesOK
<1>5. ASSUME NEW q \in Pids \ {p} PROVE Undisturbed(q)
  BY <1>0 DEF ProcsOK, RowsOK, LocksOK, RowKnown, ProbeHolds, Undisturbed, NewEnds, Forgets
<1>6. Sound(p)'
  <2>1. RowKnown(p)'
    BY <1>0 DEF ProcsOK, RowsOK, RowKnown, NewEnds, Forgets
  <2>2. ProbeHolds(p)'
    BY <1>0 DEF ProcsOK, RowsOK, LocksOK, RowKnown, ProbeHolds, NewEnds, Forgets
  <2>3. Signed(p)'
    BY <1>0 DEF ProcsOK, RowsOK, LocksOK, RowKnown, Signed, Signing, NewEnds, Forgets
  <2>4. WriterLists(p)'
    BY <1>0 DEF ProcsOK, RowsOK, LocksOK, RowKnown, Signed, Signing, WriterLists, NewEnds, Forgets
  <2> QED
    BY <2>1, <2>2, <2>3, <2>4 DEF Sound
<1> QED
  BY <1>0, <1>1, <1>2, <1>3, <1>4, <1>5, <1>6, UndisturbedSound DEF IInv, TypeOK

\* Every step keeps the invariant.
LEMMA NextIInv == IInv /\ [Next]_vars => IInv'
<1> SUFFICES ASSUME IInv, [Next]_vars PROVE IInv'
  OBVIOUS
<1>1. CASE UNCHANGED vars
  <2>1. TypeOK'
    BY <1>1 DEF IInv, vars, TypeOK, ProcsOK, RowsOK, LocksOK, SavesOK
  <2>2. ASSUME NEW q \in Pids PROVE Sound(q)'
    BY <1>1 DEF IInv, vars, Sound, RowKnown, ProbeHolds, Signed, Signing, WriterLists
  <2> QED
    BY <2>1, <2>2 DEF IInv
<1>2. CASE Next
  BY <1>2, StartKeeps, ExitKeeps, LookKeeps, ProbeEndsKeeps, LeaveKeeps, SelectKeeps,
     SelectReadOnlyKeeps, StealLooksKeeps, StealKillsKeeps, StealTakesKeeps, SignsKeeps,
     SwitchLoadsKeeps, SwitchTakesKeeps, SaveKeeps, ForkKeeps, NewBeginsKeeps, NewEndsKeeps
  DEF Next
<1> QED
  BY <1>1, <1>2

\* The invariant implies WriterHolds.
LEMMA IInvWriterHolds == IInv => WriterHolds
<1> SUFFICES ASSUME IInv, NEW p \in up \ refused, NEW s \in Sessions,
                    pc[p] = "idle", open[p] = s, ~readOnly[p]
             PROVE  holder[s] = p /\ meta[s] = p
  BY DEF WriterHolds
<1>1. p \in Pids
  BY DEF IInv, TypeOK, ProcsOK
<1>2. <<p, s>> \in active
  BY <1>1 DEF IInv, Sound, WriterLists
<1>3. meta[s] = p
  BY <1>1, <1>2 DEF IInv, Sound, Signed, Signing
<1>4. holder[s] = p
  BY <1>1, <1>2 DEF IInv, TypeOK, LocksOK
<1> QED
  BY <1>3, <1>4

\* The invariant is one of the specification.
LEMMA Invariance == Spec => []IInv
BY InitIInv, NextIInv, PTL DEF Spec

\* Every variable keeps its shape, and a lock a store has listed is the
\* kernel's, for any number of processes and sessions.
THEOREM TypeCorrect == Spec => []TypeOK
<1>1. IInv => TypeOK
  BY DEF IInv
<1> QED
  BY <1>1, Invariance, PTL

\* Who can save a session holds its lock and is named by its sidecar, unless its
\* lock was refused: what write_session_data and steal_session_lock rely on.
THEOREM LockHeldByWriter == Spec => []WriterHolds
BY Invariance, IInvWriterHolds, PTL

-----------------------------------------------------------------------------
(* No save overwrites another one's.                                       *)

\* A row that is looked at is not the open session's.
Elsewhere(q) ==
    pc[q] \in {"probing", "chosen", "killing", "taking", "signing steal", "switching"}
    => target[q] # open[q]

\* No process has a later version than the saved one.
NotAhead(q) == \A s \in Sessions : base[q][s] <= version[s]

\* What a process has of the session it has locked is the latest version, unless
\* the session was saved without its lock or locked with an old version.
Latest(q) ==
    /\ NotAhead(q)
    /\ \A s \in Sessions :
          open[q] = s /\ ~readOnly[q] /\ pc[q] # "loaded" /\ <<q, s>> \in active /\ s \notin exposed
          => base[q][s] = version[s]

UpToDate(q) == Elsewhere(q) /\ Latest(q)

\* A step of another process, which may save what q has not locked.
Same(q) ==
    /\ pc'[q] = pc[q] /\ target'[q] = target[q]
    /\ open'[q] = open[q] /\ readOnly'[q] = readOnly[q] /\ base'[q] = base[q]

\* What a step does to the versions, as a process sees it that keeps its session.
Seen(q) ==
    \A s \in Sessions :
       /\ version'[s] \in Nat /\ version[s] <= version'[s]
       /\ <<q, s>> \in active' => <<q, s>> \in active
       /\ s \in exposed => s \in exposed'
       /\ version'[s] = version[s] \/ <<q, s>> \notin active \/ s \in exposed'

Numbers == base \in [Pids -> [Sessions -> Nat]] /\ version \in [Sessions -> Nat]

\* Versions and what is known of them are numbers.
LEMMA SavesAreNumbers == SavesOK => Numbers
BY DEF SavesOK, Numbers

\* Who is left alone stays up to date.
LEMMA SameUpToDate ==
  ASSUME NEW q \in Pids, Numbers, UpToDate(q), Same(q), Seen(q) PROVE UpToDate(q)'
<1>1. Elsewhere(q)'
  BY DEF UpToDate, Elsewhere, Same
<1>2. ASSUME NEW s \in Sessions
      PROVE  /\ base'[q][s] <= version'[s]
             /\ open'[q] = s /\ ~readOnly'[q] /\ pc'[q] # "loaded" /\ <<q, s>> \in active' /\ s \notin exposed'
                => base'[q][s] = version'[s]
  <2>1. open'[q] = open[q] /\ readOnly'[q] = readOnly[q] /\ base'[q] = base[q] /\ pc'[q] = pc[q]
    BY DEF Same
  <2>2. /\ base[q][s] <= version[s]
        /\ open[q] = s /\ ~readOnly[q] /\ pc[q] # "loaded" /\ <<q, s>> \in active /\ s \notin exposed
           => base[q][s] = version[s]
    BY DEF UpToDate, Latest, NotAhead
  <2>3. base[q][s] \in Nat /\ version[s] \in Nat /\ version'[s] \in Nat
    BY DEF Numbers, Seen
  <2>4. /\ version[s] <= version'[s]
        /\ <<q, s>> \in active' => <<q, s>> \in active
        /\ s \in exposed => s \in exposed'
        /\ version'[s] = version[s] \/ <<q, s>> \notin active \/ s \in exposed'
    BY DEF Seen
  <2> QED
    BY <2>1, <2>2, <2>3, <2>4
<1> QED
  BY <1>1, <1>2 DEF UpToDate, Latest, NotAhead

\* A step that looks at rows, kills or lets go leaves every version alone.
LEMMA QuietUpToDate ==
  ASSUME IInv, \A q \in Pids : UpToDate(q), NEW p \in Pids,
         \/ Start(p) \/ Exit(p) \/ \E s \in Sessions : Look(p, s)
         \/ ProbeEnds(p) \/ Leave(p) \/ Select(p) \/ SelectReadOnly(p)
         \/ StealLooks(p) \/ StealKills(p) \/ Signs(p)
         \/ Fork(p) \/ NewBegins(p) \/ NewEnds(p)
  PROVE  \A q \in Pids : UpToDate(q)'
<1>0. ProcsOK /\ RowsOK /\ LocksOK /\ SavesOK /\ Numbers
  BY SavesAreNumbers DEF IInv, TypeOK
<1>1. UNCHANGED <<version, exposed>> /\ active' \subseteq active
  BY DEF Start, Exit, Look, ProbeEnds, Leave, Select, SelectReadOnly, StealLooks, StealKills,
     Signs, Fork, NewBegins, NewEnds, Dies, Releases
<1>2. \A q \in Pids : Seen(q)
  BY <1>0, <1>1 DEF Numbers, Seen
<1>3. ASSUME NEW q \in Pids, open'[q] = Own, pc'[q] \in {"idle", "closing"},
             base'[q] = base[q] \/ base'[q] = [s \in Sessions |-> 0]
      PROVE  UpToDate(q)'
  <2>1. NotAhead(q)'
    BY <1>0, <1>1, <1>3 DEF UpToDate, Latest, NotAhead, Numbers
  <2> QED
    BY <1>3, <2>1 DEF UpToDate, Elsewhere, Latest
<1>4. ASSUME NEW q \in Pids, NEW s \in Sessions, Look(p, s) PROVE UpToDate(q)'
  <2>1. CASE q = p
    <3>1. /\ target'[q] # open'[q] /\ open'[q] = open[q] /\ readOnly'[q] = readOnly[q]
          /\ base'[q] = base[q] /\ pc[q] # "loaded"
      BY <1>0, <1>4, <2>1 DEF RowsOK, Look
    <3> QED
      BY <1>0, <1>1, <3>1 DEF UpToDate, Elsewhere, Latest, NotAhead
  <2>2. CASE q # p
    <3>1. Same(q)
      BY <1>0, <1>4, <2>2 DEF ProcsOK, RowsOK, Same, Look
    <3> QED
      BY <1>0, <1>2, <3>1, SameUpToDate
  <2> QED
    BY <2>1, <2>2
<1>5. ASSUME NEW q \in Pids, Exit(p) \/ StealKills(p) \/ NewEnds(p) \/ Fork(p) PROVE UpToDate(q)'
  <2>1. \/ /\ open'[q] = Own /\ pc'[q] = "idle"
           /\ base'[q] = base[q] \/ base'[q] = [s \in Sessions |-> 0]
        \/ Same(q)
        \/ /\ q = p /\ open'[q] = open[q] /\ target'[q] = target[q]
           /\ readOnly'[q] = readOnly[q] /\ base'[q] = base[q]
           /\ pc[q] = "killing" /\ pc'[q] = "taking"
    <3>1. CASE Exit(p)
      BY <1>0, <3>1 DEF ProcsOK, RowsOK, SavesOK, Same, Exit, Dies, Forgets
    <3>4. CASE NewEnds(p) \/ Fork(p)
      BY <1>0, <3>4 DEF ProcsOK, RowsOK, SavesOK, Same, NewEnds, Fork, Forgets
    <3>2. CASE StealKills(p)
      BY <1>0, <3>2 DEF ProcsOK, RowsOK, SavesOK, Same, StealKills, Dies, Forgets
    <3> QED
      BY <1>5, <3>1, <3>2, <3>4
  <2>2. CASE /\ open'[q] = Own /\ pc'[q] = "idle"
             /\ base'[q] = base[q] \/ base'[q] = [s \in Sessions |-> 0]
    BY <1>3, <2>2
  <2>3. CASE Same(q)
    BY <1>0, <1>2, <2>3, SameUpToDate
  <2>4. CASE /\ q = p /\ open'[q] = open[q] /\ target'[q] = target[q]
             /\ readOnly'[q] = readOnly[q] /\ base'[q] = base[q]
             /\ pc[q] = "killing" /\ pc'[q] = "taking"
    <3>1. Elsewhere(q)'
      BY <2>4 DEF UpToDate, Elsewhere
    <3>2. Latest(q)'
      BY <1>1, <2>4 DEF UpToDate, Latest, NotAhead
    <3> QED
      BY <3>1, <3>2 DEF UpToDate
  <2> QED
    BY <2>1, <2>2, <2>3, <2>4
<1>6. ASSUME NEW q \in Pids,
             \/ Start(p) \/ ProbeEnds(p) \/ Leave(p) \/ Select(p) \/ SelectReadOnly(p)
             \/ StealLooks(p) \/ Signs(p) \/ NewBegins(p)
      PROVE  UpToDate(q)'
  <2>1. /\ open'[q] = open[q] /\ readOnly'[q] = readOnly[q] /\ base'[q] = base[q]
        /\ pc[q] # "loaded"  \/ pc'[q] = "loaded"
        /\ \/ pc'[q] \in {"idle", "closing"}
           \/ Elsewhere(q) => Elsewhere(q)'
    BY <1>0, <1>6 DEF ProcsOK, RowsOK, Elsewhere, Start, ProbeEnds, Leave, Select, SelectReadOnly,
       StealLooks, Signs, NewBegins
  <2> QED
    BY <1>1, <2>1 DEF UpToDate, Elsewhere, Latest, NotAhead
<1> QED
  BY <1>4, <1>5, <1>6

\* A lock is taken, a session loaded or saved.
LEMMA WorkUpToDate ==
  ASSUME IInv, \A q \in Pids : UpToDate(q), NEW p \in Pids,
         StealTakes(p) \/ SwitchLoads(p) \/ SwitchTakes(p) \/ Save(p)
  PROVE  \A q \in Pids : UpToDate(q)'
<1>0. ProcsOK /\ RowsOK /\ LocksOK /\ SavesOK /\ Numbers /\ RowKnown(p)
  BY SavesAreNumbers DEF IInv, TypeOK, Sound
<1>1. ASSUME NEW q \in Pids \ {p} PROVE UpToDate(q)'
  <2>1. Same(q)
    BY <1>0 DEF ProcsOK, RowsOK, SavesOK, Same, StealTakes, SwitchLoads, SwitchTakes, Save
  <2>2. Seen(q)
    <3>1. CASE StealTakes(p) \/ SwitchLoads(p) \/ SwitchTakes(p)
      <4>1. version' = version /\ exposed \subseteq exposed'
        BY <3>1 DEF StealTakes, SwitchLoads, SwitchTakes, Exposes
      <4>2. ASSUME NEW s \in Sessions, <<q, s>> \in active' PROVE <<q, s>> \in active
        <5>1. \A r \in Sessions \cup {Own} : <<q, s>> # <<p, r>>
          BY DEF Sound
        <5>2. \/ active' = active
              \/ \E r \in Sessions \cup {Own} :
                    active' = active \cup {<<p, r>>} \/ active' = active \ {<<p, r>>}
          BY <1>0, <3>1 DEF RowsOK, StealTakes, SwitchLoads, SwitchTakes, Takes, Releases
        <5> QED
          BY <4>2, <5>1, <5>2
      <4> QED
        BY <1>0, <4>1, <4>2 DEF Numbers, Seen
    <3>2. CASE Save(p)
      <4>1. \A s \in Sessions : <<q, s>> \in active => <<p, s>> \notin active
        BY <1>0 DEF LocksOK
      <4> QED
        BY <1>0, <3>2, <4>1 DEF Numbers, Seen, Save
    <3> QED
      BY <3>1, <3>2
  <2> QED
    BY <1>0, <2>1, <2>2, SameUpToDate
<1>2. CASE StealTakes(p)
  <2>1. /\ open' = open /\ readOnly' = readOnly /\ base' = base /\ target' = target
        /\ version' = version /\ exposed' = exposed
        /\ pc[p] = "taking" /\ pc'[p] \in {"signing steal", "switching"}
        /\ target[p] # open[p]
        /\ active' = active \/ active' = active \cup {<<p, target[p]>>}
    BY <1>0, <1>2 DEF ProcsOK, StealTakes, Takes, UpToDate, Elsewhere
  <2>2. UpToDate(p)'
    BY <2>1 DEF UpToDate, Elsewhere, Latest, NotAhead
  <2> QED
    BY <1>1, <2>2
<1>3. CASE SwitchLoads(p)
  <2>1. /\ open'[p] = target[p] /\ target[p] \in Sessions /\ version' = version
        /\ pc'[p] = "loaded" \/ (pc'[p] = "idle" /\ readOnly'[p] = TRUE)
        /\ \/ base' = base
           \/ base' = [base EXCEPT ![p][target[p]] = version[target[p]]]
    BY <1>0, <1>3 DEF ProcsOK, RowsOK, RowKnown, SwitchLoads
  <2>2. Elsewhere(p)'
    BY <2>1 DEF Elsewhere
  <2>3. NotAhead(p)'
    BY <1>0, <2>1 DEF UpToDate, Latest, NotAhead, Numbers
  <2>4. Latest(p)'
    BY <2>1, <2>3 DEF Latest
  <2> QED
    BY <1>1, <2>2, <2>4 DEF UpToDate
<1>4. CASE SwitchTakes(p)
  <2>1. /\ open' = open /\ readOnly' = readOnly /\ base' = base /\ version' = version
        /\ pc'[p] \in {"idle", "signing"} /\ open[p] \in Sessions
        /\ \/ Exposes(p, open[p])
           \/ active' = active /\ <<p, open[p]>> \notin active
    BY <1>0, <1>4 DEF ProcsOK, RowsOK, RowKnown, SwitchTakes
  <2>2. UpToDate(p)'
    BY <1>0, <2>1 DEF UpToDate, Elsewhere, Latest, NotAhead, Exposes
  <2> QED
    BY <1>1, <2>2
<1>5. CASE Save(p)
  <2>1. /\ open' = open /\ pc'[p] \in {"idle", "closing"}
        /\ open[p] \in Sessions
        /\ base'[p] = [base[p] EXCEPT ![open[p]] = version[open[p]] + 1]
        /\ version' = [version EXCEPT ![open[p]] = version[open[p]] + 1]
    BY <1>0, <1>5 DEF Numbers, Save, At
  <2>2. Elsewhere(p)'
    BY <2>1 DEF Elsewhere
  <2>3. NotAhead(p)'
    BY <1>0, <2>1 DEF UpToDate, Latest, NotAhead, Numbers
  <2>4. base'[p][open[p]] = version'[open[p]]
    BY <1>0, <2>1 DEF Numbers
  <2>5. Latest(p)'
    BY <2>1, <2>3, <2>4 DEF Latest
  <2> QED
    BY <1>1, <2>2, <2>5 DEF UpToDate
<1> QED
  BY <1>2, <1>3, <1>4, <1>5

\* Every process stays up to date.
LEMMA UpToDateAlways == Spec => [](\A q \in Pids : UpToDate(q))
<1>1. Init => \A q \in Pids : UpToDate(q)
  BY DEF Init, UpToDate, Elsewhere, Latest, NotAhead
<1>2. IInv /\ (\A q \in Pids : UpToDate(q)) /\ [Next]_vars => (\A q \in Pids : UpToDate(q))'
  <2> SUFFICES ASSUME IInv, \A q \in Pids : UpToDate(q), [Next]_vars
               PROVE  \A q \in Pids : UpToDate(q)'
    OBVIOUS
  <2>1. CASE UNCHANGED vars
    BY <2>1 DEF vars, UpToDate, Elsewhere, Latest, NotAhead
  <2> QED
    BY <2>1, QuietUpToDate, WorkUpToDate DEF Next
<1> QED
  BY <1>1, <1>2, Invariance, PTL DEF Spec

\* A save writes over the version its process has read or saved last, whatever
\* was stolen, probed or killed in between: write_session_data loses nobody's
\* work in a session that was never saved without its lock nor locked with an old
\* version of it.
THEOREM UpdatesAreKept == Spec => UpdatesKept
<1>1. /\ IInv /\ (\A q \in Pids : UpToDate(q)) /\ [Next]_vars
      => [\A p \in Pids, s \in Sessions :
            Saves(p, s) /\ s \notin exposed' => base[p][s] = version[s]]_vars
  <2> SUFFICES ASSUME IInv, \A q \in Pids : UpToDate(q), [Next]_vars,
                      NEW p \in Pids, NEW s \in Sessions, Saves(p, s), s \notin exposed'
               PROVE  base[p][s] = version[s]
    OBVIOUS
  <2>0. Numbers
    BY SavesAreNumbers DEF IInv, TypeOK
  <2>1. PICK q \in Pids : Save(q)
    BY DEF Saves, Next, vars, Start, Exit, Look, ProbeEnds, Leave, Select, SelectReadOnly,
       StealLooks, StealKills, StealTakes, Signs, SwitchLoads, SwitchTakes, Fork, NewBegins, NewEnds
  <2>2. open[q] = s /\ version'[s] = version[s] + 1
    BY <2>0, <2>1 DEF Saves, Numbers, Save
  <2>3. ASSUME q # p PROVE FALSE
    <3>1. open[p] = s /\ base'[p] = base[p] /\ base'[p][s] = version'[s]
      BY <2>0, <2>1, <2>3 DEF Saves, Save, Numbers
    <3>2. base[p][s] <= version[s]
      BY DEF UpToDate, Latest, NotAhead
    <3>3. base[p][s] \in Nat /\ version[s] \in Nat
      BY <2>0 DEF Numbers
    <3> QED
      BY <2>2, <3>1, <3>2, <3>3
  <2>4. <<p, s>> \in active /\ s \notin exposed /\ ~readOnly[p] /\ open[p] = s /\ pc[p] # "loaded"
    BY <2>1, <2>2, <2>3 DEF Save
  <2> QED
    BY <2>4 DEF UpToDate, Latest
<1> QED
  BY <1>1, Invariance, UpToDateAlways, PTL DEF Spec, UpdatesKept

-----------------------------------------------------------------------------
(* Transcripts                                                             *)

Kinds == {"user", "bot", "bot_reset", "thinking", "tool", "error", "interrupted", "compacted"}
Ends == Calls \cup Commands \cup {None, Done, Cancelled}
Messages == [kind : Kinds, call : Calls \cup {None}, end : Ends]
Transcripts == [m : Seq(Messages), p : Nat]

\* A call that shows a result or a cancellation.
IsClosed(msg) == msg.kind = "tool" /\ msg.end # None

\* From t to u no message is lost and no closed call is changed.
Grows(t, u) ==
    /\ Len(t.m) <= Len(u.m)
    /\ \A i \in 1 .. Len(t.m) : IsClosed(t.m[i]) => u.m[i] = t.m[i]

\* From t to u no call is added, changed or lost.
SameCalls(t, u) ==
    /\ u \in Transcripts /\ u.p = t.p
    /\ Len(t.m) <= Len(u.m)
    /\ \A i \in 1 .. Len(t.m) : t.m[i].kind = "tool" => u.m[i] = t.m[i]
    /\ \A i \in 1 .. Len(u.m) : u.m[i].kind = "tool" => i <= Len(t.m) /\ u.m[i] = t.m[i]

\* A call shows nothing, its cancellation or its own result; what is no call shows
\* the result of a "!" command.
Tidy(t) ==
    \A i \in 1 .. Len(t.m) : t.m[i].kind = "tool" =>
        IF t.m[i].call = None
        THEN t.m[i].end \in Commands
        ELSE t.m[i].end \in {None, Cancelled, t.m[i].call}

\* The pointer is at a call or before the result of a "!" command, and no open call
\* is before it.
Behind(t) ==
    /\ \A i \in OpenIn(t) : t.p < i
    /\ \/ t.p = 0
       \/ t.p \in 1 .. Len(t.m) /\ t.m[t.p].kind = "tool"
       \/ t.p \in 1 .. Len(t.m) - 1 /\ t.m[t.p + 1].kind = "tool"

\* What Message makes is a message.
LEMMA MessageType ==
  ASSUME NEW kind \in Kinds, NEW call \in Calls \cup {None}, NEW end \in Ends
  PROVE  /\ Message(kind, call, end) \in Messages
         /\ Message(kind, call, end).kind = kind
         /\ Message(kind, call, end).call = call
         /\ Message(kind, call, end).end = end
  BY DEF Message, Messages

\* Appended leaves what is there and puts the message behind it,
LEMMA AppendedIs ==
  ASSUME NEW t \in Transcripts, NEW msg \in Messages
  PROVE  LET u == Appended(t, msg)
         IN /\ u \in Transcripts /\ u.p = t.p
            /\ Len(u.m) = Len(t.m) + 1
            /\ \A i \in 1 .. Len(t.m) : u.m[i] = t.m[i]
            /\ u.m[Len(t.m) + 1] = msg
  <1> DEFINE m == t.m
  <1>1. m \in Seq(Messages) /\ t.p \in Nat
    BY DEF Transcripts
  <1>2. Append(m, msg) \in Seq(Messages) /\ Len(Append(m, msg)) = Len(m) + 1
    BY <1>1
  <1>3. \A i \in 1 .. Len(m) : Append(m, msg)[i] = m[i]
    BY <1>1
  <1>4. Append(m, msg)[Len(m) + 1] = msg
    BY <1>1
  <1>5. Appended(t, msg).m = Append(m, msg) /\ Appended(t, msg).p = t.p /\ Appended(t, msg) \in Transcripts
    BY <1>1, <1>2 DEF Appended, Transcripts
  <1> QED BY <1>2, <1>3, <1>4, <1>5

\* LastEnds changes the end of the last message and nothing else,
LEMMA LastEndsIs ==
  ASSUME NEW t \in Transcripts, t.m # <<>>, NEW end \in Ends
  PROVE  LET u == LastEnds(t, end)
         IN /\ u \in Transcripts /\ u.p = t.p
            /\ Len(u.m) = Len(t.m) /\ Len(t.m) \in Nat \ {0}
            /\ \A i \in 1 .. Len(t.m) : i # Len(t.m) => u.m[i] = t.m[i]
            /\ u.m[Len(t.m)] = [t.m[Len(t.m)] EXCEPT !.end = end]
            /\ Last(t.m) = t.m[Len(t.m)]
  <1> DEFINE m == t.m
             n == Len(m)
             w == [m EXCEPT ![n] = [m[n] EXCEPT !.end = end]]
  <1>1. m \in Seq(Messages) /\ t.p \in Nat /\ n \in Nat \ {0}
    BY DEF Transcripts
  <1>2. m[n] \in Messages
    BY <1>1
  <1>3. [m[n] EXCEPT !.end = end] \in Messages
    BY <1>2 DEF Messages
  <1>4. w \in Seq(Messages) /\ Len(w) = n
    <2>1. m \in [1 .. n -> Messages]
      BY <1>1
    <2>2. w \in [1 .. n -> Messages]
      BY <1>1, <1>3, <2>1
    <2> QED BY <1>1, <2>2
  <1>5. w[n] = [m[n] EXCEPT !.end = end] /\ \A i \in 1 .. n : i # n => w[i] = m[i]
    BY <1>1
  <1>6. LastEnds(t, end) = [t EXCEPT !.m = w]
    BY DEF LastEnds, Transcripts
  <1>7. LastEnds(t, end).m = w /\ LastEnds(t, end).p = t.p /\ LastEnds(t, end) \in Transcripts
    BY <1>1, <1>4, <1>6 DEF Transcripts
  <1> QED BY <1>1, <1>4, <1>5, <1>7 DEF Last

\* and neither touches a call if the message is not one.
LEMMA AppendedSame ==
  ASSUME NEW t \in Transcripts, NEW msg \in Messages, msg.kind # "tool"
  PROVE  SameCalls(t, Appended(t, msg))
  <1>1. Len(t.m) \in Nat
    BY DEF Transcripts
  <1> QED BY <1>1, AppendedIs DEF SameCalls

\* LastEnds of a message that is no call touches no call.
LEMMA LastEndsSame ==
  ASSUME NEW t \in Transcripts, NEW kind, LastIs(t, kind), kind # "tool", NEW end \in Ends
  PROVE  SameCalls(t, LastEnds(t, end))
  <1>1. t.m # <<>> /\ t.m[Len(t.m)].kind # "tool"
    BY DEF LastIs, Last
  <1> DEFINE u == LastEnds(t, end)
  <1>2. t.m[Len(t.m)] \in Messages
    BY <1>1 DEF Transcripts
  <1>3. u.m[Len(t.m)].kind = t.m[Len(t.m)].kind
    BY <1>1, <1>2, LastEndsIs DEF Messages
  <1> HIDE DEF u
  <1>4. /\ u \in Transcripts /\ u.p = t.p
        /\ Len(u.m) = Len(t.m) /\ Len(t.m) \in Nat \ {0}
        /\ \A i \in 1 .. Len(t.m) : i # Len(t.m) => u.m[i] = t.m[i]
    BY <1>1, LastEndsIs DEF u
  <1>5. SameCalls(t, u)
    BY <1>1, <1>3, <1>4 DEF SameCalls
  <1> QED BY <1>5 DEF u

\* The adds of _add_user, of replies, thoughts and resets, of dividers and errors
\* touch no call.
LEMMA AddsSame ==
  ASSUME NEW t \in Transcripts, NEW end \in {None, Done}
  PROVE  /\ SameCalls(t, AddUser(t))
         /\ SameCalls(t, AddReply(t, end))
         /\ SameCalls(t, AddThought(t, end))
         /\ SameCalls(t, AddReset(t))
         /\ \A text \in {"interrupted", "compacted"} : SameCalls(t, AddDivider(t, text))
         /\ SameCalls(t, Appended(t, Message("error", None, Done)))
  <1>1. /\ end \in Ends /\ Done \in Ends /\ None \in Ends /\ None \in Calls \cup {None}
        /\ {"user", "bot", "bot_reset", "thinking", "error", "interrupted", "compacted"} \subseteq Kinds
    BY DEF Ends, Kinds
  <1>2. \A kind \in Kinds : kind # "tool" =>
          /\ SameCalls(t, Appended(t, Message(kind, None, end)))
          /\ SameCalls(t, Appended(t, Message(kind, None, Done)))
    BY <1>1, MessageType, AppendedSame
  <1>3. \A kind \in Kinds : kind # "tool" /\ LastIs(t, kind) =>
          SameCalls(t, LastEnds(t, end)) /\ SameCalls(t, LastEnds(t, None))
    BY <1>1, LastEndsSame
  <1>4. SameCalls(t, t)
    BY DEF SameCalls, Transcripts
  <1>5. SameCalls(t, AddUser(t)) /\ SameCalls(t, Appended(t, Message("error", None, Done)))
    BY <1>1, <1>2 DEF AddUser
  <1>6. SameCalls(t, AddReply(t, end))
    BY <1>1, <1>2, <1>3 DEF AddReply
  <1>7. SameCalls(t, AddThought(t, end))
    BY <1>1, <1>2, <1>3 DEF AddThought
  <1>8. SameCalls(t, AddReset(t))
    BY <1>1, <1>2, <1>3 DEF AddReset
  <1>9. \A text \in {"interrupted", "compacted"} : SameCalls(t, AddDivider(t, text))
    BY <1>1, <1>2, <1>4 DEF AddDivider
  <1> QED BY <1>5, <1>6, <1>7, <1>8, <1>9

\* What it keeps.
LEMMA SameKeeps ==
  ASSUME NEW t \in Transcripts, NEW u, SameCalls(t, u)
  PROVE  /\ u \in Transcripts
         /\ Grows(t, u)
         /\ OpenIn(u) = OpenIn(t)
         /\ Tidy(t) => Tidy(u)
         /\ Behind(t) => Behind(u)
  <1>1. Len(t.m) \in Nat /\ Len(u.m) \in Nat /\ Len(t.m) <= Len(u.m) /\ u \in Transcripts
    BY DEF SameCalls, Transcripts
  <1>2. Grows(t, u)
    BY <1>1 DEF SameCalls, Grows, IsClosed
  <1>3. OpenIn(u) = OpenIn(t)
    BY <1>1 DEF OpenIn, IsOpen, SameCalls
  <1>4. Tidy(t) => Tidy(u)
    BY <1>1 DEF Tidy, SameCalls
  <1>5. Behind(t) => Behind(u)
    BY <1>1, <1>3 DEF Behind, SameCalls
  <1> QED BY <1>1, <1>2, <1>3, <1>4, <1>5


\* AddCall puts the call at the end, maybe in place of a blank reply;
LEMMA AddCallIs ==
  ASSUME NEW t \in Transcripts, NEW c \in Calls
  PROVE  LET u == AddCall(t, c)
         IN /\ u \in Transcripts /\ u.p = t.p
            /\ Len(u.m) \in 1 .. Len(t.m) + 1 /\ Len(t.m) <= Len(u.m)
            /\ \A i \in 1 .. Len(u.m) - 1 : u.m[i] = t.m[i]
            /\ u.m[Len(u.m)] = Message("tool", c, None)
            /\ Len(u.m) = Len(t.m) => t.m[Len(t.m)].kind = "bot"
  <1> DEFINE msg == Message("tool", c, None)
             blank == LastIs(t, "bot") /\ Last(t.m).end = None
             s == [t EXCEPT !.m = IF blank THEN Front(@) ELSE @]
  <1>1. t.m \in Seq(Messages) /\ t.p \in Nat /\ Len(t.m) \in Nat
    BY DEF Transcripts
  <1>2. msg \in Messages
    BY MessageType DEF Kinds, Ends
  <1>3. AddCall(t, c) = Appended(s, msg)
    BY DEF AddCall
  <1>4. CASE ~ blank
    <2>1. s = t
      BY <1>4 DEF Transcripts
    <2> HIDE DEF s, msg
    <2>2. AddCall(t, c) = Appended(t, msg)
      BY <1>3, <2>1
    <2>3. /\ Appended(t, msg) \in Transcripts /\ Appended(t, msg).p = t.p
          /\ Len(Appended(t, msg).m) = Len(t.m) + 1
          /\ \A i \in 1 .. Len(t.m) : Appended(t, msg).m[i] = t.m[i]
          /\ Appended(t, msg).m[Len(t.m) + 1] = msg
      BY <1>2, AppendedIs
    <2> QED BY <1>1, <2>2, <2>3 DEF msg
  <1>5. CASE blank
    <2>1. t.m # <<>> /\ t.m[Len(t.m)].kind = "bot"
      BY <1>5 DEF LastIs, Last
    <2>2. Len(t.m) >= 1
      BY <1>1, <2>1
    <2> DEFINE front == SubSeq(t.m, 1, Len(t.m) - 1)
    <2>3. /\ front \in Seq(Messages) /\ Len(front) = Len(t.m) - 1
          /\ \A i \in 1 .. Len(t.m) - 1 : front[i] = t.m[i]
      BY <1>1, <2>2
    <2>4. s.m = front /\ s.p = t.p
      BY <1>5 DEF Front, Transcripts
    <2>5. s \in Transcripts
      BY <1>1, <2>3, <2>4 DEF Transcripts
    <2> HIDE DEF s, front, msg
    <2>6. \A i \in 1 .. Len(t.m) - 1 : s.m[i] = t.m[i]
      BY <2>3, <2>4
    <2>7. Len(s.m) = Len(t.m) - 1
      BY <2>3, <2>4
    <2>8. /\ Appended(s, msg) \in Transcripts /\ Appended(s, msg).p = t.p
          /\ Len(Appended(s, msg).m) = Len(t.m)
          /\ \A i \in 1 .. Len(t.m) - 1 : Appended(s, msg).m[i] = s.m[i]
          /\ Appended(s, msg).m[Len(t.m)] = msg
      <3>1. /\ Appended(s, msg) \in Transcripts /\ Appended(s, msg).p = s.p
            /\ Len(Appended(s, msg).m) = Len(s.m) + 1
            /\ \A i \in 1 .. Len(s.m) : Appended(s, msg).m[i] = s.m[i]
            /\ Appended(s, msg).m[Len(s.m) + 1] = msg
        BY <1>2, <2>5, AppendedIs
      <3>2. Len(s.m) + 1 = Len(t.m)
        BY <1>1, <2>7
      <3> QED BY <2>4, <2>7, <3>1, <3>2
    <2>9. \A i \in 1 .. Len(t.m) - 1 : Appended(s, msg).m[i] = t.m[i]
      BY <2>6, <2>8
    <2> QED BY <1>1, <1>3, <2>1, <2>2, <2>8, <2>9 DEF msg
  <1> QED BY <1>4, <1>5

\* the open calls are those there were and it.
LEMMA AddCallKeeps ==
  ASSUME NEW t \in Transcripts, NEW c \in Calls
  PROVE  LET u == AddCall(t, c)
         IN /\ u \in Transcripts
            /\ Grows(t, u)
            /\ OpenIn(u) = OpenIn(t) \cup {Len(u.m)}
            /\ Tidy(t) => Tidy(u)
            /\ Behind(t) => Behind(u)
  <1> DEFINE u == AddCall(t, c)
             n == Len(u.m)
  <1>1. /\ u \in Transcripts /\ u.p = t.p
        /\ n \in 1 .. Len(t.m) + 1 /\ Len(t.m) <= n
        /\ \A i \in 1 .. n - 1 : u.m[i] = t.m[i]
        /\ n = Len(t.m) => t.m[Len(t.m)].kind = "bot"
    BY AddCallIs
  <1>2. u.m[n].kind = "tool" /\ u.m[n].call = c /\ u.m[n].end = None
    BY AddCallIs, MessageType DEF Kinds, Ends
  <1>3. Len(t.m) \in Nat /\ n \in Nat /\ t.p \in Nat
    BY <1>1 DEF Transcripts
  <1> HIDE DEF u
  <1>4. Grows(t, u)
    BY <1>1, <1>3 DEF Grows, IsClosed
  <1>5. OpenIn(u) = OpenIn(t) \cup {n}
    BY <1>1, <1>2, <1>3 DEF OpenIn, IsOpen
  <1>6. Tidy(t) => Tidy(u)
    <2> SUFFICES ASSUME Tidy(t) PROVE Tidy(u)
      OBVIOUS
    <2>1. u.m[n].call # None /\ u.m[n].end = None
      BY <1>2, TranscriptAssumption
    <2>2. ASSUME NEW i \in 1 .. n, u.m[i].kind = "tool"
          PROVE  IF u.m[i].call = None
                 THEN u.m[i].end \in Commands
                 ELSE u.m[i].end \in {None, Cancelled, u.m[i].call}
      <3>1. CASE i = n
        BY <2>1, <3>1
      <3>2. CASE i # n
        <4>1. i \in 1 .. n - 1 /\ i \in 1 .. Len(t.m)
          BY <1>1, <1>3, <3>2
        <4> QED BY <1>1, <2>2, <4>1 DEF Tidy
      <3> QED BY <3>1, <3>2
    <2> QED BY <2>2 DEF Tidy
  <1>7. Behind(t) => Behind(u)
    <2> SUFFICES ASSUME Behind(t) PROVE Behind(u)
      OBVIOUS
    <2>1. \/ t.p = 0
          \/ t.p \in 1 .. n - 1 /\ t.m[t.p].kind = "tool"
          \/ t.p + 1 \in 2 .. n - 1 /\ t.m[t.p + 1].kind = "tool"
      BY <1>1, <1>3 DEF Behind
    <2>2. \/ t.p = 0
          \/ t.p \in 1 .. n - 1 /\ u.m[t.p].kind = "tool"
          \/ t.p \in 1 .. n - 1 /\ u.m[t.p + 1].kind = "tool"
      <3>1. CASE t.p + 1 \in 2 .. n - 1 /\ t.m[t.p + 1].kind = "tool"
        <4>1. t.p + 1 \in 1 .. n - 1 /\ t.p \in 1 .. n - 1
          BY <1>3, <3>1
        <4> QED BY <1>1, <3>1, <4>1
      <3>2. CASE t.p \in 1 .. n - 1 /\ t.m[t.p].kind = "tool"
        BY <1>1, <3>2
      <3> QED BY <2>1, <3>1, <3>2
    <2>3. \A i \in OpenIn(u) : u.p < i
      BY <1>1, <1>3, <1>5, <2>2 DEF Behind
    <2> QED BY <1>1, <1>3, <2>2, <2>3 DEF Behind
  <1> QED BY <1>1, <1>4, <1>5, <1>6, <1>7 DEF u

\* Induction over the natural numbers, as a fact about a set: a number that is
\* missing from it would have a least one beside it, by the well-foundedness of
\* the intervals 1 .. n.
LEMMA SetInduction ==
  ASSUME NEW S, 0 \in S, \A n \in Nat : n \in S => n + 1 \in S
  PROVE  Nat \subseteq S
  <1> DEFINE Missing == Nat \ S
             T == {1 .. n : n \in Missing}
  <1> SUFFICES ASSUME Missing # {} PROVE FALSE
    OBVIOUS
  <1>1. T \subseteq FiniteSubsetsOf(Nat) /\ T # {}
    <2>1. ASSUME NEW n \in Missing PROVE 1 .. n \in SUBSET Nat /\ IsFiniteSet(1 .. n)
      <3>1. n \in Int /\ 1 \in Int
        OBVIOUS
      <3> QED BY <3>1, FS_Interval
    <2> QED BY <2>1 DEF FiniteSubsetsOf
  <1>2. PICK x \in T : \A y \in T : ~ (<<y, x>> \in StrictSubsetOrdering(Nat))
    BY <1>1, FS_StrictSubsetOrderingWellFounded, WFMin
  <1>3. PICK m \in Missing : x = 1 .. m
    BY <1>2
  <1>4. m - 1 \in Missing
    BY <1>3
  <1>5. 1 .. (m - 1) \in T /\ 1 .. (m - 1) \in SUBSET Nat /\ 1 .. m \in SUBSET Nat
    BY <1>4
  <1>6. 1 .. (m - 1) \subseteq 1 .. m /\ m \in 1 .. m /\ m \notin 1 .. (m - 1)
    BY <1>4
  <1>7. <<1 .. (m - 1), 1 .. m>> \in StrictSubsetOrdering(Nat)
    BY <1>5, <1>6 DEF StrictSubsetOrdering
  <1> QED BY <1>2, <1>3, <1>5, <1>7

\* A set of naturals has a least element.
LEMMA Least ==
  ASSUME NEW T \in SUBSET Nat, T # {}
  PROVE  \E k \in T : \A j \in T : k <= j
  <1> SUFFICES ASSUME \A k \in T : \E j \in T : ~ (k <= j) PROVE FALSE
    OBVIOUS
  <1> DEFINE S == {n \in Nat : \A j \in T : n <= j}
  <1>1. 0 \in S
    OBVIOUS
  <1>2. \A n \in Nat : n \in S => n + 1 \in S
    OBVIOUS
  <1> HIDE DEF S
  <1>3. Nat \subseteq S
    BY <1>1, <1>2, SetInduction
  <1>4. PICK k : k \in T
    OBVIOUS
  <1> QED BY <1>3, <1>4 DEF S

Results == Calls \cup Commands \cup {Cancelled}

\* The open calls that AddResult looks at.
Waiting(t) == {i \in OpenIn(t) : i > IF t.p < Len(t.m) THEN t.p ELSE Len(t.m)}

\* What AddResult makes of a transcript: one open call gets the result, or a message is added.
LEMMA AddResultIs ==
  ASSUME NEW t \in Transcripts, NEW r \in Results
  PROVE  LET u == AddResult(t, r)
             waiting == Waiting(t)
         IN /\ u \in Transcripts
            /\ waiting = {} => /\ Len(u.m) = Len(t.m) + 1 /\ u.p = Len(t.m)
                            /\ \A i \in 1 .. Len(t.m) : u.m[i] = t.m[i]
            /\ waiting # {} =>
                 /\ Len(u.m) = Len(t.m) /\ u.p \in waiting
                 /\ \A j \in waiting : u.p <= j
                 /\ u.m[u.p] = [t.m[u.p] EXCEPT !.end = r]
                 /\ \A i \in 1 .. Len(t.m) : i # u.p => u.m[i] = t.m[i]
  <1> DEFINE waiting == Waiting(t)
             i == CHOOSE k \in waiting : \A j \in waiting : k <= j
             n == Len(t.m)
  <1>1. t.m \in Seq(Messages) /\ t.p \in Nat /\ n \in Nat
    BY DEF Transcripts
  <1>2. r \in Ends
    BY DEF Results, Ends
  <1>3. CASE waiting = {}
    <2> DEFINE s == [t EXCEPT !.p = n]
               msg == Message("tool", None, r)
    <2>1. s \in Transcripts /\ s.m = t.m /\ s.p = n
      BY <1>1 DEF Transcripts
    <2>2. msg \in Messages
      BY <1>2, MessageType DEF Kinds
    <2>3. AddResult(t, r) = Appended(s, msg)
      BY <1>3 DEF AddResult, Appended, Waiting
    <2> HIDE DEF s, msg, waiting
    <2>4. /\ AddResult(t, r) \in Transcripts
          /\ Len(AddResult(t, r).m) = n + 1 /\ AddResult(t, r).p = n
          /\ \A j \in 1 .. n : AddResult(t, r).m[j] = t.m[j]
      BY <2>1, <2>2, <2>3, AppendedIs
    <2> QED BY <1>3, <2>4 DEF waiting
  <1>4. CASE waiting # {}
    <2>1. waiting \subseteq 1 .. n
      BY DEF OpenIn, Waiting
    <2>2. i \in waiting /\ \A j \in waiting : i <= j
      <3>1. waiting \in SUBSET Nat
        BY <1>1, <2>1
      <3> HIDE DEF waiting
      <3>2. \E k \in waiting : \A j \in waiting : k <= j
        BY <1>4, <3>1, Least
      <3> QED BY <3>2
    <2> DEFINE w == [t.m EXCEPT ![i] = [t.m[i] EXCEPT !.end = r]]
    <2>3. AddResult(t, r) = [t EXCEPT !.m[i].end = r, !.p = i]
      BY <1>4 DEF AddResult, Waiting
    <2> HIDE DEF i, waiting
    <2>4. i \in 1 .. n /\ i \in Nat
      BY <1>1, <2>1, <2>2
    <2>5. [t.m[i] EXCEPT !.end = r] \in Messages
      <3>1. t.m[i] \in Messages
        BY <1>1, <2>4
      <3> QED BY <1>2, <3>1 DEF Messages
    <2>6. w \in Seq(Messages) /\ Len(w) = n
      <3>1. t.m \in [1 .. n -> Messages]
        BY <1>1
      <3>2. w \in [1 .. n -> Messages]
        BY <2>4, <2>5, <3>1
      <3> QED BY <1>1, <3>2
    <2>7. w[i] = [t.m[i] EXCEPT !.end = r] /\ \A j \in 1 .. n : j # i => w[j] = t.m[j]
      BY <1>1, <2>4
    <2>8. AddResult(t, r) = [m |-> w, p |-> i]
      BY <2>3 DEF Transcripts
    <2>9. AddResult(t, r).m = w /\ AddResult(t, r).p = i /\ AddResult(t, r) \in Transcripts
      BY <2>4, <2>6, <2>8 DEF Transcripts
    <2> HIDE DEF w
    <2> QED BY <1>4, <2>2, <2>6, <2>7, <2>9 DEF waiting
  <1> QED BY <1>3, <1>4

\* A result never changes a call that has one.
LEMMA AddResultGrows ==
  ASSUME NEW t \in Transcripts, NEW r \in Results
  PROVE  AddResult(t, r) \in Transcripts /\ Grows(t, AddResult(t, r))
  <1> DEFINE u == AddResult(t, r)
             waiting == Waiting(t)
  <1>1. Len(t.m) \in Nat
    BY DEF Transcripts
  <1>2. u \in Transcripts
    BY AddResultIs
  <1>3. CASE waiting = {}
    <2>1. waiting = {} => /\ Len(u.m) = Len(t.m) + 1
                          /\ \A i \in 1 .. Len(t.m) : u.m[i] = t.m[i]
      BY AddResultIs
    <2> QED BY <1>1, <1>2, <1>3, <2>1 DEF Grows
  <1>4. CASE waiting # {}
    <2>1. /\ Len(u.m) = Len(t.m) /\ u.p \in waiting
          /\ \A i \in 1 .. Len(t.m) : i # u.p => u.m[i] = t.m[i]
      BY <1>4, AddResultIs
    <2>2. ~ IsClosed(t.m[u.p])
      BY <2>1 DEF OpenIn, IsOpen, IsClosed, Waiting
    <2> QED BY <1>1, <1>2, <2>1, <2>2 DEF Grows
  <1> QED BY <1>3, <1>4

\* With the open calls behind the pointer the first of them gets the result.
LEMMA AddResultCloses ==
  ASSUME NEW t \in Transcripts, NEW r \in Results, Behind(t), OpenIn(t) # {}
  PROVE  LET u == AddResult(t, r)
         IN /\ Len(u.m) = Len(t.m)
            /\ u.p \in OpenIn(t) /\ \A j \in OpenIn(t) : u.p <= j
            /\ OpenIn(u) = OpenIn(t) \ {u.p}
            /\ \A i \in 1 .. Len(t.m) : i # u.p => u.m[i] = t.m[i]
            /\ Behind(u)
            /\ Tidy(t) /\ r \in {Cancelled, t.m[u.p].call} => Tidy(u)
  <1> DEFINE u == AddResult(t, r)
             waiting == Waiting(t)
  <1>1. Len(t.m) \in Nat /\ t.p \in Nat /\ t.m \in Seq(Messages)
    BY DEF Transcripts
  <1>2. waiting = OpenIn(t)
    BY <1>1 DEF OpenIn, Behind, Waiting
  <1>3. /\ Len(u.m) = Len(t.m) /\ u.p \in OpenIn(t)
        /\ \A j \in OpenIn(t) : u.p <= j
        /\ u.m[u.p] = [t.m[u.p] EXCEPT !.end = r]
        /\ \A i \in 1 .. Len(t.m) : i # u.p => u.m[i] = t.m[i]
        /\ u \in Transcripts
    BY <1>2, AddResultIs
  <1>4. u.p \in 1 .. Len(t.m) /\ t.m[u.p].kind = "tool" /\ t.m[u.p] \in Messages
    BY <1>1, <1>3 DEF OpenIn, IsOpen
  <1>5. u.m[u.p].kind = "tool" /\ u.m[u.p].call = t.m[u.p].call /\ u.m[u.p].end = r
    BY <1>3, <1>4 DEF Messages
  <1>6. r # None
    BY TranscriptAssumption DEF Results
  <1> HIDE DEF u
  <1>7. OpenIn(u) = OpenIn(t) \ {u.p}
    <2>1. \A i \in 1 .. Len(t.m) : i # u.p => (IsOpen(u.m[i]) <=> IsOpen(t.m[i]))
      BY <1>3
    <2>2. ~ IsOpen(u.m[u.p])
      BY <1>5, <1>6 DEF IsOpen
    <2> QED BY <1>3, <1>4, <2>1, <2>2 DEF OpenIn
  <1>8. Behind(u)
    <2>1. \A j \in OpenIn(u) : u.p < j
      BY <1>1, <1>3, <1>4, <1>7 DEF OpenIn
    <2> QED BY <1>3, <1>4, <1>5, <2>1 DEF Behind
  <1>9. Tidy(t) /\ r \in {Cancelled, t.m[u.p].call} => Tidy(u)
    <2> SUFFICES ASSUME Tidy(t), r \in {Cancelled, t.m[u.p].call} PROVE Tidy(u)
      OBVIOUS
    <2>1. t.m[u.p].call # None
      <3>1. t.m[u.p].end = None
        BY <1>3 DEF OpenIn, IsOpen
      <3> QED BY <1>4, <3>1, TranscriptAssumption DEF Tidy
    <2> QED BY <1>3, <1>4, <1>5, <2>1 DEF Tidy
  <1> QED BY <1>3, <1>7, <1>8, <1>9 DEF u

\* With no call open the result of a "!" command becomes a message of its own.
LEMMA AddResultAppends ==
  ASSUME NEW t \in Transcripts, NEW k \in Commands, Behind(t), Tidy(t), OpenIn(t) = {}
  PROVE  LET u == AddResult(t, k)
         IN OpenIn(u) = {} /\ Behind(u) /\ Tidy(u)
  <1> DEFINE u == AddResult(t, k)
             waiting == Waiting(t)
             n == Len(t.m)
  <1>1. n \in Nat /\ k \in Results /\ k # None
    BY TranscriptAssumption DEF Transcripts, Results
  <1>2. waiting = {}
    BY DEF Waiting
  <1>3. /\ Len(u.m) = n + 1 /\ u.p = n
        /\ \A i \in 1 .. n : u.m[i] = t.m[i]
        /\ u.m[n + 1] = Message("tool", None, k)
    <2> DEFINE at == [t EXCEPT !.p = n]
               msg == Message("tool", None, k)
    <2>1. at \in Transcripts /\ at.m = t.m /\ at.p = n
      BY <1>1 DEF Transcripts
    <2>2. msg \in Messages
      BY <1>1, MessageType DEF Kinds, Ends
    <2>3. u = Appended(at, msg)
      BY <1>2 DEF AddResult, Appended, Waiting
    <2> HIDE DEF at, msg, u
    <2>4. /\ Len(u.m) = n + 1 /\ u.p = n
          /\ \A i \in 1 .. n : u.m[i] = t.m[i]
          /\ u.m[n + 1] = msg
      BY <2>1, <2>2, <2>3, AppendedIs
    <2> QED BY <2>4 DEF msg
  <1>4. u.m[n + 1].kind = "tool" /\ u.m[n + 1].call = None /\ u.m[n + 1].end = k
    BY <1>3 DEF Message
  <1> HIDE DEF u
  <1>5. OpenIn(u) = {}
    <2>1. ASSUME NEW i \in 1 .. n + 1 PROVE ~ IsOpen(u.m[i])
      <3>1. CASE i = n + 1
        BY <1>1, <1>4, <3>1 DEF IsOpen
      <3>2. CASE i \in 1 .. n
        BY <1>3, <3>2 DEF OpenIn
      <3> QED BY <1>1, <3>1, <3>2
    <2> QED BY <1>3, <2>1 DEF OpenIn
  <1>6. Behind(u)
    BY <1>1, <1>3, <1>4, <1>5 DEF Behind
  <1>7. Tidy(u)
    <2>1. ASSUME NEW i \in 1 .. n + 1, u.m[i].kind = "tool"
          PROVE  IF u.m[i].call = None
                 THEN u.m[i].end \in Commands
                 ELSE u.m[i].end \in {None, Cancelled, u.m[i].call}
      <3>1. CASE i = n + 1
        BY <1>4, <3>1
      <3>2. CASE i \in 1 .. n
        BY <1>3, <2>1, <3>2 DEF Tidy
      <3> QED BY <1>1, <3>1, <3>2
    <2> QED BY <1>3, <2>1 DEF Tidy
  <1> QED BY <1>5, <1>6, <1>7 DEF u


-----------------------------------------------------------------------------
(* An interruption                                                         *)

Good(t) == Tidy(t) /\ Behind(t)

\* u is a transcript that t can become by adding to it.
Follows(t, u) == u \in Transcripts /\ Grows(t, u) /\ (Good(t) => Good(u))

\* It is transitive.
LEMMA FollowsTransitive ==
  ASSUME NEW t \in Transcripts, NEW u, NEW v, Follows(t, u), Follows(u, v)
  PROVE  Follows(t, v)
  <1>1. Len(t.m) \in Nat /\ Len(u.m) \in Nat /\ Len(v.m) \in Nat
    BY DEF Follows, Transcripts
  <1>2. Grows(t, v)
    BY <1>1 DEF Follows, Grows
  <1> QED BY <1>2 DEF Follows

\* The adds that touch no call are such.
LEMMA SameFollows ==
  ASSUME NEW t \in Transcripts, NEW u, SameCalls(t, u)
  PROVE  Follows(t, u)
  BY SameKeeps DEF Follows, Good

Looks == [t : Transcripts, going : BOOLEAN]

\* A step of the fold only adds: it closes an open call, ends a thought or stops.
LEMMA FinalizeFollows ==
  ASSUME NEW acc \in Looks, NEW i \in 1 .. Len(acc.t.m)
  PROVE  Finalize(acc, i) \in Looks /\ Follows(acc.t, Finalize(acc, i).t)
  <1> DEFINE t == acc.t
             msg == t.m[i]
  <1>1. t \in Transcripts /\ acc.going \in BOOLEAN
    BY DEF Looks
  <1>2. SameCalls(t, t)
    BY <1>1 DEF SameCalls, Transcripts
  <1>3. CASE acc.going /\ IsOpen(msg)
    <2>1. Finalize(acc, i) = [acc EXCEPT !.t = AddResult(@, Cancelled)]
      BY <1>3 DEF Finalize, IsOpen
    <2>2. Cancelled \in Results
      BY DEF Results
    <2>3. OpenIn(t) # {}
      BY <1>3 DEF OpenIn
    <2>4. Follows(t, AddResult(t, Cancelled))
      BY <1>1, <2>2, <2>3, AddResultGrows, AddResultCloses DEF Follows, Good
    <2> QED BY <1>1, <2>1, <2>4 DEF Follows, Looks
  <1>4. CASE acc.going /\ ~ IsOpen(msg) /\ msg.kind = "thinking" /\ msg.end = None
    <2>1. Finalize(acc, i) = [acc EXCEPT !.t = AddThought(@, Done)]
      BY <1>4 DEF Finalize, IsOpen
    <2>2. Follows(t, AddThought(t, Done))
      BY <1>1, AddsSame, SameFollows
    <2> QED BY <1>1, <2>1, <2>2 DEF Follows, Looks
  <1>5. CASE ~ acc.going \/ ~ (IsOpen(msg) \/ (msg.kind = "thinking" /\ msg.end = None))
    <2>1. Finalize(acc, i) = acc \/ Finalize(acc, i) = [acc EXCEPT !.going = FALSE]
      BY <1>5 DEF Finalize, IsOpen
    <2>2. Follows(t, t)
      BY <1>1, <1>2, SameFollows
    <2> QED BY <1>1, <2>1, <2>2 DEF Looks
  <1> QED BY <1>1, <1>3, <1>4, <1>5

\* f is what _finalize_open_messages makes of t, after each of n messages.
IsLooked(f, t, n) ==
    f = [k \in 0 .. n |-> IF k = 0 THEN [t |-> t, going |-> TRUE]
                          ELSE Finalize(f[k - 1], Len(t.m) + 1 - k)]

\* There is such a function.
LEMMA LookedExists == ASSUME NEW t, NEW n \in Nat PROVE \E f : IsLooked(f, t, n)
  <1> DEFINE S == {m \in Nat : \E f : IsLooked(f, t, m)}
             first == [t |-> t, going |-> TRUE]
  <1>1. 0 \in S
    <2>1. IsLooked([k \in 0 .. 0 |-> first], t, 0)
      BY DEF IsLooked
    <2> QED BY <2>1
  <1>2. ASSUME NEW m \in Nat, m \in S PROVE m + 1 \in S
    <2>1. PICK f : IsLooked(f, t, m)
      BY <1>2
    <2> DEFINE g == [k \in 0 .. m + 1 |-> IF k = m + 1 THEN Finalize(f[m], Len(t.m) + 1 - k)
                                          ELSE f[k]]
    <2>2. \A k \in 0 .. m + 1 : g[k] = IF k = 0 THEN first
                                       ELSE Finalize(g[k - 1], Len(t.m) + 1 - k)
      <3> TAKE k \in 0 .. m + 1
      <3>1. CASE k = m + 1
        <4>1. k # 0 /\ k - 1 = m /\ m # m + 1 /\ m \in 0 .. m + 1
          BY <3>1
        <4>2. g[k] = Finalize(f[m], Len(t.m) + 1 - k) /\ g[m] = f[m]
          BY <3>1, <4>1
        <4> QED BY <4>1, <4>2
      <3>2. CASE k # m + 1
        <4>1. k \in 0 .. m
          BY <3>2
        <4>2. f[k] = IF k = 0 THEN first ELSE Finalize(f[k - 1], Len(t.m) + 1 - k)
          BY <2>1, <4>1 DEF IsLooked
        <4>3. g[k] = f[k]
          BY <3>2
        <4>4. k # 0 => g[k - 1] = f[k - 1]
          BY <4>1
        <4> QED BY <4>2, <4>3, <4>4
      <3> QED BY <3>1, <3>2
    <2>3. IsLooked(g, t, m + 1)
      BY <2>2 DEF IsLooked
    <2> QED BY <2>3
  <1> HIDE DEF S
  <1>3. n \in S
    BY <1>1, <1>2, SetInduction
  <1> QED BY <1>3 DEF S

\* So what an interruption makes of a transcript follows it.
LEMMA InterruptedFollows ==
  ASSUME NEW t \in Transcripts
  PROVE  Follows(t, Interrupted(t))
  <1> DEFINE n == Len(t.m)
             looked == CHOOSE f : IsLooked(f, t, n)
             S == {k \in Nat : k <= n => looked[k] \in Looks /\ Follows(t, looked[k].t)}
  <1>1. n \in Nat
    BY DEF Transcripts
  <1>2. IsLooked(looked, t, n)
    BY <1>1, LookedExists
  <1>3. Interrupted(t) = AddDivider(looked[n].t, "interrupted")
    BY DEF Interrupted, IsLooked
  <1> HIDE DEF looked
  <1>4. 0 \in S
    <2>1. looked[0] = [t |-> t, going |-> TRUE]
      BY <1>1, <1>2 DEF IsLooked
    <2>2. SameCalls(t, t)
      BY DEF SameCalls, Transcripts
    <2>3. looked[0].t = t /\ looked[0] \in Looks
      BY <2>1 DEF Looks
    <2> QED BY <2>2, <2>3, SameFollows
  <1> HIDE DEF S
  <1>5. ASSUME NEW k \in Nat, k \in S, k + 1 <= n PROVE k + 1 \in S
    <2> DEFINE acc == looked[k]
    <2>1. acc \in Looks /\ Follows(t, acc.t)
      BY <1>1, <1>5 DEF S
    <2>2. looked[k + 1] = Finalize(acc, n - k)
      <3>1. k + 1 \in 0 .. n /\ k + 1 # 0 /\ (k + 1) - 1 = k /\ n + 1 - (k + 1) = n - k
        <4> HIDE DEF n
        <4> QED BY <1>1, <1>5
      <3>2. looked[k + 1] = Finalize(looked[(k + 1) - 1], n + 1 - (k + 1))
        BY <1>2, <3>1 DEF IsLooked
      <3> QED BY <3>1, <3>2
    <2>3. n - k \in 1 .. Len(acc.t.m)
      <3>1. Len(acc.t.m) \in Nat /\ n <= Len(acc.t.m)
        BY <2>1 DEF Looks, Transcripts, Follows, Grows
      <3> QED BY <1>1, <1>5, <3>1
    <2>4. Finalize(acc, n - k) \in Looks /\ Follows(acc.t, Finalize(acc, n - k).t)
      BY <2>1, <2>3, FinalizeFollows
    <2>5. Follows(t, looked[k + 1].t)
      BY <2>1, <2>2, <2>4, FollowsTransitive
    <2> QED BY <2>2, <2>4, <2>5 DEF S
  <1>6. \A k \in Nat : k \in S => k + 1 \in S
    BY <1>1, <1>5 DEF S
  <1>7. n \in S
    BY <1>1, <1>4, <1>6, SetInduction
  <1>8. looked[n].t \in Transcripts /\ Follows(t, looked[n].t)
    BY <1>1, <1>7 DEF S, Looks
  <1>9. Follows(looked[n].t, AddDivider(looked[n].t, "interrupted"))
    BY <1>8, AddsSame, SameFollows
  <1> QED BY <1>3, <1>8, <1>9, FollowsTransitive

-----------------------------------------------------------------------------
(* The inductive invariant                                                 *)

TranscriptType ==
    /\ messages \in Seq(Messages) /\ pointer \in Nat
    /\ phase \in {"idle", "model", "announcing", "running"}
    /\ thinking \in BOOLEAN /\ left \in Nat /\ running \in Seq(Calls)
    /\ torn \in BOOLEAN /\ ahead \in BOOLEAN /\ crossed \in BOOLEAN
    /\ shells \subseteq Commands

PhaseFits == phase \in {"idle", "model"} <=> running = <<>>

\* The open calls are the last messages, and they are the calls of run.
AtEnd(t, run) ==
    LET closed == Len(t.m) - Len(run)
    IN  /\ closed \in Nat
        /\ OpenIn(t) = closed + 1 .. Len(t.m)
        /\ \A k \in 1 .. Len(run) : t.m[closed + k].call = run[k]

CallsInOrder == Sane => Good(Now) /\ AtEnd(Now, running)

TranscriptInv == TranscriptType /\ PhaseFits /\ CallsInOrder

\* The transcript of the state is one.
LEMMA NowType == ASSUME TranscriptType PROVE Now \in Transcripts /\ Now.m = messages /\ Now.p = pointer
  BY DEF TranscriptType, Now, Transcripts

\* A step that makes it u makes it u.
LEMMA BecomesNext ==
  ASSUME NEW u \in Transcripts, Becomes(u)
  PROVE  /\ Now' = u /\ messages' = u.m /\ pointer' = u.p
         /\ messages' \in Seq(Messages) /\ pointer' \in Nat
  BY DEF Becomes, Now, Transcripts

\* The part of the invariant that is about the transcript, of the next state.
LEMMA CallsInOrderNext ==
  ASSUME NEW u, NEW run, Now' = u, running' = run,
         Sane' => Good(u) /\ AtEnd(u, run)
  PROVE  CallsInOrder'
  BY DEF CallsInOrder, Good, Tidy, Behind, AtEnd, OpenIn

\* Nothing runs and nothing is open.
LEMMA AtEndOfNone ==
  ASSUME NEW t \in Transcripts
  PROVE  AtEnd(t, <<>>) <=> OpenIn(t) = {}
  <1>1. Len(t.m) \in Nat
    BY DEF Transcripts
  <1>2. Len(<<>>) = 0 /\ Len(t.m) - 0 = Len(t.m)
    BY <1>1
  <1>3. Len(t.m) + 1 .. Len(t.m) = {} /\ 1 .. 0 = {}
    BY <1>1
  <1> QED BY <1>1, <1>2, <1>3 DEF AtEnd

\* An announced call is open behind those announced before it.
LEMMA AtEndOfOneMore ==
  ASSUME NEW t \in Transcripts, NEW run \in Seq(Calls), NEW c \in Calls, AtEnd(t, run)
  PROVE  AtEnd(AddCall(t, c), Append(run, c))
  <1> DEFINE u == AddCall(t, c)
             n == Len(t.m)
             r == Len(run)
             more == Append(run, c)
  <1>1. n \in Nat /\ r \in Nat /\ n - r \in Nat /\ OpenIn(t) = n - r + 1 .. n
    BY DEF Transcripts, AtEnd
  <1>2. /\ Len(u.m) \in 1 .. n + 1 /\ n <= Len(u.m)
        /\ \A i \in 1 .. Len(u.m) - 1 : u.m[i] = t.m[i]
        /\ u.m[Len(u.m)] = Message("tool", c, None)
        /\ Len(u.m) = n => t.m[n].kind = "bot"
    BY AddCallIs
  <1>3. OpenIn(u) = OpenIn(t) \cup {Len(u.m)}
    BY AddCallKeeps
  <1>4. /\ Len(more) = r + 1 /\ more[r + 1] = c
        /\ \A k \in 1 .. r : more[k] = run[k]
    BY <1>1
  <1>5. u.m[Len(u.m)].call = c
    BY <1>2 DEF Message
  <1>6. \A k \in 1 .. r : t.m[n - r + k].call = run[k]
    BY DEF AtEnd
  <1>7. CASE Len(u.m) = n
    <2>1. n \notin OpenIn(t)
      BY <1>2, <1>7 DEF OpenIn, IsOpen
    <2>2. r = 0
      BY <1>1, <2>1
    <2> HIDE DEF u, more
    <2>3. Len(u.m) - Len(more) = n - 1 /\ n - 1 \in Nat
      BY <1>1, <1>2, <1>4, <1>7, <2>2
    <2>4. OpenIn(u) = n - 1 + 1 .. n
      BY <1>1, <1>3, <1>7, <2>2
    <2>5. \A k \in 1 .. 1 : u.m[n - 1 + k].call = more[k]
      BY <1>1, <1>4, <1>5, <1>7, <2>2
    <2>6. 1 .. Len(more) = 1 .. 1
      BY <1>4, <2>2
    <2>7. AtEnd(u, more)
      BY <1>7, <2>3, <2>4, <2>5, <2>6 DEF AtEnd
    <2> QED BY <2>7 DEF u, more
  <1>8. CASE Len(u.m) = n + 1
    <2> HIDE DEF u, more
    <2>1. OpenIn(u) = n - r + 1 .. n + 1
      BY <1>1, <1>3, <1>8
    <2>2. \A k \in 1 .. r + 1 : u.m[n - r + k].call = more[k]
      <3> TAKE k \in 1 .. r + 1
      <3>1. CASE k = r + 1
        <4>1. n - r + k = n + 1
          <5> HIDE DEF n, r
          <5> QED BY <1>1, <3>1
        <4> QED BY <1>4, <1>5, <1>8, <3>1, <4>1
      <3>2. CASE k \in 1 .. r
        <4>1. n - r + k \in 1 .. Len(u.m) - 1
          BY <1>1, <1>8, <3>2
        <4> QED BY <1>2, <1>4, <1>6, <3>2, <4>1
      <3> QED BY <1>1, <3>1, <3>2
    <2>3. Len(u.m) - Len(more) = n - r
      BY <1>1, <1>4, <1>8
    <2>4. n - r \in Nat /\ 1 .. Len(more) = 1 .. r + 1
      BY <1>1, <1>4
    <2>5. AtEnd(u, more)
      BY <1>8, <2>1, <2>2, <2>3, <2>4 DEF AtEnd
    <2> QED BY <2>5 DEF u, more
  <1>9. Len(u.m) = n \/ Len(u.m) = n + 1
    <2> HIDE DEF u, n
    <2> QED BY <1>1, <1>2
  <1> QED BY <1>7, <1>8, <1>9

\* The first running call is the one that gets the result.
LEMMA AtEndOfOneLess ==
  ASSUME NEW t \in Transcripts, NEW run \in Seq(Calls), run # <<>>, Good(t), AtEnd(t, run)
  PROVE  LET u == AddResult(t, Head(run))
         IN Good(u) /\ AtEnd(u, Tail(run))
  <1> DEFINE u == AddResult(t, Head(run))
             n == Len(t.m)
             r == Len(run)
             rest == Tail(run)
  <1>1. n \in Nat /\ r \in Nat \ {0} /\ n - r \in Nat /\ OpenIn(t) = n - r + 1 .. n
    BY DEF Transcripts, AtEnd
  <1>2. Head(run) \in Results /\ Head(run) = run[1]
    BY DEF Results
  <1>3. n - r + 1 \in OpenIn(t) /\ t.m[n - r + 1].call = run[1]
    BY <1>1 DEF AtEnd
  <1>4. /\ Len(u.m) = n
        /\ u.p \in OpenIn(t) /\ \A j \in OpenIn(t) : u.p <= j
        /\ OpenIn(u) = OpenIn(t) \ {u.p}
        /\ \A i \in 1 .. n : i # u.p => u.m[i] = t.m[i]
        /\ Behind(u)
        /\ Tidy(t) /\ Head(run) \in {Cancelled, t.m[u.p].call} => Tidy(u)
    BY <1>2, <1>3, AddResultCloses DEF Good
  <1>5. /\ rest \in Seq(Calls) /\ Len(rest) = r - 1
        /\ \A k \in 1 .. r - 1 : rest[k] = run[k + 1]
    BY <1>1
  <1> HIDE DEF u, rest
  <1>6. u.p = n - r + 1
    BY <1>1, <1>3, <1>4
  <1>7. Good(u)
    BY <1>2, <1>3, <1>4, <1>6 DEF Good
  <1>8. OpenIn(u) = n - (r - 1) + 1 .. n
    BY <1>1, <1>4, <1>6
  <1>9. \A k \in 1 .. r - 1 : u.m[n - (r - 1) + k].call = rest[k]
    <2> TAKE k \in 1 .. r - 1
    <2>1. n - (r - 1) + k \in 1 .. n /\ n - (r - 1) + k # u.p /\ n - (r - 1) + k = n - r + (k + 1)
      <3> HIDE DEF n, r
      <3> QED BY <1>1, <1>6
    <2>2. k + 1 \in 1 .. r
      BY <1>1
    <2>3. t.m[n - r + (k + 1)].call = run[k + 1]
      BY <2>2 DEF AtEnd
    <2> QED BY <1>4, <1>5, <2>1, <2>3
  <1>10. AtEnd(u, rest)
    BY <1>1, <1>4, <1>5, <1>8, <1>9 DEF AtEnd
  <1> QED BY <1>7, <1>10 DEF u, rest


-----------------------------------------------------------------------------
(* Steps                                                                   *)

\* What a step does to calls that show an end.
Stays ==
    \A i \in DOMAIN messages :
       messages[i].kind = "tool" /\ messages[i].end # None =>
          i > Len(messages') \/ messages'[i] = messages[i]

\* A step that only adds changes no call that shows an end.
LEMMA GrowthStays ==
  ASSUME TranscriptType, NEW u, Becomes(u), Grows(Now, u)
  PROVE  Stays
  <1>1. messages' = u.m /\ Now.m = messages /\ DOMAIN messages = 1 .. Len(messages)
    BY NowType DEF Becomes, TranscriptType
  <1> QED BY <1>1 DEF Stays, Grows, IsClosed

\* A step that only adds to the transcript, no call and no result.
LEMMA QuietStep ==
  ASSUME TranscriptInv, NEW u, SameCalls(Now, u), Becomes(u), running = <<>>,
         UNCHANGED <<running, history>>
  PROVE  CallsInOrder' /\ messages' \in Seq(Messages) /\ pointer' \in Nat /\ Stays
  <1>1. Now \in Transcripts /\ TranscriptType
    BY NowType DEF TranscriptInv
  <1>2. u \in Transcripts /\ Grows(Now, u) /\ OpenIn(u) = OpenIn(Now) /\ (Good(Now) => Good(u))
    BY <1>1, SameKeeps DEF Good
  <1>3. Sane' <=> Sane
    BY DEF Sane, history
  <1>4. Sane' => Good(u) /\ AtEnd(u, <<>>)
    BY <1>1, <1>2, <1>3, AtEndOfNone DEF TranscriptInv, CallsInOrder
  <1>5. Now' = u /\ running' = <<>>
    BY <1>2, BecomesNext
  <1>6. CallsInOrder'
    BY <1>4, <1>5, CallsInOrderNext
  <1> QED BY <1>1, <1>2, <1>6, BecomesNext, GrowthStays

\* A step that leaves the messages alone, and the pointer or no pointer is left.
LEMMA StillStep ==
  ASSUME TranscriptInv, UNCHANGED <<messages, running, history>>, pointer' \in {0, pointer}
  PROVE  CallsInOrder' /\ Stays
  <1> DEFINE u == [m |-> messages, p |-> pointer']
  <1>1. Now \in Transcripts /\ Now.m = messages /\ Now.p = pointer
    BY NowType DEF TranscriptInv
  <1>2. Now' = u /\ u.m = messages /\ u.p \in {0, pointer}
    BY DEF Now
  <1> HIDE DEF u
  <1>3. OpenIn(u) = OpenIn(Now) /\ OpenIn(u) \subseteq 1 .. Len(messages)
    BY <1>1, <1>2 DEF OpenIn
  <1>4. Good(Now) => Good(u)
    BY <1>1, <1>2, <1>3 DEF Good, Tidy, Behind
  <1>5. AtEnd(Now, running) => AtEnd(u, running)
    BY <1>1, <1>2, <1>3 DEF AtEnd
  <1>6. Sane' => Sane
    BY DEF Sane, history
  <1>7. CallsInOrder'
    BY <1>2, <1>4, <1>5, <1>6, CallsInOrderNext DEF TranscriptInv, CallsInOrder
  <1>8. Stays
    BY DEF Stays
  <1> QED BY <1>7, <1>8

\* A call that is announced is the last that runs and the last that is open.
LEMMA AnnounceStep ==
  ASSUME TranscriptInv, NEW c \in Calls, NEW n \in 0 .. MaxBatch - 1, Announce(c, n)
  PROVE  TranscriptInv' /\ Stays
  <1> DEFINE u == AddCall(Now, c)
  <1>1. Now \in Transcripts /\ TranscriptType
    BY NowType DEF TranscriptInv
  <1>2. Becomes(u) /\ running' = Append(running, c) /\ UNCHANGED <<thinking, shells, torn, ahead, crossed>>
    BY DEF Announce, history
  <1>3. running' \in Seq(Calls) /\ running' # <<>>
    BY <1>1, <1>2 DEF TranscriptType
  <1>4. u \in Transcripts /\ Grows(Now, u) /\ (Good(Now) => Good(u))
    BY <1>1, AddCallKeeps DEF Good
  <1>5. AtEnd(Now, running) => AtEnd(u, Append(running, c))
    BY <1>1, AtEndOfOneMore DEF TranscriptType
  <1> HIDE DEF u
  <1>6. messages' \in Seq(Messages) /\ pointer' \in Nat /\ Now' = u
    BY <1>2, <1>4, BecomesNext
  <1>7. CallsInOrder'
    <2>1. Sane' => Sane
      BY <1>2 DEF Sane
    <2> QED BY <1>2, <1>4, <1>5, <1>6, <2>1, CallsInOrderNext DEF TranscriptInv, CallsInOrder
  <1>8. phase' \in {"running", "announcing"} /\ left' \in Nat
    BY TranscriptAssumption DEF Announce
  <1>9. TranscriptType' /\ PhaseFits'
    BY <1>1, <1>2, <1>3, <1>6, <1>8 DEF TranscriptType, PhaseFits
  <1> QED BY <1>1, <1>2, <1>4, <1>7, <1>9, GrowthStays DEF TranscriptInv

\* A result closes the first open call, which is the first that runs.
LEMMA ResultStep ==
  ASSUME TranscriptInv, Result
  PROVE  TranscriptInv' /\ Stays
  <1> DEFINE u == AddResult(Now, Head(running))
  <1>1. Now \in Transcripts /\ TranscriptType
    BY NowType DEF TranscriptInv
  <1>2. /\ Becomes(u) /\ running' = Tail(running)
        /\ UNCHANGED <<thinking, left, shells, torn, ahead, crossed>>
        /\ phase' = IF Len(running) = 1 THEN "model" ELSE "running"
    BY DEF Result, history
  <1>3. running \in Seq(Calls) /\ running # <<>>
    BY DEF Result, TranscriptInv, TranscriptType, PhaseFits
  <1>4. Head(running) \in Results
    BY <1>3 DEF Results
  <1>5. u \in Transcripts /\ Grows(Now, u)
    BY <1>1, <1>4, AddResultGrows
  <1>6. Good(Now) /\ AtEnd(Now, running) => Good(u) /\ AtEnd(u, Tail(running))
    BY <1>1, <1>3, AtEndOfOneLess
  <1> HIDE DEF u
  <1>7. messages' \in Seq(Messages) /\ pointer' \in Nat /\ Now' = u
    BY <1>2, <1>5, BecomesNext
  <1>8. CallsInOrder'
    <2>1. Sane' => Sane
      BY <1>2 DEF Sane
    <2> QED BY <1>2, <1>6, <1>7, <2>1, CallsInOrderNext DEF TranscriptInv, CallsInOrder
  <1>9. PhaseFits' /\ running' \in Seq(Calls)
    <2>1. /\ Tail(running) \in Seq(Calls)
          /\ Len(running) = 1 => Tail(running) = <<>>
          /\ Len(running) # 1 => Tail(running) # <<>>
      <3>1. Len(running) \in Nat /\ Len(running) # 0
        BY <1>3
      <3>2. Tail(running) \in Seq(Calls) /\ Len(Tail(running)) = Len(running) - 1
        BY <1>3
      <3>3. \A s \in Seq(Calls) : Len(s) = 0 <=> s = <<>>
        OBVIOUS
      <3>4. Len(Tail(running)) = 0 <=> Tail(running) = <<>>
        BY <3>2, <3>3
      <3>5. Len(Tail(running)) = 0 <=> Len(running) = 1
        BY <3>1, <3>2
      <3> QED BY <3>2, <3>4, <3>5
    <2>2. CASE Len(running) = 1
      BY <1>2, <2>1, <2>2 DEF PhaseFits
    <2>3. CASE Len(running) # 1
      BY <1>2, <2>1, <2>3 DEF PhaseFits
    <2> QED BY <1>2, <2>1, <2>2, <2>3
  <1>10. TranscriptType'
    BY <1>1, <1>2, <1>7, <1>9 DEF TranscriptType
  <1> QED BY <1>1, <1>2, <1>5, <1>8, <1>9, <1>10, GrowthStays DEF TranscriptInv

\* After an interruption nothing runs; if a call is open the history says so.
LEMMA InterruptStep ==
  ASSUME TranscriptInv, Interrupt
  PROVE  TranscriptInv' /\ Stays
  <1> DEFINE u == Interrupted(Now)
  <1>1. Now \in Transcripts /\ TranscriptType
    BY NowType DEF TranscriptInv
  <1>2. /\ Becomes(u) /\ running' = <<>> /\ phase' = "idle"
        /\ thinking' = FALSE /\ left' = 0 /\ UNCHANGED <<shells, ahead, crossed>>
        /\ torn' = (torn \/ \E i \in DOMAIN messages' : IsOpen(messages'[i]))
    BY DEF Interrupt
  <1>3. Follows(Now, u)
    BY <1>1, InterruptedFollows
  <1> HIDE DEF u
  <1>4. u \in Transcripts /\ Grows(Now, u) /\ (Good(Now) => Good(u))
    BY <1>3 DEF Follows
  <1>5. messages' \in Seq(Messages) /\ pointer' \in Nat /\ Now' = u /\ messages' = u.m
    BY <1>2, <1>4, BecomesNext
  <1>6. Sane' => Sane /\ OpenIn(u) = {}
    <2>1. DOMAIN messages' = 1 .. Len(u.m)
      BY <1>5
    <2> QED BY <1>2, <1>5, <2>1 DEF Sane, OpenIn
  <1>7. CallsInOrder'
    <2>1. Sane' => Good(u) /\ AtEnd(u, <<>>)
      BY <1>4, <1>6, AtEndOfNone DEF TranscriptInv, CallsInOrder
    <2> QED BY <1>2, <1>5, <2>1, CallsInOrderNext
  <1>8. torn' \in BOOLEAN
    BY <1>1, <1>2 DEF TranscriptType
  <1>9. TranscriptType' /\ PhaseFits'
    <2>1. PhaseFits'
      BY <1>2 DEF PhaseFits
    <2>2. <<>> \in Seq(Calls) /\ FALSE \in BOOLEAN /\ 0 \in Nat
      OBVIOUS
    <2> QED BY <1>1, <1>2, <1>5, <1>8, <2>1, <2>2 DEF TranscriptType
  <1> QED BY <1>1, <1>2, <1>4, <1>7, <1>9, GrowthStays DEF TranscriptInv

\* The result of a "!" command: to a message of its own, or the history says so.
LEMMA ShellEndsStep ==
  ASSUME TranscriptInv, NEW k \in Commands, ShellEnds(k)
  PROVE  TranscriptInv' /\ Stays
  <1> DEFINE u == AddResult(Now, k)
             waiting == Waiting(Now)
  <1>1. Now \in Transcripts /\ TranscriptType /\ Now.m = messages /\ Now.p = pointer
    BY NowType DEF TranscriptInv
  <1>2. /\ Becomes(u) /\ UNCHANGED <<phase, thinking, left, running, torn, ahead>>
        /\ shells' = shells \ {k}
        /\ crossed' = (crossed \/ Len(messages') = Len(messages))
    BY DEF ShellEnds, turn
  <1>3. k \in Results
    BY DEF Results
  <1>4. u \in Transcripts /\ Grows(Now, u)
    BY <1>1, <1>3, AddResultGrows
  <1>5. messages' \in Seq(Messages) /\ pointer' \in Nat /\ Now' = u /\ messages' = u.m
    BY <1>2, <1>4, BecomesNext
  <1>6. waiting # {} => Len(u.m) = Len(messages)
    BY <1>1, <1>3, AddResultIs
  <1>7. ASSUME Sane' PROVE Good(u) /\ AtEnd(u, running)
    <2>1. Sane /\ Len(messages') # Len(messages)
      BY <1>2, <1>7 DEF Sane
    <2>2. Good(Now) /\ AtEnd(Now, running)
      BY <2>1 DEF TranscriptInv, CallsInOrder
    <2>3. waiting = {}
      BY <1>5, <1>6, <2>1
    <2>4. OpenIn(Now) = {}
      <3>1. Len(messages) \in Nat /\ pointer \in Nat
        BY <1>1 DEF TranscriptType
      <3>2. \A i \in OpenIn(Now) : Now.p < i /\ i <= Len(Now.m) /\ i \in Nat
        BY <1>1, <2>2 DEF Good, Behind, OpenIn
      <3> QED BY <1>1, <2>3, <3>1, <3>2 DEF Waiting
    <2>5. OpenIn(u) = {} /\ Good(u)
      BY <1>1, <2>2, <2>4, AddResultAppends DEF Good
    <2>6. running = <<>>
      <3>1. Len(Now.m) \in Nat /\ Len(running) \in Nat /\ running \in Seq(Calls)
        BY <1>1 DEF TranscriptType
      <3>2. /\ Len(Now.m) - Len(running) \in Nat
            /\ OpenIn(Now) = Len(Now.m) - Len(running) + 1 .. Len(Now.m)
        BY <2>2 DEF AtEnd
      <3>3. Len(running) = 0
        <4>1. Len(Now.m) \notin Len(Now.m) - Len(running) + 1 .. Len(Now.m)
          BY <2>4, <3>2
        <4> QED BY ONLY <3>1, <4>1
      <3> QED BY <3>1, <3>3
    <2> QED BY <1>4, <2>5, <2>6, AtEndOfNone
  <1> HIDE DEF u
  <1>8. CallsInOrder'
    BY <1>2, <1>5, <1>7, CallsInOrderNext
  <1>9. TranscriptType' /\ PhaseFits'
    BY <1>1, <1>2, <1>5 DEF TranscriptInv, TranscriptType, PhaseFits
  <1> QED BY <1>1, <1>2, <1>4, <1>8, <1>9, GrowthStays DEF TranscriptInv

\* A rewind cuts the messages from some place on.
LEMMA RewindStep ==
  ASSUME TranscriptInv, NEW i, Rewind(i)
  PROVE  TranscriptInv' /\ Stays
  <1>1. Now \in Transcripts /\ TranscriptType /\ Now.m = messages /\ Now.p = pointer
    BY NowType DEF TranscriptInv
  <1>2. /\ phase = "idle" /\ i \in 1 .. Len(messages)
        /\ messages[i].kind = "user"
        /\ messages' = SubSeq(messages, 1, i - 1) \/ messages' = <<>>
        /\ ahead' = (ahead \/ pointer > Len(messages'))
        /\ UNCHANGED <<pointer, phase, thinking, left, running, shells, torn, crossed>>
    BY <1>1 DEF Rewind, Users, turn, TranscriptType
  <1>3. /\ messages' \in Seq(Messages) /\ Len(messages') <= Len(messages)
        /\ \A j \in 1 .. Len(messages') : messages'[j] = messages[j]
    <2>1. CASE messages' = SubSeq(messages, 1, i - 1)
      BY <1>1, <1>2, <2>1 DEF TranscriptType
    <2>2. CASE messages' = <<>>
      BY <1>1, <2>2 DEF TranscriptType
    <2> QED BY <1>2, <2>1, <2>2
  <1>4. running = <<>>
    BY <1>2 DEF TranscriptInv, PhaseFits
  <1> DEFINE u == [m |-> messages', p |-> pointer]
  <1>5. Now' = u /\ u \in Transcripts /\ u.m = messages' /\ u.p = pointer
    BY <1>1, <1>2, <1>3 DEF Now, Transcripts, TranscriptType
  <1> HIDE DEF u
  <1>6. Len(messages) \in Nat /\ Len(messages') \in Nat /\ pointer \in Nat
    BY <1>1, <1>3 DEF TranscriptType
  <1>7. Sane' => Sane /\ pointer <= Len(messages')
    <2>1. ~ ahead' => ~ ahead /\ ~ (pointer > Len(messages'))
      BY <1>2, Zenon
    <2>2. ~ (pointer > Len(messages')) => pointer <= Len(messages')
      BY <1>6
    <2> QED BY <1>2, <2>1, <2>2 DEF Sane
  <1>8. OpenIn(u) \subseteq OpenIn(Now)
    BY <1>1, <1>3, <1>5, <1>6 DEF OpenIn
  <1>9. Good(Now) /\ pointer <= Len(messages') => Good(u)
    <2> SUFFICES ASSUME Good(Now), pointer <= Len(messages') PROVE Good(u)
      OBVIOUS
    <2>1. Tidy(u) /\ \A k \in OpenIn(u) : u.p < k
      BY <1>1, <1>3, <1>5, <1>6, <1>8 DEF Good, Tidy, Behind
    <2>2. pointer # 0 /\ pointer = Len(messages') => messages[pointer + 1].kind # "tool"
      BY <1>2, <1>6 DEF Users
    <2>3. \/ pointer = 0
          \/ pointer \in 1 .. Len(messages) /\ messages[pointer].kind = "tool"
          \/ pointer \in 1 .. Len(messages) - 1 /\ messages[pointer + 1].kind = "tool"
      BY <1>1 DEF Good, Behind
    <2>4. \/ pointer = 0
          \/ pointer \in 1 .. Len(messages') /\ messages'[pointer].kind = "tool"
          \/ pointer \in 1 .. Len(messages') - 1 /\ messages'[pointer + 1].kind = "tool"
      <3>1. CASE pointer = 0
        BY <3>1
      <3>2. CASE pointer \in 1 .. Len(messages) /\ messages[pointer].kind = "tool"
        <4>1. pointer \in 1 .. Len(messages')
          BY <1>6, <3>2
        <4> QED BY <1>3, <3>2, <4>1
      <3>3. CASE pointer \in 1 .. Len(messages) - 1 /\ messages[pointer + 1].kind = "tool"
        <4>1. pointer \in 1 .. Len(messages') - 1 /\ pointer + 1 \in 1 .. Len(messages')
          BY <1>6, <2>2, <3>3
        <4> QED BY <1>3, <3>3, <4>1
      <3> QED BY <2>3, <3>1, <3>2, <3>3
    <2> QED BY <1>5, <2>1, <2>4 DEF Good, Behind
  <1>10. Sane' => Good(u) /\ AtEnd(u, <<>>)
    BY <1>1, <1>4, <1>5, <1>7, <1>8, <1>9, AtEndOfNone DEF TranscriptInv, CallsInOrder
  <1>11. CallsInOrder'
    BY <1>2, <1>4, <1>5, <1>10, CallsInOrderNext
  <1>12. TranscriptType' /\ PhaseFits'
    BY <1>1, <1>2, <1>3 DEF TranscriptInv, TranscriptType, PhaseFits
  <1>13. Stays
    BY <1>1, <1>3, <1>6 DEF Stays, TranscriptType
  <1> QED BY <1>11, <1>12, <1>13 DEF TranscriptInv

\* Every step keeps the invariant and the calls that show an end.
LEMMA TranscriptStep ==
  ASSUME TranscriptInv, [TranscriptNext]_transcriptVars
  PROVE  TranscriptInv' /\ Stays
  <1>1. Now \in Transcripts /\ TranscriptType /\ PhaseFits
    BY NowType DEF TranscriptInv
  <1> DEFINE Settles == TranscriptInv' /\ Stays
  <1> SUFFICES Settles
    OBVIOUS
  <1>2. ASSUME NEW u, SameCalls(Now, u), Becomes(u), phase \in {"idle", "model"},
               phase' \in {"idle", "model"}, thinking' \in BOOLEAN,
               shells' \subseteq Commands,
               UNCHANGED <<left, running, history>>
        PROVE  Settles
    <2>1. running = <<>>
      BY <1>1, <1>2 DEF PhaseFits
    <2>2. CallsInOrder' /\ messages' \in Seq(Messages) /\ pointer' \in Nat /\ Stays
      BY <1>2, <2>1, QuietStep
    <2>3. TranscriptType' /\ PhaseFits'
      BY <1>1, <1>2, <2>1, <2>2 DEF TranscriptType, PhaseFits, history
    <2> QED BY <2>2, <2>3 DEF TranscriptInv
  <1>3. ASSUME UNCHANGED <<messages, left, running, history>>, pointer' \in {0, pointer},
               phase' \in {"idle", "model"} <=> phase \in {"idle", "model"},
               phase' \in {phase, "idle"}, thinking' = thinking,
               shells' \subseteq Commands
        PROVE  Settles
    <2>1. CallsInOrder' /\ Stays
      BY <1>3, StillStep
    <2>2. TranscriptType' /\ PhaseFits'
      BY <1>1, <1>3 DEF TranscriptType, PhaseFits, history
    <2> QED BY <2>1, <2>2 DEF TranscriptInv
  <1> HIDE DEF Settles
  <1>a. /\ SameCalls(Now, AddUser(Now)) /\ SameCalls(Now, AddReset(Now))
        /\ SameCalls(Now, AddDivider(Now, "compacted"))
        /\ SameCalls(Now, Appended(Now, Message("error", None, Done)))
    <2>1. None \in {None, Done}
      OBVIOUS
    <2> QED BY <1>1, <2>1, AddsSame
  <1>b. thinking \in BOOLEAN /\ FALSE \in BOOLEAN /\ shells \subseteq Commands
    BY <1>1 DEF TranscriptType
  <1>4. CASE Submit
    BY <1>a, <1>b, <1>2, <1>4 DEF Submit
  <1>5. ASSUME NEW end \in {None, Done}, Think(end) PROVE Settles
    BY <1>1, <1>b, <1>2, <1>5, AddsSame DEF Think
  <1>6. ASSUME NEW end \in {None, Done}, Speak(end) PROVE Settles
    BY <1>1, <1>b, <1>2, <1>6, AddsSame DEF Speak, TranscriptType, turn
  <1>7. CASE Reset
    BY <1>a, <1>b, <1>2, <1>7 DEF Reset, turn
  <1>8. CASE Queued
    BY <1>a, <1>b, <1>2, <1>8 DEF Queued, turn
  <1>9. CASE Fails
    BY <1>a, <1>b, <1>2, <1>9 DEF Fails
  <1>10. CASE Compact
    BY <1>a, <1>b, <1>2, <1>10 DEF Compact, turn
  <1>11. CASE TurnEnds
    BY <1>b, <1>3, <1>11 DEF TurnEnds, transcript
  <1>12. CASE Reload
    BY <1>3, <1>12 DEF Reload, turn
  <1>13. CASE UNCHANGED transcriptVars
    BY <1>b, <1>3, <1>13 DEF transcriptVars, transcript, turn
  <1>14. CASE Interrupt
    BY <1>14, InterruptStep DEF Settles
  <1>15. CASE Result
    BY <1>15, ResultStep DEF Settles
  <1>16. ASSUME NEW c \in Calls, NEW n \in 0 .. MaxBatch - 1, Announce(c, n) PROVE Settles
    BY <1>16, AnnounceStep DEF Settles
  <1>17. ASSUME NEW i \in 1 .. MaxLen, Rewind(i) PROVE Settles
    BY <1>17, RewindStep DEF Settles
  <1>18. ASSUME NEW k \in Commands, ShellStart(k) PROVE Settles
    BY <1>a, <1>b, <1>2, <1>18 DEF ShellStart, turn
  <1>19. ASSUME NEW k \in Commands, ShellEnds(k) PROVE Settles
    BY <1>19, ShellEndsStep DEF Settles
  <1> QED
    BY <1>4, <1>5, <1>6, <1>7, <1>8, <1>9, <1>10, <1>11, <1>12, <1>13, <1>14, <1>15, <1>16,
       <1>17, <1>18, <1>19 DEF TranscriptNext

\* It holds of a new session.
LEMMA TranscriptStarts == TranscriptInit => TranscriptInv
  <1> SUFFICES ASSUME TranscriptInit PROVE TranscriptInv
    OBVIOUS
  <1>1. TranscriptType
    <2>1. <<>> \in Seq(Calls) /\ <<>> \in Seq(Messages) /\ FALSE \in BOOLEAN /\ 0 \in Nat
      OBVIOUS
    <2> QED BY <2>1 DEF TranscriptInit, TranscriptType
  <1>2. PhaseFits
    BY DEF TranscriptInit, PhaseFits
  <1>3. Now \in Transcripts /\ Now.m = <<>> /\ Now.p = 0 /\ running = <<>>
    BY <1>1, NowType DEF TranscriptInit
  <1>4. Len(Now.m) = 0 /\ OpenIn(Now) = {}
    BY <1>3 DEF OpenIn
  <1>5. Good(Now)
    BY <1>3, <1>4 DEF Good, Tidy, Behind
  <1>6. AtEnd(Now, running)
    BY <1>3, <1>4, AtEndOfNone
  <1> QED BY <1>1, <1>2, <1>5, <1>6 DEF TranscriptInv, CallsInOrder

\* The inductive invariant holds in every state a session reaches.
THEOREM TranscriptInvariant == TranscriptSpec => []TranscriptInv
  <1>1. TranscriptInv /\ [TranscriptNext]_transcriptVars => TranscriptInv'
    BY TranscriptStep
  <1> QED BY <1>1, TranscriptStarts, PTL DEF TranscriptSpec

\* The coalescer keeps the types of a transcript: messages, pointer and turn.
THEOREM TranscriptTypeCorrect == TranscriptSpec => []TranscriptType
  <1>1. TranscriptInv => TranscriptType
    BY DEF TranscriptInv
  <1> QED BY <1>1, TranscriptInvariant, PTL

\* Every call that shows a result shows its own, although the coalescer matches
\* results by their order: Paired, whatever the calls and the bounds.
THEOREM PairedHolds == TranscriptSpec => []Paired
  <1>1. TranscriptInv => Paired
    <2> SUFFICES ASSUME TranscriptInv, Sane PROVE Paired
      BY DEF Paired
    <2>1. Tidy(Now) /\ Now.m = messages /\ messages \in Seq(Messages)
      BY NowType DEF TranscriptInv, TranscriptType, CallsInOrder, Good
    <2> QED BY <2>1 DEF Paired, Tidy
  <1> QED BY <1>1, TranscriptInvariant, PTL

\* The calls shown without a result are those that run, in their order:
\* OpenIsRunning, whatever the calls and the bounds.
THEOREM OpenIsRunningHolds == TranscriptSpec => []OpenIsRunning
  <1>1. TranscriptInv => OpenIsRunning
    <2> SUFFICES ASSUME TranscriptInv, Sane PROVE OpenIsRunning
      BY DEF OpenIsRunning
    <2> DEFINE n == Len(messages)
               r == Len(running)
               at == [k \in DOMAIN running |-> n - r + k]
    <2>1. Now.m = messages /\ messages \in Seq(Messages) /\ running \in Seq(Calls)
      BY NowType DEF TranscriptInv, TranscriptType
    <2>2. /\ n - r \in Nat /\ OpenIn(Now) = n - r + 1 .. n
          /\ \A k \in 1 .. r : messages[n - r + k].call = running[k]
      BY <2>1 DEF TranscriptInv, CallsInOrder, AtEnd
    <2>3. n \in Nat /\ r \in Nat /\ DOMAIN running = 1 .. r /\ DOMAIN messages = 1 .. n
      BY <2>1
    <2>4. at \in [DOMAIN running -> DOMAIN messages]
      <3> HIDE DEF n, r
      <3> QED BY <2>2, <2>3
    <2>5. \A k \in DOMAIN running : at[k] = n - r + k
      OBVIOUS
    <2> HIDE DEF at, n, r
    <2>6. OpenIn(Now) = {at[k] : k \in DOMAIN running}
      <3>1. ASSUME NEW j \in n - r + 1 .. n PROVE \E k \in DOMAIN running : at[k] = j
        <4>1. j - (n - r) \in 1 .. r /\ n - r + (j - (n - r)) = j
          BY <2>2, <2>3
        <4> QED BY <2>3, <2>5, <4>1
      <3>2. ASSUME NEW k \in DOMAIN running PROVE at[k] \in n - r + 1 .. n
        BY <2>2, <2>3, <2>5
      <3> QED BY <2>2, <3>1, <3>2
    <2>7. \A j, k \in DOMAIN running : j < k => at[j] < at[k]
      BY <2>2, <2>3, <2>5
    <2>8. \A k \in DOMAIN running : messages[at[k]].call = running[k]
      BY <2>2, <2>3, <2>5
    <2> QED BY <2>4, <2>6, <2>7, <2>8 DEF OpenIsRunning
  <1> QED BY <1>1, TranscriptInvariant, PTL

\* No event changes a call that shows its result or its cancellation: ResultsStay,
\* also after an interruption or a rewind that leaves calls or pointer behind.
THEOREM ResultsStayHolds == TranscriptSpec => ResultsStay
  <1>1. TranscriptInv /\ [TranscriptNext]_transcriptVars =>
          [\A i \in DOMAIN messages :
              messages[i].kind = "tool" /\ messages[i].end # None =>
                 i > Len(messages') \/ messages'[i] = messages[i]]_transcriptVars
    BY TranscriptStep DEF Stays
  <1> QED BY <1>1, TranscriptInvariant, PTL DEF TranscriptSpec, ResultsStay

=============================================================================
