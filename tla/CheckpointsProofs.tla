------------------------- MODULE CheckpointsProofs --------------------------
(***************************************************************************)
(* Proofs about the checkpoints: what a rewind undoes stays undone, and it *)
(* changes no file of another turn, for any number of files, messages,     *)
(* edits, rewinds, failures and Escs.                                      *)
(*                                                                         *)
(* The argument: a content of a file names its turn.  Whoever finds a turn *)
(* in the workspace or in a checkpoint finds the turn alive, or finds a    *)
(* task that will remove it: a restore whose files name the file, from a   *)
(* checkpoint older than the turn, or a purge of that checkpoint.          *)
(***************************************************************************)
EXTENDS Checkpoints, FiniteSetTheorems, SequenceTheorems, TLAPS

-----------------------------------------------------------------------------
(* How many of the first i turns are to be seen.                           *)

\* Induction over the natural numbers, as a fact about a set: a number that is
\* missing from it would have a least one beside it.
LEMMA SetInduction ==
  ASSUME NEW S, 0 \in S, \A n \in Nat : n \in S => n + 1 \in S
  PROVE  Nat \subseteq S
  <1> DEFINE Missing == Nat \ S
             T == {1 .. n : n \in Missing}
  <1> SUFFICES ASSUME Missing # {} PROVE FALSE
    OBVIOUS
  <1>1. T \subseteq FiniteSubsetsOf(Nat) /\ T # {}
    <2>1. ASSUME NEW n \in Missing PROVE 1 .. n \in SUBSET Nat /\ IsFiniteSet(1 .. n)
      <3>1. n \in Int /\ 1 \in Int
        OBVIOUS
      <3> QED BY <3>1, FS_Interval
    <2> QED BY <2>1 DEF FiniteSubsetsOf
  <1>2. PICK x \in T : \A y \in T : ~ (<<y, x>> \in StrictSubsetOrdering(Nat))
    BY <1>1, FS_StrictSubsetOrderingWellFounded, WFMin
  <1>3. PICK m \in Missing : x = 1 .. m
    BY <1>2
  <1>4. m - 1 \in Missing
    BY <1>3
  <1>5. 1 .. (m - 1) \in T /\ 1 .. (m - 1) \in SUBSET Nat /\ 1 .. m \in SUBSET Nat
    BY <1>4
  <1>6. 1 .. (m - 1) \subseteq 1 .. m /\ m \in 1 .. m /\ m \notin 1 .. (m - 1)
    BY <1>4
  <1>7. <<1 .. (m - 1), 1 .. m>> \in StrictSubsetOrdering(Nat)
    BY <1>5, <1>6 DEF StrictSubsetOrdering
  <1> QED BY <1>2, <1>3, <1>5, <1>7

\* The positions counted are finitely many.
LEMMA RankFinite ==
  ASSUME NEW s, NEW i \in Nat
  PROVE  /\ IsFiniteSet({j \in 1 .. i : s[j].shown})
         /\ Rank(s, i) \in Nat /\ Rank(s, i) <= i
  <1> DEFINE Seen == {j \in 1 .. i : s[j].shown}
  <1>1. IsFiniteSet(1 .. i) /\ Cardinality(1 .. i) = i
    BY FS_Interval
  <1>2. Seen \in SUBSET (1 .. i)
    OBVIOUS
  <1> HIDE DEF Seen
  <1>3. IsFiniteSet(Seen) /\ Cardinality(Seen) <= i
    BY <1>1, <1>2, FS_Subset
  <1>4. Cardinality(Seen) \in Nat
    BY <1>3, FS_CardinalityType
  <1> QED BY <1>3, <1>4 DEF Rank, Seen

\* One more event counts if it is shown.
LEMMA RankStep ==
  ASSUME NEW s, NEW i \in Nat
  PROVE  /\ s[i + 1].shown => Rank(s, i + 1) = Rank(s, i) + 1
         /\ ~ s[i + 1].shown => Rank(s, i + 1) = Rank(s, i)
  <1> DEFINE Seen == {j \in 1 .. i : s[j].shown}
             More == {j \in 1 .. i + 1 : s[j].shown}
  <1>1. IsFiniteSet(Seen)
    BY RankFinite
  <1>a. i + 1 \notin Seen
    OBVIOUS
  <1>2. 1 .. i + 1 = (1 .. i) \cup {i + 1}
    OBVIOUS
  <1>3. s[i + 1].shown => More = Seen \cup {i + 1}
    BY <1>2
  <1>4. ~ s[i + 1].shown => More = Seen
    BY <1>2
  <1>5. Rank(s, i) = Cardinality(Seen) /\ Rank(s, i + 1) = Cardinality(More)
    BY DEF Rank
  <1> HIDE DEF Seen, More
  <1>6. Cardinality(Seen \cup {i + 1}) = Cardinality(Seen) + 1
    BY <1>1, <1>a, FS_AddElement
  <1> QED BY <1>3, <1>4, <1>5, <1>6

\* It grows with the events,
LEMMA RankGrows ==
  ASSUME NEW s, NEW i \in Nat, NEW j \in Nat, i <= j
  PROVE  Rank(s, i) <= Rank(s, j)
  <1> DEFINE Seen == {m \in 1 .. i : s[m].shown}
             More == {m \in 1 .. j : s[m].shown}
  <1>1. Seen \in SUBSET More
    OBVIOUS
  <1>2. IsFiniteSet(More)
    BY RankFinite
  <1>3. Rank(s, i) = Cardinality(Seen) /\ Rank(s, j) = Cardinality(More)
    BY DEF Rank
  <1> HIDE DEF Seen, More
  <1> QED BY <1>1, <1>2, <1>3, FS_Subset

\* and with every one that is shown.
LEMMA RankStrict ==
  ASSUME NEW s, NEW i \in Nat, NEW j \in Nat, i < j, s[j].shown
  PROVE  Rank(s, i) < Rank(s, j)
  <1>1. j - 1 \in Nat /\ i <= j - 1 /\ (j - 1) + 1 = j
    OBVIOUS
  <1>2. Rank(s, i) <= Rank(s, j - 1)
    BY <1>1, RankGrows
  <1>3. Rank(s, j) = Rank(s, j - 1) + 1
    BY <1>1, RankStep
  <1>4. Rank(s, i) \in Nat /\ Rank(s, j - 1) \in Nat
    BY <1>1, RankFinite
  <1> QED BY <1>2, <1>3, <1>4

\* Every number up to it is the number of an event that is shown.
LEMMA RankHit ==
  ASSUME NEW s, NEW n \in Nat, NEW k \in 1 .. Rank(s, n)
  PROVE  \E i \in 1 .. n : s[i].shown /\ Rank(s, i) = k
  <1> DEFINE Hit(m) == \A r \in 1 .. Rank(s, m) : \E i \in 1 .. m : s[i].shown /\ Rank(s, i) = r
             S == {m \in Nat : Hit(m)}
  <1>1. 0 \in S
    <2>1. Rank(s, 0) \in Nat /\ Rank(s, 0) <= 0
      BY RankFinite, 0 \in Nat
    <2> QED BY <2>1
  <1>2. ASSUME NEW m \in Nat, m \in S PROVE m + 1 \in S
    <2>1. Rank(s, m) \in Nat /\ Rank(s, m + 1) \in Nat
      BY RankFinite, m + 1 \in Nat
    <2>2. SUFFICES ASSUME NEW r \in 1 .. Rank(s, m + 1)
                   PROVE  \E i \in 1 .. m + 1 : s[i].shown /\ Rank(s, i) = r
      OBVIOUS
    <2>3. CASE r \in 1 .. Rank(s, m)
      BY <1>2, <2>3
    <2>4. CASE r \notin 1 .. Rank(s, m)
      <3>1. s[m + 1].shown /\ r = Rank(s, m + 1)
        BY <2>1, <2>4, RankStep
      <3> QED BY <3>1
    <2> QED BY <2>3, <2>4
  <1> HIDE DEF S
  <1>3. n \in S
    BY <1>1, <1>2, SetInduction
  <1> QED BY <1>3 DEF S

\* Only what is shown matters.
LEMMA RankAgrees ==
  ASSUME NEW s, NEW t, NEW i \in Nat, \A j \in 1 .. i : s[j].shown = t[j].shown
  PROVE  Rank(s, i) = Rank(t, i)
  <1>1. {j \in 1 .. i : s[j].shown} = {j \in 1 .. i : t[j].shown}
    OBVIOUS
  <1> QED BY <1>1 DEF Rank

-----------------------------------------------------------------------------
(* The inductive invariant, while no Esc has cut a task and nothing stale   *)
(* was restored.                                                           *)

Contents == [by : Nat, n : Nat]
Trees == [Files -> Contents]
UserEvents == [id : Nat, shown : BOOLEAN, touched : (SUBSET Files) \cup {None},
               changed : SUBSET Files, sound : BOOLEAN]
Tasks == [idx : 1 .. MaxEvents, files : (SUBSET Files) \cup {None}, restored : BOOLEAN,
          dropped : SUBSET Nat, changed : SUBSET Files, good : BOOLEAN]

\* What the variables range over.
TypeOK ==
  /\ work \in Trees
  /\ ref \in [1 .. MaxEvents -> Trees \cup {None}]
  /\ events \in Seq(UserEvents)
  /\ phase \in {"idle", "barrier", "creating", "running", "finalizing"}
  /\ active \in Nat /\ index \in 0 .. MaxEvents /\ tools \in BOOLEAN
  /\ after \in {"end", "shown", "hidden"}
  /\ tasks \in Seq(Tasks)
  /\ used \in [edits : Nat, events : 0 .. MaxEvents, rewinds : Nat, escs : Nat, fails : Nat]
  /\ gone \subseteq Nat /\ stale \subseteq 1 .. MaxEvents

\* Numbers are given in ascending order: at most n so far.
IdsAscend(ev, n) ==
  /\ Len(ev) <= n
  /\ \A i \in DOMAIN ev :
       /\ ev[i].id \in 1 .. n
       /\ \A j \in DOMAIN ev : i < j => ev[i].id < ev[j].id

Saved(k) == k \in DOMAIN ref /\ ref[k] # None
SavedBefore(k, id) == \A f \in Files : ref[k][f].by < id

\* A turn that is open is the last one; no checkpoint holds a change of it, and
\* where its own was made, what it changed since is noted.
TurnFits ==
  phase # "idle" =>
    LET last == events[Len(events)]
    IN  /\ events # <<>>
        /\ last.id = active /\ active = used.events
        /\ last.touched = None
        /\ \A k \in DOMAIN ref : Saved(k) => SavedBefore(k, active)
        /\ phase \in {"barrier", "creating"} =>
             ~ last.sound /\ \A f \in Files : work[f].by < active
        /\ phase \in {"creating", "running", "finalizing"} => tasks = <<>> /\ index = Visible
        /\ phase = "creating" => index # 0
        /\ phase = "finalizing" /\ after # "end" => used.events < MaxEvents
        /\ phase \in {"running", "finalizing"} /\ last.sound /\ Saved(index) =>
             \A f \in Files : work[f] # ref[index][f] => f \in last.changed

\* A rewind that will undo its turns, and what is undone once the first j have.
Pending(j) == tasks[j].good /\ ~ tasks[j].restored
LostBy(b, j) == b \in gone \/ \E i \in 1 .. j : Pending(i) /\ b \in tasks[i].dropped

\* Who wrote a content of a file: a turn that has counted, or will count, the
\* file; a rewind that drops the turn restores it.
Counted(c, f, ev, n) ==
  /\ c.by <= n
  /\ \A i \in DOMAIN ev :
       ev[i].id = c.by /\ ev[i].shown /\ ev[i].sound =>
         ev[i].touched = None \/ f \in ev[i].touched
DroppedFits(c, f) ==
  \A j \in DOMAIN tasks :
    Pending(j) /\ c.by \in tasks[j].dropped =>
      tasks[j].files = None \/ f \in tasks[j].files
WorkCounted(ev, n) == \A f \in Files : Counted(work[f], f, ev, n)
RefsCounted(ev, n) == \A k \in DOMAIN ref, f \in Files : Saved(k) => Counted(ref[k][f], f, ev, n)
DropsFit ==
  \A f \in Files :
    /\ DroppedFits(work[f], f)
    /\ \A k \in DOMAIN ref : Saved(k) => DroppedFits(ref[k][f], f)

\* What is counted has been changed.
CountsAreTrue(ev) ==
  \A i \in DOMAIN ev :
    ev[i].sound /\ ev[i].touched # None => ev[i].touched \subseteq ev[i].changed
FilesAreTrue ==
  \A j \in DOMAIN tasks :
    tasks[j].good /\ tasks[j].files # None => tasks[j].files \subseteq tasks[j].changed

\* A turn that is undone, or will be, is not an event any more.
LostWere(n) ==
  gone \subseteq 1 .. n /\ \A j \in DOMAIN tasks : tasks[j].dropped \subseteq 1 .. n
LostAreOut(ev) == \A i \in DOMAIN ev : ~ LostBy(ev[i].id, Len(tasks))
WorkClean == \A f \in Files : work[f].by \notin gone

\* A checkpoint that holds changes of one is purged before it is used, or stale.
Clean(k, j) ==
  Saved(k) /\ k \notin stale =>
     \/ \A f \in Files : ~ LostBy(ref[k][f].by, j)
     \/ \E i \in 1 .. j : tasks[i].idx < k
RefsClean ==
  /\ \A j \in DOMAIN tasks : Clean(tasks[j].idx, j)
  /\ \A k \in DOMAIN ref : Clean(k, Len(tasks))

\* The checkpoint of a turn is there, no purge that waits takes it, and it is
\* older than the turn unless a hidden one has replaced it.
SoundIsSaved(ev) ==
  \A c \in DOMAIN ev : ev[c].shown /\ ev[c].sound =>
    /\ Saved(Rank(ev, c))
    /\ \A j \in DOMAIN tasks : Rank(ev, c) < tasks[j].idx
    /\ \/ SavedBefore(Rank(ev, c), ev[c].id)
       \/ \E h \in DOMAIN ev : c < h /\ ~ ev[h].shown /\ Rank(ev, h) = Rank(ev, c)

\* A checkpoint of a message is older than the turns after the next one.
LaterIsLater(ev) ==
  \A i \in DOMAIN ev, k \in DOMAIN ref :
    Saved(k) /\ k < Rank(ev, i) => SavedBefore(k, ev[i].id)

\* No task before it purges what a rewind that will undo its turns restores.
PendingIsSaved ==
  \A j \in DOMAIN tasks : Pending(j) =>
    /\ Saved(tasks[j].idx)
    /\ \A i \in DOMAIN tasks : i < j => tasks[j].idx < tasks[i].idx

\* What says something of the events, and what does not.
EventsFit(ev, n) ==
  /\ IdsAscend(ev, n)
  /\ WorkCounted(ev, n) /\ RefsCounted(ev, n)
  /\ CountsAreTrue(ev)
  /\ LostWere(n) /\ LostAreOut(ev)
  /\ SoundIsSaved(ev) /\ LaterIsLater(ev)
TasksFit == DropsFit /\ FilesAreTrue /\ WorkClean /\ RefsClean /\ PendingIsSaved

Good ==
  /\ TypeOK /\ orphans = {}
  /\ EventsFit(events, used.events)
  /\ TasksFit
  /\ TurnFits

IInv == cut \in BOOLEAN /\ (cut \/ Good)

\* Counts go by what is shown, and by nothing else of an event.
LEMMA RankSame ==
  ASSUME NEW s \in Seq(UserEvents), NEW t, \A j \in DOMAIN s : t[j].shown = s[j].shown
  PROVE  Rank(t, Len(s)) = Rank(s, Len(s)) /\ \A i \in DOMAIN s : Rank(t, i) = Rank(s, i)
  <1>1. Len(s) \in Nat /\ DOMAIN s = 1 .. Len(s)
    OBVIOUS
  <1>2. Rank(t, Len(s)) = Rank(s, Len(s))
    <2>1. \A j \in 1 .. Len(s) : t[j].shown = s[j].shown
      BY <1>1, Zenon
    <2> QED BY <1>1, <2>1, RankAgrees
  <1>3. ASSUME NEW i \in DOMAIN s PROVE Rank(t, i) = Rank(s, i)
    <2>1. i \in Nat /\ \A j \in 1 .. i : j \in DOMAIN s
      BY <1>1
    <2>2. \A j \in 1 .. i : t[j].shown = s[j].shown
      BY <2>1, Zenon
    <2> QED BY <2>1, <2>2, RankAgrees
  <1> QED BY <1>2, <1>3

-----------------------------------------------------------------------------
(* What a new event, and a mark on one, leaves of the invariant.           *)

\* The types of an event and its count.
LEMMA RankDomain ==
  ASSUME NEW ev \in Seq(UserEvents), NEW i \in DOMAIN ev
  PROVE  /\ i \in Nat /\ i \in 1 .. Len(ev) /\ Len(ev) \in Nat
         /\ ev[i] \in UserEvents
         /\ Rank(ev, i) \in Nat
  <1>1. i \in Nat /\ i \in 1 .. Len(ev) /\ Len(ev) \in Nat /\ ev[i] \in UserEvents
    OBVIOUS
  <1> QED BY <1>1, RankFinite

\* A new event has the next number, and is not sound yet.
LEMMA EventAdded ==
  ASSUME TypeOK, NEW ev \in Seq(UserEvents), NEW n \in Nat, EventsFit(ev, n),
         NEW e \in UserEvents, e.id = n + 1, ~ e.sound
  PROVE  EventsFit(Append(ev, e), n + 1)
  <1> DEFINE new == Append(ev, e)
  <1>1. /\ new \in Seq(UserEvents)
        /\ Len(ev) \in Nat /\ Len(new) = Len(ev) + 1
        /\ DOMAIN ev = 1 .. Len(ev) /\ DOMAIN new = 1 .. Len(ev) + 1
        /\ \A i \in 1 .. Len(ev) : new[i] = ev[i]
        /\ new[Len(ev) + 1] = e
    BY AppendProperties
  <1>2. \A i \in 1 .. Len(ev) : Rank(new, i) = Rank(ev, i)
    <2> SUFFICES ASSUME NEW i \in 1 .. Len(ev) PROVE Rank(new, i) = Rank(ev, i)
      OBVIOUS
    <2>1. \A j \in 1 .. i : new[j].shown = ev[j].shown
      BY <1>1
    <2>2. i \in Nat
      OBVIOUS
    <2> HIDE DEF new
    <2> QED BY <2>1, <2>2, RankAgrees
  <1> HIDE DEF new
  <1>3. IdsAscend(new, n + 1)
    BY <1>1 DEF EventsFit, IdsAscend
  <1>4. WorkCounted(new, n + 1) /\ RefsCounted(new, n + 1)
    <2>1. ASSUME NEW c \in Contents, NEW f, Counted(c, f, ev, n)
          PROVE  Counted(c, f, new, n + 1)
      BY <1>1, <2>1 DEF Counted, Contents
    <2>2. \A f \in Files : work[f] \in Contents
      BY DEF TypeOK, Trees
    <2>3. \A k \in DOMAIN ref, f \in Files : Saved(k) => ref[k][f] \in Contents
      BY DEF TypeOK, Trees, Saved
    <2> QED BY <2>1, <2>2, <2>3 DEF EventsFit, WorkCounted, RefsCounted
  <1>5. CountsAreTrue(new)
    BY <1>1 DEF EventsFit, CountsAreTrue
  <1>6. LostWere(n + 1)
    BY DEF EventsFit, LostWere
  <1>7. LostAreOut(new)
    <2>1. ~ LostBy(n + 1, Len(tasks))
      BY DEF EventsFit, LostWere, LostBy, TypeOK
    <2> QED BY <1>1, <2>1 DEF EventsFit, LostAreOut
  <1>8. SoundIsSaved(new)
    BY <1>1, <1>2 DEF EventsFit, SoundIsSaved
  <1>9. LaterIsLater(new)
    <2>1. ASSUME NEW k \in DOMAIN ref, Saved(k) PROVE SavedBefore(k, n + 1)
      BY <2>1 DEF EventsFit, RefsCounted, Counted, SavedBefore, Saved, TypeOK, Trees, Contents
    <2> QED BY <1>1, <1>2, <2>1 DEF EventsFit, LaterIsLater
  <1> QED BY <1>3, <1>4, <1>5, <1>6, <1>7, <1>8, <1>9 DEF EventsFit, new

\* f is among the touched files if it holds a change of turn id.
Found(touched, id) ==
  \A f \in Files :
    /\ work[f].by = id => f \in touched
    /\ \A k \in DOMAIN ref : Saved(k) /\ ref[k][f].by = id => f \in touched

\* A mark on an event: more files that changed, a count, no longer sound.
Marked(old, new) ==
  /\ new.id = old.id /\ new.shown = old.shown /\ (new.sound => old.sound)
  /\ \/ new.touched = old.touched /\ old.changed \subseteq new.changed
     \/ new.touched = None
     \/ new.sound => new.touched \subseteq new.changed
                      /\ (new.shown => Found(new.touched, new.id))

\* What is said of the events survives such marks on them.
LEMMA EventMarked ==
  ASSUME TypeOK, NEW ev \in Seq(UserEvents), NEW n \in Nat, EventsFit(ev, n),
         NEW new \in Seq(UserEvents), Len(new) = Len(ev),
         \A i \in DOMAIN ev : Marked(ev[i], new[i])
  PROVE  EventsFit(new, n)
  <1>1. Len(ev) \in Nat /\ DOMAIN ev = 1 .. Len(ev) /\ DOMAIN new = 1 .. Len(ev)
    OBVIOUS
  <1>2. \A i \in 1 .. Len(ev) : Rank(new, i) = Rank(ev, i)
    <2> SUFFICES ASSUME NEW i \in 1 .. Len(ev) PROVE Rank(new, i) = Rank(ev, i)
      OBVIOUS
    <2>1. \A j \in 1 .. i : new[j].shown = ev[j].shown
      BY <1>1 DEF Marked
    <2>2. i \in Nat
      OBVIOUS
    <2> QED BY <2>1, <2>2, RankAgrees
  <1>3. IdsAscend(new, n)
    BY <1>1 DEF EventsFit, IdsAscend, Marked
  <1>4. WorkCounted(new, n)
    BY <1>1 DEF EventsFit, WorkCounted, Counted, Marked, Found
  <1>5. RefsCounted(new, n)
    BY <1>1 DEF EventsFit, RefsCounted, Counted, Marked, Found
  <1>6. CountsAreTrue(new)
    BY <1>1 DEF EventsFit, CountsAreTrue, Marked
  <1>7. LostAreOut(new)
    BY <1>1 DEF EventsFit, LostAreOut, Marked
  <1>8. SoundIsSaved(new)
    BY <1>1, <1>2 DEF EventsFit, SoundIsSaved, Marked
  <1>9. LaterIsLater(new)
    BY <1>1, <1>2 DEF EventsFit, LaterIsLater, Marked
  <1> QED BY <1>3, <1>4, <1>5, <1>6, <1>7, <1>8, <1>9 DEF EventsFit

\* A step that leaves the files, the checkpoints and the tasks alone.
LEMMA Frame ==
  ASSUME UNCHANGED <<work, ref, tasks, gone, stale>>, TasksFit, EventsFit(events', used'.events)
  PROVE  TasksFit' /\ EventsFit(events, used.events)'
  <1>1. TasksFit'
    BY DEF TasksFit, DropsFit, DroppedFits, FilesAreTrue, WorkClean, RefsClean, Clean,
           PendingIsSaved, Pending, LostBy, Saved
  <1>2. EventsFit(events, used.events)'
    BY DEF EventsFit, IdsAscend, WorkCounted, RefsCounted, Counted, CountsAreTrue, LostWere,
           LostAreOut, LostBy, Pending, SoundIsSaved, LaterIsLater, Saved, SavedBefore
  <1> QED BY <1>1, <1>2

-----------------------------------------------------------------------------
(* Types.                                                                  *)

\* Where a rewind cuts: everything from the first turn it drops on.
LEMMA CutoffIsRank ==
  ASSUME TypeOK, NEW k \in 1 .. Visible
  PROVE  /\ Cutoff(k) \in DOMAIN events
         /\ \A i \in DOMAIN events : i < Cutoff(k) => Rank(events, i) < k
         /\ \A i \in DOMAIN events : i >= Cutoff(k) /\ Rank(events, i) < k => k = 1
         /\ events[Cutoff(k)].shown => Rank(events, Cutoff(k)) = k
  <1>1. Len(events) \in Nat /\ DOMAIN events = 1 .. Len(events)
    BY DEF TypeOK
  <1>2. PICK c \in 1 .. Len(events) : events[c].shown /\ Rank(events, c) = k
    BY <1>1, RankHit DEF Visible
  <1>3. CASE k = 1
    <2>1. Cutoff(k) = 1 /\ 1 \in DOMAIN events
      BY <1>1, <1>2, <1>3 DEF Cutoff
    <2>2. events[1].shown => Rank(events, 1) = 1
      <3>1. Rank(events, 0) = 0
        <4>1. Rank(events, 0) \in Nat /\ Rank(events, 0) <= 0
          BY RankFinite, 0 \in Nat
        <4> QED BY <4>1
      <3>2. events[0 + 1].shown => Rank(events, 0 + 1) = Rank(events, 0) + 1
        BY RankStep, 0 \in Nat
      <3> QED BY <3>1, <3>2
    <2> QED BY <1>1, <1>3, <2>1, <2>2
  <1>4. CASE k # 1
    <2> DEFINE d == Cutoff(k)
    <2>1. d = CHOOSE i \in DOMAIN events : events[i].shown /\ Rank(events, i) = k
      BY <1>4 DEF Cutoff
    <2>2. d \in DOMAIN events /\ events[d].shown /\ Rank(events, d) = k
      BY <1>1, <1>2, <2>1
    <2> HIDE DEF d
    <2>3. ASSUME NEW i \in DOMAIN events, i < d PROVE Rank(events, i) < k
      BY <1>1, <2>2, <2>3, RankStrict
    <2>4. ASSUME NEW i \in DOMAIN events, i >= d PROVE Rank(events, i) >= k
      BY <1>1, <2>2, <2>4, RankGrows
    <2>5. ASSUME NEW i \in DOMAIN events PROVE Rank(events, i) \in Nat
      <3>1. i \in Nat
        BY <1>1
      <3> QED BY <3>1, RankFinite
    <2> QED BY <1>1, <2>2, <2>3, <2>4, <2>5 DEF d
  <1> QED BY <1>3, <1>4

\* A message to be seen has a place among the checkpoints.
LEMMA VisibleInRange ==
  ASSUME TypeOK, IdsAscend(events, used.events)
  PROVE  Visible \in 0 .. MaxEvents
  <1>1. Len(events) \in Nat /\ Len(events) <= MaxEvents
    BY CheckpointsAssumption DEF TypeOK, IdsAscend
  <1>2. Visible \in Nat /\ Visible <= Len(events)
    BY <1>1, RankFinite DEF Visible
  <1> QED BY <1>1, <1>2, CheckpointsAssumption

\* What a restore leaves is a tree.
LEMMA RestoredType ==
  ASSUME TypeOK, NEW k \in 1 .. MaxEvents, NEW files
  PROVE  Restored(k, files) \in Trees
  BY DEF TypeOK, Trees, Restored

\* Events that are marked are events, as many as before.
LEMMA MarkedType ==
  ASSUME TypeOK, NEW e, \A i \in DOMAIN events : e[i] \in UserEvents
  PROVE  LET new == [i \in DOMAIN events |-> e[i]]
         IN  /\ new \in Seq(UserEvents) /\ Len(new) = Len(events)
             /\ \A i \in DOMAIN events : new[i] = e[i]
  BY DEF TypeOK

-----------------------------------------------------------------------------
(* The steps of a turn.                                                    *)

\* A step of the turn alone.
LEMMA TurnMoves ==
  ASSUME Good, UNCHANGED <<work, ref, events, tasks, gone, stale, orphans>>,
         used'.events = used.events, TypeOK', TurnFits'
  PROVE  Good'
  <1>1. TasksFit' /\ EventsFit(events, used.events)'
    BY Frame DEF Good
  <1> QED BY <1>1 DEF Good

\* A step that fails or is cut counts itself.
LEMMA OnceType ==
  ASSUME TypeOK, NEW what \in {"edits", "rewinds", "escs", "fails"}, NEW bound, Once(what, bound)
  PROVE  /\ used' \in [edits : Nat, events : 0 .. MaxEvents, rewinds : Nat, escs : Nat, fails : Nat]
         /\ used'.events = used.events
  <1>1. used[what] \in Nat
    BY DEF TypeOK
  <1> QED BY <1>1 DEF TypeOK, Once

\* Nothing is awaited any more: the turn counts the message it shows.
LEMMA BarrierPassesStep == ASSUME Good, BarrierPasses PROVE Good'
  <1>1. Visible \in 0 .. MaxEvents
    BY VisibleInRange DEF Good, EventsFit
  <1>2. TypeOK'
    BY <1>1 DEF Good, TypeOK, BarrierPasses, Snapshots
  <1>3. TurnFits'
    BY DEF Good, TurnFits, BarrierPasses, Snapshots, Saved, SavedBefore, Visible, TypeOK
  <1> QED BY <1>2, <1>3, TurnMoves DEF BarrierPasses

\* An Esc before anything of git ran ends the turn.
LEMMA EscEarlyStep == ASSUME Good, EscEarly PROVE Good'
  <1>1. TypeOK' /\ used'.events = used.events
    BY OnceType DEF Good, TypeOK, EscEarly, Esc
  <1>2. TurnFits'
    BY DEF TurnFits, EscEarly
  <1> QED BY <1>1, <1>2, TurnMoves DEF EscEarly

\* A snapshot that fails leaves the event unsound, and what was saved before.
LEMMA CreateFailsStep == ASSUME Good, CreateFails PROVE Good'
  <1>1. TypeOK' /\ used'.events = used.events
    BY OnceType DEF Good, TypeOK, CreateFails, Fails
  <1>2. TurnFits'
    BY <1>1 DEF Good, TurnFits, CreateFails, Saved, SavedBefore, Visible
  <1> QED BY <1>1, <1>2, TurnMoves DEF CreateFails

\* An Esc while the files are counted leaves them uncounted or counts again.
LEMMA EscInFinalizeStep == ASSUME Good, EscInFinalize PROVE Good'
  <1>1. TypeOK' /\ used'.events = used.events
    BY OnceType DEF Good, TypeOK, EscInFinalize, Esc
  <1>2. TurnFits'
    BY <1>1 DEF Good, TurnFits, EscInFinalize, Saved, SavedBefore, Visible
  <1> QED BY <1>1, <1>2, TurnMoves DEF EscInFinalize

-----------------------------------------------------------------------------
(* Writes.                                                                 *)

\* A step that changes files, and no checkpoint or task.
LEMMA WorkMoves ==
  ASSUME UNCHANGED <<ref, tasks, gone, stale>>, TasksFit, EventsFit(events', used'.events),
         WorkCounted(events, used.events)', WorkClean',
         \A f \in Files : DroppedFits(work[f], f)'
  PROVE  TasksFit' /\ EventsFit(events, used.events)'
  <1>1. TasksFit'
    BY DEF TasksFit, DropsFit, DroppedFits, FilesAreTrue, WorkClean, RefsClean, Clean,
           PendingIsSaved, Pending, LostBy, Saved
  <1>2. EventsFit(events, used.events)'
    BY DEF EventsFit, IdsAscend, RefsCounted, Counted, CountsAreTrue, LostWere,
           LostAreOut, LostBy, Pending, SoundIsSaved, LaterIsLater, Saved, SavedBefore
  <1> QED BY <1>1, <1>2

\* The event of an open turn is the last.
LEMMA ActiveIsLast ==
  ASSUME Good, phase # "idle"
  PROVE  /\ Active = {Len(events)}
         /\ Len(events) \in DOMAIN events /\ Len(events) \in Nat
         /\ active = used.events
  <1>1. events \in Seq(UserEvents) /\ events # <<>> /\ IdsAscend(events, used.events)
    BY DEF Good, TurnFits, EventsFit, TypeOK
  <1>2. Len(events) \in DOMAIN events /\ Len(events) \in Nat /\ DOMAIN events = 1 .. Len(events)
    BY <1>1, EmptySeq
  <1>3. events[Len(events)].id = active /\ active = used.events
    BY DEF Good, TurnFits
  <1>4. \A i \in DOMAIN events : events[i].id = active => i = Len(events)
    BY <1>1, <1>2, <1>3 DEF IdsAscend, UserEvents
  <1> QED BY <1>2, <1>3, <1>4 DEF Active

\* A write is noted on the event of the open turn.
LEMMA WriteMarks ==
  ASSUME Good, NEW f \in Files, NEW by \in Nat, Write(f, by)
  PROVE  /\ events' \in Seq(UserEvents) /\ Len(events') = Len(events)
         /\ DOMAIN events' = DOMAIN events
         /\ \A i \in DOMAIN events :
              /\ Marked(events[i], events'[i])
              /\ events'[i].touched = events[i].touched
              /\ events'[i].sound = events[i].sound
              /\ events[i].changed \subseteq events'[i].changed
         /\ phase \in {"running", "finalizing"} => f \in events'[Len(events)].changed
  <1>1. events \in Seq(UserEvents) /\ DOMAIN events = 1 .. Len(events) /\ Len(events) \in Nat
    BY DEF Good, TypeOK
  <1>2. CASE TurnIsOpen
    <2> DEFINE e(i) == [events[i] EXCEPT !.changed = IF i \in Active THEN @ \cup {f} ELSE @]
    <2>1. \A i \in DOMAIN events : events[i] \in UserEvents
      BY <1>1
    <2>2. \A i \in DOMAIN events :
            /\ e(i) \in UserEvents
            /\ e(i).id = events[i].id /\ e(i).shown = events[i].shown
            /\ e(i).touched = events[i].touched /\ e(i).sound = events[i].sound
            /\ e(i).changed = IF i \in Active THEN events[i].changed \cup {f}
                                                ELSE events[i].changed
      BY <2>1 DEF UserEvents
    <2>3. events' = [i \in DOMAIN events |-> e(i)]
      BY <1>2 DEF Write
    <2>4. events' \in Seq(UserEvents) /\ Len(events') = Len(events)
          /\ DOMAIN events' = DOMAIN events
      BY <1>1, <2>2, <2>3
    <2>5. \A i \in DOMAIN events : events'[i] = e(i)
      BY <2>3
    <2>6. Len(events) \in Active /\ Len(events) \in DOMAIN events
      BY <1>2, ActiveIsLast DEF TurnIsOpen
    <2> HIDE DEF e
    <2> QED BY <2>2, <2>4, <2>5, <2>6 DEF Marked
  <1>3. CASE ~ TurnIsOpen
    <2>1. events' = events
      BY <1>3 DEF Write
    <2> QED BY <1>1, <1>3, <2>1 DEF Marked, TurnIsOpen
  <1> QED BY <1>2, <1>3

\* A write by someone whose writes are not counted yet, and not undone.
LEMMA WriteStep ==
  ASSUME Good, NEW f \in Files, NEW by \in 0 .. used.events, Write(f, by),
         UNCHANGED <<ref, phase, active, index, after, tasks, orphans, gone, stale>>,
         tools' \in BOOLEAN,
         \A i \in DOMAIN events : events[i].id = by => events[i].touched = None,
         by \notin gone, \A j \in DOMAIN tasks : by \notin tasks[j].dropped,
         phase \in {"barrier", "creating"} => by < active
  PROVE  Good'
  <1>1. used' \in [edits : Nat, events : 0 .. MaxEvents, rewinds : Nat, escs : Nat, fails : Nat]
        /\ used'.events = used.events
    BY OnceType DEF Good, Write
  <1>2. /\ events' \in Seq(UserEvents) /\ Len(events') = Len(events)
        /\ DOMAIN events' = DOMAIN events
        /\ \A i \in DOMAIN events :
              /\ Marked(events[i], events'[i])
              /\ events'[i].touched = events[i].touched
              /\ events'[i].sound = events[i].sound
              /\ events[i].changed \subseteq events'[i].changed
        /\ phase \in {"running", "finalizing"} => f \in events'[Len(events)].changed
    BY WriteMarks, used.events \in Nat DEF Good, TypeOK
  <1>3. /\ work' \in Trees /\ work'[f].by = by
        /\ \A g \in Files : g # f => work'[g] = work[g]
    <2>1. /\ work \in Trees /\ used.edits + 1 \in Nat /\ by \in Nat
          /\ work' = [work EXCEPT ![f] = [by |-> by, n |-> used.edits + 1]]
      BY DEF Good, TypeOK, Write
    <2> QED BY <2>1 DEF Trees, Contents
  <1>4. TypeOK'
    BY <1>1, <1>2, <1>3 DEF Good, TypeOK
  <1>5. used.events \in Nat /\ Len(events) \in Nat /\ DOMAIN events = 1 .. Len(events)
    BY DEF Good, TypeOK
  <1>6. EventsFit(events', used'.events)
    BY <1>1, <1>2, <1>5, EventMarked DEF Good, TypeOK
  <1>7. WorkCounted(events, used.events)'
    BY <1>1, <1>2, <1>3, <1>5, <1>6 DEF WorkCounted, Counted, EventsFit, Marked
  <1>8. WorkClean' /\ \A g \in Files : DroppedFits(work[g], g)'
    BY <1>3 DEF Good, TasksFit, WorkClean, DropsFit, DroppedFits, Pending
  <1>9. TasksFit' /\ EventsFit(events, used.events)'
    BY <1>6, <1>7, <1>8, WorkMoves DEF Good
  <1>10. Visible' = Visible
    <2>1. Rank(events', Len(events)) = Rank(events, Len(events))
      <3>1. \A j \in 1 .. Len(events) : events'[j].shown = events[j].shown
        BY <1>2, <1>5 DEF Marked
      <3> QED BY <1>5, <3>1, RankAgrees
    <2> QED BY <1>2, <2>1 DEF Visible
  <1>11. TurnFits'
    <2> SUFFICES ASSUME phase # "idle" PROVE TurnFits'
      BY DEF TurnFits
    <2>1. Len(events) \in DOMAIN events /\ events' # <<>>
      BY <1>2, ActiveIsLast
    <2>2. /\ events'[Len(events)].id = events[Len(events)].id
          /\ events'[Len(events)].touched = events[Len(events)].touched
          /\ events'[Len(events)].sound = events[Len(events)].sound
          /\ events[Len(events)].changed \subseteq events'[Len(events)].changed
      BY <1>2, <2>1 DEF Marked
    <2>3. \A k \in DOMAIN ref : Saved(k)' = Saved(k)
      BY DEF Saved
    <2>4. /\ phase \in {"barrier", "creating"} => \A g \in Files : work'[g].by < active
      BY <1>3 DEF Good, TurnFits
    <2>5. phase \in {"running", "finalizing"} /\ events'[Len(events)].sound /\ Saved(index) =>
             \A g \in Files : work'[g] # ref[index][g] => g \in events'[Len(events)].changed
      BY <1>2, <1>3, <2>2 DEF Good, TurnFits
    <2> QED BY <1>1, <1>2, <1>10, <2>1, <2>2, <2>3, <2>4, <2>5
            DEF Good, TurnFits, Saved, SavedBefore
  <1> QED BY <1>4, <1>9, <1>11 DEF Good

\* A write of the user belongs to no turn, so that no rewind drops it.
LEMMA UserEditsStep == ASSUME Good, NEW f \in Files, UserEdits(f) PROVE Good'
  <1>1. 0 \in 0 .. used.events /\ \A i \in DOMAIN events : events[i].id # 0
    BY DEF Good, TypeOK, EventsFit, IdsAscend
  <1>2. 0 \notin gone /\ \A j \in DOMAIN tasks : 0 \notin tasks[j].dropped
    BY DEF Good, EventsFit, LostWere
  <1>3. phase \in {"barrier", "creating"} => 0 < active
    <2>1. phase # "idle" => active = used.events /\ Len(events) \in DOMAIN events
      BY ActiveIsLast
    <2> QED BY <2>1 DEF Good, EventsFit, IdsAscend, TypeOK
  <1>4. /\ Write(f, 0) /\ tools' \in BOOLEAN
        /\ UNCHANGED <<ref, phase, active, index, after, tasks, orphans, gone, stale>>
    BY DEF UserEdits, turn, Good, TypeOK
  <1> QED BY <1>1, <1>2, <1>3, <1>4, WriteStep

\* A write of a tool belongs to the open turn, which no rewind has dropped.
LEMMA ToolEditsStep == ASSUME Good, NEW f \in Files, ToolEdits(f) PROVE Good'
  <1>1. /\ Active = {Len(events)} /\ Len(events) \in DOMAIN events
        /\ active = used.events /\ active \in 0 .. used.events
    BY ActiveIsLast DEF ToolEdits, Good, TypeOK
  <1>2. \A i \in DOMAIN events : events[i].id = active => events[i].touched = None
    BY <1>1 DEF Good, TurnFits, ToolEdits, Active
  <1>3. tasks = <<>> /\ events[Len(events)].id = active
    BY DEF Good, TurnFits, ToolEdits
  <1>4. active \notin gone
    BY <1>1, <1>3 DEF Good, EventsFit, LostAreOut, LostBy
  <1>5. /\ Write(f, active) /\ tools' \in BOOLEAN
        /\ UNCHANGED <<ref, phase, active, index, after, tasks, orphans, gone, stale>>
        /\ phase \notin {"barrier", "creating"}
    BY DEF ToolEdits
  <1> QED BY <1>1, <1>2, <1>3, <1>4, <1>5, WriteStep

-----------------------------------------------------------------------------
(* New messages.                                                           *)

\* Once the marks are made, a new message is the last event, and the turn is
\* its turn: before its snapshot if it is shown, without one if it is not.
LEMMA Appends ==
  ASSUME Good, NEW ev \in Seq(UserEvents), EventsFit(ev, used.events),
         Len(ev) = Len(events), \A i \in DOMAIN events : ev[i].shown = events[i].shown,
         NEW shown \in BOOLEAN, used.events < MaxEvents,
         events' = Append(ev, Event(used.events + 1, shown)),
         used' \in [edits : Nat, events : Nat, rewinds : Nat, escs : Nat, fails : Nat],
         used'.events = used.events + 1,
         active' = used.events + 1, tools' = FALSE, after' \in {"end", "shown", "hidden"},
         UNCHANGED <<work, ref, index, tasks, orphans, gone, stale>>,
         \/ phase' = "barrier"
         \/ phase' = "running" /\ ~ shown /\ phase \in {"running", "finalizing"}
  PROVE  Good'
  <1> DEFINE e == Event(used.events + 1, shown)
  <1>1. used.events \in Nat /\ Len(events) \in Nat /\ DOMAIN events = 1 .. Len(events)
    BY DEF Good, TypeOK
  <1>2. /\ e \in UserEvents /\ e.id = used.events + 1 /\ e.sound = FALSE
        /\ e.shown = shown /\ e.touched = None /\ e.changed = {}
    <2>1. e = [id |-> used.events + 1, shown |-> shown, touched |-> None,
               changed |-> {}, sound |-> FALSE]
      BY DEF Event
    <2>2. used.events + 1 \in Nat /\ {} \in SUBSET Files
      BY <1>1
    <2> HIDE DEF e
    <2>3. e \in UserEvents
      BY <2>1, <2>2 DEF UserEvents
    <2> QED BY <2>1, <2>3
  <1> HIDE DEF e
  <1>3. /\ events' = Append(ev, e) /\ events' \in Seq(UserEvents)
        /\ Len(events') = Len(events) + 1 /\ events' # <<>>
        /\ \A i \in DOMAIN events : events'[i] = ev[i]
        /\ events'[Len(events')] = e
    <2>1. events' = Append(ev, e)
      BY DEF e
    <2> QED BY <1>1, <1>2, <2>1, AppendProperties
  <1>4. EventsFit(events', used'.events)
    BY <1>1, <1>2, <1>3, EventAdded DEF Good
  <1>5. TasksFit' /\ EventsFit(events, used.events)'
    BY <1>4, Frame DEF Good
  <1>6. TypeOK'
    <2>1. used' \in [edits : Nat, events : 0 .. MaxEvents, rewinds : Nat, escs : Nat, fails : Nat]
      BY <1>1, CheckpointsAssumption
    <2>2. active' \in Nat
      BY <1>1
    <2> QED BY <1>3, <2>1, <2>2 DEF Good, TypeOK
  <1>7. ~ shown => Visible' = Visible
    <2>1. Rank(events', Len(events)) = Rank(events, Len(events))
      <3>1. \A j \in DOMAIN events : events'[j].shown = events[j].shown
        BY <1>3, Zenon
      <3>2. events \in Seq(UserEvents)
        BY DEF Good, TypeOK
      <3> QED BY <3>1, <3>2, RankSame, Zenon
    <2>2. ~ events'[Len(events) + 1].shown => Rank(events', Len(events) + 1) = Rank(events', Len(events))
      BY <1>1, RankStep
    <2> QED BY <1>2, <1>3, <2>1, <2>2 DEF Visible
  <1>8. \A k \in DOMAIN ref : Saved(k) => SavedBefore(k, used.events + 1)
    BY <1>1 DEF Good, EventsFit, RefsCounted, Counted, SavedBefore, Saved, TypeOK, Trees, Contents
  <1>9. \A f \in Files : work[f].by < used.events + 1
    BY <1>1 DEF Good, EventsFit, WorkCounted, Counted, TypeOK, Trees, Contents
  <1>10. TurnFits'
    BY <1>2, <1>3, <1>7, <1>8, <1>9 DEF Good, TurnFits, Saved, SavedBefore
  <1> QED BY <1>5, <1>6, <1>10 DEF Good

\* A message is submitted.
LEMMA SubmitStep == ASSUME Good, NEW shown \in BOOLEAN, Submit(shown) PROVE Good'
  <1>1. events \in Seq(UserEvents) /\ EventsFit(events, used.events)
    BY DEF Good, TypeOK
  <1>2. /\ used' \in [edits : Nat, events : Nat, rewinds : Nat, escs : Nat, fails : Nat]
        /\ used'.events = used.events + 1 /\ used.events < MaxEvents
    <2>1. used' = [used EXCEPT !["events"] = @ + 1] /\ used["events"] < MaxEvents
      BY DEF Submit, AddEvent, Once
    <2> QED BY <2>1 DEF Good, TypeOK
  <1>3. /\ events' = Append(events, Event(used.events + 1, shown))
        /\ active' = used.events + 1 /\ tools' = FALSE /\ phase' = "barrier"
        /\ after' \in {"end", "shown", "hidden"}
        /\ UNCHANGED <<work, ref, index, tasks, orphans, gone, stale>>
    BY DEF Submit, AddEvent, Good, TypeOK
  <1> QED BY <1>1, <1>2, <1>3, Appends

\* The turn is over, or comes to a queued message, before or after the count.
LEMMA LeavesStep ==
  ASSUME Good, NEW next \in {"end", "shown", "hidden"}, Leaves(next)
  PROVE  Good'
  <1>1. CASE tools
    <2>1. TypeOK' /\ used' = used
      BY <1>1 DEF Good, TypeOK, Leaves
    <2>2. TurnFits'
      BY <1>1 DEF Good, TurnFits, Leaves, Saved, SavedBefore, Visible
    <2> QED BY <1>1, <2>1, <2>2, TurnMoves DEF Leaves
  <1>2. CASE ~ tools /\ next = "end"
    <2>1. TypeOK' /\ used' = used
      BY <1>2 DEF Good, TypeOK, Leaves, Goes
    <2>2. TurnFits'
      BY <1>2 DEF TurnFits, Leaves, Goes
    <2> QED BY <1>2, <2>1, <2>2, TurnMoves DEF Leaves, Goes
  <1>3. CASE ~ tools /\ next # "end"
    <2> DEFINE shown == next = "shown"
    <2>1. events \in Seq(UserEvents) /\ EventsFit(events, used.events)
      BY DEF Good, TypeOK
    <2>2. AddEvent(shown) /\ phase' = IF shown THEN "barrier" ELSE "running"
      BY <1>3 DEF Leaves, Goes
    <2>3. /\ used' \in [edits : Nat, events : Nat, rewinds : Nat, escs : Nat, fails : Nat]
          /\ used'.events = used.events + 1 /\ used.events < MaxEvents
      <3>1. used' = [used EXCEPT !["events"] = @ + 1] /\ used["events"] < MaxEvents
        BY <2>2 DEF AddEvent, Once
      <3> QED BY <3>1 DEF Good, TypeOK
    <2>4. /\ events' = Append(events, Event(used.events + 1, shown))
          /\ active' = used.events + 1 /\ tools' = FALSE
          /\ after' \in {"end", "shown", "hidden"}
          /\ UNCHANGED <<work, ref, index, tasks, orphans, gone, stale>>
      BY <1>3, <2>2 DEF Leaves, AddEvent, Good, TypeOK
    <2>5. phase = "running" /\ shown \in BOOLEAN
      BY DEF Leaves
    <2>6. \/ phase' = "barrier"
          \/ phase' = "running" /\ ~ shown
      BY <2>2
    <2> HIDE DEF shown
    <2> QED BY <2>1, <2>3, <2>4, <2>5, <2>6, Appends
  <1> QED BY <1>1, <1>2, <1>3 DEF Good, TypeOK

\* The touched files are noted on the event of the turn.
LEMMA NotedStep ==
  ASSUME Good, phase = "finalizing",
         NEW count \in (SUBSET Files) \cup {None}, NEW sound \in BOOLEAN,
         NEW uses \in [edits : Nat, events : 0 .. MaxEvents, rewinds : Nat, escs : Nat, fails : Nat],
         uses.events = used.events, Noted(count, sound, uses),
         UNCHANGED <<work, ref, index, after, tasks, orphans, gone, stale>>,
         events[Len(events)].sound /\ sound =>
           \/ count = None
           \/ /\ count \subseteq events[Len(events)].changed
              /\ events[Len(events)].shown => Found(count, active)
  PROVE  Good'
  <1> DEFINE last == events[Len(events)]
             noted == [last EXCEPT !.touched = count, !.sound = @ /\ sound]
             e(i) == IF i \in Active THEN [events[i] EXCEPT !.touched = count, !.sound = @ /\ sound]
                     ELSE events[i]
             marked == [i \in DOMAIN events |-> e(i)]
  <1>1. /\ Active = {Len(events)} /\ Len(events) \in DOMAIN events /\ Len(events) \in Nat
        /\ DOMAIN events = 1 .. Len(events)
        /\ active = used.events /\ last.id = active
    BY ActiveIsLast DEF Good, TurnFits, TypeOK
  <1>2. \A i \in DOMAIN events : events[i] \in UserEvents
    BY DEF Good, TypeOK
  <1>3. /\ noted \in UserEvents /\ noted.id = last.id /\ noted.shown = last.shown
        /\ noted.touched = count /\ noted.sound = (last.sound /\ sound)
        /\ noted.changed = last.changed
    <2>1. last \in UserEvents
      BY <1>1, <1>2
    <2> HIDE DEF last
    <2> QED BY <2>1 DEF UserEvents
  <1>4. \A i \in DOMAIN events : e(i) = IF i = Len(events) THEN noted ELSE events[i]
    BY <1>1
  <1> HIDE DEF noted
  <1>5. \A i \in DOMAIN events : e(i) \in UserEvents
    BY <1>2, <1>3, <1>4
  <1>6. marked \in Seq(UserEvents) /\ Len(marked) = Len(events)
        /\ \A i \in DOMAIN events : marked[i] = e(i)
    <2> HIDE DEF e
    <2> QED BY <1>1, <1>5
  <1>7. \A i \in DOMAIN events : Marked(events[i], e(i))
    <2>1. Marked(last, noted)
      BY <1>1, <1>3 DEF Marked
    <2>2. \A i \in DOMAIN events : Marked(events[i], events[i])
      BY DEF Marked
    <2> HIDE DEF e
    <2> QED BY <1>4, <2>1, <2>2
  <1>8. EventsFit(marked, used.events)
    <2>1. \A i \in DOMAIN events : Marked(events[i], marked[i])
      BY <1>6, <1>7
    <2>2. TypeOK /\ events \in Seq(UserEvents) /\ EventsFit(events, used.events)
          /\ used.events \in Nat
      BY DEF Good, TypeOK
    <2> HIDE DEF marked
    <2> QED BY <1>6, <2>1, <2>2, EventMarked
  <1>9. \A i \in DOMAIN events : marked[i].shown = events[i].shown
    <2>1. \A i \in DOMAIN events : Marked(events[i], marked[i])
      BY <1>6, <1>7
    <2> QED BY <2>1, Zenon DEF Marked
  <1>10. CASE after = "end"
    <2>1. /\ phase' = "idle" /\ events' = marked /\ used' = uses
          /\ UNCHANGED <<active, tools>>
      BY <1>10 DEF Noted
    <2> HIDE DEF marked
    <2>2. TypeOK'
      BY <1>6, <2>1 DEF Good, TypeOK
    <2>3. TasksFit' /\ EventsFit(events, used.events)'
      BY <1>8, <2>1, Frame DEF Good
    <2>4. TurnFits'
      BY <2>1 DEF TurnFits
    <2> QED BY <2>2, <2>3, <2>4 DEF Good
  <1>11. CASE after # "end"
    <2> DEFINE shown == after = "shown"
    <2>1. /\ phase' = IF shown THEN "barrier" ELSE "running"
          /\ events' = Append(marked, Event(used.events + 1, shown))
          /\ used' = [uses EXCEPT !.events = @ + 1]
          /\ active' = used.events + 1 /\ tools' = FALSE
      BY <1>11 DEF Noted
    <2>2. /\ used' \in [edits : Nat, events : Nat, rewinds : Nat, escs : Nat, fails : Nat]
          /\ used'.events = used.events + 1
      <3>1. used' = [uses EXCEPT !.events = @ + 1]
        BY <2>1
      <3>2. used.events \in Nat
        BY DEF Good, TypeOK
      <3> QED BY <3>1, <3>2
    <2>3. used.events < MaxEvents /\ after' \in {"end", "shown", "hidden"}
      BY <1>11 DEF Good, TurnFits, TypeOK
    <2>4. \/ phase' = "barrier"
          \/ phase' = "running" /\ ~ shown /\ phase \in {"running", "finalizing"}
      BY <2>1
    <2>5. shown \in BOOLEAN
      OBVIOUS
    <2> HIDE DEF marked, shown
    <2> QED BY <1>6, <1>8, <1>9, <2>1, <2>2, <2>3, <2>4, <2>5, Appends
  <1> QED BY <1>10, <1>11

\* What differs from the checkpoint covers all that the turn still holds.
LEMMA FinalizeRunsStep == ASSUME Good, FinalizeRuns PROVE Good'
  <1> DEFINE last == events[Len(events)]
  <1>1. /\ Len(events) \in DOMAIN events /\ Len(events) \in Nat /\ phase = "finalizing"
    BY ActiveIsLast DEF FinalizeRuns
  <1>2. /\ \A k \in DOMAIN ref : Saved(k) => SavedBefore(k, active)
        /\ index = Visible /\ last.id = active
        /\ last.sound /\ Saved(index) =>
             \A f \in Files : work[f] # ref[index][f] => f \in last.changed
    BY <1>1 DEF Good, TurnFits
  <1>3. Diff = None \/ Diff \in SUBSET Files
    BY DEF Diff
  <1>4. index \in 0 .. MaxEvents /\ DOMAIN ref = 1 .. MaxEvents /\ active \in Nat
    BY DEF Good, TypeOK
  <1>5. \A f \in Files : /\ work[f] \in Contents
                         /\ \A k \in DOMAIN ref : Saved(k) => ref[k][f] \in Contents
    BY DEF Good, TypeOK, Trees, Saved
  <1>6. ASSUME last.sound, Diff # None
        PROVE  Diff \subseteq last.changed /\ (last.shown => Found(Diff, active))
    <2>1. index # 0
      BY <1>6 DEF Diff
    <2>2. CASE ref[index] = None
      <3>1. Diff = {}
        BY <2>1, <2>2 DEF Diff
      <3>2. last.shown => Saved(Rank(events, Len(events)))
        BY <1>1, <1>6 DEF Good, EventsFit, SoundIsSaved
      <3>3. ~ last.shown
        BY <1>2, <2>2, <3>2 DEF Visible, Saved
      <3> QED BY <3>1, <3>3
    <2>3. CASE ref[index] # None
      <3>1. Saved(index) /\ Diff = {f \in Files : work[f] # ref[index][f]}
        BY <1>4, <2>1, <2>3, CheckpointsAssumption DEF Saved, Diff
      <3>2. Diff \subseteq last.changed
        BY <1>2, <1>6, <3>1
      <3>3. \A f \in Files : ref[index][f].by < active
        BY <1>2, <1>4, <3>1 DEF Saved, SavedBefore
      <3>4. Found(Diff, active)
        BY <1>2, <1>4, <1>5, <3>1, <3>3 DEF Found, Saved, SavedBefore, Contents
      <3> QED BY <3>2, <3>4
    <2> QED BY <2>2, <2>3
  <1>7. used \in [edits : Nat, events : 0 .. MaxEvents, rewinds : Nat, escs : Nat, fails : Nat]
    BY DEF Good, TypeOK
  <1>8. PICK names \in Listings : Noted(names, names = Diff, used)
    BY DEF FinalizeRuns
  <1>9. UNCHANGED <<work, ref, index, after, tasks, orphans, gone, stale>>
    BY DEF FinalizeRuns
  <1>10. names \in (SUBSET Files) \cup {None}
    BY <1>3 DEF Listings
  <1>11. PICK sound \in BOOLEAN : sound = (names = Diff)
    OBVIOUS
  <1>12. Noted(names, sound, used)
    BY <1>8, <1>11, Zenon
  <1>13. last.sound /\ sound =>
           \/ names = None
           \/ names \subseteq last.changed /\ (last.shown => Found(names, active))
    BY <1>6, <1>11
  <1> QED BY <1>1, <1>7, <1>9, <1>10, <1>12, <1>13, NotedStep

\* A count that fails makes the event unsound.
LEMMA FinalizeFailsStep == ASSUME Good, FinalizeFails PROVE Good'
  <1> DEFINE uses == [used EXCEPT !.fails = @ + 1]
  <1>1. /\ uses \in [edits : Nat, events : 0 .. MaxEvents, rewinds : Nat, escs : Nat, fails : Nat]
        /\ uses.events = used.events
    BY DEF Good, TypeOK
  <1>2. /\ Noted({}, FALSE, uses) /\ phase = "finalizing"
        /\ UNCHANGED <<work, ref, index, after, tasks, orphans, gone, stale>>
    BY DEF FinalizeFails
  <1>3. {} \in (SUBSET Files) \cup {None}
    OBVIOUS
  <1> HIDE DEF uses
  <1> QED BY <1>1, <1>2, <1>3, NotedStep

-----------------------------------------------------------------------------
(* The snapshot.                                                           *)

\* The snapshot is made: it holds what no earlier turn may take back unseen.
LEMMA CreateRunsStep == ASSUME Good, CreateRuns PROVE Good'
  <1> DEFINE n == Len(events)
             last == events[n]
             e(i) == [events[i] EXCEPT !.sound = @ \/ i \in Active]
  <1>1. /\ Active = {n} /\ n \in DOMAIN events /\ n \in Nat /\ DOMAIN events = 1 .. n
        /\ active = used.events /\ last.id = active /\ active \in Nat
        /\ last.touched = None /\ tasks = <<>> /\ index = Visible
    BY ActiveIsLast DEF CreateRuns, Good, TurnFits, TypeOK
  <1>2. /\ \A k \in DOMAIN ref : Saved(k) => SavedBefore(k, active)
        /\ \A f \in Files : work[f].by < active
        /\ index \in 1 .. MaxEvents
    BY DEF Good, TurnFits, CreateRuns, TypeOK
  <1>3. \A i \in DOMAIN events :
          /\ e(i) \in UserEvents
          /\ e(i).id = events[i].id /\ e(i).shown = events[i].shown
          /\ e(i).touched = events[i].touched /\ e(i).changed = events[i].changed
          /\ e(i).sound = (events[i].sound \/ i \in Active)
    <2>1. \A i \in DOMAIN events : events[i] \in UserEvents
      BY DEF Good, TypeOK
    <2> QED BY <2>1 DEF UserEvents
  <1>4. events' = [i \in DOMAIN events |-> e(i)]
    BY DEF CreateRuns
  <1> HIDE DEF e
  <1>5. /\ events' \in Seq(UserEvents) /\ Len(events') = n /\ DOMAIN events' = DOMAIN events
        /\ \A i \in DOMAIN events : events'[i] = e(i)
    BY <1>1, <1>3, <1>4
  <1>6. \A i \in DOMAIN events :
          /\ events'[i].id = events[i].id /\ events'[i].shown = events[i].shown
          /\ events'[i].touched = events[i].touched /\ events'[i].changed = events[i].changed
          /\ events'[i].sound => events[i].sound \/ i = n
    BY <1>1, <1>3, <1>5
  <1> HIDE DEF n
  <1>7. /\ \A i \in DOMAIN events : Rank(events', i) = Rank(events, i)
        /\ Visible' = Visible /\ Rank(events, n) = index
    <2>1. \A i \in DOMAIN events : events'[i].shown = events[i].shown
      BY <1>6
    <2>2. events \in Seq(UserEvents)
      BY DEF Good, TypeOK
    <2> QED BY <1>1, <1>5, <2>1, <2>2, RankSame DEF Visible, n
  <1>8. /\ ref' \in [1 .. MaxEvents -> Trees \cup {None}] /\ DOMAIN ref' = DOMAIN ref
        /\ DOMAIN ref = 1 .. MaxEvents
        /\ ref'[index] = work
        /\ \A k \in DOMAIN ref : k # index => ref'[k] = ref[k]
        /\ \A k \in DOMAIN ref : Saved(k)' <=> k = index \/ Saved(k)
        /\ stale' = stale \ {index}
        /\ UNCHANGED <<work, tasks, used, gone, orphans, active, index, tools, after>>
        /\ phase' = "running"
    BY <1>2, CheckpointsAssumption DEF Good, TypeOK, CreateRuns, Trees, Contents, Saved
  <1>9. TypeOK'
    BY <1>5, <1>8 DEF Good, TypeOK
  <1>10. IdsAscend(events, used.events)'
    BY <1>1, <1>5, <1>6, <1>8 DEF Good, EventsFit, IdsAscend, n
  <1>11. CountsAreTrue(events)'
    BY <1>1, <1>5, <1>6 DEF Good, EventsFit, CountsAreTrue, n
  <1>12. LostWere(used.events)' /\ LostAreOut(events)'
    BY <1>5, <1>6, <1>8 DEF Good, EventsFit, LostWere, LostAreOut, LostBy, Pending
  <1>13. ASSUME NEW c, NEW f, Counted(c, f, events, used.events)
         PROVE  Counted(c, f, events, used.events)'
    BY <1>1, <1>5, <1>6, <1>8, <1>13 DEF Counted, n
  <1>14. WorkCounted(events, used.events)'
    BY <1>8, <1>13 DEF Good, EventsFit, WorkCounted
  <1>15. RefsCounted(events, used.events)'
    BY <1>8, <1>13 DEF Good, EventsFit, WorkCounted, RefsCounted
  <1>16. SoundIsSaved(events)'
    <2> SUFFICES ASSUME NEW c \in DOMAIN events, events'[c].shown, events'[c].sound
                 PROVE  /\ Saved(Rank(events, c))'
                        /\ \/ \A f \in Files : ref'[Rank(events, c)][f].by < events[c].id
                           \/ \E h \in DOMAIN events : c < h /\ ~ events[h].shown
                                                      /\ Rank(events, h) = Rank(events, c)
      <3>1. DOMAIN tasks' = {}
        BY <1>1, <1>8
      <3>2. DOMAIN events' = DOMAIN events
        BY <1>5
      <3> QED BY <1>6, <1>7, <3>1, <3>2 DEF SoundIsSaved, SavedBefore
    <2>1. CASE c = n
      BY <1>1, <1>2, <1>7, <1>8, <2>1 DEF n
    <2>2. CASE c # n
      <3>1. events[c].shown /\ events[c].sound
        BY <1>6, <2>2
      <3>2. CASE Rank(events, c) = index
        <4>1. c \in Nat /\ c < n
          BY <1>1, <2>2
        <4>2. ~ events[n].shown
          <5>1. events[n].shown => Rank(events, c) < Rank(events, n)
            BY <1>1, <4>1, RankStrict
          <5> QED BY <1>2, <1>7, <3>2, <5>1
        <4> QED BY <1>1, <1>2, <1>7, <1>8, <3>2, <4>1, <4>2
      <3>3. CASE Rank(events, c) # index
        <4>1. /\ Saved(Rank(events, c))
              /\ \/ SavedBefore(Rank(events, c), events[c].id)
                 \/ \E h \in DOMAIN events : c < h /\ ~ events[h].shown
                                            /\ Rank(events, h) = Rank(events, c)
          BY <3>1 DEF Good, EventsFit, SoundIsSaved
        <4>2. Rank(events, c) \in DOMAIN ref
          BY <4>1 DEF Saved
        <4>3. ref'[Rank(events, c)] = ref[Rank(events, c)] /\ Saved(Rank(events, c))'
          BY <1>7, <1>8, <3>3, <4>1, <4>2
        <4> QED BY <4>1, <4>3, Zenon DEF SavedBefore
      <3> QED BY <3>2, <3>3
    <2> QED BY <2>1, <2>2
  <1>17. LaterIsLater(events)'
    <2> SUFFICES ASSUME NEW i \in DOMAIN events, NEW k \in DOMAIN ref, Saved(k)',
                        k < Rank(events, i)
                 PROVE  \A f \in Files : ref'[k][f].by < events[i].id
      BY <1>5, <1>6, <1>7, <1>8 DEF LaterIsLater, SavedBefore
    <2>1. i \in Nat /\ i <= n
      BY <1>1
    <2>2. Rank(events, i) <= Rank(events, n) /\ Rank(events, i) \in Nat /\ Rank(events, n) \in Nat
      BY <1>1, <2>1, RankGrows, RankFinite
    <2>3. k # index
      BY <1>7, <1>8, <2>2
    <2> QED BY <1>8, <2>3 DEF Good, EventsFit, LaterIsLater, SavedBefore
  <1>18. TasksFit'
    <2>1. DropsFit' /\ FilesAreTrue' /\ PendingIsSaved'
      BY <1>1, <1>8 DEF DropsFit, DroppedFits, FilesAreTrue, PendingIsSaved
    <2>2. WorkClean'
      BY <1>8 DEF Good, TasksFit, WorkClean
    <2>3. \A b : LostBy(b, Len(tasks))' <=> b \in gone
      BY <1>1, <1>8 DEF LostBy
    <2>4. RefsClean'
      <3> SUFFICES ASSUME NEW k \in DOMAIN ref, Saved(k)', k \notin stale'
                   PROVE  \A f \in Files : ref'[k][f].by \notin gone
        BY <1>1, <1>8, <2>3 DEF RefsClean, Clean
      <3>1. CASE k = index
        BY <1>8, <3>1 DEF Good, TasksFit, WorkClean
      <3>2. CASE k # index
        <4>1. \A f \in Files : ref[k][f].by \notin gone
          BY <1>1, <1>8, <3>2 DEF Good, TasksFit, RefsClean, Clean, LostBy
        <4> QED BY <1>8, <3>2, <4>1
      <3> QED BY <3>1, <3>2
    <2> QED BY <2>1, <2>2, <2>4 DEF TasksFit
  <1>19. TurnFits'
    <2>1. \A k \in DOMAIN ref : Saved(k)' => \A f \in Files : ref'[k][f].by < active
      BY <1>2, <1>8, <1>8 DEF SavedBefore
    <2>2. events'[n].id = active /\ events'[n].touched = None /\ events' # <<>>
      BY <1>1, <1>5, <1>6 DEF n
    <2> QED BY <1>1, <1>5, <1>7, <1>8, <2>1, <2>2 DEF TurnFits, SavedBefore, n
  <1> QED BY <1>8, <1>9, <1>10, <1>11, <1>12, <1>14, <1>15, <1>16, <1>17, <1>18, <1>19 DEF Good, EventsFit

-----------------------------------------------------------------------------
(* A rewind.                                                               *)

\* What its task knows of the turns from position c on, those it drops.
TaskFits(t, k, c) ==
  /\ t \in Tasks /\ t.idx = k
  /\ \A b : b \in t.dropped <=> \E i \in c .. Len(events) : events[i].id = b
  /\ t.good => \A i \in c .. Len(events) : events[i].shown /\ events[i].sound
  /\ \/ t.files = None
     \/ \A i \in c .. Len(events) : events[i].shown =>
           events[i].touched # None /\ events[i].touched \subseteq t.files
  /\ t.good /\ t.files # None => t.files \subseteq t.changed

\* The task of a rewind fits the turns it drops.
LEMMA RewindTask ==
  ASSUME Good, NEW k \in 1 .. MaxEvents, NEW c \in DOMAIN events, NEW code \in BOOLEAN
  PROVE  LET dropped == SubSeq(events, c, Len(events))
         IN  TaskFits([idx |-> k, files |-> Touched(dropped), restored |-> ~ code,
                 dropped |-> {dropped[i].id : i \in DOMAIN dropped},
                 changed |-> UNION {dropped[i].changed : i \in DOMAIN dropped},
                 good |-> \A i \in DOMAIN dropped : dropped[i].shown /\ dropped[i].sound], k, c)
  <1> DEFINE dropped == SubSeq(events, c, Len(events))
             D == DOMAIN dropped
             seen == {i \in D : dropped[i].shown}
             counts == {dropped[i].touched : i \in seen}
             files == Touched(dropped)
             ids == {dropped[i].id : i \in D}
             changed == UNION {dropped[i].changed : i \in D}
             good == \A i \in D : dropped[i].shown /\ dropped[i].sound
             t == [idx |-> k, files |-> files, restored |-> ~ code, dropped |-> ids,
                   changed |-> changed, good |-> good]
  <1>1. /\ Len(events) \in Nat /\ DOMAIN events = 1 .. Len(events) /\ c \in 1 .. Len(events)
        /\ \A i \in DOMAIN events : events[i] \in UserEvents
        /\ CountsAreTrue(events)
    BY DEF Good, TypeOK, EventsFit
  <1>2. D = 1 .. Len(events) - c + 1 /\ \A i \in D : dropped[i] = events[c + i - 1]
    BY <1>1
  <1> HIDE DEF dropped, D
  <1>3. \A i \in D : c + i - 1 \in c .. Len(events) /\ c + i - 1 \in DOMAIN events
                    /\ dropped[i] \in UserEvents
    BY <1>1, <1>2
  <1>4. ASSUME NEW i \in c .. Len(events)
        PROVE  i - c + 1 \in D /\ dropped[i - c + 1] = events[i]
    <2>1. i - c + 1 \in D /\ c + (i - c + 1) - 1 = i
      BY <1>1, <1>2
    <2> QED BY <1>2, <2>1
  <1>5. files = IF None \in counts THEN None ELSE UNION counts
    BY DEF Touched, D
  <1>6. files \in (SUBSET Files) \cup {None}
    BY <1>3, <1>5 DEF UserEvents
  <1>7. ids \in SUBSET Nat
    BY <1>3 DEF UserEvents
  <1>8. changed \in SUBSET Files
    BY <1>3 DEF UserEvents
  <1>9. \A b : b \in ids <=> \E i \in c .. Len(events) : events[i].id = b
    <2>1. ASSUME NEW b \in ids PROVE \E i \in c .. Len(events) : events[i].id = b
      <3>1. PICK i \in D : dropped[i].id = b
        OBVIOUS
      <3> QED BY <1>2, <1>3, <3>1
    <2>2. ASSUME NEW i \in c .. Len(events) PROVE events[i].id \in ids
      BY <1>4
    <2> QED BY <2>1, <2>2
  <1>10. good => \A i \in c .. Len(events) : events[i].shown /\ events[i].sound
    BY <1>4
  <1>11. \/ files = None
         \/ \A i \in c .. Len(events) : events[i].shown =>
               events[i].touched # None /\ events[i].touched \subseteq files
    BY <1>4, <1>5
  <1>12. ASSUME good, files # None PROVE files \subseteq changed
    <2>1. files = UNION counts /\ None \notin counts
      BY <1>5, <1>12
    <2>2. ASSUME NEW i \in seen PROVE dropped[i].touched \subseteq dropped[i].changed
      <3>1. dropped[i].touched # None /\ dropped[i].sound
        BY <1>12, <2>1
      <3> QED BY <1>1, <1>2, <1>3, <3>1 DEF CountsAreTrue
    <2> QED BY <2>1, <2>2
  <1> HIDE DEF files, ids, changed, good
  <1>13. good \in BOOLEAN /\ (~ code) \in BOOLEAN
    BY Zenon DEF good
  <1>14. /\ t.idx = k /\ t.files = files /\ t.dropped = ids /\ t.changed = changed
         /\ t.good = good
    OBVIOUS
  <1>15. t \in Tasks
    BY <1>6, <1>7, <1>8, <1>13 DEF Tasks
  <1> HIDE DEF t
  <1>16. TaskFits(t, k, c)
    BY <1>9, <1>10, <1>11, <1>12, <1>14, <1>15 DEF TaskFits
  <1> QED BY <1>16 DEF t, files, ids, changed, good, D, dropped

\* What the step does to the events, n of them, and to the tasks, m of them.
Drops(k, c, t, n, m) ==
  /\ n = Len(events) /\ n \in Nat /\ m = Len(tasks) /\ m \in Nat
  /\ k \in 1 .. MaxEvents /\ c \in 1 .. n
  /\ \A i \in 1 .. n : i < c => Rank(events, i) < k
  /\ \A i \in 1 .. n : i >= c /\ Rank(events, i) < k => k = 1
  /\ events[c].shown => Rank(events, c) = k
  /\ events' \in Seq(UserEvents) /\ Len(events') = c - 1 /\ DOMAIN events' = 1 .. c - 1
  /\ \A i \in 1 .. c - 1 : i \in 1 .. n /\ events'[i] = events[i]
                           /\ Rank(events', i) = Rank(events, i)
  /\ tasks' \in Seq(Tasks) /\ Len(tasks') = m + 1 /\ DOMAIN tasks' = 1 .. m + 1
  /\ \A j \in 1 .. m : tasks'[j] = tasks[j]
  /\ tasks'[m + 1] = t /\ t \in Tasks /\ t.idx = k
  /\ TaskFits(t, k, c)
  /\ UNCHANGED <<work, ref, phase, active, index, tools, after, orphans, gone, stale>>
  /\ used' \in [edits : Nat, events : 0 .. MaxEvents, rewinds : Nat, escs : Nat, fails : Nat]
  /\ used'.events = used.events /\ phase = "idle"

\* A rewind cuts the events at the k-th that is shown and adds its task.
LEMMA RewindDrops ==
  ASSUME Good, NEW k, NEW code \in BOOLEAN, Rewind(k, code)
  PROVE  \E c, t, n, m : Drops(k, c, t, n, m)
  <1> DEFINE dropped == SubSeq(events, Cutoff(k), Len(events))
             new == [idx |-> k, files |-> Touched(dropped), restored |-> ~ code,
                     dropped |-> {dropped[i].id : i \in DOMAIN dropped},
                     changed |-> UNION {dropped[i].changed : i \in DOMAIN dropped},
                     good |-> \A i \in DOMAIN dropped : dropped[i].shown /\ dropped[i].sound]
  <1>1. /\ Len(events) \in Nat /\ DOMAIN events = 1 .. Len(events) /\ events \in Seq(UserEvents)
        /\ Len(tasks) \in Nat /\ tasks \in Seq(Tasks)
        /\ k \in 1 .. Visible /\ k \in 1 .. MaxEvents
    <2>1. k \in 1 .. Visible
      BY DEF Rewind
    <2>2. Visible \in 0 .. MaxEvents
      BY VisibleInRange DEF Good, EventsFit
    <2>3. k \in 1 .. MaxEvents
      BY <2>1, <2>2, CheckpointsAssumption
    <2> QED BY <2>1, <2>3 DEF Good, TypeOK
  <1>2. PICK c : c = Cutoff(k)
    OBVIOUS
  <1>3. PICK t : t = new
    OBVIOUS
  <1>4. PICK n, m : n = Len(events) /\ m = Len(tasks)
    OBVIOUS
  <1>5. /\ c \in 1 .. n
        /\ \A i \in 1 .. n : i < c => Rank(events, i) < k
        /\ \A i \in 1 .. n : i >= c /\ Rank(events, i) < k => k = 1
        /\ events[c].shown => Rank(events, c) = k
    BY <1>1, <1>2, <1>4, CutoffIsRank DEF Good
  <1>6. TaskFits(t, k, c)
    BY <1>1, <1>2, <1>3, <1>4, <1>5, RewindTask
  <1>7. /\ events' = SubSeq(events, 1, c - 1) /\ tasks' = Append(tasks, t)
    BY <1>2, <1>3 DEF Rewind
  <1>8. /\ events' \in Seq(UserEvents) /\ Len(events') = c - 1 /\ DOMAIN events' = 1 .. c - 1
        /\ \A i \in 1 .. c - 1 : i \in 1 .. n /\ events'[i] = events[i]
    BY <1>1, <1>4, <1>5, <1>7
  <1>9. ASSUME NEW i \in 1 .. c - 1 PROVE Rank(events', i) = Rank(events, i)
    <2>1. i \in Nat /\ \A j \in 1 .. i : j \in 1 .. c - 1
      BY <1>1, <1>4, <1>5
    <2>2. \A j \in 1 .. i : events'[j].shown = events[j].shown
      BY <1>8, <2>1
    <2> QED BY <2>1, <2>2, RankAgrees, Zenon
  <1>10. /\ tasks' \in Seq(Tasks) /\ Len(tasks') = m + 1 /\ DOMAIN tasks' = 1 .. m + 1
         /\ \A j \in 1 .. m : tasks'[j] = tasks[j]
         /\ tasks'[m + 1] = t /\ t \in Tasks /\ t.idx = k
    BY <1>1, <1>4, <1>6, <1>7, AppendProperties DEF TaskFits
  <1>11. /\ UNCHANGED <<work, ref, phase, active, index, tools, after, orphans, gone, stale>>
         /\ phase = "idle"
    BY DEF Rewind, turn
  <1>12. /\ used' \in [edits : Nat, events : 0 .. MaxEvents, rewinds : Nat, escs : Nat, fails : Nat]
         /\ used'.events = used.events
    BY OnceType DEF Rewind, Good
  <1>13. Drops(k, c, t, n, m)
    BY <1>1, <1>4, <1>5, <1>6, <1>8, <1>9, <1>10, <1>11, <1>12 DEF Drops
  <1> QED BY <1>13

\* What is left of the events, and the new task, keep the invariant.
LEMMA RewindStep ==
  ASSUME Good, NEW k, NEW c, NEW t, NEW n, NEW m, Drops(k, c, t, n, m)
  PROVE  Good'
  <1>1. /\ n \in Nat /\ DOMAIN events = 1 .. n /\ events \in Seq(UserEvents)
        /\ m \in Nat /\ DOMAIN tasks = 1 .. m /\ tasks \in Seq(Tasks)
        /\ n = Len(events) /\ m = Len(tasks)
        /\ \A i \in DOMAIN events : events[i] \in UserEvents
        /\ k \in 1 .. MaxEvents
    BY DEF Good, TypeOK, Drops
  <1>2. /\ c \in 1 .. n
        /\ \A i \in 1 .. n : i < c => Rank(events, i) < k
        /\ \A i \in 1 .. n : i >= c /\ Rank(events, i) < k => k = 1
        /\ events[c].shown => Rank(events, c) = k
    BY DEF Drops
  <1>3. /\ \A b : b \in t.dropped <=> \E i \in c .. n : events[i].id = b
        /\ t.good => \A i \in c .. n : events[i].shown /\ events[i].sound
        /\ \/ t.files = None
           \/ \A i \in c .. n : events[i].shown => events[i].touched \subseteq t.files
                                                   /\ events[i].touched # None
        /\ t.good /\ t.files # None => t.files \subseteq t.changed
    BY <1>1 DEF Drops, TaskFits
  <1>5. /\ events' \in Seq(UserEvents) /\ Len(events') = c - 1 /\ DOMAIN events' = 1 .. c - 1
        /\ \A i \in 1 .. c - 1 : i \in 1 .. n /\ events'[i] = events[i] /\ i < c
    BY <1>1, <1>2 DEF Drops
  <1>6. \A i \in 1 .. c - 1 : Rank(events', i) = Rank(events, i)
    BY DEF Drops
  <1>7. /\ tasks' \in Seq(Tasks) /\ Len(tasks') = m + 1 /\ DOMAIN tasks' = 1 .. m + 1
        /\ \A j \in 1 .. m : tasks'[j] = tasks[j]
        /\ tasks'[m + 1] = t /\ t \in Tasks /\ t.idx = k
    BY DEF Drops
  <1>8. /\ UNCHANGED <<work, ref, phase, active, index, tools, after, orphans, gone, stale>>
        /\ used' \in [edits : Nat, events : 0 .. MaxEvents, rewinds : Nat, escs : Nat, fails : Nat]
        /\ used'.events = used.events /\ phase = "idle"
    BY DEF Drops
  <1> DEFINE pending == t.good /\ ~ t.restored
  <1>9. /\ \A j \in 1 .. m : Pending(j)' <=> Pending(j)
        /\ Pending(m + 1)' <=> pending
    BY <1>7 DEF Pending
  <1>10. /\ \A b : \A j \in 0 .. m : LostBy(b, j)' <=> LostBy(b, j)
         /\ \A b : LostBy(b, m + 1)' <=> LostBy(b, m) \/ (pending /\ b \in t.dropped)
    <2>1. ASSUME NEW b, NEW j \in 0 .. m PROVE LostBy(b, j)' <=> LostBy(b, j)
      <3>1. \A i \in 1 .. j : i \in 1 .. m
        BY <1>1
      <3> QED BY <1>7, <1>8, <1>9, <3>1 DEF LostBy
    <2>2. ASSUME NEW b
          PROVE  LostBy(b, m + 1)' <=> LostBy(b, m) \/ (pending /\ b \in t.dropped)
      <3>1. 1 .. m + 1 = (1 .. m) \cup {m + 1}
        BY <1>1
      <3> QED BY <1>7, <1>8, <1>9, <3>1 DEF LostBy
    <2> QED BY <2>1, <2>2
  <1> HIDE DEF pending
  <1>11. \A b \in t.dropped : b \in Nat /\ b >= events[c].id
    <2>1. ASSUME NEW i \in c .. n PROVE events[i].id \in Nat /\ events[i].id >= events[c].id
      <3>1. i \in DOMAIN events /\ c \in DOMAIN events /\ (i = c \/ c < i)
        BY <1>1, <1>2
      <3>2. events[i].id \in Nat /\ events[c].id \in Nat
        BY <1>1, <3>1 DEF UserEvents
      <3>3. c < i => events[c].id < events[i].id
        BY <3>1 DEF Good, EventsFit, IdsAscend
      <3> QED BY <3>1, <3>2, <3>3
    <2> QED BY <1>3, <2>1
  <1>12. TypeOK'
    BY <1>5, <1>7, <1>8 DEF Good, TypeOK
  \* What is said of the events holds of those that are left.
  <1>13. IdsAscend(events, used.events)'
    <2>1. c - 1 <= used.events
      BY <1>1, <1>2 DEF Good, EventsFit, IdsAscend, TypeOK
    <2> QED BY <1>1, <1>5, <1>8, <2>1 DEF Good, EventsFit, IdsAscend
  <1>14. WorkCounted(events, used.events)' /\ RefsCounted(events, used.events)'
    <2>1. ASSUME NEW x, NEW f, Counted(x, f, events, used.events)
          PROVE  Counted(x, f, events', used.events)
      BY <1>1, <1>5, <2>1 DEF Counted
    <2>2. \A j : Saved(j)' <=> Saved(j)
      BY <1>8 DEF Saved
    <2> QED BY <1>8, <2>1, <2>2 DEF Good, EventsFit, WorkCounted, RefsCounted, Counted
  <1>15. CountsAreTrue(events)'
    BY <1>1, <1>5 DEF Good, EventsFit, CountsAreTrue
  <1>16. LostWere(used.events)'
    <2>1. t.dropped \subseteq 1 .. used.events
      BY <1>1, <1>2, <1>3 DEF Good, EventsFit, IdsAscend
    <2> QED BY <1>1, <1>7, <1>8, <2>1 DEF Good, EventsFit, LostWere
  <1>17. LostAreOut(events)'
    <2> SUFFICES ASSUME NEW i \in 1 .. c - 1, NEW b, b = events[i].id PROVE ~ LostBy(b, m + 1)'
      BY <1>5, <1>7 DEF LostAreOut
    <2>1. ~ LostBy(events[i].id, m)
      BY <1>1, <1>5 DEF Good, EventsFit, LostAreOut
    <2>2. events[i].id < events[c].id /\ events[i].id \in Nat /\ events[c].id \in Nat
      BY <1>1, <1>2, <1>5 DEF Good, EventsFit, IdsAscend, UserEvents
    <2> QED BY <1>10, <1>11, <2>1, <2>2
  <1>18. SoundIsSaved(events)'
    <2> SUFFICES ASSUME NEW d \in 1 .. c - 1, events[d].shown, events[d].sound
                 PROVE  LET r == Rank(events, d)
                        IN  /\ Saved(r)
                            /\ \A j \in 1 .. m + 1 : r < tasks'[j].idx
                            /\ \/ SavedBefore(r, events[d].id)
                               \/ \E h \in 1 .. c - 1 : d < h /\ ~ events[h].shown
                                                      /\ Rank(events, h) = r
      BY <1>5, <1>6, <1>7, <1>8 DEF SoundIsSaved, Saved, SavedBefore
    <2> DEFINE r == Rank(events, d)
    <2>1. /\ Saved(r)
          /\ \A j \in 1 .. m : r < tasks[j].idx
          /\ \/ SavedBefore(r, events[d].id)
             \/ \E h \in 1 .. n : d < h /\ ~ events[h].shown /\ Rank(events, h) = r
      BY <1>1, <1>5 DEF Good, EventsFit, SoundIsSaved
    <2>2. r < k /\ r \in 1 .. MaxEvents
      BY <1>2, <1>5, <2>1 DEF Saved, Good, TypeOK
    <2> HIDE DEF r
    <2>3. \A h \in 1 .. n : ~ (h >= c) => h \in 1 .. c - 1
      BY <1>1, <1>2
    <2>4. ASSUME NEW h \in 1 .. n, Rank(events, h) = r PROVE h \in 1 .. c - 1
      <3>1. ~ (h >= c)
        BY <1>2, <2>2, <2>4
      <3> QED BY <2>3, <3>1
    <2>5. \A j \in 1 .. m + 1 : r < tasks'[j].idx
      <3>1. ASSUME NEW j \in 1 .. m + 1, j # m + 1 PROVE j \in 1 .. m
        BY <1>1, <3>1
      <3> QED BY <1>7, <2>1, <2>2, <3>1
    <2>6. \/ SavedBefore(r, events[d].id)
          \/ \E h \in 1 .. c - 1 : d < h /\ ~ events[h].shown /\ Rank(events, h) = r
      BY <2>1, <2>4
    <2> QED BY <2>1, <2>5, <2>6 DEF r
  <1>19. LaterIsLater(events)'
    BY <1>1, <1>5, <1>6, <1>8 DEF Good, EventsFit, LaterIsLater, Saved, SavedBefore
  \* The new task undoes what the checkpoint before it does not hold.
  <1>20. ASSUME pending
         PROVE  /\ Saved(k) /\ \A j \in 1 .. m : k < tasks[j].idx
                /\ \A x \in DOMAIN ref, f \in Files :
                     Saved(x) /\ x <= k => ref[x][f].by \notin t.dropped
    <2>1. \A i \in c .. n : events[i].shown /\ events[i].sound
      BY <1>3, <1>20 DEF pending
    <2>2. events[c].shown /\ events[c].sound /\ Rank(events, c) = k /\ c \in DOMAIN events
      BY <1>1, <1>2, <2>1
    <2>3. /\ Saved(k) /\ \A j \in 1 .. m : k < tasks[j].idx
          /\ \/ SavedBefore(k, events[c].id)
             \/ \E h \in 1 .. n : c < h /\ ~ events[h].shown /\ Rank(events, h) = k
      BY <1>1, <2>2 DEF Good, EventsFit, SoundIsSaved
    <2>4. SavedBefore(k, events[c].id)
      BY <1>1, <1>2, <2>1, <2>3
    <2>5. ASSUME NEW x \in DOMAIN ref, Saved(x), x <= k
          PROVE  SavedBefore(x, events[c].id)
      <3>1. x = k \/ x < Rank(events, c)
        BY <1>1, <2>2, <2>5 DEF Good, TypeOK
      <3> QED BY <2>2, <2>4, <2>5, <3>1 DEF Good, EventsFit, LaterIsLater
    <2>6. \A x \in DOMAIN ref, f \in Files : Saved(x) => ref[x][f] \in Contents
      BY DEF Good, TypeOK, Trees, Saved
    <2>7. events[c].id \in Nat
      BY <1>1, <2>2 DEF UserEvents
    <2> QED BY <1>11, <2>3, <2>5, <2>6, <2>7 DEF SavedBefore, Contents
  <1>21. DropsFit'
    <2>1. ASSUME NEW x, NEW f \in Files, Counted(x, f, events, used.events), DroppedFits(x, f)
          PROVE  \A j \in 1 .. m + 1 : Pending(j)' /\ x.by \in tasks'[j].dropped =>
                   tasks'[j].files = None \/ f \in tasks'[j].files
      <3>1. ASSUME pending, x.by \in t.dropped
            PROVE  t.files = None \/ f \in t.files
        <4>1. PICK i \in c .. n : events[i].id = x.by
          BY <1>3, <3>1
        <4>2. events[i].shown /\ events[i].sound /\ i \in DOMAIN events
          BY <1>1, <1>2, <1>3, <3>1 DEF pending
        <4>3. events[i].touched = None \/ f \in events[i].touched
          BY <2>1, <4>1, <4>2 DEF Counted
        <4> QED BY <1>3, <4>2, <4>3
      <3>2. 1 .. m + 1 = (1 .. m) \cup {m + 1}
        BY <1>1
      <3> QED BY <1>1, <1>7, <1>9, <2>1, <3>1, <3>2 DEF DroppedFits
    <2>2. ASSUME NEW f \in Files PROVE DroppedFits(work[f], f)'
      <3>1. Counted(work[f], f, events, used.events) /\ DroppedFits(work[f], f)
        BY DEF Good, EventsFit, TasksFit, WorkCounted, DropsFit
      <3> QED BY <1>7, <1>8, <2>1, <3>1 DEF DroppedFits
    <2>3. ASSUME NEW f \in Files, NEW x \in DOMAIN ref, Saved(x) PROVE DroppedFits(ref[x][f], f)'
      <3>1. Counted(ref[x][f], f, events, used.events) /\ DroppedFits(ref[x][f], f)
        BY <2>3 DEF Good, EventsFit, TasksFit, RefsCounted, DropsFit
      <3> QED BY <1>7, <1>8, <2>1, <3>1 DEF DroppedFits
    <2>4. ref' = ref /\ \A x : Saved(x)' <=> Saved(x)
      BY <1>8 DEF Saved
    <2> QED BY <2>2, <2>3, <2>4 DEF DropsFit
  <1>22. FilesAreTrue'
    BY <1>1, <1>3, <1>7 DEF Good, TasksFit, FilesAreTrue
  <1>23. WorkClean'
    BY <1>8 DEF Good, TasksFit, WorkClean
  <1>24. RefsClean'
    <2>1. ASSUME NEW x \in DOMAIN ref, Saved(x), x \notin stale
          PROVE  \/ \A f \in Files : \A b : b = ref[x][f].by => ~ LostBy(b, m + 1)'
                 \/ \E i \in 1 .. m + 1 : tasks'[i].idx < x
      <3>1. CASE x > k
        BY <1>1, <1>7, <3>1
      <3>2. CASE x <= k
        <4>1. \/ \A f \in Files : ~ LostBy(ref[x][f].by, m)
              \/ \E i \in 1 .. m : tasks[i].idx < x
          BY <1>1, <2>1 DEF Good, TasksFit, RefsClean, Clean
        <4>2. CASE \A f \in Files : ~ LostBy(ref[x][f].by, m)
          BY <1>10, <1>20, <2>1, <3>2, <4>2
        <4>3. CASE \E i \in 1 .. m : tasks[i].idx < x
          BY <1>1, <1>7, <4>3
        <4> QED BY <4>1, <4>2, <4>3
      <3> QED BY <1>1, <2>1, <3>1, <3>2 DEF Good, TypeOK
    <2>2. ref' = ref /\ stale' = stale /\ \A x : Saved(x)' <=> Saved(x)
      BY <1>8 DEF Saved
    <2>3. ASSUME NEW x \in DOMAIN ref PROVE Clean(x, m + 1)'
      BY <2>1, <2>2 DEF Clean
    <2>4. ASSUME NEW j \in 1 .. m PROVE Clean(tasks[j].idx, j)'
      <3>1. Clean(tasks[j].idx, j) /\ tasks[j] \in Tasks
        BY <1>1 DEF Good, TasksFit, RefsClean
      <3>2. \A i \in 1 .. j : tasks'[i] = tasks[i]
        BY <1>1, <1>7
      <3>3. j \in 0 .. m /\ tasks'[j] = tasks[j]
        BY <1>1, <1>7
      <3>4. \A b : LostBy(b, j)' <=> LostBy(b, j)
        BY <1>10, <3>3
      <3> QED BY <1>8, <2>2, <3>1, <3>2, <3>3, <3>4 DEF Clean
    <2>5. k \in DOMAIN ref
      BY <1>1 DEF Good, TypeOK
    <2>6. (\A j \in DOMAIN tasks : Clean(tasks[j].idx, j))'
      <3> SUFFICES ASSUME NEW j \in 1 .. m + 1, NEW x, x = tasks'[j].idx
                   PROVE  Clean(x, j)'
        BY <1>7
      <3>1. CASE j = m + 1
        <4>1. x \in DOMAIN ref
          BY <1>7, <2>5, <3>1
        <4> QED BY <2>3, <3>1, <4>1
      <3>2. CASE j # m + 1
        <4>1. j \in 1 .. m
          BY <1>1, <3>2
        <4>2. x = tasks[j].idx
          BY <1>7, <4>1
        <4> QED BY <2>4, <4>1, <4>2
      <3> QED BY <3>1, <3>2
    <2>7. (\A x \in DOMAIN ref : Clean(x, Len(tasks)))'
      <3>1. DOMAIN ref' = DOMAIN ref /\ Len(tasks') = m + 1
        BY <1>7, <2>2
      <3> QED BY <2>3, <3>1
    <2> QED BY <2>6, <2>7 DEF RefsClean
  <1>25. PendingIsSaved'
    <2>1. \A x : Saved(x)' <=> Saved(x)
      BY <1>8 DEF Saved
    <2> QED BY <1>1, <1>7, <1>8, <1>9, <1>20, <2>1
            DEF Good, TasksFit, PendingIsSaved, Saved
  <1>26. TurnFits'
    BY <1>8 DEF TurnFits
  <1> QED BY <1>8, <1>12, <1>13, <1>14, <1>15, <1>16, <1>17, <1>18, <1>19, <1>21, <1>22, <1>23,
             <1>24, <1>25, <1>26 DEF Good, EventsFit, TasksFit

-----------------------------------------------------------------------------
(* The tasks of rewinds.                                                   *)

\* The oldest task comes to the end of its restore.  What it has changed comes
\* from its checkpoint; what it has undone are turns it has dropped.
LEMMA RestoreKeeps ==
  ASSUME Good, tasks # <<>>, ~ Head(tasks).restored,
         tasks' = [tasks EXCEPT ![1].restored = TRUE],
         UNCHANGED <<ref, events, turn, orphans, stale>>,
         used' \in [edits : Nat, events : 0 .. MaxEvents, rewinds : Nat, escs : Nat, fails : Nat],
         used'.events = used.events, work' \in Trees,
         \A f \in Files : \/ work'[f] = work[f]
                          \/ Saved(tasks[1].idx) /\ work'[f] = ref[tasks[1].idx][f]
                          \/ work'[f] = Removed,
         \A b \in gone' : b \in gone \/ (Pending(1) /\ b \in tasks[1].dropped),
         WorkClean'
  PROVE  Good'
  <1> DEFINE same(j) == /\ tasks'[j].idx = tasks[j].idx /\ tasks'[j].files = tasks[j].files
                        /\ tasks'[j].dropped = tasks[j].dropped
                        /\ tasks'[j].changed = tasks[j].changed
                        /\ tasks'[j].good = tasks[j].good
  <1>1. /\ tasks \in Seq(Tasks) /\ Len(tasks) \in Nat /\ DOMAIN tasks = 1 .. Len(tasks)
        /\ 1 \in DOMAIN tasks
        /\ \A j \in DOMAIN tasks : tasks[j] \in Tasks
        /\ \A j \in DOMAIN tasks : tasks[j].idx \in 1 .. MaxEvents /\ tasks[j].dropped \subseteq Nat
    <2>1. tasks \in Seq(Tasks)
      BY DEF Good, TypeOK
    <2>2. /\ Len(tasks) \in Nat /\ DOMAIN tasks = 1 .. Len(tasks) /\ 1 \in DOMAIN tasks
          /\ \A j \in DOMAIN tasks : tasks[j] \in Tasks
      BY <2>1
    <2> QED BY <2>1, <2>2 DEF Tasks
  <1>2. /\ tasks' \in Seq(Tasks) /\ Len(tasks') = Len(tasks) /\ DOMAIN tasks' = DOMAIN tasks
        /\ \A j \in DOMAIN tasks : same(j)
        /\ \A j \in DOMAIN tasks : j # 1 => tasks'[j] = tasks[j]
        /\ tasks'[1].restored = TRUE
    <2>1. /\ tasks[1] \in Tasks /\ [tasks[1] EXCEPT !.restored = TRUE] \in Tasks
      BY <1>1 DEF Tasks
    <2>2. tasks' = [tasks EXCEPT ![1] = [tasks[1] EXCEPT !.restored = TRUE]]
      BY <1>1
    <2>3. /\ tasks' \in Seq(Tasks) /\ Len(tasks') = Len(tasks) /\ DOMAIN tasks' = DOMAIN tasks
          /\ \A j \in DOMAIN tasks : j # 1 => tasks'[j] = tasks[j]
          /\ tasks'[1] = [tasks[1] EXCEPT !.restored = TRUE]
      BY <1>1, <2>1, <2>2
    <2>4. same(1) /\ tasks'[1].restored = TRUE
      BY <2>1, <2>3 DEF Tasks
    <2> QED BY <2>3, <2>4
  <1> HIDE DEF same
  <1>3. /\ \A j \in DOMAIN tasks : Pending(j)' => Pending(j)
        /\ \A j \in DOMAIN tasks : j # 1 => (Pending(j)' <=> Pending(j))
        /\ ~ Pending(1)'
    BY <1>1, <1>2 DEF Pending, same
  <1>4. UNCHANGED <<ref, events, phase, active, index, tools, after, orphans, stale>>
    BY DEF turn
  <1>a. /\ Removed.by = 0 /\ used.events \in Nat
        /\ \A i \in DOMAIN events : events[i].id # 0
        /\ \A j \in DOMAIN tasks : 0 \notin tasks[j].dropped
    BY DEF Removed, Good, TypeOK, EventsFit, IdsAscend, LostWere
  <1>5. ASSUME NEW b, NEW j \in DOMAIN tasks, LostBy(b, j)' PROVE LostBy(b, j)
    <2>1. 1 \in 1 .. j /\ \A i \in 1 .. j : i \in DOMAIN tasks
      BY <1>1
    <2> QED BY <1>2, <1>3, <1>5, <2>1 DEF LostBy, same
  <1>6. TypeOK'
    <2>1. gone' \subseteq Nat
      BY <1>1 DEF Good, TypeOK
    <2> QED BY <1>2, <1>4, <2>1 DEF Good, TypeOK
  <1>7. Len(tasks) \in DOMAIN tasks
    BY <1>1
  <1>8. \A x : Saved(x)' <=> Saved(x)
    BY <1>4 DEF Saved
  <1>9. IdsAscend(events, used.events)' /\ CountsAreTrue(events)'
    BY <1>4 DEF Good, EventsFit, IdsAscend, CountsAreTrue
  <1>10. RefsCounted(events, used.events)' /\ LaterIsLater(events)'
    BY <1>4, <1>8 DEF Good, EventsFit, RefsCounted, Counted, LaterIsLater, SavedBefore
  <1>11. WorkCounted(events, used.events)'
    <2>1. \A f \in Files : /\ Counted(work[f], f, events, used.events)
                           /\ \A x : Saved(x) => Counted(ref[x][f], f, events, used.events)
      BY DEF Good, EventsFit, WorkCounted, RefsCounted, Saved
    <2>2. \A f \in Files : Counted(Removed, f, events, used.events)
      BY <1>a DEF Counted
    <2>3. \A f \in Files : Counted(work'[f], f, events, used.events)
      BY <2>1, <2>2
    <2> QED BY <1>4, <2>3 DEF WorkCounted, Counted
  <1>12. LostWere(used.events)'
    BY <1>1, <1>2, <1>4 DEF Good, EventsFit, LostWere, same
  <1>13. LostAreOut(events)'
    BY <1>2, <1>4, <1>5, <1>7 DEF Good, EventsFit, LostAreOut
  <1>14. SoundIsSaved(events)'
    BY <1>2, <1>4, <1>8 DEF Good, EventsFit, SoundIsSaved, SavedBefore, same
  <1>15. DropsFit'
    <2>1. \A f \in Files : /\ DroppedFits(work[f], f)
                           /\ \A x : Saved(x) => DroppedFits(ref[x][f], f)
      BY DEF Good, TasksFit, DropsFit, Saved
    <2>4. \A f \in Files : DroppedFits(Removed, f)
      BY <1>a DEF DroppedFits
    <2>2. \A f \in Files : DroppedFits(work'[f], f)
      BY <2>1, <2>4
    <2>3. ASSUME NEW x, NEW f, DroppedFits(x, f)
          PROVE  \A j \in DOMAIN tasks : Pending(j)' /\ x.by \in tasks'[j].dropped =>
                   tasks'[j].files = None \/ f \in tasks'[j].files
      BY <1>2, <1>3, <2>3 DEF DroppedFits, same
    <2> QED BY <1>2, <1>4, <1>8, <2>1, <2>2, <2>3 DEF DropsFit, DroppedFits
  <1>16. FilesAreTrue'
    BY <1>2 DEF Good, TasksFit, FilesAreTrue, same
  <1>17. RefsClean'
    <2>1. ASSUME NEW x \in DOMAIN ref, NEW j \in DOMAIN tasks, Clean(x, j)
          PROVE  Clean(x, j)'
      <3>1. \A i \in 1 .. j : tasks'[i].idx = tasks[i].idx
        BY <1>1, <1>2 DEF same
      <3> QED BY <1>4, <1>5, <1>8, <2>1, <3>1 DEF Clean
    <2>2. \A j \in DOMAIN tasks : tasks[j].idx \in DOMAIN ref
      BY <1>1 DEF Good, TypeOK
    <2> QED BY <1>2, <1>4, <1>7, <2>1, <2>2 DEF Good, TasksFit, RefsClean, same
  <1>18. PendingIsSaved'
    BY <1>2, <1>3, <1>8 DEF Good, TasksFit, PendingIsSaved, same
  <1>19. TurnFits'
    <2> SUFFICES ASSUME phase # "idle" PROVE TurnFits'
      BY <1>4 DEF TurnFits
    <2>1. phase = "barrier"
      BY DEF Good, TurnFits, TypeOK
    <2>a. 0 < active
      <3>1. active = used.events /\ Len(events) \in DOMAIN events
        BY <2>1, ActiveIsLast
      <3> QED BY <3>1 DEF Good, EventsFit, IdsAscend, TypeOK
    <2>2. \A f \in Files : work'[f].by < active
      BY <1>a, <2>1, <2>a DEF Good, TurnFits, Saved, SavedBefore
    <2> QED BY <1>4, <1>8, <2>1, <2>2 DEF Good, TurnFits, SavedBefore
  <1> QED BY <1>4, <1>6, <1>9, <1>10, <1>11, <1>12, <1>13, <1>14, <1>15, <1>16, <1>17, <1>18, <1>19
          DEF Good, EventsFit, TasksFit

\* Unless it is stale, the checkpoint a task restores from holds nothing undone.
LEMMA RestoredClean ==
  ASSUME Good, tasks # <<>>, Saved(tasks[1].idx), tasks[1].idx \notin stale
  PROVE  \A f \in Files : ~ LostBy(ref[tasks[1].idx][f].by, 1)
  <1> DEFINE t == tasks[1]
  <1>1. tasks \in Seq(Tasks) /\ 1 \in DOMAIN tasks /\ t \in Tasks
    BY DEF Good, TypeOK
  <1>2. \/ \A g \in Files : ~ LostBy(ref[t.idx][g].by, 1)
        \/ \E i \in 1 .. 1 : tasks[i].idx < t.idx
    BY <1>1 DEF Good, TasksFit, RefsClean, Clean
  <1>3. ~ (t.idx < t.idx)
    BY <1>1 DEF Tasks
  <1> QED BY <1>2, <1>3

\* A restore that fails gives its promise up: nothing is undone.
LEMMA RestoreFailsStep ==
  ASSUME Good, RestoreFails, tasks[1].idx \notin stale PROVE Good'
  <1> DEFINE t == tasks[1]
  <1>1. /\ used' \in [edits : Nat, events : 0 .. MaxEvents, rewinds : Nat, escs : Nat, fails : Nat]
        /\ used'.events = used.events
    BY OnceType DEF RestoreFails, Fails, Good
  <1>2. /\ tasks # <<>> /\ ~ Head(tasks).restored
        /\ tasks' = [tasks EXCEPT ![1].restored = TRUE]
        /\ UNCHANGED <<ref, events, turn, orphans, stale>> /\ gone' = gone
    BY DEF RestoreFails, TaskRestored
  <1>3. /\ tasks \in Seq(Tasks) /\ 1 \in DOMAIN tasks /\ Head(tasks) = t /\ t \in Tasks
        /\ t.idx \in 1 .. MaxEvents /\ DOMAIN ref = 1 .. MaxEvents
    <2>1. tasks \in Seq(Tasks) /\ DOMAIN ref = 1 .. MaxEvents
      BY DEF Good, TypeOK
    <2>2. 1 \in DOMAIN tasks /\ Head(tasks) = t /\ t \in Tasks
      BY <1>2, <2>1
    <2> QED BY <2>1, <2>2 DEF Tasks
  <1>4. /\ work' \in Trees
        /\ \A f \in Files : \/ work'[f] = work[f]
                            \/ Saved(t.idx) /\ work'[f] = ref[t.idx][f]
                            \/ work'[f] = Removed
    <2>1. CASE \E part : work' = Restored(t.idx, part)
      <3>1. PICK part : work' = Restored(t.idx, part)
        BY <2>1
      <3>2. work' \in Trees
        BY <1>3, <3>1, RestoredType DEF Good
      <3>3. \A f \in Files : work'[f] = work[f] \/ (Saved(t.idx) /\ work'[f] = ref[t.idx][f])
        BY <1>3, <3>1 DEF Restored, Saved
      <3> QED BY <3>2, <3>3
    <2>2. CASE work' = [f \in Files |-> IF f \in t.files THEN Removed ELSE work[f]]
      <3>1. Removed \in Contents
        BY CheckpointsAssumption DEF Removed, Contents
      <3>2. work \in [Files -> Contents]
        BY DEF Good, TypeOK, Trees
      <3>3. work' \in Trees
        BY <2>2, <3>1, <3>2 DEF Trees
      <3>4. \A f \in Files : work'[f] = work[f] \/ work'[f] = Removed
        BY <2>2
      <3> QED BY <3>3, <3>4
    <2> QED BY <1>3, <2>1, <2>2 DEF RestoreFails
  <1>5. WorkClean'
    <2>1. WorkClean /\ 0 \notin gone /\ Removed.by = 0
      BY DEF Good, TasksFit, EventsFit, LostWere, Removed
    <2>2. Saved(t.idx) => \A f \in Files : ref[t.idx][f].by \notin gone
      BY <1>2, RestoredClean DEF LostBy
    <2> QED BY <1>2, <1>4, <2>1, <2>2 DEF WorkClean
  <1>6. \A b \in gone' : b \in gone \/ (Pending(1) /\ b \in tasks[1].dropped)
    BY <1>2, Zenon
  <1> QED BY <1>1, <1>2, <1>4, <1>5, <1>6, RestoreKeeps, Zenon

\* A restore leaves no change of a turn it undoes.
LEMMA RestoreRunsStep ==
  ASSUME Good, RestoreRuns, tasks[1].idx \notin stale PROVE Good'
  <1> DEFINE t == tasks[1]
  <1>1. /\ tasks # <<>> /\ tasks \in Seq(Tasks) /\ 1 \in DOMAIN tasks /\ Head(tasks) = t
        /\ t \in Tasks /\ ~ t.restored
    BY DEF RestoreRuns, TaskRestored, Good, TypeOK
  <1>2. /\ work' = Restored(t.idx, t.files)
        /\ gone' = IF t.good THEN gone \cup t.dropped ELSE gone
        /\ tasks' = [tasks EXCEPT ![1].restored = TRUE]
        /\ UNCHANGED <<ref, events, turn, orphans, stale, used>>
    BY <1>1 DEF RestoreRuns, TaskRestored
  <1>3. t.idx \in DOMAIN ref /\ (t.good => Pending(1))
    BY <1>1 DEF Pending, Tasks, Good, TypeOK
  <1>4. work' \in Trees
    BY <1>1, <1>2, RestoredType DEF Good, Tasks
  <1>5. \A f \in Files :
           work'[f] = IF Saved(t.idx) /\ (t.files = None \/ f \in t.files)
                      THEN ref[t.idx][f] ELSE work[f]
    BY <1>2, <1>3 DEF Restored, Saved
  <1> HIDE DEF t
  <1>6. \A b \in gone' : b \in gone \/ (Pending(1) /\ b \in t.dropped)
    BY <1>2, <1>3
  <1>7. WorkClean'
    <2>1. \A b \in gone' : LostBy(b, 1)
      BY <1>6 DEF LostBy, t
    <2> SUFFICES ASSUME NEW f \in Files PROVE work'[f].by \notin gone'
      BY DEF WorkClean
    <2>2. CASE Saved(t.idx) /\ (t.files = None \/ f \in t.files)
      <3>3. ~ LostBy(ref[t.idx][f].by, 1)
        BY <1>1, <2>2, RestoredClean DEF t
      <3> QED BY <1>5, <2>1, <2>2, <3>3
    <2>3. CASE ~ (Saved(t.idx) /\ (t.files = None \/ f \in t.files))
      <3>1. work'[f] = work[f] /\ work[f].by \notin gone
        BY <1>5, <2>3 DEF Good, TasksFit, WorkClean
      <3>2. ASSUME Pending(1) PROVE work[f].by \notin t.dropped
        <4>1. Saved(t.idx)
          BY <1>1, <3>2 DEF Good, TasksFit, PendingIsSaved, t
        <4>2. work[f].by \in t.dropped => t.files = None \/ f \in t.files
          BY <1>1, <3>2 DEF Good, TasksFit, DropsFit, DroppedFits, t
        <4> QED BY <2>3, <4>1, <4>2
      <3> QED BY <1>6, <3>1, <3>2
    <2> QED BY <2>2, <2>3
  <1>8. used' \in [edits : Nat, events : 0 .. MaxEvents, rewinds : Nat, escs : Nat, fails : Nat]
    <2>1. used \in [edits : Nat, events : 0 .. MaxEvents, rewinds : Nat, escs : Nat, fails : Nat]
      BY DEF Good, TypeOK
    <2>2. used' = used
      BY <1>2
    <2> QED BY <2>1, <2>2, Zenon
  <1>9. /\ ~ Head(tasks).restored
        /\ tasks' = [tasks EXCEPT ![1].restored = TRUE]
        /\ UNCHANGED <<ref, events, turn, orphans, stale>> /\ used'.events = used.events
    BY <1>1, <1>2
  <1>10. \A f \in Files : \/ work'[f] = work[f]
                          \/ Saved(tasks[1].idx) /\ work'[f] = ref[tasks[1].idx][f]
                          \/ work'[f] = Removed
    BY <1>5 DEF t
  <1>11. \A b \in gone' : b \in gone \/ (Pending(1) /\ b \in tasks[1].dropped)
    BY <1>6 DEF t
  <1> QED BY <1>1, <1>4, <1>7, <1>8, <1>9, <1>10, <1>11, RestoreKeeps, Zenon

\* A purge takes the checkpoints that hold changes of what is undone, or leaves
\* them stale.
LEMMA PurgeStep ==
  ASSUME Good, NEW kept, PurgesBut(kept),
         used' \in [edits : Nat, events : 0 .. MaxEvents, rewinds : Nat, escs : Nat, fails : Nat],
         used'.events = used.events
  PROVE  Good'
  <1> SUFFICES ASSUME NEW k, k = tasks[1].idx, NEW m, m = Len(tasks) - 1 PROVE Good'
    OBVIOUS
  <1>1. /\ tasks \in Seq(Tasks) /\ m \in Nat /\ DOMAIN tasks = 1 .. m + 1 /\ Len(tasks) = m + 1
        /\ tasks # <<>> /\ Head(tasks) = tasks[1] /\ tasks[1].restored
        /\ \A j \in 1 .. m + 1 : tasks[j] \in Tasks
    <2>1. tasks \in Seq(Tasks) /\ tasks # <<>> /\ Head(tasks).restored
      BY DEF PurgesBut, Good, TypeOK
    <2> QED BY <2>1
  <1>2. k \in 1 .. MaxEvents /\ \A j \in 1 .. m + 1 : tasks[j].idx \in 1 .. MaxEvents
    BY <1>1 DEF Tasks
  <1>3. /\ tasks' \in Seq(Tasks) /\ Len(tasks') = m /\ DOMAIN tasks' = 1 .. m
        /\ \A j \in 1 .. m : j + 1 \in 1 .. m + 1 /\ tasks'[j] = tasks[j + 1]
    <2>1. tasks' = Tail(tasks)
      BY DEF PurgesBut
    <2> QED BY <1>1, <2>1, HeadTailProperties
  <1>4. /\ ref' = Purged(k, kept)
        /\ stale' = {x \in DOMAIN ref : IF x > k THEN x \in kept ELSE x \in stale}
        /\ UNCHANGED <<work, events, phase, active, index, tools, after, orphans, gone>>
        /\ used'.events = used.events
    BY <1>1 DEF PurgesBut, turn
  <1>5. /\ ref' \in [1 .. MaxEvents -> Trees \cup {None}] /\ DOMAIN ref' = DOMAIN ref
        /\ DOMAIN ref = 1 .. MaxEvents
        /\ \A x \in DOMAIN ref : Saved(x)' => Saved(x) /\ ref'[x] = ref[x]
        /\ \A x \in DOMAIN ref : Saved(x)' /\ x \notin stale' => x <= k /\ x \notin stale
        /\ \A x \in DOMAIN ref : x <= k => ref'[x] = ref[x] /\ (Saved(x) => Saved(x)')
        /\ stale' \subseteq DOMAIN ref
    <2>1. /\ ref' \in [1 .. MaxEvents -> Trees \cup {None}] /\ DOMAIN ref = 1 .. MaxEvents
          /\ \A x \in 1 .. MaxEvents : ref'[x] = IF x > k /\ x \notin kept THEN None ELSE ref[x]
      <3>1. ref \in [1 .. MaxEvents -> Trees \cup {None}] /\ DOMAIN ref = 1 .. MaxEvents
        BY DEF Good, TypeOK
      <3>2. \A x \in 1 .. MaxEvents : ref'[x] = IF x > k /\ x \notin kept THEN None ELSE ref[x]
        BY <1>4, <3>1 DEF Purged
      <3>3. ref' = [x \in 1 .. MaxEvents |-> IF x > k /\ x \notin kept THEN None ELSE ref[x]]
        BY <1>4, <3>1 DEF Purged
      <3>4. ref' \in [1 .. MaxEvents -> Trees \cup {None}]
        BY <3>1, <3>3
      <3> QED BY <3>1, <3>2, <3>4
    <2>2. \A x \in DOMAIN ref : x <= k => ref'[x] = ref[x]
      BY <1>2, <2>1
    <2>3. \A x \in DOMAIN ref : Saved(x)' => Saved(x) /\ ref'[x] = ref[x]
      BY <2>1 DEF Saved
    <2>4. \A x \in DOMAIN ref : Saved(x)' /\ x \notin stale' => x <= k /\ x \notin stale
      BY <1>2, <1>4, <2>1 DEF Saved
    <2>5. DOMAIN ref' = DOMAIN ref
      BY <2>1
    <2>6. \A x \in DOMAIN ref : Saved(x) /\ ref'[x] = ref[x] => Saved(x)'
      BY <2>5 DEF Saved
    <2> QED BY <1>4, <2>1, <2>2, <2>3, <2>4, <2>5, <2>6
  <1>6. /\ \A j \in 1 .. m : Pending(j)' <=> Pending(j + 1)
        /\ ~ Pending(1)
    BY <1>1, <1>3 DEF Pending
  <1>7. ASSUME NEW b, NEW j \in 0 .. m PROVE LostBy(b, j)' <=> LostBy(b, j + 1)
    <2>1. ASSUME LostBy(b, j)' PROVE LostBy(b, j + 1)
      <3>1. CASE b \in gone
        BY <3>1 DEF LostBy
      <3>2. CASE b \notin gone
        <4>1. PICK i \in 1 .. j : Pending(i)' /\ b \in tasks'[i].dropped
          BY <1>4, <2>1, <3>2 DEF LostBy
        <4>2. i + 1 \in 1 .. j + 1 /\ Pending(i + 1) /\ b \in tasks[i + 1].dropped
          BY <1>1, <1>3, <1>6, <4>1
        <4> QED BY <4>2 DEF LostBy
      <3> QED BY <3>1, <3>2
    <2>2. ASSUME LostBy(b, j + 1) PROVE LostBy(b, j)'
      <3>1. CASE b \in gone
        BY <1>4, <3>1 DEF LostBy
      <3>2. CASE b \notin gone
        <4>1. PICK i \in 1 .. j + 1 : Pending(i) /\ b \in tasks[i].dropped
          BY <2>2, <3>2 DEF LostBy
        <4>2. i - 1 \in 1 .. j /\ i - 1 \in 1 .. m /\ (i - 1) + 1 = i
          BY <1>1, <1>6, <4>1
        <4>3. Pending(i - 1)' /\ b \in tasks'[i - 1].dropped
          BY <1>3, <1>6, <4>1, <4>2
        <4> QED BY <4>2, <4>3 DEF LostBy
      <3> QED BY <3>1, <3>2
    <2> QED BY <2>1, <2>2
  <1>8. TypeOK'
    BY <1>3, <1>4, <1>5 DEF Good, TypeOK
  <1>9. IdsAscend(events, used.events)' /\ CountsAreTrue(events)' /\ WorkCounted(events, used.events)'
    BY <1>4 DEF Good, EventsFit, IdsAscend, CountsAreTrue, WorkCounted, Counted
  <1>10. RefsCounted(events, used.events)' /\ LaterIsLater(events)'
    BY <1>4, <1>5 DEF Good, EventsFit, RefsCounted, Counted, LaterIsLater, SavedBefore
  <1>11. LostWere(used.events)'
    BY <1>1, <1>3, <1>4 DEF Good, EventsFit, LostWere
  <1>12. LostAreOut(events)'
    <2>1. m \in 0 .. m
      BY <1>1
    <2>2. \A b : LostBy(b, m)' <=> LostBy(b, m + 1)
      BY <1>7, <2>1
    <2> QED BY <1>1, <1>3, <1>4, <2>2 DEF Good, EventsFit, LostAreOut
  <1>13. SoundIsSaved(events)'
    <2> SUFFICES ASSUME NEW c \in DOMAIN events, NEW r, r = Rank(events, c),
                        events[c].shown, events[c].sound
                 PROVE  /\ Saved(r)'
                        /\ \A j \in 1 .. m : r < tasks'[j].idx
                        /\ \/ \A f \in Files : ref'[r][f].by < events[c].id
                           \/ \E h \in DOMAIN events : c < h /\ ~ events[h].shown
                                                      /\ Rank(events, h) = r
      BY <1>3, <1>4 DEF SoundIsSaved, SavedBefore
    <2>1. /\ Saved(r)
          /\ \A j \in 1 .. m + 1 : r < tasks[j].idx
          /\ \/ SavedBefore(r, events[c].id)
             \/ \E h \in DOMAIN events : c < h /\ ~ events[h].shown /\ Rank(events, h) = r
      BY <1>1 DEF Good, EventsFit, SoundIsSaved
    <2>2. r \in DOMAIN ref /\ r <= k
      BY <1>1, <1>2, <1>5, <2>1 DEF Saved
    <2> QED BY <1>3, <1>5, <2>1, <2>2 DEF SavedBefore
  <1>14. DropsFit'
    <2>1. ASSUME NEW x, NEW f, DroppedFits(x, f)
          PROVE  \A j \in 1 .. m : Pending(j)' /\ x.by \in tasks'[j].dropped =>
                   tasks'[j].files = None \/ f \in tasks'[j].files
      <3> SUFFICES ASSUME NEW j \in 1 .. m, Pending(j)', x.by \in tasks'[j].dropped
                   PROVE  tasks'[j].files = None \/ f \in tasks'[j].files
        OBVIOUS
      <3>1. j + 1 \in DOMAIN tasks /\ tasks'[j] = tasks[j + 1] /\ Pending(j + 1)
        BY <1>1, <1>3, <1>6
      <3> QED BY <2>1, <3>1 DEF DroppedFits
    <2>2. /\ \A f \in Files : DroppedFits(work[f], f)
          /\ \A f \in Files, x \in DOMAIN ref : Saved(x) => DroppedFits(ref[x][f], f)
      BY DEF Good, TasksFit, DropsFit
    <2>3. ASSUME NEW x, NEW f, DroppedFits(x, f)
          PROVE  \A y : y = x => DroppedFits(y, f)'
      BY <1>3, <2>1, <2>3 DEF DroppedFits
    <2>4. ASSUME NEW f \in Files PROVE DroppedFits(work[f], f)'
      BY <1>4, <2>2, <2>3
    <2>5. ASSUME NEW f \in Files, NEW x \in DOMAIN ref, Saved(x)' PROVE DroppedFits(ref[x][f], f)'
      <3>1. Saved(x) /\ ref'[x][f] = ref[x][f]
        BY <1>5, <2>5
      <3> QED BY <2>2, <2>3, <3>1
    <2> QED BY <1>5, <2>4, <2>5 DEF DropsFit
  <1>15. FilesAreTrue' /\ WorkClean'
    BY <1>1, <1>3, <1>4 DEF Good, TasksFit, FilesAreTrue, WorkClean
  <1>16. RefsClean'
    <2>1. ASSUME NEW x \in DOMAIN ref, NEW j \in 0 .. m, Clean(x, j + 1)
          PROVE  Clean(x, j)'
      <3> SUFFICES ASSUME Saved(x), x <= k, x \notin stale
                   PROVE  \/ \A f \in Files : \A b : b = ref[x][f].by => ~ LostBy(b, j)'
                          \/ \E i \in 1 .. j : tasks'[i].idx < x
        BY <1>5 DEF Clean
      <3>1. CASE \A f \in Files : ~ LostBy(ref[x][f].by, j + 1)
        BY <1>7, <3>1
      <3>2. CASE \E i \in 1 .. j + 1 : tasks[i].idx < x
        <4>1. PICK i \in 1 .. j + 1 : tasks[i].idx < x
          BY <3>2
        <4>2. i # 1
          BY <1>2, <1>5, <4>1
        <4>3. i - 1 \in 1 .. j /\ i - 1 \in 1 .. m /\ (i - 1) + 1 = i
          BY <1>1, <4>2
        <4>4. tasks'[i - 1].idx < x
          BY <1>3, <4>1, <4>3
        <4> QED BY <4>3, <4>4
      <3> QED BY <2>1, <3>1, <3>2 DEF Clean
    <2>2. ASSUME NEW j \in 1 .. m, NEW x, x = tasks'[j].idx PROVE Clean(x, j)'
      <3>1. x = tasks[j + 1].idx /\ j + 1 \in DOMAIN tasks /\ j \in 0 .. m
        BY <1>1, <1>3, <2>2
      <3>2. x \in DOMAIN ref
        BY <1>1, <1>5, <3>1 DEF Tasks
      <3>3. Clean(x, j + 1)
        BY <3>1 DEF Good, TasksFit, RefsClean
      <3> QED BY <2>1, <3>1, <3>2, <3>3
    <2>3. ASSUME NEW x \in DOMAIN ref PROVE Clean(x, m)'
      <3>1. m \in 0 .. m /\ Len(tasks) = m + 1
        BY <1>1
      <3>2. Clean(x, m + 1)
        BY <3>1 DEF Good, TasksFit, RefsClean
      <3> QED BY <2>1, <3>1, <3>2
    <2> QED BY <1>3, <1>5, <2>2, <2>3 DEF RefsClean
  <1>17. PendingIsSaved'
    <2> SUFFICES ASSUME NEW j \in 1 .. m, Pending(j)', NEW x, x = tasks'[j].idx
                 PROVE  /\ Saved(x)'
                        /\ \A i \in 1 .. m : i < j => x < tasks'[i].idx
      BY <1>3 DEF PendingIsSaved
    <2>1. /\ x = tasks[j + 1].idx /\ j + 1 \in 1 .. m + 1 /\ Pending(j + 1)
          /\ 1 \in 1 .. m + 1 /\ 1 < j + 1
      BY <1>1, <1>3, <1>6
    <2>2. /\ Saved(x)
          /\ \A i \in 1 .. m + 1 : i < j + 1 => x < tasks[i].idx
      BY <1>1, <2>1 DEF Good, TasksFit, PendingIsSaved
    <2>3. x \in DOMAIN ref /\ x <= k
      BY <1>1, <1>2, <1>5, <2>1, <2>2 DEF Saved
    <2> QED BY <1>1, <1>3, <1>5, <2>2, <2>3
  <1>18. TurnFits'
    <2> SUFFICES ASSUME phase # "idle" PROVE TurnFits'
      BY <1>4 DEF TurnFits
    <2>1. phase = "barrier"
      BY <1>1 DEF Good, TurnFits, TypeOK
    <2>2. \A x \in DOMAIN ref : Saved(x)' => \A f \in Files : ref'[x][f].by < active
      BY <1>5, <2>1 DEF Good, TurnFits, SavedBefore
    <2> QED BY <1>4, <1>5, <2>1, <2>2 DEF Good, TurnFits, SavedBefore
  <1> QED BY <1>4, <1>8, <1>9, <1>10, <1>11, <1>12, <1>13, <1>14, <1>15, <1>16, <1>17, <1>18
          DEF Good, EventsFit, TasksFit

\* So does one that git does, or in part.
LEMMA PurgesKeep == ASSUME Good, PurgeRuns \/ PurgeFails PROVE Good'
  <1>1. CASE PurgeRuns
    <2>1. PurgesBut({}) /\ used' = used
      BY <1>1 DEF PurgeRuns
    <2>2. used \in [edits : Nat, events : 0 .. MaxEvents, rewinds : Nat, escs : Nat, fails : Nat]
      BY DEF Good, TypeOK
    <2> QED BY <2>1, <2>2, PurgeStep
  <1>2. CASE PurgeFails
    <2>1. PICK kept : PurgesBut(kept)
      BY <1>2 DEF PurgeFails
    <2>2. /\ used' \in [edits : Nat, events : 0 .. MaxEvents, rewinds : Nat, escs : Nat, fails : Nat]
          /\ used'.events = used.events
      BY <1>2, OnceType DEF PurgeFails, Fails, Good
    <2> QED BY <2>1, <2>2, PurgeStep
  <1> QED BY <1>1, <1>2

-----------------------------------------------------------------------------
(* Every step, and what follows.                                           *)

\* At the start nothing is saved, written or undone.
LEMMA InitGood == Init => IInv
  <1> SUFFICES ASSUME Init PROVE cut \in BOOLEAN /\ Good
    BY DEF IInv
  <1>1. TypeOK
    <2>1. Original \in Contents /\ \A f \in Files : work[f] = Original
      BY DEF Init, Original, Contents
    <2>2. work \in Trees /\ ref \in [1 .. MaxEvents -> Trees \cup {None}]
      BY <2>1 DEF Init, Trees
    <2>3. /\ events \in Seq(UserEvents) /\ tasks \in Seq(Tasks)
          /\ used \in [edits : Nat, events : 0 .. MaxEvents, rewinds : Nat, escs : Nat, fails : Nat]
      BY CheckpointsAssumption DEF Init
    <2>4. /\ phase \in {"idle", "barrier", "creating", "running", "finalizing"}
          /\ active \in Nat /\ index \in 0 .. MaxEvents
          /\ after \in {"end", "shown", "hidden"} /\ gone \subseteq Nat
          /\ stale \subseteq 1 .. MaxEvents
      BY CheckpointsAssumption DEF Init
    <2>5. tools \in BOOLEAN
      BY Zenon DEF Init
    <2> QED BY <2>2, <2>3, <2>4, <2>5 DEF TypeOK
  <1>2. /\ events = <<>> /\ tasks = <<>> /\ gone = {} /\ used.events = 0
        /\ DOMAIN events = {} /\ DOMAIN tasks = {} /\ Len(events) = 0 /\ Len(tasks) = 0
        /\ \A k : ~ Saved(k)
        /\ \A f \in Files : work[f].by = 0
        /\ phase = "idle" /\ orphans = {} /\ cut = FALSE
    BY DEF Init, Saved, Original
  <1>3. \A f \in Files : DroppedFits(work[f], f) /\ Counted(work[f], f, events, used.events)
    BY <1>2 DEF DroppedFits, Counted
  <1>4. EventsFit(events, used.events)
    BY <1>2, <1>3 DEF EventsFit, IdsAscend, WorkCounted, RefsCounted, CountsAreTrue, LostWere,
                      LostAreOut, SoundIsSaved, LaterIsLater
  <1>5. TasksFit
    BY <1>2, <1>3 DEF TasksFit, DropsFit, FilesAreTrue, WorkClean, RefsClean, Clean, PendingIsSaved
  <1> QED BY <1>1, <1>2, <1>4, <1>5 DEF Good, TurnFits

\* The invariant is inductive.  Only an Esc in a task of git, or a stale
\* checkpoint that is restored, ends what it promises; no thread is left behind
\* before such an Esc.
LEMMA NextGood == IInv /\ [Next]_vars => IInv'
  <1> SUFFICES ASSUME IInv, [Next]_vars PROVE IInv'
    OBVIOUS
  <1>1. CASE cut
    <2>1. cut' = TRUE
      BY <1>1 DEF Next, vars, UserEdits, ToolEdits, Submit, BarrierPasses, EscEarly, EscInBarrier,
             CreateRuns, CreateFails, EscInCreate, Leaves, FinalizeRuns, FinalizeFails,
             EscInFinalize, Rewind, RestoreRuns, RestoreFails, TaskRestored, PurgeRuns, PurgeFails,
             PurgesBut, OrphanRuns
    <2> QED BY <1>1, <2>1 DEF IInv
  <1>2. CASE ~ cut
    <2> USE <1>2
    <2>0. Good /\ cut \in BOOLEAN
      BY DEF IInv
    <2>1. ASSUME NEW f \in Files, UserEdits(f) PROVE IInv'
      BY <2>0, <2>1, UserEditsStep DEF IInv, UserEdits
    <2>2. ASSUME NEW f \in Files, ToolEdits(f) PROVE IInv'
      BY <2>0, <2>2, ToolEditsStep DEF IInv, ToolEdits
    <2>3. ASSUME NEW shown \in BOOLEAN, Submit(shown) PROVE IInv'
      BY <2>0, <2>3, SubmitStep DEF IInv, Submit
    <2>4. CASE BarrierPasses
      BY <2>0, <2>4, BarrierPassesStep DEF IInv, BarrierPasses
    <2>5. CASE EscEarly
      BY <2>0, <2>5, EscEarlyStep DEF IInv, EscEarly
    <2>6. CASE EscInBarrier \/ EscInCreate
      BY <2>6 DEF IInv, EscInBarrier, EscInCreate
    <2>7. CASE CreateRuns
      BY <2>0, <2>7, CreateRunsStep DEF IInv, CreateRuns
    <2>8. CASE CreateFails
      BY <2>0, <2>8, CreateFailsStep DEF IInv, CreateFails
    <2>9. ASSUME NEW next \in {"end", "shown", "hidden"}, Leaves(next) PROVE IInv'
      BY <2>0, <2>9, LeavesStep DEF IInv, Leaves
    <2>10. CASE FinalizeRuns
      BY <2>0, <2>10, FinalizeRunsStep DEF IInv, FinalizeRuns
    <2>11. CASE FinalizeFails
      BY <2>0, <2>11, FinalizeFailsStep DEF IInv, FinalizeFails
    <2>12. CASE EscInFinalize
      BY <2>0, <2>12, EscInFinalizeStep DEF IInv, EscInFinalize
    <2>13. ASSUME NEW k \in 1 .. MaxEvents, NEW code \in BOOLEAN, Rewind(k, code) PROVE IInv'
      <3>1. PICK c, t, n, m : Drops(k, c, t, n, m)
        BY <2>0, <2>13, RewindDrops
      <3>2. Good'
        BY <2>0, <3>1, RewindStep
      <3> QED BY <2>0, <2>13, <3>2 DEF IInv, Rewind
    <2>14. CASE RestoreRuns \/ RestoreFails
      <3>1. Head(tasks) = tasks[1] /\ cut' = (Head(tasks).idx \in stale)
        BY <2>14 DEF RestoreRuns, RestoreFails, TaskRestored
      <3>2. CASE tasks[1].idx \in stale
        BY <3>1, <3>2 DEF IInv
      <3>3. CASE tasks[1].idx \notin stale
        BY <2>0, <2>14, <3>1, <3>3, RestoreRunsStep, RestoreFailsStep DEF IInv
      <3> QED BY <3>2, <3>3
    <2>16. CASE PurgeRuns \/ PurgeFails
      BY <2>0, <2>16, PurgesKeep DEF IInv, PurgeRuns, PurgeFails, PurgesBut
    <2>17. ASSUME NEW o \in orphans PROVE FALSE
      BY <2>0, <2>17 DEF Good
    <2>18. CASE UNCHANGED vars
      <3>1. UNCHANGED <<work, ref, events, phase, active, index, tools, after, tasks, orphans,
                        used, gone, stale, cut>>
        BY <2>18 DEF vars, turn
      <3>2. TypeOK' /\ used'.events = used.events
        BY <2>0, <3>1 DEF Good, TypeOK
      <3>3. TurnFits'
        BY <2>0, <3>1 DEF Good, TurnFits, Saved, SavedBefore, Visible
      <3> QED BY <2>0, <3>1, <3>2, <3>3, TurnMoves DEF IInv
    <2> QED BY <2>1, <2>2, <2>3, <2>4, <2>5, <2>6, <2>7, <2>8, <2>9, <2>10, <2>11, <2>12, <2>13,
               <2>14, <2>16, <2>17, <2>18 DEF Next
  <1> QED BY <1>1, <1>2

\* It holds of every state that is reached.
LEMMA Invariant == Spec => []IInv
  BY InitGood, NextGood, PTL DEF Spec

\* What a rewind has undone stays undone, in the workspace and in every
\* checkpoint a later rewind can choose.
THEOREM UndoneHolds == Spec => []Undone
  <1>1. IInv => Undone
    <2> SUFFICES ASSUME Good PROVE Undone
      BY DEF IInv, Undone
    <2>1. ~ Holds(work, gone)
      BY DEF Good, TasksFit, WorkClean, Holds
    <2>2. ASSUME tasks = <<>>, NEW k \in 1 .. Visible, ref[k] # None, k \notin stale
          PROVE  ~ Holds(ref[k], gone)
      <3>1. Visible \in 0 .. MaxEvents
        BY VisibleInRange DEF Good, EventsFit
      <3>2. k \in DOMAIN ref
        BY <3>1, CheckpointsAssumption DEF Good, TypeOK
      <3>3. Clean(k, 0) /\ Saved(k)
        BY <2>2, <3>2 DEF Good, TasksFit, RefsClean, Saved
      <3>4. \A f \in Files : ref[k][f].by \notin gone
        BY <2>2, <3>3 DEF Clean, LostBy
      <3> QED BY <3>4 DEF Holds
    <2> QED BY <2>1, <2>2 DEF Undone
  <1> QED BY <1>1, Invariant, PTL

\* A restore of counted files changes no file that none of the turns it undoes
\* has changed.
THEOREM OthersKeptHolds == Spec => OthersKept
  <1> DEFINE Kept == (RestoreRuns /\ Head(tasks).good /\ Head(tasks).files # None /\ ~cut)
                       => \A f \in Files : work'[f] # work[f] => f \in Head(tasks).changed
  <1>1. IInv => Kept
    <2> SUFFICES ASSUME Good, RestoreRuns, Head(tasks).good, Head(tasks).files # None,
                        NEW f \in Files, work'[f] # work[f]
                 PROVE  f \in Head(tasks).changed
      BY DEF IInv
    <2>1. /\ tasks \in Seq(Tasks) /\ tasks # <<>> /\ 1 \in DOMAIN tasks /\ Head(tasks) = tasks[1]
      BY DEF Good, TypeOK, RestoreRuns, TaskRestored
    <2>2. tasks[1].files \subseteq tasks[1].changed
      BY <2>1 DEF Good, TasksFit, FilesAreTrue
    <2>3. f \in tasks[1].files
      BY <2>1 DEF RestoreRuns, Restored
    <2> QED BY <2>1, <2>2, <2>3
  <1> HIDE DEF Kept
  <1>2. [][Kept]_vars => OthersKept
    BY DEF OthersKept, Kept
  <1> QED BY <1>1, <1>2, Invariant, PTL
=============================================================================
