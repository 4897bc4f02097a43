-------------------------- MODULE BackgroundProofs ---------------------------
(***************************************************************************)
(* The background tasks of an agent: its subagents, and at the end of the  *)
(* module its shell commands.                                              *)
(*                                                                         *)
(* Whatever the subagents, messages and the limit: StatusIsTrue,           *)
(* WorktreePresent and LimitOfSpawns are invariants of Subagent.           *)
(*                                                                         *)
(* The inductive invariant says what the tool call under way knows of its  *)
(* session, what the place of a task says of the session's status, and     *)
(* which threads may work in its worktree's directory.  The limit needs    *)
(* that the number of active sessions is finite, and that the spawn under  *)
(* way has room: nothing but it makes a session active that no follow-up   *)
(* has set up.                                                             *)
(***************************************************************************)
EXTENDS Subagent, ShellTask, FiniteSetTheorems, TLAPS

\* What the variables of a session range over.
TypeOK ==
    /\ status \in [Subs -> {"none", "running", "completed", "error", "cancelled"}]
    /\ pc \in [Subs -> {"none", "ready", "stream", "saving", "raised", "stopping", "cleanup"}]
    /\ cancelling \in [Subs -> BOOLEAN]
    /\ worktree \in [Subs -> BOOLEAN]
    /\ attaching \in [Subs -> BOOLEAN]
    /\ removing \in [Subs -> BOOLEAN]
    /\ tool \in [op : {"none", "spawn", "attach", "save"},
                 sub : Subs \cup {None}, msg : Messages \cup {None}]

\* What the tool call under way has seen still holds.
ToolKnows(s) ==
    tool.sub = s =>
       /\ tool.op # "none" => ~Live(s)
       /\ tool.op = "spawn" => status[s] = "none"
       /\ tool.op \in {"attach", "save"} => status[s] # "none"
       /\ tool.op = "save" => s \in resumed /\ (status[s] = "running" \/ s \in overtaken)

\* What the place of the task says of the status.
StatusFits(s) ==
    /\ status[s] = "none" => ~Live(s) /\ ~removing[s]
    /\ status[s] = "running" => Live(s) \/ SettingUp(s) \/ s \in orphans
    /\ pc[s] \in {"ready", "stream"} => status[s] = "running" \/ s \in overtaken
    /\ pc[s] \in {"saving", "cleanup"} => status[s] # "running"
    /\ pc[s] = "raised" => status[s] = "error"
    /\ pc[s] = "stopping" => status[s] = "cancelled"

\* The task may still run a stream, or is about to be made.
Working(s) == pc[s] \in {"ready", "stream", "saving"} \/ SettingUp(s)

\* A call whose thread is back finds the directory, or gives up.
Attached(s) == tool.op \in {"attach", "spawn"} /\ tool.sub = s /\ ~attaching[s]

\* Who works has a directory that nobody removes.
TreeFits(s) ==
    /\ attaching[s] => s \in Isolated /\ ~Live(s) /\ ~SettingUp(s)
    /\ removing[s] => s \in Isolated
    /\ s \in Isolated /\ Working(s) => worktree[s] \/ s \in undercut
    /\ removing[s] /\ (Working(s) \/ Attached(s)) => s \in undercut

Fits(s) == ToolKnows(s) /\ StatusFits(s) /\ TreeFits(s)

Sound == TypeOK /\ \A s \in Subs : Fits(s)

Actives == {s \in Subs : Active(s)}

\* Those the limit is about.
Unresumed == {s \in Subs \ resumed : Active(s)}

Limited ==
    /\ IsFiniteSet(Actives)
    /\ Cardinality(Unresumed) <= MaxConcurrent
    /\ tool.op = "spawn" => Cardinality(Unresumed) < MaxConcurrent

IInv == Sound /\ Limited

USE SubagentAssumption DEF Set, Live, SettingUp, sessionVars, taskVars, treeVars, history

-----------------------------------------------------------------------------
(* Every step keeps the sessions sound.                                    *)

\* No session is there yet.
LEMMA InitSound == Init => Sound
BY DEF Init, Sound, TypeOK, Fits, ToolKnows, StatusFits, TreeFits, Working, Attached,
   Idle, Call
\* The removal is handed to the thread, or there is none.
LEMMA CleanupTypes ==
  ASSUME removing \in [Subs -> BOOLEAN], NEW s \in Subs, Cleanup(s)
  PROVE  removing' \in [Subs -> BOOLEAN]
<1> DEFINE b == s \in Isolated
<1>1. b \in BOOLEAN
  OBVIOUS
<1>2. removing' = [removing EXCEPT ![s] = b]
  BY DEF Cleanup
<1> HIDE DEF b
<1> QED
  BY <1>1, <1>2

\* A spawn begins.
LEMMA SpawnBeginsSound == ASSUME Sound, NEW s \in Subs, SpawnBegins(s) PROVE Sound'
<1>0. TypeOK /\ \A t \in Subs : ToolKnows(t) /\ StatusFits(t) /\ TreeFits(t)
  BY DEF Sound, Fits
<1>1. TypeOK'
  BY <1>0 DEF TypeOK, SpawnBegins, Call, Idle
<1>2. ASSUME NEW t \in Subs PROVE Fits(t)'
  <2>1. ToolKnows(t)'
    BY <1>0 DEF TypeOK, ToolKnows, StatusFits, SpawnBegins, Call, Idle
  <2>2. StatusFits(t)'
    BY <1>0 DEF TypeOK, ToolKnows, StatusFits, SpawnBegins, Call, Idle
  <2>3. TreeFits(t)'
    BY <1>0 DEF TypeOK, ToolKnows, StatusFits, TreeFits, Working, Attached, SpawnBegins,
       Call, Idle
  <2> QED
    BY <2>1, <2>2, <2>3 DEF Fits
<1> QED
  BY <1>1, <1>2 DEF Sound

\* Git could not make the worktree.
LEMMA SpawnFailsSound == ASSUME Sound, NEW s \in Subs, SpawnFails(s) PROVE Sound'
<1>0. TypeOK /\ \A t \in Subs : ToolKnows(t) /\ StatusFits(t) /\ TreeFits(t)
  BY DEF Sound, Fits
<1>1. TypeOK'
  BY <1>0 DEF TypeOK, SpawnFails, Call, Idle
<1>2. ASSUME NEW t \in Subs PROVE Fits(t)'
  <2>1. ToolKnows(t)'
    BY <1>0 DEF TypeOK, ToolKnows, StatusFits, SpawnFails, Call, Idle
  <2>2. StatusFits(t)'
    BY <1>0 DEF TypeOK, ToolKnows, StatusFits, SpawnFails, Call, Idle
  <2>3. TreeFits(t)'
    BY <1>0 DEF TypeOK, ToolKnows, StatusFits, TreeFits, Working, Attached, SpawnFails,
       Call, Idle
  <2> QED
    BY <2>1, <2>2, <2>3 DEF Fits
<1> QED
  BY <1>1, <1>2 DEF Sound

\* The task of a spawn is made.
LEMMA SpawnStartsSound == ASSUME Sound, NEW s \in Subs, SpawnStarts(s) PROVE Sound'
<1>0. TypeOK /\ \A t \in Subs : ToolKnows(t) /\ StatusFits(t) /\ TreeFits(t)
  BY DEF Sound, Fits
<1>1. TypeOK'
  BY <1>0 DEF TypeOK, SpawnStarts, Call, Idle
<1>2. ASSUME NEW t \in Subs PROVE Fits(t)'
  <2>1. ToolKnows(t)'
    BY <1>0 DEF TypeOK, ToolKnows, StatusFits, SpawnStarts, Call, Idle
  <2>2. StatusFits(t)'
    BY <1>0 DEF TypeOK, ToolKnows, StatusFits, SpawnStarts, Call, Idle
  <2>3. TreeFits(t)'
    BY <1>0 DEF TypeOK, ToolKnows, StatusFits, TreeFits, Working, Attached, SpawnStarts,
       Call, Idle
  <2> QED
    BY <2>1, <2>2, <2>3 DEF Fits
<1> QED
  BY <1>1, <1>2 DEF Sound

\* A message is queued.
LEMMA FollowupQueuesSound ==
  ASSUME Sound, NEW s \in Subs, NEW m \in Messages, FollowupQueues(s, m)
  PROVE  Sound'
<1>0. TypeOK /\ \A t \in Subs : ToolKnows(t) /\ StatusFits(t) /\ TreeFits(t)
  BY DEF Sound, Fits
<1>1. TypeOK'
  BY <1>0 DEF TypeOK, FollowupQueues, Idle, Call
<1>2. ASSUME NEW t \in Subs PROVE Fits(t)'
  <2>1. ToolKnows(t)'
    BY <1>0 DEF TypeOK, ToolKnows, StatusFits, FollowupQueues, Idle, Call
  <2>2. StatusFits(t)'
    BY <1>0 DEF TypeOK, ToolKnows, StatusFits, FollowupQueues, Idle, Call
  <2>3. TreeFits(t)'
    BY <1>0 DEF TypeOK, ToolKnows, StatusFits, TreeFits, Working, Attached,
       FollowupQueues, Idle, Call
  <2> QED
    BY <2>1, <2>2, <2>3 DEF Fits
<1> QED
  BY <1>1, <1>2 DEF Sound

\* A follow-up begins.
LEMMA FollowupBeginsSound ==
  ASSUME Sound, NEW s \in Subs, NEW m \in Messages, FollowupBegins(s, m)
  PROVE  Sound'
<1>0. TypeOK /\ \A t \in Subs : ToolKnows(t) /\ StatusFits(t) /\ TreeFits(t)
  BY DEF Sound, Fits
<1>1. TypeOK'
  <2>1. CASE s \in Isolated
    <3>1. attaching' \in [Subs -> BOOLEAN]
      BY <1>0, <2>1 DEF TypeOK, FollowupBegins, SetsUp, Idle, Call
    <3> QED
      BY <1>0, <2>1, <3>1 DEF TypeOK, FollowupBegins, SetsUp, Idle, Call
  <2>2. CASE s \notin Isolated
    BY <1>0, <2>2 DEF TypeOK, FollowupBegins, SetsUp, Idle, Call
  <2> QED
    BY <2>1, <2>2
<1>2. ASSUME NEW t \in Subs PROVE Fits(t)'
  <2>1. ToolKnows(t)'
    BY <1>0 DEF TypeOK, ToolKnows, StatusFits, FollowupBegins, SetsUp, Idle, Call
  <2>2. StatusFits(t)'
    BY <1>0 DEF TypeOK, ToolKnows, StatusFits, FollowupBegins, SetsUp, Idle, Call
  <2>3. TreeFits(t)'
    <3>1. CASE s \in Isolated
      BY <1>0, <3>1 DEF TypeOK, ToolKnows, StatusFits, TreeFits, Working, Attached,
         FollowupBegins, SetsUp, Idle, Call
    <3>2. CASE s \notin Isolated
      BY <1>0, <3>2 DEF TypeOK, ToolKnows, StatusFits, TreeFits, Working, Attached,
         FollowupBegins, SetsUp, Idle, Call
    <3> QED
      BY <3>1, <3>2
  <2> QED
    BY <2>1, <2>2, <2>3 DEF Fits
<1> QED
  BY <1>1, <1>2 DEF Sound

\* Its worktree is there.
LEMMA FollowupAttachedSound ==
  ASSUME Sound, NEW s \in Subs, NEW m \in Messages, FollowupAttached(s, m)
  PROVE  Sound'
<1>0. TypeOK /\ \A t \in Subs : ToolKnows(t) /\ StatusFits(t) /\ TreeFits(t)
  BY DEF Sound, Fits
<1>1. TypeOK'
  BY <1>0 DEF TypeOK, FollowupAttached, SetsUp, Call
<1>2. ASSUME NEW t \in Subs PROVE Fits(t)'
  <2>1. ToolKnows(t)'
    BY <1>0 DEF TypeOK, ToolKnows, StatusFits, FollowupAttached, SetsUp, Call
  <2>2. StatusFits(t)'
    BY <1>0 DEF TypeOK, ToolKnows, StatusFits, FollowupAttached, SetsUp, Call
  <2>3. TreeFits(t)'
    BY <1>0 DEF TypeOK, ToolKnows, StatusFits, TreeFits, Working, Attached,
       FollowupAttached, SetsUp, Call
  <2> QED
    BY <2>1, <2>2, <2>3 DEF Fits
<1> QED
  BY <1>1, <1>2 DEF Sound

\* Its worktree is not there.
LEMMA FollowupRefusedSound ==
  ASSUME Sound, NEW s \in Subs, NEW m \in Messages, FollowupRefused(s, m)
  PROVE  Sound'
<1>0. TypeOK /\ \A t \in Subs : ToolKnows(t) /\ StatusFits(t) /\ TreeFits(t)
  BY DEF Sound, Fits
<1>1. TypeOK'
  BY <1>0 DEF TypeOK, FollowupRefused, Idle, Call
<1>2. ASSUME NEW t \in Subs PROVE Fits(t)'
  <2>1. ToolKnows(t)'
    BY <1>0 DEF TypeOK, ToolKnows, StatusFits, FollowupRefused, Idle, Call
  <2>2. StatusFits(t)'
    BY <1>0 DEF TypeOK, ToolKnows, StatusFits, FollowupRefused, Idle, Call
  <2>3. TreeFits(t)'
    BY <1>0 DEF TypeOK, ToolKnows, StatusFits, TreeFits, Working, Attached,
       FollowupRefused, Idle, Call
  <2> QED
    BY <2>1, <2>2, <2>3 DEF Fits
<1> QED
  BY <1>1, <1>2 DEF Sound

\* The task of a follow-up is made.
LEMMA FollowupStartsSound ==
  ASSUME Sound, NEW s \in Subs, NEW m \in Messages, FollowupStarts(s, m)
  PROVE  Sound'
<1>0. TypeOK /\ \A t \in Subs : ToolKnows(t) /\ StatusFits(t) /\ TreeFits(t)
  BY DEF Sound, Fits
<1>1. TypeOK'
  BY <1>0 DEF TypeOK, FollowupStarts, Idle, Call
<1>2. ASSUME NEW t \in Subs PROVE Fits(t)'
  <2>1. ToolKnows(t)'
    BY <1>0 DEF TypeOK, ToolKnows, StatusFits, FollowupStarts, Idle, Call
  <2>2. StatusFits(t)'
    BY <1>0 DEF TypeOK, ToolKnows, StatusFits, FollowupStarts, Idle, Call
  <2>3. TreeFits(t)'
    BY <1>0 DEF TypeOK, ToolKnows, StatusFits, TreeFits, Working, Attached,
       FollowupStarts, Idle, Call
  <2> QED
    BY <2>1, <2>2, <2>3 DEF Fits
<1> QED
  BY <1>1, <1>2 DEF Sound

\* Its save fails.
LEMMA FollowupSaveFailsSound ==
  ASSUME Sound, NEW s \in Subs, NEW m \in Messages, FollowupSaveFails(s, m)
  PROVE  Sound'
<1>0. TypeOK /\ \A t \in Subs : ToolKnows(t) /\ StatusFits(t) /\ TreeFits(t)
  BY DEF Sound, Fits
<1>1. TypeOK'
  BY <1>0 DEF TypeOK, FollowupSaveFails, Idle, Call
<1>2. ASSUME NEW t \in Subs PROVE Fits(t)'
  <2>1. ToolKnows(t)'
    BY <1>0 DEF TypeOK, ToolKnows, StatusFits, FollowupSaveFails, Idle, Call
  <2>2. StatusFits(t)'
    BY <1>0 DEF TypeOK, ToolKnows, StatusFits, FollowupSaveFails, Idle, Call
  <2>3. TreeFits(t)'
    BY <1>0 DEF TypeOK, ToolKnows, StatusFits, TreeFits, Working, Attached,
       FollowupSaveFails, Idle, Call
  <2> QED
    BY <2>1, <2>2, <2>3 DEF Fits
<1> QED
  BY <1>1, <1>2 DEF Sound

\* The call is cancelled.
LEMMA ToolStoppedSound == ASSUME Sound, ToolStopped PROVE Sound'
<1>0. TypeOK /\ \A t \in Subs : ToolKnows(t) /\ StatusFits(t) /\ TreeFits(t)
  BY DEF Sound, Fits
<1>1. TypeOK'
  BY <1>0 DEF TypeOK, ToolStopped, Idle, Call
<1>2. ASSUME NEW t \in Subs PROVE Fits(t)'
  <2>1. ToolKnows(t)'
    BY <1>0 DEF TypeOK, ToolKnows, StatusFits, ToolStopped, Idle, Call
  <2>2. StatusFits(t)'
    BY <1>0 DEF TypeOK, ToolKnows, StatusFits, ToolStopped, Idle, Call
  <2>3. TreeFits(t)'
    BY <1>0 DEF TypeOK, ToolKnows, StatusFits, TreeFits, Working, Attached, ToolStopped,
       Idle, Call
  <2> QED
    BY <2>1, <2>2, <2>3 DEF Fits
<1> QED
  BY <1>1, <1>2 DEF Sound

\* The thread that makes a worktree ends.
LEMMA AttachEndsSound == ASSUME Sound, NEW s \in Subs, AttachEnds(s) PROVE Sound'
<1>0. TypeOK /\ \A t \in Subs : ToolKnows(t) /\ StatusFits(t) /\ TreeFits(t)
  BY DEF Sound, Fits
<1>1. TypeOK'
  BY <1>0 DEF TypeOK, AttachEnds
<1>2. ASSUME NEW t \in Subs PROVE Fits(t)'
  <2>1. ToolKnows(t)'
    BY <1>0 DEF TypeOK, ToolKnows, StatusFits, AttachEnds
  <2>2. StatusFits(t)'
    BY <1>0 DEF TypeOK, ToolKnows, StatusFits, AttachEnds
  <2>3. TreeFits(t)'
    BY <1>0 DEF TypeOK, ToolKnows, StatusFits, TreeFits, Working, Attached, AttachEnds
  <2> QED
    BY <2>1, <2>2, <2>3 DEF Fits
<1> QED
  BY <1>1, <1>2 DEF Sound

\* A task begins.
LEMMA TaskStartsSound == ASSUME Sound, NEW s \in Subs, TaskStarts(s) PROVE Sound'
<1>0. TypeOK /\ \A t \in Subs : ToolKnows(t) /\ StatusFits(t) /\ TreeFits(t)
  BY DEF Sound, Fits
<1>1. TypeOK'
  BY <1>0 DEF TypeOK, TaskStarts
<1>2. ASSUME NEW t \in Subs PROVE Fits(t)'
  <2>1. ToolKnows(t)'
    BY <1>0 DEF TypeOK, ToolKnows, StatusFits, TaskStarts
  <2>2. StatusFits(t)'
    BY <1>0 DEF TypeOK, ToolKnows, StatusFits, TaskStarts
  <2>3. TreeFits(t)'
    BY <1>0 DEF TypeOK, ToolKnows, StatusFits, TreeFits, Working, Attached, TaskStarts
  <2> QED
    BY <2>1, <2>2, <2>3 DEF Fits
<1> QED
  BY <1>1, <1>2 DEF Sound

\* A task is cancelled before its first step.
LEMMA TaskNeverRunsSound == ASSUME Sound, NEW s \in Subs, TaskNeverRuns(s) PROVE Sound'
<1>0. TypeOK /\ \A t \in Subs : ToolKnows(t) /\ StatusFits(t) /\ TreeFits(t)
  BY DEF Sound, Fits
<1>1. TypeOK'
  BY <1>0 DEF TypeOK, TaskNeverRuns
<1>2. ASSUME NEW t \in Subs PROVE Fits(t)'
  <2>1. ToolKnows(t)'
    BY <1>0 DEF TypeOK, ToolKnows, StatusFits, TaskNeverRuns
  <2>2. StatusFits(t)'
    BY <1>0 DEF TypeOK, ToolKnows, StatusFits, TaskNeverRuns
  <2>3. TreeFits(t)'
    BY <1>0 DEF TypeOK, ToolKnows, StatusFits, TreeFits, Working, Attached, TaskNeverRuns
  <2> QED
    BY <2>1, <2>2, <2>3 DEF Fits
<1> QED
  BY <1>1, <1>2 DEF Sound

\* A stream ends.
LEMMA StreamEndsSound == ASSUME Sound, NEW s \in Subs, StreamEnds(s) PROVE Sound'
<1>0. TypeOK /\ \A t \in Subs : ToolKnows(t) /\ StatusFits(t) /\ TreeFits(t)
  BY DEF Sound, Fits
<1>1. TypeOK'
  BY <1>0 DEF TypeOK, StreamEnds
<1>2. ASSUME NEW t \in Subs PROVE Fits(t)'
  <2>1. ToolKnows(t)'
    BY <1>0 DEF TypeOK, ToolKnows, StatusFits, StreamEnds
  <2>2. StatusFits(t)'
    BY <1>0 DEF TypeOK, ToolKnows, StatusFits, StreamEnds
  <2>3. TreeFits(t)'
    BY <1>0 DEF TypeOK, ToolKnows, StatusFits, TreeFits, Working, Attached, StreamEnds
  <2> QED
    BY <2>1, <2>2, <2>3 DEF Fits
<1> QED
  BY <1>1, <1>2 DEF Sound

\* The session is saved.
LEMMA SaveEndsSound == ASSUME Sound, NEW s \in Subs, SaveEnds(s) PROVE Sound'
<1>0. TypeOK /\ \A t \in Subs : ToolKnows(t) /\ StatusFits(t) /\ TreeFits(t)
  BY DEF Sound, Fits
<1>1. TypeOK'
  <2>1. status' \in [Subs -> {"none", "running", "completed", "error", "cancelled"}]
    BY <1>0 DEF TypeOK, SaveEnds, AfterTurn, Cleanup
  <2>2. pc' \in [Subs -> {"none", "ready", "stream", "saving", "raised", "stopping", "cleanup"}]
    BY <1>0 DEF TypeOK, SaveEnds, AfterTurn, Cleanup
  <2>3. removing' \in [Subs -> BOOLEAN]
    BY <1>0, CleanupTypes DEF TypeOK, SaveEnds, AfterTurn
  <2>4. cancelling' \in [Subs -> BOOLEAN]
    BY <1>0 DEF TypeOK, SaveEnds, AfterTurn, Cleanup
  <2> QED
    BY <1>0, <2>1, <2>2, <2>3, <2>4 DEF TypeOK, SaveEnds
<1>2. ASSUME NEW t \in Subs PROVE Fits(t)'
  <2>1. ToolKnows(t)'
    BY <1>0 DEF TypeOK, ToolKnows, StatusFits, SaveEnds, AfterTurn, Cleanup
  <2>2. StatusFits(t)'
    BY <1>0 DEF TypeOK, ToolKnows, StatusFits, SaveEnds, AfterTurn, Cleanup
  <2>3. TreeFits(t)'
    BY <1>0 DEF TypeOK, ToolKnows, StatusFits, TreeFits, Working, Attached, SaveEnds,
       AfterTurn, Cleanup
  <2> QED
    BY <2>1, <2>2, <2>3 DEF Fits
<1> QED
  BY <1>1, <1>2 DEF Sound

\* It could not be saved.
LEMMA SaveFailsSound == ASSUME Sound, NEW s \in Subs, SaveFails(s) PROVE Sound'
<1>0. TypeOK /\ \A t \in Subs : ToolKnows(t) /\ StatusFits(t) /\ TreeFits(t)
  BY DEF Sound, Fits
<1>1. TypeOK'
  <2>1. status' \in [Subs -> {"none", "running", "completed", "error", "cancelled"}]
    BY <1>0 DEF TypeOK, SaveFails, Cleanup
  <2>2. pc' \in [Subs -> {"none", "ready", "stream", "saving", "raised", "stopping", "cleanup"}]
    BY <1>0 DEF TypeOK, SaveFails, Cleanup
  <2>3. removing' \in [Subs -> BOOLEAN]
    BY <1>0, CleanupTypes DEF TypeOK, SaveFails
  <2>4. cancelling' \in [Subs -> BOOLEAN]
    BY <1>0 DEF TypeOK, SaveFails, Cleanup
  <2> QED
    BY <1>0, <2>1, <2>2, <2>3, <2>4 DEF TypeOK, SaveFails
<1>2. ASSUME NEW t \in Subs PROVE Fits(t)'
  <2>1. ToolKnows(t)'
    BY <1>0 DEF TypeOK, ToolKnows, StatusFits, SaveFails, Cleanup
  <2>2. StatusFits(t)'
    BY <1>0 DEF TypeOK, ToolKnows, StatusFits, SaveFails, Cleanup
  <2>3. TreeFits(t)'
    BY <1>0 DEF TypeOK, ToolKnows, StatusFits, TreeFits, Working, Attached, SaveFails, Cleanup
  <2> QED
    BY <2>1, <2>2, <2>3 DEF Fits
<1> QED
  BY <1>1, <1>2 DEF Sound

\* A cancellation arrives.
LEMMA CancelDeliveredSound ==
  ASSUME Sound, NEW s \in Subs, CancelDelivered(s)
  PROVE  Sound'
<1>0. TypeOK /\ \A t \in Subs : ToolKnows(t) /\ StatusFits(t) /\ TreeFits(t)
  BY DEF Sound, Fits
<1>1. TypeOK'
  <2>1. status' \in [Subs -> {"none", "running", "completed", "error", "cancelled"}]
    BY <1>0 DEF TypeOK, CancelDelivered, Cleanup
  <2>2. pc' \in [Subs -> {"none", "ready", "stream", "saving", "raised", "stopping", "cleanup"}]
    BY <1>0 DEF TypeOK, CancelDelivered, Cleanup
  <2>3. removing' \in [Subs -> BOOLEAN]
    BY <1>0, CleanupTypes DEF TypeOK, CancelDelivered
  <2>4. cancelling' \in [Subs -> BOOLEAN]
    BY <1>0 DEF TypeOK, CancelDelivered, Cleanup
  <2> QED
    BY <1>0, <2>1, <2>2, <2>3, <2>4 DEF TypeOK, CancelDelivered
<1>2. ASSUME NEW t \in Subs PROVE Fits(t)'
  <2>1. ToolKnows(t)'
    BY <1>0 DEF TypeOK, ToolKnows, StatusFits, CancelDelivered, Cleanup
  <2>2. StatusFits(t)'
    BY <1>0 DEF TypeOK, ToolKnows, StatusFits, CancelDelivered, Cleanup
  <2>3. TreeFits(t)'
    BY <1>0 DEF TypeOK, ToolKnows, StatusFits, TreeFits, Working, Attached,
       CancelDelivered, Cleanup
  <2> QED
    BY <2>1, <2>2, <2>3 DEF Fits
<1> QED
  BY <1>1, <1>2 DEF Sound

\* The thread of the cleanup ends.
LEMMA WorktreeRemovedSound ==
  ASSUME Sound, NEW s \in Subs, WorktreeRemoved(s)
  PROVE  Sound'
<1>0. TypeOK /\ \A t \in Subs : ToolKnows(t) /\ StatusFits(t) /\ TreeFits(t)
  BY DEF Sound, Fits
<1>1. TypeOK'
  BY <1>0 DEF TypeOK, WorktreeRemoved
<1>2. ASSUME NEW t \in Subs PROVE Fits(t)'
  <2>1. ToolKnows(t)'
    BY <1>0 DEF TypeOK, ToolKnows, StatusFits, WorktreeRemoved
  <2>2. StatusFits(t)'
    BY <1>0 DEF TypeOK, ToolKnows, StatusFits, WorktreeRemoved
  <2>3. TreeFits(t)'
    BY <1>0 DEF TypeOK, ToolKnows, StatusFits, TreeFits, Working, Attached, WorktreeRemoved
  <2> QED
    BY <2>1, <2>2, <2>3 DEF Fits
<1> QED
  BY <1>1, <1>2 DEF Sound

\* A task ends.
LEMMA TaskEndsSound == ASSUME Sound, NEW s \in Subs, TaskEnds(s) PROVE Sound'
<1>0. TypeOK /\ \A t \in Subs : ToolKnows(t) /\ StatusFits(t) /\ TreeFits(t)
  BY DEF Sound, Fits
<1>1. TypeOK'
  BY <1>0 DEF TypeOK, TaskEnds
<1>2. ASSUME NEW t \in Subs PROVE Fits(t)'
  <2>1. ToolKnows(t)'
    BY <1>0 DEF TypeOK, ToolKnows, StatusFits, TaskEnds
  <2>2. StatusFits(t)'
    BY <1>0 DEF TypeOK, ToolKnows, StatusFits, TaskEnds
  <2>3. TreeFits(t)'
    BY <1>0 DEF TypeOK, ToolKnows, StatusFits, TreeFits, Working, Attached, TaskEnds
  <2> QED
    BY <2>1, <2>2, <2>3 DEF Fits
<1> QED
  BY <1>1, <1>2 DEF Sound

\* A kill.
LEMMA KillSound == ASSUME Sound, NEW s \in Subs, Kill(s) PROVE Sound'
<1>0. TypeOK /\ \A t \in Subs : ToolKnows(t) /\ StatusFits(t) /\ TreeFits(t)
  BY DEF Sound, Fits
<1>1. TypeOK'
  BY <1>0 DEF TypeOK, Kill
<1>2. ASSUME NEW t \in Subs PROVE Fits(t)'
  <2>1. ToolKnows(t)'
    BY <1>0 DEF TypeOK, ToolKnows, StatusFits, Kill
  <2>2. StatusFits(t)'
    BY <1>0 DEF TypeOK, ToolKnows, StatusFits, Kill
  <2>3. TreeFits(t)'
    BY <1>0 DEF TypeOK, ToolKnows, StatusFits, TreeFits, Working, Attached, Kill
  <2> QED
    BY <2>1, <2>2, <2>3 DEF Fits
<1> QED
  BY <1>1, <1>2 DEF Sound

\* The session is left.
LEMMA CancelAllSound == ASSUME Sound, CancelAll PROVE Sound'
<1>0. TypeOK /\ \A t \in Subs : ToolKnows(t) /\ StatusFits(t) /\ TreeFits(t)
  BY DEF Sound, Fits
<1>1. TypeOK'
  BY <1>0 DEF TypeOK, CancelAll, Active, Idle, Call
<1>2. ASSUME NEW t \in Subs PROVE Fits(t)'
  <2>1. ToolKnows(t)'
    BY <1>0 DEF TypeOK, ToolKnows, StatusFits, CancelAll, Active, Idle, Call
  <2>2. StatusFits(t)'
    BY <1>0 DEF TypeOK, ToolKnows, StatusFits, CancelAll, Active, Idle, Call
  <2>3. TreeFits(t)'
    BY <1>0 DEF TypeOK, ToolKnows, StatusFits, TreeFits, Working, Attached, CancelAll,
       Active, Idle, Call
  <2> QED
    BY <2>1, <2>2, <2>3 DEF Fits
<1> QED
  BY <1>1, <1>2 DEF Sound

\* Every step keeps what the tool call, the tasks and the threads know.
LEMMA SoundStep == Sound /\ [Next]_vars => Sound'
<1> SUFFICES ASSUME Sound, [Next]_vars PROVE Sound'
  OBVIOUS
<1>1. ASSUME NEW s \in Subs, TaskProceeds(s) PROVE Sound'
  BY <1>1, TaskStartsSound, TaskNeverRunsSound, StreamEndsSound, SaveEndsSound, SaveFailsSound,
     CancelDeliveredSound, TaskEndsSound DEF TaskProceeds
<1>2. ASSUME NEW s \in Subs, SpawnBegins(s) \/ Threads(s) \/ Kill(s) PROVE Sound'
  BY <1>2, SpawnBeginsSound, AttachEndsSound, WorktreeRemovedSound, KillSound DEF Threads
<1>3. ASSUME NEW s \in Subs, NEW m \in Messages, FollowupQueues(s, m) \/ FollowupBegins(s, m)
      PROVE  Sound'
  BY <1>3, FollowupQueuesSound, FollowupBeginsSound
<1>4. CASE ToolProceeds
  BY <1>4, SpawnFailsSound, SpawnStartsSound, FollowupAttachedSound, FollowupRefusedSound,
     FollowupStartsSound, FollowupSaveFailsSound DEF ToolProceeds
<1>5. CASE ToolStopped \/ CancelAll
  BY <1>5, ToolStoppedSound, CancelAllSound
<1>6. CASE UNCHANGED vars
  BY <1>6 DEF vars, Sound, TypeOK, Fits, ToolKnows, StatusFits, TreeFits, Working, Attached
<1> QED
  BY <1>1, <1>2, <1>3, <1>4, <1>5, <1>6 DEF Next

-----------------------------------------------------------------------------
(* The limit.                                                              *)

\* No session is active yet.
LEMMA InitLimited == Init => Limited
<1> SUFFICES ASSUME Init PROVE Limited
  OBVIOUS
<1>1. Actives = {} /\ Unresumed = {} /\ tool.op # "spawn"
  BY DEF Init, Actives, Unresumed, Active, Idle, Call
<1> QED
  BY <1>1, FS_EmptySet DEF Limited

\* A step that makes no session active but those follow-ups set up.
Shrinks == Unresumed' \subseteq Unresumed /\ \E s \in Subs : Actives' \subseteq Actives \cup {s}

\* Who was spawned and runs is among those who run.
LEMMA UnresumedSize ==
  ASSUME IsFiniteSet(Actives)
  PROVE  /\ IsFiniteSet(Unresumed) /\ Cardinality(Unresumed) \in Nat
         /\ Cardinality(Unresumed) <= Cardinality(Actives) /\ Cardinality(Actives) \in Nat
<1>1. Unresumed \subseteq Actives
  BY DEF Unresumed, Actives
<1> QED
  BY <1>1, FS_Subset, FS_CardinalityType

\* A step makes one session active at most.
LEMMA ActivesFinite ==
  ASSUME IsFiniteSet(Actives), NEW s \in Subs, Actives' \subseteq Actives \cup {s}
  PROVE  IsFiniteSet(Actives')
BY FS_AddElement, FS_Subset

\* Who leaves the number as it is, and spawns nothing, leaves the limit.
LEMMA ShrinksLimited ==
  ASSUME Limited, Shrinks, tool'.op = "spawn" => tool.op = "spawn"
  PROVE  Limited'
<1>1. IsFiniteSet(Actives)'
  BY ActivesFinite DEF Limited, Shrinks
<1>2. /\ Cardinality(Unresumed)' <= Cardinality(Unresumed)
      /\ Cardinality(Unresumed) \in Nat /\ Cardinality(Unresumed)' \in Nat
  BY UnresumedSize, FS_Subset, FS_CardinalityType DEF Limited, Shrinks
<1> QED
  BY <1>1, <1>2 DEF Limited

\* A spawn begins below the limit ...
LEMMA SpawnBeginsLimited == ASSUME IInv, NEW s \in Subs, SpawnBegins(s) PROVE Limited'
<1>1. Actives' = Actives /\ Unresumed' = Unresumed
  BY DEF SpawnBegins, Actives, Unresumed, Active
<1>2. Cardinality(Actives) < MaxConcurrent
  BY DEF SpawnBegins, Actives
<1> QED
  BY <1>1, <1>2, UnresumedSize DEF IInv, Limited

\* ... and adds one session.
LEMMA SpawnStartsLimited == ASSUME IInv, NEW s \in Subs, SpawnStarts(s) PROVE Limited'
<1>1. /\ Actives' \subseteq Actives \cup {s} /\ Unresumed' \subseteq Unresumed \cup {s}
      /\ tool.op = "spawn" /\ tool'.op = "none"
  BY DEF IInv, Sound, TypeOK, SpawnStarts, Actives, Unresumed, Active, Call, Idle
<1>2. IsFiniteSet(Actives)'
  BY <1>1, ActivesFinite DEF IInv, Limited
<1>3. IsFiniteSet(Unresumed) /\ Cardinality(Unresumed) \in Nat
      /\ Cardinality(Unresumed) < MaxConcurrent
  BY <1>1, UnresumedSize DEF IInv, Limited
<1>4. /\ IsFiniteSet(Unresumed \cup {s})
      /\ Cardinality(Unresumed \cup {s}) \in Nat
      /\ Cardinality(Unresumed \cup {s}) <= Cardinality(Unresumed) + 1
  <2>1. /\ IsFiniteSet(Unresumed \cup {s})
        /\ Cardinality(Unresumed \cup {s}) =
             IF s \in Unresumed THEN Cardinality(Unresumed) ELSE Cardinality(Unresumed) + 1
    BY <1>3, FS_AddElement
  <2> QED
    BY <1>3, <2>1
<1>5. Cardinality(Unresumed') <= Cardinality(Unresumed \cup {s}) /\ Cardinality(Unresumed') \in Nat
  BY <1>1, <1>4, FS_Subset, FS_CardinalityType
<1> QED
  BY <1>1, <1>2, <1>3, <1>4, <1>5 DEF Limited

\* Who leaves a session active found it active.
NoneWakes ==
    /\ \A t \in Subs : Active(t)' => Active(t)
    /\ resumed \subseteq resumed'
    /\ tool'.op = "spawn" => tool.op = "spawn"

\* A follow-up wakes the session it marks.
Wakes(s) ==
    /\ \A t \in Subs : Active(t)' => Active(t) \/ t = s
    /\ resumed \cup {s} \subseteq resumed'
    /\ tool'.op = "spawn" => tool.op = "spawn"

\* A follow-up wakes a session that it has set up, so spawned ones do not grow.
LEMMA WakesLimited == ASSUME Limited, NEW s \in Subs, NoneWakes \/ Wakes(s) PROVE Limited'
<1>1. Shrinks
  BY DEF NoneWakes, Wakes, Shrinks, Unresumed, Actives
<1> QED
  BY <1>1, ShrinksLimited DEF NoneWakes, Wakes

\* The task of a session, the threads and the kills wake nobody.
LEMMA TaskLimited ==
  ASSUME Sound, NEW s \in Subs, TaskProceeds(s) \/ Threads(s) \/ Kill(s) PROVE NoneWakes
<1>0. TypeOK
  BY DEF Sound
<1>1. CASE TaskStarts(s) \/ TaskNeverRuns(s) \/ StreamEnds(s)
  BY <1>0, <1>1 DEF TypeOK, NoneWakes, Active, TaskStarts, TaskNeverRuns, StreamEnds
<1>2. CASE SaveEnds(s) \/ SaveFails(s)
  BY <1>0, <1>2 DEF TypeOK, NoneWakes, Active, SaveEnds, SaveFails, AfterTurn, Cleanup
<1>3. CASE CancelDelivered(s) \/ TaskEnds(s)
  BY <1>0, <1>3 DEF TypeOK, NoneWakes, Active, CancelDelivered, TaskEnds, Cleanup
<1>4. CASE Threads(s)
  BY <1>0, <1>4 DEF TypeOK, NoneWakes, Active, Threads, AttachEnds, WorktreeRemoved
<1>5. CASE Kill(s)
  BY <1>0, <1>5 DEF TypeOK, NoneWakes, Active, Kill
<1> QED
  BY <1>1, <1>2, <1>3, <1>4, <1>5 DEF TaskProceeds

\* Nor does the tool, but for a follow-up that is set up, or whose task is made.
LEMMA ToolLimited ==
  ASSUME Sound, NEW s \in Subs, NEW m \in Messages,
         \/ SpawnFails(s) \/ FollowupQueues(s, m) \/ FollowupBegins(s, m) \/ FollowupAttached(s, m)
         \/ FollowupRefused(s, m) \/ FollowupSaveFails(s, m) \/ FollowupStarts(s, m)
  PROVE  NoneWakes \/ Wakes(s)
<1>0. TypeOK
  BY DEF Sound
<1>1. CASE SpawnFails(s) \/ FollowupQueues(s, m) \/ FollowupRefused(s, m) \/ FollowupSaveFails(s, m)
  BY <1>0, <1>1 DEF TypeOK, NoneWakes, Active, SpawnFails, FollowupQueues, FollowupRefused,
     FollowupSaveFails, Idle, Call
<1>2. CASE FollowupBegins(s, m) \/ FollowupAttached(s, m)
  BY <1>0, <1>2 DEF TypeOK, NoneWakes, Wakes, Active, FollowupBegins, FollowupAttached,
     SetsUp, Call
<1>3. CASE FollowupStarts(s, m)
  <2>1. s \in resumed
    BY <1>0, <1>3 DEF Sound, Fits, ToolKnows, TypeOK, FollowupStarts, Call
  <2> QED
    BY <1>0, <1>3, <2>1 DEF TypeOK, NoneWakes, Wakes, Active, FollowupStarts, Idle, Call
<1> QED
  BY <1>1, <1>2, <1>3

\* Every step keeps the number of active sessions finite and the limit.
LEMMA NextLimited == ASSUME IInv, [Next]_vars PROVE Limited'
<1> USE DEF IInv
<1>1. ASSUME NEW s \in Subs, TaskProceeds(s) \/ Threads(s) \/ Kill(s) PROVE Limited'
  BY <1>1, TaskLimited, WakesLimited
<1>2. ASSUME NEW s \in Subs, NEW m \in Messages, FollowupQueues(s, m) \/ FollowupBegins(s, m)
      PROVE  Limited'
  BY <1>2, ToolLimited, WakesLimited
<1>3. ASSUME NEW s \in Subs, SpawnBegins(s) PROVE Limited'
  BY <1>3, SpawnBeginsLimited
<1>4. CASE ToolProceeds
  <2>1. ASSUME NEW s \in Subs, SpawnStarts(s) PROVE Limited'
    BY <2>1, SpawnStartsLimited
  <2>2. ASSUME NEW s \in Subs, SpawnFails(s) PROVE Limited'
    <3>1. NoneWakes
      BY <2>2 DEF Sound, TypeOK, NoneWakes, Active, SpawnFails, Idle, Call
    <3> QED
      BY <3>1, WakesLimited
  <2>3. ASSUME NEW s \in Subs, NEW m \in Messages,
               \/ FollowupAttached(s, m) \/ FollowupRefused(s, m)
               \/ FollowupStarts(s, m) \/ FollowupSaveFails(s, m)
        PROVE  Limited'
    BY <2>3, ToolLimited, WakesLimited
  <2> QED
    BY <1>4, <2>1, <2>2, <2>3 DEF ToolProceeds
<1>5. CASE ToolStopped \/ CancelAll \/ UNCHANGED vars
  <2>1. Actives' \subseteq Actives /\ Unresumed' \subseteq Unresumed
    BY <1>5 DEF Sound, TypeOK, Actives, Unresumed, Active, ToolStopped, CancelAll, vars
  <2>2. tool'.op = "spawn" => tool.op = "spawn"
    BY <1>5 DEF ToolStopped, CancelAll, vars, Idle, Call
  <2>3. IsFiniteSet(Actives)'
    BY <2>1, FS_Subset DEF Limited
  <2>4. /\ Cardinality(Unresumed)' <= Cardinality(Unresumed)
        /\ Cardinality(Unresumed) \in Nat /\ Cardinality(Unresumed)' \in Nat
    BY <2>1, UnresumedSize, FS_Subset, FS_CardinalityType DEF Limited
  <2> QED
    BY <2>2, <2>3, <2>4 DEF Limited
<1> QED
  BY <1>1, <1>2, <1>3, <1>4, <1>5 DEF Next

-----------------------------------------------------------------------------

\* IInv holds in every reachable state: the records of a session fit its task,
\* its threads and the tool call under way.
THEOREM Invariance == Spec => []IInv
<1>1. Init => IInv
  BY InitSound, InitLimited DEF IInv
<1>2. IInv /\ [Next]_vars => IInv'
  BY SoundStep, NextLimited DEF IInv
<1> QED
  BY <1>1, <1>2, PTL DEF Spec

\* What the screens, the limit and a later kill read is true, whoever writes the
\* status in between the awaits of the others (manager.py, subagent_session.py).
THEOREM StatusesAreTrue == Spec => []StatusIsTrue
<1>1. IInv => StatusIsTrue
  BY DEF IInv, Sound, Fits, StatusFits, StatusIsTrue
<1> QED
  BY <1>1, Invariance, PTL

\* A stream never works in a directory that is gone.
THEOREM WorktreesArePresent == Spec => []WorktreePresent
<1>1. IInv => WorktreePresent
  BY DEF IInv, Sound, Fits, TreeFits, Working, WorktreePresent
<1> QED
  BY <1>1, Invariance, PTL

\* The limit of concurrent subagents holds for spawns, although it is looked at
\* before the awaits of the spawn.
THEOREM SpawnsAreLimited == Spec => []LimitOfSpawns
<1>1. ASSUME IInv PROVE LimitOfSpawns
  <2>1. {s \in Subs \ resumed : Active(s)} \ {tool.sub} \subseteq Unresumed
    BY DEF Unresumed
  <2>2. IsFiniteSet(Unresumed) /\ Cardinality(Unresumed) \in Nat
        /\ Cardinality(Unresumed) <= MaxConcurrent
    BY <1>1, UnresumedSize DEF IInv, Limited
  <2>3. /\ Cardinality({s \in Subs \ resumed : Active(s)} \ {tool.sub}) <= Cardinality(Unresumed)
        /\ Cardinality({s \in Subs \ resumed : Active(s)} \ {tool.sub}) \in Nat
    BY <2>1, <2>2, FS_Subset, FS_CardinalityType
  <2> QED
    BY <2>2, <2>3 DEF LimitOfSpawns
<1> QED
  BY <1>1, Invariance, PTL

-----------------------------------------------------------------------------
(* The other background task of an agent, a shell command: ReportedTruly   *)
(* and ReportedOnce are invariants of ShellTask.                           *)
(*                                                                         *)
(* A status and a notification are given once, by the reader's last step   *)
(* or by a kill that has come to its end; what they were read from can no  *)
(* longer change then.  That is so because the shell's exit is known only  *)
(* after it, a kill leaves its mark before its status, and neither kill    *)
(* nor hard limit touches a task that is no longer running.  ReportedOnce  *)
(* rests on the flag of the background: a call past its wait has it only   *)
(* if Ctrl+B or Esc crossed it.                                            *)

\* What the variables range over.
ShellTypeOK ==
    /\ process \in {"alive", "zero", "nonzero"}
    /\ noticed \in BOOLEAN
    /\ call \in {"waiting", "collecting", "terminating", "cutting", "stopping",
                 "stopped", "returned"}
    /\ told \in {"none", "background", "result", "timeout", "stopped"}
    /\ reader \in {"reading", "closing", "reaping", "done"}
    /\ killer \in {"none", "closing", "terminating", "done"}
    /\ isBackground \in BOOLEAN /\ registered \in BOOLEAN
    /\ taskStatus \in {"running", "completed", "error", "killed"}
    /\ wasKilled \in BOOLEAN /\ timedOut \in BOOLEAN /\ taskSuppress \in BOOLEAN
    /\ notified \in {"none", "completed", "error", "cancelled"}
    /\ unreaped \in BOOLEAN /\ anonymous \in BOOLEAN /\ crossed \in BOOLEAN

\* The exit is known after it, and a kill that has begun has left its mark.
Marked ==
    /\ noticed => process # "alive"
    /\ killer # "none" => wasKilled

\* The terminal status comes from a kill or from the reader, whose step is its last.
ShellStatusFits ==
    /\ taskStatus = "killed" => wasKilled
    /\ taskStatus \in {"completed", "error"} => ReaderDone
    /\ ReaderDone => ~Running
    /\ taskStatus = "completed" /\ ~unreaped => process = "zero"

\* So does the notification, which says what the status says.
NotificationFits ==
    /\ notified # "none" => ReaderDone /\ isBackground
    /\ notified = "completed" /\ ~unreaped /\ ~anonymous =>
          process = "zero" /\ ~wasKilled /\ ~timedOut
    /\ notified = "cancelled" => wasKilled

\* A call past its wait that does not promise a notification is in the background
\* only if something crossed it.
CallFits ==
    /\ call # "returned" => told = "none"
    /\ isBackground =>
          \/ crossed
          \/ call \in {"waiting", "returned"} /\ told \in {"none", "background"}

ShellInv == ShellTypeOK /\ Marked /\ ShellStatusFits /\ NotificationFits /\ CallFits

USE DEF processVars, toolVars, task, past, Running, ReaderDone

-----------------------------------------------------------------------------
(* Every step keeps the invariant.                                         *)

\* The command has just been started.
LEMMA InitShell == ShellInit => ShellInv
BY DEF ShellInit, ShellInv, ShellTypeOK, Marked, ShellStatusFits, NotificationFits,
   CallFits, Calls

\* The shell may exit and its exit may become known; nobody else moves.
OnlyExits ==
    /\ process' \in {"alive", "zero", "nonzero"} /\ (process # "alive" => process' = process)
    /\ noticed' \in BOOLEAN /\ (noticed' => process' # "alive")
    /\ UNCHANGED <<toolVars, reader, killer, task, past>>

\* The processes go their way: an exit happens once.
LEMMA ProcessesKeep ==
  ASSUME ShellInv,
         \/ Exits \/ ChildExits \/ ClosesOutput \/ ExitNoticed
         \/ \E by \in {"tool", "watcher", "kill"} : TerminationEnds(by)
  PROVE  ShellInv'
<1>0. ShellTypeOK /\ Marked
  BY DEF ShellInv
<1>1. OnlyExits
  <2>1. CASE Exits
    BY <1>0, <2>1 DEF OnlyExits, ShellTypeOK, Marked, Exits
  <2>2. CASE ChildExits \/ ClosesOutput
    BY <1>0, <2>2 DEF OnlyExits, ShellTypeOK, Marked, ChildExits, ClosesOutput
  <2>3. CASE ExitNoticed
    BY <1>0, <2>3 DEF OnlyExits, ShellTypeOK, Marked, ExitNoticed
  <2>4. ASSUME NEW by \in {"tool", "watcher", "kill"}, TerminationEnds(by)
        PROVE  OnlyExits
    BY <1>0, <2>4 DEF OnlyExits, ShellTypeOK, Marked, TerminationEnds
  <2> QED
    BY <2>1, <2>2, <2>3, <2>4
<1>2. ShellTypeOK' /\ Marked' /\ CallFits'
  BY <1>1 DEF OnlyExits, ShellInv, ShellTypeOK, Marked, CallFits
<1>3. ShellStatusFits' /\ NotificationFits'
  BY <1>1 DEF OnlyExits, ShellInv, ShellTypeOK, ShellStatusFits, NotificationFits
<1> QED
  BY <1>2, <1>3 DEF ShellInv

\* The call goes on, is moved to the background or is cancelled: it touches the
\* flag of the background and its own return.
LEMMA CallKeeps ==
  ASSUME ShellInv, CallProceeds \/ Stopped \/ CtrlB PROVE ShellInv'
<1>1. /\ call' \in {"waiting", "collecting", "terminating", "cutting", "stopping",
                    "stopped", "returned"}
      /\ told' \in {"none", "background", "result", "timeout", "stopped"}
      /\ isBackground' \in BOOLEAN /\ registered' \in BOOLEAN /\ crossed' \in BOOLEAN
      /\ isBackground => isBackground'
      /\ UNCHANGED <<process, noticed, reader, killer, taskStatus, wasKilled, timedOut,
                     taskSuppress, notified, unreaped, anonymous>>
  BY DEF ShellInv, ShellTypeOK, CallProceeds, WaitReturns, WaitMovesOn, WaitTimesOut,
     TimeoutTerminated, TimeoutReturns, CollectingTimesOut, CollectingReturns,
     StopTerminates, StopReturns, Stopped, CtrlB, Promote
<1>2. ShellTypeOK' /\ Marked' /\ ShellStatusFits' /\ NotificationFits'
  BY <1>1 DEF ShellInv, ShellTypeOK, Marked, ShellStatusFits, NotificationFits
<1>3. CallFits'
  <2>0. ShellTypeOK /\ CallFits
    BY DEF ShellInv
  <2>1. CASE WaitReturns \/ WaitMovesOn
    BY <2>0, <2>1 DEF ShellTypeOK, CallFits, WaitReturns, WaitMovesOn, Promote
  <2>2. CASE WaitTimesOut \/ Stopped \/ CtrlB
    <3>1. CASE WaitTimesOut
      BY <2>0, <3>1 DEF ShellTypeOK, CallFits, WaitTimesOut
    <3>2. CASE Stopped
      <4>1. /\ call \notin {"returned", "cutting", "stopping"} /\ told = "none"
            /\ UNCHANGED isBackground /\ (crossed' <=> crossed \/ isBackground)
            /\ call' # "returned" => told' = "none"
        BY <2>0, <3>2 DEF ShellTypeOK, CallFits, Stopped
      <4> QED
        BY <4>1 DEF CallFits
    <3>3. CASE CtrlB
      <4>1. /\ call # "returned" /\ told = "none" /\ UNCHANGED <<call, told>>
            /\ crossed' <=> crossed \/ call # "waiting"
        BY <2>0, <3>3 DEF ShellTypeOK, CallFits, CtrlB
      <4> QED
        BY <4>1 DEF CallFits
    <3> QED
      BY <2>2, <3>1, <3>2, <3>3
  <2>3. CASE \/ TimeoutTerminated \/ TimeoutReturns
             \/ CollectingTimesOut \/ CollectingReturns
    BY <2>0, <2>3 DEF ShellTypeOK, CallFits, TimeoutTerminated, TimeoutReturns,
       CollectingTimesOut, CollectingReturns
  <2>4. CASE StopTerminates \/ StopReturns
    BY <2>0, <2>4 DEF ShellTypeOK, CallFits, StopTerminates, StopReturns
  <2> QED
    BY <2>1, <2>2, <2>3, <2>4 DEF CallProceeds
<1> QED
  BY <1>2, <1>3 DEF ShellInv

\* The reader's last step gives the status, unless a kill has, and announces it.
LEMMA ReaderKeeps ==
  ASSUME ShellInv, ReaderProceeds PROVE ShellInv'
<1>1. CASE ReadEnds \/ LogClosed
  <2>1. /\ reader' \in {"closing", "reaping"} /\ ~ReaderDone
        /\ UNCHANGED <<processVars, toolVars, killer, task, past>>
    BY <1>1 DEF ReadEnds, LogClosed
  <2> QED
    BY <2>1 DEF ShellInv, ShellTypeOK, Marked, ShellStatusFits, NotificationFits, CallFits
<1>2. CASE ReaderEnds
  <2>0. /\ ShellTypeOK /\ Marked /\ ShellStatusFits /\ NotificationFits /\ CallFits
        /\ reader = "reaping" /\ reader' = "done" /\ unreaped' = ~noticed
        /\ UNCHANGED <<processVars, toolVars, killer, isBackground, registered,
                       wasKilled, timedOut, taskSuppress, crossed>>
    BY <1>2 DEF ReaderEnds, ShellInv
  <2>1. /\ taskStatus \in {"running", "killed"} /\ notified = "none"
        /\ taskStatus' = IF Running THEN FinalStatus ELSE taskStatus
    BY <1>2, <2>0 DEF ReaderEnds, ShellTypeOK, ShellStatusFits, NotificationFits
  <2>2. /\ taskStatus' \in {"completed", "error", "killed"}
        /\ taskStatus' = "killed" => wasKilled
        /\ taskStatus' = "completed" => /\ ~wasKilled /\ ~timedOut
                                        /\ noticed => process = "zero"
    BY <2>0, <2>1 DEF FinalStatus, ShellTypeOK, Marked, ShellStatusFits
  <2>3. /\ Reported(taskStatus') \in {"completed", "error", "cancelled"}
        /\ Reported(taskStatus') = "cancelled" => wasKilled
        /\ Reported(taskStatus') = "completed" /\ registered => taskStatus' = "completed"
    BY <2>0, <2>2 DEF Reported, ShellTypeOK
  <2>4. \/ notified' = Reported(taskStatus') /\ anonymous' = ~registered /\ isBackground
        \/ UNCHANGED <<notified, anonymous>>
    BY <1>2 DEF ReaderEnds
  <2>5. ShellTypeOK'
    <3>1. unreaped' \in BOOLEAN /\ anonymous' \in BOOLEAN
      BY <2>0, <2>4 DEF ShellTypeOK
    <3>2. /\ taskStatus' \in {"completed", "error", "killed"}
          /\ notified' \in {"none", "completed", "error", "cancelled"}
      BY <2>0, <2>2, <2>3, <2>4 DEF ShellTypeOK
    <3> QED
      BY <2>0, <3>1, <3>2 DEF ShellTypeOK
  <2>8. Marked' /\ CallFits'
    BY <2>0 DEF Marked, CallFits
  <2>6. ShellStatusFits'
    BY <2>0, <2>2 DEF ShellStatusFits
  <2>7. NotificationFits'
    BY <2>0, <2>1, <2>2, <2>3, <2>4 DEF ShellTypeOK, NotificationFits
  <2> QED
    BY <2>5, <2>6, <2>7, <2>8 DEF ShellInv
<1> QED
  BY <1>1, <1>2 DEF ReaderProceeds

\* The hard limit and a kill leave a task alone that is no longer running.
LEMMA EndsKeep ==
  ASSUME ShellInv, HardLimit \/ KillBegins \/ KillProceeds PROVE ShellInv'
<1>1. /\ timedOut' \in BOOLEAN /\ wasKilled' \in BOOLEAN /\ taskSuppress' \in BOOLEAN
      /\ registered' \in BOOLEAN /\ killer' \in {"none", "closing", "terminating", "done"}
      /\ (wasKilled => wasKilled') /\ (killer' # "none" => wasKilled')
      /\ taskStatus' = taskStatus \/ (Running /\ taskStatus' = "killed" /\ wasKilled')
      /\ ~Running => UNCHANGED <<timedOut, wasKilled>>
      /\ UNCHANGED <<processVars, toolVars, reader, isBackground, notified, past>>
  BY DEF ShellInv, ShellTypeOK, Marked, HardLimit, KillBegins,
     KillProceeds, KillTerminates, KillEnds
<1>2. ShellTypeOK' /\ Marked' /\ CallFits'
  BY <1>1 DEF ShellInv, ShellTypeOK, Marked, CallFits
<1>3. ShellStatusFits' /\ NotificationFits'
  BY <1>1 DEF ShellInv, ShellTypeOK, ShellStatusFits, NotificationFits
<1> QED
  BY <1>2, <1>3 DEF ShellInv

\* Every step keeps the invariant.
LEMMA NextShell == ShellInv /\ [ShellNext]_shellVars => ShellInv'
<1> SUFFICES ASSUME ShellInv, [ShellNext]_shellVars PROVE ShellInv'
  OBVIOUS
<1>1. CASE UNCHANGED shellVars
  BY <1>1 DEF shellVars, ShellInv, ShellTypeOK, Marked, ShellStatusFits, NotificationFits,
     CallFits
<1> QED
  BY <1>1, ProcessesKeep, CallKeeps, ReaderKeeps, EndsKeep DEF ShellNext

-----------------------------------------------------------------------------
(* Theorems.                                                               *)

\* ShellInv holds in every reachable state: status and notification are given once,
\* from an exit, a kill or a limit that stands.
THEOREM ShellInvariance == ShellSpec => []ShellInv
BY InitShell, NextShell, PTL DEF ShellSpec

\* What is said of the end of a command is true, in every mode and for every
\* shape of it: shell_task's terminal status and the notification agree with the
\* exit, the kills and the hard limit.
THEOREM EndsAreReportedTruly == ShellSpec => []ReportedTruly
<1>1. ShellInv => ReportedTruly
  BY DEF ShellInv, ShellStatusFits, NotificationFits, ReportedTruly
<1> QED
  BY <1>1, ShellInvariance, PTL

\* A call of the shell tool never answers with a result and a notification too,
\* unless Ctrl+B came when it no longer looked.
THEOREM EndsAreReportedOnce == ShellSpec => []ReportedOnce
<1>1. ShellInv => ReportedOnce
  BY DEF ShellInv, ShellTypeOK, NotificationFits, CallFits, ReportedOnce
<1> QED
  BY <1>1, ShellInvariance, PTL
=============================================================================
