--------------------------- MODULE AgentTurnProofs ---------------------------
(***************************************************************************)
(* For every bound and either kind of provider: the request list and the   *)
(* history stay in step, and a call that is not concurrency-safe is a      *)
(* barrier among the tool calls of its response; the user messages of a    *)
(* request are in order, a user message is lost only where it may be, and a*)
(* rewind takes back the messages of the turns it takes back.  With a      *)
(* provider that names its calls, what is sent meets the wire contract.    *)
(*                                                                         *)
(* The order, the loss and the rewind rest on one invariant, OrderInv.  It *)
(* speaks of all the lists a history can be replaced by (the request, the  *)
(* abandoned turns) and of what waits to join them.  The contract rests on *)
(* WireInv, which speaks of the calls in the same lists and of the ids     *)
(* still to come.  Both rest in turn on what each function on histories    *)
(* keeps: the sanitizer, the filters, a compaction, a truncation.          *)
(***************************************************************************)
EXTENDS AgentTurn, SequenceTheorems, FiniteSetTheorems, TLAPS

-----------------------------------------------------------------------------
(* The two lists                                                           *)

\* Each pass over the top of the loop treats two equal lists alike.
LEMMA LoopTopInStep ==
  ASSUME NEW h, LoopTop(h, h)
  PROVE  history' = msgs' /\ phase' \in {"drain", "request"}
  BY DEF LoopTop

\* Every step keeps InStep, which is inductive as it stands.
LEMMA InStepStep == InStep /\ [Next]_vars => InStep'
  <1> SUFFICES ASSUME InStep, [Next]_vars, phase' \in InLoop \ {"summarized"}, ~ overwritten'
               PROVE  history' = Sent'
    BY DEF InStep
  <1> USE DEF InStep, InLoop, Yielded, Sent, ghosts, control
  <1>1. CASE Submit \/ Notify \/ UNCHANGED vars
    BY <1>1 DEF Submit, Notify, vars, lists
  <1>2. CASE Begin \/ PrepCompact \/ Collect \/ PrepCompacted
    BY <1>2 DEF Begin, PrepCompact, Collect, PrepCompacted, lists
  <1>3. CASE Prepare
    <2>1. history' = msgs' /\ phase' \in {"drain", "request"}
      BY <1>3, LoopTopInStep DEF Prepare
    <2> QED BY <2>1
  <1>4. CASE DrainNext
    BY <1>4 DEF DrainNext
  <1>5. CASE DrainDone \/ RequestFails
    BY <1>5 DEF DrainDone, RequestFails, lists
  <1>6. CASE Answer
    BY <1>6 DEF Answer
  <1>7. CASE NextMessages
    <2>1. history = msgs
      BY <1>7 DEF NextMessages
    <2>2. history' = msgs' /\ phase' \in {"drain", "request"}
      BY <1>7, <2>1, LoopTopInStep DEF NextMessages
    <2> QED BY <2>2
  <1>8. CASE EndOfTurn \/ ErrorShown
    BY <1>8 DEF EndOfTurn, ErrorShown
  <1>9. ASSUME NEW n \in 1 .. MaxCalls, CallTools(n)
        PROVE  history' = Sent'
    <2>1. history = msgs
      BY <1>9 DEF CallTools
    <2> QED BY <1>9, <2>1 DEF CallTools
  <1>10. CASE StartBatch
    BY <1>10 DEF StartBatch, lists
  <1>11. ASSUME NEW i \in DOMAIN calls, ToolReturns(i)
         PROVE  history' = Sent'
    BY <1>11 DEF ToolReturns, lists
  <1>12. CASE Record
    BY <1>12 DEF Record
  <1>13. CASE RecordLast
    <2>1. Append(history, Result) = Append(msgs, Result)
      BY <1>13 DEF RecordLast
    <2>2. history' = msgs' /\ phase' \in {"drain", "request"}
      BY <1>13, <2>1, LoopTopInStep DEF RecordLast
    <2> QED BY <2>2
  <1>14. CASE RecordAndCompact \/ CompactSucceeds \/ Resync
    BY <1>14 DEF RecordAndCompact, CompactSucceeds, Resync
  <1>15. CASE AfterCompaction
    <2>1. history = Sent
      BY <1>15 DEF AfterCompaction
    <2> HIDE DEF Sent
    <2>2. history' = msgs' /\ phase' \in {"drain", "request"}
      BY <1>15, <2>1, LoopTopInStep DEF AfterCompaction
    <2> QED BY <2>2 DEF Sent
  <1>16. CASE Close \/ NoteInterruption \/ StopInside \/ StopOutside \/ StopHandler
    BY <1>16 DEF Close, NoteInterruption, StopInside, StopOutside, StopHandler,
                 Unwound
  <1>17. CASE Finalize
    BY <1>17 DEF Finalize
  <1>18. ASSUME NEW k \in 0 .. (MaxUsers - 1), Rewind(k)
         PROVE  history' = Sent'
    BY <1>18 DEF Rewind
  <1> QED
    BY <1>1, <1>2, <1>3, <1>4, <1>5, <1>6, <1>7, <1>8, <1>9, <1>10, <1>11,
       <1>12, <1>13, <1>14, <1>15, <1>16, <1>17, <1>18
    DEF Next, Work, Preparing, Requesting, Executing, Ending

\* While the loop runs, what the provider is sent next is what the history holds,
\* except while the list after a compaction is being made.
THEOREM InStepHolds == Spec => []InStep
  <1>1. Init => InStep
    BY DEF Init, InStep, InLoop, Yielded
  <1> QED BY <1>1, InStepStep, PTL DEF Spec

-----------------------------------------------------------------------------
(* The barrier                                                             *)

\* Calls run only in the phase "running"; then the batch is a barrier's.
BarrierInv ==
  /\ Barrier
  /\ answered \in Nat
  /\ running # {} => phase = "running"

\* The batch that a position in the calls determines: any two of its calls are
\* safe, and no unsafe call stands between the position and a later member.
LEMMA BatchIsBarrier ==
  ASSUME answered \in Nat, NEW i \in Batch
  PROVE  /\ \A j \in Batch : i # j => calls[i].safe
         /\ \A j \in 1 .. (i - 1) : ~ calls[j].safe => j <= answered
  <1>1. i \in Int /\ i >= answered + 1
    BY DEF Batch
  <1>2. i > answered + 1 => \A j \in (answered + 1) .. i : calls[j].safe
    BY DEF Batch
  <1>3. ASSUME NEW j \in Batch, i # j
        PROVE  calls[i].safe
    <2>1. j \in Int /\ j >= answered + 1
      BY DEF Batch
    <2>2. j > answered + 1 => \A k \in (answered + 1) .. j : calls[k].safe
      BY DEF Batch
    <2>3. CASE i < j
      <3>1. i \in (answered + 1) .. j /\ j > answered + 1
        BY <1>1, <2>1, <2>3
      <3> QED BY ONLY <2>2, <3>1, Zenon
    <2>4. CASE j < i
      <3>1. i \in (answered + 1) .. i /\ i > answered + 1
        BY <1>1, <2>1, <2>4
      <3> QED BY ONLY <1>2, <3>1, Zenon
    <2> QED BY <1>1, <1>3, <2>1, <2>3, <2>4
  <1>4. ASSUME NEW j \in 1 .. (i - 1), ~ calls[j].safe
        PROVE  j <= answered
    <2>1. SUFFICES ASSUME j > answered PROVE FALSE
      BY <1>1
    <2>2. j \in (answered + 1) .. i /\ i > answered + 1
      BY <1>1, <2>1
    <2> QED BY ONLY <1>2, <1>4, <2>2, Zenon
  <1> QED BY <1>3, <1>4

\* A step after which no call runs establishes the invariant.
LEMMA NothingRuns ==
  ASSUME running' = {}, answered' \in Nat
  PROVE  BarrierInv'
  BY DEF BarrierInv, Barrier

\* Every step keeps the invariant.
LEMMA BarrierStep == BarrierInv /\ [Next]_vars => BarrierInv'
  <1> SUFFICES ASSUME BarrierInv, [Next]_vars PROVE BarrierInv'
    OBVIOUS
  <1>1. answered \in Nat /\ (running # {} => phase = "running") /\ Barrier
    BY DEF BarrierInv
  <1>2. ASSUME UNCHANGED <<phase, step>> PROVE BarrierInv'
    BY <1>1, <1>2 DEF BarrierInv, Barrier, step
  <1>3. ASSUME phase # "running", UNCHANGED running, answered' \in Nat
        PROVE  BarrierInv'
    BY <1>1, <1>3, NothingRuns
  <1>4. CASE Submit \/ Notify \/ Finalize \/ UNCHANGED vars
    BY <1>2, <1>4 DEF Submit, Notify, Finalize, vars, step
  <1>5. CASE Begin \/ Preparing
    BY <1>1, <1>3, <1>5 DEF Begin, Preparing, PrepCompact, Collect, PrepCompacted, Prepare, step
  <1>6. CASE DrainNext \/ DrainDone \/ Answer \/ NextMessages \/ EndOfTurn
             \/ RequestFails \/ ErrorShown
    BY <1>1, <1>3, <1>6 DEF DrainNext, DrainDone, Answer, NextMessages, EndOfTurn,
                            RequestFails, ErrorShown, step
  <1>7. ASSUME NEW n \in 1 .. MaxCalls, CallTools(n)
        PROVE  BarrierInv'
    BY <1>7, NothingRuns DEF CallTools
  <1>8. CASE StartBatch
    <2>1. running' = Batch /\ calls' = calls /\ answered' = answered
      BY <1>8 DEF StartBatch
    <2>2. \A i \in Batch :
            /\ \A j \in Batch : i # j => calls[i].safe
            /\ \A j \in 1 .. (i - 1) : ~ calls[j].safe => j <= answered
      BY <1>1, BatchIsBarrier
    <2>3. Barrier'
      BY ONLY <2>1, <2>2, Zenon DEF Barrier
    <2> QED BY <1>1, <1>8, <2>1, <2>3 DEF StartBatch, BarrierInv
  <1>9. ASSUME NEW i \in DOMAIN calls, ToolReturns(i)
        PROVE  BarrierInv'
    <2>1. /\ running' = running \ {i}
          /\ calls' = calls /\ answered' = answered
          /\ phase' = IF running = {i} THEN "result" ELSE "running"
      BY <1>9 DEF ToolReturns
    <2>2. running' # {} => phase' = "running"
      BY <2>1
    <2>3. Barrier'
      BY <1>1, <2>1 DEF Barrier
    <2> QED BY <1>1, <2>1, <2>2, <2>3 DEF BarrierInv
  <1>10. CASE Record \/ RecordLast \/ RecordAndCompact \/ CompactSucceeds
              \/ Resync \/ AfterCompaction
    BY <1>1, <1>3, <1>10 DEF Record, RecordLast, RecordAndCompact,
                             CompactSucceeds, Resync, AfterCompaction, step
  <1>11. CASE Close \/ StopInside \/ StopOutside
    <2>1. running' = {} /\ answered' = 0
      BY <1>11 DEF Close, StopInside, StopOutside, Unwound
    <2> QED BY <2>1, NothingRuns
  <1>12. CASE NoteInterruption \/ StopHandler
    BY <1>1, <1>3, <1>12 DEF NoteInterruption, StopHandler, step
  <1>13. ASSUME NEW k \in 0 .. (MaxUsers - 1), Rewind(k)
         PROVE  BarrierInv'
    BY <1>2, <1>13 DEF Rewind, step
  <1> QED
    BY <1>4, <1>5, <1>6, <1>7, <1>8, <1>9, <1>10, <1>11, <1>12, <1>13
    DEF Next, Work, Requesting, Executing, Ending

\* An unsafe tool call runs alone and in its place.
THEOREM BarrierHolds == Spec => []Barrier
  <1>1. Init => BarrierInv
    BY DEF Init, BarrierInv, Barrier
  <1>2. BarrierInv => Barrier
    BY DEF BarrierInv
  <1> QED BY <1>1, <1>2, BarrierStep, PTL DEF Spec

-----------------------------------------------------------------------------
(* Lists of messages                                                       *)

\* The users of s spoke before those of t.
Before(s, t) == \A a \in UserRefs(s), b \in UserRefs(t) : a < b
Histories == Seq(Message)

\* A reference is a user's where a user message bears it.
LEMMA UsersIn ==
  ASSUME NEW s \in Histories, NEW a
  PROVE  a \in UserRefs(s) <=> \E i \in 1 .. Len(s) : s[i].role = "user" /\ s[i].ref = a
  BY DEF UserRefs, Histories

\* What a concatenation holds, and when it is in order.
LEMMA Concatenated ==
  ASSUME NEW s \in Histories, NEW t \in Histories
  PROVE  /\ s \o t \in Histories
         /\ UserRefs(s \o t) = UserRefs(s) \cup UserRefs(t)
         /\ Range(s \o t) = Range(s) \cup Range(t)
         /\ Ordered(s \o t) <=> Ordered(s) /\ Ordered(t) /\ Before(s, t)
  <1> DEFINE st == s \o t
  <1>1. /\ st \in Histories /\ DOMAIN st = 1 .. (Len(s) + Len(t))
        /\ DOMAIN s = 1 .. Len(s) /\ DOMAIN t = 1 .. Len(t)
        /\ Len(s) \in Nat /\ Len(t) \in Nat /\ Len(st) = Len(s) + Len(t)
        /\ \A i \in 1 .. Len(s) : st[i] = s[i]
        /\ \A i \in 1 .. Len(t) : st[Len(s) + i] = t[i]
        /\ \A i \in 1 .. Len(s) + Len(t) :
             i > Len(s) => i - Len(s) \in 1 .. Len(t) /\ st[i] = t[i - Len(s)]
    BY DEF Histories
  <1> HIDE DEF st
  <1>2. UserRefs(st) = UserRefs(s) \cup UserRefs(t)
    <2>1. ASSUME NEW a \in UserRefs(st) PROVE a \in UserRefs(s) \cup UserRefs(t)
      <3>1. PICK i \in 1 .. Len(s) + Len(t) : st[i].role = "user" /\ st[i].ref = a
        BY <1>1, <2>1, UsersIn
      <3>2. CASE i <= Len(s)
        BY <1>1, <3>1, <3>2, UsersIn
      <3>3. CASE i > Len(s)
        <4>1. i - Len(s) \in 1 .. Len(t) /\ st[i] = t[i - Len(s)]
          BY <1>1, <3>3
        <4> QED BY <3>1, <4>1, UsersIn
      <3> QED BY <1>1, <3>2, <3>3
    <2>2. ASSUME NEW a \in UserRefs(s) PROVE a \in UserRefs(st)
      BY <1>1, <2>2, UsersIn
    <2>3. ASSUME NEW a \in UserRefs(t) PROVE a \in UserRefs(st)
      <3>1. PICK i \in 1 .. Len(t) : t[i].role = "user" /\ t[i].ref = a
        BY <1>1, <2>3, UsersIn
      <3>2. Len(s) + i \in 1 .. Len(st)
        BY <1>1
      <3> QED BY <1>1, <3>1, <3>2, UsersIn
    <2> QED BY <2>1, <2>2, <2>3
  <1>3. Range(st) = Range(s) \cup Range(t)
    <2>1. ASSUME NEW i \in DOMAIN st PROVE st[i] \in Range(s) \cup Range(t)
      <3>1. i <= Len(s) \/ i > Len(s)
        BY <1>1
      <3> QED BY <1>1, <3>1 DEF Range
    <2>2. ASSUME NEW i \in DOMAIN s PROVE s[i] \in Range(st)
      <3>1. i \in DOMAIN st
        BY <1>1
      <3> QED BY <1>1, <3>1 DEF Range
    <2>3. ASSUME NEW i \in DOMAIN t PROVE t[i] \in Range(st)
      <3>1. Len(s) + i \in DOMAIN st
        BY <1>1
      <3> QED BY <1>1, <3>1 DEF Range
    <2> QED BY <2>1, <2>2, <2>3 DEF Range
  <1>4. ASSUME Ordered(s), Ordered(t), Before(s, t) PROVE Ordered(st)
    <2>1. SUFFICES ASSUME NEW i \in DOMAIN st, NEW j \in DOMAIN st, i < j,
                          st[i].role = "user", st[j].role = "user"
                   PROVE  st[i].ref < st[j].ref
      BY DEF Ordered
    <2>2. CASE j <= Len(s)
      BY <1>1, <1>4, <2>1, <2>2 DEF Ordered
    <2>3. CASE i > Len(s)
      <3>1. /\ i - Len(s) \in DOMAIN t /\ j - Len(s) \in DOMAIN t
            /\ i - Len(s) < j - Len(s)
            /\ st[i] = t[i - Len(s)] /\ st[j] = t[j - Len(s)]
        BY <1>1, <2>1, <2>3
      <3> QED BY ONLY <1>4, <2>1, <3>1 DEF Ordered
    <2>4. CASE i <= Len(s) /\ j > Len(s)
      <3>1. st[i].ref \in UserRefs(s)
        BY <1>1, <2>1, <2>4, UsersIn
      <3>2. st[j].ref \in UserRefs(t)
        BY <1>1, <2>1, <2>4, UsersIn
      <3> QED BY <1>4, <3>1, <3>2 DEF Before
    <2> QED BY <1>1, <2>1, <2>2, <2>3, <2>4
  <1>5. ASSUME Ordered(st) PROVE Ordered(s) /\ Ordered(t) /\ Before(s, t)
    <2>1. Ordered(s)
      BY <1>1, <1>5 DEF Ordered
    <2>2. ASSUME NEW i \in DOMAIN t, NEW j \in DOMAIN t, i < j,
                 t[i].role = "user", t[j].role = "user"
          PROVE  t[i].ref < t[j].ref
      <3>1. Len(s) + i \in DOMAIN st /\ Len(s) + j \in DOMAIN st /\ Len(s) + i < Len(s) + j
        BY <1>1, <2>2
      <3> QED BY <1>1, <1>5, <2>2, <3>1 DEF Ordered
    <2>3. ASSUME NEW a \in UserRefs(s), NEW b \in UserRefs(t) PROVE a < b
      <3>1. PICK i \in 1 .. Len(s) : s[i].role = "user" /\ s[i].ref = a
        BY <2>3, UsersIn
      <3>2. PICK j \in 1 .. Len(t) : t[j].role = "user" /\ t[j].ref = b
        BY <2>3, UsersIn
      <3>3. i \in DOMAIN st /\ Len(s) + j \in DOMAIN st /\ i < Len(s) + j
        BY <1>1, <3>1, <3>2
      <3> QED BY <1>1, <1>5, <3>1, <3>2, <3>3 DEF Ordered
    <2> QED BY <2>1, <2>2, <2>3 DEF Ordered, Before
  <1> QED BY <1>1, <1>2, <1>3, <1>4, <1>5 DEF st

\* The list of one message.
LEMMA Single ==
  ASSUME NEW m \in Message
  PROVE  /\ <<m>> \in Histories /\ Ordered(<<m>>) /\ Range(<<m>>) = {m}
         /\ UserRefs(<<m>>) = IF m.role = "user" THEN {m.ref} ELSE {}
  <1>1. <<m>> \in Histories /\ DOMAIN <<m>> = {1} /\ Len(<<m>>) = 1 /\ <<m>>[1] = m
    BY DEF Histories
  <1>2. Ordered(<<m>>) /\ Range(<<m>>) = {m}
    BY <1>1 DEF Ordered, Range
  <1>3. UserRefs(<<m>>) = IF m.role = "user" THEN {m.ref} ELSE {}
    BY <1>1 DEF UserRefs
  <1> QED BY <1>1, <1>2, <1>3

\* The empty list.
LEMMA Empty ==
  /\ <<>> \in Histories /\ Ordered(<<>>) /\ Range(<<>>) = {} /\ UserRefs(<<>>) = {}
  <1>1. <<>> \in Histories /\ DOMAIN <<>> = {}
    BY DEF Histories
  <1> QED BY <1>1 DEF Ordered, Range, UserRefs

\* A list is what is before a cut and what is behind it.
LEMMA Cut ==
  ASSUME NEW s \in Histories, NEW n \in 0 .. Len(s)
  PROVE  /\ SubSeq(s, 1, n) \in Histories
         /\ SubSeq(s, n + 1, Len(s)) \in Histories
         /\ s = SubSeq(s, 1, n) \o SubSeq(s, n + 1, Len(s))
  <1>0. Len(s) \in Nat
    BY DEF Histories
  <1>1. SubSeq(s, 1, Len(s)) = s
    BY SubSeqFull DEF Histories
  <1> DEFINE one == 1
             last == Len(s)
  <1>2. one \in 1 .. Len(s) + 1 /\ n \in one - 1 .. Len(s) /\ last \in n .. Len(s)
    BY <1>0
  <1> HIDE DEF one, last
  <1>3. SubSeq(s, one, n) \o SubSeq(s, n + 1, last) = SubSeq(s, one, last)
    BY <1>2, ConcatAdjacentSubSeq DEF Histories
  <1>4. SubSeq(s, 1, n) \o SubSeq(s, n + 1, Len(s)) = s
    BY <1>1, <1>3 DEF one, last
  <1>5. SubSeq(s, 1, n) \in Histories /\ SubSeq(s, n + 1, Len(s)) \in Histories
    BY <1>0 DEF Histories
  <1> QED BY ONLY <1>4, <1>5

\* A list that is not empty is its head and its tail.
LEMMA HeadAndTail ==
  ASSUME NEW s \in Histories, s # <<>>
  PROVE  Head(s) \in Message /\ Tail(s) \in Histories /\ s = <<Head(s)>> \o Tail(s)
  <1>1. Len(s) \in Nat \ {0}
    BY EmptySeq DEF Histories
  <1>2. Head(s) \in Message /\ Tail(s) \in Histories
    BY HeadTailProperties DEF Histories
  <1>3. <<Head(s)>> \in Histories /\ Len(<<Head(s)>>) = 1 /\ Len(Tail(s)) = Len(s) - 1
    BY <1>1, <1>2 DEF Histories
  <1> DEFINE u == <<Head(s)>> \o Tail(s)
  <1>4. u \in Histories /\ Len(u) = Len(s) /\ \A i \in 1 .. Len(s) : u[i] = s[i]
    BY <1>1, <1>2, <1>3 DEF Histories
  <1>5. u = s
    BY <1>4, SeqEqual DEF Histories
  <1> QED BY <1>2, <1>5

\* Appending is concatenating a list of one message.
LEMMA Appended ==
  ASSUME NEW s \in Histories, NEW m \in Message
  PROVE  Append(s, m) = s \o <<m>>
  BY AppendIsConcat DEF Histories

\* Fewer messages bear fewer users' references.
LEMMA RangeUsers ==
  ASSUME NEW s \in Histories, NEW t \in Histories, Range(s) \subseteq Range(t)
  PROVE  UserRefs(s) \subseteq UserRefs(t)
  <1> SUFFICES ASSUME NEW a \in UserRefs(s) PROVE a \in UserRefs(t)
    OBVIOUS
  <1>1. PICK i \in 1 .. Len(s) : s[i].role = "user" /\ s[i].ref = a
    BY UsersIn
  <1>2. PICK j \in 1 .. Len(t) : s[i] = t[j]
    BY <1>1 DEF Range, Histories
  <1> QED BY <1>1, <1>2, UsersIn

-----------------------------------------------------------------------------
(* FlattenSeq                                                              *)

\* Induction over the naturals, for a set that holds 0 and is closed under successor.
LEMMA SetInduction ==
  ASSUME NEW S, 0 \in S, \A n \in Nat : n \in S => n + 1 \in S
  PROVE  Nat \subseteq S
  <1> DEFINE Missing == Nat \ S
             T == {1 .. n : n \in Missing}
  <1> SUFFICES ASSUME Missing # {} PROVE FALSE
    OBVIOUS
  <1>1. T \subseteq FiniteSubsetsOf(Nat) /\ T # {}
    <2>1. ASSUME NEW n \in Missing PROVE 1 .. n \in SUBSET Nat /\ IsFiniteSet(1 .. n)
      <3>1. n \in Int /\ 1 \in Int
        OBVIOUS
      <3> QED BY <3>1, FS_Interval
    <2> QED BY <2>1 DEF FiniteSubsetsOf
  <1>2. PICK x \in T : \A y \in T : ~ (<<y, x>> \in StrictSubsetOrdering(Nat))
    BY <1>1, FS_StrictSubsetOrderingWellFounded, WFMin
  <1>3. PICK m \in Missing : x = 1 .. m
    BY <1>2
  <1>4. m - 1 \in Missing
    BY <1>3
  <1>5. 1 .. (m - 1) \in T /\ 1 .. (m - 1) \in SUBSET Nat /\ 1 .. m \in SUBSET Nat
    BY <1>4
  <1>6. 1 .. (m - 1) \subseteq 1 .. m /\ m \in 1 .. m /\ m \notin 1 .. (m - 1)
    BY <1>4
  <1>7. <<1 .. (m - 1), 1 .. m>> \in StrictSubsetOrdering(Nat)
    BY <1>5, <1>6 DEF StrictSubsetOrdering
  <1> QED BY <1>2, <1>3, <1>5, <1>7

\* A set of naturals has a least element.
LEMMA Least ==
  ASSUME NEW T \in SUBSET Nat, T # {}
  PROVE  \E k \in T : \A j \in T : k <= j
  <1> SUFFICES ASSUME \A k \in T : \E j \in T : ~ (k <= j) PROVE FALSE
    OBVIOUS
  <1> DEFINE S == {n \in Nat : \A j \in T : n <= j}
  <1>1. 0 \in S
    OBVIOUS
  <1>2. \A n \in Nat : n \in S => n + 1 \in S
    OBVIOUS
  <1> HIDE DEF S
  <1>3. Nat \subseteq S
    BY <1>1, <1>2, SetInduction
  <1>4. PICK k : k \in T
    OBVIOUS
  <1> QED BY <1>3, <1>4 DEF S

\* g holds the concatenations of the first elements of e, as in FlattenSeq.
IsJoin(g, e, n) == g = [i \in 1 .. n |-> IF i = 1 THEN e[i] ELSE g[i - 1] \o e[i]]

\* The function that FlattenSeq chooses exists, for every length.
LEMMA JoinExists == ASSUME NEW e, NEW n \in Nat PROVE \E g : IsJoin(g, e, n)
  <1> DEFINE S == {m \in Nat : \E g : IsJoin(g, e, m)}
  <1>1. 0 \in S
    <2>1. IsJoin([i \in 1 .. 0 |-> e[i]], e, 0)
      BY DEF IsJoin
    <2> QED BY <2>1
  <1>2. ASSUME NEW m \in Nat, m \in S PROVE m + 1 \in S
    <2>1. PICK g : IsJoin(g, e, m)
      BY <1>2
    <2> DEFINE h == [i \in 1 .. m + 1 |-> IF i = m + 1
                                            THEN IF i = 1 THEN e[i] ELSE g[m] \o e[i]
                                            ELSE g[i]]
    <2>2. ASSUME NEW i \in 1 .. m + 1
          PROVE  h[i] = IF i = 1 THEN e[i] ELSE h[i - 1] \o e[i]
      <3>1. CASE i = m + 1
        <4>1. i # 1 => i - 1 \in 1 .. m + 1 /\ i - 1 # m + 1 /\ i - 1 = m
          BY <3>1
        <4>2. i # 1 => h[i - 1] = g[m]
          BY <4>1
        <4> QED BY <3>1, <4>2
      <3>2. CASE i # m + 1
        <4>1. i \in 1 .. m
          BY <3>2
        <4>2. i # 1 => i - 1 \in 1 .. m + 1 /\ i - 1 # m + 1
          BY <4>1
        <4>3. h[i] = g[i] /\ (i # 1 => h[i - 1] = g[i - 1])
          BY <3>2, <4>2
        <4> QED BY <2>1, <4>1, <4>3 DEF IsJoin
      <3> QED BY <3>1, <3>2
    <2> HIDE DEF h
    <2>3. IsJoin(h, e, m + 1)
      BY <2>2 DEF IsJoin, h
    <2> QED BY <2>3
  <1> HIDE DEF S
  <1>3. n \in S
    BY <1>1, <1>2, SetInduction
  <1> QED BY <1>3 DEF S

\* FlattenSeq returns the last of the partial concatenations.
LEMMA FlattenIsJoin ==
  ASSUME NEW e, Len(e) \in Nat \ {0}
  PROVE  \E g : IsJoin(g, e, Len(e)) /\ FlattenSeq(e) = g[Len(e)]
  <1> DEFINE join == CHOOSE g : IsJoin(g, e, Len(e))
  <1>1. IsJoin(join, e, Len(e))
    BY JoinExists
  <1>2. FlattenSeq(e) = join[Len(e)]
    BY DEF FlattenSeq, IsJoin
  <1> QED BY <1>1, <1>2

\* What a flattened list holds, and when it is in order.
LEMMA Flattened ==
  ASSUME NEW e \in Seq(Histories)
  PROVE  LET f == FlattenSeq(e) IN
         /\ f \in Histories
         /\ UserRefs(f) = UNION {UserRefs(e[j]) : j \in 1 .. Len(e)}
         /\ Range(f) = UNION {Range(e[j]) : j \in 1 .. Len(e)}
         /\ (\A j \in 1 .. Len(e) : Ordered(e[j]))
              /\ (\A j \in 1 .. Len(e) : \A i \in 1 .. (j - 1) : Before(e[i], e[j]))
            => Ordered(f)
  <1> DEFINE f == FlattenSeq(e)
             Users(n) == UNION {UserRefs(e[j]) : j \in 1 .. n}
             All(n) == UNION {Range(e[j]) : j \in 1 .. n}
             Chain == (\A j \in 1 .. Len(e) : Ordered(e[j]))
                        /\ (\A j \in 1 .. Len(e) : \A i \in 1 .. (j - 1) : Before(e[i], e[j]))
  <1>0. Len(e) \in Nat
    OBVIOUS
  <1>1. CASE Len(e) = 0
    <2>1. e = <<>> /\ f = <<>>
      BY <1>1, EmptySeq DEF FlattenSeq
    <2>2. f \in Histories /\ Ordered(f) /\ Range(f) = {} /\ UserRefs(f) = {}
      BY <2>1, Empty
    <2> QED BY <1>1, <2>2
  <1>2. CASE Len(e) # 0
    <2>1. PICK g : IsJoin(g, e, Len(e)) /\ f = g[Len(e)]
      BY <1>0, <1>2, FlattenIsJoin
    <2> HIDE DEF f
    <2> DEFINE Good(n) == /\ g[n] \in Histories
                          /\ UserRefs(g[n]) = Users(n)
                          /\ Range(g[n]) = All(n)
                          /\ Chain => Ordered(g[n])
               S == {n \in Nat : 0 < n /\ n <= Len(e) => Good(n)}
    <2>2. 0 \in S
      OBVIOUS
    <2>3. ASSUME NEW n \in Nat, n \in S PROVE n + 1 \in S
      <3>1. SUFFICES ASSUME n + 1 <= Len(e) PROVE Good(n + 1)
        OBVIOUS
      <3>2. n + 1 \in 1 .. Len(e) /\ e[n + 1] \in Histories
        BY <1>0, <3>1
      <3>3. CASE n = 0
        <4>1. g[1] = e[1]
          BY <2>1, <3>2, <3>3 DEF IsJoin
        <4>2. 1 .. (n + 1) = {1} /\ 1 \in 1 .. Len(e)
          BY <1>0, <1>2, <3>3
        <4>3. Users(n + 1) = UserRefs(e[1]) /\ All(n + 1) = Range(e[1])
          BY <4>2
        <4>4. Chain => Ordered(e[1])
          BY <4>2
        <4> QED BY <3>2, <3>3, <4>1, <4>3, <4>4
      <3>4. CASE n # 0
        <4>1. Good(n)
          BY <2>3, <3>1, <3>4, <1>0
        <4>2. g[n + 1] = g[n] \o e[n + 1]
          <5>1. n + 1 # 1 /\ (n + 1) - 1 = n
            BY <3>4
          <5>2. g[n + 1] = IF n + 1 = 1 THEN e[n + 1] ELSE g[(n + 1) - 1] \o e[n + 1]
            BY ONLY <2>1, <3>2 DEF IsJoin
          <5> QED BY ONLY <5>1, <5>2
        <4>3. /\ g[n + 1] \in Histories
              /\ UserRefs(g[n + 1]) = UserRefs(g[n]) \cup UserRefs(e[n + 1])
              /\ Range(g[n + 1]) = Range(g[n]) \cup Range(e[n + 1])
              /\ Ordered(g[n + 1]) <=> Ordered(g[n]) /\ Ordered(e[n + 1]) /\ Before(g[n], e[n + 1])
          <5>1. g[n] \in Histories
            BY <4>1
          <5> DEFINE a == g[n]
                     b == e[n + 1]
          <5>2. a \in Histories /\ b \in Histories /\ g[n + 1] = a \o b
            BY <3>2, <4>2, <5>1
          <5> HIDE DEF a, b
          <5>3. /\ g[n + 1] \in Histories
                /\ UserRefs(g[n + 1]) = UserRefs(a) \cup UserRefs(b)
                /\ Range(g[n + 1]) = Range(a) \cup Range(b)
                /\ Ordered(g[n + 1]) <=> Ordered(a) /\ Ordered(b) /\ Before(a, b)
            BY <5>2, Concatenated
          <5> QED BY <5>3 DEF a, b
        <4>4. 1 .. (n + 1) = (1 .. n) \cup {n + 1}
          OBVIOUS
        <4>5. Users(n + 1) = Users(n) \cup UserRefs(e[n + 1])
              /\ All(n + 1) = All(n) \cup Range(e[n + 1])
          BY <4>4
        <4>6. ASSUME Chain PROVE Ordered(e[n + 1]) /\ Before(g[n], e[n + 1])
          <5>1. Ordered(e[n + 1])
            BY <3>2, <4>6
          <5>2. ASSUME NEW a \in UserRefs(g[n]), NEW b \in UserRefs(e[n + 1]) PROVE a < b
            <6>1. PICK i \in 1 .. n : a \in UserRefs(e[i])
              BY <4>1, <5>2
            <6>2. i \in 1 .. ((n + 1) - 1)
              OBVIOUS
            <6>3. Before(e[i], e[n + 1])
              BY <3>2, <4>6, <6>2
            <6> QED BY <5>2, <6>1, <6>3 DEF Before
          <5> QED BY <5>1, <5>2 DEF Before
        <4> HIDE DEF Users, All, Chain
        <4> QED BY <4>1, <4>3, <4>5, <4>6
      <3> QED BY <3>3, <3>4
    <2> HIDE DEF S
    <2>4. Len(e) \in S
      BY <1>0, <2>2, <2>3, SetInduction
    <2>5. Good(Len(e))
      BY <1>0, <1>2, <2>4 DEF S
    <2> HIDE DEF Chain
    <2>6. /\ f \in Histories /\ UserRefs(f) = Users(Len(e)) /\ Range(f) = All(Len(e))
          /\ Chain => Ordered(f)
      BY <2>1, <2>5
    <2> QED BY <2>6 DEF Chain, f
  <1> QED BY <1>0, <1>1, <1>2

-----------------------------------------------------------------------------
(* Filters and the sanitizer                                               *)

\* The same for lists over any set.
LEMMA FlattenedIn ==
  ASSUME NEW S, NEW e \in Seq(Seq(S))
  PROVE  FlattenSeq(e) \in Seq(S)
  <1> DEFINE f == FlattenSeq(e)
  <1>0. Len(e) \in Nat
    OBVIOUS
  <1>1. CASE Len(e) = 0
    BY <1>1, EmptySeq DEF FlattenSeq
  <1>2. CASE Len(e) # 0
    <2>1. PICK g : IsJoin(g, e, Len(e)) /\ f = g[Len(e)]
      BY <1>0, <1>2, FlattenIsJoin
    <2> DEFINE T == {n \in Nat : 0 < n /\ n <= Len(e) => g[n] \in Seq(S)}
    <2>2. 0 \in T
      OBVIOUS
    <2>3. ASSUME NEW n \in Nat, n \in T PROVE n + 1 \in T
      <3>1. SUFFICES ASSUME n + 1 <= Len(e) PROVE g[n + 1] \in Seq(S)
        OBVIOUS
      <3>2. n + 1 \in 1 .. Len(e) /\ e[n + 1] \in Seq(S)
        BY <1>0, <3>1
      <3>3. g[n + 1] = IF n + 1 = 1 THEN e[n + 1] ELSE g[(n + 1) - 1] \o e[n + 1]
        BY ONLY <2>1, <3>2 DEF IsJoin
      <3>4. n # 0 => g[n] \in Seq(S) /\ n + 1 # 1 /\ (n + 1) - 1 = n
        BY <1>0, <2>3, <3>1
      <3> QED BY <3>2, <3>3, <3>4
    <2> HIDE DEF T
    <2>4. Len(e) \in T
      BY <1>0, <2>2, <2>3, SetInduction
    <2> QED BY <1>0, <1>2, <2>1, <2>4 DEF T
  <1> QED BY <1>1, <1>2

\* A list rebuilt piece by piece, where no piece speaks for a user its message
\* does not speak for: nobody is added and the order stays.
LEMMA Pieces ==
  ASSUME NEW h \in Histories, NEW e \in Seq(Histories), Len(e) = Len(h),
         \A j \in 1 .. Len(h) : Ordered(e[j]) /\ UserRefs(e[j]) \subseteq UserRefs(<<h[j]>>)
  PROVE  LET f == FlattenSeq(e) IN
         /\ UserRefs(f) \subseteq UserRefs(h)
         /\ (\A j \in 1 .. Len(h) : UserRefs(e[j]) = UserRefs(<<h[j]>>))
              => UserRefs(f) = UserRefs(h)
         /\ Ordered(h) => Ordered(f)
  <1> DEFINE f == FlattenSeq(e)
  <1>1. UserRefs(f) = UNION {UserRefs(e[j]) : j \in 1 .. Len(h)}
    BY Flattened
  <1>2. ASSUME NEW j \in 1 .. Len(h)
        PROVE  /\ h[j] \in Message
               /\ UserRefs(<<h[j]>>) = IF h[j].role = "user" THEN {h[j].ref} ELSE {}
    <2>1. h[j] \in Message
      BY DEF Histories
    <2> QED BY <2>1, Single
  <1>3. ASSUME NEW j \in 1 .. Len(h) PROVE UserRefs(<<h[j]>>) \subseteq UserRefs(h)
    <2>1. h[j].role = "user" => h[j].ref \in UserRefs(h)
      BY UsersIn
    <2> QED BY ONLY <1>2, <2>1
  <1>4. UserRefs(f) \subseteq UserRefs(h)
    BY <1>1, <1>3
  <1>5. ASSUME \A j \in 1 .. Len(h) : UserRefs(e[j]) = UserRefs(<<h[j]>>)
        PROVE  UserRefs(h) \subseteq UserRefs(f)
    <2>1. ASSUME NEW a \in UserRefs(h) PROVE a \in UserRefs(f)
      <3>1. PICK j \in 1 .. Len(h) : h[j].role = "user" /\ h[j].ref = a
        BY <2>1, UsersIn
      <3>2. a \in UserRefs(<<h[j]>>)
        BY ONLY <1>2, <3>1
      <3> QED BY <1>1, <1>5, <3>2
    <2> QED BY <2>1
  <1>6. ASSUME Ordered(h) PROVE Ordered(f)
    <2>1. ASSUME NEW j \in 1 .. Len(e), NEW i \in 1 .. (j - 1) PROVE Before(e[i], e[j])
      <3>1. SUFFICES ASSUME NEW a \in UserRefs(e[i]), NEW b \in UserRefs(e[j]) PROVE a < b
        BY DEF Before
      <3>2. i \in 1 .. Len(h) /\ j \in 1 .. Len(h) /\ i < j
        BY DEF Histories
      <3>3. h[i].role = "user" /\ h[i].ref = a
        BY <1>2, <3>1, <3>2
      <3>4. h[j].role = "user" /\ h[j].ref = b
        BY <1>2, <3>1, <3>2
      <3>5. i \in DOMAIN h /\ j \in DOMAIN h
        BY <3>2 DEF Histories
      <3> QED BY ONLY <1>6, <3>2, <3>3, <3>4, <3>5 DEF Ordered
    <2> QED BY <2>1, Flattened
  <1> QED BY <1>4, <1>5, <1>6

\* A filter keeps the order and what passes.
LEMMA Kept ==
  ASSUME NEW h \in Histories, NEW K
  PROVE  LET f == FlattenSeq([j \in DOMAIN h |-> IF h[j] \in K THEN <<h[j]>> ELSE <<>>])
         IN /\ f \in Histories
            /\ Range(f) = Range(h) \cap K
            /\ UserRefs(f) \subseteq UserRefs(h)
            /\ Ordered(h) => Ordered(f)
  <1> DEFINE e == [j \in DOMAIN h |-> IF h[j] \in K THEN <<h[j]>> ELSE <<>>]
  <1>1. DOMAIN h = 1 .. Len(h) /\ Len(h) \in Nat
    BY DEF Histories
  <1>2. \A j \in 1 .. Len(h) : h[j] \in Message
    BY DEF Histories
  <1>3. \A j \in 1 .. Len(h) : e[j] = IF h[j] \in K THEN <<h[j]>> ELSE <<>>
    BY <1>1
  <1>4. ASSUME NEW j \in 1 .. Len(h)
        PROVE  /\ e[j] \in Histories /\ Ordered(e[j])
               /\ UserRefs(e[j]) \subseteq UserRefs(<<h[j]>>)
               /\ Range(e[j]) = {h[j]} \cap K
    <2>1. CASE h[j] \in K
      <3>1. e[j] = <<h[j]>> /\ h[j] \in Message
        BY <1>2, <1>3, <2>1
      <3> HIDE DEF e
      <3> QED BY <2>1, <3>1, Single
    <2>2. CASE h[j] \notin K
      <3>1. e[j] = <<>>
        BY <1>3, <2>2
      <3> HIDE DEF e
      <3> QED BY <2>2, <3>1, Empty
    <2> QED BY <2>1, <2>2
  <1>5. e \in Seq(Histories) /\ Len(e) = Len(h)
    BY <1>1, <1>4
  <1> HIDE DEF e
  <1>6. Range(FlattenSeq(e)) = UNION {Range(e[j]) : j \in 1 .. Len(h)} /\ FlattenSeq(e) \in Histories
    BY <1>5, Flattened
  <1>7. Range(FlattenSeq(e)) = Range(h) \cap K
    <2>1. Range(h) = {h[j] : j \in 1 .. Len(h)}
      BY <1>1 DEF Range
    <2>2. \A x : x \in Range(FlattenSeq(e)) <=> \E j \in 1 .. Len(h) : x \in Range(e[j])
      BY <1>6
    <2>3. \A j \in 1 .. Len(h) : Range(e[j]) = {h[j]} \cap K
      BY <1>4
    <2>4. ASSUME NEW x PROVE x \in Range(FlattenSeq(e)) <=> x \in Range(h) \cap K
      BY ONLY <2>1, <2>2, <2>3
    <2> QED BY <2>4
  <1>8. UserRefs(FlattenSeq(e)) \subseteq UserRefs(h) /\ (Ordered(h) => Ordered(FlattenSeq(e)))
    BY <1>4, <1>5, Pieces
  <1> QED BY <1>6, <1>7, <1>8 DEF e

\* s holds messages of h, in order if h is.
Part(s, h) == s \in Histories /\ Range(s) \subseteq Range(h) /\ (Ordered(h) => Ordered(s))

\* RealUsers(h) is a part of h: its messages that count as user turns.
LEMMA RealUsersAre ==
  ASSUME NEW h \in Histories
  PROVE  Part(RealUsers(h), h) /\ Range(RealUsers(h)) = {m \in Range(h) : IsRealUser(m)}
  <1> DEFINE K == {m \in Message : IsRealUser(m)}
             e == [j \in DOMAIN h |-> IF h[j] \in K THEN <<h[j]>> ELSE <<>>]
  <1>1. \A j \in DOMAIN h : h[j] \in Message
    BY DEF Histories
  <1>2. e = [j \in DOMAIN h |-> IF IsRealUser(h[j]) THEN <<h[j]>> ELSE <<>>]
    BY <1>1
  <1>3. RealUsers(h) = FlattenSeq(e)
    BY <1>2 DEF RealUsers, Only
  <1>4. Range(h) \cap K = {m \in Range(h) : IsRealUser(m)}
    BY <1>1 DEF Range
  <1> HIDE DEF K
  <1> QED BY <1>3, <1>4, Kept DEF Part

\* The results the sanitizer makes up speak for no user.
LEMMA SynthesizedAre ==
  ASSUME NEW h \in Histories, NEW i \in DOMAIN h
  PROVE  /\ Synthetic(h, i) \in Histories /\ UserRefs(Synthetic(h, i)) = {}
         /\ Ordered(Synthetic(h, i))
  <1> DEFINE c == h[i].calls
             e == [j \in DOMAIN c |-> IF c[j] \notin Responded(h) THEN <<c[j]>> ELSE <<>>]
             missing == FlattenSeq(e)
             s == [n \in DOMAIN missing |-> ToolMsg(missing[n])]
  <1>1. c \in Seq(Nat)
    <2>1. i \in 1 .. Len(h) /\ h[i] \in Message
      BY DEF Histories
    <2> QED BY <2>1 DEF Message
  <1> HIDE DEF c
  <1>2. e \in Seq(Seq(Nat))
    <2>1. DOMAIN c = 1 .. Len(c) /\ Len(c) \in Nat
      BY <1>1
    <2>2. ASSUME NEW j \in 1 .. Len(c)
          PROVE  (IF c[j] \notin Responded(h) THEN <<c[j]>> ELSE <<>>) \in Seq(Nat)
      <3>1. c[j] \in Nat
        BY <1>1
      <3> HIDE DEF e
      <3> QED BY <3>1
    <2> QED BY <2>1, <2>2
  <1>3. missing \in Seq(Nat)
    BY <1>2, FlattenedIn
  <1>4. Synthetic(h, i) = s
    BY DEF Synthetic, Only, c
  <1> HIDE DEF missing
  <1>5. \A n \in 1 .. Len(missing) :
          ToolMsg(missing[n]) \in Message /\ ToolMsg(missing[n]).role = "tool"
    BY <1>3 DEF ToolMsg, Message, Roles
  <1>6. s \in Histories /\ Len(s) = Len(missing) /\ \A n \in 1 .. Len(s) : s[n].role = "tool"
    <2>1. DOMAIN missing = 1 .. Len(missing) /\ Len(missing) \in Nat
      BY <1>3
    <2>2. s \in Seq(Message) /\ Len(s) = Len(missing)
      BY <1>5, <2>1
    <2>3. \A n \in 1 .. Len(missing) : s[n] = ToolMsg(missing[n])
      BY <2>1
    <2> QED BY <1>5, <2>2, <2>3 DEF Histories
  <1> HIDE DEF s
  <1>7. UserRefs(s) = {} /\ Ordered(s)
    BY <1>6 DEF UserRefs, Ordered, Histories
  <1> QED BY <1>4, <1>6, <1>7

\* The sanitizer neither loses, adds nor reorders user messages.
LEMMA Sanitized ==
  ASSUME NEW h \in Histories
  PROVE  /\ Sanitize(h) \in Histories /\ UserRefs(Sanitize(h)) = UserRefs(h)
         /\ Ordered(h) => Ordered(Sanitize(h))
  <1> DEFINE e == [j \in DOMAIN h |-> Emit(h, j)]
  <1>1. DOMAIN h = 1 .. Len(h) /\ Len(h) \in Nat
    BY DEF Histories
  <1>2. ASSUME NEW j \in 1 .. Len(h)
        PROVE  /\ Emit(h, j) \in Histories /\ Ordered(Emit(h, j))
               /\ UserRefs(Emit(h, j)) = UserRefs(<<h[j]>>)
    <2>1. h[j] \in Message
      BY DEF Histories
    <2>2. Item(h, j) \in Message /\ UserRefs(<<Item(h, j)>>) = UserRefs(<<h[j]>>)
      <3>1. CASE h[j].role = "tool" /\ h[j].ref \notin Known(h, j)
        <4>1. Output(h[j].ref) \in Message /\ Output(h[j].ref).role = "output"
          BY <2>1 DEF Output, Message, Roles
        <4> QED BY <2>1, <3>1, <4>1, Single DEF Item
      <3>2. CASE ~ (h[j].role = "tool" /\ h[j].ref \notin Known(h, j))
        BY <2>1, <3>2 DEF Item
      <3> QED BY <3>1, <3>2
    <2> DEFINE opener == {i \in 1 .. j : h[i].calls # <<>> /\ RunEnd(h, i) = j}
               added == IF opener = {} THEN <<>> ELSE Synthetic(h, CHOOSE i \in opener : TRUE)
    <2>3. added \in Histories /\ UserRefs(added) = {} /\ Ordered(added)
      <3>1. CASE opener = {}
        BY <3>1, Empty
      <3>2. CASE opener # {}
        <4>1. PICK i : i = (CHOOSE k \in opener : TRUE) /\ i \in opener
          BY <3>2
        <4>2. i \in DOMAIN h
          BY <1>1, <4>1
        <4> HIDE DEF opener
        <4> QED BY <3>2, <4>1, <4>2, SynthesizedAre
      <3> QED BY <3>1, <3>2
    <2>4. Emit(h, j) = <<Item(h, j)>> \o added
      BY DEF Emit
    <2> HIDE DEF added
    <2>5. <<Item(h, j)>> \in Histories /\ Ordered(<<Item(h, j)>>)
      BY <2>2, Single
    <2>6. Before(<<Item(h, j)>>, added)
      BY <2>3 DEF Before
    <2> DEFINE item == <<Item(h, j)>>
    <2> HIDE DEF item
    <2>7. /\ item \o added \in Histories
          /\ UserRefs(item \o added) = UserRefs(item) \cup UserRefs(added)
          /\ Ordered(item \o added)
      BY <2>3, <2>5, <2>6, Concatenated DEF item
    <2> QED BY <2>2, <2>3, <2>4, <2>7 DEF item
  <1>3. e \in Seq(Histories) /\ Len(e) = Len(h)
    <2>1. \A j \in 1 .. Len(h) : Emit(h, j) \in Histories
      BY <1>2
    <2> QED BY <1>1, <2>1
  <1>4. \A j \in 1 .. Len(h) : e[j] = Emit(h, j)
    BY <1>1
  <1> HIDE DEF e
  <1>5. FlattenSeq(e) \in Histories
    BY <1>3, Flattened
  <1>6. UserRefs(FlattenSeq(e)) = UserRefs(h) /\ (Ordered(h) => Ordered(FlattenSeq(e)))
    BY <1>2, <1>3, <1>4, Pieces
  <1> QED BY <1>5, <1>6 DEF Sanitize, e

-----------------------------------------------------------------------------
(* Compaction and truncation keep the order                                *)

\* A list is a part of itself.
LEMMA WholePart == ASSUME NEW h \in Histories PROVE Part(h, h)
  BY DEF Part

\* A part of a part is a part.
LEMMA PartOfPart ==
  ASSUME NEW h \in Histories, NEW s, NEW t, Part(s, h), Part(t, s)
  PROVE  Part(t, h)
  BY DEF Part

\* t is the end of h.
IsTail(t, h) == \E n \in 0 .. Len(h) : t = SubSeq(h, n + 1, Len(h))

\* A tail is a part, and the list is what precedes it and the tail.
LEMMA TailIsPart ==
  ASSUME NEW h \in Histories, NEW t, IsTail(t, h)
  PROVE  Part(t, h) /\ \E s \in Histories : h = s \o t
  <1>1. PICK n \in 0 .. Len(h) : t = SubSeq(h, n + 1, Len(h))
    BY DEF IsTail
  <1> DEFINE s == SubSeq(h, 1, n)
  <1>2. s \in Histories /\ t \in Histories /\ h = s \o t
    BY <1>1, Cut
  <1> HIDE DEF s
  <1>3. /\ Range(h) = Range(s) \cup Range(t)
        /\ Ordered(h) => Ordered(t)
    BY <1>2, Concatenated
  <1> QED BY <1>2, <1>3 DEF Part

\* The last messages are a part, and all of them when they are few.
LEMMA LastAre ==
  ASSUME NEW s \in Histories, NEW n \in Nat
  PROVE  Part(LastN(s, n), s) /\ (Len(s) <= n => LastN(s, n) = s)
  <1>1. CASE Len(s) <= n
    BY <1>1, WholePart DEF LastN
  <1>2. CASE ~ (Len(s) <= n)
    <2>1. Len(s) \in Nat
      BY DEF Histories
    <2>2. Len(s) - n \in 0 .. Len(s) /\ LastN(s, n) = SubSeq(s, (Len(s) - n) + 1, Len(s))
      BY <1>2, <2>1 DEF LastN
    <2>3. IsTail(LastN(s, n), s)
      BY <2>2 DEF IsTail
    <2> QED BY <1>2, <2>3, TailIsPart
  <1> QED BY <1>1, <1>2

\* The collected users are a part of the history, all of them within the budget.
LEMMA CollectedAre ==
  ASSUME NEW h \in Histories
  PROVE  /\ Part(CollectUsers(h), h) /\ Part(CollectUsers(h), RealUsers(h))
         /\ Len(RealUsers(h)) <= UserBudget => CollectUsers(h) = RealUsers(h)
  <1> DEFINE u == RealUsers(h)
  <1>1. Part(u, h)
    BY RealUsersAre
  <1>2. u \in Histories /\ Len(u) \in Nat
    BY <1>1 DEF Part, Histories
  <1>3. UserBudget \in Nat /\ UserBudget - 1 \in Nat
    BY HistoryAssumption
  <1>4. CASE PreserveRoot /\ u # <<>>
    <2> DEFINE a == <<Head(u)>>
               b == Tail(u)
               c == LastN(b, UserBudget - 1)
    <2>1. CollectUsers(h) = a \o c
      BY <1>4 DEF CollectUsers
    <2> HIDE DEF u
    <2>2. a \in Histories /\ b \in Histories /\ u = a \o b
      BY <1>2, <1>4, HeadAndTail, Single
    <2>3. Len(b) = Len(u) - 1
      BY <1>2, <1>4, EmptySeq DEF Histories
    <2> HIDE DEF a, b
    <2>4. Part(c, b) /\ (Len(b) <= UserBudget - 1 => c = b)
      BY <1>3, <2>2, LastAre
    <2>5. Len(u) <= UserBudget => a \o c = u
      BY <1>2, <1>3, <2>2, <2>3, <2>4
    <2> HIDE DEF c
    <2>6. c \in Histories /\ Range(c) \subseteq Range(b) /\ (Ordered(b) => Ordered(c))
      BY <2>4 DEF Part
    <2>7. UserRefs(c) \subseteq UserRefs(b)
      BY <2>2, <2>6, RangeUsers
    <2>8. /\ Range(u) = Range(a) \cup Range(b)
          /\ Ordered(u) => Ordered(a) /\ Ordered(b) /\ Before(a, b)
      BY <2>2, Concatenated
    <2>9. /\ a \o c \in Histories /\ Range(a \o c) = Range(a) \cup Range(c)
          /\ Ordered(a) /\ Ordered(c) /\ Before(a, c) => Ordered(a \o c)
      BY <2>2, <2>6, Concatenated
    <2>10. Before(a, b) => Before(a, c)
      BY <2>7 DEF Before
    <2>11. Part(a \o c, u)
      BY <2>6, <2>8, <2>9, <2>10 DEF Part
    <2>12. Part(a \o c, h)
      BY <1>1, <2>11, PartOfPart
    <2> QED BY <2>1, <2>5, <2>11, <2>12 DEF u
  <1>5. CASE ~ (PreserveRoot /\ u # <<>>)
    <2>1. CollectUsers(h) = LastN(u, UserBudget)
      BY <1>5 DEF CollectUsers
    <2> HIDE DEF u
    <2>2. Part(LastN(u, UserBudget), u) /\ (Len(u) <= UserBudget => LastN(u, UserBudget) = u)
      BY <1>2, <1>3, LastAre
    <2>3. Part(LastN(u, UserBudget), h)
      BY <1>1, <2>2, PartOfPart
    <2> QED BY <2>1, <2>2, <2>3 DEF u
  <1> QED BY <1>4, <1>5

\* A compaction returns a history whatever its tail is.
LEMMA CompactedType ==
  ASSUME NEW h \in Histories, NEW t \in Histories
  PROVE  Compacted(h, t) \in Histories
  <1> DEFINE u == CollectUsers(h)
             K == {m \in Message : Text(m) \notin Texts(t)}
             e == [j \in DOMAIN u |-> IF u[j] \in K THEN <<u[j]>> ELSE <<>>]
             p == FlattenSeq(e)
  <1>1. u \in Histories
    BY CollectedAre DEF Part
  <1>2. e = [j \in DOMAIN u |-> IF Text(u[j]) \notin Texts(t) THEN <<u[j]>> ELSE <<>>]
    <2> HIDE DEF u
    <2>1. \A j \in DOMAIN u : u[j] \in Message
      BY <1>1 DEF Histories
    <2> QED BY <2>1
  <1>3. Compacted(h, t) = Sanitize(p \o <<Checkpoint>> \o t)
    BY <1>2 DEF Compacted, Only
  <1>4. p \in Histories
    <2> HIDE DEF u, K
    <2> QED BY <1>1, Kept
  <1> HIDE DEF p
  <1>5. Checkpoint \in Message
    BY DEF Checkpoint, Message, Roles
  <1>6. p \o <<Checkpoint>> \in Histories
    BY <1>4, <1>5, Single, Concatenated
  <1>7. p \o <<Checkpoint>> \o t \in Histories
    BY <1>6, Concatenated
  <1> QED BY <1>3, <1>7, Sanitized

\* The users of h who say what a message of t says.
RepeatedIn(h, t) ==
  { m.ref : m \in { x \in Range(h) : x.role = "user" /\ Text(x) \in Texts(t) } }

\* A compaction whose tail is still the history's keeps the order, adds nobody, and
\* within the budget loses nobody but users whose text the tail has.
LEMMA CompactedIs ==
  ASSUME NEW h \in Histories, NEW t, IsTail(t, h)
  PROVE  /\ UserRefs(Compacted(h, t)) \subseteq UserRefs(h)
         /\ Ordered(h) => Ordered(Compacted(h, t))
         /\ Len(RealUsers(h)) <= UserBudget
              => UserRefs(h) \subseteq UserRefs(Compacted(h, t)) \cup RepeatedIn(h, t)
  <1> DEFINE u == CollectUsers(h)
             K == {m \in Message : Text(m) \notin Texts(t)}
             e == [j \in DOMAIN u |-> IF u[j] \in K THEN <<u[j]>> ELSE <<>>]
             p == FlattenSeq(e)
             c == p \o <<Checkpoint>>
  <1>1. Part(u, h)
    BY CollectedAre
  <1>2. e = [j \in DOMAIN u |-> IF Text(u[j]) \notin Texts(t) THEN <<u[j]>> ELSE <<>>]
    <2> HIDE DEF u
    <2>1. \A j \in DOMAIN u : u[j] \in Message
      BY <1>1 DEF Part, Histories
    <2> QED BY <2>1
  <1>3. Compacted(h, t) = Sanitize(c \o t)
    BY <1>2 DEF Compacted, Only
  <1>4. /\ p \in Histories /\ Range(p) = Range(u) \cap K
        /\ Ordered(u) => Ordered(p)
    <2> HIDE DEF u, K
    <2>1. u \in Histories
      BY <1>1 DEF Part
    <2> QED BY <2>1, Kept
  <1> HIDE DEF p
  <1>5. Checkpoint \in Message /\ Checkpoint.role # "user"
    BY DEF Checkpoint, Message, Roles
  <1>6. <<Checkpoint>> \in Histories /\ Ordered(<<Checkpoint>>) /\ UserRefs(<<Checkpoint>>) = {}
    BY <1>5, Single
  <1>7. c \in Histories /\ UserRefs(c) = UserRefs(p) /\ (Ordered(p) => Ordered(c))
    <2> DEFINE k == <<Checkpoint>>
    <2> HIDE DEF k
    <2>1. k \in Histories /\ Ordered(k) /\ UserRefs(k) = {}
      BY <1>6 DEF k
    <2>2. Before(p, k)
      BY <2>1 DEF Before
    <2>3. p \o k \in Histories /\ UserRefs(p \o k) = UserRefs(p) /\ (Ordered(p) => Ordered(p \o k))
      <3>1. /\ p \o k \in Histories /\ UserRefs(p \o k) = UserRefs(p) \cup UserRefs(k)
            /\ Ordered(p \o k) <=> Ordered(p) /\ Ordered(k) /\ Before(p, k)
        BY <1>4, <2>1, Concatenated
      <3> QED BY ONLY <2>1, <2>2, <3>1
    <2> QED BY <2>3 DEF k
  <1> HIDE DEF c, u
  <1>8. t \in Histories /\ Part(t, h)
    BY TailIsPart DEF Part
  <1>9. PICK s \in Histories : h = s \o t
    BY TailIsPart
  <1>10. UserRefs(h) = UserRefs(s) \cup UserRefs(t) /\ Range(h) = Range(s) \cup Range(t)
         /\ (Ordered(h) => Before(s, t))
    BY <1>8, <1>9, Concatenated
  <1>11. Range(p) \subseteq Range(s)
    <2>1. \A m \in Range(t) : m \notin K
      BY DEF Texts
    <2> HIDE DEF K
    <2> QED BY <1>1, <1>4, <1>10, <2>1 DEF Part
  <1>12. UserRefs(p) \subseteq UserRefs(s)
    BY <1>4, <1>11, RangeUsers
  <1>13. Ordered(h) => Before(c, t) /\ Ordered(c) /\ Ordered(t)
    BY <1>1, <1>4, <1>7, <1>8, <1>10, <1>12 DEF Before, Part
  <1>14. /\ c \o t \in Histories
         /\ UserRefs(c \o t) = UserRefs(c) \cup UserRefs(t)
         /\ Ordered(c) /\ Ordered(t) /\ Before(c, t) => Ordered(c \o t)
    BY <1>7, <1>8, Concatenated
  <1>15. UserRefs(Compacted(h, t)) = UserRefs(c \o t) /\ (Ordered(c \o t) => Ordered(Compacted(h, t)))
    BY <1>3, <1>14, Sanitized
  <1>16. ASSUME Len(RealUsers(h)) <= UserBudget
         PROVE  UserRefs(s) \subseteq UserRefs(c) \cup RepeatedIn(h, t)
    <2>1. Range(u) = {m \in Range(h) : IsRealUser(m)}
      BY <1>16, CollectedAre, RealUsersAre DEF u
    <2>2. SUFFICES ASSUME NEW a \in UserRefs(s) PROVE a \in UserRefs(p) \cup RepeatedIn(h, t)
      BY <1>7
    <2>3. PICK i \in 1 .. Len(s) : s[i].role = "user" /\ s[i].ref = a
      BY UsersIn
    <2>4. s[i] \in Range(s) /\ s[i] \in Message
      BY DEF Range, Histories
    <2>5. CASE s[i] \in Range(p)
      <3>1. PICK j \in 1 .. Len(p) : p[j] = s[i]
        BY <1>4, <2>5 DEF Range, Histories
      <3> QED BY <1>4, <2>3, <3>1, UsersIn
    <2>6. CASE s[i] \notin Range(p)
      <3>1. s[i] \in Range(h) /\ Text(s[i]) \in Texts(t)
        BY <1>4, <1>10, <2>1, <2>3, <2>4, <2>6 DEF IsRealUser
      <3> QED BY <2>3, <3>1 DEF RepeatedIn
    <2> QED BY <2>5, <2>6
  <1> QED BY <1>7, <1>10, <1>12, <1>13, <1>14, <1>15, <1>16

\* The tail that a compaction preserves is the history's.
LEMMA RecentIsTail ==
  ASSUME NEW h \in Histories, Len(h) > 4
  PROVE  IsTail(RecentTail(h), h)
  <1> DEFINE turns == {j \in 2 .. (Len(h) - 1) : j + 5 >= Len(h) /\ IsRealUser(h[j])}
  <1>1. Len(h) \in Nat
    BY DEF Histories
  <1>2. TailStart(h) \in 1 .. Len(h)
    <2>1. CASE turns = {}
      BY <1>1, <2>1 DEF TailStart
    <2>2. CASE turns # {}
      <3>1. turns \in SUBSET Nat
        BY <1>1
      <3>2. PICK k \in turns : \A j \in turns : k <= j
        BY <2>2, <3>1, Least
      <3>3. TailStart(h) = Min(turns)
        BY <2>2 DEF TailStart
      <3> HIDE DEF turns
      <3>4. Min(turns) \in turns
        BY <3>2 DEF Min
      <3> QED BY <1>1, <3>3, <3>4 DEF turns
    <2> QED BY <2>1, <2>2
  <1>3. TailStart(h) - 1 \in 0 .. Len(h) /\ (TailStart(h) - 1) + 1 = TailStart(h)
    BY <1>1, <1>2
  <1> QED BY <1>3 DEF IsTail, RecentTail

\* A truncation is a part of the history.
LEMMA TruncatedIs ==
  ASSUME NEW h \in Histories, NEW k
  PROVE  Part(TruncateToTurn(h, k), h)
  <1> DEFINE turns == {j \in DOMAIN h : IsRealUser(h[j])}
             Fewer(j) == Cardinality({i \in turns : i < j})
             cut == {j \in turns : Fewer(j) = k}
             kept == IF cut = {} THEN h ELSE SubSeq(h, 1, (CHOOSE j \in cut : TRUE) - 1)
             K == {m \in Message : m.role # "note"}
             e == [j \in DOMAIN kept |-> IF kept[j] \in K THEN <<kept[j]>> ELSE <<>>]
  <1>1. Part(kept, h)
    <2>1. CASE cut = {}
      BY <2>1, WholePart
    <2>2. CASE cut # {}
      <3>1. PICK j : j = (CHOOSE i \in cut : TRUE) /\ j \in cut
        BY <2>2
      <3>2. j \in 1 .. Len(h) /\ Len(h) \in Nat
        BY <3>1 DEF Histories
      <3>3. kept = SubSeq(h, 1, j - 1)
        BY <2>2, <3>1
      <3> DEFINE a == SubSeq(h, 1, j - 1)
                 b == SubSeq(h, (j - 1) + 1, Len(h))
      <3>4. a \in Histories /\ b \in Histories /\ h = a \o b
        <4>1. j - 1 \in 0 .. Len(h)
          BY <3>2
        <4> QED BY <4>1, Cut
      <3> HIDE DEF a, b, kept
      <3>5. Range(a) \subseteq Range(h) /\ (Ordered(h) => Ordered(a))
        BY <3>4, Concatenated
      <3> QED BY <3>3, <3>4, <3>5 DEF Part, a
    <2> QED BY <2>1, <2>2
  <1>2. TruncateToTurn(h, k) = <<>> \/ TruncateToTurn(h, k) = FlattenSeq(e)
    <2>1. e = [j \in DOMAIN kept |-> IF kept[j].role # "note" THEN <<kept[j]>> ELSE <<>>]
      <3> HIDE DEF kept
      <3>1. \A j \in DOMAIN kept : kept[j] \in Message
        BY <1>1 DEF Part, Histories
      <3> QED BY <3>1
    <2>2. TruncateToTurn(h, k) = IF k = 0 \/ Cardinality(turns) < k THEN <<>>
            ELSE FlattenSeq([j \in DOMAIN kept |->
                               IF kept[j].role # "note" THEN <<kept[j]>> ELSE <<>>])
      BY DEF TruncateToTurn, Only
    <2> QED BY ONLY <2>1, <2>2
  <1>3. Part(<<>>, h)
    BY Empty DEF Part
  <1>4. Part(FlattenSeq(e), h)
    <2> HIDE DEF kept, K
    <2>1. Part(FlattenSeq(e), kept)
      <3>1. kept \in Histories
        BY <1>1 DEF Part
      <3> DEFINE f == FlattenSeq(e)
      <3>2. f \in Histories /\ Range(f) = Range(kept) \cap K /\ (Ordered(kept) => Ordered(f))
        BY <3>1, Kept
      <3> HIDE DEF f
      <3>3. Part(f, kept)
        BY ONLY <3>2 DEF Part
      <3> QED BY ONLY <3>3 DEF f
    <2> QED BY <1>1, <2>1, PartOfPart
  <1> QED BY <1>2, <1>3, <1>4

\* A rewound history is a part of the history.
LEMMA RewoundIs ==
  ASSUME NEW h \in Histories, NEW v, NEW k
  PROVE  Part(RewindHistory(h, v, k), h)
  <1>1. Part(<<>>, h)
    BY Empty DEF Part
  <1> QED BY <1>1, TruncatedIs DEF RewindHistory

-----------------------------------------------------------------------------
(* Messages that wait                                                      *)

\* A list in order whose users spoke before those in w and are among the first n.
Settled(s, w, n) ==
  Ordered(s) /\ \A a \in UserRefs(s) : a <= n /\ \A b \in w : a < b

\* References are naturals.
LEMMA RefsAreNat == ASSUME NEW s \in Histories PROVE UserRefs(s) \subseteq Nat
  <1> SUFFICES ASSUME NEW a \in UserRefs(s) PROVE a \in Nat
    OBVIOUS
  <1>1. PICK i \in 1 .. Len(s) : s[i].ref = a
    BY UsersIn
  <1>2. s[i] \in Message
    BY DEF Histories
  <1> QED BY <1>1, <1>2 DEF Message

\* A settled list is settled with what waits behind it, against what still waits.
LEMMA Joined ==
  ASSUME NEW s \in Histories, NEW t \in Histories, NEW w, NEW x \in SUBSET w, NEW n,
         Settled(s, w, n), Ordered(t), UserRefs(t) \subseteq w,
         \A a \in UserRefs(t) : a <= n /\ \A b \in x : a < b
  PROVE  s \o t \in Histories /\ Settled(s \o t, x, n)
  <1>1. Before(s, t)
    BY DEF Before, Settled
  <1>2. Ordered(s \o t) /\ UserRefs(s \o t) = UserRefs(s) \cup UserRefs(t) /\ s \o t \in Histories
    BY <1>1, Concatenated DEF Settled
  <1> QED BY <1>2 DEF Settled

\* One more message.
LEMMA Added ==
  ASSUME NEW s \in Histories, NEW m \in Message
  PROVE  /\ Append(s, m) \in Histories
         /\ UserRefs(Append(s, m)) = UserRefs(s) \cup UserRefs(<<m>>)
         /\ Range(Append(s, m)) = Range(s) \cup {m}
         /\ Ordered(Append(s, m)) <=> Ordered(s) /\ Before(s, <<m>>)
  <1> DEFINE t == <<m>>
  <1>1. t \in Histories /\ Ordered(t) /\ Range(t) = {m}
    BY Single
  <1>2. Append(s, m) = s \o t
    BY Appended
  <1> HIDE DEF t
  <1>3. /\ s \o t \in Histories
        /\ UserRefs(s \o t) = UserRefs(s) \cup UserRefs(t)
        /\ Range(s \o t) = Range(s) \cup Range(t)
        /\ Ordered(s \o t) <=> Ordered(s) /\ Ordered(t) /\ Before(s, t)
    BY <1>1, Concatenated
  <1>4. /\ Append(s, m) \in Histories
        /\ UserRefs(Append(s, m)) = UserRefs(s) \cup UserRefs(t)
        /\ Range(Append(s, m)) = Range(s) \cup {m}
        /\ Ordered(Append(s, m)) <=> Ordered(s) /\ Before(s, t)
    BY ONLY <1>1, <1>2, <1>3
  <1> QED BY <1>4 DEF t

\* One more message that is not a user's.
LEMMA AddedOther ==
  ASSUME NEW s \in Histories, NEW m \in Message, m.role # "user"
  PROVE  /\ Append(s, m) \in Histories
         /\ UserRefs(Append(s, m)) = UserRefs(s)
         /\ Ordered(Append(s, m)) <=> Ordered(s)
  <1>1. UserRefs(<<m>>) = {}
    BY Single
  <1> QED BY <1>1, Added DEF Before

\* The first message that waits, and those that wait behind it.
LEMMA FirstOut ==
  ASSUME NEW q \in Histories, q # <<>>
  PROVE  /\ Head(q) \in Message /\ Tail(q) \in Histories
         /\ UserRefs(q) = UserRefs(<<Head(q)>>) \cup UserRefs(Tail(q))
         /\ Ordered(q) => Ordered(Tail(q)) /\ Before(<<Head(q)>>, Tail(q))
  <1> DEFINE a == <<Head(q)>>
             b == Tail(q)
  <1>1. Head(q) \in Message /\ b \in Histories /\ q = a \o b
    BY HeadAndTail
  <1>2. a \in Histories
    BY <1>1, Single
  <1> HIDE DEF a, b
  <1>3. UserRefs(q) = UserRefs(a) \cup UserRefs(b) /\ (Ordered(q) => Ordered(b) /\ Before(a, b))
    BY <1>1, <1>2, Concatenated
  <1> QED BY <1>1, <1>3 DEF a, b

\* A settled list takes the first message that waits.
LEMMA Moved ==
  ASSUME NEW s \in Histories, NEW q \in Histories, q # <<>>, NEW w, NEW x \in SUBSET w, NEW n,
         Settled(s, w, n), UserRefs(q) \subseteq w, \A a \in UserRefs(q) : a <= n,
         \A a \in UserRefs(<<Head(q)>>) : \A b \in x : a < b
  PROVE  Append(s, Head(q)) \in Histories /\ Settled(Append(s, Head(q)), x, n)
  <1>1. Head(q) \in Message /\ UserRefs(<<Head(q)>>) \subseteq UserRefs(q)
    BY FirstOut
  <1>2. <<Head(q)>> \in Histories /\ Ordered(<<Head(q)>>)
    BY <1>1, Single
  <1>3. Append(s, Head(q)) = s \o <<Head(q)>>
    BY <1>1, Appended
  <1> DEFINE t == <<Head(q)>>
  <1>4. t \in Histories /\ Ordered(t) /\ UserRefs(t) \subseteq w
        /\ \A a \in UserRefs(t) : a <= n /\ \A b \in x : a < b
    BY <1>1, <1>2
  <1> HIDE DEF t
  <1>5. s \o t \in Histories /\ Settled(s \o t, x, n)
    BY <1>4, Joined
  <1> QED BY <1>3, <1>5 DEF t

\* A list that speaks for no more users and keeps the order is settled too.
LEMMA SettledLike ==
  ASSUME NEW s, NEW t, NEW w, NEW x \in SUBSET w, NEW n,
         Settled(s, w, n), Ordered(s) => Ordered(t), UserRefs(t) \subseteq UserRefs(s)
  PROVE  Settled(t, x, n)
  BY DEF Settled

\* The messages that wait are in order.
Flow(p, d, q, n) ==
  /\ Ordered(p) /\ Ordered(d) /\ Ordered(q)
  /\ Before(p, q) /\ Before(d, q)
  /\ \A a \in UserRefs(p) \cup UserRefs(d) \cup UserRefs(q) : a <= n

\* The users whose messages wait.
Waits(p, d, q) == UserRefs(p) \cup UserRefs(d) \cup UserRefs(q)

\* The types at the top of the loop.
LEMMA LoopTopType ==
  ASSUME NEW h \in Histories, NEW ms \in Histories, LoopTop(h, ms),
         queue \in Histories, drained \in Histories
  PROVE  /\ history' \in Histories /\ msgs' \in Histories
         /\ queue' \in Histories /\ drained' \in Histories
         /\ phase' \in {"drain", "request"}
         /\ phase' # "drain" => drained' = drained
  <1>1. CASE queue = <<>>
    BY <1>1, Empty DEF LoopTop
  <1>2. CASE queue # <<>>
    <2>1. Head(queue) \in Message /\ Tail(queue) \in Histories
      BY <1>2, FirstOut
    <2>2. Append(h, Head(queue)) \in Histories /\ Append(ms, Head(queue)) \in Histories
      BY <2>1, Added
    <2> QED BY <1>2, <2>1, <2>2, Empty DEF LoopTop
  <1> QED BY <1>1, <1>2

\* The top of the loop keeps the order of what waits.
LEMMA LoopTopFlow ==
  ASSUME NEW h, NEW ms, LoopTop(h, ms), queue \in Histories, drained = <<>>,
         NEW n, Flow(<<>>, <<>>, queue, n)
  PROVE  Flow(<<>>, drained', queue', n)
  <1>1. CASE queue = <<>>
    BY <1>1 DEF LoopTop
  <1>2. CASE queue # <<>>
    <2>1. UserRefs(Tail(queue)) \subseteq UserRefs(queue) /\ Ordered(Tail(queue))
      BY <1>2, FirstOut DEF Flow
    <2>2. queue' = <<>> /\ drained' = Tail(queue)
      BY <1>2 DEF LoopTop
    <2> QED BY <2>1, <2>2, Empty DEF Flow, Before
  <1> QED BY <1>1, <1>2

\* The top of the loop moves the first message that waits behind two settled lists.
LEMMA LoopTopSettles ==
  ASSUME NEW h \in Histories, NEW ms \in Histories, LoopTop(h, ms),
         queue \in Histories, drained = <<>>,
         NEW n, Flow(<<>>, <<>>, queue, n),
         Settled(h, UserRefs(queue), n), Settled(ms, UserRefs(queue), n)
  PROVE  /\ Settled(history', Waits(<<>>, drained', queue'), n)
         /\ Settled(msgs', Waits(<<>>, drained', queue'), n)
  <1>1. CASE queue = <<>>
    <2>1. queue' = <<>> /\ drained' = <<>> /\ history' = h /\ msgs' = ms
      BY <1>1 DEF LoopTop
    <2>2. Waits(<<>>, drained', queue') = UserRefs(queue)
      BY <1>1, <2>1, Empty DEF Waits
    <2> QED BY <2>1, <2>2
  <1>2. CASE queue # <<>>
    <2>1. /\ queue' = <<>> /\ drained' = Tail(queue)
          /\ history' = Append(h, Head(queue)) /\ msgs' = Append(ms, Head(queue))
      BY <1>2 DEF LoopTop
    <2>2. UserRefs(Tail(queue)) \subseteq UserRefs(queue) /\ Before(<<Head(queue)>>, Tail(queue))
      BY <1>2, FirstOut DEF Flow
    <2>3. Waits(<<>>, drained', queue') = UserRefs(Tail(queue))
      BY <2>1, Empty DEF Waits
    <2>4. \A a \in UserRefs(queue) : a <= n
      BY DEF Flow
    <2>5. \A a \in UserRefs(<<Head(queue)>>) : \A b \in UserRefs(Tail(queue)) : a < b
      BY <2>2 DEF Before
    <2> DEFINE x == UserRefs(Tail(queue))
               w == UserRefs(queue)
    <2>6. x \in SUBSET w /\ UserRefs(queue) \subseteq w /\ Settled(h, w, n) /\ Settled(ms, w, n)
          /\ \A a \in UserRefs(<<Head(queue)>>) : \A b \in x : a < b
      BY <2>2, <2>5
    <2> HIDE DEF x, w
    <2>7. Settled(Append(h, Head(queue)), x, n)
      BY <1>2, <2>4, <2>6, Moved
    <2>8. Settled(Append(ms, Head(queue)), x, n)
      BY <1>2, <2>4, <2>6, Moved
    <2> QED BY <2>1, <2>3, <2>7, <2>8 DEF x
  <1> QED BY <1>1, <1>2

-----------------------------------------------------------------------------
(* Types                                                                   *)

ToolCalls == Seq([id : Nat, safe : BOOLEAN])

\* The types of the variables.
TurnType ==
  /\ history \in Histories /\ msgs \in Histories /\ queue \in Histories
  /\ drained \in Histories /\ prompt \in Histories /\ tail \in Histories
  /\ summed \in Histories
  /\ abandoned \in Seq(Histories) /\ visible \in Seq(Nat)
  /\ calls \in ToolCalls /\ answered \in Nat /\ running \in SUBSET Nat
  /\ phase \in Phases /\ compacted \in Nat /\ partial \in BOOLEAN
  /\ seen \in Counters /\ overwritten \in BOOLEAN /\ mixed \in BOOLEAN

\* The counters keep their bounds, and only one of them counts users.
LEMMA CountedIs ==
  ASSUME seen \in Counters
  PROVE  /\ seen.users < MaxUsers /\ Counted("users")
              => seen' \in Counters /\ seen'.users = seen.users + 1
         /\ seen.notes < MaxNotifications /\ Counted("notes")
              => seen' \in Counters /\ seen'.users = seen.users
         /\ seen.replies < MaxReplies /\ Counted("replies")
              => seen' \in Counters /\ seen'.users = seen.users
         /\ seen.compactions < MaxCompactions /\ Counted("compactions")
              => seen' \in Counters /\ seen'.users = seen.users
         /\ Stop => seen' \in Counters /\ seen'.users = seen.users
  BY TurnAssumption DEF Counted, Counters, Stop

\* What the program says is a message.
LEMMA Spoken ==
  /\ \A u \in Nat : User(u) \in Message /\ Note(u) \in Message /\ ToolMsg(u) \in Message
  /\ \A ids \in Seq(Nat) : Reply(ids) \in Message
  /\ Reply(<<>>) \in Message
  BY DEF User, Note, ToolMsg, Reply, Message, Roles

\* The visible turns stay a list of references.
LEMMA ShownType ==
  ASSUME visible \in Seq(Nat), NEW m \in Message
  PROVE  Shown(m) \in Seq(Nat)
  BY DEF Shown, Message

\* The same at the top of the loop.
LEMMA LoopTopShows ==
  ASSUME NEW h, NEW ms, LoopTop(h, ms), queue \in Histories, visible \in Seq(Nat)
  PROVE  visible' \in Seq(Nat)
  <1>1. CASE queue = <<>>
    BY <1>1 DEF LoopTop
  <1>2. CASE queue # <<>>
    <2>1. Head(queue) \in Message /\ visible' = Shown(Head(queue))
      BY <1>2, FirstOut DEF LoopTop
    <2> QED BY <2>1, ShownType
  <1> QED BY <1>1, <1>2

\* A step through the top of the loop keeps the types.
LEMMA LoopTopTypes ==
  ASSUME TurnType, NEW h \in Histories, NEW ms \in Histories, LoopTop(h, ms),
         prompt' \in Histories, tail' \in Histories, summed' \in Histories,
         UNCHANGED <<abandoned, running, partial>>,
         calls' \in ToolCalls, answered' \in Nat, compacted' \in Nat,
         seen' \in Counters, overwritten' \in BOOLEAN, mixed' \in BOOLEAN
  PROVE  TurnType'
  <1>1. /\ history' \in Histories /\ msgs' \in Histories
        /\ queue' \in Histories /\ drained' \in Histories
        /\ phase' \in {"drain", "request"}
    BY LoopTopType DEF TurnType
  <1>2. visible' \in Seq(Nat)
    BY LoopTopShows DEF TurnType
  <1> QED BY <1>1, <1>2 DEF TurnType, Phases

\* The types hold at the start.
LEMMA TurnTypeInit == Init => TurnType
  <1> SUFFICES ASSUME Init PROVE TurnType
    OBVIOUS
  <1>1. seen \in Counters
    BY TurnAssumption DEF Init, Counters
  <1>2. <<>> \in Seq(Histories) /\ <<>> \in Seq(Nat) /\ <<>> \in ToolCalls
    BY DEF ToolCalls
  <1> QED BY <1>1, <1>2, Empty DEF Init, TurnType, Phases

\* Every step keeps the types.
LEMMA TurnTypeStep == TurnType /\ [Next]_vars => TurnType'
  <1> SUFFICES ASSUME TurnType, [Next]_vars PROVE TurnType'
    OBVIOUS
  <1> USE DEF lists, step, control, ghosts
  <1>1. CASE UNCHANGED vars
    BY <1>1 DEF TurnType, vars
  <1>2. CASE Submit
    <2>1. seen.users + 1 \in Nat
      BY <1>2, TurnAssumption DEF TurnType, Counters
    <2>2. queue' \in Histories /\ seen' \in Counters
      BY <1>2, <2>1, Spoken, Added, CountedIs DEF TurnType, Submit
    <2> QED BY <1>2, <2>2 DEF TurnType, Submit
  <1>3. CASE Notify
    <2>1. seen.notes + 1 \in Nat
      BY <1>3, TurnAssumption DEF TurnType, Counters
    <2>2. queue' \in Histories /\ seen' \in Counters
      BY <1>3, <2>1, Spoken, Added, CountedIs DEF TurnType, Notify
    <2> QED BY <1>3, <2>2 DEF TurnType, Notify
  <1>4. CASE Begin
    <2>1. Head(queue) \in Message /\ Tail(queue) \in Histories
      BY <1>4, FirstOut DEF TurnType, Begin
    <2>2. prompt' \in Histories /\ queue' \in Histories /\ visible' \in Seq(Nat)
      BY <1>4, <2>1, Single, ShownType DEF TurnType, Begin
    <2> QED BY <1>4, <2>2 DEF TurnType, Begin, Phases
  <1>5. CASE PrepCompact
    <2>1. tail' \in Histories /\ seen' \in Counters
      BY <1>5, RecentIsTail, TailIsPart, CountedIs DEF TurnType, PrepCompact, Part
    <2> QED BY <1>5, <2>1 DEF TurnType, PrepCompact, Phases
  <1>29. CASE Collect
    <2>1. summed' \in Histories
      BY <1>29, CompactedType DEF TurnType, Collect
    <2>2. mixed' \in BOOLEAN /\ phase' \in Phases
      BY <1>29 DEF TurnType, Collect, Phases
    <2> QED BY <1>29, <2>1, <2>2 DEF TurnType, Collect
  <1>6. CASE PrepCompacted
    <2>1. history' \in Histories /\ tail' \in Histories /\ summed' \in Histories
      BY <1>6, Empty DEF TurnType, PrepCompacted
    <2> QED BY <1>6, <2>1 DEF TurnType, PrepCompacted, Phases
  <1>7. CASE Prepare
    <2> DEFINE ms == Sanitize(history) \o prompt
    <2>1. ms \in Histories
      BY Sanitized, Concatenated DEF TurnType
    <2>2. LoopTop(ms, ms)
      BY <1>7 DEF Prepare
    <2> HIDE DEF ms
    <2>3. /\ prompt' \in Histories /\ tail' \in Histories /\ summed' \in Histories
          /\ UNCHANGED <<abandoned, running, partial, calls, answered, compacted, seen, mixed>>
          /\ overwritten' = FALSE
      BY <1>7, Empty DEF TurnType, Prepare
    <2> QED BY <2>1, <2>2, <2>3, LoopTopTypes DEF TurnType
  <1>8. CASE DrainNext
    <2>1. Head(drained) \in Message /\ Tail(drained) \in Histories
      BY <1>8, FirstOut DEF TurnType, DrainNext
    <2>2. /\ history' \in Histories /\ msgs' \in Histories /\ drained' \in Histories
          /\ visible' \in Seq(Nat)
      BY <1>8, <2>1, Added, ShownType DEF TurnType, DrainNext
    <2> QED BY <1>8, <2>2 DEF TurnType, DrainNext
  <1>9. CASE DrainDone \/ EndOfTurn \/ RequestFails \/ ErrorShown
    BY <1>9 DEF TurnType, DrainDone, EndOfTurn, RequestFails, ErrorShown, Phases
  <1>10. CASE Answer
    <2>1. history' \in Histories /\ msgs' \in Histories /\ seen' \in Counters
      BY <1>10, Spoken, Added, CountedIs DEF TurnType, Answer
    <2> QED BY <1>10, <2>1 DEF TurnType, Answer, Phases
  <1>11. CASE NextMessages
    BY <1>11, LoopTopTypes DEF TurnType, NextMessages
  <1>12. ASSUME NEW n \in 1 .. MaxCalls, CallTools(n) PROVE TurnType'
    <2>1. PICK safe \in [1 .. n -> BOOLEAN] :
            LET id(i) == IF FreshIds THEN seen.ids + i ELSE i
                reply == Reply([i \in 1 .. n |-> id(i)])
            IN /\ calls' = [i \in 1 .. n |-> [id |-> id(i), safe |-> safe[i]]]
               /\ history' = Append(history, reply)
               /\ msgs' = Append(msgs, reply)
      BY <1>12 DEF CallTools
    <2> DEFINE id(i) == IF FreshIds THEN seen.ids + i ELSE i
               ids == [i \in 1 .. n |-> id(i)]
    <2>2. seen.ids \in Nat /\ n \in Nat
      BY TurnAssumption DEF TurnType, Counters
    <2>3. \A i \in 1 .. n : id(i) \in Nat
      BY <2>2
    <2> HIDE DEF id
    <2>4. ids \in Seq(Nat) /\ [i \in 1 .. n |-> [id |-> id(i), safe |-> safe[i]]] \in ToolCalls
      BY <2>2, <2>3 DEF ToolCalls
    <2>5. calls' \in ToolCalls /\ history' \in Histories /\ msgs' \in Histories
      <3>1. Reply(ids) \in Message
        BY <2>4, Spoken
      <3>2. /\ calls' = [i \in 1 .. n |-> [id |-> id(i), safe |-> safe[i]]]
            /\ history' = Append(history, Reply(ids))
            /\ msgs' = Append(msgs, Reply(ids))
        BY <2>1 DEF id
      <3> HIDE DEF ids
      <3> QED BY <2>4, <3>1, <3>2, Added DEF TurnType
    <2>6. seen' \in Counters
      <3>1. seen.replies \in 0 .. MaxReplies /\ seen.replies < MaxReplies /\ MaxReplies \in Nat
        BY <1>12, TurnAssumption DEF TurnType, CallTools, Counters
      <3> DEFINE more == IF FreshIds THEN seen.ids + n ELSE seen.ids
      <3>2. seen.replies + 1 \in 0 .. MaxReplies /\ more \in Nat
        BY <2>2, <3>1
      <3>3. seen' = [seen EXCEPT !.replies = @ + 1, !.ids = more]
        BY <1>12 DEF CallTools
      <3> HIDE DEF more
      <3> QED BY <3>2, <3>3 DEF TurnType, Counters
    <2>7. /\ answered' = 0 /\ running' = {} /\ phase' = "announce"
          /\ UNCHANGED <<queue, drained, prompt, visible, tail, summed, compacted, partial, abandoned,
                         overwritten, mixed>>
      BY <1>12 DEF CallTools
    <2> QED BY <2>5, <2>6, <2>7 DEF TurnType, Phases
  <1>13. CASE StartBatch
    <2>1. Batch \in SUBSET Nat
      BY DEF TurnType, Batch, ToolCalls
    <2> QED BY <1>13, <2>1 DEF TurnType, StartBatch, Phases
  <1>14. ASSUME NEW i \in DOMAIN calls, ToolReturns(i) PROVE TurnType'
    BY <1>14 DEF TurnType, ToolReturns, Phases
  <1>15. ASSUME answered + 1 <= Len(calls) PROVE Result \in Message
    <2>1. answered + 1 \in 1 .. Len(calls)
      BY <1>15 DEF TurnType, ToolCalls
    <2>2. calls[answered + 1] \in [id : Nat, safe : BOOLEAN]
      BY <2>1, ElementOfSeq DEF TurnType, ToolCalls
    <2>3. calls[answered + 1].id \in Nat
      BY <2>2
    <2> QED BY <2>3, Spoken DEF Result
  <1>16. CASE Record
    <2>1. Result \in Message
      BY <1>15, <1>16 DEF Record, TurnType, ToolCalls
    <2>2. history' \in Histories /\ msgs' \in Histories
      BY <1>16, <2>1, Added DEF Record, TurnType
    <2> QED BY <1>16, <2>2 DEF TurnType, Record, Phases
  <1>17. CASE RecordLast
    <2>1. Result \in Message
      BY <1>15, <1>17 DEF RecordLast, TurnType, ToolCalls
    <2> DEFINE h == Append(history, Result)
               ms == Append(msgs, Result)
    <2>2. h \in Histories /\ ms \in Histories
      BY <2>1, Added DEF TurnType
    <2>3. LoopTop(h, ms) /\ calls' = <<>> /\ answered' = 0
          /\ UNCHANGED <<prompt, running, tail, summed, compacted, partial, abandoned, seen,
                         overwritten, mixed>>
      BY <1>17 DEF RecordLast
    <2>4. <<>> \in ToolCalls
      BY DEF ToolCalls
    <2> HIDE DEF h, ms
    <2> QED BY <2>2, <2>3, <2>4, LoopTopTypes DEF TurnType
  <1>18. CASE RecordAndCompact
    <2>1. Result \in Message
      BY <1>15, <1>18 DEF RecordAndCompact, TurnType, ToolCalls
    <2> DEFINE ms == Append(msgs, Result)
    <2>2. ms \in Histories
      BY <2>1, Added DEF TurnType
    <2>3. /\ history' = ms /\ msgs' = ms /\ Len(ms) > 4 /\ tail' = RecentTail(ms)
      BY <1>18 DEF RecordAndCompact
    <2> HIDE DEF ms
    <2>4. tail' \in Histories
      BY <2>2, <2>3, RecentIsTail, TailIsPart DEF Part
    <2>5. seen' \in Counters
      BY <1>18, CountedIs DEF TurnType, RecordAndCompact
    <2>6. <<>> \in ToolCalls
      BY DEF ToolCalls
    <2> QED BY <1>18, <2>2, <2>3, <2>4, <2>5, <2>6 DEF TurnType, RecordAndCompact, Phases
  <1>19. CASE CompactSucceeds
    <2>1. Sanitize(summed) \in Histories /\ <<>> \in Histories
      BY Sanitized, Empty DEF TurnType
    <2> QED BY <1>19, <2>1 DEF TurnType, CompactSucceeds, Phases
  <1>30. CASE Resync
    <2>1. compacted + 1 \in Nat
      BY DEF TurnType
    <2> QED BY <1>30, <2>1 DEF TurnType, Resync, Phases
  <1>20. CASE AfterCompaction
    <2>1. LoopTop(history, Sent) /\ tail' = <<>> /\ summed' = <<>>
          /\ UNCHANGED <<prompt, calls, answered, running, compacted, partial, abandoned, seen,
                         overwritten, mixed>>
      BY <1>20 DEF AfterCompaction
    <2>2. Sent \in Histories
      BY DEF TurnType, Sent
    <2> QED BY <2>1, <2>2, Empty, LoopTopTypes DEF TurnType
  <1>21. CASE Close
    <2>1. Sanitize(msgs) \in Histories /\ <<>> \in ToolCalls
      BY Sanitized DEF TurnType, ToolCalls
    <2> QED BY <1>21, <2>1, Empty DEF TurnType, Close, Phases
  <1>22. ASSUME Unwound
         PROVE  /\ phase' \in Phases /\ msgs' \in Histories /\ drained' \in Histories
                /\ prompt' \in Histories /\ tail' \in Histories /\ summed' \in Histories
                /\ calls' \in ToolCalls
                /\ answered' \in Nat /\ running' \in SUBSET Nat
    <2>1. <<>> \in ToolCalls
      BY DEF ToolCalls
    <2> QED BY <1>22, <2>1, Empty DEF Unwound, Phases
  <1>23. CASE StopInside
    <2>1. history' \in Histories
      BY <1>23, Sanitized DEF TurnType, StopInside
    <2>2. seen' \in Counters
      <3>1. CASE Stop
        BY <3>1, CountedIs DEF TurnType
      <3>2. CASE seen.stops + 1 < MaxStops /\ seen' = [seen EXCEPT !.stops = @ + 2]
        <4>1. seen.stops \in 0 .. MaxStops /\ MaxStops \in Nat
          BY TurnAssumption DEF TurnType, Counters
        <4>2. seen.stops + 2 \in 0 .. MaxStops
          BY <3>2, <4>1
        <4> QED BY <3>2, <4>2 DEF TurnType, Counters
      <3> QED BY <1>23, <3>1, <3>2 DEF StopInside
    <2>3. partial' \in BOOLEAN
      BY <1>23 DEF StopInside
    <2>4. Unwound /\ UNCHANGED <<queue, visible, compacted, abandoned, overwritten, mixed>>
      BY <1>23 DEF StopInside
    <2> QED BY <1>22, <2>1, <2>2, <2>3, <2>4 DEF TurnType
  <1>24. CASE StopOutside
    <2>1. abandoned' \in Seq(Histories)
      BY <1>24 DEF TurnType, StopOutside
    <2>2. seen' \in Counters
      BY <1>24, CountedIs DEF TurnType, StopOutside
    <2>3. partial' \in BOOLEAN
      BY <1>24 DEF StopOutside
    <2>4. Unwound /\ UNCHANGED <<history, queue, visible, compacted, overwritten, mixed>>
      BY <1>24 DEF StopOutside
    <2> QED BY <1>22, <2>1, <2>2, <2>3, <2>4 DEF TurnType
  <1>25. CASE NoteInterruption
    <2>1. <<Reply(<<>>)>> \in Histories /\ <<Note(0)>> \in Histories
      BY Spoken, Single
    <2>2. history' \in Histories
      <3> DEFINE r == IF partial THEN <<Reply(<<>>)>> ELSE <<>>
                 n == <<Note(0)>>
      <3>1. r \in Histories /\ n \in Histories
        BY <2>1, Empty
      <3>2. history' = history \o r \o n
        BY <1>25 DEF NoteInterruption
      <3> HIDE DEF r, n
      <3> QED BY <3>1, <3>2, Concatenated DEF TurnType
    <2> QED BY <1>25, <2>2 DEF TurnType, NoteInterruption, Phases
  <1>26. CASE StopHandler
    BY <1>26, CountedIs DEF TurnType, StopHandler, Phases
  <1>27. CASE Finalize
    <2>1. Head(abandoned) \in Histories /\ Tail(abandoned) \in Seq(Histories)
      BY <1>27 DEF TurnType, Finalize
    <2>2. history' \in Histories
      BY <1>27, <2>1, Sanitized DEF Finalize
    <2> QED BY <1>27, <2>1, <2>2 DEF TurnType, Finalize
  <1>28. ASSUME NEW k \in 0 .. (MaxUsers - 1), Rewind(k) PROVE TurnType'
    <2>1. history' \in Histories
      BY <1>28, RewoundIs DEF TurnType, Rewind, Part
    <2>2. visible' \in Seq(Nat)
      BY <1>28 DEF TurnType, Rewind
    <2> QED BY <1>28, <2>1, <2>2 DEF TurnType, Rewind
  <1> QED
    BY <1>1, <1>2, <1>3, <1>4, <1>5, <1>6, <1>7, <1>8, <1>9, <1>10, <1>11, <1>12,
       <1>13, <1>14, <1>16, <1>17, <1>18, <1>19, <1>20, <1>21, <1>23, <1>24,
       <1>25, <1>26, <1>27, <1>28, <1>29, <1>30
    DEF Next, Work, Preparing, Requesting, Executing, Ending

-----------------------------------------------------------------------------
(* The order of user messages: what holds where                            *)

\* What is empty in which phase.
PhaseFits ==
  /\ phase \notin {"prep", "prepCompacting", "prepCollected", "prepared"} => prompt = <<>>
  /\ phase # "drain" => drained = <<>>
  /\ phase \in {"idle", "prep", "prepCompacting", "prepCollected", "prepared", "stopped"}
       => msgs = <<>>

\* While a compaction runs, its tail is the end of the history unless a finalizer
\* replaced that history.
TailFits ==
  phase \in {"prepCompacting", "prepCollected", "compacting", "collected"} /\ ~ overwritten
    => IsTail(tail, history)

\* What a compaction makes, unless a finalizer replaced the history meanwhile: first of the
\* history and the tail, then of the compacted history.
SummedFits ==
  /\ phase \in {"prepCollected", "collected"} /\ ~ overwritten => summed = Compacted(history, tail)
  /\ phase = "summarized" /\ ~ overwritten => summed = Sanitize(history)

QueuesOrdered == Flow(prompt, drained, queue, seen.users)

Waiting == Waits(prompt, drained, queue)

\* Whatever is the history, the request, the new list of a compaction or an abandoned turn
\* is in order and ahead of what waits.  The abandoned turns are in it because a finalizer brings them back.
ListsSettled ==
  /\ Settled(history, Waiting, seen.users)
  /\ Settled(msgs, Waiting, seen.users)
  /\ Settled(summed, Waiting, seen.users)
  /\ \A k \in DOMAIN abandoned : Settled(abandoned[k], Waiting, seen.users)

\* Every step keeps PhaseFits.
LEMMA PhaseFitsStep == TurnType /\ PhaseFits /\ [Next]_vars => PhaseFits'
  <1> SUFFICES ASSUME TurnType, PhaseFits, [Next]_vars PROVE PhaseFits'
    OBVIOUS
  <1> USE DEF lists, step, control, ghosts
  <1>1. CASE Submit \/ Notify \/ Finalize \/ UNCHANGED vars
    BY <1>1 DEF PhaseFits, Submit, Notify, Finalize, vars
  <1>2. CASE Begin \/ PrepCompact \/ Collect \/ PrepCompacted
    BY <1>2 DEF PhaseFits, Begin, PrepCompact, Collect, PrepCompacted
  <1>3. ASSUME NEW h \in Histories, NEW ms \in Histories, LoopTop(h, ms),
               phase # "drain", prompt' = <<>>
        PROVE  PhaseFits'
    BY <1>3, LoopTopType DEF TurnType, PhaseFits
  <1>4. CASE Prepare
    <2>1. Sanitize(history) \o prompt \in Histories
      BY Sanitized, Concatenated DEF TurnType
    <2> QED BY <1>3, <1>4, <2>1 DEF Prepare
  <1>5. CASE DrainNext \/ DrainDone \/ Answer \/ EndOfTurn \/ RequestFails \/ ErrorShown
    BY <1>5 DEF PhaseFits, DrainNext, DrainDone, Answer, EndOfTurn, RequestFails, ErrorShown
  <1>6. CASE NextMessages \/ AfterCompaction
    <2>1. Sent \in Histories
      BY DEF TurnType, Sent
    <2> QED BY <1>3, <1>6, <2>1 DEF PhaseFits, TurnType, NextMessages, AfterCompaction
  <1>7. ASSUME NEW n \in 1 .. MaxCalls, CallTools(n) PROVE PhaseFits'
    BY <1>7 DEF PhaseFits, CallTools
  <1>8. ASSUME NEW i \in DOMAIN calls, ToolReturns(i) PROVE PhaseFits'
    BY <1>8 DEF PhaseFits, ToolReturns
  <1>9. CASE RecordLast
    <2>1. phase' \in {"drain", "request"} /\ (phase' # "drain" => drained' = drained)
          /\ prompt' = prompt /\ phase = "result"
      BY <1>9 DEF RecordLast, LoopTop
    <2> QED BY <2>1 DEF PhaseFits
  <1>10. CASE StartBatch \/ Record \/ RecordAndCompact \/ CompactSucceeds \/ Resync
    BY <1>10 DEF PhaseFits, StartBatch, Record, RecordAndCompact, CompactSucceeds, Resync
  <1>11. CASE Close \/ NoteInterruption \/ StopInside \/ StopOutside \/ StopHandler
    BY <1>11 DEF PhaseFits, Close, NoteInterruption, StopInside, StopOutside, StopHandler, Unwound
  <1>12. ASSUME NEW k \in 0 .. (MaxUsers - 1), Rewind(k) PROVE PhaseFits'
    BY <1>12 DEF PhaseFits, Rewind
  <1> QED
    BY <1>1, <1>2, <1>4, <1>5, <1>6, <1>7, <1>8, <1>9, <1>10, <1>11, <1>12
    DEF Next, Work, Preparing, Requesting, Executing, Ending

\* Every step keeps TailFits.
LEMMA TailFitsStep == TurnType /\ TailFits /\ [Next]_vars => TailFits'
  <1> SUFFICES ASSUME TurnType, TailFits, [Next]_vars PROVE TailFits'
    OBVIOUS
  <1> USE DEF lists, step, control, ghosts
  <1>1. ASSUME UNCHANGED <<phase, overwritten, tail, history>> PROVE TailFits'
    BY <1>1 DEF TailFits, IsTail
  <1>2. ASSUME phase' \notin {"prepCompacting", "prepCollected", "compacting", "collected"}
                  \/ overwritten'
          PROVE  TailFits'
    BY <1>2 DEF TailFits
  <1>3. CASE Submit \/ Notify \/ UNCHANGED vars
    BY <1>1, <1>3 DEF Submit, Notify, vars
  <1>4. CASE Finalize
    BY <1>2, <1>4 DEF Finalize
  <1>5. CASE PrepCompact
    <2>1. IsTail(RecentTail(history), history)
      BY <1>5, RecentIsTail DEF PrepCompact, TurnType
    <2>2. tail' = RecentTail(history) /\ history' = history
      BY <1>5 DEF PrepCompact
    <2> QED BY <2>1, <2>2 DEF TailFits, IsTail
  <1>6. CASE RecordAndCompact
    <2> DEFINE ms == Append(msgs, Result)
    <2>1. answered + 1 = Len(calls) /\ history' = ms /\ tail' = RecentTail(ms) /\ Len(ms) > 4
      BY <1>6 DEF RecordAndCompact
    <2>2. history' \in Histories
      BY TurnTypeStep DEF TurnType
    <2> HIDE DEF ms
    <2>3. IsTail(RecentTail(ms), ms)
      BY <2>1, <2>2, RecentIsTail
    <2> QED BY <2>1, <2>3 DEF TailFits, IsTail
  <1>15. CASE Collect
    BY <1>15 DEF Collect, TailFits, IsTail
  <1>7. CASE Begin \/ PrepCompacted
    BY <1>2, <1>7 DEF Begin, PrepCompacted
  <1>8. CASE Prepare \/ NextMessages \/ RecordLast \/ AfterCompaction
    <2>1. phase' \in {"drain", "request"}
      BY <1>8 DEF Prepare, NextMessages, RecordLast, AfterCompaction, LoopTop
    <2> QED BY <1>2, <2>1
  <1>9. CASE DrainNext \/ DrainDone \/ Answer \/ EndOfTurn \/ RequestFails \/ ErrorShown
    BY <1>2, <1>9 DEF DrainNext, DrainDone, Answer, EndOfTurn, RequestFails, ErrorShown
  <1>10. ASSUME NEW n \in 1 .. MaxCalls, CallTools(n) PROVE TailFits'
    BY <1>2, <1>10 DEF CallTools
  <1>11. ASSUME NEW i \in DOMAIN calls, ToolReturns(i) PROVE TailFits'
    BY <1>2, <1>11 DEF ToolReturns
  <1>12. CASE StartBatch \/ Record \/ CompactSucceeds \/ Resync
    BY <1>2, <1>12 DEF StartBatch, Record, CompactSucceeds, Resync
  <1>13. CASE Close \/ NoteInterruption \/ StopInside \/ StopOutside \/ StopHandler
    BY <1>2, <1>13 DEF Close, NoteInterruption, StopInside, StopOutside, StopHandler, Unwound
  <1>14. ASSUME NEW k \in 0 .. (MaxUsers - 1), Rewind(k) PROVE TailFits'
    BY <1>2, <1>14 DEF Rewind
  <1> QED
    BY <1>3, <1>4, <1>5, <1>6, <1>7, <1>8, <1>9, <1>10, <1>11, <1>12, <1>13, <1>14,
       <1>15
    DEF Next, Work, Preparing, Requesting, Executing, Ending

\* Every step keeps SummedFits.
LEMMA SummedFitsStep == SummedFits /\ [Next]_vars => SummedFits'
  <1> SUFFICES ASSUME SummedFits, [Next]_vars PROVE SummedFits'
    OBVIOUS
  <1> USE DEF lists, step, control, ghosts
  <1>1. ASSUME UNCHANGED <<phase, overwritten, tail, summed, history>> PROVE SummedFits'
    BY <1>1 DEF SummedFits
  <1>2. ASSUME phase' \notin {"prepCollected", "collected", "summarized"} \/ overwritten'
        PROVE  SummedFits'
    BY <1>2 DEF SummedFits
  <1>3. CASE Submit \/ Notify \/ UNCHANGED vars
    BY <1>1, <1>3 DEF Submit, Notify, vars
  <1>4. CASE Finalize
    BY <1>2, <1>4 DEF Finalize
  <1>5. CASE Collect
    <2>1. /\ phase' \in {"prepCollected", "collected"} /\ summed' = Compacted(history, tail)
          /\ history' = history /\ tail' = tail
      BY <1>5 DEF Collect
    <2> QED BY <2>1 DEF SummedFits
  <1>6. CASE CompactSucceeds
    <2>1. phase' = "summarized" /\ history' = summed /\ summed' = Sanitize(summed)
      BY <1>6 DEF CompactSucceeds
    <2> QED BY <2>1 DEF SummedFits
  <1>7. CASE Begin \/ PrepCompact \/ PrepCompacted
    BY <1>2, <1>7 DEF Begin, PrepCompact, PrepCompacted
  <1>8. CASE Prepare \/ NextMessages \/ RecordLast \/ AfterCompaction
    <2>1. phase' \in {"drain", "request"}
      BY <1>8 DEF Prepare, NextMessages, RecordLast, AfterCompaction, LoopTop
    <2> QED BY <1>2, <2>1
  <1>9. CASE DrainNext \/ DrainDone \/ Answer \/ EndOfTurn \/ RequestFails \/ ErrorShown
    BY <1>2, <1>9 DEF DrainNext, DrainDone, Answer, EndOfTurn, RequestFails, ErrorShown
  <1>10. ASSUME NEW n \in 1 .. MaxCalls, CallTools(n) PROVE SummedFits'
    BY <1>2, <1>10 DEF CallTools
  <1>11. ASSUME NEW i \in DOMAIN calls, ToolReturns(i) PROVE SummedFits'
    BY <1>2, <1>11 DEF ToolReturns
  <1>12. CASE StartBatch \/ Record \/ RecordAndCompact \/ Resync
    BY <1>2, <1>12 DEF StartBatch, Record, RecordAndCompact, Resync
  <1>13. CASE Close \/ NoteInterruption \/ StopInside \/ StopOutside \/ StopHandler
    BY <1>2, <1>13 DEF Close, NoteInterruption, StopInside, StopOutside, StopHandler, Unwound
  <1>14. ASSUME NEW k \in 0 .. (MaxUsers - 1), Rewind(k) PROVE SummedFits'
    BY <1>2, <1>14 DEF Rewind
  <1> QED
    BY <1>3, <1>4, <1>5, <1>6, <1>7, <1>8, <1>9, <1>10, <1>11, <1>12, <1>13, <1>14
    DEF Next, Work, Preparing, Requesting, Executing, Ending

\* Only Submit counts a user.
LEMMA UsersCounted ==
  ASSUME TurnType, [Next]_vars
  PROVE  Submit \/ seen'.users = seen.users
  <1> USE DEF lists, step, control, ghosts
  <1>1. CASE UNCHANGED seen
    BY <1>1
  <1>2. CASE Notify \/ PrepCompact \/ Answer \/ RecordAndCompact \/ StopOutside \/ StopHandler
    BY <1>2, CountedIs DEF TurnType, Notify, PrepCompact, Answer, RecordAndCompact,
                               StopOutside, StopHandler
  <1>3. ASSUME NEW n \in 1 .. MaxCalls, CallTools(n) PROVE seen'.users = seen.users
    BY <1>3 DEF CallTools, TurnType, Counters
  <1>4. CASE StopInside
    <2>1. CASE Stop
      BY <2>1, CountedIs DEF TurnType
    <2>2. CASE seen' = [seen EXCEPT !.stops = @ + 2]
      BY <2>2 DEF TurnType, Counters
    <2> QED BY <1>4, <2>1, <2>2 DEF StopInside
  <1>5. CASE Begin \/ Collect \/ PrepCompacted \/ Prepare \/ DrainNext \/ DrainDone \/ NextMessages
             \/ EndOfTurn \/ RequestFails \/ ErrorShown \/ UNCHANGED vars
    BY <1>1, <1>5 DEF Begin, Collect, PrepCompacted, Prepare, DrainNext, DrainDone, NextMessages,
                      EndOfTurn, RequestFails, ErrorShown, vars
  <1>6. CASE StartBatch \/ Record \/ RecordLast \/ CompactSucceeds \/ Resync \/ AfterCompaction
             \/ Close \/ NoteInterruption \/ Finalize
    BY <1>1, <1>6 DEF StartBatch, Record, RecordLast, CompactSucceeds, Resync, AfterCompaction,
                      Close, NoteInterruption, Finalize
  <1>7. CASE \E i \in DOMAIN calls : ToolReturns(i)
    BY <1>1, <1>7 DEF ToolReturns
  <1>8. CASE \E k \in 0 .. (MaxUsers - 1) : Rewind(k)
    BY <1>1, <1>8 DEF Rewind
  <1> QED
    BY <1>2, <1>3, <1>4, <1>5, <1>6, <1>7, <1>8
    DEF Next, Work, Preparing, Requesting, Executing, Ending

\* Every step keeps the order of what waits.
LEMMA QueuesOrderedStep ==
  TurnType /\ PhaseFits /\ QueuesOrdered /\ [Next]_vars => QueuesOrdered'
  <1> SUFFICES ASSUME TurnType, PhaseFits, QueuesOrdered, [Next]_vars PROVE QueuesOrdered'
    OBVIOUS
  <1> USE DEF lists, step, control, ghosts
  <1> DEFINE n == seen.users
  <1>0. n \in Nat
    BY TurnAssumption DEF TurnType, Counters
  <1>1. CASE Submit
    <2>1. queue' = Append(queue, User(n + 1)) /\ prompt' = prompt /\ drained' = drained
          /\ seen'.users = n + 1
      BY <1>1, CountedIs DEF Submit, TurnType
    <2>2. User(n + 1) \in Message /\ User(n + 1).role = "user" /\ User(n + 1).ref = n + 1
      BY <1>0, Spoken DEF User
    <2>3. UserRefs(<<User(n + 1)>>) = {n + 1}
      BY <2>2, Single
    <2> HIDE DEF n
    <2>4. UserRefs(queue') = UserRefs(queue) \cup {n + 1}
          /\ (Ordered(queue') <=> Ordered(queue) /\ Before(queue, <<User(n + 1)>>))
      BY <2>1, <2>2, <2>3, Added DEF TurnType
    <2>5. UserRefs(queue) \subseteq Nat /\ UserRefs(prompt) \subseteq Nat
          /\ UserRefs(drained) \subseteq Nat
      BY RefsAreNat DEF TurnType
    <2>6. Flow(prompt, drained, queue, n)
      BY DEF QueuesOrdered, n
    <2>7. Before(queue, <<User(n + 1)>>)
      BY <1>0, <2>3, <2>5, <2>6 DEF Before, Flow
    <2>8. Flow(prompt, drained, queue', n + 1)
      BY <1>0, <2>4, <2>5, <2>6, <2>7 DEF Flow, Before
    <2> QED BY <2>1, <2>8 DEF QueuesOrdered
  <1>2. ASSUME ~ Submit PROVE seen'.users = n
    BY <1>2, UsersCounted
  <1>3. CASE Notify
    <2>1. Note(seen.notes + 1) \in Message /\ Note(seen.notes + 1).role # "user"
      BY TurnAssumption, Spoken DEF Note, TurnType, Counters
    <2>2. queue' = Append(queue, Note(seen.notes + 1)) /\ prompt' = prompt /\ drained' = drained
          /\ seen'.users = n
      BY <1>3, CountedIs DEF Notify, TurnType
    <2>3. UserRefs(queue') = UserRefs(queue) /\ (Ordered(queue') <=> Ordered(queue))
      BY <2>1, <2>2, AddedOther DEF TurnType
    <2> QED BY <2>2, <2>3 DEF QueuesOrdered, Flow, Before
  <1>4. CASE Begin
    <2>1. prompt' = <<Head(queue)>> /\ queue' = Tail(queue) /\ drained' = drained /\ seen' = seen
          /\ queue # <<>> /\ drained = <<>>
      BY <1>4 DEF Begin, PhaseFits
    <2>2. Head(queue) \in Message
          /\ UserRefs(queue) = UserRefs(<<Head(queue)>>) \cup UserRefs(Tail(queue))
          /\ Ordered(Tail(queue)) /\ Before(<<Head(queue)>>, Tail(queue))
      BY <2>1, FirstOut DEF TurnType, QueuesOrdered, Flow
    <2>3. Ordered(<<Head(queue)>>)
      BY <2>2, Single
    <2>4. Flow(<<Head(queue)>>, drained, Tail(queue), n)
      BY <2>1, <2>2, <2>3, Empty DEF QueuesOrdered, Flow, Before
    <2> QED BY <2>1, <2>4 DEF QueuesOrdered
  <1>5. ASSUME UNCHANGED <<prompt, drained, queue>>, seen'.users = n PROVE QueuesOrdered'
    BY <1>5 DEF QueuesOrdered
  <1>6. CASE PrepCompact \/ Collect \/ PrepCompacted \/ DrainDone \/ Answer \/ EndOfTurn \/ RequestFails
             \/ ErrorShown \/ StartBatch \/ Record \/ RecordAndCompact \/ CompactSucceeds
             \/ Resync \/ Close \/ NoteInterruption \/ StopHandler \/ Finalize \/ UNCHANGED vars
    <2>1. UNCHANGED <<prompt, drained, queue>>
      BY <1>6 DEF PrepCompact, Collect, PrepCompacted, DrainDone, Answer, EndOfTurn, RequestFails,
                  ErrorShown, StartBatch, Record, RecordAndCompact, CompactSucceeds, Resync,
                  Close, NoteInterruption, StopHandler, Finalize, vars
    <2> QED BY <1>1, <1>2, <1>5, <2>1
  <1>7. ASSUME NEW h, NEW ms, LoopTop(h, ms), phase # "drain", prompt' = <<>>
        PROVE  QueuesOrdered'
    <2>1. CASE Submit
      BY <1>1, <2>1
    <2>2. CASE ~ Submit
      <3>1. drained = <<>>
        BY <1>7 DEF PhaseFits
      <3>2. Flow(<<>>, <<>>, queue, n)
        BY <3>1, Empty DEF QueuesOrdered, Flow, Before
      <3>3. Flow(<<>>, drained', queue', n)
        BY <1>7, <3>1, <3>2, LoopTopFlow DEF TurnType
      <3> QED BY <1>2, <1>7, <2>2, <3>3 DEF QueuesOrdered
    <2> QED BY <2>1, <2>2
  <1>8. CASE Prepare
    BY <1>7, <1>8 DEF Prepare
  <1>9. CASE NextMessages \/ RecordLast \/ AfterCompaction
    <2>1. prompt' = <<>> /\ phase # "drain"
      BY <1>9 DEF NextMessages, RecordLast, AfterCompaction, PhaseFits
    <2> QED BY <1>7, <1>9, <2>1 DEF NextMessages, RecordLast, AfterCompaction
  <1>10. CASE DrainNext
    <2>1. prompt' = prompt /\ queue' = queue /\ drained' = Tail(drained) /\ seen' = seen
          /\ drained # <<>>
      BY <1>10 DEF DrainNext
    <2>2. UserRefs(Tail(drained)) \subseteq UserRefs(drained) /\ Ordered(Tail(drained))
      BY <2>1, FirstOut DEF TurnType, QueuesOrdered, Flow
    <2>3. Flow(prompt, Tail(drained), queue, n)
      BY <2>2 DEF QueuesOrdered, Flow, Before
    <2> QED BY <2>1, <2>3 DEF QueuesOrdered
  <1>11. CASE \E k \in 1 .. MaxCalls : CallTools(k)
    BY <1>1, <1>2, <1>5, <1>11 DEF CallTools
  <1>12. CASE \E i \in DOMAIN calls : ToolReturns(i)
    BY <1>1, <1>2, <1>5, <1>12 DEF ToolReturns
  <1>13. CASE StopInside \/ StopOutside
    <2>1. prompt' = <<>> /\ drained' = <<>> /\ queue' = queue
      BY <1>13 DEF StopInside, StopOutside, Unwound
    <2>2. Flow(<<>>, <<>>, queue, n)
      BY Empty DEF QueuesOrdered, Flow, Before
    <2> QED BY <1>1, <1>2, <2>1, <2>2 DEF QueuesOrdered
  <1>14. CASE \E k \in 0 .. (MaxUsers - 1) : Rewind(k)
    BY <1>1, <1>2, <1>5, <1>14 DEF Rewind
  <1> QED
    BY <1>1, <1>3, <1>4, <1>6, <1>8, <1>9, <1>10, <1>11, <1>12, <1>13, <1>14
    DEF Next, Work, Preparing, Requesting, Executing, Ending

\* Only a compaction makes a new list.
LEMMA SummedLeft ==
  ASSUME [Next]_vars
  PROVE  Collect \/ CompactSucceeds \/ summed' = summed \/ summed' = <<>>
  <1> USE DEF lists, step, control, ghosts
  <1>1. CASE Submit \/ Notify \/ Begin \/ PrepCompact \/ PrepCompacted \/ Prepare \/ UNCHANGED vars
    BY <1>1 DEF Submit, Notify, Begin, PrepCompact, PrepCompacted, Prepare, vars
  <1>2. CASE Requesting
    BY <1>2 DEF Requesting, DrainNext, DrainDone, Answer, NextMessages, EndOfTurn,
                RequestFails, ErrorShown, CallTools
  <1>3. CASE StartBatch \/ Record \/ RecordLast \/ RecordAndCompact \/ Resync \/ AfterCompaction
             \/ \E i \in DOMAIN calls : ToolReturns(i)
    BY <1>3 DEF StartBatch, Record, RecordLast, RecordAndCompact, Resync, AfterCompaction,
                ToolReturns
  <1>4. CASE Ending \/ StopInside \/ StopOutside \/ StopHandler \/ Finalize
             \/ \E k \in 0 .. (MaxUsers - 1) : Rewind(k)
    BY <1>4 DEF Ending, Close, NoteInterruption, StopInside, StopOutside, StopHandler,
                Finalize, Rewind, Unwound
  <1> QED BY <1>1, <1>2, <1>3, <1>4 DEF Next, Work, Preparing, Executing

-----------------------------------------------------------------------------
(* The order of user messages: the lists                                   *)

\* Every step keeps the lists settled until a tail is put behind another history.
LEMMA ListsSettledStep ==
  TurnType /\ PhaseFits /\ TailFits /\ QueuesOrdered /\ ListsSettled /\ [Next]_vars /\ ~ mixed'
    => ListsSettled'
  <1> SUFFICES ASSUME TurnType, PhaseFits, TailFits, QueuesOrdered, ListsSettled, [Next]_vars,
                      ~ mixed'
               PROVE  ListsSettled'
    OBVIOUS
  <1> USE DEF lists, step, control, ghosts
  <1> DEFINE n == seen.users
             w == Waiting
  <1>0. n \in Nat /\ Flow(prompt, drained, queue, n)
    BY TurnAssumption DEF TurnType, Counters, QueuesOrdered
  <1>s. /\ Settled(history, w, n) /\ Settled(msgs, w, n)
        /\ Settled(summed, w, n)
        /\ \A k \in DOMAIN abandoned : Settled(abandoned[k], w, n)
    BY DEF ListsSettled
  <1>h. history \in Histories /\ msgs \in Histories /\ summed \in Histories
    BY DEF TurnType
  <1>w. w = UserRefs(prompt) \cup UserRefs(drained) \cup UserRefs(queue)
    BY DEF Waiting, Waits
  <1>e. Settled(<<>>, w, n)
    BY Empty DEF Settled
  <1>a. ASSUME NEW x \in SUBSET w, abandoned' = abandoned
        PROVE  \A k \in DOMAIN abandoned' : Settled(abandoned'[k], x, n)
    BY <1>s, <1>a DEF Settled
  <1> HIDE DEF n, w
  <1>8. ASSUME NEW t, Ordered(history) => Ordered(t), UserRefs(t) \subseteq UserRefs(history)
        PROVE  Settled(t, w, n)
    BY <1>8, <1>s, SettledLike
  <1>m. Settled(summed', w, n)
    <2>1. CASE summed' = summed \/ summed' = <<>>
      BY <1>e, <1>s, <2>1
    <2>2. CASE Collect
      <3>1. /\ summed' = Compacted(history, tail) /\ phase \in {"prepCompacting", "compacting"}
            /\ ~ overwritten
        BY <2>2 DEF Collect
      <3>2. IsTail(tail, history)
        BY <3>1 DEF TailFits
      <3> QED BY <1>8, <1>h, <3>1, <3>2, CompactedIs
    <2>3. CASE CompactSucceeds
      <3>1. summed' = Sanitize(summed)
        BY <2>3 DEF CompactSucceeds
      <3> QED BY <1>h, <1>s, <3>1, Sanitized, SettledLike
    <2> QED BY <2>1, <2>2, <2>3, SummedLeft
  <1>1. CASE Submit
    <2>1. /\ queue' = Append(queue, User(n + 1)) /\ seen'.users = n + 1
          /\ UNCHANGED <<prompt, drained, history, msgs, summed, abandoned>>
      BY <1>1, CountedIs DEF Submit, TurnType, n
    <2>2. User(n + 1) \in Message /\ User(n + 1).role = "user" /\ User(n + 1).ref = n + 1
      BY <1>0, Spoken DEF User
    <2>3. UserRefs(<<User(n + 1)>>) = {n + 1}
      BY <2>2, Single
    <2>4. UserRefs(queue') = UserRefs(queue) \cup {n + 1}
      BY <2>1, <2>2, <2>3, Added DEF TurnType
    <2>5. Waiting' = w \cup {n + 1}
      BY <1>w, <2>1, <2>4 DEF Waiting, Waits
    <2>6. ASSUME NEW s \in Histories, Settled(s, w, n) PROVE Settled(s, w \cup {n + 1}, n + 1)
      <3>1. UserRefs(s) \subseteq Nat
        BY RefsAreNat
      <3> QED BY <1>0, <2>6, <3>1 DEF Settled
    <2>7. \A k \in DOMAIN abandoned : abandoned[k] \in Histories
      BY DEF TurnType
    <2>8. /\ Settled(history, w \cup {n + 1}, n + 1) /\ Settled(msgs, w \cup {n + 1}, n + 1)
          /\ Settled(summed, w \cup {n + 1}, n + 1)
          /\ \A k \in DOMAIN abandoned : Settled(abandoned[k], w \cup {n + 1}, n + 1)
      BY <1>h, <1>s, <2>6, <2>7
    <2> QED BY <2>1, <2>5, <2>8 DEF ListsSettled
  <1>2. ASSUME ~ Submit PROVE seen'.users = n
    BY <1>2, UsersCounted DEF n
  <1>3. ASSUME ~ Submit, NEW x \in SUBSET w, Waiting' = x, abandoned' = abandoned,
               Settled(history', x, n), Settled(msgs', x, n)
        PROVE  ListsSettled'
    <2>1. Settled(summed', x, n)
      BY <1>3, <1>m DEF Settled
    <2> QED BY <1>2, <1>3, <1>a, <2>1 DEF ListsSettled
  <1>4. ASSUME UNCHANGED <<prompt, drained, queue>>
        PROVE  Waiting' = w
    BY <1>4 DEF Waiting, w
  <1>5. CASE Notify
    <2>1. Note(seen.notes + 1) \in Message /\ Note(seen.notes + 1).role # "user"
      BY TurnAssumption, Spoken DEF Note, TurnType, Counters
    <2>2. queue' = Append(queue, Note(seen.notes + 1)) /\ prompt' = prompt /\ drained' = drained
          /\ UNCHANGED <<history, msgs, abandoned>>
      BY <1>5 DEF Notify
    <2>3. UserRefs(queue') = UserRefs(queue)
      BY <2>1, <2>2, AddedOther DEF TurnType
    <2>4. Waiting' = w
      BY <1>w, <2>2, <2>3 DEF Waiting, Waits
    <2> QED BY <1>1, <1>3, <1>s, <2>2, <2>4
  <1>6. CASE Begin
    <2>1. /\ prompt' = <<Head(queue)>> /\ queue' = Tail(queue) /\ drained' = drained
          /\ queue # <<>> /\ prompt = <<>>
          /\ UNCHANGED <<history, msgs, abandoned>>
      BY <1>6 DEF Begin, PhaseFits
    <2>2. UserRefs(queue) = UserRefs(prompt') \cup UserRefs(queue')
      BY <2>1, FirstOut DEF TurnType
    <2>3. Waiting' = w
      BY <1>w, <2>1, <2>2, Empty DEF Waiting, Waits
    <2> QED BY <1>1, <1>3, <1>s, <2>1, <2>3
  <1>7. CASE PrepCompact \/ Collect \/ DrainDone \/ EndOfTurn \/ RequestFails \/ ErrorShown
             \/ StartBatch \/ StopHandler \/ UNCHANGED vars
    <2>1. UNCHANGED <<prompt, drained, queue, history, msgs, abandoned>>
      BY <1>7 DEF PrepCompact, Collect, DrainDone, EndOfTurn, RequestFails, ErrorShown, StartBatch,
                  StopHandler, vars
    <2> QED BY <1>1, <1>3, <1>4, <1>s, <2>1
  <1>9. CASE PrepCompacted
    <2>1. /\ history' = history \/ history' = summed
          /\ UNCHANGED <<prompt, drained, queue, msgs, abandoned>>
      BY <1>9 DEF PrepCompacted
    <2> QED BY <1>1, <1>3, <1>4, <1>s, <2>1
  <1>10. ASSUME NEW h \in Histories, NEW ms \in Histories, LoopTop(h, ms), phase # "drain",
                prompt' = <<>>, abandoned' = abandoned,
                Settled(h, UserRefs(queue), n), Settled(ms, UserRefs(queue), n)
         PROVE  ListsSettled'
    <2>1. CASE Submit
      BY <1>1, <2>1
    <2>2. CASE ~ Submit
      <3>1. drained = <<>>
        BY <1>10 DEF PhaseFits
      <3>2. Flow(<<>>, <<>>, queue, n)
        BY <1>0, <3>1, Empty DEF Flow, Before
      <3>3. /\ Settled(history', Waits(<<>>, drained', queue'), n)
            /\ Settled(msgs', Waits(<<>>, drained', queue'), n)
        BY <1>10, <3>1, <3>2, LoopTopSettles DEF TurnType
      <3>4. UserRefs(drained') \cup UserRefs(queue') \subseteq UserRefs(queue)
        <4>1. CASE queue = <<>>
          BY <1>10, <3>1, <4>1 DEF LoopTop
        <4>2. CASE queue # <<>>
          BY <1>10, <4>2, Empty, FirstOut DEF LoopTop, TurnType
        <4> QED BY <4>1, <4>2
      <3>5. Waiting' = Waits(<<>>, drained', queue')
        BY <1>10 DEF Waiting
      <3>6. Waiting' \in SUBSET w
        BY <1>w, <3>4, <3>5, Empty DEF Waits
      <3> QED BY <1>3, <1>10, <2>2, <3>3, <3>5, <3>6
    <2> QED BY <2>1, <2>2
  <1>11. CASE Prepare
    <2> DEFINE s == Sanitize(history)
               ms == s \o prompt
               x == UserRefs(queue)
    <2>1. LoopTop(ms, ms) /\ phase # "drain" /\ prompt' = <<>> /\ abandoned' = abandoned
      BY <1>11 DEF Prepare
    <2>2. s \in Histories /\ Settled(s, w, n)
      BY <1>8, <1>h, Sanitized
    <2>3. x \in SUBSET w /\ UserRefs(prompt) \subseteq w /\ Ordered(prompt)
          /\ \A a \in UserRefs(prompt) : a <= n /\ \A b \in x : a < b
      BY <1>0, <1>w DEF Flow, Before
    <2> HIDE DEF s, x
    <2>4. ms \in Histories /\ Settled(ms, x, n)
      BY <2>2, <2>3, Joined DEF TurnType
    <2> QED BY <1>10, <2>1, <2>4 DEF x
  <1>12. ASSUME NEW s, Settled(s, w, n) PROVE Settled(s, UserRefs(queue), n)
    BY <1>12, <1>w DEF Settled
  <1>13. CASE NextMessages \/ AfterCompaction
    <2>1. PICK ms \in {msgs, summed} :
            LoopTop(history, ms) /\ phase # "drain" /\ prompt' = <<>> /\ abandoned' = abandoned
      BY <1>13 DEF NextMessages, AfterCompaction, PhaseFits, Sent
    <2> QED BY <1>10, <1>12, <1>h, <1>s, <2>1
  <1>14. CASE DrainNext
    <2>1. /\ prompt' = prompt /\ prompt = <<>> /\ queue' = queue /\ drained' = Tail(drained)
          /\ drained # <<>> /\ abandoned' = abandoned
          /\ history' = Append(history, Head(drained)) /\ msgs' = Append(msgs, Head(drained))
      BY <1>14 DEF DrainNext, PhaseFits
    <2>2. UserRefs(drained) = UserRefs(<<Head(drained)>>) \cup UserRefs(Tail(drained))
          /\ Before(<<Head(drained)>>, Tail(drained))
      BY <1>0, <2>1, FirstOut DEF TurnType, Flow
    <2> DEFINE x == UserRefs(Tail(drained)) \cup UserRefs(queue)
    <2>3. Waiting' = x
      BY <2>1, Empty DEF Waiting, Waits
    <2>4. x \in SUBSET w /\ UserRefs(drained) \subseteq w /\ (\A a \in UserRefs(drained) : a <= n)
          /\ \A a \in UserRefs(<<Head(drained)>>) : \A b \in x : a < b
      BY <1>0, <1>w, <2>2 DEF Flow, Before
    <2> HIDE DEF x
    <2>5. Settled(history', x, n) /\ Settled(msgs', x, n)
      BY <1>h, <1>s, <2>1, <2>4, Moved DEF TurnType
    <2> QED BY <1>1, <1>3, <2>1, <2>3, <2>4, <2>5
  <1>15. ASSUME NEW m \in Message, m.role # "user"
         PROVE  /\ Append(history, m) \in Histories /\ Append(msgs, m) \in Histories
                /\ Settled(Append(history, m), w, n) /\ Settled(Append(msgs, m), w, n)
    BY <1>15, <1>h, <1>s, AddedOther DEF Settled
  <1>16. CASE Answer
    <2>1. Reply(<<>>) \in Message /\ Reply(<<>>).role # "user"
      BY Spoken DEF Reply
    <2>2. /\ UNCHANGED <<prompt, drained, queue, abandoned>>
          /\ history' = Append(history, Reply(<<>>)) /\ msgs' = Append(msgs, Reply(<<>>))
      BY <1>16 DEF Answer
    <2> QED BY <1>1, <1>3, <1>4, <1>15, <2>1, <2>2
  <1>17. ASSUME NEW k \in 1 .. MaxCalls, CallTools(k) PROVE ListsSettled'
    <2>1. PICK ids : history' = Append(history, Reply(ids)) /\ msgs' = Append(msgs, Reply(ids))
                     /\ ids \in Seq(Nat)
      <3>1. seen.ids \in Nat /\ k \in Nat
        BY TurnAssumption DEF TurnType, Counters
      <3> DEFINE id(i) == IF FreshIds THEN seen.ids + i ELSE i
                 ids == [i \in 1 .. k |-> id(i)]
      <3>2. \A i \in 1 .. k : id(i) \in Nat
        BY <3>1
      <3>3. history' = Append(history, Reply(ids)) /\ msgs' = Append(msgs, Reply(ids))
        BY <1>17 DEF CallTools
      <3> HIDE DEF id
      <3>4. ids \in Seq(Nat)
        BY <3>1, <3>2
      <3> HIDE DEF ids
      <3> QED BY <3>3, <3>4
    <2>2. Reply(ids) \in Message /\ Reply(ids).role # "user"
      BY <2>1, Spoken DEF Reply
    <2>3. UNCHANGED <<prompt, drained, queue, abandoned>>
      BY <1>17 DEF CallTools
    <2> QED BY <1>1, <1>3, <1>4, <1>15, <2>1, <2>2, <2>3
  <1>18. ASSUME NEW i \in DOMAIN calls, ToolReturns(i) PROVE ListsSettled'
    BY <1>1, <1>3, <1>4, <1>s, <1>18 DEF ToolReturns
  <1>19. ASSUME answered + 1 <= Len(calls) PROVE Result \in Message /\ Result.role # "user"
    <2>1. answered + 1 \in 1 .. Len(calls)
      BY <1>19 DEF TurnType, ToolCalls
    <2>2. calls[answered + 1] \in [id : Nat, safe : BOOLEAN]
      BY <2>1, ElementOfSeq DEF TurnType, ToolCalls
    <2>3. calls[answered + 1].id \in Nat
      BY <2>2
    <2> QED BY <2>3, Spoken DEF Result, ToolMsg
  <1>20. CASE Record
    <2>1. answered + 1 <= Len(calls)
      BY <1>20 DEF Record, TurnType, ToolCalls
    <2>2. /\ UNCHANGED <<prompt, drained, queue, abandoned>>
          /\ history' = Append(history, Result) /\ msgs' = Append(msgs, Result)
      BY <1>20 DEF Record
    <2> QED BY <1>1, <1>3, <1>4, <1>15, <1>19, <2>1, <2>2
  <1>21. CASE RecordLast
    <2>1. answered + 1 <= Len(calls)
      BY <1>21 DEF RecordLast, TurnType, ToolCalls
    <2>2. /\ LoopTop(Append(history, Result), Append(msgs, Result)) /\ phase # "drain"
          /\ prompt' = <<>> /\ abandoned' = abandoned
      BY <1>21 DEF RecordLast, PhaseFits
    <2>3. Result \in Message /\ Result.role # "user"
      BY <1>19, <2>1
    <2> QED BY <1>10, <1>12, <1>15, <2>2, <2>3
  <1>22. CASE RecordAndCompact
    <2>1. answered + 1 <= Len(calls)
      BY <1>22 DEF RecordAndCompact, TurnType, ToolCalls
    <2>2. /\ UNCHANGED <<prompt, drained, queue, abandoned>>
          /\ history' = Append(msgs, Result) /\ msgs' = Append(msgs, Result)
      BY <1>22 DEF RecordAndCompact
    <2> QED BY <1>1, <1>3, <1>4, <1>15, <1>19, <2>1, <2>2
  <1>23. CASE CompactSucceeds \/ Resync
    <2>1. history' = summed /\ UNCHANGED <<prompt, drained, queue, msgs, abandoned>>
      BY <1>23 DEF CompactSucceeds, Resync
    <2> QED BY <1>1, <1>3, <1>4, <1>s, <2>1
  <1>24. Settled(Sanitize(msgs), w, n)
    BY <1>h, <1>s, Sanitized, SettledLike
  <1>25. CASE Close
    <2>1. /\ history' = Sanitize(msgs) /\ msgs' = <<>>
          /\ UNCHANGED <<prompt, drained, queue, abandoned>>
      BY <1>25 DEF Close
    <2> QED BY <1>1, <1>3, <1>4, <1>24, <1>e, <2>1
  <1>26. ASSUME Unwound, queue' = queue
         PROVE  Waiting' \in SUBSET w /\ msgs' = <<>>
    BY <1>26, <1>w, Empty DEF Unwound, Waiting, Waits
  <1>27. ASSUME NEW s, NEW x \in SUBSET w, Settled(s, w, n) PROVE Settled(s, x, n)
    BY <1>27 DEF Settled
  <1>28. CASE StopInside
    <2>1. /\ history' = history \/ history' = Sanitize(msgs)
          /\ Unwound /\ queue' = queue /\ abandoned' = abandoned
      BY <1>28 DEF StopInside
    <2>2. Settled(history', Waiting', n) /\ Settled(msgs', Waiting', n)
      BY <1>24, <1>26, <1>27, <1>e, <1>s, <2>1
    <2> QED BY <1>1, <1>3, <1>26, <2>1, <2>2
  <1>29. CASE StopOutside
    <2>1. /\ history' = history /\ Unwound /\ queue' = queue
          /\ abandoned' = Append(abandoned, msgs)
      BY <1>29 DEF StopOutside
    <2>2. Settled(history', Waiting', n) /\ Settled(msgs', Waiting', n) /\ Settled(msgs, Waiting', n)
      BY <1>26, <1>27, <1>e, <1>s, <2>1
    <2>3. \A k \in DOMAIN abandoned : Settled(abandoned[k], Waiting', n)
      BY <1>26, <1>27, <1>s, <2>1
    <2>4. \A k \in DOMAIN abandoned' :
            \/ abandoned'[k] = msgs
            \/ k \in DOMAIN abandoned /\ abandoned'[k] = abandoned[k]
      BY <2>1 DEF TurnType
    <2>5. \A k \in DOMAIN abandoned' : Settled(abandoned'[k], Waiting', n)
      BY <2>2, <2>3, <2>4
    <2>6. CASE Submit
      BY <1>1, <2>6
    <2>7. Settled(summed', Waiting', n)
      BY <1>26, <1>27, <1>m, <2>1
    <2> QED BY <1>2, <2>2, <2>5, <2>6, <2>7 DEF ListsSettled
  <1>30. CASE NoteInterruption
    <2> DEFINE r == IF partial THEN <<Reply(<<>>)>> ELSE <<>>
               o == <<Note(0)>>
    <2>1. /\ history' = history \o r \o o
          /\ UNCHANGED <<prompt, drained, queue, msgs, abandoned>>
      BY <1>30 DEF NoteInterruption
    <2>2. /\ r \in Histories /\ Ordered(r) /\ UserRefs(r) = {}
          /\ o \in Histories /\ Ordered(o) /\ UserRefs(o) = {}
      <3>1. Reply(<<>>) \in Message /\ Reply(<<>>).role # "user"
            /\ Note(0) \in Message /\ Note(0).role # "user"
        BY Spoken DEF Reply, Note
      <3> QED BY <3>1, Single, Empty
    <2> HIDE DEF r, o
    <2>3. history \o r \in Histories /\ Settled(history \o r, w, n)
      BY <1>h, <1>s, <2>2, Joined
    <2>4. Settled(history \o r \o o, w, n)
      BY <2>2, <2>3, Joined
    <2> QED BY <1>1, <1>3, <1>4, <1>s, <2>1, <2>4
  <1>31. CASE Finalize
    <2>1. /\ abandoned # <<>> /\ history' = Sanitize(Head(abandoned)) /\ abandoned' = Tail(abandoned)
          /\ UNCHANGED <<prompt, drained, queue, msgs>>
      BY <1>31 DEF Finalize
    <2>2. Head(abandoned) \in Histories /\ Settled(Head(abandoned), w, n)
          /\ \A k \in DOMAIN abandoned' : k + 1 \in DOMAIN abandoned /\ abandoned'[k] = abandoned[k + 1]
      BY <1>s, <2>1 DEF TurnType
    <2>3. Settled(history', w, n)
      BY <2>1, <2>2, Sanitized, SettledLike
    <2>4. \A k \in DOMAIN abandoned' : Settled(abandoned'[k], w, n)
      BY <1>s, <2>2
    <2>5. CASE Submit
      BY <1>1, <2>5
    <2> QED BY <1>2, <1>4, <1>m, <1>s, <2>1, <2>3, <2>4, <2>5 DEF ListsSettled
  <1>32. ASSUME NEW k \in 0 .. (MaxUsers - 1), Rewind(k) PROVE ListsSettled'
    <2>1. /\ history' = RewindHistory(history, Len(visible), k)
          /\ UNCHANGED <<prompt, drained, queue, msgs, abandoned>>
      BY <1>32 DEF Rewind
    <2>2. Part(history', history)
      BY <1>h, <2>1, RewoundIs
    <2>3. Settled(history', w, n)
      BY <1>8, <1>h, <2>2, RangeUsers DEF Part
    <2> QED BY <1>1, <1>3, <1>4, <1>s, <2>1, <2>3
  <1> QED
    BY <1>1, <1>5, <1>6, <1>7, <1>9, <1>11, <1>13, <1>14, <1>16, <1>17, <1>18, <1>20, <1>21,
       <1>22, <1>23, <1>25, <1>28, <1>29, <1>30, <1>31, <1>32
    DEF Next, Work, Preparing, Requesting, Executing, Ending

\* Once mixed, always mixed.
LEMMA MixedStays == TurnType /\ [Next]_vars /\ mixed => mixed'
  <1> SUFFICES ASSUME TurnType, [Next]_vars, mixed PROVE mixed'
    OBVIOUS
  <1>1. CASE Collect
    BY <1>1 DEF Collect
  <1>2. CASE UNCHANGED mixed
    BY <1>2
  <1>3. CASE Submit \/ Notify \/ Begin \/ PrepCompact \/ PrepCompacted \/ Prepare
             \/ UNCHANGED vars
    BY <1>2, <1>3 DEF Submit, Notify, Begin, PrepCompact, PrepCompacted, Prepare, vars, ghosts
  <1>4. CASE Requesting
    BY <1>2, <1>4 DEF Requesting, DrainNext, DrainDone, Answer, NextMessages, EndOfTurn,
                      RequestFails, ErrorShown, CallTools, ghosts
  <1>5. CASE StartBatch \/ Record \/ RecordLast \/ RecordAndCompact \/ CompactSucceeds
             \/ Resync \/ AfterCompaction
             \/ \E i \in DOMAIN calls : ToolReturns(i)
    BY <1>2, <1>5 DEF StartBatch, Record, RecordLast, RecordAndCompact, CompactSucceeds,
                      Resync, AfterCompaction, ToolReturns, ghosts
  <1>6. CASE Ending \/ StopInside \/ StopOutside \/ StopHandler \/ Finalize
             \/ \E k \in 0 .. (MaxUsers - 1) : Rewind(k)
    BY <1>2, <1>6 DEF Ending, Close, NoteInterruption, StopInside, StopOutside, StopHandler,
                      Finalize, Rewind, ghosts
  <1> QED BY <1>1, <1>3, <1>4, <1>5, <1>6 DEF Next, Work, Preparing, Executing

\* The inductive invariant.
OrderInv ==
  /\ TurnType /\ PhaseFits /\ TailFits /\ SummedFits /\ QueuesOrdered
  /\ ~ mixed => ListsSettled

\* The invariant holds at the start.
LEMMA OrderInvInit == Init => OrderInv
  <1> SUFFICES ASSUME Init PROVE OrderInv
    OBVIOUS
  <1>1. TurnType
    BY TurnTypeInit
  <1>2. PhaseFits /\ TailFits /\ SummedFits
    BY DEF Init, PhaseFits, TailFits, SummedFits
  <1>3. QueuesOrdered
    BY Empty DEF Init, QueuesOrdered, Flow, Before
  <1>4. ListsSettled
    BY Empty DEF Init, ListsSettled, Settled
  <1> QED BY <1>1, <1>2, <1>3, <1>4 DEF OrderInv

\* Every step keeps the invariant.
LEMMA OrderInvStep == OrderInv /\ [Next]_vars => OrderInv'
  <1> SUFFICES ASSUME OrderInv, [Next]_vars PROVE OrderInv'
    OBVIOUS
  <1>1. TurnType /\ PhaseFits /\ TailFits /\ SummedFits /\ QueuesOrdered
        /\ (~ mixed => ListsSettled)
    BY DEF OrderInv
  <1>2. TurnType' /\ PhaseFits' /\ TailFits' /\ SummedFits' /\ QueuesOrdered'
    BY <1>1, TurnTypeStep, PhaseFitsStep, TailFitsStep, SummedFitsStep, QueuesOrderedStep
  <1>3. ~ mixed' => ListsSettled'
    BY <1>1, MixedStays, ListsSettledStep
  <1> QED BY <1>2, <1>3 DEF OrderInv

\* No request holds a user message twice or before an earlier one: however messages
\* are queued, drained, compacted or brought back by a finalizer, except into a
\* summary made meanwhile.
THEOREM UsersInOrderHolds == Spec => []UsersInOrder
  <1>1. OrderInv => UsersInOrder
    BY DEF OrderInv, UsersInOrder, ListsSettled, Settled
  <1> QED BY <1>1, OrderInvInit, OrderInvStep, PTL DEF Spec

-----------------------------------------------------------------------------
(* What loses a user message                                               *)

\* The two lists stay in step until the turn has closed.
ClosesInStep == phase = "closing" /\ ~ overwritten => history = msgs

\* Every step keeps ClosesInStep.
LEMMA ClosesInStepStep ==
  InStep /\ ClosesInStep /\ [Next]_vars => ClosesInStep'
  <1> SUFFICES ASSUME InStep, ClosesInStep, [Next]_vars, phase' = "closing", ~ overwritten'
               PROVE  history' = msgs'
    BY DEF ClosesInStep
  <1> USE DEF lists, step, control, ghosts
  <1>1. CASE Submit \/ Notify \/ UNCHANGED vars
    BY <1>1 DEF Submit, Notify, vars, ClosesInStep
  <1>2. CASE EndOfTurn \/ ErrorShown
    BY <1>2 DEF EndOfTurn, ErrorShown, InStep, InLoop, Yielded, Sent
  <1>3. CASE Finalize
    BY <1>3 DEF Finalize
  <1>4. CASE Begin \/ PrepCompact \/ Collect \/ PrepCompacted
    BY <1>4 DEF Begin, PrepCompact, Collect, PrepCompacted
  <1>5. CASE Prepare \/ NextMessages \/ RecordLast \/ AfterCompaction
    BY <1>5 DEF Prepare, NextMessages, RecordLast, AfterCompaction, LoopTop
  <1>6. CASE DrainNext \/ DrainDone \/ Answer \/ RequestFails
    BY <1>6 DEF DrainNext, DrainDone, Answer, RequestFails
  <1>7. CASE \E n \in 1 .. MaxCalls : CallTools(n)
    BY <1>7 DEF CallTools
  <1>8. CASE StartBatch \/ Record \/ RecordAndCompact \/ CompactSucceeds \/ Resync
    BY <1>8 DEF StartBatch, Record, RecordAndCompact, CompactSucceeds, Resync
  <1>9. CASE \E i \in DOMAIN calls : ToolReturns(i)
    BY <1>9 DEF ToolReturns
  <1>10. CASE Close \/ NoteInterruption \/ StopInside \/ StopOutside \/ StopHandler
    BY <1>10 DEF Close, NoteInterruption, StopInside, StopOutside, StopHandler, Unwound
  <1>11. CASE \E k \in 0 .. (MaxUsers - 1) : Rewind(k)
    BY <1>11 DEF Rewind
  <1> QED
    BY <1>1, <1>2, <1>3, <1>4, <1>5, <1>6, <1>7, <1>8, <1>9, <1>10, <1>11
    DEF Next, Work, Preparing, Requesting, Executing, Ending

\* Where a user message can be, written out.
LEMMA HeldIs ==
  Held = UserRefs(queue) \cup UserRefs(drained) \cup UserRefs(prompt)
           \cup UserRefs(history) \cup UserRefs(Sent)
  BY DEF Held

\* The top of the loop loses no user message.
LEMMA LoopTopHolds ==
  ASSUME NEW h \in Histories, NEW ms \in Histories, LoopTop(h, ms),
         queue \in Histories, drained = <<>>
  PROVE  UserRefs(h) \cup UserRefs(ms) \cup UserRefs(queue) \subseteq
           UserRefs(queue') \cup UserRefs(drained') \cup UserRefs(history') \cup UserRefs(msgs')
  <1>1. CASE queue = <<>>
    BY <1>1 DEF LoopTop
  <1>2. CASE queue # <<>>
    <2>1. /\ history' = Append(h, Head(queue)) /\ msgs' = Append(ms, Head(queue))
          /\ drained' = Tail(queue)
      BY <1>2 DEF LoopTop
    <2>2. Head(queue) \in Message
          /\ UserRefs(queue) = UserRefs(<<Head(queue)>>) \cup UserRefs(Tail(queue))
      BY <1>2, FirstOut
    <2>3. /\ UserRefs(history') = UserRefs(h) \cup UserRefs(<<Head(queue)>>)
          /\ UserRefs(msgs') = UserRefs(ms) \cup UserRefs(<<Head(queue)>>)
      BY <2>1, <2>2, Added
    <2> QED BY <2>1, <2>2, <2>3
  <1> QED BY <1>1, <1>2

\* What KeptUnlessStopped says of a step.
LossExplained ==
  \/ Held \subseteq Held' \cup Repeated
  \/ seen'.stops # seen.stops
  \/ overwritten \/ overwritten'
  \/ Len(visible') < Len(visible)
  \/ Len(RealUsers(history)) > UserBudget

\* Every step that loses a user message is one of those that may.
LEMMA KeptStep ==
  TurnType /\ PhaseFits /\ TailFits /\ SummedFits /\ InStep /\ ClosesInStep /\ [Next]_vars
    => LossExplained
  <1> SUFFICES ASSUME TurnType, PhaseFits, TailFits, SummedFits, InStep, ClosesInStep,
                      [Next]_vars,
                      seen'.stops = seen.stops, ~ overwritten, ~ overwritten',
                      ~ (Len(visible') < Len(visible)),
                      ~ (Len(RealUsers(history)) > UserBudget)
               PROVE  Held \subseteq Held' \cup Repeated
    BY DEF LossExplained
  <1> USE DEF lists, step, control, ghosts
  <1>0. /\ history \in Histories /\ msgs \in Histories /\ queue \in Histories
        /\ drained \in Histories /\ prompt \in Histories /\ summed \in Histories
    BY DEF TurnType
  <1>h. Held' = UserRefs(queue') \cup UserRefs(drained') \cup UserRefs(prompt')
                  \cup UserRefs(history') \cup UserRefs(Sent')
    BY DEF Held
  <1>s. phase \notin {"summarized", "compacted"} => Sent = msgs
    BY DEF Sent
  <1>t. phase' \notin {"summarized", "compacted"} => Sent' = msgs'
    BY DEF Sent
  <1>e. UserRefs(<<>>) = {}
    BY Empty
  <1>1. CASE Submit \/ Notify
    <2>1. seen.users + 1 \in Nat /\ seen.notes + 1 \in Nat
      BY TurnAssumption DEF TurnType, Counters
    <2>2. PICK m \in Message : queue' = Append(queue, m)
      BY <1>1, <2>1, Spoken DEF Submit, Notify
    <2>3. UserRefs(queue) \subseteq UserRefs(queue')
      <3>1. UserRefs(Append(queue, m)) = UserRefs(queue) \cup UserRefs(<<m>>)
        BY ONLY <1>0, Added, m \in Message
      <3> QED BY ONLY <2>2, <3>1
    <2>4. UNCHANGED <<drained, prompt, history, Sent>>
      BY <1>1 DEF Submit, Notify, Sent, control
    <2> QED BY <1>h, <2>3, <2>4, HeldIs
  <1>2. CASE Begin
    <2>1. /\ prompt' = <<Head(queue)>> /\ queue' = Tail(queue) /\ prompt = <<>> /\ queue # <<>>
          /\ UNCHANGED <<drained, history, Sent>>
      BY <1>2, <1>s, <1>t DEF Begin, PhaseFits
    <2>2. UserRefs(queue) = UserRefs(prompt') \cup UserRefs(queue')
      BY <1>0, <2>1, FirstOut
    <2> QED BY <1>e, <1>h, <2>1, <2>2, HeldIs
  <1>3. ASSUME UNCHANGED <<queue, drained, prompt, history, Sent>> PROVE Held \subseteq Held'
    BY <1>h, <1>3, HeldIs
  <1>4. CASE PrepCompact \/ Collect \/ DrainDone \/ EndOfTurn \/ RequestFails \/ ErrorShown
             \/ StartBatch \/ StopHandler \/ UNCHANGED vars
    <2>1. UNCHANGED <<queue, drained, prompt, history, Sent>>
      BY <1>4, <1>s, <1>t DEF PrepCompact, Collect, DrainDone, EndOfTurn, RequestFails,
                              ErrorShown, StartBatch, StopHandler, vars, Sent
    <2> QED BY <1>3, <2>1
  <1>5. Len(RealUsers(history)) <= UserBudget
    <2>1. RealUsers(history) \in Histories
      BY <1>0, RealUsersAre DEF Part
    <2>2. Len(RealUsers(history)) \in Nat
      BY <2>1 DEF Histories
    <2> QED BY <2>2, HistoryAssumption
  <1>6. ASSUME phase \in {"prepCollected", "collected"}
        PROVE  summed = Compacted(history, tail)
               /\ UserRefs(history) \subseteq UserRefs(summed) \cup Repeated
    <2>1. IsTail(tail, history) /\ summed = Compacted(history, tail)
      BY <1>6 DEF TailFits, SummedFits
    <2>2. UserRefs(history) \subseteq UserRefs(summed) \cup RepeatedIn(history, tail)
      BY <1>0, <1>5, <2>1, CompactedIs
    <2>3. RepeatedIn(history, tail) = Repeated
      BY DEF RepeatedIn, Repeated
    <2> QED BY <2>1, <2>2, <2>3
  <1>7. CASE PrepCompacted
    <2>1. /\ \/ history' = history
             \/ phase = "prepCollected" /\ history' = summed
          /\ UNCHANGED <<queue, drained, prompt, Sent>>
      BY <1>7, <1>s, <1>t DEF PrepCompacted
    <2> QED BY <1>6, <1>h, <2>1, HeldIs
  <1>8. ASSUME NEW h \in Histories, NEW ms \in Histories, LoopTop(h, ms), phase # "drain",
               UserRefs(prompt) \cup UserRefs(history) \cup UserRefs(Sent)
                 \subseteq UserRefs(h) \cup UserRefs(ms)
        PROVE  Held \subseteq Held'
    <2>1. drained = <<>>
      BY <1>8 DEF PhaseFits
    <2>2. UserRefs(h) \cup UserRefs(ms) \cup UserRefs(queue) \subseteq
            UserRefs(queue') \cup UserRefs(drained') \cup UserRefs(history') \cup UserRefs(msgs')
      BY <1>0, <1>8, <2>1, LoopTopHolds
    <2>3. Held = UserRefs(queue) \cup UserRefs(prompt) \cup UserRefs(history) \cup UserRefs(Sent)
      BY <1>e, <2>1, HeldIs
    <2>4. Sent' = msgs'
      BY <1>8, <1>t DEF LoopTop
    <2> QED BY ONLY <1>8, <1>h, <2>2, <2>3, <2>4
  <1>9. CASE Prepare
    <2> DEFINE s == Sanitize(history)
               ms == s \o prompt
    <2>1. LoopTop(ms, ms) /\ phase # "drain" /\ Sent = <<>>
      BY <1>9, <1>s DEF Prepare, PhaseFits
    <2>2. s \in Histories /\ UserRefs(s) = UserRefs(history)
      BY <1>0, Sanitized
    <2> HIDE DEF s
    <2>3. ms \in Histories /\ UserRefs(ms) = UserRefs(s) \cup UserRefs(prompt)
      BY <1>0, <2>2, Concatenated
    <2> HIDE DEF ms
    <2>4. UserRefs(prompt) \cup UserRefs(history) \cup UserRefs(Sent)
            \subseteq UserRefs(ms) \cup UserRefs(ms)
      BY ONLY <1>e, <2>1, <2>2, <2>3
    <2> QED BY <1>8, <2>1, <2>3, <2>4
  <1>10. CASE DrainNext
    <2>1. /\ drained # <<>> /\ drained' = Tail(drained) /\ history' = Append(history, Head(drained))
          /\ msgs' = Append(msgs, Head(drained)) /\ UNCHANGED <<queue, prompt>>
          /\ Sent = msgs /\ Sent' = msgs'
      BY <1>10, <1>s, <1>t DEF DrainNext
    <2>2. Head(drained) \in Message
          /\ UserRefs(drained) = UserRefs(<<Head(drained)>>) \cup UserRefs(Tail(drained))
      BY <1>0, <2>1, FirstOut
    <2>3. /\ UserRefs(history') = UserRefs(history) \cup UserRefs(<<Head(drained)>>)
          /\ UserRefs(msgs') = UserRefs(msgs) \cup UserRefs(<<Head(drained)>>)
      BY <1>0, <2>1, <2>2, Added
    <2> QED BY <1>h, <2>1, <2>2, <2>3, HeldIs
  <1>11. ASSUME NEW m \in Message
         PROVE  /\ Append(history, m) \in Histories /\ Append(msgs, m) \in Histories
                /\ UserRefs(history) \subseteq UserRefs(Append(history, m))
                /\ UserRefs(msgs) \subseteq UserRefs(Append(msgs, m))
    <2>1. Append(history, m) \in Histories
          /\ UserRefs(Append(history, m)) = UserRefs(history) \cup UserRefs(<<m>>)
      BY <1>0, Added
    <2>2. Append(msgs, m) \in Histories
          /\ UserRefs(Append(msgs, m)) = UserRefs(msgs) \cup UserRefs(<<m>>)
      BY <1>0, Added
    <2> QED BY <2>1, <2>2
  <1>12. ASSUME NEW m \in Message, history' = Append(history, m), msgs' = Append(msgs, m),
                Sent = msgs, Sent' = msgs', UNCHANGED <<queue, drained, prompt>>
         PROVE  Held \subseteq Held'
    BY <1>h, <1>11, <1>12, HeldIs
  <1>13. CASE Answer
    <2>1. Reply(<<>>) \in Message
      BY Spoken
    <2> QED BY <1>12, <1>13, <1>s, <1>t, <2>1 DEF Answer
  <1>14. CASE NextMessages \/ AfterCompaction
    <2>1. LoopTop(history, Sent) /\ phase # "drain" /\ prompt = <<>>
      BY <1>14, <1>s DEF NextMessages, AfterCompaction, PhaseFits
    <2>2. Sent \in Histories
      BY <1>0 DEF Sent
    <2> QED BY <1>0, <1>8, <1>e, <2>1, <2>2
  <1>15. ASSUME NEW k \in 1 .. MaxCalls, CallTools(k) PROVE Held \subseteq Held'
    <2>1. PICK m \in Message : history' = Append(history, m) /\ msgs' = Append(msgs, m)
      <3>1. seen.ids \in Nat /\ k \in Nat
        BY TurnAssumption DEF TurnType, Counters
      <3> DEFINE id(i) == IF FreshIds THEN seen.ids + i ELSE i
                 ids == [i \in 1 .. k |-> id(i)]
      <3>2. \A i \in 1 .. k : id(i) \in Nat
        BY <3>1
      <3>3. history' = Append(history, Reply(ids)) /\ msgs' = Append(msgs, Reply(ids))
        BY <1>15 DEF CallTools
      <3> HIDE DEF id
      <3>4. ids \in Seq(Nat)
        BY <3>1, <3>2
      <3> HIDE DEF ids
      <3> QED BY <3>3, <3>4, Spoken
    <2>2. UNCHANGED <<queue, drained, prompt>> /\ Sent = msgs /\ Sent' = msgs'
      BY <1>15, <1>s, <1>t DEF CallTools
    <2> QED BY <1>12, <2>1, <2>2
  <1>16. CASE \E i \in DOMAIN calls : ToolReturns(i)
    BY <1>3, <1>16, <1>s, <1>t DEF ToolReturns
  <1>17. ASSUME answered + 1 <= Len(calls) PROVE Result \in Message
    <2>1. answered + 1 \in 1 .. Len(calls)
      BY <1>17 DEF TurnType, ToolCalls
    <2>2. calls[answered + 1] \in [id : Nat, safe : BOOLEAN]
      BY <2>1, ElementOfSeq DEF TurnType, ToolCalls
    <2>3. calls[answered + 1].id \in Nat
      BY <2>2
    <2> QED BY <2>3, Spoken DEF Result
  <1>18. CASE Record
    <2>1. answered + 1 <= Len(calls)
      BY <1>18 DEF Record, TurnType, ToolCalls
    <2> QED BY <1>12, <1>17, <1>18, <1>s, <1>t, <2>1 DEF Record
  <1>19. CASE RecordLast
    <2>1. answered + 1 <= Len(calls)
      BY <1>19 DEF RecordLast, TurnType, ToolCalls
    <2>2. LoopTop(Append(history, Result), Append(msgs, Result)) /\ phase # "drain" /\ prompt = <<>>
          /\ Sent = msgs
      BY <1>19, <1>s DEF RecordLast, PhaseFits
    <2> QED BY <1>8, <1>11, <1>17, <1>e, <2>1, <2>2
  <1>20. CASE RecordAndCompact
    <2>1. answered + 1 <= Len(calls)
      BY <1>20 DEF RecordAndCompact, TurnType, ToolCalls
    <2>2. history = msgs /\ Sent = msgs /\ Sent' = msgs'
      BY <1>20, <1>s, <1>t DEF RecordAndCompact, InStep, InLoop, Yielded
    <2> QED BY <1>12, <1>17, <1>20, <2>1, <2>2 DEF RecordAndCompact
  <1>21. CASE CompactSucceeds
    <2>1. /\ history' = summed /\ Sent' = Sanitize(summed) /\ phase = "collected"
          /\ UNCHANGED <<prompt, drained, queue>>
      BY <1>21 DEF CompactSucceeds, Sent
    <2>2. history = Sent
      BY <2>1 DEF InStep, InLoop
    <2> QED BY <1>6, <1>h, <2>1, <2>2, HeldIs
  <1>28. CASE Resync
    <2>1. /\ history' = summed /\ Sent' = summed /\ Sent = summed /\ summed = Sanitize(history)
          /\ UNCHANGED <<prompt, drained, queue>>
      BY <1>28 DEF Resync, Sent, SummedFits
    <2>2. UserRefs(summed) = UserRefs(history)
      BY <1>0, <2>1, Sanitized
    <2> QED BY <1>h, <2>1, <2>2, HeldIs
  <1>22. CASE Close
    <2>1. /\ history' = Sanitize(msgs) /\ msgs' = <<>> /\ history = msgs
          /\ Sent = msgs /\ Sent' = msgs' /\ UNCHANGED <<prompt, drained, queue>>
      BY <1>22, <1>s, <1>t DEF Close, ClosesInStep
    <2>2. UserRefs(Sanitize(msgs)) = UserRefs(msgs)
      BY <1>0, Sanitized
    <2> QED BY <1>h, <2>1, <2>2, HeldIs
  <1>23. seen.stops \in Nat
    BY DEF TurnType, Counters
  <1>24. CASE StopInside \/ StopOutside
    <2>1. seen'.stops = seen.stops + 1 \/ seen'.stops = seen.stops + 2
      BY <1>24 DEF StopInside, StopOutside, Stop, Counted, TurnType, Counters
    <2> QED BY <1>23, <2>1
  <1>25. CASE NoteInterruption
    <2> DEFINE r == IF partial THEN <<Reply(<<>>)>> ELSE <<>>
               o == <<Note(0)>>
    <2>1. /\ history' = history \o r \o o
          /\ UNCHANGED <<prompt, drained, queue, Sent>>
      BY <1>25, <1>s, <1>t DEF NoteInterruption
    <2>2. r \in Histories /\ o \in Histories
      BY Spoken, Single, Empty
    <2> HIDE DEF r, o
    <2>3. history \o r \in Histories /\ UserRefs(history) \subseteq UserRefs(history \o r)
      BY <1>0, <2>2, Concatenated
    <2>4. UserRefs(history \o r) \subseteq UserRefs(history \o r \o o)
      BY <2>2, <2>3, Concatenated
    <2> QED BY <1>h, <2>1, <2>3, <2>4, HeldIs
  <1>26. CASE Finalize
    BY <1>26 DEF Finalize
  <1>27. ASSUME NEW k \in 0 .. (MaxUsers - 1), Rewind(k) PROVE Held \subseteq Held'
    <2>1. k < Len(visible) /\ visible' = SubSeq(visible, 1, k) /\ k \in Nat
      BY <1>27 DEF Rewind
    <2>2. Len(visible') = k
      BY <2>1 DEF TurnType
    <2> QED BY <2>1, <2>2
  <1> QED
    BY <1>1, <1>2, <1>4, <1>7, <1>9, <1>10, <1>13, <1>14, <1>15, <1>16, <1>18, <1>19, <1>20,
       <1>21, <1>22, <1>24, <1>25, <1>26, <1>27, <1>28
    DEF Next, Work, Preparing, Requesting, Executing, Ending

\* A user message is lost only by a stop, a finalizer, a rewind, or a compaction
\* with more real users than its budget or with its text in the tail.
THEOREM KeptUnlessStoppedHolds == Spec => KeptUnlessStopped
  <1>1. Init => InStep /\ ClosesInStep
    BY DEF Init, InStep, InLoop, Yielded, ClosesInStep
  <1>2. OrderInv /\ InStep /\ ClosesInStep /\ [Next]_vars => [LossExplained]_vars
    BY KeptStep DEF OrderInv
  <1> QED BY <1>1, <1>2, OrderInvInit, OrderInvStep, InStepStep, ClosesInStepStep, PTL
          DEF Spec, KeptUnlessStopped, LossExplained

-----------------------------------------------------------------------------
(* The rewind cut                                                          *)

\* A filter returns as many messages as pass.
LEMMA KeptLength ==
  ASSUME NEW h \in Histories, NEW K
  PROVE  LET f == FlattenSeq([j \in DOMAIN h |-> IF h[j] \in K THEN <<h[j]>> ELSE <<>>])
         IN Len(f) = Cardinality({j \in DOMAIN h : h[j] \in K})
  <1> DEFINE e == [j \in DOMAIN h |-> IF h[j] \in K THEN <<h[j]>> ELSE <<>>]
             f == FlattenSeq(e)
             C(n) == {j \in 1 .. n : h[j] \in K}
  <1>1. DOMAIN h = 1 .. Len(h) /\ Len(h) \in Nat /\ Len(e) = Len(h)
        /\ \A j \in 1 .. Len(h) : h[j] \in Message
    BY DEF Histories
  <1>2. \A j \in 1 .. Len(h) : e[j] = IF h[j] \in K THEN <<h[j]>> ELSE <<>>
    BY <1>1
  <1>3. {j \in DOMAIN h : h[j] \in K} = C(Len(h))
    BY <1>1
  <1>4. C(0) = {} /\ IsFiniteSet(C(0)) /\ Cardinality(C(0)) = 0
    BY FS_EmptySet
  <1>5. CASE Len(h) = 0
    <2>1. f = <<>>
      BY <1>1, <1>5, EmptySeq DEF FlattenSeq, Histories
    <2>2. Len(f) = 0
      BY <2>1
    <2> QED BY <1>3, <1>4, <1>5, <2>2
  <1>6. CASE Len(h) # 0
    <2>1. PICK g : IsJoin(g, e, Len(h)) /\ f = g[Len(h)]
      BY <1>1, <1>6, FlattenIsJoin
    <2> HIDE DEF f, e
    <2> DEFINE Good(n) == g[n] \in Histories /\ IsFiniteSet(C(n)) /\ Len(g[n]) = Cardinality(C(n))
               S == {n \in Nat : 0 < n /\ n <= Len(h) => Good(n)}
    <2>2. 0 \in S
      OBVIOUS
    <2>3. ASSUME NEW n \in Nat, n \in S PROVE n + 1 \in S
      <3>1. SUFFICES ASSUME n + 1 <= Len(h) PROVE Good(n + 1)
        OBVIOUS
      <3>2. n + 1 \in 1 .. Len(h)
        BY <1>1, <3>1
      <3>3. e[n + 1] = (IF h[n + 1] \in K THEN <<h[n + 1]>> ELSE <<>>) /\ h[n + 1] \in Message
        BY <1>1, <1>2, <3>2
      <3>4. e[n + 1] \in Histories /\ Len(e[n + 1]) = IF h[n + 1] \in K THEN 1 ELSE 0
        <4>1. CASE h[n + 1] \in K
          <5> DEFINE m == h[n + 1]
          <5>1. m \in Message /\ e[n + 1] = <<m>>
            BY <3>3, <4>1
          <5> HIDE DEF m
          <5>2. <<m>> \in Histories /\ Len(<<m>>) = 1
            BY <5>1 DEF Histories
          <5> QED BY <4>1, <5>1, <5>2
        <4>2. CASE h[n + 1] \notin K
          <5>1. e[n + 1] = <<>> /\ <<>> \in Histories /\ Len(<<>>) = 0
            BY <3>3, <4>2, Empty
          <5> QED BY <4>2, <5>1
        <4> QED BY <4>1, <4>2
      <3>5. IsFiniteSet(C(n)) /\ Cardinality(C(n)) \in Nat
        <4>1. IsFiniteSet(1 .. n)
          BY FS_Interval
        <4>2. C(n) \in SUBSET (1 .. n)
          OBVIOUS
        <4> HIDE DEF C
        <4> QED BY <4>1, <4>2, FS_Subset, FS_CardinalityType
      <3>6. C(n + 1) = IF h[n + 1] \in K THEN C(n) \cup {n + 1} ELSE C(n)
        OBVIOUS
      <3>7. n + 1 \notin C(n)
        OBVIOUS
      <3> HIDE DEF C
      <3>8. IsFiniteSet(C(n + 1))
            /\ Cardinality(C(n + 1)) = Cardinality(C(n)) + IF h[n + 1] \in K THEN 1 ELSE 0
        <4>1. IsFiniteSet(C(n) \cup {n + 1}) /\ Cardinality(C(n) \cup {n + 1}) = Cardinality(C(n)) + 1
          BY <3>5, <3>7, FS_AddElement
        <4> QED BY <3>5, <3>6, <4>1
      <3>9. g[n + 1] = IF n + 1 = 1 THEN e[n + 1] ELSE g[(n + 1) - 1] \o e[n + 1]
        BY ONLY <2>1, <3>2 DEF IsJoin
      <3>10. CASE n = 0
        <4>1. g[n + 1] = e[n + 1] /\ Cardinality(C(n)) = 0
          BY <1>4, <3>9, <3>10
        <4> QED BY <3>4, <3>8, <4>1
      <3>11. CASE n # 0
        <4>1. Good(n)
          BY <1>1, <2>3, <3>1, <3>11
        <4>2. g[n + 1] = g[n] \o e[n + 1]
          <5>1. n + 1 # 1 /\ (n + 1) - 1 = n
            BY <3>11
          <5> QED BY ONLY <3>9, <5>1
        <4> DEFINE a == g[n]
                   b == e[n + 1]
        <4>3. a \in Histories /\ b \in Histories /\ g[n + 1] = a \o b
          BY <3>4, <4>1, <4>2
        <4> HIDE DEF a, b
        <4>4. g[n + 1] \in Histories /\ Len(g[n + 1]) = Len(a) + Len(b)
          BY <4>3 DEF Histories
        <4>5. Len(a) = Cardinality(C(n)) /\ Len(b) = IF h[n + 1] \in K THEN 1 ELSE 0
          BY <3>4, <4>1 DEF a, b
        <4> QED BY <3>8, <4>4, <4>5
      <3> QED BY <3>10, <3>11
    <2> HIDE DEF S
    <2>4. Len(h) \in S
      BY <1>1, <2>2, <2>3, SetInduction
    <2>5. Good(Len(h))
      <3> HIDE DEF Good
      <3> QED BY <1>1, <1>6, <2>4 DEF S
    <2>6. Len(f) = Cardinality(C(Len(h)))
      <3> HIDE DEF C
      <3> QED BY <2>1, <2>5
    <2> QED BY <1>3, <2>6 DEF f, e
  <1> QED BY <1>5, <1>6

\* The positions of the user turns.
Turns(h) == {j \in DOMAIN h : IsRealUser(h[j])}

\* RealUsers counts the positions of the user turns.
LEMMA TurnsCounted ==
  ASSUME NEW h \in Histories
  PROVE  IsFiniteSet(Turns(h)) /\ Len(RealUsers(h)) = Cardinality(Turns(h))
  <1> DEFINE K == {m \in Message : IsRealUser(m)}
             e == [j \in DOMAIN h |-> IF h[j] \in K THEN <<h[j]>> ELSE <<>>]
  <1>1. \A j \in DOMAIN h : h[j] \in Message
    BY DEF Histories
  <1>2. e = [j \in DOMAIN h |-> IF IsRealUser(h[j]) THEN <<h[j]>> ELSE <<>>]
    BY <1>1
  <1>3. RealUsers(h) = FlattenSeq(e)
    BY <1>2 DEF RealUsers, Only
  <1>4. {j \in DOMAIN h : h[j] \in K} = Turns(h)
    BY <1>1 DEF Turns
  <1> HIDE DEF K
  <1>5. Len(FlattenSeq(e)) = Cardinality(Turns(h))
    BY <1>4, KeptLength
  <1>6. IsFiniteSet(DOMAIN h)
    <2>1. DOMAIN h = 1 .. Len(h) /\ Len(h) \in Int /\ 1 \in Int
      BY DEF Histories
    <2> QED BY <2>1, FS_Interval
  <1>7. Turns(h) \in SUBSET (DOMAIN h)
    BY DEF Turns
  <1> QED BY <1>3, <1>5, <1>6, <1>7, FS_Subset

\* Each number below its cardinality is the rank of a member of a finite set.
LEMMA Ranked ==
  ASSUME NEW S \in SUBSET Nat, NEW bound \in Nat, \A i \in S : i < bound,
         NEW m \in Nat, m < Cardinality(S)
  PROVE  \E j \in S : Cardinality({i \in S : i < j}) = m
  <1> DEFINE B(n) == {i \in S : i < n}
             N == {n \in Nat : ~ (Cardinality(B(n)) <= m)}
  <1>0. IsFiniteSet(S) /\ Cardinality(S) \in Nat
    <2>1. \A i \in S : i <= bound
      OBVIOUS
    <2> QED BY <2>1, FS_BoundedSetOfNaturals, FS_CardinalityType
  <1>1. ASSUME NEW n \in Nat PROVE IsFiniteSet(B(n)) /\ Cardinality(B(n)) \in Nat
    <2>1. B(n) \in SUBSET S
      OBVIOUS
    <2> HIDE DEF B
    <2> QED BY <1>0, <2>1, FS_Subset, FS_CardinalityType
  <1>2. bound \in N
    <2>1. B(bound) = S
      OBVIOUS
    <2> HIDE DEF B
    <2> QED BY <1>0, <2>1
  <1>3. PICK n \in N : \A k \in N : n <= k
    <2> HIDE DEF B
    <2>1. N \in SUBSET Nat /\ N # {}
      BY <1>2
    <2> HIDE DEF N
    <2> QED BY <2>1, Least
  <1>4. n # 0
    <2>1. B(0) = {}
      <3>1. ASSUME NEW i \in S PROVE ~ (i < 0)
        <4>1. i \in Nat
          OBVIOUS
        <4> QED BY <4>1
      <3> QED BY <3>1
    <2> HIDE DEF B
    <2>2. Cardinality(B(0)) = 0
      BY <2>1, FS_EmptySet
    <2> QED BY <1>3, <2>2
  <1> DEFINE j == n - 1
  <1>5. j \in Nat /\ n = j + 1 /\ n \in Nat
    BY <1>3, <1>4
  <1>6. B(n) = IF j \in S THEN B(j) \cup {j} ELSE B(j)
    <2>1. ASSUME NEW i \in S PROVE i < n <=> (i < j \/ i = j)
      <3>1. i \in Nat
        OBVIOUS
      <3> QED BY <1>5, <3>1
    <2>2. ~ (j < j) /\ j < n
      BY <1>5
    <2> HIDE DEF j
    <2> QED BY <2>1, <2>2
  <1>7. j \notin B(j)
    BY <1>5
  <1> HIDE DEF B, j
  <1>8. Cardinality(B(n)) = Cardinality(B(j)) + IF j \in S THEN 1 ELSE 0
    <2>1. IsFiniteSet(B(j)) /\ Cardinality(B(j)) \in Nat
      BY <1>1, <1>5
    <2>2. Cardinality(B(j) \cup {j}) = Cardinality(B(j)) + 1
      BY <1>7, <2>1, FS_AddElement
    <2> QED BY <1>6, <2>1, <2>2
  <1>9. Cardinality(B(j)) <= m
    <2>1. j \notin N
      BY <1>3, <1>5
    <2> QED BY <1>5, <2>1
  <1>10. ~ (Cardinality(B(n)) <= m)
    BY <1>3
  <1>11. j \in S /\ Cardinality(B(j)) = m
    BY <1>1, <1>5, <1>8, <1>9, <1>10
  <1> QED BY <1>11 DEF B

Rising(v) == \A i, j \in DOMAIN v : i < j => v[i] < v[j]

\* When each real user message is a visible turn and both lists are in order, the
\* history cut at turn k speaks for none but the first k visible turns: behind the cut
\* are as many history turns as visible ones, so an earlier turn kept in error would
\* leave more of them than references to go round.
LEMMA RewindAligned ==
  ASSUME NEW h \in Histories, NEW v \in Seq(Nat), Rising(v), Ordered(h),
         \A m \in Range(RealUsers(h)) : m.role = "user" /\ m.ref \in Range(v),
         NEW k \in Nat, k < Len(v)
  PROVE  UserRefs(RewindHistory(h, Len(v), k)) \subseteq Range(SubSeq(v, 1, k))
  <1> DEFINE L == Len(v)
             real == Len(RealUsers(h))
             m == k + real - L
             turns == Turns(h)
             Below(j) == {i \in turns : i < j}
             cut == {j \in turns : Cardinality(Below(j)) = m}
  <1>0. L \in Nat /\ Len(h) \in Nat /\ DOMAIN h = 1 .. Len(h) /\ DOMAIN v = 1 .. L
    BY DEF Histories
  <1>1. IsFiniteSet(turns) /\ real = Cardinality(turns) /\ real \in Nat
    BY TurnsCounted, FS_CardinalityType
  <1>2. \A j \in turns : /\ j \in 1 .. Len(h) /\ h[j].role = "user" /\ h[j].ref \in Range(v)
    <2>1. ASSUME NEW j \in turns PROVE j \in DOMAIN h /\ h[j].role = "user" /\ h[j].ref \in Range(v)
      <3>1. j \in DOMAIN h /\ IsRealUser(h[j])
        BY DEF Turns
      <3>2. h[j] \in Range(RealUsers(h))
        BY <3>1, RealUsersAre DEF Range
      <3> QED BY <3>1, <3>2
    <2> QED BY <1>0, <2>1
  <1> HIDE DEF turns, real, L
  <1>3. SUFFICES ASSUME k # 0, ~ (k + real < L)
                 PROVE  UserRefs(TruncateToTurn(h, m)) \subseteq Range(SubSeq(v, 1, k))
    <2>1. CASE k = 0 \/ k + real < L
      BY <2>1, Empty DEF RewindHistory, real, L
    <2>2. CASE ~ (k = 0 \/ k + real < L)
      <3>1. RewindHistory(h, Len(v), k) = TruncateToTurn(h, m)
        BY <2>2 DEF RewindHistory, real, L
      <3> QED BY <2>2, <1>3, <3>1
    <2> QED BY <2>1, <2>2
  <1>4. m \in Nat /\ m < real /\ real - m = L - k
    BY <1>0, <1>1, <1>3 DEF L
  <1> HIDE DEF m
  <1>5. SUFFICES ASSUME m # 0
                 PROVE  UserRefs(TruncateToTurn(h, m)) \subseteq Range(SubSeq(v, 1, k))
    <2>1. CASE m = 0
      BY <2>1, Empty DEF TruncateToTurn
    <2> QED BY <1>5, <2>1
  <1>6. PICK j \in cut : j = CHOOSE i \in cut : TRUE
    <2>1. turns \in SUBSET Nat /\ Len(h) + 1 \in Nat /\ \A i \in turns : i < Len(h) + 1
      BY <1>0, <1>2
    <2>2. \E i \in turns : Cardinality({t \in turns : t < i}) = m
      BY <1>1, <1>4, <2>1, Ranked
    <2> QED BY <2>2
  <1>7. cut # {} /\ j \in turns /\ Cardinality(Below(j)) = m
    BY <1>6
  <1> DEFINE kept == SubSeq(h, 1, j - 1)
             K == {x \in Message : x.role # "note"}
             e == [i \in DOMAIN kept |-> IF kept[i] \in K THEN <<kept[i]>> ELSE <<>>]
  <1>8. j \in 1 .. Len(h) /\ kept \in Histories /\ Len(kept) = j - 1
        /\ \A i \in 1 .. (j - 1) : kept[i] = h[i]
    BY <1>0, <1>2, <1>7 DEF Histories
  <1>9. TruncateToTurn(h, m) = FlattenSeq(e)
    <2>1. e = [i \in DOMAIN kept |-> IF kept[i].role # "note" THEN <<kept[i]>> ELSE <<>>]
      <3>1. \A i \in DOMAIN kept : kept[i] \in Message
        BY <1>8 DEF Histories
      <3> HIDE DEF kept
      <3> QED BY <3>1
    <2>2. TruncateToTurn(h, m) =
            FlattenSeq([i \in DOMAIN kept |-> IF kept[i].role # "note" THEN <<kept[i]>> ELSE <<>>])
      <3>1. ~ (m = 0 \/ Cardinality(turns) < m)
        BY <1>1, <1>4, <1>5
      <3> QED BY <1>6, <1>7, <3>1 DEF TruncateToTurn, Only, turns, Turns
    <2> QED BY <2>1, <2>2
  <1>10. UserRefs(FlattenSeq(e)) \subseteq UserRefs(kept)
    <2> DEFINE s == FlattenSeq([i \in DOMAIN kept |-> IF kept[i] \in K THEN <<kept[i]>> ELSE <<>>])
    <2>1. s = FlattenSeq(e)
      OBVIOUS
    <2> HIDE DEF kept, K
    <2>2. UserRefs(s) \subseteq UserRefs(kept)
      <3>1. kept \in Histories
        BY <1>8
      <3> QED BY ONLY <3>1, Kept DEF s
    <2> HIDE DEF s, e
    <2> QED BY <2>1, <2>2
  <1>11. SUFFICES ASSUME NEW a \in UserRefs(kept) PROVE a \in Range(SubSeq(v, 1, k))
    BY <1>9, <1>10
  <1>12. PICK i \in 1 .. (j - 1) : h[i].role = "user" /\ h[i].ref = a
    <2>1. PICK i \in 1 .. Len(kept) : kept[i].role = "user" /\ kept[i].ref = a
      BY <1>8, UsersIn
    <2> QED BY <1>8, <2>1
  <1>13. i \in turns /\ i < j /\ i \in 1 .. Len(h)
    BY <1>0, <1>8, <1>12 DEF turns, Turns, IsRealUser
  <1>14. PICK p \in 1 .. L : v[p] = a
    BY <1>0, <1>2, <1>12, <1>13 DEF Range
  <1>15. SUFFICES ASSUME k < p PROVE FALSE
    <2>1. CASE p <= k
      <3>1. p \in 1 .. k /\ SubSeq(v, 1, k) \in Seq(Nat) /\ Len(SubSeq(v, 1, k)) = k
            /\ SubSeq(v, 1, k)[p] = v[p]
        BY <1>0, <1>14, <2>1 DEF L
      <3>2. DOMAIN SubSeq(v, 1, k) = 1 .. k
        BY <3>1
      <3> QED BY <1>14, <3>1, <3>2 DEF Range
    <2> QED BY <1>0, <1>14, <1>15, <2>1
  <1> DEFINE Q == turns \ Below(j)
             S == Q \cup {i}
             T == (k + 1) .. L
             f == [t \in S |-> CHOOSE q \in 1 .. L : v[q] = h[t].ref]
  <1>16. IsFiniteSet(S) /\ Cardinality(S) = (L - k) + 1
    <2>1. Below(j) \in SUBSET turns
      OBVIOUS
    <2>2. i \notin Q
      BY <1>13
    <2> HIDE DEF Below
    <2>3. IsFiniteSet(Q) /\ Cardinality(Q) = real - m
      <3>1. turns \cap Below(j) = Below(j)
        BY <2>1
      <3>2. IsFiniteSet(Q) /\ Cardinality(Q) = Cardinality(turns) - Cardinality(turns \cap Below(j))
        BY <1>1, FS_Difference
      <3> QED BY <1>1, <1>7, <3>1, <3>2
    <2> HIDE DEF Q
    <2> QED BY <1>0, <1>4, <2>2, <2>3, FS_AddElement
  <1>17. IsFiniteSet(T) /\ Cardinality(T) = L - k
    <2>1. k + 1 \in Int /\ L \in Int
      BY <1>0
    <2>2. IsFiniteSet(T) /\ Cardinality(T) = IF k + 1 > L THEN 0 ELSE L - (k + 1) + 1
      BY <2>1, FS_Interval
    <2> QED BY <1>0, <2>2 DEF L
  <1>18. \A t \in S : t \in turns /\ (t = i \/ t >= j)
    BY <1>0, <1>2, <1>13, <1>8
  <1>19. ASSUME NEW t \in S
         PROVE  f[t] \in T /\ v[f[t]] = h[t].ref
    <2>1. \E q \in 1 .. L : v[q] = h[t].ref
      BY <1>0, <1>2, <1>18 DEF Range
    <2>2. f[t] \in 1 .. L /\ v[f[t]] = h[t].ref
      BY <2>1
    <2> DEFINE q == f[t]
    <2>3. q \in 1 .. L /\ v[q] = h[t].ref
      BY <2>2
    <2> HIDE DEF q, S, f
    <2>4. v[q] >= a
      <3>1. t = i \/ i < t
        BY <1>0, <1>2, <1>8, <1>13, <1>18
      <3>2. i < t => h[i].ref < h[t].ref
        BY <1>0, <1>2, <1>12, <1>13, <1>18 DEF Ordered
      <3>3. v[q] \in Nat /\ a \in Nat
        BY <1>14, <2>3 DEF L
      <3> QED BY <1>12, <2>3, <3>1, <3>2, <3>3
    <2>5. ~ (q < p)
      <3>1. q < p => v[q] < v[p]
        BY <1>0, <1>14, <2>3 DEF Rising
      <3>2. v[q] \in Nat /\ v[p] \in Nat
        BY <1>14, <2>3 DEF L
      <3> QED BY <1>14, <2>4, <3>1, <3>2
    <2>6. q \in T
      BY <1>0, <1>14, <1>15, <2>3, <2>5
    <2> QED BY <2>3, <2>6 DEF q
  <1>20. f \in [S -> T]
    BY <1>19
  <1>21. Cardinality(T) < Cardinality(S)
    BY <1>0, <1>16, <1>17
  <1> HIDE DEF S, T, f
  <1>22. PICK x \in S, y \in S : x # y /\ f[x] = f[y]
    BY <1>16, <1>17, <1>20, <1>21, FS_PigeonHole
  <1>23. h[x].ref = h[y].ref /\ x \in turns /\ y \in turns
    BY <1>18, <1>19, <1>22
  <1>24. h[x].ref < h[y].ref \/ h[y].ref < h[x].ref
    <2>1. x < y \/ y < x
      BY <1>0, <1>2, <1>22, <1>23
    <2> QED BY <1>0, <1>2, <1>23, <2>1 DEF Ordered
  <1>25. h[x].ref \in Nat
    <2>1. x \in 1 .. Len(h)
      BY <1>2, <1>23
    <2>2. h[x] \in Message
      BY <2>1 DEF Histories
    <2> QED BY <2>2 DEF Message
  <1> QED BY <1>23, <1>24, <1>25

-----------------------------------------------------------------------------
(* What a rewind leaves                                                    *)

\* Visible turns that rise, before those in w and among the first n.
ShownIn(v, w, n) ==
  Rising(v) /\ \A i \in DOMAIN v : v[i] <= n /\ \A b \in w : v[i] < b

VisibleSettled == ShownIn(visible, UserRefs(drained) \cup UserRefs(queue), seen.users)

\* The next message that waits shows behind the turns shown.
LEMMA ShownNext ==
  ASSUME visible \in Seq(Nat), NEW m \in Message, NEW w, NEW x \in SUBSET w, NEW n,
         ShownIn(visible, w, n), UserRefs(<<m>>) \subseteq w,
         \A a \in UserRefs(<<m>>) : a <= n /\ \A b \in x : a < b
  PROVE  ShownIn(Shown(m), x, n) /\ Len(visible) <= Len(Shown(m))
  <1>1. CASE m.role # "user"
    BY <1>1 DEF Shown, ShownIn
  <1>2. CASE m.role = "user"
    <2>1. UserRefs(<<m>>) = {m.ref} /\ Shown(m) = Append(visible, m.ref) /\ m.ref \in Nat
      <3>1. UserRefs(<<m>>) = {m.ref}
        BY <1>2, Single
      <3> QED BY <1>2, <3>1 DEF Shown, Message
    <2> DEFINE v == Append(visible, m.ref)
               L == Len(visible)
    <2>2. /\ L \in Nat /\ Len(v) = L + 1 /\ DOMAIN v = 1 .. (L + 1) /\ DOMAIN visible = 1 .. L
          /\ v[L + 1] = m.ref /\ \A i \in 1 .. L : v[i] = visible[i]
      BY <2>1
    <2> HIDE DEF v, L
    <2>3. \A i \in 1 .. L : v[i] < m.ref
      BY <1>2, <2>1, <2>2 DEF ShownIn
    <2>4. ASSUME NEW i \in DOMAIN v, NEW j \in DOMAIN v, i < j
          PROVE  v[i] < v[j]
      <3>1. i \in 1 .. L
        BY <2>2, <2>4
      <3>2. CASE j = L + 1
        BY <2>2, <2>3, <3>1, <3>2
      <3>3. CASE j \in 1 .. L
        BY <2>2, <2>4, <3>1, <3>3 DEF ShownIn, Rising
      <3> QED BY <2>2, <3>2, <3>3
    <2>5. ASSUME NEW i \in DOMAIN v
          PROVE  v[i] <= n /\ \A b \in x : v[i] < b
      <3>1. CASE i = L + 1
        BY <2>1, <2>2, <3>1
      <3>2. CASE i \in 1 .. L
        BY <2>2, <3>2 DEF ShownIn
      <3> QED BY <2>2, <3>1, <3>2
    <2>6. ShownIn(v, x, n)
      BY <2>4, <2>5 DEF ShownIn, Rising
    <2> QED BY <2>1, <2>2, <2>6 DEF v, L
  <1> QED BY <1>1, <1>2

\* The same at the top of the loop.
LEMMA LoopTopShown ==
  ASSUME NEW h, NEW ms, LoopTop(h, ms), queue \in Histories, drained = <<>>,
         visible \in Seq(Nat), NEW n, Flow(<<>>, <<>>, queue, n),
         ShownIn(visible, UserRefs(queue), n)
  PROVE  ShownIn(visible', UserRefs(drained') \cup UserRefs(queue'), n)
  <1>1. CASE queue = <<>>
    BY <1>1, Empty DEF LoopTop, ShownIn
  <1>2. CASE queue # <<>>
    <2>1. queue' = <<>> /\ drained' = Tail(queue) /\ visible' = Shown(Head(queue))
      BY <1>2 DEF LoopTop
    <2>2. /\ Head(queue) \in Message
          /\ UserRefs(queue) = UserRefs(<<Head(queue)>>) \cup UserRefs(Tail(queue))
          /\ Before(<<Head(queue)>>, Tail(queue))
      BY <1>2, FirstOut DEF Flow
    <2>3. \A a \in UserRefs(queue) : a <= n
      BY DEF Flow
    <2> DEFINE m == Head(queue)
               x == UserRefs(Tail(queue))
               w == UserRefs(queue)
    <2>4. m \in Message /\ x \in SUBSET w /\ UserRefs(<<m>>) \subseteq w /\ ShownIn(visible, w, n)
          /\ \A a \in UserRefs(<<m>>) : a <= n /\ \A b \in x : a < b
      BY <2>2, <2>3 DEF Before
    <2> HIDE DEF m, x, w
    <2>5. ShownIn(Shown(m), x, n)
      BY <2>4, ShownNext
    <2>6. UserRefs(drained') \cup UserRefs(queue') = x
      BY <2>1, Empty DEF x
    <2> QED BY <2>1, <2>5, <2>6 DEF m
  <1> QED BY <1>1, <1>2

\* Every step keeps the visible turns rising and before what waits.
LEMMA VisibleSettledStep ==
  TurnType /\ PhaseFits /\ QueuesOrdered /\ VisibleSettled /\ [Next]_vars => VisibleSettled'
  <1> SUFFICES ASSUME TurnType, PhaseFits, QueuesOrdered, VisibleSettled, [Next]_vars
               PROVE  VisibleSettled'
    OBVIOUS
  <1> USE DEF lists, step, control, ghosts
  <1> DEFINE n == seen.users
             w == UserRefs(drained) \cup UserRefs(queue)
  <1>0. /\ n \in Nat /\ Flow(prompt, drained, queue, n) /\ ShownIn(visible, w, n)
        /\ visible \in Seq(Nat) /\ queue \in Histories /\ drained \in Histories
    BY TurnAssumption DEF TurnType, Counters, QueuesOrdered, VisibleSettled
  <1> HIDE DEF n
  <1>1. ASSUME NEW v, NEW x \in SUBSET w, ShownIn(v, w, n) PROVE ShownIn(v, x, n)
    BY <1>1 DEF ShownIn
  <1>2. CASE Submit
    <2>1. /\ queue' = Append(queue, User(n + 1)) /\ seen'.users = n + 1
          /\ drained' = drained /\ visible' = visible
      BY <1>2, CountedIs DEF Submit, TurnType, n
    <2>2. User(n + 1) \in Message /\ User(n + 1).role = "user" /\ User(n + 1).ref = n + 1
      BY <1>0, Spoken DEF User
    <2>3. UserRefs(<<User(n + 1)>>) = {n + 1}
      BY <2>2, Single
    <2>4. UserRefs(queue') = UserRefs(queue) \cup {n + 1}
      BY <1>0, <2>1, <2>2, <2>3, Added
    <2>5. \A i \in DOMAIN visible : visible[i] \in Nat
      BY <1>0
    <2>6. \A i \in DOMAIN visible : visible[i] <= n + 1 /\ visible[i] < n + 1
      BY <1>0, <2>5 DEF ShownIn
    <2>7. ShownIn(visible, w \cup {n + 1}, n + 1)
      BY <1>0, <2>6 DEF ShownIn
    <2>8. UserRefs(drained') \cup UserRefs(queue') = w \cup {n + 1}
      BY <2>1, <2>4
    <2> QED BY <2>1, <2>7, <2>8 DEF VisibleSettled
  <1>3. ASSUME ~ Submit PROVE seen'.users = n
    BY <1>3, UsersCounted DEF n
  <1>4. ASSUME ~ Submit, NEW x, UserRefs(drained') \cup UserRefs(queue') = x, ShownIn(visible', x, n)
        PROVE  VisibleSettled'
    BY <1>3, <1>4 DEF VisibleSettled
  <1> HIDE DEF w
  <1>5. ASSUME UserRefs(drained') \cup UserRefs(queue') \subseteq w, visible' = visible
        PROVE  VisibleSettled'
    BY <1>0, <1>1, <1>2, <1>4, <1>5
  <1>6. ASSUME UNCHANGED <<drained, queue, visible>> PROVE VisibleSettled'
    BY <1>5, <1>6 DEF w
  <1>7. CASE Notify
    <2>1. Note(seen.notes + 1) \in Message /\ Note(seen.notes + 1).role # "user"
      BY TurnAssumption, Spoken DEF Note, TurnType, Counters
    <2>2. queue' = Append(queue, Note(seen.notes + 1)) /\ drained' = drained /\ visible' = visible
      BY <1>7 DEF Notify
    <2>3. UserRefs(queue') = UserRefs(queue)
      BY <1>0, <2>1, <2>2, AddedOther
    <2> QED BY <1>5, <2>2, <2>3 DEF w
  <1>8. CASE Begin
    <2> DEFINE m == Head(queue)
               x == UserRefs(Tail(queue))
    <2>1. /\ queue # <<>> /\ queue' = Tail(queue) /\ drained' = drained /\ drained = <<>>
          /\ visible' = Shown(Head(queue))
      BY <1>8 DEF Begin, PhaseFits
    <2>2. /\ Head(queue) \in Message
          /\ UserRefs(queue) = UserRefs(<<Head(queue)>>) \cup UserRefs(Tail(queue))
          /\ Before(<<Head(queue)>>, Tail(queue))
      BY <1>0, <2>1, FirstOut DEF Flow
    <2>3. w = UserRefs(queue) /\ \A a \in UserRefs(queue) : a <= n
      BY <1>0, <2>1, Empty DEF w, Flow
    <2>4. m \in Message /\ x \in SUBSET w /\ UserRefs(<<m>>) \subseteq w
          /\ \A a \in UserRefs(<<m>>) : a <= n /\ \A b \in x : a < b
      BY <2>2, <2>3 DEF Before
    <2>5. UserRefs(drained') \cup UserRefs(queue') = x
      BY <2>1, Empty
    <2> HIDE DEF m, x
    <2>6. ShownIn(Shown(m), x, n)
      BY <1>0, <2>4, ShownNext
    <2> QED BY <1>2, <1>4, <2>1, <2>5, <2>6 DEF m
  <1>9. ASSUME NEW h, NEW ms, LoopTop(h, ms), phase # "drain" PROVE VisibleSettled'
    <2>1. drained = <<>>
      BY <1>9 DEF PhaseFits
    <2>2. w = UserRefs(queue) /\ Flow(<<>>, <<>>, queue, n)
      BY <1>0, <2>1, Empty DEF w, Flow, Before
    <2>3. ShownIn(visible', UserRefs(drained') \cup UserRefs(queue'), n)
      BY <1>0, <1>9, <2>1, <2>2, LoopTopShown
    <2> QED BY <1>2, <1>4, <2>3
  <1>10. CASE Prepare \/ NextMessages \/ RecordLast \/ AfterCompaction
    <2>1. PICK h, ms : LoopTop(h, ms)
      BY <1>10 DEF Prepare, NextMessages, RecordLast, AfterCompaction
    <2>2. phase # "drain"
      BY <1>10 DEF Prepare, NextMessages, RecordLast, AfterCompaction
    <2> QED BY <1>9, <2>1, <2>2
  <1>11. CASE DrainNext
    <2> DEFINE m == Head(drained)
               x == UserRefs(Tail(drained)) \cup UserRefs(queue)
    <2>1. /\ drained # <<>> /\ queue' = queue /\ drained' = Tail(drained)
          /\ visible' = Shown(Head(drained))
      BY <1>11 DEF DrainNext
    <2>2. /\ Head(drained) \in Message
          /\ UserRefs(drained) = UserRefs(<<Head(drained)>>) \cup UserRefs(Tail(drained))
          /\ Before(<<Head(drained)>>, Tail(drained))
      BY <1>0, <2>1, FirstOut DEF Flow
    <2>3. Before(drained, queue) /\ \A a \in UserRefs(drained) : a <= n
      BY <1>0 DEF Flow
    <2>4. m \in Message /\ x \in SUBSET w /\ UserRefs(<<m>>) \subseteq w
          /\ \A a \in UserRefs(<<m>>) : a <= n /\ \A b \in x : a < b
      BY <2>2, <2>3 DEF Before, w
    <2>5. UserRefs(drained') \cup UserRefs(queue') = x
      BY <2>1
    <2> HIDE DEF m, x
    <2>6. ShownIn(Shown(m), x, n)
      BY <1>0, <2>4, ShownNext
    <2> QED BY <1>2, <1>4, <2>1, <2>5, <2>6 DEF m
  <1>12. CASE PrepCompact \/ Collect \/ PrepCompacted \/ DrainDone \/ Answer \/ EndOfTurn \/ RequestFails
              \/ ErrorShown \/ \E k \in 1 .. MaxCalls : CallTools(k)
    BY <1>6, <1>12 DEF PrepCompact, Collect, PrepCompacted, DrainDone, Answer, EndOfTurn, RequestFails,
                       ErrorShown, CallTools
  <1>13. CASE StartBatch \/ Record \/ RecordAndCompact \/ CompactSucceeds \/ Resync
              \/ \E i \in DOMAIN calls : ToolReturns(i)
    BY <1>6, <1>13 DEF StartBatch, Record, RecordAndCompact, CompactSucceeds, Resync,
                       ToolReturns
  <1>14. CASE Close \/ NoteInterruption \/ StopHandler \/ Finalize \/ UNCHANGED vars
    BY <1>6, <1>14 DEF Close, NoteInterruption, StopHandler, Finalize, vars
  <1>15. CASE StopInside \/ StopOutside
    <2>1. drained' = <<>> /\ queue' = queue /\ visible' = visible
      BY <1>15 DEF StopInside, StopOutside, Unwound
    <2> QED BY <1>5, <2>1, Empty DEF w
  <1>16. ASSUME NEW k \in 0 .. (MaxUsers - 1), Rewind(k) PROVE VisibleSettled'
    <2>1. k < Len(visible) /\ visible' = SubSeq(visible, 1, k) /\ UNCHANGED <<drained, queue>>
      BY <1>16 DEF Rewind
    <2>2. /\ DOMAIN visible' = 1 .. k /\ DOMAIN visible = 1 .. Len(visible) /\ k \in Nat
          /\ \A i \in 1 .. k : visible'[i] = visible[i]
      BY <1>0, <2>1
    <2>3. ShownIn(visible', w, n)
      BY <1>0, <2>1, <2>2 DEF ShownIn, Rising
    <2> QED BY <1>2, <1>4, <2>1, <2>3 DEF w
  <1> QED
    BY <1>2, <1>7, <1>8, <1>10, <1>11, <1>12, <1>13, <1>14, <1>15, <1>16
    DEF Next, Work, Preparing, Requesting, Executing, Ending

\* Nothing but a rewind takes a visible turn away.
LEMMA OnlyRewindForgets ==
  ASSUME TurnType, [Next]_vars, \A k \in 0 .. (MaxUsers - 1) : ~ Rewind(k)
  PROVE  Len(visible) <= Len(visible')
  <1> USE DEF lists, step, control, ghosts
  <1>0. visible \in Seq(Nat) /\ Len(visible) \in Nat
    BY DEF TurnType
  <1>1. CASE visible' = visible
    BY <1>0, <1>1
  <1>2. \A m : Len(visible) <= Len(Shown(m))
    BY <1>0 DEF Shown
  <1>3. ASSUME NEW m, visible' = Shown(m) PROVE Len(visible) <= Len(visible')
    BY <1>2, <1>3
  <1>4. CASE Begin
    BY <1>3, <1>4 DEF Begin
  <1>5. CASE DrainNext
    BY <1>3, <1>5 DEF DrainNext
  <1>6. ASSUME NEW h, NEW ms, LoopTop(h, ms) PROVE Len(visible) <= Len(visible')
    BY <1>1, <1>3, <1>6 DEF LoopTop
  <1>7. CASE Prepare \/ NextMessages \/ RecordLast \/ AfterCompaction
    BY <1>6, <1>7 DEF Prepare, NextMessages, RecordLast, AfterCompaction
  <1>8. CASE Submit \/ Notify \/ PrepCompact \/ Collect \/ PrepCompacted \/ UNCHANGED vars
    BY <1>1, <1>8 DEF Submit, Notify, PrepCompact, Collect, PrepCompacted, vars
  <1>9. CASE DrainDone \/ Answer \/ EndOfTurn \/ RequestFails
              \/ ErrorShown \/ \E k \in 1 .. MaxCalls : CallTools(k)
    BY <1>1, <1>9 DEF DrainDone, Answer, EndOfTurn, RequestFails, ErrorShown, CallTools
  <1>10. CASE StartBatch \/ Record \/ RecordAndCompact \/ CompactSucceeds \/ Resync
              \/ \E i \in DOMAIN calls : ToolReturns(i)
    BY <1>1, <1>10 DEF StartBatch, Record, RecordAndCompact, CompactSucceeds, Resync,
                       ToolReturns
  <1>11. CASE Ending \/ StopInside \/ StopOutside \/ StopHandler \/ Finalize
    BY <1>1, <1>11 DEF Ending, Close, NoteInterruption, StopInside, StopOutside, StopHandler, Finalize
  <1> QED
    BY <1>4, <1>5, <1>7, <1>8, <1>9, <1>10, <1>11 DEF Next, Work, Preparing, Requesting, Executing

\* What RewindForgetsAligned says of a step.
Forgotten ==
  Len(visible') < Len(visible) /\ Aligned /\ ~ mixed => UserRefs(history') \subseteq Range(visible')

\* A step that takes turns away takes their messages away.
LEMMA ForgottenStep == OrderInv /\ VisibleSettled /\ [Next]_vars => [Forgotten]_vars
  <1> SUFFICES ASSUME OrderInv, VisibleSettled, [Next]_vars,
                      Len(visible') < Len(visible), Aligned, ~ mixed
               PROVE  UserRefs(history') \subseteq Range(visible')
    BY DEF Forgotten
  <1>1. TurnType /\ ListsSettled
    BY DEF OrderInv
  <1>2. PICK k \in 0 .. (MaxUsers - 1) : Rewind(k)
    <2>1. Len(visible) \in Nat /\ visible' \in Seq(Nat)
      BY <1>1, TurnTypeStep DEF TurnType
    <2>2. Len(visible') \in Nat
      BY <2>1
    <2>3. ~ (Len(visible) <= Len(visible'))
      BY <2>1, <2>2
    <2> QED BY <1>1, <2>3, OnlyRewindForgets
  <1>3. /\ k \in Nat /\ k < Len(visible) /\ visible' = SubSeq(visible, 1, k)
        /\ history' = RewindHistory(history, Len(visible), k)
    BY <1>2 DEF Rewind
  <1>4. history \in Histories /\ visible \in Seq(Nat) /\ Ordered(history) /\ Rising(visible)
    BY <1>1 DEF TurnType, ListsSettled, Settled, VisibleSettled, ShownIn
  <1>5. \A m \in Range(RealUsers(history)) : m.role = "user" /\ m.ref \in Range(visible)
    BY DEF Aligned
  <1>6. UserRefs(RewindHistory(history, Len(visible), k)) \subseteq Range(SubSeq(visible, 1, k))
    BY <1>3, <1>4, <1>5, RewindAligned
  <1> QED BY <1>3, <1>6

\* A rewind of a history whose real user messages are all visible turns leaves no
\* user message of a turn it takes back.
THEOREM RewindForgetsAlignedHolds == Spec => RewindForgetsAligned
  <1>1. Init => VisibleSettled
    BY DEF Init, VisibleSettled, ShownIn, Rising
  <1>2. OrderInv /\ VisibleSettled /\ [Next]_vars => VisibleSettled'
    BY VisibleSettledStep DEF OrderInv
  <1> QED BY <1>1, <1>2, OrderInvInit, OrderInvStep, ForgottenStep, PTL
          DEF Spec, RewindForgetsAligned, Forgotten

-----------------------------------------------------------------------------
(* The wire contract: tidy and wired histories                             *)

\* The ids that a history calls.
Called(h) == UNION {Range(h[i].calls) : i \in DOMAIN h}

\* No id is called twice.
OnceCalled(h) ==
  \A i, j \in DOMAIN h : \A a \in DOMAIN h[i].calls, b \in DOMAIN h[j].calls :
    h[i].calls[a] = h[j].calls[b] => i = j /\ a = b

\* Only the model calls.
Speaks(h) == \A i \in DOMAIN h : h[i].calls # <<>> => h[i] = Reply(h[i].calls)

\* The first n calls of the message at i have their results right behind it, in order.
Answered(h, i, n) ==
  n <= Len(h[i].calls) /\ \A k \in 1 .. n : i + k \in DOMAIN h /\ h[i + k] = ToolMsg(h[i].calls[k])

\* A result whose call is in the history is among the results behind it.
InRuns(h) ==
  \A i, j \in DOMAIN h :
    h[j].role = "tool" /\ h[j].ref \in Range(h[i].calls) => i < j /\ Answered(h, i, j - i)

\* A history the agent can build on.
Tidy(h) == OnceCalled(h) /\ Speaks(h) /\ InRuns(h)

\* Tidy, each call answered and no stray result.
Wired(h) ==
  /\ Tidy(h)
  /\ \A i \in DOMAIN h : Answered(h, i, Len(h[i].calls))
  /\ Responded(h) \subseteq Called(h)

\* The calls and the reference of a message are ids, and the history calls or answers them.
LEMMA CallsIn ==
  ASSUME NEW s \in Histories, NEW i \in DOMAIN s
  PROVE  /\ s[i] \in Message /\ s[i].calls \in Seq(Nat) /\ s[i].ref \in Nat
         /\ DOMAIN s[i].calls = 1 .. Len(s[i].calls) /\ Len(s[i].calls) \in Nat
         /\ \A a \in DOMAIN s[i].calls : s[i].calls[a] \in Called(s)
         /\ Range(s[i].calls) \subseteq Called(s)
         /\ s[i].role = "tool" => s[i].ref \in Responded(s)
  <1>1. s[i] \in Message
    BY DEF Histories
  <1>2. s[i].calls \in Seq(Nat) /\ s[i].ref \in Nat
    BY <1>1 DEF Message
  <1> QED BY <1>1, <1>2 DEF Called, Responded, Range

\* Where the messages of a concatenation come from.
LEMMA Halves ==
  ASSUME NEW s \in Histories, NEW t \in Histories, NEW st, st = s \o t
  PROVE  /\ st \in Histories
         /\ Len(s) \in Nat /\ Len(t) \in Nat /\ Len(st) = Len(s) + Len(t)
         /\ DOMAIN s = 1 .. Len(s) /\ DOMAIN t = 1 .. Len(t) /\ DOMAIN st = 1 .. (Len(s) + Len(t))
         /\ \A i \in 1 .. Len(s) : i \in DOMAIN st /\ st[i] = s[i]
         /\ \A i \in 1 .. Len(t) : Len(s) + i \in DOMAIN st /\ st[Len(s) + i] = t[i]
         /\ \A i \in DOMAIN st : ~ (i \in 1 .. Len(s)) =>
              /\ i - Len(s) \in 1 .. Len(t) /\ i = Len(s) + (i - Len(s))
              /\ st[i] = t[i - Len(s)]
  <1>1. /\ st \in Histories /\ Len(s) \in Nat /\ Len(t) \in Nat /\ Len(st) = Len(s) + Len(t)
        /\ DOMAIN s = 1 .. Len(s) /\ DOMAIN t = 1 .. Len(t) /\ DOMAIN st = 1 .. (Len(s) + Len(t))
        /\ \A i \in 1 .. Len(s) : st[i] = s[i]
        /\ \A i \in 1 .. Len(t) : st[Len(s) + i] = t[i]
    BY DEF Histories
  <1>2. \A i \in DOMAIN st : ~ (i \in 1 .. Len(s)) =>
          i - Len(s) \in 1 .. Len(t) /\ i = Len(s) + (i - Len(s))
    BY <1>1
  <1>3. \A i \in DOMAIN st : ~ (i \in 1 .. Len(s)) => st[i] = t[i - Len(s)]
    <2> SUFFICES ASSUME NEW i \in DOMAIN st, ~ (i \in 1 .. Len(s)) PROVE st[i] = t[i - Len(s)]
      OBVIOUS
    <2> DEFINE j == i - Len(s)
    <2>1. j \in 1 .. Len(t) /\ i = Len(s) + j
      BY <1>2
    <2> HIDE DEF j
    <2>2. st[Len(s) + j] = t[j]
      BY <1>1, <2>1
    <2> QED BY <2>1, <2>2 DEF j
  <1>4. \A i \in 1 .. Len(s) : i \in DOMAIN st
    BY <1>1
  <1>5. \A i \in 1 .. Len(t) : Len(s) + i \in DOMAIN st
    BY <1>1
  <1> QED BY <1>1, <1>2, <1>3, <1>4, <1>5

\* A concatenation calls and answers what its halves do.
LEMMA CalledJoined ==
  ASSUME NEW s \in Histories, NEW t \in Histories
  PROVE  Called(s \o t) = Called(s) \cup Called(t) /\ Responded(s \o t) = Responded(s) \cup Responded(t)
  <1> DEFINE st == s \o t
  <1>0. st = s \o t
    OBVIOUS
  <1> HIDE DEF st
  <1>1. \A i \in DOMAIN s : i \in DOMAIN st /\ st[i] = s[i]
    BY <1>0, Halves
  <1>2. \A i \in DOMAIN t : Len(s) + i \in DOMAIN st /\ st[Len(s) + i] = t[i]
    BY <1>0, Halves
  <1>3. \A i \in DOMAIN st : (i \in DOMAIN s /\ st[i] = s[i]) \/ \E j \in DOMAIN t : st[i] = t[j]
    BY <1>0, Halves
  <1>4. Called(st) = Called(s) \cup Called(t)
    BY <1>1, <1>2, <1>3 DEF Called
  <1>5. Responded(st) = Responded(s) \cup Responded(t)
    <2>1. Range(st) = Range(s) \cup Range(t)
      BY <1>0, Concatenated
    <2> QED BY <2>1 DEF Responded
  <1> QED BY <1>0, <1>4, <1>5

\* The results behind a message of one half are behind it in the concatenation.
LEMMA AnsweredJoined ==
  ASSUME NEW s \in Histories, NEW t \in Histories, NEW st, st = s \o t, NEW n \in Nat
  PROVE  /\ \A i \in 1 .. Len(s) : Answered(s, i, n) => Answered(st, i, n)
         /\ \A i \in 1 .. Len(s) : Answered(st, i, n) /\ i + n <= Len(s) => Answered(s, i, n)
         /\ \A i \in 1 .. Len(t) : Answered(st, Len(s) + i, n) <=> Answered(t, i, n)
  <1>0. /\ Len(s) \in Nat /\ Len(t) \in Nat
        /\ DOMAIN s = 1 .. Len(s) /\ DOMAIN t = 1 .. Len(t) /\ DOMAIN st = 1 .. (Len(s) + Len(t))
        /\ \A i \in 1 .. Len(s) : i \in DOMAIN st /\ st[i] = s[i]
        /\ \A i \in 1 .. Len(t) : Len(s) + i \in DOMAIN st /\ st[Len(s) + i] = t[i]
    BY Halves
  <1>1. ASSUME NEW i \in 1 .. Len(s), Answered(s, i, n) PROVE Answered(st, i, n)
    BY <1>0, <1>1 DEF Answered
  <1>2. ASSUME NEW i \in 1 .. Len(s), Answered(st, i, n), i + n <= Len(s) PROVE Answered(s, i, n)
    <2>1. \A k \in 1 .. n : i + k \in 1 .. Len(s)
      BY <1>0, <1>2
    <2> QED BY <1>0, <1>2, <2>1 DEF Answered
  <1>3. ASSUME NEW i \in 1 .. Len(t) PROVE Answered(st, Len(s) + i, n) <=> Answered(t, i, n)
    <2>1. st[Len(s) + i] = t[i]
      BY <1>0
    <2>2. ASSUME NEW k \in 1 .. n
          PROVE  /\ (Len(s) + i) + k \in DOMAIN st <=> i + k \in DOMAIN t
                 /\ i + k \in DOMAIN t => st[(Len(s) + i) + k] = t[i + k]
      <3>1. (Len(s) + i) + k = Len(s) + (i + k)
        BY <1>0
      <3>2. Len(s) + (i + k) \in 1 .. (Len(s) + Len(t)) <=> i + k \in 1 .. Len(t)
        BY <1>0
      <3>3. i + k \in 1 .. Len(t) => st[Len(s) + (i + k)] = t[i + k]
        BY <1>0
      <3> QED BY <1>0, <3>1, <3>2, <3>3
    <2> QED BY <2>1, <2>2 DEF Answered
  <1> QED BY <1>1, <1>2, <1>3

\* Tidy histories that know nothing of each other's calls make a tidy one.
LEMMA TidyJoined ==
  ASSUME NEW s \in Histories, NEW t \in Histories, Tidy(s), Tidy(t),
         Called(s) \cap Called(t) = {}, Called(s) \cap Responded(t) = {},
         Responded(s) \cap Called(t) = {}
  PROVE  Tidy(s \o t)
  <1> DEFINE st == s \o t
             n == Len(s)
  <1>0. st = s \o t
    OBVIOUS
  <1> HIDE DEF st
  <1>1. /\ n \in Nat /\ Len(t) \in Nat
        /\ DOMAIN s = 1 .. n /\ DOMAIN t = 1 .. Len(t)
        /\ \A i \in 1 .. n : st[i] = s[i]
        /\ \A i \in DOMAIN st : ~ (i \in 1 .. n) =>
              i - n \in 1 .. Len(t) /\ i = n + (i - n) /\ st[i] = t[i - n]
        /\ DOMAIN st \subseteq Nat
    BY <1>0, Halves
  <1> HIDE DEF n
  <1>2. Speaks(st)
    BY <1>1 DEF Speaks, Tidy
  <1>3. OnceCalled(st)
    <2> SUFFICES ASSUME NEW i \in DOMAIN st, NEW j \in DOMAIN st,
                        NEW a \in DOMAIN st[i].calls, NEW b \in DOMAIN st[j].calls,
                        st[i].calls[a] = st[j].calls[b]
                 PROVE  i = j /\ a = b
      BY DEF OnceCalled
    <2>1. CASE i \in 1 .. n /\ j \in 1 .. n
      BY <1>1, <2>1 DEF Tidy, OnceCalled
    <2>2. CASE ~ (i \in 1 .. n) /\ ~ (j \in 1 .. n)
      <3>1. i - n = j - n /\ a = b
        BY <1>1, <2>2 DEF Tidy, OnceCalled
      <3> QED BY <1>1, <2>2, <3>1
    <2>3. CASE i \in 1 .. n /\ ~ (j \in 1 .. n)
      <3>1. st[i].calls[a] \in Called(s) /\ st[j].calls[b] \in Called(t)
        BY <1>1, <2>3, CallsIn
      <3> QED BY <3>1
    <2>4. CASE ~ (i \in 1 .. n) /\ j \in 1 .. n
      <3>1. st[i].calls[a] \in Called(t) /\ st[j].calls[b] \in Called(s)
        BY <1>1, <2>4, CallsIn
      <3> QED BY <3>1
    <2> QED BY <2>1, <2>2, <2>3, <2>4
  <1>4. InRuns(st)
    <2> SUFFICES ASSUME NEW i \in DOMAIN st, NEW j \in DOMAIN st,
                        st[j].role = "tool", st[j].ref \in Range(st[i].calls)
                 PROVE  i < j /\ Answered(st, i, j - i)
      BY DEF InRuns
    <2>1. CASE i \in 1 .. n /\ j \in 1 .. n
      <3>1. i < j /\ Answered(s, i, j - i)
        BY <1>1, <2>1 DEF Tidy, InRuns
      <3>2. j - i \in Nat
        BY <1>1, <2>1, <3>1
      <3> QED BY <1>0, <2>1, <3>1, <3>2, AnsweredJoined DEF n
    <2>2. CASE ~ (i \in 1 .. n) /\ ~ (j \in 1 .. n)
      <3> DEFINE x == i - n
                 y == j - n
      <3>1. x \in 1 .. Len(t) /\ y \in 1 .. Len(t) /\ i = n + x /\ j = n + y
            /\ st[i] = t[x] /\ st[j] = t[y]
        BY <1>1, <2>2
      <3> HIDE DEF x, y
      <3>2. x < y /\ Answered(t, x, y - x)
        BY <1>1, <3>1 DEF Tidy, InRuns
      <3>3. i < j /\ j - i = y - x /\ y - x \in Nat
        BY <1>1, <3>1, <3>2
      <3>4. Answered(st, n + x, y - x)
        BY <1>0, <3>1, <3>2, <3>3, AnsweredJoined DEF n
      <3> QED BY <3>1, <3>3, <3>4
    <2>3. CASE i \in 1 .. n /\ ~ (j \in 1 .. n)
      <3>1. st[j].ref \in Responded(t)
        BY <1>1, <2>3, CallsIn
      <3>2. Range(st[i].calls) \subseteq Called(s)
        BY <1>1, <2>3, CallsIn
      <3> QED BY <3>1, <3>2
    <2>4. CASE ~ (i \in 1 .. n) /\ j \in 1 .. n
      <3>1. st[j].ref \in Responded(s)
        BY <1>1, <2>4, CallsIn
      <3>2. Range(st[i].calls) \subseteq Called(t)
        BY <1>1, <2>4, CallsIn
      <3> QED BY <3>1, <3>2
    <2> QED BY <2>1, <2>2, <2>3, <2>4
  <1> QED BY <1>0, <1>2, <1>3, <1>4 DEF Tidy

\* Both halves of a tidy history are tidy.
LEMMA TidyHalves ==
  ASSUME NEW s \in Histories, NEW t \in Histories, Tidy(s \o t)
  PROVE  Tidy(s) /\ Tidy(t)
  <1> DEFINE st == s \o t
             n == Len(s)
  <1>0. st = s \o t /\ OnceCalled(st) /\ Speaks(st) /\ InRuns(st)
    BY DEF Tidy
  <1> HIDE DEF st
  <1>1. /\ n \in Nat /\ Len(t) \in Nat
        /\ DOMAIN s = 1 .. n /\ DOMAIN t = 1 .. Len(t)
        /\ \A i \in 1 .. n : i \in DOMAIN st /\ st[i] = s[i]
        /\ \A i \in 1 .. Len(t) : n + i \in DOMAIN st /\ st[n + i] = t[i]
    BY <1>0, Halves
  <1> HIDE DEF n
  <1>2. Speaks(s) /\ Speaks(t)
    BY <1>0, <1>1 DEF Speaks
  <1>3. OnceCalled(s)
    BY <1>0, <1>1 DEF OnceCalled
  <1>4. OnceCalled(t)
    <2> SUFFICES ASSUME NEW i \in DOMAIN t, NEW j \in DOMAIN t,
                        NEW a \in DOMAIN t[i].calls, NEW b \in DOMAIN t[j].calls,
                        t[i].calls[a] = t[j].calls[b]
                 PROVE  i = j /\ a = b
      BY DEF OnceCalled
    <2> DEFINE x == n + i
               y == n + j
    <2>0. x \in DOMAIN st /\ y \in DOMAIN st /\ st[x] = t[i] /\ st[y] = t[j]
      BY <1>1
    <2> HIDE DEF x, y
    <2>2. x = y /\ a = b
      BY ONLY <1>0, <2>0, t[i].calls[a] = t[j].calls[b], a \in DOMAIN t[i].calls, b \in DOMAIN t[j].calls
      DEF OnceCalled
    <2>1. n + i = n + j /\ a = b
      BY <2>2 DEF x, y
    <2> QED BY <1>1, <2>1
  <1>5. InRuns(s)
    <2> SUFFICES ASSUME NEW i \in DOMAIN s, NEW j \in DOMAIN s,
                        s[j].role = "tool", s[j].ref \in Range(s[i].calls)
                 PROVE  i < j /\ Answered(s, i, j - i)
      BY DEF InRuns
    <2>1. i < j /\ Answered(st, i, j - i)
      BY <1>0, <1>1 DEF InRuns
    <2>2. j - i \in Nat /\ i + (j - i) <= n /\ i \in 1 .. n
      BY <1>1, <2>1
    <2> QED BY <1>0, <2>1, <2>2, AnsweredJoined DEF n
  <1>6. InRuns(t)
    <2> SUFFICES ASSUME NEW i \in DOMAIN t, NEW j \in DOMAIN t,
                        t[j].role = "tool", t[j].ref \in Range(t[i].calls)
                 PROVE  i < j /\ Answered(t, i, j - i)
      BY DEF InRuns
    <2>1. n + i < n + j /\ Answered(st, n + i, (n + j) - (n + i))
      BY <1>0, <1>1 DEF InRuns
    <2>2. i < j /\ (n + j) - (n + i) = j - i /\ j - i \in Nat
      BY <1>1, <2>1
    <2>3. Answered(st, n + i, j - i)
      BY <2>1, <2>2
    <2> QED BY <1>0, <1>1, <2>2, <2>3, AnsweredJoined DEF n
  <1> QED BY <1>2, <1>3, <1>4, <1>5, <1>6 DEF Tidy

\* Wired histories that call different ids make a wired one.
LEMMA WiredJoined ==
  ASSUME NEW s \in Histories, NEW t \in Histories, Wired(s), Wired(t), Called(s) \cap Called(t) = {}
  PROVE  Wired(s \o t)
  <1> DEFINE st == s \o t
             n == Len(s)
  <1>0. st = s \o t
    OBVIOUS
  <1>1. Tidy(st)
    BY TidyJoined DEF Wired
  <1>2. Responded(st) \subseteq Called(st)
    BY CalledJoined DEF Wired
  <1> HIDE DEF st
  <1>3. /\ n \in Nat /\ Len(t) \in Nat
        /\ DOMAIN s = 1 .. n /\ DOMAIN t = 1 .. Len(t)
        /\ \A i \in 1 .. n : st[i] = s[i]
        /\ \A i \in DOMAIN st : ~ (i \in 1 .. n) =>
              i - n \in 1 .. Len(t) /\ i = n + (i - n) /\ st[i] = t[i - n]
    BY <1>0, Halves
  <1> HIDE DEF n
  <1>4. ASSUME NEW i \in DOMAIN st PROVE Answered(st, i, Len(st[i].calls))
    <2>1. CASE i \in 1 .. n
      <3>1. Answered(s, i, Len(s[i].calls)) /\ Len(s[i].calls) \in Nat
        BY <1>3, <2>1, CallsIn DEF Wired
      <3>2. Answered(st, i, Len(s[i].calls))
        BY <1>0, <2>1, <3>1, AnsweredJoined DEF n
      <3>3. Len(st[i].calls) = Len(s[i].calls)
        BY <1>3, <2>1
      <3> QED BY <3>2, <3>3
    <2>2. CASE ~ (i \in 1 .. n)
      <3> DEFINE x == i - n
      <3>1. x \in 1 .. Len(t) /\ i = n + x /\ st[i] = t[x]
        BY <1>3, <2>2
      <3> HIDE DEF x
      <3>2. Answered(t, x, Len(t[x].calls)) /\ Len(t[x].calls) \in Nat
        BY <1>3, <3>1, CallsIn DEF Wired
      <3> DEFINE m == Len(t[x].calls)
      <3>5. m \in Nat /\ Answered(t, x, m)
        BY <3>2
      <3> HIDE DEF m
      <3>6. Answered(st, n + x, m)
        BY <1>0, <3>1, <3>5, AnsweredJoined DEF n
      <3>3. Answered(st, n + x, Len(t[x].calls))
        BY <3>6 DEF m
      <3>4. Len(st[i].calls) = Len(t[x].calls) /\ i = n + x
        BY <3>1
      <3> QED BY <3>3, <3>4
    <2> QED BY <2>1, <2>2
  <1> QED BY <1>0, <1>1, <1>2, <1>4 DEF Wired, st

-----------------------------------------------------------------------------
(* The calls being answered                                                *)

\* Messages that are neither callers nor results are wired.
LEMMA PlainWired ==
  ASSUME NEW h \in Histories, \A i \in DOMAIN h : h[i].calls = <<>> /\ h[i].role # "tool"
  PROVE  Wired(h) /\ Called(h) = {} /\ Responded(h) = {}
  <1>1. Called(h) = {}
    BY DEF Called, Range
  <1>2. Responded(h) = {}
    BY DEF Responded, Range
  <1>3. Tidy(h)
    BY DEF Tidy, OnceCalled, Speaks, InRuns
  <1>4. \A i \in DOMAIN h : Answered(h, i, Len(h[i].calls))
    BY DEF Answered
  <1> QED BY <1>1, <1>2, <1>3, <1>4 DEF Wired

\* One message that calls nothing.
LEMMA SingleTidy ==
  ASSUME NEW m \in Message, m.calls = <<>>
  PROVE  /\ <<m>> \in Histories /\ Tidy(<<m>>) /\ Called(<<m>>) = {}
         /\ Responded(<<m>>) = IF m.role = "tool" THEN {m.ref} ELSE {}
         /\ m.role # "tool" => Wired(<<m>>)
  <1> DEFINE h == <<m>>
  <1>1. h \in Histories /\ DOMAIN h = {1} /\ h[1] = m /\ Range(h) = {m}
    <2>1. h \in Histories /\ Range(h) = {m}
      BY Single
    <2>2. DOMAIN h = {1} /\ h[1] = m
      OBVIOUS
    <2> QED BY <2>1, <2>2
  <1> HIDE DEF h
  <1>2. Called(h) = {}
    BY <1>1 DEF Called, Range
  <1>3. Responded(h) = IF m.role = "tool" THEN {m.ref} ELSE {}
    BY <1>1 DEF Responded
  <1>4. Tidy(h)
    BY <1>1 DEF Tidy, OnceCalled, Speaks, InRuns, Range
  <1>5. m.role # "tool" => Wired(h)
    BY <1>1, PlainWired
  <1> QED BY <1>1, <1>2, <1>3, <1>4, <1>5 DEF h

\* A message that calls ids, and the results of the first n.
Block(ids, n) == [j \in 1 .. (n + 1) |-> IF j = 1 THEN Reply(ids) ELSE ToolMsg(ids[j - 1])]

\* Ids that differ from each other.
Distinct(ids) == \A a, b \in DOMAIN ids : ids[a] = ids[b] => a = b

\* A block is tidy, and wired once all its calls are answered.
LEMMA BlockIs ==
  ASSUME NEW ids \in Seq(Nat), Distinct(ids), NEW n \in 0 .. Len(ids)
  PROVE  LET b == Block(ids, n) IN
         /\ b \in Histories /\ Tidy(b)
         /\ Called(b) = Range(ids) /\ Responded(b) \subseteq Range(ids)
         /\ n = Len(ids) => Wired(b)
  <1> DEFINE b == Block(ids, n)
  <1>0. n \in Nat /\ Len(ids) \in Nat /\ DOMAIN ids = 1 .. Len(ids) /\ n <= Len(ids)
    OBVIOUS
  <1>1. DOMAIN b = 1 .. (n + 1) /\ 1 \in DOMAIN b /\ b[1] = Reply(ids)
        /\ \A j \in 1 .. n : 1 + j \in DOMAIN b /\ b[1 + j] = ToolMsg(ids[j])
    BY <1>0 DEF Block
  <1>2. \A j \in DOMAIN b : j # 1 =>
          j - 1 \in 1 .. n /\ j - 1 \in DOMAIN ids /\ b[j] = ToolMsg(ids[j - 1]) /\ j > 1
    BY <1>0 DEF Block
  <1>3. Reply(ids).calls = ids /\ Reply(ids).role = "assistant" /\ Reply(ids) \in Message
    BY Spoken DEF Reply
  <1>4. \A x : ToolMsg(x).calls = <<>> /\ ToolMsg(x).role = "tool" /\ ToolMsg(x).ref = x
    BY DEF ToolMsg
  <1>5. \A j \in DOMAIN b : b[j] \in Message
    <2> SUFFICES ASSUME NEW j \in DOMAIN b PROVE b[j] \in Message
      OBVIOUS
    <2> HIDE DEF b
    <2>1. CASE j = 1
      BY <1>1, <1>3, <2>1
    <2>2. CASE j # 1
      <3>1. ids[j - 1] \in Nat /\ b[j] = ToolMsg(ids[j - 1])
        BY <1>2, <2>2
      <3> QED BY <3>1, Spoken
    <2> QED BY <2>1, <2>2
  <1>6. b \in Histories
    <2>1. n + 1 \in Nat /\ b = [j \in 1 .. (n + 1) |-> b[j]]
      BY <1>0 DEF Block
    <2> HIDE DEF b
    <2> QED BY <1>1, <1>5, <2>1 DEF Histories
  <1> HIDE DEF b
  <1>7. \A j \in DOMAIN b : j # 1 => b[j].calls = <<>> /\ b[j].role = "tool" /\ b[j].ref = ids[j - 1]
    BY <1>2, <1>4
  <1>8. Called(b) = Range(ids)
    <2>1. \A j \in DOMAIN b : j # 1 => Range(b[j].calls) = {}
      BY <1>7 DEF Range
    <2>2. Range(b[1].calls) = Range(ids)
      BY <1>1, <1>3
    <2>3. Called(b) \subseteq Range(ids)
      <3> SUFFICES ASSUME NEW j \in DOMAIN b PROVE Range(b[j].calls) \subseteq Range(ids)
        BY DEF Called
      <3>1. CASE j = 1
        BY <2>2, <3>1
      <3>2. CASE j # 1
        BY <2>1, <3>2
      <3> QED BY <3>1, <3>2
    <2>4. Range(b[1].calls) \subseteq Called(b)
      BY <1>1 DEF Called
    <2> QED BY <2>2, <2>3, <2>4
  <1>9. Responded(b) \subseteq Range(ids)
    BY <1>1, <1>2, <1>3, <1>7 DEF Responded, Range
  <1>10. OnceCalled(b)
    BY <1>1, <1>3, <1>7 DEF OnceCalled, Distinct
  <1>11. Speaks(b)
    BY <1>1, <1>3, <1>7 DEF Speaks
  <1>12. ASSUME NEW k \in 0 .. n PROVE Answered(b, 1, k)
    <2>1. k <= Len(ids) /\ \A j \in 1 .. k : j \in 1 .. n
      BY <1>0
    <2> QED BY <1>1, <1>3, <2>1 DEF Answered
  <1>13. InRuns(b)
    <2> SUFFICES ASSUME NEW i \in DOMAIN b, NEW j \in DOMAIN b,
                        b[j].role = "tool", b[j].ref \in Range(b[i].calls)
                 PROVE  i < j /\ Answered(b, i, j - i)
      BY DEF InRuns
    <2>1. i = 1
      BY <1>7 DEF Range
    <2>2. j # 1
      BY <1>1, <1>3
    <2>3. j > 1 /\ j - 1 \in 0 .. n
      BY <1>0, <1>2, <2>2
    <2> QED BY <1>12, <2>1, <2>3
  <1>14. Tidy(b)
    BY <1>10, <1>11, <1>13 DEF Tidy
  <1>15. ASSUME n = Len(ids) PROVE Wired(b)
    <2>1. ASSUME NEW i \in DOMAIN b PROVE Answered(b, i, Len(b[i].calls))
      <3>1. CASE i = 1
        <4>1. n \in 0 .. n /\ Len(b[i].calls) = n
          BY <1>0, <1>1, <1>3, <1>15, <3>1
        <4>2. Answered(b, 1, n)
          BY <1>12, <4>1
        <4> QED BY <3>1, <4>1, <4>2
      <3>2. CASE i # 1
        <4>1. b[i].calls = <<>>
          BY <1>7, <3>2
        <4> QED BY <4>1 DEF Answered
      <3> QED BY <3>1, <3>2
    <2> QED BY <1>8, <1>9, <1>14, <2>1 DEF Wired
  <1> QED BY <1>6, <1>8, <1>9, <1>14, <1>15 DEF b

\* One result more.
LEMMA BlockGrows ==
  ASSUME NEW ids \in Seq(Nat), Distinct(ids), NEW n \in Nat, n < Len(ids)
  PROVE  Block(ids, n + 1) = Append(Block(ids, n), ToolMsg(ids[n + 1]))
  <1> DEFINE b == Block(ids, n)
             c == Block(ids, n + 1)
             m == ToolMsg(ids[n + 1])
  <1>1. n \in 0 .. Len(ids) /\ n + 1 \in 0 .. Len(ids) /\ n + 1 \in 1 .. Len(ids)
    OBVIOUS
  <1>2. b \in Seq(Message) /\ c \in Seq(Message) /\ m \in Message
    BY <1>1, BlockIs, Spoken DEF Histories
  <1>3. Len(b) = n + 1 /\ Len(c) = n + 2 /\ c[n + 2] = m
        /\ \A j \in 1 .. (n + 1) : c[j] = b[j]
    <2>1. DOMAIN b = 1 .. (n + 1) /\ DOMAIN c = 1 .. (n + 2)
      BY <1>1 DEF Block
    <2>2. c[n + 2] = m /\ \A j \in 1 .. (n + 1) : c[j] = b[j]
      BY <1>1 DEF Block
    <2> HIDE DEF b, c, m
    <2> QED BY <1>1, <1>2, <2>1, <2>2
  <1> HIDE DEF b, c, m
  <1> QED
    <2> DEFINE d == Append(b, m)
    <2>1. d \in Seq(Message) /\ Len(d) = n + 2 /\ d[n + 2] = m /\ \A j \in 1 .. (n + 1) : d[j] = b[j]
      BY <1>1, <1>2, <1>3
    <2> HIDE DEF d
    <2>2. \A j \in 1 .. Len(c) : c[j] = d[j]
      <3> SUFFICES ASSUME NEW j \in 1 .. Len(c) PROVE c[j] = d[j]
        OBVIOUS
      <3>1. j = n + 2 \/ j \in 1 .. (n + 1)
        BY <1>1, <1>3
      <3> QED BY <1>3, <2>1, <3>1
    <2>3. c = d
      BY <1>2, <1>3, <2>1, <2>2, SeqEqual
    <2> QED BY <2>3 DEF b, c, d, m

\* The rest of the results completes a block.
LEMMA BlockFilled ==
  ASSUME NEW ids \in Seq(Nat), Distinct(ids), NEW n \in 0 .. Len(ids),
         NEW rest, rest = [j \in 1 .. (Len(ids) - n) |-> ToolMsg(ids[n + j])]
  PROVE  rest \in Histories /\ Block(ids, n) \o rest = Block(ids, Len(ids))
  <1> DEFINE b == Block(ids, n)
             c == Block(ids, Len(ids))
             L == Len(ids)
  <1>1. L \in Nat /\ n \in Nat /\ n <= L /\ L \in 0 .. L /\ L - n \in Nat
    OBVIOUS
  <1>2. \A j \in 1 .. (L - n) : n + j \in 1 .. L /\ ids[n + j] \in Nat
    BY <1>1
  <1>3. rest \in Seq(Message) /\ Len(rest) = L - n /\ \A j \in 1 .. (L - n) : rest[j] = ToolMsg(ids[n + j])
    <2>1. \A j \in 1 .. (L - n) : ToolMsg(ids[n + j]) \in Message
      BY <1>2, Spoken
    <2> QED BY <1>1, <2>1
  <1>4. b \in Seq(Message) /\ c \in Seq(Message)
    BY <1>1, BlockIs DEF Histories
  <1>5. /\ DOMAIN b = 1 .. (n + 1) /\ DOMAIN c = 1 .. (L + 1)
        /\ \A j \in 1 .. (n + 1) : c[j] = b[j]
        /\ \A j \in 1 .. (L - n) : c[(n + 1) + j] = ToolMsg(ids[n + j])
    <2>1. DOMAIN b = 1 .. (n + 1) /\ DOMAIN c = 1 .. (L + 1)
      BY <1>1 DEF Block
    <2>2. \A j \in 1 .. (n + 1) : c[j] = b[j]
      BY <1>1 DEF Block
    <2>3. ASSUME NEW j \in 1 .. (L - n) PROVE c[(n + 1) + j] = ToolMsg(ids[n + j])
      <3>1. (n + 1) + j \in 1 .. (L + 1) /\ (n + 1) + j # 1 /\ ((n + 1) + j) - 1 = n + j
        BY <1>1
      <3> QED BY <3>1 DEF Block
    <2> QED BY <2>1, <2>2, <2>3
  <1> HIDE DEF b, c, L
  <1>6. Len(b) = n + 1 /\ Len(c) = L + 1
    BY <1>1, <1>4, <1>5
  <1> DEFINE d == b \o rest
  <1>7. d \in Seq(Message) /\ Len(d) = L + 1 /\ (\A j \in 1 .. (n + 1) : d[j] = b[j])
        /\ \A j \in 1 .. (L - n) : d[(n + 1) + j] = rest[j]
    <2>1. b \in Histories /\ rest \in Histories /\ d = b \o rest
      BY <1>3, <1>4 DEF Histories
    <2> HIDE DEF d
    <2>2. d \in Histories /\ Len(d) = Len(b) + Len(rest)
      BY ONLY <2>1, Halves
    <2>5. \A j \in 1 .. Len(b) : d[j] = b[j]
      BY ONLY <2>1, Halves
    <2>3. \A j \in 1 .. Len(rest) : d[Len(b) + j] = rest[j]
      BY ONLY <2>1, Halves
    <2>4. Len(d) = L + 1
      BY <1>1, <1>3, <1>6, <2>2
    <2> QED BY <1>3, <1>6, <2>2, <2>3, <2>4, <2>5 DEF Histories
  <1> HIDE DEF d
  <1>8. ASSUME NEW j \in 1 .. Len(c) PROVE c[j] = d[j]
    <2>1. CASE j \in 1 .. (n + 1)
      BY <1>5, <1>7, <2>1
    <2>2. CASE ~ (j \in 1 .. (n + 1))
      <3> DEFINE k == j - (n + 1)
      <3>1. k \in 1 .. (L - n) /\ j = (n + 1) + k
        BY <1>1, <1>6, <2>2
      <3> HIDE DEF k
      <3>2. c[(n + 1) + k] = d[(n + 1) + k]
        BY <1>3, <1>5, <1>7, <3>1
      <3> QED BY <3>1, <3>2
    <2> QED BY <2>1, <2>2
  <1>9. c = d
    BY <1>4, <1>6, <1>7, <1>8, SeqEqual
  <1> QED BY <1>3, <1>9 DEF b, c, d, L, Histories

\* A history that ends with the results of the first n of the ids it called last.
Opened(h, ids, n) ==
  \E w \in Histories : /\ h = w \o Block(ids, n) /\ Tidy(w)
                       /\ (Called(w) \cup Responded(w)) \cap Range(ids) = {}

\* The same of a request: what is before the block is wired.
OpenedWired(h, ids, n) ==
  \E w \in Histories : /\ h = w \o Block(ids, n) /\ Wired(w)
                       /\ Called(w) \cap Range(ids) = {}

\* The message that calls the ids opens the block.
LEMMA OpenedBegins ==
  ASSUME NEW h \in Histories, NEW ids \in Seq(Nat)
  PROVE  /\ Tidy(h) /\ (Called(h) \cup Responded(h)) \cap Range(ids) = {}
              => Opened(Append(h, Reply(ids)), ids, 0)
         /\ Wired(h) /\ Called(h) \cap Range(ids) = {}
              => OpenedWired(Append(h, Reply(ids)), ids, 0)
  <1>1. Block(ids, 0) = <<Reply(ids)>>
    <2>1. Block(ids, 0) = [j \in 1 .. 1 |-> Reply(ids)]
      BY DEF Block
    <2> QED BY <2>1
  <1>2. Append(h, Reply(ids)) = h \o Block(ids, 0)
    BY <1>1, Spoken, Appended
  <1> QED BY <1>2 DEF Opened, OpenedWired

\* An open history is tidy, and wired with its last result.
LEMMA OpenedIs ==
  ASSUME NEW h, NEW ids \in Seq(Nat), Distinct(ids), NEW n \in 0 .. Len(ids)
  PROVE  /\ OpenedWired(h, ids, n) => Opened(h, ids, n)
         /\ Opened(h, ids, n) => h \in Histories /\ Tidy(h)
         /\ OpenedWired(h, ids, n) /\ n = Len(ids) => Wired(h)
  <1> DEFINE b == Block(ids, n)
  <1>1. b \in Histories /\ Tidy(b) /\ Called(b) = Range(ids) /\ Responded(b) \subseteq Range(ids)
        /\ (n = Len(ids) => Wired(b))
    BY BlockIs
  <1>2. ASSUME OpenedWired(h, ids, n) PROVE Opened(h, ids, n)
    BY <1>2 DEF Opened, OpenedWired, Wired
  <1>3. ASSUME Opened(h, ids, n) PROVE h \in Histories /\ Tidy(h)
    <2>1. PICK w \in Histories : /\ h = w \o b /\ Tidy(w)
                                 /\ (Called(w) \cup Responded(w)) \cap Range(ids) = {}
      BY <1>3 DEF Opened
    <2> HIDE DEF b
    <2>2. w \o b \in Histories
      BY <1>1, Concatenated
    <2>3. Tidy(w \o b)
      BY <1>1, <2>1, TidyJoined
    <2> QED BY <2>1, <2>2, <2>3
  <1>4. ASSUME OpenedWired(h, ids, n), n = Len(ids) PROVE Wired(h)
    <2>1. PICK w \in Histories : h = w \o b /\ Wired(w) /\ Called(w) \cap Range(ids) = {}
      BY <1>4 DEF OpenedWired
    <2> HIDE DEF b
    <2>2. Wired(w \o b)
      BY <1>1, <1>4, <2>1, WiredJoined
    <2> QED BY <2>1, <2>2
  <1> QED BY <1>2, <1>3, <1>4

\* The next result keeps it open.
LEMMA OpenedNext ==
  ASSUME NEW h, NEW ids \in Seq(Nat), Distinct(ids), NEW n \in Nat, n < Len(ids)
  PROVE  /\ Opened(h, ids, n) => Opened(Append(h, ToolMsg(ids[n + 1])), ids, n + 1)
         /\ OpenedWired(h, ids, n) => OpenedWired(Append(h, ToolMsg(ids[n + 1])), ids, n + 1)
  <1> DEFINE m == ToolMsg(ids[n + 1])
             b == Block(ids, n)
             c == Block(ids, n + 1)
  <1>1. m \in Message
    BY Spoken
  <1>2. b \in Histories
    <2>1. n \in 0 .. Len(ids)
      OBVIOUS
    <2> QED BY <2>1, BlockIs
  <1>3. c = Append(b, m)
    BY BlockGrows
  <1> HIDE DEF m, b, c
  <1>4. ASSUME NEW w \in Histories, h = w \o b PROVE Append(h, m) = w \o c
    <2>1. c = b \o <<m>> /\ <<m>> \in Histories
      BY <1>1, <1>2, <1>3, Appended, Single
    <2>2. h \in Histories
      BY <1>2, <1>4, Concatenated
    <2>3. Append(h, m) = h \o <<m>>
      BY <1>1, <2>2, Appended
    <2>4. (w \o b) \o <<m>> = w \o (b \o <<m>>)
      BY <1>2, <2>1, ConcatAssociative DEF Histories
    <2> QED BY <1>4, <2>1, <2>3, <2>4
  <1> QED BY <1>4 DEF Opened, OpenedWired, b, c, m

-----------------------------------------------------------------------------
(* The contract, and the runs of results in a tidy history                 *)

\* A bounded set of naturals has a greatest element, and Max is it.
LEMMA Greatest ==
  ASSUME NEW S \in SUBSET Nat, S # {}, NEW b \in Nat, \A k \in S : k <= b
  PROVE  Max(S) \in S /\ \A k \in S : k <= Max(S)
  <1> DEFINE T == {n \in Nat : \A k \in S : k <= n}
  <1>1. T \in SUBSET Nat /\ T # {}
    OBVIOUS
  <1>2. PICK m \in T : \A n \in T : m <= n
    BY <1>1, Least
  <1>3. m \in S
    <2> SUFFICES ASSUME m \notin S PROVE FALSE
      OBVIOUS
    <2>1. PICK k : k \in S
      OBVIOUS
    <2>2. m - 1 \in Nat
      BY <1>2, <2>1
    <2>3. \A j \in S : j <= m - 1
      BY <1>2
    <2>4. m - 1 \in T
      BY <2>2, <2>3
    <2> QED BY <1>2, <2>4
  <1>4. \A k \in S : m >= k
    BY <1>2
  <1>5. Max(S) \in S /\ \A k \in S : Max(S) >= k
    BY <1>3, <1>4 DEF Max
  <1> QED BY <1>5

\* A wired history meets the contract.
LEMMA WiredIsOK ==
  ASSUME NEW h \in Histories, Wired(h)
  PROVE  WireOK(h)
  <1> DEFINE Answers(i) == (i + 1) .. (i + Len(h[i].calls))
             callers == {i \in DOMAIN h : h[i].calls # <<>>}
  <1>0. DOMAIN h = 1 .. Len(h) /\ Len(h) \in Nat
    BY DEF Histories
  <1>1. ASSUME NEW i \in callers
        PROVE  /\ Answers(i) \subseteq DOMAIN h
               /\ \A j \in Answers(i) : h[j].role = "tool"
               /\ {h[j].ref : j \in Answers(i)} = Range(h[i].calls)
    <2> DEFINE c == h[i].calls
    <2>1. i \in Nat /\ Len(c) \in Nat /\ DOMAIN c = 1 .. Len(c)
      BY <1>0, CallsIn
    <2>2. \A k \in 1 .. Len(c) : i + k \in DOMAIN h /\ h[i + k] = ToolMsg(c[k])
      BY DEF Wired, Answered
    <2> HIDE DEF c
    <2>3. \A k \in 1 .. Len(c) : h[i + k].role = "tool" /\ h[i + k].ref = c[k]
      <3>1. \A x : ToolMsg(x).role = "tool" /\ ToolMsg(x).ref = x
        BY DEF ToolMsg
      <3> QED BY <2>2, <3>1
    <2>4. \A j \in (i + 1) .. (i + Len(c)) : j - i \in 1 .. Len(c) /\ i + (j - i) = j
      BY <2>1
    <2>5. \A k \in 1 .. Len(c) : i + k \in (i + 1) .. (i + Len(c))
      BY <2>1
    <2>6. ASSUME NEW j \in (i + 1) .. (i + Len(c))
          PROVE  j \in DOMAIN h /\ h[j].role = "tool" /\ h[j].ref \in Range(c)
      <3> DEFINE k == j - i
      <3>1. k \in 1 .. Len(c) /\ j = i + k
        BY <2>4
      <3> HIDE DEF k
      <3> QED BY <2>1, <2>2, <2>3, <3>1 DEF Range
    <2>7. ASSUME NEW x \in Range(c) PROVE \E j \in (i + 1) .. (i + Len(c)) : h[j].ref = x
      <3>1. PICK k \in 1 .. Len(c) : c[k] = x
        BY <2>1 DEF Range
      <3> QED BY <2>3, <2>5, <3>1
    <2>8. {h[j].ref : j \in (i + 1) .. (i + Len(c))} = Range(c)
      BY <2>6, <2>7
    <2> QED BY <2>6, <2>8 DEF c
  <1>2. ASSUME NEW j \in DOMAIN h, h[j].role = "tool" PROVE \E i \in callers : j \in Answers(i)
    <2>1. h[j].ref \in Called(h)
      BY <1>2, CallsIn DEF Wired
    <2>2. PICK i \in DOMAIN h : h[j].ref \in Range(h[i].calls)
      BY <2>1 DEF Called
    <2>3. i < j /\ Answered(h, i, j - i)
      BY <1>2, <2>2 DEF Wired, Tidy, InRuns
    <2>4. i \in callers
      BY <2>2 DEF Range
    <2>5. j - i <= Len(h[i].calls) /\ Len(h[i].calls) \in Nat
      BY <2>3, CallsIn DEF Answered
    <2>6. j \in Answers(i)
      BY <1>0, <2>3, <2>5
    <2> QED BY <2>4, <2>6
  <1> QED BY <1>1, <1>2 DEF WireOK

\* The results right behind a caller are those of its first calls, in order, and
\* no other result of it is in a tidy history.
LEMMA RunIs ==
  ASSUME NEW h \in Histories, Tidy(h), NEW i \in DOMAIN h
  PROVE  /\ RunEnd(h, i) \in i .. Len(h) /\ RunEnd(h, i) - i \in 0 .. Len(h[i].calls)
         /\ Answered(h, i, RunEnd(h, i) - i)
         /\ \A j \in DOMAIN h : h[j].role = "tool" /\ h[j].ref \in Range(h[i].calls)
                                  <=> j \in (i + 1) .. RunEnd(h, i)
         /\ \A j \in (i + 1) .. RunEnd(h, i) :
              /\ j \in DOMAIN h /\ j - i \in 1 .. Len(h[i].calls)
              /\ h[j] = ToolMsg(h[i].calls[j - i])
  <1> DEFINE Own(j) == h[j].role = "tool" /\ h[j].ref \in Range(h[i].calls)
             S == {k \in i .. Len(h) : \A j \in (i + 1) .. k : Own(j)}
             L == Len(h[i].calls)
             e == RunEnd(h, i)
  <1>0. DOMAIN h = 1 .. Len(h) /\ Len(h) \in Nat /\ i \in Nat /\ i \in 1 .. Len(h)
        /\ L \in Nat /\ DOMAIN h[i].calls = 1 .. L
    BY CallsIn DEF Histories
  <1>1. e = Max(S)
    BY DEF RunEnd
  <1>2. i \in S
    BY <1>0
  <1>3. S \in SUBSET Nat /\ \A k \in S : k <= Len(h)
    BY <1>0
  <1>4. Max(S) \in S /\ \A k \in S : k <= Max(S)
    BY <1>0, <1>2, <1>3, Greatest
  <1> HIDE DEF S, e
  <1>5. e \in i .. Len(h) /\ \A j \in (i + 1) .. e : Own(j)
    BY <1>1, <1>4 DEF S
  <1>6. \A k \in i .. Len(h) : (\A j \in (i + 1) .. k : Own(j)) => k <= e
    BY <1>1, <1>4 DEF S
  <1> HIDE DEF L
  <1>7. \A j \in DOMAIN h : Own(j) => i < j /\ Answered(h, i, j - i)
    BY DEF Tidy, InRuns
  <1>8. e - i \in 0 .. L /\ Answered(h, i, e - i)
    <2>1. CASE e = i
      BY <1>0, <2>1 DEF Answered, L
    <2>2. CASE e # i
      <3>1. e \in DOMAIN h /\ e \in (i + 1) .. e
        BY <1>0, <1>5, <2>2
      <3>2. Answered(h, i, e - i)
        BY <1>5, <1>7, <3>1
      <3>3. e - i <= L
        BY <3>2 DEF Answered, L
      <3> QED BY <1>0, <3>1, <3>2, <3>3
    <2> QED BY <2>1, <2>2
  <1>9. ASSUME NEW j \in (i + 1) .. e
        PROVE  j \in DOMAIN h /\ j - i \in 1 .. L /\ h[j] = ToolMsg(h[i].calls[j - i])
    <2> DEFINE k == j - i
    <2>1. k \in 1 .. (e - i) /\ i + k = j /\ k \in 1 .. L
      BY <1>0, <1>5, <1>8
    <2> HIDE DEF k
    <2>2. i + k \in DOMAIN h /\ h[i + k] = ToolMsg(h[i].calls[k])
      BY <1>8, <2>1 DEF Answered
    <2> QED BY <2>1, <2>2 DEF k
  <1>10. ASSUME NEW j \in DOMAIN h, Own(j) PROVE j \in (i + 1) .. e
    <2>1. i < j /\ Answered(h, i, j - i)
      BY <1>7, <1>10
    <2>2. ASSUME NEW q \in (i + 1) .. j PROVE Own(q)
      <3> DEFINE k == q - i
      <3>1. k \in 1 .. (j - i) /\ i + k = q
        BY <1>0, <2>1
      <3> HIDE DEF k
      <3>2. j - i <= L
        BY <2>1 DEF Answered, L
      <3>3. k \in 1 .. L
        BY <1>0, <3>1, <3>2
      <3>4. h[i + k] = ToolMsg(h[i].calls[k])
        BY <2>1, <3>1 DEF Answered
      <3>5. h[q].role = "tool" /\ h[q].ref = h[i].calls[k]
        BY <3>1, <3>4 DEF ToolMsg
      <3> QED BY <1>0, <3>3, <3>5 DEF Range
    <2>3. j <= e
      BY <1>0, <1>6, <2>1, <2>2
    <2> QED BY <1>0, <1>5, <2>1, <2>3
  <1> QED BY <1>5, <1>8, <1>9, <1>10 DEF e, L

\* What holds message m: a caller whose run m is in.
Holds(h, i, m) == i \in DOMAIN h /\ h[i].calls # <<>> /\ i <= m /\ m <= RunEnd(h, i)

\* The runs of two callers are apart.
LEMMA RunsApart ==
  ASSUME NEW h \in Histories, Tidy(h), NEW m \in DOMAIN h, NEW i, NEW j, Holds(h, i, m), Holds(h, j, m)
  PROVE  i = j
  <1>0. DOMAIN h \subseteq Nat /\ i \in DOMAIN h /\ j \in DOMAIN h /\ i <= m /\ j <= m
        /\ m <= RunEnd(h, i) /\ m <= RunEnd(h, j) /\ h[i].calls # <<>> /\ h[j].calls # <<>>
    BY DEF Holds, Histories
  <1>1. RunEnd(h, i) \in Nat /\ RunEnd(h, j) \in Nat
    BY <1>0, RunIs DEF Histories
  <1>2. ~ (i < j)
    <2> SUFFICES ASSUME i < j PROVE FALSE
      OBVIOUS
    <2>1. j \in (i + 1) .. RunEnd(h, i)
      BY <1>0, <1>1
    <2>2. h[j] = ToolMsg(h[i].calls[j - i])
      BY <1>0, <2>1, RunIs
    <2> QED BY <1>0, <2>2 DEF ToolMsg
  <1>3. ~ (j < i)
    <2> SUFFICES ASSUME j < i PROVE FALSE
      OBVIOUS
    <2>1. i \in (j + 1) .. RunEnd(h, j)
      BY <1>0, <1>1
    <2>2. h[i] = ToolMsg(h[j].calls[i - j])
      BY <1>0, <2>1, RunIs
    <2> QED BY <1>0, <2>2 DEF ToolMsg
  <1> QED BY <1>0, <1>2, <1>3

\* The calls of a caller differ from each other and from what others call.
LEMMA CallsApart ==
  ASSUME NEW h \in Histories, Tidy(h), NEW i \in DOMAIN h
  PROVE  /\ h[i].calls \in Seq(Nat) /\ Distinct(h[i].calls)
         /\ \A j \in DOMAIN h : j # i => Range(h[i].calls) \cap Range(h[j].calls) = {}
         /\ h[i].calls # <<>> => h[i] = Reply(h[i].calls)
  BY CallsIn DEF Tidy, OnceCalled, Speaks, Distinct, Range

\* Answered are the calls whose results are behind the caller.
LEMMA RespondedIs ==
  ASSUME NEW h \in Histories, Tidy(h), NEW i \in DOMAIN h, NEW k \in DOMAIN h[i].calls
  PROVE  h[i].calls[k] \in Responded(h) <=> k <= RunEnd(h, i) - i
  <1> DEFINE c == h[i].calls
             e == RunEnd(h, i)
  <1>0. DOMAIN h = 1 .. Len(h) /\ i \in Nat /\ DOMAIN c = 1 .. Len(c) /\ Len(c) \in Nat /\ k \in 1 .. Len(c)
        /\ Len(h) \in Nat
    BY CallsIn DEF Histories
  <1>1. /\ e \in i .. Len(h) /\ Answered(h, i, e - i)
        /\ \A j \in DOMAIN h : h[j].role = "tool" /\ h[j].ref \in Range(c) => j \in (i + 1) .. e
        /\ \A j \in (i + 1) .. e : j - i \in 1 .. Len(c) /\ h[j] = ToolMsg(c[j - i])
    BY RunIs
  <1>2. Distinct(c)
    BY CallsApart
  <1> HIDE DEF c, e
  <1>3. ASSUME c[k] \in Responded(h) PROVE k <= e - i
    <2>1. PICK j \in DOMAIN h : h[j].role = "tool" /\ h[j].ref = c[k]
      BY <1>3 DEF Responded, Range
    <2>2. j \in (i + 1) .. e
      BY <1>0, <1>1, <2>1 DEF Range
    <2>3. j - i \in 1 .. Len(c) /\ h[j] = ToolMsg(c[j - i])
      BY <1>1, <2>2
    <2>4. c[j - i] = c[k]
      BY <2>1, <2>3 DEF ToolMsg
    <2>5. j - i = k
      BY <1>0, <1>2, <2>3, <2>4 DEF Distinct
    <2> QED BY <1>0, <1>1, <2>2, <2>5
  <1>4. ASSUME k <= e - i PROVE c[k] \in Responded(h)
    <2>1. k \in 1 .. (e - i)
      BY <1>0, <1>1, <1>4
    <2>2. i + k \in DOMAIN h /\ h[i + k] = ToolMsg(c[k])
      BY <1>1, <2>1 DEF Answered, c
    <2>3. h[i + k].role = "tool" /\ h[i + k].ref = c[k]
      BY <2>2 DEF ToolMsg
    <2>4. h[i + k] \in Range(h)
      BY <2>2 DEF Range
    <2> QED BY <2>3, <2>4 DEF Responded
  <1> QED BY <1>3, <1>4 DEF c, e

-----------------------------------------------------------------------------
(* What the sanitizer makes of a message                                   *)

\* The partial concatenations, one element more.
LEMMA JoinNext ==
  ASSUME NEW e, NEW L \in Nat, NEW g, IsJoin(g, e, L), NEW n \in Nat, n + 1 <= L
  PROVE  g[n + 1] = IF n = 0 THEN e[n + 1] ELSE g[n] \o e[n + 1]
  <1>1. n + 1 \in 1 .. L /\ (n + 1) - 1 = n /\ (n = 0 <=> n + 1 = 1)
    OBVIOUS
  <1>2. g[n + 1] = IF n + 1 = 1 THEN e[n + 1] ELSE g[(n + 1) - 1] \o e[n + 1]
    BY ONLY <1>1, IsJoin(g, e, L) DEF IsJoin
  <1> QED BY <1>1, <1>2

\* A filter that drops the first p elements and no other.
LEMMA LastKept ==
  ASSUME NEW c \in Seq(Nat), c # <<>>, NEW R, NEW p \in 0 .. Len(c),
         \A k \in 1 .. Len(c) : c[k] \in R <=> k <= p
  PROVE  FlattenSeq([k \in DOMAIN c |-> IF c[k] \notin R THEN <<c[k]>> ELSE <<>>])
           = [k \in 1 .. (Len(c) - p) |-> c[p + k]]
  <1> DEFINE L == Len(c)
             e == [k \in DOMAIN c |-> IF c[k] \notin R THEN <<c[k]>> ELSE <<>>]
             Rest(n) == [k \in 1 .. (n - p) |-> c[p + k]]
  <1>0. L \in Nat /\ L # 0 /\ DOMAIN c = 1 .. L /\ p \in Nat /\ p <= L
    BY EmptySeq
  <1>1. DOMAIN e = 1 .. L /\ Len(e) = L
    BY <1>0
  <1>2. ASSUME NEW k \in 1 .. L PROVE e[k] = IF k <= p THEN <<>> ELSE <<c[k]>>
    BY <1>0
  <1> HIDE DEF e
  <1>3. PICK g : IsJoin(g, e, L) /\ FlattenSeq(e) = g[L]
    BY <1>0, <1>1, FlattenIsJoin
  <1> DEFINE Good(n) == g[n] = IF n <= p THEN <<>> ELSE Rest(n)
             S == {n \in Nat : 0 < n /\ n <= L => Good(n)}
  <1> HIDE DEF L
  <1>4. 0 \in S
    OBVIOUS
  <1>5. ASSUME NEW n \in Nat, n \in S PROVE n + 1 \in S
    <2> SUFFICES ASSUME n + 1 <= L PROVE Good(n + 1)
      OBVIOUS
    <2>1. g[n + 1] = IF n = 0 THEN e[n + 1] ELSE g[n] \o e[n + 1]
      BY <1>0, <1>3, JoinNext
    <2>2. n + 1 \in 1 .. L
      BY <1>0
    <2>3. e[n + 1] = IF n + 1 <= p THEN <<>> ELSE <<c[n + 1]>>
      BY <1>2, <2>2
    <2>4. n # 0 => Good(n)
      BY <1>0, <1>5
    <2>5. c[n + 1] \in Nat
      BY <2>2 DEF L
    <2>6. CASE n + 1 <= p
      BY <1>0, <2>1, <2>3, <2>4, <2>6
    <2>7. CASE ~ (n + 1 <= p)
      <3> DEFINE a == IF n <= p THEN <<>> ELSE Rest(n)
                 x == c[n + 1]
                 b == Rest(n + 1)
      <3>1. e[n + 1] = <<x>>
        BY <2>3, <2>7
      <3>2. n # 0 => g[n] = a
        BY <2>4
      <3>3. a \in Seq(Nat) /\ Len(a) = n - p /\ \A k \in 1 .. (n - p) : a[k] = c[p + k]
        <4>1. CASE n <= p
          <5>1. n = p
            BY <1>0, <2>7, <4>1
          <5> QED BY <4>1, <5>1
        <4>2. CASE ~ (n <= p)
          <5>1. n - p \in Nat /\ \A k \in 1 .. (n - p) : p + k \in 1 .. L
            BY <1>0, <2>2, <4>2
          <5>2. \A k \in 1 .. (n - p) : c[p + k] \in Nat
            BY <5>1 DEF L
          <5>3. a = Rest(n)
            BY <4>2
          <5> HIDE DEF a
          <5> QED BY <5>1, <5>2, <5>3
        <4> QED BY <4>1, <4>2
      <3>4. b \in Seq(Nat) /\ Len(b) = (n - p) + 1 /\ (\A k \in 1 .. (n - p) : b[k] = c[p + k]) /\ b[(n - p) + 1] = x
        <4>1. (n + 1) - p \in Nat /\ (n + 1) - p = (n - p) + 1 /\ p + ((n - p) + 1) = n + 1 /\ n - p \in Nat
          BY <1>0, <2>7
        <4>2. \A k \in 1 .. ((n + 1) - p) : p + k \in 1 .. L
          BY <1>0, <2>2
        <4>3. \A k \in 1 .. ((n + 1) - p) : c[p + k] \in Nat
          BY <4>2 DEF L
        <4> QED BY <4>1, <4>3
      <3> HIDE DEF a, b, x
      <3>5. n - p \in Nat /\ x \in Nat
        BY <1>0, <2>5, <2>7 DEF x
      <3>6. b = a \o <<x>>
        <4> DEFINE d == a \o <<x>>
        <4>1. d \in Seq(Nat) /\ Len(d) = (n - p) + 1
              /\ (\A k \in 1 .. (n - p) : d[k] = a[k]) /\ d[(n - p) + 1] = x
          <5> DEFINE r == n - p
          <5>1. a \in Seq(Nat) /\ Len(a) = r /\ r \in Nat /\ x \in Nat
            BY <3>3, <3>5
          <5> HIDE DEF d, r
          <5>2. d = Append(a, x)
            BY <5>1, AppendIsConcat DEF d
          <5>3. d \in Seq(Nat) /\ Len(d) = r + 1 /\ (\A k \in 1 .. r : d[k] = a[k]) /\ d[r + 1] = x
            BY ONLY <5>1, <5>2
          <5> QED BY <5>3 DEF r
        <4> HIDE DEF d
        <4>2. \A k \in 1 .. Len(b) : k \in 1 .. (n - p) \/ k = (n - p) + 1
          BY <3>4, <3>5
        <4>3. \A k \in 1 .. Len(b) : b[k] = d[k]
          BY <3>3, <3>4, <4>1, <4>2
        <4>4. b = d
          BY <3>4, <4>1, <4>3, SeqEqual
        <4> QED BY <4>4 DEF d
      <3>7. g[n + 1] = b
        <4>1. CASE n = 0
          <5>1. a = <<>> /\ g[n + 1] = <<x>>
            BY <1>0, <2>1, <3>1, <4>1 DEF a
          <5>2. <<>> \o <<x>> = <<x>>
            OBVIOUS
          <5> QED BY <3>6, <5>1, <5>2
        <4>2. CASE n # 0
          BY <2>1, <3>1, <3>2, <3>6, <4>2
        <4> QED BY <4>1, <4>2
      <3> QED BY <2>7, <3>7 DEF b
    <2> QED BY <2>6, <2>7
  <1> HIDE DEF S
  <1>6. L \in S
    BY <1>0, <1>4, <1>5, SetInduction
  <1>7. Good(L)
    BY <1>0, <1>6 DEF S
  <1>8. g[L] = Rest(L)
    <2>1. CASE L <= p
      <3>1. L - p = 0
        BY <1>0, <2>1
      <3> QED BY <1>7, <2>1, <3>1
    <2>2. CASE ~ (L <= p)
      BY <1>7, <2>2
    <2> QED BY <2>1, <2>2
  <1> QED BY <1>3, <1>8 DEF e, L

\* The results made up for a caller are those of its last calls, in order.
LEMMA SyntheticIs ==
  ASSUME NEW h \in Histories, Tidy(h), NEW i \in DOMAIN h, h[i].calls # <<>>,
         NEW c, c = h[i].calls, NEW p, p = RunEnd(h, i) - i
  PROVE  Synthetic(h, i) = [k \in 1 .. (Len(c) - p) |-> ToolMsg(c[p + k])]
  <1> DEFINE R == Responded(h)
             missing == FlattenSeq([k \in DOMAIN c |-> IF c[k] \notin R THEN <<c[k]>> ELSE <<>>])
             rest == [k \in 1 .. (Len(c) - p) |-> c[p + k]]
  <1>1. c \in Seq(Nat) /\ c # <<>> /\ p \in 0 .. Len(c)
    BY RunIs, CallsIn
  <1>2. \A k \in 1 .. Len(c) : c[k] \in R <=> k <= p
    <2>1. DOMAIN c = 1 .. Len(c)
      BY <1>1
    <2> QED BY <2>1, RespondedIs
  <1>3. Synthetic(h, i) = [n \in DOMAIN missing |-> ToolMsg(missing[n])]
    BY DEF Synthetic, Only
  <1> HIDE DEF R
  <1>4. missing = rest
    BY <1>1, <1>2, LastKept
  <1> HIDE DEF missing
  <1>5. DOMAIN rest = 1 .. (Len(c) - p) /\ \A k \in 1 .. (Len(c) - p) : rest[k] = c[p + k]
    OBVIOUS
  <1> HIDE DEF rest
  <1> QED BY <1>3, <1>4, <1>5

\* What a message becomes that no caller's run holds: it is no caller, and neither is
\* what it becomes a result.
LEMMA EmittedAlone ==
  ASSUME NEW h \in Histories, Tidy(h), NEW m \in DOMAIN h, \A i : ~ Holds(h, i, m)
  PROVE  h[m].calls = <<>>
         /\ \E x \in Message : Emit(h, m) = <<x>> /\ x.calls = <<>> /\ x.role # "tool"
  <1>0. DOMAIN h = 1 .. Len(h) /\ Len(h) \in Nat /\ m \in Nat /\ h[m] \in Message
    BY DEF Histories
  <1>1. h[m].calls = <<>>
    <2>1. m <= RunEnd(h, m) /\ m <= m
      BY <1>0, RunIs
    <2> QED BY <2>1 DEF Holds
  <1>2. {i \in 1 .. m : h[i].calls # <<>> /\ RunEnd(h, i) = m} = {}
    <2> SUFFICES ASSUME NEW i \in 1 .. m, h[i].calls # <<>>, RunEnd(h, i) = m PROVE FALSE
      OBVIOUS
    <2>1. i \in DOMAIN h /\ i <= m /\ m <= RunEnd(h, i)
      BY <1>0
    <2> QED BY <2>1 DEF Holds
  <1> DEFINE x == Item(h, m)
  <1>3. Emit(h, m) = <<x>> \o <<>>
    BY <1>2 DEF Emit
  <1>4. ASSUME h[m].role = "tool" PROVE h[m].ref \notin Known(h, m)
    <2> SUFFICES ASSUME NEW i \in 1 .. (m - 1), h[m].ref \in Range(h[i].calls) PROVE FALSE
      BY DEF Known
    <2>1. i \in DOMAIN h /\ i <= m
      BY <1>0
    <2>2. m \in (i + 1) .. RunEnd(h, i) /\ RunEnd(h, i) \in Nat
      BY <1>0, <1>4, <2>1, RunIs
    <2>3. h[i].calls # <<>>
      BY DEF Range
    <2>4. m <= RunEnd(h, i)
      BY <1>0, <2>1, <2>2
    <2> QED BY <2>1, <2>3, <2>4 DEF Holds
  <1>5. x \in Message /\ x.calls = <<>> /\ x.role # "tool"
    <2>1. CASE h[m].role = "tool"
      <3>1. x = Output(h[m].ref)
        BY <1>4, <2>1 DEF Item
      <3>2. h[m].ref \in Nat
        BY <1>0 DEF Message
      <3> HIDE DEF x
      <3> QED BY <3>1, <3>2 DEF Output, Message, Roles
    <2>2. CASE h[m].role # "tool"
      BY <1>0, <1>1, <2>2 DEF Item
    <2> QED BY <2>1, <2>2
  <1> HIDE DEF x
  <1>6. Emit(h, m) = <<x>>
    BY <1>3, <1>5
  <1> QED BY <1>1, <1>5, <1>6

\* The messages of a caller's run: the caller, then the result of each of its calls.
InRun(h, i, m) == h[m] = IF m = i THEN Reply(h[i].calls) ELSE ToolMsg(h[i].calls[m - i])

\* What is emitted for one: the message and, at the end of the run, the missing results.
EmitsInRun(h, i, m) ==
  Emit(h, m) = <<h[m]>> \o (IF RunEnd(h, i) = m THEN Synthetic(h, i) ELSE <<>>)

\* What a message becomes that the run of caller i holds: it stays, and at the end of
\* the run the results follow that are missing.
LEMMA EmittedInRun ==
  ASSUME NEW h \in Histories, Tidy(h), NEW m \in DOMAIN h, NEW i, Holds(h, i, m)
  PROVE  EmitsInRun(h, i, m) /\ InRun(h, i, m)
  <1> USE DEF EmitsInRun, InRun
  <1>0. DOMAIN h = 1 .. Len(h) /\ Len(h) \in Nat /\ m \in Nat /\ h[m] \in Message
        /\ i \in DOMAIN h /\ i \in Nat /\ i <= m /\ m <= RunEnd(h, i) /\ h[i].calls # <<>>
        /\ RunEnd(h, i) \in Nat
    <2>1. DOMAIN h = 1 .. Len(h) /\ Len(h) \in Nat /\ m \in Nat /\ h[m] \in Message
          /\ i \in DOMAIN h /\ i \in Nat /\ i <= m /\ m <= RunEnd(h, i) /\ h[i].calls # <<>>
      BY DEF Holds, Histories
    <2> QED BY <2>1, RunIs
  <1>1. h[m] = IF m = i THEN Reply(h[i].calls) ELSE ToolMsg(h[i].calls[m - i])
    <2>1. CASE m = i
      BY <1>0, <2>1, CallsApart
    <2>2. CASE m # i
      <3>1. m \in (i + 1) .. RunEnd(h, i)
        BY <1>0, <2>2
      <3> QED BY <1>0, <2>2, <3>1, RunIs
    <2> QED BY <2>1, <2>2
  <1>2. Item(h, m) = h[m]
    <2>1. CASE m = i
      <3>1. h[m].role = "assistant"
        BY <1>1, <2>1 DEF Reply
      <3> QED BY <3>1 DEF Item
    <2>2. CASE m # i
      <3>1. m \in (i + 1) .. RunEnd(h, i) /\ i \in 1 .. (m - 1)
        BY <1>0, <2>2
      <3>2. h[m].ref \in Range(h[i].calls)
        BY <1>0, <3>1, RunIs
      <3>3. h[m].ref \in Known(h, m)
        BY <3>1, <3>2 DEF Known
      <3> QED BY <3>3 DEF Item
    <2> QED BY <2>1, <2>2
  <1> DEFINE opener == {j \in 1 .. m : h[j].calls # <<>> /\ RunEnd(h, j) = m}
  <1>3. opener = IF RunEnd(h, i) = m THEN {i} ELSE {}
    <2>1. ASSUME NEW j \in opener PROVE j = i
      <3>1. Holds(h, j, m)
        BY <1>0 DEF Holds
      <3> QED BY <3>1, RunsApart
    <2>2. RunEnd(h, i) = m => i \in opener
      BY <1>0
    <2>3. i \in opener => RunEnd(h, i) = m
      OBVIOUS
    <2> HIDE DEF opener
    <2> QED BY <2>1, <2>2, <2>3
  <1>4. Emit(h, m) = <<Item(h, m)>> \o
          (IF opener = {} THEN <<>> ELSE Synthetic(h, CHOOSE j \in opener : TRUE))
    BY DEF Emit
  <1> HIDE DEF opener
  <1>5. CASE RunEnd(h, i) = m
    <2>1. (CHOOSE j \in {i} : TRUE) = i
      OBVIOUS
    <2> QED BY <1>1, <1>2, <1>3, <1>4, <1>5, <2>1
  <1>6. CASE RunEnd(h, i) # m
    BY <1>1, <1>2, <1>3, <1>4, <1>6
  <1> QED BY <1>5, <1>6

-----------------------------------------------------------------------------
(* The sanitizer wires a tidy history                                      *)

\* The ids that the first n messages call.
CalledTo(h, n) == UNION {Range(h[i].calls) : i \in 1 .. n}

\* The run of caller i goes on after message n.
Awaits(h, i, n) == i \in DOMAIN h /\ h[i].calls # <<>> /\ i <= n /\ n < RunEnd(h, i)

\* g is what the sanitizer has made of the first n messages of h.
MadeWell(h, g, n) ==
  /\ g \in Histories
  /\ Called(g) = CalledTo(h, n)
  /\ \A i \in DOMAIN h : Awaits(h, i, n) => OpenedWired(g, h[i].calls, n - i)
  /\ (\A i \in DOMAIN h : ~ Awaits(h, i, n)) => Wired(g)

\* One message more.
LEMMA CalledToNext ==
  ASSUME NEW h \in Histories, NEW n \in Nat, n + 1 <= Len(h)
  PROVE  CalledTo(h, n + 1) = CalledTo(h, n) \cup Range(h[n + 1].calls)
  <1>1. 1 .. (n + 1) = (1 .. n) \cup {n + 1}
    OBVIOUS
  <1> QED BY <1>1 DEF CalledTo

\* What one message calls.
LEMMA CalledOne ==
  ASSUME NEW m \in Message
  PROVE  Called(<<m>>) = Range(m.calls)
  <1>1. DOMAIN <<m>> = {1} /\ <<m>>[1] = m
    OBVIOUS
  <1> DEFINE h == <<m>>
  <1> HIDE DEF h
  <1>2. DOMAIN h = {1} /\ h[1] = m => Called(h) = Range(m.calls)
    BY DEF Called
  <1> QED BY <1>1, <1>2 DEF h

\* The caller that awaits results after message n is the one whose run holds the next message.
LEMMA HeldNext ==
  ASSUME NEW h \in Histories, Tidy(h), NEW n \in Nat, NEW m, m = n + 1, m \in DOMAIN h, NEW i \in DOMAIN h
  PROVE  /\ Awaits(h, i, n) => Holds(h, i, m)
         /\ Awaits(h, i, m) <=> Holds(h, i, m) /\ RunEnd(h, i) # m
         /\ Holds(h, i, m) /\ m # i => Awaits(h, i, n)
  <1>1. RunEnd(h, i) \in Nat /\ i \in Nat
    BY RunIs DEF Histories
  <1> QED BY <1>1 DEF Awaits, Holds

\* The sanitizer goes on over a message that no run holds.
LEMMA MadeAlone ==
  ASSUME NEW h \in Histories, Tidy(h), NEW n \in Nat, NEW m, m = n + 1, m \in DOMAIN h,
         NEW g, MadeWell(h, g, n), \A i : ~ Holds(h, i, m)
  PROVE  MadeWell(h, g \o Emit(h, m), m)
  <1>1. PICK x \in Message : Emit(h, m) = <<x>> /\ x.calls = <<>> /\ x.role # "tool"
    BY EmittedAlone
  <1>2. h[m].calls = <<>>
    BY EmittedAlone
  <1>3. Wired(g) /\ g \in Histories
    BY HeldNext DEF MadeWell
  <1>4. <<x>> \in Histories /\ Wired(<<x>>) /\ Called(<<x>>) = {}
    BY <1>1, SingleTidy
  <1> DEFINE s == <<x>>
  <1> HIDE DEF s
  <1>5. s \in Histories /\ Wired(s) /\ Called(s) = {}
    BY <1>4 DEF s
  <1>6. Wired(g \o s) /\ Called(g \o s) = Called(g) /\ g \o s \in Histories
    <2>1. Called(g) \cap Called(s) = {}
      BY <1>5
    <2>2. Wired(g \o s)
      BY <1>3, <1>5, <2>1, WiredJoined
    <2>3. Called(g \o s) = Called(g) \cup Called(s)
      BY <1>3, <1>5, CalledJoined
    <2> QED BY <1>3, <1>5, <2>2, <2>3, Concatenated
  <1>7. CalledTo(h, m) = CalledTo(h, n)
    <2>1. n + 1 <= Len(h)
      BY DEF Histories
    <2>2. Range(h[m].calls) = {}
      BY <1>2 DEF Range
    <2> QED BY <2>1, <2>2, CalledToNext
  <1>8. \A i \in DOMAIN h : ~ Awaits(h, i, m)
    BY HeldNext
  <1> QED BY <1>1, <1>6, <1>7, <1>8 DEF MadeWell, s

\* The sanitizer goes on over a message in a caller's run, and fills the run at its end.
LEMMA MadeInRun ==
  ASSUME NEW h \in Histories, Tidy(h), NEW n \in Nat, NEW m, m = n + 1, m \in DOMAIN h,
         NEW g, MadeWell(h, g, n), NEW i, Holds(h, i, m)
  PROVE  MadeWell(h, g \o Emit(h, m), m)
  <1> DEFINE c == h[i].calls
             e == RunEnd(h, i)
             x == h[m]
             X == g \o <<x>>
             p == m - i
             rest == Synthetic(h, i)
  <1>0. /\ i \in DOMAIN h /\ i \in Nat /\ m \in Nat /\ i <= m /\ m <= e /\ c # <<>> /\ e \in Nat
        /\ DOMAIN h = 1 .. Len(h) /\ Len(h) \in Nat /\ x \in Message
        /\ e - i \in 0 .. Len(c) /\ Len(c) \in Nat /\ c \in Seq(Nat) /\ Distinct(c)
        /\ g \in Histories
    <2>1. i \in DOMAIN h /\ i \in Nat /\ m \in Nat /\ i <= m /\ m <= e /\ c # <<>>
          /\ DOMAIN h = 1 .. Len(h) /\ Len(h) \in Nat /\ x \in Message
      BY DEF Holds, Histories
    <2>2. e \in i .. Len(h) /\ e - i \in 0 .. Len(c)
      BY <2>1, RunIs
    <2>3. c \in Seq(Nat) /\ Distinct(c) /\ Len(c) \in Nat
      BY <2>1, CallsApart, CallsIn
    <2> QED BY <2>1, <2>2, <2>3 DEF MadeWell
  <1>1. /\ Emit(h, m) = <<x>> \o (IF e = m THEN rest ELSE <<>>)
        /\ x = IF m = i THEN Reply(c) ELSE ToolMsg(c[m - i])
    <2>1. EmitsInRun(h, i, m) /\ InRun(h, i, m)
      BY EmittedInRun
    <2> QED BY ONLY <2>1 DEF EmitsInRun, InRun
  <1>2. p \in Nat /\ p <= Len(c)
    BY <1>0
  <1>3. \A j \in DOMAIN h : Holds(h, j, m) => j = i
    BY RunsApart
  <1>4. <<x>> \in Histories /\ X \in Histories /\ X = Append(g, x)
    BY <1>0, Single, Concatenated, Appended
  <1>5. OpenedWired(X, c, p)
    <2>1. CASE m = i
      <3>1. \A j \in DOMAIN h : ~ Awaits(h, j, n)
        <4> SUFFICES ASSUME NEW j \in DOMAIN h, Awaits(h, j, n) PROVE FALSE
          OBVIOUS
        <4>1. j = i /\ j <= n
          BY <1>3, HeldNext DEF Awaits
        <4> QED BY <1>0, <2>1, <4>1
      <3>2. Wired(g) /\ Called(g) = CalledTo(h, n)
        BY <3>1 DEF MadeWell
      <3>3. CalledTo(h, n) \cap Range(c) = {}
        <4> SUFFICES ASSUME NEW j \in 1 .. n PROVE Range(h[j].calls) \cap Range(c) = {}
          BY DEF CalledTo
        <4>1. j \in DOMAIN h /\ j # i
          BY <1>0, <2>1
        <4> QED BY <1>0, <4>1, CallsApart
      <3>4. p = 0 /\ x = Reply(c)
        BY <1>0, <1>1, <2>1
      <3> HIDE DEF c, p, x, X
      <3>5. OpenedWired(Append(g, Reply(c)), c, 0)
        BY <1>0, <3>2, <3>3, OpenedBegins
      <3> QED BY <1>4, <3>4, <3>5
    <2>2. CASE m # i
      <3>1. OpenedWired(g, c, n - i)
        BY <1>0, <2>2, HeldNext DEF MadeWell
      <3> DEFINE q == n - i
      <3>2. q \in Nat /\ q < Len(c) /\ p = q + 1
        <4> DEFINE l == Len(c)
        <4>1. l \in Nat /\ i \in Nat /\ n \in Nat /\ e \in Nat /\ m = n + 1 /\ m # i
              /\ i <= m /\ m <= e /\ e - i \in 0 .. l /\ q = n - i /\ p = m - i
          BY <1>0, <2>2
        <4> HIDE DEF l, e, q, p
        <4>2. q \in Nat /\ q < l /\ p = q + 1
          BY ONLY <4>1
        <4> QED BY <4>2 DEF l
      <3>3. x = ToolMsg(c[p])
        BY <1>1, <2>2
      <3>4. OpenedWired(g, c, q)
        BY <3>1
      <3> HIDE DEF c, p, q, x, X
      <3>5. OpenedWired(Append(g, ToolMsg(c[q + 1])), c, q + 1)
        BY <1>0, <3>2, <3>4, OpenedNext
      <3> QED BY <1>4, <3>2, <3>3, <3>5
    <2> QED BY <2>1, <2>2
  <1>6. Called(X) = CalledTo(h, m)
    <2>1. Called(X) = Called(g) \cup Called(<<x>>)
      BY <1>0, <1>4, CalledJoined
    <2>2. n + 1 <= Len(h) /\ Called(<<x>>) = Range(x.calls)
      BY <1>0, CalledOne
    <2> QED BY <2>1, <2>2, CalledToNext DEF MadeWell
  <1>7. CASE e # m
    <2>1. g \o Emit(h, m) = X
      <3>1. Emit(h, m) = <<x>> \o <<>> /\ <<x>> \o <<>> = <<x>>
        BY <1>1, <1>7
      <3> QED BY <3>1
    <2>2. Awaits(h, i, m)
      BY <1>0, <1>7 DEF Awaits
    <2>3. \A j \in DOMAIN h : Awaits(h, j, m) => j = i
      BY <1>3, HeldNext
    <2> HIDE DEF X, e, x
    <2>4. \A j \in DOMAIN h : Awaits(h, j, m) => OpenedWired(X, h[j].calls, m - j)
      BY <1>5, <2>3
    <2>5. ~ \A j \in DOMAIN h : ~ Awaits(h, j, m)
      BY <1>0, <2>2
    <2>6. MadeWell(h, X, m)
      BY <1>4, <1>6, <2>4, <2>5 DEF MadeWell
    <2> QED BY <2>1, <2>6
  <1>8. CASE e = m
    <2>1. rest = [k \in 1 .. (Len(c) - p) |-> ToolMsg(c[p + k])]
      <3>1. h[i].calls # <<>> /\ c = h[i].calls /\ p = RunEnd(h, i) - i /\ i \in DOMAIN h
        BY <1>0, <1>8
      <3> HIDE DEF c, p
      <3> QED BY <3>1, SyntheticIs
    <2>2. Emit(h, m) = <<x>> \o rest
      BY <1>1, <1>8
    <2> HIDE DEF c, p, x, X, rest, e
    <2>3. p \in 0 .. Len(c)
      BY <1>0, <1>2
    <2>4. rest \in Histories /\ Block(c, p) \o rest = Block(c, Len(c))
      BY <1>0, <2>1, <2>3, BlockFilled
    <2>5. g \o (<<x>> \o rest) = X \o rest
      <3> DEFINE s == <<x>>
      <3>1. g \in Seq(Message) /\ s \in Seq(Message) /\ rest \in Seq(Message)
        BY <1>0, <1>4, <2>4 DEF Histories
      <3> HIDE DEF s
      <3>2. g \o (s \o rest) = (g \o s) \o rest
        BY ONLY <3>1, ConcatAssociative
      <3> QED BY <3>2 DEF s, X
    <2>6. PICK w \in Histories : X = w \o Block(c, p) /\ Wired(w) /\ Called(w) \cap Range(c) = {}
      BY <1>5 DEF OpenedWired
    <2>7. Block(c, p) \in Histories
      BY <1>0, <2>3, BlockIs
    <2>8. X \o rest = w \o Block(c, Len(c))
      <3> DEFINE b == Block(c, p)
      <3>1. b \in Histories /\ X = w \o b /\ b \o rest = Block(c, Len(c))
        BY <2>4, <2>6, <2>7
      <3> HIDE DEF b
      <3>2. (w \o b) \o rest = w \o (b \o rest)
        <4>1. w \in Seq(Message) /\ b \in Seq(Message) /\ rest \in Seq(Message)
          BY <2>4, <3>1 DEF Histories
        <4> QED BY ONLY <4>1, ConcatAssociative
      <3> QED BY <3>1, <3>2
    <2>9. OpenedWired(X \o rest, c, Len(c))
      BY <2>6, <2>8 DEF OpenedWired
    <2>10. Wired(X \o rest)
      <3> DEFINE l == Len(c)
                 Y == X \o rest
      <3>1. OpenedWired(Y, c, l) /\ l = Len(c) /\ l \in 0 .. Len(c) /\ c \in Seq(Nat) /\ Distinct(c)
        BY <1>0, <2>9
      <3> HIDE DEF l, Y
      <3>2. Wired(Y)
        BY ONLY <3>1, OpenedIs
      <3> QED BY <3>2 DEF Y
    <2>11. Called(rest) = {}
      <3>1. \A k \in DOMAIN rest : rest[k].calls = <<>>
        BY <2>1 DEF ToolMsg
      <3> QED BY <3>1 DEF Called, Range
    <2>12. Called(X \o rest) = CalledTo(h, m) /\ X \o rest \in Histories
      <3>1. Called(X \o rest) = Called(X) \cup Called(rest)
        BY <1>4, <2>4, CalledJoined
      <3>2. X \o rest \in Histories
        BY <1>4, <2>4, Concatenated
      <3> QED BY <1>6, <2>11, <3>1, <3>2
    <2>13. \A j \in DOMAIN h : ~ Awaits(h, j, m)
      BY <1>3, <1>8, HeldNext DEF e
    <2>14. MadeWell(h, X \o rest, m)
      BY <2>10, <2>12, <2>13 DEF MadeWell
    <2> QED BY <2>2, <2>5, <2>14
  <1> QED BY <1>7, <1>8

\* What a message becomes is a history.
LEMMA EmittedType ==
  ASSUME NEW h \in Histories, Tidy(h), NEW m \in DOMAIN h
  PROVE  Emit(h, m) \in Histories
  <1>1. CASE \A i : ~ Holds(h, i, m)
    BY <1>1, EmittedAlone, Single
  <1>2. ASSUME NEW i, Holds(h, i, m) PROVE Emit(h, m) \in Histories
    <2> DEFINE x == h[m]
               rest == IF RunEnd(h, i) = m THEN Synthetic(h, i) ELSE <<>>
    <2>1. x \in Message
      BY DEF Histories
    <2>2. rest \in Histories
      BY <1>2, SynthesizedAre, Empty DEF Holds
    <2>3. Emit(h, m) = <<x>> \o rest
      <3>1. EmitsInRun(h, i, m)
        BY <1>2, EmittedInRun
      <3> QED BY ONLY <3>1 DEF EmitsInRun
    <2> HIDE DEF x, rest
    <2>4. <<x>> \in Histories
      BY <2>1, Single
    <2> QED BY <2>2, <2>3, <2>4, Concatenated
  <1> QED BY <1>1, <1>2

\* The sanitizer answers every call of a tidy history, drops the stray results, and calls
\* the same ids: by induction over its partial concatenations.
LEMMA SanitizedWired ==
  ASSUME NEW h \in Histories, Tidy(h)
  PROVE  Sanitize(h) \in Histories /\ Wired(Sanitize(h)) /\ Called(Sanitize(h)) = Called(h)
  <1> DEFINE e == [j \in DOMAIN h |-> Emit(h, j)]
             L == Len(h)
             f == Sanitize(h)
  <1>0. DOMAIN h = 1 .. L /\ L \in Nat
    BY DEF Histories
  <1>1. DOMAIN e = 1 .. L /\ Len(e) = L /\ \A j \in 1 .. L : e[j] = Emit(h, j)
    BY <1>0
  <1>2. f = FlattenSeq(e)
    BY DEF Sanitize
  <1> HIDE DEF e, L, f
  <1>3. MadeWell(h, <<>>, 0)
    <2>1. <<>> \in Histories /\ Wired(<<>>) /\ Called(<<>>) = {}
      <3>1. <<>> \in Histories
        BY Empty
      <3> QED BY <3>1, PlainWired
    <2>2. CalledTo(h, 0) = {}
      BY DEF CalledTo
    <2>3. \A i \in DOMAIN h : ~ Awaits(h, i, 0)
      BY <1>0 DEF Awaits
    <2> QED BY <2>1, <2>2, <2>3 DEF MadeWell
  <1>4. ASSUME NEW n \in Nat, n + 1 <= L, NEW g, MadeWell(h, g, n)
        PROVE  MadeWell(h, g \o Emit(h, n + 1), n + 1)
    <2> DEFINE m == n + 1
    <2>1. m = n + 1 /\ m \in DOMAIN h
      BY <1>0, <1>4
    <2> HIDE DEF m
    <2>2. MadeWell(h, g \o Emit(h, m), m)
      BY <1>4, <2>1, MadeAlone, MadeInRun
    <2> QED BY <2>1, <2>2
  <1>5. MadeWell(h, f, L)
    <2>1. CASE L = 0
      <3>1. e = <<>>
        BY <1>1, <2>1, EmptySeq
      <3>2. f = <<>>
        BY <1>2, <3>1 DEF FlattenSeq
      <3> QED BY <1>3, <2>1, <3>2
    <2>2. CASE L # 0
      <3>1. PICK g : IsJoin(g, e, L) /\ f = g[L]
        BY <1>0, <1>1, <1>2, <2>2, FlattenIsJoin
      <3> DEFINE S == {n \in Nat : 0 < n /\ n <= L => MadeWell(h, g[n], n)}
      <3>2. 0 \in S
        OBVIOUS
      <3>3. ASSUME NEW n \in Nat, n \in S PROVE n + 1 \in S
        <4> SUFFICES ASSUME n + 1 <= L PROVE MadeWell(h, g[n + 1], n + 1)
          OBVIOUS
        <4>1. g[n + 1] = IF n = 0 THEN e[n + 1] ELSE g[n] \o e[n + 1]
          BY <1>0, <3>1, JoinNext
        <4>2. n + 1 \in 1 .. L
          BY <1>0
        <4>3. e[n + 1] = Emit(h, n + 1)
          BY <1>1, <4>2
        <4>4. CASE n = 0
          <5>1. MadeWell(h, <<>> \o Emit(h, n + 1), n + 1)
            BY <1>3, <1>4, <4>4
          <5>2. Emit(h, n + 1) \in Histories
            <6> DEFINE m == n + 1
            <6>1. m \in DOMAIN h
              BY <1>0, <4>2
            <6> HIDE DEF m
            <6>2. Emit(h, m) \in Histories
              BY <6>1, EmittedType
            <6> QED BY <6>2 DEF m
          <5>3. <<>> \o Emit(h, n + 1) = Emit(h, n + 1)
            BY <5>2, ConcatEmptySeq DEF Histories
          <5> QED BY <4>1, <4>3, <4>4, <5>1, <5>3
        <4>5. CASE n # 0
          <5>1. MadeWell(h, g[n], n)
            BY <1>0, <3>3, <4>5
          <5>2. MadeWell(h, g[n] \o Emit(h, n + 1), n + 1)
            BY <1>4, <5>1
          <5> QED BY <4>1, <4>3, <4>5, <5>2
        <4> QED BY <4>4, <4>5
      <3> HIDE DEF S
      <3>4. L \in S
        BY <1>0, <3>2, <3>3, SetInduction
      <3> QED BY <1>0, <2>2, <3>1, <3>4 DEF S
    <2> QED BY <2>1, <2>2
  <1>6. \A i \in DOMAIN h : ~ Awaits(h, i, L)
    <2> SUFFICES ASSUME NEW i \in DOMAIN h, Awaits(h, i, L) PROVE FALSE
      OBVIOUS
    <2>1. RunEnd(h, i) \in i .. L
      BY RunIs DEF L
    <2> QED BY <1>0, <2>1 DEF Awaits
  <1>7. CalledTo(h, L) = Called(h)
    BY <1>0 DEF CalledTo, Called
  <1> QED BY <1>5, <1>6, <1>7 DEF MadeWell, f

-----------------------------------------------------------------------------
(* Filters keep a history tidy                                             *)

\* g is what a filter has left of the first n messages of h.
KeptWell(h, g, n) ==
  /\ g \in Histories /\ Tidy(g)
  /\ Called(g) \subseteq CalledTo(h, n)
  /\ \A a \in Responded(g) : \E j \in 1 .. n : h[j].role = "tool" /\ h[j].ref = a
  /\ \A i \in DOMAIN h : Holds(h, i, n) => Opened(g, h[i].calls, n - i)

\* What one message answers.
LEMMA RespondedOne ==
  ASSUME NEW m \in Message
  PROVE  Responded(<<m>>) = IF m.role = "tool" THEN {m.ref} ELSE {}
  <1>1. Range(<<m>>) = {m}
    BY Single
  <1> QED BY <1>1 DEF Responded

\* A filter goes on over a message that no run holds, kept or not.
LEMMA KeptAlone ==
  ASSUME NEW h \in Histories, Tidy(h), NEW n \in Nat, NEW m, m = n + 1, m \in DOMAIN h,
         NEW g, KeptWell(h, g, n), \A i : ~ Holds(h, i, m), NEW s, s = <<>> \/ s = <<h[m]>>
  PROVE  KeptWell(h, g \o s, m)
  <1>0. n + 1 <= Len(h) /\ Len(h) \in Nat /\ DOMAIN h = 1 .. Len(h) /\ h[m] \in Message /\ m \in Nat
    BY DEF Histories
  <1>1. h[m].calls = <<>>
    BY EmittedAlone
  <1>2. CalledTo(h, m) = CalledTo(h, n) /\ CalledTo(h, n) \subseteq Called(h)
    <2>1. Range(h[m].calls) = {}
      BY <1>1 DEF Range
    <2>2. CalledTo(h, m) = CalledTo(h, n)
      BY <1>0, <2>1, CalledToNext
    <2>3. \A j \in 1 .. n : j \in DOMAIN h
      BY <1>0
    <2> QED BY <2>2, <2>3 DEF CalledTo, Called
  <1>3. ASSUME h[m].role = "tool" PROVE h[m].ref \notin Called(h)
    <2> SUFFICES ASSUME NEW i \in DOMAIN h, h[m].ref \in Range(h[i].calls) PROVE FALSE
      BY DEF Called
    <2>1. m \in (i + 1) .. RunEnd(h, i) /\ RunEnd(h, i) \in Nat /\ i \in Nat
      BY <1>0, <1>3, RunIs
    <2>2. h[i].calls # <<>>
      BY DEF Range
    <2> QED BY <2>1, <2>2 DEF Holds
  <1>4. /\ s \in Histories /\ Tidy(s) /\ Called(s) = {}
        /\ Responded(s) \subseteq IF h[m].role = "tool" THEN {h[m].ref} ELSE {}
    <2>1. CASE s = <<>>
      <3>1. s \in Histories /\ DOMAIN s = {}
        BY <2>1, Empty
      <3> QED BY <3>1, PlainWired DEF Wired
    <2>2. CASE s = <<h[m]>>
      <3> DEFINE x == h[m]
      <3>1. x \in Message /\ x.calls = <<>> /\ s = <<x>>
        BY <1>0, <1>1, <2>2
      <3> HIDE DEF x
      <3>2. s \in Histories /\ Tidy(s) /\ Called(s) = {}
            /\ Responded(s) = IF x.role = "tool" THEN {x.ref} ELSE {}
        BY <3>1, SingleTidy
      <3> QED BY <3>2 DEF x
    <2> QED BY <2>1, <2>2
  <1>5. g \in Histories /\ Tidy(g) /\ Called(g) \subseteq CalledTo(h, n)
        /\ \A a \in Responded(g) : \E j \in 1 .. n : h[j].role = "tool" /\ h[j].ref = a
    BY DEF KeptWell
  <1>6. Called(g) \cap Responded(s) = {}
    BY <1>2, <1>3, <1>4, <1>5
  <1>7. Tidy(g \o s)
    BY <1>4, <1>5, <1>6, TidyJoined
  <1>8. g \o s \in Histories /\ Called(g \o s) = Called(g) /\ Responded(g \o s) = Responded(g) \cup Responded(s)
    <2>1. Called(g \o s) = Called(g) \cup Called(s) /\ Responded(g \o s) = Responded(g) \cup Responded(s)
      BY <1>4, <1>5, CalledJoined
    <2> QED BY <1>4, <1>5, <2>1, Concatenated
  <1> DEFINE d == g \o s
  <1> HIDE DEF d
  <1>9. ASSUME NEW a \in Responded(d) PROVE \E j \in 1 .. m : h[j].role = "tool" /\ h[j].ref = a
    <2>1. CASE a \in Responded(g)
      <3>1. PICK j \in 1 .. n : h[j].role = "tool" /\ h[j].ref = a
        BY <1>5, <2>1
      <3>2. j \in 1 .. m
        BY <1>0
      <3> QED BY <3>1, <3>2
    <2>2. CASE a \in Responded(s)
      <3>1. m \in 1 .. m /\ h[m].role = "tool" /\ h[m].ref = a
        BY <1>0, <1>4, <2>2
      <3> QED BY <3>1
    <2> QED BY <1>8, <1>9, <2>1, <2>2 DEF d
  <1>10. KeptWell(h, d, m)
    BY <1>2, <1>5, <1>7, <1>8, <1>9 DEF KeptWell, d
  <1> QED BY <1>10 DEF d

\* A filter goes on over a message in a caller's run, and keeps it.
LEMMA KeptInRun ==
  ASSUME NEW h \in Histories, Tidy(h), NEW n \in Nat, NEW m, m = n + 1, m \in DOMAIN h,
         NEW g, KeptWell(h, g, n), NEW i, Holds(h, i, m)
  PROVE  KeptWell(h, g \o <<h[m]>>, m)
  <1> DEFINE c == h[i].calls
             e == RunEnd(h, i)
             x == h[m]
             X == g \o <<x>>
             p == m - i
  <1>0. /\ i \in DOMAIN h /\ i \in Nat /\ m \in Nat /\ i <= m /\ m <= e /\ c # <<>> /\ e \in Nat
        /\ DOMAIN h = 1 .. Len(h) /\ Len(h) \in Nat /\ x \in Message
        /\ e - i \in 0 .. Len(c) /\ Len(c) \in Nat /\ c \in Seq(Nat) /\ Distinct(c)
        /\ g \in Histories
    <2>1. i \in DOMAIN h /\ i \in Nat /\ m \in Nat /\ i <= m /\ m <= e /\ c # <<>>
          /\ DOMAIN h = 1 .. Len(h) /\ Len(h) \in Nat /\ x \in Message
      BY DEF Holds, Histories
    <2>2. e \in i .. Len(h) /\ e - i \in 0 .. Len(c)
      BY <2>1, RunIs
    <2>3. c \in Seq(Nat) /\ Distinct(c) /\ Len(c) \in Nat
      BY <2>1, CallsApart, CallsIn
    <2> QED BY <2>1, <2>2, <2>3 DEF KeptWell
  <1>1. x = IF m = i THEN Reply(c) ELSE ToolMsg(c[m - i])
    <2>1. InRun(h, i, m)
      BY EmittedInRun
    <2> QED BY ONLY <2>1 DEF InRun
  <1>2. p \in Nat /\ p <= Len(c)
    BY <1>0
  <1>3. \A j \in DOMAIN h : Holds(h, j, m) => j = i
    BY RunsApart
  <1>4. <<x>> \in Histories /\ X \in Histories /\ X = Append(g, x)
    BY <1>0, Single, Concatenated, Appended
  <1>5. Opened(X, c, p)
    <2>1. CASE m = i
      <3>1. Tidy(g) /\ Called(g) \subseteq CalledTo(h, n)
            /\ \A a \in Responded(g) : \E j \in 1 .. n : h[j].role = "tool" /\ h[j].ref = a
        BY DEF KeptWell
      <3>2. CalledTo(h, n) \cap Range(c) = {}
        <4> SUFFICES ASSUME NEW j \in 1 .. n PROVE Range(h[j].calls) \cap Range(c) = {}
          BY DEF CalledTo
        <4>1. j \in DOMAIN h /\ j # i
          BY <1>0, <2>1
        <4> QED BY <1>0, <4>1, CallsApart
      <3>3. ASSUME NEW a \in Responded(g), a \in Range(c) PROVE FALSE
        <4>1. PICK j \in 1 .. n : h[j].role = "tool" /\ h[j].ref = a
          BY <3>1
        <4>2. j \in DOMAIN h
          BY <1>0
        <4>3. j \in (i + 1) .. e
          BY <1>0, <3>3, <4>1, <4>2, RunIs
        <4> QED BY <1>0, <2>1, <4>3
      <3>4. p = 0 /\ x = Reply(c)
        BY <1>0, <1>1, <2>1
      <3> HIDE DEF c, p, x, X
      <3>5. (Called(g) \cup Responded(g)) \cap Range(c) = {}
        BY <3>1, <3>2, <3>3
      <3>6. Opened(Append(g, Reply(c)), c, 0)
        BY <1>0, <3>1, <3>5, OpenedBegins
      <3> QED BY <1>4, <3>4, <3>6
    <2>2. CASE m # i
      <3>1. Opened(g, c, n - i)
        <4>1. Holds(h, i, n)
          BY <1>0, <2>2 DEF Holds
        <4> QED BY <1>0, <4>1 DEF KeptWell
      <3> DEFINE q == n - i
      <3>2. q \in Nat /\ q < Len(c) /\ p = q + 1
        <4> DEFINE l == Len(c)
        <4>1. l \in Nat /\ i \in Nat /\ n \in Nat /\ e \in Nat /\ m = n + 1 /\ m # i
              /\ i <= m /\ m <= e /\ e - i \in 0 .. l /\ q = n - i /\ p = m - i
          BY <1>0, <2>2
        <4> HIDE DEF l, e, q, p
        <4>2. q \in Nat /\ q < l /\ p = q + 1
          BY ONLY <4>1
        <4> QED BY <4>2 DEF l
      <3>3. x = ToolMsg(c[p])
        BY <1>1, <2>2
      <3>4. Opened(g, c, q)
        BY <3>1
      <3> HIDE DEF c, p, q, x, X
      <3>5. Opened(Append(g, ToolMsg(c[q + 1])), c, q + 1)
        BY <1>0, <3>2, <3>4, OpenedNext
      <3> QED BY <1>4, <3>2, <3>3, <3>5
    <2> QED BY <2>1, <2>2
  <1>6. Called(X) \subseteq CalledTo(h, m) /\ Responded(X) = Responded(g) \cup Responded(<<x>>)
    <2>1. Called(X) = Called(g) \cup Called(<<x>>) /\ Responded(X) = Responded(g) \cup Responded(<<x>>)
      BY <1>0, <1>4, CalledJoined
    <2>2. n + 1 <= Len(h) /\ Called(<<x>>) = Range(x.calls)
      BY <1>0, CalledOne
    <2> QED BY <2>1, <2>2, CalledToNext DEF KeptWell
  <1>7. ASSUME NEW a \in Responded(X) PROVE \E j \in 1 .. m : h[j].role = "tool" /\ h[j].ref = a
    <2>1. CASE a \in Responded(g)
      <3>1. PICK j \in 1 .. n : h[j].role = "tool" /\ h[j].ref = a
        BY <2>1 DEF KeptWell
      <3>2. j \in 1 .. m
        BY <1>0
      <3> QED BY <3>1, <3>2
    <2>2. CASE a \in Responded(<<x>>)
      <3>1. m \in 1 .. m /\ h[m].role = "tool" /\ h[m].ref = a
        <4>1. m \in 1 .. m
          BY <1>0
        <4> HIDE DEF x
        <4>2. x.role = "tool" /\ x.ref = a
          BY <1>0, <2>2, RespondedOne
        <4> QED BY <4>1, <4>2 DEF x
      <3> QED BY <3>1
    <2> QED BY <1>6, <1>7, <2>1, <2>2
  <1>8. Tidy(X)
    <2>1. p \in 0 .. Len(c)
      BY <1>0, <1>2
    <2> HIDE DEF X, c, p
    <2> QED BY <1>0, <1>5, <2>1, OpenedIs
  <1> HIDE DEF X
  <1>9. KeptWell(h, X, m)
    BY <1>3, <1>4, <1>5, <1>6, <1>7, <1>8 DEF KeptWell
  <1> QED BY <1>9 DEF X

\* What stands in a run is a caller or a result.
LEMMA InRunPasses ==
  ASSUME NEW h \in Histories, Tidy(h), NEW m \in DOMAIN h, NEW i, Holds(h, i, m)
  PROVE  h[m].calls # <<>> \/ h[m].role = "tool"
  <1>1. InRun(h, i, m)
    BY EmittedInRun
  <1>2. CASE m = i
    BY <1>2 DEF Holds
  <1>3. CASE m # i
    BY <1>1, <1>3 DEF InRun, ToolMsg
  <1> QED BY <1>2, <1>3

\* A filter that drops neither callers nor results leaves a tidy history tidy.
LEMMA FilteredTidy ==
  ASSUME NEW h \in Histories, Tidy(h), NEW K,
         \A j \in DOMAIN h : h[j] \notin K => h[j].calls = <<>> /\ h[j].role # "tool"
  PROVE  Tidy(FlattenSeq([j \in DOMAIN h |-> IF h[j] \in K THEN <<h[j]>> ELSE <<>>]))
  <1> DEFINE e == [j \in DOMAIN h |-> IF h[j] \in K THEN <<h[j]>> ELSE <<>>]
             L == Len(h)
             f == FlattenSeq(e)
  <1>0. DOMAIN h = 1 .. L /\ L \in Nat
    BY DEF Histories
  <1>1. DOMAIN e = 1 .. L /\ Len(e) = L /\ \A j \in 1 .. L : e[j] = IF h[j] \in K THEN <<h[j]>> ELSE <<>>
    BY <1>0
  <1> HIDE DEF e, L, f
  <1>3. KeptWell(h, <<>>, 0)
    <2>1. <<>> \in Histories /\ Tidy(<<>>) /\ Called(<<>>) = {} /\ Responded(<<>>) = {}
      <3>1. <<>> \in Histories
        BY Empty
      <3> QED BY <3>1, PlainWired DEF Wired
    <2>2. \A i \in DOMAIN h : ~ Holds(h, i, 0)
      BY <1>0 DEF Holds
    <2> QED BY <2>1, <2>2 DEF KeptWell
  <1>4. ASSUME NEW n \in Nat, n + 1 <= L, NEW g, KeptWell(h, g, n)
        PROVE  KeptWell(h, g \o e[n + 1], n + 1)
    <2> DEFINE m == n + 1
               s == e[m]
    <2>1. m = n + 1 /\ m \in DOMAIN h /\ s = IF h[m] \in K THEN <<h[m]>> ELSE <<>>
      BY <1>0, <1>1, <1>4
    <2> HIDE DEF m, s
    <2>2. CASE \A i : ~ Holds(h, i, m)
      BY <1>4, <2>1, <2>2, KeptAlone DEF s, m
    <2>3. ASSUME NEW i, Holds(h, i, m) PROVE KeptWell(h, g \o s, m)
      <3>1. h[m].calls # <<>> \/ h[m].role = "tool"
        <4>1. h \in Histories /\ Tidy(h) /\ m \in DOMAIN h /\ Holds(h, i, m)
          BY <2>1, <2>3
        <4> QED BY ONLY <4>1, InRunPasses
      <3>2. s = <<h[m]>>
        BY <2>1, <3>1
      <3> QED BY <1>4, <2>1, <2>3, <3>2, KeptInRun
    <2> QED BY <2>1, <2>2, <2>3 DEF m, s
  <1>5. KeptWell(h, f, L)
    <2>1. CASE L = 0
      <3>1. e = <<>>
        BY <1>1, <2>1, EmptySeq
      <3>2. f = <<>>
        BY <3>1 DEF FlattenSeq, f
      <3> QED BY <1>3, <2>1, <3>2
    <2>2. CASE L # 0
      <3>1. PICK g : IsJoin(g, e, L) /\ f = g[L]
        BY <1>0, <1>1, <2>2, FlattenIsJoin DEF f
      <3> DEFINE S == {n \in Nat : 0 < n /\ n <= L => KeptWell(h, g[n], n)}
      <3>2. 0 \in S
        OBVIOUS
      <3>3. ASSUME NEW n \in Nat, n \in S PROVE n + 1 \in S
        <4> SUFFICES ASSUME n + 1 <= L PROVE KeptWell(h, g[n + 1], n + 1)
          OBVIOUS
        <4>1. g[n + 1] = IF n = 0 THEN e[n + 1] ELSE g[n] \o e[n + 1]
          BY <1>0, <3>1, JoinNext
        <4>2. CASE n = 0
          <5>1. KeptWell(h, <<>> \o e[n + 1], n + 1)
            BY <1>3, <1>4, <4>2
          <5>2. <<>> \o e[n + 1] = e[n + 1]
            <6>1. e[n + 1] = <<>> \/ e[n + 1] = <<h[n + 1]>>
              BY <1>0, <1>1
            <6> QED BY <6>1
          <5> QED BY <4>1, <4>2, <5>1, <5>2
        <4>3. CASE n # 0
          <5>1. KeptWell(h, g[n], n)
            BY <1>0, <3>3, <4>3
          <5>2. KeptWell(h, g[n] \o e[n + 1], n + 1)
            BY <1>4, <5>1
          <5> QED BY <4>1, <4>3, <5>2
        <4> QED BY <4>2, <4>3
      <3> HIDE DEF S
      <3>4. L \in S
        BY <1>0, <3>2, <3>3, SetInduction
      <3> QED BY <1>0, <2>2, <3>1, <3>4 DEF S
    <2> QED BY <2>1, <2>2
  <1> QED BY <1>5 DEF KeptWell, f, e

-----------------------------------------------------------------------------
(* Compactions, truncations and rewinds keep a history tidy                *)

\* Fewer messages call fewer ids and answer fewer.
LEMMA RangeCalls ==
  ASSUME NEW s \in Histories, NEW h \in Histories, Range(s) \subseteq Range(h)
  PROVE  Called(s) \subseteq Called(h) /\ Responded(s) \subseteq Responded(h)
  <1>1. Called(s) \subseteq Called(h)
    <2> SUFFICES ASSUME NEW i \in DOMAIN s PROVE Range(s[i].calls) \subseteq Called(h)
      BY DEF Called
    <2>1. PICK j \in DOMAIN h : h[j] = s[i]
      BY DEF Range
    <2> QED BY <2>1 DEF Called
  <1>2. Responded(s) \subseteq Responded(h)
    BY DEF Responded
  <1> QED BY <1>1, <1>2

\* A tail of a tidy history, and what is before it, are tidy.
LEMMA TailTidy ==
  ASSUME NEW h \in Histories, Tidy(h), NEW t, IsTail(t, h)
  PROVE  t \in Histories /\ Tidy(t) /\ Called(t) \subseteq Called(h) /\ Responded(t) \subseteq Responded(h)
  <1>1. PICK s \in Histories : h = s \o t
    BY TailIsPart
  <1>2. t \in Histories /\ Range(t) \subseteq Range(h)
    BY TailIsPart DEF Part
  <1>3. Tidy(t)
    BY <1>1, <1>2, TidyHalves
  <1> QED BY <1>2, <1>3, RangeCalls

\* A compaction of a tidy tail is wired, and calls what its tail calls.
LEMMA CompactedWired ==
  ASSUME NEW h \in Histories, Tidy(h), NEW t \in Histories, Tidy(t)
  PROVE  Compacted(h, t) \in Histories /\ Wired(Compacted(h, t)) /\ Called(Compacted(h, t)) = Called(t)
  <1> DEFINE u == CollectUsers(h)
             K == {m \in Message : Text(m) \notin Texts(t)}
             e == [j \in DOMAIN u |-> IF u[j] \in K THEN <<u[j]>> ELSE <<>>]
             p == FlattenSeq(e)
             c == p \o <<Checkpoint>>
  <1>1. u \in Histories /\ Range(u) \subseteq Range(RealUsers(h))
    BY CollectedAre DEF Part
  <1>2. e = [j \in DOMAIN u |-> IF Text(u[j]) \notin Texts(t) THEN <<u[j]>> ELSE <<>>]
    <2> HIDE DEF u
    <2>1. \A j \in DOMAIN u : u[j] \in Message
      BY <1>1 DEF Histories
    <2> QED BY <2>1
  <1>3. Compacted(h, t) = Sanitize(c \o t)
    BY <1>2 DEF Compacted, Only
  <1>4. p \in Histories /\ Range(p) \subseteq Range(u)
    <2> HIDE DEF u, K
    <2> DEFINE q == p
    <2>1. q \in Histories /\ Range(q) = Range(u) \cap K
      BY <1>1, Kept
    <2> HIDE DEF q
    <2>2. q \in Histories /\ Range(q) \subseteq Range(u)
      BY <2>1
    <2> QED BY <2>2 DEF q
  <1> HIDE DEF p, u
  <1>5. ASSUME NEW m \in Range(p) PROVE m.calls = <<>> /\ m.role # "tool"
    <2>1. m \in Range(h) /\ IsRealUser(m)
      BY <1>1, <1>4, RealUsersAre
    <2>2. PICK i \in DOMAIN h : h[i] = m
      BY <2>1 DEF Range
    <2>3. m.calls # <<>> => m = Reply(m.calls)
      BY <2>2 DEF Tidy, Speaks
    <2>4. m.role # "assistant" /\ m.role # "tool"
      BY <2>1 DEF IsRealUser
    <2>5. Reply(m.calls).role = "assistant"
      BY DEF Reply
    <2> QED BY <2>3, <2>4, <2>5
  <1>6. Checkpoint \in Message /\ Checkpoint.calls = <<>> /\ Checkpoint.role # "tool"
    BY DEF Checkpoint, Message, Roles
  <1>7. c \in Histories /\ Range(c) = Range(p) \cup {Checkpoint}
    <2> DEFINE k == <<Checkpoint>>
    <2>1. k \in Histories /\ Range(k) = {Checkpoint}
      BY <1>6, Single
    <2> HIDE DEF k
    <2>2. p \o k \in Histories /\ Range(p \o k) = Range(p) \cup Range(k)
      BY <1>4, <2>1, Concatenated
    <2> QED BY <2>1, <2>2 DEF k
  <1> HIDE DEF c
  <1>8. \A i \in DOMAIN c : c[i].calls = <<>> /\ c[i].role # "tool"
    <2> SUFFICES ASSUME NEW i \in DOMAIN c PROVE c[i].calls = <<>> /\ c[i].role # "tool"
      OBVIOUS
    <2>1. c[i] \in Range(c)
      BY DEF Range
    <2> QED BY <1>5, <1>6, <1>7, <2>1
  <1>9. Tidy(c) /\ Called(c) = {} /\ Responded(c) = {}
    BY <1>7, <1>8, PlainWired DEF Wired
  <1> DEFINE d == c \o t
  <1>10. d \in Histories /\ Tidy(d) /\ Called(d) = Called(t)
    <2>1. c \o t \in Histories
      BY <1>7, Concatenated
    <2>2. Tidy(c \o t)
      BY <1>7, <1>9, TidyJoined
    <2>3. Called(c \o t) = Called(c) \cup Called(t)
      BY <1>7, CalledJoined
    <2> QED BY <1>9, <2>1, <2>2, <2>3
  <1> HIDE DEF d
  <1>11. Sanitize(d) \in Histories /\ Wired(Sanitize(d)) /\ Called(Sanitize(d)) = Called(d)
    BY <1>10, SanitizedWired
  <1> QED BY <1>3, <1>10, <1>11 DEF d

\* A truncation of a tidy history is tidy.
LEMMA TruncatedTidy ==
  ASSUME NEW h \in Histories, Tidy(h), NEW k
  PROVE  Tidy(TruncateToTurn(h, k))
  <1> DEFINE turns == {j \in DOMAIN h : IsRealUser(h[j])}
             Fewer(j) == Cardinality({i \in turns : i < j})
             cut == {j \in turns : Fewer(j) = k}
             kept == IF cut = {} THEN h ELSE SubSeq(h, 1, (CHOOSE j \in cut : TRUE) - 1)
             K == {m \in Message : m.role # "note"}
             e == [j \in DOMAIN kept |-> IF kept[j] \in K THEN <<kept[j]>> ELSE <<>>]
  <1>1. kept \in Histories /\ Tidy(kept)
    <2>1. CASE cut = {}
      BY <2>1
    <2>2. CASE cut # {}
      <3>1. PICK j : j = (CHOOSE i \in cut : TRUE) /\ j \in cut
        BY <2>2
      <3>2. j \in 1 .. Len(h) /\ Len(h) \in Nat
        BY <3>1 DEF Histories
      <3>3. kept = SubSeq(h, 1, j - 1)
        BY <2>2, <3>1
      <3> DEFINE a == SubSeq(h, 1, j - 1)
                 b == SubSeq(h, (j - 1) + 1, Len(h))
      <3>4. a \in Histories /\ b \in Histories /\ h = a \o b
        <4>1. j - 1 \in 0 .. Len(h)
          BY <3>2
        <4> QED BY <4>1, Cut
      <3> HIDE DEF a, b, kept
      <3>5. Tidy(a)
        BY <3>4, TidyHalves
      <3> QED BY <3>3, <3>4, <3>5 DEF a
    <2> QED BY <2>1, <2>2
  <1>2. TruncateToTurn(h, k) = <<>> \/ TruncateToTurn(h, k) = FlattenSeq(e)
    <2>1. e = [j \in DOMAIN kept |-> IF kept[j].role # "note" THEN <<kept[j]>> ELSE <<>>]
      <3> HIDE DEF kept
      <3>1. \A j \in DOMAIN kept : kept[j] \in Message
        BY <1>1 DEF Histories
      <3> QED BY <3>1
    <2>2. TruncateToTurn(h, k) = IF k = 0 \/ Cardinality(turns) < k THEN <<>>
            ELSE FlattenSeq([j \in DOMAIN kept |->
                               IF kept[j].role # "note" THEN <<kept[j]>> ELSE <<>>])
      BY DEF TruncateToTurn, Only
    <2> QED BY ONLY <2>1, <2>2
  <1>3. Tidy(<<>>)
    <2>1. <<>> \in Histories /\ DOMAIN <<>> = {}
      BY Empty
    <2> QED BY <2>1, PlainWired DEF Wired
  <1>4. Tidy(FlattenSeq(e))
    <2> HIDE DEF kept
    <2>1. ASSUME NEW j \in DOMAIN kept, kept[j] \notin K PROVE kept[j].calls = <<>> /\ kept[j].role # "tool"
      <3>1. kept[j] \in Message
        BY <1>1 DEF Histories
      <3>2. kept[j].role = "note"
        BY <2>1, <3>1
      <3>3. Reply(kept[j].calls).role = "assistant"
        BY DEF Reply
      <3> QED BY <1>1, <3>2, <3>3 DEF Tidy, Speaks
    <2> HIDE DEF K
    <2> QED BY <1>1, <2>1, FilteredTidy
  <1> QED BY <1>2, <1>3, <1>4

\* A rewound history is tidy.
LEMMA RewoundTidy ==
  ASSUME NEW h \in Histories, Tidy(h), NEW v, NEW k
  PROVE  /\ RewindHistory(h, v, k) \in Histories /\ Tidy(RewindHistory(h, v, k))
         /\ Called(RewindHistory(h, v, k)) \subseteq Called(h)
         /\ Responded(RewindHistory(h, v, k)) \subseteq Responded(h)
  <1>1. Tidy(<<>>)
    <2>1. <<>> \in Histories /\ DOMAIN <<>> = {}
      BY Empty
    <2> QED BY <2>1, PlainWired DEF Wired
  <1>2. RewindHistory(h, v, k) \in Histories /\ Range(RewindHistory(h, v, k)) \subseteq Range(h)
    BY RewoundIs DEF Part
  <1>3. Tidy(RewindHistory(h, v, k))
    BY <1>1, TruncatedTidy DEF RewindHistory
  <1> QED BY <1>2, <1>3, RangeCalls

-----------------------------------------------------------------------------
(* Ids up to a bound, and the next result of a step                        *)

\* No caller and no result.
Bare(s) == \A i \in DOMAIN s : s[i].calls = <<>> /\ s[i].role # "tool"

\* Tidy, with ids up to n.
Within(h, n) == Tidy(h) /\ \A a \in Called(h) \cup Responded(h) : a <= n

\* The messages the agent adds that are neither callers nor results.
LEMMA BareIs ==
  /\ Bare(<<>>) /\ Wired(<<>>) /\ \A n : Within(<<>>, n)
  /\ \A u : Bare(<<User(u)>>) /\ Bare(<<Note(u)>>)
  /\ Bare(<<Reply(<<>>)>>)
  <1>1. Bare(<<>>)
    BY DEF Bare
  <1>2. Wired(<<>>) /\ \A n : Within(<<>>, n)
    <2>1. <<>> \in Histories /\ DOMAIN <<>> = {}
      BY Empty
    <2>2. Wired(<<>>) /\ Called(<<>>) = {} /\ Responded(<<>>) = {}
      BY <2>1, PlainWired
    <2> QED BY <2>2 DEF Within, Wired
  <1>3. \A u : Bare(<<User(u)>>) /\ Bare(<<Note(u)>>)
    BY DEF Bare, User, Note
  <1>4. Bare(<<Reply(<<>>)>>)
    BY DEF Bare, Reply
  <1> QED BY <1>1, <1>2, <1>3, <1>4

\* Messages that are neither callers nor results change nothing.
LEMMA BareJoined ==
  ASSUME NEW s \in Histories, NEW t \in Histories, Bare(t)
  PROVE  /\ s \o t \in Histories
         /\ Called(s \o t) = Called(s) /\ Responded(s \o t) = Responded(s)
         /\ Wired(s) => Wired(s \o t)
         /\ \A n : Within(s, n) => Within(s \o t, n)
         /\ Bare(s) => Bare(s \o t)
  <1>1. Wired(t) /\ Called(t) = {} /\ Responded(t) = {} /\ Tidy(t)
    BY PlainWired DEF Bare, Wired
  <1> DEFINE st == s \o t
  <1>2. st \in Histories /\ Called(st) = Called(s) \cup Called(t) /\ Responded(st) = Responded(s) \cup Responded(t)
    BY Concatenated, CalledJoined
  <1>3. Wired(s) => Wired(st)
    BY <1>1, WiredJoined
  <1>4. Tidy(s) => Tidy(st)
    BY <1>1, TidyJoined
  <1>5. Bare(s) => Bare(st)
    <2> HIDE DEF st
    <2>1. st = s \o t
      BY DEF st
    <2>2. \A i \in DOMAIN st : (i \in DOMAIN s /\ st[i] = s[i]) \/ \E j \in DOMAIN t : st[i] = t[j]
      BY <2>1, Halves
    <2> QED BY <2>2 DEF Bare
  <1> HIDE DEF st
  <1>6. Called(st) = Called(s) /\ Responded(st) = Responded(s)
    BY <1>1, <1>2
  <1> QED BY <1>2, <1>3, <1>4, <1>5, <1>6 DEF Within, st

\* The same of one message.
LEMMA BareAdded ==
  ASSUME NEW s \in Histories, NEW m \in Message, m.calls = <<>>, m.role # "tool"
  PROVE  /\ Append(s, m) \in Histories
         /\ Called(Append(s, m)) = Called(s) /\ Responded(Append(s, m)) = Responded(s)
         /\ Wired(s) => Wired(Append(s, m))
         /\ \A n : Within(s, n) => Within(Append(s, m), n)
         /\ Bare(s) => Bare(Append(s, m))
  <1>1. <<m>> \in Histories /\ Append(s, m) = s \o <<m>>
    BY Single, Appended
  <1>2. Bare(<<m>>)
    BY DEF Bare
  <1> QED BY <1>1, <1>2, BareJoined

\* The first of such messages, and the others.
LEMMA BareFirst ==
  ASSUME NEW q \in Histories, q # <<>>, Bare(q)
  PROVE  /\ Head(q) \in Message /\ Head(q).calls = <<>> /\ Head(q).role # "tool"
         /\ Tail(q) \in Histories /\ Bare(Tail(q)) /\ Bare(<<Head(q)>>) /\ <<Head(q)>> \in Histories
  <1>1. Head(q) \in Message /\ Tail(q) \in Histories
    BY FirstOut
  <1>2. Len(q) \in Nat \ {0} /\ DOMAIN q = 1 .. Len(q)
    BY EmptySeq DEF Histories
  <1>3. Head(q) = q[1] /\ 1 \in DOMAIN q
    BY <1>2 DEF Histories
  <1>4. Bare(Tail(q))
    <2>1. \A i \in DOMAIN Tail(q) : i + 1 \in DOMAIN q /\ Tail(q)[i] = q[i + 1]
      BY <1>2 DEF Histories
    <2> QED BY <2>1 DEF Bare
  <1>5. Head(q).calls = <<>> /\ Head(q).role # "tool"
    BY <1>3 DEF Bare
  <1>6. Bare(<<Head(q)>>)
    BY <1>5 DEF Bare
  <1> QED BY <1>1, <1>4, <1>5, <1>6, Single

\* The sanitizer wires a history and adds no id.
LEMMA SanitizedWithin ==
  ASSUME NEW h \in Histories, NEW n, Within(h, n)
  PROVE  /\ Sanitize(h) \in Histories /\ Wired(Sanitize(h)) /\ Within(Sanitize(h), n)
         /\ Called(Sanitize(h)) = Called(h)
  BY SanitizedWired DEF Within, Wired

\* So does a compaction.
LEMMA CompactedWithin ==
  ASSUME NEW h \in Histories, NEW t \in Histories, NEW n, Within(h, n), Within(t, n)
  PROVE  /\ Compacted(h, t) \in Histories /\ Wired(Compacted(h, t)) /\ Within(Compacted(h, t), n)
  BY CompactedWired DEF Within, Wired

\* The next result of the calls in ids is added.
LEMMA ResultAdded ==
  ASSUME NEW h \in Histories, NEW ids \in Seq(Nat), Distinct(ids), NEW k \in Nat, k < Len(ids),
         NEW n, Within(h, n), \A a \in Range(ids) : a <= n,
         NEW x, x = ToolMsg(ids[k + 1]),
         Opened(h, ids, k) \/ Called(h) \cap Range(ids) = {}
  PROVE  /\ Append(h, x) \in Histories /\ Within(Append(h, x), n)
         /\ Opened(Append(h, x), ids, k + 1) \/ Called(Append(h, x)) \cap Range(ids) = {}
  <1>0. k + 1 \in 1 .. Len(ids) /\ DOMAIN ids = 1 .. Len(ids) /\ k + 1 \in 0 .. Len(ids)
    OBVIOUS
  <1> DEFINE a == ids[k + 1]
             s == <<x>>
             d == Append(h, x)
  <1>1. a \in Nat /\ a \in Range(ids)
    BY <1>0 DEF Range
  <1>2. x \in Message /\ x.calls = <<>> /\ x.role = "tool" /\ x.ref = a
    <2>1. x \in Message
      BY <1>1, Spoken
    <2> QED BY <2>1 DEF ToolMsg
  <1> HIDE DEF a
  <1>3. s \in Histories /\ Tidy(s) /\ Called(s) = {} /\ Responded(s) = {a} /\ d = h \o s
    BY <1>2, SingleTidy, Appended
  <1> HIDE DEF s, d
  <1>4. d \in Histories /\ Called(d) = Called(h) /\ Responded(d) = Responded(h) \cup {a}
    <2>1. Called(h \o s) = Called(h) \cup Called(s) /\ Responded(h \o s) = Responded(h) \cup Responded(s)
      BY <1>3, CalledJoined
    <2>2. h \o s \in Histories
      BY <1>3, Concatenated
    <2> QED BY <1>3, <2>1, <2>2
  <1>5. CASE Opened(h, ids, k)
    <2>1. Opened(d, ids, k + 1)
      BY <1>5, OpenedNext DEF d
    <2> DEFINE m == k + 1
    <2>2. m \in 0 .. Len(ids) /\ Opened(d, ids, m)
      BY <1>0, <2>1
    <2> HIDE DEF m
    <2>3. Tidy(d)
      BY <2>2, OpenedIs
    <2>4. Within(d, n)
      BY <1>1, <1>4, <2>3 DEF Within
    <2> QED BY <1>4, <2>1, <2>4 DEF d
  <1>6. CASE Called(h) \cap Range(ids) = {}
    <2>1. Called(h) \cap Responded(s) = {}
      BY <1>1, <1>3, <1>6
    <2>2. Tidy(h \o s)
      BY <1>3, <2>1, TidyJoined DEF Within
    <2>3. Within(d, n)
      BY <1>1, <1>3, <1>4, <2>2 DEF Within
    <2>4. Called(d) \cap Range(ids) = {}
      BY <1>4, <1>6
    <2> QED BY <1>4, <2>3, <2>4 DEF d
  <1> QED BY <1>5, <1>6

\* The last result completes what is sent.
LEMMA ResultsComplete ==
  ASSUME NEW h, NEW ids \in Seq(Nat), Distinct(ids), NEW k \in Nat, k + 1 = Len(ids),
         NEW x, x = ToolMsg(ids[k + 1]), OpenedWired(h, ids, k)
  PROVE  Wired(Append(h, x))
  <1> DEFINE l == Len(ids)
             d == Append(h, x)
  <1>1. k < Len(ids) /\ l = Len(ids) /\ l \in 0 .. Len(ids) /\ l = k + 1
    OBVIOUS
  <1> HIDE DEF l
  <1>2. OpenedWired(d, ids, k + 1)
    BY <1>1, OpenedNext
  <1>3. OpenedWired(d, ids, l)
    BY <1>1, <1>2
  <1> HIDE DEF d
  <1>4. Wired(d)
    BY <1>1, <1>3, OpenedIs
  <1> QED BY <1>4 DEF d

\* Ids above n are new to a history within n.
LEMMA FreshOpened ==
  ASSUME NEW h \in Histories, NEW ids \in Seq(Nat), NEW n \in Nat, NEW m \in Nat, Within(h, n),
         Distinct(ids), \A a \in Range(ids) : n < a /\ a <= n + m
  PROVE  /\ Append(h, Reply(ids)) \in Histories /\ Within(Append(h, Reply(ids)), n + m)
         /\ Opened(Append(h, Reply(ids)), ids, 0)
         /\ Wired(h) => OpenedWired(Append(h, Reply(ids)), ids, 0)
         /\ Called(h) \cap Range(ids) = {}
         /\ Within(h, n + m)
  <1> DEFINE x == Reply(ids)
             d == Append(h, x)
  <1>0. x \in Message /\ x.calls = ids /\ x.role = "assistant"
    BY Spoken DEF Reply
  <1>1. \A a \in Called(h) \cup Responded(h) : a \in Nat
    <2>1. \A i \in DOMAIN h : h[i].calls \in Seq(Nat) /\ h[i].ref \in Nat
      BY CallsIn
    <2>2. \A i \in DOMAIN h : Range(h[i].calls) \subseteq Nat
      BY <2>1 DEF Range
    <2> QED BY <2>1, <2>2 DEF Called, Responded, Range
  <1>2. Range(ids) \subseteq Nat
    BY DEF Range
  <1>3. (Called(h) \cup Responded(h)) \cap Range(ids) = {}
    BY <1>1, <1>2 DEF Within
  <1>4. Opened(d, ids, 0) /\ (Wired(h) => OpenedWired(d, ids, 0))
    BY <1>3, OpenedBegins DEF Within
  <1> HIDE DEF x
  <1>5. <<x>> \in Histories /\ d = h \o <<x>> /\ Called(<<x>>) = Range(ids) /\ Responded(<<x>>) = {}
    BY <1>0, Single, Appended, CalledOne, RespondedOne
  <1> DEFINE s == <<x>>
  <1> HIDE DEF d, s
  <1>6. s \in Histories /\ d = h \o s /\ Called(s) = Range(ids) /\ Responded(s) = {}
    BY <1>5 DEF s
  <1>7. d \in Histories /\ Called(d) = Called(h) \cup Range(ids) /\ Responded(d) = Responded(h)
    <2>1. Called(h \o s) = Called(h) \cup Called(s) /\ Responded(h \o s) = Responded(h) \cup Responded(s)
      BY <1>6, CalledJoined
    <2>2. h \o s \in Histories
      BY <1>6, Concatenated
    <2> QED BY <1>6, <2>1, <2>2
  <1>8. Tidy(d)
    <2> DEFINE z == 0
    <2>1. z \in 0 .. Len(ids) /\ Opened(d, ids, z)
      BY <1>4
    <2> HIDE DEF z
    <2> QED BY <2>1, OpenedIs
  <1>9. \A a \in Called(h) \cup Responded(h) : a <= n + m
    BY <1>1 DEF Within
  <1>10. Within(d, n + m) /\ Within(h, n + m)
    BY <1>7, <1>8, <1>9 DEF Within
  <1> QED BY <1>3, <1>4, <1>7, <1>10 DEF d, x

-----------------------------------------------------------------------------
(* The invariant of the wire contract                                      *)

\* What waits to join the histories calls and answers nothing.
WaitingBare == Bare(queue) /\ Bare(drained) /\ Bare(prompt)

\* The histories are tidy, and no id in them is yet to come.
ListsWithin ==
  /\ Within(history, seen.ids) /\ Within(msgs, seen.ids) /\ Within(tail, seen.ids)
  /\ Within(summed, seen.ids) /\ Wired(summed)
  /\ \A i \in DOMAIN abandoned : Within(abandoned[i], seen.ids)

\* The phases of a step in which its calls await results.
Answering == {"announce", "running", "result"}
\* The ids of the step's calls.
Ids == [k \in DOMAIN calls |-> calls[k].id]

\* The calls in ids are being answered: k of them are, in what is sent, and in the history
\* unless a finalizer has replaced it; no abandoned turn knows them.
StepOpen(ids, k, h, ms, left, n) ==
  /\ Distinct(ids) /\ k < Len(ids) /\ \A a \in Range(ids) : a <= n
  /\ OpenedWired(ms, ids, k)
  /\ Opened(h, ids, k) \/ Called(h) \cap Range(ids) = {}
  /\ \A i \in DOMAIN left : Called(left[i]) \cap Range(ids) = {}

\* What is sent is wired, except for the calls being answered.
RequestWired ==
  IF phase \in Answering
  THEN StepOpen(Ids, answered, history, msgs, abandoned, seen.ids)
  ELSE Wired(msgs)

\* The invariant: together these imply the contract.
WireInv == TurnType /\ WaitingBare /\ ListsWithin /\ RequestWired

\* The counter of ids.
LEMMA IdsCounted ==
  ASSUME seen \in Counters
  PROVE  /\ seen.ids \in Nat
         /\ Counted("users") => seen'.ids = seen.ids
         /\ Counted("notes") => seen'.ids = seen.ids
         /\ Counted("replies") => seen'.ids = seen.ids
         /\ Counted("compactions") => seen'.ids = seen.ids
         /\ Stop => seen'.ids = seen.ids
  BY DEF Counted, Counters, Stop

\* What waits stays bare.
LEMMA WaitingBareStep == TurnType /\ WaitingBare /\ [Next]_vars => WaitingBare'
  <1> SUFFICES ASSUME TurnType, WaitingBare, [Next]_vars PROVE WaitingBare'
    OBVIOUS
  <1> USE DEF lists, step, control, ghosts
  <1>0. /\ queue \in Histories /\ drained \in Histories /\ prompt \in Histories
        /\ Bare(queue) /\ Bare(drained) /\ Bare(prompt) /\ Bare(<<>>)
    BY BareIs DEF TurnType, WaitingBare
  <1>1. ASSUME UNCHANGED <<queue, drained, prompt>> PROVE WaitingBare'
    BY <1>0, <1>1 DEF WaitingBare
  <1>2. ASSUME NEW h, NEW ms, LoopTop(h, ms), prompt' = prompt \/ prompt' = <<>> PROVE WaitingBare'
    <2>1. CASE queue = <<>>
      BY <1>0, <1>2, <2>1 DEF LoopTop, WaitingBare
    <2>2. CASE queue # <<>>
      <3>1. Bare(Tail(queue))
        BY <1>0, <2>2, BareFirst
      <3>2. queue' = <<>> /\ drained' = Tail(queue)
        BY <1>2, <2>2 DEF LoopTop
      <3> QED BY <1>0, <1>2, <3>1, <3>2 DEF WaitingBare
    <2> QED BY <2>1, <2>2
  <1>3. CASE UNCHANGED vars
    BY <1>1, <1>3 DEF vars
  <1>4. CASE Submit
    <2>1. seen.users + 1 \in Nat
      BY <1>4, TurnAssumption DEF TurnType, Counters
    <2> DEFINE m == User(seen.users + 1)
    <2>2. m \in Message /\ m.calls = <<>> /\ m.role # "tool"
      BY <2>1, Spoken DEF User
    <2> HIDE DEF m
    <2>3. Bare(Append(queue, m))
      BY <1>0, <2>2, BareAdded
    <2>4. queue' = Append(queue, m) /\ UNCHANGED <<drained, prompt>>
      BY <1>4 DEF Submit, m
    <2> QED BY <1>0, <2>3, <2>4 DEF WaitingBare
  <1>5. CASE Notify
    <2>1. seen.notes + 1 \in Nat
      BY <1>5, TurnAssumption DEF TurnType, Counters
    <2> DEFINE m == Note(seen.notes + 1)
    <2>2. m \in Message /\ m.calls = <<>> /\ m.role # "tool"
      BY <2>1, Spoken DEF Note
    <2> HIDE DEF m
    <2>3. Bare(Append(queue, m))
      BY <1>0, <2>2, BareAdded
    <2>4. queue' = Append(queue, m) /\ UNCHANGED <<drained, prompt>>
      BY <1>5 DEF Notify, m
    <2> QED BY <1>0, <2>3, <2>4 DEF WaitingBare
  <1>6. CASE Begin
    <2>1. queue # <<>> /\ prompt' = <<Head(queue)>> /\ queue' = Tail(queue) /\ drained' = drained
      BY <1>6 DEF Begin
    <2>2. Bare(Tail(queue)) /\ Bare(<<Head(queue)>>)
      BY <1>0, <2>1, BareFirst
    <2> QED BY <1>0, <2>1, <2>2 DEF WaitingBare
  <1>7. CASE PrepCompact \/ Collect \/ PrepCompacted
    BY <1>1, <1>7 DEF PrepCompact, Collect, PrepCompacted
  <1>8. CASE Prepare
    <2>1. LoopTop(Sanitize(history) \o prompt, Sanitize(history) \o prompt) /\ prompt' = <<>>
      BY <1>8 DEF Prepare
    <2> QED BY <1>2, <2>1
  <1>9. CASE DrainNext
    <2>1. drained # <<>> /\ drained' = Tail(drained) /\ queue' = queue /\ prompt' = prompt
      BY <1>9 DEF DrainNext
    <2>2. Bare(Tail(drained))
      BY <1>0, <2>1, BareFirst
    <2> QED BY <1>0, <2>1, <2>2 DEF WaitingBare
  <1>10. CASE DrainDone \/ Answer \/ EndOfTurn \/ RequestFails \/ ErrorShown
    BY <1>1, <1>10 DEF DrainDone, Answer, EndOfTurn, RequestFails, ErrorShown
  <1>11. CASE NextMessages
    <2>1. LoopTop(history, msgs) /\ prompt' = prompt
      BY <1>11 DEF NextMessages
    <2> QED BY <1>2, <2>1
  <1>12. ASSUME NEW n \in 1 .. MaxCalls, CallTools(n) PROVE WaitingBare'
    BY <1>1, <1>12 DEF CallTools
  <1>13. CASE StartBatch \/ Record \/ RecordAndCompact \/ CompactSucceeds \/ Resync
    BY <1>1, <1>13 DEF StartBatch, Record, RecordAndCompact, CompactSucceeds, Resync
  <1>14. ASSUME NEW i \in DOMAIN calls, ToolReturns(i) PROVE WaitingBare'
    BY <1>1, <1>14 DEF ToolReturns
  <1>15. CASE RecordLast
    <2>1. LoopTop(Append(history, Result), Append(msgs, Result)) /\ prompt' = prompt
      BY <1>15 DEF RecordLast
    <2> QED BY <1>2, <2>1
  <1>16. CASE AfterCompaction
    <2>1. LoopTop(history, Sent) /\ prompt' = prompt
      BY <1>16 DEF AfterCompaction
    <2> QED BY <1>2, <2>1
  <1>17. CASE Close \/ NoteInterruption \/ StopHandler \/ Finalize
    BY <1>1, <1>17 DEF Close, NoteInterruption, StopHandler, Finalize
  <1>18. CASE StopInside \/ StopOutside
    <2>1. queue' = queue /\ drained' = <<>> /\ prompt' = <<>>
      BY <1>18 DEF StopInside, StopOutside, Unwound
    <2> QED BY <1>0, <2>1 DEF WaitingBare
  <1>19. ASSUME NEW k \in 0 .. (MaxUsers - 1), Rewind(k) PROVE WaitingBare'
    BY <1>1, <1>19 DEF Rewind
  <1> QED BY <1>3, <1>4, <1>5, <1>6, <1>7, <1>8, <1>9, <1>10, <1>11, <1>12, <1>13, <1>14,
             <1>15, <1>16, <1>17, <1>18, <1>19
          DEF Next, Work, Preparing, Requesting, Executing, Ending

\* The ids of the step's calls are a sequence of ids.
LEMMA IdsAre ==
  ASSUME calls \in ToolCalls
  PROVE  /\ Ids \in Seq(Nat) /\ Len(Ids) = Len(calls) /\ Len(calls) \in Nat
         /\ \A k \in 1 .. Len(calls) : Ids[k] = calls[k].id
  <1>1. DOMAIN calls = 1 .. Len(calls) /\ Len(calls) \in Nat
    BY DEF ToolCalls
  <1>2. \A k \in 1 .. Len(calls) : calls[k].id \in Nat
    <2> SUFFICES ASSUME NEW k \in 1 .. Len(calls) PROVE calls[k].id \in Nat
      OBVIOUS
    <2>1. calls[k] \in [id : Nat, safe : BOOLEAN]
      BY ElementOfSeq DEF ToolCalls
    <2> QED BY <2>1
  <1> QED BY <1>1, <1>2 DEF Ids

\* The top of the loop.
LEMMA LoopTopWires ==
  ASSUME NEW h \in Histories, NEW ms \in Histories, LoopTop(h, ms), queue \in Histories, Bare(queue),
         NEW n, Within(h, n), Within(ms, n), Wired(ms)
  PROVE  Within(history', n) /\ Within(msgs', n) /\ Wired(msgs') /\ phase' \notin Answering
  <1>1. CASE queue = <<>>
    BY <1>1 DEF LoopTop, Answering
  <1>2. CASE queue # <<>>
    <2>1. Head(queue) \in Message /\ Head(queue).calls = <<>> /\ Head(queue).role # "tool"
      BY <1>2, BareFirst
    <2>2. history' = Append(h, Head(queue)) /\ msgs' = Append(ms, Head(queue)) /\ phase' = "drain"
      BY <1>2 DEF LoopTop
    <2>3. Within(Append(h, Head(queue)), n) /\ Within(Append(ms, Head(queue)), n) /\ Wired(Append(ms, Head(queue)))
      BY <2>1, BareAdded
    <2> QED BY <2>2, <2>3 DEF Answering
  <1> QED BY <1>1, <1>2

\* The part of the invariant about the lists.
WireLists == ListsWithin /\ RequestWired

\* What a compaction makes calls nothing new and is wired.
LEMMA SummedWires ==
  ASSUME TurnType, ListsWithin, [Next]_vars
  PROVE  summed' \in Histories /\ Within(summed', seen.ids) /\ Wired(summed')
  <1> DEFINE n == seen.ids
  <1>1. /\ history \in Histories /\ tail \in Histories /\ summed \in Histories
        /\ Within(history, n) /\ Within(tail, n) /\ Within(summed, n) /\ Wired(summed)
    BY DEF TurnType, ListsWithin
  <1>2. <<>> \in Histories /\ Within(<<>>, n) /\ Wired(<<>>)
    BY BareIs, Empty
  <1> HIDE DEF n
  <1>3. CASE Collect
    <2>1. summed' = Compacted(history, tail)
      BY <1>3 DEF Collect
    <2> QED BY <1>1, <2>1, CompactedWithin DEF n
  <1>4. CASE CompactSucceeds
    <2>1. summed' = Sanitize(summed)
      BY <1>4 DEF CompactSucceeds
    <2> QED BY <1>1, <2>1, SanitizedWithin DEF n
  <1> QED BY <1>1, <1>2, <1>3, <1>4, SummedLeft DEF n

\* Every action keeps the lists wired: a step's new ids are above those of every list, its
\* results come in the order of its calls, and a finalizer brings a history that does not
\* know them.
LEMMA WireListsStep == FreshIds /\ WireInv /\ [Next]_vars => WireLists'
  <1> SUFFICES ASSUME FreshIds, WireInv, [Next]_vars PROVE WireLists'
    OBVIOUS
  <1> USE DEF lists, step, control, ghosts
  <1> DEFINE n == seen.ids
  <1>0. /\ history \in Histories /\ msgs \in Histories /\ queue \in Histories /\ drained \in Histories
        /\ prompt \in Histories /\ tail \in Histories /\ summed \in Histories
        /\ abandoned \in Seq(Histories)
        /\ calls \in ToolCalls /\ answered \in Nat /\ seen \in Counters /\ n \in Nat
        /\ Bare(queue) /\ Bare(drained) /\ Bare(prompt)
    BY IdsCounted DEF WireInv, TurnType, WaitingBare
  <1> HIDE DEF n
  <1>1. /\ Within(history, n) /\ Within(msgs, n) /\ Within(tail, n)
        /\ Within(summed, n) /\ Wired(summed)
        /\ \A i \in DOMAIN abandoned : Within(abandoned[i], n)
    BY DEF WireInv, ListsWithin, n
  <1>2. phase \in Answering => StepOpen(Ids, answered, history, msgs, abandoned, n)
    BY DEF WireInv, RequestWired, n
  <1>3. phase \notin Answering => Wired(msgs)
    BY DEF WireInv, RequestWired
  <1>4. Within(<<>>, n) /\ Wired(<<>>)
    BY BareIs
  <1>m. Within(summed', n) /\ Wired(summed')
    BY SummedWires DEF WireInv, n
  \* The lists after a step that is not at the calls.
  <1>5. ASSUME Within(history', n), Within(msgs', n), Wired(msgs'), tail' \in {tail, <<>>} \/ Within(tail', n),
               \A i \in DOMAIN abandoned' : Within(abandoned'[i], n), seen'.ids = n, phase' \notin Answering
        PROVE  WireLists'
    BY <1>1, <1>4, <1>5, <1>m DEF WireLists, ListsWithin, RequestWired
  \* A step that leaves the lists alone.
  <1>6. ASSUME UNCHANGED <<history, msgs, tail, abandoned, calls, answered>>, seen'.ids = n,
               phase' \in Answering <=> phase \in Answering
        PROVE  WireLists'
    <2>1. Ids' = Ids
      BY <1>6 DEF Ids
    <2>2. CASE phase \in Answering
      BY <1>1, <1>2, <1>6, <1>m, <2>1, <2>2 DEF WireLists, ListsWithin, RequestWired
    <2>3. CASE phase \notin Answering
      BY <1>1, <1>3, <1>6, <1>m, <2>3 DEF WireLists, ListsWithin, RequestWired
    <2> QED BY <2>2, <2>3
  \* The top of the loop.
  <1>7. ASSUME NEW h \in Histories, NEW ms \in Histories, LoopTop(h, ms), Within(h, n), Within(ms, n), Wired(ms),
               tail' \in {tail, <<>>}, abandoned' = abandoned, seen' = seen
        PROVE  WireLists'
    <2>1. Within(history', n) /\ Within(msgs', n) /\ Wired(msgs') /\ phase' \notin Answering
      BY <1>0, <1>7, LoopTopWires
    <2> QED BY <1>1, <1>5, <1>7, <2>1 DEF n
  <1>8. CASE UNCHANGED vars
    BY <1>6, <1>8 DEF vars, n
  <1>9. CASE Submit \/ Notify
    <2>1. seen'.ids = n
      BY <1>0, <1>9, IdsCounted DEF Submit, Notify, n
    <2> QED BY <1>6, <1>9, <2>1 DEF Submit, Notify
  <1>10. CASE Begin
    <2>1. phase \notin Answering /\ phase' \notin Answering
      BY <1>10 DEF Begin, Answering
    <2> QED BY <1>6, <1>10, <2>1 DEF Begin, n
  <1>11. CASE PrepCompact
    <2>1. seen'.ids = n /\ phase \notin Answering /\ phase' \notin Answering
      BY <1>0, <1>11, IdsCounted DEF PrepCompact, n, Answering
    <2>2. Within(RecentTail(history), n)
      <3> DEFINE t == RecentTail(history)
      <3>1. IsTail(t, history)
        BY <1>0, <1>11, RecentIsTail DEF PrepCompact
      <3> HIDE DEF t
      <3>2. Tidy(t) /\ Called(t) \subseteq Called(history) /\ Responded(t) \subseteq Responded(history)
        BY <1>0, <1>1, <3>1, TailTidy DEF Within
      <3>3. Within(t, n)
        BY <1>1, <3>2 DEF Within
      <3> QED BY <3>3 DEF t
    <2>3. tail' = RecentTail(history) /\ UNCHANGED <<history, msgs, abandoned>>
      BY <1>11 DEF PrepCompact
    <2>4. Within(tail', n)
      BY <2>2, <2>3
    <2> QED BY <1>1, <1>3, <1>5, <2>1, <2>3, <2>4
  <1>12. CASE PrepCompacted
    <2>1. /\ history' \in {history, summed} /\ tail' = <<>>
          /\ UNCHANGED <<msgs, abandoned, seen>> /\ phase \notin Answering /\ phase' \notin Answering
      BY <1>12 DEF PrepCompacted, Answering
    <2>3. Within(history', n)
      BY <1>1, <2>1
    <2> QED BY <1>1, <1>3, <1>5, <2>1, <2>3 DEF n
  <1>13. CASE Prepare
    <2> DEFINE s == Sanitize(history)
               ms == s \o prompt
    <2>1. s \in Histories /\ Wired(s) /\ Within(s, n)
      BY <1>0, <1>1, SanitizedWithin
    <2> HIDE DEF s
    <2>2. ms \in Histories /\ Wired(ms) /\ Within(ms, n)
      BY <1>0, <2>1, BareJoined
    <2>3. LoopTop(ms, ms) /\ UNCHANGED <<tail, abandoned, seen>>
      BY <1>13 DEF Prepare, s
    <2> HIDE DEF ms
    <2> QED BY <1>7, <2>2, <2>3
  <1>14. CASE DrainNext
    <2> DEFINE m == Head(drained)
    <2>1. /\ history' = Append(history, m) /\ msgs' = Append(msgs, m) /\ UNCHANGED <<tail, abandoned, seen>>
          /\ phase \notin Answering /\ phase' \notin Answering /\ drained # <<>>
      BY <1>14 DEF DrainNext, Answering
    <2>2. m \in Message /\ m.calls = <<>> /\ m.role # "tool"
      BY <1>0, <2>1, BareFirst
    <2> HIDE DEF m
    <2>3. Within(Append(history, m), n) /\ Within(Append(msgs, m), n) /\ Wired(Append(msgs, m))
      BY <1>0, <1>1, <1>3, <2>1, <2>2, BareAdded
    <2>4. Within(history', n) /\ Within(msgs', n) /\ Wired(msgs')
      BY <2>1, <2>3
    <2> QED BY <1>1, <1>5, <2>1, <2>4 DEF n
  <1>15. CASE DrainDone \/ EndOfTurn \/ RequestFails \/ ErrorShown
    <2>1. /\ UNCHANGED <<history, msgs, tail, abandoned, calls, answered, seen>>
          /\ phase \notin Answering /\ phase' \notin Answering
      BY <1>15 DEF DrainDone, EndOfTurn, RequestFails, ErrorShown, Answering
    <2> QED BY <1>6, <2>1 DEF n
  <1>16. CASE Answer
    <2> DEFINE m == Reply(<<>>)
    <2>1. /\ history' = Append(history, m) /\ msgs' = Append(msgs, m) /\ UNCHANGED <<tail, abandoned>>
          /\ phase \notin Answering /\ phase' \notin Answering /\ seen'.ids = n
      BY <1>0, <1>16, IdsCounted DEF Answer, Answering, n
    <2>2. m \in Message /\ m.calls = <<>> /\ m.role # "tool"
      BY Spoken DEF Reply
    <2> HIDE DEF m
    <2>3. Within(Append(history, m), n) /\ Within(Append(msgs, m), n) /\ Wired(Append(msgs, m))
      BY <1>0, <1>1, <1>3, <2>1, <2>2, BareAdded
    <2>4. Within(history', n) /\ Within(msgs', n) /\ Wired(msgs')
      BY <2>1, <2>3
    <2> QED BY <1>1, <1>5, <2>1, <2>4
  <1>17. CASE NextMessages
    <2>1. LoopTop(history, msgs) /\ UNCHANGED <<tail, abandoned, seen>> /\ phase \notin Answering
      BY <1>17 DEF NextMessages, Answering
    <2> QED BY <1>0, <1>1, <1>3, <1>7, <2>1
  <1>18. ASSUME NEW c \in 1 .. MaxCalls, CallTools(c) PROVE WireLists'
    <2> DEFINE ids == [i \in 1 .. c |-> n + i]
               m == Reply(ids)
    <2>1. PICK safe \in [1 .. c -> BOOLEAN] :
            /\ calls' = [i \in 1 .. c |-> [id |-> n + i, safe |-> safe[i]]]
            /\ history' = Append(history, m) /\ msgs' = Append(msgs, m)
      BY <1>18 DEF CallTools, n
    <2>2. c \in Nat /\ c > 0 /\ DOMAIN ids = 1 .. c /\ Len(ids) = c /\ ids \in Seq(Nat)
          /\ \A i \in 1 .. c : ids[i] = n + i
      BY <1>0, TurnAssumption
    <2>3. Ids' = ids
      BY <2>1 DEF Ids
    <2>4. phase \notin Answering /\ phase' \in Answering /\ answered' = 0 /\ UNCHANGED <<tail, abandoned>>
      BY <1>18 DEF CallTools, Answering
    <2>13. summed' = summed
      BY <1>18 DEF CallTools
    <2>5. seen'.ids = n + c
      BY <1>0, <1>18 DEF CallTools, Counters, n
    <2> HIDE DEF ids
    <2>6. Distinct(ids) /\ \A a \in Range(ids) : n < a /\ a <= n + c
      BY <1>0, <2>2 DEF Distinct, Range
    <2> DEFINE d == Append(history, m)
               b == Append(msgs, m)
    <2>7. /\ Within(d, n + c) /\ Opened(d, ids, 0)
          /\ Within(b, n + c) /\ OpenedWired(b, ids, 0)
          /\ Within(tail, n + c) /\ Within(summed, n + c)
      BY <1>0, <1>1, <1>3, <2>2, <2>4, <2>6, FreshOpened
    <2>8. \A i \in DOMAIN abandoned : Within(abandoned[i], n + c) /\ Called(abandoned[i]) \cap Range(ids) = {}
      <3> SUFFICES ASSUME NEW i \in DOMAIN abandoned
                   PROVE  Within(abandoned[i], n + c) /\ Called(abandoned[i]) \cap Range(ids) = {}
        OBVIOUS
      <3> DEFINE h == abandoned[i]
      <3>1. h \in Histories /\ Within(h, n)
        BY <1>0, <1>1
      <3> HIDE DEF h
      <3>2. Within(h, n + c) /\ Called(h) \cap Range(ids) = {}
        BY <1>0, <2>2, <2>6, <3>1, FreshOpened
      <3> QED BY <3>2 DEF h
    <2> HIDE DEF d, b, m
    <2>9. history' = d /\ msgs' = b
      BY <2>1 DEF d, b
    <2>10. ListsWithin'
      BY <1>1, <2>4, <2>5, <2>7, <2>8, <2>9, <2>13 DEF ListsWithin
    <2>11. StepOpen(ids, 0, d, b, abandoned, n + c)
      BY <1>0, <2>2, <2>6, <2>7, <2>8 DEF StepOpen
    <2>12. RequestWired'
      BY <2>3, <2>4, <2>5, <2>9, <2>11 DEF RequestWired
    <2> QED BY <2>10, <2>12 DEF WireLists
  <1>19. CASE StartBatch
    <2>1. /\ UNCHANGED <<history, msgs, tail, abandoned, calls, answered, seen>>
          /\ phase \in Answering /\ phase' \in Answering
      BY <1>19 DEF StartBatch, Answering
    <2> QED BY <1>6, <2>1 DEF n
  <1>20. ASSUME NEW i \in DOMAIN calls, ToolReturns(i) PROVE WireLists'
    <2>1. /\ UNCHANGED <<history, msgs, tail, abandoned, calls, answered, seen>>
          /\ phase \in Answering /\ phase' \in Answering
      BY <1>20 DEF ToolReturns, Answering
    <2> QED BY <1>6, <2>1 DEF n
  \* The next result.
  <1> DEFINE x == Result
             ids == Ids
             d == Append(history, x)
             b == Append(msgs, x)
  <1>21. ids \in Seq(Nat) /\ Len(ids) = Len(calls)
    BY <1>0, IdsAre
  <1>22. ASSUME phase = "result"
         PROVE  /\ StepOpen(ids, answered, history, msgs, abandoned, n)
                /\ x = ToolMsg(ids[answered + 1])
                /\ d \in Histories /\ b \in Histories /\ Within(d, n) /\ Within(b, n)
                /\ Opened(d, ids, answered + 1) \/ Called(d) \cap Range(ids) = {}
                /\ OpenedWired(b, ids, answered + 1)
                /\ answered + 1 = Len(calls) => Wired(b)
    <2>1. StepOpen(ids, answered, history, msgs, abandoned, n)
      BY <1>2, <1>22 DEF Answering
    <2>2. answered < Len(ids) /\ Len(calls) \in Nat /\ answered + 1 \in 1 .. Len(calls)
      BY <1>0, <1>21, <2>1, IdsAre DEF StepOpen
    <2>3. x = ToolMsg(ids[answered + 1])
      BY <1>0, <2>2, IdsAre DEF Result
    <2> HIDE DEF x, ids
    <2>4. d \in Histories /\ Within(d, n) /\ (Opened(d, ids, answered + 1) \/ Called(d) \cap Range(ids) = {})
      BY <1>0, <1>1, <1>21, <2>1, <2>2, <2>3, ResultAdded DEF StepOpen
    <2>5. OpenedWired(msgs, ids, answered) /\ Distinct(ids) /\ \A a \in Range(ids) : a <= n
      BY <2>1 DEF StepOpen
    <2>6. Opened(msgs, ids, answered)
      <3>1. answered \in 0 .. Len(ids)
        BY <1>0, <1>21, <2>2
      <3> QED BY <1>21, <2>5, <3>1, OpenedIs
    <2>7. b \in Histories /\ Within(b, n)
      BY <1>0, <1>1, <1>21, <2>2, <2>3, <2>5, <2>6, ResultAdded
    <2>8. OpenedWired(b, ids, answered + 1)
      BY <1>0, <1>21, <2>2, <2>3, <2>5, OpenedNext
    <2>9. answered + 1 = Len(calls) => Wired(b)
      BY <1>0, <1>21, <2>3, <2>5, ResultsComplete
    <2> QED BY <2>1, <2>3, <2>4, <2>7, <2>8, <2>9
  <1> HIDE DEF x, ids, d, b
  <1>23. CASE Record
    <2>1. /\ phase = "result" /\ answered + 1 < Len(calls) /\ history' = d /\ msgs' = b
          /\ answered' = answered + 1 /\ UNCHANGED <<tail, abandoned, seen, calls>> /\ phase' \in Answering
      BY <1>23 DEF Record, Answering, d, b, x
    <2>2. Ids' = ids
      BY <2>1 DEF Ids, ids
    <2>3. StepOpen(ids, answered + 1, d, b, abandoned, n)
      BY <1>21, <1>22, <2>1 DEF StepOpen
    <2>4. ListsWithin'
      BY <1>1, <1>22, <1>m, <2>1 DEF ListsWithin, n
    <2>5. RequestWired'
      BY <2>1, <2>2, <2>3 DEF RequestWired, n
    <2> QED BY <2>4, <2>5 DEF WireLists
  <1>24. CASE RecordLast
    <2>1. /\ phase = "result" /\ answered + 1 = Len(calls) /\ LoopTop(d, b) /\ UNCHANGED <<tail, abandoned, seen>>
      BY <1>24 DEF RecordLast, d, b, x
    <2> QED BY <1>7, <1>22, <2>1
  <1>25. CASE RecordAndCompact
    <2>1. /\ phase = "result" /\ answered + 1 = Len(calls) /\ Len(b) > 4 /\ history' = b /\ msgs' = b
          /\ tail' = RecentTail(b) /\ phase' \notin Answering /\ abandoned' = abandoned /\ seen'.ids = n
      BY <1>0, <1>25, IdsCounted DEF RecordAndCompact, Answering, b, x, n
    <2>2. b \in Histories /\ Within(b, n) /\ Wired(b)
      BY <1>22, <2>1
    <2> DEFINE t == RecentTail(b)
    <2>3. IsTail(t, b)
      BY <2>1, <2>2, RecentIsTail
    <2> HIDE DEF t
    <2>4. Tidy(t) /\ Called(t) \subseteq Called(b) /\ Responded(t) \subseteq Responded(b)
      BY <2>2, <2>3, TailTidy DEF Within
    <2>5. Within(t, n)
      BY <2>2, <2>4 DEF Within
    <2>6. Within(history', n) /\ Within(msgs', n) /\ Wired(msgs') /\ Within(tail', n)
      BY <2>1, <2>2, <2>5 DEF t
    <2> QED BY <1>1, <1>5, <2>1, <2>6
  <1>26. CASE CompactSucceeds \/ Resync
    <2>1. /\ history' = summed /\ tail' \in {tail, <<>>} /\ phase \notin Answering /\ phase' \notin Answering
          /\ UNCHANGED <<msgs, abandoned, seen>>
      BY <1>26 DEF CompactSucceeds, Resync, Answering
    <2>2. Within(history', n) /\ Within(msgs', n) /\ Wired(msgs')
      BY <1>1, <1>3, <2>1
    <2> QED BY <1>1, <1>5, <2>1, <2>2 DEF n
  <1>35. CASE Collect
    <2>1. UNCHANGED <<history, msgs, tail, abandoned, calls, answered, seen>>
          /\ phase \notin Answering /\ phase' \notin Answering
      BY <1>35 DEF Collect, Answering
    <2> QED BY <1>6, <2>1 DEF n
  <1>27. CASE AfterCompaction
    <2>1. LoopTop(history, Sent) /\ tail' = <<>> /\ UNCHANGED <<abandoned, seen>> /\ phase \notin Answering
      BY <1>27 DEF AfterCompaction, Answering
    <2>2. Sent \in Histories /\ Within(Sent, n) /\ Wired(Sent)
      BY <1>0, <1>1, <1>3, <2>1 DEF Sent
    <2> QED BY <1>0, <1>1, <1>7, <2>1, <2>2
  <1>28. CASE Close
    <2>1. /\ history' = Sanitize(msgs) /\ msgs' = <<>> /\ phase' \notin Answering
          /\ UNCHANGED <<tail, abandoned, seen>>
      BY <1>28 DEF Close, Answering
    <2>2. Within(Sanitize(msgs), n)
      BY <1>0, <1>1, SanitizedWithin
    <2>3. Within(history', n) /\ Within(msgs', n) /\ Wired(msgs')
      BY <1>4, <2>1, <2>2
    <2> QED BY <1>1, <1>5, <2>1, <2>3 DEF n
  <1>29. CASE StopInside
    <2>1. /\ history' \in {history, Sanitize(msgs)} /\ msgs' = <<>> /\ tail' = <<>> /\ phase' \notin Answering
          /\ abandoned' = abandoned
      BY <1>29 DEF StopInside, Unwound, Answering
    <2>2. seen'.ids = n
      BY <1>0, <1>29, IdsCounted DEF StopInside, Counters, n
    <2>3. Within(Sanitize(msgs), n)
      BY <1>0, <1>1, SanitizedWithin
    <2>4. Within(history', n) /\ Within(msgs', n) /\ Wired(msgs')
      BY <1>1, <1>4, <2>1, <2>3
    <2> QED BY <1>1, <1>5, <2>1, <2>2, <2>4
  <1>30. CASE StopOutside
    <2>1. /\ history' = history /\ msgs' = <<>> /\ tail' = <<>> /\ phase' \notin Answering
          /\ abandoned' = Append(abandoned, msgs) /\ seen'.ids = n
      BY <1>0, <1>30, IdsCounted DEF StopOutside, Unwound, Answering, n
    <2>2. \A i \in DOMAIN abandoned' : Within(abandoned'[i], n)
      <3> SUFFICES ASSUME NEW i \in DOMAIN abandoned' PROVE Within(abandoned'[i], n)
        OBVIOUS
      <3>1. (i \in DOMAIN abandoned /\ abandoned'[i] = abandoned[i]) \/ abandoned'[i] = msgs
        BY <1>0, <2>1
      <3> QED BY <1>1, <3>1
    <2>3. Within(history', n) /\ Within(msgs', n) /\ Wired(msgs')
      BY <1>1, <1>4, <2>1
    <2> QED BY <1>5, <2>1, <2>2, <2>3
  <1>31. CASE NoteInterruption
    <2> DEFINE r == IF partial THEN <<Reply(<<>>)>> ELSE <<>>
               s == history \o r
               q == <<Note(0)>>
    <2>1. r \in Histories /\ Bare(r) /\ q \in Histories /\ Bare(q)
      BY Spoken, Single, Empty, BareIs
    <2>2. history' = s \o q /\ UNCHANGED <<msgs, tail, abandoned, seen>> /\ phase' \notin Answering /\ phase \notin Answering
      BY <1>31 DEF NoteInterruption, Answering
    <2> HIDE DEF r, q
    <2>3. s \in Histories /\ Within(s, n)
      BY <1>0, <1>1, <2>1, BareJoined
    <2> HIDE DEF s
    <2>4. Within(s \o q, n)
      BY <2>1, <2>3, BareJoined
    <2>5. Within(history', n) /\ Within(msgs', n) /\ Wired(msgs')
      BY <1>1, <1>3, <2>2, <2>4
    <2> QED BY <1>1, <1>5, <2>2, <2>5 DEF n
  <1>32. CASE StopHandler
    <2>1. seen'.ids = n /\ UNCHANGED <<history, msgs, tail, abandoned, calls, answered>>
          /\ phase \notin Answering /\ phase' \notin Answering
      BY <1>0, <1>32, IdsCounted DEF StopHandler, Answering, n
    <2> QED BY <1>6, <2>1
  <1>33. CASE Finalize
    <2> DEFINE a == Head(abandoned)
    <2>1. /\ abandoned # <<>> /\ history' = Sanitize(a) /\ abandoned' = Tail(abandoned)
          /\ UNCHANGED <<msgs, tail, phase, calls, answered, seen>>
      BY <1>33 DEF Finalize
    <2>2. Len(abandoned) \in Nat \ {0} /\ DOMAIN abandoned = 1 .. Len(abandoned)
      BY <1>0, <2>1, EmptySeq
    <2>3. 1 \in DOMAIN abandoned /\ a = abandoned[1] /\ a \in Histories
      BY <1>0, <2>2
    <2>4. \A i \in DOMAIN abandoned' : i + 1 \in DOMAIN abandoned /\ abandoned'[i] = abandoned[i + 1]
      BY <1>0, <2>1, <2>2
    <2> HIDE DEF a
    <2>5. Within(Sanitize(a), n) /\ Called(Sanitize(a)) = Called(a)
      BY <1>1, <2>3, SanitizedWithin
    <2>6. ListsWithin'
      BY <1>1, <1>m, <2>1, <2>4, <2>5 DEF ListsWithin, n
    <2>7. RequestWired'
      <3>1. Ids' = Ids
        BY <2>1 DEF Ids
      <3>2. CASE phase \in Answering
        <4>1. Called(Sanitize(a)) \cap Range(Ids) = {}
          BY <1>2, <2>3, <2>5, <3>2 DEF StepOpen
        <4>2. \A i \in DOMAIN abandoned' : Called(abandoned'[i]) \cap Range(Ids) = {}
          BY <1>2, <2>4, <3>2 DEF StepOpen
        <4>3. StepOpen(Ids, answered, history', msgs, abandoned', n)
          BY <1>2, <2>1, <3>2, <4>1, <4>2 DEF StepOpen
        <4> QED BY <2>1, <3>1, <3>2, <4>3 DEF RequestWired, n
      <3>3. CASE phase \notin Answering
        BY <1>3, <2>1, <3>3 DEF RequestWired
      <3> QED BY <3>2, <3>3
    <2> QED BY <2>6, <2>7 DEF WireLists
  <1>34. ASSUME NEW k \in 0 .. (MaxUsers - 1), Rewind(k) PROVE WireLists'
    <2> DEFINE r == RewindHistory(history, Len(visible), k)
    <2>1. history' = r /\ UNCHANGED <<msgs, tail, abandoned, seen>> /\ phase \notin Answering /\ phase' \notin Answering
      BY <1>34 DEF Rewind, Answering
    <2>2. Tidy(r) /\ Called(r) \subseteq Called(history) /\ Responded(r) \subseteq Responded(history)
      BY <1>0, <1>1, RewoundTidy DEF Within
    <2> HIDE DEF r
    <2>3. Within(r, n)
      BY <1>1, <2>2 DEF Within
    <2>4. Within(history', n) /\ Within(msgs', n) /\ Wired(msgs')
      BY <1>1, <1>3, <2>1, <2>3
    <2> QED BY <1>1, <1>5, <2>1, <2>4 DEF n
  <1> QED BY <1>8, <1>9, <1>10, <1>11, <1>12, <1>13, <1>14, <1>15, <1>16, <1>17, <1>18, <1>19, <1>20,
             <1>23, <1>24, <1>25, <1>26, <1>27, <1>28, <1>29, <1>30, <1>31, <1>32, <1>33, <1>34, <1>35
          DEF Next, Work, Preparing, Requesting, Executing, Ending

\* The invariant holds at the start.
LEMMA WireInvInit == Init => WireInv
  <1> SUFFICES ASSUME Init PROVE WireInv
    OBVIOUS
  <1>1. WaitingBare
    BY BareIs DEF Init, WaitingBare
  <1>2. ListsWithin
    BY BareIs DEF Init, ListsWithin
  <1>3. RequestWired
    BY BareIs DEF Init, RequestWired, Answering
  <1> QED BY <1>1, <1>2, <1>3, TurnTypeInit DEF WireInv

\* With a provider that names its calls, for every bound: whenever the agent sends a request,
\* each call in it is followed by its results and no result is without its call, whatever
\* compactions, finalizers, rewinds and cancelled steps came before.
THEOREM WireContractHolds == ASSUME FreshIds PROVE Spec => []WireContract
  <1>1. Init => WireInv
    BY WireInvInit
  <1>2. WireInv /\ [Next]_vars => WireInv'
    BY TurnTypeStep, WaitingBareStep, WireListsStep DEF WireInv, WireLists
  <1>3. WireInv => WireContract
    <2> SUFFICES ASSUME WireInv, phase = "request" PROVE WireOK(msgs)
      BY DEF WireContract
    <2>1. msgs \in Histories /\ Wired(msgs)
      BY DEF WireInv, TurnType, RequestWired, Answering
    <2> QED BY <2>1, WiredIsOK
  <1> QED BY <1>1, <1>2, <1>3, PTL DEF Spec
=============================================================================
