---------------------------- MODULE WireHistory ----------------------------
(***************************************************************************)
(* The conversation as the model provider sees it, and the pure functions  *)
(* core/infrastructure/llm/base/compaction/mixin.py applies to it:         *)
(* sanitising, the compaction split and rebuild, and the rewind cut.       *)
(*                                                                         *)
(* A message keeps what these functions look at: its role, whose message   *)
(* it is (ref) and the ids of its tool calls.  What a message says is      *)
(* Text, which only a compaction looks at and which several messages may   *)
(* share; an empty one is not modelled.  The synthetic user messages the   *)
(* code recognises by their prefix have roles of their own:                *)
(*   "user"        a real user turn, ref its number                        *)
(*   "output"      a stray tool result rewritten as a plain user message   *)
(*   "note"        <system_note ...> or <notification ...>                 *)
(*   "checkpoint"  <compaction_checkpoint>                                 *)
(***************************************************************************)
EXTENDS Naturals, SequencesExt

CONSTANTS
  UserBudget,   \* user messages that fit llm.compaction_user_budget
  PreserveRoot, \* preserve_root_prompt: TRUE in a subagent
  Text(_)       \* what a message says

ASSUME HistoryAssumption == UserBudget \in Nat \ {0} /\ PreserveRoot \in BOOLEAN

Roles == {"user", "output", "note", "checkpoint", "assistant", "tool"}

User(u)      == [role |-> "user", ref |-> u, calls |-> <<>>]
Note(n)      == [role |-> "note", ref |-> n, calls |-> <<>>]
Checkpoint   == [role |-> "checkpoint", ref |-> 0, calls |-> <<>>]
Reply(ids)   == [role |-> "assistant", ref |-> 0, calls |-> ids]
ToolMsg(id)  == [role |-> "tool", ref |-> id, calls |-> <<>>]
Output(id)   == [role |-> "output", ref |-> id, calls |-> <<>>]

\* is_real_history_user_turn: role user, neither a checkpoint nor a note.  A
\* rewritten tool result passes.
IsRealUser(m) == m.role \in {"user", "output"}

\* The messages that pass, in their order.
Only(h, Passes(_)) == FlattenSeq([j \in DOMAIN h |-> IF Passes(h[j]) THEN <<h[j]>> ELSE <<>>])

RealUsers(h) == Only(h, IsRealUser)

LastN(s, n) == IF Len(s) <= n THEN s ELSE SubSeq(s, Len(s) - n + 1, Len(s))

-----------------------------------------------------------------------------
(* sanitize_history_for_model                                              *)

Responded(h) == { m.ref : m \in { x \in Range(h) : x.role = "tool" } }

\* Call ids of the assistant messages before position j.
Known(h, j) == UNION { Range(h[i].calls) : i \in 1 .. (j - 1) }

\* The contiguous results that belong to the assistant message at i end here.
RunEnd(h, i) ==
  LET Own(j) == h[j].role = "tool" /\ h[j].ref \in Range(h[i].calls)
  IN Max({ k \in i .. Len(h) : \A j \in (i + 1) .. k : Own(j) })

\* Mutant: a call that was never answered stays unanswered.
Synthetic_none(h, i) == <<>>

\* The calls nobody in the history answered get an "[interrupted]" result.
Synthetic(h, i) ==
  LET missing == Only(h[i].calls, LAMBDA id : id \notin Responded(h))
  IN [n \in DOMAIN missing |-> ToolMsg(missing[n])]

Item(h, j) ==
  IF h[j].role = "tool" /\ h[j].ref \notin Known(h, j)
    THEN Output(h[j].ref)
    ELSE h[j]

Emit(h, j) ==
  LET opener == { i \in 1 .. j : h[i].calls # <<>> /\ RunEnd(h, i) = j }
  IN <<Item(h, j)>> \o
     (IF opener = {} THEN <<>> ELSE Synthetic(h, CHOOSE i \in opener : TRUE))

Sanitize(h) == FlattenSeq([j \in DOMAIN h |-> Emit(h, j)])

-----------------------------------------------------------------------------
(* compact_history                                                         *)

\* The position the preserved tail starts at: a real user turn among the last
\* six messages but not the very last, else the fourth message from the end.
TailStart(h) ==
  LET turns == { j \in 2 .. (Len(h) - 1) : j + 5 >= Len(h) /\ IsRealUser(h[j]) }
  IN IF turns = {} THEN Len(h) - 3 ELSE Min(turns)

RecentTail(h) == SubSeq(h, TailStart(h), Len(h))

\* Mutant: the budget is one message short.
CollectUsers_oneShort(h) == LastN(RealUsers(h), UserBudget - 1)

\* collect_user_messages: the latest real user messages within the budget, and
\* in a subagent the root prompt first.
CollectUsers(h) ==
  LET users == RealUsers(h)
  IN IF PreserveRoot /\ users # <<>>
       THEN <<Head(users)>> \o LastN(Tail(users), UserBudget - 1)
       ELSE LastN(users, UserBudget)

\* Mutant: the users of the tail are kept in the prefix too.
Compacted_repeatsTail(h, tail) ==
  Sanitize(CollectUsers(h) \o <<Checkpoint>> \o tail)

\* tail_sigs: whatever the messages of the tail say, users or not.
Texts(h) == { Text(m) : m \in Range(h) }

\* The history a successful compaction leaves: the users whose text the tail does
\* not have, the checkpoint, the tail.
Compacted(h, tail) ==
  LET prefix == Only(CollectUsers(h), LAMBDA m : Text(m) \notin Texts(tail))
  IN Sanitize(prefix \o <<Checkpoint>> \o tail)

-----------------------------------------------------------------------------
(* The rewind cut                                                          *)

\* truncate_history_to_user_message: what is before real user turn k (counted
\* from 0), notes dropped; everything goes when there is no such turn.
TruncateToTurn(h, k) ==
  LET turns == { j \in DOMAIN h : IsRealUser(h[j]) }
      Before(j) == Cardinality({ i \in turns : i < j })
      cut == { j \in turns : Before(j) = k }
      kept == IF cut = {} THEN h ELSE SubSeq(h, 1, (CHOOSE j \in cut : TRUE) - 1)
  IN IF k = 0 \/ Cardinality(turns) < k
       THEN <<>>
       ELSE Only(kept, LAMBDA m : m.role # "note")

\* Mutant: the index of the visible turn is used as it is.
RewindHistory_rawIndex(h, visible, k) == TruncateToTurn(h, k)

\* truncate_agent_history: the last real turns of the history are taken to be
\* the last visible turns; a turn before them was compacted away.
RewindHistory(h, visible, k) ==
  LET real == Len(RealUsers(h))
  IN IF k = 0 \/ k + real < visible
       THEN <<>>
       ELSE TruncateToTurn(h, k + real - visible)

-----------------------------------------------------------------------------
\* What a provider accepts: each assistant message with tool calls is followed
\* at once by one result for each of them, and there is no other tool message.
WireOK(h) ==
  LET Answers(i) == (i + 1) .. (i + Len(h[i].calls))
      callers == { i \in DOMAIN h : h[i].calls # <<>> }
  IN /\ \A i \in callers :
          /\ Answers(i) \subseteq DOMAIN h
          /\ \A j \in Answers(i) : h[j].role = "tool"
          /\ { h[j].ref : j \in Answers(i) } = Range(h[i].calls)
     /\ \A j \in DOMAIN h : h[j].role = "tool" => \E i \in callers : j \in Answers(i)

=============================================================================
