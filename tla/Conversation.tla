---------------------------- MODULE Conversation ----------------------------
(***************************************************************************)
(* The message chain of one conversation: engine/conversation.py over the  *)
(* block types of engine/messages.py.  Pure operators, no state: the       *)
(* modules that keep a conversation in a variable build on these.          *)
(*                                                                         *)
(* A text is the sequence of the fragments joined into it (the empty       *)
(* sequence is the empty string).  A tool result is either "result", what  *)
(* a tool returned, or "placeholder", the error result repair_chain        *)
(* inserts for a call it found unanswered.                                 *)
(***************************************************************************)
EXTENDS Integers, Sequences, FiniteSets, SequencesExt

NoId == 0

TextBlock(fragments) == [kind |-> "text", text |-> fragments, id |-> NoId]
ToolUseBlock(id) == [kind |-> "use", text |-> <<>>, id |-> id]
ToolResultBlock(id) == [kind |-> "result", text |-> <<>>, id |-> id]
PlaceholderBlock(id) == [kind |-> "placeholder", text |-> <<>>, id |-> id]

Message(role, blocks) == [role |-> role, content |-> blocks]
UserMessage(blocks) == Message("user", blocks)
AssistantMessage(blocks) == Message("assistant", blocks)

IsUse(b) == b.kind = "use"
IsResult(b) == b.kind \in {"result", "placeholder"}
(* Mutant: one set of seen ids for calls and results.                     *)
SameId(a, b) == a.id = b.id
SameCall(a, b) == a.id = b.id /\ (IsUse(a) <=> IsUse(b))

(* Sequences joined into one, and the members of one at some places.  Both *)
(* are functions, about which something can be proved.                     *)
Concat(seqs) ==
  LET upTo[i \in 0..Len(seqs)] == IF i = 0 THEN <<>> ELSE upTo[i - 1] \o seqs[i]
  IN  upTo[Len(seqs)]

Selected(seq, places) == Concat([i \in DOMAIN seq |-> IF i \in places THEN << seq[i] >> ELSE <<>>])

CallsOf(blocks) == Selected(blocks, {p \in DOMAIN blocks : IsUse(blocks[p])})
AnswersOf(blocks) == Selected(blocks, {p \in DOMAIN blocks : IsResult(blocks[p])})

UseIds(msg) == {b.id : b \in {x \in ToSet(msg.content) : IsUse(x)}}
ResultIds(msg) == {b.id : b \in {x \in ToSet(msg.content) : IsResult(x)}}
AllUseIds(msgs) == UNION {UseIds(m) : m \in ToSet(msgs)}
AllResultIds(msgs) == UNION {ResultIds(m) : m \in ToSet(msgs)}
Blocks(msgs) == UNION {ToSet(m.content) : m \in ToSet(msgs)}

-----------------------------------------------------------------------------
(* ConversationManager._append: adjacent messages of one role merge.       *)

AppendMessage(msgs, msg) ==
  IF msgs # <<>> /\ Last(msgs).role = msg.role
  THEN [msgs EXCEPT ![Len(msgs)].content = @ \o msg.content]
  ELSE Append(msgs, msg)

(* repair_chain, first pass: a block is kept unless it repeats an earlier  *)
(* call, repeats an earlier result, or answers a call nobody made.         *)

SeenBefore(msgs, i, p) ==
  LET b == msgs[i].content[p]
  IN  \E j \in 1..i : \E q \in DOMAIN msgs[j].content :
        /\ j < i \/ q < p
        /\ msgs[j].content[q].kind # "text"
        /\ SameCall(msgs[j].content[q], b)

Keeps(msgs, i, p) ==
  LET b == msgs[i].content[p]
  IN  b.kind = "text" \/ ( /\ ~SeenBefore(msgs, i, p)
                           /\ IsResult(b) => b.id \in AllUseIds(msgs) )

KeptBlocks(msgs, i) ==
  Selected(msgs[i].content, {p \in DOMAIN msgs[i].content : Keeps(msgs, i, p)})

WithoutEmpty(msgs) == Selected(msgs, {i \in DOMAIN msgs : msgs[i].content # <<>>})

DropInvalidBlocks(msgs) ==
  WithoutEmpty([i \in DOMAIN msgs |-> Message(msgs[i].role, KeptBlocks(msgs, i))])

(* Second pass: calls left without a result get a placeholder, in id       *)
(* order, at the END of the chain.                                         *)

Unanswered(msgs) == AllUseIds(msgs) \ AllResultIds(msgs)

Placeholders(ids) ==
  LET order == Selected([id \in 1..Max(ids) |-> id], ids)
  IN  [k \in DOMAIN order |-> PlaceholderBlock(order[k])]

(* Mutant: calls without a result stay so.                                *)
RepairWithoutPlaceholders(msgs) == DropInvalidBlocks(msgs)

RepairChain(msgs) ==
  LET repaired == DropInvalidBlocks(msgs)
      missing == Unanswered(repaired)
  IN  IF missing = {} THEN repaired
      ELSE AppendMessage(repaired, UserMessage(Placeholders(missing)))

-----------------------------------------------------------------------------
(* What a provider accepts as a request: roles alternate, and the message  *)
(* after a call answers exactly the calls made in it (the adapters put the *)
(* results of a user message before its text).                             *)

Alternating(msgs) == \A i \in 1..(Len(msgs) - 1) : msgs[i].role # msgs[i + 1].role

AnsweredNext(msgs) ==
  \A i \in DOMAIN msgs :
    UseIds(msgs[i]) # {} => /\ i < Len(msgs)
                            /\ ResultIds(msgs[i + 1]) = UseIds(msgs[i])

AnswersPrevious(msgs) ==
  \A i \in DOMAIN msgs :
    ResultIds(msgs[i]) # {} => i > 1 /\ ResultIds(msgs[i]) = UseIds(msgs[i - 1])

RequestOK(msgs) ==
  /\ Alternating(msgs)
  /\ AnsweredNext(msgs)
  /\ AnswersPrevious(msgs)
=============================================================================
