---------------------------- MODULE StreamsProofs ----------------------------
(***************************************************************************)
(* Theorems about Streams, for any number of pieces, calls and requests,   *)
(* in both forms of the wire: a reply is recorded whole or told as cut,    *)
(* and a request answers its calls. The parser and what was gathered stand *)
(* for what the provider has written (ReplyInv), and the conversation is   *)
(* settled, or one that RepairChain settles (ChainInv); a settled one is   *)
(* serialized into calls with their answers (SettledIsPaired).             *)
(***************************************************************************)
EXTENDS Streams, ConversationProofs

-----------------------------------------------------------------------------
(* Types.                                                                  *)
Fragments == {"said", "cut", "reply"}
Ids(n) == 1..(n - 1)
Reasons == {NoReason, "stop", "length"}
PieceSeqs == Seq({"part", "end"})
WrittenCalls(n) == {c \in [id : Ids(n), named : BOOLEAN, sent : Nat, full : Nat] : c.sent <= c.full}
HeldCalls(n) == [id : Ids(n), named : BOOLEAN, arguments : PieceSeqs]
ToolUses(n) == [type : {"tool_use"}, id : Ids(n), input : PieceSeqs]
Written(n) == [text : BOOLEAN, calls : Seq(WrittenCalls(n)), open : BOOLEAN, reason : Reasons, done : BOOLEAN]
Gatherings(n) == [text : BOOLEAN, calls : Seq(ToolUses(n))]
Conversations(n) == Chains(Fragments, Ids(n), Ids(n))

TypeOK ==
  /\ provider \in Providers
  /\ nextId \in Nat \ {0} /\ streams \in Nat /\ tries \in Nat
  /\ pc \in {"idle", "silent", "ready", "stream", "tools"}
  /\ conv \in Conversations(nextId)
  /\ reply \in Written(nextId)
  /\ pending \in Gatherings(nextId)

LEMMA TypesGrow ==
  ASSUME NEW n \in Nat
  PROVE  /\ Ids(n) \subseteq Ids(n + 1)
         /\ Conversations(n) \subseteq Conversations(n + 1)
         /\ WrittenCalls(n) \subseteq WrittenCalls(n + 1)
         /\ Seq(WrittenCalls(n)) \subseteq Seq(WrittenCalls(n + 1))
         /\ Written(n) \subseteq Written(n + 1)
         /\ Seq(HeldCalls(n)) \subseteq Seq(HeldCalls(n + 1))
         /\ Gatherings(n) \subseteq Gatherings(n + 1)
<1>1. Ids(n) \subseteq Ids(n + 1)
  BY DEF Ids
<1> HIDE DEF Ids
<1>2. Conversations(n) \subseteq Conversations(n + 1)
  BY <1>1, ChainsGrow DEF Conversations
<1>3. WrittenCalls(n) \subseteq WrittenCalls(n + 1)
  BY <1>1 DEF WrittenCalls
<1>4. HeldCalls(n) \subseteq HeldCalls(n + 1) /\ ToolUses(n) \subseteq ToolUses(n + 1)
  BY <1>1 DEF HeldCalls, ToolUses
<1>5. /\ Seq(WrittenCalls(n)) \subseteq Seq(WrittenCalls(n + 1))
      /\ Seq(HeldCalls(n)) \subseteq Seq(HeldCalls(n + 1))
      /\ Seq(ToolUses(n)) \subseteq Seq(ToolUses(n + 1))
  BY <1>3, <1>4, SeqGrows
<1>6. Written(n) \subseteq Written(n + 1) /\ Gatherings(n) \subseteq Gatherings(n + 1)
  BY <1>5 DEF Written, Gatherings
<1> QED BY <1>1, <1>2, <1>3, <1>5, <1>6

(* The invariant of a reply under way: the parser and what was gathered    *)
(* stand for what the provider has written.                                *)
Pieces(full, n) == [k \in 1..n |-> IF k = full THEN "end" ELSE "part"]

Taken(call, use) ==
  /\ call.named
  /\ use.id = call.id
  /\ use.input = Pieces(call.full, call.full) \/ (use.input = <<>> /\ call.sent = 0)

Whole(calls, uses) ==
  /\ \A c \in DOMAIN calls : calls[c].named => \E k \in DOMAIN uses : uses[k].id = calls[c].id
  /\ \A k \in DOMAIN uses : \E c \in DOMAIN calls : Taken(calls[c], uses[k])

Mirrors(call, held) ==
  held.id = call.id /\ held.named = call.named /\ held.arguments = Pieces(call.full, call.sent)

SameCalls(calls, held) ==
  Len(held) = Len(calls) /\ \A c \in DOMAIN calls : Mirrors(calls[c], held[c])

Spoke == pending.text \/ pending.calls # <<>>

OpenAIInv ==
  /\ parser \in [calls : Seq(HeldCalls(nextId)), reason : Reasons, stopped : BOOLEAN, text : BOOLEAN]
  /\ parser.stopped <=> reply.reason # NoReason
  /\ ~parser.stopped => /\ pending.calls = <<>>
                        /\ parser.text = pending.text
                        /\ SameCalls(reply.calls, parser.calls)
                        /\ parser.reason = NoReason
  /\ parser.stopped => Whole(reply.calls, pending.calls) /\ (reply.reason \in Truncation => Spoke)

LastCall == reply.calls[Len(reply.calls)]

AnthropicInv ==
  /\ parser \in [block : Nat, buffer : PieceSeqs, reason : Reasons, stopped : BOOLEAN,
                 text : BOOLEAN, tool : BOOLEAN]
  /\ parser.reason = reply.reason /\ parser.text = pending.text
  /\ parser.tool <=> pending.calls # <<>>
  /\ reply.open => Len(reply.calls) = Len(pending.calls) + 1
  /\ ~reply.open => Len(reply.calls) = Len(pending.calls)
  /\ \A c \in DOMAIN reply.calls : reply.calls[c].named
  /\ \A c \in DOMAIN pending.calls : Taken(reply.calls[c], pending.calls[c])
  /\ reply.open => /\ ~parser.stopped
                   /\ parser.block = LastCall.id
                   /\ parser.buffer = Pieces(LastCall.full, LastCall.sent)
  /\ ~reply.open => parser.block = NoBlock
  /\ parser.stopped => reply.reason # NoReason /\ (reply.reason \in Truncation => Spoke)

ReplyInv ==
  pc = "stream" => /\ provider = "openai" => OpenAIInv
                   /\ provider = "anthropic" => AnthropicInv

(* The invariant of the conversation.                                      *)
IdsIn(calls) == {calls[k].id : k \in DOMAIN calls}

ChainInv ==
  /\ Repairable(conv)
  /\ pc = "ready" => EndsWithUser(conv)
  /\ pc = "stream" => Settled(conv) /\ IdsIn(reply.calls) \cap AllUseIds(conv) = {}
  /\ pc = "tools" => IdsIn(pending.calls) \subseteq Unanswered(conv) /\ pending.calls # <<>>

StreamsInv == TypeOK /\ ReplyInv /\ ChainInv /\ RequestPaired /\ RecordedWhole /\ NeverSilent

-----------------------------------------------------------------------------
(* What the run adds to the conversation.                                  *)
LEMMA TextIs ==
  ASSUME NEW n, NEW fragment \in Fragments
  PROVE  LET msg == UserMessage(<< TextBlock(<< fragment >>) >>)
         IN  /\ msg \in Messages(Fragments, Ids(n), Ids(n)) /\ msg.role = "user" /\ msg.content # <<>>
             /\ UseIds(msg) = {} /\ ResultIds(msg) = {}
             /\ \A p \in DOMAIN msg.content : msg.content[p].kind = "text"
<1> DEFINE b == TextBlock(<< fragment >>)
           msg == UserMessage(<< b >>)
<1>1. b \in BlocksOf(Fragments, Ids(n), Ids(n)) /\ b.kind = "text"
  <2>1. << fragment >> \in Seq(Fragments)
    OBVIOUS
  <2> QED BY <2>1 DEF TextBlock, BlocksOf, TextBlocks
<1> HIDE DEF b
<1>2. << b >> \in Seq(BlocksOf(Fragments, Ids(n), Ids(n))) /\ << b >> # <<>> /\ ToSet(<< b >>) = {b}
      /\ \A p \in DOMAIN << b >> : << b >>[p] = b
  BY <1>1 DEF ToSet
<1>3. msg \in Messages(Fragments, Ids(n), Ids(n)) /\ msg.role = "user" /\ msg.content = << b >>
  BY <1>2 DEF UserMessage, Message, Messages
<1> QED BY <1>1, <1>2, <1>3 DEF UseIds, ResultIds, IsUse, IsResult, b

(* The blocks of a message made for calls.                                 *)
UseBlocks(calls) == [k \in DOMAIN calls |-> ToolUseBlock(calls[k].id)]
ResultBlocks(calls) == [k \in DOMAIN calls |-> ToolResultBlock(calls[k].id)]

LEMMA BlocksAre ==
  ASSUME NEW n, NEW calls \in Seq(ToolUses(n))
  PROVE  /\ UseBlocks(calls) \in Seq(BlocksOf(Fragments, Ids(n), Ids(n)))
         /\ ResultBlocks(calls) \in Seq(BlocksOf(Fragments, Ids(n), Ids(n)))
         /\ calls # <<>> => UseBlocks(calls) # <<>> /\ ResultBlocks(calls) # <<>>
         /\ calls = <<>> => UseBlocks(calls) = <<>>
         /\ {b.id : b \in {x \in ToSet(UseBlocks(calls)) : IsUse(x)}} = IdsIn(calls)
         /\ {b.id : b \in {x \in ToSet(ResultBlocks(calls)) : IsResult(x)}} = IdsIn(calls)
         /\ \A b \in ToSet(UseBlocks(calls)) : ~IsResult(b)
         /\ \A b \in ToSet(ResultBlocks(calls)) : ~IsUse(b)
<1> DEFINE uses == [k \in DOMAIN calls |-> ToolUseBlock(calls[k].id)]
           results == [k \in DOMAIN calls |-> ToolResultBlock(calls[k].id)]
           B == BlocksOf(Fragments, Ids(n), Ids(n))
<1>1. Len(calls) \in Nat /\ DOMAIN calls = 1..Len(calls) /\ \A k \in DOMAIN calls : calls[k].id \in Ids(n)
  <2>1. Len(calls) \in Nat /\ DOMAIN calls = 1..Len(calls) /\ \A k \in DOMAIN calls : calls[k] \in ToolUses(n)
    OBVIOUS
  <2> QED BY <2>1 DEF ToolUses
<1>2. \A id \in Ids(n) : ToolUseBlock(id) \in B /\ ToolResultBlock(id) \in B
  BY DEF ToolUseBlock, ToolResultBlock, BlocksOf, IdBlocks
<1>3. \A id : /\ IsUse(ToolUseBlock(id)) /\ ~IsResult(ToolUseBlock(id)) /\ ToolUseBlock(id).id = id
              /\ IsResult(ToolResultBlock(id)) /\ ~IsUse(ToolResultBlock(id)) /\ ToolResultBlock(id).id = id
  BY DEF ToolUseBlock, ToolResultBlock, IsUse, IsResult
<1> HIDE DEF B
<1>4. uses \in [1..Len(calls) -> B] /\ results \in [1..Len(calls) -> B]
  BY <1>1, <1>2
<1>5. uses \in Seq(B) /\ results \in Seq(B)
  <2> HIDE DEF uses, results
  <2> QED BY <1>1, <1>4
<1>6. calls # <<>> => 1 \in DOMAIN calls
  BY <1>1
<1>7. calls # <<>> => uses # <<>> /\ results # <<>>
  BY <1>6
<1>8. calls = <<>> => uses = <<>>
  BY <1>1, <1>4
<1>9. ToSet(uses) = {ToolUseBlock(calls[k].id) : k \in DOMAIN calls}
  BY DEF ToSet
<1>10. ToSet(results) = {ToolResultBlock(calls[k].id) : k \in DOMAIN calls}
  BY DEF ToSet
<1> HIDE DEF uses, results
<1>11. {b.id : b \in {x \in ToSet(uses) : IsUse(x)}} = {calls[k].id : k \in DOMAIN calls}
  BY <1>3, <1>9
<1>12. {b.id : b \in {x \in ToSet(results) : IsResult(x)}} = {calls[k].id : k \in DOMAIN calls}
  BY <1>3, <1>10
<1>13. (\A b \in ToSet(uses) : ~IsResult(b)) /\ \A b \in ToSet(results) : ~IsUse(b)
  BY <1>3, <1>9, <1>10
<1> QED BY <1>5, <1>7, <1>8, <1>11, <1>12, <1>13 DEF B, uses, results, UseBlocks, ResultBlocks, IdsIn

LEMMA AssembledIs ==
  ASSUME NEW n, NEW g \in Gatherings(n)
  PROVE  LET msg == AssistantMessage(Assembled(g))
         IN  /\ msg \in Messages(Fragments, Ids(n), Ids(n)) /\ msg.role = "assistant"
             /\ msg.content = Assembled(g)
             /\ ResultIds(msg) = {} /\ UseIds(msg) = IdsIn(g.calls)
             /\ Assembled(g) = <<>> <=> ~g.text /\ g.calls = <<>>
<1> DEFINE B == BlocksOf(Fragments, Ids(n), Ids(n))
           calls == g.calls
           ids == IdsIn(calls)
           text == IF g.text THEN <<TextBlock(<<"reply">>)>> ELSE <<>>
           uses == UseBlocks(calls)
           whole == Assembled(g)
           msg == AssistantMessage(whole)
<1>1. calls \in Seq(ToolUses(n)) /\ g.text \in BOOLEAN
  BY DEF Gatherings
<1>2. /\ uses \in Seq(B) /\ (calls # <<>> => uses # <<>>) /\ (calls = <<>> => uses = <<>>)
      /\ {b.id : b \in {x \in ToSet(uses) : IsUse(x)}} = ids
      /\ \A b \in ToSet(uses) : ~IsResult(b)
  BY <1>1, BlocksAre
<1>3. whole = text \o uses
  BY DEF Assembled, UseBlocks
<1>4. /\ text \in Seq(B) /\ (text = <<>> <=> ~g.text)
      /\ \A b \in ToSet(text) : ~IsUse(b) /\ ~IsResult(b)
  <2> DEFINE b == TextBlock(<<"reply">>)
  <2>1. b \in B /\ ~IsUse(b) /\ ~IsResult(b)
    <3>1. <<"reply">> \in Seq(Fragments)
      BY DEF Fragments
    <3> QED BY <3>1 DEF TextBlock, BlocksOf, TextBlocks, IsUse, IsResult
  <2> HIDE DEF b, B
  <2>2. <<b>> \in Seq(B) /\ <<b>> # <<>> /\ <<>> \in Seq(B) /\ ToSet(<<b>>) = {b} /\ ToSet(<<>>) = {}
    BY <2>1 DEF ToSet
  <2>3. text = IF g.text THEN <<b>> ELSE <<>>
    BY DEF b
  <2> HIDE DEF text
  <2> QED BY <2>1, <2>2, <2>3
<1> HIDE DEF text, uses, whole, B, ids
<1>5. /\ whole \in Seq(B)
      /\ \A p \in DOMAIN text : p \in DOMAIN whole /\ whole[p] = text[p]
      /\ \A p : p \in DOMAIN uses => Len(text) + p \in DOMAIN whole
      /\ \A p : p \in DOMAIN uses => whole[Len(text) + p] = uses[p]
      /\ \A p \in DOMAIN whole : \/ p \in DOMAIN text /\ whole[p] = text[p]
                                 \/ p - Len(text) \in DOMAIN uses /\ whole[p] = uses[p - Len(text)]
  <2>1. text \in Seq(B) /\ uses \in Seq(B)
    BY <1>2, <1>4
  <2> QED BY <1>3, <2>1, Joined
<1>6. \A b : b \in ToSet(whole) <=> b \in ToSet(text) \/ b \in ToSet(uses)
  BY <1>5 DEF ToSet
<1>7. whole = <<>> <=> text = <<>> /\ uses = <<>>
  BY <1>2, <1>3, <1>4
<1>8. msg.role = "assistant" /\ msg.content = whole
  BY DEF AssistantMessage, Message
<1>9. msg \in Messages(Fragments, Ids(n), Ids(n))
  BY <1>5 DEF AssistantMessage, Message, Messages, B
<1>10. ResultIds(msg) = {}
  BY <1>2, <1>4, <1>6, <1>8 DEF ResultIds
<1>11. UseIds(msg) = ids
  <2>1. \A x : (x \in ToSet(whole) /\ IsUse(x)) <=> (x \in ToSet(uses) /\ IsUse(x))
    BY <1>4, <1>6
  <2>2. UseIds(msg) = {b.id : b \in {x \in ToSet(uses) : IsUse(x)}}
    BY <1>8, <2>1 DEF UseIds
  <2> QED BY <1>2, <2>2
<1>12. whole = <<>> <=> ~g.text /\ calls = <<>>
  BY <1>2, <1>4, <1>7
<1> HIDE DEF msg
<1> QED BY <1>8, <1>9, <1>10, <1>11, <1>12 DEF msg, whole, ids

LEMMA ResultsAre ==
  ASSUME NEW n, NEW calls \in Seq(ToolUses(n)), calls # <<>>
  PROVE  LET msg == Results(calls)
         IN  /\ msg \in Messages(Fragments, Ids(n), Ids(n)) /\ msg.role = "user" /\ msg.content # <<>>
             /\ UseIds(msg) = {} /\ ResultIds(msg) = IdsIn(calls)
<1> DEFINE results == ResultBlocks(calls)
           msg == Results(calls)
<1>1. /\ results \in Seq(BlocksOf(Fragments, Ids(n), Ids(n))) /\ results # <<>>
      /\ {b.id : b \in {x \in ToSet(results) : IsResult(x)}} = IdsIn(calls)
      /\ \A b \in ToSet(results) : ~IsUse(b)
  BY BlocksAre
<1>2. msg.role = "user" /\ msg.content = results
  BY DEF Results, UserMessage, Message, ResultBlocks
<1> HIDE DEF results
<1>3. msg \in Messages(Fragments, Ids(n), Ids(n))
  BY <1>1 DEF Results, UserMessage, Message, Messages, results, ResultBlocks
<1> QED BY <1>1, <1>2, <1>3 DEF UseIds, ResultIds

-----------------------------------------------------------------------------
(* A text of the user leaves it settled.                                   *)
LEMMA TextSettles ==
  ASSUME NEW n, NEW msgs \in Conversations(n), Settled(msgs), NEW fragment \in Fragments
  PROVE  LET told == AppendMessage(msgs, UserMessage(<< TextBlock(<< fragment >>) >>))
         IN  told \in Conversations(n) /\ Settled(told)
<1> DEFINE msg == UserMessage(<< TextBlock(<< fragment >>) >>)
           told == AppendMessage(msgs, msg)
<1>1. /\ msg \in Messages(Fragments, Ids(n), Ids(n)) /\ msg.role = "user" /\ msg.content # <<>>
      /\ UseIds(msg) = {} /\ ResultIds(msg) = {}
      /\ \A p \in DOMAIN msg.content : msg.content[p].kind = "text"
  BY TextIs
<1> HIDE DEF msg
<1>2. msgs \in Chains(Fragments, Ids(n), Ids(n)) /\ Shaped(msgs) /\ Clean(msgs)
  BY DEF Conversations, Settled
<1>3. told \in Conversations(n)
  BY <1>1, <1>2, AppendIs DEF Conversations
<1>4. Shaped(told) /\ EndsWithUser(told)
  BY <1>1, <1>2, UserAdded
<1>5. Appendable(msgs, msg)
  BY <1>1 DEF Appendable, Twice
<1>6. Clean(told)
  BY <1>1, <1>2, <1>5, AppendIsClean
<1>7. Unanswered(told) = {}
  <2>1. SaysAlso(msgs, msg, told)
    BY <1>1, <1>2, AppendSays
  <2> HIDE DEF told
  <2> QED BY <1>1, <2>1 DEF SaysAlso, Unanswered, Settled
<1> QED BY <1>3, <1>4, <1>6, <1>7 DEF Settled, msg

-----------------------------------------------------------------------------
(* What the parsers make of the calls the provider has written.            *)
LEMMA PiecesAre ==
  ASSUME NEW full \in Nat, NEW sent \in Nat, sent <= full
  PROVE  /\ Pieces(full, sent) \in PieceSeqs
         /\ Pieces(full, 0) = <<>>
         /\ Pieces(full, sent) = <<>> => sent = 0
         /\ IsJson(Pieces(full, sent)) => sent = full
         /\ sent < full => Append(Pieces(full, sent), IF sent + 1 = full THEN "end" ELSE "part")
                             = Pieces(full, sent + 1)
<1> DEFINE at(k) == IF k = full THEN "end" ELSE "part"
           s == Pieces(full, sent)
<1>1. s = [k \in 1..sent |-> at(k)] /\ Pieces(full, sent + 1) = [k \in 1..(sent + 1) |-> at(k)]
  BY DEF Pieces
<1>2. \A k : at(k) \in {"part", "end"} /\ (at(k) = "end" <=> k = full)
  OBVIOUS
<1>0. at(sent + 1) = IF sent + 1 = full THEN "end" ELSE "part"
  OBVIOUS
<1> HIDE DEF at, s
<1>3. s \in Seq({"part", "end"}) /\ Len(s) = sent /\ DOMAIN s = 1..sent /\ \A k \in 1..sent : s[k] = at(k)
  BY <1>1, <1>2
<1>4. Pieces(full, 0) = <<>>
  BY DEF Pieces
<1>5. s = <<>> => sent = 0
  BY <1>3
<1>6. IsJson(s) => sent = full
  <2> SUFFICES ASSUME IsJson(s) PROVE sent = full
    OBVIOUS
  <2>1. sent \in DOMAIN s
    BY <1>3 DEF IsJson
  <2> QED BY <1>2, <1>3, <2>1 DEF IsJson
<1>7. Append(s, at(sent + 1)) = [k \in 1..(sent + 1) |-> at(k)]
  <2> DEFINE t == Append(s, at(sent + 1))
             u == [k \in 1..(sent + 1) |-> at(k)]
  <2>1. t \in Seq({"part", "end"}) /\ Len(t) = sent + 1 /\ t[sent + 1] = at(sent + 1) /\ \A k \in 1..sent : t[k] = s[k]
    BY <1>2, <1>3, AppendProperties
  <2>2. u \in Seq({"part", "end"}) /\ Len(u) = sent + 1 /\ \A k \in 1..(sent + 1) : u[k] = at(k)
    BY <1>2
  <2>3. \A k \in 1..(sent + 1) : t[k] = u[k]
    BY <1>3, <2>1, <2>2
  <2> HIDE DEF t, u
  <2>4. t = u
    BY <2>1, <2>2, <2>3
  <2> QED BY <2>4 DEF t, u
<1> QED BY <1>0, <1>1, <1>3, <1>4, <1>5, <1>6, <1>7 DEF PieceSeqs, s

(* A call that is no error is the call the provider wrote, whole.          *)
LEMMA CallIs ==
  ASSUME NEW n, NEW call \in WrittenCalls(n), call.named
  PROVE  LET e == CallOrError(call.id, Pieces(call.full, call.sent))
         IN  /\ e.type \in {"tool_use", "error"}
             /\ e.type = "tool_use" => e \in ToolUses(n) /\ Taken(call, e)
<1> DEFINE pieces == Pieces(call.full, call.sent)
           e == CallOrError(call.id, pieces)
<1>1. call.id \in Ids(n) /\ call.full \in Nat /\ call.sent \in Nat /\ call.sent <= call.full
  BY DEF WrittenCalls
<1>2. pieces \in PieceSeqs /\ (pieces = <<>> => call.sent = 0) /\ (IsJson(pieces) => call.sent = call.full)
  BY <1>1, PiecesAre
<1>3. IsJson(pieces) => pieces = Pieces(call.full, call.full)
  BY <1>2
<1> HIDE DEF pieces
<1>4. CASE pieces = <<>> \/ IsJson(pieces)
  <2>1. e = [type |-> "tool_use", id |-> call.id, input |-> pieces]
    BY <1>4 DEF CallOrError, ToolUse
  <2>2. e \in ToolUses(n)
    BY <1>1, <1>2, <2>1 DEF ToolUses
  <2>3. Taken(call, e)
    BY <1>2, <1>3, <1>4, <2>1 DEF Taken
  <2> QED BY <2>1, <2>2, <2>3 DEF pieces
<1>5. CASE ~(pieces = <<>> \/ IsJson(pieces))
  <2>1. e = [type |-> "error", empty |-> FALSE]
    BY <1>5 DEF CallOrError, ToolTruncatedError
  <2> QED BY <2>1 DEF pieces
<1> QED BY <1>4, <1>5

-----------------------------------------------------------------------------
(* The calls among the events.                                             *)
Called(events) == Selected(events, {k \in DOMAIN events : events[k].type = "tool_use"})

LEMMA NoneCalled ==
  ASSUME NEW T, NEW events \in Seq(T), \A k \in DOMAIN events : events[k].type # "tool_use"
  PROVE  Called(events) = <<>>
<1> DEFINE places == {k \in DOMAIN events : events[k].type = "tool_use"}
           out == Selected(events, places)
<1>1. places \cap DOMAIN events = 1..0 /\ 0 \in 0..Len(events)
  OBVIOUS
<1>2. out \in Seq(T)
  BY SelectedIs
<1>3. Len(out) = 0
  <2> HIDE DEF places
  <2> QED BY <1>1, SelectedFirst
<1> HIDE DEF out
<1>4. out = <<>>
  BY <1>2, <1>3
<1> QED BY <1>4 DEF Called, out

LEMMA OneCalled ==
  ASSUME NEW e, e.type = "tool_use"
  PROVE  Called(<< e >>) = << e >>
<1> DEFINE s == << e >>
           places == {k \in DOMAIN s : s[k].type = "tool_use"}
<1>1. s \in Seq({e}) /\ DOMAIN s \subseteq places
  OBVIOUS
<1> HIDE DEF s, places
<1>2. Selected(s, places) = s
  BY <1>1, SelectedAll
<1> QED BY <1>2 DEF Called, s, places

LEMMA CalledBeforeEnd ==
  ASSUME NEW T, NEW uses \in Seq(T), \A k \in DOMAIN uses : uses[k].type = "tool_use", NEW e, e.type # "tool_use"
  PROVE  Called(uses \o << e >>) = uses
<1> DEFINE s == uses \o << e >>
           n == Len(uses)
           places == {k \in DOMAIN s : s[k].type = "tool_use"}
           out == Selected(s, places)
           U == T \cup {e}
<1>1. n \in Nat /\ DOMAIN uses = 1..n /\ \A k \in 1..n : uses[k] \in T
  OBVIOUS
<1>2. s \in Seq(U) /\ Len(s) = n + 1 /\ DOMAIN s = 1..(n + 1) /\ s[n + 1] = e /\ \A k \in 1..n : s[k] = uses[k]
  <2>1. uses \in Seq(U) /\ << e >> \in Seq(U) /\ Len(<< e >>) = 1 /\ << e >>[1] = e
    BY <1>1
  <2> HIDE DEF U
  <2> QED BY <1>1, <2>1
<1> HIDE DEF s, U, n
<1>3. places = 1..n
  BY <1>1, <1>2
<1> HIDE DEF places
<1>4. places \cap DOMAIN s = 1..n /\ n \in 0..Len(s)
  BY <1>1, <1>2, <1>3
<1>5. Len(out) = n /\ DOMAIN out = 1..n /\ \A i \in 1..n : out[i] = s[i]
  BY <1>2, <1>4, SelectedFirst
<1>6. out \in Seq(U)
  BY <1>2, SelectedIs
<1> HIDE DEF out
<1>7. out = uses
  <2>1. uses \in Seq(U)
    BY <1>1 DEF U, n
  <2>2. \A i \in 1..n : out[i] = uses[i]
    BY <1>2, <1>5
  <2> QED BY <1>1, <1>5, <1>6, <2>1, <2>2 DEF n
<1> QED BY <1>7 DEF Called, out, places, s


-----------------------------------------------------------------------------
(* The calls the OpenAI parser lets pass when the reply stops: of every id *)
(* with a named call the first one, and no call without a name.            *)
LEMMA PassedIs ==
  ASSUME NEW n \in Nat, NEW calls \in Seq(HeldCalls(n))
  PROVE  /\ Passed(calls) \in Seq(DOMAIN calls)
         /\ \A k \in DOMAIN Passed(calls) : calls[Passed(calls)[k]].named
         /\ \A c \in DOMAIN calls : calls[c].named =>
              \E k \in DOMAIN Passed(calls) : calls[Passed(calls)[k]].id = calls[c].id
<1> DEFINE numbers == [i \in DOMAIN calls |-> i]
           first(i) == ~\E j \in 1..(i - 1) : calls[j].named /\ calls[j].id = calls[i].id
           places == {i \in DOMAIN calls : calls[i].named /\ (calls[i].id = NoId \/ first(i))}
           out == Selected(numbers, places)
<1>1. Len(calls) \in Nat /\ DOMAIN calls = 1..Len(calls)
  OBVIOUS
<1>2. numbers \in Seq(DOMAIN calls) /\ DOMAIN numbers = DOMAIN calls /\ \A i \in DOMAIN calls : numbers[i] = i
  <2>1. numbers \in [1..Len(calls) -> DOMAIN calls]
    BY <1>1
  <2> QED BY <1>1, <2>1
<1>3. Passed(calls) = out
  BY DEF Passed
<1> HIDE DEF numbers, out
<1>4. /\ out \in Seq(DOMAIN calls)
      /\ \A i \in places \cap DOMAIN numbers : \E q \in DOMAIN out : out[q] = numbers[i]
      /\ \A q \in DOMAIN out : \E i \in places \cap DOMAIN numbers : out[q] = numbers[i]
  <2> HIDE DEF places
  <2> QED BY <1>2, SelectedIs DEF out
<1>5. \A i \in places : i \in DOMAIN calls /\ \E q \in DOMAIN out : out[q] = i
  BY <1>2, <1>4
<1>6. \A q \in DOMAIN out : out[q] \in places
  BY <1>2, <1>4
<1>7. ASSUME NEW c \in DOMAIN calls, calls[c].named
      PROVE  \E k \in DOMAIN out : calls[out[k]].id = calls[c].id
  <2> DEFINE S == {i \in DOMAIN calls : calls[i].named /\ calls[i].id = calls[c].id}
  <2>1. S \in SUBSET Nat /\ S # {}
    BY <1>1, <1>7
  <2>2. PICK i \in S : \A j \in S : ~(j < i)
    <3> HIDE DEF S
    <3> QED BY <2>1, LeastIs
  <2>3. first(i)
    <3> SUFFICES ASSUME NEW j \in 1..(i - 1), calls[j].named, calls[j].id = calls[i].id PROVE FALSE
      OBVIOUS
    <3>1. j \in DOMAIN calls /\ j < i
      BY <1>1, <2>2
    <3> QED BY <2>2, <3>1
  <2>4. i \in places
    BY <2>2, <2>3
  <2> QED BY <1>5, <2>2, <2>4
<1>8. \A q \in DOMAIN out : calls[out[q]].named
  BY <1>6
<1> QED BY <1>3, <1>4, <1>7, <1>8

LEMMA FlushIs ==
  ASSUME NEW n \in Nat, NEW calls \in Seq(WrittenCalls(n)), NEW p, p.calls \in Seq(HeldCalls(n)),
         SameCalls(calls, p.calls), ~Has(FlushToolCalls(p), "error")
  PROVE  /\ FlushToolCalls(p) \in Seq(ToolUses(n))
         /\ Whole(calls, FlushToolCalls(p))
         /\ p.reason \in Truncation => p.text \/ FlushToolCalls(p) # <<>>
<1> DEFINE order == Passed(p.calls)
           event(k) == CallOrError(p.calls[order[k]].id, p.calls[order[k]].arguments)
           events == [k \in DOMAIN order |-> event(k)]
           empty == p.reason \in Truncation /\ ~p.text /\ order = <<>>
<1>1. /\ order \in Seq(DOMAIN p.calls)
      /\ \A k \in DOMAIN order : p.calls[order[k]].named
      /\ \A c \in DOMAIN p.calls : p.calls[c].named => \E k \in DOMAIN order : p.calls[order[k]].id = p.calls[c].id
  BY PassedIs
<1>2. DOMAIN calls = DOMAIN p.calls /\ \A c \in DOMAIN calls : Mirrors(calls[c], p.calls[c]) /\ calls[c] \in WrittenCalls(n)
  BY DEF SameCalls
<1>3. FlushToolCalls(p) = IF empty THEN <<ToolTruncatedError(TRUE)>> ELSE events
  BY DEF FlushToolCalls
<1> HIDE DEF order
<1>4. ~empty
  <2> SUFFICES ASSUME empty PROVE FALSE
    OBVIOUS
  <2>1. FlushToolCalls(p) = <<ToolTruncatedError(TRUE)>>
    BY <1>3
  <2>2. 1 \in DOMAIN <<ToolTruncatedError(TRUE)>> /\ <<ToolTruncatedError(TRUE)>>[1].type = "error"
    BY DEF ToolTruncatedError
  <2> QED BY <2>1, <2>2 DEF Has
<1>5. FlushToolCalls(p) = events /\ \A k \in DOMAIN events : events[k].type # "error"
  BY <1>3, <1>4 DEF Has
<1>6. Len(order) \in Nat /\ DOMAIN order = 1..Len(order) /\ \A k \in DOMAIN order : order[k] \in DOMAIN calls
  BY <1>1, <1>2
<1>7. \A k \in DOMAIN order : event(k) = CallOrError(calls[order[k]].id, Pieces(calls[order[k]].full, calls[order[k]].sent))
  BY <1>2, <1>6 DEF Mirrors
<1>8. \A k \in DOMAIN order : calls[order[k]].named /\ calls[order[k]] \in WrittenCalls(n)
  BY <1>1, <1>2, <1>6 DEF Mirrors
<1> HIDE DEF event
<1>9. \A k \in DOMAIN order : event(k) \in ToolUses(n) /\ Taken(calls[order[k]], event(k))
  <2> SUFFICES ASSUME NEW k \in DOMAIN order PROVE event(k) \in ToolUses(n) /\ Taken(calls[order[k]], event(k))
    OBVIOUS
  <2>1. event(k).type \in {"tool_use", "error"} /\ (event(k).type = "tool_use" => event(k) \in ToolUses(n) /\ Taken(calls[order[k]], event(k)))
    BY <1>7, <1>8, CallIs
  <2>2. event(k).type # "error"
    BY <1>5
  <2> QED BY <2>1, <2>2
<1>10. events \in Seq(ToolUses(n)) /\ DOMAIN events = DOMAIN order
  <2>1. events \in [1..Len(order) -> ToolUses(n)]
    BY <1>6, <1>9
  <2> QED BY <1>6, <2>1
<1>11. Whole(calls, events)
  <2>1. ASSUME NEW c \in DOMAIN calls, calls[c].named PROVE \E k \in DOMAIN events : events[k].id = calls[c].id
    <3>1. PICK k \in DOMAIN order : p.calls[order[k]].id = p.calls[c].id
      BY <1>1, <1>2, <2>1 DEF Mirrors
    <3>2. calls[order[k]].id = calls[c].id
      BY <1>2, <1>6, <3>1 DEF Mirrors
    <3> QED BY <1>9, <3>2 DEF Taken
  <2>2. ASSUME NEW k \in DOMAIN events PROVE \E c \in DOMAIN calls : Taken(calls[c], events[k])
    BY <1>6, <1>9
  <2> QED BY <2>1, <2>2 DEF Whole
<1>12. order # <<>> => events # <<>>
  BY <1>1, <1>10
<1> QED BY <1>4, <1>5, <1>10, <1>11, <1>12


-----------------------------------------------------------------------------
(* What the ends of a step keep: a request is sent, a reply is given up,   *)
(* found cut, or goes on.                                                  *)
LEMMA NextTypes ==
  ASSUME TypeOK, nextId' \in {nextId, nextId + 1}
  PROVE  /\ nextId' \in Nat \ {0}
         /\ Conversations(nextId) \subseteq Conversations(nextId')
         /\ Written(nextId) \subseteq Written(nextId')
         /\ Gatherings(nextId) \subseteq Gatherings(nextId')
         /\ Seq(WrittenCalls(nextId)) \subseteq Seq(WrittenCalls(nextId'))
         /\ Seq(HeldCalls(nextId)) \subseteq Seq(HeldCalls(nextId'))
<1>1. nextId \in Nat \ {0}
  BY DEF TypeOK
<1>2. CASE nextId' = nextId
  BY <1>1, <1>2
<1>3. CASE nextId' = nextId + 1
  BY <1>1, <1>3, TypesGrow
<1> QED BY <1>2, <1>3

LEMMA NewIs ==
  ASSUME NEW n \in Nat
  PROVE  /\ NewReply \in Written(n) /\ NoPending \in Gatherings(n)
         /\ NewReply.calls = <<>> /\ NoPending.calls = <<>> /\ NewReply.reason = NoReason /\ NewReply.open = FALSE
         /\ NoPending.text = FALSE
<1>1. \A S : <<>> \in Seq(S)
  OBVIOUS
<1> QED BY <1>1 DEF NewReply, NoPending, Written, Gatherings, Reasons

LEMMA NewReplyIs ==
  ASSUME provider' \in Providers, nextId' \in Nat,
         reply' = NewReply, pending' = NoPending, parser' = NewParser(provider')
  PROVE  ReplyInv'
<1>1. /\ NewReply.calls = <<>> /\ NoPending.calls = <<>> /\ NewReply.reason = NoReason /\ NewReply.open = FALSE
      /\ NoPending.text = FALSE
  BY NewIs
<1>2. \A S : <<>> \in Seq(S)
  OBVIOUS
<1>3. CASE provider' = "openai"
  <2>1. parser' = [calls |-> <<>>, reason |-> NoReason, stopped |-> FALSE, text |-> FALSE]
    BY <1>3 DEF NewParser, OpenAIParser
  <2>2. parser' \in [calls : Seq(HeldCalls(nextId')), reason : Reasons, stopped : BOOLEAN, text : BOOLEAN]
    BY <1>2, <2>1 DEF Reasons
  <2>3. SameCalls(<<>>, <<>>)
    BY DEF SameCalls
  <2>4. parser'.calls = <<>> /\ parser'.reason = NoReason /\ parser'.stopped = FALSE /\ parser'.text = FALSE
    BY <2>1
  <2>5. OpenAIInv'
    BY <1>1, <2>2, <2>3, <2>4 DEF OpenAIInv
  <2> QED BY <1>3, <2>5 DEF ReplyInv
<1>4. CASE provider' = "anthropic"
  <2>1. parser' = [block |-> NoBlock, buffer |-> <<>>, reason |-> NoReason, stopped |-> FALSE, text |-> FALSE, tool |-> FALSE]
    BY <1>4 DEF NewParser, AnthropicParser
  <2>2. parser' \in [block : Nat, buffer : PieceSeqs, reason : Reasons, stopped : BOOLEAN, text : BOOLEAN, tool : BOOLEAN]
    BY <1>2, <2>1 DEF Reasons, NoBlock, PieceSeqs
  <2>3. /\ parser'.block = NoBlock /\ parser'.reason = NoReason /\ parser'.stopped = FALSE
        /\ parser'.text = FALSE /\ parser'.tool = FALSE
    BY <2>1
  <2>4. DOMAIN <<>> = {}
    OBVIOUS
  <2>6. Len(reply'.calls) = Len(pending'.calls) /\ ~reply'.open
    BY <1>1
  <2>7. /\ \A c \in DOMAIN reply'.calls : reply'.calls[c].named
        /\ \A c \in DOMAIN pending'.calls : Taken(reply'.calls[c], pending'.calls[c])
    BY <1>1, <2>4
  <2>5. AnthropicInv'
    BY <1>1, <2>2, <2>3, <2>6, <2>7 DEF AnthropicInv
  <2> QED BY <1>4, <2>5 DEF ReplyInv
<1> QED BY <1>3, <1>4 DEF Providers

LEMMA SendKeeps ==
  ASSUME TypeOK, NEW msgs \in Conversations(nextId), Settled(msgs), Send(msgs),
         provider' = provider, tries' \in Nat, nextId' \in {nextId, nextId + 1}
  PROVE  StreamsInv'
<1>1. /\ nextId' \in Nat /\ nextId' \in Nat \ {0}
      /\ Conversations(nextId) \subseteq Conversations(nextId')
  BY NextTypes
<1>2. /\ conv' = msgs /\ request' = Serialize(provider, msgs) /\ reply' = NewReply /\ pending' = NoPending
      /\ pc' = "stream" /\ parser' = NewParser(provider) /\ streams' = streams + 1
  BY DEF Send
<1>3. provider \in Providers /\ streams \in Nat
  BY DEF TypeOK
<1>4. NewReply \in Written(nextId') /\ NoPending \in Gatherings(nextId') /\ NewReply.calls = <<>>
  BY <1>1, NewIs
<1>5. TypeOK'
  BY <1>1, <1>2, <1>3, <1>4 DEF TypeOK
<1>6. ReplyInv'
  BY <1>1, <1>2, <1>3, NewReplyIs
<1>7. ChainInv'
  <2>1. IdsIn(<<>>) = {}
    BY DEF IdsIn
  <2>2. Repairable(msgs)
    BY SettledIsRepairable
  <2> QED BY <1>2, <1>4, <2>1, <2>2 DEF ChainInv
<1>8. RequestPaired'
  BY <1>2, <1>3, SettledIsPaired DEF RequestPaired, Conversations
<1>9. RecordedWhole' /\ NeverSilent'
  BY <1>2 DEF RecordedWhole, NeverSilent
<1> QED BY <1>5, <1>6, <1>7, <1>8, <1>9 DEF StreamsInv

LEMMA GiveUpKeeps ==
  ASSUME StreamsInv, pc = "stream", NEW g \in Gatherings(nextId), IdsIn(g.calls) \cap AllUseIds(conv) = {},
         GiveUp(g), provider' = provider, nextId' = nextId, reply' \in Written(nextId)
  PROVE  StreamsInv'
<1>1. TypeOK /\ Settled(conv) /\ Repairable(conv) /\ conv \in Conversations(nextId) /\ conv \in Chains(Fragments, Ids(nextId), Ids(nextId))
  BY DEF StreamsInv, ChainInv, TypeOK, Conversations
<1>2. conv' = FlushPartial(g) /\ pending' = NoPending /\ pc' = "idle" /\ UNCHANGED <<request, parser, streams, tries>>
  BY DEF GiveUp
<1>3. conv' \in Conversations(nextId) /\ Repairable(conv')
  <2>1. CASE Assembled(g) = <<>>
    BY <1>1, <1>2, <2>1 DEF FlushPartial
  <2>2. CASE Assembled(g) # <<>>
    <3> DEFINE msg == AssistantMessage(Assembled(g))
    <3>1. /\ msg \in Messages(Fragments, Ids(nextId), Ids(nextId)) /\ msg.role = "assistant"
          /\ msg.content # <<>> /\ ResultIds(msg) = {} /\ UseIds(msg) = IdsIn(g.calls)
      BY <2>2, AssembledIs
    <3>2. conv' = AppendMessage(conv, msg)
      BY <1>2, <2>2 DEF FlushPartial
    <3> HIDE DEF msg
    <3>3. AppendMessage(conv, msg) \in Conversations(nextId)
      BY <1>1, <3>1, AppendIs DEF Conversations
    <3>4. Repairable(AppendMessage(conv, msg))
      BY <1>1, <3>1, AssistantRepairable
    <3> QED BY <3>2, <3>3, <3>4
  <2> QED BY <2>1, <2>2
<1>4. TypeOK'
  <2>1. NoPending \in Gatherings(nextId)
    BY <1>1, NewIs DEF TypeOK
  <2> QED BY <1>1, <1>2, <1>3, <2>1 DEF TypeOK
<1>5. ReplyInv' /\ ChainInv' /\ RecordedWhole' /\ NeverSilent'
  BY <1>2, <1>3 DEF ReplyInv, ChainInv, RecordedWhole, NeverSilent
<1>6. RequestPaired'
  BY <1>2 DEF StreamsInv, RequestPaired
<1> QED BY <1>4, <1>5, <1>6 DEF StreamsInv

LEMMA TruncatedKeeps ==
  ASSUME StreamsInv, pc = "stream", Truncated, provider' = provider, nextId' \in {nextId, nextId + 1}
  PROVE  StreamsInv'
<1> DEFINE told == AppendMessage(conv, Feedback)
<1>1. TypeOK /\ Settled(conv) /\ conv \in Conversations(nextId) /\ tries \in Nat
  BY DEF StreamsInv, ChainInv, TypeOK
<1>2. told \in Conversations(nextId) /\ Settled(told)
  <2>1. "cut" \in Fragments /\ nextId \in Nat
    BY <1>1 DEF Fragments, TypeOK
  <2> QED BY <1>1, <2>1, TextSettles DEF Feedback
<1> HIDE DEF told
<1>3. tries' \in Nat
  BY <1>1 DEF Truncated
<1>4. CASE Send(told)
  BY <1>1, <1>2, <1>3, <1>4, SendKeeps
<1>5. CASE conv' = told /\ pending' = NoPending /\ pc' = "idle" /\ UNCHANGED <<request, parser, reply, streams>>
  <2>1. /\ nextId' \in Nat \ {0} /\ Conversations(nextId) \subseteq Conversations(nextId')
        /\ Written(nextId) \subseteq Written(nextId')
    BY <1>1, NextTypes
  <2>2. NoPending \in Gatherings(nextId')
    BY <2>1, NewIs
  <2>3. TypeOK'
    BY <1>1, <1>2, <1>3, <1>5, <2>1, <2>2 DEF TypeOK
  <2>4. Repairable(told)
    BY <1>2, SettledIsRepairable
  <2>5. ReplyInv' /\ ChainInv' /\ RecordedWhole' /\ NeverSilent'
    BY <1>5, <2>4 DEF ReplyInv, ChainInv, RecordedWhole, NeverSilent
  <2>6. RequestPaired'
    BY <1>5 DEF StreamsInv, RequestPaired
  <2> QED BY <2>3, <2>5, <2>6 DEF StreamsInv
<1> QED BY <1>4, <1>5 DEF Truncated, told

GoesOn(written, p, gathered) ==
  /\ reply' = written /\ parser' = p /\ pending' = gathered
  /\ UNCHANGED <<conv, request, pc, tries, streams>>

LEMMA GoesOnKeeps ==
  ASSUME StreamsInv, pc = "stream", NEW written \in Written(nextId'), NEW g \in Gatherings(nextId'), NEW p,
         IdsIn(written.calls) \cap AllUseIds(conv) = {},
         GoesOn(written, p, g), provider' = provider, nextId' \in {nextId, nextId + 1}, ReplyInv'
  PROVE  StreamsInv'
<1>1. TypeOK /\ ChainInv
  BY DEF StreamsInv
<1>2. nextId' \in Nat \ {0} /\ Conversations(nextId) \subseteq Conversations(nextId')
  BY <1>1, NextTypes
<1>3. TypeOK'
  BY <1>1, <1>2 DEF TypeOK, GoesOn
<1>4. ChainInv'
  BY <1>1 DEF ChainInv, GoesOn
<1>5. RequestPaired' /\ RecordedWhole' /\ NeverSilent'
  BY DEF StreamsInv, RequestPaired, RecordedWhole, NeverSilent, GoesOn
<1> QED BY <1>3, <1>4, <1>5 DEF StreamsInv


(* What must be shown of a line: either way out of the stream keeps the    *)
(* invariant, and so does a reply that goes on.                            *)
FedWell(written, fed) ==
  /\ Has(fed.events, "raised") => nextId' = nextId /\ Called(fed.events) = <<>>
  /\ (~Has(fed.events, "error") /\ ~Has(fed.events, "raised") /\ GoesOn(written, fed.parser, Gathered(fed.events)))
       => pending' \in Gatherings(nextId') /\ ReplyInv'

LEMMA StreamIs ==
  ASSUME StreamsInv, pc = "stream"
  PROVE  /\ provider \in Providers /\ nextId \in Nat \ {0}
         /\ reply \in Written(nextId) /\ reply.calls \in Seq(WrittenCalls(nextId))
         /\ reply.text \in BOOLEAN /\ reply.open \in BOOLEAN /\ reply.reason \in Reasons
         /\ pending \in Gatherings(nextId) /\ pending.calls \in Seq(ToolUses(nextId)) /\ pending.text \in BOOLEAN
         /\ provider = "openai" => OpenAIInv
         /\ provider = "anthropic" => AnthropicInv
         /\ IdsIn(reply.calls) \cap AllUseIds(conv) = {}
<1>1. provider \in Providers /\ nextId \in Nat \ {0} /\ reply \in Written(nextId) /\ pending \in Gatherings(nextId)
  BY DEF StreamsInv, TypeOK
<1>2. /\ reply.calls \in Seq(WrittenCalls(nextId)) /\ reply.text \in BOOLEAN /\ reply.open \in BOOLEAN
      /\ reply.reason \in Reasons
  BY <1>1 DEF Written
<1>3. pending.calls \in Seq(ToolUses(nextId)) /\ pending.text \in BOOLEAN
  BY <1>1 DEF Gatherings
<1>4. (provider = "openai" => OpenAIInv) /\ (provider = "anthropic" => AnthropicInv)
  BY DEF StreamsInv, ReplyInv
<1>5. IdsIn(reply.calls) \cap AllUseIds(conv) = {}
  BY DEF StreamsInv, ChainInv
<1> QED BY <1>1, <1>2, <1>3, <1>4, <1>5

(* What is gathered is what was written.                                   *)
LEMMA GatheredIsWritten ==
  ASSUME StreamsInv, pc = "stream"
  PROVE  IdsIn(pending.calls) \subseteq IdsIn(reply.calls)
<1>0. reply.calls \in Seq(WrittenCalls(nextId)) /\ pending.calls \in Seq(ToolUses(nextId)) /\ reply.open \in BOOLEAN
      /\ provider \in Providers
  BY StreamIs
<1> SUFFICES ASSUME NEW k \in DOMAIN pending.calls
             PROVE  \E c \in DOMAIN reply.calls : reply.calls[c].id = pending.calls[k].id
  BY DEF IdsIn
<1>1. CASE provider = "openai"
  <2>1. OpenAIInv
    BY <1>1, StreamIs
  <2>2. CASE ~parser.stopped
    <3>1. pending.calls = <<>>
      BY <2>1, <2>2 DEF OpenAIInv
    <3> QED BY <3>1
  <2>3. CASE parser.stopped
    <3>1. Whole(reply.calls, pending.calls)
      BY <2>1, <2>3 DEF OpenAIInv
    <3> QED BY <3>1 DEF Whole, Taken
  <2> QED BY <2>2, <2>3
<1>2. CASE provider = "anthropic"
  <2>1. AnthropicInv
    BY <1>2, StreamIs
  <2>2. /\ Taken(reply.calls[k], pending.calls[k])
        /\ Len(reply.calls) = Len(pending.calls) + 1 \/ Len(reply.calls) = Len(pending.calls)
    BY <1>0, <2>1 DEF AnthropicInv
  <2>3. k \in DOMAIN reply.calls
    <3>1. \A S : \A s \in Seq(S) : Len(s) \in Nat /\ DOMAIN s = 1..Len(s)
      OBVIOUS
    <3>2. k \in 1..Len(pending.calls) /\ Len(pending.calls) \in Nat
      BY <1>0, <3>1
    <3>3. DOMAIN reply.calls = 1..Len(reply.calls) /\ Len(reply.calls) \in Nat
      BY <1>0, <3>1
    <3> QED BY <2>2, <3>2, <3>3
  <2> QED BY <2>2, <2>3 DEF Taken
<1> QED BY <1>0, <1>1, <1>2 DEF Providers

LEMMA GatheredAre ==
  ASSUME NEW events
  PROVE  Gathered(events) = [text |-> pending.text \/ Has(events, "text_delta"), calls |-> pending.calls \o Called(events)]
BY DEF Gathered, Called

LEMMA GatheringIs ==
  ASSUME NEW n, NEW text \in BOOLEAN, NEW calls \in Seq(ToolUses(n))
  PROVE  [text |-> text, calls |-> calls] \in Gatherings(n)
BY DEF Gatherings

LEMMA NothingMore == ASSUME NEW T, NEW s \in Seq(T) PROVE s \o <<>> = s /\ <<>> \o s = s
OBVIOUS

LEMMA LineKeeps ==
  ASSUME StreamsInv, pc = "stream", NEW written \in Written(nextId'), NEW line, Line(written, line),
         nextId' \in {nextId, nextId + 1}, IdsIn(written.calls) \cap AllUseIds(conv) = {},
         FedWell(written, Feed(provider, parser, line))
  PROVE  StreamsInv'
<1> DEFINE fed == Feed(provider, parser, line)
<1>1. provider' = provider
  BY DEF Line
<1>2. \/ Truncated
      \/ Has(fed.events, "raised") /\ reply' = written /\ GiveUp(Gathered(fed.events))
      \/ ~Has(fed.events, "error") /\ ~Has(fed.events, "raised") /\ GoesOn(written, fed.parser, Gathered(fed.events))
  BY DEF Line, GoesOn
<1> HIDE DEF fed
<1>3. CASE Truncated
  BY <1>1, <1>3, TruncatedKeeps
<1>4. CASE Has(fed.events, "raised") /\ reply' = written /\ GiveUp(Gathered(fed.events))
  <2> DEFINE g == Gathered(fed.events)
  <2>1. nextId' = nextId /\ Called(fed.events) = <<>>
    BY <1>4 DEF FedWell, fed
  <2>2. pending.calls \in Seq(ToolUses(nextId))
    BY StreamIs
  <2>3. pending.calls \o <<>> = pending.calls
    BY <2>2, NothingMore
  <2>4. g = [text |-> pending.text \/ Has(fed.events, "text_delta"), calls |-> pending.calls]
    BY <2>1, <2>3, GatheredAre
  <2>5. g \in Gatherings(nextId) /\ g.calls = pending.calls
    BY <2>2, <2>4 DEF Gatherings
  <2>6. IdsIn(g.calls) \cap AllUseIds(conv) = {}
    BY <2>5, GatheredIsWritten, StreamIs
  <2>7. reply' \in Written(nextId)
    BY <1>4, <2>1
  <2> HIDE DEF g
  <2>8. GiveUp(g)
    BY <1>4 DEF g
  <2> QED BY <1>1, <2>1, <2>5, <2>6, <2>7, <2>8, GiveUpKeeps
<1>5. CASE ~Has(fed.events, "error") /\ ~Has(fed.events, "raised") /\ GoesOn(written, fed.parser, Gathered(fed.events))
  <2>1. pending' \in Gatherings(nextId') /\ ReplyInv'
    BY <1>5 DEF FedWell, fed
  <2>2. pending' = Gathered(fed.events) /\ GoesOn(written, fed.parser, pending')
    BY <1>5 DEF GoesOn
  <2> QED BY <1>1, <2>1, <2>2, GoesOnKeeps
<1> QED BY <1>2, <1>3, <1>4, <1>5

(* Events that carry no call and no error.                                 *)
Quiet(events) == events = <<>> \/ \E e : events = << e >> /\ e.type \in {"text_delta", "usage", "stop"}

LEMMA QuietIs ==
  ASSUME NEW n, pending \in Gatherings(n), NEW events, Quiet(events)
  PROVE  /\ ~Has(events, "raised") /\ ~Has(events, "error")
         /\ Gathered(events).calls = pending.calls
         /\ Gathered(events).text = (pending.text \/ Has(events, "text_delta"))
         /\ Gathered(events) \in Gatherings(n)
<1>0. pending.calls \in Seq(ToolUses(n)) /\ pending.text \in BOOLEAN
  BY DEF Gatherings
<1>1. events = <<>> => DOMAIN events = {} /\ events \in Seq({})
  OBVIOUS
<1>2. ASSUME NEW e, events = << e >> PROVE DOMAIN events = {1} /\ events[1] = e /\ events \in Seq({e})
  BY <1>2
<1>3. \A k \in DOMAIN events : events[k].type \in {"text_delta", "usage", "stop"}
  BY <1>1, <1>2 DEF Quiet
<1>4. ~Has(events, "raised") /\ ~Has(events, "error")
  BY <1>3 DEF Has
<1>5. \E T : events \in Seq(T)
  BY <1>1, <1>2 DEF Quiet
<1>6. Called(events) = <<>>
  BY <1>3, <1>5, NoneCalled
<1>7. pending.calls \o <<>> = pending.calls
  BY <1>0, NothingMore
<1>8. Gathered(events) = [text |-> pending.text \/ Has(events, "text_delta"), calls |-> pending.calls]
  BY <1>6, <1>7, GatheredAre
<1>9. Gathered(events) \in Gatherings(n)
  BY <1>0, <1>8 DEF Gatherings
<1> QED BY <1>4, <1>8, <1>9


LEMMA SeqIs ==
  ASSUME NEW S, NEW s \in Seq(S)
  PROVE  Len(s) \in Nat /\ DOMAIN s = 1..Len(s) /\ \A k \in DOMAIN s : s[k] \in S
OBVIOUS

(* A line with no more for the OpenAI parser to keep.                      *)
LEMMA OpenAIQuiet ==
  ASSUME StreamsInv, pc = "stream", provider = "openai", provider' = provider, nextId' = nextId,
         NEW written, written.calls = reply.calls, written.reason = reply.reason,
         NEW events, Quiet(events), ~Has(events, "text_delta")
  PROVE  FedWell(written, Fed(parser, events))
<1> DEFINE fed == Fed(parser, events)
<1>1. fed.parser = parser /\ fed.events = events
  BY DEF Fed
<1> HIDE DEF fed
<1>2. pending \in Gatherings(nextId) /\ pending.text \in BOOLEAN /\ OpenAIInv
  BY StreamIs
<1>3. /\ ~Has(events, "raised")
      /\ Gathered(events).calls = pending.calls
      /\ Gathered(events).text = (pending.text \/ Has(events, "text_delta"))
      /\ Gathered(events) \in Gatherings(nextId)
  BY <1>2, QuietIs
<1> SUFFICES ASSUME GoesOn(written, parser, Gathered(events))
             PROVE  pending' \in Gatherings(nextId') /\ ReplyInv'
  BY <1>1, <1>3 DEF FedWell, fed
<1>4. reply' = written /\ parser' = parser /\ pending' = Gathered(events)
  BY DEF GoesOn
<1>5. pending'.calls = pending.calls /\ pending'.text = pending.text
  BY <1>2, <1>3, <1>4
<1>6. OpenAIInv'
  <2>1. reply'.calls = reply.calls /\ reply'.reason = reply.reason
    BY <1>4
  <2> QED BY <1>2, <1>4, <1>5, <2>1 DEF OpenAIInv, Spoke
<1> QED BY <1>3, <1>4, <1>6 DEF ReplyInv

LEMMA TextFed ==
  ASSUME StreamsInv, pc = "stream", reply.reason = NoReason, ~reply.open, provider' = provider, nextId' = nextId
  PROVE  FedWell([reply EXCEPT !.text = TRUE], Feed(provider, parser, [kind |-> "text"]))
<1> DEFINE written == [reply EXCEPT !.text = TRUE]
           line == [kind |-> "text"]
           fed == Feed(provider, parser, line)
           p == [parser EXCEPT !.text = TRUE]
           events == <<TextDelta>>
<1>0. provider \in Providers /\ reply \in Written(nextId) /\ pending \in Gatherings(nextId)
  BY StreamIs
<1>1. fed = Fed(p, events)
  BY <1>0 DEF Providers, Feed, OpenAIFeed, AnthropicFeed
<1> HIDE DEF fed
<1>2. fed.parser = p /\ fed.events = events
  BY <1>1 DEF Fed
<1>3. Quiet(events) /\ Has(events, "text_delta")
  BY DEF TextDelta, Quiet, Has
<1> HIDE DEF events
<1>4. /\ ~Has(events, "raised")
      /\ Gathered(events).calls = pending.calls
      /\ Gathered(events).text = (pending.text \/ Has(events, "text_delta"))
      /\ Gathered(events) \in Gatherings(nextId)
  BY <1>0, <1>3, QuietIs
<1> SUFFICES ASSUME GoesOn(written, p, Gathered(events))
             PROVE  pending' \in Gatherings(nextId') /\ ReplyInv'
  BY <1>2, <1>4 DEF FedWell, fed
<1>5. reply' = written /\ parser' = p /\ pending' = Gathered(events)
  BY DEF GoesOn
<1>6. pending'.calls = pending.calls /\ pending'.text = TRUE
  BY <1>3, <1>4, <1>5
<1>7. reply'.calls = reply.calls /\ reply'.reason = NoReason /\ ~reply'.open
  BY <1>0, <1>5 DEF Written
<1>8. CASE provider = "openai"
  <2>1. OpenAIInv
    BY <1>8, StreamIs
  <2> DEFINE T == [calls : Seq(HeldCalls(nextId)), reason : Reasons, stopped : BOOLEAN, text : BOOLEAN]
  <2>2. parser \in T /\ ~parser.stopped /\ pending.calls = <<>> /\ SameCalls(reply.calls, parser.calls) /\ parser.reason = NoReason
    BY <2>1 DEF OpenAIInv
  <2>3. p \in T /\ p.calls = parser.calls /\ p.reason = parser.reason /\ p.stopped = parser.stopped /\ p.text = TRUE
    BY <2>2
  <2> HIDE DEF p
  <2>4. OpenAIInv'
    BY <1>5, <1>6, <1>7, <2>2, <2>3 DEF OpenAIInv
  <2> QED BY <1>4, <1>5, <1>8, <2>4 DEF ReplyInv
<1>9. CASE provider = "anthropic"
  <2>1. AnthropicInv
    BY <1>9, StreamIs
  <2> DEFINE T == [block : Nat, buffer : PieceSeqs, reason : Reasons, stopped : BOOLEAN, text : BOOLEAN, tool : BOOLEAN]
  <2>2. parser \in T /\ parser.reason = NoReason /\ ~parser.stopped
    BY <2>1 DEF AnthropicInv
  <2>3. /\ p \in T /\ p.block = parser.block /\ p.buffer = parser.buffer /\ p.reason = parser.reason
        /\ p.stopped = parser.stopped /\ p.text = TRUE /\ p.tool = parser.tool
    BY <2>2
  <2> HIDE DEF p
  <2>4. AnthropicInv'
    BY <1>5, <1>6, <1>7, <2>1, <2>2, <2>3 DEF AnthropicInv
  <2> QED BY <1>4, <1>5, <1>9, <2>4 DEF ReplyInv
<1> QED BY <1>0, <1>8, <1>9 DEF Providers


LEMMA SameCallsAppended ==
  ASSUME NEW S, NEW T, NEW calls \in Seq(S), NEW held \in Seq(T), NEW c \in S, NEW h \in T,
         SameCalls(calls, held), Mirrors(c, h)
  PROVE  SameCalls(Append(calls, c), Append(held, h))
<1>1. Len(held) = Len(calls) /\ \A k \in DOMAIN calls : Mirrors(calls[k], held[k])
  BY DEF SameCalls
<1>2. Len(calls) \in Nat /\ DOMAIN calls = 1..Len(calls)
  BY SeqIs
<1> DEFINE s == Append(calls, c)
           t == Append(held, h)
<1>3. /\ Len(s) = Len(calls) + 1 /\ DOMAIN s = 1..(Len(calls) + 1) /\ s[Len(calls) + 1] = c
      /\ \A k \in 1..Len(calls) : s[k] = calls[k]
  BY <1>2, AppendProperties
<1>4. /\ Len(t) = Len(calls) + 1 /\ t[Len(calls) + 1] = h
      /\ \A k \in 1..Len(calls) : t[k] = held[k]
  BY <1>1, <1>2, AppendProperties
<1> HIDE DEF s, t
<1>5. \A k \in DOMAIN s : k \in 1..Len(calls) \/ k = Len(calls) + 1
  BY <1>2, <1>3
<1>6. \A k \in DOMAIN s : Mirrors(s[k], t[k])
  BY <1>1, <1>2, <1>3, <1>4, <1>5
<1>7. SameCalls(s, t)
  BY <1>3, <1>4, <1>6 DEF SameCalls
<1> QED BY <1>7 DEF s, t

LEMMA OpenFed ==
  ASSUME StreamsInv, pc = "stream", reply.reason = NoReason, ~reply.open, provider' = provider,
         nextId' \in {nextId, nextId + 1}, NEW call \in WrittenCalls(nextId'), call.sent = 0,
         provider = "anthropic" => call.named
  PROVE  FedWell([reply EXCEPT !.calls = Append(@, call), !.open = (provider = "anthropic")],
                 Feed(provider, parser, [kind |-> "open", id |-> call.id, named |-> call.named]))
<1> DEFINE written == [reply EXCEPT !.calls = Append(@, call), !.open = (provider = "anthropic")]
           line == [kind |-> "open", id |-> call.id, named |-> call.named]
           held == [id |-> call.id, named |-> call.named, arguments |-> <<>>]
           fed == Feed(provider, parser, line)
           p == IF provider = "openai" THEN [parser EXCEPT !.calls = Append(@, held)]
                ELSE [parser EXCEPT !.block = call.id, !.buffer = <<>>]
<1>0. /\ provider \in Providers /\ reply \in Written(nextId) /\ reply.calls \in Seq(WrittenCalls(nextId))
      /\ pending \in Gatherings(nextId) /\ pending.calls \in Seq(ToolUses(nextId))
  BY StreamIs
<1>00. /\ nextId' \in Nat \ {0} /\ Gatherings(nextId) \subseteq Gatherings(nextId')
       /\ Seq(WrittenCalls(nextId)) \subseteq Seq(WrittenCalls(nextId'))
       /\ Seq(HeldCalls(nextId)) \subseteq Seq(HeldCalls(nextId'))
  BY NextTypes DEF StreamsInv
<1>1. fed = Fed(p, <<>>)
  BY <1>0 DEF Providers, Feed, OpenAIFeed, AnthropicFeed, FeedToolCall
<1> HIDE DEF fed
<1>2. fed.parser = p /\ fed.events = <<>>
  BY <1>1 DEF Fed
<1>3. Quiet(<<>>) /\ ~Has(<<>>, "text_delta")
  BY DEF Quiet, Has
<1>4. /\ ~Has(<<>>, "raised")
      /\ Gathered(<<>>).calls = pending.calls
      /\ Gathered(<<>>).text = (pending.text \/ Has(<<>>, "text_delta"))
      /\ Gathered(<<>>) \in Gatherings(nextId)
  BY <1>0, <1>3, QuietIs
<1> SUFFICES ASSUME GoesOn(written, p, Gathered(<<>>))
             PROVE  pending' \in Gatherings(nextId') /\ ReplyInv'
  BY <1>2, <1>4 DEF FedWell, fed
<1>5. reply' = written /\ parser' = p /\ pending' = Gathered(<<>>)
  BY DEF GoesOn
<1>6. pending'.calls = pending.calls /\ pending'.text = pending.text
  <2>1. pending.text \in BOOLEAN
    BY StreamIs
  <2> QED BY <1>3, <1>4, <1>5, <2>1
<1>7. /\ reply'.calls = Append(reply.calls, call) /\ reply'.reason = NoReason
      /\ reply'.open = (provider = "anthropic")
  BY <1>0, <1>5 DEF Written
<1>8. call.id \in Ids(nextId') /\ call.named \in BOOLEAN /\ call.full \in Nat /\ call.id \in Nat
  <2>1. call.id \in Ids(nextId') /\ call.named \in BOOLEAN /\ call.full \in Nat
    BY DEF WrittenCalls
  <2> QED BY <2>1 DEF Ids
<1>9. Pieces(call.full, call.sent) = <<>> /\ <<>> \in PieceSeqs
  BY <1>8 DEF Pieces, PieceSeqs
<1>10. pending' \in Gatherings(nextId')
  BY <1>00, <1>4, <1>5
<1> HIDE DEF written
<1>11. CASE provider = "openai"
  <2>1. OpenAIInv
    BY <1>11, StreamIs
  <2>2. /\ parser \in [calls : Seq(HeldCalls(nextId)), reason : Reasons, stopped : BOOLEAN, text : BOOLEAN]
        /\ ~parser.stopped /\ pending.calls = <<>> /\ parser.text = pending.text
        /\ SameCalls(reply.calls, parser.calls) /\ parser.reason = NoReason
    BY <2>1 DEF OpenAIInv
  <2>3. held \in HeldCalls(nextId') /\ Mirrors(call, held)
    BY <1>8, <1>9 DEF HeldCalls, Mirrors
  <2> HIDE DEF held
  <2>4. parser.calls \in Seq(HeldCalls(nextId'))
    BY <1>00, <2>2
  <2>5. Append(parser.calls, held) \in Seq(HeldCalls(nextId'))
    BY <2>3, <2>4
  <2>6. SameCalls(Append(reply.calls, call), Append(parser.calls, held))
    <3>1. reply.calls \in Seq(WrittenCalls(nextId'))
      BY <1>0, <1>00
    <3> QED BY <2>2, <2>3, <2>4, <3>1, SameCallsAppended
  <2>7. p = [parser EXCEPT !.calls = Append(parser.calls, held)]
    BY <1>11, <2>2
  <2> HIDE DEF p
  <2>8. /\ p \in [calls : Seq(HeldCalls(nextId')), reason : Reasons, stopped : BOOLEAN, text : BOOLEAN]
        /\ p.calls = Append(parser.calls, held) /\ p.reason = parser.reason
        /\ p.stopped = parser.stopped /\ p.text = parser.text
    BY <2>2, <2>5, <2>7
  <2>9. OpenAIInv'
    BY <1>5, <1>6, <1>7, <2>2, <2>6, <2>8 DEF OpenAIInv
  <2> QED BY <1>10, <1>11, <2>9 DEF ReplyInv
<1>12. CASE provider = "anthropic"
  <2> DEFINE T == [block : Nat, buffer : PieceSeqs, reason : Reasons, stopped : BOOLEAN, text : BOOLEAN, tool : BOOLEAN]
             calls == Append(reply.calls, call)
             n == Len(reply.calls)
  <2>1. AnthropicInv
    BY <1>12, StreamIs
  <2>2. /\ parser \in T /\ parser.reason = NoReason /\ ~parser.stopped /\ parser.text = pending.text
        /\ (parser.tool <=> pending.calls # <<>>) /\ n = Len(pending.calls)
        /\ \A c \in DOMAIN reply.calls : reply.calls[c].named
        /\ \A c \in DOMAIN pending.calls : Taken(reply.calls[c], pending.calls[c])
    BY <2>1 DEF AnthropicInv
  <2>3. p = [parser EXCEPT !.block = call.id, !.buffer = <<>>]
    BY <1>12
  <2> HIDE DEF p
  <2>4. /\ p \in T /\ p.block = call.id /\ p.buffer = <<>> /\ p.reason = parser.reason
        /\ p.stopped = parser.stopped /\ p.text = parser.text /\ p.tool = parser.tool
    BY <1>8, <1>9, <2>2, <2>3
  <2> HIDE DEF T
  <2>5. n \in Nat /\ DOMAIN reply.calls = 1..n /\ DOMAIN pending.calls = 1..n
    BY <1>0, <2>2, SeqIs
  <2>6. /\ Len(calls) = n + 1 /\ DOMAIN calls = 1..(n + 1) /\ calls[n + 1] = call
        /\ \A k \in 1..n : calls[k] = reply.calls[k]
    <3>1. reply.calls \in Seq(WrittenCalls(nextId'))
      BY <1>0, <1>00
    <3> QED BY <2>5, <3>1, AppendProperties
  <2> HIDE DEF calls, n
  <2>7. \A k \in DOMAIN calls : k \in 1..n \/ k = n + 1
    BY <2>5, <2>6
  <2>8. \A c \in DOMAIN calls : calls[c].named
    BY <1>12, <2>2, <2>5, <2>6, <2>7
  <2>9. \A c \in DOMAIN pending.calls : Taken(calls[c], pending.calls[c])
    BY <2>2, <2>5, <2>6
  <2>10. reply'.calls = calls /\ reply'.open = TRUE /\ LastCall' = call
    BY <1>7, <1>12, <2>6 DEF LastCall, calls
  <2>11. AnthropicInv'
    <3>1. parser' \in T /\ parser'.reason = reply'.reason /\ parser'.text = pending'.text
      BY <1>5, <1>6, <1>7, <2>2, <2>4
    <3>2. parser'.tool <=> pending'.calls # <<>>
      BY <1>5, <1>6, <2>2, <2>4
    <3>3. reply'.open /\ Len(reply'.calls) = Len(pending'.calls) + 1
      BY <1>6, <2>2, <2>6, <2>10
    <3>4. /\ \A c \in DOMAIN reply'.calls : reply'.calls[c].named
          /\ \A c \in DOMAIN pending'.calls : Taken(reply'.calls[c], pending'.calls[c])
      BY <1>6, <2>8, <2>9, <2>10
    <3>5. ~parser'.stopped /\ parser'.block = LastCall'.id /\ parser'.buffer = Pieces(LastCall'.full, LastCall'.sent)
      BY <1>5, <1>9, <2>2, <2>4, <2>10
    <3> QED BY <3>1, <3>2, <3>3, <3>4, <3>5 DEF AnthropicInv, T
  <2> QED BY <1>10, <1>12, <2>11 DEF ReplyInv
<1> QED BY <1>0, <1>11, <1>12 DEF Providers


(* The calls after one more piece of one of them.                          *)
OnePieceMore(r, c) == [r EXCEPT !.calls[c].sent = @ + 1]

LEMMA PieceWritten ==
  ASSUME NEW n, NEW r \in Written(n), NEW c \in DOMAIN r.calls, r.calls[c].sent < r.calls[c].full
  PROVE  LET s == OnePieceMore(r, c)
         IN  /\ s \in Written(n) /\ s.reason = r.reason /\ s.open = r.open
             /\ s.calls \in Seq(WrittenCalls(n)) /\ Len(s.calls) = Len(r.calls)
             /\ s.calls[c] = [r.calls[c] EXCEPT !.sent = @ + 1]
             /\ \A k \in DOMAIN r.calls : k # c => s.calls[k] = r.calls[k]
<1> DEFINE more == [r.calls[c] EXCEPT !.sent = @ + 1]
           calls == [r.calls EXCEPT ![c] = more]
           s == OnePieceMore(r, c)
<1>1. r.calls \in Seq(WrittenCalls(n))
  BY DEF Written
<1>2. r.calls[c] \in WrittenCalls(n)
  BY <1>1
<1>3. more \in WrittenCalls(n)
  BY <1>2 DEF WrittenCalls
<1>4. s = [r EXCEPT !.calls = calls]
  BY DEF Written, OnePieceMore
<1> HIDE DEF more, s
<1>5. /\ calls \in Seq(WrittenCalls(n)) /\ Len(calls) = Len(r.calls) /\ calls[c] = more
      /\ \A k \in DOMAIN r.calls : k # c => calls[k] = r.calls[k]
  BY <1>1, <1>3
<1> HIDE DEF calls
<1>6. s \in Written(n) /\ s.calls = calls /\ s.reason = r.reason /\ s.open = r.open
  BY <1>4, <1>5 DEF Written
<1> QED BY <1>5, <1>6 DEF more, s

LEMMA PieceFed ==
  ASSUME StreamsInv, pc = "stream", reply.reason = NoReason, provider' = provider, nextId' = nextId,
         NEW c \in DOMAIN reply.calls, reply.calls[c].sent < reply.calls[c].full,
         provider = "anthropic" => reply.open /\ c = Len(reply.calls)
  PROVE  FedWell([reply EXCEPT !.calls[c].sent = @ + 1],
                 Feed(provider, parser, [kind |-> "piece", index |-> c,
                                         piece |-> IF reply.calls[c].sent + 1 = reply.calls[c].full THEN "end" ELSE "part"]))
<1> DEFINE call == reply.calls[c]
           more == [call EXCEPT !.sent = @ + 1]
           piece == IF call.sent + 1 = call.full THEN "end" ELSE "part"
           written == [reply EXCEPT !.calls[c].sent = @ + 1]
           line == [kind |-> "piece", index |-> c, piece |-> piece]
           fed == Feed(provider, parser, line)
           p == IF provider = "openai" THEN [parser EXCEPT !.calls = [parser.calls EXCEPT ![c].arguments = Append(@, piece)]]
                ELSE [parser EXCEPT !.buffer = Append(@, piece)]
<1>0. /\ provider \in Providers /\ reply \in Written(nextId) /\ reply.calls \in Seq(WrittenCalls(nextId))
      /\ pending \in Gatherings(nextId) /\ pending.calls \in Seq(ToolUses(nextId)) /\ pending.text \in BOOLEAN
  BY StreamIs
<1>1. fed = Fed(p, <<>>)
  BY <1>0 DEF Providers, Feed, OpenAIFeed, AnthropicFeed, FeedToolCall
<1> HIDE DEF fed
<1>2. fed.parser = p /\ fed.events = <<>>
  BY <1>1 DEF Fed
<1>3. Quiet(<<>>) /\ ~Has(<<>>, "text_delta")
  BY DEF Quiet, Has
<1>4. /\ ~Has(<<>>, "raised")
      /\ Gathered(<<>>).calls = pending.calls
      /\ Gathered(<<>>).text = (pending.text \/ Has(<<>>, "text_delta"))
      /\ Gathered(<<>>) \in Gatherings(nextId)
  BY <1>0, <1>3, QuietIs
<1> SUFFICES ASSUME GoesOn(written, p, Gathered(<<>>))
             PROVE  pending' \in Gatherings(nextId') /\ ReplyInv'
  BY <1>2, <1>4 DEF FedWell, fed
<1>5. reply' = written /\ parser' = p /\ pending' = Gathered(<<>>)
  BY DEF GoesOn
<1>6. pending'.calls = pending.calls /\ pending'.text = pending.text /\ pending' \in Gatherings(nextId')
  BY <1>0, <1>3, <1>4, <1>5
<1>7. /\ reply'.reason = NoReason /\ reply'.open = reply.open
      /\ reply'.calls \in Seq(WrittenCalls(nextId)) /\ Len(reply'.calls) = Len(reply.calls)
      /\ reply'.calls[c] = more /\ \A k \in DOMAIN reply.calls : k # c => reply'.calls[k] = reply.calls[k]
  <2>1. reply' = OnePieceMore(reply, c)
    BY <1>5 DEF OnePieceMore
  <2> QED BY <1>0, <2>1, PieceWritten
<1> HIDE DEF written
<1>8. DOMAIN reply'.calls = DOMAIN reply.calls /\ Len(reply.calls) \in Nat /\ DOMAIN reply.calls = 1..Len(reply.calls)
  BY <1>0, <1>7, SeqIs
<1>9. /\ call.sent \in Nat /\ call.full \in Nat /\ call.sent <= call.full /\ call.sent < call.full
      /\ more.id = call.id /\ more.named = call.named /\ more.full = call.full /\ more.sent = call.sent + 1
  <2>1. call \in WrittenCalls(nextId)
    BY <1>0
  <2> HIDE DEF call
  <2>2. call \in [id : Ids(nextId), named : BOOLEAN, sent : Nat, full : Nat] /\ call.sent <= call.full
    BY <2>1 DEF WrittenCalls
  <2>3. call.sent < call.full
    BY DEF call
  <2> QED BY <2>2, <2>3
<1>10. /\ Append(Pieces(call.full, call.sent), piece) = Pieces(more.full, more.sent)
       /\ Pieces(more.full, more.sent) \in PieceSeqs
  <2>1. Append(Pieces(call.full, call.sent), piece) = Pieces(call.full, call.sent + 1)
    BY <1>9, PiecesAre
  <2>2. Pieces(call.full, call.sent + 1) \in PieceSeqs
    <3>1. call.sent + 1 \in Nat /\ call.sent + 1 <= call.full
      BY <1>9
    <3> QED BY <1>9, <3>1, PiecesAre
  <2> QED BY <1>9, <2>1, <2>2
<1> HIDE DEF more, piece
<1>11. CASE provider = "openai"
  <2>1. OpenAIInv
    BY <1>11, StreamIs
  <2>2. /\ parser \in [calls : Seq(HeldCalls(nextId)), reason : Reasons, stopped : BOOLEAN, text : BOOLEAN]
        /\ ~parser.stopped /\ pending.calls = <<>> /\ parser.text = pending.text
        /\ SameCalls(reply.calls, parser.calls) /\ parser.reason = NoReason
    BY <2>1 DEF OpenAIInv
  <2> DEFINE held == parser.calls
             h == [held[c] EXCEPT !.arguments = Append(@, piece)]
             next == [held EXCEPT ![c] = h]
  <2>3. held \in Seq(HeldCalls(nextId)) /\ Len(held) = Len(reply.calls) /\ \A k \in DOMAIN reply.calls : Mirrors(reply.calls[k], held[k])
    BY <2>2 DEF SameCalls
  <2>4. DOMAIN held = DOMAIN reply.calls /\ c \in DOMAIN held /\ held[c] \in HeldCalls(nextId)
    <3>1. DOMAIN held = 1..Len(held)
      BY <2>3, SeqIs
    <3>2. DOMAIN held = DOMAIN reply.calls
      BY <1>8, <2>3, <3>1
    <3> QED BY <2>3, <3>2, SeqIs
  <2>5. Mirrors(call, held[c])
    BY <2>3
  <2> HIDE DEF held, call
  <2>6. /\ h.id = held[c].id /\ h.named = held[c].named /\ h.arguments = Append(held[c].arguments, piece)
    BY <2>4 DEF HeldCalls
  <2>7. Mirrors(more, h)
    BY <1>9, <1>10, <2>5, <2>6 DEF Mirrors
  <2>8. h \in HeldCalls(nextId)
    <3>1. Append(held[c].arguments, piece) \in PieceSeqs
      BY <1>10, <2>5 DEF Mirrors
    <3> QED BY <2>4, <3>1 DEF HeldCalls
  <2> HIDE DEF h
  <2>9. /\ next \in Seq(HeldCalls(nextId)) /\ Len(next) = Len(held) /\ next[c] = h
        /\ \A k \in DOMAIN held : k # c => next[k] = held[k]
    BY <2>3, <2>4, <2>8
  <2>10. p = [parser EXCEPT !.calls = next]
    BY <1>11, <2>2, <2>4 DEF h, held, HeldCalls
  <2> HIDE DEF next, p
  <2>11. SameCalls(reply'.calls, next)
    <3>1. \A k \in DOMAIN reply.calls : Mirrors(reply'.calls[k], next[k])
      BY <1>7, <2>3, <2>4, <2>7, <2>9 DEF held
    <3> QED BY <1>7, <1>8, <2>3, <2>9, <3>1 DEF SameCalls
  <2>12. /\ p \in [calls : Seq(HeldCalls(nextId)), reason : Reasons, stopped : BOOLEAN, text : BOOLEAN]
         /\ p.calls = next /\ p.reason = parser.reason
         /\ p.stopped = parser.stopped /\ p.text = parser.text
    BY <2>2, <2>9, <2>10
  <2>13. OpenAIInv'
    BY <1>5, <1>6, <1>7, <2>2, <2>11, <2>12 DEF OpenAIInv
  <2> QED BY <1>6, <1>11, <2>13 DEF ReplyInv
<1>12. CASE provider = "anthropic"
  <2> DEFINE T == [block : Nat, buffer : PieceSeqs, reason : Reasons, stopped : BOOLEAN, text : BOOLEAN, tool : BOOLEAN]
             n == Len(reply.calls)
  <2>1. AnthropicInv /\ reply.open /\ c = n /\ LastCall = call
    BY <1>12, StreamIs DEF LastCall
  <2>2. /\ parser \in T /\ parser.reason = NoReason /\ ~parser.stopped /\ parser.text = pending.text
        /\ (parser.tool <=> pending.calls # <<>>) /\ n = Len(pending.calls) + 1
        /\ \A k \in DOMAIN reply.calls : reply.calls[k].named
        /\ \A k \in DOMAIN pending.calls : Taken(reply.calls[k], pending.calls[k])
        /\ parser.block = call.id /\ parser.buffer = Pieces(call.full, call.sent)
    BY <2>1 DEF AnthropicInv
  <2>3. p = [parser EXCEPT !.buffer = Append(parser.buffer, piece)]
    BY <1>12, <2>2
  <2> HIDE DEF p, call
  <2>4. /\ p \in T /\ p.block = parser.block /\ p.buffer = Pieces(more.full, more.sent) /\ p.reason = parser.reason
        /\ p.stopped = parser.stopped /\ p.text = parser.text /\ p.tool = parser.tool
    BY <1>10, <2>2, <2>3
  <2> HIDE DEF T
  <2>5. \A k \in DOMAIN pending.calls : k \in DOMAIN reply.calls /\ k # c
    <3>1. DOMAIN pending.calls = 1..Len(pending.calls) /\ Len(pending.calls) \in Nat
      BY <1>0, SeqIs
    <3> QED BY <1>8, <2>1, <2>2, <3>1
  <2>6. LastCall' = more
    BY <1>7, <2>1 DEF LastCall
  <2>7. \A k \in DOMAIN reply'.calls : reply'.calls[k].named
    <3>1. more.named
      BY <1>9, <2>2 DEF call
    <3> QED BY <1>7, <1>8, <2>2, <3>1
  <2>8. AnthropicInv'
    <3>1. parser' \in T /\ parser'.reason = reply'.reason /\ parser'.text = pending'.text
      BY <1>5, <1>6, <1>7, <2>2, <2>4
    <3>2. parser'.tool <=> pending'.calls # <<>>
      BY <1>5, <1>6, <2>2, <2>4
    <3>3. reply'.open /\ Len(reply'.calls) = Len(pending'.calls) + 1
      BY <1>6, <1>7, <2>1, <2>2
    <3>4. \A k \in DOMAIN pending'.calls : Taken(reply'.calls[k], pending'.calls[k])
      BY <1>6, <1>7, <2>2, <2>5
    <3>5. ~parser'.stopped /\ parser'.block = LastCall'.id /\ parser'.buffer = Pieces(LastCall'.full, LastCall'.sent)
      BY <1>5, <1>9, <2>2, <2>4, <2>6
    <3> QED BY <2>7, <3>1, <3>2, <3>3, <3>4, <3>5 DEF AnthropicInv, T
  <2> QED BY <1>6, <1>12, <2>8 DEF ReplyInv
<1> QED BY <1>0, <1>11, <1>12 DEF Providers


LEMMA EndedIs ==
  ASSUME NEW T, NEW events \in Seq(T), NEW e
  PROVE  \A type : Has(events \o << e >>, type) <=> Has(events, type) \/ e.type = type
<1> DEFINE s == events \o << e >>
           n == Len(events)
           U == T \cup {e}
<1>1. n \in Nat /\ DOMAIN events = 1..n /\ \A k \in 1..n : events[k] \in T
  OBVIOUS
<1>2. s \in Seq(U) /\ Len(s) = n + 1 /\ DOMAIN s = 1..(n + 1) /\ s[n + 1] = e /\ \A k \in 1..n : s[k] = events[k]
  <2>1. events \in Seq(U) /\ << e >> \in Seq(U) /\ Len(<< e >>) = 1 /\ << e >>[1] = e
    BY <1>1
  <2> HIDE DEF U
  <2> QED BY <1>1, <2>1
<1> HIDE DEF s, n
<1>3. \A k \in DOMAIN s : k \in DOMAIN events \/ k = n + 1
  BY <1>1, <1>2
<1>4. \A k \in DOMAIN events : k \in DOMAIN s /\ s[k] = events[k]
  BY <1>1, <1>2
<1>5. n + 1 \in DOMAIN s
  BY <1>1, <1>2
<1>6. \A type : Has(s, type) <=> Has(events, type) \/ e.type = type
  BY <1>2, <1>3, <1>4, <1>5 DEF Has
<1> QED BY <1>6 DEF s

(* The end of a block of the Anthropic form: the call in it is complete,   *)
(* or an error.                                                            *)
LEMMA CloseFed ==
  ASSUME StreamsInv, pc = "stream", reply.reason = NoReason, reply.open, provider' = provider, nextId' = nextId
  PROVE  FedWell([reply EXCEPT !.open = FALSE], Feed(provider, parser, [kind |-> "close"]))
<1> DEFINE written == [reply EXCEPT !.open = FALSE]
           line == [kind |-> "close"]
           fed == Feed(provider, parser, line)
<1>0. /\ provider \in Providers /\ reply \in Written(nextId) /\ reply.calls \in Seq(WrittenCalls(nextId))
      /\ pending \in Gatherings(nextId) /\ pending.calls \in Seq(ToolUses(nextId)) /\ pending.text \in BOOLEAN
  BY StreamIs
<1>1. written.calls = reply.calls /\ written.reason = reply.reason /\ written.open = FALSE
  BY <1>0 DEF Written
<1>2. CASE provider = "openai"
  <2>1. fed = Fed(parser, <<>>)
    BY <1>2 DEF Feed, OpenAIFeed
  <2>2. Quiet(<<>>) /\ ~Has(<<>>, "text_delta")
    BY DEF Quiet, Has
  <2> HIDE DEF written
  <2>3. FedWell(written, Fed(parser, <<>>))
    BY <1>1, <1>2, <2>2, OpenAIQuiet
  <2> QED BY <2>1, <2>3 DEF written
<1>3. CASE provider = "anthropic"
  <2> DEFINE T == [block : Nat, buffer : PieceSeqs, reason : Reasons, stopped : BOOLEAN, text : BOOLEAN, tool : BOOLEAN]
             n == Len(pending.calls)
             event == CallOrError(parser.block, parser.buffer)
             p == [parser EXCEPT !.block = NoBlock, !.buffer = <<>>, !.tool = @ \/ event.type = "tool_use"]
             uses == pending.calls \o << event >>
  <2>1. AnthropicInv
    BY <1>3, StreamIs
  <2>2. /\ parser \in T /\ parser.reason = NoReason /\ ~parser.stopped /\ parser.text = pending.text
        /\ Len(reply.calls) = n + 1
        /\ \A k \in DOMAIN reply.calls : reply.calls[k].named
        /\ \A k \in DOMAIN pending.calls : Taken(reply.calls[k], pending.calls[k])
        /\ parser.block = LastCall.id /\ parser.buffer = Pieces(LastCall.full, LastCall.sent)
    BY <2>1 DEF AnthropicInv
  <2>3. n \in Nat /\ DOMAIN pending.calls = 1..n /\ DOMAIN reply.calls = 1..(n + 1)
    BY <1>0, <2>2, SeqIs
  <2>4. LastCall = reply.calls[n + 1] /\ LastCall \in WrittenCalls(nextId) /\ LastCall.named
    BY <1>0, <2>2, <2>3 DEF LastCall
  <2>5. /\ event.type \in {"tool_use", "error"}
        /\ event.type = "tool_use" => event \in ToolUses(nextId) /\ Taken(LastCall, event)
    BY <2>2, <2>4, CallIs
  <2>6. parser.block # NoBlock
    BY <2>2, <2>4 DEF WrittenCalls, Ids, NoBlock
  <2>7. fed = Fed(p, << event >>)
    BY <1>3, <2>6 DEF Feed, AnthropicFeed, CloseBlock
  <2> HIDE DEF fed, event
  <2>8. fed.parser = p /\ fed.events = << event >>
    BY <2>7 DEF Fed
  <2>9. \A type : Has(<< event >>, type) <=> event.type = type
    BY DEF Has
  <2> SUFFICES ASSUME event.type # "error", GoesOn(written, p, Gathered(<< event >>))
               PROVE  pending' \in Gatherings(nextId') /\ ReplyInv'
    BY <2>5, <2>8, <2>9 DEF FedWell, fed
  <2>10. event.type = "tool_use" /\ event \in ToolUses(nextId) /\ Taken(LastCall, event)
    BY <2>5
  <2>11. reply' = written /\ parser' = p /\ pending' = Gathered(<< event >>)
    BY DEF GoesOn
  <2>12. Gathered(<< event >>) = [text |-> pending.text \/ Has(<< event >>, "text_delta"), calls |-> uses]
    BY <2>10, OneCalled, GatheredAre
  <2>13. pending'.calls = uses /\ pending'.text = pending.text
    <3>1. ~Has(<< event >>, "text_delta")
      BY <2>9, <2>10
    <3> QED BY <1>0, <2>11, <2>12, <3>1
  <2>14. /\ uses \in Seq(ToolUses(nextId)) /\ Len(uses) = n + 1 /\ uses[n + 1] = event
         /\ \A k \in 1..n : uses[k] = pending.calls[k]
    <3>1. << event >> \in Seq(ToolUses(nextId)) /\ Len(<< event >>) = 1 /\ << event >>[1] = event
      BY <2>10
    <3> QED BY <1>0, <2>3, <3>1
  <2> HIDE DEF uses
  <2>15. pending' \in Gatherings(nextId')
    <3>1. (pending.text \/ Has(<< event >>, "text_delta")) \in BOOLEAN
      OBVIOUS
    <3>2. [text |-> pending.text \/ Has(<< event >>, "text_delta"), calls |-> uses] \in Gatherings(nextId)
      BY <2>14, <3>1, GatheringIs
    <3> QED BY <2>11, <2>12, <3>2
  <2>16. /\ p \in T /\ p.block = NoBlock /\ p.reason = parser.reason
         /\ p.stopped = parser.stopped /\ p.text = parser.text /\ p.tool = TRUE
    <3>1. NoBlock \in Nat /\ <<>> \in PieceSeqs
      BY DEF NoBlock, PieceSeqs
    <3>2. p = [parser EXCEPT !.block = NoBlock, !.buffer = <<>>, !.tool = TRUE]
      BY <2>2, <2>10
    <3> HIDE DEF p
    <3> QED BY <2>2, <3>1, <3>2
  <2> HIDE DEF p, T, written
  <2>17. DOMAIN uses = 1..(n + 1) /\ uses # <<>>
    BY <2>3, <2>14, SeqIs
  <2>18. \A k \in DOMAIN uses : Taken(reply.calls[k], uses[k])
    <3> SUFFICES ASSUME NEW k \in DOMAIN uses PROVE Taken(reply.calls[k], uses[k])
      OBVIOUS
    <3>1. k \in 1..n \/ k = n + 1
      BY <2>3, <2>17
    <3>2. CASE k \in 1..n
      BY <2>2, <2>3, <2>14, <3>2
    <3>3. CASE k = n + 1
      BY <2>4, <2>10, <2>14, <3>3
    <3> QED BY <3>1, <3>2, <3>3
  <2>19. AnthropicInv'
    <3>1. parser' \in T /\ parser'.reason = reply'.reason /\ parser'.text = pending'.text
      BY <1>1, <2>2, <2>11, <2>13, <2>16
    <3>2. parser'.tool <=> pending'.calls # <<>>
      BY <2>11, <2>13, <2>16, <2>17
    <3>3. reply'.open = FALSE /\ Len(reply'.calls) = Len(pending'.calls)
      BY <1>1, <2>2, <2>11, <2>13, <2>14
    <3>4. /\ \A c \in DOMAIN reply'.calls : reply'.calls[c].named
          /\ \A c \in DOMAIN pending'.calls : Taken(reply'.calls[c], pending'.calls[c])
      BY <1>1, <2>2, <2>11, <2>13, <2>18
    <3>5. ~parser'.stopped /\ parser'.block = NoBlock
      BY <2>2, <2>11, <2>16
    <3> QED BY <3>1, <3>2, <3>3, <3>4, <3>5 DEF AnthropicInv, T
  <2> QED BY <1>3, <2>15, <2>19 DEF ReplyInv
<1> QED BY <1>0, <1>2, <1>3 DEF Providers


(* The flush makes calls and errors, nothing else.                         *)
LEMMA FlushKinds ==
  ASSUME NEW p
  PROVE  \A k \in DOMAIN FlushToolCalls(p) : FlushToolCalls(p)[k].type \in {"tool_use", "error"}
<1> DEFINE order == Passed(p.calls)
           event(k) == CallOrError(p.calls[order[k]].id, p.calls[order[k]].arguments)
           events == [k \in DOMAIN order |-> event(k)]
           error == ToolTruncatedError(TRUE)
<1>1. \A id, pieces : CallOrError(id, pieces).type \in {"tool_use", "error"}
  BY DEF CallOrError, ToolUse, ToolTruncatedError
<1>2. \A k \in DOMAIN events : events[k].type \in {"tool_use", "error"}
  BY <1>1
<1>3. \A k \in DOMAIN << error >> : << error >>[k].type \in {"tool_use", "error"}
  BY DEF ToolTruncatedError
<1>4. FlushToolCalls(p) = events \/ FlushToolCalls(p) = << error >>
  BY DEF FlushToolCalls
<1> HIDE DEF events, error
<1> QED BY <1>2, <1>3, <1>4

(* The end of the stream, as the OpenAI parser takes it.                   *)
Ends(p) == FlushToolCalls(p) \o << StopEvent >>

LEMMA OpenAIEnds ==
  ASSUME NEW n \in Nat, NEW calls \in Seq(WrittenCalls(n)), NEW p, p.calls \in Seq(HeldCalls(n)),
         SameCalls(calls, p.calls)
  PROVE  /\ ~Has(Ends(p), "raised")
         /\ ~Has(Ends(p), "error") => /\ Called(Ends(p)) \in Seq(ToolUses(n))
                                      /\ Whole(calls, Called(Ends(p)))
                                      /\ p.reason \in Truncation => p.text \/ Called(Ends(p)) # <<>>
<1> DEFINE flush == FlushToolCalls(p)
           events == Ends(p)
<1>1. \A k \in DOMAIN flush : flush[k].type \in {"tool_use", "error"}
  BY FlushKinds
<1>2. \E U : flush \in Seq(U)
  <2> DEFINE order == Passed(p.calls)
             error == ToolTruncatedError(TRUE)
             event(k) == CallOrError(p.calls[order[k]].id, p.calls[order[k]].arguments)
             made == [k \in DOMAIN order |-> event(k)]
             U == {event(k) : k \in DOMAIN order}
  <2>1. flush = made \/ flush = << error >>
    BY DEF FlushToolCalls
  <2>2. << error >> \in Seq({error})
    OBVIOUS
  <2>3. Len(order) \in Nat /\ DOMAIN order = 1..Len(order)
    BY PassedIs, SeqIs
  <2>4. made \in [1..Len(order) -> U]
    BY <2>3
  <2> HIDE DEF U
  <2>5. made \in Seq(U)
    BY <2>3, <2>4
  <2> HIDE DEF made, error, flush
  <2> QED BY <2>1, <2>2, <2>5
<1>3. PICK U : flush \in Seq(U)
  BY <1>2
<1>4. StopEvent.type = "stop"
  BY DEF StopEvent
<1>5. \A type : Has(events, type) <=> Has(flush, type) \/ type = "stop"
  BY <1>3, <1>4, EndedIs DEF Ends
<1> HIDE DEF events, flush
<1>6. ~Has(events, "raised")
  BY <1>1, <1>5 DEF Has
<1>7. ASSUME ~Has(events, "error")
      PROVE  /\ Called(events) = flush /\ flush \in Seq(ToolUses(n)) /\ Whole(calls, flush)
             /\ p.reason \in Truncation => p.text \/ flush # <<>>
  <2>1. ~Has(flush, "error")
    BY <1>5, <1>7
  <2>2. \A k \in DOMAIN flush : flush[k].type = "tool_use"
    BY <1>1, <2>1 DEF Has
  <2>3. Called(events) = flush
    BY <1>3, <1>4, <2>2, CalledBeforeEnd DEF events, flush, Ends
  <2>4. /\ flush \in Seq(ToolUses(n)) /\ Whole(calls, flush)
        /\ p.reason \in Truncation => p.text \/ flush # <<>>
    BY <2>1, FlushIs DEF flush
  <2> QED BY <2>3, <2>4
<1> QED BY <1>6, <1>7 DEF events

(* The reason to stop: the OpenAI parser gives the calls, the Anthropic    *)
(* one notes it.                                                           *)
LEMMA ReasonFed ==
  ASSUME StreamsInv, pc = "stream", reply.reason = NoReason, provider' = provider, nextId' = nextId,
         NEW reason \in {"stop", "length"}, NEW all
  PROVE  FedWell([reply EXCEPT !.reason = reason],
                 Feed(provider, parser, [kind |-> "reason", reason |-> reason, spent |-> all]))
<1> DEFINE written == [reply EXCEPT !.reason = reason]
           line == [kind |-> "reason", reason |-> reason, spent |-> all]
           fed == Feed(provider, parser, line)
           told == [parser EXCEPT !.reason = reason]
<1>0. /\ provider \in Providers /\ reply \in Written(nextId) /\ reply.calls \in Seq(WrittenCalls(nextId))
      /\ pending \in Gatherings(nextId) /\ pending.calls \in Seq(ToolUses(nextId)) /\ pending.text \in BOOLEAN
      /\ nextId \in Nat
  BY StreamIs
<1>1. /\ written.calls = reply.calls /\ written.reason = reason /\ written.open = reply.open
      /\ reason # NoReason /\ reason \in Reasons
  BY <1>0 DEF Written, NoReason, Reasons
<1> HIDE DEF written
<1>2. CASE provider = "openai"
  <2> DEFINE T == [calls : Seq(HeldCalls(nextId)), reason : Reasons, stopped : BOOLEAN, text : BOOLEAN]
             events == Ends(told)
             uses == Called(events)
             p == [told EXCEPT !.stopped = TRUE, !.calls = <<>>]
  <2>1. OpenAIInv
    BY <1>2, StreamIs
  <2>2. /\ parser \in T /\ ~parser.stopped /\ pending.calls = <<>> /\ parser.text = pending.text
        /\ SameCalls(reply.calls, parser.calls)
    BY <2>1 DEF OpenAIInv
  <2>3. /\ told \in T /\ told.stopped = FALSE /\ told.calls = parser.calls /\ told.text = parser.text
        /\ told.reason = reason
    BY <1>1, <2>2
  <2>4. fed = Fed(p, events)
    <3>1. fed = OpenAIStop(told)
      BY <1>2 DEF Feed, OpenAIFeed
    <3> HIDE DEF fed, told
    <3> QED BY <2>3, <3>1 DEF OpenAIStop, Ends
  <2> HIDE DEF told
  <2>5. /\ p \in T /\ p.stopped = TRUE /\ p.reason = reason
    <3>1. <<>> \in Seq(HeldCalls(nextId))
      OBVIOUS
    <3> QED BY <2>3, <3>1
  <2>6. told.calls \in Seq(HeldCalls(nextId)) /\ SameCalls(reply.calls, told.calls)
    BY <2>2, <2>3
  <2>10. ~Has(events, "raised")
    BY <1>0, <2>6, OpenAIEnds
  <2> HIDE DEF fed, events
  <2>11. fed.parser = p /\ fed.events = events
    BY <2>4 DEF Fed
  <2> SUFFICES ASSUME ~Has(events, "error"), GoesOn(written, p, Gathered(events))
               PROVE  pending' \in Gatherings(nextId') /\ ReplyInv'
    BY <2>10, <2>11 DEF FedWell, fed, written
  <2>13. /\ uses \in Seq(ToolUses(nextId)) /\ Whole(reply.calls, uses)
         /\ told.reason \in Truncation => told.text \/ uses # <<>>
    BY <1>0, <2>6, OpenAIEnds DEF events
  <2> HIDE DEF uses
  <2>15. reply' = written /\ parser' = p /\ pending' = Gathered(events)
    BY DEF GoesOn
  <2>16. Gathered(events) = [text |-> pending.text \/ Has(events, "text_delta"), calls |-> uses]
    <3>1. pending.calls \o uses = uses
      BY <2>2, <2>13, NothingMore
    <3> QED BY <3>1, GatheredAre DEF uses
  <2>17. Gathered(events) \in Gatherings(nextId)
    <3>1. (pending.text \/ Has(events, "text_delta")) \in BOOLEAN
      OBVIOUS
    <3> QED BY <2>13, <2>16, <3>1, GatheringIs
  <2>18. pending'.calls = uses /\ pending'.text = (pending.text \/ Has(events, "text_delta"))
    BY <2>15, <2>16
  <2>19. OpenAIInv'
    <3>1. parser' \in T /\ parser'.stopped = TRUE /\ reply'.reason # NoReason
      BY <1>1, <2>5, <2>15
    <3>2. Whole(reply'.calls, pending'.calls)
      BY <1>1, <2>13, <2>15, <2>18
    <3>3. reply'.reason \in Truncation => Spoke'
      BY <1>1, <2>2, <2>3, <2>13, <2>15, <2>18 DEF Spoke
    <3> QED BY <3>1, <3>2, <3>3 DEF OpenAIInv, T
  <2> QED BY <1>2, <2>15, <2>17, <2>19 DEF ReplyInv
<1>3. CASE provider = "anthropic"
  <2> DEFINE T == [block : Nat, buffer : PieceSeqs, reason : Reasons, stopped : BOOLEAN, text : BOOLEAN, tool : BOOLEAN]
             events == << UsageEvent(all) >>
  <2>1. AnthropicInv
    BY <1>3, StreamIs
  <2>2. parser \in T /\ ~parser.stopped
    BY <2>1 DEF AnthropicInv
  <2>3. /\ told \in T /\ told.block = parser.block /\ told.buffer = parser.buffer /\ told.reason = reason
        /\ told.stopped = parser.stopped /\ told.text = parser.text /\ told.tool = parser.tool
    BY <1>1, <2>2
  <2>4. fed = Fed(told, events)
    BY <1>3 DEF Feed, AnthropicFeed
  <2>5. Quiet(events) /\ ~Has(events, "text_delta")
    BY DEF Quiet, Has, UsageEvent
  <2> HIDE DEF fed, events, told
  <2>6. fed.parser = told /\ fed.events = events
    BY <2>4 DEF Fed
  <2>7. /\ ~Has(events, "raised")
        /\ Gathered(events).calls = pending.calls
        /\ Gathered(events).text = (pending.text \/ Has(events, "text_delta"))
        /\ Gathered(events) \in Gatherings(nextId)
    BY <1>0, <2>5, QuietIs
  <2> SUFFICES ASSUME GoesOn(written, told, Gathered(events))
               PROVE  pending' \in Gatherings(nextId') /\ ReplyInv'
    BY <2>6, <2>7 DEF FedWell, fed, written
  <2>8. reply' = written /\ parser' = told /\ pending' = Gathered(events)
    BY DEF GoesOn
  <2>9. pending'.calls = pending.calls /\ pending'.text = pending.text
    BY <1>0, <2>5, <2>7, <2>8
  <2>10. reply'.calls = reply.calls /\ reply'.reason = reason /\ reply'.open = reply.open /\ LastCall' = LastCall
    BY <1>1, <2>8 DEF LastCall
  <2>11. AnthropicInv'
    BY <2>1, <2>2, <2>3, <2>8, <2>9, <2>10 DEF AnthropicInv
  <2> QED BY <1>3, <2>7, <2>8, <2>11 DEF ReplyInv
<1> QED BY <1>0, <1>2, <1>3 DEF Providers


(* The end of the stream, as the Anthropic parser takes it: a block left   *)
(* open is an error, and so is an empty reply cut at its limit.            *)
LEMMA AnthropicEnds ==
  ASSUME StreamsInv, pc = "stream", provider = "anthropic"
  PROVE  LET stop == AnthropicStop(parser)
         IN  \/ Has(stop.events, "error") /\ ~Has(stop.events, "raised")
             \/ /\ Quiet(stop.events) /\ ~Has(stop.events, "text_delta") /\ ~reply.open
                /\ \/ parser.stopped /\ stop.parser = parser
                   \/ /\ stop.parser = [parser EXCEPT !.stopped = TRUE, !.block = NoBlock, !.buffer = <<>>]
                      /\ reply.reason \in Truncation => Spoke
<1> DEFINE T == [block : Nat, buffer : PieceSeqs, reason : Reasons, stopped : BOOLEAN, text : BOOLEAN, tool : BOOLEAN]
           stop == AnthropicStop(parser)
           p == [parser EXCEPT !.stopped = TRUE, !.block = NoBlock, !.buffer = <<>>]
           e(empty) == ToolTruncatedError(empty)
<1>0. reply.open \in BOOLEAN /\ reply.calls \in Seq(WrittenCalls(nextId)) /\ pending.calls \in Seq(ToolUses(nextId))
  BY StreamIs
<1>1. AnthropicInv
  BY StreamIs
<1>2. \A x : << x >> \in Seq({x})
  OBVIOUS
<1>3. \A empty : LET events == << e(empty) >> \o << StopEvent >> IN Has(events, "error") /\ ~Has(events, "raised")
  <2> TAKE empty
  <2>1. Has(<< e(empty) >>, "error") /\ ~Has(<< e(empty) >>, "raised") /\ StopEvent.type = "stop"
    BY DEF Has, ToolTruncatedError, StopEvent
  <2> HIDE DEF e
  <2> QED BY <1>2, <2>1, EndedIs
<1>4. Quiet(<< StopEvent >>) /\ ~Has(<< StopEvent >>, "text_delta") /\ Quiet(<<>>) /\ ~Has(<<>>, "text_delta")
  BY DEF Quiet, Has, StopEvent
<1> HIDE DEF e
<1>5. CASE parser.stopped
  <2>1. stop = [parser |-> parser, events |-> <<>>]
    BY <1>5 DEF AnthropicStop, Fed
  <2>2. ~reply.open
    BY <1>1, <1>5 DEF AnthropicInv
  <2> HIDE DEF stop
  <2>3. stop.parser = parser /\ stop.events = <<>>
    BY <2>1
  <2> QED BY <1>4, <1>5, <2>2, <2>3 DEF stop
<1>6. CASE ~parser.stopped /\ parser.block # NoBlock
  <2>1. stop = [parser |-> p, events |-> << e(FALSE) >> \o << StopEvent >>]
    BY <1>6 DEF AnthropicStop, Fed, e
  <2> HIDE DEF stop, p
  <2>2. stop.events = << e(FALSE) >> \o << StopEvent >>
    BY <2>1
  <2> QED BY <1>3, <2>2 DEF stop
<1>7. CASE ~parser.stopped /\ parser.block = NoBlock /\ parser.reason \in Truncation /\ ~parser.text /\ ~parser.tool
  <2>1. stop = [parser |-> p, events |-> << e(TRUE) >> \o << StopEvent >>]
    BY <1>7 DEF AnthropicStop, Fed, e
  <2> HIDE DEF stop, p
  <2>2. stop.events = << e(TRUE) >> \o << StopEvent >>
    BY <2>1
  <2> QED BY <1>3, <2>2 DEF stop
<1>8. CASE ~parser.stopped /\ parser.block = NoBlock /\ ~(parser.reason \in Truncation /\ ~parser.text /\ ~parser.tool)
  <2>1. stop = [parser |-> p, events |-> <<>> \o << StopEvent >>]
    BY <1>8 DEF AnthropicStop, Fed
  <2>2. <<>> \o << StopEvent >> = << StopEvent >>
    OBVIOUS
  <2>3. ~reply.open
    <3> SUFFICES ASSUME reply.open PROVE FALSE
      BY <1>0
    <3>1. parser.block = LastCall.id /\ Len(reply.calls) = Len(pending.calls) + 1
      BY <1>1 DEF AnthropicInv
    <3>2. Len(pending.calls) \in Nat /\ DOMAIN reply.calls = 1..Len(reply.calls)
      BY <1>0, SeqIs
    <3>3. LastCall \in WrittenCalls(nextId)
      BY <1>0, <3>1, <3>2 DEF LastCall
    <3> QED BY <1>8, <3>1, <3>3 DEF WrittenCalls, Ids, NoBlock
  <2>4. reply.reason \in Truncation => Spoke
    BY <1>1, <1>8 DEF AnthropicInv, Spoke
  <2> HIDE DEF stop
  <2>5. stop.parser = p /\ stop.events = << StopEvent >>
    BY <2>1, <2>2
  <2> QED BY <1>4, <2>3, <2>4, <2>5 DEF stop
<1> QED BY <1>5, <1>6, <1>7, <1>8

LEMMA DoneFed ==
  ASSUME StreamsInv, pc = "stream", reply.reason # NoReason, provider' = provider, nextId' = nextId
  PROVE  FedWell([reply EXCEPT !.done = TRUE], Feed(provider, parser, [kind |-> "done"]))
<1> DEFINE written == [reply EXCEPT !.done = TRUE]
           line == [kind |-> "done"]
           fed == Feed(provider, parser, line)
<1>0. /\ provider \in Providers /\ reply \in Written(nextId) /\ reply.calls \in Seq(WrittenCalls(nextId))
      /\ pending \in Gatherings(nextId) /\ pending.calls \in Seq(ToolUses(nextId)) /\ pending.text \in BOOLEAN
  BY StreamIs
<1>1. written.calls = reply.calls /\ written.reason = reply.reason /\ written.open = reply.open
  BY <1>0 DEF Written
<1> HIDE DEF written
<1>2. CASE provider = "openai"
  <2>1. parser.stopped
    BY <1>2, StreamIs DEF OpenAIInv
  <2>2. fed = Fed(parser, <<>>)
    BY <1>2, <2>1 DEF Feed, OpenAIFeed, OpenAIStop
  <2>3. Quiet(<<>>) /\ ~Has(<<>>, "text_delta")
    BY DEF Quiet, Has
  <2>4. FedWell(written, Fed(parser, <<>>))
    BY <1>1, <1>2, <2>3, OpenAIQuiet
  <2> QED BY <2>2, <2>4 DEF written
<1>3. CASE provider = "anthropic"
  <2> DEFINE T == [block : Nat, buffer : PieceSeqs, reason : Reasons, stopped : BOOLEAN, text : BOOLEAN, tool : BOOLEAN]
             stop == AnthropicStop(parser)
             p == [parser EXCEPT !.stopped = TRUE, !.block = NoBlock, !.buffer = <<>>]
  <2>1. AnthropicInv /\ parser \in T
    BY <1>3, StreamIs DEF AnthropicInv
  <2>2. fed = stop
    BY <1>3 DEF Feed, AnthropicFeed
  <2> HIDE DEF stop, fed
  <2>3. CASE Has(stop.events, "error") /\ ~Has(stop.events, "raised")
    BY <2>2, <2>3 DEF FedWell, fed
  <2>4. CASE /\ Quiet(stop.events) /\ ~Has(stop.events, "text_delta") /\ ~reply.open
             /\ \/ parser.stopped /\ stop.parser = parser
                \/ /\ stop.parser = p
                   /\ reply.reason \in Truncation => Spoke
    <3>1. /\ ~Has(stop.events, "raised")
          /\ Gathered(stop.events).calls = pending.calls
          /\ Gathered(stop.events).text = (pending.text \/ Has(stop.events, "text_delta"))
          /\ Gathered(stop.events) \in Gatherings(nextId)
      BY <1>0, <2>4, QuietIs
    <3> SUFFICES ASSUME GoesOn(written, stop.parser, Gathered(stop.events))
                 PROVE  pending' \in Gatherings(nextId') /\ ReplyInv'
      BY <2>2, <3>1 DEF FedWell, fed, written
    <3>2. reply' = written /\ parser' = stop.parser /\ pending' = Gathered(stop.events)
      BY DEF GoesOn
    <3>3. pending'.calls = pending.calls /\ pending'.text = pending.text
      BY <1>0, <2>4, <3>1, <3>2
    <3>4. reply'.calls = reply.calls /\ reply'.reason = reply.reason /\ reply'.open = reply.open /\ LastCall' = LastCall
      BY <1>1, <3>2 DEF LastCall
    <3>5. CASE parser.stopped /\ stop.parser = parser
      <4>1. AnthropicInv'
        BY <2>1, <3>2, <3>3, <3>4, <3>5 DEF AnthropicInv, Spoke
      <4> QED BY <1>3, <3>1, <3>2, <4>1 DEF ReplyInv
    <3>6. CASE stop.parser = p /\ (reply.reason \in Truncation => Spoke)
      <4>1. /\ p \in T /\ p.block = NoBlock /\ p.reason = parser.reason
            /\ p.stopped = TRUE /\ p.text = parser.text /\ p.tool = parser.tool
        <5>1. NoBlock \in Nat /\ <<>> \in PieceSeqs
          BY DEF NoBlock, PieceSeqs
        <5> QED BY <2>1, <5>1
      <4> HIDE DEF p
      <4>2. AnthropicInv'
        BY <2>1, <2>4, <3>2, <3>3, <3>4, <3>6, <4>1 DEF AnthropicInv, Spoke
      <4> QED BY <1>3, <3>1, <3>2, <4>2 DEF ReplyInv
    <3> QED BY <2>4, <3>5, <3>6
  <2> QED BY <1>3, <2>3, <2>4, AnthropicEnds DEF stop
<1> QED BY <1>0, <1>2, <1>3 DEF Providers

LEMMA NoiseFed ==
  ASSUME StreamsInv, pc = "stream", provider' = provider, nextId' = nextId
  PROVE  FedWell(reply, Feed(provider, parser, [kind |-> "noise"]))
<1> DEFINE fed == Feed(provider, parser, [kind |-> "noise"])
<1>1. CASE provider = "openai"
  <2>1. fed = Fed(parser, <<>>)
    BY <1>1 DEF Feed, OpenAIFeed
  <2>2. Quiet(<<>>) /\ ~Has(<<>>, "text_delta")
    BY DEF Quiet, Has
  <2>3. FedWell(reply, Fed(parser, <<>>))
    BY <1>1, <2>2, OpenAIQuiet
  <2> QED BY <2>1, <2>3
<1>2. CASE provider = "anthropic"
  <2>1. fed = Fed(parser, << NotJson >>)
    BY <1>2 DEF Feed, AnthropicFeed
  <2> DEFINE events == << NotJson >>
  <2>2. events \in Seq({NotJson}) /\ (\A k \in DOMAIN events : events[k].type # "tool_use") /\ Has(events, "raised")
    BY DEF NotJson, Has
  <2> HIDE DEF fed, events
  <2>3. Called(events) = <<>>
    BY <2>2, NoneCalled
  <2>4. fed.events = events
    BY <2>1 DEF Fed, events
  <2> QED BY <2>2, <2>3, <2>4 DEF FedWell, fed
<1>3. provider \in Providers
  BY StreamIs
<1> QED BY <1>1, <1>2, <1>3 DEF Providers

(* The usage on a line of its own.                                         *)
LEMMA UsageFed ==
  ASSUME StreamsInv, pc = "stream", provider = "openai", provider' = provider, nextId' = nextId, NEW all
  PROVE  FedWell([reply EXCEPT !.done = TRUE], Feed(provider, parser, [kind |-> "usage", spent |-> all]))
<1> DEFINE written == [reply EXCEPT !.done = TRUE]
           events == << UsageEvent(all) >>
<1>1. reply \in Written(nextId)
  BY StreamIs
<1>2. written.calls = reply.calls /\ written.reason = reply.reason
  BY <1>1 DEF Written
<1>3. Feed(provider, parser, [kind |-> "usage", spent |-> all]) = Fed(parser, events)
  BY DEF Feed, OpenAIFeed
<1>4. Quiet(events) /\ ~Has(events, "text_delta")
  BY DEF Quiet, Has, UsageEvent
<1> HIDE DEF written, events
<1>5. FedWell(written, Fed(parser, events))
  BY <1>2, <1>4, OpenAIQuiet
<1> QED BY <1>3, <1>5 DEF written


-----------------------------------------------------------------------------
(* The steps.                                                              *)
LEMMA WriteTextKeeps == ASSUME StreamsInv, WriteText PROVE StreamsInv'
<1> DEFINE written == [reply EXCEPT !.text = TRUE]
           line == [kind |-> "text"]
<1>1. pc = "stream" /\ reply.reason = NoReason /\ ~reply.open /\ Line(written, line) /\ nextId' = nextId
  BY DEF WriteText, Writing, Gathering
<1>2. provider' = provider
  BY <1>1 DEF Line
<1>3. written \in Written(nextId') /\ written.calls = reply.calls /\ IdsIn(reply.calls) \cap AllUseIds(conv) = {}
  BY <1>1, StreamIs DEF Written
<1>4. FedWell(written, Feed(provider, parser, line))
  BY <1>1, <1>2, TextFed
<1> HIDE DEF written, line
<1> QED BY <1>1, <1>3, <1>4, LineKeeps

LEMMA IdsKnown ==
  ASSUME TypeOK, NEW id \in AllUseIds(conv)
  PROVE  id \in Ids(nextId)
<1>1. conv \in Chains(Fragments, Ids(nextId), Ids(nextId))
  BY DEF TypeOK, Conversations
<1>2. PICK i \in DOMAIN conv : id \in UseIds(conv[i])
  <2>1. DOMAIN conv = 1..Len(conv)
    BY <1>1, SeqIs DEF Chains
  <2> QED BY <2>1 DEF AllUseIds, ToSet
<1>3. PICK b \in ToSet(conv[i].content) : IsUse(b) /\ b.id = id
  BY <1>2 DEF UseIds
<1>4. b \in BlocksOf(Fragments, Ids(nextId), Ids(nextId))
  <2>1. conv[i] \in Messages(Fragments, Ids(nextId), Ids(nextId))
    BY <1>1, SeqIs DEF Chains
  <2>2. conv[i].content \in Seq(BlocksOf(Fragments, Ids(nextId), Ids(nextId)))
    BY <2>1 DEF Messages
  <2> QED BY <2>2, SeqIs DEF ToSet
<1> QED BY <1>3, <1>4 DEF BlocksOf, TextBlocks, IdBlocks, IsUse

LEMMA OpenCallKeeps == ASSUME StreamsInv, OpenCall PROVE StreamsInv'
<1>1. pc = "stream" /\ reply.reason = NoReason /\ ~reply.open
  BY DEF OpenCall, Writing, Gathering
<1>2. /\ reply \in Written(nextId) /\ reply.calls \in Seq(WrittenCalls(nextId)) /\ nextId \in Nat \ {0}
      /\ IdsIn(reply.calls) \cap AllUseIds(conv) = {} /\ TypeOK /\ provider \in Providers
  BY <1>1, StreamIs DEF StreamsInv
<1>3. PICK full \in 0..MaxPieces, named \in BOOLEAN,
           id \in {nextId} \cup {reply.calls[c].id : c \in DOMAIN reply.calls} :
        /\ provider = "anthropic" => named
        /\ Line([reply EXCEPT !.calls = Append(@, [id |-> id, named |-> named, sent |-> 0, full |-> full]),
                              !.open = (provider = "anthropic")],
                [kind |-> "open", id |-> id, named |-> named])
        /\ nextId' = IF id = nextId THEN nextId + 1 ELSE nextId
  BY DEF OpenCall
<1> DEFINE call == [id |-> id, named |-> named, sent |-> 0, full |-> full]
           written == [reply EXCEPT !.calls = Append(@, call), !.open = (provider = "anthropic")]
           line == [kind |-> "open", id |-> call.id, named |-> call.named]
<1>4. Line(written, line) /\ call.sent = 0 /\ call.id = id /\ (provider = "anthropic" => call.named)
  BY <1>3
<1>5. provider' = provider /\ nextId' \in {nextId, nextId + 1}
  BY <1>3, <1>4 DEF Line
<1>6. id \in Ids(nextId')
  <2>1. CASE id = nextId
    BY <1>2, <1>3, <2>1 DEF Ids
  <2>2. CASE id # nextId
    <3>1. PICK c \in DOMAIN reply.calls : id = reply.calls[c].id
      BY <2>2
    <3>2. reply.calls[c] \in WrittenCalls(nextId)
      BY <1>2, SeqIs
    <3> QED BY <1>3, <2>2, <3>1, <3>2 DEF WrittenCalls
  <2> QED BY <2>1, <2>2
<1>7. call \in WrittenCalls(nextId')
  <2>1. full \in Nat
    BY StreamsAssumption
  <2>2. 0 <= full
    BY <2>1
  <2> QED BY <1>6, <2>1, <2>2 DEF WrittenCalls
<1>8. id \notin AllUseIds(conv)
  <2>1. CASE id = nextId
    <3>1. nextId \notin Ids(nextId)
      BY <1>2 DEF Ids
    <3> QED BY <1>2, <2>1, <3>1, IdsKnown
  <2>2. CASE id # nextId
    BY <1>2, <2>2 DEF IdsIn
  <2> QED BY <2>1, <2>2
<1> HIDE DEF call
<1>9. /\ Append(reply.calls, call) \in Seq(WrittenCalls(nextId'))
      /\ IdsIn(Append(reply.calls, call)) = IdsIn(reply.calls) \cup {id}
  <2>1. reply.calls \in Seq(WrittenCalls(nextId')) /\ Len(reply.calls) \in Nat /\ DOMAIN reply.calls = 1..Len(reply.calls)
    BY <1>2, <1>5, NextTypes, SeqIs
  <2> DEFINE s == Append(reply.calls, call)
             n == Len(reply.calls)
  <2>2. /\ s \in Seq(WrittenCalls(nextId')) /\ DOMAIN s = 1..(n + 1) /\ s[n + 1] = call
        /\ \A k \in 1..n : s[k] = reply.calls[k]
    BY <1>7, <2>1, AppendProperties
  <2> HIDE DEF s, n
  <2>3. n \in Nat /\ DOMAIN reply.calls = 1..n
    BY <2>1 DEF n
  <2>4. \A k : k \in DOMAIN s <=> k \in DOMAIN reply.calls \/ k = n + 1
    BY <2>2, <2>3
  <2>5. \A k \in DOMAIN reply.calls : s[k] = reply.calls[k]
    BY <2>2, <2>3
  <2>6. \A x : x \in IdsIn(s) <=> x \in IdsIn(reply.calls) \/ x = id
    BY <1>4, <2>2, <2>4, <2>5 DEF IdsIn
  <2> QED BY <2>2, <2>6 DEF s
<1>10. written \in Written(nextId') /\ written.calls = Append(reply.calls, call)
  <2>1. (provider = "anthropic") \in BOOLEAN /\ reply \in Written(nextId')
    BY <1>2, <1>5, NextTypes
  <2> QED BY <1>9, <2>1 DEF Written
<1>11. IdsIn(written.calls) \cap AllUseIds(conv) = {}
  BY <1>2, <1>8, <1>9, <1>10
<1>12. FedWell(written, Feed(provider, parser, line))
  BY <1>1, <1>4, <1>5, <1>7, OpenFed
<1> HIDE DEF written, line
<1> QED BY <1>1, <1>4, <1>5, <1>10, <1>11, <1>12, LineKeeps

LEMMA SendPieceKeeps == ASSUME StreamsInv, SendPiece PROVE StreamsInv'
<1>1. pc = "stream" /\ reply.reason = NoReason /\ nextId' = nextId
  BY DEF SendPiece, Writing, Gathering
<1>2. /\ reply \in Written(nextId) /\ reply.calls \in Seq(WrittenCalls(nextId))
      /\ IdsIn(reply.calls) \cap AllUseIds(conv) = {}
  BY <1>1, StreamIs
<1> DEFINE piece(c) == IF reply.calls[c].sent + 1 = reply.calls[c].full THEN "end" ELSE "part"
           line(c) == [kind |-> "piece", index |-> c, piece |-> piece(c)]
<1>3. PICK c \in DOMAIN reply.calls :
        /\ reply.calls[c].sent < reply.calls[c].full
        /\ provider = "anthropic" => reply.open /\ c = Len(reply.calls)
        /\ Line([reply EXCEPT !.calls[c].sent = @ + 1], line(c))
  BY DEF SendPiece
<1>4. provider' = provider
  BY <1>3 DEF Line
<1>5. FedWell([reply EXCEPT !.calls[c].sent = @ + 1], Feed(provider, parser, line(c)))
  BY <1>1, <1>3, <1>4, PieceFed
<1> HIDE DEF line
<1> DEFINE written == OnePieceMore(reply, c)
<1>6. Line(written, line(c)) /\ FedWell(written, Feed(provider, parser, line(c)))
  BY <1>3, <1>5 DEF OnePieceMore
<1> HIDE DEF written
<1>7. /\ written \in Written(nextId) /\ written.calls \in Seq(WrittenCalls(nextId)) /\ Len(written.calls) = Len(reply.calls)
      /\ written.calls[c] = [reply.calls[c] EXCEPT !.sent = @ + 1]
      /\ \A k \in DOMAIN reply.calls : k # c => written.calls[k] = reply.calls[k]
  BY <1>2, <1>3, PieceWritten DEF written
<1>8. IdsIn(written.calls) = IdsIn(reply.calls)
  <2>1. DOMAIN written.calls = DOMAIN reply.calls
    BY <1>2, <1>7, SeqIs
  <2>2. written.calls[c].id = reply.calls[c].id
    <3>1. reply.calls[c] \in WrittenCalls(nextId)
      BY <1>2, SeqIs
    <3> QED BY <1>7, <3>1 DEF WrittenCalls
  <2>3. \A k \in DOMAIN reply.calls : written.calls[k].id = reply.calls[k].id
    BY <1>7, <2>2
  <2> QED BY <2>1, <2>3 DEF IdsIn
<1> QED BY <1>1, <1>2, <1>6, <1>7, <1>8, LineKeeps

LEMMA CloseCallKeeps == ASSUME StreamsInv, CloseCall PROVE StreamsInv'
<1> DEFINE written == [reply EXCEPT !.open = FALSE]
           line == [kind |-> "close"]
<1>1. pc = "stream" /\ reply.reason = NoReason /\ reply.open /\ Line(written, line) /\ nextId' = nextId
  BY DEF CloseCall, Writing, Gathering
<1>2. provider' = provider
  BY <1>1 DEF Line
<1>3. written \in Written(nextId') /\ written.calls = reply.calls /\ IdsIn(reply.calls) \cap AllUseIds(conv) = {}
  BY <1>1, StreamIs DEF Written
<1>4. FedWell(written, Feed(provider, parser, line))
  BY <1>1, <1>2, CloseFed
<1> HIDE DEF written, line
<1> QED BY <1>1, <1>3, <1>4, LineKeeps

LEMMA StopReplyKeeps == ASSUME StreamsInv, StopReply PROVE StreamsInv'
<1>1. pc = "stream" /\ reply.reason = NoReason /\ nextId' = nextId
  BY DEF StopReply, Writing, Gathering
<1>2. PICK reason \in {"stop", "length"}, all \in BOOLEAN :
        Line([reply EXCEPT !.reason = reason], [kind |-> "reason", reason |-> reason, spent |-> all])
  BY DEF StopReply
<1> DEFINE written == [reply EXCEPT !.reason = reason]
           line == [kind |-> "reason", reason |-> reason, spent |-> all]
<1>3. provider' = provider
  BY <1>2 DEF Line
<1>4. written \in Written(nextId') /\ written.calls = reply.calls /\ IdsIn(reply.calls) \cap AllUseIds(conv) = {}
  BY <1>1, StreamIs DEF Written, Reasons
<1>5. Line(written, line) /\ FedWell(written, Feed(provider, parser, line))
  BY <1>1, <1>2, <1>3, ReasonFed
<1> HIDE DEF written, line
<1> QED BY <1>1, <1>4, <1>5, LineKeeps

LEMMA SendUsageKeeps == ASSUME StreamsInv, SendUsage PROVE StreamsInv'
<1>1. pc = "stream" /\ provider = "openai" /\ nextId' = nextId
  BY DEF SendUsage, Gathering
<1>2. PICK all \in BOOLEAN : Line([reply EXCEPT !.done = TRUE], [kind |-> "usage", spent |-> all])
  BY DEF SendUsage
<1> DEFINE written == [reply EXCEPT !.done = TRUE]
           line == [kind |-> "usage", spent |-> all]
<1>3. provider' = provider
  BY <1>2 DEF Line
<1>4. written \in Written(nextId') /\ written.calls = reply.calls /\ IdsIn(reply.calls) \cap AllUseIds(conv) = {}
  BY <1>1, StreamIs DEF Written
<1>5. Line(written, line) /\ FedWell(written, Feed(provider, parser, line))
  BY <1>1, <1>2, <1>3, UsageFed
<1> HIDE DEF written, line
<1> QED BY <1>1, <1>4, <1>5, LineKeeps

LEMMA SendDoneKeeps == ASSUME StreamsInv, SendDone PROVE StreamsInv'
<1> DEFINE written == [reply EXCEPT !.done = TRUE]
           line == [kind |-> "done"]
<1>1. pc = "stream" /\ reply.reason # NoReason /\ Line(written, line) /\ nextId' = nextId
  BY DEF SendDone, Gathering
<1>2. provider' = provider
  BY <1>1 DEF Line
<1>3. written \in Written(nextId') /\ written.calls = reply.calls /\ IdsIn(reply.calls) \cap AllUseIds(conv) = {}
  BY <1>1, StreamIs DEF Written
<1>4. FedWell(written, Feed(provider, parser, line))
  BY <1>1, <1>2, DoneFed
<1> HIDE DEF written, line
<1> QED BY <1>1, <1>3, <1>4, LineKeeps

LEMMA SendNoiseKeeps == ASSUME StreamsInv, SendNoise PROVE StreamsInv'
<1> DEFINE line == [kind |-> "noise"]
<1>1. pc = "stream" /\ Line(reply, line) /\ nextId' = nextId
  BY DEF SendNoise, Writing, Gathering
<1>2. provider' = provider
  BY <1>1 DEF Line
<1>3. reply \in Written(nextId') /\ IdsIn(reply.calls) \cap AllUseIds(conv) = {}
  BY <1>1, StreamIs
<1>4. FedWell(reply, Feed(provider, parser, line))
  BY <1>1, <1>2, NoiseFed
<1> HIDE DEF line
<1> QED BY <1>1, <1>3, <1>4, LineKeeps


(* What is left in the parser when the stream is over.                     *)
LEMMA FinishedIs ==
  ASSUME StreamsInv, pc = "stream", ~Has(Finished(provider, parser), "error")
  PROVE  LET g == Gathered(Finished(provider, parser))
         IN  /\ g \in Gatherings(nextId) /\ Whole(reply.calls, g.calls)
             /\ reply.reason \in Truncation => g.text \/ g.calls # <<>>
<1> DEFINE events == Finished(provider, parser)
           g == Gathered(events)
<1>0. /\ provider \in Providers /\ reply.calls \in Seq(WrittenCalls(nextId)) /\ nextId \in Nat
      /\ pending \in Gatherings(nextId) /\ pending.calls \in Seq(ToolUses(nextId)) /\ pending.text \in BOOLEAN
  BY StreamIs
<1>1. CASE provider = "openai" /\ ~parser.stopped
  <2>1. OpenAIInv
    BY <1>1, StreamIs
  <2>2. /\ pending.calls = <<>> /\ parser.text = pending.text /\ reply.reason = NoReason
        /\ SameCalls(reply.calls, parser.calls) /\ parser.calls \in Seq(HeldCalls(nextId))
    BY <1>1, <2>1 DEF OpenAIInv
  <2>3. events = Ends(parser)
    BY <1>1 DEF Finished, OpenAIStop, Ends, Fed
  <2> HIDE DEF events
  <2> DEFINE uses == Called(events)
  <2>4. uses \in Seq(ToolUses(nextId)) /\ Whole(reply.calls, uses)
    BY <1>0, <2>2, <2>3, OpenAIEnds DEF events
  <2>5. pending.calls \o uses = uses
    BY <2>2, <2>4, NothingMore
  <2>6. g = [text |-> pending.text \/ Has(events, "text_delta"), calls |-> uses]
    BY <2>5, GatheredAre
  <2> HIDE DEF uses
  <2>7. g \in Gatherings(nextId)
    <3>1. (pending.text \/ Has(events, "text_delta")) \in BOOLEAN
      OBVIOUS
    <3> QED BY <2>4, <2>6, <3>1, GatheringIs
  <2>8. reply.reason \notin Truncation
    BY <2>2 DEF Truncation, NoReason
  <2>9. g.calls = uses
    BY <2>6
  <2> HIDE DEF g
  <2> QED BY <2>4, <2>7, <2>8, <2>9 DEF g, events
<1>2. ASSUME Quiet(events), ~Has(events, "text_delta"), Whole(reply.calls, pending.calls),
             reply.reason \in Truncation => Spoke
      PROVE  /\ g \in Gatherings(nextId) /\ Whole(reply.calls, g.calls)
             /\ reply.reason \in Truncation => g.text \/ g.calls # <<>>
  <2> HIDE DEF events
  <2>1. g.calls = pending.calls /\ g.text = (pending.text \/ Has(events, "text_delta")) /\ g \in Gatherings(nextId)
    BY <1>0, <1>2, QuietIs
  <2> HIDE DEF g
  <2> QED BY <1>0, <1>2, <2>1 DEF Spoke
<1>3. CASE provider = "openai" /\ parser.stopped
  <2>1. Whole(reply.calls, pending.calls) /\ (reply.reason \in Truncation => Spoke)
    BY <1>3, StreamIs DEF OpenAIInv
  <2>2. events = <<>>
    BY <1>3 DEF Finished, OpenAIStop, Fed
  <2>3. Quiet(<<>>) /\ ~Has(<<>>, "text_delta")
    BY DEF Quiet, Has
  <2> HIDE DEF g, events
  <2> QED BY <1>2, <2>1, <2>2, <2>3 DEF g, events
<1>4. CASE provider = "anthropic"
  <2>1. AnthropicInv
    BY <1>4, StreamIs
  <2>2. events = AnthropicStop(parser).events
    BY <1>4 DEF Finished
  <2>3. Quiet(events) /\ ~Has(events, "text_delta") /\ ~reply.open /\ (parser.stopped \/ (reply.reason \in Truncation => Spoke))
    BY <1>4, <2>2, AnthropicEnds
  <2>4. reply.reason \in Truncation => Spoke
    BY <2>1, <2>3 DEF AnthropicInv
  <2>5. Len(reply.calls) = Len(pending.calls) /\ \A k \in DOMAIN pending.calls : Taken(reply.calls[k], pending.calls[k])
    BY <2>1, <2>3 DEF AnthropicInv
  <2>6. DOMAIN reply.calls = DOMAIN pending.calls
    BY <1>0, <2>5, SeqIs
  <2>7. Whole(reply.calls, pending.calls)
    BY <2>5, <2>6 DEF Whole, Taken
  <2> HIDE DEF g, events
  <2> QED BY <1>2, <2>3, <2>4, <2>7 DEF g, events
<1> QED BY <1>0, <1>1, <1>3, <1>4 DEF Providers

LEMMA CloseKeeps == ASSUME StreamsInv, Close PROVE StreamsInv'
<1> DEFINE events == Finished(provider, parser)
           g == Gathered(events)
           blocks == Assembled(g)
           msg == AssistantMessage(blocks)
<1>1. pc = "stream" /\ UNCHANGED <<provider, nextId>>
  BY DEF Close, Gathering
<1>2. /\ TypeOK /\ ChainInv /\ RequestPaired /\ reply.calls \in Seq(WrittenCalls(nextId)) /\ nextId \in Nat
      /\ Settled(conv) /\ conv \in Chains(Fragments, Ids(nextId), Ids(nextId)) /\ conv \in Conversations(nextId)
      /\ IdsIn(reply.calls) \cap AllUseIds(conv) = {}
  BY <1>1, StreamIs DEF StreamsInv, ChainInv, TypeOK, Conversations
<1>3. CASE Truncated
  BY <1>1, <1>3, TruncatedKeeps
<1>4. ASSUME ~Has(events, "error")
      PROVE  /\ g \in Gatherings(nextId) /\ Whole(reply.calls, g.calls)
             /\ reply.reason \in Truncation => g.text \/ g.calls # <<>>
             /\ blocks = <<>> <=> ~g.text /\ g.calls = <<>>
             /\ msg \in Messages(Fragments, Ids(nextId), Ids(nextId)) /\ msg.role = "assistant"
             /\ msg.content = blocks /\ ResultIds(msg) = {} /\ UseIds(msg) = IdsIn(g.calls)
  <2>1. /\ g \in Gatherings(nextId) /\ Whole(reply.calls, g.calls)
        /\ reply.reason \in Truncation => g.text \/ g.calls # <<>>
    BY <1>1, <1>4, FinishedIs
  <2> HIDE DEF g
  <2>2. /\ blocks = <<>> <=> ~g.text /\ g.calls = <<>>
        /\ msg \in Messages(Fragments, Ids(nextId), Ids(nextId)) /\ msg.role = "assistant"
        /\ msg.content = blocks /\ ResultIds(msg) = {} /\ UseIds(msg) = IdsIn(g.calls)
    BY <2>1, AssembledIs
  <2> QED BY <2>1, <2>2
<1> HIDE DEF g, blocks, msg, events
<1>5. CASE /\ ~Has(events, "error") /\ blocks = <<>> /\ pc' = "silent"
           /\ UNCHANGED <<conv, request, reply, parser, pending, tries, streams>>
  <2>1. ~g.text /\ g.calls = <<>> /\ reply.reason \notin Truncation /\ Whole(reply.calls, g.calls)
    BY <1>4, <1>5
  <2>2. \A c \in DOMAIN reply.calls : ~reply.calls[c].named
    BY <2>1 DEF Whole
  <2>3. NeverSilent'
    BY <1>5, <2>1, <2>2 DEF NeverSilent
  <2>4. TypeOK'
    BY <1>1, <1>2, <1>5 DEF TypeOK
  <2>5. ReplyInv' /\ RecordedWhole'
    BY <1>5 DEF ReplyInv, RecordedWhole
  <2>6. ChainInv'
    BY <1>2, <1>5 DEF ChainInv
  <2>7. RequestPaired'
    BY <1>1, <1>2, <1>5 DEF RequestPaired
  <2> QED BY <2>3, <2>4, <2>5, <2>6, <2>7 DEF StreamsInv
<1>6. CASE /\ ~Has(events, "error") /\ blocks # <<>>
           /\ conv' = AppendMessage(conv, msg)
           /\ pc' = IF g.calls = <<>> THEN "idle" ELSE "tools"
           /\ pending' = [NoPending EXCEPT !.calls = g.calls]
           /\ UNCHANGED <<request, reply, parser, tries, streams>>
  <2>1. /\ g \in Gatherings(nextId) /\ Whole(reply.calls, g.calls)
        /\ msg \in Messages(Fragments, Ids(nextId), Ids(nextId)) /\ msg.role = "assistant"
        /\ msg.content # <<>> /\ ResultIds(msg) = {} /\ UseIds(msg) = IdsIn(g.calls)
    BY <1>4, <1>6
  <2>2. pending'.calls = g.calls /\ pending' \in Gatherings(nextId) /\ g.calls \in Seq(ToolUses(nextId))
    BY <1>6, <2>1 DEF NoPending, Gatherings
  <2>3. IdsIn(g.calls) \subseteq IdsIn(reply.calls)
    <3> SUFFICES ASSUME NEW k \in DOMAIN g.calls PROVE \E c \in DOMAIN reply.calls : reply.calls[c].id = g.calls[k].id
      BY DEF IdsIn
    <3> QED BY <2>1 DEF Whole, Taken
  <2>4. UseIds(msg) \cap AllUseIds(conv) = {}
    BY <1>2, <2>1, <2>3
  <2>5. Repairable(conv') /\ IdsIn(g.calls) \subseteq Unanswered(conv')
    <3>1. Repairable(AppendMessage(conv, msg)) /\ UseIds(msg) \subseteq Unanswered(AppendMessage(conv, msg))
      BY <1>2, <2>1, <2>4, AssistantRepairable
    <3> QED BY <1>6, <2>1, <3>1
  <2>6. conv' \in Conversations(nextId)
    BY <1>2, <1>6, <2>1, AppendIs DEF Conversations
  <2>7. TypeOK'
    BY <1>1, <1>2, <1>6, <2>2, <2>6 DEF TypeOK
  <2>8. ReplyInv' /\ NeverSilent'
    BY <1>6 DEF ReplyInv, NeverSilent
  <2>9. ChainInv'
    BY <1>6, <2>2, <2>5 DEF ChainInv
  <2>10. RecordedWhole'
    <3>1. reply' = reply
      BY <1>6
    <3> QED BY <2>1, <2>2, <3>1 DEF RecordedWhole, Whole, Taken, Pieces
  <2>11. RequestPaired'
    BY <1>1, <1>2, <1>6 DEF RequestPaired
  <2> QED BY <2>7, <2>8, <2>9, <2>10, <2>11 DEF StreamsInv
<1> QED BY <1>3, <1>5, <1>6 DEF Close, events, g, blocks, msg

LEMMA BreakKeeps == ASSUME StreamsInv, Break PROVE StreamsInv'
<1>1. pc = "stream" /\ UNCHANGED <<provider, nextId>>
  BY DEF Break, Gathering
<1>2. /\ TypeOK /\ conv \in Conversations(nextId) /\ Settled(conv) /\ tries \in Nat /\ reply \in Written(nextId)
      /\ pending \in Gatherings(nextId) /\ IdsIn(reply.calls) \cap AllUseIds(conv) = {}
  BY <1>1 DEF StreamsInv, ChainInv, TypeOK
<1>3. CASE Send(conv) /\ UNCHANGED tries
  BY <1>1, <1>2, <1>3, SendKeeps
<1>4. CASE GiveUp(pending) /\ UNCHANGED reply
  <2>1. IdsIn(pending.calls) \cap AllUseIds(conv) = {}
    BY <1>1, <1>2, GatheredIsWritten
  <2> QED BY <1>1, <1>2, <1>4, <2>1, GiveUpKeeps
<1> QED BY <1>3, <1>4 DEF Break

LEMMA BeginTurnKeeps == ASSUME StreamsInv, BeginTurn PROVE StreamsInv'
<1>1. TypeOK /\ Repairable(conv) /\ EndsWithUser(conv) /\ nextId \in Nat \ {0} /\ conv \in Chains(Fragments, Ids(nextId), Ids(nextId))
  BY DEF BeginTurn, StreamsInv, ChainInv, TypeOK, Conversations
<1>2. RepairChain(conv) \in Conversations(nextId) /\ Settled(RepairChain(conv))
  <2>1. Ids(nextId) \in SUBSET (1..nextId) /\ nextId \in Nat
    BY <1>1 DEF Ids
  <2> QED BY <1>1, <2>1, RepairSettles DEF Conversations
<1>3. Send(RepairChain(conv)) /\ tries' = 0 /\ UNCHANGED <<provider, nextId>>
  BY DEF BeginTurn
<1> QED BY <1>1, <1>2, <1>3, SendKeeps

LEMMA CallsReturnKeeps == ASSUME StreamsInv, CallsReturn PROVE StreamsInv'
<1>1. /\ pc = "tools" /\ pending' = NoPending
      /\ UNCHANGED <<provider, request, reply, parser, spent, tries, nextId, streams>>
  BY DEF CallsReturn
<1>2. /\ TypeOK /\ RequestPaired /\ Repairable(conv) /\ conv \in Chains(Fragments, Ids(nextId), Ids(nextId))
      /\ conv \in Conversations(nextId) /\ nextId \in Nat
      /\ IdsIn(pending.calls) \subseteq Unanswered(conv) /\ pending.calls # <<>> /\ pending \in Gatherings(nextId)
  BY <1>1 DEF StreamsInv, ChainInv, TypeOK, Conversations
<1>3. pending.calls \in Seq(ToolUses(nextId)) /\ Len(pending.calls) \in Nat /\ DOMAIN pending.calls = 1..Len(pending.calls)
  <2>1. pending.calls \in Seq(ToolUses(nextId))
    BY <1>2 DEF Gatherings
  <2> QED BY <2>1, SeqIs
<1>4. PICK n \in 0..Len(pending.calls) :
        /\ conv' = IF n = 0 THEN conv ELSE AppendMessage(conv, Results(SubSeq(pending.calls, 1, n)))
        /\ pc' = IF n = Len(pending.calls) THEN "ready" ELSE "idle"
  BY DEF CallsReturn
<1>5. CASE n = 0
  <2>1. Len(pending.calls) # 0
    BY <1>2, <1>3
  <2>2. conv' = conv /\ pc' = "idle"
    BY <1>4, <1>5, <2>1
  <2>3. NoPending \in Gatherings(nextId)
    BY <1>2, NewIs
  <2>4. TypeOK'
    BY <1>1, <1>2, <2>2, <2>3 DEF TypeOK
  <2>5. ChainInv' /\ ReplyInv' /\ RecordedWhole' /\ NeverSilent'
    BY <1>2, <2>2 DEF ChainInv, ReplyInv, RecordedWhole, NeverSilent
  <2> QED BY <1>1, <1>2, <2>4, <2>5 DEF StreamsInv, RequestPaired
<1>6. CASE n # 0
  <2> DEFINE calls == SubSeq(pending.calls, 1, n)
             msg == Results(calls)
  <2>1. n \in 1..Len(pending.calls)
    BY <1>3, <1>6
  <2>2. /\ calls \in Seq(ToolUses(nextId)) /\ Len(calls) = n /\ DOMAIN calls = 1..n
        /\ \A k \in 1..n : calls[k] = pending.calls[k]
    BY <1>3, <2>1
  <2> HIDE DEF calls
  <2>3. calls # <<>> /\ IdsIn(calls) \subseteq IdsIn(pending.calls)
    <3>1. \A k \in DOMAIN calls : k \in DOMAIN pending.calls /\ calls[k] = pending.calls[k]
      BY <1>3, <2>1, <2>2
    <3>2. 1 \in DOMAIN calls
      BY <2>1, <2>2
    <3> QED BY <3>1, <3>2 DEF IdsIn
  <2>4. /\ msg \in Messages(Fragments, Ids(nextId), Ids(nextId)) /\ msg.role = "user" /\ msg.content # <<>>
        /\ UseIds(msg) = {} /\ ResultIds(msg) = IdsIn(calls)
    BY <2>2, <2>3, ResultsAre
  <2>5. conv' = AppendMessage(conv, msg)
    BY <1>4, <1>6 DEF calls
  <2> HIDE DEF msg
  <2>6. conv' \in Conversations(nextId)
    BY <1>2, <2>4, <2>5, AppendIs DEF Conversations
  <2>7. Repairable(conv') /\ EndsWithUser(conv')
    <3>1. ResultIds(msg) \subseteq Unanswered(conv)
      BY <1>2, <2>3, <2>4
    <3>2. Repairable(AppendMessage(conv, msg)) /\ EndsWithUser(AppendMessage(conv, msg))
      BY <1>2, <2>4, <3>1, UserRepairable
    <3> QED BY <2>5, <3>2
  <2>8. pc' \in {"ready", "idle"}
    BY <1>4
  <2>9. NoPending \in Gatherings(nextId)
    BY <1>2, NewIs
  <2>10. TypeOK'
    BY <1>1, <1>2, <2>6, <2>8, <2>9 DEF TypeOK
  <2>11. ChainInv' /\ ReplyInv' /\ RecordedWhole' /\ NeverSilent'
    BY <2>7, <2>8 DEF ChainInv, ReplyInv, RecordedWhole, NeverSilent
  <2> QED BY <1>1, <1>2, <2>10, <2>11 DEF StreamsInv, RequestPaired
<1> QED BY <1>5, <1>6

LEMMA UserSaysKeeps == ASSUME StreamsInv, UserSays PROVE StreamsInv'
<1> DEFINE msg == Said
<1>1. /\ conv' = AppendMessage(conv, Said) /\ pc' = "ready"
      /\ UNCHANGED <<provider, request, reply, parser, pending, spent, tries, nextId, streams>>
  BY DEF UserSays
<1>2. /\ TypeOK /\ RequestPaired /\ Repairable(conv) /\ conv \in Chains(Fragments, Ids(nextId), Ids(nextId))
  BY DEF StreamsInv, ChainInv, TypeOK, Conversations
<1>3. /\ msg \in Messages(Fragments, Ids(nextId), Ids(nextId)) /\ msg.role = "user" /\ msg.content # <<>>
      /\ UseIds(msg) = {} /\ ResultIds(msg) = {}
  <2>1. "said" \in Fragments
    BY DEF Fragments
  <2> QED BY <2>1, TextIs DEF Said
<1> HIDE DEF msg
<1>4. conv' = AppendMessage(conv, msg)
  BY <1>1 DEF msg
<1>5. conv' \in Conversations(nextId)
  BY <1>2, <1>3, <1>4, AppendIs DEF Conversations
<1>6. Repairable(conv') /\ EndsWithUser(conv')
  <2>1. ResultIds(msg) \subseteq Unanswered(conv)
    BY <1>3
  <2>2. Repairable(AppendMessage(conv, msg)) /\ EndsWithUser(AppendMessage(conv, msg))
    BY <1>2, <1>3, <2>1, UserRepairable
  <2> QED BY <1>4, <2>2
<1>7. TypeOK'
  BY <1>1, <1>2, <1>5 DEF TypeOK
<1>8. ChainInv' /\ ReplyInv' /\ RecordedWhole' /\ NeverSilent'
  BY <1>1, <1>6 DEF ChainInv, ReplyInv, RecordedWhole, NeverSilent
<1> QED BY <1>1, <1>2, <1>7, <1>8 DEF StreamsInv, RequestPaired


-----------------------------------------------------------------------------
LEMMA InitKeeps == ASSUME Init PROVE StreamsInv
<1>1. /\ provider \in Providers /\ conv = <<>> /\ request = <<>> /\ reply = NewReply /\ pending = NoPending
      /\ pc = "idle" /\ tries = 0 /\ nextId = 1 /\ streams = 0
  BY DEF Init
<1>2. NewReply \in Written(nextId) /\ NoPending \in Gatherings(nextId)
  BY <1>1, NewIs
<1>3. conv \in Conversations(nextId)
  <2>1. <<>> \in Seq(Messages(Fragments, Ids(nextId), Ids(nextId)))
    OBVIOUS
  <2> QED BY <1>1, <2>1 DEF Conversations, Chains
<1>4. TypeOK
  BY <1>1, <1>2, <1>3 DEF TypeOK
<1>5. Repairable(conv)
  BY <1>1 DEF Repairable, Shaped, UsesApart, Filled, Alternating
<1>6. RequestPaired
  <2>1. CallItems(request) = {} /\ DOMAIN request = {}
    BY <1>1 DEF CallItems
  <2> QED BY <2>1 DEF RequestPaired, CallsAnswered, CallItems
<1>7. ReplyInv /\ ChainInv /\ RecordedWhole /\ NeverSilent
  BY <1>1, <1>5 DEF ReplyInv, ChainInv, RecordedWhole, NeverSilent
<1> QED BY <1>4, <1>6, <1>7 DEF StreamsInv

LEMMA NextKeeps == ASSUME StreamsInv, [Next]_vars PROVE StreamsInv'
<1>1. CASE Next
  BY <1>1, BeginTurnKeeps, WriteTextKeeps, OpenCallKeeps, SendPieceKeeps, CloseCallKeeps, StopReplyKeeps,
     SendUsageKeeps, SendDoneKeeps, SendNoiseKeeps, CloseKeeps, BreakKeeps, CallsReturnKeeps, UserSaysKeeps
     DEF Next
<1>2. CASE UNCHANGED vars
  BY <1>2 DEF vars, StreamsInv, TypeOK, ReplyInv, OpenAIInv, AnthropicInv, LastCall, Spoke, ChainInv,
              RequestPaired, RecordedWhole, NeverSilent
<1> QED BY <1>1, <1>2

(* The invariant of the reply on its way: the parser and what was gathered *)
(* stand for what the provider has written, and the conversation is one    *)
(* that can be sent, or be repaired into one (_stream_llm, repair_chain).  *)
THEOREM ReplyInOrder == Spec => []StreamsInv
<1>1. Init => StreamsInv
  BY InitKeeps
<1>2. StreamsInv /\ [Next]_vars => StreamsInv'
  BY NextKeeps
<1> QED BY <1>1, <1>2, PTL DEF Spec

(* A reply with calls is recorded only with every call the provider began  *)
(* and named, with arguments that are whole (_flush_tool_calls,            *)
(* content_block_stop).                                                    *)
THEOREM CallsRecordedWhole == Spec => []RecordedWhole
<1>1. StreamsInv => RecordedWhole
  BY DEF StreamsInv
<1> QED BY <1>1, ReplyInOrder, PTL

(* No run ends without a word on a reply cut at its token limit, or on one *)
(* with a named call in it (the empty-reply errors of the parsers).        *)
THEOREM CutNeverSilent == Spec => []NeverSilent
<1>1. StreamsInv => NeverSilent
  BY DEF StreamsInv
<1> QED BY <1>1, ReplyInOrder, PTL

(* Every request of either provider answers each call once, right after it *)
(* (repair_chain with _serialize_messages).                                *)
THEOREM RequestsPaired == Spec => []RequestPaired
<1>1. StreamsInv => RequestPaired
  BY DEF StreamsInv
<1> QED BY <1>1, ReplyInOrder, PTL
=============================================================================
