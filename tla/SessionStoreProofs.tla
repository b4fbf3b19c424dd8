------------------------ MODULE SessionStoreProofs ------------------------
(***************************************************************************)
(* Theorems about SessionStore, on those about chains:                     *)
(*   - what reading and flushing lines keeps of types, ids and blocks;     *)
(*   - TypeOK, and that a step changes at most the last line of the file;  *)
(*   - OnceInv (no call is made or answered twice, and a run's calls are   *)
(*     its own and open in the chain), from which a repair finds nothing   *)
(*     to drop: kept until a turn begins while another run's tools are out *)
(*     (BesideInv), so always with one run at a time (AloneInv);           *)
(*   - StoreInv: line i of the file is message i, as it is or as it was,   *)
(*     and what was logged stands in it;                                   *)
(*   - FileInv: after a cut write too, no call and no result stands in the *)
(*     file twice, nor may the next flush write one again;                 *)
(*   - ShapeInv: where in the chain calls may still be open, from which    *)
(*     every request is well formed.                                       *)
(***************************************************************************)
EXTENDS SessionStore, ConversationProofs, FiniteSetTheorems

-----------------------------------------------------------------------------
(* Types: chains whose calls and results have ids in I, and whose          *)
(* placeholders have ids in H.                                             *)
Fragments == Runs \cup {"reply", "truncated", "task", "snapshot", "stale", "reminder"}

FileLines(I) ==
  [state : {"ok"}, msg : Messages(Fragments, I, I), todos : BOOLEAN]
  \cup [state : {"torn", "undecodable", "bad"}, msg : {NoMessage}, todos : {FALSE}]

LEMMA RereadIs ==
  ASSUME NEW I, NEW H, NEW m \in Messages(Fragments, I, H)
  PROVE  Reread(m) \in Messages(Fragments, I, H)
<1> DEFINE B == BlocksOf(Fragments, I, H)
           texts == [i \in DOMAIN m.content |-> m.content[i].text]
<1>1. m.content \in Seq(B) /\ m.role \in {"user", "assistant"}
  BY DEF Messages
<1>2. \A b \in B : b.text \in Seq(Fragments)
  <2>1. \A b \in TextBlocks(Fragments) : b.text \in Seq(Fragments)
    BY DEF TextBlocks
  <2>2. \A kinds, ids : \A b \in IdBlocks(kinds, ids) : b.text = <<>>
    BY DEF IdBlocks
  <2>3. <<>> \in Seq(Fragments)
    OBVIOUS
  <2> QED BY <2>1, <2>2, <2>3 DEF BlocksOf
<1>3. texts \in Seq(Seq(Fragments))
  <2> HIDE DEF B
  <2>1. \A i \in DOMAIN m.content : m.content[i].text \in Seq(Fragments)
    BY <1>1, <1>2
  <2>2. Len(m.content) \in Nat /\ texts \in [1..Len(m.content) -> Seq(Fragments)]
    BY <1>1, <2>1
  <2> QED BY <2>2
<1>4. JoinedText(m) \in Seq(Fragments)
  BY <1>3, ConcatIs DEF JoinedText
<1>5. TextBlock(JoinedText(m)) \in B
  BY <1>4 DEF TextBlock, BlocksOf, TextBlocks
<1>6. CallsOf(m.content) \in Seq(B) /\ AnswersOf(m.content) \in Seq(B)
  BY <1>1, SelectedIs DEF CallsOf, AnswersOf
<1> DEFINE text == IF JoinedText(m) = <<>> THEN <<>> ELSE <<TextBlock(JoinedText(m))>>
<1>7. text \in Seq(B)
  BY <1>5
<1> HIDE DEF B, text
<1>8. text \o CallsOf(m.content) \o AnswersOf(m.content) \in Seq(B)
  BY <1>6, <1>7
<1> QED BY <1>1, <1>8 DEF Reread, Message, Messages, B, text

LEMMA LinesAre ==
  ASSUME NEW I, NEW msgs \in Chains(Fragments, I, I), NEW td \in BOOLEAN
  PROVE  Lines(msgs, td) \in Seq(FileLines(I)) /\ Len(Lines(msgs, td)) = Len(msgs)
<1>1. \A m \in Messages(Fragments, I, I) : Line(m, td) \in FileLines(I)
  BY RereadIs DEF Line, FileLines
<1>2. \A i \in DOMAIN msgs : Line(msgs[i], td) \in FileLines(I)
  BY <1>1 DEF Chains
<1>3. Len(msgs) \in Nat /\ DOMAIN msgs = 1..Len(msgs)
  BY DEF Chains
<1>4. Lines(msgs, td) \in [1..Len(msgs) -> FileLines(I)]
  BY <1>2, <1>3 DEF Lines
<1> QED BY <1>3, <1>4

-----------------------------------------------------------------------------
(* What a flush, also one that is cut, leaves of the file: lines, and all  *)
(* but the last as they were.                                              *)
AllButLast(f, g) == \A i \in 1..(Len(f) - 1) : i \in DOMAIN g /\ g[i] = f[i]

LEMMA FrontAnd ==
  ASSUME NEW L, NEW f \in Seq(L), f # <<>>, NEW more \in Seq(L)
  PROVE  Front(f) \o more \in Seq(L) /\ AllButLast(f, Front(f) \o more)
<1> DEFINE s == Front(f)
<1>1. s \in Seq(L) /\ Len(s) = Len(f) - 1 /\ \A i \in 1..(Len(f) - 1) : s[i] = f[i]
  BY FrontIs
<1> HIDE DEF s
<1>2. s \o more \in Seq(L) /\ \A i \in 1..Len(s) : i \in DOMAIN (s \o more) /\ (s \o more)[i] = s[i]
  BY <1>1
<1> QED BY <1>1, <1>2 DEF AllButLast, s

LEMMA AppendLinesIs ==
  ASSUME NEW L, NEW f \in Seq(L), NEW lines \in Seq(L), BadLine("bad") \in L
  PROVE  AppendLines(f, lines) \in Seq(L) /\ AllButLast(f, AppendLines(f, lines))
<1>1. CASE lines # <<>> /\ f # <<>> /\ Last(f).state = "torn"
  <2> DEFINE more == <<BadLine("bad")>> \o Tail(lines)
  <2>1. more \in Seq(L)
    <3>1. Tail(lines) \in Seq(L) /\ <<BadLine("bad")>> \in Seq(L)
      BY <1>1
    <3> QED BY <3>1
  <2>2. AppendLines(f, lines) = Front(f) \o more
    <3> DEFINE a == Front(f)
               b == <<BadLine("bad")>>
               c == Tail(lines)
    <3>1. a \in Seq(L) /\ b \in Seq(L) /\ c \in Seq(L)
      BY <1>1, FrontIs
    <3>2. AppendLines(f, lines) = (a \o b) \o c /\ more = b \o c
      BY <1>1 DEF AppendLines
    <3> HIDE DEF a, b, c, more
    <3>3. (a \o b) \o c = a \o (b \o c)
      BY <3>1, Reassociated, SMTT(30)
    <3> QED BY <3>2, <3>3 DEF a
  <2> HIDE DEF more
  <2> QED BY <1>1, <2>1, <2>2, FrontAnd
<1>2. CASE ~(lines # <<>> /\ f # <<>> /\ Last(f).state = "torn")
  <2>1. AppendLines(f, lines) = f \o lines
    BY <1>2 DEF AppendLines
  <2> QED BY <2>1 DEF AllButLast
<1> QED BY <1>1, <1>2

LEMMA NewLinesAre ==
  ASSUME NEW I, NEW f \in Seq(FileLines(I)), NEW c \in Chains(Fragments, I, I), NEW td \in BOOLEAN,
         Len(c) > Len(f)
  PROVE  /\ Lines(NewMessages(f, c), td) \in Seq(FileLines(I))
         /\ Len(Lines(NewMessages(f, c), td)) = Len(c) - Len(f)
<1>1. /\ Len(f) \in Nat /\ Len(c) \in Nat
  BY DEF Chains
<1>2. NewMessages(f, c) \in Chains(Fragments, I, I) /\ Len(NewMessages(f, c)) = Len(c) - Len(f)
  BY <1>1 DEF NewMessages, Chains
<1> QED BY <1>2, LinesAre

LEMMA BadLines ==
  ASSUME NEW I
  PROVE  BadLine("bad") \in FileLines(I) /\ TornLines \subseteq FileLines(I)
BY DEF BadLine, TornLines, FileLines

LEMMA FlushIs ==
  ASSUME NEW I, NEW f \in Seq(FileLines(I)), NEW c \in Chains(Fragments, I, I), NEW td \in BOOLEAN
  PROVE  FlushLast(f, c, td) \in Seq(FileLines(I)) /\ AllButLast(f, FlushLast(f, c, td))
<1>1. CASE c = <<>> \/ Len(c) < Len(f)
  BY <1>1 DEF FlushLast, AllButLast
<1>2. CASE c # <<>> /\ Len(c) > Len(f)
  <2>1. FlushLast(f, c, td) = AppendLines(f, Lines(NewMessages(f, c), td))
    BY <1>2 DEF FlushLast, Chains
  <2> QED BY <1>2, <2>1, NewLinesAre, AppendLinesIs, BadLines
<1>3. CASE c # <<>> /\ Len(c) = Len(f)
  <2>1. FlushLast(f, c, td) = Front(f) \o <<Line(Last(c), td)>>
    BY <1>3 DEF FlushLast, Chains
  <2>2. Last(c) \in Messages(Fragments, I, I) /\ f # <<>>
    BY <1>3 DEF Last, Chains
  <2>3. <<Line(Last(c), td)>> \in Seq(FileLines(I))
    BY <2>2, RereadIs DEF Line, FileLines
  <2> QED BY <2>1, <2>2, <2>3, FrontAnd
<1>4. Len(c) \in Nat /\ Len(f) \in Nat
  BY DEF Chains
<1> QED BY <1>1, <1>2, <1>3, <1>4

LEMMA CutFlushIs ==
  ASSUME NEW I, NEW f \in Seq(FileLines(I)), NEW c \in Chains(Fragments, I, I), NEW td \in BOOLEAN,
         NEW g \in CutFlush(f, c, td)
  PROVE  g \in Seq(FileLines(I)) /\ AllButLast(f, g)
<1>1. CASE c = <<>> \/ Len(c) < Len(f)
  BY <1>1 DEF CutFlush, AllButLast
<1>2. CASE c # <<>> /\ Len(c) > Len(f)
  <2> DEFINE lines == Lines(NewMessages(f, c), td)
  <2>1. lines \in Seq(FileLines(I)) /\ Len(lines) = Len(c) - Len(f)
    BY <1>2, NewLinesAre
  <2> DEFINE K == 0..(Len(c) - Len(f) - 1)
             cutAt(k, torn) == AppendLines(f, SubSeq(lines, 1, k) \o <<torn>>)
             cuts == {cutAt(k, torn) : k \in K, torn \in TornLines}
  <2>6. CutFlush(f, c, td) = cuts
    <3>1. ~(c = <<>> \/ Len(c) < Len(f))
      BY <1>2 DEF Chains
    <3> QED BY <1>2, <3>1 DEF CutFlush
  <2>2. PICK k \in 0..(Len(c) - Len(f) - 1), torn \in TornLines :
          g = AppendLines(f, SubSeq(lines, 1, k) \o <<torn>>)
    <3> HIDE DEF lines, cutAt, K
    <3>1. g \in cuts
      <4> HIDE DEF cuts
      <4> QED BY <2>6
    <3>2. \E k \in K : \E torn \in TornLines : g = cutAt(k, torn)
      BY <3>1
    <3> QED BY <3>2 DEF K, cutAt
  <2>3. k <= Len(lines) /\ k \in Nat /\ torn \in FileLines(I)
    BY <2>1, <2>2, BadLines DEF Chains
  <2> HIDE DEF lines
  <2>4. SubSeq(lines, 1, k) \in Seq(FileLines(I)) /\ <<torn>> \in Seq(FileLines(I))
    BY <2>1, <2>3
  <2>5. SubSeq(lines, 1, k) \o <<torn>> \in Seq(FileLines(I))
    BY <2>4
  <2> QED BY <2>2, <2>5, AppendLinesIs, BadLines
<1>3. CASE c # <<>> /\ Len(c) = Len(f)
  <2>1. f # <<>>
    BY <1>3 DEF Chains
  <2>2. g = Front(f) \/ \E torn \in TornLines : g = Front(f) \o <<torn>>
    BY <1>3 DEF CutFlush, Chains
  <2>3. \A torn \in TornLines : <<torn>> \in Seq(FileLines(I))
    BY BadLines
  <2>4. CASE g = Front(f)
    BY <2>1, <2>4, FrontIs DEF AllButLast
  <2> QED BY <2>1, <2>2, <2>3, <2>4, FrontAnd
<1>4. Len(c) \in Nat /\ Len(f) \in Nat
  BY DEF Chains
<1> QED BY <1>1, <1>2, <1>3, <1>4

LEMMA ParsedIs ==
  ASSUME NEW I, NEW f \in Seq(FileLines(I))
  PROVE  Parsed(f) \in Chains(Fragments, I, I)
<1> DEFINE parts == [i \in DOMAIN f |-> FromJson(f[i])]
<1>1. \A line \in FileLines(I) : FromJson(line) \in Seq(Messages(Fragments, I, I))
  <2> SUFFICES ASSUME NEW line \in FileLines(I) PROVE FromJson(line) \in Seq(Messages(Fragments, I, I))
    OBVIOUS
  <2>1. CASE line.state = "ok"
    <3>1. line.msg \in Messages(Fragments, I, I)
      BY <2>1 DEF FileLines
    <3>2. << line.msg >> \in Seq(Messages(Fragments, I, I))
      BY <3>1
    <3> QED BY <2>1, <3>2 DEF FromJson
  <2>2. CASE line.state # "ok"
    BY <2>2 DEF FromJson
  <2> QED BY <2>1, <2>2
<1>2. Len(f) \in Nat /\ parts \in [1..Len(f) -> Seq(Messages(Fragments, I, I))]
  BY <1>1
<1>3. parts \in Seq(Seq(Messages(Fragments, I, I)))
  <2> HIDE DEF parts
  <2> QED BY <1>2
<1>4. Parsed(f) = Concat(parts)
  BY DEF Parsed
<1> HIDE DEF parts
<1> QED BY <1>3, <1>4, ConcatIs DEF Chains

(* The messages that are always the same, or an input.                     *)
LEMMA FixedMessages ==
  ASSUME NEW I, NEW H
  PROVE  /\ \A r \in Runs : InputMessage(r) \in Messages(Fragments, I, H)
         /\ FeedbackMessage \in Messages(Fragments, I, H) /\ NoticeMessage \in Messages(Fragments, I, H)
         /\ SnapshotMessage \in Messages(Fragments, I, H) /\ StaleMessage \in Messages(Fragments, I, H)
         /\ ReminderMessage \in Messages(Fragments, I, H)
<1>1. \A x \in Fragments : TextBlock(<< x >>) \in BlocksOf(Fragments, I, H)
  <2>1. \A x \in Fragments : << x >> \in Seq(Fragments)
    OBVIOUS
  <2> QED BY <2>1 DEF TextBlock, BlocksOf, TextBlocks
<1>2. TextBlock(<<>>) \in BlocksOf(Fragments, I, H)
  <2>1. <<>> \in Seq(Fragments)
    OBVIOUS
  <2> QED BY <2>1 DEF TextBlock, BlocksOf, TextBlocks
<1>3. \A b \in BlocksOf(Fragments, I, H) : UserMessage(<< b >>) \in Messages(Fragments, I, H)
  BY DEF UserMessage, Message, Messages
<1>4. \A a, b \in BlocksOf(Fragments, I, H) : UserMessage(<< a, b >>) \in Messages(Fragments, I, H)
  BY DEF UserMessage, Message, Messages
<1>5. \A x \in Runs \cup {"reply", "truncated", "task", "snapshot", "stale", "reminder"} : x \in Fragments
  BY DEF Fragments
<1> QED BY <1>1, <1>2, <1>3, <1>4, <1>5
        DEF InputMessage, FeedbackMessage, NoticeMessage, SnapshotMessage, StaleMessage, ReminderMessage

LEMMA RestoredIs ==
  ASSUME NEW n \in Nat, NEW I \in SUBSET (1..n), file \in Seq(FileLines(I))
  PROVE  Restored \in Chains(Fragments, I, I)
<1>1. RepairChain(Parsed(file)) \in Chains(Fragments, I, I)
  BY ParsedIs, RepairIs
<1>2. AppendMessage(RepairChain(Parsed(file)), SnapshotMessage) \in Chains(Fragments, I, I)
  BY <1>1, FixedMessages, AppendIs
<1> QED BY <1>1, <1>2 DEF Restored

(* The reply so far, and the results of a batch, as messages.              *)
LEMMA PendingIs ==
  ASSUME NEW I, NEW H, pending \in Seq(BlocksOf(Fragments, I, H))
  PROVE  PendingMessage \in Messages(Fragments, I, H) /\ PendingCalls \in Seq(I)
<1> DEFINE others == Selected(pending, {p \in DOMAIN pending : ~IsUse(pending[p])})
           uses == CallsOf(pending)
<1>1. others \in Seq(BlocksOf(Fragments, I, H)) /\ uses \in Seq(BlocksOf(Fragments, I, H))
  BY SelectedIs DEF CallsOf
<1>2. \A q \in DOMAIN uses : IsUse(uses[q])
  BY SelectedIs DEF CallsOf
<1>3. others \o uses \in Seq(BlocksOf(Fragments, I, H))
  <2> HIDE DEF others, uses
  <2> QED BY <1>1
<1>4. PendingMessage \in Messages(Fragments, I, H)
  BY <1>3 DEF PendingMessage, AssistantMessage, Message, Messages
<1>5. PendingCalls = [i \in DOMAIN uses |-> uses[i].id]
  BY DEF PendingCalls
<1> HIDE DEF uses
<1>6. \A i \in DOMAIN uses : uses[i].id \in I
  BY <1>1, <1>2 DEF BlocksOf, TextBlocks, IdBlocks, IsUse
<1>7. Len(uses) \in Nat /\ PendingCalls \in [1..Len(uses) -> I]
  BY <1>1, <1>5, <1>6
<1> QED BY <1>4, <1>7

LEMMA ResultsAre ==
  ASSUME NEW I, NEW H, NEW r \in Runs, calls[r] \in Seq(I), NEW k \in Nat, k <= Len(calls[r])
  PROVE  ResultsMessage(r, k) \in Messages(Fragments, I, H)
<1> DEFINE results == [i \in 1..k |-> ToolResultBlock(calls[r][i])]
<1>1. \A i \in 1..k : ToolResultBlock(calls[r][i]) \in BlocksOf(Fragments, I, H)
  BY DEF ToolResultBlock, BlocksOf, IdBlocks
<1>2. results \in Seq(BlocksOf(Fragments, I, H))
  <2>1. results \in [1..k -> BlocksOf(Fragments, I, H)]
    BY <1>1
  <2> HIDE DEF results
  <2> QED BY <2>1
<1>3. ResultsMessage(r, k) = UserMessage(results)
  BY DEF ResultsMessage
<1> HIDE DEF results
<1> QED BY <1>2, <1>3 DEF UserMessage, Message, Messages

-----------------------------------------------------------------------------
(* Types, and what every step leaves of the file.                          *)
Ids == 1..(nextId - 1)
Places == {"idle", "turn", "llm", "retried", "tools", "done"}

TypeOK ==
  /\ up \in BOOLEAN /\ todos \in BOOLEAN /\ cut \in BOOLEAN /\ beside \in {"no", "runs", "tools"}
  /\ nextId \in Nat \ {0} /\ notices \in Nat /\ crashes \in Nat
  /\ pc \in [Runs -> Places]
  /\ calls \in [Runs -> Seq(Ids)]
  /\ pending \in Seq(BlocksOf(Fragments, Ids, {}))
  /\ conv \in Chains(Fragments, Ids, Ids)
  /\ file \in Seq(FileLines(Ids))

LEMMA NothingIsThere ==
  ASSUME NEW I
  PROVE  /\ <<>> \in Seq(I) /\ <<>> \in Seq(BlocksOf(Fragments, I, {})) /\ <<>> \in Chains(Fragments, I, I)
         /\ <<>> \in Seq(FileLines(I))
<1>1. \A T : <<>> \in Seq(T)
  OBVIOUS
<1> QED BY <1>1 DEF Chains

LEMMA TypeInit == Init => TypeOK
<1> SUFFICES ASSUME Init PROVE TypeOK
  OBVIOUS
<1>1. [r \in Runs |-> "idle"] \in [Runs -> Places]
  BY DEF Places
<1>2. [r \in Runs |-> <<>>] \in [Runs -> Seq(Ids)]
  BY NothingIsThere
<1>3. /\ pc \in [Runs -> Places] /\ calls \in [Runs -> Seq(Ids)]
      /\ pending \in Seq(BlocksOf(Fragments, Ids, {})) /\ conv \in Chains(Fragments, Ids, Ids) /\ file \in Seq(FileLines(Ids))
  <2>1. /\ pc = [r \in Runs |-> "idle"] /\ calls = [r \in Runs |-> <<>>]
        /\ pending = <<>> /\ conv = <<>> /\ file = <<>>
    BY DEF Init
  <2> QED BY <1>1, <1>2, <2>1, NothingIsThere
<1>4. up \in BOOLEAN /\ todos \in BOOLEAN /\ cut \in BOOLEAN /\ beside \in {"no", "runs", "tools"}
  BY Zenon DEF Init
<1>5. nextId \in Nat \ {0} /\ notices \in Nat /\ crashes \in Nat
  <2>1. nextId = 1 /\ notices = 0 /\ crashes = 0
    BY Zenon DEF Init
  <2> QED BY <2>1
<1> QED BY <1>3, <1>4, <1>5 DEF TypeOK

(* What was so far stays well typed when an id is given out.               *)
LEMMA NextIdKeeps ==
  ASSUME TypeOK, nextId' = nextId + 1
  PROVE  /\ Ids \subseteq Ids' /\ nextId \in Ids'
         /\ calls \in [Runs -> Seq(Ids')]
         /\ pending \in Seq(BlocksOf(Fragments, Ids', {}))
         /\ conv \in Chains(Fragments, Ids', Ids')
         /\ file \in Seq(FileLines(Ids'))
<1>1. Ids \subseteq Ids' /\ nextId \in Ids'
  BY DEF TypeOK, Ids
<1> DEFINE I == Ids
           J == Ids'
<1>2. I \subseteq J
  BY <1>1
<1>3. /\ calls \in [Runs -> Seq(I)] /\ pending \in Seq(BlocksOf(Fragments, I, {}))
      /\ conv \in Chains(Fragments, I, I) /\ file \in Seq(FileLines(I))
  BY DEF TypeOK
<1> HIDE DEF I, J
<1>4. Seq(I) \subseteq Seq(J)
  BY <1>2, SeqGrows
<1>5. BlocksOf(Fragments, I, {}) \subseteq BlocksOf(Fragments, J, {})
  BY <1>2 DEF BlocksOf, IdBlocks
<1>6. Seq(BlocksOf(Fragments, I, {})) \subseteq Seq(BlocksOf(Fragments, J, {}))
  BY <1>5, SeqGrows
<1>7. Messages(Fragments, I, I) \subseteq Messages(Fragments, J, J) /\ Chains(Fragments, I, I) \subseteq Chains(Fragments, J, J)
  BY <1>2, ChainsGrow
<1>8. FileLines(I) \subseteq FileLines(J)
  BY <1>7 DEF FileLines
<1>9. Seq(FileLines(I)) \subseteq Seq(FileLines(J))
  BY <1>8, SeqGrows
<1>10. calls \in [Runs -> Seq(J)]
  BY <1>3, <1>4
<1>11. pending \in Seq(BlocksOf(Fragments, J, {})) /\ conv \in Chains(Fragments, J, J) /\ file \in Seq(FileLines(J))
  BY <1>3, <1>6, <1>7, <1>9
<1> QED BY <1>1, <1>10, <1>11 DEF J

LEMMA FlushStep ==
  ASSUME TypeOK, NEW msg \in Messages(Fragments, Ids, Ids), NEW td \in BOOLEAN, AddAndFlush(msg, td)
  PROVE  /\ conv' \in Chains(Fragments, Ids, Ids) /\ file' \in Seq(FileLines(Ids))
         /\ AllButLast(file, file')
<1>1. conv' \in Chains(Fragments, Ids, Ids)
  BY AppendIs DEF TypeOK, AddAndFlush
<1> QED BY <1>1, FlushIs DEF TypeOK, AddAndFlush

LEMMA PendingAdds ==
  ASSUME TypeOK
  PROVE  PendingMessage \in Messages(Fragments, Ids, Ids) /\ PendingCalls \in Seq(Ids)
<1>1. PendingMessage \in Messages(Fragments, Ids, {}) /\ PendingCalls \in Seq(Ids)
  BY PendingIs DEF TypeOK
<1>2. Messages(Fragments, Ids, {}) \subseteq Messages(Fragments, Ids, Ids)
  <2>1. {} \subseteq Ids
    OBVIOUS
  <2> QED BY <2>1, ChainsGrow
<1> QED BY <1>1, <1>2

Written == conv' \in Chains(Fragments, Ids, Ids) /\ file' \in Seq(FileLines(Ids)) /\ AllButLast(file, file')

LEMMA RunTypeStep ==
  ASSUME TypeOK, NEW r \in Runs, nextId' = nextId,
         \/ StartRun(r) \/ BeginTurn(r) \/ StreamBlock(r) \/ RetryTransient(r)
         \/ RetryTruncated(r) \/ EndEmptyReply(r) \/ EndReply(r)
         \/ (\E k \in 1..MaxBlocks : FinishBatch(r, k)) \/ StopRun(r)
  PROVE  TypeOK' /\ AllButLast(file, file')
<1>1. Ids' = Ids
  BY DEF Ids
<1> USE <1>1
<1>2. UNCHANGED file => AllButLast(file, file')
  BY DEF AllButLast, TypeOK
<1>3. CASE StartRun(r)
  <2>1. Written
    BY <1>3, FlushStep, FixedMessages DEF StartRun, TypeOK, Written
  <2> QED BY <1>3, <2>1 DEF StartRun, Goto, TypeOK, Written, Places
<1>4. CASE BeginTurn(r)
  <2>1. conv' \in Chains(Fragments, Ids, Ids)
    <3>1. nextId - 1 \in Nat
      BY DEF TypeOK
    <3> QED BY <1>4, <3>1, RepairIs DEF BeginTurn, TypeOK, Ids
  <2> QED BY <1>2, <1>4, <2>1 DEF BeginTurn, Goto, TypeOK, Places
<1>5. CASE StreamBlock(r)
  <2>1. nextId' # nextId + 1
    BY DEF TypeOK
  <2>2. pending' = <<TextBlock(<<"reply">>)>>
    BY <1>5, <2>1 DEF StreamBlock
  <2>3. <<"reply">> \in Seq(Fragments)
    BY DEF Fragments
  <2>4. TextBlock(<<"reply">>) \in BlocksOf(Fragments, Ids, {})
    BY <2>3 DEF TextBlock, BlocksOf, TextBlocks
  <2> QED BY <1>2, <1>5, <2>2, <2>4 DEF StreamBlock, TypeOK
<1>6. CASE RetryTransient(r)
  BY <1>2, <1>6 DEF RetryTransient, TypeOK
<1>7. CASE RetryTruncated(r)
  <2>1. Written
    BY <1>7, FlushStep, FixedMessages DEF RetryTruncated, TypeOK, Written
  <2> QED BY <1>7, <2>1 DEF RetryTruncated, Goto, TypeOK, Written, Places
<1>8. CASE EndEmptyReply(r)
  BY <1>2, <1>8 DEF EndEmptyReply, Goto, TypeOK, Places
<1>9. CASE EndReply(r)
  <2>1. Written
    BY <1>9, FlushStep, PendingAdds DEF EndReply, TypeOK, Written
  <2> QED BY <1>9, <2>1, PendingAdds DEF EndReply, Goto, TypeOK, Written, Places
<1>10. ASSUME NEW k \in 1..MaxBlocks, FinishBatch(r, k)
       PROVE  TypeOK' /\ AllButLast(file, file')
  <2>1. k \in Nat /\ k <= Len(calls[r]) /\ calls[r] \in Seq(Ids)
    BY <1>10, SessionStoreAssumption DEF FinishBatch, TypeOK
  <2>2. ResultsMessage(r, k) \in Messages(Fragments, Ids, Ids)
    BY <2>1, ResultsAre
  <2>3. Written /\ todos' \in BOOLEAN
    <3>1. PICK td \in {todos, todos \/ WithTodos} : todos' = td /\ AddAndFlush(ResultsMessage(r, k), td)
      BY <1>10 DEF FinishBatch
    <3>2. td \in BOOLEAN
      BY DEF TypeOK
    <3> QED BY <2>2, <3>1, <3>2, FlushStep DEF Written
  <2>4. SubSeq(calls[r], k + 1, Len(calls[r])) \in Seq(Ids)
    BY <2>1
  <2>5. calls' \in [Runs -> Seq(Ids)]
    BY <1>10, <2>4 DEF FinishBatch, TypeOK
  <2>6. pc' \in [Runs -> Places]
    BY <1>10 DEF FinishBatch, Goto, TypeOK, Places
  <2> QED BY <1>10, <2>3, <2>5, <2>6 DEF FinishBatch, TypeOK, Written
<1>11. CASE StopRun(r)
  <2>1. Written
    BY <1>2, <1>11, FlushStep, PendingAdds DEF StopRun, TypeOK, Written
  <2> QED BY <1>11, <2>1 DEF StopRun, Goto, TypeOK, Written, Places
<1> QED BY <1>3, <1>4, <1>5, <1>6, <1>7, <1>8, <1>9, <1>10, <1>11

LEMMA CallArrives ==
  ASSUME TypeOK, NEW r \in Runs, StreamBlock(r), nextId' = nextId + 1
  PROVE  TypeOK' /\ AllButLast(file, file')
<1>1. pending' = Append(pending, ToolUseBlock(nextId))
  BY DEF StreamBlock, TypeOK
<1>2. ToolUseBlock(nextId) \in BlocksOf(Fragments, Ids', {})
  BY NextIdKeeps DEF ToolUseBlock, BlocksOf, IdBlocks
<1>3. pending' \in Seq(BlocksOf(Fragments, Ids', {}))
  BY <1>1, <1>2, NextIdKeeps
<1>4. AllButLast(file, file')
  BY DEF AllButLast, TypeOK, StreamBlock
<1>5. nextId' \in Nat \ {0}
  BY DEF TypeOK
<1> QED BY <1>3, <1>4, <1>5, NextIdKeeps DEF StreamBlock, TypeOK

LEMMA InFlightAre ==
  ASSUME TypeOK
  PROVE  MessagesInFlight \subseteq Messages(Fragments, Ids, Ids)
<1>1. \A r \in Runs : ResultsMessage(r, Len(calls[r])) \in Messages(Fragments, Ids, Ids)
  BY ResultsAre DEF TypeOK
<1> QED BY <1>1, FixedMessages, PendingAdds DEF MessagesInFlight

LEMMA OtherTypeStep ==
  ASSUME TypeOK, TaskNotice \/ Crash \/ CrashInFlush \/ Resume \/ UNCHANGED vars
  PROVE  TypeOK' /\ AllButLast(file, file')
<1>1. Ids' = Ids
  BY DEF Ids, TaskNotice, Crash, CrashInFlush, Resume, GoDown, vars
<1> USE <1>1
<1>2. UNCHANGED file => AllButLast(file, file')
  BY DEF AllButLast, TypeOK
<1>3. CASE TaskNotice
  <2>1. conv' \in Chains(Fragments, Ids, Ids)
    BY <1>3, AppendIs, FixedMessages DEF TaskNotice, TypeOK
  <2> QED BY <1>2, <1>3, <2>1 DEF TaskNotice, TypeOK
<1>4. ASSUME GoDown, file' \in Seq(FileLines(Ids)), cut' \in BOOLEAN PROVE TypeOK'
  <2>1. [r \in Runs |-> IF r \in Active THEN "done" ELSE pc[r]] \in [Runs -> Places]
    BY DEF TypeOK, Places
  <2>2. [r \in Runs |-> <<>>] \in [Runs -> Seq(Ids)]
    BY NothingIsThere
  <2>3. crashes' = crashes + 1 /\ crashes \in Nat
    BY <1>4 DEF GoDown, TypeOK
  <2>4. crashes' \in Nat
    BY <2>3
  <2>5. up' \in BOOLEAN /\ todos' \in BOOLEAN /\ beside' \in {"no", "runs", "tools"} /\ notices' \in Nat
    BY <1>4 DEF GoDown, TypeOK
  <2> QED BY <1>4, <2>1, <2>2, <2>4, <2>5, NothingIsThere DEF GoDown, TypeOK
<1>5. CASE Crash
  <2>1. file' = file /\ file' \in Seq(FileLines(Ids)) /\ cut' \in BOOLEAN /\ GoDown
    BY <1>5 DEF Crash, TypeOK
  <2> QED BY <1>2, <1>4, <2>1
<1>6. CASE CrashInFlush
  <2>1. PICK msg \in MessagesInFlight : file' \in CutFlush(file, AppendMessage(conv, msg), todos)
    BY <1>6 DEF CrashInFlush
  <2>2. AppendMessage(conv, msg) \in Chains(Fragments, Ids, Ids)
    BY InFlightAre, AppendIs DEF TypeOK
  <2>3. file' \in Seq(FileLines(Ids)) /\ AllButLast(file, file')
    BY <2>1, <2>2, CutFlushIs DEF TypeOK
  <2> QED BY <1>4, <1>6, <2>3 DEF CrashInFlush
<1>7. CASE Resume
  <2>1. Restored \in Chains(Fragments, Ids, Ids)
    <3>1. nextId - 1 \in Nat
      BY DEF TypeOK
    <3> QED BY <3>1, RestoredIs DEF TypeOK, Ids
  <2>2. StoredTodos \in BOOLEAN
    BY DEF StoredTodos
  <2>3. CASE conv' = Restored /\ UNCHANGED file
    BY <1>2, <1>7, <2>1, <2>2, <2>3 DEF Resume, TypeOK
  <2>4. CASE conv' = AppendMessage(Restored, StaleMessage) /\ file' = FlushLast(file, conv', StoredTodos)
    <3>1. conv' \in Chains(Fragments, Ids, Ids)
      BY <2>1, <2>4, AppendIs, FixedMessages
    <3>2. file' \in Seq(FileLines(Ids)) /\ AllButLast(file, file')
      BY <2>2, <2>4, <3>1, FlushIs DEF TypeOK
    <3> QED BY <1>7, <2>2, <3>1, <3>2 DEF Resume, TypeOK
  <2> QED BY <1>7, <2>3, <2>4 DEF Resume
<1>8. CASE UNCHANGED vars
  BY <1>2, <1>8 DEF vars, TypeOK
<1> QED BY <1>3, <1>5, <1>6, <1>7, <1>8

LEMMA TypeStep == TypeOK /\ [Next]_vars => TypeOK' /\ AllButLast(file, file')
<1> SUFFICES ASSUME TypeOK, [Next]_vars PROVE TypeOK' /\ AllButLast(file, file')
  OBVIOUS
<1>1. ASSUME NEW r \in Runs,
             \/ StartRun(r) \/ BeginTurn(r) \/ StreamBlock(r) \/ RetryTransient(r)
             \/ RetryTruncated(r) \/ EndEmptyReply(r) \/ EndReply(r)
             \/ (\E k \in 1..MaxBlocks : FinishBatch(r, k)) \/ StopRun(r)
      PROVE  TypeOK' /\ AllButLast(file, file')
  <2>1. nextId' = nextId \/ (StreamBlock(r) /\ nextId' = nextId + 1)
    BY <1>1 DEF StartRun, BeginTurn, StreamBlock, RetryTransient, RetryTruncated, EndEmptyReply,
                EndReply, FinishBatch, StopRun
  <2>2. CASE nextId' = nextId
    BY <1>1, <2>2, RunTypeStep
  <2>3. CASE StreamBlock(r) /\ nextId' = nextId + 1
    BY <2>3, CallArrives
  <2> QED BY <2>1, <2>2, <2>3
<1> QED BY <1>1, OtherTypeStep DEF Next

(* Every variable keeps its type: a chain repaired, restored or read again *)
(* is a chain, and no id is in use before it is given out.                 *)
THEOREM SessionTypeCorrect == Spec => []TypeOK
<1> QED BY TypeInit, TypeStep, PTL DEF Spec

(* Whatever runs are active beside each other, whatever is repaired, and   *)
(* wherever a crash cuts a write: the lines before the last stay.          *)
THEOREM WrittenLinesStay == Spec => OnlyLastLineChanges
<1>1. TypeOK /\ [Next]_vars => [\A i \in 1..(Len(file) - 1) : i \in DOMAIN file' /\ file'[i] = file[i]]_vars
  BY TypeStep DEF AllButLast
<1> QED BY <1>1, SessionTypeCorrect, PTL DEF Spec, OnlyLastLineChanges

-----------------------------------------------------------------------------
(* Calls are out for runs that execute tools, and while the process is up. *)
PendingIds == {pending[p].id : p \in {q \in DOMAIN pending : IsUse(pending[q])}}

CallsInv ==
  /\ up \/ (pending = <<>> /\ \A r \in Runs : calls[r] = <<>>)
  /\ \A r \in Runs : calls[r] # <<>> => pc[r] = "tools"

(* One run at a time: a reply and open calls belong to the one active run. *)
AloneInv ==
  /\ \A r, s \in Active : r = s
  /\ up \/ (Active = {} /\ pending = <<>>)
  /\ pending # <<>> => \E r \in Runs : Streaming(r)
  /\ \A r \in Runs : calls[r] # <<>> => pc[r] = "tools"

LEMMA CallsInit == Init => CallsInv
BY DEF Init, CallsInv

LEMMA AloneInit == Init => AloneInv
<1> SUFFICES ASSUME Init PROVE AloneInv
  OBVIOUS
<1>1. Active = {} /\ up /\ pending = <<>> /\ \A r \in Runs : calls[r] = <<>>
  BY DEF Init, Active
<1> QED BY <1>1 DEF AloneInv

LEMMA AloneCalls == AloneInv => CallsInv
BY DEF AloneInv, CallsInv, Active

LEMMA FirstRun ==
  ASSUME Cardinality(Active) < 1
  PROVE  Active = {}
<1>1. IsFiniteSet(Runs) /\ Active \subseteq Runs
  BY SessionStoreAssumption DEF Active
<1>2. IsFiniteSet(Active)
  BY <1>1, FS_Subset
<1>3. Cardinality(Active) \in Nat
  BY <1>2, FS_CardinalityType
<1>4. Cardinality(Active) = 0
  BY <1>3
<1> QED BY <1>2, <1>4, FS_EmptySet

LEMMA RestIs ==
  ASSUME NEW T, NEW seq \in Seq(T), NEW k \in Nat, k <= Len(seq)
  PROVE  /\ ToSet(SubSeq(seq, k + 1, Len(seq))) \subseteq ToSet(seq)
         /\ k = Len(seq) => SubSeq(seq, k + 1, Len(seq)) = <<>>
<1> DEFINE rest == SubSeq(seq, k + 1, Len(seq))
<1>1. /\ rest \in Seq(T) /\ Len(rest) = Len(seq) - k
      /\ \A i \in 1..(Len(seq) - k) : rest[i] = seq[k + i] /\ k + i \in DOMAIN seq
  OBVIOUS
<1> HIDE DEF rest
<1>2. DOMAIN rest = 1..(Len(seq) - k)
  BY <1>1
<1>3. ToSet(rest) \subseteq ToSet(seq)
  BY <1>1, <1>2 DEF ToSet
<1>4. k = Len(seq) => rest = <<>>
  BY <1>1
<1> QED BY <1>3, <1>4 DEF rest

LEMMA AppendedIs ==
  ASSUME NEW T, NEW seq \in Seq(T), NEW x
  PROVE  \A q \in DOMAIN Append(seq, x) :
           Append(seq, x)[q] = x \/ (q \in DOMAIN seq /\ Append(seq, x)[q] = seq[q])
<1> DEFINE S == T \cup {x}
           longer == Append(seq, x)
<1>1. seq \in Seq(S) /\ x \in S /\ Len(seq) \in Nat /\ DOMAIN seq = 1..Len(seq)
  BY SeqGrows
<1>2. /\ longer \in Seq(S) /\ Len(longer) = Len(seq) + 1 /\ longer[Len(seq) + 1] = x
      /\ \A i \in 1..Len(seq) : longer[i] = seq[i]
  BY <1>1, AppendProperties
<1> HIDE DEF longer, S
<1>3. DOMAIN longer = 1..(Len(seq) + 1)
  BY <1>2
<1>4. ASSUME NEW q \in DOMAIN longer PROVE longer[q] = x \/ (q \in DOMAIN seq /\ longer[q] = seq[q])
  <2>1. q = Len(seq) + 1 \/ q \in 1..Len(seq)
    BY <1>1, <1>3
  <2> QED BY <1>1, <1>2, <2>1
<1> QED BY <1>4 DEF longer

LEMMA AloneStep ==
  ASSUME MaxConcurrent = 1, TypeOK, AloneInv, Next
  PROVE  AloneInv'
<1>1. \A r \in Runs : pc[r] \in Places /\ calls[r] \in Seq(Ids)
  BY DEF TypeOK
<1>2. ASSUME NEW r \in Runs, StartRun(r) PROVE AloneInv'
  <2>1. Active = {}
    BY <1>2, FirstRun DEF StartRun
  <2>2. pc' = [pc EXCEPT ![r] = "turn"] /\ up' = up /\ pending' = pending /\ calls' = calls
    BY <1>2 DEF StartRun, Goto
  <2>3. pending = <<>> /\ \A s \in Runs : calls[s] = <<>>
    BY <2>1 DEF AloneInv, Active, Streaming
  <2>4. Active' \subseteq {r}
    BY <2>1, <2>2 DEF Active, TypeOK
  <2> QED BY <1>2, <2>2, <2>3, <2>4 DEF AloneInv, StartRun
<1>3. ASSUME NEW r \in Runs, r \in Active, up, up' = up,
             NEW p \in Places, pc' = [pc EXCEPT ![r] = p],
             pending' = <<>> \/ p \in {"llm", "retried"},
             \A s \in Runs \ {r} : calls'[s] = calls[s],
             calls'[r] # <<>> => p = "tools"
      PROVE  AloneInv'
  <2>1. \A s \in Runs : pc'[s] = IF s = r THEN p ELSE pc[s]
    BY <1>3 DEF TypeOK
  <2>2. Active' \subseteq Active
    BY <1>3, <2>1 DEF Active
  <2>3. \A s \in Runs : calls'[s] # <<>> => pc'[s] = "tools"
    BY <1>3, <2>1 DEF AloneInv
  <2>4. pending' # <<>> => \E s \in Runs : Streaming(s)'
    BY <1>3, <2>1 DEF Streaming
  <2> QED BY <1>3, <2>2, <2>3, <2>4 DEF AloneInv
<1>4. ASSUME NEW r \in Runs,
             \/ BeginTurn(r) \/ StreamBlock(r) \/ RetryTransient(r) \/ RetryTruncated(r)
             \/ EndEmptyReply(r) \/ EndReply(r) \/ StopRun(r)
             \/ \E k \in 1..MaxBlocks : FinishBatch(r, k)
      PROVE  AloneInv'
  <2>1. r \in Active /\ up /\ up' = up
    BY <1>4 DEF BeginTurn, StreamBlock, RetryTransient, RetryTruncated, EndEmptyReply, EndReply,
                StopRun, FinishBatch, Streaming, Active
  <2>2. pc[r] # "tools" => calls[r] = <<>>
    BY DEF AloneInv
  <2>3. pc[r] = "tools" => pending = <<>>
    BY <2>1 DEF AloneInv, Streaming, Active
  <2>4. pc = [pc EXCEPT ![r] = pc[r]]
    BY DEF TypeOK
  <2>5. CASE BeginTurn(r)
    BY <1>3, <2>1, <2>2, <2>5 DEF BeginTurn, Goto, Places
  <2>6. CASE StreamBlock(r)
    BY <1>1, <1>3, <2>1, <2>2, <2>4, <2>6 DEF StreamBlock, Streaming
  <2>7. CASE RetryTransient(r)
    BY <1>1, <1>3, <2>1, <2>2, <2>4, <2>7 DEF RetryTransient, Streaming
  <2>8. CASE RetryTruncated(r)
    <3>1. PICK p \in {"retried", "done"} : pc' = [pc EXCEPT ![r] = p]
      BY <2>8 DEF RetryTruncated, Goto
    <3> QED BY <1>3, <2>1, <2>2, <2>8, <3>1 DEF RetryTruncated, Streaming, Places
  <2>9. CASE EndEmptyReply(r)
    BY <1>3, <2>1, <2>2, <2>9 DEF EndEmptyReply, Streaming, Goto, Places
  <2>10. CASE EndReply(r)
    <3>1. \A s \in Runs : calls'[s] = IF s = r THEN PendingCalls ELSE calls[s]
      BY <2>10 DEF EndReply, TypeOK
    <3>2. CASE PendingCalls = <<>>
      BY <1>3, <2>1, <2>10, <3>1, <3>2 DEF EndReply, Goto, Places
    <3>3. CASE PendingCalls # <<>>
      BY <1>3, <2>1, <2>10, <3>1, <3>3 DEF EndReply, Goto, Places
    <3> QED BY <3>2, <3>3
  <2>11. CASE StopRun(r)
    <3>1. \A s \in Runs : calls'[s] = IF s = r THEN <<>> ELSE calls[s]
      BY <2>11 DEF StopRun, TypeOK
    <3> QED BY <1>3, <2>1, <2>11, <3>1 DEF StopRun, Goto, Places
  <2>12. ASSUME NEW k \in 1..MaxBlocks, FinishBatch(r, k) PROVE AloneInv'
    <3>1. \A s \in Runs : calls'[s] = IF s = r THEN SubSeq(calls[r], k + 1, Len(calls[r])) ELSE calls[s]
      BY <2>12 DEF FinishBatch, TypeOK
    <3>2. pending' = <<>> /\ pc[r] = "tools"
      BY <2>3, <2>12 DEF FinishBatch
    <3>3. CASE k < Len(calls[r])
      BY <1>1, <1>3, <2>1, <2>4, <2>12, <3>1, <3>2, <3>3 DEF FinishBatch
    <3>4. CASE ~(k < Len(calls[r]))
      <4>1. calls'[r] = <<>>
        <5>1. k \in Nat /\ k <= Len(calls[r]) /\ calls[r] \in Seq(Ids)
          BY <1>1, <2>12, SessionStoreAssumption DEF FinishBatch
        <5>2. Len(calls[r]) \in Nat
          BY <5>1
        <5>3. k = Len(calls[r])
          BY <3>4, <5>1, <5>2
        <5> QED BY <3>1, <5>1, <5>3, RestIs
      <4>2. PICK p \in {"turn", "done"} : pc' = [pc EXCEPT ![r] = p]
        BY <2>12, <3>4 DEF FinishBatch, Goto
      <4> QED BY <1>3, <2>1, <3>1, <3>2, <4>1, <4>2 DEF Places
    <3> QED BY <3>3, <3>4
  <2> QED BY <1>4, <2>5, <2>6, <2>7, <2>8, <2>9, <2>10, <2>11, <2>12
<1>5. CASE TaskNotice
  BY <1>5 DEF TaskNotice, AloneInv, Active, Streaming
<1>6. ASSUME GoDown PROVE AloneInv'
  <2>1. \A r \in Runs : pc'[r] = IF r \in Active THEN "done" ELSE pc[r]
    BY <1>6 DEF GoDown
  <2>2. Active' = {}
    BY <2>1 DEF Active
  <2>3. pending' = <<>> /\ \A r \in Runs : calls'[r] = <<>>
    BY <1>6 DEF GoDown
  <2> QED BY <2>2, <2>3 DEF AloneInv
<1>7. CASE Resume
  BY <1>7 DEF Resume, AloneInv, Active, Streaming
<1> QED BY <1>2, <1>4, <1>5, <1>6, <1>7 DEF Next, Crash, CrashInFlush

LEMMA CallsStep ==
  ASSUME TypeOK, CallsInv, Next
  PROVE  CallsInv'
<1>1. ASSUME NEW r \in Runs, up', NEW p \in Places, pc' = [pc EXCEPT ![r] = p],
             \A s \in Runs \ {r} : calls'[s] = calls[s], calls'[r] # <<>> => p = "tools"
      PROVE  CallsInv'
  <2>1. \A s \in Runs : pc'[s] = IF s = r THEN p ELSE pc[s]
    BY <1>1 DEF TypeOK
  <2> QED BY <1>1, <2>1 DEF CallsInv
<1>2. ASSUME up', calls' = calls, pc' = pc PROVE CallsInv'
  BY <1>2 DEF CallsInv
<1>3. ASSUME NEW r \in Runs, StartRun(r) \/ BeginTurn(r) PROVE CallsInv'
  <2>1. up' /\ calls' = calls /\ calls[r] = <<>>
    BY <1>3 DEF StartRun, BeginTurn, CallsInv
  <2>2. PICK p \in {"turn", "llm"} : pc' = [pc EXCEPT ![r] = p]
    BY <1>3 DEF StartRun, BeginTurn, Goto
  <2> QED BY <1>1, <2>1, <2>2 DEF Places
<1>4. ASSUME NEW r \in Runs, StreamBlock(r) \/ RetryTransient(r) PROVE CallsInv'
  BY <1>2, <1>4 DEF StreamBlock, RetryTransient
<1>5. ASSUME NEW r \in Runs, RetryTruncated(r) \/ EndEmptyReply(r) PROVE CallsInv'
  <2>1. up' /\ calls' = calls /\ calls[r] = <<>>
    BY <1>5 DEF RetryTruncated, EndEmptyReply, CallsInv, Streaming
  <2>2. PICK p \in {"retried", "done"} : pc' = [pc EXCEPT ![r] = p]
    BY <1>5 DEF RetryTruncated, EndEmptyReply, Goto
  <2> QED BY <1>1, <2>1, <2>2 DEF Places
<1>6. ASSUME NEW r \in Runs, EndReply(r) PROVE CallsInv'
  <2>1. up' /\ \A s \in Runs : calls'[s] = IF s = r THEN PendingCalls ELSE calls[s]
    BY <1>6 DEF EndReply, TypeOK
  <2>2. CASE PendingCalls = <<>>
    BY <1>1, <1>6, <2>1, <2>2 DEF EndReply, Goto, Places
  <2>3. CASE PendingCalls # <<>>
    BY <1>1, <1>6, <2>1, <2>3 DEF EndReply, Goto, Places
  <2> QED BY <2>2, <2>3
<1>7. ASSUME NEW r \in Runs, StopRun(r) PROVE CallsInv'
  <2>1. up' /\ \A s \in Runs : calls'[s] = IF s = r THEN <<>> ELSE calls[s]
    BY <1>7 DEF StopRun, TypeOK
  <2> QED BY <1>1, <1>7, <2>1 DEF StopRun, Goto, Places
<1>8. ASSUME NEW r \in Runs, NEW k \in 1..MaxBlocks, FinishBatch(r, k) PROVE CallsInv'
  <2>1. /\ up' /\ pc[r] = "tools"
        /\ \A s \in Runs : calls'[s] = IF s = r THEN SubSeq(calls[r], k + 1, Len(calls[r])) ELSE calls[s]
    BY <1>8 DEF FinishBatch, TypeOK
  <2>2. CASE k < Len(calls[r])
    <3>1. pc' = [pc EXCEPT ![r] = "tools"]
      BY <1>8, <2>1, <2>2 DEF FinishBatch, TypeOK
    <3> QED BY <1>1, <2>1, <3>1 DEF Places
  <2>3. CASE ~(k < Len(calls[r]))
    <3>1. calls'[r] = <<>>
      <4>1. k \in Nat /\ k <= Len(calls[r]) /\ calls[r] \in Seq(Ids)
        BY <1>8, SessionStoreAssumption DEF FinishBatch, TypeOK
      <4>2. Len(calls[r]) \in Nat
        BY <4>1
      <4>3. k = Len(calls[r])
        BY <2>3, <4>1, <4>2
      <4> QED BY <2>1, <4>1, <4>3, RestIs
    <3>2. PICK p \in {"turn", "done"} : pc' = [pc EXCEPT ![r] = p]
      BY <1>8, <2>3 DEF FinishBatch, Goto
    <3> QED BY <1>1, <2>1, <3>1, <3>2 DEF Places
  <2> QED BY <2>2, <2>3
<1>9. CASE TaskNotice
  BY <1>2, <1>9 DEF TaskNotice
<1>10. ASSUME GoDown PROVE CallsInv'
  BY <1>10 DEF GoDown, CallsInv
<1>11. CASE Resume
  BY <1>2, <1>11 DEF Resume
<1> QED BY <1>3, <1>4, <1>5, <1>6, <1>7, <1>8, <1>9, <1>10, <1>11 DEF Next, Crash, CrashInFlush

-----------------------------------------------------------------------------
(* No call is made or answered twice, and none belongs to two runs.        *)
StillOpen(ids, msgs) ==
  /\ \A k, l \in DOMAIN ids : ids[k] = ids[l] => k = l
  /\ ToSet(ids) \subseteq AllUseIds(msgs) \ AllResultIds(msgs)

PendingOnce ==
  /\ \A p \in DOMAIN pending : pending[p].kind \in {"text", "use"}
  /\ \A p, q \in DOMAIN pending : Twice(pending[p], pending[q]) => p = q
  /\ PendingIds \cap AllUseIds(conv) = {}

OnceInv ==
  /\ Clean(conv)
  /\ PendingOnce
  /\ \A r \in Runs : StillOpen(calls[r], conv)
  /\ \A r, s \in Runs : r # s => ToSet(calls[r]) \cap ToSet(calls[s]) = {}

OnlyText(msg) ==
  /\ msg.content # <<>>
  /\ \A p \in DOMAIN msg.content : msg.content[p].kind = "text"

LEMMA FixedAreText ==
  /\ \A r \in Runs : OnlyText(InputMessage(r))
  /\ OnlyText(FeedbackMessage) /\ OnlyText(NoticeMessage)
  /\ OnlyText(SnapshotMessage) /\ OnlyText(StaleMessage) /\ OnlyText(ReminderMessage)
<1>1. \A x : OnlyText(UserMessage(<< TextBlock(x) >>))
  BY DEF OnlyText, UserMessage, Message, TextBlock
<1>2. \A x, y : OnlyText(UserMessage(<< TextBlock(x), TextBlock(y) >>))
  BY DEF OnlyText, UserMessage, Message, TextBlock
<1> QED BY <1>1, <1>2 DEF InputMessage, FeedbackMessage, NoticeMessage, SnapshotMessage, StaleMessage, ReminderMessage

LEMMA TextFits ==
  ASSUME NEW msg, OnlyText(msg), NEW msgs
  PROVE  Appendable(msgs, msg) /\ UseIds(msg) = {} /\ ResultIds(msg) = {}
BY DEF OnlyText, Appendable, Twice, UseIds, ResultIds, ToSet, IsUse, IsResult

(* Appending a text changes no call and no result.                         *)
LEMMA TextAdded ==
  ASSUME NEW I, NEW H, NEW msgs \in Chains(Fragments, I, H), NEW msg \in Messages(Fragments, I, H), OnlyText(msg), Clean(msgs)
  PROVE  /\ Clean(AppendMessage(msgs, msg))
         /\ AllUseIds(AppendMessage(msgs, msg)) = AllUseIds(msgs)
         /\ AllResultIds(AppendMessage(msgs, msg)) = AllResultIds(msgs)
<1>1. Appendable(msgs, msg) /\ UseIds(msg) = {} /\ ResultIds(msg) = {}
  BY TextFits
<1>2. Clean(AppendMessage(msgs, msg))
  BY <1>1, AppendIsClean
<1>3. /\ AllUseIds(AppendMessage(msgs, msg)) = AllUseIds(msgs) \cup UseIds(msg)
      /\ AllResultIds(AppendMessage(msgs, msg)) = AllResultIds(msgs) \cup ResultIds(msg)
  BY AppendIds
<1> QED BY <1>1, <1>2, <1>3

(* The reply that has arrived, as a message: its calls once each, and new. *)
LEMMA PendingFits ==
  ASSUME TypeOK, Clean(conv), PendingOnce, pending # <<>>
  PROVE  /\ PendingMessage \in Messages(Fragments, Ids, Ids) /\ Appendable(conv, PendingMessage)
         /\ UseIds(PendingMessage) = PendingIds /\ ResultIds(PendingMessage) = {}
         /\ ToSet(PendingCalls) \subseteq PendingIds
         /\ \A k, l \in DOMAIN PendingCalls : PendingCalls[k] = PendingCalls[l] => k = l
<1> DEFINE B == BlocksOf(Fragments, Ids, {})
           usePlaces == {p \in DOMAIN pending : IsUse(pending[p])}
           textPlaces == {p \in DOMAIN pending : ~IsUse(pending[p])}
           texts == Selected(pending, textPlaces)
           uses == CallsOf(pending)
           msg == PendingMessage
<1>1. pending \in Seq(B) /\ \A p \in DOMAIN pending : p \in usePlaces \/ p \in textPlaces
  BY DEF TypeOK
<1>2. msg.content = texts \o uses /\ uses = Selected(pending, usePlaces)
  BY DEF PendingMessage, AssistantMessage, Message, CallsOf
<1>3. /\ \A p \in usePlaces : p \in DOMAIN pending /\ IsUse(pending[p])
      /\ \A p \in textPlaces : p \in DOMAIN pending /\ pending[p].kind = "text"
  BY DEF PendingOnce, IsUse
<1>4. \A p \in DOMAIN pending : IsUse(pending[p]) => p \in usePlaces
  OBVIOUS
<1> HIDE DEF usePlaces, textPlaces, B
<1>5. texts \in Seq(B) /\ uses \in Seq(B)
  BY <1>1, <1>2, SelectedIs
<1>6. \A p \in DOMAIN texts : texts[p].kind = "text"
  <2>1. \A p \in DOMAIN texts : \E i \in textPlaces \cap DOMAIN pending : texts[p] = pending[i]
    BY <1>1, SelectedIs
  <2> HIDE DEF texts
  <2> QED BY <1>3, <2>1
<1>7. PICK g \in [DOMAIN uses -> usePlaces \cap DOMAIN pending] :
        /\ \A p, q \in DOMAIN uses : g[p] = g[q] => p = q
        /\ \A q \in DOMAIN uses : uses[q] = pending[g[q]]
  <2> HIDE DEF uses
  <2> QED BY <1>1, <1>2, SelectedOnce
<1>8. \A p \in usePlaces : \E q \in DOMAIN uses : uses[q] = pending[p]
  <2> HIDE DEF uses
  <2> QED BY <1>1, <1>2, <1>3, SelectedIs
<1> HIDE DEF texts, uses, msg
<1>9. /\ \A q \in DOMAIN uses : IsUse(uses[q]) /\ uses[q].kind # "text"
      /\ \A p, q \in DOMAIN uses : uses[p].id = uses[q].id => p = q
  <2>1. \A q \in DOMAIN uses : g[q] \in DOMAIN pending /\ IsUse(pending[g[q]]) /\ pending[g[q]].kind # "text"
    BY <1>3, <1>7 DEF IsUse
  <2>2. \A p, q \in DOMAIN uses : uses[p].id = uses[q].id => g[p] = g[q]
    BY <1>7, <2>1 DEF PendingOnce, Twice, SameCall
  <2> QED BY <1>7, <2>1, <2>2
<1>10. /\ Len(texts) \in Nat /\ DOMAIN texts = 1..Len(texts) /\ DOMAIN uses = 1..Len(uses) /\ Len(uses) \in Nat
       /\ DOMAIN msg.content = 1..Len(texts) + Len(uses)
       /\ \A p \in DOMAIN texts : msg.content[p] = texts[p]
       /\ \A q \in DOMAIN uses : msg.content[Len(texts) + q] = uses[q]
  BY <1>2, <1>5
<1>11. \A p \in DOMAIN msg.content :
         \/ msg.content[p].kind = "text"
         \/ p - Len(texts) \in DOMAIN uses /\ msg.content[p] = uses[p - Len(texts)] /\ p \in Int
  <2> SUFFICES ASSUME NEW p \in DOMAIN msg.content, p \notin DOMAIN texts
               PROVE  p - Len(texts) \in DOMAIN uses /\ msg.content[p] = uses[p - Len(texts)] /\ p \in Int
    BY <1>6, <1>10
  <2>1. p - Len(texts) \in DOMAIN uses /\ Len(texts) + (p - Len(texts)) = p /\ p \in Int
    BY <1>10
  <2> QED BY <1>10, <2>1
<1>12. \A p, q \in DOMAIN msg.content : Twice(msg.content[p], msg.content[q]) => p = q
  <2> SUFFICES ASSUME NEW p \in DOMAIN msg.content, NEW q \in DOMAIN msg.content,
                      Twice(msg.content[p], msg.content[q])
               PROVE  p = q
    OBVIOUS
  <2>1. /\ p - Len(texts) \in DOMAIN uses /\ msg.content[p] = uses[p - Len(texts)] /\ p \in Int
        /\ q - Len(texts) \in DOMAIN uses /\ msg.content[q] = uses[q - Len(texts)] /\ q \in Int
    BY <1>11 DEF Twice
  <2>2. p - Len(texts) = q - Len(texts)
    BY <1>9, <2>1 DEF Twice, SameCall
  <2> QED BY <1>10, <2>1, <2>2
<1>13. UseIds(msg) = PendingIds
  <2>1. ASSUME NEW id \in UseIds(msg) PROVE id \in PendingIds
    <3>1. PICK p \in DOMAIN msg.content : IsUse(msg.content[p]) /\ id = msg.content[p].id
      BY <2>1 DEF UseIds, ToSet
    <3>2. PICK q \in DOMAIN uses : id = uses[q].id
      BY <1>11, <3>1 DEF IsUse
    <3> QED BY <1>3, <1>7, <3>2 DEF PendingIds
  <2>2. ASSUME NEW id \in PendingIds PROVE id \in UseIds(msg)
    <3>1. PICK p \in DOMAIN pending : IsUse(pending[p]) /\ id = pending[p].id
      BY <2>2 DEF PendingIds
    <3>2. PICK q \in DOMAIN uses : uses[q] = pending[p]
      BY <1>4, <1>8, <3>1
    <3>3. Len(texts) + q \in DOMAIN msg.content /\ msg.content[Len(texts) + q] = uses[q]
      BY <1>10
    <3> QED BY <3>1, <3>2, <3>3 DEF UseIds, ToSet
  <2> QED BY <2>1, <2>2
<1>14. ResultIds(msg) = {}
  BY <1>9, <1>11 DEF ResultIds, ToSet, IsResult, IsUse
<1>15. msg.content # <<>>
  <2>1. 1 \in DOMAIN pending
    BY <1>1
  <2>2. \E q \in DOMAIN uses \cup DOMAIN texts : TRUE
    <3>1. CASE 1 \in usePlaces
      BY <1>8, <3>1
    <3>2. CASE 1 \in textPlaces
      BY <1>1, <2>1, <3>2, SelectedIs DEF texts
    <3> QED BY <1>1, <2>1, <3>1, <3>2
  <2>3. \E p : p \in DOMAIN msg.content
    BY <1>10, <2>2
  <2>4. ~ \E p : p \in DOMAIN <<>>
    OBVIOUS
  <2> QED BY <2>3, <2>4
<1>16. Appendable(conv, msg)
  BY <1>12, <1>13, <1>14, <1>15 DEF Appendable, PendingOnce
<1>17. PendingCalls = [q \in DOMAIN uses |-> uses[q].id]
  BY DEF PendingCalls, uses
<1>18. \A k, l \in DOMAIN PendingCalls : PendingCalls[k] = PendingCalls[l] => k = l
  BY <1>9, <1>17
<1>19. ToSet(PendingCalls) \subseteq PendingIds
  <2> SUFFICES ASSUME NEW q \in DOMAIN uses PROVE uses[q].id \in PendingIds
    BY <1>17 DEF ToSet
  <2> QED BY <1>3, <1>7 DEF PendingIds
<1>20. msg \in Messages(Fragments, Ids, Ids)
  <2>1. msg \in Messages(Fragments, Ids, {})
    BY <1>1, PendingIs DEF msg, B
  <2> QED BY <2>1, ChainsGrow
<1> QED BY <1>13, <1>14, <1>16, <1>18, <1>19, <1>20 DEF msg

LEMMA ResultsFit ==
  ASSUME NEW msgs, NEW r \in Runs, NEW k \in Nat \ {0}, k <= Len(calls[r]), calls[r] \in Seq(Ids),
         StillOpen(calls[r], msgs)
  PROVE  /\ Appendable(msgs, ResultsMessage(r, k))
         /\ UseIds(ResultsMessage(r, k)) = {}
         /\ ResultIds(ResultsMessage(r, k)) = {calls[r][i] : i \in 1..k}
<1> DEFINE msg == ResultsMessage(r, k)
<1>1. /\ DOMAIN msg.content = 1..k
      /\ \A i \in 1..k : /\ msg.content[i] = ToolResultBlock(calls[r][i]) /\ i \in DOMAIN calls[r]
                         /\ msg.content[i].id = calls[r][i]
                         /\ IsResult(msg.content[i]) /\ ~IsUse(msg.content[i])
  BY DEF ResultsMessage, UserMessage, Message, ToolResultBlock, IsResult, IsUse
<1> HIDE DEF msg
<1>2. UseIds(msg) = {} /\ ResultIds(msg) = {calls[r][i] : i \in 1..k}
  BY <1>1, SMTT(30) DEF UseIds, ResultIds, ToSet
<1>3. ResultIds(msg) \subseteq ToSet(calls[r])
  BY <1>1, <1>2 DEF ToSet
<1>4. \A p, q \in DOMAIN msg.content : Twice(msg.content[p], msg.content[q]) => p = q
  BY <1>1 DEF StillOpen, Twice, SameCall
<1>5. msg.content # <<>>
  <2>1. 1 \in DOMAIN msg.content
    BY <1>1
  <2>2. ~ \E p : p \in DOMAIN <<>>
    OBVIOUS
  <2> QED BY <2>1, <2>2
<1> QED BY <1>2, <1>3, <1>4, <1>5 DEF Appendable, StillOpen, msg

-----------------------------------------------------------------------------
LEMMA NothingOnce ==
  /\ Clean(<<>>)
  /\ pending = <<>> => PendingOnce
  /\ \A msgs : StillOpen(<<>>, msgs)
BY DEF Clean, Distinct, AllResultIds, AllUseIds, ToSet, PendingOnce, PendingIds, StillOpen

LEMMA UsesAre ==
  ASSUME NEW I, NEW H, NEW msgs \in Chains(Fragments, I, H)
  PROVE  AllUseIds(msgs) \subseteq I
<1> SUFFICES ASSUME NEW id \in AllUseIds(msgs) PROVE id \in I
  OBVIOUS
<1>1. PICK i \in DOMAIN msgs : \E p \in DOMAIN msgs[i].content :
             IsUse(msgs[i].content[p]) /\ id = msgs[i].content[p].id
  BY IdsAreAt
<1>2. PICK p \in DOMAIN msgs[i].content : IsUse(msgs[i].content[p]) /\ id = msgs[i].content[p].id
  BY <1>1
<1>3. msgs[i].content[p] \in BlocksOf(Fragments, I, H)
  BY ChainIs
<1> QED BY <1>2, <1>3 DEF BlocksOf, TextBlocks, IdBlocks, IsUse

LEMMA AppendedOnce ==
  ASSUME NEW T, NEW seq \in Seq(T), NEW x
  PROVE  /\ \A q \in DOMAIN Append(seq, x) :
              Append(seq, x)[q] = x \/ (q \in DOMAIN seq /\ Append(seq, x)[q] = seq[q])
         /\ \A p, q \in DOMAIN Append(seq, x) : p \notin DOMAIN seq /\ q \notin DOMAIN seq => p = q
         /\ \A q \in DOMAIN seq : Append(seq, x)[q] = seq[q]
<1> DEFINE longer == Append(seq, x)
<1>1. seq \in Seq(T \cup {x}) /\ x \in T \cup {x} /\ Len(seq) \in Nat /\ DOMAIN seq = 1..Len(seq)
  BY SeqGrows
<1>2. longer \in Seq(T \cup {x}) /\ Len(longer) = Len(seq) + 1 /\ \A i \in 1..Len(seq) : longer[i] = seq[i]
  BY <1>1, AppendProperties
<1> HIDE DEF longer
<1>3. DOMAIN longer = 1..(Len(seq) + 1)
  BY <1>2
<1>4. \A p, q \in DOMAIN longer : p \notin DOMAIN seq /\ q \notin DOMAIN seq => p = q
  BY <1>1, <1>3
<1>5. \A q \in DOMAIN seq : longer[q] = seq[q]
  BY <1>1, <1>2
<1> QED BY <1>4, <1>5, AppendedIs DEF longer

LEMMA RestAt ==
  ASSUME NEW T, NEW seq \in Seq(T), NEW k \in Nat, k <= Len(seq)
  PROVE  \A i \in DOMAIN SubSeq(seq, k + 1, Len(seq)) :
           k + i \in DOMAIN seq /\ SubSeq(seq, k + 1, Len(seq))[i] = seq[k + i] /\ i \in Nat \ {0}
<1> DEFINE rest == SubSeq(seq, k + 1, Len(seq))
<1>1. /\ rest \in Seq(T) /\ Len(rest) = Len(seq) - k /\ Len(seq) - k \in Nat
      /\ \A i \in 1..(Len(seq) - k) : rest[i] = seq[k + i] /\ k + i \in DOMAIN seq
  OBVIOUS
<1> HIDE DEF rest
<1>2. DOMAIN rest = 1..(Len(seq) - k)
  BY <1>1
<1>3. \A i \in DOMAIN rest : k + i \in DOMAIN seq /\ rest[i] = seq[k + i] /\ i \in Nat \ {0}
  BY <1>1, <1>2
<1> QED BY <1>3 DEF rest

LEMMA OnceInit == Init => OnceInv
<1> SUFFICES ASSUME Init PROVE OnceInv
  OBVIOUS
<1>1. conv = <<>> /\ pending = <<>> /\ \A r \in Runs : calls[r] = <<>>
  BY DEF Init
<1>2. ToSet(<<>>) = {}
  BY DEF ToSet
<1> QED BY <1>1, <1>2, NothingOnce DEF OnceInv

(* A chain is what it was, or grew by one message, or was repaired.        *)
LEMMA RepairedIs ==
  ASSUME NEW n \in Nat, NEW I \in SUBSET (1..n), NEW msgs \in Chains(Fragments, I, I), Clean(msgs)
  PROVE  \/ RepairChain(msgs) = msgs
         \/ \E msg \in Messages(Fragments, I, I) : /\ RepairChain(msgs) = AppendMessage(msgs, msg) /\ Appendable(msgs, msg)
                                        /\ msg = UserMessage(Placeholders(Unanswered(msgs)))
                                        /\ UseIds(msg) = {} /\ ResultIds(msg) = Unanswered(msgs)
                                        /\ Unanswered(msgs) # {}
<1>1. DropInvalidBlocks(msgs) = msgs
  BY CleanIsKept
<1> DEFINE msg == UserMessage(Placeholders(Unanswered(msgs)))
<1>2. CASE Unanswered(msgs) = {}
  BY <1>1, <1>2 DEF RepairChain
<1>3. CASE Unanswered(msgs) # {}
  <2>1. RepairChain(msgs) = AppendMessage(msgs, msg)
    BY <1>1, <1>3 DEF RepairChain
  <2>2. msg \in Messages(Fragments, I, I) /\ Appendable(msgs, msg) /\ UseIds(msg) = {} /\ ResultIds(msg) = Unanswered(msgs)
    BY <1>3, PlaceholdersFit
  <2> QED BY <1>3, <2>1, <2>2
<1> QED BY <1>2, <1>3

LEMMA RestoredIsClean ==
  ASSUME NEW n \in Nat, NEW I \in SUBSET (1..n), file \in Seq(FileLines(I))
  PROVE  Clean(Restored)
<1>1. Parsed(file) \in Chains(Fragments, I, I)
  BY ParsedIs
<1>2. Clean(RepairChain(Parsed(file))) /\ RepairChain(Parsed(file)) \in Chains(Fragments, I, I)
  BY <1>1, RepairIs, RepairIsClean
<1>3. Clean(AppendMessage(RepairChain(Parsed(file)), SnapshotMessage))
  BY <1>2, TextAdded, FixedAreText, FixedMessages
<1> QED BY <1>2, <1>3 DEF Restored

(* A turn that begins finds no tools of another run out: then a repair     *)
(* answers nothing that is still to be answered.                           *)
BeginsAlone == \A r \in Runs : BeginTurn(r) => \A s \in Runs \ {r} : calls[s] = <<>>

LEMMA OnceKept ==
  ASSUME TypeOK, CallsInv, OnceInv, Next, BeginsAlone
  PROVE  OnceInv'
<1> DEFINE n == nextId - 1
<1>1. n \in Nat /\ Ids \in SUBSET (1..n) /\ conv \in Chains(Fragments, Ids, Ids) /\ Clean(conv)
  BY DEF TypeOK, Ids, OnceInv
<1> HIDE DEF n
<1>2. \A r \in Runs : calls[r] \in Seq(Ids)
  BY DEF TypeOK
<1>3. ToSet(<<>>) = {}
  BY DEF ToSet
<1>4. ASSUME NEW msg \in Messages(Fragments, Ids, Ids), OnlyText(msg), conv' = AppendMessage(conv, msg),
             calls' = calls, pending' = pending \/ pending' = <<>>
      PROVE  OnceInv'
  <2>1. Clean(conv') /\ AllUseIds(conv') = AllUseIds(conv) /\ AllResultIds(conv') = AllResultIds(conv)
    BY <1>1, <1>4, TextAdded
  <2>2. PendingOnce'
    BY <1>4, <2>1 DEF PendingOnce, PendingIds, OnceInv
  <2> QED BY <1>4, <2>1, <2>2 DEF OnceInv, StillOpen
<1>5. ASSUME Clean(conv'), pending' = <<>>, \A r \in Runs : calls'[r] = <<>> PROVE OnceInv'
  <2>1. PendingOnce'
    BY <1>5 DEF PendingOnce, PendingIds
  <2> QED BY <1>3, <1>5, <2>1, NothingOnce DEF OnceInv
<1>6. ASSUME NEW r \in Runs, StartRun(r) PROVE OnceInv'
  BY <1>4, <1>6, FixedMessages, FixedAreText DEF StartRun, AddAndFlush
<1>7. ASSUME NEW r \in Runs, BeginTurn(r) PROVE OnceInv'
  <2>1. Clean(conv') /\ pending' = <<>>
    BY <1>1, <1>7, RepairIsClean DEF BeginTurn
  <2>2. \A s \in Runs : calls'[s] = <<>>
    BY <1>7 DEF BeginTurn, CallsInv, BeginsAlone
  <2> QED BY <1>5, <2>1, <2>2
<1>8. ASSUME NEW r \in Runs, StreamBlock(r) PROVE OnceInv'
  <2>1. conv' = conv /\ calls' = calls /\ PendingOnce
    BY <1>8 DEF StreamBlock, OnceInv
  <2>2. CASE pending = <<>> /\ pending' = <<TextBlock(<<"reply">>)>>
    <3>1. PendingOnce'
      BY <2>2 DEF PendingOnce, PendingIds, TextBlock, IsUse, Twice
    <3> QED BY <2>1, <3>1 DEF OnceInv
  <2>3. CASE pending' = Append(pending, ToolUseBlock(nextId))
    <3> DEFINE b == ToolUseBlock(nextId)
    <3>1. pending \in Seq(BlocksOf(Fragments, Ids, {})) /\ nextId \in Nat /\ nextId \notin Ids
      BY DEF TypeOK, Ids
    <3>2. /\ \A q \in DOMAIN pending' :
               pending'[q] = b \/ (q \in DOMAIN pending /\ pending'[q] = pending[q])
          /\ \A p, q \in DOMAIN pending' : p \notin DOMAIN pending /\ q \notin DOMAIN pending => p = q
          /\ \A q \in DOMAIN pending : pending'[q] = pending[q]
      BY <2>3, <3>1, AppendedOnce
    <3>3. b.kind = "use" /\ b.id = nextId /\ IsUse(b)
      BY DEF ToolUseBlock, IsUse
    <3> HIDE DEF b
    <3>4. \A q \in DOMAIN pending : pending[q].kind # "text" => pending[q].id \in Ids
      <4>1. \A q \in DOMAIN pending : pending[q] \in BlocksOf(Fragments, Ids, {})
        BY <3>1
      <4> QED BY <4>1, KindsAre
    <3>5. \A p, q \in DOMAIN pending' : Twice(pending'[p], pending'[q]) => p = q
      <4> SUFFICES ASSUME NEW p \in DOMAIN pending', NEW q \in DOMAIN pending', Twice(pending'[p], pending'[q])
                   PROVE  p = q
        OBVIOUS
      <4>1. CASE p \in DOMAIN pending /\ q \in DOMAIN pending
        BY <2>1, <3>2, <4>1 DEF PendingOnce
      <4>2. CASE p \in DOMAIN pending /\ q \notin DOMAIN pending
        BY <3>1, <3>2, <3>3, <3>4, <4>2 DEF Twice, SameCall
      <4>3. CASE p \notin DOMAIN pending /\ q \in DOMAIN pending
        BY <3>1, <3>2, <3>3, <3>4, <4>3 DEF Twice, SameCall
      <4>4. CASE p \notin DOMAIN pending /\ q \notin DOMAIN pending
        BY <3>2, <4>4
      <4> QED BY <4>1, <4>2, <4>3, <4>4
    <3>6. PendingIds' \subseteq PendingIds \cup {nextId}
      BY <3>2, <3>3 DEF PendingIds
    <3>7. nextId \notin AllUseIds(conv)
      BY <1>1, <3>1, UsesAre
    <3>8. PendingOnce'
      BY <2>1, <3>2, <3>3, <3>5, <3>6, <3>7 DEF PendingOnce
    <3> QED BY <2>1, <3>8 DEF OnceInv
  <2> QED BY <1>8, <2>2, <2>3 DEF StreamBlock
<1>9. ASSUME NEW r \in Runs, RetryTransient(r) \/ EndEmptyReply(r) PROVE OnceInv'
  <2>1. conv' = conv /\ calls' = calls /\ pending' = <<>>
    BY <1>9 DEF RetryTransient, EndEmptyReply
  <2>2. PendingOnce'
    BY <2>1 DEF PendingOnce, PendingIds
  <2> QED BY <2>1, <2>2 DEF OnceInv
<1>10. ASSUME NEW r \in Runs, RetryTruncated(r) PROVE OnceInv'
  BY <1>4, <1>10, FixedMessages, FixedAreText DEF RetryTruncated, AddAndFlush
<1>11. ASSUME pending # <<>>, conv' = AppendMessage(conv, PendingMessage)
       PROVE  /\ Clean(conv')
              /\ StillOpen(PendingCalls, conv')
              /\ AllUseIds(conv) \subseteq AllUseIds(conv') /\ AllResultIds(conv') = AllResultIds(conv)
              /\ ToSet(PendingCalls) \subseteq PendingIds
  <2>1. /\ PendingMessage \in Messages(Fragments, Ids, Ids) /\ Appendable(conv, PendingMessage)
        /\ UseIds(PendingMessage) = PendingIds /\ ResultIds(PendingMessage) = {}
        /\ ToSet(PendingCalls) \subseteq PendingIds
        /\ \A k, l \in DOMAIN PendingCalls : PendingCalls[k] = PendingCalls[l] => k = l
    BY <1>1, <1>11, PendingFits DEF OnceInv
  <2>2. Clean(conv')
    BY <1>1, <1>11, <2>1, AppendIsClean
  <2> HIDE DEF n
  <2>3. /\ AllUseIds(conv') = AllUseIds(conv) \cup PendingIds
        /\ AllResultIds(conv') = AllResultIds(conv)
    <3>1. ASSUME NEW msg \in Messages(Fragments, Ids, Ids)
          PROVE  /\ AllUseIds(AppendMessage(conv, msg)) = AllUseIds(conv) \cup UseIds(msg)
                 /\ AllResultIds(AppendMessage(conv, msg)) = AllResultIds(conv) \cup ResultIds(msg)
      BY <1>1, AppendIds
    <3> QED BY <1>11, <2>1, <3>1
  <2>4. ToSet(PendingCalls) \subseteq AllUseIds(conv') \ AllResultIds(conv')
    BY <1>1, <2>1, <2>3 DEF OnceInv, PendingOnce, Clean
  <2> QED BY <2>1, <2>2, <2>3, <2>4 DEF StillOpen
<1>12. ASSUME NEW r \in Runs, EndReply(r) PROVE OnceInv'
  <2>1. /\ r \in Active /\ pending' = <<>>
        /\ \A s \in Runs : calls'[s] = IF s = r THEN PendingCalls ELSE calls[s]
    BY <1>12 DEF EndReply, Streaming, Active, TypeOK
  <2>2. Clean(conv') /\ StillOpen(PendingCalls, conv')
    BY <1>11, <1>12 DEF EndReply, AddAndFlush
  <2>3. \A s \in Runs : StillOpen(calls'[s], conv')
    BY <1>11, <1>12, <2>1, <2>2 DEF EndReply, AddAndFlush, OnceInv, StillOpen
  <2>4. PendingOnce'
    BY <2>1 DEF PendingOnce, PendingIds
  <2>5. \A s \in Runs : ToSet(PendingCalls) \cap ToSet(calls[s]) = {}
    BY <1>11, <1>12 DEF EndReply, AddAndFlush, OnceInv, PendingOnce, StillOpen
  <2>6. \A s, t \in Runs : s # t => ToSet(calls'[s]) \cap ToSet(calls'[t]) = {}
    BY <2>1, <2>5 DEF OnceInv
  <2> QED BY <2>2, <2>3, <2>4, <2>6 DEF OnceInv
<1>13. ASSUME NEW r \in Runs, StopRun(r) PROVE OnceInv'
  <2>1. /\ r \in Active /\ pending' = <<>>
        /\ \A s \in Runs : calls'[s] = IF s = r THEN <<>> ELSE calls[s]
    BY <1>13 DEF StopRun, TypeOK
  <2>2. /\ Clean(conv') /\ AllUseIds(conv) \subseteq AllUseIds(conv')
        /\ AllResultIds(conv') = AllResultIds(conv)
    BY <1>1, <1>11, <1>13 DEF StopRun, AddAndFlush
  <2>3. \A s \in Runs : StillOpen(calls'[s], conv')
    BY <2>1, <2>2, NothingOnce DEF OnceInv, StillOpen
  <2>4. PendingOnce'
    BY <2>1 DEF PendingOnce, PendingIds
  <2>5. \A s, t \in Runs : s # t => ToSet(calls'[s]) \cap ToSet(calls'[t]) = {}
    BY <1>3, <2>1 DEF OnceInv
  <2> QED BY <2>2, <2>3, <2>4, <2>5 DEF OnceInv
<1>14. ASSUME NEW r \in Runs, NEW k \in 1..MaxBlocks, FinishBatch(r, k) PROVE OnceInv'
  <2> DEFINE msg == ResultsMessage(r, k)
             rest == SubSeq(calls[r], k + 1, Len(calls[r]))
  <2>1. k \in Nat \ {0} /\ k <= Len(calls[r]) /\ calls[r] \in Seq(Ids) /\ r \in Active
    BY <1>2, <1>14, SessionStoreAssumption DEF FinishBatch, Active
  <2>2. /\ conv' = AppendMessage(conv, msg) /\ pending' = pending
        /\ \A s \in Runs : calls'[s] = IF s = r THEN rest ELSE calls[s]
    BY <1>14 DEF FinishBatch, AddAndFlush, TypeOK
  <2>3. /\ msg \in Messages(Fragments, Ids, Ids) /\ Appendable(conv, msg) /\ UseIds(msg) = {}
        /\ ResultIds(msg) = {calls[r][i] : i \in 1..k}
    BY <2>1, ResultsAre, ResultsFit DEF OnceInv
  <2> HIDE DEF msg
  <2>4. Clean(conv')
    BY <1>1, <2>2, <2>3, AppendIsClean
  <2>5. /\ AllUseIds(conv') = AllUseIds(conv)
        /\ AllResultIds(conv') = AllResultIds(conv) \cup {calls[r][i] : i \in 1..k}
    <3> HIDE DEF rest
    <3>1. ASSUME NEW m \in Messages(Fragments, Ids, Ids)
          PROVE  /\ AllUseIds(AppendMessage(conv, m)) = AllUseIds(conv) \cup UseIds(m)
                 /\ AllResultIds(AppendMessage(conv, m)) = AllResultIds(conv) \cup ResultIds(m)
      BY <1>1, AppendIds
    <3>2. conv' = AppendMessage(conv, msg)
      BY <2>2
    <3> QED BY <2>3, <3>1, <3>2
  <2>6. StillOpen(rest, conv')
    <3>1. /\ \A x, y \in DOMAIN calls[r] : calls[r][x] = calls[r][y] => x = y
          /\ ToSet(calls[r]) \subseteq AllUseIds(conv) \ AllResultIds(conv)
      BY DEF OnceInv, StillOpen
    <3>2. \A i \in DOMAIN rest : k + i \in DOMAIN calls[r] /\ rest[i] = calls[r][k + i] /\ i \in Nat \ {0}
      BY <2>1, RestAt
    <3>3. \A i \in 1..k : i \in DOMAIN calls[r] /\ i \in Nat /\ i <= k
      BY <2>1
    <3> HIDE DEF rest
    <3>4. \A x, y \in DOMAIN rest : rest[x] = rest[y] => x = y
      BY <2>1, <3>1, <3>2
    <3>5. ASSUME NEW x \in DOMAIN rest
          PROVE  rest[x] \in ToSet(calls[r]) /\ rest[x] \notin {calls[r][i] : i \in 1..k}
      <4>1. rest[x] \in ToSet(calls[r])
        BY <3>2 DEF ToSet
      <4>2. ASSUME NEW i \in 1..k PROVE rest[x] # calls[r][i]
        <5>1. k + x # i
          BY <2>1, <3>2, <3>3
        <5> QED BY <3>1, <3>2, <3>3, <5>1
      <4> QED BY <4>1, <4>2
    <3>6. ToSet(rest) \subseteq AllUseIds(conv') \ AllResultIds(conv')
      BY <2>5, <3>1, <3>5 DEF ToSet
    <3> QED BY <3>4, <3>6 DEF StillOpen
  <2>7. \A s \in Runs : StillOpen(calls'[s], conv')
    <3>1. {calls[r][i] : i \in 1..k} \subseteq ToSet(calls[r])
      BY <2>1 DEF ToSet
    <3>2. ASSUME NEW s \in Runs \ {r} PROVE StillOpen(calls[s], conv')
      BY <2>5, <3>1 DEF OnceInv, StillOpen
    <3> QED BY <2>2, <2>6, <3>2
  <2>8. PendingOnce'
    BY <2>2, <2>5 DEF OnceInv, PendingOnce, PendingIds
  <2>9. \A s, t \in Runs : s # t => ToSet(calls'[s]) \cap ToSet(calls'[t]) = {}
    <3>1. \A s \in Runs : ToSet(calls'[s]) \subseteq ToSet(calls[s])
      BY <2>1, <2>2, RestIs
    <3> QED BY <3>1 DEF OnceInv
  <2> QED BY <2>4, <2>7, <2>8, <2>9 DEF OnceInv
<1>15. CASE TaskNotice
  BY <1>4, <1>15, FixedMessages, FixedAreText DEF TaskNotice
<1>16. ASSUME GoDown PROVE OnceInv'
  <2>1. Clean(<<>>)
    BY DEF Clean, Distinct, AllResultIds, AllUseIds, ToSet
  <2> QED BY <1>5, <1>16, <2>1 DEF GoDown
<1>17. CASE Resume
  <2>1. Clean(Restored) /\ Restored \in Chains(Fragments, Ids, Ids)
    BY <1>1, RestoredIs, RestoredIsClean DEF TypeOK
  <2>2. Clean(AppendMessage(Restored, StaleMessage))
    BY <2>1, TextAdded, FixedAreText, FixedMessages
  <2>3. pending' = <<>> /\ \A r \in Runs : calls'[r] = <<>>
    BY <1>17 DEF Resume, CallsInv
  <2> QED BY <1>5, <1>17, <2>1, <2>2, <2>3 DEF Resume
<1> QED BY <1>6, <1>7, <1>8, <1>9, <1>10, <1>12, <1>13, <1>14, <1>15, <1>16, <1>17 DEF Next, Crash, CrashInFlush

LEMMA OnceStep ==
  ASSUME MaxConcurrent = 1, TypeOK, AloneInv, OnceInv, Next
  PROVE  OnceInv'
<1>1. ASSUME NEW r \in Runs, BeginTurn(r), NEW s \in Runs \ {r} PROVE calls[s] = <<>>
  BY <1>1 DEF BeginTurn, AloneInv, Active
<1> QED BY <1>1, AloneCalls, OnceKept DEF BeginsAlone

-----------------------------------------------------------------------------
LEMMA MoreBlocks ==
  ASSUME NEW old, NEW new, Blocks(old) \subseteq Blocks(new)
  PROVE  Items(old) \subseteq Items(new) /\ Precious(old) \subseteq Precious(new)
<1>1. Items(old) \subseteq Items(new)
  BY DEF Items
<1> QED BY <1>1 DEF Precious

LEMMA NothingLeaves ==
  ASSUME TypeOK, OnceInv, Next, up, up'
  PROVE  Blocks(conv) \subseteq Blocks(conv')
<1> DEFINE n == nextId - 1
<1>1. n \in Nat /\ Ids \in SUBSET (1..n) /\ conv \in Chains(Fragments, Ids, Ids) /\ Clean(conv)
  BY DEF TypeOK, Ids, OnceInv
<1> HIDE DEF n
<1>2. ASSUME NEW msg \in Messages(Fragments, Ids, Ids)
      PROVE  Blocks(conv) \subseteq Blocks(AppendMessage(conv, msg))
  BY <1>1, AppendIds
<1>3. CASE conv' = conv
  BY <1>3
<1>4. ASSUME NEW msg \in Messages(Fragments, Ids, Ids), conv' = AppendMessage(conv, msg)
      PROVE  Blocks(conv) \subseteq Blocks(conv')
  BY <1>2, <1>4
<1>5. ASSUME NEW r \in Runs, StartRun(r) \/ RetryTruncated(r) PROVE Blocks(conv) \subseteq Blocks(conv')
  BY <1>4, <1>5, FixedMessages DEF StartRun, RetryTruncated, AddAndFlush
<1>6. ASSUME NEW r \in Runs, BeginTurn(r) PROVE Blocks(conv) \subseteq Blocks(conv')
  <2>1. conv' = RepairChain(conv)
    BY <1>6 DEF BeginTurn
  <2>2. \/ RepairChain(conv) = conv
        \/ \E msg \in Messages(Fragments, Ids, Ids) : RepairChain(conv) = AppendMessage(conv, msg)
    BY <1>1, RepairedIs
  <2> QED BY <1>2, <2>1, <2>2
<1>7. PendingMessage \in Messages(Fragments, Ids, Ids)
  <2>1. PendingMessage \in Messages(Fragments, Ids, {})
    BY PendingIs DEF TypeOK
  <2> QED BY <2>1, ChainsGrow
<1>8. ASSUME NEW r \in Runs, EndReply(r) \/ StopRun(r) PROVE Blocks(conv) \subseteq Blocks(conv')
  BY <1>3, <1>4, <1>7, <1>8 DEF EndReply, StopRun, AddAndFlush
<1>9. ASSUME NEW r \in Runs, NEW k \in 1..MaxBlocks, FinishBatch(r, k) PROVE Blocks(conv) \subseteq Blocks(conv')
  <2>1. k \in Nat /\ k <= Len(calls[r]) /\ calls[r] \in Seq(Ids)
    BY <1>9, SessionStoreAssumption DEF FinishBatch, TypeOK
  <2>2. ResultsMessage(r, k) \in Messages(Fragments, Ids, Ids)
    BY <2>1, ResultsAre, ChainsGrow
  <2>3. conv' = AppendMessage(conv, ResultsMessage(r, k))
    BY <1>9 DEF FinishBatch, AddAndFlush
  <2> QED BY <1>4, <2>2, <2>3
<1>10. CASE TaskNotice
  BY <1>4, <1>10, FixedMessages DEF TaskNotice
<1>11. ASSUME NEW r \in Runs, StreamBlock(r) \/ RetryTransient(r) \/ EndEmptyReply(r)
       PROVE  Blocks(conv) \subseteq Blocks(conv')
  BY <1>3, <1>11 DEF StreamBlock, RetryTransient, EndEmptyReply
<1>12. ~GoDown /\ ~Resume
  BY DEF GoDown, Resume
<1> QED BY <1>5, <1>6, <1>8, <1>9, <1>10, <1>11, <1>12 DEF Next, Crash, CrashInFlush

(* Runs beside each other, as long as none begins a turn while another's   *)
(* tools are out.                                                          *)
BesideInv == CallsInv /\ (beside # "tools" => OnceInv)

LEMMA BesideInvariant == Spec => [](TypeOK /\ BesideInv)
<1>1. Init => TypeOK /\ BesideInv
  BY TypeInit, CallsInit, OnceInit DEF BesideInv
<1>2. TypeOK /\ BesideInv /\ [Next]_vars => (TypeOK /\ BesideInv)'
  <2> SUFFICES ASSUME TypeOK, BesideInv, [Next]_vars PROVE (TypeOK /\ BesideInv)'
    OBVIOUS
  <2>1. CASE Next
    <3>1. TypeOK' /\ CallsInv'
      BY <2>1, TypeStep, CallsStep DEF BesideInv
    <3>2. ASSUME beside' # "tools" PROVE OnceInv'
      <4>1. CASE GoDown
        <5>1. conv' = <<>> /\ pending' = <<>> /\ \A r \in Runs : calls'[r] = <<>>
          BY <4>1 DEF GoDown
        <5>2. PendingOnce' /\ ToSet(<<>>) = {}
          BY <5>1 DEF PendingOnce, PendingIds, ToSet
        <5> QED BY <5>1, <5>2, NothingOnce DEF OnceInv
      <4>2. CASE ~GoDown
        <5>1. ASSUME NEW r \in Runs, BeginTurn(r) PROVE \A s \in Runs \ {r} : calls[s] = <<>>
          BY <3>2, <5>1 DEF BeginTurn
        <5>2. beside = "tools" => beside' = "tools"
          <6>1. CASE \E r \in Runs : \/ StartRun(r) \/ BeginTurn(r) \/ StreamBlock(r)
                                     \/ RetryTransient(r) \/ RetryTruncated(r) \/ EndEmptyReply(r)
            BY <6>1 DEF StartRun, BeginTurn, StreamBlock, RetryTransient, RetryTruncated, EndEmptyReply
          <6>2. CASE \E r \in Runs : \/ EndReply(r) \/ StopRun(r)
                                     \/ \E k \in 1..MaxBlocks : FinishBatch(r, k)
            BY <6>2 DEF EndReply, StopRun, FinishBatch
          <6>3. CASE TaskNotice \/ Resume
            BY <6>3 DEF TaskNotice, Resume
          <6> QED BY <2>1, <4>2, <6>1, <6>2, <6>3 DEF Next, Crash, CrashInFlush
        <5>3. beside # "tools"
          BY <3>2, <5>2
        <5> QED BY <2>1, <5>1, <5>3, OnceKept DEF BesideInv, BeginsAlone
      <4> QED BY <4>1, <4>2
    <3> QED BY <3>1, <3>2 DEF BesideInv
  <2>2. CASE UNCHANGED vars
    <3>1. BesideInv'
      BY <2>2 DEF vars, BesideInv, CallsInv, OnceInv, PendingOnce, PendingIds
    <3> QED BY <3>1, TypeStep
  <2> QED BY <2>1, <2>2
<1> QED BY <1>1, <1>2, PTL DEF Spec

(* However many runs there are beside each other, and however often the    *)
(* process goes down: what repair_chain marks as never executed is a call  *)
(* of no run, as long as no turn has begun while another run's tools were  *)
(* out.  TwoRuns.cfg shows what happens then.                              *)
THEOREM PlaceholdersTrue == Spec => []PlaceholdersTellTruth
<1>1. TypeOK /\ BesideInv => PlaceholdersTellTruth
  <2> SUFFICES ASSUME OnceInv, NEW r \in Runs, NEW b \in Blocks(conv),
                      b.kind = "placeholder", b.id \in ToSet(calls[r])
               PROVE  FALSE
    BY DEF PlaceholdersTellTruth, RunningUnmarked, BesideInv
  <2>1. PICK m \in ToSet(conv) : b \in ToSet(m.content)
    BY DEF Blocks
  <2>2. b.id \in AllResultIds(conv)
    BY <2>1 DEF AllResultIds, ResultIds, IsResult
  <2> QED BY <2>2 DEF OnceInv, StillOpen
<1> QED BY <1>1, BesideInvariant, PTL

(* Likewise: what a tool returned and what the user wrote stay in the      *)
(* conversation for as long as the process is up.                          *)
THEOREM RepairLosesNothing == Spec => NothingRepairedAway
<1>1. TypeOK /\ BesideInv /\ [Next]_vars => [up /\ up' /\ beside # "tools" => Precious(conv) \subseteq Precious(conv')]_vars
  BY NothingLeaves, MoreBlocks DEF BesideInv
<1> QED BY <1>1, BesideInvariant, PTL DEF Spec, NothingRepairedAway

-----------------------------------------------------------------------------
(* What a chain records is what its messages record.                       *)
LEMMA ItemsAre ==
  ASSUME NEW msgs, NEW x
  PROVE  x \in Items(msgs) <=>
           \E i \in DOMAIN msgs : \E p \in DOMAIN msgs[i].content :
             LET b == msgs[i].content[p]
             IN  \/ \E r \in Runs : r \in ToSet(b.text) /\ x = Item("input", r, NoId)
                 \/ b.kind # "text" /\ x = Item(b.kind, NoInput, b.id)
<1> DEFINE Gives(b) == \/ \E r \in Runs : r \in ToSet(b.text) /\ x = Item("input", r, NoId)
                       \/ b.kind # "text" /\ x = Item(b.kind, NoInput, b.id)
<1>1. x \in Items(msgs) <=> \E b \in Blocks(msgs) : Gives(b)
  BY DEF Items
<1>2. \A b : b \in Blocks(msgs) <=> \E i \in DOMAIN msgs : \E p \in DOMAIN msgs[i].content : b = msgs[i].content[p]
  BY IdsAreAt
<1> HIDE DEF Gives
<1>3. x \in Items(msgs) <=> \E i \in DOMAIN msgs : \E p \in DOMAIN msgs[i].content : Gives(msgs[i].content[p])
  BY <1>1, <1>2
<1> QED BY <1>3 DEF Gives

(* The message by itself, as Extends looks at it.                          *)
Records(m, x) ==
  \E p \in DOMAIN m.content :
    \/ \E r \in Runs : r \in ToSet(m.content[p].text) /\ x = Item("input", r, NoId)
    \/ m.content[p].kind # "text" /\ x = Item(m.content[p].kind, NoInput, m.content[p].id)

LEMMA ItemsOf ==
  /\ \A m, x : x \in Items(<<m>>) <=> Records(m, x)
  /\ \A msgs, x : x \in Items(msgs) <=> \E i \in DOMAIN msgs : Records(msgs[i], x)
<1>1. \A msgs, x : x \in Items(msgs) <=> \E i \in DOMAIN msgs : Records(msgs[i], x)
  BY ItemsAre DEF Records
<1>2. ASSUME NEW m, NEW x PROVE x \in Items(<<m>>) <=> Records(m, x)
  <2> DEFINE one == <<m>>
  <2>1. DOMAIN one = {1} /\ one[1] = m
    OBVIOUS
  <2> HIDE DEF one
  <2>2. x \in Items(one) <=> Records(m, x)
    BY <1>1, <2>1
  <2> QED BY <2>2 DEF one
<1> QED BY <1>1, <1>2

LEMMA CallsRecorded ==
  ASSUME NEW I, NEW H, NEW msgs \in Chains(Fragments, I, H), NEW id
  PROVE  /\ id \in AllUseIds(msgs) <=> Item("use", NoInput, id) \in Items(msgs)
         /\ id \in AllResultIds(msgs) <=> \E kind \in {"result", "placeholder"} : Item(kind, NoInput, id) \in Items(msgs)
<1>1. \A i \in DOMAIN msgs : \A p \in DOMAIN msgs[i].content :
        msgs[i].content[p].kind \in {"text", "use", "result", "placeholder"}
  BY ChainIs, KindsAre
<1>2. \A kind : kind \in {"use", "result", "placeholder"} =>
        (Item(kind, NoInput, id) \in Items(msgs) <=>
           \E i \in DOMAIN msgs : \E p \in DOMAIN msgs[i].content :
              msgs[i].content[p].kind = kind /\ msgs[i].content[p].id = id)
  BY <1>1, ItemsAre DEF Item
<1> QED BY <1>2, IdsAreAt DEF IsUse, IsResult

LEMMA ExtendsIs ==
  /\ \A m : Extends(m, m)
  /\ \A a, b, c : Extends(a, b) /\ Extends(b, c) => Extends(a, c)
BY DEF Extends

LEMMA GrowsExtends ==
  ASSUME NEW I, NEW H, NEW msgs \in Chains(Fragments, I, H), NEW msg \in Messages(Fragments, I, H)
  PROVE  LET c == AppendMessage(msgs, msg)
         IN  /\ Len(c) \in Nat /\ Len(c) >= Len(msgs) /\ DOMAIN c = 1..Len(c) /\ Len(c) \in DOMAIN c
             /\ \A i \in DOMAIN msgs : i \in DOMAIN c /\ Extends(c[i], msgs[i])
             /\ Items(<<msg>>) \subseteq Items(<<c[Len(c)]>>)
<1> DEFINE c == AppendMessage(msgs, msg)
<1>1. PICK n, base \in Nat : Grown(msgs, msg, c, n, base)
  BY AppendGrows
<1>2. c \in Chains(Fragments, I, H)
  BY AppendIs
<1> HIDE DEF c
<1>3. Len(c) \in Nat /\ DOMAIN c = 1..Len(c) /\ Len(msgs) \in Nat
  BY <1>2, ChainIs
<1>4. Len(c) \in DOMAIN c /\ Len(c) >= Len(msgs)
  BY <1>1, <1>3 DEF Grown
<1>5. ASSUME NEW i \in DOMAIN msgs PROVE i \in DOMAIN c /\ Extends(c[i], msgs[i])
  <2>1. \A x : Records(msgs[i], x) => Records(c[i], x)
    BY <1>1 DEF Grown, Records
  <2> QED BY <1>1, <2>1, ItemsOf DEF Grown, Extends
<1>6. Items(<<msg>>) \subseteq Items(<<c[Len(c)]>>)
  <2>1. \A x : Records(msg, x) => Records(c[n], x)
    BY <1>1 DEF Grown, Records
  <2> QED BY <1>1, <2>1, ItemsOf DEF Grown
<1> QED BY <1>3, <1>4, <1>5, <1>6 DEF c

(* What is read again from a line has the calls and results of the message,*)
(* each once if it was so there, and all of its text in one block.         *)
Solid(m) == \E p \in DOMAIN m.content : m.content[p].kind # "text" \/ m.content[p].text # <<>>
Once(seq) == \A p, q \in DOMAIN seq : Twice(seq[p], seq[q]) => p = q
Apart(s, t) == \A p \in DOMAIN s, q \in DOMAIN t : ~Twice(s[p], t[q]) /\ ~Twice(t[q], s[p])
OnceIn(m) == Once(m.content)

(* Two parts, each with no call and no result twice, none in both.         *)
LEMMA JoinedOnce ==
  ASSUME NEW T, NEW s \in Seq(T), NEW t \in Seq(T),
         Once(s), Once(t), Apart(s, t)
  PROVE  Once(s \o t)
<1> DEFINE j == s \o t
<1>1. /\ Len(s) \in Nat
      /\ \A p \in DOMAIN j : \/ p \in DOMAIN s /\ j[p] = s[p]
                             \/ p - Len(s) \in DOMAIN t /\ j[p] = t[p - Len(s)] /\ p \in Int
  BY Joined
<1> HIDE DEF j
<1> SUFFICES ASSUME NEW p \in DOMAIN j, NEW q \in DOMAIN j, Twice(j[p], j[q]) PROVE p = q
  BY DEF j, Once
<1>2. CASE /\ p - Len(s) \in DOMAIN t /\ j[p] = t[p - Len(s)] /\ p \in Int
           /\ q - Len(s) \in DOMAIN t /\ j[q] = t[q - Len(s)] /\ q \in Int
  <2>1. p - Len(s) = q - Len(s)
    BY <1>2 DEF Once
  <2> QED BY <1>1, <1>2, <2>1
<1> QED BY <1>1, <1>2 DEF Once, Apart

LEMMA RereadSame ==
  ASSUME NEW I, NEW H, NEW m \in Messages(Fragments, I, H)
  PROVE  /\ Reread(m).role = m.role
         /\ \A x : Records(Reread(m), x) <=> Records(m, x)
         /\ Solid(m) => Solid(Reread(m))
         /\ OnceIn(m) => OnceIn(Reread(m))
<1> DEFINE B == BlocksOf(Fragments, I, H)
           joined == JoinedText(m)
           texts == [i \in DOMAIN m.content |-> m.content[i].text]
           text == IF joined = <<>> THEN <<>> ELSE <<TextBlock(joined)>>
           old == m.content
           calls1 == CallsOf(old)
           answers == AnswersOf(old)
           head == text \o calls1
           new == head \o answers
<1>1. old \in Seq(B) /\ Reread(m).content = new /\ Reread(m).role = m.role
  BY DEF Messages, Reread, Message
<1>2. \A p \in DOMAIN old : old[p] \in B
  BY <1>1
<1>3. \A p \in DOMAIN old : /\ old[p].text \in Seq(Fragments)
                            /\ old[p].kind \in {"text", "use", "result", "placeholder"}
                            /\ old[p].kind # "text" => old[p].text = <<>>
  <2>1. <<>> \in Seq(Fragments)
    OBVIOUS
  <2> QED BY <1>2, <2>1 DEF BlocksOf, TextBlocks, IdBlocks
<1>4. /\ joined \in Seq(Fragments)
      /\ \A i \in DOMAIN old : \A p \in DOMAIN old[i].text : \E q \in DOMAIN joined : joined[q] = old[i].text[p]
      /\ \A q \in DOMAIN joined : \E i \in DOMAIN old : \E p \in DOMAIN old[i].text : joined[q] = old[i].text[p]
  <2>1. texts \in Seq(Seq(Fragments)) /\ DOMAIN texts = DOMAIN old /\ \A i \in DOMAIN old : texts[i] = old[i].text
    <3>1. Len(old) \in Nat /\ DOMAIN old = 1..Len(old)
      BY <1>1
    <3>2. texts \in [1..Len(old) -> Seq(Fragments)]
      BY <1>3, <3>1
    <3> QED BY <3>1, <3>2
  <2>2. joined = Concat(texts)
    BY DEF JoinedText
  <2> HIDE DEF texts, joined, old
  <2>3. joined \in Seq(Fragments)
    BY <2>1, <2>2, ConcatIs
  <2>4. \A i \in DOMAIN texts : \A p \in DOMAIN texts[i] : \E q \in DOMAIN joined : joined[q] = texts[i][p]
    BY <2>1, <2>2, ConcatIs
  <2>5. \A q \in DOMAIN joined : \E i \in DOMAIN texts : \E p \in DOMAIN texts[i] : joined[q] = texts[i][p]
    BY <2>1, <2>2, ConcatIs
  <2>6. ASSUME NEW i \in DOMAIN old, NEW p \in DOMAIN old[i].text
        PROVE  \E q \in DOMAIN joined : joined[q] = old[i].text[p]
    <3>1. i \in DOMAIN texts /\ texts[i] = old[i].text
      BY <2>1
    <3> QED BY <2>4, <3>1
  <2>7. ASSUME NEW q \in DOMAIN joined
        PROVE  \E i \in DOMAIN old : \E p \in DOMAIN old[i].text : joined[q] = old[i].text[p]
    <3>1. PICK i \in DOMAIN texts : \E p \in DOMAIN texts[i] : joined[q] = texts[i][p]
      BY <2>5
    <3>2. i \in DOMAIN old /\ texts[i] = old[i].text
      BY <2>1
    <3> QED BY <3>1, <3>2
  <2> QED BY <2>3, <2>6, <2>7
<1> HIDE DEF joined
<1>5. TextBlock(joined) \in B
  BY <1>4 DEF TextBlock, BlocksOf, TextBlocks
<1> HIDE DEF B
<1>6. text \in Seq(B)
  BY <1>5
<1> DEFINE usePlaces == {p \in DOMAIN old : IsUse(old[p])}
           answerPlaces == {p \in DOMAIN old : IsResult(old[p])}
<1>7. calls1 = Selected(old, usePlaces) /\ answers = Selected(old, answerPlaces)
  BY DEF CallsOf, AnswersOf
<1> HIDE DEF calls1, answers, old
<1>8. /\ calls1 \in Seq(B)
      /\ \A i \in usePlaces : \E q \in DOMAIN calls1 : calls1[q] = old[i]
      /\ \E g \in [DOMAIN calls1 -> usePlaces] :
           /\ \A p, q \in DOMAIN calls1 : g[p] = g[q] => p = q
           /\ \A q \in DOMAIN calls1 : calls1[q] = old[g[q]]
  <2>1. usePlaces \subseteq DOMAIN old /\ usePlaces \cap DOMAIN old = usePlaces
    OBVIOUS
  <2> HIDE DEF usePlaces
  <2>2. calls1 \in Seq(B) /\ \A i \in usePlaces : \E q \in DOMAIN calls1 : calls1[q] = old[i]
    BY <1>1, <1>7, <2>1, SelectedIs
  <2>3. \E g \in [DOMAIN Selected(old, usePlaces) -> usePlaces \cap DOMAIN old] :
           /\ \A p, q \in DOMAIN Selected(old, usePlaces) : g[p] = g[q] => p = q
           /\ \A q \in DOMAIN Selected(old, usePlaces) : Selected(old, usePlaces)[q] = old[g[q]]
    BY <1>1, SelectedOnce
  <2> QED BY <1>7, <2>1, <2>2, <2>3
<1>9. /\ answers \in Seq(B)
      /\ \A i \in answerPlaces : \E q \in DOMAIN answers : answers[q] = old[i]
      /\ \E g \in [DOMAIN answers -> answerPlaces] :
           /\ \A p, q \in DOMAIN answers : g[p] = g[q] => p = q
           /\ \A q \in DOMAIN answers : answers[q] = old[g[q]]
  <2>1. answerPlaces \subseteq DOMAIN old /\ answerPlaces \cap DOMAIN old = answerPlaces
    OBVIOUS
  <2> HIDE DEF answerPlaces
  <2>2. answers \in Seq(B) /\ \A i \in answerPlaces : \E q \in DOMAIN answers : answers[q] = old[i]
    BY <1>1, <1>7, <2>1, SelectedIs
  <2>3. \E g \in [DOMAIN Selected(old, answerPlaces) -> answerPlaces \cap DOMAIN old] :
           /\ \A p, q \in DOMAIN Selected(old, answerPlaces) : g[p] = g[q] => p = q
           /\ \A q \in DOMAIN Selected(old, answerPlaces) : Selected(old, answerPlaces)[q] = old[g[q]]
    BY <1>1, SelectedOnce
  <2> QED BY <1>7, <2>1, <2>2, <2>3
<1>10. PICK g \in [DOMAIN calls1 -> usePlaces] :
           /\ \A p, q \in DOMAIN calls1 : g[p] = g[q] => p = q
           /\ \A q \in DOMAIN calls1 : calls1[q] = old[g[q]]
  BY <1>8
<1>11. PICK h \in [DOMAIN answers -> answerPlaces] :
           /\ \A p, q \in DOMAIN answers : h[p] = h[q] => p = q
           /\ \A q \in DOMAIN answers : answers[q] = old[h[q]]
  BY <1>9
<1>12. /\ \A q \in DOMAIN calls1 : g[q] \in DOMAIN old /\ calls1[q] = old[g[q]] /\ IsUse(calls1[q])
       /\ \A q \in DOMAIN answers : h[q] \in DOMAIN old /\ answers[q] = old[h[q]] /\ IsResult(answers[q])
  BY <1>10, <1>11
<1>13. \A q \in DOMAIN text : joined # <<>> /\ q = 1 /\ text[q] = TextBlock(joined)
  OBVIOUS
<1>14. joined # <<>> => 1 \in DOMAIN text /\ text[1] = TextBlock(joined)
  OBVIOUS
<1> HIDE DEF usePlaces, answerPlaces, text
<1>15. head \in Seq(B) /\ new \in Seq(B)
  BY <1>6, <1>8, <1>9
<1>23. \A q \in DOMAIN calls1 : Len(text) + q \in DOMAIN head /\ head[Len(text) + q] = calls1[q]
  <2>1. text \in Seq(B) /\ calls1 \in Seq(B)
    BY <1>6, <1>8
  <2>2. Follows(text, calls1)
    BY <2>1, JoinedAfter
  <2> QED BY <2>2 DEF Follows
<1>24. \A q \in DOMAIN answers : Len(head) + q \in DOMAIN new /\ new[Len(head) + q] = answers[q]
  <2> HIDE DEF head
  <2>1. head \in Seq(B) /\ answers \in Seq(B)
    BY <1>9, <1>15
  <2>2. Follows(head, answers)
    BY <2>1, JoinedAfter
  <2> QED BY <2>2 DEF Follows
<1>16. ASSUME NEW p \in DOMAIN new
       PROVE  \/ joined # <<>> /\ new[p] = TextBlock(joined)
              \/ \E i \in DOMAIN old : new[p] = old[i] /\ old[i].kind # "text"
  <2>1. \/ p \in DOMAIN head /\ new[p] = head[p]
        \/ p - Len(head) \in DOMAIN answers /\ new[p] = answers[p - Len(head)]
    <3> HIDE DEF head
    <3> QED BY <1>9, <1>15, Joined
  <2>2. CASE p \in DOMAIN head /\ new[p] = head[p]
    <3>1. \/ p \in DOMAIN text /\ head[p] = text[p]
          \/ p - Len(text) \in DOMAIN calls1 /\ head[p] = calls1[p - Len(text)]
      BY <1>6, <1>8, <2>2, Joined
    <3> QED BY <1>12, <1>13, <2>2, <3>1 DEF IsUse
  <2>3. CASE p - Len(head) \in DOMAIN answers /\ new[p] = answers[p - Len(head)]
    BY <1>12, <2>3 DEF IsResult
  <2> QED BY <2>1, <2>2, <2>3
<1>17. ASSUME NEW p \in DOMAIN head PROVE p \in DOMAIN new /\ new[p] = head[p]
  <2> HIDE DEF head
  <2> QED BY <1>9, <1>15, <1>17, Joined
<1>18. joined # <<>> => \E p \in DOMAIN new : new[p] = TextBlock(joined)
  BY <1>6, <1>8, <1>14, <1>17, Joined
<1>19. ASSUME NEW i \in DOMAIN old, old[i].kind # "text" PROVE \E p \in DOMAIN new : new[p] = old[i]
  <2>1. CASE IsUse(old[i])
    <3>1. PICK q \in DOMAIN calls1 : calls1[q] = old[i]
      BY <1>8, <2>1 DEF usePlaces
    <3> QED BY <1>17, <1>23, <3>1
  <2>2. CASE IsResult(old[i])
    <3>1. PICK q \in DOMAIN answers : answers[q] = old[i]
      BY <1>9, <2>2 DEF answerPlaces
    <3> QED BY <1>24, <3>1
  <2> QED BY <1>3, <1>19, <2>1, <2>2 DEF IsUse, IsResult
<1>20. ASSUME NEW x PROVE Records(Reread(m), x) <=> Records(m, x)
  <2> HIDE DEF new
  <2>1. TextBlock(joined).kind = "text" /\ TextBlock(joined).text = joined
    BY DEF TextBlock
  <2>2. ASSUME Records(Reread(m), x) PROVE Records(m, x)
    <3>1. PICK p \in DOMAIN new : \/ \E r \in Runs : r \in ToSet(new[p].text) /\ x = Item("input", r, NoId)
                                  \/ new[p].kind # "text" /\ x = Item(new[p].kind, NoInput, new[p].id)
      BY <1>1, <2>2 DEF Records
    <3>2. CASE new[p] = TextBlock(joined)
      <4>1. PICK r \in Runs : r \in ToSet(joined) /\ x = Item("input", r, NoId)
        BY <2>1, <3>1, <3>2
      <4>2. PICK i \in DOMAIN old : r \in ToSet(old[i].text)
        BY <1>4, <4>1 DEF ToSet
      <4> QED BY <4>1, <4>2 DEF Records, old
    <3>3. CASE \E i \in DOMAIN old : new[p] = old[i]
      BY <3>1, <3>3 DEF Records, old
    <3> QED BY <1>16, <3>2, <3>3
  <2>3. ASSUME Records(m, x) PROVE Records(Reread(m), x)
    <3>1. PICK i \in DOMAIN old : \/ \E r \in Runs : r \in ToSet(old[i].text) /\ x = Item("input", r, NoId)
                                  \/ old[i].kind # "text" /\ x = Item(old[i].kind, NoInput, old[i].id)
      BY <2>3 DEF Records, old
    <3>2. CASE old[i].kind # "text"
      <4>1. PICK p \in DOMAIN new : new[p] = old[i]
        BY <1>19, <3>2
      <4> QED BY <1>1, <3>1, <4>1 DEF Records
    <3>3. CASE \E r \in Runs : r \in ToSet(old[i].text) /\ x = Item("input", r, NoId)
      <4>1. PICK r \in Runs : r \in ToSet(old[i].text) /\ x = Item("input", r, NoId)
        BY <3>3
      <4>2. r \in ToSet(joined)
        BY <1>4, <4>1 DEF ToSet
      <4>3. joined # <<>>
        BY <4>2 DEF ToSet
      <4>4. PICK p \in DOMAIN new : new[p] = TextBlock(joined)
        BY <1>18, <4>3
      <4> QED BY <1>1, <2>1, <4>1, <4>2, <4>4 DEF Records
    <3> QED BY <3>1, <3>2, <3>3
  <2> QED BY <2>2, <2>3
<1>21. ASSUME Solid(m) PROVE Solid(Reread(m))
  <2> HIDE DEF new
  <2>1. PICK i \in DOMAIN old : old[i].kind # "text" \/ old[i].text # <<>>
    BY <1>21 DEF Solid, old
  <2>2. CASE old[i].kind # "text"
    BY <1>1, <1>19, <2>2 DEF Solid
  <2>3. CASE old[i].text # <<>>
    <3>1. 1 \in DOMAIN old[i].text
      BY <1>3, <2>3
    <3>2. joined # <<>>
      BY <1>4, <3>1
    <3> QED BY <1>1, <1>18, <3>2 DEF Solid, TextBlock
  <2> QED BY <2>1, <2>2, <2>3
<1>22. ASSUME OnceIn(m) PROVE OnceIn(Reread(m))
  <2>1. \A p, q \in DOMAIN old : Twice(old[p], old[q]) => p = q
    BY <1>22 DEF OnceIn, Once, old
  <2>2. Once(calls1)
    BY <1>10, <1>12, <2>1 DEF Once
  <2>3. Once(answers)
    BY <1>11, <1>12, <2>1 DEF Once
  <2>4. Once(head)
    <3>1. \A p \in DOMAIN text : text[p].kind = "text"
      BY <1>13 DEF TextBlock
    <3>2. Once(text) /\ Apart(text, calls1)
      BY <3>1 DEF Twice, Once, Apart
    <3> QED BY <1>6, <1>8, <2>2, <3>2, JoinedOnce
  <2>5. \A p \in DOMAIN head : head[p].kind = "text" \/ IsUse(head[p])
    BY <1>6, <1>8, <1>12, <1>13, Joined DEF TextBlock
  <2> HIDE DEF head
  <2>6. Apart(head, answers)
    BY <1>12, <2>5 DEF Apart, Twice, SameCall, IsUse, IsResult
  <2>7. Once(new)
    BY <1>9, <1>15, <2>3, <2>4, <2>6, JoinedOnce
  <2> HIDE DEF new
  <2> QED BY <1>1, <2>7 DEF OnceIn
<1> QED BY <1>1, <1>20, <1>21, <1>22

-----------------------------------------------------------------------------
(* A file without a bad line, read.                                        *)
ParsedOf(f) == [i \in DOMAIN f |-> f[i].msg]

LEMMA ParsedAt ==
  ASSUME NEW I, NEW f \in Seq(FileLines(I)), \A i \in DOMAIN f : f[i].state = "ok"
  PROVE  /\ Parsed(f) = ParsedOf(f) /\ Parsed(f) \in Chains(Fragments, I, I)
         /\ DOMAIN Parsed(f) = DOMAIN f /\ Len(Parsed(f)) = Len(f)
         /\ \A i \in DOMAIN f : Parsed(f)[i] = f[i].msg
<1> DEFINE msgs == ParsedOf(f)
           parts == [i \in DOMAIN f |-> FromJson(f[i])]
           ones == [i \in DOMAIN msgs |-> IF i \in DOMAIN f THEN << msgs[i] >> ELSE <<>>]
<1>1. /\ Len(f) \in Nat /\ DOMAIN f = 1..Len(f)
      /\ \A i \in DOMAIN f : f[i].msg \in Messages(Fragments, I, I)
  <2>1. \A line \in FileLines(I) : line.state = "ok" => line.msg \in Messages(Fragments, I, I)
    BY DEF FileLines
  <2> QED BY <2>1
<1>2. msgs \in Seq(Messages(Fragments, I, I)) /\ Len(msgs) = Len(f) /\ DOMAIN msgs = DOMAIN f
      /\ \A i \in DOMAIN f : msgs[i] = f[i].msg
  <2>1. msgs \in [1..Len(f) -> Messages(Fragments, I, I)]
    BY <1>1 DEF ParsedOf
  <2>2. DOMAIN msgs = DOMAIN f /\ \A i \in DOMAIN f : msgs[i] = f[i].msg
    BY DEF ParsedOf
  <2> HIDE DEF msgs
  <2> QED BY <1>1, <2>1, <2>2
<1>3. \A i \in DOMAIN f : FromJson(f[i]) = << f[i].msg >>
  BY DEF FromJson
<1> HIDE DEF msgs
<1>4. parts = ones
  BY <1>2, <1>3
<1>5. Parsed(f) = Concat(parts)
  BY DEF Parsed
<1>6. Selected(msgs, DOMAIN f) = Concat(ones)
  BY DEF Selected
<1>7. Selected(msgs, DOMAIN f) = msgs
  BY <1>2, SelectedAll
<1> HIDE DEF parts, ones
<1>8. Parsed(f) = msgs
  BY <1>4, <1>5, <1>6, <1>7
<1> QED BY <1>2, <1>8 DEF msgs, Chains

(* What a flush makes of a file of whole lines, not longer than the chain: *)
(* a line for every message, the last one as it is now.                    *)
Flushed(f, c, td, g) ==
  /\ DOMAIN g = DOMAIN c /\ Len(g) = Len(c)
  /\ g[Len(c)] = Line(c[Len(c)], td)
  /\ \A i \in DOMAIN f : i # Len(c) => g[i] = f[i]
  /\ \A i \in DOMAIN c : g[i] = Line(c[i], td) \/ (i \in DOMAIN f /\ i # Len(c))

LEMMA FlushAt ==
  ASSUME NEW I, NEW f \in Seq(FileLines(I)), NEW c \in Chains(Fragments, I, I), NEW td \in BOOLEAN,
         \A i \in DOMAIN f : f[i].state = "ok", Len(f) <= Len(c), Len(c) # 0
  PROVE  Flushed(f, c, td, FlushLast(f, c, td))
<1> DEFINE g == FlushLast(f, c, td)
           L == FileLines(I)
<1>1. /\ Len(f) \in Nat /\ Len(c) \in Nat \ {0} /\ DOMAIN f = 1..Len(f) /\ DOMAIN c = 1..Len(c) /\ c # <<>>
  BY DEF Chains
<1>2. CASE Len(c) > Len(f)
  <2> DEFINE new == NewMessages(f, c)
             lines == Lines(new, td)
  <2>1. g = AppendLines(f, lines)
    BY <1>1, <1>2 DEF FlushLast
  <2>2. lines \in Seq(L) /\ Len(lines) = Len(c) - Len(f)
    BY <1>2, NewLinesAre
  <2>3. \A i \in DOMAIN new : new[i] = c[Len(f) + i]
    BY <1>1, RestAt DEF NewMessages, Chains
  <2>4. \A i \in DOMAIN lines : lines[i] = Line(c[Len(f) + i], td)
    BY <2>3 DEF Lines
  <2>5. g = f \o lines
    <3>1. ~(f # <<>> /\ Last(f).state = "torn")
      BY <1>1 DEF Last
    <3> QED BY <2>1, <3>1 DEF AppendLines
  <2> HIDE DEF lines, new, g
  <2>6. DOMAIN lines = 1..(Len(c) - Len(f)) /\ Len(c) - Len(f) \in Nat
    BY <1>1, <1>2, <2>2
  <2>7. Len(g) = Len(f) + (Len(c) - Len(f)) /\ DOMAIN g = 1..Len(g)
    BY <2>2, <2>5
  <2>8. Len(g) = Len(c) /\ DOMAIN g = DOMAIN c
    BY <1>1, <2>7
  <2>9. /\ \A i \in DOMAIN f : g[i] = f[i]
        /\ \A i \in DOMAIN g : i \in DOMAIN f \/ (i - Len(f) \in DOMAIN lines /\ g[i] = lines[i - Len(f)])
    <3>1. f \in Seq(L) /\ lines \in Seq(L)
      BY <2>2
    <3>2. Follows(f, lines)
      BY <3>1, JoinedAfter
    <3> QED BY <2>5, <3>2 DEF Follows
  <2>10. ASSUME NEW i \in DOMAIN c, i \notin DOMAIN f PROVE g[i] = Line(c[i], td)
    <3>1. Len(f) + (i - Len(f)) = i
      BY <1>1
    <3> QED BY <2>4, <2>8, <2>9, <2>10, <3>1
  <2>11. Len(c) \in DOMAIN c /\ Len(c) \notin DOMAIN f
    BY <1>1, <1>2
  <2>12. Flushed(f, c, td, g)
    BY <2>8, <2>9, <2>10, <2>11 DEF Flushed
  <2> QED BY <2>12 DEF g
<1>3. CASE Len(c) = Len(f)
  <2> DEFINE last == Line(Last(c), td)
             front == Front(f)
             end == <<last>>
             T == L \cup {last}
  <2>1. g = front \o end /\ last = Line(c[Len(c)], td)
    BY <1>1, <1>3 DEF FlushLast, Last
  <2>2. f # <<>>
    BY <1>1, <1>3
  <2>3. front \in Seq(L) /\ Len(front) = Len(f) - 1 /\ \A i \in 1..(Len(f) - 1) : front[i] = f[i]
    BY <2>2, FrontIs
  <2>4. end \in Seq(T) /\ Len(end) = 1 /\ DOMAIN end = {1} /\ end[1] = last
    OBVIOUS
  <2>5. L \subseteq T
    OBVIOUS
  <2> HIDE DEF last, front, g, end, T
  <2>6. front \in Seq(T)
    BY <2>3, <2>5, SeqGrows
  <2>14. Follows(front, end)
    BY <2>4, <2>6, JoinedAfter
  <2>7. Len(g) = Len(front) + Len(end) /\ DOMAIN g = 1..Len(g)
    BY <2>1, <2>14 DEF Follows
  <2>8. Len(g) = Len(c) /\ DOMAIN g = DOMAIN c /\ Len(c) = Len(front) + 1 /\ DOMAIN front = 1..(Len(f) - 1)
    BY <1>1, <1>3, <2>3, <2>4, <2>7
  <2>9. (\A i \in DOMAIN front : g[i] = front[i]) /\ g[Len(front) + 1] = end[1]
    BY <2>1, <2>4, <2>14 DEF Follows
  <2>10. \A i \in DOMAIN f : i # Len(c) => i \in 1..(Len(f) - 1)
    BY <1>1, <1>3
  <2>11. \A i \in DOMAIN f : i # Len(c) => g[i] = f[i]
    BY <2>3, <2>8, <2>9, <2>10
  <2>12. g[Len(c)] = Line(c[Len(c)], td)
    BY <2>1, <2>4, <2>8, <2>9
  <2>13. \A i \in DOMAIN c : i \in DOMAIN f
    BY <1>1, <1>3
  <2>15. Flushed(f, c, td, g)
    BY <2>8, <2>11, <2>12, <2>13 DEF Flushed
  <2> QED BY <2>15 DEF g
<1> HIDE DEF g
<1>4. Len(c) > Len(f) \/ Len(c) = Len(f)
  <2>1. \A x, y \in Nat : x <= y => y > x \/ y = x
    OBVIOUS
  <2> QED BY <1>1, <2>1
<1> QED BY <1>2, <1>3, <1>4

-----------------------------------------------------------------------------
(* The file and the conversation it follows, as long as no write was cut.  *)
Follow(f, c) == Len(f) <= Len(c) /\ \A i \in DOMAIN f : Extends(c[i], f[i].msg)

Whole(f) ==
  /\ \A i \in DOMAIN f : f[i].state = "ok" /\ Solid(f[i].msg)
  /\ Clean(Parsed(f))

Sound(f, c) ==
  /\ Follow(f, c)
  /\ \A i \in DOMAIN c : Solid(c[i])
  /\ AllUseIds(c) \subseteq AllUseIds(Parsed(f))

(* A file whose lines follow a clean chain and hold all its calls is clean *)
(* itself.                                                                 *)
LEMMA FollowingIsClean ==
  ASSUME NEW I, NEW f \in Seq(FileLines(I)), NEW c \in Chains(Fragments, I, I),
         \A i \in DOMAIN f : f[i].state = "ok" /\ Solid(f[i].msg) /\ OnceIn(f[i].msg),
         Follow(f, c), Clean(c), AllUseIds(c) \subseteq AllUseIds(Parsed(f))
  PROVE  Clean(Parsed(f))
<1> DEFINE msgs == Parsed(f)
<1>1. /\ msgs \in Chains(Fragments, I, I) /\ DOMAIN msgs = DOMAIN f
      /\ \A i \in DOMAIN f : msgs[i] = f[i].msg
  BY ParsedAt
<1> HIDE DEF msgs
<1>2. \A i \in DOMAIN f : i \in DOMAIN c
  BY DEF Follow, Chains
<1>3. \A i \in DOMAIN f : \A x : Records(msgs[i], x) => Records(c[i], x)
  BY <1>1, ItemsOf DEF Follow, Extends
<1>4. ASSUME NEW i \in DOMAIN f, NEW p \in DOMAIN msgs[i].content, msgs[i].content[p].kind # "text"
      PROVE  \E q \in DOMAIN c[i].content : /\ c[i].content[q].kind = msgs[i].content[p].kind
                                            /\ c[i].content[q].id = msgs[i].content[p].id
  <2> DEFINE b == msgs[i].content[p]
  <2>1. Records(msgs[i], Item(b.kind, NoInput, b.id))
    BY <1>4 DEF Records
  <2>2. b.kind # "input"
    <3>1. b \in BlocksOf(Fragments, I, I)
      BY <1>1, ChainIs
    <3> QED BY <3>1, KindsAre
  <2> HIDE DEF b
  <2>3. Records(c[i], Item(b.kind, NoInput, b.id))
    BY <1>3, <2>1
  <2> QED BY <2>2, <2>3 DEF Records, Item, b
<1>5. Distinct(msgs)
  <2> SUFFICES ASSUME NEW i \in DOMAIN msgs, NEW j \in DOMAIN msgs,
                      NEW p \in DOMAIN msgs[i].content, NEW q \in DOMAIN msgs[j].content,
                      Twice(msgs[i].content[p], msgs[j].content[q])
               PROVE  i = j /\ p = q
    BY DEF Distinct
  <2>1. PICK k \in DOMAIN c[i].content : /\ c[i].content[k].kind = msgs[i].content[p].kind
                                         /\ c[i].content[k].id = msgs[i].content[p].id
    BY <1>1, <1>4 DEF Twice
  <2>2. PICK l \in DOMAIN c[j].content : /\ c[j].content[l].kind = msgs[j].content[q].kind
                                         /\ c[j].content[l].id = msgs[j].content[q].id
    BY <1>1, <1>4 DEF Twice
  <2>3. Twice(c[i].content[k], c[j].content[l])
    BY <2>1, <2>2 DEF Twice, SameCall, IsUse
  <2>4. i = j
    BY <1>1, <1>2, <2>3 DEF Clean, Distinct
  <2>5. OnceIn(msgs[i])
    BY <1>1
  <2> QED BY <2>4, <2>5 DEF OnceIn, Once
<1>6. AllResultIds(msgs) \subseteq AllUseIds(msgs)
  <2>1. ASSUME NEW id \in AllResultIds(msgs) PROVE id \in AllResultIds(c)
    <3>1. PICK i \in DOMAIN msgs : \E p \in DOMAIN msgs[i].content :
              IsResult(msgs[i].content[p]) /\ id = msgs[i].content[p].id
      BY <2>1, IdsAreAt
    <3>2. PICK p \in DOMAIN msgs[i].content : IsResult(msgs[i].content[p]) /\ id = msgs[i].content[p].id
      BY <3>1
    <3>3. PICK q \in DOMAIN c[i].content : /\ c[i].content[q].kind = msgs[i].content[p].kind
                                           /\ c[i].content[q].id = msgs[i].content[p].id
      BY <1>1, <1>4, <3>2 DEF IsResult
    <3>4. IsResult(c[i].content[q]) /\ i \in DOMAIN c /\ id = c[i].content[q].id
      BY <1>1, <1>2, <3>2, <3>3 DEF IsResult
    <3> QED BY <3>4, IdsAreAt
  <2> QED BY <2>1 DEF Clean, msgs
<1>7. \A i \in DOMAIN msgs : msgs[i].content # <<>>
  <2>1. \A i \in DOMAIN msgs : \E p : p \in DOMAIN msgs[i].content
    BY <1>1 DEF Solid
  <2>2. ~ \E p : p \in DOMAIN <<>>
    OBVIOUS
  <2> QED BY <2>1, <2>2
<1> QED BY <1>5, <1>6, <1>7 DEF Clean, msgs

LEMMA SolidGrows ==
  ASSUME NEW I, NEW H, NEW msgs \in Chains(Fragments, I, H), NEW msg \in Messages(Fragments, I, H), Solid(msg),
         \A i \in DOMAIN msgs : Solid(msgs[i])
  PROVE  \A i \in DOMAIN AppendMessage(msgs, msg) : Solid(AppendMessage(msgs, msg)[i])
<1> DEFINE c == AppendMessage(msgs, msg)
<1>1. PICK n, base \in Nat : Grown(msgs, msg, c, n, base)
  BY AppendGrows
<1> HIDE DEF c
<1>2. ASSUME NEW i \in DOMAIN msgs PROVE Solid(c[i])
  <2>1. PICK p \in DOMAIN msgs[i].content : msgs[i].content[p].kind # "text" \/ msgs[i].content[p].text # <<>>
    BY DEF Solid
  <2>2. p \in DOMAIN c[i].content /\ c[i].content[p] = msgs[i].content[p]
    BY <1>1 DEF Grown
  <2> QED BY <2>1, <2>2 DEF Solid
<1>3. Solid(c[n])
  BY <1>1 DEF Grown, Solid
<1> QED BY <1>1, <1>2, <1>3 DEF Grown, c

(* A message in memory only, without a call in it.                         *)
LEMMA UnflushedIsSound ==
  ASSUME NEW I, NEW f \in Seq(FileLines(I)), NEW c \in Chains(Fragments, I, I), NEW msg \in Messages(Fragments, I, I),
         Solid(msg), UseIds(msg) = {}, Sound(f, c)
  PROVE  Sound(f, AppendMessage(c, msg))
<1> DEFINE new == AppendMessage(c, msg)
<1>1. \A i \in DOMAIN new : Solid(new[i])
  BY SolidGrows DEF Sound
<1>2. AllUseIds(new) = AllUseIds(c)
  <2>1. ASSUME NEW m \in Messages(Fragments, I, I)
        PROVE  AllUseIds(AppendMessage(c, m)) = AllUseIds(c) \cup UseIds(m)
    BY AppendIds
  <2> QED BY <2>1
<1>3. /\ Len(new) \in Nat /\ Len(new) >= Len(c)
      /\ \A i \in DOMAIN c : Extends(new[i], c[i])
  BY GrowsExtends
<1> HIDE DEF new
<1>4. Len(c) \in Nat /\ Len(f) \in Nat /\ DOMAIN c = 1..Len(c) /\ DOMAIN f = 1..Len(f)
  BY DEF Chains
<1>5. Follow(f, new)
  <2>1. Len(f) <= Len(new) /\ \A i \in DOMAIN f : i \in DOMAIN c
    BY <1>3, <1>4 DEF Sound, Follow
  <2> QED BY <1>3, <2>1, ExtendsIs DEF Sound, Follow
<1> QED BY <1>1, <1>2, <1>5 DEF Sound, new

(* A message in memory and flushed: it is in the file with all that was.   *)
LEMMA FlushedIsSound ==
  ASSUME NEW I, NEW f \in Seq(FileLines(I)), NEW c \in Chains(Fragments, I, I), NEW msg \in Messages(Fragments, I, I),
         NEW td \in BOOLEAN, Solid(msg), Whole(f), Sound(f, c), Clean(AppendMessage(c, msg))
  PROVE  LET new == AppendMessage(c, msg)
             g == FlushLast(f, new, td)
         IN  /\ Whole(g) /\ Sound(g, new)
             /\ Items(Parsed(f)) \cup Items(<<msg>>) \subseteq Items(Parsed(g))
<1> DEFINE new == AppendMessage(c, msg)
           g == FlushLast(f, new, td)
           n == Len(new)
<1>1. /\ n \in Nat /\ n >= Len(c) /\ DOMAIN new = 1..n /\ n \in DOMAIN new
      /\ \A i \in DOMAIN c : i \in DOMAIN new /\ Extends(new[i], c[i])
      /\ Items(<<msg>>) \subseteq Items(<<new[n]>>)
  BY GrowsExtends
<1>2. /\ new \in Chains(Fragments, I, I) /\ Clean(new)
      /\ AllUseIds(new) = AllUseIds(c) \cup UseIds(msg)
  BY AppendIs, AppendIds
<1>3. \A i \in DOMAIN new : Solid(new[i])
  BY SolidGrows DEF Sound
<1> HIDE DEF new
<1>4. Len(c) \in Nat /\ Len(f) \in Nat /\ DOMAIN c = 1..Len(c) /\ DOMAIN f = 1..Len(f)
  BY DEF Chains
<1>5. Len(f) <= n /\ n # 0 /\ \A i \in DOMAIN f : i \in DOMAIN c /\ Extends(new[i], f[i].msg)
  <2>1. Len(f) <= n /\ n # 0 /\ \A i \in DOMAIN f : i \in DOMAIN c
    BY <1>1, <1>4 DEF Sound, Follow
  <2> QED BY <1>1, <2>1, ExtendsIs DEF Sound, Follow
<1>6. /\ g \in Seq(FileLines(I)) /\ DOMAIN g = DOMAIN new /\ Len(g) = n
      /\ g[n] = Line(new[n], td)
      /\ \A i \in DOMAIN f : i # n => g[i] = f[i]
      /\ \A i \in DOMAIN new : g[i] = Line(new[i], td) \/ (i \in DOMAIN f /\ i # n)
  <2>1. g \in Seq(FileLines(I))
    BY <1>2, FlushIs
  <2>2. Flushed(f, new, td, g)
    BY <1>2, <1>5, FlushAt DEF Whole
  <2> QED BY <2>1, <2>2 DEF Flushed
<1> HIDE DEF g, n
<1>7. ASSUME NEW i \in DOMAIN new
      PROVE  /\ Line(new[i], td).state = "ok" /\ Line(new[i], td).msg = Reread(new[i])
             /\ Reread(new[i]).role = new[i].role
             /\ \A x : Records(Reread(new[i]), x) <=> Records(new[i], x)
             /\ Solid(Reread(new[i])) /\ OnceIn(Reread(new[i]))
  <2>1. new[i] \in Messages(Fragments, I, I)
    BY <1>2, ChainIs
  <2>2. OnceIn(new[i])
    BY <1>2 DEF Clean, Distinct, OnceIn, Once
  <2>3. /\ Reread(new[i]).role = new[i].role
        /\ \A x : Records(Reread(new[i]), x) <=> Records(new[i], x)
        /\ Solid(Reread(new[i])) /\ OnceIn(Reread(new[i]))
    BY <1>3, <2>1, <2>2, RereadSame
  <2> QED BY <2>3 DEF Line
<1>8. \A i \in DOMAIN f : OnceIn(f[i].msg)
  BY ParsedAt DEF Whole, Clean, Distinct, OnceIn, Once
<1>9. ASSUME NEW i \in DOMAIN g
      PROVE  g[i].state = "ok" /\ Solid(g[i].msg) /\ OnceIn(g[i].msg) /\ Extends(new[i], g[i].msg)
  <2>1. CASE g[i] = Line(new[i], td)
    <3>1. Extends(new[i], Reread(new[i]))
      BY <1>6, <1>7, ItemsOf DEF Extends
    <3> QED BY <1>6, <1>7, <2>1, <3>1
  <2>2. CASE i \in DOMAIN f /\ g[i] = f[i]
    BY <1>5, <1>8, <2>2 DEF Whole
  <2> QED BY <1>6, <2>1, <2>2
<1>10. /\ Parsed(f) \in Chains(Fragments, I, I) /\ DOMAIN Parsed(f) = DOMAIN f /\ \A i \in DOMAIN f : Parsed(f)[i] = f[i].msg
       /\ Parsed(g) \in Chains(Fragments, I, I) /\ DOMAIN Parsed(g) = DOMAIN g /\ \A i \in DOMAIN g : Parsed(g)[i] = g[i].msg
  BY <1>6, <1>9, ParsedAt DEF Whole
<1>11. \A x : Records(new[n], x) => x \in Items(Parsed(g))
  BY <1>1, <1>6, <1>7, <1>10, ItemsOf
<1>12. Items(<<msg>>) \subseteq Items(Parsed(g))
  BY <1>1, <1>11, ItemsOf
<1>13. Items(Parsed(f)) \subseteq Items(Parsed(g))
  <2> SUFFICES ASSUME NEW i \in DOMAIN f, NEW x, Records(f[i].msg, x) PROVE x \in Items(Parsed(g))
    BY <1>10, ItemsOf
  <2>1. CASE i # n
    BY <1>1, <1>5, <1>6, <1>10, <2>1, ItemsOf
  <2>2. CASE i = n
    <3>1. Records(new[n], x)
      BY <1>5, <2>2, ItemsOf DEF Extends
    <3> QED BY <1>11, <3>1
  <2> QED BY <2>1, <2>2
<1>14. AllUseIds(new) \subseteq AllUseIds(Parsed(g))
  <2>1. ASSUME NEW id \in AllUseIds(c) PROVE id \in AllUseIds(Parsed(g))
    <3>1. id \in AllUseIds(Parsed(f))
      BY <2>1 DEF Sound
    <3> QED BY <1>10, <1>13, <3>1, CallsRecorded
  <2>2. ASSUME NEW id \in UseIds(msg) PROVE id \in AllUseIds(Parsed(g))
    <3>1. Records(msg, Item("use", NoInput, id))
      BY <2>2 DEF UseIds, IsUse, ToSet, Records
    <3>2. Item("use", NoInput, id) \in Items(Parsed(g))
      BY <1>12, <3>1, ItemsOf
    <3> QED BY <1>10, <3>2, CallsRecorded
  <2> QED BY <1>2, <2>1, <2>2
<1>15. Follow(g, new)
  BY <1>1, <1>6, <1>9 DEF Follow, n
<1>16. Clean(Parsed(g))
  BY <1>2, <1>6, <1>9, <1>14, <1>15, FollowingIsClean
<1>17. Whole(g) /\ Sound(g, new)
  BY <1>3, <1>9, <1>14, <1>15, <1>16 DEF Whole, Sound
<1> QED BY <1>12, <1>13, <1>17 DEF g, new

-----------------------------------------------------------------------------
(* What was appended with a flush is in the file.                          *)
PendingSolid == \A p \in DOMAIN pending : pending[p].kind # "text" \/ pending[p].text # <<>>

StoreInv ==
  ~cut => /\ Whole(file)
          /\ logged \subseteq Items(Parsed(file))
          /\ up => Sound(file, conv)

LEMMA SolidMessages ==
  /\ \A r \in Runs : Solid(InputMessage(r))
  /\ Solid(FeedbackMessage) /\ Solid(NoticeMessage) /\ Solid(SnapshotMessage) /\ Solid(StaleMessage)
  /\ \A msg : ResultIds(msg) # {} => Solid(msg)
<1>1. \A x : Solid(UserMessage(<< TextBlock(<< x >>) >>))
  BY DEF Solid, UserMessage, Message, TextBlock
<1>2. \A x : Solid(UserMessage(<< TextBlock(<<>>), TextBlock(<< x >>) >>))
  BY DEF Solid, UserMessage, Message, TextBlock
<1>3. \A msg : ResultIds(msg) # {} => Solid(msg)
  BY DEF Solid, ResultIds, IsResult, ToSet
<1> QED BY <1>1, <1>2, <1>3 DEF InputMessage, FeedbackMessage, NoticeMessage, SnapshotMessage, StaleMessage

LEMMA PendingIsSolid ==
  ASSUME TypeOK, OnceInv, PendingSolid, pending # <<>>
  PROVE  Solid(PendingMessage) /\ PendingMessage \in Messages(Fragments, Ids, Ids)
<1> DEFINE B == BlocksOf(Fragments, Ids, {})
           texts == Selected(pending, {p \in DOMAIN pending : ~IsUse(pending[p])})
           uses == CallsOf(pending)
           msg == PendingMessage
<1>1. msg \in Messages(Fragments, Ids, Ids) /\ msg.content # <<>>
  BY PendingFits DEF OnceInv, Appendable
<1>2. 1 \in DOMAIN msg.content
  BY <1>1 DEF Messages
<1>3. msg.content = texts \o uses
  BY DEF PendingMessage, AssistantMessage, Message
<1>4. /\ texts \in Seq(B) /\ \A q \in DOMAIN texts : \E i \in DOMAIN pending : texts[q] = pending[i]
      /\ uses \in Seq(B) /\ \A q \in DOMAIN uses : \E i \in DOMAIN pending : uses[q] = pending[i]
  <2>1. pending \in Seq(B)
    BY DEF TypeOK
  <2>2. \A places : LET s == Selected(pending, places)
                    IN  s \in Seq(B) /\ \A q \in DOMAIN s : \E i \in DOMAIN pending : s[q] = pending[i]
    <3> SUFFICES ASSUME NEW places
                 PROVE  LET s == Selected(pending, places)
                        IN  s \in Seq(B) /\ \A q \in DOMAIN s : \E i \in DOMAIN pending : s[q] = pending[i]
      OBVIOUS
    <3> HIDE DEF B
    <3> QED BY <2>1, SelectedIs
  <2> HIDE DEF B
  <2> QED BY <2>2 DEF CallsOf
<1> HIDE DEF texts, uses, msg, B
<1>5. \E i \in DOMAIN pending : msg.content[1] = pending[i]
  <2>1. Follows(texts, uses)
    BY <1>4, JoinedAfter
  <2>2. \/ 1 \in DOMAIN texts /\ msg.content[1] = texts[1]
        \/ 1 - Len(texts) \in DOMAIN uses /\ msg.content[1] = uses[1 - Len(texts)]
    BY <1>2, <1>3, <2>1 DEF Follows
  <2> QED BY <1>4, <2>2
<1> QED BY <1>1, <1>2, <1>5 DEF PendingSolid, Solid, msg

LEMMA RestoredIsSound ==
  ASSUME NEW n \in Nat, NEW I \in SUBSET (1..n), file \in Seq(FileLines(I)), Whole(file)
  PROVE  Sound(file, Restored)
<1> DEFINE parsed == Parsed(file)
           repaired == RepairChain(parsed)
<1>1. /\ parsed \in Chains(Fragments, I, I) /\ DOMAIN parsed = DOMAIN file /\ Len(parsed) = Len(file)
      /\ \A i \in DOMAIN file : parsed[i] = file[i].msg
  BY ParsedAt DEF Whole
<1>2. Clean(parsed)
  BY DEF Whole
<1>3. Sound(file, parsed)
  <2>1. Len(file) <= Len(parsed)
    BY <1>1
  <2> HIDE DEF parsed
  <2>2. Follow(file, parsed)
    BY <1>1, <2>1, ExtendsIs DEF Follow
  <2> QED BY <1>1, <2>2 DEF Sound, Whole, parsed
<1> HIDE DEF parsed
<1>4. repaired \in Chains(Fragments, I, I)
  BY <1>1, RepairIs
<1>5. Sound(file, repaired)
  <2>1. CASE repaired = parsed
    BY <1>3, <2>1
  <2>2. CASE \E msg \in Messages(Fragments, I, I) : repaired = AppendMessage(parsed, msg) /\ UseIds(msg) = {} /\ Solid(msg)
    BY <1>1, <1>3, <2>2, UnflushedIsSound
  <2> QED BY <1>1, <1>2, <2>1, <2>2, RepairedIs, SolidMessages
<1> HIDE DEF repaired
<1>6. UseIds(SnapshotMessage) = {} /\ SnapshotMessage \in Messages(Fragments, I, I) /\ Solid(SnapshotMessage)
  BY FixedAreText, TextFits, FixedMessages, SolidMessages
<1>7. Sound(file, AppendMessage(repaired, SnapshotMessage))
  BY <1>4, <1>5, <1>6, UnflushedIsSound
<1> QED BY <1>5, <1>7 DEF Restored, repaired, parsed

LEMMA StoreInit == Init => StoreInv /\ PendingSolid
<1> SUFFICES ASSUME Init PROVE StoreInv /\ PendingSolid
  OBVIOUS
<1>1. file = <<>> /\ conv = <<>> /\ logged = {} /\ pending = <<>>
  BY DEF Init
<1>2. file \in Seq(FileLines({})) /\ DOMAIN file = {} /\ Len(file) = 0
  BY <1>1
<1>3. Parsed(file) = <<>>
  <2>1. DOMAIN Parsed(file) = {} /\ Parsed(file) \in Chains(Fragments, {}, {})
    BY <1>2, ParsedAt
  <2> HIDE DEF Chains
  <2>2. \A s \in Chains(Fragments, {}, {}) : DOMAIN s = {} => s = <<>>
    BY DEF Chains
  <2> QED BY <2>1, <2>2
<1>4. Whole(file)
  BY <1>2, <1>3, NothingOnce DEF Whole
<1>5. Sound(file, conv)
  BY <1>1, <1>3 DEF Sound, Follow
<1> QED BY <1>1, <1>4, <1>5 DEF StoreInv, PendingSolid

LEMMA PendingSolidStep == ASSUME TypeOK, PendingSolid, Next PROVE PendingSolid'
<1>1. CASE pending' = pending
  BY <1>1 DEF PendingSolid
<1>2. CASE pending' = <<>>
  BY <1>2 DEF PendingSolid
<1>3. ASSUME NEW r \in Runs, StreamBlock(r) PROVE PendingSolid'
  <2>1. CASE pending' = <<TextBlock(<<"reply">>)>>
    <3>1. \A p \in DOMAIN pending' : pending'[p] = TextBlock(<<"reply">>)
      BY <2>1
    <3>2. TextBlock(<<"reply">>).text # <<>>
      BY DEF TextBlock
    <3> QED BY <3>1, <3>2 DEF PendingSolid
  <2>2. CASE pending' = Append(pending, ToolUseBlock(nextId))
    <3>1. pending \in Seq(BlocksOf(Fragments, Ids, {}))
      BY DEF TypeOK
    <3>2. \A q \in DOMAIN pending' : pending'[q] = ToolUseBlock(nextId)
            \/ (q \in DOMAIN pending /\ pending'[q] = pending[q])
      BY <2>2, <3>1, AppendedIs
    <3>3. ToolUseBlock(nextId).kind # "text"
      BY DEF ToolUseBlock
    <3> QED BY <3>2, <3>3 DEF PendingSolid
  <2> QED BY <1>3, <2>1, <2>2 DEF StreamBlock
<1>4. ASSUME NEW r \in Runs, \/ StartRun(r) \/ BeginTurn(r) \/ RetryTransient(r) \/ RetryTruncated(r)
                             \/ EndEmptyReply(r) \/ EndReply(r) \/ StopRun(r)
                             \/ \E k \in 1..MaxBlocks : FinishBatch(r, k)
      PROVE  pending' = pending \/ pending' = <<>>
  BY <1>4 DEF StartRun, BeginTurn, RetryTransient, RetryTruncated, EndEmptyReply, EndReply, StopRun, FinishBatch
<1>5. TaskNotice \/ GoDown \/ Resume => pending' = pending \/ pending' = <<>>
  BY DEF TaskNotice, GoDown, Resume
<1> QED BY <1>1, <1>2, <1>3, <1>4, <1>5 DEF Next, Crash, CrashInFlush

LEMMA StoreStep ==
  ASSUME MaxConcurrent = 1, TypeOK, AloneInv, OnceInv, PendingSolid, StoreInv, Next
  PROVE  StoreInv'
<1> DEFINE n == nextId - 1
<1>1. /\ n \in Nat /\ Ids \in SUBSET (1..n) /\ conv \in Chains(Fragments, Ids, Ids) /\ Clean(conv)
      /\ file \in Seq(FileLines(Ids)) /\ todos \in BOOLEAN
  BY DEF TypeOK, Ids, OnceInv
<1> HIDE DEF n
<1>2. Clean(conv')
  BY OnceStep DEF OnceInv
<1>3. ASSUME up, conv' = conv, file' = file, logged' = logged, cut' = cut PROVE StoreInv'
  BY <1>3 DEF StoreInv
<1>4. ASSUME NEW msg \in Messages(Fragments, Ids, Ids), Solid(msg), UseIds(msg) = {}, up, conv' = AppendMessage(conv, msg),
             file' = file, logged' = logged, cut' = cut
      PROVE  StoreInv'
  <2> SUFFICES ASSUME ~cut PROVE StoreInv'
    BY <1>4 DEF StoreInv
  <2>1. Sound(file, AppendMessage(conv, msg))
    BY <1>1, <1>4, UnflushedIsSound DEF StoreInv
  <2> QED BY <1>4, <2>1 DEF StoreInv
<1>5. ASSUME NEW msg \in Messages(Fragments, Ids, Ids), NEW td \in BOOLEAN, Solid(msg), up, AddAndFlush(msg, td), cut' = cut
      PROVE  StoreInv'
  <2> SUFFICES ASSUME ~cut PROVE StoreInv'
    BY <1>5 DEF StoreInv
  <2>1. /\ conv' = AppendMessage(conv, msg) /\ file' = FlushLast(file, conv', td)
        /\ logged' = logged \cup Items(<<msg>>)
    BY <1>5 DEF AddAndFlush
  <2>2. Whole(file) /\ Sound(file, conv) /\ logged \subseteq Items(Parsed(file))
    BY <1>5 DEF StoreInv
  <2>3. Clean(AppendMessage(conv, msg))
    BY <1>2, <2>1
  <2>4. /\ Whole(file') /\ Sound(file', conv')
        /\ Items(Parsed(file)) \cup Items(<<msg>>) \subseteq Items(Parsed(file'))
    BY <1>1, <1>5, <2>1, <2>2, <2>3, FlushedIsSound
  <2> QED BY <2>1, <2>2, <2>4 DEF StoreInv
<1>6. ASSUME NEW r \in Runs, StartRun(r) \/ RetryTruncated(r) PROVE StoreInv'
  BY <1>1, <1>5, <1>6, FixedMessages, SolidMessages DEF StartRun, RetryTruncated
<1>7. ASSUME NEW r \in Runs, BeginTurn(r) PROVE StoreInv'
  <2>1. up /\ conv' = RepairChain(conv) /\ file' = file /\ logged' = logged /\ cut' = cut
    BY <1>7 DEF BeginTurn
  <2>2. \/ RepairChain(conv) = conv
        \/ \E msg \in Messages(Fragments, Ids, Ids) : /\ RepairChain(conv) = AppendMessage(conv, msg)
                                           /\ UseIds(msg) = {} /\ Solid(msg)
    BY <1>1, RepairedIs, SolidMessages
  <2> QED BY <1>3, <1>4, <2>1, <2>2
<1>8. ASSUME NEW r \in Runs, EndReply(r) \/ StopRun(r) PROVE StoreInv'
  <2>1. up /\ cut' = cut
    BY <1>8 DEF EndReply, StopRun
  <2>2. CASE pending # <<>> /\ AddAndFlush(PendingMessage, todos)
    BY <1>1, <1>5, <2>1, <2>2, PendingIsSolid
  <2> QED BY <1>3, <1>8, <2>1, <2>2 DEF EndReply, StopRun
<1>9. ASSUME NEW r \in Runs, NEW k \in 1..MaxBlocks, FinishBatch(r, k) PROVE StoreInv'
  <2>1. k \in Nat \ {0} /\ k <= Len(calls[r]) /\ calls[r] \in Seq(Ids)
    BY <1>9, SessionStoreAssumption DEF FinishBatch, TypeOK
  <2>2. ResultsMessage(r, k) \in Messages(Fragments, Ids, Ids) /\ Solid(ResultsMessage(r, k))
    <3>1. StillOpen(calls[r], conv)
      BY DEF OnceInv
    <3>2. ResultIds(ResultsMessage(r, k)) = {calls[r][i] : i \in 1..k}
      BY <2>1, <3>1, ResultsFit
    <3>3. 1 \in 1..k
      BY <2>1
    <3>4. ResultsMessage(r, k) \in Messages(Fragments, Ids, Ids)
      BY <2>1, ResultsAre
    <3> QED BY <3>2, <3>3, <3>4, SolidMessages
  <2>3. PICK td \in {todos, todos \/ WithTodos} : AddAndFlush(ResultsMessage(r, k), td)
    BY <1>9 DEF FinishBatch
  <2>4. td \in BOOLEAN /\ up /\ cut' = cut
    BY <1>1, <1>9, <2>3, SessionStoreAssumption DEF FinishBatch
  <2> QED BY <1>5, <2>2, <2>3, <2>4
<1>10. CASE TaskNotice
  <2>1. UseIds(NoticeMessage) = {} /\ NoticeMessage \in Messages(Fragments, Ids, Ids) /\ Solid(NoticeMessage)
    BY FixedAreText, TextFits, FixedMessages, SolidMessages
  <2> QED BY <1>4, <1>10, <2>1 DEF TaskNotice
<1>11. ASSUME NEW r \in Runs, StreamBlock(r) \/ RetryTransient(r) \/ EndEmptyReply(r) PROVE StoreInv'
  BY <1>3, <1>11 DEF StreamBlock, RetryTransient, EndEmptyReply
<1>12. CASE Crash
  BY <1>12 DEF Crash, GoDown, StoreInv
<1>13. CASE CrashInFlush
  BY <1>13 DEF CrashInFlush, StoreInv
<1>14. CASE Resume
  <2> SUFFICES ASSUME ~cut PROVE StoreInv'
    BY <1>14 DEF Resume, StoreInv
  <2>1. Whole(file) /\ logged \subseteq Items(Parsed(file)) /\ logged' = logged
    BY <1>14 DEF StoreInv, Resume
  <2>2. Sound(file, Restored) /\ Restored \in Chains(Fragments, Ids, Ids)
    BY <1>1, <2>1, RestoredIs, RestoredIsSound
  <2>3. CASE conv' = Restored /\ file' = file
    BY <2>1, <2>2, <2>3 DEF StoreInv
  <2>4. CASE conv' = AppendMessage(Restored, StaleMessage) /\ file' = FlushLast(file, conv', StoredTodos)
    <3>1. StaleMessage \in Messages(Fragments, Ids, Ids) /\ Solid(StaleMessage) /\ StoredTodos \in BOOLEAN
      BY FixedMessages, SolidMessages DEF StoredTodos
    <3>2. Clean(AppendMessage(Restored, StaleMessage))
      BY <1>2, <2>4
    <3>3. /\ Whole(file') /\ Sound(file', conv')
          /\ Items(Parsed(file)) \cup Items(<<StaleMessage>>) \subseteq Items(Parsed(file'))
      BY <1>1, <2>1, <2>2, <2>4, <3>1, <3>2, FlushedIsSound
    <3> QED BY <2>1, <3>3 DEF StoreInv
  <2> QED BY <1>14, <2>3, <2>4 DEF Resume
<1> QED BY <1>6, <1>7, <1>8, <1>9, <1>10, <1>11, <1>12, <1>13, <1>14 DEF Next

LEMMA StoreInvariant ==
  ASSUME MaxConcurrent = 1
  PROVE  Spec => [](TypeOK /\ StoreInv)
<1> DEFINE Inv == TypeOK /\ AloneInv /\ OnceInv /\ PendingSolid /\ StoreInv
<1>1. Init => Inv
  BY TypeInit, AloneInit, OnceInit, StoreInit
<1>2. Inv /\ [Next]_vars => Inv'
  <2> SUFFICES ASSUME Inv, [Next]_vars PROVE Inv'
    OBVIOUS
  <2>1. CASE Next
    BY <2>1, TypeStep, AloneStep, OnceStep, PendingSolidStep, StoreStep
  <2>2. CASE UNCHANGED vars
    <3>1. AloneInv' /\ OnceInv' /\ PendingSolid' /\ StoreInv'
      BY <2>2 DEF vars, AloneInv, OnceInv, PendingOnce, PendingIds, PendingSolid, StoreInv, Active, Streaming
    <3> QED BY <3>1, TypeStep
  <2> QED BY <2>1, <2>2
<1> QED BY <1>1, <1>2, PTL DEF Spec

(* Write first, then memory (manager.py:3): with one run at a time, and    *)
(* however often the process goes down between two writes, what was        *)
(* appended with a flush can be read back from the file, for good.         *)
THEOREM NothingLoggedIsLost == ASSUME MaxConcurrent = 1 PROVE Spec => []DurableUncut
<1>1. StoreInv => DurableUncut
  BY DEF StoreInv, Whole, DurableUncut, Durable, Readable
<1> QED BY <1>1, StoreInvariant, PTL

(* ... and line i of the file is message i of the conversation, as it is   *)
(* or as it was, which is what counting the lines takes for granted.       *)
THEOREM LinesFollow == ASSUME MaxConcurrent = 1 PROVE Spec => []FileFollowsMemory
<1>1. StoreInv => FileFollowsMemory
  BY DEF StoreInv, Sound, Follow, FileFollowsMemory
<1> QED BY <1>1, StoreInvariant, PTL

-----------------------------------------------------------------------------
(* The file once a write was cut. A line may then stand for no message or  *)
(* for another than the one in its place, a repair may have added messages *)
(* that were never written, and lines and messages may differ in number. A *)
(* flush counts all the same: it writes the messages after as many as      *)
(* there are lines, or the last one over the last line. So what it may     *)
(* write, the messages at the last line's place and beyond, must stand in  *)
(* no other line (Beyond), also once results are added to them (Answered). *)
(* The line written behind one cut short joins it to a line nobody can     *)
(* read, which is why that must not be the first of several (ShortIfTorn). *)

(* The calls and the results of a file, and that it has none twice.        *)
FileUses(f) == AllUseIds(ParsedOf(f))
FileResults(f) == AllResultIds(ParsedOf(f))

OnceOnly(f) ==
  \A i, j \in DOMAIN f : \A p \in DOMAIN f[i].msg.content, q \in DOMAIN f[j].msg.content :
    Twice(f[i].msg.content[p], f[j].msg.content[q]) => i = j /\ p = q

(* What a flush may still write stands in no other line.                   *)
Beyond(f, c) ==
  \A j \in DOMAIN c, i \in DOMAIN f : j >= Len(f) /\ i # j => Apart(c[j].content, f[i].msg.content)

(* A call in memory whose result is in the file has it in memory too.      *)
Answered(f, c) == FileResults(f) \cap AllUseIds(c) \subseteq AllResultIds(c)

(* Behind a line cut short, at most one message is written at a time: the  *)
(* memory is shorter, or ends with a message of the user that the next     *)
(* input joins.                                                            *)
EndsTorn(f) == f # <<>> /\ f[Len(f)].state = "torn"
ShortIfTorn(f, c) == EndsTorn(f) => Len(c) < Len(f) \/ (Len(c) = Len(f) /\ c[Len(c)].role = "user")

(* File g is made of lines of f, of messages of c a flush of f may write,  *)
(* and of lines nobody can read.                                           *)
Mixed(f, c, g) ==
  \A i \in DOMAIN g : \/ g[i].msg = NoMessage
                      \/ i \in DOMAIN f /\ g[i].msg = f[i].msg
                      \/ i \in DOMAIN c /\ i >= Len(f) /\ g[i].msg = Reread(c[i])

(* What is read again was there.                                           *)
LEMMA RereadFrom ==
  ASSUME NEW I, NEW H, NEW m \in Messages(Fragments, I, H),
         NEW p \in DOMAIN Reread(m).content, Reread(m).content[p].kind # "text"
  PROVE  \E q \in DOMAIN m.content : /\ m.content[q].kind = Reread(m).content[p].kind
                                     /\ m.content[q].id = Reread(m).content[p].id
<1> DEFINE b == Reread(m).content[p]
<1>1. \A x : Records(Reread(m), x) <=> Records(m, x)
  BY RereadSame
<1>2. b.kind # "input"
  <2>1. Reread(m) \in Messages(Fragments, I, H)
    BY RereadIs
  <2>2. b \in BlocksOf(Fragments, I, H)
    BY <2>1 DEF Messages
  <2> QED BY <2>2, KindsAre
<1>3. Records(Reread(m), Item(b.kind, NoInput, b.id))
  BY DEF Records
<1> HIDE DEF b
<1>4. Records(m, Item(b.kind, NoInput, b.id))
  BY <1>1, <1>3
<1> QED BY <1>2, <1>4 DEF Records, Item, b

(* Writing such messages writes no call and no result twice, ...           *)
LEMMA MixedOnce ==
  ASSUME NEW I, NEW f \in Seq(FileLines(I)), NEW c \in Chains(Fragments, I, I), NEW g,
         OnceOnly(f), Distinct(c), Beyond(f, c), Mixed(f, c, g)
  PROVE  OnceOnly(g)
<1> DEFINE here(i) == i \in DOMAIN f /\ g[i].msg = f[i].msg
           new(i) == i \in DOMAIN c /\ i >= Len(f) /\ g[i].msg = Reread(c[i])
<1>1. \A i \in DOMAIN c : c[i] \in Messages(Fragments, I, I)
  BY DEF Chains
<1>2. ASSUME NEW i \in DOMAIN g, NEW p \in DOMAIN g[i].msg.content PROVE here(i) \/ new(i)
  <2>1. NoMessage.content = <<>>
    BY DEF NoMessage, Message
  <2>2. ~ \E x : x \in DOMAIN <<>>
    OBVIOUS
  <2> QED BY <1>2, <2>1, <2>2 DEF Mixed
<1>3. ASSUME NEW i \in DOMAIN g, NEW p \in DOMAIN g[i].msg.content, new(i), g[i].msg.content[p].kind # "text"
      PROVE  \E q \in DOMAIN c[i].content : /\ c[i].content[q].kind = g[i].msg.content[p].kind
                                            /\ c[i].content[q].id = g[i].msg.content[p].id
  BY <1>1, <1>3, RereadFrom
<1>4. ASSUME NEW i \in DOMAIN g, new(i) PROVE OnceIn(g[i].msg)
  <2>1. OnceIn(c[i])
    BY <1>4 DEF Distinct, OnceIn, Once
  <2> QED BY <1>1, <1>4, <2>1, RereadSame
<1> SUFFICES ASSUME NEW i \in DOMAIN g, NEW j \in DOMAIN g,
                    NEW p \in DOMAIN g[i].msg.content, NEW q \in DOMAIN g[j].msg.content,
                    Twice(g[i].msg.content[p], g[j].msg.content[q])
             PROVE  i = j /\ p = q
  BY DEF OnceOnly
<1>5. CASE here(i) /\ here(j)
  BY <1>5 DEF OnceOnly
<1>6. CASE new(i) /\ new(j)
  <2>1. PICK k \in DOMAIN c[i].content : /\ c[i].content[k].kind = g[i].msg.content[p].kind
                                         /\ c[i].content[k].id = g[i].msg.content[p].id
    BY <1>3, <1>6 DEF Twice
  <2>2. PICK l \in DOMAIN c[j].content : /\ c[j].content[l].kind = g[j].msg.content[q].kind
                                         /\ c[j].content[l].id = g[j].msg.content[q].id
    BY <1>3, <1>6 DEF Twice
  <2>3. Twice(c[i].content[k], c[j].content[l])
    BY <2>1, <2>2 DEF Twice, SameCall, IsUse
  <2>4. i = j
    BY <1>6, <2>3 DEF Distinct
  <2>5. OnceIn(g[i].msg)
    BY <1>4, <1>6
  <2> QED BY <2>4, <2>5 DEF OnceIn, Once
<1>7. ASSUME NEW x \in DOMAIN g, NEW y \in DOMAIN g, here(x), new(y), x # y,
             NEW k \in DOMAIN g[x].msg.content, NEW l \in DOMAIN g[y].msg.content
      PROVE  ~Twice(g[x].msg.content[k], g[y].msg.content[l]) /\ ~Twice(g[y].msg.content[l], g[x].msg.content[k])
  <2> SUFFICES ASSUME \/ Twice(g[x].msg.content[k], g[y].msg.content[l])
                      \/ Twice(g[y].msg.content[l], g[x].msg.content[k])
               PROVE  FALSE
    OBVIOUS
  <2>1. PICK m \in DOMAIN c[y].content : /\ c[y].content[m].kind = g[y].msg.content[l].kind
                                         /\ c[y].content[m].id = g[y].msg.content[l].id
    BY <1>3, <1>7 DEF Twice
  <2>2. Apart(c[y].content, f[x].msg.content)
    BY <1>7 DEF Beyond
  <2>3. g[x].msg = f[x].msg
    BY <1>7
  <2> QED BY <2>1, <2>2, <2>3 DEF Apart, Twice, SameCall, IsUse
<1> QED
  <2>1. (here(i) \/ new(i)) /\ (here(j) \/ new(j))
    BY <1>2
  <2>2. CASE i # j
    <3> HIDE DEF here, new
    <3> QED BY <1>5, <1>6, <1>7, <2>1, <2>2
  <2>3. CASE i = j
    <3>1. (here(i) /\ here(j)) \/ (new(i) /\ new(j))
      <4> HIDE DEF here, new
      <4> QED BY <2>1, <2>3
    <3> QED BY <1>5, <1>6, <3>1
  <2> QED BY <2>2, <2>3

(* ... adds nothing that is not in memory, ...                             *)
LEMMA MixedSays ==
  ASSUME NEW I, NEW f \in Seq(FileLines(I)), NEW c \in Chains(Fragments, I, I), NEW g, Mixed(f, c, g)
  PROVE  /\ FileUses(g) \subseteq FileUses(f) \cup AllUseIds(c)
         /\ FileResults(g) \subseteq FileResults(f) \cup AllResultIds(c)
<1>1. ASSUME NEW i \in DOMAIN g, NEW p \in DOMAIN g[i].msg.content, g[i].msg.content[p].kind # "text"
      PROVE  \/ i \in DOMAIN f /\ g[i].msg = f[i].msg
             \/ i \in DOMAIN c /\ \E q \in DOMAIN c[i].content : /\ c[i].content[q].kind = g[i].msg.content[p].kind
                                                                 /\ c[i].content[q].id = g[i].msg.content[p].id
  <2>1. NoMessage.content = <<>> /\ ~ \E x : x \in DOMAIN <<>>
    BY DEF NoMessage, Message
  <2>2. \A j \in DOMAIN c : c[j] \in Messages(Fragments, I, I)
    BY DEF Chains
  <2> QED BY <1>1, <2>1, <2>2, RereadFrom DEF Mixed
<1>2. \A h : /\ DOMAIN ParsedOf(h) = DOMAIN h
             /\ \A i \in DOMAIN h : ParsedOf(h)[i] = h[i].msg
  BY DEF ParsedOf
<1>3. ASSUME NEW id \in FileUses(g) PROVE id \in FileUses(f) \cup AllUseIds(c)
  <2>1. PICK i \in DOMAIN g : \E p \in DOMAIN g[i].msg.content : IsUse(g[i].msg.content[p]) /\ id = g[i].msg.content[p].id
    BY <1>2, <1>3, IdsAreAt DEF FileUses
  <2>2. PICK p \in DOMAIN g[i].msg.content : IsUse(g[i].msg.content[p]) /\ id = g[i].msg.content[p].id
    BY <2>1
  <2>3. CASE i \in DOMAIN f /\ g[i].msg = f[i].msg
    <3>1. i \in DOMAIN ParsedOf(f) /\ p \in DOMAIN ParsedOf(f)[i].content
          /\ IsUse(ParsedOf(f)[i].content[p]) /\ id = ParsedOf(f)[i].content[p].id
      BY <1>2, <2>2, <2>3
    <3> QED BY <3>1, IdsAreAt DEF FileUses
  <2>4. CASE i \in DOMAIN c /\ \E q \in DOMAIN c[i].content : /\ c[i].content[q].kind = g[i].msg.content[p].kind
                                                              /\ c[i].content[q].id = g[i].msg.content[p].id
    <3>1. PICK q \in DOMAIN c[i].content : IsUse(c[i].content[q]) /\ c[i].content[q].id = id
      BY <2>2, <2>4 DEF IsUse
    <3> QED BY <2>4, <3>1, IdsAreAt
  <2> QED BY <1>1, <2>2, <2>3, <2>4 DEF IsUse
<1>4. ASSUME NEW id \in FileResults(g) PROVE id \in FileResults(f) \cup AllResultIds(c)
  <2>1. PICK i \in DOMAIN g : \E p \in DOMAIN g[i].msg.content : IsResult(g[i].msg.content[p]) /\ id = g[i].msg.content[p].id
    BY <1>2, <1>4, IdsAreAt DEF FileResults
  <2>2. PICK p \in DOMAIN g[i].msg.content : IsResult(g[i].msg.content[p]) /\ id = g[i].msg.content[p].id
    BY <2>1
  <2>3. CASE i \in DOMAIN f /\ g[i].msg = f[i].msg
    <3>1. i \in DOMAIN ParsedOf(f) /\ p \in DOMAIN ParsedOf(f)[i].content
          /\ IsResult(ParsedOf(f)[i].content[p]) /\ id = ParsedOf(f)[i].content[p].id
      BY <1>2, <2>2, <2>3
    <3> QED BY <3>1, IdsAreAt DEF FileResults
  <2>4. CASE i \in DOMAIN c /\ \E q \in DOMAIN c[i].content : /\ c[i].content[q].kind = g[i].msg.content[p].kind
                                                              /\ c[i].content[q].id = g[i].msg.content[p].id
    <3>1. PICK q \in DOMAIN c[i].content : IsResult(c[i].content[q]) /\ c[i].content[q].id = id
      BY <2>2, <2>4 DEF IsResult
    <3> QED BY <2>4, <3>1, IdsAreAt
  <2> QED BY <1>1, <2>2, <2>3, <2>4 DEF IsResult
<1> QED BY <1>3, <1>4

(* ... and leaves what the next flush may write in no other line.          *)
LEMMA MixedFollows ==
  ASSUME NEW I, NEW f \in Seq(FileLines(I)), NEW c \in Chains(Fragments, I, I), NEW g \in Seq(FileLines(I)),
         Distinct(c), Beyond(f, c), Answered(f, c), Mixed(f, c, g), Len(g) >= Len(f)
  PROVE  Beyond(g, c) /\ Answered(g, c)
<1>1. \A i \in DOMAIN c : c[i] \in Messages(Fragments, I, I)
  BY DEF Chains
<1>2. /\ Len(f) \in Nat /\ DOMAIN f = 1..Len(f) /\ Len(g) \in Nat /\ DOMAIN g = 1..Len(g)
      /\ Len(c) \in Nat /\ DOMAIN c = 1..Len(c)
  BY DEF Chains
<1>3. ASSUME NEW j \in DOMAIN c, NEW i \in DOMAIN g, j >= Len(g), i # j
      PROVE  Apart(c[j].content, g[i].msg.content)
  <2>1. j >= Len(f)
    BY <1>2, <1>3
  <2>2. CASE g[i].msg = NoMessage
    <3>1. NoMessage.content = <<>> /\ ~ \E x : x \in DOMAIN <<>>
      BY DEF NoMessage, Message
    <3> QED BY <2>2, <3>1 DEF Apart
  <2>3. CASE i \in DOMAIN f /\ g[i].msg = f[i].msg
    BY <1>3, <2>1, <2>3 DEF Beyond
  <2>4. CASE i \in DOMAIN c /\ g[i].msg = Reread(c[i])
    <3> SUFFICES ASSUME NEW p \in DOMAIN c[j].content, NEW q \in DOMAIN g[i].msg.content,
                        \/ Twice(c[j].content[p], g[i].msg.content[q])
                        \/ Twice(g[i].msg.content[q], c[j].content[p])
                 PROVE  FALSE
      BY DEF Apart
    <3>1. PICK k \in DOMAIN c[i].content : /\ c[i].content[k].kind = g[i].msg.content[q].kind
                                           /\ c[i].content[k].id = g[i].msg.content[q].id
      BY <1>1, <2>4, RereadFrom DEF Twice
    <3>2. Twice(c[j].content[p], c[i].content[k])
      BY <3>1 DEF Twice, SameCall, IsUse
    <3> QED BY <1>3, <2>4, <3>2 DEF Distinct
  <2> QED BY <2>2, <2>3, <2>4 DEF Mixed
<1>4. FileResults(g) \subseteq FileResults(f) \cup AllResultIds(c)
  BY MixedSays
<1> QED BY <1>3, <1>4 DEF Beyond, Answered

(* One line written after a line cut short makes one bad line of both.     *)
LEMMA JoinsTorn ==
  ASSUME NEW I, NEW f \in Seq(FileLines(I)), NEW lines \in Seq(FileLines(I)), Len(lines) = 1, EndsTorn(f)
  PROVE  LET g == AppendLines(f, lines)
         IN  /\ Len(g) = Len(f) /\ DOMAIN g = DOMAIN f /\ g[Len(f)] = BadLine("bad")
             /\ \A i \in DOMAIN f : i # Len(f) => g[i] = f[i]
<1> DEFINE L == FileLines(I)
           g == AppendLines(f, lines)
           front == Front(f)
           end == << BadLine("bad") >>
<1>1. Len(f) \in Nat /\ DOMAIN f = 1..Len(f) /\ (f = <<>> <=> Len(f) = 0)
  OBVIOUS
<1>2. lines # <<>> /\ Tail(lines) = <<>> /\ f # <<>> /\ Last(f).state = "torn"
  <2>1. f # <<>> /\ Last(f).state = "torn"
    BY DEF EndsTorn, Last
  <2>2. lines # <<>>
    <3>1. Len(<<>>) # 1
      OBVIOUS
    <3> QED BY <3>1
  <2>3. Tail(lines) \in Seq(L) /\ Len(Tail(lines)) = 0
    BY <2>2, HeadTailProperties
  <2>4. Tail(lines) = <<>>
    BY <2>3, EmptySeq
  <2> QED BY <2>1, <2>2, <2>4
<1>3. g = front \o end \o <<>>
  BY <1>2 DEF AppendLines
<1>4. front \in Seq(L) /\ Len(front) = Len(f) - 1 /\ \A i \in 1..(Len(f) - 1) : front[i] = f[i]
  BY <1>2, FrontIs
<1>5. end \in Seq(L) /\ Len(end) = 1 /\ DOMAIN end = {1} /\ end[1] = BadLine("bad")
  BY BadLines
<1> HIDE DEF g, front, end
<1>6. g = front \o end /\ Follows(front, end)
  BY <1>3, <1>4, <1>5, JoinedAfter
<1>7. Len(front) + 1 = Len(f) /\ Len(front) \in Nat /\ DOMAIN front = 1..(Len(f) - 1) /\ Len(f) # 0
  BY <1>1, <1>2, <1>4
<1>8. Len(g) = Len(f) /\ DOMAIN g = 1..Len(f) /\ g[Len(f)] = BadLine("bad")
  BY <1>5, <1>6, <1>7 DEF Follows
<1>9. \A i \in DOMAIN f : i # Len(f) => i \in 1..(Len(f) - 1)
  BY <1>1
<1>10. \A i \in DOMAIN f : i # Len(f) => g[i] = f[i]
  BY <1>4, <1>6, <1>7, <1>9 DEF Follows
<1> QED BY <1>1, <1>8, <1>10 DEF g

(* What the file holds after a flush is made of lines it had and of        *)
(* messages at and beyond its last place.                                  *)
LEMMA FlushMixes ==
  ASSUME NEW I, NEW f \in Seq(FileLines(I)), NEW c \in Chains(Fragments, I, I), NEW td \in BOOLEAN,
         EndsTorn(f) => Len(c) <= Len(f) + 1
  PROVE  LET g == FlushLast(f, c, td)
         IN  Mixed(f, c, g) /\ Len(g) >= Len(f) /\ ShortIfTorn(g, c)
<1> DEFINE g == FlushLast(f, c, td)
           L == FileLines(I)
<1>1. /\ Len(f) \in Nat /\ DOMAIN f = 1..Len(f) /\ Len(c) \in Nat /\ DOMAIN c = 1..Len(c)
      /\ (c = <<>> <=> Len(c) = 0) /\ (f = <<>> <=> Len(f) = 0)
  BY DEF Chains
<1>2. CASE c = <<>> \/ Len(c) < Len(f)
  <2>1. g = f
    BY <1>2 DEF FlushLast
  <2>2. Len(c) < Len(f) \/ f = <<>>
    BY <1>1, <1>2
  <2> HIDE DEF g
  <2>3. Mixed(f, c, g)
    BY <2>1 DEF Mixed
  <2>4. ShortIfTorn(g, c)
    BY <2>1, <2>2 DEF ShortIfTorn, EndsTorn
  <2>5. Len(g) >= Len(f)
    BY <1>1, <2>1
  <2> QED BY <2>3, <2>4, <2>5 DEF g
<1>3. CASE Len(c) > Len(f) /\ EndsTorn(f)
  <2> DEFINE lines == Lines(NewMessages(f, c), td)
  <2>1. lines \in Seq(L) /\ Len(lines) = 1
    <3>1. Len(c) - Len(f) = 1
      <4>1. Len(c) <= Len(f) + 1 /\ Len(c) > Len(f)
        BY <1>3
      <4>2. Len(f) \in Nat /\ Len(c) \in Nat
        BY <1>1
      <4> QED BY <4>1, <4>2
    <3> QED BY <1>3, <3>1, NewLinesAre
  <2>2. g = AppendLines(f, lines)
    <3>1. ~(c = <<>> \/ Len(c) < Len(f))
      BY <1>1, <1>3
    <3> QED BY <1>3, <3>1 DEF FlushLast
  <2> HIDE DEF g, lines
  <2>8. /\ Len(g) = Len(f) /\ DOMAIN g = DOMAIN f /\ g[Len(f)] = BadLine("bad")
        /\ \A i \in DOMAIN f : i # Len(f) => g[i] = f[i]
    BY <1>3, <2>1, <2>2, JoinsTorn
  <2>9. \A i \in DOMAIN g : (i \in DOMAIN f /\ g[i] = f[i]) \/ g[i] = BadLine("bad")
    BY <2>8
  <2>10. BadLine("bad").msg = NoMessage /\ BadLine("bad").state # "torn"
    BY DEF BadLine
  <2>11. Mixed(f, c, g)
    BY <2>9, <2>10 DEF Mixed
  <2>12. ShortIfTorn(g, c)
    BY <2>8, <2>10 DEF ShortIfTorn, EndsTorn
  <2>13. Len(g) >= Len(f)
    BY <1>1, <2>8
  <2> QED BY <2>11, <2>12, <2>13 DEF g
<1>4. CASE Len(c) > Len(f) /\ ~EndsTorn(f)
  <2> DEFINE new == NewMessages(f, c)
             lines == Lines(new, td)
  <2>1. g = AppendLines(f, lines)
    <3>1. ~(c = <<>> \/ Len(c) < Len(f))
      BY <1>1, <1>4
    <3> QED BY <1>4, <3>1 DEF FlushLast
  <2>2. lines \in Seq(L) /\ Len(lines) = Len(c) - Len(f)
    BY <1>4, NewLinesAre
  <2>3. \A i \in DOMAIN new : new[i] = c[Len(f) + i]
    BY <1>1, RestAt DEF NewMessages, Chains
  <2>4. \A i \in DOMAIN lines : lines[i] = Line(c[Len(f) + i], td)
    BY <2>3 DEF Lines
  <2>5. g = f \o lines
    BY <1>1, <1>4, <2>1 DEF AppendLines, EndsTorn, Last
  <2>6. Follows(f, lines)
    BY <2>2, JoinedAfter
  <2> HIDE DEF lines, new, g
  <2>7. /\ Len(g) = Len(c) /\ DOMAIN g = DOMAIN c
        /\ DOMAIN lines = 1..(Len(c) - Len(f)) /\ Len(c) - Len(f) \in Nat
    <3>1. DOMAIN lines = 1..Len(lines) /\ Len(f) + (Len(c) - Len(f)) = Len(c) /\ Len(c) - Len(f) \in Nat
      BY <1>1, <1>4, <2>2
    <3> QED BY <1>1, <2>2, <2>5, <2>6, <3>1 DEF Follows
  <2>8. ASSUME NEW i \in DOMAIN g, i \notin DOMAIN f PROVE g[i] = Line(c[i], td) /\ i >= Len(f) /\ i \in DOMAIN c
    <3>1. i - Len(f) \in DOMAIN lines /\ g[i] = lines[i - Len(f)]
      BY <2>5, <2>6, <2>8 DEF Follows
    <3>2. Len(f) + (i - Len(f)) = i /\ i >= Len(f)
      BY <1>1, <2>7, <2>8
    <3> QED BY <2>4, <2>7, <3>1, <3>2
  <2>9. \A i \in DOMAIN f : g[i] = f[i]
    BY <2>5, <2>6 DEF Follows
  <2>10. \A i \in DOMAIN c : Line(c[i], td).msg = Reread(c[i]) /\ Line(c[i], td).state # "torn"
    BY DEF Line
  <2>11. Mixed(f, c, g)
    BY <2>8, <2>9, <2>10 DEF Mixed
  <2>12. Len(c) \in DOMAIN g /\ Len(c) \notin DOMAIN f /\ Len(c) \in DOMAIN c
    BY <1>1, <1>4, <2>7
  <2>13. ShortIfTorn(g, c)
    BY <2>7, <2>8, <2>10, <2>12 DEF ShortIfTorn, EndsTorn
  <2>14. Len(g) >= Len(f)
    BY <1>1, <1>4, <2>7
  <2> QED BY <2>11, <2>13, <2>14 DEF g
<1>5. CASE Len(c) = Len(f) /\ c # <<>>
  <2> DEFINE last == Line(Last(c), td)
             front == Front(f)
             end == << last >>
  <2>1. g = front \o end /\ last = Line(c[Len(c)], td)
    BY <1>1, <1>5 DEF FlushLast, Last
  <2>2. f # <<>>
    BY <1>1, <1>5
  <2>3. front \in Seq(L) /\ Len(front) = Len(f) - 1 /\ \A i \in 1..(Len(f) - 1) : front[i] = f[i]
    BY <2>2, FrontIs
  <2>4. end \in Seq(L \cup {last}) /\ Len(end) = 1 /\ DOMAIN end = {1} /\ end[1] = last
    OBVIOUS
  <2>5. last.msg = Reread(c[Len(c)]) /\ last.state # "torn"
    BY <2>1 DEF Line
  <2> HIDE DEF last, front, g, end
  <2>6. front \in Seq(L \cup {last})
    BY <2>3, SeqGrows
  <2>7. Follows(front, end)
    BY <2>4, <2>6, JoinedAfter
  <2>8. Len(g) = Len(f) /\ DOMAIN g = 1..Len(f) /\ g[Len(f)] = last /\ \A i \in 1..(Len(f) - 1) : g[i] = f[i]
    <3>1. DOMAIN front = 1..(Len(f) - 1) /\ Len(front) + 1 = Len(f)
      BY <1>1, <2>3
    <3> QED BY <2>1, <2>3, <2>4, <2>7, <3>1 DEF Follows
  <2>9. \A i \in DOMAIN g : i # Len(f) => i \in DOMAIN f /\ g[i] = f[i]
    <3> SUFFICES ASSUME NEW i \in DOMAIN g, i # Len(f) PROVE i \in DOMAIN f /\ g[i] = f[i]
      OBVIOUS
    <3>1. i \in 1..(Len(f) - 1) /\ i \in 1..Len(f)
      BY <1>1, <2>8
    <3> QED BY <1>1, <2>8, <3>1
  <2>10. Len(f) \in DOMAIN c /\ Len(f) >= Len(f)
    BY <1>1, <1>5
  <2>11. Mixed(f, c, g)
    BY <1>5, <2>5, <2>8, <2>9, <2>10 DEF Mixed
  <2>12. ShortIfTorn(g, c)
    BY <2>5, <2>8 DEF ShortIfTorn, EndsTorn
  <2>13. Len(g) >= Len(f)
    BY <1>1, <2>8
  <2> QED BY <2>11, <2>12, <2>13 DEF g
<1>6. Len(c) < Len(f) \/ Len(c) > Len(f) \/ Len(c) = Len(f)
  <2>1. \A x, y \in Nat : x < y \/ x > y \/ x = y
    OBVIOUS
  <2> QED BY <1>1, <2>1
<1> HIDE DEF g
<1>7. Mixed(f, c, g) /\ Len(g) >= Len(f) /\ ShortIfTorn(g, c)
  BY <1>2, <1>3, <1>4, <1>5, <1>6 DEF g
<1> QED BY <1>7 DEF g

(* ... also when the flush is cut.                                         *)
LEMMA CutMixes ==
  ASSUME NEW I, NEW f \in Seq(FileLines(I)), NEW c \in Chains(Fragments, I, I), NEW td \in BOOLEAN,
         EndsTorn(f) => Len(c) <= Len(f) + 1, NEW g \in CutFlush(f, c, td)
  PROVE  Mixed(f, c, g)
<1> DEFINE L == FileLines(I)
<1>1. /\ Len(f) \in Nat /\ DOMAIN f = 1..Len(f) /\ Len(c) \in Nat /\ DOMAIN c = 1..Len(c)
      /\ (c = <<>> <=> Len(c) = 0) /\ (f = <<>> <=> Len(f) = 0)
  BY DEF Chains
<1>2. \A line \in TornLines \cup {BadLine("bad")} : line.msg = NoMessage /\ line \in L
  <2>1. \A state : BadLine(state).msg = NoMessage
    BY DEF BadLine
  <2>2. BadLine("bad") \in L /\ TornLines \subseteq L
    BY BadLines
  <2> QED BY <2>1, <2>2 DEF TornLines
<1>3. CASE c = <<>> \/ Len(c) < Len(f)
  BY <1>3 DEF CutFlush, Mixed
<1>4. CASE c # <<>> /\ Len(c) > Len(f)
  <2> DEFINE new == NewMessages(f, c)
             lines == Lines(new, td)
             K == 0..(Len(c) - Len(f) - 1)
             cutAt(k, torn) == AppendLines(f, SubSeq(lines, 1, k) \o <<torn>>)
             cuts == {cutAt(k, torn) : k \in K, torn \in TornLines}
  <2>1. lines \in Seq(L) /\ Len(lines) = Len(c) - Len(f)
    BY <1>4, NewLinesAre
  <2>2. CutFlush(f, c, td) = cuts
    <3>1. ~(c = <<>> \/ Len(c) < Len(f))
      BY <1>1, <1>4
    <3> QED BY <1>4, <3>1 DEF CutFlush
  <2>3. PICK k \in K, torn \in TornLines : g = cutAt(k, torn)
    <3> HIDE DEF lines, cutAt, K
    <3>1. g \in cuts
      <4> HIDE DEF cuts
      <4> QED BY <2>2
    <3> QED BY <3>1
  <2> DEFINE part == SubSeq(lines, 1, k)
             end == << torn >>
  <2>4. \A i \in DOMAIN lines : lines[i] = Line(c[Len(f) + i], td)
    <3>1. \A i \in DOMAIN new : new[i] = c[Len(f) + i]
      BY <1>1, RestAt DEF NewMessages, Chains
    <3> QED BY <3>1 DEF Lines
  <2>5. k \in Nat /\ k <= Len(lines) /\ torn \in L /\ torn.msg = NoMessage
    BY <1>1, <1>2, <1>4, <2>1, <2>3
  <2>6. end \in Seq(L) /\ Len(end) = 1 /\ DOMAIN end = {1} /\ end[1] = torn
    BY <2>5
  <2>7. part \in Seq(L) /\ Len(part) = k /\ \A i \in 1..k : i \in DOMAIN lines /\ part[i] = lines[i]
    <3> HIDE DEF lines, new
    <3> QED BY <2>1, <2>5
  <2>8. g = AppendLines(f, part \o end)
    BY <2>3
  <2> HIDE DEF lines, new, part, end, cutAt, cuts
  <2>9. Follows(part, end)
    BY <2>6, <2>7, JoinedAfter
  <2>10. part \o end \in Seq(L)
    BY <2>6, <2>7
  <2>11. CASE EndsTorn(f)
    <3>1. k = 0
      <4>1. Len(c) - Len(f) - 1 = 0
        <5>1. Len(c) <= Len(f) + 1 /\ Len(c) > Len(f)
          BY <1>4, <2>11
        <5>2. Len(c) \in Nat /\ Len(f) \in Nat
          BY <1>1
        <5> QED BY <5>1, <5>2
      <4> QED BY <2>3, <4>1
    <3>2. Len(part \o end) = 1
      BY <2>6, <2>7, <2>9, <3>1 DEF Follows
    <3>3. /\ DOMAIN g = DOMAIN f /\ g[Len(f)] = BadLine("bad")
          /\ \A i \in DOMAIN f : i # Len(f) => g[i] = f[i]
      BY <2>8, <2>10, <2>11, <3>2, JoinsTorn
    <3> QED BY <1>2, <3>3 DEF Mixed
  <2>12. CASE ~EndsTorn(f)
    <3> DEFINE more == part \o end
    <3>1. g = f \o more
      BY <1>1, <2>8, <2>12 DEF AppendLines, EndsTorn, Last
    <3>2. \A m \in DOMAIN more : (m \in DOMAIN lines /\ more[m] = lines[m]) \/ more[m] = torn
      <4> SUFFICES ASSUME NEW m \in DOMAIN more
                   PROVE  (m \in DOMAIN lines /\ more[m] = lines[m]) \/ more[m] = torn
        OBVIOUS
      <4>1. CASE m \in DOMAIN part
        <5>1. DOMAIN part = 1..k
          BY <2>7
        <5> QED BY <2>7, <2>9, <4>1, <5>1 DEF Follows
      <4>2. CASE m \notin DOMAIN part
        BY <2>6, <2>9, <4>2 DEF Follows
      <4> QED BY <4>1, <4>2
    <3>3. Follows(f, more)
      BY <2>10, JoinedAfter
    <3> HIDE DEF more
    <3>4. ASSUME NEW i \in DOMAIN g, i \notin DOMAIN f
          PROVE  g[i].msg = NoMessage \/ (i \in DOMAIN c /\ i >= Len(f) /\ g[i].msg = Reread(c[i]))
      <4>1. i - Len(f) \in DOMAIN more /\ g[i] = more[i - Len(f)]
        BY <3>1, <3>3, <3>4 DEF Follows
      <4>2. CASE more[i - Len(f)] = torn
        BY <2>5, <4>1, <4>2
      <4>3. CASE i - Len(f) \in DOMAIN lines /\ more[i - Len(f)] = lines[i - Len(f)]
        <5>1. DOMAIN lines = 1..(Len(c) - Len(f))
          BY <2>1
        <5>2. DOMAIN g = 1..(Len(f) + Len(more))
          BY <3>1, <3>3 DEF Follows
        <5>3. i \in Int
          BY <5>2
        <5>4. Len(f) + (i - Len(f)) = i /\ i >= Len(f) /\ i \in DOMAIN c
          BY <1>1, <4>3, <5>1, <5>3
        <5>5. g[i] = Line(c[i], td)
          BY <2>4, <4>1, <4>3, <5>4
        <5> QED BY <5>4, <5>5 DEF Line
      <4> QED BY <3>2, <4>1, <4>2, <4>3
    <3>5. \A i \in DOMAIN f : g[i] = f[i]
      BY <3>1, <3>3 DEF Follows
    <3> QED BY <3>4, <3>5 DEF Mixed
  <2> QED BY <2>11, <2>12
<1>5. CASE c # <<>> /\ Len(c) = Len(f)
  <2> DEFINE front == Front(f)
  <2>1. f # <<>>
    BY <1>1, <1>5
  <2>2. front \in Seq(L) /\ Len(front) = Len(f) - 1 /\ \A i \in 1..(Len(f) - 1) : front[i] = f[i]
    BY <2>1, FrontIs
  <2>3. g = front \/ \E torn \in TornLines : g = front \o << torn >>
    <3>1. ~(c = <<>> \/ Len(c) < Len(f)) /\ ~(Len(c) > Len(f))
      BY <1>1, <1>5
    <3> HIDE DEF front
    <3>2. CutFlush(f, c, td) = {front} \cup {front \o << torn >> : torn \in TornLines}
      BY <3>1 DEF CutFlush, front
    <3>3. g \in {front} \cup {front \o << torn >> : torn \in TornLines}
      BY <3>2
    <3> QED BY <3>3
  <2> HIDE DEF front
  <2>4. DOMAIN front = 1..(Len(f) - 1) /\ \A i \in DOMAIN front : i \in DOMAIN f /\ front[i] = f[i]
    <3>1. DOMAIN front = 1..(Len(f) - 1) /\ \A i \in 1..(Len(f) - 1) : i \in 1..Len(f)
      BY <1>1, <2>2
    <3> QED BY <1>1, <2>2, <3>1
  <2>5. CASE g = front
    BY <2>4, <2>5 DEF Mixed
  <2>6. ASSUME NEW torn \in TornLines, g = front \o << torn >> PROVE Mixed(f, c, g)
    <3> DEFINE end == << torn >>
    <3>1. end \in Seq(L) /\ Len(end) = 1 /\ DOMAIN end = {1} /\ end[1] = torn
      BY <1>2
    <3> HIDE DEF end
    <3>2. Follows(front, end)
      BY <2>2, <3>1, JoinedAfter
    <3>3. \A i \in DOMAIN g : (i \in DOMAIN front /\ g[i] = front[i]) \/ g[i] = torn
      BY <2>6, <3>1, <3>2 DEF Follows, end
    <3>4. torn.msg = NoMessage
      BY <1>2
    <3> QED BY <2>4, <3>3, <3>4 DEF Mixed
  <2> QED BY <2>3, <2>5, <2>6
<1>6. Len(c) < Len(f) \/ Len(c) > Len(f) \/ Len(c) = Len(f)
  <2>1. \A x, y \in Nat : x < y \/ x > y \/ x = y
    OBVIOUS
  <2> QED BY <1>1, <2>1
<1> QED BY <1>3, <1>4, <1>5, <1>6

(* A message none of whose calls and results stands in the file.           *)
Unwritten(f, msg) ==
  /\ UseIds(msg) \cap (FileUses(f) \cup FileResults(f)) = {}
  /\ ResultIds(msg) \cap FileResults(f) = {}

LEMMA UnwrittenApart ==
  ASSUME NEW f, NEW I, NEW msg \in Messages(Fragments, I, I), Unwritten(f, msg), NEW i \in DOMAIN f,
         f \in Seq(FileLines(I))
  PROVE  Apart(msg.content, f[i].msg.content)
<1> SUFFICES ASSUME NEW p \in DOMAIN msg.content, NEW q \in DOMAIN f[i].msg.content,
                    \/ Twice(msg.content[p], f[i].msg.content[q])
                    \/ Twice(f[i].msg.content[q], msg.content[p])
             PROVE  FALSE
  BY DEF Apart
<1> DEFINE a == msg.content[p]
           b == f[i].msg.content[q]
<1>1. a.kind # "text" /\ b.kind # "text" /\ a.id = b.id /\ (IsUse(a) <=> IsUse(b))
  BY DEF Twice, SameCall
<1>2. a \in BlocksOf(Fragments, I, I)
  BY DEF Messages
<1>3. b \in BlocksOf(Fragments, I, I)
  <2>1. f[i] \in FileLines(I)
    OBVIOUS
  <2>2. f[i].msg \in Messages(Fragments, I, I) \/ f[i].msg = NoMessage
    BY <2>1 DEF FileLines
  <2>3. NoMessage.content = <<>> /\ ~ \E x : x \in DOMAIN <<>>
    BY DEF NoMessage, Message
  <2> QED BY <2>2, <2>3 DEF Messages
<1>4. i \in DOMAIN ParsedOf(f) /\ q \in DOMAIN ParsedOf(f)[i].content /\ ParsedOf(f)[i].content[q] = b
  BY DEF ParsedOf
<1>5. CASE IsUse(a)
  <2>1. a.id \in UseIds(msg)
    BY <1>5 DEF UseIds, ToSet
  <2>2. a.id \in FileUses(f)
    BY <1>1, <1>4, <1>5, IdsAreAt DEF FileUses
  <2> QED BY <2>1, <2>2 DEF Unwritten
<1>6. CASE IsResult(a)
  <2>1. IsResult(b)
    BY <1>1, <1>2, <1>3, <1>6, KindsAre
  <2>2. a.id \in ResultIds(msg)
    BY <1>6 DEF ResultIds, ToSet
  <2>3. a.id \in FileResults(f)
    BY <1>1, <1>4, <2>1, IdsAreAt DEF FileResults
  <2> QED BY <2>2, <2>3 DEF Unwritten
<1> QED BY <1>1, <1>2, <1>5, <1>6, KindsAre

(* Such a message may be added to the memory.                              *)
LEMMA AppendBeyond ==
  ASSUME NEW I, NEW f \in Seq(FileLines(I)), NEW c \in Chains(Fragments, I, I), NEW msg \in Messages(Fragments, I, I),
         Unwritten(f, msg), Beyond(f, c), Answered(f, c)
  PROVE  LET new == AppendMessage(c, msg)
         IN  Beyond(f, new) /\ Answered(f, new)
<1> DEFINE new == AppendMessage(c, msg)
<1>1. PICK n, base \in Nat : Grown(c, msg, new, n, base)
  BY AppendGrows
<1>2. /\ AllUseIds(new) = AllUseIds(c) \cup UseIds(msg)
      /\ AllResultIds(new) = AllResultIds(c) \cup ResultIds(msg)
  BY AppendIds
<1> HIDE DEF new
<1>3. ASSUME NEW j \in DOMAIN new, NEW i \in DOMAIN f, j >= Len(f), i # j
      PROVE  Apart(new[j].content, f[i].msg.content)
  <2> SUFFICES ASSUME NEW p \in DOMAIN new[j].content, NEW q \in DOMAIN f[i].msg.content
               PROVE  /\ ~Twice(new[j].content[p], f[i].msg.content[q])
                      /\ ~Twice(f[i].msg.content[q], new[j].content[p])
    BY DEF Apart
  <2>1. CASE j \in DOMAIN c /\ p \in DOMAIN c[j].content
    <3>1. new[j].content[p] = c[j].content[p]
      BY <1>1, <2>1 DEF Grown
    <3>2. Apart(c[j].content, f[i].msg.content)
      BY <1>3, <2>1 DEF Beyond
    <3> QED BY <2>1, <3>1, <3>2 DEF Apart
  <2>2. CASE p - base \in DOMAIN msg.content /\ new[j].content[p] = msg.content[p - base]
    <3>1. Apart(msg.content, f[i].msg.content)
      BY UnwrittenApart
    <3> QED BY <2>2, <3>1 DEF Apart
  <2> QED BY <1>1, <2>1, <2>2 DEF Grown
<1>4. Answered(f, new)
  BY <1>2 DEF Answered, Unwritten
<1>5. Beyond(f, new)
  BY <1>3 DEF Beyond
<1> QED BY <1>4, <1>5 DEF new

LEMMA AppendShort ==
  ASSUME NEW I, NEW f \in Seq(FileLines(I)), NEW c \in Chains(Fragments, I, I), NEW msg \in Messages(Fragments, I, I),
         ShortIfTorn(f, c)
  PROVE  LET new == AppendMessage(c, msg)
         IN  /\ EndsTorn(f) => Len(new) <= Len(f) + 1
             /\ msg.role = "user" => ShortIfTorn(f, new)
<1> DEFINE new == AppendMessage(c, msg)
<1>1. Joins(c, msg, new) \/ Adds(c, msg, new)
  BY JoinsOrAdds
<1>2. Len(f) \in Nat /\ Len(c) \in Nat /\ (c = <<>> <=> Len(c) = 0)
  BY DEF Chains
<1> HIDE DEF new
<1>3. (Len(new) = Len(c) \/ Len(new) = Len(c) + 1)
  BY <1>1 DEF Joins, Adds
<1>4. ASSUME EndsTorn(f) PROVE Len(new) <= Len(f) + 1
  <2>1. Len(c) < Len(f) \/ Len(c) = Len(f)
    BY <1>4 DEF ShortIfTorn
  <2> QED BY <1>2, <1>3, <2>1
<1>5. ASSUME msg.role = "user", EndsTorn(f)
      PROVE  Len(new) < Len(f) \/ (Len(new) = Len(f) /\ new[Len(new)].role = "user")
  <2>1. new[Len(new)].role = "user"
    BY <1>1, <1>5 DEF Joins, Adds
  <2>2. CASE Len(c) < Len(f)
    BY <1>2, <1>3, <2>1, <2>2
  <2>3. CASE Len(c) = Len(f) /\ c[Len(c)].role = "user"
    <3>1. c # <<>>
      <4>1. Len(f) # 0
        BY <1>5 DEF EndsTorn
      <4> QED BY <1>2, <2>3, <4>1
    <3>2. Joins(c, msg, new)
      BY <1>1, <1>5, <2>3, <3>1 DEF Adds
    <3> QED BY <2>1, <2>3, <3>2 DEF Joins
  <2> QED BY <1>5, <2>2, <2>3 DEF ShortIfTorn
<1> QED BY <1>4, <1>5 DEF new, ShortIfTorn

(* Places of s matched one to one with places of t: s is no longer, and    *)
(* when as long, every place of t is matched.                              *)
Numbered(s) == Len(s) \in Nat /\ DOMAIN s = 1..Len(s)
EachOnce(g, s, t) == g \in [DOMAIN s -> DOMAIN t] /\ \A i, j \in DOMAIN s : g[i] = g[j] => i = j
CoveredIfLong(g, s, t) ==
  /\ Len(s) < Len(t) \/ Len(s) = Len(t)
  /\ Len(s) = Len(t) => \A x \in DOMAIN t : \E i \in DOMAIN s : g[i] = x

LEMMA NoLonger ==
  ASSUME NEW s, NEW t, Numbered(s), Numbered(t), NEW g, EachOnce(g, s, t)
  PROVE  CoveredIfLong(g, s, t)
<1> USE DEF Numbered, EachOnce
<1>1. g \in Injection(DOMAIN s, DOMAIN t)
  BY DEF Injection, IsInjective
<1>2. \A k \in Nat : IsFiniteSet(1..k) /\ Cardinality(1..k) = k
  <2> SUFFICES ASSUME NEW k \in Nat PROVE IsFiniteSet(1..k) /\ Cardinality(1..k) = k
    OBVIOUS
  <2>1. /\ IsFiniteSet(1..k)
        /\ Cardinality(1..k) = IF 1 > k THEN 0 ELSE k - 1 + 1
    <3>1. 1 \in Int /\ k \in Int
      OBVIOUS
    <3> QED BY <3>1, FS_Interval, Zenon
  <2>2. (IF 1 > k THEN 0 ELSE k - 1 + 1) = k
    OBVIOUS
  <2> QED BY <2>1, <2>2
<1>3. IsFiniteSet(DOMAIN t) /\ Cardinality(DOMAIN s) = Len(s) /\ Cardinality(DOMAIN t) = Len(t)
  BY <1>2
<1>4. /\ Cardinality(DOMAIN s) <= Cardinality(DOMAIN t)
      /\ Cardinality(DOMAIN s) = Cardinality(DOMAIN t) <=> g \in Surjection(DOMAIN s, DOMAIN t)
  BY <1>1, <1>3, FS_Injection, Zenon
<1>5. Len(s) = Len(t) => \A x \in DOMAIN t : \E i \in DOMAIN s : g[i] = x
  BY <1>3, <1>4 DEF Surjection
<1>6. Len(s) < Len(t) \/ Len(s) = Len(t)
  <2>1. \A x, y \in Nat : x <= y => x < y \/ x = y
    OBVIOUS
  <2> QED BY <1>3, <1>4, <2>1
<1> QED BY <1>5, <1>6 DEF CoveredIfLong

(* What is read from a file: its good lines, in some places of the chain.  *)
LEMMA ReadFrom ==
  ASSUME NEW I, NEW f \in Seq(FileLines(I))
  PROVE  LET good == {i \in DOMAIN f : f[i].state = "ok"}
         IN  /\ \E g \in [DOMAIN Parsed(f) -> good] :
                  /\ \A p, q \in DOMAIN Parsed(f) : g[p] = g[q] => p = q
                  /\ \A q \in DOMAIN Parsed(f) : Parsed(f)[q] = f[g[q]].msg
             /\ \A i \in good : \E q \in DOMAIN Parsed(f) : Parsed(f)[q] = f[i].msg
             /\ DOMAIN f \subseteq good => Parsed(f) = ParsedOf(f)
             /\ \A i \in DOMAIN f \ good : f[i].msg.content = <<>>
<1> DEFINE good == {i \in DOMAIN f : f[i].state = "ok"}
           msgs == ParsedOf(f)
           T == Messages(Fragments, I, I) \cup {NoMessage}
           parts == [i \in DOMAIN f |-> FromJson(f[i])]
           ones == [i \in DOMAIN msgs |-> IF i \in good THEN << msgs[i] >> ELSE <<>>]
<1>1. \A i \in DOMAIN f : f[i] \in FileLines(I)
  OBVIOUS
<1>2. \A i \in DOMAIN f : f[i].msg \in T /\ (f[i].state # "ok" => f[i].msg = NoMessage)
  BY <1>1 DEF FileLines
<1>3. Len(f) \in Nat /\ DOMAIN f = 1..Len(f)
  OBVIOUS
<1>4. DOMAIN msgs = DOMAIN f /\ \A i \in DOMAIN f : msgs[i] = f[i].msg
  BY DEF ParsedOf
<1>5. msgs \in Seq(T)
  <2>1. msgs \in [1..Len(f) -> T]
    BY <1>2, <1>3 DEF ParsedOf
  <2> HIDE DEF msgs, T
  <2> QED BY <1>3, <2>1
<1>6. \A i \in DOMAIN f : FromJson(f[i]) = IF i \in good THEN << f[i].msg >> ELSE <<>>
  BY DEF FromJson
<1>7. good \subseteq DOMAIN f
  OBVIOUS
<1>8. \A i \in DOMAIN f \ good : f[i].msg.content = <<>>
  BY <1>2 DEF NoMessage, Message
<1> HIDE DEF good, msgs, T
<1>9. parts = ones
  BY <1>4, <1>6
<1>10. Parsed(f) = Selected(msgs, good)
  BY <1>9 DEF Parsed, Selected
<1> HIDE DEF parts, ones
<1>11. \E g \in [DOMAIN Parsed(f) -> good \cap DOMAIN msgs] :
         /\ \A p, q \in DOMAIN Parsed(f) : g[p] = g[q] => p = q
         /\ \A q \in DOMAIN Parsed(f) : Parsed(f)[q] = msgs[g[q]]
  BY <1>5, <1>10, SelectedOnce
<1>12. \E g \in [DOMAIN Parsed(f) -> good] :
         /\ \A p, q \in DOMAIN Parsed(f) : g[p] = g[q] => p = q
         /\ \A q \in DOMAIN Parsed(f) : Parsed(f)[q] = f[g[q]].msg
  <2>1. PICK g \in [DOMAIN Parsed(f) -> good \cap DOMAIN msgs] :
          /\ \A p, q \in DOMAIN Parsed(f) : g[p] = g[q] => p = q
          /\ \A q \in DOMAIN Parsed(f) : Parsed(f)[q] = msgs[g[q]]
    BY <1>11
  <2>2. g \in [DOMAIN Parsed(f) -> good] /\ \A q \in DOMAIN Parsed(f) : Parsed(f)[q] = f[g[q]].msg
    BY <1>4, <2>1
  <2> QED BY <2>1, <2>2
<1>13. \A i \in good : \E q \in DOMAIN Parsed(f) : Parsed(f)[q] = f[i].msg
  <2>1. \A i \in good \cap DOMAIN msgs : \E q \in DOMAIN Parsed(f) : Parsed(f)[q] = msgs[i]
    BY <1>5, <1>10, SelectedIs
  <2> QED BY <1>4, <1>7, <2>1
<1>14. DOMAIN f \subseteq good => Parsed(f) = msgs
  BY <1>4, <1>5, <1>10, SelectedAll
<1> QED BY <1>8, <1>12, <1>13, <1>14 DEF good, msgs

(* Dropping nothing keeps every message in its place.                      *)
LEMMA DropInPlace ==
  ASSUME NEW F, NEW I, NEW H, NEW msgs \in Chains(F, I, H), \A i \in DOMAIN msgs : KeptBlocks(msgs, i) # <<>>
  PROVE  DropInvalidBlocks(msgs) = [i \in DOMAIN msgs |-> Message(msgs[i].role, KeptBlocks(msgs, i))]
<1> DEFINE kept(i) == Message(msgs[i].role, KeptBlocks(msgs, i))
           all == [i \in DOMAIN msgs |-> kept(i)]
           filled == {i \in DOMAIN all : all[i].content # <<>>}
           T == {kept(i) : i \in DOMAIN msgs}
<1>1. Len(msgs) \in Nat /\ DOMAIN msgs = 1..Len(msgs)
  BY ChainIs
<1>2. all \in Seq(T) /\ DOMAIN all = DOMAIN msgs /\ \A i \in DOMAIN all : all[i] = kept(i)
  <2> HIDE DEF kept
  <2>1. \A i \in 1..Len(msgs) : kept(i) \in T
    BY <1>1
  <2>2. all \in [1..Len(msgs) -> T]
    BY <1>1, <2>1
  <2> HIDE DEF T
  <2> QED BY <1>1, <2>2
<1>3. DropInvalidBlocks(msgs) = Selected(all, filled)
  BY DEF DropInvalidBlocks, WithoutEmpty
<1>4. DOMAIN all \subseteq filled
  BY <1>2 DEF Message
<1> HIDE DEF filled, T, all
<1>5. Selected(all, filled) = all
  BY <1>2, <1>4, SelectedAll
<1> QED BY <1>3, <1>5 DEF all

(* What is read from a file and stripped of what the repair drops fits it: *)
(* it is shorter than the file, or every line was good and every message   *)
(* is in the place of its line.                                            *)
LEMMA ReadBackFits ==
  ASSUME NEW I, NEW f \in Seq(FileLines(I)), OnceOnly(f)
  PROVE  LET out == DropInvalidBlocks(Parsed(f))
         IN  Beyond(f, out) /\ Answered(f, out) /\ ShortIfTorn(f, out)
<1> DEFINE msgs == Parsed(f)
           out == DropInvalidBlocks(msgs)
           good == {i \in DOMAIN f : f[i].state = "ok"}
<1>1. msgs \in Chains(Fragments, I, I) /\ out \in Chains(Fragments, I, I)
  BY ParsedIs, DropIs
<1>2. PICK g \in [DOMAIN msgs -> good] :
        /\ \A p, q \in DOMAIN msgs : g[p] = g[q] => p = q
        /\ \A q \in DOMAIN msgs : msgs[q] = f[g[q]].msg
  BY ReadFrom
<1>3. /\ \A i \in good : \E q \in DOMAIN msgs : msgs[q] = f[i].msg
      /\ DOMAIN f \subseteq good => msgs = ParsedOf(f)
      /\ \A i \in DOMAIN f \ good : f[i].msg.content = <<>>
  BY ReadFrom
<1>4. PICK h \in [DOMAIN out -> DOMAIN msgs] :
        /\ \A k, l \in DOMAIN out : h[k] = h[l] => k = l
        /\ \A k \in DOMAIN out : out[k] = Message(msgs[h[k]].role, KeptBlocks(msgs, h[k])) /\ out[k].content # <<>>
        /\ \A i \in DOMAIN msgs : KeptBlocks(msgs, i) # <<>> =>
             \E k \in DOMAIN out : out[k] = Message(msgs[i].role, KeptBlocks(msgs, i))
  BY <1>1, DropPlaces
<1>5. good \subseteq DOMAIN f /\ \A i \in good : f[i].state = "ok"
  OBVIOUS
<1>6. /\ Len(f) \in Nat /\ DOMAIN f = 1..Len(f) /\ Len(out) \in Nat /\ DOMAIN out = 1..Len(out)
  BY <1>1, ChainIs
<1> HIDE DEF msgs, out, good
<1> DEFINE place == [k \in DOMAIN out |-> g[h[k]]]
<1>7. /\ place \in [DOMAIN out -> good] /\ \A k, l \in DOMAIN out : place[k] = place[l] => k = l
      /\ \A k \in DOMAIN out : place[k] = g[h[k]] /\ place[k] \in good
  BY <1>2, <1>4
<1>8. /\ Len(out) < Len(f) \/ Len(out) = Len(f)
      /\ Len(out) = Len(f) => \A x \in DOMAIN f : \E k \in DOMAIN out : place[k] = x
  <2>1. EachOnce(place, out, f)
    BY <1>5, <1>7 DEF EachOnce
  <2>2. Numbered(out) /\ Numbered(f)
    BY <1>6 DEF Numbered
  <2> HIDE DEF place
  <2>3. CoveredIfLong(place, out, f)
    BY <2>1, <2>2, NoLonger
  <2> QED BY <2>3 DEF CoveredIfLong
<1>9. ShortIfTorn(f, out)
  <2> SUFFICES ASSUME EndsTorn(f) PROVE Len(out) < Len(f)
    BY DEF ShortIfTorn
  <2>1. Len(f) \in DOMAIN f
    <3>1. Len(f) # 0
      BY DEF EndsTorn
    <3> QED BY <1>6, <3>1
  <2>2. Len(f) \notin good
    BY DEF EndsTorn, good
  <2>3. Len(out) # Len(f)
    BY <1>7, <1>8, <2>1, <2>2
  <2> QED BY <1>8, <2>3
<1>10. Distinct(msgs)
  BY <1>2, <1>5 DEF Distinct, OnceOnly
<1>11. ASSUME NEW k \in DOMAIN out, NEW p \in DOMAIN out[k].content
       PROVE  \E q \in DOMAIN msgs[h[k]].content : out[k].content[p] = msgs[h[k]].content[q]
  <2>1. out[k].content = KeptBlocks(msgs, h[k]) /\ h[k] \in DOMAIN msgs
    BY <1>4 DEF Message
  <2>2. PICK places \in [DOMAIN KeptBlocks(msgs, h[k]) -> DOMAIN msgs[h[k]].content] :
          \A q \in DOMAIN KeptBlocks(msgs, h[k]) : KeptBlocks(msgs, h[k])[q] = msgs[h[k]].content[places[q]]
    BY <1>1, <2>1, KeptAre DEF msgs
  <2> QED BY <1>11, <2>1, <2>2
<1>12. Answered(f, out)
  <2> SUFFICES ASSUME NEW id \in FileResults(f), id \in AllUseIds(out) PROVE id \in AllResultIds(out)
    BY DEF Answered
  <2>1. id \in AllUseIds(msgs)
    <3>1. PICK k \in DOMAIN out : \E p \in DOMAIN out[k].content : IsUse(out[k].content[p]) /\ id = out[k].content[p].id
      BY IdsAreAt
    <3>2. PICK q \in DOMAIN msgs[h[k]].content : IsUse(msgs[h[k]].content[q]) /\ id = msgs[h[k]].content[q].id
      BY <1>11, <3>1
    <3> QED BY <1>4, <3>2, IdsAreAt
  <2>2. PICK i \in DOMAIN f : \E p \in DOMAIN f[i].msg.content : IsResult(f[i].msg.content[p]) /\ id = f[i].msg.content[p].id
    <3>1. DOMAIN ParsedOf(f) = DOMAIN f /\ \A i \in DOMAIN f : ParsedOf(f)[i] = f[i].msg
      BY DEF ParsedOf
    <3> QED BY <3>1, IdsAreAt DEF FileResults
  <2>3. i \in good
    <3>1. ~ \E x : x \in DOMAIN <<>>
      OBVIOUS
    <3> QED BY <1>3, <2>2, <3>1
  <2>4. PICK q \in DOMAIN msgs : msgs[q] = f[i].msg
    BY <1>3, <2>3
  <2>5. PICK p \in DOMAIN msgs[q].content : IsResult(msgs[q].content[p]) /\ id = msgs[q].content[p].id
    BY <2>2, <2>4
  <2>6. ~SeenBefore(msgs, q, p)
    <3> SUFFICES ASSUME NEW j \in 1..q, NEW r \in DOMAIN msgs[j].content, j < q \/ r < p,
                        msgs[j].content[r].kind # "text", SameCall(msgs[j].content[r], msgs[q].content[p])
                 PROVE  FALSE
      BY DEF SeenBefore
    <3>1. DOMAIN msgs = 1..Len(msgs) /\ Len(msgs) \in Nat
      BY <1>1, ChainIs DEF msgs
    <3>2. j \in DOMAIN msgs /\ j \in Nat
      BY <3>1
    <3>3. Twice(msgs[j].content[r], msgs[q].content[p])
      BY <2>5 DEF Twice, IsResult
    <3>4. j = q /\ r = p
      BY <1>10, <3>2, <3>3 DEF Distinct
    <3>5. p \in Nat
      BY <1>1, <2>5, ChainIs DEF msgs
    <3> QED BY <3>2, <3>4, <3>5
  <2>7. Keeps(msgs, q, p)
    BY <2>1, <2>5, <2>6 DEF Keeps
  <2>8. PICK x \in DOMAIN KeptBlocks(msgs, q) : KeptBlocks(msgs, q)[x] = msgs[q].content[p]
    BY <1>1, <2>7, KeptAre DEF msgs
  <2>9. KeptBlocks(msgs, q) # <<>>
    <3>1. ~ \E y : y \in DOMAIN <<>>
      OBVIOUS
    <3> QED BY <2>8, <3>1
  <2>10. PICK k \in DOMAIN out : out[k] = Message(msgs[q].role, KeptBlocks(msgs, q))
    BY <1>4, <2>9
  <2>11. out[k].content = KeptBlocks(msgs, q)
    BY <2>10 DEF Message
  <2> QED BY <2>5, <2>8, <2>11, IdsAreAt
<1>13. CASE Len(out) < Len(f)
  <2>1. \A j \in DOMAIN out : ~(j >= Len(f))
    BY <1>6, <1>13
  <2>2. Beyond(f, out)
    BY <2>1 DEF Beyond
  <2> QED BY <1>9, <1>12, <2>2 DEF out, msgs
<1>14. CASE Len(out) = Len(f)
  <2>1. DOMAIN f \subseteq good
    BY <1>7, <1>8, <1>14
  <2>2. DOMAIN msgs = DOMAIN f /\ \A i \in DOMAIN f : msgs[i] = f[i].msg
    BY <1>3, <2>1 DEF ParsedOf
  <2>3. \A i \in DOMAIN msgs : KeptBlocks(msgs, i) # <<>>
    <3> SUFFICES ASSUME NEW i \in DOMAIN msgs PROVE KeptBlocks(msgs, i) # <<>>
      OBVIOUS
    <3>1. PICK k \in DOMAIN out : h[k] = i
      <4>1. EachOnce(h, out, f)
        BY <1>4, <2>2 DEF EachOnce
      <4>2. CoveredIfLong(h, out, f)
        BY <1>6, <4>1, NoLonger DEF Numbered
      <4> QED BY <1>14, <2>2, <4>2 DEF CoveredIfLong
    <3> QED BY <1>4, <3>1 DEF Message
  <2>4. out = [i \in DOMAIN msgs |-> Message(msgs[i].role, KeptBlocks(msgs, i))]
    BY <1>1, <2>3, DropInPlace DEF out, msgs
  <2>5. ASSUME NEW j \in DOMAIN out, NEW i \in DOMAIN f, i # j PROVE Apart(out[j].content, f[i].msg.content)
    <3>1. j \in DOMAIN msgs /\ out[j].content = KeptBlocks(msgs, j) /\ j \in DOMAIN f
      BY <2>2, <2>4 DEF Message
    <3>2. PICK places \in [DOMAIN KeptBlocks(msgs, j) -> DOMAIN msgs[j].content] :
            \A q \in DOMAIN KeptBlocks(msgs, j) : KeptBlocks(msgs, j)[q] = msgs[j].content[places[q]]
      BY <1>1, <3>1, KeptAre DEF msgs
    <3>3. \A p \in DOMAIN out[j].content : \E q \in DOMAIN f[j].msg.content : out[j].content[p] = f[j].msg.content[q]
      BY <2>2, <3>1, <3>2
    <3> QED BY <2>5, <3>1, <3>3 DEF Apart, OnceOnly
  <2>6. Beyond(f, out)
    BY <2>5 DEF Beyond
  <2> QED BY <1>9, <1>12, <2>6 DEF out, msgs
<1> QED BY <1>8, <1>13, <1>14

(* Memory c may be flushed to file f.                                      *)
Fits(f, c) == Beyond(f, c) /\ Answered(f, c) /\ ShortIfTorn(f, c)

(* A message in memory only.                                               *)
LEMMA UnflushedFits ==
  ASSUME NEW I, NEW f \in Seq(FileLines(I)), NEW c \in Chains(Fragments, I, I), NEW msg \in Messages(Fragments, I, I),
         Unwritten(f, msg), msg.role = "user", Fits(f, c)
  PROVE  Fits(f, AppendMessage(c, msg))
BY AppendBeyond, AppendShort DEF Fits

(* A message in memory, then flushed.                                      *)
LEMMA FlushedFits ==
  ASSUME NEW I, NEW f \in Seq(FileLines(I)), NEW c \in Chains(Fragments, I, I), NEW msg \in Messages(Fragments, I, I),
         NEW td \in BOOLEAN, Unwritten(f, msg), OnceOnly(f), Fits(f, c), Distinct(AppendMessage(c, msg))
  PROVE  LET new == AppendMessage(c, msg)
             g == FlushLast(f, new, td)
         IN  /\ OnceOnly(g) /\ Fits(g, new)
             /\ FileUses(g) \subseteq FileUses(f) \cup AllUseIds(new)
             /\ FileResults(g) \subseteq FileResults(f) \cup AllResultIds(new)
<1> DEFINE new == AppendMessage(c, msg)
           g == FlushLast(f, new, td)
<1>1. new \in Chains(Fragments, I, I)
  BY AppendIs
<1>2. Beyond(f, new) /\ Answered(f, new) /\ (EndsTorn(f) => Len(new) <= Len(f) + 1)
  BY AppendBeyond, AppendShort DEF Fits
<1>3. Distinct(new)
  OBVIOUS
<1> HIDE DEF new
<1>4. g \in Seq(FileLines(I))
  BY <1>1, FlushIs
<1>5. Mixed(f, new, g) /\ Len(g) >= Len(f) /\ ShortIfTorn(g, new)
  BY <1>1, <1>2, FlushMixes
<1> HIDE DEF g
<1>6. OnceOnly(g)
  BY <1>1, <1>2, <1>3, <1>5, MixedOnce
<1>7. Beyond(g, new) /\ Answered(g, new)
  BY <1>1, <1>2, <1>3, <1>4, <1>5, MixedFollows
<1>8. /\ FileUses(g) \subseteq FileUses(f) \cup AllUseIds(new)
      /\ FileResults(g) \subseteq FileResults(f) \cup AllResultIds(new)
  BY <1>1, <1>5, MixedSays
<1> QED BY <1>5, <1>6, <1>7, <1>8 DEF Fits, g, new

(* ... or cut while it was flushed.                                        *)
LEMMA CutOnce ==
  ASSUME NEW I, NEW f \in Seq(FileLines(I)), NEW c \in Chains(Fragments, I, I), NEW msg \in Messages(Fragments, I, I),
         NEW td \in BOOLEAN, Unwritten(f, msg), OnceOnly(f), Fits(f, c), Distinct(AppendMessage(c, msg)),
         NEW g \in CutFlush(f, AppendMessage(c, msg), td)
  PROVE  OnceOnly(g)
<1> DEFINE new == AppendMessage(c, msg)
<1>1. new \in Chains(Fragments, I, I)
  BY AppendIs
<1>2. Beyond(f, new) /\ Answered(f, new) /\ (EndsTorn(f) => Len(new) <= Len(f) + 1)
  BY AppendBeyond, AppendShort DEF Fits
<1>3. Distinct(new) /\ g \in CutFlush(f, new, td)
  OBVIOUS
<1> HIDE DEF new
<1>4. Mixed(f, new, g)
  BY <1>1, <1>2, <1>3, CutMixes
<1> QED BY <1>1, <1>2, <1>3, <1>4, MixedOnce

(* What is read again after the process went down.                         *)
LEMMA RestoredFits ==
  ASSUME NEW n \in Nat, NEW I \in SUBSET (1..n), file \in Seq(FileLines(I)), OnceOnly(file)
  PROVE  Fits(file, Restored)
<1> DEFINE parsed == Parsed(file)
           kept == DropInvalidBlocks(parsed)
           repaired == RepairChain(parsed)
           msg == UserMessage(Placeholders(Unanswered(kept)))
<1>1. parsed \in Chains(Fragments, I, I) /\ kept \in Chains(Fragments, I, I) /\ repaired \in Chains(Fragments, I, I)
  BY ParsedIs, DropIs, RepairIs
<1>2. Fits(file, kept)
  BY ReadBackFits DEF Fits
<1>3. Fits(file, repaired)
  <2>1. CASE Unanswered(kept) = {}
    <3>1. repaired = kept
      BY <2>1 DEF RepairChain
    <3> QED BY <1>2, <3>1
  <2>2. CASE Unanswered(kept) # {}
    <3>1. repaired = AppendMessage(kept, msg) /\ msg.role = "user"
      BY <2>2 DEF RepairChain, UserMessage, Message
    <3> HIDE DEF msg, repaired, parsed, kept
    <3>2. msg \in Messages(Fragments, I, I) /\ UseIds(msg) = {} /\ ResultIds(msg) = Unanswered(kept)
      BY <1>1, <2>2, PlaceholdersFit DEF msg
    <3>3. Unwritten(file, msg)
      BY <1>2, <3>2 DEF Unwritten, Fits, Answered, Unanswered
    <3> QED BY <1>1, <1>2, <3>1, <3>2, <3>3, UnflushedFits
  <2> QED BY <2>1, <2>2
<1> HIDE DEF repaired
<1>4. SnapshotMessage \in Messages(Fragments, I, I) /\ Unwritten(file, SnapshotMessage) /\ SnapshotMessage.role = "user"
  <2>1. UseIds(SnapshotMessage) = {} /\ ResultIds(SnapshotMessage) = {}
    BY FixedAreText, TextFits
  <2>2. SnapshotMessage.role = "user"
    BY DEF SnapshotMessage, UserMessage, Message
  <2> QED BY <2>1, <2>2, FixedMessages DEF Unwritten
<1>5. Fits(file, AppendMessage(repaired, SnapshotMessage))
  BY <1>1, <1>3, <1>4, UnflushedFits
<1> QED BY <1>3, <1>5 DEF Restored, repaired

(* The ids in a file have been given out.                                  *)
LEMMA FileIds ==
  ASSUME NEW I, NEW f \in Seq(FileLines(I))
  PROVE  FileUses(f) \subseteq I /\ FileResults(f) \subseteq I
<1>1. ASSUME NEW i \in DOMAIN f, NEW p \in DOMAIN f[i].msg.content, f[i].msg.content[p].kind # "text"
      PROVE  f[i].msg.content[p].id \in I
  <2>1. f[i] \in FileLines(I)
    OBVIOUS
  <2>2. f[i].msg \in Messages(Fragments, I, I) \/ f[i].msg = NoMessage
    BY <2>1 DEF FileLines
  <2>3. NoMessage.content = <<>> /\ ~ \E x : x \in DOMAIN <<>>
    BY DEF NoMessage, Message
  <2>4. f[i].msg.content[p] \in BlocksOf(Fragments, I, I)
    BY <2>2, <2>3 DEF Messages
  <2> QED BY <1>1, <2>4, KindsAre
<1>2. DOMAIN ParsedOf(f) = DOMAIN f /\ \A i \in DOMAIN f : ParsedOf(f)[i] = f[i].msg
  BY DEF ParsedOf
<1>3. ASSUME NEW id \in FileUses(f) PROVE id \in I
  <2>1. \E i \in DOMAIN f : \E p \in DOMAIN f[i].msg.content : IsUse(f[i].msg.content[p]) /\ id = f[i].msg.content[p].id
    BY <1>2, IdsAreAt DEF FileUses
  <2> QED BY <1>1, <2>1 DEF IsUse
<1>4. ASSUME NEW id \in FileResults(f) PROVE id \in I
  <2>1. \E i \in DOMAIN f : \E p \in DOMAIN f[i].msg.content : IsResult(f[i].msg.content[p]) /\ id = f[i].msg.content[p].id
    BY <1>2, IdsAreAt DEF FileResults
  <2> QED BY <1>1, <2>1 DEF IsResult
<1> QED BY <1>3, <1>4

(* An empty message adds nothing.                                          *)
LEMMA NothingAdded ==
  ASSUME NEW I, NEW c \in Chains(Fragments, I, I), NEW msg \in Messages(Fragments, I, I), msg.content = <<>>, Distinct(c)
  PROVE  Distinct(AppendMessage(c, msg))
<1> DEFINE new == AppendMessage(c, msg)
<1>1. PICK n, base \in Nat : Grown(c, msg, new, n, base)
  BY AppendGrows
<1>2. ~ \E x : x \in DOMAIN msg.content
  OBVIOUS
<1> HIDE DEF new
<1>3. \A i \in DOMAIN new : \A p \in DOMAIN new[i].content :
        i \in DOMAIN c /\ p \in DOMAIN c[i].content /\ new[i].content[p] = c[i].content[p]
  BY <1>1, <1>2 DEF Grown
<1>4. Distinct(new)
  BY <1>3 DEF Distinct
<1> QED BY <1>4 DEF new

(* What holds of the file whatever was cut, and of the reply under way:    *)
(* its calls have ids no line has.                                         *)
FileInv ==
  /\ OnceOnly(file)
  /\ up => Fits(file, conv)
  /\ PendingIds \cap (FileUses(file) \cup FileResults(file)) = {}

LEMMA FileInit == Init => FileInv
<1> SUFFICES ASSUME Init PROVE FileInv
  OBVIOUS
<1>1. file = <<>> /\ conv = <<>> /\ pending = <<>> /\ DOMAIN file = {}
  BY DEF Init
<1>2. OnceOnly(file)
  BY <1>1 DEF OnceOnly
<1>3. FileResults(file) = {} /\ PendingIds = {}
  <2>1. DOMAIN ParsedOf(file) = {}
    BY <1>1 DEF ParsedOf
  <2>2. \A id : id \notin FileResults(file)
    BY <2>1, IdsAreAt DEF FileResults
  <2> QED BY <1>1, <2>2 DEF PendingIds
<1>4. Fits(file, conv)
  BY <1>1, <1>3 DEF Fits, Beyond, Answered, ShortIfTorn, EndsTorn
<1> QED BY <1>2, <1>3, <1>4 DEF FileInv

LEMMA FileStep ==
  ASSUME MaxConcurrent = 1, TypeOK, AloneInv, OnceInv, FileInv, Next
  PROVE  FileInv'
<1> DEFINE n == nextId - 1
<1>1. /\ n \in Nat /\ Ids \in SUBSET (1..n) /\ conv \in Chains(Fragments, Ids, Ids) /\ Clean(conv)
      /\ file \in Seq(FileLines(Ids)) /\ todos \in BOOLEAN
  BY DEF TypeOK, Ids, OnceInv
<1> HIDE DEF n
<1>2. Clean(conv') /\ PendingOnce'
  BY OnceStep DEF OnceInv
<1>3. OnceOnly(file) /\ PendingIds \cap (FileUses(file) \cup FileResults(file)) = {}
  BY DEF FileInv
<1>4. ASSUME file' = file, up' => Fits(file, conv'), pending' = pending \/ pending' = <<>>
      PROVE  FileInv'
  <2>1. PendingIds' \cap (FileUses(file) \cup FileResults(file)) = {}
    BY <1>3, <1>4 DEF PendingIds
  <2> QED BY <1>3, <1>4, <2>1 DEF FileInv
<1>5. ASSUME up, NEW msg \in Messages(Fragments, Ids, Ids), msg.role = "user", UseIds(msg) = {},
             ResultIds(msg) \subseteq Unanswered(conv), conv' = AppendMessage(conv, msg), file' = file,
             pending' = pending \/ pending' = <<>>
      PROVE  FileInv'
  <2>1. Unwritten(file, msg)
    BY <1>5 DEF Unwritten, Unanswered, FileInv, Fits, Answered
  <2>2. Fits(file, conv')
    BY <1>1, <1>5, <2>1, UnflushedFits DEF FileInv
  <2> QED BY <1>4, <1>5, <2>2
<1>6. ASSUME up, NEW msg \in Messages(Fragments, Ids, Ids), NEW td \in BOOLEAN, UseIds(msg) \subseteq PendingIds,
             ResultIds(msg) \subseteq Unanswered(conv), AddAndFlush(msg, td),
             pending' = pending \/ pending' = <<>>
      PROVE  FileInv'
  <2>1. conv' = AppendMessage(conv, msg) /\ file' = FlushLast(file, conv', td)
    BY <1>6 DEF AddAndFlush
  <2>2. Unwritten(file, msg)
    BY <1>6 DEF Unwritten, Unanswered, FileInv, Fits, Answered
  <2>3. Distinct(AppendMessage(conv, msg))
    BY <1>2, <2>1 DEF Clean
  <2>4. /\ OnceOnly(file') /\ Fits(file', conv')
        /\ FileUses(file') \subseteq FileUses(file) \cup AllUseIds(conv')
        /\ FileResults(file') \subseteq FileResults(file) \cup AllResultIds(conv')
    BY <1>1, <1>3, <1>6, <2>1, <2>2, <2>3, FlushedFits DEF FileInv
  <2>5. AllResultIds(conv') \subseteq AllUseIds(conv') /\ PendingIds' \cap AllUseIds(conv') = {}
    BY <1>2 DEF Clean, PendingOnce
  <2>6. PendingIds' \subseteq PendingIds
    BY <1>6 DEF PendingIds
  <2>7. PendingIds' \cap (FileUses(file') \cup FileResults(file')) = {}
    BY <1>3, <2>4, <2>5, <2>6
  <2> QED BY <2>4, <2>7 DEF FileInv
<1>7. ASSUME NEW msg, OnlyText(msg) PROVE UseIds(msg) = {} /\ ResultIds(msg) = {}
  BY <1>7, TextFits
<1>8. ASSUME NEW r \in Runs, StartRun(r) \/ RetryTruncated(r) PROVE FileInv'
  <2>1. up /\ (pending' = pending \/ pending' = <<>>)
    BY <1>8 DEF StartRun, RetryTruncated
  <2>2. PICK msg \in Messages(Fragments, Ids, Ids) : OnlyText(msg) /\ AddAndFlush(msg, todos)
    BY <1>8, FixedMessages, FixedAreText DEF StartRun, RetryTruncated
  <2> QED BY <1>1, <1>6, <1>7, <2>1, <2>2
<1>9. ASSUME NEW r \in Runs, BeginTurn(r) PROVE FileInv'
  <2>1. up /\ conv' = RepairChain(conv) /\ file' = file /\ pending' = <<>>
    BY <1>9 DEF BeginTurn
  <2>2. CASE RepairChain(conv) = conv
    BY <1>4, <2>1, <2>2 DEF FileInv
  <2>3. ASSUME NEW msg \in Messages(Fragments, Ids, Ids), RepairChain(conv) = AppendMessage(conv, msg),
               msg = UserMessage(Placeholders(Unanswered(conv))),
               UseIds(msg) = {}, ResultIds(msg) = Unanswered(conv)
        PROVE  FileInv'
    <3>1. msg.role = "user"
      BY <2>3 DEF UserMessage, Message
    <3> QED BY <1>5, <2>1, <2>3, <3>1
  <2> QED BY <1>1, <2>2, <2>3, RepairedIs
<1>10. ASSUME NEW r \in Runs, StreamBlock(r) PROVE FileInv'
  <2>1. conv' = conv /\ file' = file /\ up /\ up'
    BY <1>10 DEF StreamBlock
  <2>2. CASE pending' = <<TextBlock(<<"reply">>)>>
    <3>1. PendingIds' = {}
      BY <2>2 DEF PendingIds, TextBlock, IsUse
    <3> QED BY <1>3, <2>1, <3>1 DEF FileInv
  <2>3. CASE pending' = Append(pending, ToolUseBlock(nextId))
    <3>1. pending \in Seq(BlocksOf(Fragments, Ids, {})) /\ nextId \notin Ids
      BY DEF TypeOK, Ids
    <3>2. \A q \in DOMAIN pending' : pending'[q] = ToolUseBlock(nextId)
                                     \/ (q \in DOMAIN pending /\ pending'[q] = pending[q])
      BY <2>3, <3>1, AppendedIs
    <3>3. PendingIds' \subseteq PendingIds \cup {nextId}
      BY <3>2 DEF PendingIds, ToolUseBlock
    <3>4. nextId \notin FileUses(file) \cup FileResults(file)
      BY <1>1, <3>1, FileIds
    <3> QED BY <1>3, <2>1, <3>3, <3>4 DEF FileInv
  <2> QED BY <1>10, <2>2, <2>3 DEF StreamBlock
<1>11. ASSUME NEW r \in Runs, RetryTransient(r) \/ EndEmptyReply(r) PROVE FileInv'
  <2>1. conv' = conv /\ file' = file /\ up /\ (pending' = pending \/ pending' = <<>>)
    BY <1>11 DEF RetryTransient, EndEmptyReply
  <2> QED BY <1>4, <2>1 DEF FileInv
<1>12. ASSUME pending # <<>>
       PROVE  /\ PendingMessage \in Messages(Fragments, Ids, Ids) /\ Appendable(conv, PendingMessage)
              /\ UseIds(PendingMessage) \subseteq PendingIds /\ ResultIds(PendingMessage) = {}
  BY <1>1, <1>12, PendingFits DEF OnceInv
<1>13. ASSUME NEW r \in Runs, EndReply(r) \/ StopRun(r) PROVE FileInv'
  <2>1. up /\ pending' = <<>>
    BY <1>13 DEF EndReply, StopRun
  <2>2. CASE pending # <<>> /\ AddAndFlush(PendingMessage, todos)
    BY <1>1, <1>6, <1>12, <2>1, <2>2
  <2>3. CASE conv' = conv /\ file' = file
    BY <1>4, <2>1, <2>3 DEF FileInv
  <2> QED BY <1>13, <2>2, <2>3 DEF EndReply, StopRun
<1>14. ASSUME NEW r \in Runs, NEW k \in Nat \ {0}, k <= Len(calls[r])
       PROVE  /\ ResultsMessage(r, k) \in Messages(Fragments, Ids, Ids) /\ Appendable(conv, ResultsMessage(r, k))
              /\ UseIds(ResultsMessage(r, k)) = {} /\ ResultIds(ResultsMessage(r, k)) \subseteq Unanswered(conv)
  <2>1. calls[r] \in Seq(Ids) /\ StillOpen(calls[r], conv)
    BY DEF TypeOK, OnceInv
  <2>2. /\ ResultsMessage(r, k) \in Messages(Fragments, Ids, Ids) /\ Appendable(conv, ResultsMessage(r, k))
        /\ UseIds(ResultsMessage(r, k)) = {} /\ ResultIds(ResultsMessage(r, k)) = {calls[r][i] : i \in 1..k}
    BY <1>14, <2>1, ResultsAre, ResultsFit
  <2>3. \A i \in 1..k : calls[r][i] \in ToSet(calls[r])
    <3>1. \A i \in 1..k : i \in DOMAIN calls[r]
      BY <1>14, <2>1
    <3> QED BY <3>1 DEF ToSet
  <2> QED BY <2>1, <2>2, <2>3 DEF StillOpen, Unanswered
<1>15. ASSUME NEW r \in Runs, NEW k \in 1..MaxBlocks, FinishBatch(r, k) PROVE FileInv'
  <2>1. k \in Nat \ {0} /\ k <= Len(calls[r]) /\ up /\ pending' = pending
    BY <1>15, SessionStoreAssumption DEF FinishBatch
  <2>2. PICK td \in {todos, todos \/ WithTodos} : AddAndFlush(ResultsMessage(r, k), td)
    BY <1>15 DEF FinishBatch
  <2>3. td \in BOOLEAN
    BY <1>1, SessionStoreAssumption
  <2> QED BY <1>6, <1>14, <2>1, <2>2, <2>3
<1>16. CASE TaskNotice
  <2>1. up /\ conv' = AppendMessage(conv, NoticeMessage) /\ file' = file /\ pending' = pending
    BY <1>16 DEF TaskNotice
  <2>2. UseIds(NoticeMessage) = {} /\ ResultIds(NoticeMessage) = {} /\ NoticeMessage.role = "user"
    BY <1>7, FixedAreText DEF NoticeMessage, UserMessage, Message
  <2>3. NoticeMessage \in Messages(Fragments, Ids, Ids)
    BY FixedMessages
  <2> QED BY <1>5, <2>1, <2>2, <2>3
<1>17. CASE Crash
  BY <1>4, <1>17 DEF Crash, GoDown
<1>18. CASE CrashInFlush
  <2>1. up /\ ~up' /\ pending' = <<>>
    BY <1>18 DEF CrashInFlush, GoDown
  <2>2. PICK msg \in MessagesInFlight : file' \in CutFlush(file, AppendMessage(conv, msg), todos)
    BY <1>18 DEF CrashInFlush
  <2>3. /\ msg \in Messages(Fragments, Ids, Ids) /\ Distinct(AppendMessage(conv, msg))
        /\ UseIds(msg) \subseteq PendingIds /\ ResultIds(msg) \subseteq Unanswered(conv)
    <3>1. ASSUME NEW r \in Runs, msg = InputMessage(r)
          PROVE  /\ msg \in Messages(Fragments, Ids, Ids) /\ Distinct(AppendMessage(conv, msg))
                 /\ UseIds(msg) = {} /\ ResultIds(msg) = {}
      <4>1. msg \in Messages(Fragments, Ids, Ids) /\ OnlyText(msg)
        BY <3>1, FixedMessages, FixedAreText
      <4>2. Clean(AppendMessage(conv, msg))
        BY <1>1, <4>1, TextAdded
      <4> QED BY <1>7, <4>1, <4>2 DEF Clean
    <3>2. ASSUME pending # <<>>, msg = PendingMessage
          PROVE  /\ msg \in Messages(Fragments, Ids, Ids) /\ Distinct(AppendMessage(conv, msg))
                 /\ UseIds(msg) \subseteq PendingIds /\ ResultIds(msg) = {}
      <4>1. Clean(AppendMessage(conv, msg))
        BY <1>1, <1>12, <3>2, AppendIsClean
      <4> QED BY <1>12, <3>2, <4>1 DEF Clean
    <3>3. ASSUME NEW r \in Runs, msg = ResultsMessage(r, Len(calls[r]))
          PROVE  /\ msg \in Messages(Fragments, Ids, Ids) /\ Distinct(AppendMessage(conv, msg))
                 /\ UseIds(msg) = {} /\ ResultIds(msg) \subseteq Unanswered(conv)
      <4>1. calls[r] \in Seq(Ids) /\ Len(calls[r]) \in Nat /\ Len(calls[r]) <= Len(calls[r])
        BY DEF TypeOK
      <4>2. CASE Len(calls[r]) # 0
        <5>1. /\ msg \in Messages(Fragments, Ids, Ids) /\ Appendable(conv, msg)
              /\ UseIds(msg) = {} /\ ResultIds(msg) \subseteq Unanswered(conv)
          BY <1>14, <3>3, <4>1, <4>2
        <5>2. Clean(AppendMessage(conv, msg))
          BY <1>1, <5>1, AppendIsClean
        <5> QED BY <5>1, <5>2 DEF Clean
      <4>3. CASE Len(calls[r]) = 0
        <5>1. msg.content = <<>>
          BY <3>3, <4>3 DEF ResultsMessage, UserMessage, Message
        <5>2. msg \in Messages(Fragments, Ids, Ids)
          BY <3>3, <4>1, ResultsAre
        <5>3. UseIds(msg) = {} /\ ResultIds(msg) = {}
          BY <5>1 DEF UseIds, ResultIds, ToSet
        <5>4. Distinct(conv)
          BY <1>1 DEF Clean
        <5> QED BY <1>1, <5>1, <5>2, <5>3, <5>4, NothingAdded
      <4> QED BY <4>2, <4>3
    <3> QED BY <2>2, <3>1, <3>2, <3>3 DEF MessagesInFlight
  <2>4. Unwritten(file, msg)
    BY <2>1, <2>3 DEF Unwritten, Unanswered, FileInv, Fits, Answered
  <2>5. OnceOnly(file')
    BY <1>1, <1>3, <2>1, <2>2, <2>3, <2>4, CutOnce DEF FileInv
  <2>6. PendingIds' = {}
    BY <2>1 DEF PendingIds
  <2> QED BY <2>1, <2>5, <2>6 DEF FileInv
<1>19. CASE Resume
  <2>1. pending' = pending /\ pending = <<>>
    BY <1>19 DEF Resume, AloneInv
  <2>2. Fits(file, Restored) /\ Restored \in Chains(Fragments, Ids, Ids)
    BY <1>1, <1>3, RestoredFits, RestoredIs
  <2>3. CASE conv' = Restored /\ file' = file
    BY <1>4, <2>1, <2>2, <2>3
  <2>4. CASE conv' = AppendMessage(Restored, StaleMessage) /\ file' = FlushLast(file, conv', StoredTodos)
    <3>1. StaleMessage \in Messages(Fragments, Ids, Ids) /\ StoredTodos \in BOOLEAN
      BY FixedMessages DEF StoredTodos
    <3>2. Unwritten(file, StaleMessage)
      BY <1>7, FixedAreText DEF Unwritten
    <3>3. Distinct(AppendMessage(Restored, StaleMessage))
      BY <1>2, <2>4 DEF Clean
    <3>4. OnceOnly(file') /\ Fits(file', conv')
      BY <1>1, <1>3, <2>2, <2>4, <3>1, <3>2, <3>3, FlushedFits
    <3>5. PendingIds' = {}
      BY <2>1 DEF PendingIds
    <3> QED BY <3>4, <3>5 DEF FileInv
  <2> QED BY <1>19, <2>3, <2>4 DEF Resume
<1> QED BY <1>8, <1>9, <1>10, <1>11, <1>13, <1>15, <1>16, <1>17, <1>18, <1>19 DEF Next

(* OnceInv is needed beside it: a flush writes what the memory has once.   *)
LEMMA FileInvariant ==
  ASSUME MaxConcurrent = 1
  PROVE  Spec => [](TypeOK /\ FileInv)
<1> DEFINE Inv == TypeOK /\ AloneInv /\ OnceInv /\ FileInv
<1>1. Init => Inv
  BY TypeInit, AloneInit, OnceInit, FileInit
<1>2. Inv /\ [Next]_vars => Inv'
  <2> SUFFICES ASSUME Inv, [Next]_vars PROVE Inv'
    OBVIOUS
  <2>1. CASE Next
    BY <2>1, TypeStep, AloneStep, OnceStep, FileStep
  <2>2. CASE UNCHANGED vars
    <3>1. AloneInv' /\ OnceInv' /\ FileInv'
      BY <2>2 DEF vars, AloneInv, OnceInv, PendingOnce, PendingIds, FileInv, Active, Streaming
    <3> QED BY <3>1, TypeStep
  <2> QED BY <2>1, <2>2
<1> QED BY <1>1, <1>2, PTL DEF Spec

(* With one run at a time, however often the process goes down and         *)
(* wherever that cuts a write: no call and no result stands in the         *)
(* session's file twice. A result written again by a flush and read back   *)
(* twice is the fault _flush_last was rewritten for (manager.py:115).      *)
THEOREM LinesOnce == ASSUME MaxConcurrent = 1 PROVE Spec => []StoredOnce
<1>1. TypeOK /\ FileInv => StoredOnce
  <2> SUFFICES ASSUME TypeOK, FileInv PROVE StoredOnce
    OBVIOUS
  <2>1. OnceOnly(file)
    BY DEF FileInv
  <2> DEFINE places == UNION {{i} \X (DOMAIN file[i].msg.content) : i \in DOMAIN file}
             at(x) == file[x[1]].msg.content[x[2]]
  <2>2. ASSUME NEW x \in places, NEW y \in places, Twice(at(x), at(y)) PROVE x = y
    <3>1. PICK i \in DOMAIN file : \E p \in DOMAIN file[i].msg.content : x = <<i, p>>
      OBVIOUS
    <3>2. PICK j \in DOMAIN file : \E q \in DOMAIN file[j].msg.content : y = <<j, q>>
      OBVIOUS
    <3> HIDE DEF places
    <3>3. PICK p \in DOMAIN file[i].msg.content : x = <<i, p>>
      BY <3>1
    <3>4. PICK q \in DOMAIN file[j].msg.content : y = <<j, q>>
      BY <3>2
    <3>5. Twice(file[i].msg.content[p], file[j].msg.content[q])
      BY <2>2, <3>3, <3>4
    <3>6. i = j /\ p = q
      BY <2>1, <3>5 DEF OnceOnly
    <3> QED BY <3>3, <3>4, <3>6
  <2>3. \A S : (\A x, y \in S : x = y) => Cardinality(S) <= 1
    <3> SUFFICES ASSUME NEW S, \A x, y \in S : x = y PROVE Cardinality(S) <= 1
      OBVIOUS
    <3>1. CASE S = {}
      BY <3>1, FS_EmptySet
    <3>2. ASSUME NEW x \in S PROVE Cardinality(S) <= 1
      <4>1. S = {x}
        BY <3>2
      <4> QED BY <4>1, FS_Singleton
    <3> QED BY <3>1, <3>2
  <2>4. ASSUME NEW id PROVE Cardinality(Occurrences(IsUse, id)) <= 1
    <3>1. \A x \in Occurrences(IsUse, id) : x \in places /\ IsUse(at(x)) /\ at(x).id = id
      BY DEF Occurrences
    <3> HIDE DEF places, at
    <3>2. \A x, y \in Occurrences(IsUse, id) : Twice(at(x), at(y))
      BY <3>1 DEF Twice, SameCall, IsUse
    <3>3. \A x, y \in Occurrences(IsUse, id) : x = y
      BY <2>2, <3>1, <3>2
    <3> QED BY <2>3, <3>3
  <2>5. ASSUME NEW id PROVE Cardinality(Occurrences(IsResult, id)) <= 1
    <3>1. \A x \in Occurrences(IsResult, id) : x \in places /\ IsResult(at(x)) /\ at(x).id = id
      BY DEF Occurrences
    <3> HIDE DEF places, at
    <3>2. \A x, y \in Occurrences(IsResult, id) : Twice(at(x), at(y))
      BY <3>1 DEF Twice, SameCall, IsUse, IsResult
    <3>3. \A x, y \in Occurrences(IsResult, id) : x = y
      BY <2>2, <3>1, <3>2
    <3> QED BY <2>3, <3>3
  <2> QED BY <2>4, <2>5 DEF StoredOnce
<1> QED BY <1>1, FileInvariant, PTL

-----------------------------------------------------------------------------
(* The chain while the process does not go down.                           *)
ShapeInv ==
  /\ up
  /\ Shaped(conv)
  /\ \A r \in Runs : pc[r] \in {"turn", "llm", "retried"} => EndsWithUser(conv)
  /\ \A r \in Runs : Streaming(r) => Unanswered(conv) = {}

LEMMA ShapeInit == Init => ShapeInv
<1> SUFFICES ASSUME Init PROVE ShapeInv
  OBVIOUS
<1>1. conv = <<>> /\ up /\ \A r \in Runs : pc[r] = "idle"
  BY DEF Init
<1>2. Shaped(<<>>)
  BY DEF Shaped, Alternating
<1> QED BY <1>1, <1>2 DEF ShapeInv, Streaming

LEMMA FixedAreUser ==
  /\ \A r \in Runs : InputMessage(r).role = "user"
  /\ FeedbackMessage.role = "user" /\ NoticeMessage.role = "user" /\ ReminderMessage.role = "user"
BY DEF InputMessage, FeedbackMessage, NoticeMessage, ReminderMessage, UserMessage, Message

LEMMA ShapeStep ==
  ASSUME MaxConcurrent = 1, crashes' = 0, TypeOK, AloneInv, OnceInv, ShapeInv, Next
  PROVE  ShapeInv'
<1> DEFINE n == nextId - 1
<1>1. n \in Nat /\ Ids \in SUBSET (1..n) /\ conv \in Chains(Fragments, Ids, Ids) /\ Clean(conv) /\ Shaped(conv)
  BY DEF TypeOK, Ids, OnceInv, ShapeInv
<1> HIDE DEF n
<1>2. ASSUME NEW r \in Runs, r \in Active PROVE \A s \in Runs \ {r} : pc[s] \in {"idle", "done"}
  BY <1>2 DEF AloneInv, Active, TypeOK, Places
<1>3. ASSUME NEW msg \in Messages(Fragments, Ids, Ids), OnlyText(msg), msg.role = "user", conv' = AppendMessage(conv, msg),
             up', \A s \in Runs : Streaming(s)' => Streaming(s)
      PROVE  ShapeInv'
  <2>1. UseIds(msg) = {} /\ ResultIds(msg) = {}
    BY <1>3, TextFits
  <2>2. Shaped(conv') /\ EndsWithUser(conv')
    BY <1>1, <1>3, <2>1, UserAdded
  <2>3. Unanswered(conv') = Unanswered(conv)
    BY <1>1, <1>3, TextAdded DEF Unanswered
  <2> QED BY <1>3, <2>2, <2>3 DEF ShapeInv
<1>4. ASSUME NEW r \in Runs, StartRun(r) PROVE ShapeInv'
  <2>1. \A s \in Runs : Streaming(s)' => Streaming(s)
    BY <1>4 DEF StartRun, Goto, Streaming, TypeOK
  <2> QED BY <1>3, <1>4, <2>1, FixedMessages, FixedAreText, FixedAreUser DEF StartRun, AddAndFlush
<1>5. ASSUME NEW r \in Runs, RetryTruncated(r) PROVE ShapeInv'
  <2>1. \A s \in Runs : Streaming(s)' => Streaming(s)
    BY <1>5 DEF RetryTruncated, Goto, Streaming, TypeOK
  <2> QED BY <1>3, <1>5, <2>1, FixedMessages, FixedAreText, FixedAreUser DEF RetryTruncated, AddAndFlush
<1>6. CASE TaskNotice
  <2>1. \A s \in Runs : Streaming(s)' => Streaming(s)
    BY <1>6 DEF TaskNotice, Streaming
  <2> QED BY <1>3, <1>6, <2>1, FixedMessages, FixedAreText, FixedAreUser DEF TaskNotice
<1>7. ASSUME NEW r \in Runs, BeginTurn(r) PROVE ShapeInv'
  <2>1. up' /\ conv' = RepairChain(conv) /\ EndsWithUser(conv)
    BY <1>7 DEF BeginTurn, ShapeInv
  <2>2. Unanswered(conv') = {}
    BY <1>1, <2>1, RepairIsClean
  <2>3. Shaped(conv') /\ EndsWithUser(conv')
    <3>1. CASE RepairChain(conv) = conv
      BY <1>1, <2>1, <3>1
    <3>2. CASE \E msg \in Messages(Fragments, Ids, Ids) : /\ RepairChain(conv) = AppendMessage(conv, msg) /\ msg.role = "user"
                                              /\ UseIds(msg) = {} /\ ResultIds(msg) = Unanswered(conv)
      BY <1>1, <2>1, <3>2, UserAdded
    <3>3. \A blocks : UserMessage(blocks).role = "user"
      BY DEF UserMessage, Message
    <3> QED BY <1>1, <3>1, <3>2, <3>3, RepairedIs
  <2> QED BY <2>1, <2>2, <2>3 DEF ShapeInv
<1>8. ASSUME NEW r \in Runs, StreamBlock(r) \/ RetryTransient(r) \/ EndEmptyReply(r) PROVE ShapeInv'
  <2>1. conv' = conv /\ up' = up
    BY <1>8 DEF StreamBlock, RetryTransient, EndEmptyReply
  <2>2. \A s \in Runs : pc'[s] = pc[s] \/ pc'[s] = "done"
    BY <1>8 DEF StreamBlock, RetryTransient, EndEmptyReply, Goto, TypeOK
  <2> QED BY <2>1, <2>2 DEF ShapeInv, Streaming
<1>9. ASSUME NEW r \in Runs, Streaming(r), pending # <<>>, conv' = AppendMessage(conv, PendingMessage)
      PROVE  Shaped(conv')
  <2>1. EndsWithUser(conv) /\ Unanswered(conv) = {}
    BY <1>9 DEF ShapeInv, Streaming
  <2>2. PendingMessage \in Messages(Fragments, Ids, Ids) /\ ResultIds(PendingMessage) = {}
    BY <1>9, PendingFits DEF OnceInv
  <2>3. PendingMessage.role = "assistant"
    BY DEF PendingMessage, AssistantMessage, Message
  <2> QED BY <1>1, <1>9, <2>1, <2>2, <2>3, AssistantAdded
<1>10. ASSUME NEW r \in Runs, EndReply(r) PROVE ShapeInv'
  <2>1. Shaped(conv') /\ up'
    BY <1>9, <1>10 DEF EndReply, AddAndFlush
  <2>2. \A s \in Runs : pc'[s] \notin {"turn", "llm", "retried"}
    <3>1. r \in Active
      BY <1>10 DEF EndReply, Streaming, Active
    <3> QED BY <1>2, <1>10, <3>1 DEF EndReply, Goto, TypeOK
  <2> QED BY <2>1, <2>2 DEF ShapeInv, Streaming
<1>11. ASSUME NEW r \in Runs, StopRun(r) PROVE ShapeInv'
  <2>1. r \in Active /\ up'
    BY <1>11 DEF StopRun
  <2>2. \A s \in Runs : pc'[s] \notin {"turn", "llm", "retried"}
    BY <1>2, <1>11, <2>1 DEF StopRun, Goto, TypeOK
  <2>3. CASE conv' = conv
    BY <1>1, <2>1, <2>2, <2>3 DEF ShapeInv, Streaming
  <2>4. CASE pending # <<>> /\ conv' = AppendMessage(conv, PendingMessage)
    <3>1. PICK s \in Runs : Streaming(s)
      BY <2>4 DEF AloneInv
    <3>2. Shaped(conv')
      BY <1>9, <2>4, <3>1
    <3> QED BY <2>1, <2>2, <3>2 DEF ShapeInv, Streaming
  <2> QED BY <1>11, <2>3, <2>4 DEF StopRun, AddAndFlush
<1>12. ASSUME NEW r \in Runs, NEW k \in 1..MaxBlocks, FinishBatch(r, k) PROVE ShapeInv'
  <2>1. k \in Nat \ {0} /\ k <= Len(calls[r]) /\ calls[r] \in Seq(Ids) /\ r \in Active
    BY <1>12, SessionStoreAssumption DEF FinishBatch, TypeOK, Active
  <2>2. conv' = AppendMessage(conv, ResultsMessage(r, k)) /\ up'
    BY <1>12 DEF FinishBatch, AddAndFlush
  <2>3. StillOpen(calls[r], conv)
    BY DEF OnceInv
  <2>4. UseIds(ResultsMessage(r, k)) = {} /\ ResultIds(ResultsMessage(r, k)) = {calls[r][i] : i \in 1..k}
    BY <2>1, <2>3, ResultsFit
  <2>5. ResultIds(ResultsMessage(r, k)) \subseteq Unanswered(conv)
    <3>1. \A i \in 1..k : calls[r][i] \in ToSet(calls[r])
      BY <2>1 DEF ToSet
    <3> QED BY <2>3, <2>4, <3>1 DEF StillOpen, Unanswered
  <2>6. ResultsMessage(r, k) \in Messages(Fragments, Ids, Ids) /\ ResultsMessage(r, k).role = "user"
    <3>1. ResultsMessage(r, k).role = "user"
      BY DEF ResultsMessage, UserMessage, Message
    <3> QED BY <2>1, <3>1, ResultsAre
  <2>7. Shaped(conv') /\ EndsWithUser(conv')
    BY <1>1, <2>2, <2>4, <2>5, <2>6, UserAdded
  <2>8. \A s \in Runs : ~Streaming(s)'
    BY <1>2, <1>12, <2>1 DEF FinishBatch, Goto, Streaming, TypeOK
  <2> QED BY <2>2, <2>7, <2>8 DEF ShapeInv
<1>13. ~GoDown /\ ~Resume
  BY DEF GoDown, Resume, ShapeInv, TypeOK
<1> QED BY <1>4, <1>5, <1>6, <1>7, <1>8, <1>10, <1>11, <1>12, <1>13 DEF Next, Crash, CrashInFlush

(* The reminders may go with a request, or not.                            *)
Ready == \A r \in Runs : Streaming(r) => \A payload \in AssemblePayload(conv) : RequestOK(payload)

LEMMA ReadyToSend ==
  ASSUME TypeOK, OnceInv, ShapeInv
  PROVE  Ready
<1> SUFFICES ASSUME NEW r \in Runs, Streaming(r) PROVE \A payload \in AssemblePayload(conv) : RequestOK(payload)
  BY DEF Ready
<1>1. /\ conv \in Chains(Fragments, Ids, Ids) /\ Clean(conv) /\ Shaped(conv)
      /\ EndsWithUser(conv) /\ Unanswered(conv) = {}
  BY DEF TypeOK, OnceInv, ShapeInv, Streaming
<1>2. RequestOK(conv)
  BY <1>1, ShapedAnswered
<1> DEFINE msg == ReminderMessage
           sent == AppendMessage(conv, msg)
<1>3. msg \in Messages(Fragments, Ids, Ids) /\ OnlyText(msg) /\ msg.role = "user"
  BY FixedMessages, FixedAreText, FixedAreUser
<1> HIDE DEF msg
<1>4. UseIds(msg) = {} /\ ResultIds(msg) = {}
  BY <1>3, TextFits
<1>5. Shaped(sent) /\ EndsWithUser(sent)
  BY <1>1, <1>3, <1>4, UserAdded
<1>6. Clean(sent) /\ Unanswered(sent) = {}
  BY <1>1, <1>3, TextAdded DEF Unanswered
<1>7. RequestOK(sent)
  BY <1>1, <1>3, <1>5, <1>6, AppendIs, ShapedAnswered
<1> QED BY <1>2, <1>7 DEF AssemblePayload, msg

(* What agent.py:415 promises: with one run at a time, and as long as the  *)
(* process has not gone down, every request alternates roles and pairs each call    *)
(* with its result, whatever was cancelled, retried or truncated before,   *)
(* and with the reminders or without.                                      *)
THEOREM RequestsWellFormed ==
  ASSUME MaxConcurrent = 1
  PROVE  Spec => RequestWellFormed
<1> DEFINE Inv == TypeOK /\ AloneInv /\ OnceInv /\ (crashes = 0 => ShapeInv)
           Sent == \A r \in Runs : RequestSent(r) /\ beside' = "no" /\ crashes' = 0 =>
                     \A payload \in AssemblePayload(conv') : RequestOK(payload)
<1>1. Init => Inv
  BY TypeInit, AloneInit, OnceInit, ShapeInit
<1>2. Inv /\ [Next]_vars => Inv'
  <2> SUFFICES ASSUME Inv, [Next]_vars PROVE Inv'
    OBVIOUS
  <2>1. CASE Next
    <3>1. crashes' = 0 => crashes = 0
      <4>1. CASE GoDown
        <5>1. crashes \in Nat /\ crashes' = crashes + 1
          BY <4>1 DEF GoDown, TypeOK
        <5> QED BY <5>1
      <4>2. CASE ~GoDown
        BY <2>1, <4>2 DEF Next, StartRun, BeginTurn, StreamBlock, RetryTransient, RetryTruncated,
           EndEmptyReply, EndReply, FinishBatch, StopRun, TaskNotice, Crash, CrashInFlush, Resume
      <4> QED BY <4>1, <4>2
    <3> QED BY <2>1, <3>1, TypeStep, AloneStep, OnceStep, ShapeStep
  <2>2. CASE UNCHANGED vars
    <3>1. AloneInv' /\ OnceInv' /\ (crashes = 0 => ShapeInv)'
      BY <2>2 DEF vars, AloneInv, OnceInv, PendingOnce, PendingIds, ShapeInv, Active, Streaming
    <3> QED BY <3>1, TypeStep
  <2> QED BY <2>1, <2>2
<1>3. Inv => (crashes = 0 => Ready)
  BY ReadyToSend
<1>4. (crashes = 0 => Ready)' => Sent
  BY DEF Ready, RequestSent, Streaming, AssemblePayload
<1>5. (crashes = 0 => Ready)' => [Sent]_vars
  BY <1>4
<1> HIDE DEF Inv, Sent
<1>6. Spec => [][Sent]_vars
  BY <1>1, <1>2, <1>3, <1>5, PTL DEF Spec
<1> QED BY <1>6 DEF Sent, RequestWellFormed
=============================================================================
