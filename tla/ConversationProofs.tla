------------------------- MODULE ConversationProofs -------------------------
(***************************************************************************)
(* Theorems about Conversation and Adapters, for every chain: what the     *)
(* operators keep of types, ids and blocks, that a repaired chain is left  *)
(* alone by the next repair, and that it makes a request in which every    *)
(* call is answered.                                                       *)
(*                                                                         *)
(* F is the set of the fragments of text, I the ids of calls and results,  *)
(* H the ids of placeholders.                                              *)
(***************************************************************************)
EXTENDS Adapters, FiniteSetTheorems, SequenceTheorems, WellFoundedInduction, TLAPS

-----------------------------------------------------------------------------
(* Induction over Nat, with a set of numbers in the place of a predicate.  *)
LEMMA NaturalOrder ==
  \E R : /\ IsWellFoundedOn(R, Nat)
         /\ \A m, n \in Nat : m < n => <<m, n>> \in R
<1>1. IsWellFoundedOn(OpToRel(<, Nat), Nat)
  BY NatLessThanWellFounded
<1>2. \A m, n \in Nat : m < n => <<m, n>> \in OpToRel(<, Nat)
  BY DEF OpToRel
<1> QED BY <1>1, <1>2

LEMMA Induction ==
  ASSUME NEW S \in SUBSET Nat, 0 \in S, \A n \in S : n + 1 \in S
  PROVE  S = Nat
<1> SUFFICES ASSUME Nat \ S # {} PROVE FALSE
  OBVIOUS
<1>1. PICK R : /\ IsWellFoundedOn(R, Nat)
               /\ \A m, n \in Nat : m < n => <<m, n>> \in R
  BY NaturalOrder
<1>2. \E x \in Nat \ S : \A y \in Nat \ S : ~ (<<y, x>> \in R)
  BY <1>1, WFMin
<1>3. PICK x \in Nat \ S : \A y \in Nat \ S : ~ (<<y, x>> \in R)
  BY <1>2
<1>4. x # 0 /\ x \in Nat /\ \A y \in Nat : y < x => y \in S
  BY <1>1, <1>3
<1>5. x - 1 \in S /\ (x - 1) + 1 = x
  BY <1>4
<1> QED BY <1>3, <1>5

(* f[i] is the first i sequences joined.                                   *)
UpTo(f, seqs, n) ==
  f = [i \in 0..n |-> IF i = 0 THEN <<>> ELSE f[i - 1] \o seqs[i]]

LEMMA UpToAt ==
  ASSUME NEW f, NEW seqs, NEW n \in Nat, UpTo(f, seqs, n), NEW i \in 0..n
  PROVE  f[i] = IF i = 0 THEN <<>> ELSE f[i - 1] \o seqs[i]
<1> DEFINE v(k) == IF k = 0 THEN <<>> ELSE f[k - 1] \o seqs[k]
           h == [k \in 0..n |-> v(k)]
<1>1. f = h
  BY DEF UpTo
<1>2. h[i] = v(i)
  OBVIOUS
<1> QED
  <2> HIDE DEF h
  <2> QED BY <1>1, <1>2

LEMMA UpToExists ==
  ASSUME NEW seqs, NEW m \in Nat
  PROVE  \E f : UpTo(f, seqs, m)
<1> DEFINE S == {n \in Nat : \E f : UpTo(f, seqs, n)}
<1>1. 0 \in S
  <2> DEFINE f == [i \in 0..0 |-> <<>>]
  <2>1. UpTo(f, seqs, 0)
    BY DEF UpTo
  <2> QED BY <2>1
<1>2. ASSUME NEW n \in S PROVE n + 1 \in S
  <2>1. PICK f : UpTo(f, seqs, n)
    BY <1>2
  <2> DEFINE g == [i \in 0..n + 1 |-> IF i <= n THEN f[i] ELSE f[i - 1] \o seqs[i]]
             v(i) == IF i = 0 THEN <<>> ELSE g[i - 1] \o seqs[i]
  <2>2. n \in Nat
    OBVIOUS
  <2>3. \A i \in 0..n : f[i] = IF i = 0 THEN <<>> ELSE f[i - 1] \o seqs[i]
    BY <2>1, <2>2, UpToAt
  <2>4. \A i \in 0..n : g[i] = f[i]
    BY <2>2
  <2>5. g[n + 1] = f[n] \o seqs[n + 1]
    BY <2>2
  <2>6. ASSUME NEW i \in 0..n + 1 PROVE g[i] = v(i)
    <3>1. CASE i \in 0..n
      <4>1. i = 0 \/ i - 1 \in 0..n
        BY <2>2, <3>1
      <4> HIDE DEF g
      <4> QED BY <2>3, <2>4, <3>1, <4>1
    <3>2. CASE i = n + 1
      <4>1. i # 0 /\ i - 1 = n /\ g[n] = f[n]
        BY <2>2, <2>4, <3>2
      <4> HIDE DEF g
      <4> QED BY <2>5, <3>2, <4>1
    <3> QED BY <2>2, <3>1, <3>2
  <2>7. UpTo(g, seqs, n + 1)
    <3>1. g = [i \in 0..n + 1 |-> g[i]]
      OBVIOUS
    <3> HIDE DEF g
    <3>2. g = [i \in 0..n + 1 |-> v(i)]
      BY <2>6, <3>1
    <3> QED BY <3>2 DEF UpTo
  <2> QED BY <2>2, <2>7
<1> HIDE DEF S
<1>3. S = Nat
  BY <1>1, <1>2, Induction DEF S
<1> QED BY <1>3 DEF S

LEMMA ConcatUpTo ==
  ASSUME NEW seqs, Len(seqs) \in Nat
  PROVE  \E f : UpTo(f, seqs, Len(seqs)) /\ Concat(seqs) = f[Len(seqs)]
<1> DEFINE c == CHOOSE f : UpTo(f, seqs, Len(seqs))
<1>1. UpTo(c, seqs, Len(seqs))
  BY UpToExists
<1>2. Concat(seqs) = c[Len(seqs)]
  BY DEF UpTo, Concat
<1> QED BY <1>1, <1>2

(* What is joined is what was in one of the sequences.                     *)
LEMMA ConcatIs ==
  ASSUME NEW T, NEW seqs \in Seq(Seq(T))
  PROVE  /\ Concat(seqs) \in Seq(T)
         /\ \A i \in DOMAIN seqs : \A p \in DOMAIN seqs[i] :
              \E q \in DOMAIN Concat(seqs) : Concat(seqs)[q] = seqs[i][p]
         /\ \A q \in DOMAIN Concat(seqs) :
              \E i \in DOMAIN seqs : \E p \in DOMAIN seqs[i] : Concat(seqs)[q] = seqs[i][p]
<1>1. PICK f : UpTo(f, seqs, Len(seqs)) /\ Concat(seqs) = f[Len(seqs)]
  BY ConcatUpTo
<1> DEFINE Into(n) == \A i \in 1..n : \A p \in DOMAIN seqs[i] :
                        \E q \in DOMAIN f[n] : f[n][q] = seqs[i][p]
           From(n) == \A q \in DOMAIN f[n] : \E i \in 1..n : \E p \in DOMAIN seqs[i] : f[n][q] = seqs[i][p]
           Good(n) == f[n] \in Seq(T) /\ Into(n) /\ From(n)
           S == {n \in Nat : n <= Len(seqs) => Good(n)}
<1>2. 0 \in S
  <2>1. f[0] = <<>>
    BY <1>1 DEF UpTo
  <2>2. f[0] \in Seq(T) /\ Into(0) /\ From(0)
    BY <2>1
  <2> HIDE DEF Into, From
  <2> QED BY <2>2
<1>3. ASSUME NEW n \in S PROVE n + 1 \in S
  <2> SUFFICES ASSUME n + 1 <= Len(seqs) PROVE Good(n + 1)
    OBVIOUS
  <2>1. n \in Nat /\ Good(n)
    <3> HIDE DEF Good
    <3> QED BY <1>3
  <2>2. f[n + 1] = f[n] \o seqs[n + 1]
    <3>1. n + 1 \in 0..Len(seqs) /\ n + 1 # 0 /\ (n + 1) - 1 = n /\ Len(seqs) \in Nat
      BY <2>1
    <3> HIDE DEF Good, S
    <3>2. f[n + 1] = IF n + 1 = 0 THEN <<>> ELSE f[(n + 1) - 1] \o seqs[n + 1]
      BY <1>1, <3>1, UpToAt
    <3> QED BY <3>1, <3>2
  <2> DEFINE s == f[n]
             e == seqs[n + 1]
             t == f[n + 1]
  <2>3. s \in Seq(T) /\ e \in Seq(T) /\ t = s \o e /\ Len(s) \in Nat /\ Len(e) \in Nat
    BY <2>1, <2>2
  <2>4. /\ t \in Seq(T) /\ DOMAIN t = 1..Len(s) + Len(e)
        /\ DOMAIN s = 1..Len(s) /\ DOMAIN e = 1..Len(e)
        /\ \A q \in 1..Len(s) : t[q] = s[q]
        /\ \A q \in 1..Len(e) : t[Len(s) + q] = e[q]
    <3> HIDE DEF s, e, t
    <3> QED BY <2>3
  <2>5. Into(n + 1)
    <3> SUFFICES ASSUME NEW i \in 1..n + 1, NEW p \in DOMAIN seqs[i]
                 PROVE  \E q \in DOMAIN t : t[q] = seqs[i][p]
      OBVIOUS
    <3>1. CASE i \in 1..n
      <4>1. PICK q \in DOMAIN s : s[q] = seqs[i][p]
        BY <2>1, <3>1
      <4> HIDE DEF s, e, t
      <4> QED BY <2>3, <2>4, <4>1
    <3>2. CASE i = n + 1
      <4>1. p \in 1..Len(e) /\ seqs[i][p] = e[p]
        BY <2>4, <3>2
      <4> HIDE DEF s, e, t, Into, From, Good, S
      <4>2. Len(s) \in Nat /\ Len(e) \in Nat /\ DOMAIN t = 1..(Len(s) + Len(e))
        BY <2>3, <2>4
      <4>3. Len(s) + p \in DOMAIN t
        BY <4>1, <4>2
      <4>4. t[Len(s) + p] = seqs[i][p]
        BY <2>4, <4>1
      <4> QED BY <4>3, <4>4
    <3> QED BY <2>1, <3>1, <3>2
  <2>6. From(n + 1)
    <3> SUFFICES ASSUME NEW q \in DOMAIN t
                 PROVE  \E i \in 1..n + 1 : \E p \in DOMAIN seqs[i] : t[q] = seqs[i][p]
      OBVIOUS
    <3>1. CASE q \in 1..Len(s)
      <4>1. PICK i \in 1..n : \E p \in DOMAIN seqs[i] : s[q] = seqs[i][p]
        BY <2>1, <2>4, <3>1
      <4>2. t[q] = s[q] /\ i \in 1..n + 1
        <5> HIDE DEF s, e, t
        <5> QED BY <2>1, <2>4, <3>1
      <4> HIDE DEF s, e, t
      <4> QED BY <4>1, <4>2
    <3>2. CASE q \notin 1..Len(s)
      <4>1. q - Len(s) \in 1..Len(e) /\ t[q] = e[q - Len(s)]
        <5> HIDE DEF s, e, t
        <5> QED BY <2>3, <2>4, <3>2
      <4>2. n + 1 \in 1..n + 1 /\ q - Len(s) \in DOMAIN seqs[n + 1]
        BY <2>1, <2>4, <4>1
      <4> QED BY <4>1, <4>2
    <3> QED BY <3>1, <3>2
  <2>7. t \in Seq(T)
    BY <2>4
  <2> HIDE DEF Into, From
  <2> QED BY <2>5, <2>6, <2>7
<1> HIDE DEF S
<1>4. S = Nat
  BY <1>2, <1>3, Induction DEF S
<1>5. Good(Len(seqs))
  BY <1>4, SMTT(30) DEF S
<1> DEFINE whole == f[Len(seqs)]
<1>6. DOMAIN seqs = 1..Len(seqs) /\ Concat(seqs) = whole
  BY <1>1
<1>7. whole \in Seq(T) /\ Into(Len(seqs)) /\ From(Len(seqs))
  BY <1>5
<1>8. ASSUME NEW i \in DOMAIN seqs, NEW p \in DOMAIN seqs[i]
      PROVE  \E q \in DOMAIN Concat(seqs) : Concat(seqs)[q] = seqs[i][p]
  <2>1. \E q \in DOMAIN whole : whole[q] = seqs[i][p]
    BY <1>6, <1>7
  <2> HIDE DEF whole
  <2> QED BY <1>6, <2>1
<1>9. ASSUME NEW q \in DOMAIN Concat(seqs)
      PROVE  \E i \in DOMAIN seqs : \E p \in DOMAIN seqs[i] : Concat(seqs)[q] = seqs[i][p]
  <2>1. \E i \in 1..Len(seqs) : \E p \in DOMAIN seqs[i] : whole[q] = seqs[i][p]
    BY <1>6, <1>7
  <2> HIDE DEF whole
  <2> QED BY <1>6, <2>1
<1> HIDE DEF whole, Into, From
<1> QED BY <1>6, <1>7, <1>8, <1>9

(* Selected are the members at the places, and no others.                  *)
LEMMA SelectedIs ==
  ASSUME NEW T, NEW seq \in Seq(T), NEW places
  PROVE  /\ Selected(seq, places) \in Seq(T)
         /\ \A i \in places \cap DOMAIN seq :
              \E q \in DOMAIN Selected(seq, places) : Selected(seq, places)[q] = seq[i]
         /\ \A q \in DOMAIN Selected(seq, places) :
              \E i \in places \cap DOMAIN seq : Selected(seq, places)[q] = seq[i]
<1> DEFINE one(i) == IF i \in places THEN << seq[i] >> ELSE <<>>
           seqs == [i \in DOMAIN seq |-> one(i)]
<1>1. Selected(seq, places) = Concat(seqs)
  BY DEF Selected
<1>2. \A i \in DOMAIN seq : one(i) \in Seq(T)
  OBVIOUS
<1>3. seqs \in Seq(Seq(T)) /\ DOMAIN seqs = DOMAIN seq
  <2> HIDE DEF one
  <2>1. Len(seq) \in Nat /\ seqs \in [1..Len(seq) -> Seq(T)]
    BY <1>2
  <2> QED BY <2>1
<1>4. \A i \in DOMAIN seq : seqs[i] = one(i)
  OBVIOUS
<1>5. \A i \in DOMAIN seq : \A p \in DOMAIN one(i) : i \in places /\ one(i)[p] = seq[i]
  OBVIOUS
<1>6. \A i \in places \cap DOMAIN seq : 1 \in DOMAIN one(i) /\ one(i)[1] = seq[i]
  OBVIOUS
<1> HIDE DEF seqs, one
<1> QED BY <1>1, <1>3, <1>4, <1>5, <1>6, ConcatIs

TextBlocks(F) == [kind : {"text"}, text : Seq(F), id : {NoId}]
IdBlocks(kinds, I) == [kind : kinds, text : {<<>>}, id : I]
BlocksOf(F, I, H) == TextBlocks(F) \cup IdBlocks({"use", "result"}, I) \cup IdBlocks({"placeholder"}, H)
Messages(F, I, H) == [role : {"user", "assistant"}, content : Seq(BlocksOf(F, I, H))]
Chains(F, I, H) == Seq(Messages(F, I, H))

LEMMA SeqGrows == ASSUME NEW S, NEW T, S \subseteq T PROVE Seq(S) \subseteq Seq(T)
OBVIOUS

LEMMA ChainsGrow ==
  ASSUME NEW F, NEW I, NEW H, NEW J, NEW K, I \subseteq J, H \subseteq K
  PROVE  Messages(F, I, H) \subseteq Messages(F, J, K) /\ Chains(F, I, H) \subseteq Chains(F, J, K)
<1>1. BlocksOf(F, I, H) \subseteq BlocksOf(F, J, K)
  BY DEF BlocksOf, IdBlocks
<1>2. Seq(BlocksOf(F, I, H)) \subseteq Seq(BlocksOf(F, J, K))
  BY <1>1, SeqGrows
<1>3. Messages(F, I, H) \subseteq Messages(F, J, K)
  BY <1>2 DEF Messages
<1> QED BY <1>3, SeqGrows DEF Chains

LEMMA AppendIs ==
  ASSUME NEW F, NEW I, NEW H, NEW msgs \in Chains(F, I, H), NEW msg \in Messages(F, I, H)
  PROVE  AppendMessage(msgs, msg) \in Chains(F, I, H)
<1>1. CASE msgs # <<>> /\ Last(msgs).role = msg.role
  <2> DEFINE n == Len(msgs)
             m == [msgs[n] EXCEPT !.content = @ \o msg.content]
  <2>1. n \in DOMAIN msgs /\ msgs[n] \in Messages(F, I, H)
    BY <1>1 DEF Chains
  <2>2. m \in Messages(F, I, H)
    <3>1. msgs[n].content \o msg.content \in Seq(BlocksOf(F, I, H))
      BY <2>1 DEF Messages
    <3> QED BY <2>1, <3>1 DEF Messages
  <2>3. AppendMessage(msgs, msg) = [msgs EXCEPT ![n] = m]
    BY <1>1 DEF AppendMessage
  <2> HIDE DEF n, m
  <2> QED BY <2>1, <2>2, <2>3 DEF Chains
<1>2. CASE ~(msgs # <<>> /\ Last(msgs).role = msg.role)
  <2>1. AppendMessage(msgs, msg) = Append(msgs, msg)
    BY <1>2 DEF AppendMessage
  <2> QED BY <2>1 DEF Chains
<1> QED BY <1>1, <1>2

LEMMA FrontIs ==
  ASSUME NEW L, NEW f \in Seq(L), f # <<>>
  PROVE  /\ Front(f) \in Seq(L) /\ Len(Front(f)) = Len(f) - 1
         /\ \A i \in 1..(Len(f) - 1) : Front(f)[i] = f[i]
<1>1. Len(f) \in Nat /\ Len(f) # 0
  OBVIOUS
<1> DEFINE n == Len(f) - 1
<1>2. n \in Nat /\ n <= Len(f) /\ Front(f) = SubSeq(f, 1, n)
  BY <1>1 DEF Front
<1> HIDE DEF n
<1>3. \A i \in 1..n : f[i] \in L
  BY <1>2
<1>4. Front(f) \in Seq(L) /\ Len(Front(f)) = n /\ \A i \in 1..n : Front(f)[i] = f[i]
  BY <1>2, <1>3
<1> QED BY <1>4 DEF n

LEMMA Reassociated ==
  ASSUME NEW T, NEW a \in Seq(T), NEW b \in Seq(T), NEW c \in Seq(T)
  PROVE  (a \o b) \o c = a \o (b \o c)
OBVIOUS

-----------------------------------------------------------------------------
(* The repair, and what is read back.                                      *)
LEMMA MaxIs ==
  ASSUME NEW n \in Nat, NEW ids \in SUBSET (1..n), ids # {}
  PROVE  Max(ids) \in ids /\ \A x \in ids : Max(ids) >= x
<1> DEFINE Has(S) == \E x \in S : \A y \in S : x >= y
           N == {m \in Nat : \A S \in SUBSET (1..m) : S # {} => Has(S)}
<1>1. 0 \in N
  <2>1. \A S \in SUBSET (1..0) : S = {}
    OBVIOUS
  <2> HIDE DEF Has
  <2> QED BY <2>1
<1>2. ASSUME NEW m \in N PROVE m + 1 \in N
  <2> SUFFICES ASSUME NEW S \in SUBSET (1..m + 1), S # {} PROVE Has(S)
    OBVIOUS
  <2>1. CASE m + 1 \in S
    BY <2>1
  <2>2. CASE m + 1 \notin S
    <3>1. S \in SUBSET (1..m)
      BY <2>2
    <3> HIDE DEF Has
    <3> QED BY <3>1
  <2> QED BY <2>1, <2>2
<1>3. N = Nat
  <2> HIDE DEF N
  <2>1. N \in SUBSET Nat
    BY DEF N
  <2> QED BY <1>1, <1>2, <2>1, Induction
<1>4. Has(ids)
  <2> HIDE DEF Has
  <2> QED BY <1>3
<1> QED BY <1>4 DEF Max

LEMMA PlaceholdersAre ==
  ASSUME NEW n \in Nat, NEW ids \in SUBSET (1..n), ids # {}
  PROVE  Placeholders(ids) \in Seq(IdBlocks({"placeholder"}, ids))
<1> DEFINE numbers == [id \in 1..Max(ids) |-> id]
           order == Selected(numbers, ids)
<1>1. Max(ids) \in Nat
  <2>1. Max(ids) \in ids
    BY MaxIs
  <2>2. \A x \in ids : x \in Nat
    OBVIOUS
  <2> HIDE DEF numbers, order
  <2> QED BY <2>1, <2>2
<1>2. numbers \in Seq(Nat) /\ \A i \in DOMAIN numbers : numbers[i] = i
  BY <1>1
<1> HIDE DEF numbers
<1>3. order \in Seq(Nat) /\ \A q \in DOMAIN order : order[q] \in ids
  BY <1>2, SelectedIs
<1>4. Placeholders(ids) = [k \in DOMAIN order |-> PlaceholderBlock(order[k])]
  BY DEF Placeholders, numbers
<1> HIDE DEF order
<1>5. Placeholders(ids) \in [1..Len(order) -> IdBlocks({"placeholder"}, ids)] /\ Len(order) \in Nat
  BY <1>3, <1>4 DEF PlaceholderBlock, IdBlocks
<1> QED BY <1>5

LEMMA DropIs ==
  ASSUME NEW F, NEW I, NEW H, NEW msgs \in Chains(F, I, H)
  PROVE  DropInvalidBlocks(msgs) \in Chains(F, I, H)
<1> DEFINE kept(i) == Message(msgs[i].role, KeptBlocks(msgs, i))
<1>1. \A i \in DOMAIN msgs : kept(i) \in Messages(F, I, H)
  <2> SUFFICES ASSUME NEW i \in DOMAIN msgs PROVE kept(i) \in Messages(F, I, H)
    OBVIOUS
  <2>1. msgs[i].content \in Seq(BlocksOf(F, I, H)) /\ msgs[i].role \in {"user", "assistant"}
    <3>1. msgs[i] \in Messages(F, I, H)
      BY DEF Chains
    <3> QED BY <3>1 DEF Messages
  <2>2. KeptBlocks(msgs, i) \in Seq(BlocksOf(F, I, H))
    BY <2>1, SelectedIs DEF KeptBlocks
  <2> QED BY <2>1, <2>2 DEF Message, Messages
<1>2. Len(msgs) \in Nat /\ DOMAIN msgs = 1..Len(msgs)
  BY DEF Chains
<1> DEFINE all == [i \in DOMAIN msgs |-> kept(i)]
<1>3. all \in Seq(Messages(F, I, H))
  <2> HIDE DEF kept
  <2>1. all \in [1..Len(msgs) -> Messages(F, I, H)]
    BY <1>1, <1>2
  <2> QED BY <1>2, <2>1
<1>4. DropInvalidBlocks(msgs) = WithoutEmpty(all)
  BY DEF DropInvalidBlocks
<1> HIDE DEF all
<1> QED BY <1>3, <1>4, SelectedIs DEF WithoutEmpty, Chains

(* Calls left open are calls of the chain.                                 *)
LEMMA UnansweredAre ==
  ASSUME NEW F, NEW I, NEW H, NEW msgs \in Chains(F, I, H)
  PROVE  Unanswered(msgs) \subseteq I
<1> SUFFICES ASSUME NEW id \in AllUseIds(msgs) PROVE id \in I
  BY DEF Unanswered
<1>1. PICK m \in ToSet(msgs) : id \in UseIds(m)
  BY DEF AllUseIds
<1>2. PICK b \in ToSet(m.content) : IsUse(b) /\ id = b.id
  BY <1>1 DEF UseIds
<1>3. m \in Messages(F, I, H)
  BY DEF ToSet, Chains
<1>4. b \in BlocksOf(F, I, H)
  BY <1>3 DEF ToSet, Messages
<1> QED BY <1>2, <1>4 DEF BlocksOf, TextBlocks, IdBlocks, IsUse

LEMMA RepairIs ==
  ASSUME NEW F, NEW n \in Nat, NEW I \in SUBSET (1..n), NEW msgs \in Chains(F, I, I)
  PROVE  RepairChain(msgs) \in Chains(F, I, I)
<1> DEFINE repaired == DropInvalidBlocks(msgs)
           missing == Unanswered(repaired)
<1>1. repaired \in Chains(F, I, I)
  BY DropIs
<1>2. missing \subseteq I
  BY <1>1, UnansweredAre
<1>3. CASE missing = {}
  BY <1>1, <1>3 DEF RepairChain
<1>4. CASE missing # {}
  <2>1. UserMessage(Placeholders(missing)) \in Messages(F, I, I)
    <3>1. Placeholders(missing) \in Seq(IdBlocks({"placeholder"}, missing))
      BY <1>2, <1>4, PlaceholdersAre
    <3>2. IdBlocks({"placeholder"}, missing) \subseteq BlocksOf(F, I, I)
      BY <1>2 DEF IdBlocks, BlocksOf
    <3>3. Placeholders(missing) \in Seq(BlocksOf(F, I, I))
      BY <3>1, <3>2, SeqGrows
    <3> QED BY <3>3 DEF UserMessage, Message, Messages
  <2>2. RepairChain(msgs) = AppendMessage(repaired, UserMessage(Placeholders(missing)))
    BY <1>4 DEF RepairChain
  <2> QED BY <1>1, <2>1, <2>2, AppendIs
<1> QED BY <1>3, <1>4

-----------------------------------------------------------------------------
(* Selecting goes through the sequence once.                               *)
Selects(f, T, seq, places) ==
  /\ f[0] = <<>> /\ f[Len(seq)] = Selected(seq, places)
  /\ \A n \in 0..Len(seq) : f[n] \in Seq(T)
  /\ \A n \in 0..(Len(seq) - 1) :
       f[n + 1] = IF n + 1 \in places THEN Append(f[n], seq[n + 1]) ELSE f[n]

LEMMA SelectedUpTo ==
  ASSUME NEW T, NEW seq \in Seq(T), NEW places
  PROVE  \E f : Selects(f, T, seq, places)
<1> DEFINE one(i) == IF i \in places THEN << seq[i] >> ELSE <<>>
           seqs == [i \in DOMAIN seq |-> one(i)]
<1>1. Selected(seq, places) = Concat(seqs)
  BY DEF Selected
<1>2. Len(seq) \in Nat /\ DOMAIN seq = 1..Len(seq) /\ \A i \in DOMAIN seq : seq[i] \in T
  OBVIOUS
<1>3. \A i \in DOMAIN seq : seqs[i] = one(i) /\ one(i) \in Seq(T)
  BY <1>2
<1>4. Len(seqs) = Len(seq)
  BY <1>2
<1> HIDE DEF seqs
<1>5. PICK f : UpTo(f, seqs, Len(seq)) /\ Concat(seqs) = f[Len(seq)]
  BY <1>2, <1>4, ConcatUpTo
<1>6. f[0] = <<>>
  BY <1>2, <1>5, UpToAt
<1>7. \A n \in 0..(Len(seq) - 1) : f[n + 1] = f[n] \o one(n + 1) /\ one(n + 1) \in Seq(T)
  <2> SUFFICES ASSUME NEW n \in 0..(Len(seq) - 1)
               PROVE  f[n + 1] = f[n] \o one(n + 1) /\ one(n + 1) \in Seq(T)
    OBVIOUS
  <2>1. n + 1 \in 0..Len(seq) /\ n + 1 # 0 /\ (n + 1) - 1 = n /\ n + 1 \in DOMAIN seq
    BY <1>2
  <2> HIDE DEF one
  <2>2. f[n + 1] = IF n + 1 = 0 THEN <<>> ELSE f[(n + 1) - 1] \o seqs[n + 1]
    BY <1>2, <1>5, <2>1, UpToAt
  <2> QED BY <1>3, <2>1, <2>2
<1> DEFINE S == {n \in Nat : n <= Len(seq) => f[n] \in Seq(T)}
<1>8. S = Nat
  <2>1. 0 \in S
    <3>1. <<>> \in Seq(T)
      OBVIOUS
    <3> QED BY <1>6, <3>1
  <2>2. ASSUME NEW n \in S PROVE n + 1 \in S
    <3> SUFFICES ASSUME n + 1 <= Len(seq) PROVE f[n + 1] \in Seq(T)
      OBVIOUS
    <3>1. n \in 0..(Len(seq) - 1) /\ f[n] \in Seq(T)
      BY <1>2
    <3>2. f[n + 1] = f[n] \o one(n + 1) /\ one(n + 1) \in Seq(T)
      BY <1>7, <3>1
    <3>3. \A x, y \in Seq(T) : x \o y \in Seq(T)
      OBVIOUS
    <3> HIDE DEF one
    <3> QED BY <3>1, <3>2, <3>3
  <2> HIDE DEF S
  <2> QED BY <2>1, <2>2, Induction DEF S
<1>9. \A n \in 0..Len(seq) : f[n] \in Seq(T)
  BY <1>2, <1>8
<1>10. ASSUME NEW n \in 0..(Len(seq) - 1)
       PROVE  f[n + 1] = IF n + 1 \in places THEN Append(f[n], seq[n + 1]) ELSE f[n]
  <2>1. f[n] \in Seq(T) /\ n + 1 \in DOMAIN seq /\ seq[n + 1] \in T
    BY <1>2, <1>9
  <2>2. CASE n + 1 \in places
    <3>1. f[n + 1] = f[n] \o << seq[n + 1] >>
      BY <1>7, <2>2
    <3> QED BY <2>1, <2>2, <3>1, AppendIsConcat
  <2>3. CASE n + 1 \notin places
    <3>1. f[n + 1] = f[n] \o <<>>
      BY <1>7, <2>3
    <3> QED BY <2>1, <2>3, <3>1
  <2> QED BY <2>2, <2>3
<1>11. Selects(f, T, seq, places)
  BY <1>1, <1>5, <1>6, <1>9, <1>10 DEF Selects
<1> QED BY <1>11

(* No place is selected twice.                                             *)
LEMMA SelectedOnce ==
  ASSUME NEW T, NEW seq \in Seq(T), NEW places
  PROVE  \E g \in [DOMAIN Selected(seq, places) -> places \cap DOMAIN seq] :
           /\ \A p, q \in DOMAIN Selected(seq, places) : g[p] = g[q] => p = q
           /\ \A q \in DOMAIN Selected(seq, places) : Selected(seq, places)[q] = seq[g[q]]
<1>0. PICK f : Selects(f, T, seq, places)
  BY SelectedUpTo
<1>1. /\ f[0] = <<>> /\ f[Len(seq)] = Selected(seq, places)
      /\ \A n \in 0..Len(seq) : f[n] \in Seq(T)
      /\ \A n \in 0..(Len(seq) - 1) :
           f[n + 1] = IF n + 1 \in places THEN Append(f[n], seq[n + 1]) ELSE f[n]
  BY <1>0 DEF Selects
<1> DEFINE Way(s, n, g) ==
             /\ g \in [DOMAIN s -> places \cap 1..n]
             /\ \A p, q \in DOMAIN s : g[p] = g[q] => p = q
             /\ \A q \in DOMAIN s : s[q] = seq[g[q]]
           S == {n \in Nat : n <= Len(seq) => \E g : Way(f[n], n, g)}
<1>2. Len(seq) \in Nat /\ DOMAIN seq = 1..Len(seq) /\ \A i \in DOMAIN seq : seq[i] \in T
  OBVIOUS
<1>3. 0 \in S
  <2> DEFINE g == [q \in {} |-> 0]
  <2>1. Way(<<>>, 0, g)
    OBVIOUS
  <2> HIDE DEF Way
  <2> QED BY <1>1, <2>1
<1>4. ASSUME NEW n \in S PROVE n + 1 \in S
  <2> SUFFICES ASSUME n + 1 <= Len(seq) PROVE \E g : Way(f[n + 1], n + 1, g)
    OBVIOUS
  <2>1. n \in 0..(Len(seq) - 1) /\ n \in Nat /\ n \in 0..Len(seq)
    BY <1>2
  <2>2. PICK g : Way(f[n], n, g)
    BY <1>2
  <2> DEFINE s == f[n]
             t == f[n + 1]
  <2>3. s \in Seq(T) /\ Len(s) \in Nat /\ DOMAIN s = 1..Len(s)
    BY <1>1, <2>1
  <2>4. CASE n + 1 \notin places
    <3>1. t = s
      BY <1>1, <2>1, <2>4
    <3>2. Way(s, n + 1, g)
      BY <2>1, <2>2
    <3> HIDE DEF Way, s, t
    <3>3. Way(t, n + 1, g)
      BY <3>1, <3>2
    <3> QED BY <3>3 DEF t
  <2>5. CASE n + 1 \in places
    <3>1. t = Append(s, seq[n + 1]) /\ seq[n + 1] \in T
      <4>1. n + 1 \in DOMAIN seq
        BY <1>2, <2>1
      <4> HIDE DEF S, Way
      <4> QED BY <1>1, <1>2, <2>1, <2>5, <4>1
    <3>2. /\ DOMAIN t = 1..Len(s) + 1 /\ t[Len(s) + 1] = seq[n + 1]
          /\ \A q \in 1..Len(s) : t[q] = s[q]
      <4> HIDE DEF s, t
      <4>1. t \in Seq(T) /\ Len(t) = Len(s) + 1
        BY <2>3, <3>1, AppendProperties
      <4>2. t[Len(s) + 1] = seq[n + 1] /\ \A q \in 1..Len(s) : t[q] = s[q]
        BY <2>3, <3>1, AppendProperties
      <4> QED BY <4>1, <4>2
    <3> DEFINE h == [q \in 1..Len(s) + 1 |-> IF q \in 1..Len(s) THEN g[q] ELSE n + 1]
    <3>3. \A q \in 1..Len(s) : h[q] = g[q] /\ g[q] \in places \cap 1..n
      <4>1. \A q \in 1..Len(s) : q \in 1..Len(s) + 1
        BY <2>3
      <4>2. g \in [1..Len(s) -> places \cap 1..n]
        BY <2>2, <2>3
      <4> HIDE DEF s, Way, S
      <4> QED BY <4>1, <4>2
    <3>4. h[Len(s) + 1] = n + 1
      BY <2>3
    <3>5. h \in [DOMAIN t -> places \cap 1..n + 1]
      <4>1. \A q \in 1..Len(s) + 1 : (IF q \in 1..Len(s) THEN g[q] ELSE n + 1) \in places \cap 1..n + 1
        <5>1. \A x \in places \cap 1..n : x \in places \cap 1..n + 1
          BY <2>1
        <5>2. n + 1 \in places \cap 1..n + 1
          BY <2>1, <2>5
        <5> HIDE DEF s, h, Way, S
        <5> QED BY <3>3, <5>1, <5>2
      <4> QED BY <3>2, <4>1
    <3>6. ASSUME NEW q \in DOMAIN t PROVE q \in 1..Len(s) \/ q = Len(s) + 1
      BY <2>3, <3>2
    <3> HIDE DEF h
    <3>7. ASSUME NEW p \in DOMAIN t, NEW q \in DOMAIN t, h[p] = h[q] PROVE p = q
      <4>1. \A x \in 1..Len(s) : h[x] # n + 1
        BY <2>1, <3>3
      <4>2. ASSUME NEW x \in 1..Len(s), NEW y \in 1..Len(s), h[x] = h[y] PROVE x = y
        <5>1. g[x] = g[y]
          BY <3>3, <4>2
        <5>2. x \in DOMAIN s /\ y \in DOMAIN s
          BY <2>3
        <5>3. \A k, l \in DOMAIN s : g[k] = g[l] => k = l
          BY <2>2
        <5> HIDE DEF s, h
        <5> QED BY <5>1, <5>2, <5>3
      <4> QED BY <3>4, <3>6, <3>7, <4>1, <4>2
    <3>8. ASSUME NEW q \in DOMAIN t PROVE t[q] = seq[h[q]]
      <4>1. \A x \in 1..Len(s) : s[x] = seq[g[x]]
        BY <2>2, <2>3
      <4> QED BY <3>2, <3>3, <3>4, <3>6, <4>1
    <3>9. Way(t, n + 1, h)
      <4> HIDE DEF t
      <4> QED BY <3>5, <3>7, <3>8
    <3> HIDE DEF Way
    <3> QED BY <3>9
  <2> HIDE DEF Way
  <2> QED BY <2>4, <2>5
<1> HIDE DEF S
<1>5. S = Nat
  BY <1>3, <1>4, Induction DEF S
<1>6. \E g : Way(f[Len(seq)], Len(seq), g)
  BY <1>2, <1>5 DEF S
<1>7. PICK g : Way(Selected(seq, places), Len(seq), g)
  <2> HIDE DEF Way
  <2>1. f[Len(seq)] = Selected(seq, places)
    BY <1>1
  <2> QED BY <1>6, <2>1
<1> QED BY <1>2, <1>7

(* The first places are selected, and no others.                           *)
LEMMA SelectedFirst ==
  ASSUME NEW T, NEW seq \in Seq(T), NEW places, NEW m \in 0..Len(seq),
         places \cap DOMAIN seq = 1..m
  PROVE  LET out == Selected(seq, places)
         IN  Len(out) = m /\ DOMAIN out = 1..m /\ \A i \in 1..m : out[i] = seq[i]
<1>0. PICK f : Selects(f, T, seq, places)
  BY SelectedUpTo
<1>1. /\ f[0] = <<>> /\ f[Len(seq)] = Selected(seq, places)
      /\ \A n \in 0..Len(seq) : f[n] \in Seq(T)
      /\ \A n \in 0..(Len(seq) - 1) :
           f[n + 1] = IF n + 1 \in places THEN Append(f[n], seq[n + 1]) ELSE f[n]
  BY <1>0 DEF Selects
<1> DEFINE First(s, n) == Len(s) = n /\ \A i \in 1..n : s[i] = seq[i]
           upTo(n) == IF n <= m THEN n ELSE m
           S == {n \in Nat : n <= Len(seq) => First(f[n], upTo(n))}
<1>2. Len(seq) \in Nat /\ DOMAIN seq = 1..Len(seq) /\ m \in Nat /\ \A i \in DOMAIN seq : seq[i] \in T
  OBVIOUS
<1>9. m <= Len(seq)
  BY <1>2
<1>3. 0 \in S
  BY <1>1, <1>2
<1>4. ASSUME NEW n \in S PROVE n + 1 \in S
  <2> SUFFICES ASSUME n + 1 <= Len(seq) PROVE First(f[n + 1], upTo(n + 1))
    OBVIOUS
  <2>1. n \in 0..(Len(seq) - 1) /\ n \in Nat /\ n \in 0..Len(seq) /\ n + 1 \in DOMAIN seq
    BY <1>2
  <2> DEFINE s == f[n]
             t == f[n + 1]
  <2>2. s \in Seq(T) /\ First(s, upTo(n))
    BY <1>1, <1>2, <2>1
  <2>3. CASE n + 1 <= m
    <3>1. n + 1 \in places
      BY <2>1, <2>3
    <3>2. t = Append(s, seq[n + 1]) /\ seq[n + 1] \in T
      BY <1>1, <1>2, <2>1, <3>1
    <3>3. upTo(n) = n /\ upTo(n + 1) = n + 1
      BY <1>2, <2>1, <2>3
    <3> HIDE DEF s, t, upTo
    <3>4. Len(t) = n + 1 /\ t[n + 1] = seq[n + 1] /\ \A i \in 1..n : t[i] = s[i]
      BY <2>1, <2>2, <3>2, <3>3, AppendProperties
    <3>5. \A i \in 1..n + 1 : t[i] = seq[i]
      BY <2>1, <2>2, <3>3, <3>4
    <3> QED BY <3>3, <3>4, <3>5 DEF t
  <2>4. CASE ~(n + 1 <= m)
    <3>1. n + 1 \notin places
      BY <1>2, <2>1, <2>4
    <3>2. t = s
      BY <1>1, <2>1, <3>1
    <3>3. upTo(n) = m /\ upTo(n + 1) = m
      BY <1>2, <2>1, <2>4
    <3> HIDE DEF s, t, upTo
    <3> QED BY <2>2, <3>2, <3>3 DEF t
  <2> QED BY <2>3, <2>4
<1> HIDE DEF S
<1>5. S = Nat
  BY <1>3, <1>4, Induction DEF S
<1>6. First(f[Len(seq)], upTo(Len(seq))) /\ f[Len(seq)] \in Seq(T)
  <2>1. Len(seq) \in S /\ Len(seq) <= Len(seq) /\ Len(seq) \in 0..Len(seq)
    BY <1>2, <1>5
  <2> HIDE DEF First, upTo
  <2> QED BY <1>1, <2>1 DEF S
<1>7. upTo(Len(seq)) = m
  <2>1. ASSUME NEW k \in Nat, m <= k PROVE upTo(k) = m
    BY <1>2, <2>1
  <2> HIDE DEF upTo
  <2> QED BY <1>2, <1>9, <2>1
<1> DEFINE out == Selected(seq, places)
<1>8. out \in Seq(T) /\ Len(out) = m /\ \A i \in 1..m : out[i] = seq[i]
  <2> HIDE DEF upTo
  <2> QED BY <1>1, <1>6, <1>7
<1> HIDE DEF out
<1>10. DOMAIN out = 1..m
  BY <1>8
<1> QED BY <1>8, <1>10 DEF out

LEMMA SelectedAll ==
  ASSUME NEW T, NEW seq \in Seq(T), NEW places, DOMAIN seq \subseteq places
  PROVE  Selected(seq, places) = seq
<1> DEFINE n == Len(seq)
           out == Selected(seq, places)
<1>1. n \in Nat /\ DOMAIN seq = 1..n /\ places \cap DOMAIN seq = 1..n
  OBVIOUS
<1>2. n \in 0..Len(seq)
  BY <1>1
<1>3. out \in Seq(T)
  BY SelectedIs
<1> HIDE DEF n
<1>4. Len(out) = n /\ \A i \in 1..n : out[i] = seq[i]
  BY <1>1, <1>2, SelectedFirst
<1> HIDE DEF out
<1>5. out = seq
  BY <1>1, <1>3, <1>4 DEF n
<1> QED BY <1>5 DEF out

-----------------------------------------------------------------------------
(* What repair_chain leaves alone: a chain in which no call and no result  *)
(* comes twice, every result has its call, and no message is empty.        *)
Twice(a, b) == a.kind # "text" /\ b.kind # "text" /\ SameCall(a, b)

Distinct(msgs) ==
  \A i, j \in DOMAIN msgs : \A p \in DOMAIN msgs[i].content, q \in DOMAIN msgs[j].content :
    Twice(msgs[i].content[p], msgs[j].content[q]) => i = j /\ p = q

Clean(msgs) ==
  /\ \A i \in DOMAIN msgs : msgs[i].content # <<>>
  /\ Distinct(msgs)
  /\ AllResultIds(msgs) \subseteq AllUseIds(msgs)

(* The calls and results of a chain, by their places.                      *)
LEMMA IdsAreAt ==
  ASSUME NEW msgs
  PROVE  /\ \A id : id \in AllUseIds(msgs) <=>
              \E i \in DOMAIN msgs : \E p \in DOMAIN msgs[i].content :
                IsUse(msgs[i].content[p]) /\ id = msgs[i].content[p].id
         /\ \A id : id \in AllResultIds(msgs) <=>
              \E i \in DOMAIN msgs : \E p \in DOMAIN msgs[i].content :
                IsResult(msgs[i].content[p]) /\ id = msgs[i].content[p].id
         /\ \A b : b \in Blocks(msgs) <=>
              \E i \in DOMAIN msgs : \E p \in DOMAIN msgs[i].content : b = msgs[i].content[p]
<1>1. \A seq, x : x \in ToSet(seq) <=> \E i \in DOMAIN seq : x = seq[i]
  BY DEF ToSet
<1>2. \A m, id : id \in UseIds(m) <=> \E b \in ToSet(m.content) : IsUse(b) /\ id = b.id
  BY DEF UseIds
<1>3. \A m, id : id \in ResultIds(m) <=> \E b \in ToSet(m.content) : IsResult(b) /\ id = b.id
  BY DEF ResultIds
<1>4. \A id : id \in AllUseIds(msgs) <=> \E m \in ToSet(msgs) : id \in UseIds(m)
  BY DEF AllUseIds
<1>5. \A id : id \in AllResultIds(msgs) <=> \E m \in ToSet(msgs) : id \in ResultIds(m)
  BY DEF AllResultIds
<1>6. \A b : b \in Blocks(msgs) <=> \E m \in ToSet(msgs) : b \in ToSet(m.content)
  BY DEF Blocks
<1>7. \A id : id \in AllUseIds(msgs) <=>
              \E i \in DOMAIN msgs : \E p \in DOMAIN msgs[i].content :
                IsUse(msgs[i].content[p]) /\ id = msgs[i].content[p].id
  <2> SUFFICES ASSUME NEW id
               PROVE  id \in AllUseIds(msgs) <=>
                        \E i \in DOMAIN msgs : \E p \in DOMAIN msgs[i].content :
                          IsUse(msgs[i].content[p]) /\ id = msgs[i].content[p].id
    OBVIOUS
  <2>1. \A i \in DOMAIN msgs : id \in UseIds(msgs[i]) <=>
          \E p \in DOMAIN msgs[i].content : IsUse(msgs[i].content[p]) /\ id = msgs[i].content[p].id
    BY <1>1, <1>2
  <2> QED BY <1>1, <1>4, <2>1
<1>8. \A id : id \in AllResultIds(msgs) <=>
              \E i \in DOMAIN msgs : \E p \in DOMAIN msgs[i].content :
                IsResult(msgs[i].content[p]) /\ id = msgs[i].content[p].id
  <2> SUFFICES ASSUME NEW id
               PROVE  id \in AllResultIds(msgs) <=>
                        \E i \in DOMAIN msgs : \E p \in DOMAIN msgs[i].content :
                          IsResult(msgs[i].content[p]) /\ id = msgs[i].content[p].id
    OBVIOUS
  <2>1. \A i \in DOMAIN msgs : id \in ResultIds(msgs[i]) <=>
          \E p \in DOMAIN msgs[i].content : IsResult(msgs[i].content[p]) /\ id = msgs[i].content[p].id
    BY <1>1, <1>3
  <2> QED BY <1>1, <1>5, <2>1
<1>9. \A b : b \in Blocks(msgs) <=>
              \E i \in DOMAIN msgs : \E p \in DOMAIN msgs[i].content : b = msgs[i].content[p]
  BY <1>1, <1>6
<1> QED BY <1>7, <1>8, <1>9

LEMMA ChainIs ==
  ASSUME NEW F, NEW I, NEW H, NEW msgs \in Chains(F, I, H)
  PROVE  /\ Len(msgs) \in Nat /\ DOMAIN msgs = 1..Len(msgs)
         /\ \A i \in DOMAIN msgs :
              /\ msgs[i] \in Messages(F, I, H) /\ msgs[i].content \in Seq(BlocksOf(F, I, H))
              /\ msgs[i] = Message(msgs[i].role, msgs[i].content)
              /\ \A p \in DOMAIN msgs[i].content : msgs[i].content[p] \in BlocksOf(F, I, H)
<1>1. Len(msgs) \in Nat /\ DOMAIN msgs = 1..Len(msgs) /\ \A i \in DOMAIN msgs : msgs[i] \in Messages(F, I, H)
  BY DEF Chains
<1>2. \A m \in Messages(F, I, H) : /\ m.content \in Seq(BlocksOf(F, I, H)) /\ m = Message(m.role, m.content)
  BY DEF Messages, Message
<1>3. \A s \in Seq(BlocksOf(F, I, H)) : \A p \in DOMAIN s : s[p] \in BlocksOf(F, I, H)
  OBVIOUS
<1> QED BY <1>1, <1>2, <1>3

LEMMA KindsAre ==
  ASSUME NEW F, NEW I, NEW H, NEW b \in BlocksOf(F, I, H)
  PROVE  /\ b.kind \in {"text", "use", "result", "placeholder"}
         /\ b.kind # "text" => IsUse(b) \/ IsResult(b)
         /\ ~(IsUse(b) /\ IsResult(b))
         /\ b.kind # "text" => b.id \in I \cup H
BY DEF BlocksOf, TextBlocks, IdBlocks, IsUse, IsResult

LEMMA CleanIsKept ==
  ASSUME NEW F, NEW I, NEW H, NEW msgs \in Chains(F, I, H), Clean(msgs)
  PROVE  DropInvalidBlocks(msgs) = msgs
<1>1. \A i \in DOMAIN msgs : \A p \in DOMAIN msgs[i].content : Keeps(msgs, i, p)
  <2> SUFFICES ASSUME NEW i \in DOMAIN msgs, NEW p \in DOMAIN msgs[i].content,
                      msgs[i].content[p].kind # "text"
               PROVE  /\ ~SeenBefore(msgs, i, p)
                      /\ IsResult(msgs[i].content[p]) => msgs[i].content[p].id \in AllUseIds(msgs)
    BY DEF Keeps
  <2>1. IsResult(msgs[i].content[p]) => msgs[i].content[p].id \in AllUseIds(msgs)
    BY IdsAreAt DEF Clean
  <2>2. ASSUME SeenBefore(msgs, i, p) PROVE FALSE
    <3>1. PICK j \in 1..i : \E q \in DOMAIN msgs[j].content :
                 /\ j < i \/ q < p
                 /\ msgs[j].content[q].kind # "text"
                 /\ SameCall(msgs[j].content[q], msgs[i].content[p])
      BY <2>2 DEF SeenBefore
    <3>2. PICK q \in DOMAIN msgs[j].content :
                 /\ j < i \/ q < p
                 /\ msgs[j].content[q].kind # "text"
                 /\ SameCall(msgs[j].content[q], msgs[i].content[p])
      BY <3>1
    <3>3. i \in Nat /\ j \in DOMAIN msgs /\ j \in Nat
      BY ChainIs
    <3>4. p \in Nat /\ q \in Nat
      <4>1. msgs[i].content \in Seq(BlocksOf(F, I, H)) /\ msgs[j].content \in Seq(BlocksOf(F, I, H))
        BY <3>3, ChainIs
      <4>2. \A s \in Seq(BlocksOf(F, I, H)) : DOMAIN s \subseteq Nat
        OBVIOUS
      <4> QED BY <4>1, <4>2
    <3>5. j = i /\ q = p
      BY <3>2, <3>3 DEF Clean, Distinct, Twice
    <3> QED BY <3>2, <3>3, <3>4, <3>5
  <2> QED BY <2>1, <2>2
<1> DEFINE kept(i) == Message(msgs[i].role, KeptBlocks(msgs, i))
           all == [i \in DOMAIN msgs |-> kept(i)]
<1>2. \A i \in DOMAIN msgs : kept(i) = msgs[i]
  <2> SUFFICES ASSUME NEW i \in DOMAIN msgs PROVE kept(i) = msgs[i]
    OBVIOUS
  <2> DEFINE places == {p \in DOMAIN msgs[i].content : Keeps(msgs, i, p)}
  <2>1. msgs[i].content \in Seq(BlocksOf(F, I, H)) /\ DOMAIN msgs[i].content \subseteq places
    BY <1>1, ChainIs
  <2>2. KeptBlocks(msgs, i) = Selected(msgs[i].content, places)
    BY DEF KeptBlocks
  <2> HIDE DEF places
  <2>3. KeptBlocks(msgs, i) = msgs[i].content
    BY <2>1, <2>2, SelectedAll
  <2> QED BY <2>3, ChainIs
<1>3. all = msgs
  <2> HIDE DEF kept
  <2>1. all = [i \in DOMAIN msgs |-> msgs[i]]
    BY <1>2
  <2>2. msgs = [i \in DOMAIN msgs |-> msgs[i]]
    BY ChainIs DEF Chains
  <2> QED BY <2>1, <2>2
<1>4. DropInvalidBlocks(msgs) = WithoutEmpty(all)
  BY DEF DropInvalidBlocks
<1> HIDE DEF all
<1> DEFINE filled == {i \in DOMAIN msgs : msgs[i].content # <<>>}
<1>5. WithoutEmpty(msgs) = Selected(msgs, filled) /\ DOMAIN msgs \subseteq filled
  BY DEF WithoutEmpty, Clean
<1> HIDE DEF filled
<1>6. Selected(msgs, filled) = msgs
  BY <1>5, SelectedAll DEF Chains
<1> QED BY <1>3, <1>4, <1>5, <1>6

(* Every block left stood at a place of its own, which is kept.            *)
LEMMA DropPlaces ==
  ASSUME NEW F, NEW I, NEW H, NEW msgs \in Chains(F, I, H)
  PROVE  \E h \in [DOMAIN DropInvalidBlocks(msgs) -> DOMAIN msgs] :
           /\ \A k, l \in DOMAIN DropInvalidBlocks(msgs) : h[k] = h[l] => k = l
           /\ \A k \in DOMAIN DropInvalidBlocks(msgs) :
                /\ DropInvalidBlocks(msgs)[k] = Message(msgs[h[k]].role, KeptBlocks(msgs, h[k]))
                /\ DropInvalidBlocks(msgs)[k].content # <<>>
           /\ \A i \in DOMAIN msgs : KeptBlocks(msgs, i) # <<>> =>
                \E k \in DOMAIN DropInvalidBlocks(msgs) :
                  DropInvalidBlocks(msgs)[k] = Message(msgs[i].role, KeptBlocks(msgs, i))
<1> DEFINE kept(i) == Message(msgs[i].role, KeptBlocks(msgs, i))
           all == [i \in DOMAIN msgs |-> kept(i)]
           filled == {i \in DOMAIN all : all[i].content # <<>>}
           T == {kept(i) : i \in DOMAIN msgs}
           out == DropInvalidBlocks(msgs)
<1>1. Len(msgs) \in Nat /\ DOMAIN msgs = 1..Len(msgs)
  BY ChainIs
<1>2. all \in Seq(T) /\ DOMAIN all = DOMAIN msgs /\ \A i \in DOMAIN all : all[i] = kept(i)
  <2> HIDE DEF kept
  <2>1. \A i \in 1..Len(msgs) : kept(i) \in T
    BY <1>1
  <2>2. all \in [1..Len(msgs) -> T]
    BY <1>1, <2>1
  <2> HIDE DEF T
  <2> QED BY <1>1, <2>2
<1>3. out = Selected(all, filled)
  BY DEF DropInvalidBlocks, WithoutEmpty
<1> HIDE DEF out, all, T
<1>4. filled \subseteq DOMAIN msgs /\ \A i \in filled : all[i].content # <<>>
  BY <1>2
<1> HIDE DEF filled
<1>5. PICK h \in [DOMAIN out -> filled \cap DOMAIN all] :
        /\ \A p, q \in DOMAIN out : h[p] = h[q] => p = q
        /\ \A q \in DOMAIN out : out[q] = all[h[q]]
  BY <1>2, <1>3, SelectedOnce
<1>6. h \in [DOMAIN out -> DOMAIN msgs]
  BY <1>2, <1>5
<1>7. \A k \in DOMAIN out : out[k] = kept(h[k]) /\ out[k].content # <<>>
  <2> HIDE DEF kept
  <2> QED BY <1>2, <1>4, <1>5
<1>8. ASSUME NEW i \in DOMAIN msgs, KeptBlocks(msgs, i) # <<>> PROVE \E k \in DOMAIN out : out[k] = kept(i)
  <2>1. i \in filled \cap DOMAIN all
    BY <1>2, <1>8 DEF filled, Message
  <2>2. \E k \in DOMAIN out : out[k] = all[i]
    <3> HIDE DEF kept
    <3> QED BY <1>2, <1>3, <2>1, SelectedIs
  <2> QED BY <1>2, <2>1, <2>2
<1> QED BY <1>5, <1>6, <1>7, <1>8 DEF out

LEMMA KeptAre ==
  ASSUME NEW F, NEW I, NEW H, NEW msgs \in Chains(F, I, H), NEW i \in DOMAIN msgs
  PROVE  /\ \E g \in [DOMAIN KeptBlocks(msgs, i) -> DOMAIN msgs[i].content] :
              /\ \A p, q \in DOMAIN KeptBlocks(msgs, i) : g[p] = g[q] => p = q
              /\ \A q \in DOMAIN KeptBlocks(msgs, i) :
                   KeptBlocks(msgs, i)[q] = msgs[i].content[g[q]] /\ Keeps(msgs, i, g[q])
         /\ \A p \in DOMAIN msgs[i].content : Keeps(msgs, i, p) =>
              \E q \in DOMAIN KeptBlocks(msgs, i) : KeptBlocks(msgs, i)[q] = msgs[i].content[p]
<1> DEFINE seq == msgs[i].content
           places == {p \in DOMAIN seq : Keeps(msgs, i, p)}
           out == KeptBlocks(msgs, i)
<1>1. seq \in Seq(BlocksOf(F, I, H))
  BY ChainIs
<1>2. out = Selected(seq, places)
  BY DEF KeptBlocks
<1>3. /\ \A p \in places : p \in DOMAIN seq /\ Keeps(msgs, i, p)
      /\ \A p \in DOMAIN seq : Keeps(msgs, i, p) => p \in places
  OBVIOUS
<1> HIDE DEF out, places, seq
<1>4. PICK g \in [DOMAIN out -> places \cap DOMAIN seq] :
        /\ \A p, q \in DOMAIN out : g[p] = g[q] => p = q
        /\ \A q \in DOMAIN out : out[q] = seq[g[q]]
  BY <1>1, <1>2, SelectedOnce
<1>5. \A p \in DOMAIN seq : Keeps(msgs, i, p) => \E q \in DOMAIN out : out[q] = seq[p]
  BY <1>1, <1>2, <1>3, SelectedIs
<1>6. g \in [DOMAIN out -> DOMAIN seq] /\ \A q \in DOMAIN out : Keeps(msgs, i, g[q])
  BY <1>3, <1>4
<1> QED BY <1>4, <1>5, <1>6 DEF out, seq

-----------------------------------------------------------------------------
LEMMA LeastIs ==
  ASSUME NEW numbers \in SUBSET Nat, numbers # {}
  PROVE  \E x \in numbers : \A y \in numbers : ~(y < x)
<1>1. PICK R : /\ IsWellFoundedOn(R, Nat)
               /\ \A m, n \in Nat : m < n => <<m, n>> \in R
  BY NaturalOrder
<1>2. IsWellFoundedOn(R, Nat) /\ numbers \subseteq Nat
  BY <1>1
<1> HIDE <1>1
<1>3. \E x \in numbers : \A y \in numbers : ~ (<<y, x>> \in R)
  BY <1>2, WFMin
<1> QED BY <1>1, <1>3

(* The first call with an id is kept.                                      *)
LEMMA FirstCallIsKept ==
  ASSUME NEW F, NEW I, NEW H, NEW msgs \in Chains(F, I, H), NEW id \in AllUseIds(msgs)
  PROVE  \E i \in DOMAIN msgs : \E p \in DOMAIN msgs[i].content :
           IsUse(msgs[i].content[p]) /\ msgs[i].content[p].id = id /\ Keeps(msgs, i, p)
<1> DEFINE Calls(i) == {p \in DOMAIN msgs[i].content :
                          IsUse(msgs[i].content[p]) /\ msgs[i].content[p].id = id}
           S == {i \in DOMAIN msgs : Calls(i) # {}}
<1>1. S # {}
  BY IdsAreAt
<1>2. S \subseteq Nat
  BY ChainIs
<1> HIDE DEF S
<1>3. PICK i \in S : \A j \in S : ~(j < i)
  BY <1>1, <1>2, LeastIs
<1>4. i \in DOMAIN msgs /\ Calls(i) # {}
  BY <1>3 DEF S
<1>5. Calls(i) \subseteq Nat
  <2>1. \A s \in Seq(BlocksOf(F, I, H)) : DOMAIN s \subseteq Nat
    OBVIOUS
  <2> QED BY <1>4, <2>1, ChainIs
<1>6. PICK p \in Calls(i) : \A q \in Calls(i) : ~(q < p)
  <2> HIDE DEF Calls
  <2> QED BY <1>4, <1>5, LeastIs
<1>7. ASSUME SeenBefore(msgs, i, p) PROVE FALSE
  <2>1. PICK j \in 1..i : \E q \in DOMAIN msgs[j].content :
               /\ j < i \/ q < p
               /\ msgs[j].content[q].kind # "text"
               /\ SameCall(msgs[j].content[q], msgs[i].content[p])
    BY <1>7 DEF SeenBefore
  <2>2. PICK q \in DOMAIN msgs[j].content :
               /\ j < i \/ q < p
               /\ SameCall(msgs[j].content[q], msgs[i].content[p])
    BY <2>1
  <2>3. q \in Calls(j)
    BY <1>6, <2>2 DEF SameCall
  <2>4. j \in DOMAIN msgs /\ j \in S
    BY <1>2, <1>4, <2>3, ChainIs DEF S
  <2>5. j = i
    BY <1>2, <1>3, <2>4
  <2> QED BY <1>6, <2>2, <2>3, <2>5, <1>3, <1>2
<1>8. Keeps(msgs, i, p)
  BY <1>6, <1>7 DEF Keeps, IsUse, IsResult
<1> QED BY <1>4, <1>6, <1>8

(* What the first pass leaves, it would leave again.                       *)
LEMMA DropIsClean ==
  ASSUME NEW F, NEW I, NEW H, NEW msgs \in Chains(F, I, H)
  PROVE  Clean(DropInvalidBlocks(msgs))
<1> DEFINE out == DropInvalidBlocks(msgs)
<1>1. PICK h \in [DOMAIN out -> DOMAIN msgs] :
        /\ \A k, l \in DOMAIN out : h[k] = h[l] => k = l
        /\ \A k \in DOMAIN out : out[k] = Message(msgs[h[k]].role, KeptBlocks(msgs, h[k])) /\ out[k].content # <<>>
        /\ \A i \in DOMAIN msgs : KeptBlocks(msgs, i) # <<>> =>
             \E k \in DOMAIN out : out[k] = Message(msgs[i].role, KeptBlocks(msgs, i))
  BY DropPlaces
<1>2. \A k \in DOMAIN out : out[k].content = KeptBlocks(msgs, h[k])
  BY <1>1 DEF Message
<1> HIDE DEF out
<1>3. ASSUME NEW i \in DOMAIN msgs, NEW j \in DOMAIN msgs,
             NEW p \in DOMAIN msgs[i].content, NEW q \in DOMAIN msgs[j].content,
             Keeps(msgs, i, p), Keeps(msgs, j, q), Twice(msgs[i].content[p], msgs[j].content[q])
      PROVE  i = j /\ p = q
  <2>1. i \in Nat /\ j \in Nat /\ i > 0 /\ j > 0 /\ p \in Nat /\ q \in Nat
    <3>1. \A s \in Seq(BlocksOf(F, I, H)) : DOMAIN s \subseteq Nat
      OBVIOUS
    <3>2. Len(msgs) \in Nat /\ i \in 1..Len(msgs) /\ j \in 1..Len(msgs)
      BY ChainIs
    <3> QED BY <3>1, <3>2, ChainIs
  <2>2. ~SeenBefore(msgs, i, p) /\ ~SeenBefore(msgs, j, q)
    BY <1>3 DEF Keeps, Twice
  <2>3. SameCall(msgs[i].content[p], msgs[j].content[q]) /\ SameCall(msgs[j].content[q], msgs[i].content[p])
    BY <1>3 DEF Twice, SameCall
  <2>4. ~(i < j) /\ ~(j < i) /\ ~(i = j /\ p < q) /\ ~(i = j /\ q < p)
    BY <1>3, <2>1, <2>2, <2>3 DEF SeenBefore, Twice
  <2> QED BY <2>1, <2>4
<1>4. ASSUME NEW k \in DOMAIN out, NEW l \in DOMAIN out,
             NEW p \in DOMAIN out[k].content, NEW q \in DOMAIN out[l].content,
             Twice(out[k].content[p], out[l].content[q])
      PROVE  k = l /\ p = q
  <2>1. PICK g \in [DOMAIN KeptBlocks(msgs, h[k]) -> DOMAIN msgs[h[k]].content] :
               /\ \A x, y \in DOMAIN KeptBlocks(msgs, h[k]) : g[x] = g[y] => x = y
               /\ \A x \in DOMAIN KeptBlocks(msgs, h[k]) :
                    KeptBlocks(msgs, h[k])[x] = msgs[h[k]].content[g[x]] /\ Keeps(msgs, h[k], g[x])
    BY <1>1, KeptAre
  <2>2. PICK f \in [DOMAIN KeptBlocks(msgs, h[l]) -> DOMAIN msgs[h[l]].content] :
               /\ \A x, y \in DOMAIN KeptBlocks(msgs, h[l]) : f[x] = f[y] => x = y
               /\ \A x \in DOMAIN KeptBlocks(msgs, h[l]) :
                    KeptBlocks(msgs, h[l])[x] = msgs[h[l]].content[f[x]] /\ Keeps(msgs, h[l], f[x])
    BY <1>1, KeptAre
  <2>3. p \in DOMAIN KeptBlocks(msgs, h[k]) /\ q \in DOMAIN KeptBlocks(msgs, h[l])
    BY <1>2
  <2>4. h[k] = h[l]
    BY <1>1, <1>2, <1>3, <1>4, <2>1, <2>2, <2>3
  <2>5. k = l
    BY <1>1, <2>4
  <2>6. Twice(msgs[h[k]].content[g[p]], msgs[h[k]].content[g[q]])
    BY <1>2, <1>4, <2>1, <2>3, <2>5
  <2>7. g[p] = g[q]
    BY <1>1, <1>3, <2>1, <2>3, <2>5, <2>6
  <2> QED BY <2>1, <2>3, <2>5, <2>7
<1>5. Distinct(out)
  BY <1>4 DEF Distinct
<1>6. ASSUME NEW id \in AllResultIds(out) PROVE id \in AllUseIds(out)
  <2>1. PICK k \in DOMAIN out : \E p \in DOMAIN out[k].content :
               IsResult(out[k].content[p]) /\ id = out[k].content[p].id
    BY <1>6, IdsAreAt
  <2>2. PICK p \in DOMAIN KeptBlocks(msgs, h[k]) :
               IsResult(KeptBlocks(msgs, h[k])[p]) /\ id = KeptBlocks(msgs, h[k])[p].id
    BY <1>2, <2>1
  <2>3. PICK x \in DOMAIN msgs[h[k]].content :
               KeptBlocks(msgs, h[k])[p] = msgs[h[k]].content[x] /\ Keeps(msgs, h[k], x)
    BY <1>1, <2>2, KeptAre
  <2>4. id \in AllUseIds(msgs)
    BY <2>2, <2>3 DEF Keeps, IsResult
  <2>5. PICK i \in DOMAIN msgs : \E y \in DOMAIN msgs[i].content :
           IsUse(msgs[i].content[y]) /\ msgs[i].content[y].id = id /\ Keeps(msgs, i, y)
    BY <2>4, FirstCallIsKept
  <2>6. PICK y \in DOMAIN KeptBlocks(msgs, i) : IsUse(KeptBlocks(msgs, i)[y]) /\ KeptBlocks(msgs, i)[y].id = id
    BY <2>5, KeptAre
  <2>7. KeptBlocks(msgs, i) # <<>>
    BY <2>6
  <2>8. PICK l \in DOMAIN out : out[l].content = KeptBlocks(msgs, i)
    BY <1>1, <2>7 DEF Message
  <2> QED BY <2>6, <2>8, IdsAreAt
<1> QED BY <1>1, <1>5, <1>6 DEF Clean, out

-----------------------------------------------------------------------------
(* A message appended: every block stays at its place, and the new ones    *)
(* stand, in their order, at the end of the last message.                  *)
Grown(msgs, msg, c, n, base) ==
  /\ n \in DOMAIN c /\ n = Len(c) /\ c[n].role = msg.role
  /\ \A i \in DOMAIN msgs : /\ i \in DOMAIN c /\ c[i].role = msgs[i].role
                            /\ \A p \in DOMAIN msgs[i].content :
                                 p \in DOMAIN c[i].content /\ c[i].content[p] = msgs[i].content[p]
  /\ \A p \in DOMAIN msg.content :
       base + p \in DOMAIN c[n].content /\ c[n].content[base + p] = msg.content[p]
  /\ \A i \in DOMAIN c : \A p \in DOMAIN c[i].content :
       \/ i \in DOMAIN msgs /\ p \in DOMAIN msgs[i].content
       \/ i = n /\ p - base \in DOMAIN msg.content /\ c[i].content[p] = msg.content[p - base]
  /\ \A i \in DOMAIN c : i \in DOMAIN msgs \/ i = n
  /\ n = Len(msgs) \/ n = Len(msgs) + 1

LEMMA AppendGrows ==
  ASSUME NEW F, NEW I, NEW H, NEW msgs \in Chains(F, I, H), NEW msg \in Messages(F, I, H)
  PROVE  \E n, base \in Nat : Grown(msgs, msg, AppendMessage(msgs, msg), n, base)
<1> DEFINE c == AppendMessage(msgs, msg)
           B == BlocksOf(F, I, H)
<1>1. /\ Len(msgs) \in Nat /\ DOMAIN msgs = 1..Len(msgs)
      /\ \A i \in DOMAIN msgs : msgs[i].content \in Seq(B) /\ msgs[i] \in Messages(F, I, H)
  BY ChainIs
<1>2. msg.content \in Seq(B)
  BY DEF Messages
<1>3. CASE msgs # <<>> /\ Last(msgs).role = msg.role
  <2> DEFINE n == Len(msgs)
             old == msgs[n].content
             m == [msgs[n] EXCEPT !.content = @ \o msg.content]
  <2>1. n \in DOMAIN msgs /\ msgs[n].role = msg.role /\ n \in Nat
    <3>1. n # 0
      BY <1>1, <1>3 DEF Chains
    <3> QED BY <1>1, <1>3, <3>1 DEF Last
  <2>2. c = [msgs EXCEPT ![n] = m]
    BY <1>3 DEF AppendMessage
  <2>3. m.role = msg.role /\ m.content = old \o msg.content
    BY <1>1, <2>1 DEF Messages
  <2>4. old \in Seq(B) /\ Len(old) \in Nat /\ DOMAIN old = 1..Len(old)
    <3>1. old \in Seq(B)
      BY <1>1, <2>1
    <3> HIDE DEF old
    <3> QED BY <3>1
  <2> DEFINE new == old \o msg.content
  <2>5. /\ DOMAIN new = 1..Len(old) + Len(msg.content)
        /\ Len(msg.content) \in Nat /\ DOMAIN msg.content = 1..Len(msg.content)
        /\ \A p \in DOMAIN old : new[p] = old[p]
        /\ \A p \in DOMAIN msg.content : new[Len(old) + p] = msg.content[p]
    <3> HIDE DEF old
    <3> QED BY <1>2, <2>4
  <2>6. /\ DOMAIN c = DOMAIN msgs /\ Len(c) = n
        /\ \A i \in DOMAIN msgs : i # n => c[i] = msgs[i]
        /\ c[n] = m
    <3> HIDE DEF m
    <3> QED BY <1>1, <2>1, <2>2 DEF Chains
  <2> HIDE DEF c, m, new, n
  <2>7. c[n].content = new /\ c[n].role = msg.role
    BY <2>3, <2>6 DEF new
  <2> HIDE DEF old
  <2>8. \A p \in DOMAIN old : p \in DOMAIN new
    BY <2>4, <2>5
  <2>9. \A p \in DOMAIN msg.content : Len(old) + p \in DOMAIN new /\ new[Len(old) + p] = msg.content[p]
    BY <2>4, <2>5
  <2>10. \A p \in DOMAIN new : p \in DOMAIN old
            \/ (p - Len(old) \in DOMAIN msg.content /\ new[p] = msg.content[p - Len(old)])
    <3> SUFFICES ASSUME NEW p \in DOMAIN new, p \notin DOMAIN old
                 PROVE  p - Len(old) \in DOMAIN msg.content /\ new[p] = msg.content[p - Len(old)]
      OBVIOUS
    <3>1. p - Len(old) \in DOMAIN msg.content /\ Len(old) + (p - Len(old)) = p
      BY <2>4, <2>5
    <3> QED BY <2>5, <3>1
  <2>11. \A i \in DOMAIN msgs : /\ c[i].role = msgs[i].role
                                /\ \A p \in DOMAIN msgs[i].content :
                                     p \in DOMAIN c[i].content /\ c[i].content[p] = msgs[i].content[p]
    BY <2>1, <2>5, <2>6, <2>7, <2>8 DEF old
  <2>12. \A i \in DOMAIN c : \A p \in DOMAIN c[i].content :
           \/ i \in DOMAIN msgs /\ p \in DOMAIN msgs[i].content
           \/ i = n /\ p - Len(old) \in DOMAIN msg.content /\ c[i].content[p] = msg.content[p - Len(old)]
    BY <2>1, <2>6, <2>7, <2>10 DEF old
  <2>13. Grown(msgs, msg, c, n, Len(old))
    BY <2>1, <2>6, <2>7, <2>9, <2>11, <2>12 DEF Grown, n
  <2> QED BY <2>1, <2>4, <2>13 DEF c
<1>4. CASE ~(msgs # <<>> /\ Last(msgs).role = msg.role)
  <2> DEFINE n == Len(msgs) + 1
  <2>1. c = Append(msgs, msg)
    BY <1>4 DEF AppendMessage
  <2> HIDE DEF c
  <2>2. /\ DOMAIN c = 1..n /\ Len(c) = n /\ c[n] = msg
        /\ \A i \in DOMAIN msgs : c[i] = msgs[i]
    <3>1. msgs \in Seq(Messages(F, I, H))
      BY DEF Chains
    <3>2. Len(c) = n /\ c \in Seq(Messages(F, I, H)) /\ c[n] = msg /\ \A i \in 1..Len(msgs) : c[i] = msgs[i]
      BY <2>1, <3>1, AppendProperties
    <3> QED BY <1>1, <3>2
  <2>3. n \in Nat /\ n \in DOMAIN c /\ \A i \in DOMAIN c : i \in DOMAIN msgs \/ i = n
    BY <1>1, <2>2
  <2>4. \A i \in DOMAIN msgs : i \in DOMAIN c
    BY <1>1, <2>2
  <2>5. \A p \in DOMAIN msg.content : p \in Int /\ 0 + p = p /\ p - 0 = p
    BY <1>2
  <2> HIDE DEF n
  <2>6. Grown(msgs, msg, c, n, 0)
    <3>1. \A p \in DOMAIN msg.content : 0 + p \in DOMAIN c[n].content /\ c[n].content[0 + p] = msg.content[p]
      BY <2>2, <2>5
    <3>2. \A i \in DOMAIN c : \A p \in DOMAIN c[i].content :
            \/ i \in DOMAIN msgs /\ p \in DOMAIN msgs[i].content
            \/ i = n /\ p - 0 \in DOMAIN msg.content /\ c[i].content[p] = msg.content[p - 0]
      BY <2>2, <2>3, <2>5
    <3> QED BY <2>2, <2>3, <2>4, <3>1, <3>2 DEF Grown, n
  <2> QED BY <2>3, <2>6 DEF c
<1> QED BY <1>3, <1>4

LEMMA AppendIds ==
  ASSUME NEW F, NEW I, NEW H, NEW msgs \in Chains(F, I, H), NEW msg \in Messages(F, I, H)
  PROVE  /\ AllUseIds(AppendMessage(msgs, msg)) = AllUseIds(msgs) \cup UseIds(msg)
         /\ AllResultIds(AppendMessage(msgs, msg)) = AllResultIds(msgs) \cup ResultIds(msg)
         /\ Blocks(AppendMessage(msgs, msg)) = Blocks(msgs) \cup ToSet(msg.content)
<1> DEFINE c == AppendMessage(msgs, msg)
<1>1. PICK n, base \in Nat : Grown(msgs, msg, c, n, base)
  BY AppendGrows
<1> HIDE DEF c
<1>2. Blocks(c) = Blocks(msgs) \cup ToSet(msg.content)
  <2>1. ASSUME NEW b \in Blocks(c) PROVE b \in Blocks(msgs) \cup ToSet(msg.content)
    <3>1. PICK i \in DOMAIN c : \E p \in DOMAIN c[i].content : b = c[i].content[p]
      BY <2>1, IdsAreAt
    <3>2. PICK p \in DOMAIN c[i].content : b = c[i].content[p]
      BY <3>1
    <3>3. CASE i \in DOMAIN msgs /\ p \in DOMAIN msgs[i].content
      BY <1>1, <3>2, <3>3, IdsAreAt DEF Grown
    <3>4. CASE i = n /\ p - base \in DOMAIN msg.content /\ c[i].content[p] = msg.content[p - base]
      BY <3>2, <3>4 DEF ToSet
    <3> QED BY <1>1, <3>3, <3>4 DEF Grown
  <2>2. ASSUME NEW b \in Blocks(msgs) PROVE b \in Blocks(c)
    BY <1>1, <2>2, IdsAreAt DEF Grown
  <2>3. ASSUME NEW b \in ToSet(msg.content) PROVE b \in Blocks(c)
    BY <1>1, <2>3, IdsAreAt DEF Grown, ToSet
  <2> QED BY <2>1, <2>2, <2>3
<1>3. \A m : /\ AllUseIds(m) = {b.id : b \in {x \in Blocks(m) : IsUse(x)}}
             /\ AllResultIds(m) = {b.id : b \in {x \in Blocks(m) : IsResult(x)}}
  BY DEF AllUseIds, AllResultIds, Blocks, UseIds, ResultIds
<1>4. AllUseIds(c) = AllUseIds(msgs) \cup UseIds(msg)
  BY <1>2, <1>3 DEF UseIds
<1>5. AllResultIds(c) = AllResultIds(msgs) \cup ResultIds(msg)
  BY <1>2, <1>3 DEF ResultIds
<1> QED BY <1>2, <1>4, <1>5 DEF c

(* What may be appended to a clean chain.                                  *)
Appendable(msgs, msg) ==
  /\ msg.content # <<>>
  /\ \A p, q \in DOMAIN msg.content : Twice(msg.content[p], msg.content[q]) => p = q
  /\ UseIds(msg) \cap AllUseIds(msgs) = {}
  /\ ResultIds(msg) \cap AllResultIds(msgs) = {}
  /\ ResultIds(msg) \subseteq AllUseIds(msgs) \cup UseIds(msg)

LEMMA AppendIsClean ==
  ASSUME NEW F, NEW I, NEW H, NEW msgs \in Chains(F, I, H), NEW msg \in Messages(F, I, H),
         Clean(msgs), Appendable(msgs, msg)
  PROVE  Clean(AppendMessage(msgs, msg))
<1> DEFINE c == AppendMessage(msgs, msg)
<1>1. PICK n, base \in Nat : Grown(msgs, msg, c, n, base)
  BY AppendGrows
<1>2. c \in Chains(F, I, H)
  BY AppendIs
<1> HIDE DEF c
<1>3. AllResultIds(c) \subseteq AllUseIds(c)
  BY AppendIds DEF Clean, Appendable, c
<1>4. ASSUME NEW i \in DOMAIN c PROVE c[i].content # <<>>
  <2>1. CASE i \in DOMAIN msgs
    <3>1. \A s \in Seq(BlocksOf(F, I, H)) : s # <<>> <=> 1 \in DOMAIN s
      OBVIOUS
    <3>2. 1 \in DOMAIN msgs[i].content
      BY <2>1, <3>1, ChainIs DEF Clean
    <3>3. 1 \in DOMAIN c[i].content
      BY <1>1, <2>1, <3>2 DEF Grown
    <3> QED BY <3>3
  <2>2. CASE i = n
    <3>1. \A s \in Seq(BlocksOf(F, I, H)) : s # <<>> <=> 1 \in DOMAIN s
      OBVIOUS
    <3>2. 1 \in DOMAIN msg.content
      BY <3>1 DEF Appendable, Messages
    <3>3. base + 1 \in DOMAIN c[i].content
      BY <1>1, <2>2, <3>2 DEF Grown
    <3> QED BY <3>3
  <2> QED BY <1>1, <2>1, <2>2 DEF Grown
<1>5. \A i \in DOMAIN msgs : \A p \in DOMAIN msgs[i].content, q \in DOMAIN msg.content :
        ~Twice(msgs[i].content[p], msg.content[q]) /\ ~Twice(msg.content[q], msgs[i].content[p])
  <2> SUFFICES ASSUME NEW i \in DOMAIN msgs, NEW p \in DOMAIN msgs[i].content, NEW q \in DOMAIN msg.content,
                      Twice(msgs[i].content[p], msg.content[q]) \/ Twice(msg.content[q], msgs[i].content[p])
               PROVE  FALSE
    OBVIOUS
  <2> DEFINE a == msgs[i].content[p]
             b == msg.content[q]
  <2>1. a.kind # "text" /\ b.kind # "text" /\ a.id = b.id /\ (IsUse(a) <=> IsUse(b))
    BY DEF Twice, SameCall
  <2>2. a \in BlocksOf(F, I, H) /\ b \in BlocksOf(F, I, H)
    <3>1. \A s \in Seq(BlocksOf(F, I, H)) : \A x \in DOMAIN s : s[x] \in BlocksOf(F, I, H)
      OBVIOUS
    <3> QED BY <3>1, ChainIs DEF Messages
  <2>3. CASE IsUse(a)
    <3>1. a.id \in AllUseIds(msgs)
      BY <2>3, IdsAreAt
    <3>2. b.id \in UseIds(msg)
      BY <2>1, <2>3 DEF UseIds, ToSet
    <3> QED BY <2>1, <3>1, <3>2 DEF Appendable
  <2>4. CASE IsResult(a) /\ IsResult(b)
    <3>1. a.id \in AllResultIds(msgs)
      BY <2>4, IdsAreAt
    <3>2. b.id \in ResultIds(msg)
      BY <2>4 DEF ResultIds, ToSet
    <3> QED BY <2>1, <3>1, <3>2 DEF Appendable
  <2> QED BY <2>1, <2>2, <2>3, <2>4, KindsAre
<1>6. Distinct(c)
  <2> SUFFICES ASSUME NEW i \in DOMAIN c, NEW j \in DOMAIN c,
                      NEW p \in DOMAIN c[i].content, NEW q \in DOMAIN c[j].content,
                      Twice(c[i].content[p], c[j].content[q])
               PROVE  i = j /\ p = q
    BY DEF Distinct
  <2> DEFINE Old(k, x) == k \in DOMAIN msgs /\ x \in DOMAIN msgs[k].content
             New(k, x) == k = n /\ x - base \in DOMAIN msg.content /\ c[k].content[x] = msg.content[x - base]
  <2>1. (Old(i, p) \/ New(i, p)) /\ (Old(j, q) \/ New(j, q))
    BY <1>1 DEF Grown
  <2>2. \A k, x : Old(k, x) => c[k].content[x] = msgs[k].content[x]
    BY <1>1 DEF Grown
  <2>3. CASE Old(i, p) /\ Old(j, q)
    <3>1. Twice(msgs[i].content[p], msgs[j].content[q])
      BY <2>2, <2>3
    <3> QED BY <2>3, <3>1 DEF Clean, Distinct
  <2>4. CASE New(i, p) /\ New(j, q)
    <3>1. p - base = q - base
      BY <2>4 DEF Appendable
    <3>2. p \in Int /\ q \in Int
      <4>1. \A s \in Seq(BlocksOf(F, I, H)) : DOMAIN s \subseteq Int
        OBVIOUS
      <4> QED BY <1>2, <4>1, ChainIs
    <3> QED BY <2>4, <3>1, <3>2
  <2>5. CASE Old(i, p) /\ New(j, q)
    BY <1>5, <2>2, <2>5
  <2>6. CASE New(i, p) /\ Old(j, q)
    BY <1>5, <2>2, <2>6
  <2> QED BY <2>1, <2>3, <2>4, <2>5, <2>6
<1> QED BY <1>3, <1>4, <1>6 DEF Clean, c

-----------------------------------------------------------------------------
LEMMA NumbersSelected ==
  ASSUME NEW numbers \in Seq(Nat), NEW places
  PROVE  \A i \in places \cap DOMAIN numbers :
           \E k \in DOMAIN Selected(numbers, places) : Selected(numbers, places)[k] = numbers[i]
BY SelectedIs, SMTT(30)

(* One placeholder for every call left open.                               *)
LEMMA PlaceholdersOnce ==
  ASSUME NEW n \in Nat, NEW ids \in SUBSET (1..n), ids # {}
  PROVE  /\ \A k, l \in DOMAIN Placeholders(ids) : Placeholders(ids)[k].id = Placeholders(ids)[l].id => k = l
         /\ \A id \in ids : \E k \in DOMAIN Placeholders(ids) : Placeholders(ids)[k] = PlaceholderBlock(id)
<1> DEFINE numbers == [id \in 1..Max(ids) |-> id]
           order == Selected(numbers, ids)
<1>1. Max(ids) \in Nat /\ ids \subseteq 1..Max(ids)
  <2>1. Max(ids) \in ids
    BY MaxIs
  <2>2. \A x \in ids : x \in Nat \ {0}
    OBVIOUS
  <2>3. \A x \in ids : Max(ids) >= x
    BY MaxIs
  <2> HIDE DEF numbers, order
  <2>4. Max(ids) \in Nat
    BY <2>1, <2>2
  <2> DEFINE top == Max(ids)
  <2> HIDE DEF top
  <2>5. ASSUME NEW x \in ids PROVE x \in 1..top
    BY <2>2, <2>3, <2>4 DEF top
  <2> QED BY <2>4, <2>5 DEF top
<1>2. numbers \in Seq(Nat) /\ DOMAIN numbers = 1..Max(ids) /\ \A i \in DOMAIN numbers : numbers[i] = i
  BY <1>1
<1>3. Placeholders(ids) = [k \in DOMAIN order |-> PlaceholderBlock(order[k])]
  BY DEF Placeholders
<1> HIDE DEF numbers, order
<1>4. \A k, l \in DOMAIN order : order[k] = order[l] => k = l
  <2>1. PICK g \in [DOMAIN order -> ids \cap DOMAIN numbers] :
           /\ \A p, q \in DOMAIN order : g[p] = g[q] => p = q
           /\ \A q \in DOMAIN order : order[q] = numbers[g[q]]
    BY <1>2, SelectedOnce DEF order
  <2> QED BY <1>2, <2>1
<1>5. \A id \in ids : \E k \in DOMAIN order : order[k] = id
  <2>1. \A i \in ids \cap DOMAIN numbers : \E k \in DOMAIN order : order[k] = numbers[i]
    <3>1. numbers \in Seq(Nat)
      BY <1>2
    <3> QED BY <3>1, NumbersSelected, SMTT(30) DEF order
  <2>2. \A id \in ids : id \in ids \cap DOMAIN numbers /\ numbers[id] = id
    BY <1>1, <1>2
  <2> QED BY <2>1, <2>2
<1> QED BY <1>3, <1>4, <1>5 DEF PlaceholderBlock

LEMMA PlaceholdersFit ==
  ASSUME NEW F, NEW n \in Nat, NEW I \in SUBSET (1..n), NEW msgs \in Chains(F, I, I), Unanswered(msgs) # {}
  PROVE  LET msg == UserMessage(Placeholders(Unanswered(msgs)))
         IN  /\ msg \in Messages(F, I, I) /\ Appendable(msgs, msg)
             /\ UseIds(msg) = {} /\ ResultIds(msg) = Unanswered(msgs)
<1> DEFINE ids == Unanswered(msgs)
           blocks == Placeholders(ids)
           msg == UserMessage(blocks)
<1>1. ids \subseteq I /\ ids \subseteq AllUseIds(msgs) /\ ids \cap AllResultIds(msgs) = {}
  BY UnansweredAre DEF Unanswered
<1>2. ids \in SUBSET (1..n) /\ ids # {}
  BY <1>1
<1> HIDE DEF ids
<1>3. /\ blocks \in Seq(IdBlocks({"placeholder"}, ids))
      /\ \A k, l \in DOMAIN blocks : blocks[k].id = blocks[l].id => k = l
      /\ \A id \in ids : \E k \in DOMAIN blocks : blocks[k] = PlaceholderBlock(id)
  BY <1>2, PlaceholdersAre, PlaceholdersOnce
<1> HIDE DEF blocks
<1>4. msg.content = blocks /\ msg.role = "user"
  BY DEF UserMessage, Message
<1>5. \A k \in DOMAIN blocks : blocks[k] \in IdBlocks({"placeholder"}, ids)
  BY <1>3
<1>6. \A k \in DOMAIN blocks : blocks[k].id \in ids /\ ~IsUse(blocks[k]) /\ IsResult(blocks[k])
  BY <1>5 DEF IdBlocks, IsUse, IsResult
<1>7. UseIds(msg) = {}
  BY <1>4, <1>6 DEF UseIds, ToSet
<1>8. ResultIds(msg) = ids
  <2>1. ASSUME NEW id \in ids PROVE id \in ResultIds(msg)
    <3>1. PICK k \in DOMAIN blocks : blocks[k] = PlaceholderBlock(id)
      BY <1>3
    <3> QED BY <1>4, <3>1 DEF ResultIds, ToSet, PlaceholderBlock, IsResult
  <2>2. ASSUME NEW id \in ResultIds(msg) PROVE id \in ids
    BY <1>4, <1>6 DEF ResultIds, ToSet
  <2> QED BY <2>1, <2>2
<1>9. msg \in Messages(F, I, I)
  <2>1. IdBlocks({"placeholder"}, ids) \subseteq BlocksOf(F, I, I)
    BY <1>1 DEF IdBlocks, BlocksOf
  <2>2. blocks \in Seq(BlocksOf(F, I, I))
    BY <1>3, <2>1, SeqGrows
  <2> QED BY <2>2 DEF UserMessage, Message, Messages
<1>10. Appendable(msgs, msg)
  <2>1. blocks # <<>>
    <3>1. \E k : k \in DOMAIN blocks
      BY <1>2, <1>3
    <3>2. ~ \E k : k \in DOMAIN <<>>
      OBVIOUS
    <3> QED BY <3>1, <3>2
  <2>2. \A p, q \in DOMAIN blocks : Twice(blocks[p], blocks[q]) => p = q
    BY <1>3 DEF Twice, SameCall
  <2> QED BY <1>1, <1>4, <1>7, <1>8, <2>1, <2>2 DEF Appendable
<1> QED BY <1>7, <1>8, <1>9, <1>10 DEF ids, blocks

(* repair_chain leaves a clean chain in which no call is open, and changes *)
(* a clean one only by the placeholders.                                   *)
LEMMA RepairIsClean ==
  ASSUME NEW F, NEW n \in Nat, NEW I \in SUBSET (1..n), NEW msgs \in Chains(F, I, I)
  PROVE  Clean(RepairChain(msgs)) /\ Unanswered(RepairChain(msgs)) = {}
<1> DEFINE repaired == DropInvalidBlocks(msgs)
           missing == Unanswered(repaired)
           msg == UserMessage(Placeholders(missing))
<1>1. repaired \in Chains(F, I, I) /\ Clean(repaired)
  BY DropIs, DropIsClean
<1>2. CASE missing = {}
  BY <1>1, <1>2 DEF RepairChain
<1>3. CASE missing # {}
  <2>1. RepairChain(msgs) = AppendMessage(repaired, msg)
    BY <1>3 DEF RepairChain
  <2>2. msg \in Messages(F, I, I) /\ Appendable(repaired, msg) /\ UseIds(msg) = {} /\ ResultIds(msg) = missing
    BY <1>1, <1>3, PlaceholdersFit
  <2> HIDE DEF msg, repaired
  <2>3. Clean(AppendMessage(repaired, msg))
    BY <1>1, <2>2, AppendIsClean
  <2>4. /\ AllUseIds(AppendMessage(repaired, msg)) = AllUseIds(repaired) \cup UseIds(msg)
        /\ AllResultIds(AppendMessage(repaired, msg)) = AllResultIds(repaired) \cup ResultIds(msg)
    <3>1. repaired \in Chains(F, I, I) /\ msg \in Messages(F, I, I)
      BY <1>1, <2>2
    <3> QED BY <3>1, AppendIds
  <2>5. Unanswered(AppendMessage(repaired, msg)) = {}
    BY <2>2, <2>4 DEF Unanswered
  <2> QED BY <2>1, <2>3, <2>5
<1> QED BY <1>2, <1>3

(* Repairing twice is repairing once.                                      *)
THEOREM RepairTwice ==
  ASSUME NEW F, NEW n \in Nat, NEW I \in SUBSET (1..n), NEW msgs \in Chains(F, I, I)
  PROVE  RepairChain(RepairChain(msgs)) = RepairChain(msgs)
<1> DEFINE once == RepairChain(msgs)
<1>1. once \in Chains(F, I, I) /\ Clean(once) /\ Unanswered(once) = {}
  BY RepairIs, RepairIsClean
<1> HIDE DEF once
<1>2. DropInvalidBlocks(once) = once
  BY <1>1, CleanIsKept
<1>3. RepairChain(once) = once
  BY <1>1, <1>2 DEF RepairChain
<1> QED BY <1>3 DEF once

LEMMA Joined ==
  ASSUME NEW T, NEW s \in Seq(T), NEW t \in Seq(T)
  PROVE  /\ s \o t \in Seq(T)
         /\ \A p : p \in DOMAIN t => Len(s) + p \in DOMAIN (s \o t)
         /\ \A p : p \in DOMAIN t => (s \o t)[Len(s) + p] = t[p]
         /\ \A p \in DOMAIN s : p \in DOMAIN (s \o t) /\ (s \o t)[p] = s[p]
         /\ \A p \in DOMAIN (s \o t) :
              \/ p \in DOMAIN s /\ (s \o t)[p] = s[p]
              \/ p - Len(s) \in DOMAIN t /\ (s \o t)[p] = t[p - Len(s)] /\ p \in Int
         /\ Len(s) \in Nat
<1> DEFINE j == s \o t
<1>1. /\ Len(s) \in Nat /\ Len(t) \in Nat /\ DOMAIN s = 1..Len(s) /\ DOMAIN t = 1..Len(t)
      /\ j \in Seq(T) /\ DOMAIN j = 1..Len(s) + Len(t)
      /\ \A p \in DOMAIN s : j[p] = s[p]
      /\ \A p \in DOMAIN t : j[Len(s) + p] = t[p]
  OBVIOUS
<1> HIDE DEF j
<1>2. \A p \in DOMAIN j : p \notin DOMAIN s =>
         p - Len(s) \in DOMAIN t /\ j[p] = t[p - Len(s)] /\ p \in Int
  <2> SUFFICES ASSUME NEW p \in DOMAIN j, p \notin DOMAIN s
               PROVE  p - Len(s) \in DOMAIN t /\ j[p] = t[p - Len(s)] /\ p \in Int
    OBVIOUS
  <2>1. p - Len(s) \in DOMAIN t /\ Len(s) + (p - Len(s)) = p /\ p \in Int
    BY <1>1
  <2> QED BY <1>1, <2>1
<1>3. \A p \in DOMAIN s : p \in DOMAIN j
  BY <1>1
<1>4. \A p \in DOMAIN t : Len(s) + p \in DOMAIN j
  BY <1>1
<1> QED BY <1>1, <1>2, <1>3, <1>4 DEF j

Follows(s, t) ==
  /\ Len(s \o t) = Len(s) + Len(t) /\ DOMAIN (s \o t) = 1..(Len(s) + Len(t))
  /\ \A p \in DOMAIN s : (s \o t)[p] = s[p]
  /\ \A p \in DOMAIN t : Len(s) + p \in DOMAIN (s \o t) /\ (s \o t)[Len(s) + p] = t[p]
  /\ \A p \in DOMAIN (s \o t) :
       p \in DOMAIN s \/ (p - Len(s) \in DOMAIN t /\ (s \o t)[p] = t[p - Len(s)])

LEMMA JoinedAfter == ASSUME NEW T, NEW s \in Seq(T), NEW t \in Seq(T) PROVE Follows(s, t)
<1>1. Len(s \o t) = Len(s) + Len(t) /\ DOMAIN (s \o t) = 1..(Len(s) + Len(t))
  OBVIOUS
<1> QED BY <1>1, Joined DEF Follows

(* What an appended message changes, in terms of roles and ids.            *)
Joins(msgs, msg, c) ==
  /\ msgs # <<>> /\ msgs[Len(msgs)].role = msg.role
  /\ Len(c) = Len(msgs) /\ DOMAIN c = DOMAIN msgs
  /\ \A i \in DOMAIN msgs : i # Len(msgs) => c[i] = msgs[i]
  /\ c[Len(msgs)].role = msg.role
  /\ c[Len(msgs)].content = msgs[Len(msgs)].content \o msg.content
  /\ UseIds(c[Len(msgs)]) = UseIds(msgs[Len(msgs)]) \cup UseIds(msg)
  /\ ResultIds(c[Len(msgs)]) = ResultIds(msgs[Len(msgs)]) \cup ResultIds(msg)

Adds(msgs, msg, c) ==
  /\ msgs # <<>> => msgs[Len(msgs)].role # msg.role
  /\ Len(c) = Len(msgs) + 1 /\ DOMAIN c = 1..(Len(msgs) + 1)
  /\ \A i \in DOMAIN msgs : c[i] = msgs[i]
  /\ c[Len(msgs) + 1] = msg

LEMMA JoinsOrAdds ==
  ASSUME NEW F, NEW I, NEW H, NEW msgs \in Chains(F, I, H), NEW msg \in Messages(F, I, H)
  PROVE  Joins(msgs, msg, AppendMessage(msgs, msg)) \/ Adds(msgs, msg, AppendMessage(msgs, msg))
<1> DEFINE c == AppendMessage(msgs, msg)
           n == Len(msgs)
<1>1. n \in Nat /\ DOMAIN msgs = 1..n /\ (msgs # <<>> => n \in DOMAIN msgs /\ Last(msgs) = msgs[n])
  BY DEF Chains, Last
<1>2. CASE msgs # <<>> /\ msgs[n].role = msg.role
  <2> DEFINE m == [msgs[n] EXCEPT !.content = @ \o msg.content]
             old == msgs[n].content
             new == old \o msg.content
  <2>1. c = [msgs EXCEPT ![n] = m]
    BY <1>1, <1>2 DEF AppendMessage
  <2>2. msgs[n] \in Messages(F, I, H) /\ old \in Seq(BlocksOf(F, I, H)) /\ msg.content \in Seq(BlocksOf(F, I, H))
    BY <1>1, <1>2, ChainIs DEF Messages
  <2>3. m.role = msg.role /\ m.content = new
    BY <1>2, <2>2 DEF Messages
  <2> HIDE DEF m, n, c
  <2>4. Len(c) = n /\ DOMAIN c = DOMAIN msgs /\ c[n] = m /\ \A i \in DOMAIN msgs : i # n => c[i] = msgs[i]
    BY <1>1, <1>2, <2>1 DEF Chains, n
  <2> HIDE DEF old
  <2>5. ToSet(new) = ToSet(old) \cup ToSet(msg.content)
    <3>1. Follows(old, msg.content)
      BY <2>2, JoinedAfter
    <3> DEFINE t == msg.content
    <3>2. /\ \A p \in DOMAIN old : p \in DOMAIN new /\ new[p] = old[p]
          /\ \A p \in DOMAIN t : Len(old) + p \in DOMAIN new /\ new[Len(old) + p] = t[p]
          /\ \A p \in DOMAIN new : p \in DOMAIN old \/ (p - Len(old) \in DOMAIN t /\ new[p] = t[p - Len(old)])
      BY <2>2, <3>1, Joined DEF Follows
    <3> HIDE DEF new, t
    <3>3. ASSUME NEW b \in ToSet(new) PROVE b \in ToSet(old) \cup ToSet(t)
      <4>1. PICK p \in DOMAIN new : b = new[p]
        BY <3>3 DEF ToSet
      <4> QED BY <3>2, <4>1 DEF ToSet
    <3>4. ASSUME NEW b \in ToSet(old) PROVE b \in ToSet(new)
      BY <3>2, <3>4 DEF ToSet
    <3>5. ASSUME NEW b \in ToSet(t) PROVE b \in ToSet(new)
      BY <3>2, <3>5 DEF ToSet
    <3> QED BY <3>3, <3>4, <3>5 DEF t
  <2> HIDE DEF new
  <2>6. /\ UseIds(m) = UseIds(msgs[n]) \cup UseIds(msg)
        /\ ResultIds(m) = ResultIds(msgs[n]) \cup ResultIds(msg)
    BY <2>3, <2>5 DEF UseIds, ResultIds, old
  <2> QED BY <1>2, <2>3, <2>4, <2>6 DEF Joins, c, n, new, old
<1>3. CASE ~(msgs # <<>> /\ msgs[n].role = msg.role)
  <2>1. c = Append(msgs, msg)
    BY <1>1, <1>3 DEF AppendMessage
  <2>2. msgs \in Seq(Messages(F, I, H))
    BY DEF Chains
  <2> HIDE DEF c
  <2>3. c \in Seq(Messages(F, I, H)) /\ Len(c) = n + 1 /\ c[n + 1] = msg /\ \A i \in 1..n : c[i] = msgs[i]
    BY <2>1, <2>2, AppendProperties
  <2>4. DOMAIN c = 1..(n + 1)
    BY <1>1, <2>3
  <2> QED BY <1>1, <1>3, <2>3, <2>4 DEF Adds, c
<1> QED BY <1>2, <1>3

LEMMA AnsweredBy ==
  ASSUME NEW msgs
  PROVE  /\ \A id : id \in AllUseIds(msgs) <=> \E i \in DOMAIN msgs : id \in UseIds(msgs[i])
         /\ \A id : id \in AllResultIds(msgs) <=> \E i \in DOMAIN msgs : id \in ResultIds(msgs[i])
BY DEF AllUseIds, AllResultIds, ToSet

-----------------------------------------------------------------------------
(* The shape of a chain that no crash has cut: every call but those of the *)
(* last message that makes any is answered in the message after it, and    *)
(* those may be, some of them.                                             *)
UsesBefore(msgs, i) == IF i = 1 THEN {} ELSE UseIds(msgs[i - 1])

Shaped(msgs) ==
  /\ Alternating(msgs)
  /\ \A i \in DOMAIN msgs :
       /\ msgs[i].role = "user" => UseIds(msgs[i]) = {}
       /\ msgs[i].role = "assistant" => ResultIds(msgs[i]) = {}
       /\ ResultIds(msgs[i]) \subseteq UsesBefore(msgs, i)
       /\ i + 1 < Len(msgs) => ResultIds(msgs[i + 1]) = UseIds(msgs[i])

EndsWithUser(msgs) == msgs # <<>> /\ msgs[Len(msgs)].role = "user"

(* Open calls are in the last message that can make any.                   *)
LEMMA OpenAtEnd ==
  ASSUME NEW F, NEW I, NEW H, NEW msgs \in Chains(F, I, H), Shaped(msgs), NEW id \in Unanswered(msgs)
  PROVE  \E i \in DOMAIN msgs : id \in UseIds(msgs[i]) /\ (i = Len(msgs) \/ i + 1 = Len(msgs))
                                /\ msgs[i].role = "assistant"
<1>1. PICK i \in DOMAIN msgs : id \in UseIds(msgs[i])
  BY AnsweredBy DEF Unanswered
<1>2. Len(msgs) \in Nat /\ DOMAIN msgs = 1..Len(msgs) /\ msgs[i].role \in {"user", "assistant"}
  BY ChainIs DEF Messages
<1>3. ~(i + 1 < Len(msgs))
  <2> SUFFICES ASSUME i + 1 < Len(msgs) PROVE FALSE
    OBVIOUS
  <2>1. id \in ResultIds(msgs[i + 1]) /\ i + 1 \in DOMAIN msgs
    BY <1>1, <1>2 DEF Shaped
  <2> QED BY <2>1, AnsweredBy DEF Unanswered
<1>4. i = Len(msgs) \/ i + 1 = Len(msgs)
  BY <1>2, <1>3
<1>5. msgs[i].role = "assistant"
  BY <1>1, <1>2 DEF Shaped
<1> QED BY <1>1, <1>4, <1>5

(* What the user and the tools say goes to the end of the chain.           *)
LEMMA UserAdded ==
  ASSUME NEW F, NEW I, NEW H, NEW msgs \in Chains(F, I, H), NEW msg \in Messages(F, I, H), Shaped(msgs),
         msg.role = "user", UseIds(msg) = {}, ResultIds(msg) \subseteq Unanswered(msgs)
  PROVE  Shaped(AppendMessage(msgs, msg)) /\ EndsWithUser(AppendMessage(msgs, msg))
<1> DEFINE c == AppendMessage(msgs, msg)
           n == Len(msgs)
<1>1. Joins(msgs, msg, c) \/ Adds(msgs, msg, c)
  BY JoinsOrAdds
<1>2. c \in Chains(F, I, H)
  BY AppendIs
<1> HIDE DEF c
<1>3. /\ n \in Nat /\ DOMAIN msgs = 1..n /\ (msgs # <<>> <=> n \in DOMAIN msgs) /\ (msgs = <<>> <=> n = 0)
      /\ \A i \in DOMAIN msgs : msgs[i].role \in {"user", "assistant"}
  <2>1. \A i \in DOMAIN msgs : msgs[i].role \in {"user", "assistant"}
    BY ChainIs DEF Messages
  <2>2. n \in Nat /\ DOMAIN msgs = 1..n /\ (msgs = <<>> <=> n = 0)
    BY DEF Chains
  <2> HIDE DEF n
  <2> QED BY <2>1, <2>2
<1>4. \A i \in 1..(n - 1) : i \in DOMAIN msgs /\ i + 1 \in DOMAIN msgs /\ msgs[i].role # msgs[i + 1].role
  BY <1>3 DEF Shaped, Alternating
<1>5. CASE Joins(msgs, msg, c)
  <2>1. /\ n \in DOMAIN msgs /\ msgs[n].role = "user" /\ Len(c) = n /\ DOMAIN c = DOMAIN msgs
        /\ \A i \in DOMAIN msgs : c[i].role = msgs[i].role
        /\ \A i \in DOMAIN msgs : UseIds(c[i]) = UseIds(msgs[i])
        /\ \A i \in DOMAIN msgs : i # n => ResultIds(c[i]) = ResultIds(msgs[i])
        /\ ResultIds(c[n]) = ResultIds(msgs[n]) \cup ResultIds(msg)
    BY <1>3, <1>5 DEF Joins
  <2>2. Unanswered(msgs) \subseteq UsesBefore(msgs, n)
    <3> SUFFICES ASSUME NEW id \in Unanswered(msgs) PROVE id \in UsesBefore(msgs, n)
      OBVIOUS
    <3>1. PICK i \in DOMAIN msgs : id \in UseIds(msgs[i]) /\ (i = n \/ i + 1 = n) /\ msgs[i].role = "assistant"
      BY OpenAtEnd
    <3>2. i + 1 = n /\ i = n - 1 /\ n # 1
      BY <1>3, <2>1, <3>1
    <3> QED BY <3>1, <3>2 DEF UsesBefore
  <2> HIDE DEF n
  <2>3. \A i \in DOMAIN msgs : UsesBefore(c, i) = UsesBefore(msgs, i)
    <3> SUFFICES ASSUME NEW i \in DOMAIN msgs, i # 1 PROVE UseIds(c[i - 1]) = UseIds(msgs[i - 1])
      BY DEF UsesBefore
    <3>1. i - 1 \in DOMAIN msgs
      BY <1>3
    <3> QED BY <2>1, <3>1
  <2>4. Alternating(c)
    BY <1>4, <2>1 DEF Alternating
  <2>5. ASSUME NEW i \in DOMAIN c
        PROVE  /\ c[i].role = "user" => UseIds(c[i]) = {}
               /\ c[i].role = "assistant" => ResultIds(c[i]) = {}
               /\ ResultIds(c[i]) \subseteq UsesBefore(c, i)
    BY <2>1, <2>2, <2>3 DEF Shaped
  <2>6. ASSUME NEW i \in DOMAIN c, i + 1 < Len(c) PROVE ResultIds(c[i + 1]) = UseIds(c[i])
    <3>1. i + 1 \in DOMAIN msgs /\ i + 1 # n
      BY <1>3, <2>1, <2>6
    <3>2. ResultIds(msgs[i + 1]) = UseIds(msgs[i])
      BY <2>1, <2>6 DEF Shaped, n
    <3> QED BY <2>1, <3>1, <3>2
  <2>7. Shaped(c)
    BY <2>4, <2>5, <2>6 DEF Shaped
  <2>8. EndsWithUser(c)
    <3>1. c # <<>>
      BY <1>3, <2>1
    <3> QED BY <2>1, <3>1 DEF EndsWithUser
  <2> QED BY <2>7, <2>8 DEF c
<1>6. CASE Adds(msgs, msg, c)
  <2>1. /\ Len(c) = n + 1 /\ DOMAIN c = 1..(n + 1) /\ \A i \in DOMAIN msgs : c[i] = msgs[i]
        /\ c[n + 1] = msg /\ (n \in DOMAIN msgs => msgs[n].role = "assistant")
    BY <1>3, <1>6 DEF Adds
  <2>2. Unanswered(msgs) \subseteq UsesBefore(c, n + 1)
    <3> SUFFICES ASSUME NEW id \in Unanswered(msgs) PROVE id \in UsesBefore(c, n + 1)
      OBVIOUS
    <3>1. PICK i \in DOMAIN msgs : id \in UseIds(msgs[i]) /\ (i = n \/ i + 1 = n) /\ msgs[i].role = "assistant"
      BY OpenAtEnd
    <3>2. i = n
      <4>1. i + 1 # n
        BY <1>3, <1>4, <2>1, <3>1, SMTT(30)
      <4> QED BY <3>1, <4>1
    <3>3. (n + 1) - 1 = n /\ n + 1 # 1
      BY <1>3, <3>2
    <3> QED BY <2>1, <3>1, <3>2, <3>3 DEF UsesBefore
  <2> HIDE DEF n
  <2>3. \A i \in DOMAIN c : i \in DOMAIN msgs \/ i = n + 1
    BY <1>3, <2>1
  <2>4. \A i \in DOMAIN msgs : UsesBefore(c, i) = UsesBefore(msgs, i)
    <3> SUFFICES ASSUME NEW i \in DOMAIN msgs, i # 1 PROVE UseIds(c[i - 1]) = UseIds(msgs[i - 1])
      BY DEF UsesBefore
    <3>1. i - 1 \in DOMAIN msgs
      BY <1>3
    <3> QED BY <2>1, <3>1
  <2>5. Alternating(c)
    <3> SUFFICES ASSUME NEW i \in 1..(Len(c) - 1) PROVE c[i].role # c[i + 1].role
      BY DEF Alternating
    <3>1. i \in DOMAIN msgs /\ (i \in 1..(n - 1) \/ i = n)
      BY <1>3, <2>1
    <3>2. CASE i \in 1..(n - 1)
      BY <1>4, <2>1, <3>2
    <3>3. CASE i = n
      BY <2>1, <3>1, <3>3
    <3> QED BY <3>1, <3>2, <3>3
  <2>6. ASSUME NEW i \in DOMAIN c
        PROVE  /\ c[i].role = "user" => UseIds(c[i]) = {}
               /\ c[i].role = "assistant" => ResultIds(c[i]) = {}
               /\ ResultIds(c[i]) \subseteq UsesBefore(c, i)
    BY <2>1, <2>2, <2>3, <2>4 DEF Shaped
  <2>7. ASSUME NEW i \in DOMAIN c, i + 1 < Len(c) PROVE ResultIds(c[i + 1]) = UseIds(c[i])
    <3>1. i \in DOMAIN msgs /\ i + 1 \in DOMAIN msgs /\ (i + 1 < n \/ i + 1 = n)
      BY <1>3, <2>1, <2>7
    <3>2. CASE i + 1 < n
      BY <2>1, <3>1, <3>2 DEF Shaped, n
    <3>3. CASE i + 1 = n
      <4>1. msgs[i + 1].role = "assistant" /\ i \in 1..(n - 1)
        BY <1>3, <2>1, <3>1, <3>3
      <4>2. msgs[i].role = "user"
        BY <1>3, <1>4, <4>1
      <4> QED BY <2>1, <3>1, <4>1, <4>2 DEF Shaped
    <3> QED BY <3>1, <3>2, <3>3
  <2>8. Shaped(c)
    BY <2>5, <2>6, <2>7 DEF Shaped
  <2>9. EndsWithUser(c)
    <3>1. c # <<>> /\ n + 1 = Len(c)
      BY <1>3, <2>1
    <3> QED BY <2>1, <3>1 DEF EndsWithUser
  <2> QED BY <2>8, <2>9 DEF c
<1> QED BY <1>1, <1>5, <1>6

(* A chain without an open call that ends with the user is a request.      *)
LEMMA ShapedAnswered ==
  ASSUME NEW F, NEW I, NEW H, NEW msgs \in Chains(F, I, H), Shaped(msgs), Clean(msgs),
         EndsWithUser(msgs), Unanswered(msgs) = {}
  PROVE  /\ \A i \in DOMAIN msgs : i < Len(msgs) => ResultIds(msgs[i + 1]) = UseIds(msgs[i])
         /\ RequestOK(msgs)
<1> DEFINE n == Len(msgs)
<1>1. n \in Nat /\ DOMAIN msgs = 1..n /\ n \in DOMAIN msgs /\ msgs[n].role = "user"
  BY DEF EndsWithUser, Chains
<1>2. \A i, j \in DOMAIN msgs : UseIds(msgs[i]) \cap UseIds(msgs[j]) # {} => i = j
  <2> SUFFICES ASSUME NEW i \in DOMAIN msgs, NEW j \in DOMAIN msgs, NEW id, id \in UseIds(msgs[i]), id \in UseIds(msgs[j])
               PROVE  i = j
    OBVIOUS
  <2>1. PICK p \in DOMAIN msgs[i].content : IsUse(msgs[i].content[p]) /\ id = msgs[i].content[p].id
    BY DEF UseIds, ToSet
  <2>2. PICK q \in DOMAIN msgs[j].content : IsUse(msgs[j].content[q]) /\ id = msgs[j].content[q].id
    BY DEF UseIds, ToSet
  <2>3. Twice(msgs[i].content[p], msgs[j].content[q])
    BY <2>1, <2>2 DEF Twice, SameCall, IsUse
  <2> QED BY <2>3 DEF Clean, Distinct
<1> HIDE DEF n
<1>3. ASSUME NEW i \in DOMAIN msgs, i < n PROVE ResultIds(msgs[i + 1]) = UseIds(msgs[i])
  <2>1. i + 1 \in DOMAIN msgs /\ i + 1 # 1 /\ (i + 1) - 1 = i
    BY <1>1, <1>3
  <2>2. ResultIds(msgs[i + 1]) \subseteq UseIds(msgs[i])
    BY <2>1 DEF Shaped, UsesBefore
  <2>3. ASSUME NEW id \in UseIds(msgs[i]) PROVE id \in ResultIds(msgs[i + 1])
    <3>1. id \in AllResultIds(msgs)
      BY <2>3, AnsweredBy DEF Unanswered
    <3>2. PICK j \in DOMAIN msgs : id \in ResultIds(msgs[j])
      BY <3>1, AnsweredBy
    <3>3. id \in UsesBefore(msgs, j)
      BY <3>2 DEF Shaped
    <3>4. j # 1 /\ id \in UseIds(msgs[j - 1])
      BY <3>3 DEF UsesBefore
    <3>5. j - 1 \in DOMAIN msgs
      BY <1>1, <3>4
    <3>6. j - 1 = i
      BY <1>2, <2>3, <3>4, <3>5
    <3>7. j = i + 1
      BY <1>1, <3>6
    <3> QED BY <3>2, <3>7
  <2> QED BY <2>2, <2>3
<1>4. AnsweredNext(msgs)
  <2> SUFFICES ASSUME NEW i \in DOMAIN msgs, UseIds(msgs[i]) # {}
               PROVE  i < Len(msgs) /\ ResultIds(msgs[i + 1]) = UseIds(msgs[i])
    BY DEF AnsweredNext
  <2>1. i # n
    BY <1>1 DEF Shaped
  <2>2. i < n
    BY <1>1, <2>1
  <2> QED BY <1>3, <2>2 DEF n
<1>5. AnswersPrevious(msgs)
  <2> SUFFICES ASSUME NEW i \in DOMAIN msgs, ResultIds(msgs[i]) # {}
               PROVE  i > 1 /\ ResultIds(msgs[i]) = UseIds(msgs[i - 1])
    BY DEF AnswersPrevious
  <2>1. i # 1
    BY DEF Shaped, UsesBefore
  <2>2. i > 1 /\ i - 1 \in DOMAIN msgs /\ i - 1 < n /\ (i - 1) + 1 = i
    BY <1>1, <2>1
  <2>3. ResultIds(msgs[(i - 1) + 1]) = UseIds(msgs[i - 1])
    BY <1>3, <2>2
  <2> QED BY <2>2, <2>3
<1> QED BY <1>3, <1>4, <1>5 DEF RequestOK, Shaped, n

LEMMA AssistantAdded ==
  ASSUME NEW F, NEW I, NEW H, NEW msgs \in Chains(F, I, H), NEW msg \in Messages(F, I, H), Shaped(msgs), Clean(msgs),
         EndsWithUser(msgs), Unanswered(msgs) = {}, msg.role = "assistant", ResultIds(msg) = {}
  PROVE  Shaped(AppendMessage(msgs, msg))
<1> DEFINE c == AppendMessage(msgs, msg)
           n == Len(msgs)
<1>1. n \in Nat /\ DOMAIN msgs = 1..n /\ n \in DOMAIN msgs /\ msgs[n].role = "user"
  BY DEF EndsWithUser, Chains
<1>2. Adds(msgs, msg, c)
  BY <1>1, JoinsOrAdds DEF Joins
<1> HIDE DEF c
<1>3. /\ Len(c) = n + 1 /\ DOMAIN c = 1..(n + 1) /\ \A i \in DOMAIN msgs : c[i] = msgs[i]
      /\ c[n + 1] = msg
  BY <1>2 DEF Adds
<1>4. \A i \in DOMAIN msgs : i < n => ResultIds(msgs[i + 1]) = UseIds(msgs[i])
  BY ShapedAnswered
<1>5. \A i \in 1..(n - 1) : i \in DOMAIN msgs /\ i + 1 \in DOMAIN msgs /\ msgs[i].role # msgs[i + 1].role
  BY <1>1 DEF Shaped, Alternating
<1> HIDE DEF n
<1>6. \A i \in DOMAIN c : i \in DOMAIN msgs \/ i = n + 1
  BY <1>1, <1>3
<1>7. \A i \in DOMAIN msgs : UsesBefore(c, i) = UsesBefore(msgs, i)
  <2> SUFFICES ASSUME NEW i \in DOMAIN msgs, i # 1 PROVE UseIds(c[i - 1]) = UseIds(msgs[i - 1])
    BY DEF UsesBefore
  <2>1. i - 1 \in DOMAIN msgs
    BY <1>1
  <2> QED BY <1>3, <2>1
<1>8. Alternating(c)
  <2> SUFFICES ASSUME NEW i \in 1..(Len(c) - 1) PROVE c[i].role # c[i + 1].role
    BY DEF Alternating
  <2>1. i \in DOMAIN msgs /\ (i \in 1..(n - 1) \/ i = n)
    BY <1>1, <1>3
  <2>2. CASE i \in 1..(n - 1)
    BY <1>3, <1>5, <2>2
  <2>3. CASE i = n
    BY <1>1, <1>3, <2>3
  <2> QED BY <2>1, <2>2, <2>3
<1>9. ASSUME NEW i \in DOMAIN c
      PROVE  /\ c[i].role = "user" => UseIds(c[i]) = {}
             /\ c[i].role = "assistant" => ResultIds(c[i]) = {}
             /\ ResultIds(c[i]) \subseteq UsesBefore(c, i)
  BY <1>3, <1>6, <1>7 DEF Shaped
<1>10. ASSUME NEW i \in DOMAIN c, i + 1 < Len(c) PROVE ResultIds(c[i + 1]) = UseIds(c[i])
  <2>1. i \in DOMAIN msgs /\ i + 1 \in DOMAIN msgs /\ i < n
    BY <1>1, <1>3, <1>10
  <2> QED BY <1>3, <1>4, <2>1
<1>11. Shaped(c)
  BY <1>8, <1>9, <1>10 DEF Shaped
<1> QED BY <1>11 DEF c

-----------------------------------------------------------------------------
(* Where joined sequences lie: one after the other, with nothing between.  *)
Laid(start, seqs, out) ==
  /\ start \in [1..(Len(seqs) + 1) -> Nat]
  /\ \A i \in DOMAIN seqs : start[i + 1] = start[i] + Len(seqs[i])
  /\ \A i \in DOMAIN seqs : \A p \in DOMAIN seqs[i] :
       start[i] + p \in DOMAIN out /\ out[start[i] + p] = seqs[i][p]
  /\ \A q \in DOMAIN out : \E i \in DOMAIN seqs : \E p \in DOMAIN seqs[i] : q = start[i] + p

LEMMA ConcatLaid ==
  ASSUME NEW T, NEW seqs \in Seq(Seq(T))
  PROVE  Concat(seqs) \in Seq(T) /\ \E start : Laid(start, seqs, Concat(seqs))
<1>0. Len(seqs) \in Nat /\ DOMAIN seqs = 1..Len(seqs) /\ \A i \in DOMAIN seqs : seqs[i] \in Seq(T)
  OBVIOUS
<1>1. PICK f : UpTo(f, seqs, Len(seqs)) /\ Concat(seqs) = f[Len(seqs)]
  BY <1>0, ConcatUpTo
<1> DEFINE at(i) == Len(f[i - 1])
           Into(n) == \A i \in 1..n : \A p \in DOMAIN seqs[i] :
                        at(i) + p \in DOMAIN f[n] /\ f[n][at(i) + p] = seqs[i][p]
           From(n) == \A q \in DOMAIN f[n] : \E i \in 1..n : \E p \in DOMAIN seqs[i] : q = at(i) + p
           Good(n) == f[n] \in Seq(T) /\ Into(n) /\ From(n)
           S == {n \in Nat : n <= Len(seqs) => Good(n)}
<1>2. 0 \in S
  <2>1. f[0] = <<>>
    BY <1>0, <1>1, UpToAt
  <2>2. f[0] \in Seq(T) /\ Into(0) /\ From(0)
    BY <2>1
  <2> HIDE DEF Into, From
  <2> QED BY <2>2
<1>3. \A n \in 0..(Len(seqs) - 1) : f[n + 1] = f[n] \o seqs[n + 1]
  <2> SUFFICES ASSUME NEW n \in 0..(Len(seqs) - 1) PROVE f[n + 1] = f[n] \o seqs[n + 1]
    OBVIOUS
  <2>1. n + 1 \in 0..Len(seqs) /\ n + 1 # 0 /\ (n + 1) - 1 = n
    BY <1>0
  <2>2. f[n + 1] = IF n + 1 = 0 THEN <<>> ELSE f[(n + 1) - 1] \o seqs[n + 1]
    BY <1>0, <1>1, <2>1, UpToAt
  <2> QED BY <2>1, <2>2
<1>4. ASSUME NEW n \in S PROVE n + 1 \in S
  <2> SUFFICES ASSUME n + 1 <= Len(seqs) PROVE Good(n + 1)
    OBVIOUS
  <2>1. n \in Nat /\ Good(n) /\ n \in 0..(Len(seqs) - 1) /\ n + 1 \in DOMAIN seqs
    <3>1. n \in Nat /\ Good(n)
      <4> HIDE DEF Good
      <4> QED BY <1>0, <1>4
    <3> QED BY <1>0, <3>1
  <2> DEFINE s == f[n]
             e == seqs[n + 1]
             t == f[n + 1]
  <2>2. s \in Seq(T) /\ e \in Seq(T) /\ t = s \o e /\ at(n + 1) = Len(s)
    <3>1. (n + 1) - 1 = n
      BY <2>1
    <3> QED BY <1>0, <1>3, <2>1, <3>1
  <2>3. \A i \in 1..(n + 1) : i \in 1..n \/ i = n + 1
    BY <2>1
  <2>4. \A i \in 1..n : i \in 1..(n + 1)
    BY <2>1
  <2>5. n + 1 \in 1..(n + 1)
    BY <2>1
  <2>6. Into(n) /\ From(n)
    BY <2>1
  <2> HIDE DEF s, e, t, at, Good, S
  <2>7. Follows(s, e) /\ t \in Seq(T)
    BY <2>2, JoinedAfter, Joined
  <2>8. Into(n + 1)
    <3> SUFFICES ASSUME NEW i \in 1..(n + 1), NEW p \in DOMAIN seqs[i]
                 PROVE  at(i) + p \in DOMAIN t /\ t[at(i) + p] = seqs[i][p]
      BY DEF t
    <3>1. CASE i \in 1..n
      <4>1. at(i) + p \in DOMAIN s /\ s[at(i) + p] = seqs[i][p]
        BY <2>6, <3>1 DEF s
      <4>2. \A x \in DOMAIN s : x \in DOMAIN t /\ t[x] = s[x]
        BY <2>2, Joined
      <4> QED BY <4>1, <4>2
    <3>2. CASE i = n + 1
      <4>1. p \in DOMAIN e /\ seqs[i][p] = e[p]
        BY <3>2 DEF e
      <4> QED BY <2>2, <2>7, <3>2, <4>1 DEF Follows
    <3> QED BY <2>3, <3>1, <3>2
  <2>9. From(n + 1)
    <3> SUFFICES ASSUME NEW q \in DOMAIN t
                 PROVE  \E i \in 1..(n + 1) : \E p \in DOMAIN seqs[i] : q = at(i) + p
      BY DEF t
    <3>1. CASE q \in DOMAIN s
      <4>1. PICK i \in 1..n : \E p \in DOMAIN seqs[i] : q = at(i) + p
        BY <2>6, <3>1 DEF s
      <4> QED BY <2>4, <4>1
    <3>2. CASE q \notin DOMAIN s
      <4>1. q - Len(s) \in DOMAIN e /\ q \in Int /\ Len(s) \in Nat
        BY <2>2, <3>2, Joined
      <4>2. q = at(n + 1) + (q - Len(s))
        BY <2>2, <4>1
      <4> QED BY <2>5, <4>1, <4>2 DEF e
    <3> QED BY <3>1, <3>2
  <2> HIDE DEF Into, From
  <2> QED BY <2>7, <2>8, <2>9 DEF Good, t
<1>5. S = Nat
  <2> HIDE DEF S
  <2> QED BY <1>2, <1>4, Induction DEF S
<1>6. \A n \in 0..Len(seqs) : Good(n)
  <2> SUFFICES ASSUME NEW n \in 0..Len(seqs) PROVE Good(n)
    OBVIOUS
  <2> HIDE DEF Good
  <2>1. n \in Nat /\ n <= Len(seqs)
    BY <1>0
  <2>2. n \in S
    <3> HIDE DEF S
    <3> QED BY <1>5, <2>1
  <2> QED BY <2>1, <2>2
<1> HIDE DEF S
<1> DEFINE start == [i \in 1..(Len(seqs) + 1) |-> at(i)]
<1>7. start \in [1..(Len(seqs) + 1) -> Nat]
  <2> SUFFICES ASSUME NEW i \in 1..(Len(seqs) + 1) PROVE at(i) \in Nat
    OBVIOUS
  <2>1. i - 1 \in 0..Len(seqs)
    BY <1>0
  <2>2. f[i - 1] \in Seq(T)
    BY <1>6, <2>1
  <2> QED BY <2>2
<1>8. \A i \in DOMAIN seqs : start[i + 1] = start[i] + Len(seqs[i])
  <2> SUFFICES ASSUME NEW i \in DOMAIN seqs PROVE start[i + 1] = start[i] + Len(seqs[i])
    OBVIOUS
  <2>1. /\ i \in 1..(Len(seqs) + 1) /\ i + 1 \in 1..(Len(seqs) + 1) /\ (i + 1) - 1 = i /\ (i - 1) + 1 = i
        /\ i - 1 \in 0..(Len(seqs) - 1) /\ i - 1 \in 0..Len(seqs)
    BY <1>0
  <2>2. start[i + 1] = Len(f[i]) /\ start[i] = Len(f[i - 1])
    BY <2>1
  <2>3. f[i] = f[i - 1] \o seqs[i]
    BY <1>3, <2>1
  <2>4. f[i - 1] \in Seq(T) /\ seqs[i] \in Seq(T)
    BY <1>0, <1>6, <2>1
  <2> HIDE DEF start, at, Good
  <2>5. \A a, b \in Seq(T) : Len(a \o b) = Len(a) + Len(b)
    OBVIOUS
  <2> QED BY <2>2, <2>3, <2>4, <2>5
<1>9. \A i \in DOMAIN seqs : start[i] = at(i)
  BY <1>0
<1>10. Good(Len(seqs))
  <2>1. Len(seqs) \in 0..Len(seqs)
    BY <1>0
  <2> HIDE DEF Good
  <2> QED BY <1>6, <2>1
<1>11. f[Len(seqs)] \in Seq(T) /\ Into(Len(seqs)) /\ From(Len(seqs))
  BY <1>10
<1> HIDE DEF start, Good, at
<1>12. Laid(start, seqs, f[Len(seqs)])
  <2> DEFINE out == f[Len(seqs)]
  <2>1. \A i \in DOMAIN seqs : \A p \in DOMAIN seqs[i] :
          start[i] + p \in DOMAIN out /\ out[start[i] + p] = seqs[i][p]
    <3> HIDE DEF out
    <3>1. \A i \in DOMAIN seqs : \A p \in DOMAIN seqs[i] :
            at(i) + p \in DOMAIN out /\ out[at(i) + p] = seqs[i][p]
      BY <1>0, <1>11 DEF out
    <3> QED BY <1>9, <3>1
  <2>2. \A q \in DOMAIN out : \E i \in DOMAIN seqs : \E p \in DOMAIN seqs[i] : q = start[i] + p
    <3> HIDE DEF out
    <3>1. \A q \in DOMAIN out : \E i \in DOMAIN seqs : \E p \in DOMAIN seqs[i] : q = at(i) + p
      BY <1>0, <1>11 DEF out
    <3> QED BY <1>9, <3>1
  <2> HIDE DEF Into, From
  <2> QED BY <1>7, <1>8, <2>1, <2>2 DEF Laid
<1> QED BY <1>1, <1>11, <1>12

-----------------------------------------------------------------------------
(* The repair of a chain some of whose messages repeat a call or a result. *)
UsesApart(msgs) == \A i, j \in DOMAIN msgs : UseIds(msgs[i]) \cap UseIds(msgs[j]) # {} => i = j
Filled(msgs) == \A i \in DOMAIN msgs : msgs[i].content # <<>>
Repairable(msgs) == Shaped(msgs) /\ UsesApart(msgs) /\ Filled(msgs)

(* What a request may be made of.                                          *)
Settled(msgs) == Shaped(msgs) /\ Clean(msgs) /\ Unanswered(msgs) = {} /\ EndsWithUser(msgs)

(* No call and no result is said before in another message.                *)
LEMMA SaidBeforeHere ==
  ASSUME NEW F, NEW I, NEW H, NEW msgs \in Chains(F, I, H), Repairable(msgs),
         NEW i \in DOMAIN msgs, NEW j \in DOMAIN msgs,
         NEW p \in DOMAIN msgs[i].content, NEW q \in DOMAIN msgs[j].content,
         Twice(msgs[j].content[q], msgs[i].content[p])
  PROVE  j = i
<1> DEFINE a == msgs[i].content[p]
           b == msgs[j].content[q]
<1>1. a \in BlocksOf(F, I, H) /\ b \in BlocksOf(F, I, H)
  BY ChainIs
<1>2. a.id = b.id /\ (IsUse(a) <=> IsUse(b)) /\ (IsUse(a) \/ IsResult(a)) /\ (IsUse(b) \/ IsResult(b))
  BY <1>1, KindsAre DEF Twice, SameCall
<1>3. /\ IsUse(a) => a.id \in UseIds(msgs[i])
      /\ IsResult(a) => a.id \in ResultIds(msgs[i])
  BY DEF UseIds, ResultIds, ToSet
<1>4. /\ IsUse(b) => b.id \in UseIds(msgs[j])
      /\ IsResult(b) => b.id \in ResultIds(msgs[j])
  BY DEF UseIds, ResultIds, ToSet
<1> HIDE DEF a, b
<1>5. CASE IsUse(a)
  BY <1>2, <1>3, <1>4, <1>5 DEF Repairable, UsesApart
<1>6. CASE ~IsUse(a)
  <2>1. a.id \in UsesBefore(msgs, i) /\ a.id \in UsesBefore(msgs, j)
    BY <1>2, <1>3, <1>4, <1>6 DEF Repairable, Shaped
  <2>2. i # 1 /\ j # 1 /\ a.id \in UseIds(msgs[i - 1]) /\ a.id \in UseIds(msgs[j - 1])
    BY <2>1 DEF UsesBefore
  <2>3. i - 1 \in DOMAIN msgs /\ j - 1 \in DOMAIN msgs /\ i \in Nat /\ j \in Nat
    BY <2>2, ChainIs
  <2>4. i - 1 = j - 1
    BY <2>2, <2>3 DEF Repairable, UsesApart
  <2> QED BY <2>3, <2>4
<1> QED BY <1>5, <1>6

(* The first block of an id in a message is kept.                          *)
LEMMA FirstHereIsKept ==
  ASSUME NEW F, NEW I, NEW H, NEW msgs \in Chains(F, I, H), Repairable(msgs),
         NEW i \in DOMAIN msgs, NEW x \in DOMAIN msgs[i].content,
         msgs[i].content[x].kind # "text"
  PROVE  \E p \in DOMAIN msgs[i].content :
           /\ msgs[i].content[p].id = msgs[i].content[x].id
           /\ IsUse(msgs[i].content[p]) <=> IsUse(msgs[i].content[x])
           /\ msgs[i].content[p].kind # "text"
           /\ Keeps(msgs, i, p)
<1> DEFINE blocks == msgs[i].content
           S == {p \in DOMAIN blocks : Twice(blocks[p], blocks[x])}
<1>1. blocks \in Seq(BlocksOf(F, I, H)) /\ \A p \in DOMAIN blocks : blocks[p] \in BlocksOf(F, I, H)
  BY ChainIs
<1>2. S \subseteq Nat /\ x \in S
  <2>1. DOMAIN blocks \subseteq Nat
    BY <1>1
  <2> QED BY <2>1 DEF Twice, SameCall
<1> HIDE DEF S
<1>3. PICK p \in S : \A y \in S : ~(y < p)
  BY <1>2, LeastIs
<1>4. p \in DOMAIN blocks /\ Twice(blocks[p], blocks[x])
  BY <1>3 DEF S
<1>5. ~SeenBefore(msgs, i, p)
  <2> SUFFICES ASSUME SeenBefore(msgs, i, p) PROVE FALSE
    OBVIOUS
  <2>1. PICK j \in 1..i : \E q \in DOMAIN msgs[j].content :
               /\ j < i \/ q < p
               /\ msgs[j].content[q].kind # "text"
               /\ SameCall(msgs[j].content[q], blocks[p])
    BY DEF SeenBefore
  <2>2. PICK q \in DOMAIN msgs[j].content :
               /\ j < i \/ q < p
               /\ Twice(msgs[j].content[q], blocks[p])
    BY <1>4, <2>1 DEF Twice
  <2>3. j \in DOMAIN msgs /\ i \in Nat
    BY <2>1, ChainIs
  <2>4. j = i
    BY <1>4, <2>2, <2>3, SaidBeforeHere
  <2>5. q \in S
    BY <1>4, <2>2, <2>4 DEF S, Twice, SameCall
  <2> QED BY <1>2, <1>3, <2>2, <2>3, <2>4, <2>5
<1>6. IsResult(blocks[p]) => blocks[p].id \in AllUseIds(msgs)
  <2> SUFFICES ASSUME IsResult(blocks[p]) PROVE blocks[p].id \in AllUseIds(msgs)
    OBVIOUS
  <2>1. blocks[p].id \in ResultIds(msgs[i])
    BY <1>4 DEF ResultIds, ToSet
  <2>2. blocks[p].id \in UsesBefore(msgs, i)
    BY <2>1 DEF Repairable, Shaped
  <2>3. i # 1 /\ blocks[p].id \in UseIds(msgs[i - 1])
    BY <2>2 DEF UsesBefore
  <2>4. i - 1 \in DOMAIN msgs
    BY <2>3, ChainIs
  <2> QED BY <2>3, <2>4, AnsweredBy
<1>7. Keeps(msgs, i, p)
  BY <1>5, <1>6 DEF Keeps
<1> QED BY <1>4, <1>7 DEF Twice, SameCall

(* The first pass of the repair takes repetitions only.                    *)
LEMMA KeptSays ==
  ASSUME NEW F, NEW I, NEW H, NEW msgs \in Chains(F, I, H), Repairable(msgs), NEW i \in DOMAIN msgs
  PROVE  LET kept == Message(msgs[i].role, KeptBlocks(msgs, i))
         IN  /\ KeptBlocks(msgs, i) # <<>>
             /\ UseIds(kept) = UseIds(msgs[i]) /\ ResultIds(kept) = ResultIds(msgs[i])
<1> DEFINE kept == Message(msgs[i].role, KeptBlocks(msgs, i))
           out == KeptBlocks(msgs, i)
           blocks == msgs[i].content
<1>1. PICK g \in [DOMAIN out -> DOMAIN blocks] :
              /\ \A p, q \in DOMAIN out : g[p] = g[q] => p = q
              /\ \A q \in DOMAIN out : out[q] = blocks[g[q]] /\ Keeps(msgs, i, g[q])
  BY KeptAre
<1>2. \A p \in DOMAIN blocks : Keeps(msgs, i, p) => \E q \in DOMAIN out : out[q] = blocks[p]
  BY KeptAre
<1>3. \A p \in DOMAIN blocks : blocks[p] \in BlocksOf(F, I, H)
  BY ChainIs
<1>4. kept.content = out
  BY DEF Message
<1>5. blocks # <<>> /\ blocks \in Seq(BlocksOf(F, I, H))
  BY ChainIs DEF Repairable, Filled
<1>6. 1 \in DOMAIN blocks
  BY <1>5
<1> HIDE DEF kept, out
<1>7. \E q : q \in DOMAIN out
  <2>1. CASE blocks[1].kind = "text"
    BY <1>2, <1>6, <2>1 DEF Keeps
  <2>2. CASE blocks[1].kind # "text"
    <3>1. \E p \in DOMAIN blocks : Keeps(msgs, i, p)
      BY <1>6, <2>2, FirstHereIsKept
    <3> QED BY <1>2, <3>1
  <2> QED BY <2>1, <2>2
<1>8. \A b \in ToSet(out) : b \in ToSet(blocks)
  BY <1>1 DEF ToSet
<1>9. ASSUME NEW b \in ToSet(blocks), b.kind # "text"
      PROVE  \E c \in ToSet(out) : c.id = b.id /\ (IsUse(c) <=> IsUse(b)) /\ (IsResult(c) <=> IsResult(b))
  <2>1. PICK x \in DOMAIN blocks : b = blocks[x]
    BY DEF ToSet
  <2>2. PICK p \in DOMAIN blocks :
           /\ blocks[p].id = b.id
           /\ IsUse(blocks[p]) <=> IsUse(b)
           /\ blocks[p].kind # "text"
           /\ Keeps(msgs, i, p)
    BY <1>9, <2>1, FirstHereIsKept
  <2>3. PICK q \in DOMAIN out : out[q] = blocks[p]
    BY <1>2, <2>2
  <2>4. IsResult(blocks[p]) <=> IsResult(b)
    BY <1>3, <1>9, <2>1, <2>2, KindsAre
  <2> QED BY <2>2, <2>3, <2>4 DEF ToSet
<1>10. UseIds(kept) = UseIds(msgs[i])
  BY <1>4, <1>8, <1>9 DEF UseIds, IsUse
<1>11. ResultIds(kept) = ResultIds(msgs[i])
  BY <1>4, <1>8, <1>9 DEF ResultIds, IsResult
<1> QED BY <1>7, <1>10, <1>11 DEF out, kept

LEMMA DropSays ==
  ASSUME NEW F, NEW I, NEW H, NEW msgs \in Chains(F, I, H), Repairable(msgs)
  PROVE  LET out == DropInvalidBlocks(msgs)
         IN  /\ Len(out) = Len(msgs) /\ DOMAIN out = DOMAIN msgs
             /\ \A i \in DOMAIN msgs : /\ out[i].role = msgs[i].role
                                       /\ UseIds(out[i]) = UseIds(msgs[i])
                                       /\ ResultIds(out[i]) = ResultIds(msgs[i])
                                       /\ out[i].content # <<>>
<1> DEFINE kept(i) == Message(msgs[i].role, KeptBlocks(msgs, i))
           all == [i \in DOMAIN msgs |-> kept(i)]
           filled == {i \in DOMAIN all : all[i].content # <<>>}
           T == {kept(i) : i \in DOMAIN msgs}
           out == DropInvalidBlocks(msgs)
<1>1. Len(msgs) \in Nat /\ DOMAIN msgs = 1..Len(msgs)
  BY ChainIs
<1>2. all \in Seq(T) /\ DOMAIN all = DOMAIN msgs /\ \A i \in DOMAIN all : all[i] = kept(i)
  <2> HIDE DEF kept
  <2>1. \A i \in 1..Len(msgs) : kept(i) \in T
    BY <1>1
  <2>2. all \in [1..Len(msgs) -> T]
    BY <1>1, <2>1
  <2> HIDE DEF T
  <2> QED BY <1>1, <2>2
<1>3. out = Selected(all, filled)
  BY DEF DropInvalidBlocks, WithoutEmpty
<1>4. \A i \in DOMAIN msgs : /\ kept(i).role = msgs[i].role
                             /\ UseIds(kept(i)) = UseIds(msgs[i])
                             /\ ResultIds(kept(i)) = ResultIds(msgs[i])
                             /\ kept(i).content # <<>>
  BY KeptSays DEF Message
<1> HIDE DEF out, all, T, kept
<1>5. DOMAIN all \subseteq filled
  BY <1>2, <1>4
<1> HIDE DEF filled
<1>6. out = all
  BY <1>2, <1>3, <1>5, SelectedAll
<1>7. Len(all) = Len(msgs)
  BY <1>1, <1>2
<1> QED BY <1>2, <1>4, <1>6, <1>7 DEF out

LEMMA DropKeepsShape ==
  ASSUME NEW F, NEW I, NEW H, NEW msgs \in Chains(F, I, H), Repairable(msgs)
  PROVE  Shaped(DropInvalidBlocks(msgs)) /\ (EndsWithUser(msgs) => EndsWithUser(DropInvalidBlocks(msgs)))
<1> DEFINE out == DropInvalidBlocks(msgs)
<1>1. /\ Len(out) = Len(msgs) /\ DOMAIN out = DOMAIN msgs
      /\ \A i \in DOMAIN msgs : /\ out[i].role = msgs[i].role
                                /\ UseIds(out[i]) = UseIds(msgs[i])
                                /\ ResultIds(out[i]) = ResultIds(msgs[i])
  BY DropSays
<1>2. Len(msgs) \in Nat /\ DOMAIN msgs = 1..Len(msgs)
  BY ChainIs
<1>3. out \in Chains(F, I, H)
  BY DropIs
<1>4. Shaped(msgs)
  BY DEF Repairable
<1> HIDE DEF out
<1>5. Alternating(out)
  <2> SUFFICES ASSUME NEW i \in 1..(Len(out) - 1) PROVE out[i].role # out[i + 1].role
    BY DEF Alternating
  <2>1. i \in DOMAIN msgs /\ i + 1 \in DOMAIN msgs /\ i \in 1..(Len(msgs) - 1)
    BY <1>1, <1>2
  <2>2. msgs[i].role # msgs[i + 1].role
    BY <1>4, <2>1 DEF Shaped, Alternating
  <2> QED BY <1>1, <2>1, <2>2
<1>6. ASSUME NEW i \in DOMAIN out
      PROVE  /\ out[i].role = "user" => UseIds(out[i]) = {}
             /\ out[i].role = "assistant" => ResultIds(out[i]) = {}
             /\ ResultIds(out[i]) \subseteq UsesBefore(out, i)
             /\ i + 1 < Len(out) => ResultIds(out[i + 1]) = UseIds(out[i])
  <2>1. UsesBefore(out, i) = UsesBefore(msgs, i)
    <3> SUFFICES ASSUME i # 1 PROVE UseIds(out[i - 1]) = UseIds(msgs[i - 1])
      BY DEF UsesBefore
    <3>1. i - 1 \in DOMAIN msgs
      BY <1>1, <1>2
    <3> QED BY <1>1, <3>1
  <2>2. i + 1 < Len(out) => i + 1 \in DOMAIN msgs
    BY <1>1, <1>2
  <2> QED BY <1>1, <1>4, <2>1, <2>2 DEF Shaped
<1>7. Shaped(out)
  BY <1>5, <1>6 DEF Shaped
<1>8. EndsWithUser(msgs) => EndsWithUser(out)
  <2> SUFFICES ASSUME EndsWithUser(msgs) PROVE EndsWithUser(out)
    OBVIOUS
  <2>1. Len(msgs) \in DOMAIN msgs
    BY <1>2 DEF EndsWithUser, Chains
  <2>2. out # <<>>
    BY <1>1, <2>1
  <2> QED BY <1>1, <2>1, <2>2 DEF EndsWithUser
<1> QED BY <1>7, <1>8 DEF out

(* After the repair the chain can be sent.                                 *)
LEMMA RepairSettles ==
  ASSUME NEW F, NEW n \in Nat, NEW I \in SUBSET (1..n), NEW msgs \in Chains(F, I, I),
         Repairable(msgs), EndsWithUser(msgs)
  PROVE  RepairChain(msgs) \in Chains(F, I, I) /\ Settled(RepairChain(msgs))
<1> DEFINE repaired == DropInvalidBlocks(msgs)
           missing == Unanswered(repaired)
           msg == UserMessage(Placeholders(missing))
<1>1. repaired \in Chains(F, I, I) /\ Shaped(repaired) /\ EndsWithUser(repaired)
  BY DropIs, DropKeepsShape
<1>2. RepairChain(msgs) \in Chains(F, I, I) /\ Clean(RepairChain(msgs)) /\ Unanswered(RepairChain(msgs)) = {}
  BY RepairIs, RepairIsClean
<1>3. CASE missing = {}
  BY <1>1, <1>2, <1>3 DEF RepairChain, Settled
<1>4. CASE missing # {}
  <2>1. msg \in Messages(F, I, I) /\ UseIds(msg) = {} /\ ResultIds(msg) = missing /\ msg.role = "user"
    BY <1>1, <1>4, PlaceholdersFit DEF UserMessage, Message
  <2>2. RepairChain(msgs) = AppendMessage(repaired, msg)
    BY <1>4 DEF RepairChain
  <2> HIDE DEF msg, repaired
  <2>3. Shaped(AppendMessage(repaired, msg)) /\ EndsWithUser(AppendMessage(repaired, msg))
    BY <1>1, <2>1, UserAdded
  <2> QED BY <1>2, <2>2, <2>3 DEF Settled
<1> QED BY <1>3, <1>4

-----------------------------------------------------------------------------
(* A request made of a settled chain.                                      *)

(* A list of the members of a set, each once.                              *)
Lists(s, set) ==
  /\ s \in Seq(set) /\ ToSet(s) = set
  /\ \A k, l \in DOMAIN s : s[k] = s[l] => k = l

LEMMA SameLength ==
  ASSUME NEW set, NEW s, NEW t, Lists(s, set), Lists(t, set)
  PROVE  Len(s) = Len(t)
<1>1. \A x, y : Lists(x, set) /\ Lists(y, set) => Len(x) = Cardinality(set)
  <2> SUFFICES ASSUME NEW x, Lists(x, set) PROVE Len(x) = Cardinality(set)
    OBVIOUS
  <2>1. Len(x) \in Nat /\ x \in [1..Len(x) -> set] /\ DOMAIN x = 1..Len(x)
    BY DEF Lists
  <2>2. \A e \in set : \E k \in 1..Len(x) : x[k] = e
    BY <2>1 DEF Lists, ToSet
  <2>3. \A k, l \in 1..Len(x) : x[k] = x[l] => k = l
    BY <2>1 DEF Lists
  <2>4. ExistsBijection(1..Len(x), set)
    BY <2>1, <2>2, <2>3 DEF ExistsBijection, Bijection, Injection, Surjection, IsInjective
  <2>5. IsFiniteSet(1..Len(x)) /\ Cardinality(1..Len(x)) = Len(x)
    BY <2>1, FS_Interval
  <2> QED BY <2>4, <2>5, FS_Bijection
<1> QED BY <1>1

LEMMA IdsSelected ==
  ASSUME NEW T, NEW blocks \in Seq(T), NEW places \in SUBSET (DOMAIN blocks),
         \A p, q \in places : blocks[p].id = blocks[q].id => p = q
  PROVE  Lists(IdsOf(Selected(blocks, places)), {blocks[p].id : p \in places})
<1> DEFINE out == Selected(blocks, places)
           ids == IdsOf(out)
           set == {blocks[p].id : p \in places}
<1>1. PICK g \in [DOMAIN out -> places \cap DOMAIN blocks] :
           /\ \A p, q \in DOMAIN out : g[p] = g[q] => p = q
           /\ \A q \in DOMAIN out : out[q] = blocks[g[q]]
  BY SelectedOnce
<1>2. /\ out \in Seq(T)
      /\ \A i \in places \cap DOMAIN blocks : \E q \in DOMAIN out : out[q] = blocks[i]
  BY SelectedIs
<1>3. DOMAIN ids = DOMAIN out /\ \A k \in DOMAIN out : ids[k] = out[k].id
  BY DEF IdsOf
<1> HIDE DEF out
<1>4. ids \in Seq(set)
  <2>1. Len(out) \in Nat /\ DOMAIN out = 1..Len(out)
    BY <1>2
  <2>2. \A k \in DOMAIN out : out[k].id \in set
    BY <1>1
  <2> HIDE DEF set
  <2>3. ids \in [1..Len(out) -> set]
    BY <2>1, <2>2 DEF IdsOf
  <2> HIDE DEF ids
  <2> QED BY <2>1, <2>3
<1> HIDE DEF ids
<1>5. \A x \in set : x \in ToSet(ids)
  BY <1>2, <1>3 DEF ToSet
<1>6. \A x \in ToSet(ids) : x \in set
  BY <1>1, <1>3 DEF ToSet
<1>7. \A k, l \in DOMAIN ids : ids[k] = ids[l] => k = l
  BY <1>1, <1>3
<1> HIDE DEF set
<1>8. ToSet(ids) = set
  BY <1>5, <1>6
<1>9. Lists(ids, set)
  BY <1>4, <1>7, <1>8 DEF Lists
<1> QED BY <1>9 DEF ids, set, out

(* The calls and the results of a message of a settled chain.              *)
Replies(msg) == IdsOf(AnswersOf(msg.content))

LEMMA MessageLists ==
  ASSUME NEW F, NEW I, NEW H, NEW msgs \in Chains(F, I, H), Clean(msgs), NEW i \in DOMAIN msgs
  PROVE  /\ Lists(Uses(msgs[i]), UseIds(msgs[i]))
         /\ Lists(Replies(msgs[i]), ResultIds(msgs[i]))
         /\ NewResults(msgs, i) = [k \in DOMAIN Replies(msgs[i]) |-> WireMessage("tool", << Replies(msgs[i])[k] >>)]
<1> DEFINE blocks == msgs[i].content
           calls == {p \in DOMAIN blocks : IsUse(blocks[p])}
           answers == {p \in DOMAIN blocks : IsResult(blocks[p])}
<1>1. blocks \in Seq(BlocksOf(F, I, H)) /\ \A p \in DOMAIN blocks : blocks[p] \in BlocksOf(F, I, H)
  BY ChainIs
<1>2. \A p \in DOMAIN blocks : ~(IsUse(blocks[p]) /\ IsResult(blocks[p]))
  BY <1>1, KindsAre
<1>3. \A p \in DOMAIN blocks : IsUse(blocks[p]) \/ IsResult(blocks[p]) => blocks[p].kind # "text"
  BY DEF IsUse, IsResult
<1>4. \A p, q \in DOMAIN blocks : Twice(blocks[p], blocks[q]) => p = q
  BY DEF Clean, Distinct
<1>5. \A p, q \in calls : blocks[p].id = blocks[q].id => p = q
  BY <1>3, <1>4 DEF Twice, SameCall
<1>6. \A p, q \in answers : blocks[p].id = blocks[q].id => p = q
  BY <1>2, <1>3, <1>4 DEF Twice, SameCall
<1>7. UseIds(msgs[i]) = {blocks[p].id : p \in calls}
  BY DEF UseIds, ToSet
<1>8. ResultIds(msgs[i]) = {blocks[p].id : p \in answers}
  BY DEF ResultIds, ToSet
<1>9. {p \in DOMAIN blocks : IsResult(blocks[p]) /\ ~SeenBefore(msgs, i, p)} = answers
  <2> SUFFICES ASSUME NEW p \in answers, SeenBefore(msgs, i, p) PROVE FALSE
    OBVIOUS
  <2>1. PICK j \in 1..i : \E q \in DOMAIN msgs[j].content :
               /\ j < i \/ q < p
               /\ msgs[j].content[q].kind # "text"
               /\ SameCall(msgs[j].content[q], blocks[p])
    BY DEF SeenBefore
  <2>2. PICK q \in DOMAIN msgs[j].content :
               /\ j < i \/ q < p
               /\ Twice(msgs[j].content[q], blocks[p])
    BY <1>3, <2>1 DEF Twice
  <2>3. j \in DOMAIN msgs /\ i \in Nat /\ j \in Nat /\ p \in Nat
    <3>1. DOMAIN blocks \subseteq Nat
      BY <1>1
    <3> QED BY <2>1, <3>1, ChainIs
  <2>4. j = i /\ q = p
    BY <2>2, <2>3 DEF Clean, Distinct
  <2> QED BY <2>2, <2>3, <2>4
<1>10. Uses(msgs[i]) = IdsOf(Selected(blocks, calls)) /\ Replies(msgs[i]) = IdsOf(Selected(blocks, answers))
  BY DEF Uses, Replies, CallsOf, AnswersOf
<1>11. NewResults(msgs, i) = [k \in DOMAIN Replies(msgs[i]) |-> WireMessage("tool", << Replies(msgs[i])[k] >>)]
  BY <1>9, <1>10 DEF NewResults
<1> HIDE DEF calls, answers, blocks
<1>12. calls \in SUBSET (DOMAIN blocks) /\ answers \in SUBSET (DOMAIN blocks)
  BY DEF calls, answers
<1>13. Lists(IdsOf(Selected(blocks, calls)), {blocks[p].id : p \in calls})
  BY <1>1, <1>5, <1>12, IdsSelected
<1>14. Lists(IdsOf(Selected(blocks, answers)), {blocks[p].id : p \in answers})
  BY <1>1, <1>6, <1>12, IdsSelected
<1> QED BY <1>7, <1>8, <1>10, <1>11, <1>13, <1>14

(* What a settled chain is, place by place.                                *)
LEMMA SettledIs ==
  ASSUME NEW F, NEW I, NEW H, NEW msgs \in Chains(F, I, H), Settled(msgs)
  PROVE  /\ Len(msgs) \in Nat /\ DOMAIN msgs = 1..Len(msgs) /\ Len(msgs) \in DOMAIN msgs
         /\ \A i \in DOMAIN msgs : msgs[i].role \in {"user", "assistant"}
         /\ \A i \in DOMAIN msgs : msgs[i].role = "assistant" =>
              i + 1 \in DOMAIN msgs /\ msgs[i + 1].role = "user" /\ ResultIds(msgs[i + 1]) = UseIds(msgs[i])
         /\ \A i \in DOMAIN msgs : msgs[i].role = "user" /\ ResultIds(msgs[i]) # {} =>
              i - 1 \in DOMAIN msgs /\ msgs[i - 1].role = "assistant" /\ UseIds(msgs[i - 1]) = ResultIds(msgs[i])
<1> DEFINE n == Len(msgs)
<1>1. /\ n \in Nat /\ DOMAIN msgs = 1..n /\ n \in DOMAIN msgs /\ msgs[n].role = "user"
      /\ \A i \in DOMAIN msgs : msgs[i].role \in {"user", "assistant"}
  <2>1. \A i \in DOMAIN msgs : msgs[i].role \in {"user", "assistant"}
    BY ChainIs DEF Messages
  <2>2. n \in Nat /\ DOMAIN msgs = 1..n /\ n \in DOMAIN msgs /\ msgs[n].role = "user"
    BY DEF Settled, EndsWithUser, Chains
  <2> QED BY <2>1, <2>2
<1>2. \A i \in DOMAIN msgs : i < n => ResultIds(msgs[i + 1]) = UseIds(msgs[i])
  BY ShapedAnswered DEF Settled
<1>3. Shaped(msgs)
  BY DEF Settled
<1> HIDE DEF n
<1>4. \A i \in 1..(n - 1) : i \in DOMAIN msgs /\ i + 1 \in DOMAIN msgs /\ i < n /\ msgs[i].role # msgs[i + 1].role
  BY <1>1, <1>3 DEF Shaped, Alternating, n
<1>5. ASSUME NEW i \in DOMAIN msgs, msgs[i].role = "assistant"
      PROVE  i + 1 \in DOMAIN msgs /\ msgs[i + 1].role = "user" /\ ResultIds(msgs[i + 1]) = UseIds(msgs[i])
  <2>1. i \in 1..(n - 1)
    BY <1>1, <1>5
  <2> QED BY <1>1, <1>2, <1>4, <1>5, <2>1
<1>6. ASSUME NEW i \in DOMAIN msgs, msgs[i].role = "user", ResultIds(msgs[i]) # {}
      PROVE  i - 1 \in DOMAIN msgs /\ msgs[i - 1].role = "assistant" /\ UseIds(msgs[i - 1]) = ResultIds(msgs[i])
  <2>1. i # 1
    BY <1>3, <1>6 DEF Shaped, UsesBefore
  <2>2. i - 1 \in 1..(n - 1) /\ (i - 1) + 1 = i
    BY <1>1, <2>1
  <2>3. i - 1 \in DOMAIN msgs /\ msgs[i - 1].role # msgs[(i - 1) + 1].role /\ i - 1 < n
    BY <1>4, <2>2
  <2>4. ResultIds(msgs[(i - 1) + 1]) = UseIds(msgs[i - 1])
    BY <1>2, <2>3
  <2> QED BY <1>1, <1>6, <2>2, <2>3, <2>4
<1> QED BY <1>1, <1>5, <1>6 DEF n

(* The parts of CallsAnswered.                                             *)
CallItems(r) == {n \in DOMAIN r : r[n].role = "assistant" /\ r[n].ids # <<>>}
IdsAt(r, items) == UNION {ToSet(r[k].ids) : k \in items}

LEMMA AnsweredIf ==
  ASSUME NEW p, NEW r,
         \A n \in CallItems(r) : /\ Answers(p, r, n) \subseteq DOMAIN r
                                 /\ IdsAt(r, Answers(p, r, n)) = ToSet(r[n].ids),
         \A k \in DOMAIN r : \/ r[k].ids = <<>>
                             \/ k \in CallItems(r)
                             \/ \E n \in CallItems(r) : k \in Answers(p, r, n)
  PROVE  CallsAnswered(p, r)
<1> DEFINE answers == UNION {Answers(p, r, n) : n \in CallItems(r)}
<1>1. answers \subseteq DOMAIN r
  OBVIOUS
<1>2. \A k \in DOMAIN r \ (CallItems(r) \cup answers) : r[k].ids = <<>>
  OBVIOUS
<1> QED BY <1>1, <1>2 DEF CallsAnswered, CallItems, IdsAt

LEMMA ListsEmpty == ASSUME NEW s, NEW set, Lists(s, set) PROVE s = <<>> <=> set = {}
BY DEF Lists, ToSet

LEMMA AnthropicAnswered ==
  ASSUME NEW F, NEW I, NEW H, NEW msgs \in Chains(F, I, H), Settled(msgs)
  PROVE  CallsAnswered("anthropic", AnthropicMessages(msgs))
<1> DEFINE r == AnthropicMessages(msgs)
<1>1. /\ Len(msgs) \in Nat /\ DOMAIN msgs = 1..Len(msgs) /\ Len(msgs) \in DOMAIN msgs
      /\ \A i \in DOMAIN msgs : msgs[i].role \in {"user", "assistant"}
      /\ \A i \in DOMAIN msgs : msgs[i].role = "assistant" =>
           i + 1 \in DOMAIN msgs /\ msgs[i + 1].role = "user" /\ ResultIds(msgs[i + 1]) = UseIds(msgs[i])
      /\ \A i \in DOMAIN msgs : msgs[i].role = "user" /\ ResultIds(msgs[i]) # {} =>
           i - 1 \in DOMAIN msgs /\ msgs[i - 1].role = "assistant" /\ UseIds(msgs[i - 1]) = ResultIds(msgs[i])
  BY SettledIs
<1>2. /\ DOMAIN r = DOMAIN msgs
      /\ \A i \in DOMAIN msgs : r[i].role = msgs[i].role
      /\ \A i \in DOMAIN msgs : msgs[i].role = "assistant" => r[i].ids = Uses(msgs[i])
      /\ \A i \in DOMAIN msgs : msgs[i].role = "user" => r[i].ids = Replies(msgs[i])
  BY <1>1 DEF AnthropicMessages, WireMessage, Replies
<1>3. \A i \in DOMAIN msgs : Lists(Uses(msgs[i]), UseIds(msgs[i])) /\ Lists(Replies(msgs[i]), ResultIds(msgs[i]))
  BY MessageLists DEF Settled
<1>4. \A i \in DOMAIN msgs : /\ Uses(msgs[i]) = <<>> <=> UseIds(msgs[i]) = {}
                             /\ Replies(msgs[i]) = <<>> <=> ResultIds(msgs[i]) = {}
                             /\ ToSet(Uses(msgs[i])) = UseIds(msgs[i])
                             /\ ToSet(Replies(msgs[i])) = ResultIds(msgs[i])
  BY <1>3, ListsEmpty DEF Lists
<1> HIDE DEF r
<1>5. \A n \in DOMAIN msgs : Answers("anthropic", r, n) = {n + 1}
  BY <1>1 DEF Answers
<1>6. ASSUME NEW n \in CallItems(r)
      PROVE  /\ Answers("anthropic", r, n) \subseteq DOMAIN r
             /\ IdsAt(r, Answers("anthropic", r, n)) = ToSet(r[n].ids)
  <2>1. n \in DOMAIN msgs /\ msgs[n].role = "assistant"
    BY <1>2 DEF CallItems
  <2>2. n + 1 \in DOMAIN msgs /\ msgs[n + 1].role = "user" /\ ResultIds(msgs[n + 1]) = UseIds(msgs[n])
    BY <1>1, <2>1
  <2>3. ToSet(r[n + 1].ids) = ToSet(r[n].ids)
    BY <1>2, <1>4, <2>1, <2>2
  <2>4. IdsAt(r, {n + 1}) = ToSet(r[n + 1].ids)
    BY DEF IdsAt
  <2> QED BY <1>2, <1>5, <2>1, <2>2, <2>3, <2>4
<1>7. ASSUME NEW k \in DOMAIN r, r[k].ids # <<>>, k \notin CallItems(r)
      PROVE  \E n \in CallItems(r) : k \in Answers("anthropic", r, n)
  <2>1. k \in DOMAIN msgs /\ msgs[k].role = "user" /\ ResultIds(msgs[k]) # {}
    BY <1>1, <1>2, <1>4, <1>7 DEF CallItems
  <2>2. k - 1 \in DOMAIN msgs /\ msgs[k - 1].role = "assistant" /\ UseIds(msgs[k - 1]) # {} /\ k = (k - 1) + 1
    BY <1>1, <2>1
  <2>3. k - 1 \in CallItems(r)
    BY <1>2, <1>4, <2>2 DEF CallItems
  <2>4. k \in Answers("anthropic", r, k - 1)
    BY <1>5, <2>2
  <2> QED BY <2>3, <2>4
<1>8. CallsAnswered("anthropic", r)
  BY <1>6, <1>7, AnsweredIf
<1> QED BY <1>8 DEF r

(* In the OpenAI form the answers follow one by one.                       *)
(* What a message becomes in the OpenAI form.                              *)
WireItems(ids) == [role : {"assistant", "tool", "user"}, ids : Seq(ids)]

SerializesTo(msg, s, items) ==
  /\ s \in Seq(items)
  /\ msg.role = "assistant" => /\ Len(s) = 1 /\ DOMAIN s = {1}
                               /\ s[1] = WireMessage("assistant", Uses(msg))
  /\ msg.role # "assistant" =>
       /\ Len(Replies(msg)) \in Nat /\ 1..Len(Replies(msg)) \subseteq DOMAIN s
       /\ \A p \in 1..Len(Replies(msg)) : s[p] = WireMessage("tool", << Replies(msg)[p] >>)
       /\ \A p \in DOMAIN s : p \in 1..Len(Replies(msg)) \/ s[p] = WireMessage("user", <<>>)
       /\ \A p \in DOMAIN s : s[p].role # "assistant"

LEMMA SerializedIs ==
  ASSUME NEW F, NEW I, NEW H, NEW msgs \in Chains(F, I, H), Clean(msgs), NEW i \in DOMAIN msgs
  PROVE  SerializesTo(msgs[i], SerializeMessage(msgs, i), WireItems(I \cup H))
<1> DEFINE s == SerializeMessage(msgs, i)
           ids == Replies(msgs[i])
           n == Len(ids)
           items == WireItems(I \cup H)
           new == [k \in DOMAIN ids |-> WireMessage("tool", << ids[k] >>)]
           text == UserText(msgs[i])
<1>1. UseIds(msgs[i]) \subseteq I \cup H /\ ResultIds(msgs[i]) \subseteq I \cup H
  BY ChainIs, KindsAre DEF UseIds, ResultIds, ToSet, IsUse, IsResult
<1>2. /\ Lists(Uses(msgs[i]), UseIds(msgs[i])) /\ Lists(ids, ResultIds(msgs[i]))
      /\ NewResults(msgs, i) = new
  BY MessageLists
<1>3. Uses(msgs[i]) \in Seq(I \cup H) /\ ids \in Seq(I \cup H)
  <2>1. Uses(msgs[i]) \in Seq(UseIds(msgs[i])) /\ ids \in Seq(ResultIds(msgs[i]))
    BY <1>2 DEF Lists
  <2> QED BY <1>1, <2>1, SeqGrows
<1> HIDE DEF ids
<1>4. CASE msgs[i].role = "assistant"
  <2>1. s = << WireMessage("assistant", Uses(msgs[i])) >>
    BY <1>4 DEF SerializeMessage
  <2>2. WireMessage("assistant", Uses(msgs[i])) \in items
    BY <1>3 DEF WireMessage, WireItems
  <2> HIDE DEF s, items
  <2> QED BY <1>4, <2>1, <2>2 DEF s, n, items, ids, SerializesTo
<1>5. CASE msgs[i].role # "assistant"
  <2>1. s = new \o text
    BY <1>2, <1>5 DEF SerializeMessage
  <2>2. n \in Nat /\ DOMAIN ids = 1..n /\ \A k \in DOMAIN ids : WireMessage("tool", << ids[k] >>) \in items
    BY <1>3 DEF WireMessage, WireItems
  <2>3. new \in Seq(items) /\ Len(new) = n /\ DOMAIN new = 1..n
        /\ \A k \in 1..n : new[k] = WireMessage("tool", << ids[k] >>)
    <3> HIDE DEF items
    <3> QED BY <2>2
  <2>4. text \in Seq(items) /\ \A p \in DOMAIN text : text[p] = WireMessage("user", <<>>)
    <3>1. WireMessage("user", <<>>) \in items
      BY DEF WireMessage, WireItems
    <3>2. text = << WireMessage("user", <<>>) >> \/ text = <<>>
      BY DEF UserText
    <3>3. \A S, e : e \in S => << e >> \in Seq(S) /\ \A p \in DOMAIN << e >> : << e >>[p] = e
      OBVIOUS
    <3>4. \A S : <<>> \in Seq(S) /\ DOMAIN <<>> = {}
      OBVIOUS
    <3> HIDE DEF text, items
    <3> QED BY <3>1, <3>2, <3>3, <3>4
  <2> HIDE DEF s, new, text, n
  <2>5. /\ s \in Seq(items)
        /\ \A p \in DOMAIN new : p \in DOMAIN s /\ s[p] = new[p]
        /\ \A p \in DOMAIN s : \/ p \in DOMAIN new /\ s[p] = new[p]
                               \/ p - Len(new) \in DOMAIN text /\ s[p] = text[p - Len(new)]
    <3> HIDE DEF items
    <3> QED BY <2>1, <2>3, <2>4, Joined
  <2> HIDE DEF items
  <2>6. /\ 1..n \subseteq DOMAIN s
        /\ \A p \in 1..n : s[p] = WireMessage("tool", << ids[p] >>)
        /\ \A p \in DOMAIN s : p \in 1..n \/ s[p] = WireMessage("user", <<>>)
    BY <2>3, <2>4, <2>5
  <2>7. \A p \in DOMAIN s : s[p].role # "assistant"
    <3>1. \A x : WireMessage("tool", x).role # "assistant" /\ WireMessage("user", x).role # "assistant"
      BY DEF WireMessage
    <3> QED BY <2>6, <3>1
  <2> QED BY <1>5, <2>2, <2>5, <2>6, <2>7 DEF s, n, items, ids, SerializesTo
<1> QED BY <1>4, <1>5

(* A chain whose calls are all answered in the message that follows.       *)
AnsweredInTurn(msgs) ==
  /\ Clean(msgs)
  /\ \A i \in DOMAIN msgs : msgs[i].role = "assistant" =>
       i + 1 \in DOMAIN msgs /\ msgs[i + 1].role = "user" /\ ResultIds(msgs[i + 1]) = UseIds(msgs[i])
  /\ \A i \in DOMAIN msgs : msgs[i].role = "user" /\ ResultIds(msgs[i]) # {} =>
       i - 1 \in DOMAIN msgs /\ msgs[i - 1].role = "assistant" /\ UseIds(msgs[i - 1]) = ResultIds(msgs[i])

LEMMA OpenAIAnswered ==
  ASSUME NEW F, NEW I, NEW H, NEW msgs \in Chains(F, I, H), AnsweredInTurn(msgs)
  PROVE  CallsAnswered("openai", OpenAIMessages(msgs))
<1> DEFINE items == WireItems(I \cup H)
           ser(i) == SerializeMessage(msgs, i)
           seqs == [i \in DOMAIN msgs |-> ser(i)]
           r == OpenAIMessages(msgs)
<1>0. \A role, x : WireMessage(role, x).role = role /\ WireMessage(role, x).ids = x
  BY DEF WireMessage
<1>1. /\ Len(msgs) \in Nat /\ DOMAIN msgs = 1..Len(msgs)
      /\ \A i \in DOMAIN msgs : msgs[i].role \in {"user", "assistant"}
      /\ \A i \in DOMAIN msgs : msgs[i].role = "assistant" =>
           i + 1 \in DOMAIN msgs /\ msgs[i + 1].role = "user" /\ ResultIds(msgs[i + 1]) = UseIds(msgs[i])
      /\ \A i \in DOMAIN msgs : msgs[i].role = "user" /\ ResultIds(msgs[i]) # {} =>
           i - 1 \in DOMAIN msgs /\ msgs[i - 1].role = "assistant" /\ UseIds(msgs[i - 1]) = ResultIds(msgs[i])
  BY ChainIs DEF AnsweredInTurn, Messages
<1>2. Clean(msgs)
  BY DEF AnsweredInTurn
<1>3. \A i \in DOMAIN msgs : Lists(Uses(msgs[i]), UseIds(msgs[i])) /\ Lists(Replies(msgs[i]), ResultIds(msgs[i]))
  BY <1>2, MessageLists
<1>4. \A i \in DOMAIN msgs :
        /\ ser(i) \in Seq(items)
        /\ msgs[i].role = "assistant" => /\ Len(ser(i)) = 1 /\ DOMAIN ser(i) = {1}
                                         /\ ser(i)[1] = WireMessage("assistant", Uses(msgs[i]))
        /\ msgs[i].role # "assistant" =>
             /\ Len(Replies(msgs[i])) \in Nat /\ 1..Len(Replies(msgs[i])) \subseteq DOMAIN ser(i)
             /\ \A p \in 1..Len(Replies(msgs[i])) : ser(i)[p] = WireMessage("tool", << Replies(msgs[i])[p] >>)
             /\ \A p \in DOMAIN ser(i) : p \in 1..Len(Replies(msgs[i])) \/ ser(i)[p] = WireMessage("user", <<>>)
             /\ \A p \in DOMAIN ser(i) : ser(i)[p].role # "assistant"
  <2>1. \A i \in DOMAIN msgs : SerializesTo(msgs[i], ser(i), items)
    BY <1>2, SerializedIs
  <2> HIDE DEF ser, items
  <2> QED BY <2>1 DEF SerializesTo
<1>5. /\ seqs \in Seq(Seq(items)) /\ DOMAIN seqs = DOMAIN msgs /\ Len(seqs) = Len(msgs)
      /\ \A i \in DOMAIN msgs : seqs[i] = ser(i)
  <2>1. \A i \in 1..Len(msgs) : ser(i) \in Seq(items)
    BY <1>1, <1>4
  <2> HIDE DEF ser, items
  <2>2. seqs \in [1..Len(msgs) -> Seq(items)]
    BY <1>1, <2>1
  <2> QED BY <1>1, <2>2
<1>6. r = Concat(seqs)
  BY DEF OpenAIMessages
<1> HIDE DEF ser, seqs, r, items
<1>7. PICK start : Laid(start, seqs, r)
  BY <1>5, <1>6, ConcatLaid
<1>8. /\ \A i \in DOMAIN msgs : start[i] \in Nat
      /\ \A i \in DOMAIN msgs : start[i + 1] = start[i] + Len(ser(i))
      /\ \A i \in DOMAIN msgs : \A p \in DOMAIN ser(i) :
           start[i] + p \in DOMAIN r /\ r[start[i] + p] = ser(i)[p]
      /\ \A q \in DOMAIN r : \E i \in DOMAIN msgs : \E p \in DOMAIN ser(i) : q = start[i] + p
  <2>1. \A i \in DOMAIN msgs : start[i] \in Nat
    BY <1>1, <1>5, <1>7 DEF Laid
  <2> QED BY <1>5, <1>7, <2>1 DEF Laid
<1>9. ASSUME NEW i \in DOMAIN msgs, msgs[i].role = "assistant"
      PROVE  /\ start[i] + 1 = start[i + 1] /\ start[i] + 1 \in DOMAIN r /\ start[i + 1] \in Nat
             /\ r[start[i] + 1] = WireMessage("assistant", Uses(msgs[i]))
             /\ Len(Replies(msgs[i + 1])) = Len(Uses(msgs[i])) /\ Len(Uses(msgs[i])) \in Nat
  <2>1. i + 1 \in DOMAIN msgs /\ ResultIds(msgs[i + 1]) = UseIds(msgs[i])
    BY <1>1, <1>9
  <2>2. Len(Replies(msgs[i + 1])) = Len(Uses(msgs[i])) /\ Len(Uses(msgs[i])) \in Nat
    <3>1. Lists(Uses(msgs[i]), UseIds(msgs[i])) /\ Lists(Replies(msgs[i + 1]), UseIds(msgs[i]))
      BY <1>3, <2>1
    <3>2. Len(Uses(msgs[i])) \in Nat
      BY <3>1 DEF Lists
    <3> QED BY <3>1, <3>2, SameLength
  <2>3. 1 \in DOMAIN ser(i) /\ Len(ser(i)) = 1 /\ ser(i)[1] = WireMessage("assistant", Uses(msgs[i]))
    BY <1>4, <1>9
  <2> QED BY <1>8, <2>1, <2>2, <2>3
<1>10. ASSUME NEW n \in CallItems(r)
       PROVE  \E i \in DOMAIN msgs : msgs[i].role = "assistant" /\ n = start[i] + 1
  <2>1. n \in DOMAIN r /\ r[n].role = "assistant"
    BY DEF CallItems
  <2>2. PICK i \in DOMAIN msgs : \E p \in DOMAIN ser(i) : n = start[i] + p
    BY <1>8, <2>1
  <2>3. PICK p \in DOMAIN ser(i) : n = start[i] + p
    BY <2>2
  <2>4. ser(i)[p].role = "assistant"
    BY <1>8, <2>1, <2>3
  <2>5. msgs[i].role = "assistant"
    BY <1>4, <2>4
  <2>6. p = 1
    BY <1>4, <2>5
  <2> QED BY <2>3, <2>5, <2>6
<1>11. ASSUME NEW i \in DOMAIN msgs, msgs[i].role = "assistant", NEW k \in (start[i] + 2)..(start[i] + 1 + Len(Uses(msgs[i])))
       PROVE  /\ k \in DOMAIN r /\ k - (start[i] + 1) \in 1..Len(Uses(msgs[i]))
              /\ r[k].ids = << Replies(msgs[i + 1])[k - (start[i] + 1)] >>
  <2> DEFINE p == k - (start[i] + 1)
             L == Len(Uses(msgs[i]))
  <2>1. /\ start[i] + 1 = start[i + 1] /\ start[i + 1] \in Nat
        /\ Len(Replies(msgs[i + 1])) = L /\ L \in Nat
    BY <1>9, <1>11
  <2>2. i + 1 \in DOMAIN msgs /\ msgs[i + 1].role # "assistant"
    BY <1>1, <1>11
  <2>3. p \in 1..L /\ k = start[i + 1] + p
    <3> HIDE DEF L
    <3>1. start[i] \in Nat /\ k \in (start[i] + 2)..(start[i] + 1 + L)
      BY <1>8 DEF L
    <3> QED BY <2>1, <3>1
  <2> HIDE DEF p, L
  <2>4. p \in DOMAIN ser(i + 1) /\ ser(i + 1)[p] = WireMessage("tool", << Replies(msgs[i + 1])[p] >>)
    BY <1>4, <2>1, <2>2, <2>3
  <2>5. k \in DOMAIN r /\ r[k] = WireMessage("tool", << Replies(msgs[i + 1])[p] >>)
    BY <1>8, <2>2, <2>3, <2>4
  <2> QED BY <2>3, <2>5, <1>0 DEF p, L
<1>12. ASSUME NEW i \in DOMAIN msgs, msgs[i].role = "assistant", NEW n, n = start[i] + 1
       PROVE  Answers("openai", r, n) = (start[i] + 2)..(start[i] + 1 + Len(Uses(msgs[i])))
  <2>1. r[n].ids = Uses(msgs[i]) /\ start[i] \in Nat /\ Len(Uses(msgs[i])) \in Nat
    BY <1>8, <1>9, <1>12, <1>0
  <2>2. n + 1 = start[i] + 2
    BY <1>12, <2>1
  <2>3. n + (IF "openai" = "openai" THEN Len(r[n].ids) ELSE 1) = start[i] + 1 + Len(Uses(msgs[i]))
    BY <1>12, <2>1
  <2> QED BY <2>2, <2>3 DEF Answers
<1>13. ASSUME NEW n \in CallItems(r)
       PROVE  /\ Answers("openai", r, n) \subseteq DOMAIN r
              /\ IdsAt(r, Answers("openai", r, n)) = ToSet(r[n].ids)
  <2>1. PICK i \in DOMAIN msgs : msgs[i].role = "assistant" /\ n = start[i] + 1
    BY <1>10
  <2> DEFINE L == Len(Uses(msgs[i]))
             ids == Replies(msgs[i + 1])
             area == (start[i] + 2)..(start[i] + 1 + L)
  <2>2. Answers("openai", r, n) = area
    BY <1>12, <2>1
  <2>3. \A k \in area : /\ k \in DOMAIN r /\ k - (start[i] + 1) \in 1..L
                        /\ r[k].ids = << ids[k - (start[i] + 1)] >>
    BY <1>11, <2>1
  <2>4. /\ start[i] \in Nat /\ L \in Nat /\ Len(ids) = L /\ i + 1 \in DOMAIN msgs
        /\ r[n].ids = Uses(msgs[i]) /\ ResultIds(msgs[i + 1]) = UseIds(msgs[i])
    BY <1>1, <1>8, <1>9, <2>1, <1>0
  <2>5. ToSet(ids) = UseIds(msgs[i]) /\ ToSet(r[n].ids) = UseIds(msgs[i]) /\ DOMAIN ids = 1..L
    <3>1. Lists(Uses(msgs[i]), UseIds(msgs[i])) /\ Lists(ids, ResultIds(msgs[i + 1]))
      BY <1>3, <2>4
    <3>2. ToSet(ids) = UseIds(msgs[i]) /\ ToSet(r[n].ids) = UseIds(msgs[i])
      BY <2>4, <3>1 DEF Lists
    <3>3. ids \in Seq(ResultIds(msgs[i + 1]))
      BY <3>1 DEF Lists
    <3> HIDE DEF ids, L
    <3>4. DOMAIN ids = 1..Len(ids)
      BY <3>3
    <3> QED BY <2>4, <3>2, <3>4
  <2> HIDE DEF L, ids
  <2>6. ASSUME NEW x \in IdsAt(r, area) PROVE x \in ToSet(ids)
    <3>1. PICK k \in area : x \in ToSet(r[k].ids)
      BY <2>6 DEF IdsAt
    <3>2. x \in ToSet(<< ids[k - (start[i] + 1)] >>) /\ k - (start[i] + 1) \in DOMAIN ids
      BY <2>3, <2>5, <3>1
    <3>3. \A e : x \in ToSet(<< e >>) => x = e
      BY DEF ToSet
    <3> QED BY <3>2, <3>3 DEF ToSet
  <2>7. ASSUME NEW x \in ToSet(ids) PROVE x \in IdsAt(r, area)
    <3>1. PICK p \in 1..L : x = ids[p]
      BY <2>5, <2>7 DEF ToSet
    <3>2. start[i] + 1 + p \in area /\ (start[i] + 1 + p) - (start[i] + 1) = p
      BY <2>4, <3>1
    <3>3. r[start[i] + 1 + p].ids = << ids[p] >>
      BY <2>3, <3>2
    <3>4. x \in ToSet(r[start[i] + 1 + p].ids)
      BY <3>1, <3>3 DEF ToSet
    <3> QED BY <3>2, <3>4 DEF IdsAt
  <2> HIDE DEF area
  <2> QED BY <2>2, <2>3, <2>5, <2>6, <2>7
<1>14. ASSUME NEW k \in DOMAIN r, r[k].ids # <<>>, k \notin CallItems(r)
       PROVE  \E n \in CallItems(r) : k \in Answers("openai", r, n)
  <2>1. PICK i \in DOMAIN msgs : \E p \in DOMAIN ser(i) : k = start[i] + p
    BY <1>8
  <2>2. PICK p \in DOMAIN ser(i) : k = start[i] + p
    BY <2>1
  <2>3. r[k] = ser(i)[p]
    BY <1>8, <2>2
  <2>4. msgs[i].role # "assistant"
    <3> SUFFICES ASSUME msgs[i].role = "assistant" PROVE FALSE
      OBVIOUS
    <3>1. r[k].role = "assistant"
      BY <1>4, <2>3, <1>0
    <3> QED BY <1>14, <3>1 DEF CallItems
  <2> DEFINE ids == Replies(msgs[i])
  <2>5. p \in 1..Len(ids)
    <3>1. p \in 1..Len(ids) \/ ser(i)[p] = WireMessage("user", <<>>)
      BY <1>4, <2>4
    <3> QED BY <1>14, <2>3, <3>1, <1>0
  <2>6. ResultIds(msgs[i]) # {}
    <3>1. Lists(ids, ResultIds(msgs[i]))
      BY <1>3
    <3> HIDE DEF ids
    <3> QED BY <2>5, <3>1, ListsEmpty
  <2>7. i - 1 \in DOMAIN msgs /\ msgs[i - 1].role = "assistant" /\ UseIds(msgs[i - 1]) # {} /\ (i - 1) + 1 = i
    BY <1>1, <2>4, <2>6
  <2> DEFINE n == start[i - 1] + 1
             L == Len(Uses(msgs[i - 1]))
  <2>8. /\ n = start[i] /\ n \in DOMAIN r /\ r[n] = WireMessage("assistant", Uses(msgs[i - 1]))
        /\ Len(ids) = L /\ L \in Nat /\ start[i - 1] \in Nat
    BY <1>8, <1>9, <2>7
  <2>9. Uses(msgs[i - 1]) # <<>>
    BY <1>3, <2>7, ListsEmpty
  <2>10. n \in CallItems(r)
    BY <2>8, <2>9, <1>0 DEF CallItems
  <2>11. Answers("openai", r, n) = (start[i - 1] + 2)..(start[i - 1] + 1 + L)
    BY <1>12, <2>7
  <2>12. k \in (start[i - 1] + 2)..(start[i - 1] + 1 + L)
    <3> HIDE DEF L, ids
    <3>1. k = (start[i - 1] + 1) + p /\ p \in 1..L
      BY <2>2, <2>5, <2>8
    <3> QED BY <2>8, <3>1
  <2> QED BY <2>10, <2>11, <2>12
<1>15. CallsAnswered("openai", r)
  BY <1>13, <1>14, AnsweredIf
<1> QED BY <1>15 DEF r

(* A settled chain is a request in either form.                            *)
LEMMA SettledIsPaired ==
  ASSUME NEW F, NEW I, NEW H, NEW msgs \in Chains(F, I, H), Settled(msgs), NEW p \in Providers
  PROVE  CallsAnswered(p, Serialize(p, msgs))
<1>1. AnsweredInTurn(msgs)
  BY SettledIs DEF AnsweredInTurn, Settled
<1> QED BY <1>1, OpenAIAnswered, AnthropicAnswered DEF Providers, Serialize

-----------------------------------------------------------------------------
(* A chain that can be repaired, after a message.                         *)
LEMMA SettledIsRepairable ==
  ASSUME NEW msgs, Settled(msgs)
  PROVE  Repairable(msgs)
<1>1. UsesApart(msgs)
  <2> SUFFICES ASSUME NEW i \in DOMAIN msgs, NEW j \in DOMAIN msgs, NEW id, id \in UseIds(msgs[i]), id \in UseIds(msgs[j])
               PROVE  i = j
    BY DEF UsesApart
  <2>1. PICK p \in DOMAIN msgs[i].content : IsUse(msgs[i].content[p]) /\ id = msgs[i].content[p].id
    BY DEF UseIds, ToSet
  <2>2. PICK q \in DOMAIN msgs[j].content : IsUse(msgs[j].content[q]) /\ id = msgs[j].content[q].id
    BY DEF UseIds, ToSet
  <2>3. Twice(msgs[i].content[p], msgs[j].content[q])
    BY <2>1, <2>2 DEF Twice, SameCall, IsUse
  <2> QED BY <2>3 DEF Settled, Clean, Distinct
<1> QED BY <1>1 DEF Repairable, Filled, Settled, Clean

(* The calls and the results of a conversation after a message.           *)
SaysAlso(msgs, msg, c) ==
  /\ AllUseIds(c) = AllUseIds(msgs) \cup UseIds(msg)
  /\ AllResultIds(c) = AllResultIds(msgs) \cup ResultIds(msg)

LEMMA AppendSays ==
  ASSUME NEW F, NEW I, NEW H, NEW msgs \in Chains(F, I, H), NEW msg \in Messages(F, I, H)
  PROVE  SaysAlso(msgs, msg, AppendMessage(msgs, msg))
BY AppendIds DEF SaysAlso

(* Uses stay apart when the message brings new ones, or none.              *)
LEMMA AppendRepairable ==
  ASSUME NEW F, NEW I, NEW H, NEW msgs \in Chains(F, I, H), NEW msg \in Messages(F, I, H),
         Repairable(msgs), msg.content # <<>>, Shaped(AppendMessage(msgs, msg)),
         UseIds(msg) \cap AllUseIds(msgs) = {}
  PROVE  Repairable(AppendMessage(msgs, msg))
<1> DEFINE c == AppendMessage(msgs, msg)
           n == Len(msgs)
<1>1. Joins(msgs, msg, c) \/ Adds(msgs, msg, c)
  BY JoinsOrAdds
<1>2. n \in Nat /\ DOMAIN msgs = 1..n /\ (msgs # <<>> => n \in DOMAIN msgs)
  BY DEF Chains
<1>3. \A i \in DOMAIN msgs : msgs[i].content # <<>> /\ msgs[i].content \in Seq(BlocksOf(F, I, H))
  BY ChainIs DEF Repairable, Filled
<1>4. \A i \in DOMAIN msgs : UseIds(msgs[i]) \subseteq AllUseIds(msgs)
  BY AnsweredBy
<1>5. msg.content \in Seq(BlocksOf(F, I, H))
  BY DEF Messages
<1> HIDE DEF c, n
<1>6. CASE Joins(msgs, msg, c)
  <2>1. n \in DOMAIN msgs /\ DOMAIN c = DOMAIN msgs /\ \A i \in DOMAIN msgs : i # n => c[i] = msgs[i]
    BY <1>2, <1>6 DEF Joins, n
  <2>2. UseIds(c[n]) = UseIds(msgs[n]) \cup UseIds(msg) /\ c[n].content = msgs[n].content \o msg.content
    BY <1>6 DEF Joins, n
  <2>3. c[n].content # <<>>
    <3>1. \A S : \A s \in Seq(S), t \in Seq(S) : s # <<>> => s \o t # <<>>
      OBVIOUS
    <3> QED BY <1>3, <1>5, <2>1, <2>2, <3>1
  <2>4. Filled(c)
    BY <1>3, <2>1, <2>3 DEF Filled
  <2>5. UsesApart(c)
    <3> SUFFICES ASSUME NEW i \in DOMAIN msgs, NEW j \in DOMAIN msgs, NEW id, id \in UseIds(c[i]), id \in UseIds(c[j])
                 PROVE  i = j
      BY <2>1 DEF UsesApart
    <3>1. CASE id \in UseIds(msg)
      <4>1. id \notin UseIds(msgs[i]) /\ id \notin UseIds(msgs[j])
        BY <1>4, <3>1
      <4> QED BY <2>1, <4>1
    <3>2. CASE id \notin UseIds(msg)
      <4>1. id \in UseIds(msgs[i]) /\ id \in UseIds(msgs[j])
        BY <2>1, <2>2, <3>2
      <4> QED BY <4>1 DEF Repairable, UsesApart
    <3> QED BY <3>1, <3>2
  <2> QED BY <2>4, <2>5 DEF Repairable, c
<1>7. CASE Adds(msgs, msg, c)
  <2>1. DOMAIN c = 1..(n + 1) /\ c[n + 1] = msg /\ \A i \in DOMAIN msgs : c[i] = msgs[i]
    BY <1>7 DEF Adds, n
  <2>2. \A i \in DOMAIN c : i \in DOMAIN msgs \/ i = n + 1
    BY <1>2, <2>1
  <2>3. Filled(c)
    BY <1>3, <2>1, <2>2 DEF Filled
  <2>4. UsesApart(c)
    <3> SUFFICES ASSUME NEW i \in DOMAIN c, NEW j \in DOMAIN c, NEW id, id \in UseIds(c[i]), id \in UseIds(c[j])
                 PROVE  i = j
      BY DEF UsesApart
    <3>1. CASE id \in UseIds(msg)
      <4>1. i \notin DOMAIN msgs /\ j \notin DOMAIN msgs
        BY <1>4, <2>1, <3>1
      <4> QED BY <2>2, <4>1
    <3>2. CASE id \notin UseIds(msg)
      <4>1. i \in DOMAIN msgs /\ j \in DOMAIN msgs
        BY <2>1, <2>2, <3>2
      <4>2. id \in UseIds(msgs[i]) /\ id \in UseIds(msgs[j])
        BY <2>1, <4>1
      <4> QED BY <4>1, <4>2 DEF Repairable, UsesApart
    <3> QED BY <3>1, <3>2
  <2> QED BY <2>3, <2>4 DEF Repairable, c
<1> QED BY <1>1, <1>6, <1>7

(* What the user or the tools add.                                         *)
LEMMA UserRepairable ==
  ASSUME NEW F, NEW I, NEW H, NEW msgs \in Chains(F, I, H), NEW msg \in Messages(F, I, H), Repairable(msgs),
         msg.role = "user", UseIds(msg) = {}, ResultIds(msg) \subseteq Unanswered(msgs), msg.content # <<>>
  PROVE  Repairable(AppendMessage(msgs, msg)) /\ EndsWithUser(AppendMessage(msgs, msg))
<1>1. Shaped(AppendMessage(msgs, msg)) /\ EndsWithUser(AppendMessage(msgs, msg))
  BY UserAdded DEF Repairable
<1>2. UseIds(msg) \cap AllUseIds(msgs) = {}
  OBVIOUS
<1> QED BY <1>1, <1>2, AppendRepairable

(* What the model adds, with calls not made before: they are open.         *)
LEMMA AssistantRepairable ==
  ASSUME NEW F, NEW I, NEW H, NEW msgs \in Chains(F, I, H), NEW msg \in Messages(F, I, H), Settled(msgs),
         msg.role = "assistant", ResultIds(msg) = {}, msg.content # <<>>, UseIds(msg) \cap AllUseIds(msgs) = {}
  PROVE  Repairable(AppendMessage(msgs, msg)) /\ UseIds(msg) \subseteq Unanswered(AppendMessage(msgs, msg))
<1>1. Shaped(AppendMessage(msgs, msg))
  BY AssistantAdded DEF Settled
<1>2. Repairable(AppendMessage(msgs, msg))
  BY <1>1, SettledIsRepairable, AppendRepairable
<1>3. UseIds(msg) \subseteq Unanswered(AppendMessage(msgs, msg))
  <2>1. SaysAlso(msgs, msg, AppendMessage(msgs, msg))
    BY AppendSays
  <2>2. AllResultIds(msgs) \subseteq AllUseIds(msgs)
    BY DEF Settled, Clean
  <2> QED BY <2>1, <2>2 DEF SaysAlso, Unanswered
<1> QED BY <1>2, <1>3

-----------------------------------------------------------------------------
(***************************************************************************)
(* What a chain with one more message of text says, and what an adapter    *)
(* makes of a message put in two.                                          *)
(***************************************************************************)

LEMMA UpToNext ==
  ASSUME NEW f, NEW seqs, NEW n \in Nat, UpTo(f, seqs, n), NEW k \in 0..(n - 1)
  PROVE  f[k + 1] = f[k] \o seqs[k + 1]
<1>1. k + 1 \in 0..n /\ k + 1 # 0 /\ (k + 1) - 1 = k
  OBVIOUS
<1>2. f[k + 1] = IF k + 1 = 0 THEN <<>> ELSE f[(k + 1) - 1] \o seqs[k + 1]
  BY <1>1, UpToAt
<1> QED BY <1>1, <1>2

(* The first sequences joined are the same, whatever comes after them.     *)
LEMMA UpToSame ==
  ASSUME NEW seqs, NEW t, NEW n \in Nat, NEW m \in Nat, n <= m, NEW f, NEW g,
         UpTo(f, seqs, n), UpTo(g, t, m), \A i \in 1..n : seqs[i] = t[i]
  PROVE  f[n] = g[n]
<1> DEFINE S == {k \in Nat : k <= n => f[k] = g[k]}
<1>1. 0 \in S
  BY UpToAt
<1>2. ASSUME NEW k \in S PROVE k + 1 \in S
  <2> SUFFICES ASSUME k + 1 <= n PROVE f[k + 1] = g[k + 1]
    OBVIOUS
  <2>1. k \in 0..(n - 1) /\ k \in 0..(m - 1) /\ k + 1 \in 1..n /\ f[k] = g[k]
    OBVIOUS
  <2>2. f[k + 1] = f[k] \o seqs[k + 1]
    BY <2>1, UpToNext
  <2>3. g[k + 1] = g[k] \o t[k + 1]
    BY <2>1, UpToNext
  <2> QED BY <2>1, <2>2, <2>3
<1>3. S = Nat
  <2> HIDE DEF S
  <2>1. S \in SUBSET Nat
    BY DEF S
  <2> QED BY <1>1, <1>2, <2>1, Induction
<1> QED BY <1>3

LEMMA ConcatAppend ==
  ASSUME NEW T, NEW seqs \in Seq(Seq(T)), NEW x \in Seq(T)
  PROVE  Concat(Append(seqs, x)) = Concat(seqs) \o x
<1> DEFINE t == Append(seqs, x)
           n == Len(seqs)
<1>1. n \in Nat /\ Len(t) = n + 1 /\ t[n + 1] = x /\ \A i \in 1..n : seqs[i] = t[i]
  OBVIOUS
<1> HIDE DEF t
<1>2. PICK f : UpTo(f, seqs, n) /\ Concat(seqs) = f[n]
  BY <1>1, ConcatUpTo
<1>3. PICK g : UpTo(g, t, n + 1) /\ Concat(t) = g[n + 1]
  <2>1. Len(t) \in Nat
    BY <1>1
  <2> QED BY <1>1, <2>1, ConcatUpTo
<1> HIDE DEF n
<1>4. f[n] = g[n]
  <2>1. n + 1 \in Nat /\ n <= n + 1
    BY <1>1
  <2> QED BY <1>1, <1>2, <1>3, <2>1, UpToSame
<1>5. g[n + 1] = g[n] \o t[n + 1]
  <2>1. n \in 0..((n + 1) - 1) /\ n + 1 \in Nat
    BY <1>1
  <2> QED BY <1>3, <2>1, UpToNext
<1> QED BY <1>1, <1>2, <1>3, <1>4, <1>5 DEF t

LEMMA ConcatNone == Concat(<<>>) = <<>>
<1>1. Len(<<>>) = 0 /\ 0 \in Nat
  OBVIOUS
<1>2. PICK f : UpTo(f, <<>>, 0) /\ Concat(<<>>) = f[0]
  BY <1>1, ConcatUpTo
<1> QED BY <1>1, <1>2, UpToAt

(* What is selected of a sequence and one more member.                     *)
LEMMA SelectedAppend ==
  ASSUME NEW T, NEW seq \in Seq(T), NEW x \in T, NEW places
  PROVE  Selected(Append(seq, x), places)
           = Selected(seq, places) \o (IF Len(seq) + 1 \in places THEN << x >> ELSE <<>>)
<1> DEFINE n == Len(seq)
           more == Append(seq, x)
           one(i) == IF i \in places THEN << seq[i] >> ELSE <<>>
           two(i) == IF i \in places THEN << more[i] >> ELSE <<>>
           seqs == [i \in DOMAIN seq |-> one(i)]
           t == [i \in DOMAIN more |-> two(i)]
           last == IF n + 1 \in places THEN << x >> ELSE <<>>
<1>1. /\ n \in Nat /\ DOMAIN seq = 1..n /\ DOMAIN more = 1..(n + 1)
      /\ more[n + 1] = x /\ \A i \in 1..n : more[i] = seq[i] /\ seq[i] \in T
  OBVIOUS
<1> HIDE DEF more
<1>2. \A i \in 1..n : one(i) = two(i) /\ one(i) \in Seq(T)
  BY <1>1
<1>3. two(n + 1) = last /\ last \in Seq(T)
  BY <1>1
<1> HIDE DEF one, two, last, n
<1>4. seqs \in Seq(Seq(T)) /\ Len(seqs) = n /\ \A i \in 1..n : seqs[i] = one(i)
  <2>1. seqs \in [1..n -> Seq(T)]
    BY <1>1, <1>2
  <2> QED BY <1>1, <2>1
<1>5. t = Append(seqs, last)
  <2>1. t = [i \in 1..(n + 1) |-> two(i)]
    BY <1>1
  <2> DEFINE u == Append(seqs, last)
  <2> HIDE DEF t, seqs
  <2>2. u \in Seq(Seq(T)) /\ Len(u) = n + 1 /\ u[n + 1] = last /\ \A i \in 1..n : u[i] = seqs[i]
    BY <1>1, <1>3, <1>4
  <2>3. \A i \in 1..(n + 1) : u[i] = two(i)
    BY <1>1, <1>2, <1>3, <1>4, <2>2
  <2> HIDE DEF u
  <2>4. u = [i \in 1..(n + 1) |-> u[i]]
    BY <1>1, <2>2
  <2>5. u = t
    BY <2>1, <2>3, <2>4
  <2> QED BY <2>5 DEF u
<1>6. Selected(seq, places) = Concat(seqs) /\ Selected(more, places) = Concat(t)
  BY DEF Selected, one, two
<1> HIDE DEF seqs, t
<1> QED BY <1>3, <1>4, <1>5, <1>6, ConcatAppend DEF last, more, n

LEMMA SelectedAlike ==
  ASSUME NEW seq, NEW a, NEW b, \A i \in DOMAIN seq : i \in a <=> i \in b
  PROVE  Selected(seq, a) = Selected(seq, b)
<1> DEFINE one(i) == IF i \in a THEN << seq[i] >> ELSE <<>>
           two(i) == IF i \in b THEN << seq[i] >> ELSE <<>>
<1>1. \A i \in DOMAIN seq : one(i) = two(i)
  OBVIOUS
<1>2. Selected(seq, a) = Concat([i \in DOMAIN seq |-> one(i)]) /\ Selected(seq, b) = Concat([i \in DOMAIN seq |-> two(i)])
  BY DEF Selected
<1> HIDE DEF one, two
<1>3. [i \in DOMAIN seq |-> one(i)] = [i \in DOMAIN seq |-> two(i)]
  BY <1>1
<1> QED BY <1>2, <1>3

LEMMA AnswersAppend ==
  ASSUME NEW T, NEW blocks \in Seq(T), NEW b \in T
  PROVE  AnswersOf(Append(blocks, b)) = AnswersOf(blocks) \o (IF IsResult(b) THEN << b >> ELSE <<>>)
<1> DEFINE n == Len(blocks)
           more == Append(blocks, b)
           places == {p \in DOMAIN more : IsResult(more[p])}
           before == {p \in DOMAIN blocks : IsResult(blocks[p])}
<1>1. n \in Nat /\ DOMAIN blocks = 1..n /\ DOMAIN more = 1..(n + 1)
      /\ more[n + 1] = b /\ \A p \in 1..n : more[p] = blocks[p]
  OBVIOUS
<1> HIDE DEF more, n
<1>2. \A p \in DOMAIN blocks : p \in before <=> p \in places
  BY <1>1
<1>3. n + 1 \in places <=> IsResult(b)
  BY <1>1
<1>4. AnswersOf(more) = Selected(more, places) /\ AnswersOf(blocks) = Selected(blocks, before)
  BY DEF AnswersOf
<1> HIDE DEF places, before
<1>5. Selected(blocks, before) = Selected(blocks, places)
  BY <1>2, SelectedAlike
<1>6. Selected(more, places) = Selected(blocks, places) \o (IF n + 1 \in places THEN << b >> ELSE <<>>)
  BY SelectedAppend DEF more, n
<1> QED BY <1>3, <1>4, <1>5, <1>6 DEF more

LEMMA AnswersAre ==
  ASSUME NEW T, NEW blocks \in Seq(T)
  PROVE  AnswersOf(blocks) \in Seq(T)
BY SelectedIs DEF AnswersOf

LEMMA AnswersNone == AnswersOf(<<>>) = <<>>
<1> DEFINE f == [i \in DOMAIN <<>> |-> IF i \in {p \in DOMAIN <<>> : IsResult(<<>>[p])} THEN << <<>>[i] >> ELSE <<>>]
<1>1. f = <<>>
  OBVIOUS
<1>2. AnswersOf(<<>>) = Concat(f)
  BY DEF AnswersOf, Selected
<1> HIDE DEF f
<1> QED BY <1>1, <1>2, ConcatNone

(* The results among blocks put after others.                              *)
LEMMA AnswersJoin ==
  ASSUME NEW T, NEW a \in Seq(T), NEW b \in Seq(T)
  PROVE  AnswersOf(a \o b) = AnswersOf(a) \o AnswersOf(b)
<1> DEFINE Fine(t) == AnswersOf(a \o t) = AnswersOf(a) \o AnswersOf(t)
           S == {k \in Nat : \A t \in Seq(T) : Len(t) = k => Fine(t)}
<1>1. 0 \in S
  <2> SUFFICES ASSUME NEW t \in Seq(T), Len(t) = 0 PROVE Fine(t)
    OBVIOUS
  <2>1. t = <<>> /\ a \o t = a
    OBVIOUS
  <2>2. AnswersOf(a) \in Seq(T)
    BY AnswersAre
  <2>3. \A s \in Seq(T) : s \o <<>> = s
    OBVIOUS
  <2> QED BY <2>1, <2>2, <2>3, AnswersNone
<1>2. ASSUME NEW k \in S PROVE k + 1 \in S
  <2> SUFFICES ASSUME NEW t \in Seq(T), Len(t) = k + 1 PROVE Fine(t)
    OBVIOUS
  <2> DEFINE u == Front(t)
             x == t[k + 1]
             last == IF IsResult(x) THEN << x >> ELSE <<>>
  <2>1. t # <<>> /\ x \in T /\ k + 1 \in DOMAIN t /\ k \in Nat
    OBVIOUS
  <2>2. u \in Seq(T) /\ Len(u) = k /\ \A i \in 1..k : u[i] = t[i]
    <3>1. Front(t) \in Seq(T) /\ Len(Front(t)) = Len(t) - 1 /\ \A i \in 1..(Len(t) - 1) : Front(t)[i] = t[i]
      BY <2>1, FrontIs
    <3>2. Len(t) - 1 = k
      BY <2>1
    <3> HIDE DEF S, Fine
    <3> QED BY <3>1, <3>2
  <2> HIDE DEF u, x
  <2>3. t = Append(u, x)
    <3> DEFINE v == Append(u, x)
    <3>1. v \in Seq(T) /\ Len(v) = k + 1 /\ v[k + 1] = x /\ \A i \in 1..k : v[i] = u[i]
      BY <2>1, <2>2
    <3>2. \A i \in 1..(k + 1) : v[i] = t[i]
      BY <2>1, <2>2, <3>1 DEF x
    <3> HIDE DEF v
    <3>3. v = t
      BY <2>1, <3>1, <3>2
    <3> QED BY <3>3 DEF v
  <2>4. Fine(u)
    BY <2>2
  <2>5. a \o t = Append(a \o u, x) /\ a \o u \in Seq(T)
    BY <2>1, <2>2, <2>3
  <2>6. AnswersOf(a \o t) = AnswersOf(a \o u) \o last
    BY <2>1, <2>5, AnswersAppend
  <2>7. AnswersOf(t) = AnswersOf(u) \o last
    BY <2>1, <2>2, <2>3, AnswersAppend
  <2>8. AnswersOf(a) \in Seq(T) /\ AnswersOf(u) \in Seq(T) /\ last \in Seq(T)
    BY <2>1, <2>2, AnswersAre
  <2> HIDE DEF last
  <2>9. (AnswersOf(a) \o AnswersOf(u)) \o last = AnswersOf(a) \o (AnswersOf(u) \o last)
    BY <2>8, Reassociated
  <2> QED BY <2>4, <2>6, <2>7, <2>9
<1>3. S = Nat
  <2> HIDE DEF S
  <2>1. S \in SUBSET Nat
    BY DEF S
  <2> QED BY <1>1, <1>2, <2>1, Induction
<1>4. Fine(b)
  <2> HIDE DEF Fine
  <2>1. Len(b) \in Nat
    OBVIOUS
  <2> QED BY <1>3, <2>1
<1> QED BY <1>4

(* A function of every member of a sequence, and of one put after another. *)
EachOf(f, s) == [k \in DOMAIN s |-> f[s[k]]]

LEMMA EachJoin ==
  ASSUME NEW T, NEW f, NEW a \in Seq(T), NEW b \in Seq(T)
  PROVE  EachOf(f, a \o b) = EachOf(f, a) \o EachOf(f, b)
<1> DEFINE c == a \o b
           s == EachOf(f, a)
           t == EachOf(f, b)
           U == {f[x] : x \in T}
<1>1. /\ Len(a) \in Nat /\ DOMAIN a = 1..Len(a) /\ Len(b) \in Nat /\ DOMAIN b = 1..Len(b)
      /\ \A k \in DOMAIN a : a[k] \in T
      /\ \A k \in DOMAIN b : b[k] \in T
  OBVIOUS
<1>2. DOMAIN c = 1..(Len(a) + Len(b)) /\ Follows(a, b)
  BY JoinedAfter
<1>3. s \in Seq(U) /\ t \in Seq(U) /\ Len(s) = Len(a) /\ Len(t) = Len(b)
      /\ (\A k \in DOMAIN a : s[k] = f[a[k]]) /\ (\A k \in DOMAIN b : t[k] = f[b[k]])
  <2>1. s = [k \in 1..Len(a) |-> f[a[k]]] /\ t = [k \in 1..Len(b) |-> f[b[k]]]
    BY <1>1 DEF EachOf
  <2>2. (\A k \in 1..Len(a) : f[a[k]] \in U) /\ (\A k \in 1..Len(b) : f[b[k]] \in U)
    BY <1>1
  <2> HIDE DEF U, s, t
  <2> QED BY <1>1, <2>1, <2>2
<1> HIDE DEF s, t, U
<1> DEFINE w == s \o t
<1>4. /\ DOMAIN w = 1..(Len(a) + Len(b)) /\ w = [k \in DOMAIN w |-> w[k]] /\ Follows(s, t)
  <2>1. Follows(s, t)
    BY <1>3, JoinedAfter
  <2>2. w \in Seq(U)
    BY <1>3
  <2>3. DOMAIN w = 1..(Len(a) + Len(b))
    BY <1>3, <2>1 DEF Follows
  <2>4. \A x \in Seq(U) : x = [k \in DOMAIN x |-> x[k]]
    OBVIOUS
  <2> HIDE DEF w
  <2> QED BY <2>1, <2>2, <2>3, <2>4
<1>5. \A k \in DOMAIN c : w[k] = f[c[k]]
  <2> SUFFICES ASSUME NEW k \in DOMAIN c PROVE w[k] = f[c[k]]
    OBVIOUS
  <2>1. CASE k \in DOMAIN a
    <3>1. c[k] = a[k] /\ k \in DOMAIN s
      BY <1>1, <1>2, <1>3, <2>1 DEF Follows
    <3>2. w[k] = s[k]
      BY <1>4, <3>1 DEF Follows
    <3> QED BY <1>3, <2>1, <3>1, <3>2
  <2>2. CASE k \notin DOMAIN a
    <3>1. k - Len(a) \in DOMAIN b /\ c[k] = b[k - Len(a)] /\ k \in Nat
      BY <1>1, <1>2, <2>2 DEF Follows
    <3>2. k - Len(a) \in DOMAIN t /\ Len(a) + (k - Len(a)) = k
      BY <1>1, <1>3, <3>1
    <3>3. w[Len(s) + (k - Len(a))] = t[k - Len(a)]
      BY <1>4, <3>2 DEF Follows
    <3> QED BY <1>3, <3>1, <3>2, <3>3
  <2> QED BY <2>1, <2>2
<1> HIDE DEF w, c
<1>6. EachOf(f, c) = w
  <2>1. DOMAIN c = DOMAIN w
    BY <1>2, <1>4
  <2> QED BY <1>4, <1>5, <2>1 DEF EachOf
<1> QED BY <1>6 DEF c, w, s, t

(* A message in the OpenAI form, by itself: no result repeats another.     *)
ToolWires(msg) == [k \in DOMAIN Replies(msg) |-> WireMessage("tool", << Replies(msg)[k] >>)]

WireOf(msg) ==
  IF msg.role = "assistant" THEN <<WireMessage("assistant", Uses(msg))>> ELSE ToolWires(msg) \o UserText(msg)

LEMMA SerializedAlone ==
  ASSUME NEW F, NEW I, NEW H, NEW msgs \in Chains(F, I, H), Clean(msgs), NEW i \in DOMAIN msgs
  PROVE  SerializeMessage(msgs, i) = WireOf(msgs[i])
<1>1. NewResults(msgs, i) = ToolWires(msgs[i])
  BY MessageLists DEF ToolWires
<1> QED BY <1>1 DEF SerializeMessage, WireOf

LEMMA RepliesAre ==
  ASSUME NEW F, NEW I, NEW H, NEW msg \in Messages(F, I, H)
  PROVE  /\ Replies(msg) \in Seq(I \cup H) /\ Len(Replies(msg)) \in Nat /\ DOMAIN Replies(msg) = 1..Len(Replies(msg))
         /\ ToolWires(msg) \in Seq(WireItems(I \cup H)) /\ Len(ToolWires(msg)) = Len(Replies(msg))
         /\ UserText(msg) \in Seq(WireItems(I \cup H))
         /\ Uses(msg) \in Seq(I \cup H)
<1> DEFINE blocks == msg.content
           out == AnswersOf(blocks)
           calls == CallsOf(blocks)
           J == I \cup H
<1>1. blocks \in Seq(BlocksOf(F, I, H))
  BY DEF Messages
<1>2. out \in Seq(BlocksOf(F, I, H)) /\ \A q \in DOMAIN out : IsResult(out[q])
  BY <1>1, SelectedIs DEF AnswersOf
<1>3. calls \in Seq(BlocksOf(F, I, H)) /\ \A q \in DOMAIN calls : IsUse(calls[q])
  BY <1>1, SelectedIs DEF CallsOf
<1>4. Replies(msg) = [k \in DOMAIN out |-> out[k].id] /\ Uses(msg) = [k \in DOMAIN calls |-> calls[k].id]
  BY DEF Replies, Uses, IdsOf
<1> HIDE DEF out, calls
<1>5. \A b \in BlocksOf(F, I, H) : IsResult(b) \/ IsUse(b) => b.id \in J
  BY KindsAre DEF IsResult, IsUse
<1>6. /\ Len(out) \in Nat /\ DOMAIN out = 1..Len(out) /\ \A q \in DOMAIN out : out[q].id \in J
      /\ Len(calls) \in Nat /\ DOMAIN calls = 1..Len(calls) /\ \A q \in DOMAIN calls : calls[q].id \in J
  BY <1>2, <1>3, <1>5
<1> HIDE DEF J
<1>7. Replies(msg) \in Seq(J) /\ Len(Replies(msg)) = Len(out) /\ DOMAIN Replies(msg) = 1..Len(out)
      /\ Uses(msg) \in Seq(J)
  BY <1>4, <1>6
<1> DEFINE r == Replies(msg)
<1>8. \A k \in DOMAIN r : WireMessage("tool", << r[k] >>) \in WireItems(J)
  BY <1>6, <1>7 DEF WireMessage, WireItems
<1> HIDE DEF r
<1>9. ToolWires(msg) \in Seq(WireItems(J)) /\ Len(ToolWires(msg)) = Len(out)
  BY <1>6, <1>7, <1>8 DEF ToolWires, r
<1>10. WireMessage("user", <<>>) \in WireItems(J)
  BY DEF WireMessage, WireItems
<1>11. UserText(msg) \in Seq(WireItems(J))
  BY <1>10 DEF UserText
<1> QED BY <1>6, <1>7, <1>9, <1>11 DEF J

LEMMA WireIs ==
  ASSUME NEW F, NEW I, NEW H, NEW msg \in Messages(F, I, H)
  PROVE  WireOf(msg) \in Seq(WireItems(I \cup H))
<1>1. /\ ToolWires(msg) \in Seq(WireItems(I \cup H)) /\ UserText(msg) \in Seq(WireItems(I \cup H))
      /\ WireMessage("assistant", Uses(msg)) \in WireItems(I \cup H)
  BY RepliesAre DEF WireMessage, WireItems
<1> DEFINE items == WireItems(I \cup H)
           one == WireMessage("assistant", Uses(msg))
<1>2. << one >> \in Seq(items) /\ ToolWires(msg) \o UserText(msg) \in Seq(items)
  <2> HIDE DEF one, items
  <2>1. one \in items /\ ToolWires(msg) \in Seq(items) /\ UserText(msg) \in Seq(items)
    BY <1>1 DEF one, items
  <2> QED BY <2>1
<1> QED BY <1>2 DEF WireOf

(* A message without text, one with text, and the one with what both say.  *)
Together(a, b, c) ==
  /\ a.role = "user" /\ b.role = "user" /\ c.role = "user" /\ c.content = a.content \o b.content
  /\ ~HasText(a) /\ HasText(b)

LEMMA WireJoined ==
  ASSUME NEW F, NEW I, NEW H, NEW a \in Messages(F, I, H), NEW b \in Messages(F, I, H),
         NEW c \in Messages(F, I, H), Together(a, b, c)
  PROVE  WireOf(c) = WireOf(a) \o WireOf(b)
<1> DEFINE items == WireItems(I \cup H)
<1> USE DEF Together
<1>1. a.content \in Seq(BlocksOf(F, I, H)) /\ b.content \in Seq(BlocksOf(F, I, H))
  BY DEF Messages
<1>2. AnswersOf(c.content) = AnswersOf(a.content) \o AnswersOf(b.content)
  BY <1>1, AnswersJoin
<1>3. Replies(c) = Replies(a) \o Replies(b)
  <2> DEFINE s == AnswersOf(a.content)
             t == AnswersOf(b.content)
             u == s \o t
  <2>1. s \in Seq(BlocksOf(F, I, H)) /\ t \in Seq(BlocksOf(F, I, H))
    BY <1>1, AnswersAre
  <2>2. Replies(c) = IdsOf(u) /\ Replies(a) = IdsOf(s) /\ Replies(b) = IdsOf(t)
    BY <1>2 DEF Replies
  <2> HIDE DEF s, t
  <2> DEFINE f == [x \in BlocksOf(F, I, H) |-> x.id]
  <2>3. EachOf(f, u) = EachOf(f, s) \o EachOf(f, t)
    BY <2>1, EachJoin
  <2>4. \A x \in Seq(BlocksOf(F, I, H)) : EachOf(f, x) = IdsOf(x)
    BY DEF EachOf, IdsOf
  <2>5. u \in Seq(BlocksOf(F, I, H))
    BY <2>1
  <2> HIDE DEF u, f
  <2> QED BY <2>1, <2>2, <2>3, <2>4, <2>5 DEF u
<1>4. ToolWires(c) = ToolWires(a) \o ToolWires(b)
  <2> DEFINE s == Replies(a)
             t == Replies(b)
             u == s \o t
  <2>1. s \in Seq(I \cup H) /\ t \in Seq(I \cup H)
    BY RepliesAre
  <2>2. /\ ToolWires(c) = [k \in DOMAIN u |-> WireMessage("tool", << u[k] >>)]
        /\ ToolWires(a) = [k \in DOMAIN s |-> WireMessage("tool", << s[k] >>)]
        /\ ToolWires(b) = [k \in DOMAIN t |-> WireMessage("tool", << t[k] >>)]
    BY <1>3 DEF ToolWires
  <2> HIDE DEF s, t
  <2> DEFINE f == [x \in I \cup H |-> WireMessage("tool", << x >>)]
  <2>3. EachOf(f, u) = EachOf(f, s) \o EachOf(f, t)
    BY <2>1, EachJoin
  <2>4. \A x \in Seq(I \cup H) : EachOf(f, x) = [k \in DOMAIN x |-> WireMessage("tool", << x[k] >>)]
    BY DEF EachOf
  <2>5. u \in Seq(I \cup H)
    BY <2>1
  <2> HIDE DEF u, f
  <2> QED BY <2>1, <2>2, <2>3, <2>4, <2>5 DEF u
<1>5. HasText(c)
  <2>1. PICK p \in DOMAIN b.content : b.content[p].kind = "text"
    BY DEF HasText, ToSet
  <2>2. Follows(a.content, b.content)
    BY <1>1, JoinedAfter
  <2>3. Len(a.content) + p \in DOMAIN c.content /\ c.content[Len(a.content) + p] = b.content[p]
    BY <2>1, <2>2 DEF Follows
  <2> QED BY <2>1, <2>3 DEF HasText, ToSet
<1>6. UserText(a) = <<>> /\ UserText(b) = UserText(c)
  BY <1>5 DEF UserText
<1>7. ToolWires(a) \in Seq(items) /\ ToolWires(b) \in Seq(items) /\ UserText(b) \in Seq(items)
  BY RepliesAre
<1>8. \A s \in Seq(items) : s \o <<>> = s
  OBVIOUS
<1>9. WireOf(a) = ToolWires(a) /\ WireOf(b) = ToolWires(b) \o UserText(b) /\ WireOf(c) = ToolWires(c) \o UserText(b)
  BY <1>6, <1>7, <1>8 DEF WireOf
<1> HIDE DEF items
<1> QED BY <1>4, <1>7, <1>9, Reassociated

TextOnly(msg) == \A p \in DOMAIN msg.content : msg.content[p].kind = "text"

LEMMA TextSays ==
  ASSUME NEW msg, TextOnly(msg)
  PROVE  UseIds(msg) = {} /\ ResultIds(msg) = {}
<1>1. \A b \in ToSet(msg.content) : b.kind = "text"
  BY DEF TextOnly, ToSet
<1> QED BY <1>1 DEF UseIds, ResultIds, IsUse, IsResult

(* A chain and one more message of text.                                   *)
MoreText(msgs, msg, c) ==
  /\ Len(c) = Len(msgs) + 1 /\ DOMAIN c = 1..(Len(msgs) + 1)
  /\ \A i \in DOMAIN msgs : c[i] = msgs[i]
  /\ c[Len(msgs) + 1] = msg
  /\ AllUseIds(c) = AllUseIds(msgs) /\ AllResultIds(c) = AllResultIds(msgs)

LEMMA TextAppended ==
  ASSUME NEW F, NEW I, NEW H, NEW msgs \in Chains(F, I, H), NEW msg \in Messages(F, I, H),
         TextOnly(msg)
  PROVE  Append(msgs, msg) \in Chains(F, I, H) /\ MoreText(msgs, msg, Append(msgs, msg))
<1> DEFINE c == Append(msgs, msg)
           n == Len(msgs)
<1>1. c \in Chains(F, I, H)
  BY DEF Chains
<1>2. n \in Nat /\ DOMAIN msgs = 1..n /\ Len(c) = n + 1 /\ DOMAIN c = 1..(n + 1)
      /\ c[n + 1] = msg /\ \A i \in DOMAIN msgs : c[i] = msgs[i]
  BY DEF Chains
<1>3. UseIds(msg) = {} /\ ResultIds(msg) = {}
  BY TextSays
<1> HIDE DEF c, n
<1>4. \A i : i \in DOMAIN c <=> i \in DOMAIN msgs \/ i = n + 1
  BY <1>2
<1>5. \A id : id \in AllUseIds(c) <=> id \in AllUseIds(msgs)
  BY <1>2, <1>3, <1>4, AnsweredBy
<1>6. \A id : id \in AllResultIds(c) <=> id \in AllResultIds(msgs)
  BY <1>2, <1>3, <1>4, AnsweredBy
<1> QED BY <1>1, <1>2, <1>5, <1>6 DEF MoreText, c, n

LEMMA TextKeepsClean ==
  ASSUME NEW F, NEW I, NEW H, NEW msgs \in Chains(F, I, H), NEW msg \in Messages(F, I, H),
         TextOnly(msg), msg.content # <<>>, Clean(msgs)
  PROVE  Clean(Append(msgs, msg))
<1> DEFINE c == Append(msgs, msg)
           n == Len(msgs)
<1>1. MoreText(msgs, msg, c)
  BY TextAppended
<1>2. n \in Nat /\ DOMAIN msgs = 1..n
  BY ChainIs
<1> HIDE DEF c
<1>3. \A i \in DOMAIN c : (i \in DOMAIN msgs /\ c[i] = msgs[i]) \/ c[i] = msg
  BY <1>1, <1>2 DEF MoreText, n
<1>4. \A i \in DOMAIN c : c[i].content # <<>>
  BY <1>3 DEF Clean
<1>5. Distinct(c)
  <2> SUFFICES ASSUME NEW i \in DOMAIN c, NEW j \in DOMAIN c,
                      NEW p \in DOMAIN c[i].content, NEW q \in DOMAIN c[j].content,
                      Twice(c[i].content[p], c[j].content[q])
               PROVE  i = j /\ p = q
    BY DEF Distinct
  <2>1. c[i] # msg /\ c[j] # msg
    BY DEF Twice, TextOnly
  <2> QED BY <1>3, <2>1 DEF Clean, Distinct
<1>6. AllResultIds(c) \subseteq AllUseIds(c)
  BY <1>1 DEF MoreText, Clean
<1> QED BY <1>4, <1>5, <1>6 DEF Clean, c

(* What stood before a reply was answered.                                 *)
LEMMA FrontIsSettled ==
  ASSUME NEW F, NEW I, NEW H, NEW msgs \in Chains(F, I, H), Repairable(msgs), Clean(msgs),
         msgs # <<>>, msgs[Len(msgs)].role = "assistant"
  PROVE  /\ Front(msgs) \in Chains(F, I, H) /\ Len(Front(msgs)) = Len(msgs) - 1
         /\ DOMAIN Front(msgs) = 1..(Len(msgs) - 1)
         /\ \A i \in 1..(Len(msgs) - 1) : Front(msgs)[i] = msgs[i]
         /\ Front(msgs) = <<>> \/ Settled(Front(msgs))
<1> DEFINE n == Len(msgs)
           m == n - 1
           s == Front(msgs)
<1>1. n \in Nat /\ DOMAIN msgs = 1..n /\ n \in DOMAIN msgs /\ m \in Nat
  BY DEF Chains
<1>2. s \in Chains(F, I, H) /\ Len(s) = m /\ \A i \in 1..m : s[i] = msgs[i]
  BY FrontIs DEF Chains
<1>3. DOMAIN s = 1..m
  BY <1>1, <1>2 DEF Chains
<1>4. Shaped(msgs) /\ UsesApart(msgs)
  BY DEF Repairable
<1>5. \A i \in DOMAIN msgs : msgs[i].role \in {"user", "assistant"}
  BY ChainIs DEF Messages
<1> HIDE DEF s
<1>6. SUFFICES ASSUME s # <<>> PROVE Settled(s)
  BY <1>2, <1>3 DEF s
<1>7. m # 0
  BY <1>2, <1>6 DEF Chains
<1>8. m \in DOMAIN s /\ m \in DOMAIN msgs /\ m + 1 = n
  BY <1>1, <1>3, <1>7
<1>9. \A i \in DOMAIN s : i \in DOMAIN msgs /\ s[i] = msgs[i] /\ i \in Nat /\ i <= m
  BY <1>1, <1>2, <1>3
<1> HIDE DEF m
<1>10. msgs[m].role = "user"
  <2>1. m \in 1..(n - 1)
    BY <1>3, <1>8 DEF m
  <2>2. msgs[m].role # msgs[m + 1].role
    BY <1>4, <2>1 DEF Shaped, Alternating
  <2> QED BY <1>5, <1>8, <2>2
<1>11. EndsWithUser(s)
  BY <1>2, <1>6, <1>8, <1>9, <1>10 DEF EndsWithUser
<1>12. ASSUME NEW i \in DOMAIN s, i # m
       PROVE  i + 1 \in DOMAIN s /\ i + 1 < Len(msgs) /\ ResultIds(msgs[i + 1]) = UseIds(msgs[i])
  <2>1. i + 1 \in DOMAIN s /\ i + 1 < Len(msgs)
    BY <1>1, <1>3, <1>8, <1>9, <1>12
  <2> QED BY <1>4, <1>9, <2>1 DEF Shaped
<1>13. Shaped(s)
  <2>1. Alternating(s)
    <3> SUFFICES ASSUME NEW i \in 1..(Len(s) - 1) PROVE s[i].role # s[i + 1].role
      BY DEF Alternating
    <3>1. i \in DOMAIN s /\ i + 1 \in DOMAIN s /\ i \in 1..(Len(msgs) - 1)
      BY <1>1, <1>2, <1>3, <1>8
    <3>2. msgs[i].role # msgs[i + 1].role
      BY <1>4, <3>1 DEF Shaped, Alternating
    <3> QED BY <1>9, <3>1, <3>2
  <2>2. ASSUME NEW i \in DOMAIN s
        PROVE  /\ s[i].role = "user" => UseIds(s[i]) = {}
               /\ s[i].role = "assistant" => ResultIds(s[i]) = {}
               /\ ResultIds(s[i]) \subseteq UsesBefore(s, i)
               /\ i + 1 < Len(s) => ResultIds(s[i + 1]) = UseIds(s[i])
    <3>1. UsesBefore(s, i) = UsesBefore(msgs, i)
      <4> SUFFICES ASSUME i # 1 PROVE UseIds(s[i - 1]) = UseIds(msgs[i - 1])
        BY DEF UsesBefore
      <4>1. i - 1 \in DOMAIN s
        BY <1>1, <1>3, <1>9
      <4> QED BY <1>9, <4>1
    <3>2. i + 1 < Len(s) => ResultIds(s[i + 1]) = UseIds(s[i])
      <4> SUFFICES ASSUME i + 1 < Len(s) PROVE ResultIds(s[i + 1]) = UseIds(s[i])
        OBVIOUS
      <4>1. i # m
        BY <1>1, <1>2, <1>9, <1>8
      <4>2. i + 1 \in DOMAIN s /\ ResultIds(msgs[i + 1]) = UseIds(msgs[i])
        BY <1>12, <4>1
      <4> QED BY <1>9, <4>2
    <3> QED BY <1>4, <1>9, <3>1, <3>2 DEF Shaped
  <2> QED BY <2>1, <2>2 DEF Shaped
<1>14. ASSUME NEW id \in AllUseIds(s) PROVE id \in AllResultIds(s)
  <2>1. PICK i \in DOMAIN s : id \in UseIds(s[i])
    BY <1>14, AnsweredBy
  <2>2. i # m
    BY <1>4, <1>8, <1>9, <1>10, <2>1 DEF Shaped
  <2>3. i + 1 \in DOMAIN s /\ id \in ResultIds(msgs[i + 1])
    BY <1>9, <1>12, <2>1, <2>2
  <2> QED BY <1>9, <2>3, AnsweredBy
<1>15. ASSUME NEW id \in AllResultIds(s) PROVE id \in AllUseIds(s)
  <2>1. PICK i \in DOMAIN s : id \in ResultIds(s[i])
    BY <1>15, AnsweredBy
  <2>2. i # 1 /\ id \in UseIds(s[i - 1])
    BY <1>13, <2>1 DEF Shaped, UsesBefore
  <2>3. i - 1 \in DOMAIN s
    BY <1>1, <1>3, <1>9, <2>2
  <2> QED BY <2>2, <2>3, AnsweredBy
<1>16. Clean(s)
  <2>1. \A i \in DOMAIN s : s[i].content # <<>>
    BY <1>9 DEF Clean
  <2>2. Distinct(s)
    BY <1>9 DEF Clean, Distinct
  <2> QED BY <1>15, <2>1, <2>2 DEF Clean
<1> QED BY <1>11, <1>13, <1>14, <1>16 DEF Settled, Unanswered

(* The first pass over a chain, and two messages more.                     *)
WithKept(msgs, i, out) ==
  IF KeptBlocks(msgs, i) = <<>> THEN out ELSE Append(out, Message(msgs[i].role, KeptBlocks(msgs, i)))

KeptWhole(s, c) ==
  \A i \in DOMAIN s : Message(c[i].role, KeptBlocks(c, i)) = s[i] /\ s[i].content # <<>>

LEMMA DropAfter ==
  ASSUME NEW F, NEW I, NEW H, NEW s \in Chains(F, I, H), NEW c \in Chains(F, I, H),
         Len(c) = Len(s) + 2, KeptWhole(s, c)
  PROVE  DropInvalidBlocks(c) = WithKept(c, Len(s) + 2, WithKept(c, Len(s) + 1, s))
<1> DEFINE n == Len(s)
           kept(i) == Message(c[i].role, KeptBlocks(c, i))
           all == [i \in DOMAIN c |-> kept(i)]
           T == Messages(F, I, H)
           a == kept(n + 1)
           b == kept(n + 2)
           filled == {i \in DOMAIN all : all[i].content # <<>>}
           more == Append(s, a)
           last == Append(more, b)
<1>1. n \in Nat /\ n = Len(s) /\ DOMAIN s = 1..n /\ DOMAIN c = 1..(n + 2) /\ s \in Seq(T) /\ c \in Seq(T)
  BY DEF Chains
<1> HIDE DEF n
<1>2. \A i \in DOMAIN c : kept(i) \in T
  <2> SUFFICES ASSUME NEW i \in DOMAIN c PROVE kept(i) \in T
    OBVIOUS
  <2>1. c[i].content \in Seq(BlocksOf(F, I, H)) /\ c[i].role \in {"user", "assistant"}
    <3>1. c[i] \in T
      BY DEF Chains
    <3> QED BY <3>1 DEF Messages
  <2>2. KeptBlocks(c, i) \in Seq(BlocksOf(F, I, H))
    BY <2>1, SelectedIs DEF KeptBlocks
  <2> QED BY <2>1, <2>2 DEF Message, Messages
<1>3. n + 1 \in DOMAIN c /\ n + 2 \in DOMAIN c /\ a \in T /\ b \in T
  <2>1. n + 1 \in DOMAIN c /\ n + 2 \in DOMAIN c
    BY <1>1
  <2> HIDE DEF kept, T
  <2> QED BY <1>2, <2>1
<1>4. \A i \in DOMAIN s : kept(i) = s[i] /\ s[i].content # <<>>
  BY DEF KeptWhole
<1> HIDE DEF kept
<1>5. more \in Seq(T) /\ Len(more) = n + 1 /\ more[n + 1] = a /\ \A i \in 1..n : more[i] = s[i]
  <2> HIDE DEF T, a
  <2> QED BY <1>1, <1>3
<1> HIDE DEF more
<1>6. last \in Seq(T) /\ Len(last) = n + 2 /\ last[n + 2] = b /\ \A i \in 1..(n + 1) : last[i] = more[i]
  <2> HIDE DEF T, b
  <2> QED BY <1>1, <1>3, <1>5
<1> HIDE DEF last
<1>7. \A i \in 1..(n + 2) : last[i] = kept(i)
  <2>1. \A i \in 1..(n + 2) : i \in 1..n \/ i = n + 1 \/ i = n + 2
    BY <1>1
  <2>2. n + 1 \in 1..(n + 1) /\ \A i \in 1..n : i \in 1..(n + 1)
    BY <1>1
  <2> QED BY <1>1, <1>4, <1>5, <1>6, <2>1, <2>2
<1>8. all = last
  <2>1. all = [i \in 1..(n + 2) |-> kept(i)]
    BY <1>1
  <2>2. last = [i \in 1..(n + 2) |-> last[i]]
    <3>1. \A x \in Seq(T) : x = [i \in 1..Len(x) |-> x[i]]
      OBVIOUS
    <3> HIDE DEF T
    <3> QED BY <1>6, <3>1
  <2> HIDE DEF all
  <2> QED BY <1>7, <2>1, <2>2
<1>9. DropInvalidBlocks(c) = Selected(last, filled)
  BY <1>8 DEF DropInvalidBlocks, WithoutEmpty, kept
<1>10. /\ DOMAIN s \subseteq filled
       /\ n + 1 \in filled <=> KeptBlocks(c, n + 1) # <<>>
       /\ n + 2 \in filled <=> KeptBlocks(c, n + 2) # <<>>
  <2>1. DOMAIN all = DOMAIN c /\ \A i \in DOMAIN c : all[i] = kept(i)
    OBVIOUS
  <2>2. \A i \in DOMAIN c : i \in filled <=> kept(i).content # <<>>
    BY <2>1
  <2>3. \A i : kept(i).content = KeptBlocks(c, i)
    BY DEF kept, Message
  <2>4. DOMAIN s \subseteq DOMAIN c
    BY <1>1
  <2> HIDE DEF all, filled
  <2> QED BY <1>3, <1>4, <2>2, <2>3, <2>4
<1> HIDE DEF all, filled, T
<1>11. Selected(s, filled) = s
  BY <1>1, <1>10, SelectedAll
<1>12. Selected(more, filled) = s \o (IF n + 1 \in filled THEN << a >> ELSE <<>>)
  BY <1>1, <1>3, <1>11, SelectedAppend DEF more
<1>13. Selected(last, filled) = Selected(more, filled) \o (IF n + 2 \in filled THEN << b >> ELSE <<>>)
  <2>1. (n + 1) + 1 = n + 2
    BY <1>1
  <2>2. Selected(last, filled) = Selected(more, filled) \o (IF (n + 1) + 1 \in filled THEN << b >> ELSE <<>>)
    BY <1>3, <1>5, SelectedAppend DEF last
  <2> QED BY <2>1, <2>2
<1>14. \A x \in Seq(T) : \A e \in T : x \o << e >> = Append(x, e) /\ x \o <<>> = x
  OBVIOUS
<1>15. Selected(more, filled) = WithKept(c, n + 1, s) /\ Selected(more, filled) \in Seq(T)
  <2>1. Selected(more, filled) \in Seq(T)
    BY <1>5, SelectedIs
  <2>2. WithKept(c, n + 1, s) = IF KeptBlocks(c, n + 1) = <<>> THEN s ELSE Append(s, a)
    BY DEF WithKept, a, kept
  <2>3. s \o << a >> = Append(s, a) /\ s \o <<>> = s
    BY <1>1, <1>3, <1>14
  <2> HIDE DEF a
  <2> QED BY <1>10, <1>12, <2>1, <2>2, <2>3
<1>16. Selected(last, filled) = WithKept(c, n + 2, Selected(more, filled))
  <2> DEFINE x == Selected(more, filled)
  <2>1. WithKept(c, n + 2, x) = IF KeptBlocks(c, n + 2) = <<>> THEN x ELSE Append(x, b)
    BY DEF WithKept, b, kept
  <2>2. x \o << b >> = Append(x, b) /\ x \o <<>> = x
    BY <1>3, <1>14, <1>15
  <2> HIDE DEF x, b
  <2>3. Selected(last, filled) = x \o (IF n + 2 \in filled THEN << b >> ELSE <<>>)
    BY <1>13 DEF x
  <2>4. Selected(last, filled) = WithKept(c, n + 2, x)
    <3>1. CASE KeptBlocks(c, n + 2) = <<>>
      <4>1. n + 2 \notin filled
        BY <1>10, <3>1
      <4> QED BY <2>1, <2>2, <2>3, <3>1, <4>1
    <3>2. CASE KeptBlocks(c, n + 2) # <<>>
      <4>1. n + 2 \in filled
        BY <1>10, <3>2
      <4> QED BY <2>1, <2>2, <2>3, <3>2, <4>1
    <3> QED BY <3>1, <3>2
  <2> QED BY <2>4 DEF x
<1> QED BY <1>1, <1>9, <1>15, <1>16

LEMMA AllKept ==
  ASSUME NEW F, NEW I, NEW H, NEW msgs \in Chains(F, I, H), NEW i \in DOMAIN msgs,
         \A p \in DOMAIN msgs[i].content : Keeps(msgs, i, p)
  PROVE  KeptBlocks(msgs, i) = msgs[i].content /\ Message(msgs[i].role, KeptBlocks(msgs, i)) = msgs[i]
<1> DEFINE places == {p \in DOMAIN msgs[i].content : Keeps(msgs, i, p)}
<1>1. msgs[i].content \in Seq(BlocksOf(F, I, H)) /\ DOMAIN msgs[i].content \subseteq places
  BY ChainIs
<1>2. KeptBlocks(msgs, i) = Selected(msgs[i].content, places)
  BY DEF KeptBlocks
<1> HIDE DEF places
<1>3. KeptBlocks(msgs, i) = msgs[i].content
  BY <1>1, <1>2, SelectedAll
<1> QED BY <1>3, ChainIs

LEMMA EndsAlike ==
  ASSUME NEW T, NEW s \in Seq(T), NEW t \in Seq(T), Len(t) = Len(s) + 1, \A i \in DOMAIN s : t[i] = s[i]
  PROVE  t = Append(s, t[Len(t)])
<1> DEFINE n == Len(s)
           x == t[n + 1]
           u == Append(s, x)
<1>1. n \in Nat /\ DOMAIN s = 1..n /\ Len(t) = n + 1 /\ DOMAIN t = 1..(n + 1) /\ x \in T
  OBVIOUS
<1>2. u \in Seq(T) /\ Len(u) = n + 1 /\ u[n + 1] = x /\ \A i \in 1..n : u[i] = s[i]
  <2> HIDE DEF x
  <2> QED BY <1>1
<1>3. \A i \in 1..(n + 1) : u[i] = t[i]
  BY <1>1, <1>2
<1> HIDE DEF u
<1>4. u = t
  BY <1>1, <1>2, <1>3
<1> QED BY <1>1, <1>4 DEF u, n

WiresOf(msgs) == [i \in DOMAIN msgs |-> WireOf(msgs[i])]

LEMMA WiresAre ==
  ASSUME NEW F, NEW I, NEW H, NEW msgs \in Chains(F, I, H)
  PROVE  WiresOf(msgs) \in Seq(Seq(WireItems(I \cup H))) /\ Len(WiresOf(msgs)) = Len(msgs)
         /\ (Clean(msgs) => OpenAIMessages(msgs) = Concat(WiresOf(msgs)))
<1> DEFINE S == Seq(WireItems(I \cup H))
<1>1. Len(msgs) \in Nat /\ DOMAIN msgs = 1..Len(msgs) /\ \A i \in DOMAIN msgs : msgs[i] \in Messages(F, I, H)
  BY ChainIs
<1>2. \A i \in DOMAIN msgs : WireOf(msgs[i]) \in S
  BY <1>1, WireIs
<1> HIDE DEF S
<1>3. WiresOf(msgs) \in Seq(S) /\ Len(WiresOf(msgs)) = Len(msgs)
  BY <1>1, <1>2 DEF WiresOf
<1>4. ASSUME Clean(msgs) PROVE OpenAIMessages(msgs) = Concat(WiresOf(msgs))
  <2>1. \A i \in DOMAIN msgs : SerializeMessage(msgs, i) = WireOf(msgs[i])
    BY <1>4, SerializedAlone
  <2>2. [i \in DOMAIN msgs |-> SerializeMessage(msgs, i)] = WiresOf(msgs)
    BY <2>1 DEF WiresOf
  <2> QED BY <2>2 DEF OpenAIMessages
<1> QED BY <1>3, <1>4 DEF S

LEMMA WiresAppend ==
  ASSUME NEW F, NEW I, NEW H, NEW msgs \in Chains(F, I, H), NEW msg \in Messages(F, I, H)
  PROVE  WiresOf(Append(msgs, msg)) = Append(WiresOf(msgs), WireOf(msg))
<1> DEFINE S == Seq(WireItems(I \cup H))
           n == Len(msgs)
           c == Append(msgs, msg)
           s == WiresOf(msgs)
           t == WiresOf(c)
<1>1. n \in Nat /\ DOMAIN msgs = 1..n /\ c \in Chains(F, I, H) /\ Len(c) = n + 1 /\ c[n + 1] = msg
      /\ DOMAIN c = 1..(n + 1) /\ \A i \in 1..n : c[i] = msgs[i]
  BY DEF Chains
<1>2. s \in Seq(S) /\ Len(s) = n /\ DOMAIN s = 1..n /\ \A i \in 1..n : s[i] = WireOf(msgs[i])
  <2>1. s \in Seq(S) /\ Len(s) = n
    BY WiresAre
  <2> QED BY <1>1, <2>1 DEF WiresOf
<1> HIDE DEF c
<1>3. t \in Seq(S) /\ Len(t) = n + 1 /\ \A i \in 1..(n + 1) : t[i] = WireOf(c[i])
  <2>1. t \in Seq(S) /\ Len(t) = n + 1
    BY <1>1, WiresAre
  <2> QED BY <1>1, <2>1 DEF WiresOf
<1> HIDE DEF s, t, S, n
<1>4. n + 1 \in 1..(n + 1) /\ \A i \in 1..n : i \in 1..(n + 1)
  BY <1>1
<1>5. t[n + 1] = WireOf(msg) /\ \A i \in DOMAIN s : t[i] = s[i]
  BY <1>1, <1>2, <1>3, <1>4
<1>6. t = Append(s, t[Len(t)])
  <2>1. Len(t) = Len(s) + 1
    BY <1>2, <1>3
  <2> QED BY <1>2, <1>3, <1>5, <2>1, EndsAlike
<1> QED BY <1>3, <1>5, <1>6 DEF s, t, c

(* One sequence split in two.                                              *)
LEMMA ConcatSplit ==
  ASSUME NEW T, NEW seqs \in Seq(Seq(T)), NEW a \in Seq(T), NEW b \in Seq(T)
  PROVE  Concat(Append(Append(seqs, a), b)) = Concat(Append(seqs, a \o b))
<1> DEFINE s == Append(seqs, a)
           c == a \o b
           all == Concat(seqs)
<1>1. s \in Seq(Seq(T)) /\ c \in Seq(T)
  OBVIOUS
<1>2. all \in Seq(T)
  BY ConcatIs
<1>3. Concat(s) = all \o a /\ Concat(Append(seqs, c)) = all \o c
  BY <1>1, ConcatAppend
<1> HIDE DEF s
<1>4. Concat(Append(s, b)) = Concat(s) \o b
  BY <1>1, ConcatAppend
<1> HIDE DEF all
<1>5. (all \o a) \o b = all \o c
  BY <1>2, Reassociated
<1> QED BY <1>3, <1>4, <1>5 DEF s

(* In the OpenAI form two messages of the user are as good as one, when    *)
(* the first is without text.                                              *)
LEMMA RequestSplit ==
  ASSUME NEW F, NEW I, NEW H, NEW msgs \in Chains(F, I, H),
         NEW a \in Messages(F, I, H), NEW b \in Messages(F, I, H), NEW c \in Messages(F, I, H),
         Together(a, b, c), Clean(Append(Append(msgs, a), b)), Clean(Append(msgs, c))
  PROVE  OpenAIMessages(Append(Append(msgs, a), b)) = OpenAIMessages(Append(msgs, c))
<1> DEFINE S == WireItems(I \cup H)
           more == Append(msgs, a)
           two == Append(more, b)
           one == Append(msgs, c)
<1>1. more \in Chains(F, I, H) /\ one \in Chains(F, I, H)
  BY DEF Chains
<1>2. WiresOf(more) = Append(WiresOf(msgs), WireOf(a)) /\ WiresOf(one) = Append(WiresOf(msgs), WireOf(c))
  BY WiresAppend
<1> HIDE DEF more, one
<1>3. two \in Chains(F, I, H)
  BY <1>1 DEF Chains
<1>4. WiresOf(two) = Append(WiresOf(more), WireOf(b))
  BY <1>1, WiresAppend
<1> HIDE DEF two
<1>5. Clean(two) /\ Clean(one)
  BY DEF more, two, one
<1>6. OpenAIMessages(two) = Concat(WiresOf(two)) /\ OpenAIMessages(one) = Concat(WiresOf(one))
  BY <1>1, <1>3, <1>5, WiresAre
<1>7. WiresOf(msgs) \in Seq(Seq(S)) /\ WireOf(a) \in Seq(S) /\ WireOf(b) \in Seq(S)
  BY WiresAre, WireIs
<1>8. WireOf(c) = WireOf(a) \o WireOf(b)
  BY WireJoined
<1> HIDE DEF S
<1>9. Concat(Append(Append(WiresOf(msgs), WireOf(a)), WireOf(b))) = Concat(Append(WiresOf(msgs), WireOf(a) \o WireOf(b)))
  BY <1>7, ConcatSplit
<1> QED BY <1>2, <1>4, <1>6, <1>8, <1>9 DEF more, two, one

(* The repair of a clean chain.                                            *)
LEMMA RepairOfClean ==
  ASSUME NEW F, NEW I, NEW H, NEW msgs \in Chains(F, I, H), Clean(msgs), Unanswered(msgs) # {}
  PROVE  RepairChain(msgs) = AppendMessage(msgs, UserMessage(Placeholders(Unanswered(msgs))))
<1>1. DropInvalidBlocks(msgs) = msgs
  BY CleanIsKept
<1> QED BY <1>1 DEF RepairChain

LEMMA TextAppends ==
  ASSUME NEW msgs, NEW msg, TextOnly(msg), msg.content # <<>>
  PROVE  Appendable(msgs, msg)
<1>1. UseIds(msg) = {} /\ ResultIds(msg) = {}
  BY TextSays
<1>2. \A p, q \in DOMAIN msg.content : ~Twice(msg.content[p], msg.content[q])
  BY DEF Twice, TextOnly
<1> QED BY <1>1, <1>2 DEF Appendable

(* A message joined to the last one.                                       *)
LEMMA JoinedLast ==
  ASSUME NEW F, NEW I, NEW H, NEW msgs \in Chains(F, I, H), NEW c \in Chains(F, I, H), NEW msg,
         msgs # <<>>, Joins(msgs, msg, c)
  PROVE  c = Append(Front(msgs), c[Len(msgs)]) /\ Front(msgs) \in Chains(F, I, H)
<1> DEFINE T == Messages(F, I, H)
           s == Front(msgs)
<1>1. Len(msgs) \in Nat /\ DOMAIN msgs = 1..Len(msgs) /\ Len(c) = Len(msgs) /\ Len(msgs) # 0
  BY ChainIs DEF Joins, Chains
<1>2. s \in Seq(T) /\ Len(s) = Len(msgs) - 1 /\ \A i \in 1..(Len(msgs) - 1) : s[i] = msgs[i]
  BY FrontIs DEF Chains
<1>3. c \in Seq(T)
  BY DEF Chains
<1> HIDE DEF s, T
<1>4. Len(c) = Len(s) + 1 /\ DOMAIN s = 1..(Len(msgs) - 1)
  BY <1>1, <1>2
<1>5. \A i \in DOMAIN s : i \in DOMAIN msgs /\ i # Len(msgs)
  BY <1>1, <1>4
<1>6. \A i \in DOMAIN s : c[i] = s[i]
  BY <1>2, <1>4, <1>5 DEF Joins
<1>7. c = Append(s, c[Len(c)])
  BY <1>2, <1>3, <1>4, <1>6, EndsAlike
<1>8. s \in Chains(F, I, H)
  BY <1>2 DEF Chains, T
<1> QED BY <1>1, <1>7, <1>8 DEF s

LEMMA LastOfChain ==
  ASSUME NEW F, NEW I, NEW H, NEW msgs \in Chains(F, I, H), msgs # <<>>
  PROVE  /\ msgs = Append(Front(msgs), msgs[Len(msgs)]) /\ msgs[Len(msgs)] \in Messages(F, I, H)
         /\ Front(msgs) \in Chains(F, I, H)
<1> DEFINE T == Messages(F, I, H)
           s == Front(msgs)
<1>1. Len(msgs) \in Nat /\ DOMAIN msgs = 1..Len(msgs) /\ Len(msgs) # 0 /\ msgs \in Seq(T)
  BY DEF Chains
<1>2. s \in Seq(T) /\ Len(s) = Len(msgs) - 1 /\ \A i \in 1..(Len(msgs) - 1) : s[i] = msgs[i]
  BY <1>1, FrontIs
<1> HIDE DEF s, T
<1>4. Len(msgs) = Len(s) + 1 /\ \A i \in DOMAIN s : msgs[i] = s[i]
  BY <1>1, <1>2
<1>5. msgs = Append(s, msgs[Len(msgs)])
  BY <1>1, <1>2, <1>4, EndsAlike
<1>6. msgs[Len(msgs)] \in T
  BY <1>1
<1>7. s \in Chains(F, I, H)
  BY <1>2 DEF Chains, T
<1> QED BY <1>5, <1>6, <1>7 DEF s, T
=============================================================================
