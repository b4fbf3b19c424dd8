-------------------------- MODULE CompactionProofs --------------------------
(***************************************************************************)
(* Theorems about Compaction, on those about chains:                       *)
(*   - TypeOK, and that a cut parts no pair, whatever the user does beside *)
(*     a run;                                                              *)
(*   - until a session is opened in the middle of a run or a compaction,   *)
(*     or a compaction ends on a conversation that has moved on, Kept: the *)
(*     file and the conversation say the same (Faithful), the compactions  *)
(*     under way are of this conversation (JobsFit), the calls of a batch  *)
(*     are open (Awaits), a file tells what was said in its session        *)
(*     (Heard), and what it does not show whole is stored there (Backed).  *)
(***************************************************************************)
EXTENDS Compaction, ConversationProofs

-----------------------------------------------------------------------------
(* The blocks of a message that say something, and of a chain.             *)
Real(msg) == {b \in ToSet(msg.content) : b.kind # "placeholder"}
RealBlocks(m) == {b \in Blocks(m) : b.kind # "placeholder"}

(* No call and no result twice within a message, and none answered by the  *)
(* assistant.                                                              *)
SameNumber(a, b) == a.kind \in {"use", "result"} /\ b.kind = a.kind /\ b.id = a.id

Neat(msg) ==
  /\ msg.content # <<>>
  /\ \A p, q \in DOMAIN msg.content : SameNumber(msg.content[p], msg.content[q]) => p = q
  /\ msg.role = "assistant" => ResultIds(msg) = {}

(* Nor in two messages; only the last message may say nothing, and every   *)
(* result follows its call.                                                *)
Placed(m) ==
  /\ \A i \in DOMAIN m : Neat(m[i])
  /\ \A i, j \in DOMAIN m : \A a \in Real(m[i]), b \in Real(m[j]) : SameNumber(a, b) => i = j
  /\ \A i \in DOMAIN m : Real(m[i]) = {} =>
       i = Len(m) /\ i > 1 /\ m[i].role = "user" /\ m[i - 1].role = "assistant"
  /\ \A i \in DOMAIN m : \A b \in Real(m[i]) :
       b.kind = "result" => i > 1 /\ \E u \in Real(m[i - 1]) : u.kind = "use" /\ u.id = b.id

(* Two chains that say the same, message by message; one of them may have  *)
(* a last message more, that says nothing.                                 *)
Twin(f, c) ==
  /\ \A i \in DOMAIN f \cap DOMAIN c : f[i].role = c[i].role /\ Real(f[i]) = Real(c[i])
  /\ \/ Len(f) = Len(c)
     \/ Len(f) = Len(c) + 1 /\ Real(f[Len(f)]) = {} /\ c # <<>> /\ c[Len(c)].role = "assistant"
     \/ Len(c) = Len(f) + 1 /\ Real(c[Len(c)]) = {} /\ c[Len(c)].role = "user"

(* No call has a result and a placeholder.                                 *)
Holders(m) == {b.id : b \in {x \in Blocks(m) : x.kind = "placeholder"}}
Given(m) == {b.id : b \in {x \in Blocks(m) : x.kind = "result"}}
Apart(f, c) == (Given(f) \cup Given(c)) \cap (Holders(f) \cup Holders(c)) = {}

LEMMA RealIs ==
  ASSUME NEW F, NEW I, NEW H, NEW m \in Chains(F, I, H)
  PROVE  /\ \A i \in DOMAIN m : \A b : b \in Real(m[i]) <=>
              \E p \in DOMAIN m[i].content : b = m[i].content[p] /\ b.kind # "placeholder"
         /\ \A i \in DOMAIN m : \A b \in Real(m[i]) :
              b \in BlocksOf(F, I, H) /\ b.kind \in {"text", "use", "result"}
         /\ \A b : b \in RealBlocks(m) <=> \E i \in DOMAIN m : b \in Real(m[i])
         /\ \A b : b \in RealBlocks(m) <=> b \in Blocks(m) /\ b.kind # "placeholder"
<1>1. \A i \in DOMAIN m : \A b : b \in Real(m[i]) <=>
        \E p \in DOMAIN m[i].content : b = m[i].content[p] /\ b.kind # "placeholder"
  BY DEF Real, ToSet
<1>2. \A i \in DOMAIN m : \A b \in Real(m[i]) :
        b \in BlocksOf(F, I, H) /\ b.kind \in {"text", "use", "result"}
  BY <1>1, ChainIs, KindsAre
<1>3. \A b : b \in RealBlocks(m) <=> \E i \in DOMAIN m : b \in Real(m[i])
  BY <1>1, IdsAreAt DEF RealBlocks
<1> QED BY <1>1, <1>2, <1>3 DEF RealBlocks

(* A repair keeps all that is said in a chain in order.                    *)
LEMMA RealIsKept ==
  ASSUME NEW F, NEW I, NEW H, NEW m \in Chains(F, I, H), Placed(m), Apart(m, m),
         NEW i \in DOMAIN m, NEW p \in DOMAIN m[i].content,
         m[i].content[p].kind # "placeholder"
  PROVE  Keeps(m, i, p)
<1> DEFINE b == m[i].content[p]
<1>1. b \in Real(m[i]) /\ b.kind \in {"text", "use", "result"}
  BY RealIs
<1>2. ASSUME IsResult(b) PROVE b.id \in AllUseIds(m)
  <2>1. b.kind = "result"
    BY <1>1, <1>2 DEF IsResult
  <2>2. i > 1 /\ \E u \in Real(m[i - 1]) : u.kind = "use" /\ u.id = b.id
    BY <1>1, <2>1 DEF Placed
  <2>3. i \in Nat /\ i - 1 \in DOMAIN m
    BY <2>2, ChainIs
  <2>4. \E q \in DOMAIN m[i - 1].content :
          m[i - 1].content[q].kind = "use" /\ m[i - 1].content[q].id = b.id
    BY <2>2, <2>3, RealIs
  <2> QED BY <2>3, <2>4, IdsAreAt DEF IsUse
<1>3. ASSUME SeenBefore(m, i, p), b.kind # "text" PROVE FALSE
  <2>1. PICK j \in 1..i : \E q \in DOMAIN m[j].content :
             /\ j < i \/ q < p
             /\ m[j].content[q].kind # "text"
             /\ SameCall(m[j].content[q], m[i].content[p])
    BY <1>3 DEF SeenBefore
  <2>2. PICK q \in DOMAIN m[j].content :
             /\ j < i \/ q < p
             /\ m[j].content[q].kind # "text"
             /\ SameCall(m[j].content[q], m[i].content[p])
    BY <2>1
  <2> DEFINE x == m[j].content[q]
  <2>3. i \in Nat /\ j \in DOMAIN m /\ j \in Nat
    BY ChainIs
  <2>4. p \in Nat /\ q \in Nat
    <3>1. m[i].content \in Seq(BlocksOf(F, I, H)) /\ m[j].content \in Seq(BlocksOf(F, I, H))
      BY <2>3, ChainIs
    <3>2. \A s \in Seq(BlocksOf(F, I, H)) : DOMAIN s \subseteq Nat
      OBVIOUS
    <3> QED BY <3>1, <3>2
  <2>5. x.kind \in {"use", "result", "placeholder"} /\ x.id = b.id /\ (IsUse(x) <=> IsUse(b))
    BY <2>2, <2>3, ChainIs, KindsAre DEF SameCall
  <2>6. CASE x.kind = b.kind
    <3>1. SameNumber(x, b) /\ x.kind # "placeholder"
      BY <1>1, <1>3, <2>5, <2>6 DEF SameNumber
    <3>2. x \in Real(m[j])
      BY <2>3, <3>1, RealIs
    <3>3. j = i
      BY <1>1, <2>3, <3>1, <3>2 DEF Placed
    <3>4. q = p
      BY <3>1, <3>3 DEF Placed, Neat
    <3> QED BY <2>2, <2>3, <2>4, <3>3, <3>4
  <2>7. CASE x.kind # b.kind
    <3>1. x.kind = "placeholder" /\ b.kind = "result"
      BY <1>1, <1>3, <2>5, <2>7 DEF IsUse
    <3>2. x \in Blocks(m) /\ b \in Blocks(m)
      BY <2>3, IdsAreAt
    <3>3. x.id \in Holders(m) /\ b.id \in Given(m)
      BY <3>1, <3>2 DEF Holders, Given
    <3> QED BY <2>5, <3>3 DEF Apart
  <2> QED BY <2>6, <2>7
<1> QED BY <1>2, <1>3 DEF Keeps

Reduced(m, d) ==
  /\ Len(d) = Len(m) \/ (m # <<>> /\ Len(d) = Len(m) - 1 /\ Real(m[Len(m)]) = {})
  /\ \A i \in DOMAIN d : /\ i \in DOMAIN m /\ d[i].role = m[i].role
                         /\ Real(d[i]) = Real(m[i]) /\ Neat(d[i])

LEMMA KeptIsReal ==
  ASSUME NEW F, NEW I, NEW H, NEW m \in Chains(F, I, H), Placed(m), Apart(m, m),
         NEW i \in DOMAIN m
  PROVE  LET k == Message(m[i].role, KeptBlocks(m, i))
         IN  Real(k) = Real(m[i]) /\ (k.content # <<>> => Neat(k))
<1> DEFINE kept == KeptBlocks(m, i)
           k == Message(m[i].role, kept)
<1>1. PICK g \in [DOMAIN kept -> DOMAIN m[i].content] :
           /\ \A p, q \in DOMAIN kept : g[p] = g[q] => p = q
           /\ \A q \in DOMAIN kept : kept[q] = m[i].content[g[q]] /\ Keeps(m, i, g[q])
  BY KeptAre
<1>2. \A p \in DOMAIN m[i].content : Keeps(m, i, p) => \E q \in DOMAIN kept : kept[q] = m[i].content[p]
  BY KeptAre
<1>3. k.content = kept /\ k.role = m[i].role
  BY DEF Message
<1> HIDE DEF kept, k
<1>4. ASSUME NEW b \in Real(k) PROVE b \in Real(m[i])
  <2>1. PICK q \in DOMAIN kept : b = kept[q] /\ b.kind # "placeholder"
    BY <1>3 DEF Real, ToSet
  <2> QED BY <1>1, <2>1, RealIs
<1>5. ASSUME NEW b \in Real(m[i]) PROVE b \in Real(k)
  <2>1. PICK p \in DOMAIN m[i].content : b = m[i].content[p] /\ b.kind # "placeholder"
    BY RealIs
  <2>2. Keeps(m, i, p)
    BY <2>1, RealIsKept
  <2>3. \E q \in DOMAIN kept : kept[q] = b
    BY <1>2, <2>1, <2>2
  <2> QED BY <1>3, <2>1, <2>3 DEF Real, ToSet
<1>6. ASSUME NEW p \in DOMAIN kept, NEW q \in DOMAIN kept, SameNumber(kept[p], kept[q]) PROVE p = q
  <2>1. SameNumber(m[i].content[g[p]], m[i].content[g[q]]) /\ g[p] \in DOMAIN m[i].content /\ g[q] \in DOMAIN m[i].content
    BY <1>1, <1>6
  <2>2. g[p] = g[q]
    BY <2>1 DEF Placed, Neat
  <2> QED BY <1>1, <2>2
<1>7. ASSUME m[i].role = "assistant" PROVE ResultIds(k) = {}
  <2>1. ResultIds(m[i]) = {}
    BY <1>7 DEF Placed, Neat
  <2>2. ASSUME NEW b \in ToSet(kept), IsResult(b) PROVE FALSE
    <3>1. b \in ToSet(m[i].content)
      BY <1>1 DEF ToSet
    <3> QED BY <2>1, <2>2, <3>1 DEF ResultIds
  <2> QED BY <1>3, <2>2 DEF ResultIds
<1> QED BY <1>3, <1>4, <1>5, <1>6, <1>7 DEF Neat, k, kept

LEMMA DropInPlace ==
  ASSUME NEW F, NEW I, NEW H, NEW m \in Chains(F, I, H), Placed(m), Apart(m, m)
  PROVE  Reduced(m, DropInvalidBlocks(m))
<1> DEFINE kept(i) == Message(m[i].role, KeptBlocks(m, i))
           all == [i \in DOMAIN m |-> kept(i)]
           places == {i \in DOMAIN m : all[i].content # <<>>}
           n == Len(m)
           d == DropInvalidBlocks(m)
<1>1. n \in Nat /\ DOMAIN m = 1..n /\ DOMAIN all = 1..n /\ (m # <<>> <=> n # 0)
  BY ChainIs
<1>2. \A i \in DOMAIN m : Real(all[i]) = Real(m[i]) /\ all[i].role = m[i].role
                          /\ (i \in places => Neat(all[i]))
  <2> SUFFICES ASSUME NEW i \in DOMAIN m
               PROVE  Real(kept(i)) = Real(m[i]) /\ kept(i).role = m[i].role
                      /\ (kept(i).content # <<>> => Neat(kept(i)))
    OBVIOUS
  <2> QED BY KeptIsReal DEF Message
<1>3. all \in Seq(Messages(F, I, H))
  <2>1. \A i \in DOMAIN m : kept(i) \in Messages(F, I, H)
    <3> SUFFICES ASSUME NEW i \in DOMAIN m PROVE kept(i) \in Messages(F, I, H)
      OBVIOUS
    <3>1. m[i] \in Messages(F, I, H) /\ m[i].content \in Seq(BlocksOf(F, I, H))
      BY ChainIs
    <3>2. KeptBlocks(m, i) \in Seq(BlocksOf(F, I, H)) /\ m[i].role \in {"user", "assistant"}
      BY <3>1, SelectedIs DEF KeptBlocks, Messages
    <3> QED BY <3>2 DEF Message, Messages
  <2> HIDE DEF kept
  <2>2. all \in [1..n -> Messages(F, I, H)]
    BY <1>1, <2>1
  <2> QED BY <1>1, <2>2
<1>4. d = Selected(all, places)
  BY DEF DropInvalidBlocks, WithoutEmpty
<1>5. \A i \in DOMAIN m : Real(m[i]) # {} => i \in places
  <2> SUFFICES ASSUME NEW i \in DOMAIN m, Real(m[i]) # {}, all[i].content = <<>> PROVE FALSE
    OBVIOUS
  <2>1. Real(all[i]) # {}
    BY <1>2
  <2> HIDE DEF all
  <2> QED BY <2>1 DEF Real, ToSet
<1>6. \A i \in DOMAIN m : i # n => i \in places
  BY <1>5 DEF Placed
<1> HIDE DEF all, places, d
<1>7. ASSUME NEW k \in 0..n, places \cap DOMAIN all = 1..k
      PROVE  Len(d) = k /\ DOMAIN d = 1..k /\ \A i \in 1..k : d[i] = all[i]
  <2>1. k \in 0..Len(all)
    BY <1>1, <1>3
  <2> QED BY <1>3, <1>4, <1>7, <2>1, SelectedFirst
<1>8. ASSUME NEW k \in 0..n, places \cap DOMAIN all = 1..k, 
             k = n \/ (m # <<>> /\ k = n - 1 /\ Real(m[n]) = {})
      PROVE  Reduced(m, d)
  <2>1. Len(d) = k /\ DOMAIN d = 1..k /\ \A i \in 1..k : d[i] = all[i]
    BY <1>7, <1>8
  <2>2. \A i \in 1..k : i \in DOMAIN m /\ i \in places
    BY <1>1, <1>8
  <2> QED BY <1>2, <1>8, <2>1, <2>2 DEF Reduced
<1>9. places \subseteq DOMAIN m
  BY DEF places
<1>10. CASE \A i \in DOMAIN m : i \in places
  <2>1. places \cap DOMAIN all = 1..n /\ n \in 0..n
    BY <1>1, <1>9, <1>10
  <2> QED BY <1>8, <2>1 DEF d
<1>11. CASE ~(\A i \in DOMAIN m : i \in places)
  <2>1. n \in DOMAIN m /\ n \notin places /\ m # <<>>
    BY <1>1, <1>6, <1>11
  <2>2. Real(m[n]) = {}
    BY <1>5, <2>1
  <2>3. places \cap DOMAIN all = 1..(n - 1) /\ n - 1 \in 0..n
    BY <1>1, <1>6, <1>9, <2>1
  <2> QED BY <1>8, <2>1, <2>2, <2>3 DEF d
<1> QED BY <1>10, <1>11

-----------------------------------------------------------------------------
(* What may be said next: nothing said before, and a result only right     *)
(* after its call.                                                         *)
New(c, msg) ==
  /\ Neat(msg)
  /\ \A i \in DOMAIN c : \A a \in Real(c[i]), b \in Real(msg) : ~SameNumber(a, b)
  /\ \A b \in Real(msg) : b.kind = "result" =>
       /\ c # <<>> /\ c[Len(c)].role = "assistant" /\ msg.role = "user"
       /\ \E u \in Real(c[Len(c)]) : u.kind = "use" /\ u.id = b.id
  /\ Real(msg) = {} => msg.role = "user" /\ c # <<>>
  /\ c # <<>> /\ msg.role = "assistant" => Real(c[Len(c)]) # {}

LEMMA SameNumberIs ==
  ASSUME NEW a, NEW b
  PROVE  SameNumber(a, b) <=> SameNumber(b, a)
BY DEF SameNumber

(* x is the message a with the blocks of b added to it.                    *)
Joint(a, b, x) ==
  /\ x.role = a.role /\ b.role = a.role /\ x.content = a.content \o b.content
  /\ Neat(a) /\ Neat(b) /\ \A u \in Real(a), v \in Real(b) : ~SameNumber(u, v)

LEMMA JoinedIsNeat ==
  ASSUME NEW F, NEW I, NEW H, NEW a \in Messages(F, I, H), NEW b \in Messages(F, I, H), NEW x,
         Joint(a, b, x)
  PROVE  Neat(x) /\ Real(x) = Real(a) \cup Real(b)
<1> USE DEF Joint
<1> DEFINE s == a.content
           t == b.content
           B == BlocksOf(F, I, H)
           j == s \o t
<1>1. s \in Seq(B) /\ t \in Seq(B)
  BY DEF Messages
<1>2. /\ \A p \in DOMAIN t : Len(s) + p \in DOMAIN j /\ j[Len(s) + p] = t[p]
      /\ \A p \in DOMAIN s : p \in DOMAIN j /\ j[p] = s[p]
      /\ \A p \in DOMAIN j : \/ p \in DOMAIN s /\ j[p] = s[p]
                             \/ p - Len(s) \in DOMAIN t /\ j[p] = t[p - Len(s)] /\ p \in Int
      /\ Len(s) \in Nat
  <2> HIDE DEF s, t, B
  <2> QED BY <1>1, Joined
<1>3. s # <<>> /\ x.content = j
  BY DEF Neat
<1>4. 1 \in DOMAIN s
  <2> HIDE DEF s
  <2> QED BY <1>1, <1>3
<1> HIDE DEF s, t, j
<1>5. j # <<>>
  BY <1>2, <1>4
<1>6. \A p \in DOMAIN s : s[p].kind # "placeholder" => s[p] \in Real(a)
  BY DEF Real, ToSet, s
<1>7. \A p \in DOMAIN t : t[p].kind # "placeholder" => t[p] \in Real(b)
  BY DEF Real, ToSet, t
<1>8. ASSUME NEW p \in DOMAIN j, NEW q \in DOMAIN j, SameNumber(j[p], j[q]) PROVE p = q
  <2>1. j[p].kind # "placeholder" /\ j[q].kind # "placeholder"
    BY <1>8 DEF SameNumber
  <2>2. CASE p \in DOMAIN s /\ j[p] = s[p] /\ q \in DOMAIN s /\ j[q] = s[q]
    BY <1>8, <2>2 DEF Neat, s
  <2>3. CASE /\ p - Len(s) \in DOMAIN t /\ j[p] = t[p - Len(s)] /\ p \in Int
             /\ q - Len(s) \in DOMAIN t /\ j[q] = t[q - Len(s)] /\ q \in Int
    <3>1. p - Len(s) = q - Len(s)
      BY <1>8, <2>3 DEF Neat, t
    <3> QED BY <1>2, <2>3, <3>1
  <2>4. CASE p \in DOMAIN s /\ j[p] = s[p] /\ q - Len(s) \in DOMAIN t /\ j[q] = t[q - Len(s)]
    BY <1>6, <1>7, <1>8, <2>1, <2>4
  <2>5. CASE q \in DOMAIN s /\ j[q] = s[q] /\ p - Len(s) \in DOMAIN t /\ j[p] = t[p - Len(s)]
    BY <1>6, <1>7, <1>8, <2>1, <2>5, SameNumberIs
  <2> QED BY <1>2, <2>2, <2>3, <2>4, <2>5
<1>9. ToSet(j) = ToSet(s) \cup ToSet(t)
  <2>1. ASSUME NEW b1 \in ToSet(j) PROVE b1 \in ToSet(s) \cup ToSet(t)
    <3>1. PICK p \in DOMAIN j : b1 = j[p]
      BY <2>1 DEF ToSet
    <3> QED BY <1>2, <3>1 DEF ToSet
  <2>2. ASSUME NEW b1 \in ToSet(s) PROVE b1 \in ToSet(j)
    BY <1>2, <2>2 DEF ToSet
  <2>3. ASSUME NEW b1 \in ToSet(t) PROVE b1 \in ToSet(j)
    BY <1>2, <2>3 DEF ToSet
  <2> QED BY <2>1, <2>2, <2>3
<1>10. Real(x) = Real(a) \cup Real(b)
  BY <1>3, <1>9 DEF Real, s, t
<1>11. ASSUME x.role = "assistant" PROVE ResultIds(x) = {}
  <2>1. ResultIds(a) = {} /\ ResultIds(b) = {}
    BY <1>11 DEF Neat
  <2> QED BY <1>3, <1>9, <2>1 DEF ResultIds, s, t
<1> QED BY <1>3, <1>5, <1>8, <1>10, <1>11 DEF Neat

(* The chain after the message.                                            *)
LEMMA AppendPlaced ==
  ASSUME NEW F, NEW I, NEW H, NEW c \in Chains(F, I, H), NEW msg \in Messages(F, I, H),
         Placed(c), New(c, msg)
  PROVE  Placed(AppendMessage(c, msg))
<1> DEFINE r == AppendMessage(c, msg)
           n == Len(c)
<1>1. n \in Nat /\ DOMAIN c = 1..n /\ \A i \in DOMAIN c : c[i] \in Messages(F, I, H)
  BY ChainIs
<1>2. c # <<>> => n \in DOMAIN c /\ n > 0
  BY ChainIs
<1>3. Joins(c, msg, r) \/ Adds(c, msg, r)
  BY JoinsOrAdds
<1>4. \A m \in Messages(F, I, H) : m.role \in {"user", "assistant"}
  BY DEF Messages
<1> HIDE DEF r, n
<1>5. CASE Joins(c, msg, r)
  <2>1. /\ c # <<>> /\ c[n].role = msg.role /\ Len(r) = n /\ DOMAIN r = DOMAIN c
        /\ \A i \in DOMAIN c : i # n => r[i] = c[i]
        /\ r[n].role = msg.role /\ r[n].content = c[n].content \o msg.content
    BY <1>5 DEF Joins, n
  <2>2. n \in DOMAIN c /\ Neat(c[n]) /\ Neat(msg) /\ c[n] \in Messages(F, I, H)
    BY <1>1, <1>2, <2>1 DEF Placed, New
  <2>3. Neat(r[n]) /\ Real(r[n]) = Real(c[n]) \cup Real(msg)
    <3> DEFINE a == c[n]
               x == r[n]
    <3>1. \A u \in Real(a), v \in Real(msg) : ~SameNumber(u, v)
      BY <2>2 DEF New
    <3>2. /\ a \in Messages(F, I, H) /\ x.role = a.role /\ msg.role = a.role
          /\ x.content = a.content \o msg.content /\ Neat(a) /\ Neat(msg)
      BY <2>1, <2>2
    <3> HIDE DEF a, x
    <3>3. Joint(a, msg, x)
      BY <3>1, <3>2 DEF Joint
    <3>4. Neat(x) /\ Real(x) = Real(a) \cup Real(msg)
      BY <3>2, <3>3, JoinedIsNeat
    <3> QED BY <3>4 DEF a, x
  <2>4. \A i \in DOMAIN r : Neat(r[i])
    BY <2>1, <2>3 DEF Placed
  <2>5. ASSUME NEW i \in DOMAIN r, NEW j \in DOMAIN r, NEW a \in Real(r[i]), NEW b \in Real(r[j]),
               SameNumber(a, b), i # j
        PROVE  FALSE
    <3>1. a \in Real(c[i]) \/ (i = n /\ a \in Real(msg))
      BY <2>1, <2>3
    <3>2. b \in Real(c[j]) \/ (j = n /\ b \in Real(msg))
      BY <2>1, <2>3
    <3> QED BY <2>1, <2>5, <3>1, <3>2, SameNumberIs DEF Placed, New
  <2>6. ASSUME NEW i \in DOMAIN r, Real(r[i]) = {}
        PROVE  i = Len(r) /\ i > 1 /\ r[i].role = "user" /\ r[i - 1].role = "assistant"
    <3>1. Real(c[i]) = {} /\ i \in DOMAIN c
      BY <2>1, <2>3, <2>6
    <3>2. i = n /\ i > 1 /\ c[i].role = "user" /\ c[i - 1].role = "assistant"
      BY <3>1 DEF Placed, n
    <3>3. i - 1 \in DOMAIN c /\ i - 1 # n
      BY <1>1, <3>2
    <3> QED BY <2>1, <3>2, <3>3
  <2>7. ASSUME NEW i \in DOMAIN r, NEW b \in Real(r[i]), b.kind = "result"
        PROVE  i > 1 /\ \E u \in Real(r[i - 1]) : u.kind = "use" /\ u.id = b.id
    <3>1. b \in Real(c[i])
      <4>1. i = n => b \notin Real(msg)
        BY <2>1, <2>7 DEF New, n
      <4> QED BY <2>1, <2>3, <4>1
    <3>2. i > 1 /\ \E u \in Real(c[i - 1]) : u.kind = "use" /\ u.id = b.id
      BY <2>1, <2>7, <3>1 DEF Placed
    <3>3. i - 1 \in DOMAIN c /\ i - 1 # n
      BY <1>1, <2>1, <3>2
    <3> QED BY <2>1, <3>2, <3>3
  <2> QED BY <2>4, <2>5, <2>6, <2>7 DEF Placed, r
<1>6. CASE Adds(c, msg, r)
  <2>1. /\ c # <<>> => c[n].role # msg.role
        /\ Len(r) = n + 1 /\ DOMAIN r = 1..(n + 1) /\ \A i \in DOMAIN c : r[i] = c[i]
        /\ r[n + 1] = msg
    BY <1>6 DEF Adds, n
  <2>2. \A i \in DOMAIN r : i \in DOMAIN c \/ i = n + 1
    BY <1>1, <2>1
  <2>3. \A i \in DOMAIN r : Neat(r[i])
    BY <2>1, <2>2 DEF Placed, New
  <2>4. ASSUME NEW i \in DOMAIN r, NEW j \in DOMAIN r, NEW a \in Real(r[i]), NEW b \in Real(r[j]),
               SameNumber(a, b), i # j
        PROVE  FALSE
    <3>1. (i \in DOMAIN c /\ a \in Real(c[i])) \/ (i = n + 1 /\ a \in Real(msg))
      BY <2>1, <2>2
    <3>2. (j \in DOMAIN c /\ b \in Real(c[j])) \/ (j = n + 1 /\ b \in Real(msg))
      BY <2>1, <2>2
    <3> QED BY <2>4, <3>1, <3>2, SameNumberIs DEF Placed, New
  <2>5. ASSUME NEW i \in DOMAIN r, Real(r[i]) = {}
        PROVE  i = Len(r) /\ i > 1 /\ r[i].role = "user" /\ r[i - 1].role = "assistant"
    <3>1. CASE i \in DOMAIN c
      <4>1. Real(c[i]) = {}
        BY <2>1, <2>5, <3>1
      <4>2. i = n /\ c[n].role = "user" /\ c # <<>> /\ Real(c[n]) = {}
        BY <1>1, <3>1, <4>1 DEF Placed, n
      <4>3. msg.role = "assistant"
        BY <1>4, <2>1, <4>2
      <4> QED BY <4>2, <4>3 DEF New, n
    <3>2. CASE i = n + 1
      <4>1. msg.role = "user" /\ c # <<>>
        BY <2>1, <2>5, <3>2 DEF New
      <4>2. n \in DOMAIN c /\ c[n].role = "assistant"
        BY <1>1, <1>2, <1>4, <2>1, <4>1
      <4>3. i - 1 = n /\ i > 1
        BY <1>1, <3>2, <4>2
      <4> QED BY <2>1, <3>2, <4>1, <4>2, <4>3
    <3> QED BY <2>2, <3>1, <3>2
  <2>6. ASSUME NEW i \in DOMAIN r, NEW b \in Real(r[i]), b.kind = "result"
        PROVE  i > 1 /\ \E u \in Real(r[i - 1]) : u.kind = "use" /\ u.id = b.id
    <3>1. CASE i \in DOMAIN c
      <4>1. i > 1 /\ \E u \in Real(c[i - 1]) : u.kind = "use" /\ u.id = b.id
        BY <2>1, <2>6, <3>1 DEF Placed
      <4>2. i - 1 \in DOMAIN c
        BY <1>1, <3>1, <4>1
      <4> QED BY <2>1, <4>1, <4>2
    <3>2. CASE i = n + 1
      <4>1. c # <<>> /\ \E u \in Real(c[n]) : u.kind = "use" /\ u.id = b.id
        BY <2>1, <2>6, <3>2 DEF New, n
      <4>2. n \in DOMAIN c /\ i - 1 = n /\ i > 1
        BY <1>1, <1>2, <3>2, <4>1
      <4> QED BY <2>1, <4>1, <4>2
    <3> QED BY <2>2, <3>1, <3>2
  <2> QED BY <2>3, <2>4, <2>5, <2>6 DEF Placed, r
<1> QED BY <1>3, <1>5, <1>6

(* A chain that says the same, message by message, is in order as well.    *)
LEMMA MirrorPlaced ==
  ASSUME NEW F, NEW I, NEW H, NEW g \in Chains(F, I, H), NEW r \in Chains(F, I, H), Placed(r),
         Len(g) = Len(r),
         \A i \in DOMAIN g : g[i].role = r[i].role /\ Real(g[i]) = Real(r[i]) /\ Neat(g[i])
  PROVE  Placed(g)
<1>1. /\ DOMAIN g = 1..Len(g) /\ Len(g) \in Nat /\ DOMAIN r = DOMAIN g
  BY ChainIs
<1>2. \A i \in DOMAIN g : i > 1 => i - 1 \in DOMAIN g
  BY <1>1
<1>3. ASSUME NEW i \in DOMAIN g, Real(g[i]) = {}
      PROVE  i = Len(g) /\ i > 1 /\ g[i].role = "user" /\ g[i - 1].role = "assistant"
  <2>1. i = Len(r) /\ i > 1 /\ r[i].role = "user" /\ r[i - 1].role = "assistant"
    BY <1>1, <1>3 DEF Placed
  <2> QED BY <1>2, <2>1
<1>4. ASSUME NEW i \in DOMAIN g, NEW b \in Real(g[i]), b.kind = "result"
      PROVE  i > 1 /\ \E u \in Real(g[i - 1]) : u.kind = "use" /\ u.id = b.id
  <2>1. i > 1 /\ \E u \in Real(r[i - 1]) : u.kind = "use" /\ u.id = b.id
    BY <1>1, <1>4 DEF Placed
  <2> QED BY <1>2, <2>1
<1>5. \A i, j \in DOMAIN g : \A a \in Real(g[i]), b \in Real(g[j]) : SameNumber(a, b) => i = j
  BY <1>1 DEF Placed
<1> QED BY <1>3, <1>4, <1>5 DEF Placed

Longer(T, h, x, g) ==
  /\ g \in Seq(T) /\ Len(g) = Len(h) + 1 /\ DOMAIN g = 1..(Len(h) + 1)
  /\ g[Len(h) + 1] = x /\ \A i \in 1..Len(h) : g[i] = h[i]

LEMMA OneMore ==
  ASSUME NEW T, NEW h \in Seq(T), NEW x \in T
  PROVE  Longer(T, h, x, h \o << x >>)
<1>1. h \o << x >> = Append(h, x)
  OBVIOUS
<1>2. Append(h, x) \in Seq(T) /\ Len(Append(h, x)) = Len(h) + 1
      /\ Append(h, x)[Len(h) + 1] = x /\ \A i \in 1..Len(h) : Append(h, x)[i] = h[i]
  BY AppendProperties
<1> DEFINE s == Append(h, x)
<1>3. DOMAIN s = 1..(Len(h) + 1)
  BY <1>2
<1> QED BY <1>1, <1>2, <1>3 DEF Longer

LEMMA LastAlone ==
  ASSUME NEW T, NEW s \in Seq(T), NEW n \in 1..Len(s)
  PROVE  SubSeq(s, n, n) = << s[n] >>
<1> DEFINE t == SubSeq(s, n, n)
<1>1. Len(s) \in Nat /\ n \in Nat /\ s[n] \in T
  OBVIOUS
<1>2. t \in Seq(T) /\ Len(t) = 1 /\ t[1] = s[n]
  BY <1>1
<1> HIDE DEF t
<1>3. t = << s[n] >>
  BY <1>1, <1>2
<1> QED BY <1>3 DEF t

(* A file that lacks at most the last message gets it, and one that has a  *)
(* message in its place, another: the rest stays.                          *)
Replaces(f, r, g) ==
  /\ Len(g) = Len(r) /\ g[Len(r)] = r[Len(r)]
  /\ \A i \in DOMAIN g : i # Len(r) => i \in DOMAIN f /\ g[i] = f[i]

LEMMA OnTop ==
  ASSUME NEW T, NEW f \in Seq(T), NEW h \in Seq(T), NEW n \in Nat \ {0}, NEW x \in T,
         Len(h) = n - 1, \A i \in 1..(n - 1) : i \in DOMAIN f /\ h[i] = f[i]
  PROVE  LET g == h \o << x >>
         IN  /\ g \in Seq(T) /\ Len(g) = n /\ g[n] = x
             /\ \A i \in DOMAIN g : i # n => i \in DOMAIN f /\ g[i] = f[i]
<1> DEFINE g == h \o << x >>
<1>1. (n - 1) + 1 = n /\ \A i \in 1..n : i # n => i \in 1..(n - 1)
  OBVIOUS
<1>2. Longer(T, h, x, g)
  BY OneMore
<1> HIDE DEF g
<1>3. Len(g) = n /\ DOMAIN g = 1..n /\ g[n] = x /\ \A i \in 1..(n - 1) : g[i] = h[i]
  BY <1>1, <1>2 DEF Longer
<1>4. \A i \in DOMAIN g : i # n => i \in DOMAIN f /\ g[i] = f[i]
  BY <1>1, <1>3
<1> QED BY <1>2, <1>3, <1>4 DEF Longer, g

LEMMA FlushIs ==
  ASSUME NEW F, NEW I, NEW H, NEW f \in Chains(F, I, H), NEW r \in Chains(F, I, H),
         r # <<>>, Len(r) = Len(f) \/ Len(r) = Len(f) + 1
  PROVE  Flush(f, r) \in Chains(F, I, H) /\ Replaces(f, r, Flush(f, r))
<1> DEFINE M == Messages(F, I, H)
           n == Len(r)
           k == Len(f)
           x == r[n]
           g == Flush(f, r)
<1>1. f \in Seq(M) /\ r \in Seq(M) /\ k \in Nat
  BY ChainIs DEF Chains
<1>2. n \in Nat \ {0} /\ n \in DOMAIN r /\ n \in 1..Len(r) /\ x \in M
  BY ChainIs
<1>3. DOMAIN f = 1..k
  BY ChainIs
<1>4. n = k + 1 => g = f \o SubSeq(r, n, n)
  BY <1>1, <1>2 DEF Flush
<1>5. n = k => g = Front(f) \o << x >>
  BY <1>1, <1>2 DEF Flush, Last
<1>6. SubSeq(r, n, n) = << x >>
  BY <1>1, <1>2, LastAlone
<1>7. n = k => f # <<>>
  BY <1>2
<1>8. n = k \/ n = k + 1
  OBVIOUS
<1>9. g \in Seq(M) /\ Len(g) = n /\ g[n] = x /\ (\A i \in DOMAIN g : i # n => i \in DOMAIN f /\ g[i] = f[i])
      => g \in Chains(F, I, H) /\ Replaces(f, r, g)
  BY DEF Chains, Replaces
<1>10. f # <<>> => Front(f) \in Seq(M) /\ Len(Front(f)) = k - 1 /\ \A i \in 1..(k - 1) : Front(f)[i] = f[i]
  BY <1>1, FrontIs
<1> HIDE DEF M, n, k, x, g
<1>11. CASE n = k + 1
  <2>1. k = n - 1 /\ \A i \in 1..(n - 1) : i \in DOMAIN f
    BY <1>1, <1>2, <1>3, <1>11
  <2>2. g = f \o << x >>
    BY <1>4, <1>6, <1>11
  <2>3. Len(f) = n - 1
    BY <2>1 DEF k
  <2> QED BY <1>1, <1>2, <1>9, <2>1, <2>2, <2>3, OnTop DEF g
<1>12. CASE n = k
  <2> DEFINE h == Front(f)
  <2>1. h \in Seq(M) /\ Len(h) = n - 1 /\ \A i \in 1..(n - 1) : h[i] = f[i]
    BY <1>7, <1>10, <1>12
  <2>2. \A i \in 1..(n - 1) : i \in DOMAIN f
    BY <1>1, <1>2, <1>3, <1>12
  <2>3. g = h \o << x >>
    BY <1>5, <1>12
  <2> HIDE DEF h
  <2> QED BY <1>1, <1>2, <1>9, <2>1, <2>2, <2>3, OnTop DEF g
<1> QED BY <1>8, <1>11, <1>12 DEF g

(* What is said and flushed is said in both, in order.                     *)
LEMMA TwinGrows ==
  ASSUME NEW F, NEW I, NEW H, NEW f \in Chains(F, I, H), NEW c \in Chains(F, I, H),
         NEW msg \in Messages(F, I, H), Twin(f, c), msg.role = "user" \/ Len(f) = Len(c),
         NEW r \in Chains(F, I, H), Joins(c, msg, r) \/ Adds(c, msg, r)
  PROVE  /\ r # <<>> /\ (Len(r) = Len(f) \/ Len(r) = Len(f) + 1)
         /\ \A i \in DOMAIN r : i # Len(r) => i \in DOMAIN c /\ i \in DOMAIN f /\ r[i] = c[i]
<1> DEFINE n == Len(c)
           k == Len(f)
<1>1. /\ n \in Nat /\ DOMAIN c = 1..n /\ k \in Nat /\ DOMAIN f = 1..k
      /\ c # <<>> => n \in DOMAIN c /\ n # 0
  BY ChainIs
<1>2. \/ k = n
      \/ k = n + 1 /\ c # <<>> /\ c[n].role = "assistant"
      \/ n = k + 1 /\ c[n].role = "user"
  BY DEF Twin
<1>3. msg.role = "user" \/ k = n
  OBVIOUS
<1> HIDE DEF n, k
<1>4. CASE Joins(c, msg, r)
  <2>1. /\ c # <<>> /\ c[n].role = msg.role /\ Len(r) = n /\ DOMAIN r = 1..n
        /\ \A i \in DOMAIN c : i # n => r[i] = c[i]
    BY <1>1, <1>4 DEF Joins, n
  <2>2. n = k \/ n = k + 1
    BY <1>1, <1>2, <1>3, <2>1
  <2>3. \A i \in 1..n : i # n => i \in 1..k
    BY <1>1, <2>2
  <2>4. r # <<>>
    BY <1>1, <2>1
  <2>5. \A i \in DOMAIN r : i # Len(r) => i \in DOMAIN c /\ i \in DOMAIN f /\ r[i] = c[i]
    BY <1>1, <2>1, <2>3
  <2> QED BY <2>1, <2>2, <2>4, <2>5 DEF k
<1>5. CASE Adds(c, msg, r)
  <2>1. /\ c # <<>> => c[n].role # msg.role
        /\ Len(r) = n + 1 /\ DOMAIN r = 1..(n + 1) /\ \A i \in DOMAIN c : r[i] = c[i]
    BY <1>5 DEF Adds, n
  <2>2. n + 1 = k \/ n + 1 = k + 1
    <3>1. CASE n = k + 1 /\ c[n].role = "user"
      <4>1. c # <<>> /\ k # n
        BY <1>1, <3>1 DEF n
      <4> QED BY <1>3, <2>1, <3>1, <4>1
    <3> QED BY <1>1, <1>2, <3>1
  <2>3. \A i \in 1..(n + 1) : i # n + 1 => i \in 1..k /\ i \in 1..n
    BY <1>1, <2>2
  <2>4. r # <<>>
    BY <1>1, <2>1
  <2>5. \A i \in DOMAIN r : i # Len(r) => i \in DOMAIN c /\ i \in DOMAIN f /\ r[i] = c[i]
    BY <1>1, <2>1, <2>3
  <2> QED BY <2>1, <2>2, <2>4, <2>5 DEF k
<1> QED BY <1>4, <1>5

Said(f, c, r, g) ==
  /\ r # <<>> /\ Placed(r) /\ Placed(g) /\ Twin(g, r) /\ Replaces(f, r, g)

LEMMA FlushedTwin ==
  ASSUME NEW F, NEW I, NEW H, NEW f \in Chains(F, I, H), NEW c \in Chains(F, I, H),
         NEW msg \in Messages(F, I, H),
         Placed(f), Placed(c), Twin(f, c), New(c, msg), msg.role = "user" \/ Len(f) = Len(c)
  PROVE  LET r == AppendMessage(c, msg)
             g == Flush(f, r)
         IN  r \in Chains(F, I, H) /\ g \in Chains(F, I, H) /\ Said(f, c, r, g)
<1> DEFINE r == AppendMessage(c, msg)
           g == Flush(f, r)
<1>1. r \in Chains(F, I, H) /\ Placed(r) /\ (Joins(c, msg, r) \/ Adds(c, msg, r))
  BY AppendIs, AppendPlaced, JoinsOrAdds
<1> HIDE DEF r
<1>2. /\ r # <<>> /\ (Len(r) = Len(f) \/ Len(r) = Len(f) + 1)
      /\ \A i \in DOMAIN r : i # Len(r) => i \in DOMAIN c /\ i \in DOMAIN f /\ r[i] = c[i]
  BY <1>1, TwinGrows
<1>3. g \in Chains(F, I, H) /\ Replaces(f, r, g)
  BY <1>1, <1>2, FlushIs
<1> HIDE DEF g
<1>4. DOMAIN g = DOMAIN r
  BY <1>1, <1>3, ChainIs DEF Replaces
<1>5. \A i \in DOMAIN g : g[i].role = r[i].role /\ Real(g[i]) = Real(r[i]) /\ Neat(g[i])
  <2> SUFFICES ASSUME NEW i \in DOMAIN g
               PROVE  g[i].role = r[i].role /\ Real(g[i]) = Real(r[i]) /\ Neat(g[i])
    OBVIOUS
  <2>1. CASE i = Len(r)
    BY <1>1, <1>3, <1>4, <2>1 DEF Placed, Replaces
  <2>2. CASE i # Len(r)
    <3>1. i \in DOMAIN f \cap DOMAIN c /\ g[i] = f[i] /\ r[i] = c[i]
      BY <1>2, <1>3, <1>4, <2>2 DEF Replaces
    <3> QED BY <3>1 DEF Twin, Placed
  <2> QED BY <2>1, <2>2
<1>6. Placed(g)
  BY <1>1, <1>3, <1>5, MirrorPlaced DEF Replaces
<1>7. Twin(g, r)
  BY <1>3, <1>5 DEF Twin, Replaces
<1> QED BY <1>1, <1>2, <1>3, <1>6, <1>7 DEF Said, g, r

-----------------------------------------------------------------------------
(* The repair of a chain in order.                                         *)

(* What a block tells; what a chain tells is what its real blocks tell.    *)
Tells(b) == (UNION ToSet(b.text)) \cup {x \in {Item(b.kind, b.id)} : b.kind \in {"use", "result"}}

LEMMA SaidIs ==
  ASSUME NEW F, NEW I, NEW H, NEW m \in Chains(F, I, H)
  PROVE  /\ \A x : x \in Told(m) <=> \E b \in RealBlocks(m) : x \in Tells(b)
         /\ \A x : x \in Given(m) <=> \E b \in RealBlocks(m) : b.kind = "result" /\ x = b.id
         /\ \A x : x \in Holders(m) <=> \E b \in Blocks(m) : b.kind = "placeholder" /\ x = b.id
<1>1. \A b : b \in RealBlocks(m) <=> b \in Blocks(m) /\ b.kind # "placeholder"
  BY RealIs
<1>2. \A b \in Blocks(m) : b \in BlocksOf(F, I, H)
  BY ChainIs, IdsAreAt
<1>3. \A b \in Blocks(m) : b.kind = "placeholder" => UNION ToSet(b.text) = {}
  <2> SUFFICES ASSUME NEW b \in Blocks(m), b.kind = "placeholder" PROVE UNION ToSet(b.text) = {}
    OBVIOUS
  <2>1. b.text = <<>>
    BY <1>2 DEF BlocksOf, TextBlocks, IdBlocks
  <2>2. \A y : y \notin ToSet(<<>>)
    BY DEF ToSet
  <2> QED BY <2>1, <2>2
<1>4. ASSUME NEW x, x \in Told(m) PROVE \E b \in RealBlocks(m) : x \in Tells(b)
  <2>1. CASE \E b \in Blocks(m) : x \in UNION ToSet(b.text)
    BY <1>1, <1>3, <2>1 DEF Tells
  <2>2. CASE \E b \in Blocks(m) : b.kind \in {"use", "result"} /\ x = Item(b.kind, b.id)
    BY <1>1, <2>2 DEF Tells
  <2> QED BY <1>4, <2>1, <2>2 DEF Told
<1>5. ASSUME NEW x, NEW b \in RealBlocks(m), x \in Tells(b) PROVE x \in Told(m)
  <2>1. b \in Blocks(m)
    BY <1>1
  <2>2. CASE x \in UNION ToSet(b.text)
    BY <2>1, <2>2 DEF Told
  <2>3. CASE b.kind \in {"use", "result"} /\ x = Item(b.kind, b.id)
    BY <2>1, <2>3 DEF Told
  <2> QED BY <1>5, <2>2, <2>3 DEF Tells
<1> QED BY <1>1, <1>4, <1>5 DEF Given, Holders

LEMMA TwinSame ==
  ASSUME NEW F, NEW I, NEW H, NEW f \in Chains(F, I, H), NEW c \in Chains(F, I, H), Twin(f, c)
  PROVE  RealBlocks(f) = RealBlocks(c) /\ Given(f) = Given(c) /\ Told(f) = Told(c)
<1> DEFINE k == Len(f)
           n == Len(c)
<1>1. k \in Nat /\ DOMAIN f = 1..k /\ n \in Nat /\ DOMAIN c = 1..n
  BY ChainIs
<1>0. k = n \/ (k = n + 1 /\ Real(f[k]) = {}) \/ (n = k + 1 /\ Real(c[n]) = {})
  BY DEF Twin
<1> HIDE DEF k, n
<1>2. ASSUME NEW i \in DOMAIN f, Real(f[i]) # {} PROVE i \in DOMAIN c
  BY <1>0, <1>1, <1>2
<1>3. ASSUME NEW i \in DOMAIN c, Real(c[i]) # {} PROVE i \in DOMAIN f
  BY <1>0, <1>1, <1>3
<1>4. \A i \in DOMAIN f \cap DOMAIN c : Real(f[i]) = Real(c[i])
  BY DEF Twin
<1>5. \A b : b \in RealBlocks(f) <=> \E i \in DOMAIN f : b \in Real(f[i])
  BY RealIs
<1>6. \A b : b \in RealBlocks(c) <=> \E i \in DOMAIN c : b \in Real(c[i])
  BY RealIs
<1>7. RealBlocks(f) = RealBlocks(c)
  BY <1>2, <1>3, <1>4, <1>5, <1>6
<1>8. \A x : x \in Given(f) <=> x \in Given(c)
  <2>1. \A x : x \in Given(f) <=> \E b \in RealBlocks(f) : b.kind = "result" /\ x = b.id
    BY SaidIs
  <2>2. \A x : x \in Given(c) <=> \E b \in RealBlocks(c) : b.kind = "result" /\ x = b.id
    BY SaidIs
  <2> QED BY <1>7, <2>1, <2>2
<1>9. \A x : x \in Told(f) <=> x \in Told(c)
  <2>1. \A x : x \in Told(f) <=> \E b \in RealBlocks(f) : x \in Tells(b)
    BY SaidIs
  <2>2. \A x : x \in Told(c) <=> \E b \in RealBlocks(c) : x \in Tells(b)
    BY SaidIs
  <2> QED BY <1>7, <2>1, <2>2
<1>10. Given(f) = Given(c)
  BY <1>8
<1>11. Told(f) = Told(c)
  BY <1>9
<1> QED BY <1>7, <1>10, <1>11

LEMMA DropPlaced ==
  ASSUME NEW F, NEW I, NEW H, NEW m \in Chains(F, I, H), Placed(m),
         NEW d \in Chains(F, I, H), Reduced(m, d)
  PROVE  Placed(d) /\ Twin(m, d)
<1>1. /\ Len(m) \in Nat /\ DOMAIN m = 1..Len(m) /\ Len(d) \in Nat /\ DOMAIN d = 1..Len(d)
  BY ChainIs
<1>2. \A i \in DOMAIN d : i \in DOMAIN m /\ d[i].role = m[i].role /\ Real(d[i]) = Real(m[i]) /\ Neat(d[i])
  BY DEF Reduced
<1>3. Len(d) = Len(m) \/ (m # <<>> /\ Len(d) = Len(m) - 1 /\ Real(m[Len(m)]) = {})
  BY DEF Reduced
<1>4. ASSUME NEW i \in DOMAIN d, Real(d[i]) = {}
      PROVE  i = Len(d) /\ i > 1 /\ d[i].role = "user" /\ d[i - 1].role = "assistant"
  <2>1. i = Len(m) /\ i > 1 /\ m[i].role = "user" /\ m[i - 1].role = "assistant"
    BY <1>2, <1>4 DEF Placed
  <2> DEFINE n == Len(m)
             k == Len(d)
  <2>2. n \in Nat /\ k \in Nat /\ (k = n \/ k = n - 1) /\ i \in 1..k /\ i = n /\ DOMAIN d = 1..k
    BY <1>1, <1>3, <2>1
  <2> HIDE DEF n, k
  <2>3. i = k /\ i - 1 \in 1..k
    BY <2>1, <2>2
  <2> QED BY <1>2, <2>1, <2>2, <2>3 DEF k
<1>5. ASSUME NEW i \in DOMAIN d, NEW b \in Real(d[i]), b.kind = "result"
      PROVE  i > 1 /\ \E u \in Real(d[i - 1]) : u.kind = "use" /\ u.id = b.id
  <2>1. i > 1 /\ \E u \in Real(m[i - 1]) : u.kind = "use" /\ u.id = b.id
    BY <1>2, <1>5 DEF Placed
  <2>2. i - 1 \in DOMAIN d
    BY <1>1, <2>1
  <2> QED BY <1>2, <2>1, <2>2
<1>6. \A i, j \in DOMAIN d : \A a \in Real(d[i]), b \in Real(d[j]) : SameNumber(a, b) => i = j
  BY <1>2 DEF Placed
<1>7. Placed(d)
  BY <1>2, <1>4, <1>5, <1>6 DEF Placed
<1>8. CASE Len(d) = Len(m)
  BY <1>2, <1>7, <1>8 DEF Twin
<1>9. CASE m # <<>> /\ Len(d) = Len(m) - 1 /\ Real(m[Len(m)]) = {}
  <2>1. Len(m) \in DOMAIN m
    BY <1>1, <1>9
  <2>2. Len(m) > 1 /\ m[Len(m) - 1].role = "assistant"
    BY <1>9, <2>1 DEF Placed
  <2>3. Len(m) = Len(d) + 1 /\ Len(m) - 1 = Len(d) /\ Len(d) \in DOMAIN d /\ d # <<>>
    BY <1>1, <1>9, <2>2
  <2>4. d[Len(d)].role = "assistant"
    BY <1>2, <2>2, <2>3
  <2> QED BY <1>2, <1>7, <1>9, <2>3, <2>4 DEF Twin
<1> QED BY <1>3, <1>8, <1>9

LEMMA DropBlocks ==
  ASSUME NEW F, NEW I, NEW H, NEW m \in Chains(F, I, H)
  PROVE  Blocks(DropInvalidBlocks(m)) \subseteq Blocks(m)
<1> DEFINE d == DropInvalidBlocks(m)
<1>1. PICK h \in [DOMAIN d -> DOMAIN m] :
        \A k \in DOMAIN d : d[k] = Message(m[h[k]].role, KeptBlocks(m, h[k]))
  BY DropPlaces
<1> HIDE DEF d
<1> SUFFICES ASSUME NEW b \in Blocks(d) PROVE b \in Blocks(m)
  BY DEF d
<1>5. PICK k \in DOMAIN d : \E q \in DOMAIN d[k].content : b = d[k].content[q]
  BY IdsAreAt
<1>2. PICK q \in DOMAIN d[k].content : b = d[k].content[q]
  BY <1>5
<1> DEFINE i == h[k]
           kept == KeptBlocks(m, i)
<1>3. i \in DOMAIN m /\ d[k].content = kept
  BY <1>1 DEF Message
<1> HIDE DEF i, kept
<1>4. \E p \in DOMAIN m[i].content : kept[q] = m[i].content[p]
  <2>1. PICK g \in [DOMAIN kept -> DOMAIN m[i].content] :
          \A r \in DOMAIN kept : kept[r] = m[i].content[g[r]] /\ Keeps(m, i, g[r])
    BY <1>3, KeptAre DEF kept
  <2> QED BY <1>2, <1>3, <2>1
<1> QED BY <1>2, <1>3, <1>4, IdsAreAt

(* A message that only holds placeholders.                                 *)
Quiet(msg) ==
  /\ msg.content # <<>> /\ msg.role = "user"
  /\ \A p \in DOMAIN msg.content : msg.content[p].kind = "placeholder"

LEMMA QuietIs ==
  ASSUME NEW msg, Quiet(msg)
  PROVE  Neat(msg) /\ Real(msg) = {}
<1>1. \A b \in ToSet(msg.content) : b.kind = "placeholder"
  BY DEF Quiet, ToSet
<1> QED BY <1>1 DEF Quiet, Neat, Real, SameNumber

(* What is quiet changes nothing that is said.                             *)
LEMMA QuietTwin ==
  ASSUME NEW F, NEW I, NEW H, NEW m \in Chains(F, I, H), NEW d \in Chains(F, I, H),
         NEW msg \in Messages(F, I, H), Placed(m), Reduced(m, d), Quiet(msg), d # <<>>
  PROVE  LET r == AppendMessage(d, msg)
         IN  /\ Placed(r) /\ Twin(m, r)
             /\ m[Len(m)].role = "user" /\ Real(m[Len(m)]) # {} => Len(r) = Len(m)
<1> DEFINE r == AppendMessage(d, msg)
           n == Len(m)
           k == Len(d)
<1>1. Placed(d) /\ Twin(m, d)
  BY DropPlaced
<1>2. Neat(msg) /\ Real(msg) = {} /\ msg.role = "user"
  BY QuietIs DEF Quiet
<1>3. Placed(r)
  <2>1. New(d, msg)
    BY <1>2 DEF New
  <2> QED BY <1>1, <2>1, AppendPlaced
<1>4. Joins(d, msg, r) \/ Adds(d, msg, r)
  BY JoinsOrAdds
<1>5. n \in Nat /\ DOMAIN m = 1..n /\ k \in Nat /\ DOMAIN d = 1..k /\ k # 0
  BY ChainIs
<1>6. k \in DOMAIN d /\ Neat(d[k]) /\ d[k] \in Messages(F, I, H)
  BY <1>1, <1>5, ChainIs DEF Placed
<1>7. \A i \in DOMAIN d : i \in DOMAIN m /\ d[i].role = m[i].role /\ Real(d[i]) = Real(m[i])
  BY DEF Reduced
<1>8. k = n \/ (k = n - 1 /\ Real(m[n]) = {})
  BY DEF Reduced
<1>9. k = n - 1 => m[n].role = "user" /\ m[k].role = "assistant"
  <2> SUFFICES ASSUME k = n - 1 PROVE m[n].role = "user" /\ m[k].role = "assistant"
    OBVIOUS
  <2>1. n \in DOMAIN m /\ Real(m[n]) = {}
    <3> HIDE DEF n, k
    <3> QED BY <1>5, <1>8
  <2> QED BY <2>1 DEF Placed
<1> HIDE DEF r, n, k
<1>10. CASE Joins(d, msg, r)
  <2>1. /\ d[k].role = msg.role /\ Len(r) = k /\ DOMAIN r = DOMAIN d
        /\ \A i \in DOMAIN d : i # k => r[i] = d[i]
        /\ r[k].role = msg.role /\ r[k].content = d[k].content \o msg.content
    BY <1>10 DEF Joins, k
  <2>2. Real(r[k]) = Real(d[k])
    <3> DEFINE a == d[k]
               x == r[k]
    <3>1. a \in Messages(F, I, H) /\ x.role = a.role /\ msg.role = a.role
          /\ x.content = a.content \o msg.content /\ Neat(a) /\ Neat(msg)
      BY <1>2, <1>6, <2>1
    <3> HIDE DEF a, x
    <3>2. Joint(a, msg, x)
      BY <1>2, <3>1 DEF Joint
    <3>3. Real(x) = Real(a) \cup Real(msg)
      BY <3>1, <3>2, JoinedIsNeat
    <3> QED BY <1>2, <3>3 DEF a, x
  <2>3. k = n
    <3>1. k # n - 1
      BY <1>2, <1>6, <1>7, <1>9, <2>1
    <3> QED BY <1>8, <3>1
  <2>4. \A i \in DOMAIN r : i \in DOMAIN m /\ m[i].role = r[i].role /\ Real(m[i]) = Real(r[i])
    BY <1>6, <1>7, <2>1, <2>2
  <2>5. Twin(m, r)
    BY <2>1, <2>3, <2>4 DEF Twin, n
  <2> QED BY <1>3, <2>1, <2>3, <2>5 DEF n, r
<1>11. CASE Adds(d, msg, r)
  <2>1. /\ d[k].role # msg.role /\ Len(r) = k + 1 /\ DOMAIN r = 1..(k + 1)
        /\ \A i \in DOMAIN d : r[i] = d[i]
        /\ r[k + 1] = msg
    BY <1>11, <1>6 DEF Adds, k
  <2>2. \A i \in DOMAIN d : m[i].role = r[i].role /\ Real(m[i]) = Real(r[i])
    BY <1>7, <2>1
  <2>3. CASE k = n
    <3>1. \A i \in DOMAIN m \cap DOMAIN r : m[i].role = r[i].role /\ Real(m[i]) = Real(r[i])
      BY <1>5, <2>2, <2>3
    <3>2. Len(r) = n + 1 /\ Real(r[Len(r)]) = {} /\ r[Len(r)].role = "user"
      BY <1>2, <2>1, <2>3
    <3>3. Twin(m, r)
      BY <3>1, <3>2 DEF Twin, n
    <3>4. m[n].role # "user"
      BY <1>2, <1>6, <1>7, <2>1, <2>3
    <3> QED BY <1>3, <3>3, <3>4 DEF n, r
  <2>4. CASE k = n - 1
    <3>1. Real(m[n]) = {} /\ m[n].role = "user" /\ k + 1 = n
      BY <1>5, <1>8, <1>9, <2>4
    <3>2. \A i \in 1..(k + 1) : i \in 1..k \/ i = n
      BY <1>5, <3>1
    <3>3. \A i \in DOMAIN r : m[i].role = r[i].role /\ Real(m[i]) = Real(r[i])
      BY <1>2, <1>5, <2>1, <2>2, <3>1, <3>2
    <3>4. Len(r) = n
      BY <2>1, <3>1
    <3>5. Twin(m, r)
      BY <3>3, <3>4 DEF Twin, n
    <3> QED BY <1>3, <3>4, <3>5 DEF n, r
  <2> QED BY <1>8, <2>3, <2>4
<1> QED BY <1>4, <1>10, <1>11

(* The repair keeps a chain in order, says the same, and puts placeholders *)
(* only where no result is.                                                *)
Mended(m, r) ==
  /\ Placed(r) /\ Twin(m, r) /\ Given(r) = Given(m) /\ Told(r) = Told(m)
  /\ Given(m) \cap Holders(r) = {}
  /\ m # <<>> /\ m[Len(m)].role = "user" /\ Real(m[Len(m)]) # {} => Len(r) = Len(m)

LEMMA RepairTwin ==
  ASSUME NEW F, NEW n \in Nat, NEW I \in SUBSET (1..n), NEW m \in Chains(F, I, I),
         Placed(m), Apart(m, m)
  PROVE  Mended(m, RepairChain(m))
<1> DEFINE d == DropInvalidBlocks(m)
           missing == Unanswered(d)
           msg == UserMessage(Placeholders(missing))
           r == RepairChain(m)
<1>1. d \in Chains(F, I, I) /\ Reduced(m, d) /\ Blocks(d) \subseteq Blocks(m) /\ r \in Chains(F, I, I)
  BY DropIs, DropInPlace, DropBlocks, RepairIs
<1>2. Placed(d) /\ Twin(m, d)
  BY <1>1, DropPlaced
<1>3. Given(d) = Given(m)
  BY <1>1, <1>2, TwinSame
<1>4. Given(m) \cap Holders(m) = {} /\ Holders(d) \subseteq Holders(m)
  BY <1>1 DEF Apart, Holders
<1>5. r = IF missing = {} THEN d ELSE AppendMessage(d, msg)
  BY DEF RepairChain
<1>6. missing # {} => msg \in Messages(F, I, I) /\ ResultIds(msg) = missing
  BY <1>1, PlaceholdersFit
<1>7. missing # {} => Quiet(msg) /\ d # <<>>
  <2> SUFFICES ASSUME missing # {} PROVE Quiet(msg) /\ d # <<>>
    OBVIOUS
  <2> DEFINE blocks == Placeholders(missing)
  <2>1. missing \subseteq I
    BY <1>1, UnansweredAre
  <2>2. blocks \in Seq(IdBlocks({"placeholder"}, missing))
    <3>1. missing \in SUBSET (1..n)
      BY <2>1
    <3> HIDE DEF missing
    <3> QED BY <3>1, PlaceholdersAre
  <2>3. \E b : b \in ToSet(msg.content)
    BY <1>6 DEF ResultIds
  <2>4. msg.content = blocks /\ msg.role = "user"
    BY DEF UserMessage, Message
  <2>5. \E id : id \in AllUseIds(d)
    BY DEF Unanswered
  <2>6. d # <<>>
    <3>1. \A i : i \notin DOMAIN <<>>
      OBVIOUS
    <3> HIDE DEF d
    <3> QED BY <2>5, <3>1, IdsAreAt
  <2> HIDE DEF blocks, msg
  <2>7. \A p \in DOMAIN blocks : blocks[p].kind = "placeholder"
    <3>1. \A p \in DOMAIN blocks : blocks[p] \in IdBlocks({"placeholder"}, missing)
      BY <2>2
    <3> QED BY <3>1 DEF IdBlocks
  <2>8. blocks # <<>>
    BY <2>3, <2>4 DEF ToSet
  <2> QED BY <2>4, <2>6, <2>7, <2>8 DEF Quiet
<1>8. missing # {} => Blocks(AppendMessage(d, msg)) = Blocks(d) \cup ToSet(msg.content)
  BY <1>1, <1>6, AppendIds
<1>9. missing \cap Given(m) = {}
  <2>1. missing \cap AllResultIds(d) = {}
    BY DEF Unanswered
  <2>2. Given(d) \subseteq AllResultIds(d)
    <3> HIDE DEF d
    <3>1. \A b : b \in Blocks(d) /\ b.kind = "result" => b.id \in AllResultIds(d)
      BY IdsAreAt DEF IsResult
    <3> QED BY <3>1 DEF Given
  <2> QED BY <1>3, <2>1, <2>2
<1> HIDE DEF d, missing, msg, r
<1>10. Given(m) \cap Holders(r) = {}
  <2>1. CASE missing = {}
    BY <1>4, <1>5, <2>1
  <2>2. CASE missing # {}
    <3> SUFFICES ASSUME NEW id \in Holders(r), id \in Given(m) PROVE FALSE
      OBVIOUS
    <3>1. PICK b \in Blocks(r) : b.kind = "placeholder" /\ id = b.id
      BY DEF Holders
    <3>2. CASE b \in Blocks(d)
      BY <1>4, <3>1, <3>2 DEF Holders
    <3>3. CASE b \in ToSet(msg.content)
      BY <1>6, <1>9, <2>2, <3>1, <3>3 DEF ResultIds, IsResult
    <3> QED BY <1>5, <1>8, <2>2, <3>1, <3>2, <3>3
  <2> QED BY <2>1, <2>2
<1>11. Placed(r) /\ Twin(m, r) /\ (m[Len(m)].role = "user" /\ Real(m[Len(m)]) # {} => Len(r) = Len(m))
  <2>1. CASE missing = {}
    BY <1>1, <1>2, <1>5, <2>1 DEF Reduced
  <2>2. CASE missing # {}
    <3> DEFINE a == AppendMessage(d, msg)
    <3>1. Placed(a) /\ Twin(m, a) /\ (m[Len(m)].role = "user" /\ Real(m[Len(m)]) # {} => Len(a) = Len(m))
      BY <1>1, <1>6, <1>7, <2>2, QuietTwin
    <3> HIDE DEF a
    <3> QED BY <1>5, <2>2, <3>1 DEF a
  <2> QED BY <2>1, <2>2
<1>12. Given(r) = Given(m) /\ Told(r) = Told(m)
  BY <1>1, <1>11, TwinSame
<1> QED BY <1>10, <1>11, <1>12 DEF Mended, r

-----------------------------------------------------------------------------
(* The cut.                                                                *)
LEMMA KeepFromIs ==
  ASSUME NEW F, NEW I, NEW H, NEW m \in Chains(F, I, H), NEW k \in Nat \ {0}
  PROVE  /\ KeepFrom(m, k) \in Nat \ {0}
         /\ KeepFrom(m, k) = 1 \/ (KeepFrom(m, k) \in DOMAIN m /\ ~HasResult(m[KeepFrom(m, k)]))
<1> DEFINE first == IF k < Len(m) THEN Len(m) - k + 1 ELSE 1
           starts == {i \in 1..first : i = 1 \/ ~HasResult(m[i])}
           chosen == KeepFrom(m, k)
<1>1. Len(m) \in Nat /\ DOMAIN m = 1..Len(m)
  BY ChainIs
<1>2. first \in Nat /\ first >= 1 /\ (first = 1 \/ first <= Len(m))
  BY <1>1
<1>3. chosen = CHOOSE i \in starts : \A j \in starts : j <= i
  BY DEF KeepFrom
<1> HIDE DEF first, chosen
<1>4. starts \in SUBSET (1..first) /\ 1 \in starts
  BY <1>2
<1>5. \A i \in starts : i \in 1..first /\ (i = 1 \/ ~HasResult(m[i]))
  OBVIOUS
<1> HIDE DEF starts
<1>6. Max(starts) \in starts /\ \A x \in starts : Max(starts) >= x
  BY <1>2, <1>4, MaxIs
<1>7. \E i \in starts : \A j \in starts : j <= i
  BY <1>2, <1>4, <1>6
<1>8. chosen \in starts
  BY <1>3, <1>7
<1>9. chosen \in 1..first /\ (chosen = 1 \/ ~HasResult(m[chosen]))
  BY <1>5, <1>8
<1>10. chosen \in Nat \ {0} /\ (chosen = 1 \/ chosen \in DOMAIN m)
  BY <1>1, <1>2, <1>9
<1> QED BY <1>9, <1>10 DEF chosen

(* The messages from one place to another.                                 *)
Portion(m, a, b, s) ==
  /\ Len(s) = b - a + 1 /\ DOMAIN s = 1..(b - a + 1)
  /\ \A i \in DOMAIN s : i + a - 1 \in DOMAIN m /\ s[i] = m[i + a - 1]

LEMMA PortionIs ==
  ASSUME NEW T, NEW m \in Seq(T), NEW a \in Nat \ {0}, NEW b \in Nat, b <= Len(m), a <= b + 1
  PROVE  SubSeq(m, a, b) \in Seq(T) /\ Portion(m, a, b, SubSeq(m, a, b))
<1> DEFINE s == SubSeq(m, a, b)
           n == b - a + 1
<1>1. Len(m) \in Nat /\ DOMAIN m = 1..Len(m) /\ n \in Nat
  OBVIOUS
<1>2. s \in Seq(T) /\ Len(s) = n /\ \A i \in 1..n : s[i] = m[a + i - 1]
  BY <1>1, SubSeqProperties
<1>3. DOMAIN s = 1..n
  <2> HIDE DEF s, n
  <2> QED BY <1>1, <1>2
<1>4. \A i \in 1..n : a + i - 1 = i + a - 1 /\ i + a - 1 \in DOMAIN m
  BY <1>1
<1> HIDE DEF s
<1> QED BY <1>2, <1>3, <1>4 DEF Portion, s

(* A text before a chain in order, or before what is left of it after a    *)
(* cut, leaves it in order.                                                *)
Text(msg) ==
  /\ msg.role = "user" /\ msg.content # <<>>
  /\ \A p \in DOMAIN msg.content : msg.content[p].kind = "text"

LEMMA TextIs ==
  ASSUME NEW msg, Text(msg)
  PROVE  Neat(msg) /\ Real(msg) = ToSet(msg.content) /\ \A b \in Real(msg) : b.kind = "text"
<1>1. \A b \in ToSet(msg.content) : b.kind = "text"
  BY DEF Text, ToSet
<1> QED BY <1>1 DEF Text, Neat, Real, SameNumber

Cut(m, from) == from = 1 \/ (from \in DOMAIN m /\ ~HasResult(m[from]))

LEMMA CutPlaced ==
  ASSUME NEW F, NEW I, NEW H, NEW m \in Chains(F, I, H), Placed(m),
         NEW from \in Nat \ {0}, Cut(m, from), NEW gist \in Messages(F, I, H), Text(gist)
  PROVE  LET r == << gist >> \o SubSeq(m, from, Len(m))
         IN  /\ r \in Chains(F, I, H) /\ r # <<>> /\ Placed(r)
             /\ m # <<>> => r[Len(r)] = m[Len(m)]
<1> DEFINE n == Len(m)
           s == SubSeq(m, from, n)
           r == << gist >> \o s
           M == Messages(F, I, H)
           x(i) == m[i + from - 2]
<1>1. n \in Nat /\ DOMAIN m = 1..n /\ m \in Seq(M) /\ from <= n + 1
  BY ChainIs DEF Chains, Cut
<1>2. s \in Seq(M) /\ Portion(m, from, n, s)
  BY <1>1, PortionIs
<1>3. Len(s) = n - from + 1 /\ DOMAIN s = 1..(n - from + 1)
      /\ \A i \in DOMAIN s : i + from - 1 \in DOMAIN m /\ s[i] = m[i + from - 1]
  BY <1>2 DEF Portion
<1> DEFINE t == << gist >>
<1>4. t \in Seq(M) /\ Len(t) = 1 /\ DOMAIN t = {1} /\ t[1] = gist
  OBVIOUS
<1>5. /\ r \in Seq(M) /\ Len(r) = Len(t) + Len(s) /\ DOMAIN r = 1..(Len(t) + Len(s))
      /\ \A p \in DOMAIN t : r[p] = t[p]
      /\ \A p \in DOMAIN s : r[Len(t) + p] = s[p]
  <2>0. r = t \o s
    OBVIOUS
  <2> HIDE DEF s, t, r, M
  <2>1. Follows(t, s)
    BY <1>2, <1>4, JoinedAfter
  <2>2. t \o s \in Seq(M)
    BY <1>2, <1>4, Joined
  <2> QED BY <2>0, <2>1, <2>2 DEF Follows
<1> HIDE DEF s, r, n, M, t, x
<1>6. Len(r) = n - from + 2 /\ DOMAIN r = 1..(n - from + 2) /\ r[1] = gist
  BY <1>1, <1>3, <1>4, <1>5
<1>7. \A i \in DOMAIN r : i = 1 \/ (i > 1 /\ i - 1 \in DOMAIN s)
  BY <1>1, <1>3, <1>6
<1>8. \A i \in DOMAIN r : i # 1 => i > 1 /\ i + from - 2 \in DOMAIN m /\ r[i] = x(i)
  <2> SUFFICES ASSUME NEW i \in DOMAIN r, i # 1
               PROVE  i > 1 /\ i + from - 2 \in DOMAIN m /\ r[i] = m[i + from - 2]
    BY DEF x
  <2> DEFINE p == i - 1
  <2>1. i > 1 /\ p \in DOMAIN s /\ 1 + p = i /\ p + from - 1 = i + from - 2
    BY <1>1, <1>6, <1>7
  <2> HIDE DEF p
  <2>2. r[1 + p] = s[p] /\ s[p] = m[p + from - 1] /\ p + from - 1 \in DOMAIN m
    BY <1>3, <1>4, <1>5, <2>1
  <2> QED BY <2>1, <2>2
<1>9. Neat(gist) /\ Real(gist) # {} /\ \A b \in Real(gist) : b.kind = "text"
  <2>1. ToSet(gist.content) # {}
    <3>1. gist.content \in Seq(BlocksOf(F, I, H)) /\ gist.content # <<>>
      BY DEF Text, Messages
    <3> DEFINE c == gist.content
    <3>2. 1 \in DOMAIN c
      <4> HIDE DEF c
      <4> QED BY <3>1 DEF c
    <3> QED BY <3>2 DEF ToSet
  <2> QED BY <2>1, TextIs
<1>10. \A i \in DOMAIN r : Neat(r[i])
  BY <1>6, <1>8, <1>9 DEF Placed, x
<1>11. ASSUME NEW i \in DOMAIN r, NEW j \in DOMAIN r, NEW a \in Real(r[i]), NEW b \in Real(r[j]), SameNumber(a, b)
       PROVE  i = j
  <2>1. i # 1 /\ j # 1
    BY <1>6, <1>9, <1>11 DEF SameNumber
  <2>2. i + from - 2 = j + from - 2
    BY <1>8, <1>11, <2>1 DEF Placed, x
  <2> QED BY <1>1, <1>6, <2>2
<1>12. from # 1 => \A b \in Real(m[from]) : b.kind # "result"
  <2> SUFFICES ASSUME from # 1, NEW b \in Real(m[from]), b.kind = "result" PROVE FALSE
    OBVIOUS
  <2>1. from \in DOMAIN m /\ ~HasResult(m[from]) /\ Neat(m[from]) /\ m[from] \in Messages(F, I, H)
    BY ChainIs DEF Cut, Placed
  <2>2. b.id \in ResultIds(m[from])
    BY DEF Real, ResultIds, IsResult
  <2> QED BY <2>1, <2>2 DEF HasResult, Neat, Messages
<1>13. from # 1 => Real(m[from]) # {}
  <2> SUFFICES ASSUME from # 1, Real(m[from]) = {} PROVE FALSE
    OBVIOUS
  <2>1. from \in DOMAIN m /\ ~HasResult(m[from]) /\ m[from].role = "user" /\ m[from].content # <<>>
    BY DEF Cut, Placed, Neat
  <2> DEFINE c == m[from].content
  <2>2. c \in Seq(BlocksOf(F, I, H)) /\ c # <<>>
    BY <2>1, ChainIs
  <2>3. 1 \in DOMAIN c
    <3> HIDE DEF c
    <3> QED BY <2>2
  <2>4. c[1] \in ToSet(c) /\ c[1].kind = "placeholder"
    BY <2>3 DEF Real, ToSet
  <2>5. c[1].id \in ResultIds(m[from])
    BY <2>4 DEF ResultIds, IsResult
  <2> QED BY <2>1, <2>5 DEF HasResult
<1>14. ASSUME NEW i \in DOMAIN r, i # 1 PROVE i - 1 \in DOMAIN r /\ (i - 1 # 1 => r[i - 1] = m[i + from - 3]) /\ (i - 1 = 1 => i + from - 2 = from)
  <2>1. i - 1 \in DOMAIN r /\ (i - 1) + from - 2 = i + from - 3
    BY <1>1, <1>6, <1>14
  <2>2. i - 1 = 1 => i + from - 2 = from
    BY <1>6
  <2> QED BY <1>8, <2>1, <2>2 DEF x
<1>15. ASSUME NEW i \in DOMAIN r, Real(r[i]) = {}
       PROVE  i = Len(r) /\ i > 1 /\ r[i].role = "user" /\ r[i - 1].role = "assistant"
  <2>1. i # 1
    BY <1>6, <1>9, <1>15
  <2> DEFINE k == i + from - 2
  <2>2. i > 1 /\ k \in DOMAIN m /\ r[i] = m[k]
    BY <1>8, <2>1 DEF x
  <2>3. k = n /\ k > 1 /\ m[k].role = "user" /\ m[k - 1].role = "assistant"
    BY <1>15, <2>2 DEF Placed, n
  <2>4. i = Len(r) /\ k - 1 = i + from - 3
    BY <1>1, <1>6, <2>2, <2>3
  <2>5. i - 1 # 1
    <3> SUFFICES ASSUME i - 1 = 1 PROVE FALSE
      OBVIOUS
    <3>1. k = from
      BY <1>14, <2>1
    <3> HIDE DEF k
    <3>2. from # 1
      BY <2>3, <3>1
    <3> QED BY <1>13, <1>15, <2>2, <3>1, <3>2
  <2>6. r[i - 1] = m[k - 1]
    BY <1>14, <2>1, <2>4, <2>5
  <2> HIDE DEF k
  <2> QED BY <2>2, <2>3, <2>4, <2>6
<1>16. ASSUME NEW i \in DOMAIN r, NEW b \in Real(r[i]), b.kind = "result"
       PROVE  i > 1 /\ \E u \in Real(r[i - 1]) : u.kind = "use" /\ u.id = b.id
  <2>1. i # 1
    BY <1>6, <1>9, <1>16
  <2> DEFINE k == i + from - 2
  <2>2. i > 1 /\ k \in DOMAIN m /\ r[i] = m[k]
    BY <1>8, <2>1 DEF x
  <2>3. k > 1 /\ \E u \in Real(m[k - 1]) : u.kind = "use" /\ u.id = b.id
    BY <1>16, <2>2 DEF Placed
  <2>4. k - 1 = i + from - 3
    BY <1>1, <1>6
  <2>5. i - 1 # 1
    <3> SUFFICES ASSUME i - 1 = 1 PROVE FALSE
      OBVIOUS
    <3>1. k = from
      BY <1>14, <2>1
    <3> HIDE DEF k
    <3>2. from # 1
      BY <2>3, <3>1
    <3> QED BY <1>12, <1>16, <2>2, <3>1, <3>2
  <2>6. r[i - 1] = m[k - 1]
    BY <1>14, <2>1, <2>4, <2>5
  <2> HIDE DEF k
  <2> QED BY <2>2, <2>3, <2>6
<1>17. Placed(r)
  BY <1>10, <1>11, <1>15, <1>16 DEF Placed
<1>18. r # <<>>
  BY <1>1, <1>6
<1>19. m # <<>> => r[Len(r)] = m[n]
  <2> SUFFICES ASSUME m # <<>> PROVE r[Len(r)] = m[n]
    OBVIOUS
  <2>1. n # 0
    BY <1>1 DEF n
  <2>2. from <= n
    BY <1>1, <2>1 DEF Cut
  <2> DEFINE l == Len(r)
  <2>3. l \in DOMAIN r /\ l # 1 /\ l + from - 2 = n
    BY <1>1, <1>6, <2>1, <2>2
  <2> HIDE DEF l
  <2> QED BY <1>8, <2>3 DEF x, l
<1> QED BY <1>5, <1>17, <1>18, <1>19 DEF r, s, t, M, n, Chains

LEMMA ToldAt ==
  ASSUME NEW F, NEW I, NEW H, NEW m \in Chains(F, I, H)
  PROVE  \A x : x \in Told(m) <=> \E i \in DOMAIN m : \E b \in Real(m[i]) : x \in Tells(b)
<1>1. \A x : x \in Told(m) <=> \E b \in RealBlocks(m) : x \in Tells(b)
  BY SaidIs
<1>2. \A b : b \in RealBlocks(m) <=> \E i \in DOMAIN m : b \in Real(m[i])
  BY RealIs
<1> QED BY <1>1, <1>2

(* A message that tells what a chain tells.                                *)
Sums(gist, s) ==
  /\ Text(gist)
  /\ \A x : x \in Told(s) <=> \E b \in Real(gist) : x \in Tells(b)

LEMMA TextMessageIs ==
  ASSUME NEW F, NEW I, NEW H, NEW S \in F
  PROVE  LET msg == UserMessage(<< TextBlock(<< S >>) >>)
         IN  /\ msg \in Messages(F, I, H) /\ Text(msg)
             /\ \A x : x \in S <=> \E b \in Real(msg) : x \in Tells(b)
             /\ Real(msg) # {} /\ \A b \in ToSet(msg.content) : b.kind = "text"
<1> DEFINE t == TextBlock(<< S >>)
           msg == UserMessage(<< t >>)
<1>1. t.kind = "text" /\ t.text = << S >> /\ t \in TextBlocks(F) /\ t \in BlocksOf(F, I, H)
  BY DEF TextBlock, TextBlocks, BlocksOf
<1>2. \A x : x \in Tells(t) <=> x \in S
  BY <1>1 DEF Tells, ToSet
<1> HIDE DEF t
<1>3. msg.role = "user" /\ msg.content = << t >> /\ msg \in Messages(F, I, H)
  BY <1>1 DEF UserMessage, Message, Messages
<1> HIDE DEF msg
<1>4. ToSet(msg.content) = {t}
  BY <1>3 DEF ToSet
<1>5. Real(msg) = {t}
  BY <1>1, <1>4 DEF Real
<1>6. Text(msg)
  <2>1. \A p \in DOMAIN << t >> : << t >>[p] = t
    OBVIOUS
  <2> QED BY <1>1, <1>3, <2>1 DEF Text
<1> QED BY <1>1, <1>2, <1>3, <1>4, <1>5, <1>6 DEF msg, t

LEMMA GistIs ==
  ASSUME NEW F, NEW I, NEW H, NEW s, Told(s) \in F
  PROVE  SummaryMessage(s) \in Messages(F, I, H) /\ Sums(SummaryMessage(s), s)
BY TextMessageIs DEF SummaryMessage, Sums

(* What is summarised and kept is what was said, but for what a retried    *)
(* summary left out.                                                       *)
Condensed(m, r, gone) ==
  /\ Told(r) \subseteq Told(m) /\ Told(m) \subseteq Told(r) \cup Told(gone)
  /\ Given(r) \subseteq Given(m) /\ Holders(r) \subseteq Holders(m)

LEMMA CutTells ==
  ASSUME NEW F, NEW I, NEW H, NEW m \in Chains(F, I, H),
         NEW from \in Nat \ {0}, Cut(m, from), NEW lost \in 0..(from - 1),
         NEW gist \in Messages(F, I, H), 
         Sums(gist, SubSeq(SubSeq(m, 1, from - 1), lost + 1, from - 1))
  PROVE  Condensed(m, << gist >> \o SubSeq(m, from, Len(m)), SubSeq(SubSeq(m, 1, from - 1), 1, lost))
<1> DEFINE n == Len(m)
           M == Messages(F, I, H)
           src == SubSeq(m, 1, from - 1)
           told == SubSeq(src, lost + 1, from - 1)
           gone == SubSeq(src, 1, lost)
           kept == SubSeq(m, from, n)
           t == << gist >>
           r == << gist >> \o kept
<1>1. n \in Nat /\ DOMAIN m = 1..n /\ m \in Seq(M) /\ from <= n + 1
  BY ChainIs DEF Chains, Cut
<1>2. src \in Seq(M) /\ Portion(m, 1, from - 1, src)
  BY <1>1, PortionIs
<1>3. kept \in Seq(M) /\ Portion(m, from, n, kept)
  BY <1>1, PortionIs
<1>4. Len(src) = from - 1 /\ DOMAIN src = 1..(from - 1) /\ \A i \in DOMAIN src : i \in DOMAIN m /\ src[i] = m[i]
  <2> HIDE DEF src
  <2>1. (from - 1) - 1 + 1 = from - 1 /\ \A i \in 1..(from - 1) : i + 1 - 1 = i
    OBVIOUS
  <2> QED BY <1>2, <2>1 DEF Portion
<1> HIDE DEF src, kept, n, M
<1>5. told \in Seq(M) /\ Portion(src, lost + 1, from - 1, told)
  BY <1>1, <1>2, <1>4, PortionIs
<1>6. gone \in Seq(M) /\ Portion(src, 1, lost, gone)
  BY <1>1, <1>2, <1>4, PortionIs
<1> HIDE DEF told, gone
<1>7. t \in Seq(M) /\ Len(t) = 1 /\ DOMAIN t = {1} /\ t[1] = gist
  BY DEF M
<1>8. /\ r \in Seq(M)
      /\ \A p \in DOMAIN t : p \in DOMAIN r /\ r[p] = t[p]
      /\ \A p \in DOMAIN kept : Len(t) + p \in DOMAIN r /\ r[Len(t) + p] = kept[p]
      /\ \A p \in DOMAIN r : \/ p \in DOMAIN t /\ r[p] = t[p]
                             \/ p - Len(t) \in DOMAIN kept /\ r[p] = kept[p - Len(t)]
  <2>0. r = t \o kept
    OBVIOUS
  <2> HIDE DEF t, r
  <2>1. Follows(t, kept)
    BY <1>3, <1>7, JoinedAfter
  <2>2. t \o kept \in Seq(M)
    BY <1>3, <1>7, Joined
  <2> QED BY <2>0, <2>1, <2>2 DEF Follows
<1> HIDE DEF t, r
<1>9. \A i \in DOMAIN r : r[i] = gist \/ \E j \in DOMAIN m : r[i] = m[j]
  BY <1>3, <1>7, <1>8 DEF Portion
<1>10. \E i \in DOMAIN r : r[i] = gist
  BY <1>7, <1>8
<1>11. ASSUME NEW j \in DOMAIN m
       PROVE  \/ \E i \in DOMAIN r : r[i] = m[j]
              \/ \E i \in DOMAIN told : told[i] = m[j]
              \/ \E i \in DOMAIN gone : gone[i] = m[j]
  <2>1. CASE j >= from
    <3> DEFINE p == j - from + 1
    <3>1. p \in 1..(n - from + 1) /\ p + from - 1 = j
      BY <1>1, <2>1
    <3> HIDE DEF p
    <3>2. p \in DOMAIN kept /\ kept[p] = m[j]
      BY <1>3, <3>1 DEF Portion
    <3> QED BY <1>8, <3>2
  <2>2. CASE j < from /\ j > lost
    <3> DEFINE p == j - lost
    <3>1. p \in 1..((from - 1) - (lost + 1) + 1) /\ p + (lost + 1) - 1 = j /\ j \in 1..(from - 1)
      BY <1>1, <2>2
    <3> HIDE DEF p
    <3>2. p \in DOMAIN told /\ told[p] = src[j] /\ src[j] = m[j]
      BY <1>4, <1>5, <3>1 DEF Portion
    <3> QED BY <3>2
  <2>3. CASE j <= lost
    <3>1. j \in 1..(lost - 1 + 1) /\ j + 1 - 1 = j /\ j \in 1..(from - 1)
      BY <1>1, <2>3
    <3>2. j \in DOMAIN gone /\ gone[j] = src[j] /\ src[j] = m[j]
      BY <1>4, <1>6, <3>1 DEF Portion
    <3> QED BY <3>2
  <2> QED BY <1>1, <2>1, <2>2, <2>3
<1>12. \A i \in DOMAIN told : \E j \in DOMAIN m : told[i] = m[j]
  BY <1>4, <1>5 DEF Portion
<1>13. /\ \A x : x \in Told(m) <=> \E i \in DOMAIN m : \E b \in Real(m[i]) : x \in Tells(b)
       /\ \A x : x \in Told(r) <=> \E i \in DOMAIN r : \E b \in Real(r[i]) : x \in Tells(b)
       /\ \A x : x \in Told(told) <=> \E i \in DOMAIN told : \E b \in Real(told[i]) : x \in Tells(b)
       /\ \A x : x \in Told(gone) <=> \E i \in DOMAIN gone : \E b \in Real(gone[i]) : x \in Tells(b)
  <2>1. r \in Chains(F, I, H) /\ told \in Chains(F, I, H) /\ gone \in Chains(F, I, H)
    BY <1>5, <1>6, <1>8 DEF Chains, M
  <2> QED BY <2>1, ToldAt
<1>14. Text(gist) /\ \A x : x \in Told(told) <=> \E b \in Real(gist) : x \in Tells(b)
  BY DEF Sums, told, src
<1>15. ASSUME NEW x \in Told(r) PROVE x \in Told(m)
  <2>1. PICK i \in DOMAIN r : \E b \in Real(r[i]) : x \in Tells(b)
    BY <1>13, <1>15
  <2>2. CASE r[i] = gist
    <3>1. PICK k \in DOMAIN told : \E b \in Real(told[k]) : x \in Tells(b)
      BY <1>13, <1>14, <2>1, <2>2
    <3> QED BY <1>12, <1>13, <3>1
  <2>3. CASE \E j \in DOMAIN m : r[i] = m[j]
    BY <1>13, <2>1, <2>3
  <2> QED BY <1>9, <2>2, <2>3
<1>16. ASSUME NEW x \in Told(m) PROVE x \in Told(r) \cup Told(gone)
  <2>1. PICK j \in DOMAIN m : \E b \in Real(m[j]) : x \in Tells(b)
    BY <1>13, <1>16
  <2>2. CASE \E i \in DOMAIN r : r[i] = m[j]
    BY <1>13, <2>1, <2>2
  <2>3. CASE \E i \in DOMAIN told : told[i] = m[j]
    BY <1>10, <1>13, <1>14, <2>1, <2>3
  <2>4. CASE \E i \in DOMAIN gone : gone[i] = m[j]
    BY <1>13, <2>1, <2>4
  <2> QED BY <1>11, <2>2, <2>3, <2>4
<1>17. ASSUME NEW b \in Blocks(r), b.kind # "text" PROVE b \in Blocks(m)
  <2>1. PICK i \in DOMAIN r : \E p \in DOMAIN r[i].content : b = r[i].content[p]
    BY IdsAreAt
  <2>2. r[i] # gist
    BY <1>14, <1>17, <2>1 DEF Text
  <2> QED BY <1>9, <2>1, <2>2, IdsAreAt
<1>18. Given(r) \subseteq Given(m) /\ Holders(r) \subseteq Holders(m)
  BY <1>17 DEF Given, Holders
<1> QED BY <1>15, <1>16, <1>18 DEF Condensed, r, kept, gone, src, t, n

-----------------------------------------------------------------------------
(* The types.  A message of the assistant holds no result of a call.       *)
Items == {"input", "use", "result"} \X Nat
Facts == SUBSET Items
Polite(I) == {msg \in Messages(Facts, I, I) : msg.role = "assistant" => ResultIds(msg) = {}}
PoliteChains(I) == Seq(Polite(I))

LEMMA PoliteIs ==
  ASSUME NEW I
  PROVE  /\ PoliteChains(I) \subseteq Chains(Facts, I, I)
         /\ \A m \in Chains(Facts, I, I) : (\A i \in DOMAIN m : m[i] \in Polite(I)) => m \in PoliteChains(I)
         /\ \A m \in PoliteChains(I) : \A i \in DOMAIN m : m[i] \in Polite(I)
<1>1. Polite(I) \subseteq Messages(Facts, I, I)
  BY DEF Polite
<1>2. PoliteChains(I) \subseteq Chains(Facts, I, I)
  BY <1>1, SeqGrows DEF PoliteChains, Chains
<1>3. ASSUME NEW m \in Chains(Facts, I, I), \A i \in DOMAIN m : m[i] \in Polite(I)
      PROVE  m \in PoliteChains(I)
  <2>1. m \in Seq(Messages(Facts, I, I))
    BY DEF Chains
  <2> QED BY <1>3, <2>1 DEF PoliteChains
<1>4. \A m \in PoliteChains(I) : \A i \in DOMAIN m : m[i] \in Polite(I)
  BY DEF PoliteChains
<1> QED BY <1>2, <1>3, <1>4

LEMMA PoliteGrow ==
  ASSUME NEW I, NEW J, I \subseteq J
  PROVE  Polite(I) \subseteq Polite(J) /\ PoliteChains(I) \subseteq PoliteChains(J)
<1>1. Polite(I) \subseteq Polite(J)
  BY ChainsGrow DEF Polite
<1> QED BY <1>1, SeqGrows DEF PoliteChains

LEMMA PolitePart ==
  ASSUME NEW I, NEW m \in PoliteChains(I), NEW a \in Nat \ {0}, NEW b \in Nat, b <= Len(m), a <= b + 1
  PROVE  SubSeq(m, a, b) \in PoliteChains(I)
BY PortionIs DEF PoliteChains

LEMMA PoliteAppend ==
  ASSUME NEW I, NEW m \in PoliteChains(I), NEW msg \in Polite(I)
  PROVE  AppendMessage(m, msg) \in PoliteChains(I)
<1> DEFINE r == AppendMessage(m, msg)
<1>1. m \in Chains(Facts, I, I) /\ msg \in Messages(Facts, I, I) /\ \A i \in DOMAIN m : m[i] \in Polite(I)
  BY PoliteIs DEF Polite
<1>2. r \in Chains(Facts, I, I) /\ (Joins(m, msg, r) \/ Adds(m, msg, r))
  BY <1>1, AppendIs, JoinsOrAdds
<1>3. \A i \in DOMAIN r : r[i] \in Messages(Facts, I, I)
  BY <1>2, ChainIs
<1>4. Len(m) \in Nat /\ DOMAIN m = 1..Len(m) /\ (m # <<>> => Len(m) \in DOMAIN m)
  BY <1>1, ChainIs
<1> HIDE DEF r
<1>5. CASE Joins(m, msg, r)
  <2>1. ASSUME NEW i \in DOMAIN r PROVE r[i] \in Polite(I)
    <3>1. CASE i = Len(m)
      <4>1. m[i].role = msg.role /\ r[i].role = msg.role /\ ResultIds(r[i]) = ResultIds(m[i]) \cup ResultIds(msg)
            /\ i \in DOMAIN m
        BY <1>4, <1>5, <3>1 DEF Joins
      <4>2. r[i].role = "assistant" => ResultIds(r[i]) = {}
        BY <1>1, <4>1 DEF Polite
      <4> QED BY <1>3, <4>2 DEF Polite
    <3>2. CASE i # Len(m)
      BY <1>1, <1>5, <3>2 DEF Joins
    <3> QED BY <3>1, <3>2
  <2> QED BY <1>2, <2>1, PoliteIs DEF r
<1>6. CASE Adds(m, msg, r)
  <2>1. \A i \in DOMAIN r : i \in DOMAIN m \/ i = Len(m) + 1
    BY <1>4, <1>6 DEF Adds
  <2>2. \A i \in DOMAIN r : r[i] \in Polite(I)
    BY <1>1, <1>6, <2>1 DEF Adds
  <2> QED BY <1>2, <2>2, PoliteIs DEF r
<1> QED BY <1>2, <1>5, <1>6

LEMMA PoliteFlush ==
  ASSUME NEW I, NEW f \in PoliteChains(I), NEW c \in PoliteChains(I)
  PROVE  Flush(f, c) \in PoliteChains(I)
<1> DEFINE P == Polite(I)
<1>1. f \in Seq(P) /\ c \in Seq(P) /\ Len(f) \in Nat /\ Len(c) \in Nat
  BY DEF PoliteChains
<1>2. CASE c # <<>> /\ Len(c) > Len(f)
  <2>1. SubSeq(c, Len(f) + 1, Len(c)) \in Seq(P)
    BY <1>1, <1>2, PortionIs
  <2> QED BY <1>1, <1>2, <2>1, Joined DEF Flush, PoliteChains
<1>3. CASE c # <<>> /\ Len(c) = Len(f)
  <2>1. f # <<>> /\ Last(c) \in P
    BY <1>1, <1>3 DEF Last
  <2>2. Front(f) \in Seq(P)
    BY <1>1, <2>1, FrontIs
  <2>3. << Last(c) >> \in Seq(P)
    BY <2>1
  <2>4. Front(f) \o << Last(c) >> \in Seq(P)
    BY <2>2, <2>3, Joined
  <2> QED BY <1>1, <1>3, <2>4 DEF Flush, PoliteChains
<1>4. CASE c = <<>> \/ Len(c) < Len(f)
  BY <1>4 DEF Flush
<1> QED BY <1>1, <1>2, <1>3, <1>4

LEMMA PoliteRepair ==
  ASSUME NEW n \in Nat, NEW I \in SUBSET (1..n), NEW m \in PoliteChains(I)
  PROVE  RepairChain(m) \in PoliteChains(I)
<1> DEFINE d == DropInvalidBlocks(m)
           missing == Unanswered(d)
           msg == UserMessage(Placeholders(missing))
<1>1. m \in Chains(Facts, I, I) /\ \A i \in DOMAIN m : m[i] \in Polite(I)
  BY PoliteIs
<1>2. d \in Chains(Facts, I, I)
  BY <1>1, DropIs
<1>3. PICK h \in [DOMAIN d -> DOMAIN m] :
        \A k \in DOMAIN d : d[k] = Message(m[h[k]].role, KeptBlocks(m, h[k]))
  BY <1>1, DropPlaces
<1>4. RepairChain(m) = IF missing = {} THEN d ELSE AppendMessage(d, msg)
  BY DEF RepairChain
<1>5. missing # {} => msg \in Messages(Facts, I, I)
  BY <1>2, PlaceholdersFit
<1>6. missing # {} => msg \in Polite(I)
  BY <1>5 DEF Polite, UserMessage, Message
<1> HIDE DEF d, missing, msg
<1>7. ASSUME NEW k \in DOMAIN d PROVE d[k] \in Polite(I)
  <2> DEFINE i == h[k]
             kept == KeptBlocks(m, i)
  <2>1. i \in DOMAIN m /\ d[k].content = kept /\ d[k].role = m[i].role /\ d[k] \in Messages(Facts, I, I)
    BY <1>2, <1>3, ChainIs DEF Message
  <2> HIDE DEF i, kept
  <2>2. PICK g \in [DOMAIN kept -> DOMAIN m[i].content] :
          \A r \in DOMAIN kept : kept[r] = m[i].content[g[r]] /\ Keeps(m, i, g[r])
    BY <1>1, <2>1, KeptAre DEF kept
  <2>3. ToSet(d[k].content) \subseteq ToSet(m[i].content)
    BY <2>1, <2>2 DEF ToSet
  <2>4. ResultIds(d[k]) \subseteq ResultIds(m[i])
    BY <2>3 DEF ResultIds
  <2> QED BY <1>1, <2>1, <2>4 DEF Polite
<1>8. d \in PoliteChains(I)
  BY <1>2, <1>7, PoliteIs
<1> QED BY <1>4, <1>6, <1>8, PoliteAppend

LEMMA ToldItems ==
  ASSUME NEW I \in SUBSET Nat, NEW m \in Chains(Facts, I, I)
  PROVE  Told(m) \in Facts
<1> SUFFICES ASSUME NEW x \in Told(m) PROVE x \in Items
  BY DEF Facts
<1>1. PICK i \in DOMAIN m : \E b \in Real(m[i]) : x \in Tells(b)
  BY ToldAt
<1>2. PICK b \in Real(m[i]) : x \in Tells(b)
  BY <1>1
<1>3. b \in BlocksOf(Facts, I, I)
  BY RealIs
<1>4. CASE b.kind \in {"use", "result"} /\ x = Item(b.kind, b.id)
  <2>1. b.id \in I
    BY <1>3, <1>4 DEF BlocksOf, TextBlocks, IdBlocks
  <2> QED BY <1>4, <2>1 DEF Items, Item
<1>5. CASE x \in UNION ToSet(b.text)
  <2>1. PICK p \in DOMAIN b.text : x \in b.text[p]
    BY <1>5 DEF ToSet
  <2>2. b.text \in Seq(Facts) \/ b.text = <<>>
    BY <1>3 DEF BlocksOf, TextBlocks, IdBlocks
  <2>3. b.text # <<>>
    BY <2>1
  <2>4. b.text[p] \in Facts
    BY <2>1, <2>2, <2>3
  <2> QED BY <2>1, <2>4 DEF Facts
<1> QED BY <1>2, <1>4, <1>5 DEF Tells

Texts == [id : Nat, of : Nat, tool : {o.tool : o \in Outputs} \cup {"ReadFile"},
          marks : {o.marks : o \in Outputs}, chars : {o.chars : o \in Outputs}]
Forms == {"whole", "preview", "summary"}
Phases == {"idle", "turn", "compacting", "llm", "tools", "results", "digest"}
Chain(n) == PoliteChains(1..(n - 1))
Conversations(n) == [sid : Sessions, msgs : Chain(n)]
Jobs(n) == [by : {"run", "ui"}, object : Nat, src : Chain(n), kept : Chain(n)]

(* A cut leaves no result behind its call.                                 *)
Separate(j) == j.src # <<>> /\ j.kept # <<>> /\ ~HasResult(j.kept[1])

Talk(o, f, k, n) ==
  /\ o \in Seq(Conversations(n)) /\ o # <<>>
  /\ f \in [Sessions -> Chain(n)] /\ k \in SUBSET Sessions
ConversationsOK(n) == Talk(objects, file, known, n)
JobsOK(n) == jobs \in SUBSET Jobs(n) /\ \A j \in jobs : Separate(j)
ResultsOK ==
  /\ batch \in [calls : Seq(Nat), done : Seq([result : Texts, form : Forms]), dir : Sessions \cup {NoSession}]
  /\ handler \in Sessions \cup {NoSession} /\ stored \in [Sessions -> SUBSET Texts]
  /\ shown \in [1..MaxItems -> [of : Nat, form : Forms \cup {"none"}]]
Numbered ==
  /\ \A p \in DOMAIN batch.calls : batch.calls[p] \in 1..(next - 1)
  /\ \A p \in DOMAIN batch.done : batch.done[p].result.id \in 1..(next - 1)
CountsOK == pc \in Phases /\ next \in 1..(MaxItems + 1) /\ compactions \in Nat /\ switches \in Nat
HistoryOK == given \in [Sessions -> Facts] /\ dropped \in [Sessions -> Facts]

TypeOK == ConversationsOK(next) /\ JobsOK(next) /\ ResultsOK /\ Numbered /\ CountsOK /\ HistoryOK

LEMMA NumbersAre == next \in 1..(MaxItems + 1) => next \in Nat /\ MaxItems \in Nat /\ 1..(next - 1) \in SUBSET Nat
BY CompactionAssumption

LEMMA ChainGrows ==
  ASSUME NEW n \in Nat, NEW k \in Nat, n <= k
  PROVE  /\ Polite(1..(n - 1)) \subseteq Polite(1..(k - 1)) /\ Chain(n) \subseteq Chain(k)
         /\ Seq(Conversations(n)) \subseteq Seq(Conversations(k))
         /\ [Sessions -> Chain(n)] \subseteq [Sessions -> Chain(k)]
         /\ Jobs(n) \subseteq Jobs(k)
<1>1. 1..(n - 1) \subseteq 1..(k - 1)
  OBVIOUS
<1>2. Polite(1..(n - 1)) \subseteq Polite(1..(k - 1)) /\ Chain(n) \subseteq Chain(k)
  BY <1>1, PoliteGrow DEF Chain
<1>3. Conversations(n) \subseteq Conversations(k)
  BY <1>2 DEF Conversations
<1>4. Jobs(n) \subseteq Jobs(k)
  BY <1>2 DEF Jobs
<1>5. Seq(Conversations(n)) \subseteq Seq(Conversations(k))
  BY <1>3, SeqGrows
<1> QED BY <1>2, <1>4, <1>5

LEMMA ChainTyped ==
  ASSUME NEW n \in Nat, NEW m \in Chain(n)
  PROVE  /\ m \in PoliteChains(1..(n - 1)) /\ m \in Chains(Facts, 1..(n - 1), 1..(n - 1))
         /\ 1..(n - 1) \in SUBSET (1..n) /\ 1..(n - 1) \in SUBSET Nat
         /\ Len(m) \in Nat /\ DOMAIN m = 1..Len(m)
<1>1. m \in PoliteChains(1..(n - 1)) /\ m \in Chains(Facts, 1..(n - 1), 1..(n - 1))
  BY PoliteIs DEF Chain
<1> QED BY <1>1, ChainIs

LEMMA CurrentIs ==
  ASSUME ConversationsOK(next), next \in Nat
  PROVE  /\ Len(objects) \in DOMAIN objects /\ CurrentSession \in Sessions
         /\ Current = objects[Len(objects)] /\ Current.msgs \in Chain(next)
<1>1. Len(objects) \in DOMAIN objects /\ objects[Len(objects)] \in Conversations(next)
  BY DEF ConversationsOK, Talk
<1> QED BY <1>1 DEF Current, CurrentSession, Conversations

(* Replacing the messages of a conversation.                               *)
LEMMA MsgsReplaced ==
  ASSUME NEW n, NEW o \in Seq(Conversations(n)), NEW k, NEW m \in Chain(n)
  PROVE  LET p == [o EXCEPT ![k].msgs = m]
         IN  /\ p \in Seq(Conversations(n)) /\ Len(p) = Len(o)
             /\ \A i \in DOMAIN o : p[i] = IF i = k THEN [o[i] EXCEPT !.msgs = m] ELSE o[i]
<1> DEFINE x(i) == IF i = k THEN [o[i] EXCEPT !.msgs = m] ELSE o[i]
           p == [o EXCEPT ![k].msgs = m]
<1>1. o \in [1..Len(o) -> Conversations(n)] /\ Len(o) \in Nat
  OBVIOUS
<1>2. \A i \in 1..Len(o) : x(i) \in Conversations(n)
  BY <1>1 DEF Conversations
<1>3. p = [i \in 1..Len(o) |-> x(i)]
  BY <1>1
<1> HIDE DEF x, p
<1>4. p \in [1..Len(o) -> Conversations(n)]
  BY <1>2, <1>3
<1>5. p \in Seq(Conversations(n)) /\ Len(p) = Len(o)
  BY <1>1, <1>4
<1>6. \A i \in DOMAIN o : p[i] = x(i)
  BY <1>1, <1>3
<1> QED BY <1>5, <1>6 DEF p, x

LEMMA SpokenTyped ==
  ASSUME TypeOK, NEW k \in Nat, next <= k, NEW msg \in Polite(1..(k - 1)), AddAndFlush(msg), known' = known
  PROVE  Talk(objects', file', known', k) /\ given' \in [Sessions -> Facts] /\ Len(objects') = Len(objects)
<1>1. next \in Nat
  BY NumbersAre DEF TypeOK, CountsOK
<1>2. /\ objects \in Seq(Conversations(k)) /\ objects # <<>>
      /\ file \in [Sessions -> Chain(k)] /\ known \in SUBSET Sessions
      /\ Current.msgs \in Chain(k)
  BY <1>1, ChainGrows, CurrentIs DEF TypeOK, ConversationsOK, Talk
<1> DEFINE msgs == AppendMessage(Current.msgs, msg)
<1>3. msgs \in Chain(k)
  BY <1>2, PoliteAppend DEF Chain
<1>4. /\ objects' = [objects EXCEPT ![Len(objects)].msgs = msgs]
      /\ file' = [file EXCEPT ![CurrentSession] = Flush(@, msgs)]
      /\ given' = [given EXCEPT ![CurrentSession] = @ \cup Told(<< msg >>)]
  BY DEF AddAndFlush
<1> HIDE DEF msgs
<1>5. objects' \in Seq(Conversations(k)) /\ Len(objects') = Len(objects)
  BY <1>2, <1>3, <1>4, MsgsReplaced
<1>6. objects' # <<>>
  BY <1>2, <1>5
<1>7. \A s \in Sessions : Flush(file[s], msgs) \in Chain(k)
  BY <1>2, <1>3, PoliteFlush DEF Chain
<1>8. file' \in [Sessions -> Chain(k)]
  BY <1>2, <1>4, <1>7
<1>9. Told(<< msg >>) \in Facts
  <2>1. << msg >> \in Chains(Facts, 1..(k - 1), 1..(k - 1))
    BY DEF Polite, Chains
  <2>2. 1..(k - 1) \in SUBSET Nat
    OBVIOUS
  <2> QED BY <2>1, <2>2, ToldItems
<1>10. given' \in [Sessions -> Facts]
  BY <1>4, <1>9 DEF TypeOK, HistoryOK, Facts
<1> QED BY <1>2, <1>5, <1>6, <1>8, <1>10 DEF ConversationsOK, Talk

LEMMA GistTyped ==
  ASSUME next \in Nat, NEW m \in Chain(next)
  PROVE  SummaryMessage(m) \in Polite(1..(next - 1)) /\ Sums(SummaryMessage(m), m)
<1>1. Told(m) \in Facts
  BY ChainTyped, ToldItems
<1>2. SummaryMessage(m) \in Messages(Facts, 1..(next - 1), 1..(next - 1)) /\ Sums(SummaryMessage(m), m)
  BY <1>1, GistIs
<1>3. SummaryMessage(m).role = "user"
  BY DEF SummaryMessage, UserMessage, Message
<1> QED BY <1>2, <1>3 DEF Polite

LEMMA ReplacedTyped ==
  ASSUME ConversationsOK(next), next \in Nat, NEW job, job.kept \in Chain(next),
         NEW gist \in Polite(1..(next - 1)), Replaced(job, gist)
  PROVE  Talk(objects', file', known', next)
<1> DEFINE msgs == << gist >> \o job.kept
<1> DEFINE place == job.object
<1>1. msgs \in Chain(next)
  <2>1. << gist >> \in Seq(Polite(1..(next - 1))) /\ job.kept \in Seq(Polite(1..(next - 1)))
    BY DEF Chain, PoliteChains
  <2> QED BY <2>1, Joined DEF Chain, PoliteChains
<1>2. /\ objects' = [objects EXCEPT ![place].msgs = msgs]
      /\ file' = [file EXCEPT ![CurrentSession] = msgs]
      /\ known' = known \cup {CurrentSession}
  BY DEF Replaced
<1> HIDE DEF msgs, place
<1>0. objects \in Seq(Conversations(next)) /\ objects # <<>>
  BY DEF ConversationsOK, Talk
<1>3. objects' \in Seq(Conversations(next)) /\ Len(objects') = Len(objects)
  BY <1>0, <1>1, <1>2, MsgsReplaced
<1>4. objects' # <<>>
  BY <1>0, <1>3
<1>5. file' \in [Sessions -> Chain(next)] /\ known' \in SUBSET Sessions
  BY <1>1, <1>2, CurrentIs DEF ConversationsOK, Talk
<1> QED BY <1>3, <1>4, <1>5 DEF ConversationsOK, Talk

LEMMA JobIs ==
  ASSUME NEW n \in Nat, NEW m \in Chain(n), NEW k \in KeepMin..(KeepMin + Len(m)), NEW by
  PROVE  LET from == KeepFrom(m, k)
             job == Job(by, m, from)
         IN  /\ from \in Nat \ {0} /\ Cut(m, from)
             /\ job.by = by /\ job.object = Len(objects)
             /\ job.src = SubSeq(m, 1, from - 1) /\ job.kept = SubSeq(m, from, Len(m))
             /\ job.src \in Chain(n) /\ job.kept \in Chain(n)
             /\ Len(job.src) = from - 1 /\ (job.src = <<>> => from = 1)
             /\ job.src # <<>> => from \in DOMAIN m /\ Separate(job)
<1> DEFINE from == KeepFrom(m, k)
           src == SubSeq(m, 1, from - 1)
           kept == SubSeq(m, from, Len(m))
           job == Job(by, m, from)
<1>1. m \in Chains(Facts, 1..(n - 1), 1..(n - 1)) /\ Len(m) \in Nat /\ DOMAIN m = 1..Len(m)
      /\ m \in PoliteChains(1..(n - 1))
  BY ChainTyped
<1>2. k \in Nat \ {0}
  BY <1>1, CompactionAssumption
<1>3. from \in Nat \ {0} /\ Cut(m, from)
  BY <1>1, <1>2, KeepFromIs DEF Cut
<1>4. job.by = by /\ job.object = Len(objects) /\ job.src = src /\ job.kept = kept
  BY DEF Job
<1> HIDE DEF from
<1>5. from - 1 \in Nat /\ from <= Len(m) + 1
  BY <1>1, <1>3 DEF Cut
<1>6. src \in Chain(n) /\ kept \in Chain(n)
  BY <1>1, <1>3, <1>5, PolitePart DEF Chain
<1>7. Portion(m, 1, from - 1, src) /\ Portion(m, from, Len(m), kept)
  BY <1>1, <1>3, <1>5, PortionIs DEF PoliteChains
<1> HIDE DEF src, kept, job
<1>8. Len(src) = from - 1
  BY <1>5, <1>7 DEF Portion
<1>9. src = <<>> => from = 1
  BY <1>3, <1>8
<1>10. ASSUME src # <<>> PROVE from \in DOMAIN m /\ kept # <<>> /\ ~HasResult(kept[1])
  <2>1. from # 1
    <3>1. src \in Seq(Polite(1..(n - 1)))
      BY <1>6 DEF Chain, PoliteChains
    <3> QED BY <1>8, <1>10, <3>1
  <2>2. from \in DOMAIN m /\ ~HasResult(m[from])
    BY <1>3, <2>1 DEF Cut
  <2>3. 1 \in 1..(Len(m) - from + 1) /\ 1 + from - 1 = from
    BY <1>1, <1>3, <2>2
  <2>4. 1 \in DOMAIN kept /\ kept[1] = m[from]
    BY <1>7, <2>3 DEF Portion
  <2>5. kept # <<>>
    BY <2>4
  <2> QED BY <2>2, <2>4, <2>5
<1> QED BY <1>3, <1>4, <1>6, <1>8, <1>9, <1>10 DEF Separate, job, src, kept, from

LEMMA BegunTyped ==
  ASSUME ConversationsOK(next), JobsOK(next), next \in Nat, NEW by \in {"run", "ui"},
         NEW msgs \in Chain(next), NEW waiting \in Phases, NEW done \in Phases,
         compactions \in Nat, BeginCompaction(by, msgs, waiting, done)
  PROVE  /\ Talk(objects', file', known', next)
         /\ jobs' \in SUBSET Jobs(next) /\ \A j \in jobs' : Separate(j)
         /\ pc' \in Phases /\ compactions' \in Nat
<1>1. compactions' \in Nat
  BY DEF BeginCompaction
<1>2. PICK k \in KeepMin..(KeepMin + Len(msgs)) :
        LET job == Job(by, msgs, KeepFrom(msgs, k))
        IN  IF job.src = <<>>
            THEN /\ Replaced(job, SummaryMessage(<<>>))
                 /\ pc' = done /\ UNCHANGED jobs
            ELSE /\ objects' = [objects EXCEPT ![Len(objects)].msgs = msgs]
                 /\ jobs' = jobs \cup {job}
                 /\ pc' = waiting /\ UNCHANGED <<file, known>>
  BY DEF BeginCompaction
<1> DEFINE from == KeepFrom(msgs, k)
           job == Job(by, msgs, from)
<1>3. /\ job.by = by /\ job.object = Len(objects) /\ job.src \in Chain(next) /\ job.kept \in Chain(next)
      /\ job.src # <<>> => Separate(job)
  BY JobIs
<1>4. job \in Jobs(next)
  <2>1. Len(objects) \in Nat
    BY DEF ConversationsOK, Talk
  <2> QED BY <1>3, <2>1 DEF Job, Jobs
<1> HIDE DEF from, job
<1>5. CASE job.src = <<>>
  <2>1. Replaced(job, SummaryMessage(<<>>)) /\ pc' = done /\ jobs' = jobs
    BY <1>2, <1>5 DEF job, from
  <2>2. <<>> \in Chain(next)
    BY DEF Chain, PoliteChains
  <2>3. SummaryMessage(<<>>) \in Polite(1..(next - 1))
    BY <2>2, GistTyped
  <2> QED BY <1>1, <1>3, <2>1, <2>3, ReplacedTyped DEF JobsOK
<1>6. CASE job.src # <<>>
  <2>1. /\ objects' = [objects EXCEPT ![Len(objects)].msgs = msgs] /\ file' = file /\ known' = known
        /\ jobs' = jobs \cup {job} /\ pc' = waiting
    BY <1>2, <1>6 DEF job, from
  <2>2. objects' \in Seq(Conversations(next)) /\ Len(objects') = Len(objects)
    BY <2>1, MsgsReplaced DEF ConversationsOK, Talk
  <2>3. objects' # <<>>
    BY <2>2 DEF ConversationsOK, Talk
  <2>4. Talk(objects', file', known', next)
    BY <2>1, <2>2, <2>3 DEF ConversationsOK, Talk
  <2>5. jobs' \in SUBSET Jobs(next) /\ \A j \in jobs' : Separate(j)
    BY <1>3, <1>4, <1>6, <2>1 DEF JobsOK
  <2> QED BY <1>1, <2>1, <2>4, <2>5
<1> QED BY <1>5, <1>6

LEMMA OpenTyped ==
  ASSUME ConversationsOK(next), NEW c \in Conversations(next), NEW k \in SUBSET Sessions, NEW f \in [Sessions -> Chain(next)],
         objects' = (IF jobs = {} THEN <<>> ELSE objects) \o << c >>
  PROVE  Talk(objects', f, k, next)
<1> DEFINE o == IF jobs = {} THEN <<>> ELSE objects
           n == Conversations(next)
<1>1. o \in Seq(n) /\ c \in n
  BY DEF ConversationsOK, Talk
<1> HIDE DEF o, n
<1>2. Longer(n, o, c, o \o << c >>) /\ Len(o) \in Nat
  BY <1>1, OneMore
<1>3. o \o << c >> \in Seq(n) /\ o \o << c >> # <<>>
  <2> DEFINE p == o \o << c >>
  <2>1. p \in Seq(n) /\ Len(p) = Len(o) + 1 /\ Len(o) \in Nat
    BY <1>2 DEF Longer
  <2> HIDE DEF p
  <2>2. p # <<>>
    BY <2>1
  <2> QED BY <2>1, <2>2 DEF p
<1> QED BY <1>3 DEF Talk, o, n

-----------------------------------------------------------------------------
(* The batch brought to its length: one more result is stored at a time.   *)
Whole(qs) == {i \in DOMAIN qs : qs[i].form = "whole"}
Longest(qs) ==
  CHOOSE i \in Whole(qs) : \A j \in Whole(qs) :
    \/ ShownChars(qs[j]) < ShownChars(qs[i])
    \/ ShownChars(qs[j]) = ShownChars(qs[i]) /\ i <= j
Shortened(qs) ==
  IF TotalChars(qs) <= AggregateThreshold \/ Whole(qs) = {} THEN qs
  ELSE [qs EXCEPT ![Longest(qs)].form = "preview"]
After(f, ps, n) == f = [i \in 0..n |-> IF i = 0 THEN ps ELSE Shortened(f[i - 1])]

LEMMA AfterAt ==
  ASSUME NEW f, NEW ps, NEW n \in Nat, After(f, ps, n), NEW i \in 0..n
  PROVE  f[i] = IF i = 0 THEN ps ELSE Shortened(f[i - 1])
<1> DEFINE v(k) == IF k = 0 THEN ps ELSE Shortened(f[k - 1])
           h == [k \in 0..n |-> v(k)]
<1>1. f = h
  BY DEF After
<1>2. h[i] = v(i)
  OBVIOUS
<1> QED
  <2> HIDE DEF h
  <2> QED BY <1>1, <1>2

LEMMA AfterExists ==
  ASSUME NEW ps, NEW m \in Nat
  PROVE  \E f : After(f, ps, m)
<1> DEFINE S == {n \in Nat : \E f : After(f, ps, n)}
<1>1. 0 \in S
  <2> DEFINE f == [i \in 0..0 |-> ps]
  <2>1. After(f, ps, 0)
    BY DEF After
  <2> QED BY <2>1
<1>2. ASSUME NEW n \in S PROVE n + 1 \in S
  <2>1. PICK f : After(f, ps, n)
    BY <1>2
  <2> DEFINE g == [i \in 0..n + 1 |-> IF i <= n THEN f[i] ELSE Shortened(f[i - 1])]
             v(i) == IF i = 0 THEN ps ELSE Shortened(g[i - 1])
  <2>2. n \in Nat
    OBVIOUS
  <2>3. \A i \in 0..n : f[i] = IF i = 0 THEN ps ELSE Shortened(f[i - 1])
    BY <2>1, <2>2, AfterAt
  <2>4. \A i \in 0..n : g[i] = f[i]
    BY <2>2
  <2>5. g[n + 1] = Shortened(f[n])
    BY <2>2
  <2>6. ASSUME NEW i \in 0..n + 1 PROVE g[i] = v(i)
    <3>1. CASE i \in 0..n
      <4>1. i = 0 \/ i - 1 \in 0..n
        BY <2>2, <3>1
      <4> HIDE DEF g
      <4> QED BY <2>3, <2>4, <3>1, <4>1
    <3>2. CASE i = n + 1
      <4>1. i # 0 /\ i - 1 = n /\ g[n] = f[n]
        BY <2>2, <2>4, <3>2
      <4> HIDE DEF g
      <4> QED BY <2>5, <3>2, <4>1
    <3> QED BY <2>2, <3>1, <3>2
  <2>7. After(g, ps, n + 1)
    <3>1. g = [i \in 0..n + 1 |-> g[i]]
      OBVIOUS
    <3> HIDE DEF g
    <3>2. g = [i \in 0..n + 1 |-> v(i)]
      BY <2>6, <3>1
    <3> QED BY <3>2 DEF After
  <2> QED BY <2>2, <2>7
<1> HIDE DEF S
<1>3. S = Nat
  BY <1>1, <1>2, Induction DEF S
<1> QED BY <1>3 DEF S

Batches == Seq([result : Texts, form : Forms])

(* The same results in the same places, each in some form.                 *)
SameResults(ps, qs) ==
  qs \in Batches /\ Len(qs) = Len(ps) /\ \A i \in DOMAIN ps : qs[i].result = ps[i].result

LEMMA ShortenedIs ==
  ASSUME NEW ps \in Batches, NEW qs, SameResults(ps, qs)
  PROVE  SameResults(ps, Shortened(qs))
<1> DEFINE k == Longest(qs)
           e == [qs EXCEPT ![k].form = "preview"]
           T == [result : Texts, form : Forms]
           x(i) == IF i = k THEN [qs[i] EXCEPT !.form = "preview"] ELSE qs[i]
<1>0. qs \in Seq(T) /\ ps \in Seq(T) /\ Len(qs) = Len(ps)
  BY DEF SameResults, Batches
<1> HIDE DEF k
<1>1. qs \in [1..Len(qs) -> T] /\ Len(qs) \in Nat /\ Len(qs) = Len(ps) /\ ps \in Seq(T)
  <2> HIDE DEF T
  <2> QED BY <1>0
<1>2. \A i \in 1..Len(qs) : x(i) \in T /\ x(i).result = qs[i].result
  BY <1>1 DEF Forms
<1>3. e = [i \in 1..Len(qs) |-> x(i)]
  BY <1>1
<1> HIDE DEF x, e, T
<1>4. e \in [1..Len(qs) -> T] /\ \A i \in 1..Len(qs) : e[i] = x(i)
  BY <1>2, <1>3
<1>5. e \in Seq(T) /\ Len(e) = Len(qs)
  BY <1>1, <1>4
<1>6. DOMAIN ps = 1..Len(qs)
  BY <1>1
<1>7. SameResults(ps, e)
  BY <1>1, <1>2, <1>4, <1>5, <1>6 DEF SameResults, Batches, T
<1> QED BY <1>7 DEF Shortened, e, k

LEMMA AggregateIs ==
  ASSUME NEW ps \in Batches
  PROVE  SameResults(ps, Aggregate(ps))
<1> DEFINE n == Len(ps)
           f == CHOOSE g : After(g, ps, n)
           S == {i \in Nat : i <= n => SameResults(ps, f[i])}
<1>1. n \in Nat
  BY DEF Batches
<1>2. After(f, ps, n)
  BY <1>1, AfterExists
<1>3. Aggregate(ps) = f[n]
  BY DEF Aggregate, After, Shortened, Longest, Whole
<1> HIDE DEF f, n
<1>4. 0 \in S
  <2>1. f[0] = ps
    BY <1>1, <1>2, AfterAt
  <2> QED BY <2>1 DEF SameResults
<1>5. ASSUME NEW i \in S PROVE i + 1 \in S
  <2> SUFFICES ASSUME i + 1 <= n PROVE SameResults(ps, f[i + 1])
    OBVIOUS
  <2>1. i \in Nat /\ i + 1 \in 0..n /\ i + 1 # 0 /\ (i + 1) - 1 = i /\ i <= n
    BY <1>1
  <2>2. f[i + 1] = Shortened(f[i])
    BY <1>1, <1>2, <2>1, AfterAt
  <2>3. SameResults(ps, f[i])
    BY <1>5, <2>1
  <2> QED BY <2>2, <2>3, ShortenedIs
<1> HIDE DEF S
<1>6. S = Nat
  BY <1>4, <1>5, Induction DEF S
<1>7. SameResults(ps, f[n])
  BY <1>1, <1>6 DEF S
<1> QED BY <1>3, <1>7

-----------------------------------------------------------------------------
(* Type correctness, step by step.                                         *)
Untouched == UNCHANGED <<objects, file, known, jobs, next, given, dropped, compactions, switches>>

LEMMA TalkUntouched == TypeOK /\ Untouched /\ ResultsOK' /\ Numbered' /\ pc' \in Phases => TypeOK'
<1> SUFFICES ASSUME TypeOK, Untouched, ResultsOK', Numbered', pc' \in Phases PROVE TypeOK'
  OBVIOUS
<1>1. ConversationsOK(next)' /\ JobsOK(next)'
  BY DEF TypeOK, Untouched, ConversationsOK, JobsOK, Talk, Conversations, Chain, Jobs
<1> QED BY <1>1 DEF TypeOK, Untouched, CountsOK, HistoryOK

LEMMA RangeGrows == ASSUME NEW n \in Nat, NEW k \in Nat, n <= k PROVE 1..(n - 1) \subseteq 1..(k - 1)
OBVIOUS

LEMMA ResultsUntouched ==
  ASSUME ResultsOK, Numbered, UNCHANGED results, next \in Nat, next' \in Nat, next <= next'
  PROVE  ResultsOK' /\ Numbered'
<1>1. 1..(next - 1) \subseteq 1..(next' - 1)
  BY RangeGrows
<1> QED BY <1>1 DEF results, ResultsOK, Numbered

(* What stays with a number that grows.                                    *)
LEMMA JobsGrow ==
  ASSUME JobsOK(next), next \in Nat, NEW k \in Nat, next <= k
  PROVE  jobs \in SUBSET Jobs(k) /\ \A j \in jobs : Separate(j)
BY ChainGrows DEF JobsOK

LEMMA SpokenKept ==
  ASSUME TypeOK, NEW msg, AddAndFlush(msg), known' = known, jobs' = jobs, dropped' = dropped,
         next' \in 1..(MaxItems + 1), next <= next', msg \in Polite(1..(next' - 1)),
         ResultsOK', Numbered', pc' \in Phases, compactions' = compactions, switches' = switches
  PROVE  TypeOK'
<1> DEFINE k == next'
<1>1. next \in Nat /\ k \in Nat
  BY CompactionAssumption DEF TypeOK, CountsOK
<1>2. next <= k /\ msg \in Polite(1..(k - 1))
  OBVIOUS
<1> HIDE DEF k
<1>3. Talk(objects', file', known', k) /\ given' \in [Sessions -> Facts]
  BY <1>1, <1>2, SpokenTyped
<1>4. jobs \in SUBSET Jobs(k) /\ \A j \in jobs : Separate(j)
  BY <1>1, <1>2, JobsGrow DEF TypeOK
<1>5. ConversationsOK(next)' /\ JobsOK(next)'
  BY <1>3, <1>4 DEF ConversationsOK, JobsOK, k
<1> QED BY <1>3, <1>5 DEF TypeOK, CountsOK, HistoryOK

LEMMA InputMessage ==
  ASSUME NEW n \in Nat \ {0}
  PROVE  LET msg == UserMessage(<< TextBlock(<< {Item("input", n)} >>) >>)
         IN  msg \in Polite(1..n) /\ Text(msg) /\ Real(msg) # {} /\ \A b \in ToSet(msg.content) : b.kind = "text"
<1> DEFINE S == {Item("input", n)}
           msg == UserMessage(<< TextBlock(<< S >>) >>)
<1>1. S \in Facts
  BY DEF Facts, Items, Item
<1> HIDE DEF S
<1>2. msg \in Messages(Facts, 1..n, 1..n) /\ Text(msg) /\ Real(msg) # {} /\ \A b \in ToSet(msg.content) : b.kind = "text"
  BY <1>1, TextMessageIs
<1>3. msg.role = "user"
  BY DEF UserMessage, Message
<1>4. msg \in Polite(1..n)
  BY <1>2, <1>3 DEF Polite
<1> QED BY <1>2, <1>4 DEF S

(* A message of the assistant that makes no call, and one that makes some. *)
LEMMA TextReply ==
  ASSUME NEW I
  PROVE  LET msg == AssistantMessage(<< TextBlock(<<>>) >>)
         IN  /\ msg \in Polite(I) /\ Neat(msg) /\ Real(msg) # {}
             /\ msg.role = "assistant" /\ \A b \in ToSet(msg.content) : b.kind = "text"
<1> DEFINE t == TextBlock(<<>>)
           msg == AssistantMessage(<< t >>)
<1>1. t.kind = "text" /\ t \in BlocksOf(Facts, I, I)
  BY DEF TextBlock, TextBlocks, BlocksOf
<1> HIDE DEF t
<1>2. msg.role = "assistant" /\ msg.content = << t >> /\ msg \in Messages(Facts, I, I)
  BY <1>1 DEF AssistantMessage, Message, Messages
<1> HIDE DEF msg
<1>3. ToSet(msg.content) = {t}
  BY <1>2 DEF ToSet
<1>4. ResultIds(msg) = {}
  BY <1>1, <1>3 DEF ResultIds, IsResult
<1>5. Real(msg) = {t}
  BY <1>1, <1>3 DEF Real
<1>6. Neat(msg)
  <2>1. \A p \in DOMAIN << t >> : << t >>[p] = t
    OBVIOUS
  <2>2. << t >> # <<>>
    OBVIOUS
  <2> QED BY <1>1, <1>2, <1>4, <2>1, <2>2 DEF Neat, SameNumber
<1> QED BY <1>1, <1>2, <1>3, <1>4, <1>5, <1>6 DEF Polite, msg, t

LEMMA CallsReply ==
  ASSUME NEW n \in Nat \ {0}, NEW c \in Seq(Nat), Len(c) = n, NEW I, \A i \in 1..n : c[i] \in I,
         \A i, j \in 1..n : c[i] = c[j] => i = j
  PROVE  LET msg == AssistantMessage([i \in 1..n |-> ToolUseBlock(c[i])])
         IN  /\ msg \in Polite(I) /\ Neat(msg) /\ Real(msg) = ToSet(msg.content)
             /\ msg.role = "assistant" /\ Real(msg) # {}
             /\ \A b : b \in Real(msg) <=> \E i \in 1..n : b = ToolUseBlock(c[i])
<1> DEFINE s == [i \in 1..n |-> ToolUseBlock(c[i])]
           msg == AssistantMessage(s)
           B == BlocksOf(Facts, I, I)
<1>1. \A i \in 1..n : ToolUseBlock(c[i]) \in B
  BY DEF ToolUseBlock, BlocksOf, IdBlocks
<1>2. \A i \in 1..n : s[i].kind = "use" /\ s[i].id = c[i] /\ s[i] = ToolUseBlock(c[i])
  BY DEF ToolUseBlock
<1>3. s \in Seq(B) /\ DOMAIN s = 1..n /\ s # <<>>
  <2> HIDE DEF B
  <2>1. s \in [1..n -> B]
    BY <1>1
  <2>2. 1 \in DOMAIN s
    OBVIOUS
  <2> HIDE DEF s
  <2> QED BY <2>1, <2>2
<1> HIDE DEF s
<1>4. msg.role = "assistant" /\ msg.content = s /\ msg \in Messages(Facts, I, I)
  BY <1>3 DEF AssistantMessage, Message, Messages
<1> HIDE DEF msg, B
<1>5. \A b : b \in ToSet(s) <=> \E i \in 1..n : b = ToolUseBlock(c[i])
  <2>1. \A b : b \in ToSet(s) <=> \E i \in 1..n : b = s[i]
    BY <1>3 DEF ToSet
  <2> QED BY <1>2, <2>1
<1>6. \A b \in ToSet(s) : b.kind = "use"
  BY <1>2, <1>3 DEF ToSet
<1>7. Real(msg) = ToSet(s) /\ ResultIds(msg) = {}
  BY <1>4, <1>6 DEF Real, ResultIds, IsResult
<1>8. Neat(msg)
  BY <1>2, <1>3, <1>4, <1>7 DEF Neat, SameNumber
<1>9. \E b : b \in Real(msg)
  <2>1. 1 \in 1..n
    OBVIOUS
  <2>2. ToolUseBlock(c[1]) \in Real(msg)
    BY <1>5, <1>7, <2>1
  <2> QED BY <2>2
<1> QED BY <1>4, <1>5, <1>7, <1>8, <1>9 DEF Polite, msg, s

LEMMA ResultsMessage ==
  ASSUME NEW n \in Nat \ {0}, NEW ps, DOMAIN ps = 1..n, NEW I, \A i \in 1..n : ps[i].result.id \in I,
         \A i, j \in 1..n : ps[i].result.id = ps[j].result.id => i = j
  PROVE  LET msg == UserMessage([i \in DOMAIN ps |-> ToolResultBlock(ps[i].result.id)])
         IN  /\ msg \in Polite(I) /\ Neat(msg) /\ Real(msg) = ToSet(msg.content)
             /\ msg.role = "user" /\ Real(msg) # {}
             /\ \A b : b \in Real(msg) <=> \E i \in 1..n : b = ToolResultBlock(ps[i].result.id)
<1> DEFINE s == [i \in DOMAIN ps |-> ToolResultBlock(ps[i].result.id)]
           msg == UserMessage(s)
           B == BlocksOf(Facts, I, I)
<1>1. \A i \in 1..n : ToolResultBlock(ps[i].result.id) \in B
  BY DEF ToolResultBlock, BlocksOf, IdBlocks
<1>2. \A i \in 1..n : s[i].kind = "result" /\ s[i].id = ps[i].result.id /\ s[i] = ToolResultBlock(ps[i].result.id)
  BY DEF ToolResultBlock
<1>3. s \in Seq(B) /\ DOMAIN s = 1..n /\ s # <<>>
  <2> HIDE DEF B
  <2>1. s \in [1..n -> B]
    BY <1>1
  <2>2. 1 \in DOMAIN s
    OBVIOUS
  <2> HIDE DEF s
  <2> QED BY <2>1, <2>2
<1> HIDE DEF s
<1>4. msg.role = "user" /\ msg.content = s /\ msg \in Messages(Facts, I, I)
  BY <1>3 DEF UserMessage, Message, Messages
<1> HIDE DEF msg, B
<1>5. \A b : b \in ToSet(s) <=> \E i \in 1..n : b = ToolResultBlock(ps[i].result.id)
  BY <1>2, <1>3 DEF ToSet
<1>6. \A b \in ToSet(s) : b.kind = "result"
  BY <1>2, <1>3 DEF ToSet
<1>7. Real(msg) = ToSet(s)
  BY <1>4, <1>6 DEF Real
<1>8. Neat(msg)
  BY <1>2, <1>3, <1>4 DEF Neat, SameNumber
<1>9. \E b : b \in Real(msg)
  <2>1. 1 \in 1..n
    OBVIOUS
  <2>2. ToolResultBlock(ps[1].result.id) \in Real(msg)
    BY <1>5, <1>7, <2>1
  <2> QED BY <2>2
<1> QED BY <1>4, <1>5, <1>7, <1>8, <1>9 DEF Polite, msg, s

LEMMA ResultsTyped ==
  ASSUME NEW ps \in Batches, NEW I, \A i \in DOMAIN ps : ps[i].result.id \in I
  PROVE  UserMessage([i \in DOMAIN ps |-> ToolResultBlock(ps[i].result.id)]) \in Polite(I)
<1> DEFINE s == [i \in DOMAIN ps |-> ToolResultBlock(ps[i].result.id)]
           B == BlocksOf(Facts, I, I)
<1>1. \A i \in DOMAIN ps : ToolResultBlock(ps[i].result.id) \in B
  BY DEF ToolResultBlock, BlocksOf, IdBlocks
<1>2. DOMAIN ps = 1..Len(ps) /\ Len(ps) \in Nat
  BY DEF Batches
<1> HIDE DEF B
<1>3. s \in [1..Len(ps) -> B]
  BY <1>1, <1>2
<1> HIDE DEF s
<1>4. s \in Seq(B)
  BY <1>2, <1>3
<1> QED BY <1>4 DEF UserMessage, Message, Messages, Polite, B, s

LEMMA HandledIn ==
  ASSUME NEW r, NEW e \in BOOLEAN, NEW p
  PROVE  HandleSingle(r, e, p) \in Forms
BY DEF HandleSingle, Forms

LEMMA ResultsOfAre ==
  ASSUME NEW id \in Nat, stored \in [Sessions -> SUBSET Texts], CurrentSession \in Sessions,
         NEW r \in ResultsOf(id)
  PROVE  r \in Texts /\ r.id = id
<1>1. CASE r \in {[id |-> id, of |-> id, tool |-> o.tool, marks |-> o.marks, chars |-> o.chars] : o \in Outputs}
  BY <1>1 DEF Texts
<1>2. CASE r \in {[x EXCEPT !.id = id, !.tool = "ReadFile"] :
                    x \in {y \in stored[CurrentSession] : y.id \in AllResultIds(Current.msgs)}}
  <2>1. PICK x \in stored[CurrentSession] : r = [x EXCEPT !.id = id, !.tool = "ReadFile"]
    BY <1>2
  <2>2. x \in Texts
    OBVIOUS
  <2> QED BY <2>1, <2>2 DEF Texts
<1> QED BY <1>1, <1>2 DEF ResultsOf

LEMMA StoreTyped ==
  ASSUME stored \in [Sessions -> SUBSET Texts], NEW rs \in SUBSET Texts, Store(rs)
  PROVE  stored' \in [Sessions -> SUBSET Texts]
BY DEF Store

LEMMA TypeInit == Init => TypeOK
<1> SUFFICES ASSUME Init PROVE TypeOK
  OBVIOUS
<1>1. PICK s \in Sessions : objects = << Conv(s, <<>>) >> /\ known = {s}
  BY DEF Init
<1>2. <<>> \in Chain(next)
  BY DEF Chain, PoliteChains
<1>3. Conv(s, <<>>) \in Conversations(next)
  BY <1>2 DEF Conv, Conversations
<1>4. ConversationsOK(next)
  <2> DEFINE c == Conv(s, <<>>)
  <2> HIDE DEF c
  <2>1. << c >> \in Seq(Conversations(next)) /\ << c >> # <<>>
    BY <1>3 DEF c
  <2> QED BY <1>1, <1>2, <2>1 DEF Init, ConversationsOK, Talk, c
<1>5. JobsOK(next)
  BY DEF Init, JobsOK
<1>6. ResultsOK /\ Numbered
  BY DEF Init, ResultsOK, Numbered, NoBatch, NotShown, NoId
<1>7. CountsOK /\ HistoryOK
  BY CompactionAssumption DEF Init, CountsOK, HistoryOK, Phases, Facts
<1> QED BY <1>4, <1>5, <1>6, <1>7 DEF TypeOK

LEMMA CallsTyped ==
  ASSUME NEW k \in Nat \ {0}, NEW n \in Nat
  PROVE  LET calls == [i \in 1..n |-> k + i - 1]
         IN  /\ calls \in Seq(Nat) /\ Len(calls) = n /\ DOMAIN calls = 1..n
             /\ \A i \in 1..n : calls[i] \in k..(k + n - 1) /\ calls[i] \in 1..(k + n - 1)
             /\ \A i, j \in 1..n : calls[i] = calls[j] => i = j
<1> DEFINE calls == [i \in 1..n |-> k + i - 1]
<1>1. calls \in [1..n -> Nat]
  OBVIOUS
<1>2. \A i \in 1..n : calls[i] \in k..(k + n - 1) /\ calls[i] \in 1..(k + n - 1)
  OBVIOUS
<1>3. \A i, j \in 1..n : calls[i] = calls[j] => i = j
  OBVIOUS
<1> HIDE DEF calls
<1>4. calls \in Seq(Nat) /\ Len(calls) = n /\ DOMAIN calls = 1..n
  BY <1>1
<1> QED BY <1>2, <1>3, <1>4 DEF calls

LEMMA BeginTyped ==
  ASSUME TypeOK, NEW by \in {"run", "ui"}, NEW msgs \in Chain(next), NEW waiting \in Phases, NEW done \in Phases,
         BeginCompaction(by, msgs, waiting, done), UNCHANGED <<results, next, switches, given, dropped>>
  PROVE  TypeOK'
<1> DEFINE n == next
<1>1. n \in Nat /\ next' = n
  BY NumbersAre DEF TypeOK, CountsOK
<1>2. /\ Talk(objects', file', known', n)
      /\ jobs' \in SUBSET Jobs(n) /\ \A j \in jobs' : Separate(j)
      /\ pc' \in Phases /\ compactions' \in Nat
  BY <1>1, BegunTyped DEF TypeOK, CountsOK
<1>3. ResultsOK' /\ Numbered'
  BY <1>1, ResultsUntouched DEF TypeOK
<1> HIDE DEF n
<1>4. ConversationsOK(next)' /\ JobsOK(next)'
  BY <1>1, <1>2 DEF ConversationsOK, JobsOK
<1> QED BY <1>2, <1>3, <1>4 DEF TypeOK, CountsOK, HistoryOK

LEMMA TypeTalk ==
  ASSUME TypeOK, Send \/ BeginTurn \/ EmergencyCompact \/ ReplyText \/ UICompact \/ \E n \in 1..MaxBatch : ReplyCalls(n)
  PROVE  TypeOK'
<1>0. /\ next \in Nat \ {0} /\ MaxItems \in Nat /\ next <= MaxItems + 1 /\ MaxBatch \in Nat
      /\ Current.msgs \in Chain(next) /\ pc \in Phases
  <2>1. next \in Nat \ {0} /\ MaxItems \in Nat /\ next <= MaxItems + 1 /\ MaxBatch \in Nat
    BY CompactionAssumption DEF TypeOK, CountsOK
  <2> QED BY <2>1, CurrentIs DEF TypeOK, CountsOK
<1>1. ASSUME Send PROVE TypeOK'
  <2> DEFINE msg == UserMessage(<< TextBlock(<< {Item("input", next)} >>) >>)
  <2>1. /\ AddAndFlush(msg) /\ next' = next + 1 /\ pc' = "turn" /\ next <= MaxItems
        /\ UNCHANGED <<known, results, jobs, compactions, switches, dropped>>
    BY <1>1 DEF Send
  <2>2. msg \in Polite(1..next)
    BY <1>0, InputMessage
  <2> HIDE DEF msg
  <2>3. next' - 1 = next /\ next' \in 1..(MaxItems + 1) /\ next <= next' /\ next' \in Nat
    BY <1>0, <2>1
  <2>4. ResultsOK' /\ Numbered'
    BY <1>0, <2>1, <2>3, ResultsUntouched DEF TypeOK
  <2> QED BY <2>1, <2>2, <2>3, <2>4, SpokenKept DEF Phases
<1>2. ASSUME BeginTurn PROVE TypeOK'
  <2> DEFINE msgs == RepairChain(Current.msgs)
  <2>1. msgs \in Chain(next)
    BY <1>0, ChainTyped, PoliteRepair DEF Chain
  <2>2. /\ UNCHANGED <<results, next, switches, given, dropped>>
        /\ \/ /\ objects' = [objects EXCEPT ![Len(objects)].msgs = msgs] /\ pc' = "llm"
              /\ UNCHANGED <<file, known, jobs, compactions>>
           \/ BeginCompaction("run", msgs, "compacting", "llm")
    BY <1>2 DEF BeginTurn
  <2> HIDE DEF msgs
  <2>3. CASE BeginCompaction("run", msgs, "compacting", "llm")
    BY <2>1, <2>2, <2>3, BeginTyped DEF Phases
  <2>4. CASE /\ objects' = [objects EXCEPT ![Len(objects)].msgs = msgs] /\ pc' = "llm"
             /\ UNCHANGED <<file, known, jobs, compactions>>
    <3>1. objects' \in Seq(Conversations(next)) /\ Len(objects') = Len(objects)
      BY <2>1, <2>4, MsgsReplaced DEF TypeOK, ConversationsOK, Talk
    <3>2. objects' # <<>>
      BY <3>1 DEF TypeOK, ConversationsOK, Talk
    <3>3. Talk(objects', file', known', next)
      BY <2>4, <3>1, <3>2 DEF TypeOK, ConversationsOK, Talk
    <3>4. ResultsOK' /\ Numbered'
      BY <1>0, <2>2, ResultsUntouched DEF TypeOK
    <3> DEFINE n == next
    <3>5. next' = n
      BY <2>2
    <3>6. Talk(objects', file', known', n) /\ jobs \in SUBSET Jobs(n) /\ \A j \in jobs : Separate(j)
      BY <3>3 DEF TypeOK, JobsOK
    <3> HIDE DEF n
    <3>7. ConversationsOK(next)' /\ JobsOK(next)'
      BY <2>4, <3>5, <3>6 DEF ConversationsOK, JobsOK
    <3> QED BY <2>2, <2>4, <3>4, <3>7 DEF TypeOK, CountsOK, HistoryOK, Phases
  <2> QED BY <2>2, <2>3, <2>4
<1>3. ASSUME EmergencyCompact PROVE TypeOK'
  BY <1>0, <1>3, BeginTyped DEF EmergencyCompact, Phases
<1>4. ASSUME UICompact PROVE TypeOK'
  BY <1>0, <1>4, BeginTyped DEF UICompact
<1>5. ASSUME ReplyText PROVE TypeOK'
  <2> DEFINE msg == AssistantMessage(<< TextBlock(<<>>) >>)
  <2>1. /\ AddAndFlush(msg) /\ pc' = "idle" /\ next' = next
        /\ UNCHANGED <<known, results, jobs, compactions, switches, dropped>>
    BY <1>5 DEF ReplyText
  <2>2. msg \in Polite(1..(next - 1))
    BY TextReply
  <2> HIDE DEF msg
  <2>3. next' \in 1..(MaxItems + 1) /\ next <= next' /\ next' \in Nat /\ msg \in Polite(1..(next' - 1))
    BY <1>0, <2>1, <2>2
  <2>4. ResultsOK' /\ Numbered'
    BY <1>0, <2>1, <2>3, ResultsUntouched DEF TypeOK
  <2> QED BY <2>1, <2>3, <2>4, SpokenKept DEF Phases
<1>6. ASSUME NEW n \in 1..MaxBatch, ReplyCalls(n) PROVE TypeOK'
  <2> DEFINE calls == [i \in 1..n |-> next + i - 1]
             msg == AssistantMessage([i \in 1..n |-> ToolUseBlock(calls[i])])
  <2>1. /\ AddAndFlush(msg) /\ pc' = "tools" /\ next' = next + n /\ next + n <= MaxItems + 1
        /\ batch' = [NoBatch EXCEPT !.calls = calls]
        /\ UNCHANGED <<handler, stored, shown, known, jobs, compactions, switches, dropped>>
    BY <1>6 DEF ReplyCalls
  <2>2. n \in Nat \ {0}
    BY <1>0
  <2>3. /\ calls \in Seq(Nat) /\ Len(calls) = n /\ DOMAIN calls = 1..n
        /\ \A i \in 1..n : calls[i] \in 1..(next + n - 1)
        /\ \A i, j \in 1..n : calls[i] = calls[j] => i = j
    BY <1>0, <2>2, CallsTyped
  <2> HIDE DEF calls
  <2>4. msg \in Polite(1..(next + n - 1))
    <3> DEFINE I == 1..(next + n - 1)
    <3>1. \A i \in 1..n : calls[i] \in I
      BY <2>3
    <3> HIDE DEF I
    <3>2. msg \in Polite(I)
      BY <2>2, <2>3, <3>1, CallsReply
    <3> QED BY <3>2 DEF I
  <2> HIDE DEF msg
  <2>5. next' \in 1..(MaxItems + 1) /\ next <= next' /\ next' \in Nat /\ next' - 1 = next + n - 1
    BY <1>0, <2>1, <2>2
  <2>6. ResultsOK'
    <3> DEFINE D == Seq([result : Texts, form : Forms])
               S == Sessions \cup {NoSession}
    <3>1. batch' = [calls |-> calls, done |-> <<>>, dir |-> NoSession]
      BY <2>1 DEF NoBatch
    <3>2. <<>> \in D /\ NoSession \in S
      OBVIOUS
    <3> HIDE DEF D, S
    <3>3. batch' \in [calls : Seq(Nat), done : D, dir : S]
      BY <2>3, <3>1, <3>2
    <3> QED BY <2>1, <3>3 DEF TypeOK, ResultsOK, D, S
  <2>7. Numbered'
    <3>1. batch'.calls = calls /\ batch'.done = <<>>
      BY <2>1 DEF NoBatch
    <3> QED BY <2>3, <2>5, <3>1 DEF Numbered
  <2> QED BY <2>1, <2>4, <2>5, <2>6, <2>7, SpokenKept DEF Phases
<1> QED BY <1>1, <1>2, <1>3, <1>4, <1>5, <1>6

(* A result more in the batch.                                             *)
LEMMA DoneSet ==
  ASSUME NEW C, NEW D, NEW S, NEW b \in [calls : C, done : D, dir : S], NEW e \in D,
         NEW c, c = [b EXCEPT !.done = e]
  PROVE  c \in [calls : C, done : D, dir : S] /\ c.calls = b.calls /\ c.dir = b.dir /\ c.done = e
OBVIOUS

BatchRecords == [calls : Seq(Nat), done : Batches, dir : Sessions \cup {NoSession}]

LongerDone(b, r, form, c) ==
  /\ c \in BatchRecords
  /\ c.calls = b.calls /\ c.dir = b.dir
  /\ Len(c.done) = Len(b.done) + 1 /\ DOMAIN c.done = 1..(Len(b.done) + 1)
  /\ c.done[Len(b.done) + 1] = [result |-> r, form |-> form]
  /\ \A i \in DOMAIN b.done : c.done[i] = b.done[i]

(* A result is added to those of the batch.                                *)
LEMMA BatchLonger ==
  ASSUME NEW b \in BatchRecords, NEW r \in Texts, NEW form \in Forms,
         NEW c, c = [b EXCEPT !.done = Append(@, Processed(r, form))]
  PROVE  LongerDone(b, r, form, c)
<1> DEFINE T == [result : Texts, form : Forms]
           p == Processed(r, form)
           d == b.done
           e == Append(d, p)
<1>1. p \in T /\ p = [result |-> r, form |-> form] /\ d \in Seq(T) /\ c = [b EXCEPT !.done = e]
  BY DEF Processed, Batches, BatchRecords
<1> HIDE DEF p, T, d
<1>4. e \in Seq(T) /\ Len(e) = Len(d) + 1 /\ e[Len(d) + 1] = p /\ \A i \in 1..Len(d) : e[i] = d[i]
  BY <1>1, AppendProperties
<1>5. DOMAIN e = 1..(Len(d) + 1) /\ DOMAIN d = 1..Len(d)
  BY <1>1, <1>4
<1> HIDE DEF e
<1>6. e \in Batches
  BY <1>4 DEF Batches, T
<1>7. c \in BatchRecords /\ c.calls = b.calls /\ c.dir = b.dir /\ c.done = e
  BY <1>1, <1>6, DoneSet DEF BatchRecords
<1> QED BY <1>1, <1>4, <1>5, <1>7 DEF LongerDone, d

LEMMA TypeResults ==
  ASSUME TypeOK, CallsReturn \/ HandleResult \/ SummaryArrives \/ SummaryFails \/ StoreFails
  PROVE  TypeOK'
<1>0. /\ next \in Nat /\ CurrentSession \in Sessions
      /\ batch \in [calls : Seq(Nat), done : Batches, dir : Sessions \cup {NoSession}]
      /\ handler \in Sessions \cup {NoSession} /\ stored \in [Sessions -> SUBSET Texts]
      /\ shown \in [1..MaxItems -> [of : Nat, form : Forms \cup {"none"}]]
  BY NumbersAre, CurrentIs DEF TypeOK, CountsOK, ResultsOK, Batches
<1>1. ASSUME CallsReturn PROVE TypeOK'
  <2>1. /\ handler' = IF handler = NoSession THEN CurrentSession ELSE handler
        /\ batch' = [batch EXCEPT !.dir = handler'] /\ pc' = "results" /\ stored' = stored /\ shown' = shown
        /\ Untouched
    BY <1>1 DEF CallsReturn, Untouched
  <2>2. handler' \in Sessions \cup {NoSession}
    BY <1>0, <2>1
  <2>3. ResultsOK'
    BY <1>0, <2>1, <2>2 DEF ResultsOK, Batches
  <2>4. Numbered'
    BY <1>0, <2>1 DEF TypeOK, Numbered, Untouched
  <2> QED BY <2>1, <2>3, <2>4, TalkUntouched DEF Phases
<1>2. ASSUME HandleResult PROVE TypeOK'
  <2> DEFINE id == batch.calls[Len(batch.done) + 1]
  <2>1. PICK r \in ResultsOf(id), p \in Contexts :
          LET form == HandleSingle(r, Exempt(r), p)
          IN  /\ Add(r, form)
              /\ IF form = "whole" THEN UNCHANGED stored ELSE Store({r})
              /\ IF form = "summary" THEN AskForSummary ELSE UNCHANGED pc
    BY <1>2 DEF HandleResult
  <2>2. Len(batch.done) < Len(batch.calls) /\ Untouched /\ UNCHANGED <<handler, shown>>
    BY <1>2 DEF HandleResult, Untouched
  <2>3. id \in 1..(next - 1)
    <3> DEFINE k == Len(batch.done) + 1
    <3>1. k \in DOMAIN batch.calls
      <4> DEFINE c == batch.calls
                 d == batch.done
      <4>1. c \in Seq(Nat) /\ d \in Seq([result : Texts, form : Forms])
        BY <1>0 DEF Batches
      <4> HIDE DEF c, d
      <4>2. Len(c) \in Nat /\ DOMAIN c = 1..Len(c) /\ Len(d) \in Nat
        BY <4>1
      <4> QED BY <2>2, <4>2 DEF c, d
    <3> QED BY <3>1 DEF TypeOK, Numbered
  <2>4. id \in Nat
    BY <1>0, <2>3
  <2> HIDE DEF id
  <2>5. r \in Texts /\ r.id = id
    BY <1>0, <2>4, ResultsOfAre
  <2> DEFINE form == HandleSingle(r, Exempt(r), p)
  <2>6. form \in Forms
    BY HandledIn DEF Exempt, PersistDirTold
  <2>7. batch' = [batch EXCEPT !.done = Append(@, Processed(r, form))]
        /\ (form = "whole" => stored' = stored) /\ (form # "whole" => Store({r}))
        /\ (pc' = "digest" \/ pc' = pc)
    BY <2>1 DEF Add, AskForSummary
  <2> HIDE DEF form
  <2>8. /\ batch' \in [calls : Seq(Nat), done : Batches, dir : Sessions \cup {NoSession}]
        /\ batch'.calls = batch.calls
        /\ DOMAIN batch'.done = 1..(Len(batch.done) + 1)
        /\ batch'.done[Len(batch.done) + 1] = [result |-> r, form |-> form]
        /\ \A i \in DOMAIN batch.done : batch'.done[i] = batch.done[i]
    <3>1. batch \in BatchRecords
      BY <1>0 DEF BatchRecords
    <3>2. LongerDone(batch, r, form, batch')
      BY <3>1, <2>5, <2>6, <2>7, BatchLonger
    <3> QED BY <3>2 DEF LongerDone, BatchRecords
  <2>9. stored' \in [Sessions -> SUBSET Texts]
    BY <1>0, <2>5, <2>7, StoreTyped
  <2>10. ResultsOK'
    BY <1>0, <2>2, <2>8, <2>9 DEF ResultsOK, Batches
  <2>11. Numbered'
    <3>1. \A i \in DOMAIN batch'.done : i \in DOMAIN batch.done \/ i = Len(batch.done) + 1
      <4>1. batch.done \in Seq([result : Texts, form : Forms])
        BY <1>0 DEF Batches
      <4> DEFINE d == batch.done
      <4> HIDE DEF d
      <4>2. Len(d) \in Nat /\ DOMAIN d = 1..Len(d)
        BY <4>1 DEF d
      <4>3. \A i \in 1..(Len(d) + 1) : i \in 1..Len(d) \/ i = Len(d) + 1
        BY <4>2
      <4> QED BY <2>8, <4>2, <4>3 DEF d
    <3>2. next' = next
      BY <2>2 DEF Untouched
    <3> QED BY <2>3, <2>5, <2>8, <3>1, <3>2 DEF TypeOK, Numbered
  <2>12. pc' \in Phases
    BY <2>7 DEF TypeOK, CountsOK, Phases
  <2> QED BY <2>2, <2>10, <2>11, <2>12, TalkUntouched
<1>3. ASSUME SummaryArrives PROVE TypeOK'
  <2>1. Untouched /\ UNCHANGED results /\ pc' = "results" /\ next' = next
    BY <1>3 DEF SummaryArrives, Untouched
  <2>2. ResultsOK' /\ Numbered'
    BY <1>0, <2>1, ResultsUntouched DEF TypeOK
  <2> QED BY <2>1, <2>2, TalkUntouched DEF Phases
<1>4. ASSUME SummaryFails PROVE TypeOK'
  <2>1. /\ Untouched /\ UNCHANGED <<handler, stored, shown>> /\ pc' = "results" /\ next' = next
        /\ batch' = [batch EXCEPT !.done[Len(batch.done)].form = "whole"]
    BY <1>4 DEF SummaryFails, Untouched
  <2> DEFINE T == [result : Texts, form : Forms]
             d == batch.done
             k == Len(d)
             x(i) == IF i = k THEN [d[i] EXCEPT !.form = "whole"] ELSE d[i]
             e == [d EXCEPT ![k].form = "whole"]
  <2>2. d \in Seq(T) /\ batch' = [batch EXCEPT !.done = e]
    BY <1>0, <2>1 DEF Batches
  <2> HIDE DEF d
  <2>3. \A i \in 1..Len(d) : x(i) \in T /\ x(i).result = d[i].result
    <3> HIDE DEF k, T
    <3>1. \A i \in 1..Len(d) : d[i] \in T
      BY <2>2
    <3> QED BY <3>1 DEF T, Forms
  <2>4. e = [i \in 1..Len(d) |-> x(i)]
    BY <2>2
  <2> HIDE DEF x, e, T, k
  <2>5. e \in [1..Len(d) -> T] /\ Len(d) \in Nat /\ \A i \in 1..Len(d) : e[i] = x(i)
    BY <2>2, <2>3, <2>4
  <2>6. e \in Seq(T) /\ DOMAIN e = 1..Len(d) /\ DOMAIN d = 1..Len(d)
    BY <2>2, <2>5
  <2>7. batch' \in [calls : Seq(Nat), done : Batches, dir : Sessions \cup {NoSession}]
        /\ batch'.calls = batch.calls /\ batch'.done = e
    BY <1>0, <2>2, <2>6 DEF Batches, T
  <2>8. ResultsOK'
    BY <1>0, <2>1, <2>7 DEF ResultsOK, Batches
  <2>9. Numbered'
    <3>1. \A i \in DOMAIN e : e[i].result = batch.done[i].result /\ i \in DOMAIN batch.done
      BY <2>3, <2>5, <2>6 DEF d
    <3> QED BY <2>1, <2>7, <3>1 DEF TypeOK, Numbered
  <2> QED BY <2>1, <2>8, <2>9, TalkUntouched DEF Phases
<1>5. ASSUME StoreFails PROVE TypeOK'
  <2>1. Untouched /\ UNCHANGED <<handler, stored, shown>> /\ pc' = "idle" /\ batch' = NoBatch
    BY <1>5 DEF StoreFails, Untouched
  <2>2. ResultsOK' /\ Numbered'
    BY <1>0, <2>1 DEF ResultsOK, Numbered, NoBatch
  <2> QED BY <2>1, <2>2, TalkUntouched DEF Phases
<1> QED BY <1>1, <1>2, <1>3, <1>4, <1>5

(* What the history shows of each call once the batch is recorded.         *)
ShownBy(ps, sh) ==
  [id \in DOMAIN sh |->
     IF \E i \in DOMAIN ps : ps[i].result.id = id
     THEN LET p == ps[CHOOSE i \in DOMAIN ps : ps[i].result.id = id]
          IN  [of |-> p.result.of, form |-> p.form]
     ELSE sh[id]]

LEMMA BatchIs ==
  ASSUME NEW ps \in Batches
  PROVE  /\ DOMAIN ps = 1..Len(ps) /\ Len(ps) \in Nat
         /\ \A i \in DOMAIN ps : ps[i] \in [result : Texts, form : Forms]
<1> DEFINE T == [result : Texts, form : Forms]
<1>1. ps \in Seq(T)
  BY DEF Batches
<1> HIDE DEF T
<1>2. DOMAIN ps = 1..Len(ps) /\ Len(ps) \in Nat /\ \A i \in DOMAIN ps : ps[i] \in T
  BY <1>1
<1> QED BY <1>2 DEF T

LEMMA ShownTyped ==
  ASSUME shown \in [1..MaxItems -> [of : Nat, form : Forms \cup {"none"}]], NEW ps \in Batches
  PROVE  ShownBy(ps, shown) \in [1..MaxItems -> [of : Nat, form : Forms \cup {"none"}]]
<1> DEFINE x(id) == IF \E i \in DOMAIN ps : ps[i].result.id = id
                    THEN LET p == ps[CHOOSE i \in DOMAIN ps : ps[i].result.id = id]
                         IN  [of |-> p.result.of, form |-> p.form]
                    ELSE shown[id]
           T == [of : Nat, form : Forms \cup {"none"}]
<1>1. ASSUME NEW id \in 1..MaxItems PROVE x(id) \in T
  <2>1. CASE \E i \in DOMAIN ps : ps[i].result.id = id
    <3> DEFINE k == CHOOSE i \in DOMAIN ps : ps[i].result.id = id
    <3>1. k \in DOMAIN ps
      BY <2>1
    <3> HIDE DEF k
    <3>2. ps[k].result \in Texts /\ ps[k].form \in Forms
      BY <3>1, BatchIs
    <3>3. ps[k].result.of \in Nat
      BY <3>2 DEF Texts
    <3> QED BY <2>1, <3>2, <3>3 DEF k
  <2>2. CASE ~\E i \in DOMAIN ps : ps[i].result.id = id
    BY <2>2
  <2> QED BY <2>1, <2>2
<1>2. ShownBy(ps, shown) = [id \in 1..MaxItems |-> x(id)]
  BY DEF ShownBy
<1> HIDE DEF x, T
<1>3. ShownBy(ps, shown) \in [1..MaxItems -> T]
  BY <1>1, <1>2
<1> QED BY <1>3 DEF T

Recorded(ps) == {ps[i].result : i \in {j \in DOMAIN ps : ps[j].form # batch.done[j].form}}

LEMMA TypeRecord ==
  ASSUME TypeOK, RecordResults
  PROVE  TypeOK'
<1> DEFINE ps == Aggregate(batch.done)
           msg == UserMessage([i \in DOMAIN ps |-> ToolResultBlock(ps[i].result.id)])
<1>0. /\ next \in Nat \ {0} /\ batch \in BatchRecords /\ batch.done \in Batches
      /\ handler \in Sessions \cup {NoSession} /\ stored \in [Sessions -> SUBSET Texts]
      /\ shown \in [1..MaxItems -> [of : Nat, form : Forms \cup {"none"}]]
  BY CompactionAssumption DEF TypeOK, CountsOK, ResultsOK, Batches, BatchRecords
<1>1. /\ Store(Recorded(ps)) /\ shown' = ShownBy(ps, shown) /\ AddAndFlush(msg)
      /\ batch' = NoBatch /\ pc' = "turn" /\ next' = next
      /\ UNCHANGED <<known, handler, jobs, compactions, switches, dropped>>
  BY DEF RecordResults, Recorded, ShownBy
<1>2. SameResults(batch.done, ps)
  BY <1>0, AggregateIs
<1> HIDE DEF ps
<1>3. ps \in Batches /\ \A i \in DOMAIN ps : ps[i].result = batch.done[i].result /\ i \in DOMAIN batch.done
  BY <1>0, <1>2, BatchIs DEF SameResults
<1>4. \A i \in DOMAIN ps : ps[i].result.id \in 1..(next - 1)
  BY <1>3 DEF TypeOK, Numbered
<1>5. msg \in Polite(1..(next - 1))
  BY <1>3, <1>4, ResultsTyped
<1> HIDE DEF msg
<1>6. stored' \in [Sessions -> SUBSET Texts]
  <2>1. Recorded(ps) \in SUBSET Texts
    BY <1>3, BatchIs DEF Recorded
  <2> QED BY <1>0, <1>1, <2>1, StoreTyped
<1>7. shown' \in [1..MaxItems -> [of : Nat, form : Forms \cup {"none"}]]
  BY <1>0, <1>1, <1>3, ShownTyped
<1>8. ResultsOK' /\ Numbered'
  BY <1>0, <1>1, <1>6, <1>7 DEF ResultsOK, Numbered, NoBatch
<1>9. next' \in 1..(MaxItems + 1) /\ next <= next' /\ msg \in Polite(1..(next' - 1))
  BY <1>0, <1>1, <1>5 DEF TypeOK, CountsOK
<1> QED BY <1>1, <1>8, <1>9, SpokenKept DEF Phases

LEMMA TypeEnds ==
  ASSUME TypeOK, NEW job \in jobs,
         FailCompaction(job) \/ \E lost \in 0..Len(job.src) : FinishCompaction(job, lost)
  PROVE  TypeOK'
<1> DEFINE n == next
<1>0. /\ n \in Nat /\ next' = n /\ job \in Jobs(n) /\ jobs' \subseteq jobs /\ UNCHANGED <<results, given>>
      /\ compactions' \in Nat /\ switches' \in Nat
  BY NumbersAre DEF TypeOK, CountsOK, JobsOK, FailCompaction, FinishCompaction
<1>1. ResultsOK' /\ Numbered'
  BY <1>0, ResultsUntouched DEF TypeOK
<1>2. jobs' \in SUBSET Jobs(n) /\ \A j \in jobs' : Separate(j)
  BY <1>0 DEF TypeOK, JobsOK
<1>3. Talk(objects', file', known', n) /\ pc' \in Phases /\ dropped' \in [Sessions -> Facts]
  <2>1. CASE FailCompaction(job)
    BY <2>1 DEF FailCompaction, TypeOK, ConversationsOK, Talk, CountsOK, HistoryOK, Phases
  <2>2. ASSUME NEW lost \in 0..Len(job.src), FinishCompaction(job, lost)
        PROVE  Talk(objects', file', known', n) /\ pc' \in Phases /\ dropped' \in [Sessions -> Facts]
    <3> DEFINE told == SubSeq(job.src, lost + 1, Len(job.src))
               left == SubSeq(job.src, 1, lost)
    <3>1. job.src \in Chain(n) /\ job.kept \in Chain(n)
      BY <1>0 DEF Jobs
    <3>2. Len(job.src) \in Nat /\ lost \in Nat /\ lost <= Len(job.src)
      BY <1>0, <3>1, ChainTyped
    <3>3. told \in Chain(n) /\ left \in Chain(n)
      BY <3>1, <3>2, PolitePart DEF Chain
    <3>4. /\ Replaced(job, SummaryMessage(told))
          /\ dropped' = [dropped EXCEPT ![objects[job.object].sid] = @ \cup Told(left)]
          /\ pc' = IF job.by = "run" THEN "llm" ELSE pc
      BY <2>2 DEF FinishCompaction
    <3> HIDE DEF told, left
    <3>5. SummaryMessage(told) \in Polite(1..(n - 1))
      BY <1>0, <3>3, GistTyped
    <3>6. Talk(objects', file', known', n)
      BY <1>0, <3>1, <3>4, <3>5, ReplacedTyped DEF TypeOK
    <3>7. Told(left) \in Facts
      BY <1>0, <3>3, ChainTyped, ToldItems
    <3>8. dropped' \in [Sessions -> Facts]
      BY <3>4, <3>7 DEF TypeOK, HistoryOK, Facts
    <3> QED BY <3>4, <3>6, <3>8 DEF TypeOK, CountsOK, Phases
  <2> QED BY <2>1, <2>2
<1> HIDE DEF n
<1>4. ConversationsOK(next)' /\ JobsOK(next)'
  BY <1>0, <1>2, <1>3 DEF ConversationsOK, JobsOK
<1>5. next' = next
  BY <1>0 DEF n
<1> QED BY <1>0, <1>1, <1>3, <1>4, <1>5 DEF TypeOK, CountsOK, HistoryOK

LEMMA TypeOpens ==
  ASSUME TypeOK, NEW s \in Sessions, NewSession(s) \/ ResumeSession(s) \/ DeleteSession(s)
  PROVE  TypeOK'
<1> DEFINE n == next
<1>0. /\ n \in Nat /\ next' = n /\ jobs' = jobs /\ UNCHANGED <<batch, shown, pc, dropped, compactions>>
      /\ switches' \in Nat
  BY NumbersAre DEF TypeOK, CountsOK, NewSession, ResumeSession, DeleteSession
<1>1. <<>> \in Chain(n) /\ file \in [Sessions -> Chain(n)] /\ known \in SUBSET Sessions
  BY DEF Chain, PoliteChains, TypeOK, ConversationsOK, Talk
<1>2. /\ stored \in [Sessions -> SUBSET Texts] /\ handler \in Sessions \cup {NoSession}
      /\ given \in [Sessions -> Facts]
  BY DEF TypeOK, ResultsOK, HistoryOK
<1>3. /\ Talk(objects', file', known', n) /\ stored' \in [Sessions -> SUBSET Texts]
      /\ handler' \in Sessions \cup {NoSession} /\ given' \in [Sessions -> Facts]
  <2>1. CASE NewSession(s)
    <3> DEFINE c == Conv(s, <<>>)
               k == known \cup {s}
    <3>1. c \in Conversations(n) /\ k \in SUBSET Sessions
      BY <1>1 DEF Conv, Conversations
    <3>2. objects' = (IF jobs = {} THEN <<>> ELSE objects) \o <<c>> /\ known' = k /\ handler' = NoSession
          /\ UNCHANGED <<file, stored, given>>
      BY <2>1 DEF NewSession, Open
    <3> HIDE DEF c, k
    <3>3. Talk(objects', file', k, n)
      BY <1>0, <1>1, <3>1, <3>2, OpenTyped DEF TypeOK
    <3> QED BY <1>2, <3>2, <3>3
  <2>2. CASE ResumeSession(s)
    <3> DEFINE c == Conv(s, RepairChain(file[s]))
    <3>1. RepairChain(file[s]) \in Chain(n)
      <4>1. file[s] \in Chain(n)
        BY <1>1
      <4> QED BY <1>0, <4>1, ChainTyped, PoliteRepair DEF Chain
    <3>2. c \in Conversations(n)
      BY <3>1 DEF Conv, Conversations
    <3>3. objects' = (IF jobs = {} THEN <<>> ELSE objects) \o <<c>> /\ known' = known /\ handler' = NoSession
          /\ UNCHANGED <<file, stored, given>>
      BY <2>2 DEF ResumeSession, Open
    <3> HIDE DEF c
    <3>4. Talk(objects', file', known', n)
      BY <1>0, <1>1, <3>2, <3>3, OpenTyped DEF TypeOK
    <3> QED BY <1>2, <3>3, <3>4
  <2>3. CASE DeleteSession(s)
    <3>1. /\ file' = [file EXCEPT ![s] = <<>>] /\ stored' = [stored EXCEPT ![s] = {}]
          /\ given' = [given EXCEPT ![s] = {}]
          /\ \/ known' = known \ {s} /\ UNCHANGED <<objects, handler>>
             \/ \E fresh \in Sessions \ known :
                  /\ Open(Conv(fresh, <<>>)) /\ known' = (known \ {s}) \cup {fresh}
      BY <2>3 DEF DeleteSession
    <3>2. file' \in [Sessions -> Chain(n)] /\ stored' \in [Sessions -> SUBSET Texts] /\ given' \in [Sessions -> Facts]
      BY <1>1, <1>2, <3>1 DEF Facts
    <3>3. CASE known' = known \ {s} /\ UNCHANGED <<objects, handler>>
      BY <1>1, <1>2, <3>2, <3>3 DEF TypeOK, ConversationsOK, Talk
    <3>4. ASSUME NEW fresh \in Sessions \ known,
                 Open(Conv(fresh, <<>>)), known' = (known \ {s}) \cup {fresh}
          PROVE  Talk(objects', file', known', n) /\ handler' = NoSession
      <4> DEFINE c == Conv(fresh, <<>>)
                 k == (known \ {s}) \cup {fresh}
      <4>1. c \in Conversations(n) /\ k \in SUBSET Sessions
        BY <1>1 DEF Conv, Conversations
      <4>2. objects' = (IF jobs = {} THEN <<>> ELSE objects) \o <<c>> /\ handler' = NoSession /\ known' = k
        BY <3>4 DEF Open
      <4> HIDE DEF c, k
      <4>3. Talk(objects', file', k, n)
        BY <1>0, <3>2, <4>1, <4>2, OpenTyped DEF TypeOK
      <4> QED BY <4>2, <4>3
    <3> QED BY <3>1, <3>2, <3>3, <3>4
  <2> QED BY <2>1, <2>2, <2>3
<1>4. ResultsOK' /\ Numbered'
  BY <1>0, <1>3 DEF TypeOK, ResultsOK, Numbered
<1>5. jobs \in SUBSET Jobs(n) /\ \A j \in jobs : Separate(j)
  BY DEF TypeOK, JobsOK
<1> HIDE DEF n
<1>6. ConversationsOK(next)' /\ JobsOK(next)'
  BY <1>0, <1>3, <1>5 DEF ConversationsOK, JobsOK
<1>7. next' = next
  BY <1>0 DEF n
<1> QED BY <1>0, <1>3, <1>4, <1>6, <1>7 DEF TypeOK, CountsOK, HistoryOK

LEMMA TypeRest ==
  ASSUME TypeOK, Cancel \/ UNCHANGED vars
  PROVE  TypeOK'
<1>1. CASE Cancel
  <2>1. /\ batch' = NoBatch /\ pc' = "idle" /\ jobs' \subseteq jobs
        /\ UNCHANGED <<objects, file, known, handler, stored, shown, next, compactions, switches, given, dropped>>
    BY <1>1 DEF Cancel
  <2>2. ResultsOK' /\ Numbered'
    BY <2>1 DEF TypeOK, ResultsOK, Numbered, NoBatch
  <2>3. ConversationsOK(next)' /\ JobsOK(next)'
    BY <2>1 DEF TypeOK, ConversationsOK, JobsOK, Talk, Conversations, Chain, Jobs
  <2> QED BY <2>1, <2>2, <2>3 DEF TypeOK, CountsOK, HistoryOK, Phases
<1>2. CASE UNCHANGED vars
  <2>1. Untouched /\ UNCHANGED results /\ pc' = pc /\ next' = next
    BY <1>2 DEF vars, Untouched
  <2>2. next \in Nat
    BY NumbersAre DEF TypeOK, CountsOK
  <2>3. ResultsOK' /\ Numbered'
    BY <2>1, <2>2, ResultsUntouched DEF TypeOK
  <2> QED BY <2>1, <2>3, TalkUntouched DEF TypeOK, CountsOK
<1> QED BY <1>1, <1>2

LEMMA TypeNext == TypeOK /\ [Next]_vars => TypeOK'
<1> SUFFICES ASSUME TypeOK, [Next]_vars PROVE TypeOK'
  OBVIOUS
<1>1. CASE Send \/ BeginTurn \/ EmergencyCompact \/ ReplyText \/ UICompact \/ \E n \in 1..MaxBatch : ReplyCalls(n)
  BY <1>1, TypeTalk
<1>2. CASE CallsReturn \/ HandleResult \/ SummaryArrives \/ SummaryFails \/ StoreFails
  BY <1>2, TypeResults
<1>3. CASE RecordResults
  BY <1>3, TypeRecord
<1>4. ASSUME NEW job \in jobs, FailCompaction(job) \/ \E lost \in 0..Len(job.src) : FinishCompaction(job, lost)
      PROVE  TypeOK'
  BY <1>4, TypeEnds
<1>5. ASSUME NEW s \in Sessions, NewSession(s) \/ ResumeSession(s) \/ DeleteSession(s)
      PROVE  TypeOK'
  BY <1>5, TypeOpens
<1>6. CASE Cancel \/ UNCHANGED vars
  BY <1>6, TypeRest
<1> QED BY <1>1, <1>2, <1>3, <1>4, <1>5, <1>6 DEF Next

(* Every variable keeps its type (context/compactor.py): the conversations *)
(* and the files are chains in which no message of the assistant carries a *)
(* result, and what a compaction keeps never begins with a result.         *)
THEOREM TypeCorrect == Spec => []TypeOK
BY TypeInit, TypeNext, PTL DEF Spec

-----------------------------------------------------------------------------
(* A cut that leaves no result behind its call parts no pair.              *)
Ends(a, b, x) ==
  /\ Len(a) \in Nat /\ Len(b) \in Nat /\ DOMAIN a = 1..Len(a) /\ DOMAIN b = 1..Len(b)
  /\ Len(x) = Len(a) + Len(b) /\ DOMAIN x = 1..(Len(a) + Len(b))
  /\ \A i \in 1..Len(a) : x[i] = a[i]
  /\ \A i \in 1..Len(b) : x[Len(a) + i] = b[i]

LEMMA EndsIs ==
  ASSUME NEW T, NEW a \in Seq(T), NEW b \in Seq(T)
  PROVE  Ends(a, b, a \o b)
<1>1. Len(a) \in Nat /\ Len(b) \in Nat /\ DOMAIN a = 1..Len(a) /\ DOMAIN b = 1..Len(b)
  OBVIOUS
<1>2. Follows(a, b)
  BY JoinedAfter
<1> DEFINE x == a \o b
<1> HIDE DEF x
<1> QED BY <1>1, <1>2 DEF Follows, Ends, x

LEMMA PartedPairs ==
  ASSUME NEW a, NEW b, NEW x, Ends(a, b, x), Paired(x), Len(b) # 0, ResultIds(b[1]) = {}
  PROVE  /\ Paired(a) /\ Paired(b)
         /\ Len(a) # 0 => UseIds(a[Len(a)]) = {}
<1> DEFINE n == Len(a)
           k == Len(b)
<1>1. n \in Nat /\ k \in Nat /\ k # 0 /\ DOMAIN a = 1..n /\ DOMAIN b = 1..k /\ Len(x) = n + k /\ DOMAIN x = 1..(n + k)
  BY DEF Ends
<1>2. (\A i \in 1..n : x[i] = a[i]) /\ (\A i \in 1..k : x[n + i] = b[i])
  BY DEF Ends
<1>3. /\ \A i \in 1..(n + k) : UseIds(x[i]) # {} => i < n + k /\ ResultIds(x[i + 1]) = UseIds(x[i])
      /\ \A i \in 1..(n + k) : ResultIds(x[i]) # {} => i > 1 /\ ResultIds(x[i]) = UseIds(x[i - 1])
  BY <1>1 DEF Paired, AnsweredNext, AnswersPrevious
<1> HIDE DEF n, k
<1>4. ASSUME n # 0 PROVE UseIds(a[n]) = {}
  <2>1. n \in 1..n /\ n \in 1..(n + k) /\ 1 \in 1..k
    BY <1>1, <1>4
  <2>2. x[n] = a[n] /\ x[n + 1] = b[1]
    BY <1>2, <2>1
  <2> QED BY <1>3, <2>1, <2>2 DEF n
<1>5. AnsweredNext(a)
  <2> SUFFICES ASSUME NEW i \in 1..n, UseIds(a[i]) # {} PROVE i < n /\ ResultIds(a[i + 1]) = UseIds(a[i])
    BY <1>1 DEF AnsweredNext, n
  <2>1. i < n /\ i \in 1..(n + k) /\ i + 1 \in 1..n
    BY <1>1, <1>4
  <2> QED BY <1>2, <1>3, <2>1
<1>6. AnswersPrevious(a)
  <2> SUFFICES ASSUME NEW i \in 1..n, ResultIds(a[i]) # {} PROVE i > 1 /\ ResultIds(a[i]) = UseIds(a[i - 1])
    BY <1>1 DEF AnswersPrevious
  <2>1. i \in 1..(n + k)
    BY <1>1
  <2>2. i > 1 /\ ResultIds(x[i]) = UseIds(x[i - 1])
    BY <1>2, <1>3, <2>1
  <2>3. i - 1 \in 1..n
    BY <1>1, <2>2
  <2> QED BY <1>2, <2>2, <2>3
<1>7. AnsweredNext(b)
  <2> SUFFICES ASSUME NEW i \in 1..k, UseIds(b[i]) # {} PROVE i < k /\ ResultIds(b[i + 1]) = UseIds(b[i])
    BY <1>1 DEF AnsweredNext, k
  <2>1. n + i \in 1..(n + k) /\ (n + i) + 1 = n + (i + 1) /\ n + i \in Nat
    BY <1>1
  <2>2. n + i < n + k /\ ResultIds(x[(n + i) + 1]) = UseIds(x[n + i])
    BY <1>2, <1>3, <2>1
  <2>3. i < k /\ i + 1 \in 1..k
    BY <1>1, <2>2
  <2> QED BY <1>2, <2>1, <2>2, <2>3
<1>8. AnswersPrevious(b)
  <2> SUFFICES ASSUME NEW i \in 1..k, ResultIds(b[i]) # {} PROVE i > 1 /\ ResultIds(b[i]) = UseIds(b[i - 1])
    BY <1>1 DEF AnswersPrevious
  <2>1. i # 1
    OBVIOUS
  <2>2. i > 1 /\ i - 1 \in 1..k /\ n + i \in 1..(n + k) /\ (n + i) - 1 = n + (i - 1)
    BY <1>1, <2>1
  <2>3. ResultIds(x[n + i]) = UseIds(x[(n + i) - 1])
    BY <1>2, <1>3, <2>2
  <2> QED BY <1>2, <2>2, <2>3
<1> QED BY <1>4, <1>5, <1>6, <1>7, <1>8 DEF Paired, n

LEMMA TextAdded ==
  ASSUME NEW T, NEW a \in Seq(T), NEW t \in T, Paired(a), UseIds(t) = {}, ResultIds(t) = {},
         Len(a) # 0 => UseIds(a[Len(a)]) = {}
  PROVE  Paired(Append(a, t))
<1> DEFINE n == Len(a)
           x == Append(a, t)
<1>1. n \in Nat /\ DOMAIN a = 1..n /\ Len(x) = n + 1 /\ DOMAIN x = 1..(n + 1)
  BY AppendProperties
<1>2. (\A i \in 1..n : x[i] = a[i]) /\ x[n + 1] = t
  BY AppendProperties
<1>3. /\ \A i \in 1..n : UseIds(a[i]) # {} => i < n /\ ResultIds(a[i + 1]) = UseIds(a[i])
      /\ \A i \in 1..n : ResultIds(a[i]) # {} => i > 1 /\ ResultIds(a[i]) = UseIds(a[i - 1])
  BY <1>1 DEF Paired, AnsweredNext, AnswersPrevious
<1> HIDE DEF n, x
<1>4. AnsweredNext(x)
  <2> SUFFICES ASSUME NEW i \in 1..(n + 1), UseIds(x[i]) # {} PROVE i < n + 1 /\ ResultIds(x[i + 1]) = UseIds(x[i])
    BY <1>1 DEF AnsweredNext
  <2>1. i # n + 1
    BY <1>2
  <2>2. i \in 1..n
    BY <1>1, <2>1
  <2>3. i < n /\ ResultIds(a[i + 1]) = UseIds(a[i]) /\ i + 1 \in 1..n
    BY <1>1, <1>2, <1>3, <2>2
  <2> QED BY <1>1, <1>2, <2>2, <2>3
<1>5. AnswersPrevious(x)
  <2> SUFFICES ASSUME NEW i \in 1..(n + 1), ResultIds(x[i]) # {} PROVE i > 1 /\ ResultIds(x[i]) = UseIds(x[i - 1])
    BY <1>1 DEF AnswersPrevious
  <2>1. i # n + 1
    BY <1>2
  <2>2. i \in 1..n
    BY <1>1, <2>1
  <2>3. i > 1 /\ ResultIds(a[i]) = UseIds(a[i - 1]) /\ i - 1 \in 1..n
    BY <1>1, <1>2, <1>3, <2>2
  <2> QED BY <1>2, <2>2, <2>3
<1> QED BY <1>4, <1>5 DEF Paired, x

LEMMA CutParts == TypeOK => CutBetweenPairs
<1> SUFFICES ASSUME TypeOK, NEW j \in jobs, Paired(j.src \o j.kept)
             PROVE  Paired(SummaryRequest(j)) /\ Paired(j.kept)
  BY DEF CutBetweenPairs
<1> DEFINE a == j.src
           b == j.kept
           P == Polite(1..(next - 1))
           t == UserMessage(<<TextBlock(<<{}>>)>>)
<1>1. a \in Seq(P) /\ b \in Seq(P) /\ b # <<>> /\ ~HasResult(b[1])
  BY DEF TypeOK, JobsOK, Jobs, Separate, Chain, PoliteChains
<1>2. t \in P /\ UseIds(t) = {} /\ ResultIds(t) = {}
  <2> DEFINE S == {}
             u == UserMessage(<<TextBlock(<<S>>)>>)
             I == 1..(next - 1)
  <2>1. S \in Facts
    BY DEF Facts
  <2> HIDE DEF S, I
  <2>2. u \in Messages(Facts, I, I) /\ \A y \in ToSet(u.content) : y.kind = "text"
    BY <2>1, TextMessageIs
  <2>3. u.role = "user"
    BY DEF UserMessage, Message
  <2> HIDE DEF u
  <2>4. UseIds(u) = {} /\ ResultIds(u) = {}
    BY <2>2 DEF UseIds, ResultIds, IsUse, IsResult
  <2> QED BY <2>2, <2>3, <2>4 DEF Polite, u, S, I
<1>3. Paired(a \o b) /\ SummaryRequest(j) = Append(a, t)
  BY DEF SummaryRequest
<1>4. \A msg \in P : (msg.role = "user" \/ msg.role = "assistant") /\ (msg.role = "assistant" => ResultIds(msg) = {})
  BY DEF Polite, Messages
<1> HIDE DEF a, b, P, t
<1>5. Ends(a, b, a \o b)
  BY <1>1, EndsIs
<1>6. Len(b) # 0 /\ b[1] \in P
  BY <1>1
<1>7. ResultIds(b[1]) = {}
  BY <1>1, <1>4, <1>6 DEF HasResult
<1>8. Paired(b) /\ (Len(a) # 0 => UseIds(a[Len(a)]) = {}) /\ Paired(a)
  BY <1>3, <1>5, <1>6, <1>7, PartedPairs
<1>9. Paired(Append(a, t))
  BY <1>1, <1>2, <1>8, TextAdded
<1> QED BY <1>3, <1>8, <1>9 DEF b

(* What is summarised and what is kept (_recent_keep, context/compactor.py)*)
(* part no call from its result, whatever the user does beside the run.    *)
THEOREM CutPartsNoPair == Spec => []CutBetweenPairs
BY TypeCorrect, CutParts, PTL

-----------------------------------------------------------------------------
(* The inductive invariant, until the paths of a session that is opened or *)
(* of a compaction that ends have crossed those of another.                *)

(* One conversation, that of the current session; compactions are of it,   *)
(* as each read it, and the run waits for one at most.                     *)
Lone ==
  /\ Len(objects) = 1 /\ CurrentSession \in known
  /\ handler \in {NoSession, CurrentSession}
  /\ \A s \in Sessions \ known : file[s] = <<>>

CutAt(j, m, from) ==
  /\ from \in Nat \ {0} /\ from \in DOMAIN m /\ Cut(m, from) /\ Len(j.src) = from - 1
  /\ j.src = SubSeq(m, 1, from - 1) /\ j.kept = SubSeq(m, from, Len(m))

JobsFit ==
  /\ \A j \in jobs : j.object = 1 /\ (j.by = "run" => pc = "compacting")
  /\ \A i, j \in jobs : i.by = "run" /\ j.by = "run" => i = j

(* The file and the conversation say the same, each in order, and no call  *)
(* has a result in one and a placeholder in the other.                     *)
Faithful(f, c) == Placed(f) /\ Placed(c) /\ Twin(f, c) /\ Apart(f, c)

Flushed(f, c) == Len(f) = Len(c) /\ c # <<>> /\ Real(c[Len(c)]) # {}

Chained ==
  /\ \A s \in Sessions : Placed(file[s]) /\ Apart(file[s], file[s])
  /\ Faithful(file[CurrentSession], Current.msgs)
  /\ pc # "idle" => Flushed(file[CurrentSession], Current.msgs)
  /\ pc = "turn" => Current.msgs[Len(Current.msgs)].role = "user"

(* The calls of a batch are those of the last message, once each and       *)
(* answered nowhere; what is stored of them is in the session's directory. *)
Asks(msg, id) == \E u \in Real(msg) : u.kind = "use" /\ u.id = id
Answered(m) == Given(m) \cup Holders(m)

Awaits ==
  /\ Current.msgs[Len(Current.msgs)].role = "assistant"
  /\ batch.calls # <<>>
  /\ \A p \in DOMAIN batch.calls :
       /\ Asks(Current.msgs[Len(Current.msgs)], batch.calls[p])
       /\ batch.calls[p] \notin Answered(Current.msgs)
       /\ \A s \in Sessions : batch.calls[p] \notin Answered(file[s])
  /\ \A p, q \in DOMAIN batch.calls : batch.calls[p] = batch.calls[q] => p = q
  /\ Len(batch.done) <= Len(batch.calls)
  /\ \A p \in DOMAIN batch.done : batch.done[p].result.id = batch.calls[p]

(* A file with the text of this result.                                    *)
Readable(id, of, dir) == \E r \in dir : r.id = id /\ r.of = of

BatchFits ==
  /\ pc \in {"tools", "results", "digest"} => Awaits
  /\ pc = "tools" => batch.done = <<>>
  /\ pc \in {"results", "digest"} => batch.dir = CurrentSession
  /\ \A p \in DOMAIN batch.done : batch.done[p].form # "whole" =>
       Readable(batch.done[p].result.id, batch.done[p].result.of, stored[CurrentSession])
  /\ pc \notin {"tools", "results", "digest"} => batch = NoBatch

Heard ==
  \A s \in Sessions : Told(file[s]) \subseteq given[s] /\ given[s] \subseteq Told(file[s]) \cup dropped[s]

Backed ==
  \A s \in Sessions : \A id \in Given(file[s]) :
    shown[id].form # "whole" => Readable(id, shown[id].of, stored[s])

Kept == Lone /\ JobsFit /\ Chained /\ BatchFits /\ Heard /\ Backed

-----------------------------------------------------------------------------
(* What a step does to a file and a conversation that agree.               *)
LEMMA AppendTells ==
  ASSUME NEW F, NEW I, NEW H, NEW c \in Chains(F, I, H), NEW msg \in Messages(F, I, H)
  PROVE  LET r == AppendMessage(c, msg)
             m == << msg >>
         IN  /\ Told(r) = Told(c) \cup Told(m)
             /\ Given(r) = Given(c) \cup Given(m)
             /\ Holders(r) = Holders(c) \cup Holders(m)
             /\ Blocks(r) = Blocks(c) \cup Blocks(m) /\ Blocks(m) = ToSet(msg.content)
<1> DEFINE r == AppendMessage(c, msg)
           m == << msg >>
<1>1. r \in Chains(F, I, H) /\ Blocks(r) = Blocks(c) \cup ToSet(msg.content)
  BY AppendIs, AppendIds
<1>2. m \in Chains(F, I, H) /\ Blocks(m) = ToSet(msg.content)
  <2>1. m \in Chains(F, I, H)
    BY DEF Chains
  <2>2. ToSet(m) = {msg}
    BY DEF ToSet
  <2> QED BY <2>1, <2>2 DEF Blocks
<1> HIDE DEF r, m
<1>3. RealBlocks(r) = RealBlocks(c) \cup RealBlocks(m)
  BY <1>1, <1>2 DEF RealBlocks
<1>4. \A x : x \in Told(r) <=> x \in Told(c) \cup Told(m)
  BY <1>1, <1>2, <1>3, SaidIs
<1>5. \A x : x \in Given(r) <=> x \in Given(c) \cup Given(m)
  BY <1>1, <1>2, <1>3, SaidIs
<1>6. \A x : x \in Holders(r) <=> x \in Holders(c) \cup Holders(m)
  BY <1>1, <1>2, SaidIs
<1> QED BY <1>1, <1>2, <1>4, <1>5, <1>6 DEF r, m

LEMMA FlushBlocks ==
  ASSUME NEW F, NEW I, NEW H, NEW f \in Chains(F, I, H), NEW r \in Chains(F, I, H),
         NEW g \in Chains(F, I, H), r # <<>>, Replaces(f, r, g)
  PROVE  Blocks(g) \subseteq Blocks(f) \cup Blocks(r)
<1> SUFFICES ASSUME NEW b \in Blocks(g) PROVE b \in Blocks(f) \cup Blocks(r)
  OBVIOUS
<1>1. PICK i \in DOMAIN g : \E p \in DOMAIN g[i].content : b = g[i].content[p]
  BY IdsAreAt
<1>2. CASE i # Len(r)
  BY <1>1, <1>2, IdsAreAt DEF Replaces
<1>3. CASE i = Len(r)
  <2>1. Len(r) \in DOMAIN r
    BY ChainIs DEF Chains
  <2> QED BY <1>1, <1>3, <2>1, IdsAreAt DEF Replaces
<1> QED BY <1>2, <1>3

(* The chain r and its file g, once msg is added to c and f.               *)
Continued(f, c, msg, r, g) ==
  /\ Faithful(g, r) /\ Apart(g, g) /\ Flushed(g, r)
  /\ r[Len(r)].role = msg.role
  /\ \A b \in Real(msg) : b \in Real(r[Len(r)])
  /\ Told(r) = Told(c) \cup Told(<< msg >>) /\ Told(g) = Told(f) \cup Told(<< msg >>)
  /\ Given(g) = Given(f) \cup Given(<< msg >>) /\ Given(r) = Given(g)
  /\ Holders(g) \subseteq Holders(f) \cup Holders(c) /\ Holders(r) = Holders(c)

(* A message that may be said next, without placeholders.                  *)
Sayable(f, c, msg) ==
  /\ New(c, msg) /\ (msg.role = "user" \/ Len(f) = Len(c))
  /\ \A b \in ToSet(msg.content) : b.kind # "placeholder"
  /\ Real(msg) # {}
  /\ Given(<< msg >>) \cap (Holders(f) \cup Holders(c)) = {}

LEMMA SpokenKeeps ==
  ASSUME NEW F, NEW I, NEW H, NEW f \in Chains(F, I, H), NEW c \in Chains(F, I, H),
         NEW msg \in Messages(F, I, H), Faithful(f, c), Sayable(f, c, msg)
  PROVE  Continued(f, c, msg, AppendMessage(c, msg), Flush(f, AppendMessage(c, msg)))
<1> DEFINE r == AppendMessage(c, msg)
           g == Flush(f, r)
           m == << msg >>
<1>1. r \in Chains(F, I, H) /\ g \in Chains(F, I, H) /\ Said(f, c, r, g)
  BY FlushedTwin DEF Faithful, Sayable
<1>2. /\ Told(r) = Told(c) \cup Told(m)
      /\ Given(r) = Given(c) \cup Given(m)
      /\ Holders(r) = Holders(c) \cup Holders(m)
      /\ Blocks(r) = Blocks(c) \cup Blocks(m) /\ Blocks(m) = ToSet(msg.content)
  BY AppendTells
<1>3. Joins(c, msg, r) \/ Adds(c, msg, r)
  BY JoinsOrAdds
<1>4. m \in Chains(F, I, H)
  BY DEF Chains
<1> HIDE DEF r, g, m
<1>5. Holders(m) = {}
  BY <1>2 DEF Holders, Sayable
<1>6. Blocks(g) \subseteq Blocks(f) \cup Blocks(r)
  BY <1>1, FlushBlocks DEF Said
<1>7. Holders(g) \subseteq Holders(f) \cup Holders(c) /\ Holders(r) = Holders(c)
  <2>1. Holders(r) = Holders(c)
    BY <1>2, <1>5
  <2>2. Holders(g) \subseteq Holders(f) \cup Holders(r)
    BY <1>6 DEF Holders
  <2> QED BY <2>1, <2>2
<1>8. Given(f) = Given(c) /\ Told(f) = Told(c) /\ Given(g) = Given(r) /\ Told(g) = Told(r)
  BY <1>1, TwinSame DEF Faithful, Said
<1>9. Apart(g, r) /\ Apart(g, g)
  BY <1>2, <1>7, <1>8 DEF Apart, Faithful, Sayable, m
<1>10. Len(g) = Len(r) /\ r # <<>> /\ Placed(r) /\ Placed(g) /\ Twin(g, r)
  BY <1>1 DEF Said, Replaces
<1>11. r[Len(r)].role = msg.role /\ \A b \in Real(msg) : b \in Real(r[Len(r)])
  <2>1. CASE Joins(c, msg, r)
    <3> DEFINE n == Len(c)
               old == c[n].content
               new == msg.content
    <3>1. n \in DOMAIN c /\ r[Len(r)].content = old \o new /\ r[Len(r)].role = msg.role
      BY <2>1, ChainIs DEF Joins, Chains
    <3>2. old \in Seq(BlocksOf(F, I, H)) /\ new \in Seq(BlocksOf(F, I, H))
      BY <3>1, ChainIs DEF Messages
    <3> HIDE DEF n, old
    <3>3. Follows(old, new)
      BY <3>2, JoinedAfter
    <3>4. ToSet(new) \subseteq ToSet(old \o new)
      <4> DEFINE x == old \o new
      <4>1. \A p \in DOMAIN new : Len(old) + p \in DOMAIN x /\ x[Len(old) + p] = new[p]
        BY <3>3 DEF Follows
      <4> HIDE DEF x, new
      <4>2. ToSet(new) \subseteq ToSet(x)
        BY <4>1 DEF ToSet
      <4> QED BY <4>2 DEF x, new
    <3> QED BY <3>1, <3>4 DEF Real
  <2>2. CASE Adds(c, msg, r)
    <3>1. r[Len(r)] = msg
      BY <2>2 DEF Adds
    <3> QED BY <3>1
  <2> QED BY <1>3, <2>1, <2>2
<1>12. Real(r[Len(r)]) # {}
  BY <1>11 DEF Sayable
<1> QED BY <1>2, <1>7, <1>8, <1>9, <1>10, <1>11, <1>12 DEF Continued, Faithful, Flushed, r, g, m

(* A file and its repaired conversation, and a repaired conversation.      *)
LEMMA RepairedFaithful ==
  ASSUME NEW F, NEW n \in Nat, NEW I \in SUBSET (1..n), NEW m \in Chains(F, I, I),
         Placed(m), Apart(m, m)
  PROVE  Faithful(m, RepairChain(m))
<1> DEFINE r == RepairChain(m)
<1>1. Mended(m, r)
  BY RepairTwin
<1> HIDE DEF r
<1>2. Apart(m, r)
  BY <1>1 DEF Mended, Apart
<1> QED BY <1>1, <1>2 DEF Mended, Faithful, r

LEMMA TurnFaithful ==
  ASSUME NEW F, NEW n \in Nat, NEW I \in SUBSET (1..n), NEW f \in Chains(F, I, I), NEW c \in Chains(F, I, I),
         Faithful(f, c), Flushed(f, c), c[Len(c)].role = "user"
  PROVE  LET r == RepairChain(c)
         IN  Faithful(f, r) /\ Flushed(f, r) /\ Told(r) = Told(c)
<1> DEFINE r == RepairChain(c)
<1>1. Mended(c, r)
  BY RepairTwin DEF Faithful, Apart
<1>2. r \in Chains(F, I, I)
  BY RepairIs
<1> HIDE DEF r
<1>3. Len(r) = Len(c) /\ Len(f) = Len(c)
  BY <1>1 DEF Mended, Flushed
<1>4. /\ Len(c) \in Nat /\ Len(c) \in DOMAIN c /\ DOMAIN c = 1..Len(c)
      /\ DOMAIN r = DOMAIN c /\ DOMAIN f = DOMAIN c /\ r # <<>>
  BY <1>2, <1>3, ChainIs DEF Chains, Flushed
<1>5. Twin(f, r)
  <2>1. \A i \in DOMAIN c : c[i].role = r[i].role /\ Real(c[i]) = Real(r[i])
    BY <1>1, <1>4 DEF Mended, Twin
  <2>2. \A i \in DOMAIN c : f[i].role = c[i].role /\ Real(f[i]) = Real(c[i])
    BY <1>4 DEF Faithful, Twin
  <2> QED BY <1>3, <1>4, <2>1, <2>2 DEF Twin
<1>6. Real(r[Len(r)]) # {}
  BY <1>1, <1>3, <1>4 DEF Mended, Twin, Flushed
<1>7. Given(f) = Given(c)
  BY TwinSame DEF Faithful
<1>8. Apart(f, r)
  BY <1>1, <1>7 DEF Apart, Mended, Faithful
<1> QED BY <1>1, <1>3, <1>4, <1>5, <1>6, <1>8 DEF Mended, Faithful, Flushed, r

(* The conversation r a compaction puts in the place of c and its file f.  *)
Compacted(f, c, r, gone) ==
  /\ Faithful(r, r) /\ r # <<>> /\ (c # <<>> => r[Len(r)] = c[Len(c)])
  /\ Told(r) \subseteq Told(f) /\ Told(f) \subseteq Told(r) \cup Told(gone)
  /\ Given(r) \subseteq Given(f) /\ Answered(r) \subseteq Answered(c)

LEMMA CompactedIs ==
  ASSUME NEW F, NEW I, NEW H, NEW f \in Chains(F, I, H), NEW c \in Chains(F, I, H), Faithful(f, c),
         NEW from \in Nat \ {0}, Cut(c, from), NEW lost \in 0..(from - 1),
         NEW gist \in Messages(F, I, H),
         Sums(gist, SubSeq(SubSeq(c, 1, from - 1), lost + 1, from - 1))
  PROVE  Compacted(f, c, << gist >> \o SubSeq(c, from, Len(c)), SubSeq(SubSeq(c, 1, from - 1), 1, lost))
<1> DEFINE r == << gist >> \o SubSeq(c, from, Len(c))
           gone == SubSeq(SubSeq(c, 1, from - 1), 1, lost)
<1>1. r # <<>> /\ Placed(r) /\ (c # <<>> => r[Len(r)] = c[Len(c)])
  BY CutPlaced DEF Faithful, Sums
<1>2. Condensed(c, r, gone)
  BY CutTells
<1> HIDE DEF r, gone
<1>3. Told(f) = Told(c) /\ Given(f) = Given(c)
  BY TwinSame DEF Faithful
<1>4. Apart(r, r)
  BY <1>2 DEF Condensed, Apart, Faithful
<1>5. Faithful(r, r)
  BY <1>1, <1>4 DEF Faithful, Twin
<1>6. Answered(r) \subseteq Answered(c)
  BY <1>2 DEF Condensed, Answered
<1> QED BY <1>1, <1>2, <1>3, <1>5, <1>6 DEF Condensed, Compacted, r, gone

-----------------------------------------------------------------------------
(* The current conversation, where it is alone.                            *)
LEMMA AloneIs ==
  ASSUME TypeOK, Lone
  PROVE  /\ next \in Nat \ {0} /\ CurrentSession \in Sessions /\ CurrentSession \in known
         /\ Current = objects[1] /\ CurrentSession = objects[1].sid
         /\ Current.msgs \in Chain(next) /\ file \in [Sessions -> Chain(next)]
         /\ objects \in Seq(Conversations(next)) /\ Len(objects) = 1 /\ DOMAIN objects = {1}
         /\ known \in SUBSET Sessions /\ given \in [Sessions -> Facts] /\ dropped \in [Sessions -> Facts]
<1>1. next \in Nat \ {0}
  BY NumbersAre DEF TypeOK, CountsOK
<1>2. Len(objects) \in DOMAIN objects /\ CurrentSession \in Sessions
      /\ Current = objects[Len(objects)] /\ Current.msgs \in Chain(next)
  BY <1>1, CurrentIs DEF TypeOK
<1>3. objects \in Seq(Conversations(next)) /\ file \in [Sessions -> Chain(next)] /\ known \in SUBSET Sessions
  BY DEF TypeOK, ConversationsOK, Talk
<1>4. DOMAIN objects = {1}
  BY <1>3 DEF Lone
<1> QED BY <1>1, <1>2, <1>3, <1>4 DEF Lone, CurrentSession, TypeOK, HistoryOK

LEMMA ReplacedCurrent ==
  ASSUME TypeOK, Lone, NEW k \in Nat, next <= k, NEW m \in Chain(k),
         objects' = [objects EXCEPT ![1].msgs = m]
  PROVE  Len(objects') = 1 /\ CurrentSession' = CurrentSession /\ Current'.msgs = m
<1>1. objects \in Seq(Conversations(k)) /\ Len(objects) = 1 /\ DOMAIN objects = {1} /\ CurrentSession = objects[1].sid
  BY AloneIs, ChainGrows
<1> DEFINE p == objects'
<1>2. p = [objects EXCEPT ![1].msgs = m]
  OBVIOUS
<1> HIDE DEF p
<1>3. p \in Seq(Conversations(k)) /\ Len(p) = Len(objects)
      /\ \A i \in DOMAIN objects : p[i] = IF i = 1 THEN [objects[i] EXCEPT !.msgs = m] ELSE objects[i]
  BY <1>1, <1>2, MsgsReplaced
<1>4. p[1] = [objects[1] EXCEPT !.msgs = m] /\ objects[1] \in Conversations(k)
  BY <1>1, <1>3
<1>5. p[1].sid = objects[1].sid /\ p[1].msgs = m
  BY <1>4 DEF Conversations
<1> QED BY <1>1, <1>3, <1>5 DEF Current, CurrentSession, p

LEMMA ReplacedHere ==
  ASSUME TypeOK, Lone, NEW m \in Chain(next), objects' = [objects EXCEPT ![1].msgs = m]
  PROVE  Len(objects') = 1 /\ CurrentSession' = CurrentSession /\ Current'.msgs = m
<1> DEFINE k == next
<1>1. k \in Nat /\ next <= k /\ m \in Chain(k)
  BY AloneIs
<1> HIDE DEF k
<1> QED BY <1>1, ReplacedCurrent

(* A message of the run: what it leaves in the file and the conversation.  *)
Spoken(msg) ==
  /\ CurrentSession' = CurrentSession
  /\ Continued(file[CurrentSession], Current.msgs, msg, Current'.msgs, file'[CurrentSession])
  /\ \A s \in Sessions \ {CurrentSession} : file'[s] = file[s]

LEMMA SpokenLeaves ==
  ASSUME TypeOK, Lone, Chained, Heard, NEW k \in Nat, next <= k, NEW msg \in Polite(1..(k - 1)),
         Sayable(file[CurrentSession], Current.msgs, msg), AddAndFlush(msg),
         UNCHANGED <<known, handler, dropped>>, pc' = "turn" => msg.role = "user"
  PROVE  Lone' /\ Chained' /\ Heard' /\ Spoken(msg)
<1> DEFINE s == CurrentSession
           f == file[s]
           c == Current.msgs
           r == AppendMessage(c, msg)
           g == Flush(f, r)
           I == 1..(k - 1)
<1>1. /\ s \in Sessions /\ s \in known /\ file \in [Sessions -> Chain(k)] /\ c \in Chain(k) /\ Len(objects) = 1
      /\ given \in [Sessions -> Facts]
  <2>1. next \in Nat /\ CurrentSession \in Sessions /\ CurrentSession \in known /\ Len(objects) = 1
        /\ Current.msgs \in Chain(next) /\ file \in [Sessions -> Chain(next)] /\ given \in [Sessions -> Facts]
    BY AloneIs
  <2> QED BY <2>1, ChainGrows
<1>2. f \in Chains(Facts, I, I) /\ c \in Chains(Facts, I, I) /\ msg \in Messages(Facts, I, I)
  <2>1. f \in Chain(k)
    BY <1>1
  <2> QED BY <1>1, <2>1, ChainTyped DEF Polite
<1>3. Faithful(f, c)
  BY DEF Chained
<1>4. r \in Chain(k)
  BY <1>1, PoliteAppend DEF Chain
<1>5. /\ objects' = [objects EXCEPT ![1].msgs = r] /\ file' = [file EXCEPT ![s] = g]
      /\ given' = [given EXCEPT ![s] = @ \cup Told(<< msg >>)]
  BY <1>1 DEF AddAndFlush
<1> HIDE DEF I, c, f
<1>6. Continued(f, c, msg, r, g)
  BY <1>2, <1>3, SpokenKeeps DEF f, c
<1> HIDE DEF r, g, s
<1>7. Len(objects') = 1 /\ CurrentSession' = s /\ Current'.msgs = r
  BY <1>4, <1>5, ReplacedCurrent DEF s
<1>8. file'[s] = g /\ \A x \in Sessions \ {s} : file'[x] = file[x]
  BY <1>1, <1>5
<1>9. given'[s] = given[s] \cup Told(<< msg >>) /\ \A x \in Sessions \ {s} : given'[x] = given[x]
  BY <1>1, <1>5
<1>10. Lone'
  BY <1>1, <1>7, <1>8 DEF Lone, s
<1>11. Chained'
  <2>1. \A x \in Sessions : Placed(file'[x]) /\ Apart(file'[x], file'[x])
    BY <1>6, <1>8 DEF Continued, Faithful, Chained
  <2>2. Faithful(g, r) /\ Flushed(g, r) /\ r[Len(r)].role = msg.role
    BY <1>6 DEF Continued
  <2> QED BY <1>7, <1>8, <2>1, <2>2 DEF Chained
<1>12. Heard'
  BY <1>6, <1>8, <1>9 DEF Heard, Continued, f
<1>13. Spoken(msg)
  BY <1>6, <1>7, <1>8 DEF Spoken, s, f, c
<1> QED BY <1>10, <1>11, <1>12, <1>13

(* Where the run goes on it waits for no compaction.                       *)
LEMMA JobsSame == JobsFit /\ jobs' = jobs /\ (pc # "compacting" \/ pc' = pc) => JobsFit'
BY DEF JobsFit

LEMMA FreshNumbers ==
  ASSUME NEW n \in Nat \ {0}, NEW m \in Chain(n)
  PROVE  /\ \A b \in Blocks(m) : b.kind # "text" => b.id \in 1..(n - 1)
         /\ Answered(m) \subseteq 1..(n - 1)
<1>1. m \in Chains(Facts, 1..(n - 1), 1..(n - 1))
  BY ChainTyped
<1> DEFINE I == 1..(n - 1)
<1> HIDE DEF I
<1>2. \A b \in Blocks(m) : b \in BlocksOf(Facts, I, I)
  BY <1>1, ChainIs, IdsAreAt DEF I
<1>3. \A b \in Blocks(m) : b.kind # "text" => b.id \in I
  BY <1>2, KindsAre
<1> QED BY <1>3 DEF Answered, Given, Holders, I

(* Texts only.                                                             *)
LEMMA TextsSayable ==
  ASSUME NEW F, NEW I, NEW H, NEW f \in Chains(F, I, H), NEW c \in Chains(F, I, H),
         NEW msg, Neat(msg), Real(msg) # {},
         \A b \in ToSet(msg.content) : b.kind = "text", msg.role = "user" \/ Len(f) = Len(c),
         c # <<>> /\ msg.role = "assistant" => Real(c[Len(c)]) # {}
  PROVE  Sayable(f, c, msg) /\ Given(<< msg >>) = {}
<1>1. \A b \in Real(msg) : b.kind = "text"
  BY DEF Real
<1>2. Blocks(<< msg >>) = ToSet(msg.content)
  BY DEF Blocks, ToSet
<1>3. Given(<< msg >>) = {}
  BY <1>2 DEF Given
<1>4. \A i \in DOMAIN c : \A a \in Real(c[i]), b \in Real(msg) : ~SameNumber(a, b)
  BY <1>1 DEF SameNumber
<1> QED BY <1>1, <1>3, <1>4 DEF Sayable, New

-----------------------------------------------------------------------------
(* The run speaks.                                                         *)
LEMMA BackedSame ==
  ASSUME Backed, UNCHANGED <<shown, stored>>, \A s \in Sessions : Given(file'[s]) \subseteq Given(file[s])
  PROVE  Backed'
BY DEF Backed

LEMMA SendKeeps ==
  ASSUME TypeOK, Kept, Send
  PROVE  Kept'
<1> DEFINE n == next
           S == {Item("input", n)}
           msg == UserMessage(<< TextBlock(<<S>>) >>)
           f == file[CurrentSession]
           c == Current.msgs
<1>1. /\ AddAndFlush(msg) /\ next' = n + 1 /\ pc' = "turn" /\ pc = "idle" /\ jobs' = jobs
      /\ UNCHANGED <<known, results, dropped>>
  BY DEF Send
<1>2. n \in Nat \ {0} /\ CurrentSession \in Sessions /\ c \in Chain(n) /\ file \in [Sessions -> Chain(n)]
  BY AloneIs DEF Kept
<1>3. f \in Chains(Facts, 1..(n - 1), 1..(n - 1)) /\ c \in Chains(Facts, 1..(n - 1), 1..(n - 1))
  <2>1. f \in Chain(n)
    BY <1>2
  <2> QED BY <1>2, <2>1, ChainTyped
<1>4. msg \in Polite(1..n) /\ Text(msg) /\ Real(msg) # {} /\ (\A b \in ToSet(msg.content) : b.kind = "text")
  BY <1>2, InputMessage
<1>5. msg.role = "user" /\ Neat(msg)
  BY <1>4, TextIs DEF Text
<1> HIDE DEF msg, f, c, n
<1>6. Sayable(f, c, msg) /\ Given(<< msg >>) = {}
  BY <1>3, <1>4, <1>5, TextsSayable
<1>7. n + 1 \in Nat /\ n <= n + 1 /\ msg \in Polite(1..((n + 1) - 1))
  <2>1. (n + 1) - 1 = n
    BY <1>2
  <2> QED BY <1>2, <1>4, <2>1
<1>8. Lone' /\ Chained' /\ Heard' /\ Spoken(msg)
  <2>1. UNCHANGED handler
    BY <1>1 DEF results
  <2> QED BY <1>1, <1>5, <1>6, <1>7, <2>1, SpokenLeaves DEF Kept, n, f, c
<1>9. JobsFit'
  BY <1>1, JobsSame DEF Kept
<1>10. BatchFits'
  BY <1>1 DEF results, Kept, BatchFits, NoBatch
<1>11. Backed'
  <2>1. \A s \in Sessions : Given(file'[s]) \subseteq Given(file[s])
    BY <1>6, <1>8 DEF Spoken, Continued
  <2> QED BY <1>1, <2>1, BackedSame DEF results, Kept
<1> QED BY <1>8, <1>9, <1>10, <1>11 DEF Kept

LEMMA ReplyTextKeeps ==
  ASSUME TypeOK, Kept, ReplyText
  PROVE  Kept'
<1> DEFINE n == next
           msg == AssistantMessage(<< TextBlock(<<>>) >>)
           f == file[CurrentSession]
           c == Current.msgs
<1>1. /\ AddAndFlush(msg) /\ pc' = "idle" /\ pc = "llm" /\ jobs' = jobs
      /\ UNCHANGED <<known, results, dropped>>
  BY DEF ReplyText
<1>2. n \in Nat \ {0} /\ CurrentSession \in Sessions /\ c \in Chain(n) /\ file \in [Sessions -> Chain(n)]
  BY AloneIs DEF Kept
<1>3. f \in Chains(Facts, 1..(n - 1), 1..(n - 1)) /\ c \in Chains(Facts, 1..(n - 1), 1..(n - 1))
  <2>1. f \in Chain(n)
    BY <1>2
  <2> QED BY <1>2, <2>1, ChainTyped
<1>4. /\ msg \in Polite(1..(n - 1)) /\ Neat(msg) /\ Real(msg) # {}
      /\ msg.role = "assistant" /\ \A b \in ToSet(msg.content) : b.kind = "text"
  BY TextReply
<1>5. Flushed(f, c)
  BY <1>1 DEF Kept, Chained
<1> HIDE DEF msg, f, c, n
<1>6. Sayable(f, c, msg) /\ Given(<< msg >>) = {}
  BY <1>3, <1>4, <1>5, TextsSayable DEF Flushed
<1>7. Lone' /\ Chained' /\ Heard' /\ Spoken(msg)
  <2>1. UNCHANGED handler /\ pc' # "turn" /\ n \in Nat /\ n <= n
    BY <1>1, <1>2 DEF results
  <2> QED BY <1>1, <1>4, <1>6, <2>1, SpokenLeaves DEF Kept, n, f, c
<1>8. JobsFit'
  BY <1>1, JobsSame DEF Kept
<1>9. BatchFits'
  BY <1>1 DEF results, Kept, BatchFits, NoBatch
<1>10. Backed'
  <2>1. \A s \in Sessions : Given(file'[s]) \subseteq Given(file[s])
    BY <1>6, <1>7 DEF Spoken, Continued
  <2> QED BY <1>1, <2>1, BackedSame DEF results, Kept
<1> QED BY <1>7, <1>8, <1>9, <1>10 DEF Kept

(* Calls with numbers of their own.                                        *)
Calling(msg, k, ids) ==
  /\ Neat(msg) /\ msg.role = "assistant" /\ Real(msg) = ToSet(msg.content) /\ Real(msg) # {}
  /\ \A b : b \in Real(msg) <=> \E i \in 1..k : b = ToolUseBlock(ids[i])
NoneBefore(k, ids, n) == \A i \in 1..k : ids[i] \in Nat /\ ids[i] >= n

LEMMA CallsSayable ==
  ASSUME NEW n \in Nat \ {0}, NEW f \in Chain(n), NEW c \in Chain(n), Flushed(f, c),
         NEW k, NEW ids, NoneBefore(k, ids, n), NEW msg, Calling(msg, k, ids)
  PROVE  Sayable(f, c, msg) /\ Given(<< msg >>) = {}
<1>0. /\ Neat(msg) /\ msg.role = "assistant" /\ Real(msg) = ToSet(msg.content) /\ Real(msg) # {}
      /\ \A b : b \in Real(msg) <=> \E i \in 1..k : b = ToolUseBlock(ids[i])
  BY DEF Calling
<1>1. \A b \in Real(msg) : b.kind = "use" /\ b.id \in Nat /\ b.id >= n
  BY <1>0 DEF ToolUseBlock, NoneBefore
<1>2. Blocks(<< msg >>) = ToSet(msg.content)
  BY DEF Blocks, ToSet
<1>3. Given(<< msg >>) = {}
  BY <1>0, <1>1, <1>2 DEF Given
<1>4. \A i \in DOMAIN c : \A a \in Real(c[i]), b \in Real(msg) : ~SameNumber(a, b)
  <2> SUFFICES ASSUME NEW i \in DOMAIN c, NEW a \in Real(c[i]), NEW b \in Real(msg), SameNumber(a, b)
               PROVE  FALSE
    OBVIOUS
  <2>1. a \in Blocks(c)
    BY IdsAreAt DEF Real, ToSet
  <2>2. a.kind # "text" /\ a.id = b.id
    BY DEF SameNumber
  <2>3. a.id \in 1..(n - 1)
    BY <2>1, <2>2, FreshNumbers
  <2> QED BY <1>1, <2>2, <2>3
<1> QED BY <1>0, <1>1, <1>3, <1>4 DEF Sayable, New, Flushed

LEMMA ReplyCallsKeeps ==
  ASSUME TypeOK, Kept, NEW k \in 1..MaxBatch, ReplyCalls(k)
  PROVE  Kept'
<1> DEFINE n == next
           calls == [i \in 1..k |-> n + i - 1]
           msg == AssistantMessage([i \in 1..k |-> ToolUseBlock(calls[i])])
           f == file[CurrentSession]
           c == Current.msgs
           m == n + k
<1>1. /\ AddAndFlush(msg) /\ pc' = "tools" /\ pc = "llm" /\ jobs' = jobs
      /\ batch' = [NoBatch EXCEPT !.calls = calls]
      /\ UNCHANGED <<handler, stored, shown, known, dropped>>
  BY DEF ReplyCalls
<1>2. n \in Nat \ {0} /\ CurrentSession \in Sessions /\ c \in Chain(n) /\ file \in [Sessions -> Chain(n)]
  BY AloneIs DEF Kept
<1>3. k \in Nat \ {0} /\ m \in Nat /\ n <= m
  BY <1>2, CompactionAssumption
<1>4. /\ calls \in Seq(Nat) /\ Len(calls) = k /\ DOMAIN calls = 1..k
      /\ \A i \in 1..k : calls[i] \in n..(n + k - 1) /\ calls[i] \in 1..(n + k - 1)
      /\ \A i, j \in 1..k : calls[i] = calls[j] => i = j
  BY <1>2, <1>3, CallsTyped
<1>5. f \in Chain(n) /\ Flushed(f, c)
  BY <1>1, <1>2 DEF Kept, Chained
<1> HIDE DEF calls, f, c
<1>6. \A i \in 1..k : calls[i] \in Nat /\ calls[i] >= n
  BY <1>2, <1>4
<1>7. /\ msg \in Polite(1..(m - 1)) /\ Neat(msg) /\ Real(msg) = ToSet(msg.content)
      /\ msg.role = "assistant" /\ Real(msg) # {}
      /\ \A b : b \in Real(msg) <=> \E i \in 1..k : b = ToolUseBlock(calls[i])
  <2> DEFINE I == 1..(m - 1)
  <2>0. m - 1 = n + k - 1
    BY <1>2, <1>3
  <2>1. \A i \in 1..k : calls[i] \in I
    BY <1>4, <2>0
  <2> HIDE DEF I
  <2>2. /\ msg \in Polite(I) /\ Neat(msg) /\ Real(msg) = ToSet(msg.content)
        /\ msg.role = "assistant" /\ Real(msg) # {}
        /\ \A b : b \in Real(msg) <=> \E i \in 1..k : b = ToolUseBlock(calls[i])
    BY <1>3, <1>4, <2>1, CallsReply
  <2> QED BY <2>2 DEF I
<1> HIDE DEF msg, m, n
<1>8. Sayable(f, c, msg) /\ Given(<< msg >>) = {}
  <2>1. NoneBefore(k, calls, n)
    BY <1>6 DEF NoneBefore
  <2>2. Calling(msg, k, calls)
    BY <1>7 DEF Calling
  <2> QED BY <1>2, <1>5, <2>1, <2>2, CallsSayable
<1>9. Lone' /\ Chained' /\ Heard' /\ Spoken(msg)
  <2>1. pc' # "turn"
    BY <1>1
  <2> QED BY <1>1, <1>3, <1>7, <1>8, <2>1, SpokenLeaves DEF Kept, f, c, n
<1>10. JobsFit'
  BY <1>1, JobsSame DEF Kept
<1>11. Backed'
  <2>1. \A s \in Sessions : Given(file'[s]) \subseteq Given(file[s])
    BY <1>8, <1>9 DEF Spoken, Continued
  <2> QED BY <1>1, <2>1, BackedSame DEF Kept
<1>12. BatchFits'
  <2> DEFINE r == Current'.msgs
             g == file'[CurrentSession]
  <2>1. /\ Given(g) = Given(f) /\ Given(r) = Given(f) /\ Holders(g) \subseteq Holders(f) \cup Holders(c)
        /\ Holders(r) = Holders(c) /\ r[Len(r)].role = "assistant"
        /\ \A b \in Real(msg) : b \in Real(r[Len(r)])
    BY <1>7, <1>8, <1>9 DEF Spoken, Continued, f, c
  <2>2. CurrentSession' = CurrentSession /\ \A s \in Sessions \ {CurrentSession} : file'[s] = file[s]
    BY <1>9 DEF Spoken
  <2> HIDE DEF r, g
  <2>3. \A x : x \in 1..(n - 1) => \A i \in 1..k : calls[i] # x
    BY <1>2, <1>6
  <2>4. \A s \in Sessions : Answered(file[s]) \subseteq 1..(n - 1)
    <3>1. \A s \in Sessions : file[s] \in Chain(n)
      BY <1>2
    <3> QED BY <1>2, <3>1, FreshNumbers
  <2>5. Answered(c) \subseteq 1..(n - 1) /\ Answered(f) \subseteq 1..(n - 1)
    BY <1>2, <1>5, FreshNumbers
  <2>6. Answered(r) \subseteq 1..(n - 1) /\ Answered(g) \subseteq 1..(n - 1)
    BY <2>1, <2>5 DEF Answered
  <2>7. \A s \in Sessions : Answered(file'[s]) \subseteq 1..(n - 1)
    BY <2>2, <2>4, <2>6 DEF g
  <2>8. \A i \in 1..k : Asks(r[Len(r)], calls[i])
    <3> SUFFICES ASSUME NEW i \in 1..k PROVE Asks(r[Len(r)], calls[i])
      OBVIOUS
    <3>1. ToolUseBlock(calls[i]) \in Real(r[Len(r)])
      BY <1>7, <2>1
    <3>2. ToolUseBlock(calls[i]).kind = "use" /\ ToolUseBlock(calls[i]).id = calls[i]
      BY DEF ToolUseBlock
    <3> QED BY <3>1, <3>2 DEF Asks
  <2>9. batch'.calls = calls /\ batch'.done = <<>> /\ Len(batch'.done) = 0
    BY <1>1 DEF NoBatch
  <2>10. Len(calls) >= 0 /\ calls # <<>>
    BY <1>3, <1>4
  <2>11. Awaits'
    BY <1>4, <2>1, <2>3, <2>6, <2>7, <2>8, <2>9, <2>10 DEF Awaits, r
  <2> QED BY <1>1, <2>9, <2>11 DEF BatchFits
<1> QED BY <1>9, <1>10, <1>11, <1>12 DEF Kept

-----------------------------------------------------------------------------
(* A conversation is replaced.                                             *)
InOrder == \A s \in Sessions : Placed(file[s]) /\ Apart(file[s], file[s])
Agree == Faithful(file[CurrentSession], Current.msgs)

(* What is replaced is m, all of which the file tells.                     *)
Replacing(m, job, from, lost) ==
  /\ Faithful(file[CurrentSession], m)
  /\ from \in Nat \ {0} /\ Cut(m, from) /\ lost \in 0..(from - 1)
  /\ job.object = 1 /\ job.kept = SubSeq(m, from, Len(m))
  /\ Replaced(job, SummaryMessage(SubSeq(SubSeq(m, 1, from - 1), lost + 1, from - 1)))
  /\ UNCHANGED <<given, shown, stored, handler>>
  /\ \A s \in Sessions : dropped[s] \subseteq dropped'[s]
  /\ Told(SubSeq(SubSeq(m, 1, from - 1), 1, lost)) \subseteq dropped'[CurrentSession]

(* What becomes of the last message of m, and of the calls it answers.     *)
Goes(m) ==
  /\ CurrentSession' = CurrentSession
  /\ m # <<>> => Current'.msgs[Len(Current'.msgs)] = m[Len(m)]
  /\ Answered(Current'.msgs) \subseteq Answered(m)
  /\ \A s \in Sessions : Answered(file'[s]) \subseteq Answered(file[s]) \cup Answered(m)

ReplacedFits(m) ==
  /\ Lone' /\ InOrder' /\ Agree' /\ Heard' /\ Backed' /\ Goes(m)
  /\ Flushed(file[CurrentSession], m) => Flushed(file'[CurrentSession'], Current'.msgs)

LEMMA ReplacedKeeps ==
  ASSUME TypeOK, Lone, InOrder, Heard, Backed, NEW m \in Chain(next), NEW job, NEW from, NEW lost,
         Replacing(m, job, from, lost)
  PROVE  ReplacedFits(m)
<1> DEFINE n == next
           s == CurrentSession
           f == file[s]
           early == SubSeq(m, 1, from - 1)
           told == SubSeq(early, lost + 1, from - 1)
           gone == SubSeq(early, 1, lost)
           gist == SummaryMessage(told)
           r == << gist >> \o SubSeq(m, from, Len(m))
           I == 1..(n - 1)
<1>1. /\ n \in Nat \ {0} /\ s \in Sessions /\ s \in known /\ file \in [Sessions -> Chain(n)]
      /\ Len(objects) = 1
  BY AloneIs
<1>2. /\ Faithful(f, m) /\ from \in Nat \ {0} /\ Cut(m, from) /\ lost \in 0..(from - 1)
      /\ job.object = 1 /\ job.kept = SubSeq(m, from, Len(m)) /\ Replaced(job, gist)
      /\ UNCHANGED <<given, shown, stored, handler>>
      /\ \A x \in Sessions : dropped[x] \subseteq dropped'[x]
      /\ Told(gone) \subseteq dropped'[s]
  BY DEF Replacing
<1>3. m \in Chains(Facts, I, I) /\ f \in Chains(Facts, I, I) /\ m \in Seq(Polite(I)) /\ Len(m) \in Nat /\ DOMAIN m = 1..Len(m)
  <2>1. f \in Chain(n)
    BY <1>1
  <2> QED BY <1>1, <2>1, ChainTyped DEF Chain, PoliteChains
<1>4. told \in Chain(n)
  <2>1. from - 1 \in Nat /\ from - 1 <= Len(m) /\ lost \in Nat /\ lost <= from - 1
    BY <1>2, <1>3 DEF Cut
  <2>2. early \in Seq(Polite(I)) /\ Portion(m, 1, from - 1, early)
    <3> DEFINE k == from - 1
    <3>1. k \in Nat /\ k <= Len(m) /\ 1 <= k + 1 /\ 1 \in Nat \ {0}
      BY <2>1
    <3> HIDE DEF k, I
    <3>2. SubSeq(m, 1, k) \in Seq(Polite(I)) /\ Portion(m, 1, k, SubSeq(m, 1, k))
      BY <1>3, <3>1, PortionIs
    <3> QED BY <3>2 DEF k
  <2>3. Len(early) = from - 1
    BY <2>1, <2>2 DEF Portion
  <2> HIDE DEF early
  <2>4. told \in Seq(Polite(I))
    BY <2>1, <2>2, <2>3, PortionIs
  <2> QED BY <2>4 DEF Chain, PoliteChains
<1> HIDE DEF told, early
<1>5. gist \in Polite(I) /\ Sums(gist, told)
  BY <1>1, <1>4, GistTyped
<1>6. gist \in Messages(Facts, I, I)
  BY <1>5 DEF Polite
<1> HIDE DEF I, f, gist
<1>7. Compacted(f, m, r, gone)
  BY <1>2, <1>3, <1>5, <1>6, CompactedIs DEF told, early
<1>8. r \in Chain(n)
  <2>1. from <= Len(m) + 1
    BY <1>2, <1>3 DEF Cut
  <2>2. SubSeq(m, from, Len(m)) \in Seq(Polite(I))
    BY <1>2, <1>3, <2>1, PortionIs
  <2>3. << gist >> \in Seq(Polite(I))
    BY <1>5
  <2> QED BY <2>2, <2>3, Joined DEF Chain, PoliteChains, I
<1>9. /\ objects' = [objects EXCEPT ![1].msgs = r] /\ file' = [file EXCEPT ![s] = r] /\ known' = known
  BY <1>1, <1>2 DEF Replaced
<1> HIDE DEF r, gone, s, n
<1>10. Len(objects') = 1 /\ CurrentSession' = s /\ Current'.msgs = r
  BY <1>8, <1>9, ReplacedHere DEF s, n
<1>11. file'[s] = r /\ \A x \in Sessions \ {s} : file'[x] = file[x]
  BY <1>1, <1>9
<1>12. Lone'
  BY <1>1, <1>2, <1>9, <1>10, <1>11 DEF Lone, s
<1>13. Agree' /\ InOrder'
  <2>1. Placed(r) /\ Apart(r, r) /\ Faithful(r, r)
    BY <1>7 DEF Compacted, Faithful
  <2> QED BY <1>10, <1>11, <2>1 DEF Agree, InOrder
<1>14. Heard'
  <2>1. given[s] \subseteq Told(f) \cup dropped[s] /\ Told(f) \subseteq given[s]
    BY <1>1 DEF Heard, f
  <2>2. Told(r) \subseteq given[s] /\ given[s] \subseteq Told(r) \cup dropped'[s]
    BY <1>1, <1>2, <1>7, <2>1 DEF Compacted
  <2> QED BY <1>2, <1>11, <2>2 DEF Heard
<1>15. Backed'
  <2>1. Given(r) \subseteq Given(f)
    BY <1>7 DEF Compacted
  <2>2. \A x \in Sessions : Given(file'[x]) \subseteq Given(file[x])
    BY <1>11, <2>1 DEF f
  <2> QED BY <1>2, <2>2, BackedSame
<1>16. Flushed(f, m) => Flushed(file'[s], Current'.msgs)
  BY <1>7, <1>10, <1>11 DEF Compacted, Flushed
<1>17. Goes(m)
  <2>1. Answered(r) \subseteq Answered(m) /\ (m # <<>> => r[Len(r)] = m[Len(m)])
    BY <1>7 DEF Compacted
  <2>2. \A x \in Sessions : Answered(file'[x]) \subseteq Answered(file[x]) \cup Answered(m)
    BY <1>11, <2>1
  <2> QED BY <1>10, <2>1, <2>2 DEF Goes, s
<1> QED BY <1>10, <1>12, <1>13, <1>14, <1>15, <1>16, <1>17 DEF ReplacedFits, f, s

(* The calls that are out find their message last, and still unanswered.   *)
LEMMA BatchStays ==
  ASSUME BatchFits, Chained, Goes(Current.msgs), pc' = pc, UNCHANGED <<batch, stored>>
  PROVE  BatchFits' /\ (pc = "turn" => Current'.msgs[Len(Current'.msgs)].role = "user")
<1> DEFINE c == Current.msgs
           r == Current'.msgs
<1>1. /\ CurrentSession' = CurrentSession
      /\ c # <<>> => r[Len(r)] = c[Len(c)]
      /\ Answered(r) \subseteq Answered(c)
      /\ \A s \in Sessions : Answered(file'[s]) \subseteq Answered(file[s]) \cup Answered(c)
  BY DEF Goes
<1>2. pc # "idle" => c # <<>>
  BY DEF Chained, Flushed
<1>3. Awaits /\ pc # "idle" => Awaits'
  <2> SUFFICES ASSUME Awaits, pc # "idle" PROVE Awaits'
    OBVIOUS
  <2> HIDE DEF c, r
  <2>1. /\ c[Len(c)].role = "assistant" /\ batch.calls # <<>>
        /\ \A p \in DOMAIN batch.calls :
             /\ Asks(c[Len(c)], batch.calls[p]) /\ batch.calls[p] \notin Answered(c)
             /\ \A s \in Sessions : batch.calls[p] \notin Answered(file[s])
    BY DEF Awaits, c
  <2>2. r[Len(r)].role = "assistant"
        /\ \A p \in DOMAIN batch.calls :
             /\ Asks(r[Len(r)], batch.calls[p]) /\ batch.calls[p] \notin Answered(r)
             /\ \A s \in Sessions : batch.calls[p] \notin Answered(file'[s])
    BY <1>1, <1>2, <2>1
  <2> QED BY <2>2 DEF Awaits, r
<1>4. pc = "turn" => r[Len(r)].role = "user"
  BY <1>1, <1>2 DEF Chained
<1> HIDE DEF c, r
<1> QED BY <1>1, <1>3, <1>4 DEF BatchFits, r

(* The conversation m is taken up, and a compaction of it may begin.       *)
TakenUp(m) == m \in Chain(next) /\ Faithful(file[CurrentSession], m)
ByRun(m, waiting, done) ==
  /\ pc \in {"turn", "llm"} /\ Flushed(file[CurrentSession], m)
  /\ waiting = "compacting" /\ done = "llm"
ByUser(m, waiting, done) == m = Current.msgs /\ waiting = pc /\ done = pc

LEMMA BeginKeeps ==
  ASSUME TypeOK, Kept, NEW m, TakenUp(m), NEW by \in {"run", "ui"},
         NEW waiting, NEW done, BeginCompaction(by, m, waiting, done),
         IF by = "run" THEN ByRun(m, waiting, done) ELSE ByUser(m, waiting, done),
         UNCHANGED <<results, next, switches, given, dropped>>
  PROVE  Kept'
<1>1. /\ next \in Nat \ {0} /\ m \in Chain(next) /\ Len(objects) = 1
      /\ known \in SUBSET Sessions /\ CurrentSession \in known
  BY AloneIs DEF TakenUp, Kept
<1>2. PICK k \in KeepMin..(KeepMin + Len(m)) :
        LET job == Job(by, m, KeepFrom(m, k))
        IN  IF job.src = <<>>
            THEN /\ Replaced(job, SummaryMessage(<<>>))
                 /\ pc' = done /\ UNCHANGED jobs
            ELSE /\ objects' = [objects EXCEPT ![Len(objects)].msgs = m]
                 /\ jobs' = jobs \cup {job}
                 /\ pc' = waiting /\ UNCHANGED <<file, known>>
  BY DEF BeginCompaction
<1> DEFINE from == KeepFrom(m, k)
           job == Job(by, m, from)
<1>3. /\ from \in Nat \ {0} /\ Cut(m, from)
      /\ job.by = by /\ job.object = Len(objects)
      /\ job.src = SubSeq(m, 1, from - 1) /\ job.kept = SubSeq(m, from, Len(m))
      /\ Len(job.src) = from - 1 /\ (job.src = <<>> => from = 1)
      /\ job.src # <<>> => from \in DOMAIN m /\ Separate(job)
  BY <1>1, JobIs
<1>4. pc' \in {waiting, done}
  BY <1>2
<1>5. UNCHANGED <<given, shown, stored, handler, dropped, batch>>
  BY DEF results
<1>8. Lone /\ JobsFit /\ Chained /\ BatchFits /\ Heard /\ Backed /\ InOrder
  BY DEF Kept, Chained, InOrder
<1>9. ASSUME Goes(m) PROVE BatchFits' /\ (pc' = "turn" => Current'.msgs[Len(Current'.msgs)].role = "user")
  <2>1. CASE by = "run"
    <3>1. pc' \in {"compacting", "llm"} /\ batch' = NoBatch
      BY <1>4, <1>5, <1>8, <2>1 DEF ByRun, BatchFits
    <3> QED BY <3>1 DEF BatchFits, NoBatch
  <2>2. CASE by = "ui"
    <3>1. pc' = pc /\ m = Current.msgs
      BY <1>4, <2>2 DEF ByUser
    <3> QED BY <1>5, <1>8, <1>9, <3>1, BatchStays
  <2> QED BY <2>1, <2>2
<1>10. pc' # "idle" => Flushed(file[CurrentSession], m)
  BY <1>4, <1>8 DEF ByRun, ByUser, Chained
<1>11. pc # "compacting" \/ pc' = pc
  BY <1>4 DEF ByRun, ByUser
<1> HIDE DEF from, job
<1>6. CASE job.src = <<>>
  <2>1. Replaced(job, SummaryMessage(<<>>)) /\ jobs' = jobs
    BY <1>2, <1>6 DEF job, from, TakenUp
  <2>2. from = 1 /\ SubSeq(m, 1, from - 1) = <<>>
    BY <1>3, <1>6
  <2> DEFINE z == SubSeq(m, 1, from - 1)
  <2>3. from - 1 = 0 /\ z = <<>>
    BY <2>2
  <2>4. SubSeq(z, 0 + 1, from - 1) = <<>> /\ SubSeq(z, 1, 0) = <<>>
    <3> HIDE DEF z
    <3>1. SubSeq(z, 1, 0) = <<>>
      BY <2>3
    <3> QED BY <2>3, <3>1
  <2>5. Told(<<>>) = {}
    <3>1. ToSet(<<>>) = {}
      BY DEF ToSet
    <3>2. Blocks(<<>>) = {}
      BY <3>1 DEF Blocks
    <3> QED BY <3>2 DEF Told
  <2>6. Replacing(m, job, from, 0)
    <3> DEFINE y == SubSeq(z, 0 + 1, from - 1)
               x == SubSeq(z, 1, 0)
    <3>1. Replaced(job, SummaryMessage(y)) /\ Told(x) = {}
      BY <2>1, <2>4, <2>5
    <3>2. 0 \in 0..(from - 1) /\ job.object = 1 /\ job.kept = SubSeq(m, from, Len(m))
      BY <1>1, <1>3, <2>3
    <3>3. Faithful(file[CurrentSession], m)
      BY DEF TakenUp
    <3>4. Told(x) \subseteq dropped'[CurrentSession]
      BY <3>1
    <3>5. \A s \in Sessions : dropped[s] \subseteq dropped'[s]
      BY <1>5
    <3> HIDE DEF x, y
    <3>6. y = SubSeq(SubSeq(m, 1, from - 1), 0 + 1, from - 1) /\ x = SubSeq(SubSeq(m, 1, from - 1), 1, 0)
      BY DEF x, y
    <3> QED BY <1>3, <1>5, <3>1, <3>2, <3>3, <3>4, <3>5, <3>6 DEF Replacing
  <2>7. ReplacedFits(m)
    BY <1>1, <1>8, <2>6, ReplacedKeeps
  <2>8. BatchFits' /\ (pc' = "turn" => Current'.msgs[Len(Current'.msgs)].role = "user")
    BY <1>9, <2>7 DEF ReplacedFits
  <2>9. Chained'
    BY <1>10, <2>7, <2>8 DEF ReplacedFits, Chained, InOrder, Agree
  <2>10. JobsFit'
    BY <1>8, <1>11, <2>1, JobsSame
  <2> QED BY <2>7, <2>8, <2>9, <2>10 DEF Kept, ReplacedFits
<1>7. CASE job.src # <<>>
  <2>1. /\ objects' = [objects EXCEPT ![1].msgs = m] /\ file' = file /\ known' = known
        /\ jobs' = jobs \cup {job} /\ pc' = waiting
    BY <1>1, <1>2, <1>7 DEF job, from, TakenUp
  <2>2. Len(objects') = 1 /\ CurrentSession' = CurrentSession /\ Current'.msgs = m
    BY <1>1, <1>8, <2>1, ReplacedHere
  <2>3. Lone' /\ Heard'
    BY <1>5, <1>8, <2>1, <2>2 DEF Lone, Heard
  <2>4. Backed'
    BY <1>5, <1>8, <2>1 DEF Backed
  <2>5. Goes(m)
    BY <2>1, <2>2 DEF Goes
  <2>6. BatchFits' /\ (pc' = "turn" => Current'.msgs[Len(Current'.msgs)].role = "user")
    BY <1>9, <2>5
  <2>7. Chained'
    BY <1>8, <1>10, <2>1, <2>2, <2>6 DEF Chained, InOrder, TakenUp
  <2>8. JobsFit'
    <3>1. job.object = 1 /\ job.by = by
      BY <1>1, <1>3
    <3>2. CASE by = "run"
      <4>1. pc' = "compacting" /\ \A j \in jobs : j.object = 1 /\ j.by # "run"
        BY <1>8, <2>1, <3>2 DEF ByRun, JobsFit
      <4> QED BY <2>1, <3>1, <4>1 DEF JobsFit
    <3>3. CASE by = "ui"
      <4>1. pc' = pc
        BY <2>1, <3>3 DEF ByUser
      <4> QED BY <1>8, <2>1, <3>1, <3>3, <4>1 DEF JobsFit
    <3> QED BY <3>2, <3>3
  <2> QED BY <2>3, <2>4, <2>6, <2>7, <2>8 DEF Kept
<1> QED BY <1>6, <1>7

LEMMA BeginsKeep ==
  ASSUME TypeOK, Kept, BeginTurn \/ EmergencyCompact \/ UICompact
  PROVE  Kept'
<1> DEFINE c == Current.msgs
           f == file[CurrentSession]
           n == next
           I == 1..(n - 1)
<1>1. n \in Nat \ {0} /\ c \in Chain(n) /\ CurrentSession \in Sessions /\ file \in [Sessions -> Chain(n)] /\ Len(objects) = 1
  BY AloneIs DEF Kept
<1>2. f \in Chains(Facts, I, I) /\ c \in Chains(Facts, I, I) /\ I \in SUBSET (1..n) /\ c \in PoliteChains(I)
  <2>1. f \in Chain(n)
    BY <1>1
  <2> QED BY <1>1, <2>1, ChainTyped
<1>3. Lone /\ InOrder /\ Heard /\ Backed /\ Faithful(f, c)
  BY DEF Kept, Chained, InOrder
<1>4. ASSUME BeginTurn PROVE Kept'
  <2> DEFINE r == RepairChain(c)
  <2>1. /\ pc = "turn" /\ UNCHANGED <<results, next, switches, given, dropped>>
        /\ \/ /\ objects' = [objects EXCEPT ![1].msgs = r] /\ pc' = "llm"
              /\ UNCHANGED <<file, known, jobs, compactions>>
           \/ BeginCompaction("run", r, "compacting", "llm")
    BY <1>1, <1>4 DEF BeginTurn
  <2>2. Flushed(f, c) /\ c[Len(c)].role = "user"
    BY <2>1 DEF Kept, Chained
  <2>3. Faithful(f, r) /\ Flushed(f, r)
    BY <1>1, <1>2, <1>3, <2>2, TurnFaithful
  <2>4. r \in Chain(n)
    BY <1>1, <1>2, PoliteRepair DEF Chain
  <2> HIDE DEF r, f, c
  <2>5. batch = NoBatch
    BY <2>1 DEF Kept, BatchFits
  <2>6. CASE BeginCompaction("run", r, "compacting", "llm")
    <3>1. TakenUp(r) /\ ByRun(r, "compacting", "llm")
      BY <2>1, <2>3, <2>4 DEF TakenUp, ByRun, f
    <3> HIDE DEF n
    <3> QED BY <2>1, <2>6, <3>1, BeginKeeps
  <2>7. CASE /\ objects' = [objects EXCEPT ![1].msgs = r] /\ pc' = "llm"
             /\ UNCHANGED <<file, known, jobs, compactions>>
    <3>1. Len(objects') = 1 /\ CurrentSession' = CurrentSession /\ Current'.msgs = r
      BY <1>3, <2>4, <2>7, ReplacedHere
    <3>2. UNCHANGED <<given, dropped, handler, batch, shown, stored>>
      BY <2>1 DEF results
    <3>3. Lone' /\ Heard' /\ Backed'
      BY <1>3, <2>7, <3>1, <3>2 DEF Lone, Heard, Backed
    <3>4. Chained'
      BY <1>3, <2>3, <2>7, <3>1 DEF Chained, InOrder, f
    <3>5. JobsFit'
      BY <2>1, <2>7, JobsSame DEF Kept
    <3>6. BatchFits'
      BY <2>5, <2>7, <3>2 DEF BatchFits, NoBatch
    <3> QED BY <3>3, <3>4, <3>5, <3>6 DEF Kept
  <2> QED BY <2>1, <2>6, <2>7
<1>5. ASSUME EmergencyCompact PROVE Kept'
  <2>1. /\ pc = "llm" /\ BeginCompaction("run", c, "compacting", "llm")
        /\ UNCHANGED <<results, next, switches, given, dropped>>
    BY <1>5 DEF EmergencyCompact
  <2>2. Flushed(f, c)
    BY <2>1 DEF Kept, Chained
  <2>3. TakenUp(c) /\ ByRun(c, "compacting", "llm")
    BY <1>1, <1>3, <2>1, <2>2 DEF TakenUp, ByRun
  <2> HIDE DEF n, c
  <2> QED BY <2>1, <2>3, BeginKeeps
<1>6. ASSUME UICompact PROVE Kept'
  <2>1. BeginCompaction("ui", c, pc, pc) /\ UNCHANGED <<results, next, switches, given, dropped>>
    BY <1>6 DEF UICompact
  <2>2. TakenUp(c) /\ ByUser(c, pc, pc)
    BY <1>1, <1>3 DEF TakenUp, ByUser
  <2> HIDE DEF n, c
  <2> QED BY <2>1, <2>2, BeginKeeps
<1> QED BY <1>4, <1>5, <1>6

(* A compaction that finds the conversation as it read it.                 *)
LEMMA FreshCut ==
  ASSUME TypeOK, Lone, NEW job \in jobs, Fresh(job)
  PROVE  CutAt(job, Current.msgs, Len(job.src) + 1)
<1> DEFINE T == Polite(1..(next - 1))
           a == job.src
           b == job.kept
           c == Current.msgs
           from == Len(a) + 1
<1>1. a \in Seq(T) /\ b \in Seq(T) /\ a # <<>> /\ b # <<>> /\ ~HasResult(b[1])
  <2>1. job \in Jobs(next) /\ Separate(job)
    BY DEF TypeOK, JobsOK
  <2> QED BY <2>1 DEF Jobs, Separate, Chain, PoliteChains
<1>2. c = a \o b
  BY DEF Fresh
<1> HIDE DEF T, a, b, c
<1>3. /\ Len(a) \in Nat /\ Len(b) \in Nat /\ Len(b) # 0
      /\ c \in Seq(T) /\ Len(c) = Len(a) + Len(b) /\ DOMAIN c = 1..Len(c)
      /\ DOMAIN a = 1..Len(a) /\ DOMAIN b = 1..Len(b)
      /\ \A i \in 1..Len(a) : c[i] = a[i]
      /\ \A i \in 1..Len(b) : c[Len(a) + i] = b[i]
  BY <1>1, <1>2
<1>4. from \in Nat \ {0} /\ from \in DOMAIN c /\ c[from] = b[1] /\ from - 1 = Len(a)
  BY <1>3
<1>5. a = SubSeq(c, 1, from - 1)
  <2> DEFINE x == SubSeq(c, 1, Len(a))
  <2>1. x \in Seq(T) /\ Portion(c, 1, Len(a), x)
    BY <1>3, PortionIs
  <2> HIDE DEF x
  <2>2. Len(x) = Len(a) /\ \A i \in 1..Len(a) : x[i] = a[i]
    BY <1>3, <2>1 DEF Portion
  <2>3. x = a
    BY <1>1, <2>1, <2>2
  <2> QED BY <1>4, <2>3 DEF x
<1>6. b = SubSeq(c, from, Len(c))
  <2> DEFINE x == SubSeq(c, from, Len(c))
  <2>1. x \in Seq(T) /\ Portion(c, from, Len(c), x)
    BY <1>3, <1>4, PortionIs
  <2> HIDE DEF x
  <2>2. Len(x) = Len(b) /\ \A i \in 1..Len(b) : x[i] = b[i]
    BY <1>3, <2>1 DEF Portion
  <2>3. x = b
    BY <1>1, <2>1, <2>2
  <2> QED BY <2>3 DEF x
<1>7. Cut(c, from)
  BY <1>1, <1>4 DEF Cut
<1> QED BY <1>4, <1>5, <1>6, <1>7 DEF CutAt, a, b, c

LEMMA FinishKeeps ==
  ASSUME TypeOK, Kept, NEW job \in jobs, NEW lost \in 0..Len(job.src), FinishCompaction(job, lost), Fresh(job)
  PROVE  Kept'
<1> DEFINE c == Current.msgs
           s == CurrentSession
           n == next
           from == Len(job.src) + 1
<1>1. /\ n \in Nat \ {0} /\ c \in Chain(n) /\ s \in Sessions /\ s = objects[1].sid
      /\ dropped \in [Sessions -> Facts]
  BY AloneIs DEF Kept
<1>2. CutAt(job, c, from)
  BY FreshCut DEF Kept
<1> HIDE DEF from
<1>3. /\ from \in Nat \ {0} /\ Cut(c, from) /\ job.object = 1
      /\ job.src = SubSeq(c, 1, from - 1) /\ job.kept = SubSeq(c, from, Len(c))
      /\ Len(job.src) = from - 1 /\ (job.by = "run" => pc = "compacting")
  BY <1>2 DEF CutAt, Kept, JobsFit
<1> DEFINE told == SubSeq(SubSeq(c, 1, from - 1), lost + 1, from - 1)
           gone == SubSeq(SubSeq(c, 1, from - 1), 1, lost)
<1>5. /\ Replaced(job, SummaryMessage(told))
      /\ dropped' = [dropped EXCEPT ![s] = @ \cup Told(gone)]
      /\ jobs' = jobs \ {job} /\ pc' = (IF job.by = "run" THEN "llm" ELSE pc)
      /\ UNCHANGED <<batch, handler, stored, shown, given>>
  BY <1>1, <1>3 DEF FinishCompaction, results
<1>6. Lone /\ InOrder /\ Heard /\ Backed /\ Faithful(file[s], c)
  BY DEF Kept, Chained, InOrder
<1>7. /\ \A x \in Sessions : dropped[x] \subseteq dropped'[x]
      /\ Told(gone) \subseteq dropped'[s]
  BY <1>1, <1>5
<1>8. Replacing(c, job, from, lost)
  BY <1>3, <1>5, <1>6, <1>7 DEF Replacing
<1>9. ReplacedFits(c)
  BY <1>1, <1>6, <1>8, ReplacedKeeps
<1> HIDE DEF told, gone
<1>10. JobsFit'
  BY <1>5 DEF JobsFit, Kept
<1>11. BatchFits' /\ (pc' = "turn" => Current'.msgs[Len(Current'.msgs)].role = "user")
  <2>1. CASE job.by = "run"
    <3>1. pc' = "llm" /\ batch' = NoBatch
      BY <1>3, <1>5, <2>1 DEF Kept, BatchFits
    <3> QED BY <3>1 DEF BatchFits, NoBatch
  <2>2. CASE job.by # "run"
    <3>1. pc' = pc /\ Goes(Current.msgs) /\ UNCHANGED <<batch, stored>>
      BY <1>5, <1>9, <2>2 DEF ReplacedFits
    <3> HIDE DEF c
    <3> QED BY <3>1, BatchStays DEF Kept
  <2> QED BY <2>1, <2>2
<1>12. Chained'
  <2>1. InOrder' /\ Agree' /\ (Flushed(file[s], c) => Flushed(file'[CurrentSession'], Current'.msgs))
    BY <1>9 DEF ReplacedFits
  <2>2. pc # "idle" => Flushed(file[s], c)
    BY DEF Kept, Chained
  <2>3. pc' # "idle" => pc # "idle"
    BY <1>3, <1>5
  <2> QED BY <1>11, <2>1, <2>2, <2>3 DEF Chained, InOrder, Agree
<1> QED BY <1>9, <1>10, <1>11, <1>12 DEF Kept, ReplacedFits

LEMMA StopsKeep ==
  ASSUME Kept, Cancel \/ (\E job \in jobs : FailCompaction(job)) \/ UNCHANGED vars
  PROVE  Kept'
<1>1. CASE Cancel
  <2>1. /\ pc' = "idle" /\ batch' = NoBatch /\ jobs' = {j \in jobs : j.by # "run"}
        /\ UNCHANGED <<objects, file, known, handler, stored, shown, given, dropped>>
    BY <1>1 DEF Cancel
  <2>2. Current' = Current /\ CurrentSession' = CurrentSession
    BY <2>1 DEF Current, CurrentSession
  <2>3. Lone' /\ JobsFit' /\ Heard' /\ Backed'
    BY <2>1, <2>2 DEF Kept, Lone, JobsFit, Heard, Backed
  <2>4. Chained' /\ BatchFits'
    BY <2>1, <2>2 DEF Kept, Chained, BatchFits, NoBatch
  <2> QED BY <2>3, <2>4 DEF Kept
<1>2. CASE \E job \in jobs : FailCompaction(job)
  <2>1. PICK job \in jobs : FailCompaction(job)
    BY <1>2
  <2>2. /\ jobs' = jobs \ {job}
        /\ pc' = pc \/ (job.by = "run" /\ pc = "compacting" /\ pc' \in {"llm", "idle"})
        /\ UNCHANGED <<objects, file, known, batch, handler, stored, shown, given, dropped>>
    BY <2>1 DEF FailCompaction, Kept, JobsFit, results
  <2>3. Current' = Current /\ CurrentSession' = CurrentSession
    BY <2>2 DEF Current, CurrentSession
  <2>4. Lone' /\ JobsFit' /\ Heard' /\ Backed'
    BY <2>2, <2>3 DEF Kept, Lone, JobsFit, Heard, Backed
  <2>5. Chained' /\ BatchFits'
    BY <2>2, <2>3 DEF Kept, Chained, BatchFits, Awaits, NoBatch
  <2> QED BY <2>4, <2>5 DEF Kept
<1>3. CASE UNCHANGED vars
  <2>1. UNCHANGED <<objects, file, known, pc, batch, handler, stored, shown, jobs, next, given, dropped>>
    BY <1>3 DEF vars, results
  <2>2. Current' = Current /\ CurrentSession' = CurrentSession
    BY <2>1 DEF Current, CurrentSession
  <2>3. Lone' /\ JobsFit' /\ Heard' /\ Backed'
    BY <2>1, <2>2 DEF Kept, Lone, JobsFit, Heard, Backed
  <2>4. Chained' /\ BatchFits'
    BY <2>1, <2>2 DEF Kept, Chained, BatchFits, Awaits
  <2> QED BY <2>3, <2>4 DEF Kept
<1> QED BY <1>1, <1>2, <1>3

-----------------------------------------------------------------------------
(* Another session.                                                        *)
LEMMA EmptyIs == Faithful(<<>>, <<>>) /\ Told(<<>>) = {} /\ Given(<<>>) = {} /\ Holders(<<>>) = {}
<1>1. ToSet(<<>>) = {}
  BY DEF ToSet
<1>2. Blocks(<<>>) = {}
  BY <1>1 DEF Blocks
<1>3. Placed(<<>>) /\ Twin(<<>>, <<>>)
  BY DEF Placed, Twin
<1> QED BY <1>2, <1>3 DEF Faithful, Apart, Told, Given, Holders

LEMMA OpensAlone ==
  ASSUME jobs = {}, NEW s, NEW m, Open(Conv(s, m))
  PROVE  Len(objects') = 1 /\ CurrentSession' = s /\ Current'.msgs = m /\ handler' = NoSession
<1>1. objects' = << Conv(s, m) >> /\ handler' = NoSession
  BY DEF Open
<1>2. Len(objects') = 1 /\ Current' = Conv(s, m)
  BY <1>1 DEF Current
<1> QED BY <1>1, <1>2 DEF CurrentSession, Conv

LEMMA OpensKeep ==
  ASSUME TypeOK, Kept, ~crossed', NEW s \in Sessions, NewSession(s) \/ ResumeSession(s) \/ DeleteSession(s)
  PROVE  Kept'
<1>0. /\ next \in Nat \ {0} /\ CurrentSession \in Sessions /\ CurrentSession \in known
      /\ file \in [Sessions -> Chain(next)] /\ known \in SUBSET Sessions /\ given \in [Sessions -> Facts]
      /\ stored \in [Sessions -> SUBSET Texts]
  BY AloneIs DEF Kept, TypeOK, ResultsOK
<1>1. UNCHANGED <<pc, jobs, batch, shown, dropped>>
  BY DEF NewSession, ResumeSession, DeleteSession
<1>2. JobsFit'
  BY <1>1 DEF JobsFit, Kept
<1>8. ASSUME NEW x, Open(x) PROVE pc = "idle" /\ jobs = {} /\ BatchFits'
  <2>1. pc = "idle" /\ jobs = {}
    BY <1>8 DEF Open
  <2> QED BY <1>1, <2>1 DEF Kept, BatchFits, NoBatch
<1>3. \A x \in Sessions \ known : file[x] = <<>>
  BY DEF Kept, Lone
<1>4. InOrder /\ Heard /\ Backed
  BY DEF Kept, Chained, InOrder
<1>5. ASSUME NewSession(s) PROVE Lone' /\ Chained' /\ BatchFits' /\ Heard' /\ Backed'
  <2>1. s \notin known /\ Open(Conv(s, <<>>)) /\ known' = known \cup {s} /\ UNCHANGED <<file, stored, given>>
    BY <1>5 DEF NewSession
  <2>2. Len(objects') = 1 /\ CurrentSession' = s /\ Current'.msgs = <<>> /\ handler' = NoSession
    BY <1>8, <2>1, OpensAlone
  <2>3. Lone'
    BY <1>3, <2>1, <2>2 DEF Lone
  <2>4. Chained' /\ BatchFits'
    BY <1>1, <1>3, <1>4, <1>8, <2>1, <2>2, EmptyIs DEF Chained, InOrder
  <2> QED BY <1>1, <1>4, <2>1, <2>3, <2>4 DEF Heard, Backed
<1>6. ASSUME ResumeSession(s) PROVE Lone' /\ Chained' /\ BatchFits' /\ Heard' /\ Backed'
  <2> DEFINE r == RepairChain(file[s])
  <2>1. s \in known /\ Open(Conv(s, r)) /\ known' = known /\ UNCHANGED <<file, stored, given>>
    BY <1>6 DEF ResumeSession
  <2>2. Faithful(file[s], r)
    <3> DEFINE n == next
               I == 1..(n - 1)
               f == file[s]
    <3>1. f \in Chain(n) /\ n \in Nat
      BY <1>0
    <3>2. f \in Chains(Facts, I, I) /\ I \in SUBSET (1..n)
      BY <3>1, ChainTyped
    <3>3. Placed(f) /\ Apart(f, f)
      BY <1>4 DEF InOrder
    <3> HIDE DEF n, I, f
    <3>4. Faithful(f, RepairChain(f))
      BY <3>1, <3>2, <3>3, RepairedFaithful
    <3> QED BY <3>4 DEF f
  <2> HIDE DEF r
  <2>3. Len(objects') = 1 /\ CurrentSession' = s /\ Current'.msgs = r /\ handler' = NoSession
    BY <1>8, <2>1, OpensAlone
  <2>4. Lone'
    BY <1>3, <2>1, <2>3 DEF Lone
  <2>5. Chained' /\ BatchFits'
    BY <1>1, <1>4, <1>8, <2>1, <2>2, <2>3 DEF Chained, InOrder
  <2> QED BY <1>1, <1>4, <2>1, <2>4, <2>5 DEF Heard, Backed
<1>7. ASSUME DeleteSession(s) PROVE Lone' /\ Chained' /\ BatchFits' /\ Heard' /\ Backed'
  <2>1. /\ file' = [file EXCEPT ![s] = <<>>] /\ stored' = [stored EXCEPT ![s] = {}]
        /\ given' = [given EXCEPT ![s] = {}]
        /\ IF s # CurrentSession THEN known' = known \ {s} /\ UNCHANGED <<objects, handler>>
           ELSE \E fresh \in Sessions \ known :
                  /\ Open(Conv(fresh, <<>>)) /\ known' = (known \ {s}) \cup {fresh}
    BY <1>7 DEF DeleteSession
  <2>2. /\ file'[s] = <<>> /\ given'[s] = {}
        /\ \A x \in Sessions \ {s} : file'[x] = file[x] /\ stored'[x] = stored[x] /\ given'[x] = given[x]
    BY <1>0, <2>1
  <2>3. Heard' /\ Backed'
    BY <1>1, <1>4, <2>2, EmptyIs DEF Heard, Backed
  <2>4. InOrder'
    BY <1>4, <2>2, EmptyIs DEF InOrder, Faithful
  <2>5. CASE s # CurrentSession
    <3>1. known' = known \ {s} /\ UNCHANGED <<objects, handler>>
      BY <2>1, <2>5
    <3>2. Current' = Current /\ CurrentSession' = CurrentSession
      BY <3>1 DEF Current, CurrentSession
    <3>3. Lone'
      BY <1>0, <1>3, <2>2, <2>5, <3>1, <3>2 DEF Kept, Lone
    <3>4. file'[CurrentSession] = file[CurrentSession] /\ Faithful(file[CurrentSession], Current.msgs)
      BY <1>0, <2>2, <2>5 DEF Kept, Chained
    <3>5. Chained'
      BY <1>1, <2>4, <3>2, <3>4 DEF Chained, InOrder, Kept
    <3>6. BatchFits'
      <4>1. \A x \in Sessions : file'[x] = file[x] \/ Answered(file'[x]) = {}
        BY <2>2, EmptyIs DEF Answered
      <4>2. Awaits => Awaits'
        BY <1>1, <3>2, <4>1 DEF Awaits
      <4>3. stored'[CurrentSession] = stored[CurrentSession]
        BY <1>0, <2>2, <2>5
      <4> QED BY <1>1, <3>2, <4>2, <4>3 DEF BatchFits, Kept
    <3> QED BY <2>3, <3>3, <3>5, <3>6
  <2>6. CASE s = CurrentSession
    <3>1. PICK fresh \in Sessions \ known : Open(Conv(fresh, <<>>)) /\ known' = (known \ {s}) \cup {fresh}
      BY <2>1, <2>6
    <3>2. Len(objects') = 1 /\ CurrentSession' = fresh /\ Current'.msgs = <<>> /\ handler' = NoSession
      BY <1>8, <3>1, OpensAlone
    <3>3. file'[fresh] = <<>>
      BY <1>3, <2>2, <3>1
    <3>4. Lone'
      BY <1>3, <2>2, <3>1, <3>2 DEF Lone
    <3>5. Chained' /\ BatchFits'
      BY <1>1, <1>8, <2>4, <3>1, <3>2, <3>3, EmptyIs DEF Chained, InOrder
    <3> QED BY <2>3, <3>4, <3>5
  <2> QED BY <2>5, <2>6
<1> QED BY <1>2, <1>5, <1>6, <1>7 DEF Kept

-----------------------------------------------------------------------------
(* The calls of the run.                                                   *)
LEMMA StoredIs ==
  ASSUME stored \in [Sessions -> SUBSET Texts], batch.dir = CurrentSession, CurrentSession \in Sessions,
         NEW rs, Store(rs)
  PROVE  /\ \A s \in Sessions \ {CurrentSession} : stored'[s] = stored[s]
         /\ \A r \in rs : r \in stored'[CurrentSession]
         /\ \A id, of : Readable(id, of, stored[CurrentSession]) /\ (\A r \in rs : r.id # id)
              => Readable(id, of, stored'[CurrentSession])
<1> DEFINE s == CurrentSession
           new == {x \in stored[s] : \A r \in rs : x.id # r.id} \cup rs
<1>1. stored' = [stored EXCEPT ![s] = new]
  BY DEF Store
<1> HIDE DEF s
<1>2. stored'[s] = new /\ \A x \in Sessions \ {s} : stored'[x] = stored[x]
  BY <1>1 DEF s
<1>3. \A id, of : Readable(id, of, stored[s]) /\ (\A r \in rs : r.id # id) => Readable(id, of, new)
  BY DEF Readable
<1> QED BY <1>2, <1>3 DEF s

(* A step of the run that touches neither conversation nor file.           *)
LEMMA TalkSame ==
  ASSUME Kept, Untouched, pc \in {"tools", "results", "digest"}, pc' \in {"results", "digest", "idle"},
         handler' \in {NoSession, CurrentSession}
  PROVE  Lone' /\ Chained' /\ JobsFit' /\ Heard' /\ CurrentSession' = CurrentSession /\ Current' = Current
         /\ file' = file
<1>1. UNCHANGED <<objects, file, known, jobs, given, dropped>>
  BY DEF Untouched
<1>2. Current' = Current /\ CurrentSession' = CurrentSession
  BY <1>1 DEF Current, CurrentSession
<1>3. JobsFit'
  BY <1>1, JobsSame DEF Kept
<1>4. Lone' /\ JobsFit' /\ Heard'
  BY <1>1, <1>2, <1>3 DEF Kept, Lone, Heard
<1>5. Chained'
  BY <1>1, <1>2 DEF Kept, Chained
<1> QED BY <1>1, <1>2, <1>4, <1>5

LEMMA HandleKeeps ==
  ASSUME TypeOK, Kept, HandleResult
  PROVE  Kept'
<1> DEFINE id == batch.calls[Len(batch.done) + 1]
           s == CurrentSession
           d == batch.done
           k == Len(d) + 1
<1>0. /\ next \in Nat /\ s \in Sessions /\ batch \in BatchRecords /\ stored \in [Sessions -> SUBSET Texts]
      /\ d \in Batches /\ DOMAIN d = 1..Len(d) /\ Len(d) \in Nat
      /\ batch.calls \in Seq(Nat) /\ DOMAIN batch.calls = 1..Len(batch.calls) /\ Len(batch.calls) \in Nat
  <2>1. batch \in BatchRecords /\ stored \in [Sessions -> SUBSET Texts]
    BY DEF TypeOK, ResultsOK, BatchRecords, Batches
  <2>2. d \in Batches /\ batch.calls \in Seq(Nat)
    BY <2>1 DEF BatchRecords
  <2> HIDE DEF d
  <2>3. DOMAIN d = 1..Len(d) /\ Len(d) \in Nat
    BY <2>2, BatchIs
  <2> DEFINE c == batch.calls
  <2>4. c \in Seq(Nat)
    BY <2>2
  <2> HIDE DEF c
  <2>5. DOMAIN c = 1..Len(c) /\ Len(c) \in Nat
    BY <2>4
  <2> QED BY <2>1, <2>2, <2>3, <2>5, AloneIs DEF Kept, c
<1>1. PICK r \in ResultsOf(id), p \in Contexts :
        LET form == HandleSingle(r, Exempt(r), p)
        IN  /\ Add(r, form)
            /\ IF form = "whole" THEN UNCHANGED stored ELSE Store({r})
            /\ IF form = "summary" THEN AskForSummary ELSE UNCHANGED pc
  BY DEF HandleResult
<1>2. pc = "results" /\ Len(d) < Len(batch.calls) /\ Untouched /\ UNCHANGED <<handler, shown>>
  BY DEF HandleResult, Untouched
<1>3. /\ Awaits /\ batch.dir = s
      /\ \A q \in DOMAIN d : d[q].form # "whole" => Readable(d[q].result.id, d[q].result.of, stored[s])
  BY <1>2 DEF Kept, BatchFits
<1>4. k \in DOMAIN batch.calls /\ k \in Nat /\ k <= Len(batch.calls) /\ \A q \in DOMAIN d : q # k /\ q \in DOMAIN batch.calls
  BY <1>0, <1>2
<1>5. id \in Nat
  BY <1>0, <1>4
<1> DEFINE form == HandleSingle(r, Exempt(r), p)
<1>6. r \in Texts /\ r.id = id
  BY <1>0, <1>5, ResultsOfAre
<1>7. form \in Forms
  BY HandledIn DEF Exempt, PersistDirTold
<1>8. batch' = [batch EXCEPT !.done = Append(@, Processed(r, form))]
      /\ (form = "whole" => stored' = stored) /\ (form # "whole" => Store({r}))
      /\ (pc' = "digest" \/ pc' = pc)
  BY <1>1 DEF Add, AskForSummary
<1> HIDE DEF form
<1>9. LongerDone(batch, r, form, batch')
  BY <1>0, <1>6, <1>7, <1>8, BatchLonger
<1>10. /\ batch'.calls = batch.calls /\ batch'.dir = s
       /\ Len(batch'.done) = k /\ DOMAIN batch'.done = 1..k
       /\ batch'.done[k].result = r /\ batch'.done[k].form = form
       /\ \A q \in DOMAIN d : batch'.done[q] = d[q]
  BY <1>3, <1>9 DEF LongerDone
<1>11. Lone' /\ Chained' /\ JobsFit' /\ Heard' /\ CurrentSession' = s /\ Current' = Current /\ file' = file
  <2>1. handler' \in {NoSession, CurrentSession} /\ pc' \in {"results", "digest", "idle"}
    BY <1>2, <1>8 DEF Kept, Lone
  <2> QED BY <1>2, <2>1, TalkSame
<1>12. /\ form # "whole" => r \in stored'[s]
       /\ \A i, of : Readable(i, of, stored[s]) /\ i # id => Readable(i, of, stored'[s])
       /\ \A x \in Sessions \ {s} : stored'[x] = stored[x]
  <2>1. CASE form = "whole"
    BY <1>8, <2>1
  <2>2. CASE form # "whole"
    <3>1. Store({r})
      BY <1>8, <2>2
    <3>2. /\ \A x \in Sessions \ {s} : stored'[x] = stored[x]
          /\ \A x \in {r} : x \in stored'[s]
          /\ \A i, of : Readable(i, of, stored[s]) /\ (\A x \in {r} : x.id # i) => Readable(i, of, stored'[s])
      BY <1>0, <1>3, <3>1, StoredIs
    <3> QED BY <1>6, <3>2
  <2> QED BY <2>1, <2>2
<1> HIDE DEF id
<1>13. \A q \in DOMAIN batch'.done : q = k \/ q \in DOMAIN d
  BY <1>0, <1>4, <1>10
<1>14. id = batch.calls[k] /\ \A q \in DOMAIN d : d[q].result.id = batch.calls[q] /\ d[q].result.id # id
  BY <1>3, <1>4 DEF Awaits, id
<1>15. Awaits'
  BY <1>3, <1>4, <1>6, <1>10, <1>11, <1>13, <1>14 DEF Awaits
<1>16. \A q \in DOMAIN batch'.done : batch'.done[q].form # "whole" =>
         Readable(batch'.done[q].result.id, batch'.done[q].result.of, stored'[s])
  <2> DEFINE e == batch'.done
             there == stored'[s]
  <2> SUFFICES ASSUME NEW q \in DOMAIN e, e[q].form # "whole"
               PROVE  Readable(e[q].result.id, e[q].result.of, there)
    OBVIOUS
  <2> HIDE DEF e, there, d, k
  <2>1. CASE q = k
    <3>1. e[q].result = r /\ form # "whole"
      BY <1>10, <2>1 DEF e
    <3>2. r \in there
      BY <1>12, <3>1 DEF there
    <3> QED BY <3>1, <3>2 DEF Readable
  <2>2. CASE q \in DOMAIN d
    <3>1. e[q] = d[q]
      BY <1>10, <2>2 DEF e
    <3>2. Readable(d[q].result.id, d[q].result.of, stored[s]) /\ d[q].result.id # id
      BY <1>3, <1>14, <2>2, <3>1
    <3> QED BY <1>12, <3>1, <3>2 DEF there
  <2> QED BY <1>13, <2>1, <2>2 DEF e
<1>17. BatchFits'
  BY <1>2, <1>8, <1>10, <1>11, <1>15, <1>16 DEF BatchFits
<1>18. Backed'
  <2>1. \A x \in Sessions : id \notin Given(file[x])
    BY <1>3, <1>4, <1>14 DEF Awaits, Answered
  <2> QED BY <1>2, <1>11, <1>12, <2>1 DEF Kept, Backed
<1> QED BY <1>11, <1>17, <1>18 DEF Kept

LEMMA FormSet ==
  ASSUME NEW d \in Batches
  PROVE  LET e == [d EXCEPT ![Len(d)].form = "whole"]
         IN  /\ DOMAIN e = DOMAIN d /\ Len(e) = Len(d)
             /\ \A q \in DOMAIN d : e[q].result = d[q].result /\ (e[q].form # "whole" => e[q].form = d[q].form)
<1> DEFINE k == Len(d)
           x(i) == IF i = k THEN [d[i] EXCEPT !.form = "whole"] ELSE d[i]
           e == [d EXCEPT ![k].form = "whole"]
<1>1. k \in Nat /\ d \in [1..k -> [result : Texts, form : Forms]]
  <2> DEFINE T == [result : Texts, form : Forms]
  <2>1. d \in Seq(T)
    BY DEF Batches
  <2> HIDE DEF T
  <2>2. k \in Nat /\ d \in [1..k -> T]
    BY <2>1
  <2> QED BY <2>2 DEF T
<1> HIDE DEF k
<1>2. e = [i \in 1..k |-> x(i)]
  BY <1>1
<1>3. \A i \in 1..k : x(i).result = d[i].result /\ (x(i).form # "whole" => x(i).form = d[i].form)
  BY <1>1
<1> HIDE DEF x, e
<1>4. DOMAIN e = 1..k /\ \A i \in 1..k : e[i] = x(i)
  BY <1>2
<1>5. Len(e) = k
  BY <1>1, <1>4
<1>6. DOMAIN d = 1..k
  BY <1>1
<1> QED BY <1>3, <1>4, <1>5, <1>6 DEF e, k

LEMMA ResultsKeep ==
  ASSUME TypeOK, Kept, CallsReturn \/ SummaryArrives \/ SummaryFails \/ StoreFails
  PROVE  Kept'
<1> DEFINE s == CurrentSession
<1>0. /\ batch \in BatchRecords /\ batch.done \in Batches /\ handler \in {NoSession, s}
  BY DEF TypeOK, ResultsOK, BatchRecords, Batches, Kept, Lone
<1>1. CASE CallsReturn
  <2>1. /\ Untouched /\ pc = "tools" /\ pc' = "results" /\ UNCHANGED <<stored, shown>>
        /\ handler' = s /\ batch' = [batch EXCEPT !.dir = handler']
    BY <1>0, <1>1 DEF CallsReturn, Untouched
  <2>2. Lone' /\ Chained' /\ JobsFit' /\ Heard' /\ CurrentSession' = s /\ Current' = Current /\ file' = file
    BY <2>1, TalkSame
  <2>3. batch'.calls = batch.calls /\ batch'.done = batch.done /\ batch'.dir = s
    BY <1>0, <2>1 DEF BatchRecords
  <2>4. Awaits'
    BY <2>1, <2>2, <2>3 DEF Kept, BatchFits, Awaits
  <2>5. BatchFits'
    BY <2>1, <2>2, <2>3, <2>4 DEF Kept, BatchFits
  <2>6. Backed'
    BY <2>1, <2>2 DEF Kept, Backed
  <2> QED BY <2>2, <2>5, <2>6 DEF Kept
<1>2. CASE SummaryArrives
  <2>1. Untouched /\ pc = "digest" /\ pc' = "results" /\ UNCHANGED <<batch, handler, stored, shown>>
    BY <1>2 DEF SummaryArrives, Untouched, results
  <2>2. Lone' /\ Chained' /\ JobsFit' /\ Heard' /\ CurrentSession' = s /\ Current' = Current /\ file' = file
    BY <1>0, <2>1, TalkSame
  <2>3. Awaits'
    BY <2>1, <2>2 DEF Kept, BatchFits, Awaits
  <2>4. BatchFits' /\ Backed'
    BY <2>1, <2>2, <2>3 DEF Kept, BatchFits, Backed
  <2> QED BY <2>2, <2>4 DEF Kept
<1>3. CASE SummaryFails
  <2> DEFINE d == batch.done
             e == [d EXCEPT ![Len(d)].form = "whole"]
  <2>1. Untouched /\ pc = "digest" /\ pc' = "results" /\ UNCHANGED <<handler, stored, shown>>
        /\ batch' = [batch EXCEPT !.done[Len(batch.done)].form = "whole"]
    BY <1>3 DEF SummaryFails, Untouched
  <2>2. Lone' /\ Chained' /\ JobsFit' /\ Heard' /\ CurrentSession' = s /\ Current' = Current /\ file' = file
    BY <1>0, <2>1, TalkSame
  <2>3. batch'.calls = batch.calls /\ batch'.done = e /\ batch'.dir = batch.dir
    BY <1>0, <2>1 DEF BatchRecords
  <2>4. /\ DOMAIN e = DOMAIN d /\ Len(e) = Len(d)
        /\ \A q \in DOMAIN d : e[q].result = d[q].result /\ (e[q].form # "whole" => e[q].form = d[q].form)
    BY <1>0, FormSet
  <2> HIDE DEF e
  <2>5. Awaits'
    BY <2>1, <2>2, <2>3, <2>4 DEF Kept, BatchFits, Awaits
  <2>6. BatchFits' /\ Backed'
    BY <2>1, <2>2, <2>3, <2>4, <2>5 DEF Kept, BatchFits, Backed
  <2> QED BY <2>2, <2>6 DEF Kept
<1>4. CASE StoreFails
  <2>1. Untouched /\ pc = "results" /\ pc' = "idle" /\ batch' = NoBatch /\ UNCHANGED <<handler, stored, shown>>
    BY <1>4 DEF StoreFails, Untouched
  <2>2. Lone' /\ Chained' /\ JobsFit' /\ Heard' /\ CurrentSession' = s /\ Current' = Current /\ file' = file
    BY <1>0, <2>1, TalkSame
  <2>3. BatchFits' /\ Backed'
    BY <2>1, <2>2 DEF Kept, BatchFits, Backed, NoBatch
  <2> QED BY <2>2, <2>3 DEF Kept
<1> QED BY <1>1, <1>2, <1>3, <1>4

(* The results of the calls of the last message.                           *)
Answering(msg, n, ps) ==
  /\ Neat(msg) /\ msg.role = "user" /\ Real(msg) = ToSet(msg.content) /\ Real(msg) # {}
  /\ \A b : b \in Real(msg) <=> \E i \in 1..n : b = ToolResultBlock(ps[i].result.id)
AsksAll(f, c, n, ps) ==
  \A i \in 1..n : /\ Asks(c[Len(c)], ps[i].result.id)
                  /\ ps[i].result.id \notin Answered(c) \cup Answered(f)

LEMMA ResultsSayable ==
  ASSUME NEW f, NEW c, Flushed(f, c), c[Len(c)].role = "assistant",
         NEW n, NEW ps, AsksAll(f, c, n, ps), NEW msg, Answering(msg, n, ps)
  PROVE  /\ Sayable(f, c, msg)
         /\ \A id : id \in Given(<< msg >>) <=> \E i \in 1..n : id = ps[i].result.id
<1>0. /\ Neat(msg) /\ msg.role = "user" /\ Real(msg) = ToSet(msg.content) /\ Real(msg) # {}
      /\ \A b : b \in Real(msg) <=> \E i \in 1..n : b = ToolResultBlock(ps[i].result.id)
  BY DEF Answering
<1>1. \A id : ToolResultBlock(id).kind = "result" /\ ToolResultBlock(id).id = id
  BY DEF ToolResultBlock
<1>2. \A b \in Real(msg) : b.kind = "result" /\ \E i \in 1..n : b.id = ps[i].result.id
  BY <1>0, <1>1
<1>3. Blocks(<< msg >>) = Real(msg)
  BY <1>0 DEF Blocks, ToSet
<1>4. \A id : id \in Given(<< msg >>) <=> \E i \in 1..n : id = ps[i].result.id
  <2>1. \A id : id \in Given(<< msg >>) <=> \E b \in Real(msg) : b.kind = "result" /\ id = b.id
    BY <1>3 DEF Given
  <2> QED BY <1>0, <1>1, <2>1
<1>5. \A i \in DOMAIN c : \A a \in Real(c[i]), b \in Real(msg) : ~SameNumber(a, b)
  <2> SUFFICES ASSUME NEW i \in DOMAIN c, NEW a \in Real(c[i]), NEW b \in Real(msg), SameNumber(a, b)
               PROVE  FALSE
    OBVIOUS
  <2>1. a.kind = "result" /\ a.id = b.id
    BY <1>2 DEF SameNumber
  <2>2. a \in Blocks(c)
    BY IdsAreAt DEF Real, ToSet
  <2>3. a.id \in Answered(c)
    BY <2>1, <2>2 DEF Answered, Given
  <2> QED BY <1>2, <2>1, <2>3 DEF AsksAll
<1>6. \A b \in Real(msg) : \E u \in Real(c[Len(c)]) : u.kind = "use" /\ u.id = b.id
  BY <1>2 DEF AsksAll, Asks
<1>7. Given(<< msg >>) \cap (Holders(f) \cup Holders(c)) = {}
  BY <1>4 DEF AsksAll, Answered
<1> QED BY <1>0, <1>2, <1>4, <1>5, <1>6, <1>7 DEF Sayable, New, Flushed

Recording(n, ps, qs, dir, rs, new) ==
  /\ DOMAIN ps = 1..n /\ \A i \in 1..n : ps[i].result = qs[i].result
  /\ \A i, j \in 1..n : ps[i].result.id = ps[j].result.id => i = j
  /\ \A i \in 1..n : qs[i].form # "whole" => Readable(qs[i].result.id, qs[i].result.of, dir)
  /\ rs = {ps[i].result : i \in {j \in DOMAIN ps : ps[j].form # qs[j].form}}
  /\ \A r \in rs : r \in new
  /\ \A id, of : Readable(id, of, dir) /\ (\A r \in rs : r.id # id) => Readable(id, of, new)

ShownBacked(n, ps, sh, rs, new) ==
  /\ \A id \in DOMAIN sh : (\E i \in 1..n : id = ps[i].result.id) /\ ShownBy(ps, sh)[id].form # "whole"
       => Readable(id, ShownBy(ps, sh)[id].of, new)
  /\ \A id \in DOMAIN sh : ~(\E i \in 1..n : id = ps[i].result.id) => ShownBy(ps, sh)[id] = sh[id]
  /\ \A r \in rs : \E i \in 1..n : r.id = ps[i].result.id

(* What the history shows of the results, and what is stored of them.      *)
LEMMA RecordedBacked ==
  ASSUME NEW n, NEW ps, NEW qs, NEW sh, NEW dir, NEW new, NEW rs, Recording(n, ps, qs, dir, rs, new)
  PROVE  ShownBacked(n, ps, sh, rs, new)
<1>0. /\ DOMAIN ps = 1..n /\ \A i \in 1..n : ps[i].result = qs[i].result
      /\ \A i, j \in 1..n : ps[i].result.id = ps[j].result.id => i = j
      /\ \A i \in 1..n : qs[i].form # "whole" => Readable(qs[i].result.id, qs[i].result.of, dir)
      /\ rs = {ps[i].result : i \in {j \in DOMAIN ps : ps[j].form # qs[j].form}}
      /\ \A r \in rs : r \in new
      /\ \A id, of : Readable(id, of, dir) /\ (\A r \in rs : r.id # id) => Readable(id, of, new)
  BY DEF Recording
<1>1. ASSUME NEW id \in DOMAIN sh, NEW i \in 1..n, id = ps[i].result.id, ShownBy(ps, sh)[id].form # "whole"
      PROVE  Readable(id, ShownBy(ps, sh)[id].of, new)
  <2> DEFINE k == CHOOSE j \in DOMAIN ps : ps[j].result.id = id
  <2>1. k \in 1..n /\ ps[k].result.id = id
    BY <1>0, <1>1
  <2>2. ShownBy(ps, sh)[id] = [of |-> ps[k].result.of, form |-> ps[k].form]
    BY <1>0, <1>1 DEF ShownBy
  <2> HIDE DEF k
  <2>3. k = i /\ ShownBy(ps, sh)[id].of = ps[k].result.of /\ ps[k].form # "whole"
    BY <1>0, <1>1, <2>1, <2>2
  <2>4. CASE ps[k].form # qs[k].form
    <3>1. ps[k].result \in new
      BY <1>0, <2>1, <2>4
    <3> QED BY <2>1, <2>3, <3>1 DEF Readable
  <2>5. CASE ps[k].form = qs[k].form
    <3>1. Readable(id, ps[k].result.of, dir)
      BY <1>0, <2>1, <2>3, <2>5
    <3>2. CASE \A r \in rs : r.id # id
      BY <1>0, <2>3, <3>1, <3>2
    <3>3. CASE \E r \in rs : r.id = id
      <4>1. PICK j \in 1..n : ps[j].result \in rs /\ ps[j].result.id = id
        BY <1>0, <3>3
      <4>2. ps[k].result \in new
        BY <1>0, <2>1, <4>1
      <4> QED BY <1>0, <2>1, <2>3, <4>1, <4>2 DEF Readable
    <3> QED BY <3>2, <3>3
  <2> QED BY <2>4, <2>5
<1>2. ASSUME NEW id \in DOMAIN sh, ~\E i \in 1..n : id = ps[i].result.id
      PROVE  ShownBy(ps, sh)[id] = sh[id]
  BY <1>0, <1>2 DEF ShownBy
<1>3. \A r \in rs : \E i \in 1..n : r.id = ps[i].result.id
  BY <1>0
<1> QED BY <1>1, <1>2, <1>3 DEF ShownBacked

LEMMA AwaitsIs ==
  ASSUME Awaits, NEW n, DOMAIN batch.calls = 1..n
  PROVE  /\ \A i, j \in 1..n : batch.calls[i] = batch.calls[j] => i = j
         /\ \A i \in 1..n : /\ Asks(Current.msgs[Len(Current.msgs)], batch.calls[i])
                           /\ batch.calls[i] \notin Answered(Current.msgs)
         /\ \A i \in 1..n : \A x \in Sessions : batch.calls[i] \notin Answered(file[x])
BY DEF Awaits

LEMMA RecordKeeps ==
  ASSUME TypeOK, Kept, RecordResults
  PROVE  Kept'
<1> DEFINE s == CurrentSession
           c == Current.msgs
           f == file[s]
           qs == batch.done
           ps == Aggregate(qs)
           msg == UserMessage([i \in DOMAIN ps |-> ToolResultBlock(ps[i].result.id)])
           n == Len(qs)
           m == next
<1>1. /\ Store(Recorded(ps)) /\ shown' = ShownBy(ps, shown) /\ AddAndFlush(msg)
      /\ batch' = NoBatch /\ pc' = "turn" /\ pc = "results" /\ n = Len(batch.calls)
      /\ jobs' = jobs /\ UNCHANGED <<known, handler, dropped>>
  BY DEF RecordResults, Recorded, ShownBy
<1>2. /\ m \in Nat \ {0} /\ s \in Sessions /\ c \in Chain(m) /\ file \in [Sessions -> Chain(m)]
  BY AloneIs DEF Kept
<1>3. /\ stored \in [Sessions -> SUBSET Texts] /\ shown \in [1..MaxItems -> [of : Nat, form : Forms \cup {"none"}]]
      /\ qs \in Batches /\ batch.calls \in Seq(Nat) /\ m <= MaxItems + 1 /\ MaxItems \in Nat
  BY CompactionAssumption DEF TypeOK, ResultsOK, Batches, CountsOK
<1>4. /\ Awaits /\ batch.dir = s /\ Flushed(f, c)
      /\ \A q \in DOMAIN qs : qs[q].form # "whole" => Readable(qs[q].result.id, qs[q].result.of, stored[s])
  BY <1>1 DEF Kept, BatchFits, Chained
<1>5. SameResults(qs, ps)
  BY <1>3, AggregateIs
<1> HIDE DEF ps
<1>6. /\ ps \in Batches /\ DOMAIN ps = 1..n /\ DOMAIN qs = 1..n /\ n \in Nat /\ DOMAIN batch.calls = 1..n /\ n # 0
      /\ \A i \in 1..n : ps[i].result = qs[i].result
  <2> HIDE DEF qs
  <2>1. ps \in Batches /\ Len(ps) = n /\ \A i \in DOMAIN qs : ps[i].result = qs[i].result
    BY <1>5 DEF SameResults
  <2>2. DOMAIN ps = 1..n /\ DOMAIN qs = 1..n /\ n \in Nat
    BY <1>3, <2>1, BatchIs
  <2> DEFINE b == batch.calls
  <2>3. b \in Seq(Nat) /\ Len(b) = n /\ b # <<>>
    BY <1>1, <1>3, <1>4 DEF Awaits
  <2> HIDE DEF b, n
  <2>4. DOMAIN b = 1..n /\ n # 0
    BY <2>3
  <2> QED BY <2>1, <2>2, <2>4 DEF b
<1> HIDE DEF qs, n
<1>7. /\ \A i \in 1..n : ps[i].result.id = batch.calls[i]
      /\ \A i, j \in 1..n : ps[i].result.id = ps[j].result.id => i = j
  <2>1. \A i \in 1..n : qs[i].result.id = batch.calls[i]
    BY <1>4, <1>6 DEF Awaits, qs
  <2>2. \A i, j \in 1..n : batch.calls[i] = batch.calls[j] => i = j
    BY <1>4, <1>6, AwaitsIs
  <2>3. \A i \in 1..n : ps[i].result.id = batch.calls[i]
    BY <1>6, <2>1
  <2> QED BY <2>2, <2>3
<1>8. AsksAll(f, c, n, ps)
  <2>1. /\ \A i \in 1..n : Asks(c[Len(c)], batch.calls[i]) /\ batch.calls[i] \notin Answered(c)
        /\ \A i \in 1..n : batch.calls[i] \notin Answered(f)
    BY <1>2, <1>4, <1>6, AwaitsIs
  <2> HIDE DEF c, f, s
  <2> QED BY <1>7, <2>1 DEF AsksAll
<1>9. msg \in Polite(1..(m - 1)) /\ Answering(msg, n, ps)
  <2> DEFINE I == 1..(m - 1)
  <2>1. \A i \in 1..n : ps[i].result.id \in I
    BY <1>6, <1>7 DEF TypeOK, Numbered
  <2>2. n \in Nat \ {0}
    BY <1>6
  <2> HIDE DEF I
  <2>3. /\ msg \in Polite(I) /\ Neat(msg) /\ Real(msg) = ToSet(msg.content)
        /\ msg.role = "user" /\ Real(msg) # {}
        /\ \A b : b \in Real(msg) <=> \E i \in 1..n : b = ToolResultBlock(ps[i].result.id)
    BY <1>6, <1>7, <2>1, <2>2, ResultsMessage
  <2> HIDE DEF msg
  <2> QED BY <2>3 DEF Answering, I
<1> HIDE DEF msg
<1>10. /\ Sayable(f, c, msg)
       /\ \A id : id \in Given(<< msg >>) <=> \E i \in 1..n : id = ps[i].result.id
  <2>1. c[Len(c)].role = "assistant"
    BY <1>4 DEF Awaits
  <2> HIDE DEF c, f
  <2> QED BY <1>4, <1>8, <1>9, <2>1, ResultsSayable
<1>11. Lone' /\ Chained' /\ Heard' /\ Spoken(msg)
  <2>1. msg.role = "user"
    BY <1>9 DEF Answering
  <2>2. m \in Nat /\ m <= m
    BY <1>2
  <2> HIDE DEF m
  <2> QED BY <1>1, <1>9, <1>10, <2>1, <2>2, SpokenLeaves DEF Kept, m
<1>12. JobsFit'
  BY <1>1, JobsSame DEF Kept
<1>13. BatchFits'
  BY <1>1 DEF BatchFits, NoBatch
<1>14. Backed'
  <2> DEFINE rs == Recorded(ps)
             new == stored'[s]
  <2>1. /\ \A x \in Sessions \ {s} : stored'[x] = stored[x]
        /\ \A r \in rs : r \in new
        /\ \A id, of : Readable(id, of, stored[s]) /\ (\A r \in rs : r.id # id) => Readable(id, of, new)
    BY <1>1, <1>2, <1>3, <1>4, StoredIs
  <2>2. rs = {ps[i].result : i \in {j \in DOMAIN ps : ps[j].form # qs[j].form}}
    BY DEF Recorded, qs
  <2>3. \A i \in 1..n : qs[i].form # "whole" => Readable(qs[i].result.id, qs[i].result.of, stored[s])
    BY <1>4, <1>6 DEF qs
  <2> HIDE DEF rs, new
  <2>4. Recording(n, ps, qs, stored[s], rs, new)
    BY <1>6, <1>7, <2>1, <2>2, <2>3 DEF Recording
  <2>10. ShownBacked(n, ps, shown, rs, new)
    BY <2>4, RecordedBacked
  <2>11. /\ \A id \in DOMAIN shown : (\E i \in 1..n : id = ps[i].result.id) /\ ShownBy(ps, shown)[id].form # "whole"
              => Readable(id, ShownBy(ps, shown)[id].of, new)
         /\ \A id \in DOMAIN shown : ~(\E i \in 1..n : id = ps[i].result.id) => ShownBy(ps, shown)[id] = shown[id]
         /\ \A r \in rs : \E i \in 1..n : r.id = ps[i].result.id
    BY <2>10 DEF ShownBacked
  <2>5. \A x \in Sessions : Answered(file[x]) \subseteq 1..(m - 1)
    <3>1. \A x \in Sessions : file[x] \in Chain(m)
      BY <1>2
    <3> QED BY <1>2, <3>1, FreshNumbers
  <2>6. \A x \in Sessions : \A id \in Given(file[x]) : id \in DOMAIN shown /\ ~\E i \in 1..n : id = ps[i].result.id
    <3>1. 1..(m - 1) \subseteq DOMAIN shown
      BY <1>2, <1>3
    <3>2. \A x \in Sessions : \A i \in 1..n : ps[i].result.id \notin Given(file[x])
      BY <1>4, <1>6, <1>7 DEF Awaits, Answered
    <3> QED BY <2>5, <3>1, <3>2 DEF Answered
  <2>7. /\ Given(file'[s]) = Given(f) \cup Given(<< msg >>) /\ \A x \in Sessions \ {s} : file'[x] = file[x]
    BY <1>11 DEF Spoken, Continued
  <2>8. \A i \in 1..n : ps[i].result.id \in DOMAIN shown
    <3>1. \A i \in 1..n : ps[i].result.id \in 1..(m - 1)
      BY <1>6, <1>7 DEF TypeOK, Numbered
    <3>2. 1..(m - 1) \subseteq DOMAIN shown
      BY <1>2, <1>3
    <3> QED BY <3>1, <3>2
  <2>9. ASSUME NEW x \in Sessions, NEW id \in Given(file'[x]), shown'[id].form # "whole"
        PROVE  Readable(id, shown'[id].of, stored'[x])
    <3>1. CASE id \in Given(file[x])
      <4>1. shown'[id] = shown[id] /\ \A r \in rs : r.id # id
        BY <1>1, <2>6, <2>11, <3>1
      <4>2. Readable(id, shown[id].of, stored[x])
        BY <2>9, <3>1, <4>1 DEF Kept, Backed
      <4> QED BY <2>1, <4>1, <4>2 DEF new
    <3>2. CASE id \notin Given(file[x])
      <4>1. x = s /\ id \in Given(<< msg >>)
        BY <2>7, <2>9, <3>2
      <4>2. \E i \in 1..n : id = ps[i].result.id
        BY <1>10, <4>1
      <4>3. id \in DOMAIN shown
        BY <2>8, <4>2
      <4> QED BY <1>1, <2>9, <2>11, <4>1, <4>2, <4>3 DEF new
    <3> QED BY <3>1, <3>2
  <2> QED BY <2>9 DEF Backed
<1> QED BY <1>11, <1>12, <1>13, <1>14 DEF Kept

-----------------------------------------------------------------------------
(* Every step, and what the invariant means.                               *)
LEMMA KeptInit == Init => Kept
<1> SUFFICES ASSUME NEW s \in Sessions,
                    objects = << Conv(s, <<>>) >>, file = [x \in Sessions |-> <<>>], known = {s},
                    pc = "idle", batch = NoBatch, jobs = {}, handler = NoSession,
                    given = [x \in Sessions |-> {}]
             PROVE  Kept
  BY DEF Init
<1>1. Len(objects) = 1 /\ Current = Conv(s, <<>>)
  BY DEF Current
<1>2. CurrentSession = s /\ Current.msgs = <<>>
  BY <1>1 DEF CurrentSession, Conv
<1>3. \A x \in Sessions : file[x] = <<>> /\ given[x] = {}
  OBVIOUS
<1>4. Lone /\ JobsFit /\ BatchFits
  BY <1>1, <1>2, <1>3 DEF Lone, JobsFit, BatchFits, NoBatch
<1>5. Chained
  BY <1>2, <1>3, EmptyIs DEF Chained, Faithful
<1>6. Heard /\ Backed
  BY <1>3, EmptyIs DEF Heard, Backed
<1> QED BY <1>4, <1>5, <1>6 DEF Kept

LEMMA KeptNext == TypeOK /\ Kept /\ ~crossed' /\ [Next]_vars => Kept'
<1> SUFFICES ASSUME TypeOK, Kept, ~crossed', [Next]_vars PROVE Kept'
  OBVIOUS
<1>1. ASSUME Send PROVE Kept'
  BY <1>1, SendKeeps
<1>2. ASSUME BeginTurn \/ EmergencyCompact \/ UICompact PROVE Kept'
  BY <1>2, BeginsKeep
<1>3. ASSUME ReplyText PROVE Kept'
  BY <1>3, ReplyTextKeeps
<1>4. ASSUME NEW k \in 1..MaxBatch, ReplyCalls(k) PROVE Kept'
  BY <1>4, ReplyCallsKeeps
<1>5. ASSUME CallsReturn \/ SummaryArrives \/ SummaryFails \/ StoreFails PROVE Kept'
  BY <1>5, ResultsKeep
<1>6. ASSUME HandleResult PROVE Kept'
  BY <1>6, HandleKeeps
<1>7. ASSUME RecordResults PROVE Kept'
  BY <1>7, RecordKeeps
<1>8. ASSUME Cancel \/ (\E job \in jobs : FailCompaction(job)) \/ UNCHANGED vars PROVE Kept'
  BY <1>8, StopsKeep
<1>9. ASSUME NEW job \in jobs, NEW lost \in 0..Len(job.src), FinishCompaction(job, lost) PROVE Kept'
  <2>1. Fresh(job)
    BY <1>9 DEF FinishCompaction
  <2> QED BY <1>9, <2>1, FinishKeeps
<1>10. ASSUME NEW s \in Sessions, NewSession(s) \/ ResumeSession(s) \/ DeleteSession(s) PROVE Kept'
  BY <1>10, OpensKeep
<1> QED BY <1>1, <1>2, <1>3, <1>4, <1>5, <1>6, <1>7, <1>8, <1>9, <1>10 DEF Next

(* What has crossed stays so.                                              *)
LEMMA CrossedStays == crossed /\ [Next]_vars => crossed'
BY DEF Next, vars, Send, BeginTurn, EmergencyCompact, ReplyText, ReplyCalls, CallsReturn, HandleResult,
       SummaryArrives, SummaryFails, StoreFails, RecordResults, Cancel, UICompact, FailCompaction,
       FinishCompaction, NewSession, ResumeSession, DeleteSession, Open

(* The inductive invariant: file and conversation agree until a session is *)
(* opened over something that goes on, or a compaction ends whose          *)
(* conversation has changed.                                               *)
THEOREM KeptAlways == Spec => [](~crossed => Kept)
<1>1. Init => (~crossed => Kept)
  BY KeptInit
<1>2. TypeOK /\ (~crossed => Kept) /\ [Next]_vars => (~crossed => Kept)'
  BY KeptNext, CrossedStays
<1> QED BY <1>1, <1>2, TypeCorrect, PTL DEF Spec

LEMMA KeptMeans == TypeOK /\ (~crossed => Kept) => NothingForgotten /\ SessionsApart /\ ResultsReadable
<1> SUFFICES ASSUME TypeOK, Kept PROVE NothingForgotten /\ SessionsApart /\ ResultsReadable
  BY DEF NothingForgotten, SessionsApart, ResultsReadable
<1> DEFINE s == CurrentSession
           c == Current.msgs
           f == file[s]
           I == 1..(next - 1)
<1>1. /\ next \in Nat \ {0} /\ s \in Sessions /\ c \in Chain(next) /\ f \in Chain(next) /\ known \subseteq Sessions
  BY AloneIs DEF Kept
<1>2. Told(f) = Told(c)
  <2>1. Faithful(f, c)
    BY DEF Kept, Chained
  <2> HIDE DEF f, c
  <2>2. f \in Chains(Facts, I, I) /\ c \in Chains(Facts, I, I)
    BY <1>1, ChainTyped
  <2> QED BY <2>1, <2>2, TwinSame DEF Faithful
<1>3. \A x \in Sessions : Told(file[x]) \subseteq given[x] /\ given[x] \subseteq Told(file[x]) \cup dropped[x]
  BY DEF Kept, Heard
<1>4. NothingForgotten
  BY <1>1, <1>2, <1>3 DEF NothingForgotten, Remembered
<1>5. ResultsReadable
  <2> SUFFICES ASSUME NEW x \in known, NEW b \in Blocks(file[x]), b.kind = "result", shown[b.id].form # "whole"
               PROVE  \E r \in stored[x] : r.id = b.id /\ r.of = shown[b.id].of
    BY DEF ResultsReadable
  <2>1. b.id \in Given(file[x])
    BY DEF Given
  <2>2. Readable(b.id, shown[b.id].of, stored[x])
    BY <1>1, <2>1 DEF Kept, Backed
  <2> QED BY <2>2 DEF Readable
<1> QED BY <1>3, <1>4, <1>5 DEF SessionsApart, SaidHere

(* Summarise the early part, keep the recent one as it is (compactor.py):  *)
(* whatever was said in a session stays in its file and before the model,  *)
(* word for word or told by a summary.                                     *)
THEOREM NothingIsForgotten == Spec => []NothingForgotten
BY KeptAlways, TypeCorrect, KeptMeans, PTL

(* A session's file tells of nothing that was said in another, whatever    *)
(* is created, resumed, compacted and deleted in between.                  *)
THEOREM SessionsStayApart == Spec => []SessionsApart
BY KeptAlways, TypeCorrect, KeptMeans, PTL

(* Where the history shows less than the whole result, its text is stored  *)
(* in the directory of that session.                                       *)
THEOREM ResultsCanBeRead == Spec => []ResultsReadable
BY KeptAlways, TypeCorrect, KeptMeans, PTL
====
