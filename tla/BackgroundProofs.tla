-------------------------- MODULE BackgroundProofs --------------------------
(***************************************************************************)
(* Theorems about what goes on beside the main agent's run: about Memory,  *)
(* whose notes several processes write, about Tasks, the subagents that    *)
(* run on their own, and about NamedAgents, those that are sent messages.  *)
(***************************************************************************)
EXTENDS Memory, Tasks, NamedAgents, ConversationProofs

-----------------------------------------------------------------------------
(***************************************************************************)
(* Theorems about Memory, for any number of processes, notes and lines.    *)
(***************************************************************************)

Jobs == {"extract", "consolidate", "command", "pattern"}
NoteLists == [Roots -> [Names -> Texts \cup {None}]]
Lines == [name : Names, text : Texts \cup {Own, None}]
Indexes == {lines \in Seq(Lines) : Len(lines) <= MaxLines}

Activities ==
  {Free, [at |-> "looked"], [at |-> "claimed"]}
  \cup [at : {"apply"}, job : Jobs]
  \cup [at : {"wrote"}, job : Jobs, added : BOOLEAN, root : Roots, line : Lines]
  \cup [at : {"read"}, job : Jobs, added : BOOLEAN, root : Roots, line : Lines, lines : Indexes]

StoreTypeOK ==
  /\ notes \in NoteLists
  /\ index \in [Roots -> Indexes]
  /\ cache \in [Procs -> NoteLists \cup {NoCache}]
  /\ now \in [Procs -> Activities]
  /\ author \in [Roots -> [Names -> Procs \cup {None}]]
  /\ excused \in SUBSET (Roots \X Names)

LockTypeOK ==
  /\ ran \in [Procs -> BOOLEAN] /\ scanned \in [Procs -> BOOLEAN]
  /\ made \in BOOLEAN /\ shared \in BOOLEAN /\ done \in BOOLEAN
  /\ ending \in [Procs -> {"no", "asked", "gate"}]
  /\ con \in [Procs -> {"no", "due", "asked"}]
  /\ lock \in [by : Procs \cup {Gone}, age : Ages]
  /\ events \in 0..MaxEvents

NotesTypeOK == StoreTypeOK /\ LockTypeOK

Operating(p) == now[p].at \in {"apply", "wrote", "read"}
NoneDue == \A p \in Procs : con[p] # "due"

(* What holds of the lock while no two processes have been inside          *)
(* _acquire_lock at once.                                                  *)
AloneInv ==
  /\ \A p, q \in Procs : Acquiring(p) /\ Acquiring(q) => p = q
  /\ \A p \in Procs : now[p].at = "claimed" => lock.by = p /\ lock.age = "fresh"
  /\ \A p \in Procs : Consolidating(p) => /\ lock.by = p /\ lock.age \in {"fresh", "old"}
                                          /\ \A q \in Procs : ~Acquiring(q)
  /\ \A p \in Procs : Operating(p) /\ now[p].job = "consolidate" => NoneDue
  /\ done => lock.age \in {"fresh", "old"} /\ \A p \in Procs : con[p] = "no"

LockInv ==
  /\ \A p \in Procs : Acquiring(p) => con[p] = "due"
  /\ \A p \in Procs : Operating(p) /\ now[p].job = "consolidate" => Consolidating(p)
  /\ lock.age = "old" => NoneDue
  /\ ~shared => AloneInv

(* What a process lists shows every note it has written, but for the one   *)
(* it is writing.                                                          *)
OwnNotesListed ==
  \A p \in Procs, root \in Roots, name \in Names :
    cache[p] # NoCache /\ notes[root][name] # None /\ author[root][name] = p =>
      \/ cache[p][root][name] # None
      \/ Writing(p) /\ now[p].added /\ now[p].root = root /\ now[p].line.name = name

Adding(p, root, name) ==
  Writing(p) /\ now[p].added /\ now[p].root = root /\ now[p].line.name = name
Removing(p, root, name) ==
  Writing(p) /\ ~now[p].added /\ now[p].root = root /\ now[p].line.name = name

(* While a note's line is being removed, the note is gone or excused.      *)
RemovedExcused ==
  \A p \in Procs, root \in Roots, name \in Names :
    Removing(p, root, name) /\ notes[root][name] # None => NoteAt(root, name) \in excused

NoteInv == NoteIndexed /\ RemovedExcused
MemoryInv == NotesTypeOK /\ LockInv /\ OwnNotesListed /\ NoteInv

-----------------------------------------------------------------------------
(* f[i] is what Without leaves of the first i lines.                      *)
Kept(f, lines, line, n) ==
  f = [i \in 0..n |-> IF i = 0 THEN <<>>
                      ELSE IF lines[i] = line THEN f[i - 1]
                      ELSE Append(f[i - 1], lines[i])]

LEMMA KeptAt ==
  ASSUME NEW f, NEW lines, NEW line, NEW n \in Nat, Kept(f, lines, line, n), NEW i \in 0..n
  PROVE  f[i] = IF i = 0 THEN <<>>
                ELSE IF lines[i] = line THEN f[i - 1] ELSE Append(f[i - 1], lines[i])
  <1>. DEFINE v(k) == IF k = 0 THEN <<>>
                      ELSE IF lines[k] = line THEN f[k - 1] ELSE Append(f[k - 1], lines[k])
              h == [k \in 0..n |-> v(k)]
  <1>1. f = h
    BY DEF Kept
  <1>2. h[i] = v(i)
    OBVIOUS
  <1>. QED
    <2>. HIDE DEF h
    <2>. QED
      BY <1>1, <1>2

LEMMA KeptExists ==
  ASSUME NEW lines, NEW line, NEW m \in Nat
  PROVE  \E f : Kept(f, lines, line, m)
  <1>. DEFINE S == {n \in Nat : \E f : Kept(f, lines, line, n)}
  <1>1. 0 \in S
    <2>. DEFINE f == [i \in 0..0 |-> <<>>]
    <2>1. Kept(f, lines, line, 0)
      BY DEF Kept
    <2>. QED
      BY <2>1
  <1>2. ASSUME NEW n \in S PROVE n + 1 \in S
    <2>1. PICK f : Kept(f, lines, line, n)
      BY <1>2
    <2>. DEFINE g == [i \in 0..n + 1 |-> IF i <= n THEN f[i]
                                         ELSE IF lines[i] = line THEN f[i - 1]
                                         ELSE Append(f[i - 1], lines[i])]
    <2>2. n \in Nat
      OBVIOUS
    <2>3. \A i \in 0..n : f[i] = IF i = 0 THEN <<>> ELSE IF lines[i] = line THEN f[i - 1]
                                 ELSE Append(f[i - 1], lines[i])
      BY <2>1, <2>2, KeptAt
    <2>4. \A i \in 0..n : g[i] = f[i]
      BY <2>2
    <2>5. g[n + 1] = IF lines[n + 1] = line THEN f[n] ELSE Append(f[n], lines[n + 1])
      BY <2>2
    <2>. DEFINE v(i) == IF i = 0 THEN <<>>
                        ELSE IF lines[i] = line THEN g[i - 1] ELSE Append(g[i - 1], lines[i])
    <2>6. ASSUME NEW i \in 0..n + 1 PROVE g[i] = v(i)
      <3>1. CASE i \in 0..n
        <4>1. i = 0 \/ i - 1 \in 0..n
          BY <2>2, <3>1
        <4>. HIDE DEF g
        <4>. QED BY <2>3, <2>4, <3>1, <4>1
      <3>2. CASE i = n + 1
        <4>1. i # 0 /\ i - 1 = n /\ g[n] = f[n]
          BY <2>2, <2>4, <3>2
        <4>. HIDE DEF g
        <4>. QED BY <2>5, <3>2, <4>1
      <3>. QED BY <2>2, <3>1, <3>2
    <2>7. Kept(g, lines, line, n + 1)
      <3>1. g = [i \in 0..n + 1 |-> g[i]]
        OBVIOUS
      <3>. HIDE DEF g
      <3>2. g = [i \in 0..n + 1 |-> v(i)]
        BY <2>6, <3>1
      <3>. QED BY <3>2 DEF Kept
    <2>. QED
      BY <2>2, <2>7
  <1>. HIDE DEF S
  <1>3. S = Nat
    BY <1>1, <1>2, Induction DEF S
  <1>. QED
    BY <1>3 DEF S

LEMMA WithoutKept ==
  ASSUME NEW lines, Len(lines) \in Nat, NEW line
  PROVE  \E f : Kept(f, lines, line, Len(lines)) /\ Without(lines, line) = f[Len(lines)]
  <1>. DEFINE c == CHOOSE f : Kept(f, lines, line, Len(lines))
  <1>1. Kept(c, lines, line, Len(lines))
    BY KeptExists
  <1>2. Without(lines, line) = c[Len(lines)]
    BY DEF Kept, Without
  <1>. QED BY <1>1, <1>2

(* What is left are as many lines or fewer, and every line but the one     *)
(* removed.                                                                *)
LEMMA WithoutIs ==
  ASSUME NEW T, NEW lines \in Seq(T), NEW line
  PROVE  /\ Without(lines, line) \in Seq(T)
         /\ Len(Without(lines, line)) <= Len(lines)
         /\ \A i \in 1..Len(lines) : lines[i] # line =>
               \E j \in 1..Len(Without(lines, line)) : Without(lines, line)[j] = lines[i]
  <1>1. PICK f : Kept(f, lines, line, Len(lines)) /\ Without(lines, line) = f[Len(lines)]
    BY WithoutKept
  <1>. DEFINE Good(n) == /\ f[n] \in Seq(T)
                         /\ Len(f[n]) <= n
                         /\ \A i \in 1..n : lines[i] # line =>
                              \E j \in 1..Len(f[n]) : f[n][j] = lines[i]
              S == {n \in Nat : n <= Len(lines) => Good(n)}
  <1>2. 0 \in S
    BY <1>1 DEF Kept
  <1>3. ASSUME NEW n \in S PROVE n + 1 \in S
    <2>. SUFFICES ASSUME n + 1 <= Len(lines) PROVE Good(n + 1)
      OBVIOUS
    <2>1. n \in Nat /\ Good(n)
      BY <1>3
    <2>2. f[n + 1] = IF lines[n + 1] = line THEN f[n] ELSE Append(f[n], lines[n + 1])
      <3>1. n + 1 \in 0..Len(lines) /\ n + 1 # 0 /\ (n + 1) - 1 = n /\ Len(lines) \in Nat
        BY <2>1
      <3>. HIDE DEF Good
      <3>. QED BY <1>1, <3>1, KeptAt
    <2>3. CASE lines[n + 1] = line
      BY <2>1, <2>2, <2>3
    <2>4. CASE lines[n + 1] # line
      <3>. DEFINE s == f[n]
                  e == lines[n + 1]
      <3>1. s \in Seq(T) /\ e \in T /\ f[n + 1] = Append(s, e)
        BY <2>1, <2>2, <2>4
      <3>2. f[n + 1] \in Seq(T) /\ Len(f[n + 1]) = Len(s) + 1
        BY <3>1
      <3>3. \A j \in 1..Len(s) : f[n + 1][j] = s[j]
        BY <3>1
      <3>4. f[n + 1][Len(s) + 1] = e
        BY <3>1
      <3>5. ASSUME NEW i \in 1..n + 1, lines[i] # line
            PROVE  \E j \in 1..Len(f[n + 1]) : f[n + 1][j] = lines[i]
        BY <2>1, <3>1, <3>2, <3>3, <3>4, <3>5
      <3>. QED
        BY <2>1, <3>2, <3>5
    <2>. QED
      BY <2>3, <2>4
  <1>. HIDE DEF S
  <1>4. S = Nat
    BY <1>2, <1>3, Induction DEF S
  <1>. QED
    BY <1>1, <1>4 DEF S

-----------------------------------------------------------------------------
(* What the cut keeps, and what rewriting an index takes from it.          *)
LEMMA NewestIs ==
  ASSUME NEW T, NEW lines \in Seq(T)
  PROVE  /\ Newest(lines) \in Seq(T) /\ Len(Newest(lines)) <= MaxLines
         /\ Len(lines) > 0 => /\ Len(Newest(lines)) > 0
                              /\ Newest(lines)[Len(Newest(lines))] = lines[Len(lines)]
         /\ Len(lines) <= MaxLines => Newest(lines) = lines
  <1>. USE MaxLinesAssumption
  <1>1. CASE Len(lines) <= MaxLines
    BY <1>1 DEF Newest
  <1>2. CASE Len(lines) > MaxLines
    <2>. DEFINE first == Len(lines) - MaxLines + 1
    <2>1. Newest(lines) = SubSeq(lines, first, Len(lines)) /\ first \in 1..Len(lines)
      BY <1>2 DEF Newest
    <2>2. /\ SubSeq(lines, first, Len(lines)) \in Seq(T)
          /\ Len(SubSeq(lines, first, Len(lines))) = MaxLines
          /\ SubSeq(lines, first, Len(lines))[MaxLines] = lines[Len(lines)]
      BY <1>2, <2>1
    <2>. HIDE DEF first
    <2>3. Len(Newest(lines)) = MaxLines /\ Newest(lines) \in Seq(T)
      BY <2>1, <2>2
    <2>. QED
      BY <1>2, <2>1, <2>2, <2>3
  <1>. QED
    BY <1>1, <1>2

LEMMA LineAppended ==
  ASSUME NEW T, NEW s \in Seq(T), NEW e \in T
  PROVE  /\ Append(s, e) \in Seq(T) /\ Len(Append(s, e)) = Len(s) + 1
         /\ Append(s, e)[Len(Append(s, e))] = e
         /\ \A j \in 1..Len(s) : Append(s, e)[j] = s[j]
  <1>1. Append(s, e) \in Seq(T) /\ Len(Append(s, e)) = Len(s) + 1
    OBVIOUS
  <1>2. Append(s, e)[Len(s) + 1] = e
    OBVIOUS
  <1>3. \A j \in 1..Len(s) : Append(s, e)[j] = s[j]
    OBVIOUS
  <1>. QED
    BY <1>1, <1>2, <1>3

LEMMA RewrittenIs ==
  ASSUME NEW lines \in Indexes, NEW entry, entry.line \in Lines, entry.added \in BOOLEAN
  PROVE  LET others == Without(lines, entry.line)
             kept == Rewritten(lines, entry)
         IN  /\ kept \in Indexes
             /\ entry.added => HasLine(kept, entry.line.name)
             /\ \A name : HasLine(lines, name) /\ ~HasLine(kept, name) =>
                  IF entry.added THEN Len(others) >= MaxLines /\ HasLine(others, name)
                  ELSE name = entry.line.name
  <1>. DEFINE others == Without(lines, entry.line)
              kept == Rewritten(lines, entry)
  <1>1. /\ lines \in Seq(Lines) /\ Len(lines) <= MaxLines /\ DOMAIN lines = 1..Len(lines)
        /\ MaxLines \in Nat \ {0}
    BY MaxLinesAssumption DEF Indexes
  <1>2. /\ others \in Seq(Lines) /\ Len(others) <= Len(lines)
        /\ \A i \in 1..Len(lines) : lines[i] # entry.line =>
             \E j \in 1..Len(others) : others[j] = lines[i]
    BY <1>1, WithoutIs, SMTT(30)
  <1>3. ASSUME NEW name, HasLine(lines, name)
        PROVE  HasLine(others, name) \/ name = entry.line.name
    <2>1. PICK i \in 1..Len(lines) : lines[i].name = name
      BY <1>1, <1>3 DEF HasLine
    <2>2. CASE lines[i] = entry.line
      BY <2>1, <2>2
    <2>3. CASE lines[i] # entry.line
      <3>1. PICK j \in 1..Len(others) : others[j] = lines[i]
        BY <1>2, <2>1, <2>3
      <3>2. DOMAIN others = 1..Len(others)
        BY <1>2
      <3>. QED
        BY <2>1, <3>1, <3>2 DEF HasLine
    <2>. QED
      BY <2>2, <2>3
  <1>4. CASE entry.added
    <2>. DEFINE all == Append(others, entry.line)
    <2>1. /\ all \in Seq(Lines) /\ Len(all) = Len(others) + 1 /\ Len(all) > 0
          /\ all[Len(all)] = entry.line
          /\ \A j \in 1..Len(others) : all[j] = others[j]
      BY <1>2, LineAppended
    <2>2. kept = Newest(all)
      BY <1>4 DEF Rewritten
    <2>. HIDE DEF all
    <2>3. /\ kept \in Seq(Lines) /\ Len(kept) <= MaxLines /\ Len(kept) > 0
          /\ kept[Len(kept)] = entry.line
          /\ Len(all) <= MaxLines => kept = all
      BY <2>1, <2>2, NewestIs
    <2>. HIDE DEF kept
    <2>4. DOMAIN kept = 1..Len(kept) /\ Len(kept) \in DOMAIN kept
      BY <2>3
    <2>5. HasLine(kept, entry.line.name)
      BY <2>3, <2>4 DEF HasLine
    <2>6. ASSUME NEW name, HasLine(lines, name), ~HasLine(kept, name)
          PROVE  Len(others) >= MaxLines /\ HasLine(others, name)
      <3>. HIDE DEF others
      <3>1. HasLine(others, name)
        BY <1>3, <2>5, <2>6
      <3>2. ASSUME Len(others) < MaxLines PROVE FALSE
        <4>1. kept = all
          BY <1>1, <1>2, <2>1, <2>3, <3>2
        <4>2. PICK j \in DOMAIN others : others[j].name = name
          BY <3>1 DEF HasLine
        <4>3. j \in DOMAIN all /\ all[j] = others[j]
          BY <1>2, <2>1, <4>2
        <4>. QED
          BY <2>6, <4>1, <4>2, <4>3 DEF HasLine
      <3>. QED
        BY <1>1, <1>2, <3>1, <3>2
    <2>. QED
      BY <1>4, <2>3, <2>5, <2>6 DEF Indexes, kept
  <1>5. CASE ~entry.added
    <2>. HIDE DEF others
    <2>1. Len(others) <= MaxLines
      BY <1>1, <1>2
    <2>2. kept = others
      BY <1>2, <1>5, <2>1, NewestIs DEF Rewritten, others
    <2>. QED
      BY <1>2, <1>3, <1>5, <2>1, <2>2 DEF Indexes, others
  <1>. QED
    BY <1>4, <1>5

-----------------------------------------------------------------------------
(* What a process lists, and what it is at, are of their types.            *)
LEMMA ListedType ==
  ASSUME StoreTypeOK, NEW p \in Procs
  PROVE  Listed(p) \in NoteLists
  BY DEF StoreTypeOK, Listed

LEMMA ActivityType ==
  ASSUME StoreTypeOK, NEW p \in Procs
  PROVE  /\ now[p].at \in {"free", "looked", "claimed", "apply", "wrote", "read"}
         /\ Operating(p) => now[p].job \in Jobs
         /\ Writing(p) => now[p].added \in BOOLEAN /\ now[p].root \in Roots
                          /\ now[p].line \in Lines
         /\ now[p].at = "read" => now[p].lines \in Indexes
  <1>1. now[p] \in Activities
    BY DEF StoreTypeOK
  <1>. QED
    BY <1>1 DEF Activities, Free, Operating, Writing

(* What a step may do to the notes: nothing, or one of these.              *)
Quiet(p) ==
  /\ UNCHANGED <<notes, index, author, excused>>
  /\ ~Writing(p)
  /\ \E a \in Activities : a.at \notin {"wrote", "read"} /\ now' = [now EXCEPT ![p] = a]
  /\ cache' = cache \/ cache' = [cache EXCEPT ![p] = Listed(p)]

Fails(p) ==
  /\ UNCHANGED <<notes, index, cache>>
  /\ author' = Disowned(p)
  /\ excused' = LeftHalfway(p)
  /\ now' = [now EXCEPT ![p] = Free]

Restarts(p) ==
  /\ UNCHANGED <<notes, index, author>>
  /\ cache' = [cache EXCEPT ![p] = NoCache]
  /\ excused' = LeftHalfway(p)
  /\ now' = [now EXCEPT ![p] = Free]

StoreStep(p) ==
  \/ Quiet(p) \/ Fails(p) \/ Restarts(p) \/ ReadIndex(p) \/ WriteIndex(p)
  \/ now[p].at = "apply" /\ \E op \in Entries : op.line \in {op.text, Own} /\ Write(p, op)
  \/ now[p].at = "apply" /\ \E op \in Deletes : Delete(p, op)

LEMMA AnyStoreStep ==
  ASSUME NotesTypeOK, Next
  PROVE  UNCHANGED <<store, now>> \/ \E p \in Procs : StoreStep(p)
  <1>. USE DEF store
  <1>0. /\ Free \in Activities /\ [at |-> "looked"] \in Activities
        /\ [at |-> "claimed"] \in Activities
        /\ \A job \in Jobs : Applying(job) \in Activities /\ Applying(job).at = "apply"
    BY DEF Activities, Applying
  <1>1. CASE Tick
    BY <1>1 DEF Tick
  <1>. SUFFICES ASSUME NEW p \in Procs,
                       \/ Start(p) \/ Claim(p) \/ Confirm(p) \/ Operate(p) \/ UpdateIndex(p)
                       \/ Finish(p) \/ Fail(p) \/ CancelExtraction(p) \/ Crash(p)
                PROVE  UNCHANGED <<store, now>> \/ StoreStep(p)
    BY <1>1 DEF Next
  <1>2. now \in [Procs -> Activities] /\ now = [now EXCEPT ![p] = now[p]] /\ now[p] \in Activities
    BY DEF NotesTypeOK, StoreTypeOK
  <1>3. CASE EndRun(p) /\ now[p] = Free
    BY <1>2, <1>3 DEF EndRun, StoreStep, Quiet, Writing, Free
  <1>4. CASE Gate(p)
    BY <1>4 DEF Gate
  <1>5. CASE Look(p) /\ now[p] = Free
    BY <1>0, <1>5 DEF Look, StoreStep, Quiet, Writing, Free
  <1>6. ASSUME NEW job \in Jobs, BeginJob(p, job), now[p] = Free PROVE StoreStep(p)
    <2>. DEFINE a == Applying(job)
    <2>1. a \in Activities /\ a.at \notin {"wrote", "read"}
      BY <1>0
    <2>2. ~Writing(p)
      BY <1>6 DEF Writing, Free
    <2>3. now' = [now EXCEPT ![p] = a] /\ UNCHANGED store
      BY <1>6 DEF BeginJob
    <2>. HIDE DEF a
    <2>4. Quiet(p)
      BY <2>1, <2>2, <2>3 DEF Quiet
    <2>. QED
      BY <2>4 DEF StoreStep
  <1>7. CASE Start(p)
    BY <1>3, <1>4, <1>5, <1>6, <1>7 DEF Start, ReplyTo, CmdMemory, ObserveErrorPatterns, Jobs
  <1>8. CASE Claim(p)
    BY <1>0, <1>8 DEF Claim, StoreStep, Quiet, Writing
  <1>9. CASE Confirm(p)
    BY <1>0, <1>9 DEF Confirm, StoreStep, Quiet, Writing, Free
  <1>10. CASE Operate(p)
    <2>1. /\ \A op \in EntriesOf(now[p].job) : op \in Entries
          /\ \A op \in DeletesOf(now[p].job) : op \in Deletes
      BY DEF EntriesOf, DeletesOf, AddedByHand, PatternMemory, Creates
    <2>2. ASSUME NEW op, Skip(p, op), now[p].at = "apply" PROVE StoreStep(p)
      BY <1>2, <2>2 DEF Skip, StoreStep, Quiet, Writing
    <2>3. ASSUME NEW op \in Entries, Valid(op), WriteEntry(p, op), now[p].at = "apply"
          PROVE  StoreStep(p)
      BY <2>3 DEF Valid, WriteEntry, StoreStep
    <2>4. ASSUME NEW op \in Deletes, Delete(p, op), now[p].at = "apply" PROVE StoreStep(p)
      BY <2>4 DEF StoreStep
    <2>. QED
      BY <1>10, <2>1, <2>2, <2>3, <2>4 DEF Operate
  <1>11. CASE UpdateIndex(p)
    BY <1>11 DEF UpdateIndex, StoreStep
  <1>12. CASE Finish(p)
    BY <1>0, <1>12 DEF Finish, EndJob, StoreStep, Quiet, Writing, Free
  <1>13. CASE Fail(p)
    BY <1>13 DEF Fail, EndJob, StoreStep, Fails
  <1>14. CASE CancelExtraction(p)
    BY <1>14 DEF CancelExtraction
  <1>15. CASE Crash(p)
    BY <1>15 DEF Crash, StoreStep, Restarts
  <1>. QED
    BY <1>7, <1>8, <1>9, <1>10, <1>11, <1>12, <1>13, <1>14, <1>15

(* What Write leaves in now is an activity.                                *)
LEMMA EntryType ==
  ASSUME NotesTypeOK, NEW p \in Procs, Operating(p), NEW added \in BOOLEAN, NEW root \in Roots,
         NEW line \in Lines
  PROVE  Entry(p, added, root, line) \in Activities
  <1>1. now[p].job \in Jobs
    BY ActivityType DEF NotesTypeOK
  <1>. QED
    BY <1>1 DEF Entry, Activities

LEMMA StoreTypeStep ==
  ASSUME NotesTypeOK, [Next]_vars PROVE StoreTypeOK'
  <1>. USE DEF StoreTypeOK
  <1>1. CASE UNCHANGED <<store, now>>
    BY <1>1 DEF NotesTypeOK, store
  <1>. SUFFICES ASSUME NEW p \in Procs, StoreStep(p) PROVE StoreTypeOK'
    BY <1>1, AnyStoreStep DEF vars, store
  <1>2. StoreTypeOK /\ Listed(p) \in NoteLists /\ Free \in Activities /\ now[p] \in Activities
    BY ListedType DEF NotesTypeOK, Activities
  <1>3. excused \cup {NoteAt(root, name) : root \in Roots, name \in Names}
          \in SUBSET (Roots \X Names)
    BY <1>2 DEF NoteAt
  <1>4. Writing(p) => now[p].added \in BOOLEAN /\ now[p].root \in Roots /\ now[p].line \in Lines
                      /\ now[p].line.name \in Names /\ now[p].job \in Jobs
    BY <1>2, ActivityType DEF Lines, Operating, Writing
  <1>5. LeftHalfway(p) \in SUBSET (Roots \X Names)
    BY <1>2, <1>3, <1>4 DEF LeftHalfway
  <1>6. CASE Quiet(p)
    BY <1>2, <1>6 DEF Quiet
  <1>7. CASE Fails(p)
    <2>1. author' \in [Roots -> [Names -> Procs \cup {None}]]
      BY <1>2, <1>4, <1>7 DEF Fails, Disowned
    <2>. QED
      BY <1>2, <1>5, <1>7, <2>1 DEF Fails
  <1>8. CASE Restarts(p)
    BY <1>2, <1>5, <1>8 DEF Restarts
  <1>9. CASE ReadIndex(p)
    <2>1. [at |-> "read", job |-> now[p].job, added |-> now[p].added, root |-> now[p].root,
           line |-> now[p].line, lines |-> index[now[p].root]] \in Activities
      BY <1>2, <1>4, <1>9 DEF ReadIndex, Writing, Activities
    <2>. QED
      BY <1>2, <1>9, <2>1 DEF ReadIndex, store
  <1>10. CASE WriteIndex(p)
    <2>1. now[p].lines \in Indexes /\ Writing(p)
      BY <1>2, <1>10, ActivityType DEF WriteIndex, Writing
    <2>2. Rewritten(now[p].lines, now[p]) \in Indexes
      BY <1>4, <2>1, RewrittenIs
    <2>3. Applying(now[p].job) \in Activities
      BY <1>4, <2>1 DEF Applying, Activities
    <2>4. LinesLost(p) \in SUBSET (Roots \X Names)
      BY <1>4, <2>1 DEF LinesLost, NoteAt
    <2>. QED
      BY <1>2, <1>4, <1>10, <2>1, <2>2, <2>3, <2>4 DEF WriteIndex
  <1>11. ASSUME NEW op \in Entries, op.line \in {op.text, Own}, Write(p, op), now[p].at = "apply"
         PROVE  StoreTypeOK'
    <2>1. op.root \in Roots /\ op.name \in Names /\ op.text \in Texts
      BY DEF Entries
    <2>2. Line(op.name, op.line) \in Lines
      BY <1>11, <2>1 DEF Line, Lines
    <2>3. Entry(p, TRUE, op.root, Line(op.name, op.line)) \in Activities
      BY <1>11, <2>1, <2>2, EntryType DEF Operating
    <2>4. excused' \in SUBSET (Roots \X Names)
      BY <1>2, <1>3, <1>11, <2>1 DEF Write
    <2>. QED
      BY <1>2, <1>11, <2>1, <2>3, <2>4 DEF Write, NoteLists
  <1>12. ASSUME NEW op \in Deletes, Delete(p, op), now[p].at = "apply" PROVE StoreTypeOK'
    <2>. DEFINE root == FirstHolder(Listed(p), op.name)
    <2>1. op.name \in Names /\ root \in Roots
      BY DEF Deletes, FirstHolder, Roots
    <2>2. Line(op.name, Listed(p)[root][op.name]) \in Lines
      BY <1>2, <2>1 DEF Line, Lines, NoteLists
    <2>3. Entry(p, FALSE, root, Line(op.name, Listed(p)[root][op.name])) \in Activities
      BY <1>12, <2>1, <2>2, EntryType DEF Operating
    <2>. HIDE DEF root
    <2>. QED
      BY <1>2, <1>12, <2>1, <2>3 DEF Delete, NoteLists, root
  <1>. QED
    BY <1>6, <1>7, <1>8, <1>9, <1>10, <1>11, <1>12 DEF StoreStep

-----------------------------------------------------------------------------
(* The marks, the lock and the consolidations keep their types.            *)
LEMMA LockTypeStep ==
  ASSUME NotesTypeOK, [Next]_vars PROVE LockTypeOK'
  <1>. USE MaxEventsAssumption DEF NotesTypeOK, LockTypeOK, clock, claims, Happens
  <1>1. CASE UNCHANGED vars
    BY <1>1 DEF vars
  <1>2. CASE Tick
    <2>1. \A age \in Ages : Older(age) \in Ages
      BY DEF Older, Ages
    <2>2. lock' \in [by : Procs \cup {Gone}, age : Ages]
      BY <1>2, <2>1 DEF Tick
    <2>3. shared' \in BOOLEAN /\ done' \in BOOLEAN
      BY <1>2 DEF Tick
    <2>. QED
      BY <1>2, <2>2, <2>3 DEF Tick
  <1>. SUFFICES ASSUME NEW p \in Procs,
                       \/ Start(p) \/ Claim(p) \/ Confirm(p) \/ Operate(p) \/ UpdateIndex(p)
                       \/ Finish(p) \/ Fail(p) \/ CancelExtraction(p) \/ Crash(p)
                PROVE  LockTypeOK'
    BY <1>1, <1>2 DEF Next
  <1>3. CASE EndRun(p)
    BY <1>3 DEF EndRun
  <1>4. CASE Gate(p)
    BY <1>4 DEF Gate
  <1>5. CASE Look(p)
    BY <1>5 DEF Look
  <1>6. ASSUME NEW job, BeginJob(p, job) PROVE LockTypeOK'
    BY <1>6 DEF BeginJob
  <1>7. CASE Start(p)
    BY <1>3, <1>4, <1>5, <1>6, <1>7 DEF Start, ReplyTo, CmdMemory, ObserveErrorPatterns
  <1>8. CASE Claim(p)
    BY <1>8 DEF Claim, Ages
  <1>9. CASE Confirm(p)
    BY <1>9 DEF Confirm
  <1>10. CASE Operate(p)
    BY <1>10 DEF Operate
  <1>11. CASE UpdateIndex(p)
    BY <1>11 DEF UpdateIndex
  <1>12. ASSUME NEW well \in BOOLEAN, EndJob(p, well), UNCHANGED <<scanned, made>>,
                events' \in 0..MaxEvents, Operating(p)
         PROVE  LockTypeOK'
    <2>1. now[p].job \in Jobs
      BY <1>12, ActivityType
    <2>2. CASE now[p].job = "extract"
      BY <1>12, <2>2 DEF EndJob
    <2>3. CASE now[p].job = "consolidate"
      BY <1>12, <2>3 DEF EndJob, Ages
    <2>4. CASE now[p].job \in {"command", "pattern"}
      BY <1>12, <2>4 DEF EndJob
    <2>. QED
      BY <2>1, <2>2, <2>3, <2>4 DEF Jobs
  <1>13. CASE Finish(p)
    BY <1>12, <1>13 DEF Finish, Operating
  <1>14. CASE Fail(p)
    <2>1. EndJob(p, FALSE) /\ UNCHANGED <<scanned, made>>
      BY <1>14 DEF Fail
    <2>2. Operating(p) /\ events' \in 0..MaxEvents
      BY <1>14 DEF Fail, Operating, Writing
    <2>. QED
      BY <1>12, <2>1, <2>2
  <1>15. CASE CancelExtraction(p)
    BY <1>15 DEF CancelExtraction
  <1>16. CASE Crash(p)
    BY <1>16 DEF Crash
  <1>. QED
    BY <1>7, <1>8, <1>9, <1>10, <1>11, <1>13, <1>14, <1>15, <1>16

(* What a process does beside the lock, and without ending a               *)
(* consolidation, leaves what is known of it.                              *)
LEMMA BesideLock ==
  ASSUME NotesTypeOK, LockInv, NEW p \in Procs, NEW a \in Activities,
         now' = [now EXCEPT ![p] = a], ~(a.at \in {"looked", "claimed"}),
         a.at \in {"apply", "wrote", "read"} /\ a.job = "consolidate" =>
           Consolidating(p) /\ (shared \/ NoneDue),
         UNCHANGED claims
  PROVE  LockInv'
  <1>1. \A q \in Procs : q # p => now'[q] = now[q]
    BY DEF NotesTypeOK, StoreTypeOK
  <1>2. now'[p] = a
    BY DEF NotesTypeOK, StoreTypeOK
  <1>. QED
    BY <1>1, <1>2 DEF LockInv, AloneInv, Acquiring, Operating, Consolidating, NoneDue, claims

(* Operations and their writes go on with the job that was begun.          *)
LEMMA JobGoesOn ==
  ASSUME NotesTypeOK, NEW p \in Procs, Operate(p) \/ UpdateIndex(p)
  PROVE  \E a \in Activities : /\ now' = [now EXCEPT ![p] = a] /\ Operating(p)
                               /\ a.at \in {"apply", "wrote", "read"} /\ a.job = now[p].job
  <1>1. now \in [Procs -> Activities]
    BY DEF NotesTypeOK, StoreTypeOK
  <1>2. CASE Operate(p)
    <2>1. /\ now[p].at = "apply" /\ Operating(p)
          /\ \/ \E op \in Entries : Skip(p, op) \/ (Valid(op) /\ Write(p, op))
             \/ \E op \in Deletes : Skip(p, op) \/ Delete(p, op)
      BY <1>2 DEF Operate, EntriesOf, DeletesOf, AddedByHand, PatternMemory, Creates, Operating,
           WriteEntry
    <2>2. ASSUME NEW op, Skip(p, op) PROVE now' = [now EXCEPT ![p] = now[p]]
      BY <1>1, <2>2 DEF Skip
    <2>3. ASSUME NEW op \in Entries, Valid(op), Write(p, op)
          PROVE  \E a \in Activities : /\ now' = [now EXCEPT ![p] = a]
                                       /\ a.at = "wrote" /\ a.job = now[p].job
      <3>. DEFINE a == Entry(p, TRUE, op.root, Line(op.name, op.line))
      <3>1. Line(op.name, op.line) \in Lines /\ op.root \in Roots
        BY <2>3 DEF Entries, Valid, Line, Lines
      <3>2. a \in Activities
        BY <2>1, <3>1, EntryType
      <3>3. a.at = "wrote" /\ a.job = now[p].job
        BY DEF Entry
      <3>. QED
        BY <2>3, <3>2, <3>3 DEF Write
    <2>4. ASSUME NEW op \in Deletes, Delete(p, op)
          PROVE  \E a \in Activities : /\ now' = [now EXCEPT ![p] = a]
                                       /\ a.at = "wrote" /\ a.job = now[p].job
      <3>. DEFINE root == FirstHolder(Listed(p), op.name)
                  a == Entry(p, FALSE, root, Line(op.name, Listed(p)[root][op.name]))
      <3>1. root \in Roots /\ op.name \in Names /\ Listed(p) \in NoteLists
        BY ListedType DEF NotesTypeOK, Deletes, FirstHolder, Roots
      <3>2. Line(op.name, Listed(p)[root][op.name]) \in Lines
        BY <3>1 DEF Line, Lines, NoteLists
      <3>3. a \in Activities
        BY <2>1, <3>1, <3>2, EntryType
      <3>4. a.at = "wrote" /\ a.job = now[p].job
        BY DEF Entry
      <3>. QED
        BY <2>4, <3>3, <3>4 DEF Delete
    <2>. QED
      BY <1>1, <2>1, <2>2, <2>3, <2>4
  <1>3. CASE UpdateIndex(p)
    <2>1. Operating(p) /\ Writing(p) /\ now[p].job \in Jobs
      BY <1>3, ActivityType DEF NotesTypeOK, UpdateIndex, ReadIndex, WriteIndex, Operating, Writing
    <2>2. CASE ReadIndex(p)
      <3>1. [at |-> "read", job |-> now[p].job, added |-> now[p].added, root |-> now[p].root,
             line |-> now[p].line, lines |-> index[now[p].root]] \in Activities
        BY <2>1, ActivityType DEF NotesTypeOK, StoreTypeOK, Activities
      <3>. QED
        BY <2>1, <2>2, <3>1 DEF ReadIndex
    <2>3. CASE WriteIndex(p)
      <3>1. Applying(now[p].job) \in Activities
        BY <2>1 DEF Applying, Activities
      <3>. QED
        BY <2>1, <2>3, <3>1 DEF WriteIndex, Applying
    <2>. QED
      BY <1>3, <2>2, <2>3 DEF UpdateIndex
  <1>. QED
    BY <1>2, <1>3

(* An acquisition ends, well or not, or another begins.                    *)
LEMMA LockStep ==
  ASSUME NotesTypeOK, LockInv, [Next]_vars PROVE LockInv'
  <1>. USE DEF LockTypeOK, StoreTypeOK, claims
  <1>0. /\ now \in [Procs -> Activities] /\ Free \in Activities /\ LockTypeOK
        /\ \A job \in Jobs : Applying(job) \in Activities
    BY DEF NotesTypeOK, Activities, Applying
  <1>1. CASE UNCHANGED vars
    BY <1>1 DEF vars, LockInv, AloneInv, Acquiring, Operating, Consolidating, NoneDue
  <1>2. CASE Tick
    <2>1. /\ \A q \in Procs : now'[q] = Free /\ con'[q] = con[q] /\ con[q] # "due"
          /\ lock'.by = lock.by /\ lock'.age = Older(lock.age)
          /\ lock.age = "old" => /\ ~shared' /\ ~done'
                                 /\ \A q \in Procs : ~Consolidating(q)
          /\ lock.age # "old" => shared' = shared /\ done' = done
      BY <1>0, <1>2 DEF Tick
    <2>. QED
      BY <1>0, <2>1 DEF LockInv, AloneInv, Acquiring, Operating, Consolidating, NoneDue, Free,
           Older, Ages
  <1>. SUFFICES ASSUME NEW p \in Procs,
                       \/ Start(p) \/ Claim(p) \/ Confirm(p) \/ Operate(p) \/ UpdateIndex(p)
                       \/ Finish(p) \/ Fail(p) \/ CancelExtraction(p) \/ Crash(p)
                PROVE  LockInv'
    BY <1>1, <1>2 DEF Next
  <1>3. CASE UNCHANGED <<now, claims>>
    BY <1>3 DEF LockInv, AloneInv, Acquiring, Operating, Consolidating, NoneDue
  <1>4. CASE Gate(p) /\ now[p] = Free
    BY <1>0, <1>4 DEF Gate, LockInv, AloneInv, Acquiring, Operating, Consolidating, NoneDue,
         DayPassed, Free
  <1>5. CASE Look(p) /\ now[p] = Free
    <2>1. /\ con[p] = "due" /\ lock' = lock /\ done' = done /\ lock.age # "old"
          /\ ~Acquiring(p) /\ ~Operating(p) /\ con \in [Procs -> {"no", "due", "asked"}]
      BY <1>0, <1>5 DEF Look, LockInv, NoneDue, Acquiring, Operating, Free
    <2>2. CASE ~Stale
      BY <1>0, <1>5, <2>1, <2>2 DEF Look, LockInv, AloneInv, Acquiring, Operating,
           Consolidating, NoneDue
    <2>3. CASE Stale
      <3>1. /\ now'[p] = [at |-> "looked"] /\ \A q \in Procs \ {p} : now'[q] = now[q]
            /\ con' = con /\ shared' = (shared \/ \E q \in Procs : Acquiring(q))
        BY <1>0, <1>5, <2>3 DEF Look
      <3>2. Acquiring(p)' /\ ~Operating(p)' /\ now'[p].at = "looked"
        BY <3>1 DEF Acquiring, Operating
      <3>3. \A q \in Procs : ~shared => ~Consolidating(q)
        BY <2>1, <2>3, ProcsAssumption DEF Stale, LockInv, AloneInv
      <3>4. \A q \in Procs \ {p} : /\ Acquiring(q)' = Acquiring(q) /\ Operating(q)' = Operating(q)
                                  /\ now'[q] = now[q]
        BY <3>1 DEF Acquiring, Operating
      <3>5. \A q \in Procs : Consolidating(q)' = Consolidating(q)
        BY <3>1 DEF Consolidating
      <3>6. NoneDue' = NoneDue
        BY <3>1 DEF NoneDue
      <3>7. /\ \A q \in Procs : Acquiring(q)' => con'[q] = "due"
            /\ \A q \in Procs : Operating(q)' /\ now'[q].job = "consolidate" => Consolidating(q)'
            /\ lock'.age = "old" => NoneDue'
        BY <2>1, <3>1, <3>2, <3>4, <3>5, <3>6 DEF LockInv
      <3>8. CASE shared' = TRUE
        BY <3>7, <3>8 DEF LockInv
      <3>9. CASE shared' # TRUE
        <4>1. ~shared /\ AloneInv /\ \A q \in Procs : ~Acquiring(q) /\ ~Consolidating(q)
          BY <1>0, <3>1, <3>3, <3>9 DEF LockInv
        <4>2. \A q \in Procs : now'[q].at = "claimed" => q # p /\ Acquiring(q)
          BY <3>2, <3>4 DEF Acquiring
        <4>3. AloneInv'
          BY <2>1, <3>1, <3>2, <3>4, <3>5, <3>6, <4>1, <4>2 DEF AloneInv
        <4>. QED
          BY <3>7, <4>3 DEF LockInv
      <3>. QED
        BY <3>8, <3>9
    <2>. QED
      BY <2>2, <2>3
  <1>6. ASSUME NEW job \in Jobs, BeginJob(p, job),
               job = "consolidate" => Consolidating(p) /\ NoneDue
        PROVE  LockInv'
    BY <1>0, <1>6, BesideLock DEF BeginJob, Applying
  <1>7. CASE Start(p)
    BY <1>3, <1>4, <1>5, <1>6, <1>7 DEF Start, ReplyTo, CmdMemory, ObserveErrorPatterns, Jobs,
         NoneDue, EndRun
  <1>8. CASE Claim(p)
    BY <1>0, <1>8 DEF Claim, LockInv, AloneInv, Acquiring, Operating, Consolidating, NoneDue
  <1>9. CASE Confirm(p)
    BY <1>0, <1>9 DEF Confirm, LockInv, AloneInv, Acquiring, Operating, Consolidating, NoneDue,
         Free
  <1>10. ASSUME EndJob(p, TRUE) \/ EndJob(p, FALSE), Operating(p)
         PROVE  LockInv'
    <2>1. CASE now[p].job = "consolidate"
      BY <1>0, <1>10, <2>1 DEF EndJob, LockInv, AloneInv, Acquiring, Operating, Consolidating,
           NoneDue, Free
    <2>2. CASE now[p].job # "consolidate"
      <3>1. now[p].job \in Jobs
        BY <1>10, ActivityType DEF NotesTypeOK
      <3>2. UNCHANGED claims /\ now' = [now EXCEPT ![p] = Free]
        BY <1>10, <2>2, <3>1 DEF EndJob, Jobs
      <3>. QED
        BY <1>0, <3>2, BesideLock DEF Free
    <2>. QED
      BY <2>1, <2>2
  <1>11. CASE Crash(p)
    BY <1>0, <1>11, ProcsAssumption DEF Crash, LockInv, AloneInv, Acquiring, Operating,
         Consolidating, NoneDue, Free
  <1>12. CASE Operate(p) \/ UpdateIndex(p)
    <2>1. PICK a \in Activities : /\ now' = [now EXCEPT ![p] = a] /\ Operating(p)
                                  /\ a.at \in {"apply", "wrote", "read"}
                                  /\ a.job = now[p].job
      BY <1>12, JobGoesOn
    <2>2. UNCHANGED claims
      BY <1>12 DEF Operate, UpdateIndex
    <2>3. a.job = "consolidate" => Consolidating(p) /\ (shared \/ NoneDue)
      BY <2>1 DEF LockInv, AloneInv
    <2>. QED
      BY <2>1, <2>2, <2>3, BesideLock
  <1>14. CASE Finish(p)
    BY <1>10, <1>14 DEF Finish, Operating
  <1>15. CASE Fail(p)
    BY <1>10, <1>15 DEF Fail, Operating, Writing
  <1>16. CASE CancelExtraction(p)
    BY <1>3, <1>16 DEF CancelExtraction
  <1>. QED
    BY <1>7, <1>8, <1>9, <1>11, <1>12, <1>14, <1>15, <1>16

-----------------------------------------------------------------------------
(* A list is read anew or still shows what the process wrote.              *)
LEMMA OwnNotesStep ==
  ASSUME NotesTypeOK, OwnNotesListed, [Next]_vars PROVE OwnNotesListed'
  <1>. USE ProcsAssumption
  <1>0. StoreTypeOK
    BY DEF NotesTypeOK
  <1>1. CASE UNCHANGED <<store, now>>
    BY <1>1 DEF store, OwnNotesListed, Writing
  <1>. SUFFICES ASSUME NEW p \in Procs, StoreStep(p) PROVE OwnNotesListed'
    BY <1>1, AnyStoreStep DEF vars, store
  <1>. SUFFICES ASSUME NEW q \in Procs, NEW root \in Roots, NEW name \in Names,
                       cache'[q] # NoCache, notes'[root][name] # None,
                       author'[root][name] = q
                PROVE  \/ cache'[q][root][name] # None
                       \/ /\ Writing(q)' /\ now'[q].added
                          /\ now'[q].root = root /\ now'[q].line.name = name
    BY DEF OwnNotesListed
  <1>2. /\ notes \in NoteLists /\ cache \in [Procs -> NoteLists \cup {NoCache}]
        /\ now \in [Procs -> Activities] /\ author \in [Roots -> [Names -> Procs \cup {None}]]
    BY <1>0 DEF StoreTypeOK
  <1>3. cache[q] # NoCache /\ notes[root][name] # None /\ author[root][name] = q =>
          \/ cache[q][root][name] # None
          \/ Writing(q) /\ now[q].added /\ now[q].root = root /\ now[q].line.name = name
    BY DEF OwnNotesListed
  <1>4. Listed(q)[root][name] = None /\ ~Writing(q) =>
          notes[root][name] = None \/ author[root][name] # q
    BY <1>3 DEF Listed
  <1>5. CASE Quiet(p)
    BY <1>2, <1>3, <1>4, <1>5 DEF Quiet, Writing
  <1>6. CASE Fails(p)
    <2>1. CASE Writing(p) /\ now[p].added
      <3>1. now[p].root \in Roots /\ now[p].line.name \in Names
        BY <1>0, <2>1, ActivityType DEF Lines
      <3>2. /\ author[root][name] = q
            /\ q = p => ~(now[p].root = root /\ now[p].line.name = name)
        BY <1>2, <1>6, <2>1, <3>1 DEF Fails, Disowned
      <3>. QED
        BY <1>2, <1>3, <1>6, <3>2 DEF Fails, Writing
    <2>2. CASE ~(Writing(p) /\ now[p].added)
      BY <1>2, <1>3, <1>6, <2>2 DEF Fails, Disowned, Writing
    <2>. QED
      BY <2>1, <2>2
  <1>7. CASE Restarts(p)
    BY <1>2, <1>3, <1>7 DEF Restarts, Writing
  <1>8. CASE ReadIndex(p)
    BY <1>2, <1>3, <1>8 DEF ReadIndex, store, Writing
  <1>9. CASE WriteIndex(p)
    BY <1>2, <1>3, <1>9 DEF WriteIndex, Writing
  <1>10. ASSUME NEW op \in Entries, Write(p, op), now[p].at = "apply"
         PROVE  \/ cache'[q][root][name] # None
                \/ /\ Writing(q)' /\ now'[q].added
                   /\ now'[q].root = root /\ now'[q].line.name = name
    <2>1. op.root \in Roots /\ op.name \in Names
      BY DEF Entries
    <2>2. CASE root = op.root /\ name = op.name
      BY <1>2, <1>10, <2>1, <2>2 DEF Write, Entry, Line, Writing
    <2>3. CASE ~(root = op.root /\ name = op.name)
      <3>1. notes[root][name] # None /\ author[root][name] = q
        BY <1>2, <1>10, <2>1, <2>3 DEF Write, NoteLists
      <3>. QED
        BY <1>2, <1>3, <1>4, <1>10, <3>1 DEF Write, Writing
    <2>. QED
      BY <2>2, <2>3
  <1>11. ASSUME NEW op \in Deletes, Delete(p, op), now[p].at = "apply"
         PROVE  \/ cache'[q][root][name] # None
                \/ /\ Writing(q)' /\ now'[q].added
                   /\ now'[q].root = root /\ now'[q].line.name = name
    <2>1. op.name \in Names /\ FirstHolder(Listed(p), op.name) \in Roots
      BY DEF Deletes, FirstHolder, Roots
    <2>2. notes[root][name] # None /\ author[root][name] = q
      BY <1>2, <1>11, <2>1 DEF Delete, NoteLists
    <2>. QED
      BY <1>2, <1>3, <1>4, <1>11, <2>2 DEF Delete, Writing
  <1>. QED
    BY <1>5, <1>6, <1>7, <1>8, <1>9, <1>10, <1>11 DEF StoreStep

(* What makes a note safe, and stays so.                                   *)
Safe(root, name) ==
  /\ \/ HasLine(index[root], name)
     \/ NoteAt(root, name) \in excused
     \/ \E p \in Procs : Adding(p, root, name)
  /\ \A p \in Procs : Removing(p, root, name) => NoteAt(root, name) \in excused

LEMMA NoteInvSafe ==
  NoteInv <=> \A root \in Roots, name \in Names : notes[root][name] # None => Safe(root, name)
  BY DEF NoteInv, NoteIndexed, RemovedExcused, Safe, Adding

(* The process at work rewrites an index: what it drops is excused.        *)
LEMMA WriteIndexSafe ==
  ASSUME NotesTypeOK, NEW p \in Procs, WriteIndex(p), NEW root \in Roots, NEW name \in Names,
         Safe(root, name)
  PROVE  Safe(root, name)'
  <1>. DEFINE mine == now[p].root
              lines == now[p].lines
              others == Without(lines, now[p].line)
              kept == Rewritten(lines, now[p])
  <1>1. /\ mine \in Roots /\ now[p].added \in BOOLEAN /\ now[p].line \in Lines
        /\ now[p].line.name \in Names /\ lines \in Indexes /\ Writing(p)
        /\ index \in [Roots -> Indexes] /\ now \in [Procs -> Activities]
    BY ActivityType DEF NotesTypeOK, StoreTypeOK, WriteIndex, Writing, Lines
  <1>2. /\ now[p].added => HasLine(kept, now[p].line.name)
        /\ \A n : HasLine(lines, n) /\ ~HasLine(kept, n) =>
             IF now[p].added THEN Len(others) >= MaxLines /\ HasLine(others, n)
             ELSE n = now[p].line.name
    BY <1>1, RewrittenIs
  <1>3. /\ index' = [index EXCEPT ![mine] = kept]
        /\ excused' = (excused \ Relisted(p)) \cup LinesLost(p)
        /\ ~Writing(p)' /\ \A q \in Procs \ {p} : now'[q] = now[q]
    BY <1>1 DEF WriteIndex, Applying, Writing
  <1>. HIDE DEF kept, others, lines, mine
  <1>4. \A q \in Procs : /\ Removing(q, root, name)' => q # p /\ Removing(q, root, name)
                         /\ q # p /\ Adding(q, root, name) => Adding(q, root, name)'
    BY <1>3 DEF Adding, Removing, Writing
  <1>5. CASE root # mine \/ name # now[p].line.name \/ ~now[p].added
    <2>1. NoteAt(root, name) \in excused => NoteAt(root, name) \in excused'
      BY <1>3, <1>5 DEF Relisted, NoteAt, mine
    <2>2. ASSUME HasLine(index[root], name)
          PROVE  HasLine(index'[root], name) \/ NoteAt(root, name) \in excused'
      <3>1. CASE root # mine
        BY <1>1, <1>3, <2>2, <3>1
      <3>2. CASE root = mine /\ lines # index[root] /\ ~HasLine(kept, name)
        BY <1>3, <2>2, <3>2 DEF LinesLost, mine, lines, kept
      <3>3. CASE root = mine /\ lines = index[root] /\ ~HasLine(kept, name)
        <4>1. CASE now[p].added
          BY <1>2, <1>3, <2>2, <3>3, <4>1 DEF LinesLost, mine, lines, kept, others
        <4>2. CASE ~now[p].added
          <5>1. Removing(p, root, name)
            BY <1>1, <1>2, <2>2, <3>3, <4>2 DEF Removing, mine
          <5>. QED
            BY <2>1, <5>1 DEF Safe
        <4>. QED
          BY <4>1, <4>2
      <3>. QED
        BY <1>1, <1>3, <3>1, <3>2, <3>3
    <2>3. Adding(p, root, name) => FALSE
      BY <1>5 DEF Adding, mine
    <2>. QED
      BY <1>4, <2>1, <2>2, <2>3 DEF Safe
  <1>6. CASE root = mine /\ name = now[p].line.name /\ now[p].added
    <2>1. HasLine(index'[root], name)
      BY <1>1, <1>2, <1>3, <1>6
    <2>2. ASSUME NEW q \in Procs, Removing(q, root, name)'
          PROVE  NoteAt(root, name) \in excused'
      <3>1. Removing(q, root, name) /\ q # p /\ NoteAt(root, name) \in excused
        BY <1>4, <2>2 DEF Safe
      <3>2. BeingRemoved(p, now[p].root, now[p].line.name)
        BY <1>6, <3>1 DEF BeingRemoved, Removing, mine
      <3>. QED
        BY <1>3, <3>1, <3>2 DEF Relisted
    <2>. QED
      BY <2>1, <2>2 DEF Safe
  <1>. QED
    BY <1>5, <1>6

(* A note keeps its line, or what took the line excuses it.                *)
LEMMA NoteStep ==
  ASSUME NotesTypeOK, NoteInv, [Next]_vars PROVE NoteInv'
  <1>0. StoreTypeOK
    BY DEF NotesTypeOK
  <1>1. CASE UNCHANGED <<store, now>>
    BY <1>1 DEF store, NoteInv, NoteIndexed, RemovedExcused, Removing, Writing
  <1>. SUFFICES ASSUME NEW p \in Procs, StoreStep(p), NEW root \in Roots, NEW name \in Names,
                       notes'[root][name] # None
                PROVE  Safe(root, name)'
    BY <1>1, AnyStoreStep DEF vars, store, NoteInv, NoteIndexed, RemovedExcused, Safe, Adding
  <1>2. /\ notes \in NoteLists /\ index \in [Roots -> Indexes] /\ now \in [Procs -> Activities]
    BY <1>0 DEF StoreTypeOK
  <1>3. notes[root][name] # None => Safe(root, name)
    BY NoteInvSafe
  <1>4. CASE Quiet(p)
    <2>1. \A q \in Procs : /\ Removing(q, root, name)' = Removing(q, root, name)
                           /\ Adding(q, root, name)' = Adding(q, root, name)
      BY <1>2, <1>4 DEF Quiet, Removing, Adding, Writing
    <2>. QED
      BY <1>3, <1>4, <2>1 DEF Quiet, Safe
  <1>5. CASE Fails(p) \/ Restarts(p)
    <2>1. /\ notes' = notes /\ index' = index /\ excused' = LeftHalfway(p)
          /\ excused \subseteq excused'
      BY <1>5 DEF Fails, Restarts, LeftHalfway
    <2>2. \A q \in Procs : /\ Removing(q, root, name)' => Removing(q, root, name)
                           /\ q # p /\ Adding(q, root, name) => Adding(q, root, name)'
      BY <1>2, <1>5 DEF Fails, Restarts, Removing, Adding, Writing, Free
    <2>3. Adding(p, root, name) => NoteAt(root, name) \in excused'
      BY <2>1 DEF Adding, LeftHalfway
    <2>. QED
      BY <1>3, <2>1, <2>2, <2>3 DEF Safe
  <1>6. CASE ReadIndex(p)
    <2>1. \A q \in Procs : /\ Removing(q, root, name)' = Removing(q, root, name)
                           /\ Adding(q, root, name)' = Adding(q, root, name)
      BY <1>2, <1>6 DEF ReadIndex, Removing, Adding, Writing
    <2>. QED
      BY <1>3, <1>6, <2>1 DEF ReadIndex, store, Safe
  <1>7. CASE WriteIndex(p)
    BY <1>3, <1>7, WriteIndexSafe DEF WriteIndex
  <1>8. ASSUME NEW op \in Entries, Write(p, op), now[p].at = "apply"
        PROVE  Safe(root, name)'
    <2>1. /\ op.root \in Roots /\ op.name \in Names
          /\ excused \subseteq excused' /\ index' = index
          /\ now'[p] = Entry(p, TRUE, op.root, Line(op.name, op.line))
          /\ \A q \in Procs \ {p} : now'[q] = now[q]
          /\ ~Writing(p)
      BY <1>2, <1>8 DEF Entries, Write, Writing
    <2>2. \A q \in Procs : /\ Removing(q, root, name)' => q # p /\ Removing(q, root, name)
                           /\ Adding(q, root, name) => q # p /\ Adding(q, root, name)'
      BY <2>1 DEF Removing, Adding, Writing, Entry
    <2>3. CASE root = op.root /\ name = op.name
      <3>1. Adding(p, root, name)'
        BY <2>1, <2>3 DEF Adding, Writing, Entry, Line
      <3>2. ASSUME NEW q \in Procs, Removing(q, root, name)'
            PROVE  NoteAt(root, name) \in excused'
        <4>1. BeingRemoved(p, op.root, op.name)
          BY <2>2, <2>3, <3>2 DEF BeingRemoved, Removing
        <4>. QED
          BY <1>8, <2>3, <4>1 DEF Write
      <3>. QED
        BY <3>1, <3>2 DEF Safe
    <2>4. CASE ~(root = op.root /\ name = op.name)
      <3>1. notes[root][name] # None
        BY <1>2, <1>8, <2>1, <2>4 DEF Write, NoteLists
      <3>. QED
        BY <1>3, <2>1, <2>2, <3>1 DEF Safe
    <2>. QED
      BY <2>3, <2>4
  <1>9. ASSUME NEW op \in Deletes, Delete(p, op), now[p].at = "apply"
        PROVE  Safe(root, name)'
    <2>. DEFINE mine == FirstHolder(Listed(p), op.name)
    <2>1. /\ op.name \in Names /\ mine \in Roots
          /\ notes' = [notes EXCEPT ![mine][op.name] = None]
          /\ now'[p] = Entry(p, FALSE, mine, Line(op.name, Listed(p)[mine][op.name]))
          /\ \A q \in Procs \ {p} : now'[q] = now[q]
          /\ UNCHANGED <<index, excused>> /\ ~Writing(p)
      BY <1>2, <1>9 DEF Delete, Deletes, FirstHolder, Roots, Writing
    <2>. HIDE DEF mine
    <2>2. ~(root = mine /\ name = op.name) /\ notes[root][name] # None
      BY <1>2, <2>1 DEF NoteLists
    <2>3. \A q \in Procs : /\ Removing(q, root, name)' => q # p /\ Removing(q, root, name)
                           /\ Adding(q, root, name) => q # p /\ Adding(q, root, name)'
      BY <2>1, <2>2 DEF Removing, Adding, Writing, Entry, Line
    <2>. QED
      BY <1>3, <2>1, <2>2, <2>3 DEF Safe
  <1>. QED
    BY <1>4, <1>5, <1>6, <1>7, <1>8, <1>9 DEF StoreStep

-----------------------------------------------------------------------------
LEMMA MemoryInvInit == ASSUME Init PROVE MemoryInv
  <1>. USE MaxLinesAssumption, MaxEventsAssumption DEF Init, InitStore
  <1>1. StoreTypeOK
    <2>1. Empty \in NoteLists /\ Empty \in [Roots -> [Names -> Procs \cup {None}]]
      BY DEF Empty, NoteLists
    <2>2. <<>> \in Indexes /\ Free \in Activities
      BY DEF Indexes, Activities
    <2>. QED
      BY <2>1, <2>2 DEF StoreTypeOK
  <1>2. LockTypeOK
    <2>1. lock \in [by : Procs \cup {Gone}, age : Ages]
      BY DEF NoLock, Ages
    <2>2. made \in BOOLEAN /\ shared \in BOOLEAN /\ done \in BOOLEAN
      OBVIOUS
    <2>3. /\ ran \in [Procs -> BOOLEAN] /\ scanned \in [Procs -> BOOLEAN]
          /\ ending \in [Procs -> {"no", "asked", "gate"}]
          /\ con \in [Procs -> {"no", "due", "asked"}] /\ events \in 0..MaxEvents
      OBVIOUS
    <2>. QED
      BY <2>1, <2>2, <2>3 DEF LockTypeOK
  <1>3. LockInv
    BY DEF LockInv, AloneInv, Acquiring, Operating, Consolidating, NoneDue, Free, NoLock
  <1>4. OwnNotesListed /\ NoteInv
    BY DEF OwnNotesListed, NoteInv, NoteIndexed, RemovedExcused, Removing, Writing, Free, Empty
  <1>. QED
    BY <1>1, <1>2, <1>3, <1>4 DEF MemoryInv, NotesTypeOK

(* The inductive invariant of the store and of the lock.                   *)
THEOREM MemoryInvariant == Spec => []MemoryInv
  <1>1. Init => MemoryInv
    BY MemoryInvInit
  <1>2. MemoryInv /\ [Next]_vars => MemoryInv'
    BY StoreTypeStep, LockTypeStep, LockStep, OwnNotesStep, NoteStep DEF MemoryInv, NotesTypeOK
  <1>. QED
    BY <1>1, <1>2, PTL DEF Spec

(* The store, the lock and the marks keep their types, whatever number of  *)
(* processes, and no index grows beyond its limit.                         *)
THEOREM MemoryTypeCorrect == Spec => []NotesTypeOK
  <1>1. MemoryInv => NotesTypeOK
    BY DEF MemoryInv
  <1>. QED
    BY <1>1, MemoryInvariant, PTL

(* Every note is in the index of its root, or a failure, an overlap or the *)
(* limit has taken its line: no order of creates, deletes and rewrites     *)
(* loses one otherwise (store.py, _append_index_line, _write_index).       *)
THEOREM NotesAreIndexed == Spec => []NoteIndexed
  <1>1. MemoryInv => NoteIndexed
    BY DEF MemoryInv, NoteInv
  <1>. QED
    BY <1>1, MemoryInvariant, PTL

(* Two consolidations overlap only through the race for the lock, however  *)
(* many processes run, crash and start again.                              *)
THEOREM ConsolidatesAlone == Spec => []OneConsolidation
  <1>1. MemoryInv => OneConsolidation
    BY DEF MemoryInv, LockInv, AloneInv, OneConsolidation, NotesTypeOK, LockTypeOK
  <1>. QED
    BY <1>1, MemoryInvariant, PTL

(* The mark in the lock file keeps the next consolidation a day away,      *)
(* through crashes and failures of others.                                 *)
THEOREM ConsolidationsApart == Spec => DayApart
  <1>1. MemoryInv => [\A p \in Procs : Confirm(p) /\ con'[p] = "asked" /\ done => shared]_vars
    <2>. SUFFICES ASSUME MemoryInv, NEW p \in Procs, Confirm(p), done
                  PROVE  shared
      OBVIOUS
    <2>1. con[p] = "due"
      BY DEF MemoryInv, LockInv, Confirm, Acquiring
    <2>. QED
      BY <2>1 DEF MemoryInv, LockInv, AloneInv
  <1>. QED
    BY <1>1, MemoryInvariant, PTL DEF DayApart

(* No create replaces a note its own process has written, whatever failed, *)
(* crashed or was written by others in between.                            *)
THEOREM OwnNotesKept == Spec => CreateKeepsOwn
  <1>1. MemoryInv =>
          [\A op \in Entries, p \in Procs :
             /\ op.action = "create"
             /\ now[p].at = "apply"
             /\ WriteEntry(p, op)
             => notes[op.root][op.name] = None \/ author[op.root][op.name] # p]_<<store, now>>
    <2>. SUFFICES ASSUME MemoryInv, NEW op \in Entries, NEW p \in Procs, op.action = "create",
                         now[p].at = "apply", WriteEntry(p, op)
                  PROVE  notes[op.root][op.name] = None \/ author[op.root][op.name] # p
      OBVIOUS
    <2>1. op.root \in Roots /\ op.name \in Names
      BY DEF Entries
    <2>2. Listed(p)[op.root][op.name] = None
      BY <2>1 DEF WriteEntry, Write, Known, Holders
    <2>3. ~Writing(p)
      BY DEF Writing
    <2>. QED
      BY <2>1, <2>2, <2>3 DEF MemoryInv, OwnNotesListed, Listed
  <1>. QED
    BY <1>1, MemoryInvariant, PTL DEF CreateKeepsOwn

-----------------------------------------------------------------------------
(***************************************************************************)
(* Theorems about Tasks, for any number of subagents, cancellations and    *)
(* switches: the end of a subagent is told once, a final status is the     *)
(* true one, and the work left in a worktree is kept and reported.  And    *)
(* Tasks implements Delivery: every step, seen through Stage, Owner and    *)
(* Told, is a step of Delivery or none at all, because the invariant says  *)
(* what a task that is finalized, adopted or answered has told before.     *)
(***************************************************************************)

(* What ties a task's deliveries to how far its coroutine is.              *)
DeliveryInv(t) ==
  /\ t.mode = "foreground" <=> t.answer \in {"waiting", "result", "error"}
  /\ t.notices >= 1 <=> t.final
  /\ t.notices <= 1 \/ Withdrawn(t)
  /\ t.final => t.mode \in Background /\ t.agent \notin InProgress
  /\ t.mode = "launched" /\ ~t.final => t.agent \in InProgress
  /\ Answered(t) => t.agent \notin InProgress

(* The status of one task, as StatusTrue has it of all; a foreground       *)
(* subagent, which may be adopted, has none but the preset one.            *)
StatusInv(t) ==
  /\ t.mode = "foreground" => t.status = "running" /\ ~t.updated
  /\ t.mode \in Background /\ ~t.updated =>
       /\ t.status = "running" <=> ~t.final
       /\ t.status = "completed" => t.agent = "ok" /\ ~(t.mode = "adopted" /\ t.asked)
       /\ t.status = "failed" => t.agent # "ok" \/ t.asked

(* An external task has no subagent.                                       *)
ExternalInv(t) == t.mode = "external" => t.agent = "created"

(* A worktree with changes is never removed; a subagent that never ran has *)
(* left none, and the cleanup tells of those of the others.                *)
WorkInv(t) ==
  /\ t.tree \in {"clean", "changed"} => t.listed
  /\ t.worked => t.tree = "changed" /\ t.agent \notin {"created", "raised", "cancelled"}
  /\ t.tree = "changed" => t.worked
  /\ t.worked /\ Deliveries(t) >= 1 => t.told

TaskInv(t) ==
  /\ t \in TaskType
  /\ DeliveryInv(t) /\ StatusInv(t) /\ WorkInv(t) /\ ExternalInv(t)

TasksInv ==
  /\ task \in Seq(TaskType) /\ Len(task) <= MaxTasks
  /\ acts \in 0..MaxActs
  /\ \A i \in DOMAIN task : TaskInv(task[i])

-----------------------------------------------------------------------------
(* Every new task satisfies the invariant.                                 *)
LEMMA NewTaskInv ==
  ASSUME NEW mode \in {"foreground", "launched", "external"}, NEW isolated \in BOOLEAN
  PROVE  TaskInv(NewTask(mode, isolated))
  BY DEF NewTask, TaskInv, TaskType, DeliveryInv, StatusInv, WorkInv, ExternalInv, Answered,
         Deliveries, Background, InProgress, Withdrawn

(* A cleanup changes the worktree and what was told of it only, and tells  *)
(* of every change.                                                        *)
SameButTree(c, t) ==
  /\ c \in TaskType
  /\ c.mode = t.mode /\ c.agent = t.agent /\ c.asked = t.asked /\ c.status = t.status
  /\ c.final = t.final /\ c.notices = t.notices /\ c.updated = t.updated
  /\ c.answer = t.answer /\ c.worked = t.worked

(* Removing worktrees without changes disturbs nothing.                    *)
LEMMA RemovalsInv ==
  ASSUME NEW t \in TaskType, TaskInv(t), t.listed, t.tree # "changed",
         NEW r \in Removals(t)
  PROVE  TaskInv(r)
  <1>1. SameButTree(r, t) /\ (r.tree \in {"clean", "changed"} => r.listed)
    BY ZenonT(30) DEF Removals, SameButTree, TaskType
  <1>2. ~t.worked /\ r.tree # "changed"
    BY DEF Removals, TaskInv, WorkInv, TaskType
  <1>3. WorkInv(r)
    BY <1>1, <1>2 DEF SameButTree, WorkInv
  <1>4. DeliveryInv(r)
    BY <1>1 DEF SameButTree, TaskInv, DeliveryInv, Answered, Withdrawn
  <1>5. StatusInv(r)
    BY <1>1 DEF SameButTree, TaskInv, StatusInv
  <1>. QED
    BY <1>1, <1>3, <1>4, <1>5 DEF SameButTree, TaskInv, ExternalInv

LEMMA CleanedKeeps ==
  ASSUME NEW t \in TaskType, NEW c \in Cleaned(t),
         t.tree \in {"clean", "changed"} => t.listed
  PROVE  /\ SameButTree(c, t)
         /\ c.tree \in {"clean", "changed"} => c.listed
         /\ t.tree = "changed" <=> c.tree = "changed"
         /\ t.tree = "changed" => c.told
  <1>1. CASE t.tree = "none"
    BY <1>1 DEF Cleaned, SameButTree
  <1>2. CASE t.tree # "none" /\ (~t.listed \/ t.tree = "changed")
    BY <1>2, ZenonT(30) DEF Cleaned, SameButTree, TaskType
  <1>3. CASE t.tree # "none" /\ t.listed /\ t.tree # "changed"
    <2>1. PICK r \in Removals(t) : c = [r EXCEPT !.told = r.listed]
      BY <1>3 DEF Cleaned
    <2>. QED
      BY <1>3, <2>1, ZenonT(30) DEF Removals, SameButTree, TaskType
  <1>. QED
    BY <1>1, <1>2, <1>3

(* The one place where a task is finalized: it must not have been before,  *)
(* unless it was withdrawn, its coroutine has ended, and the status tells  *)
(* how.                                                                    *)
LEMMA FinalizedInv ==
  ASSUME NEW t \in TaskType, NEW status \in {"completed", "failed"},
         WorkInv(t), t.notices = 0 \/ Withdrawn(t),
         t.mode \in Background, t.agent \notin InProgress, t.answer \in {"started", "none"},
         status = "completed" => t.agent = "ok" /\ ~(t.mode = "adopted" /\ t.asked),
         status = "failed" => t.agent # "ok" \/ t.asked,
         NEW f \in Finalized(t, status)
  PROVE  TaskInv(f)
  <1>1. PICK c \in Cleaned(t) :
          f = [c EXCEPT !.status = status, !.final = TRUE, !.notices = @ + 1]
    BY DEF Finalized
  <1>2. /\ SameButTree(c, t)
        /\ c.tree \in {"clean", "changed"} => c.listed
        /\ t.tree = "changed" <=> c.tree = "changed"
        /\ t.tree = "changed" => c.told
    BY CleanedKeeps DEF WorkInv
  <1>3. f \in TaskType
    <2>1. c \in TaskType /\ c.notices \in Nat
      BY <1>2 DEF SameButTree, TaskType
    <2>2. [c EXCEPT !.status = status] \in TaskType
      BY <2>1 DEF TaskType
    <2>3. [c EXCEPT !.status = status, !.final = TRUE] \in TaskType
      BY <2>2 DEF TaskType
    <2>4. ASSUME NEW d \in TaskType, NEW n \in Nat
          PROVE  [d EXCEPT !.notices = n] \in TaskType
      BY DEF TaskType
    <2>5. c.notices + 1 \in Nat
      BY <2>1
    <2>. QED
      BY <1>1, <2>3, <2>4, <2>5
  <1>4. DeliveryInv(f)
    <2>1. /\ f.mode = t.mode /\ f.agent = t.agent /\ f.answer = t.answer /\ f.final
          /\ f.notices = t.notices + 1 /\ t.notices \in Nat
      BY <1>1, <1>2 DEF SameButTree, TaskType
    <2>. QED
      BY <2>1 DEF DeliveryInv, Answered, Background, Withdrawn
  <1>5. StatusInv(f)
    BY <1>1, <1>2 DEF SameButTree, TaskType, StatusInv, Background
  <1>6. WorkInv(f)
    BY <1>1, <1>2 DEF SameButTree, TaskType, WorkInv
  <1>7. ExternalInv(f)
    BY <1>1, <1>2 DEF SameButTree, TaskType, ExternalInv, Background
  <1>. QED
    BY <1>3, <1>4, <1>5, <1>6, <1>7 DEF TaskInv

(* A coroutine that was in progress ends.                                  *)
LEMMA EndedInv ==
  ASSUME NEW t \in TaskType, TaskInv(t), t.mode # "external", t.agent \in InProgress,
         NEW how \in {"ok", "okAfterRetry", "error", "raised"},
         how = "raised" <=> t.agent = "created",
         NEW e \in Ended(t, how)
  PROVE  TaskInv(e)
  <1>. DEFINE d == [t EXCEPT !.agent = how]
  <1>1. d \in TaskType
    BY DEF TaskType
  <1>2. /\ d.agent = how /\ d.agent \notin InProgress
        /\ d.mode = t.mode /\ d.asked = t.asked /\ d.status = t.status
        /\ d.final = t.final /\ d.notices = t.notices /\ d.updated = t.updated
        /\ d.answer = t.answer /\ d.tree = t.tree /\ d.listed = t.listed
        /\ d.told = t.told /\ d.worked = t.worked
    BY DEF TaskType, InProgress
  <1>3. ~t.final /\ t.notices = 0 /\ ~Answered(t)
    BY DEF TaskInv, DeliveryInv, TaskType, Withdrawn, InProgress
  <1>4. WorkInv(d)
    <2>1. Deliveries(d) = Deliveries(t)
      BY <1>2 DEF Deliveries, Answered
    <2>. QED
      BY <1>2, <2>1 DEF TaskInv, WorkInv, InProgress
  <1>5. CASE t.mode = "launched"
    <2>1. e \in Finalized(d, StatusOf(how))
      BY <1>5 DEF Ended
    <2>2. StatusOf(how) \in {"completed", "failed"} /\ (StatusOf(how) = "completed" <=> how = "ok")
      BY DEF StatusOf
    <2>3. d.mode \in Background /\ d.mode # "adopted" /\ d.answer \in {"started", "none"}
      BY <1>2, <1>3, <1>5 DEF Background, TaskInv, TaskType, DeliveryInv
    <2>. QED
      BY <1>1, <1>2, <1>3, <1>4, <2>1, <2>2, <2>3, FinalizedInv
  <1>6. CASE t.mode # "launched"
    <2>1. e = d
      BY <1>6 DEF Ended
    <2>2. DeliveryInv(d)
      BY <1>2, <1>3, <1>6 DEF TaskInv, DeliveryInv, Answered, Withdrawn
    <2>3. StatusInv(d)
      BY <1>2, <1>3 DEF TaskInv, StatusInv, TaskType
    <2>. QED
      BY <1>1, <1>2, <1>4, <2>1, <2>2, <2>3 DEF TaskInv, ExternalInv
  <1>. QED
    BY <1>5, <1>6

(* Changing one task to one that satisfies the invariant keeps it for all. *)
LEMMA ChangeInv ==
  ASSUME TasksInv, NEW i \in DOMAIN task, NEW outcomes,
         \A t \in outcomes : TaskInv(t), Change(i, outcomes)
  PROVE  /\ task' \in Seq(TaskType) /\ Len(task') <= MaxTasks
         /\ \A j \in DOMAIN task' : TaskInv(task'[j])
  <1>1. PICK t \in outcomes : task' = [task EXCEPT ![i] = t]
    BY DEF Change
  <1>2. TaskInv(t) /\ t \in TaskType
    BY DEF TaskInv
  <1>3. task \in Seq(TaskType) /\ Len(task) <= MaxTasks
    BY DEF TasksInv
  <1>4. task' \in Seq(TaskType) /\ Len(task') = Len(task) /\ DOMAIN task' = DOMAIN task
    BY <1>1, <1>2, <1>3
  <1>5. ASSUME NEW j \in DOMAIN task' PROVE TaskInv(task'[j])
    <2>1. CASE j = i
      BY <1>1, <1>2, <1>4, <2>1
    <2>2. CASE j # i
      BY <1>1, <1>4, <2>2 DEF TasksInv
    <2>. QED
      BY <2>1, <2>2
  <1>. QED
    BY <1>3, <1>4, <1>5

(* So does adding one.                                                     *)
LEMMA AppendInv ==
  ASSUME TasksInv, Len(task) < MaxTasks, NEW t, TaskInv(t), task' = Append(task, t)
  PROVE  /\ task' \in Seq(TaskType) /\ Len(task') <= MaxTasks
         /\ \A j \in DOMAIN task' : TaskInv(task'[j])
  <1>. USE TasksAssumption
  <1>1. task \in Seq(TaskType) /\ t \in TaskType
    BY DEF TasksInv, TaskInv
  <1>2. task' \in Seq(TaskType) /\ Len(task') = Len(task) + 1
    BY <1>1
  <1>3. ASSUME NEW j \in DOMAIN task' PROVE TaskInv(task'[j])
    BY <1>1, <1>2 DEF TasksInv
  <1>. QED
    BY <1>1, <1>2, <1>3
-----------------------------------------------------------------------------
(* No action breaks the invariant of a task.                               *)
LEMMA TaskStep ==
  ASSUME TasksInv, TasksNext
  PROVE  /\ task' \in Seq(TaskType) /\ Len(task') <= MaxTasks
         /\ \A j \in DOMAIN task' : TaskInv(task'[j])
  <1>. DEFINE KeptTree == /\ task' \in Seq(TaskType) /\ Len(task') <= MaxTasks
                      /\ \A j \in DOMAIN task' : TaskInv(task'[j])
  <1>0. \A i \in DOMAIN task : TaskInv(task[i]) /\ task[i] \in TaskType
    BY DEF TasksInv, TaskInv
  <1>1. ASSUME NEW isolated \in BOOLEAN, Launch(isolated) \/ Foreground(isolated)
        PROVE  KeptTree
    BY <1>1, NewTaskInv, AppendInv DEF Launch, Foreground, MayCall
  <1>2. CASE TaskCreate
    BY <1>2, NewTaskInv, AppendInv DEF TaskCreate
  <1>3. CASE RemoveTrees
    <2>1. /\ task' \in [DOMAIN task -> UNION {Removals(task[i]) : i \in DOMAIN task}]
          /\ \A i \in DOMAIN task :
               task'[i] \in IF task[i].listed /\ task[i].tree # "changed"
                           THEN Removals(task[i]) ELSE {task[i]}
      BY <1>3 DEF RemoveTrees
    <2>2. \A i \in DOMAIN task : TaskInv(task'[i]) /\ task'[i] \in TaskType
      BY <1>0, <2>1, RemovalsInv DEF TaskInv
    <2>3. DOMAIN task = 1..Len(task) /\ Len(task) \in Nat /\ Len(task) <= MaxTasks
      BY DEF TasksInv
    <2>4. DOMAIN task' = DOMAIN task /\ task' \in [1..Len(task) -> TaskType]
      BY <2>1, <2>2, <2>3
    <2>5. task' \in Seq(TaskType) /\ Len(task') = Len(task)
      BY <2>3, <2>4
    <2>. QED
      BY <2>2, <2>3, <2>4, <2>5
  <1>5. ASSUME NEW i \in DOMAIN task, StartCoroutine(i) PROVE KeptTree
    <2>1. \A t \in {[task[i] EXCEPT !.agent = "running"]} : TaskInv(t)
      <3>. DEFINE t == task[i]
                  d == [t EXCEPT !.agent = "running"]
      <3>1. d \in TaskType
        BY <1>0 DEF TaskType, InProgress
      <3>2. /\ d.agent = "running" /\ t.agent = "created" /\ t.mode # "external"
            /\ d.mode = t.mode /\ d.asked = t.asked /\ d.status = t.status
            /\ d.final = t.final /\ d.notices = t.notices /\ d.updated = t.updated
            /\ d.answer = t.answer /\ d.tree = t.tree /\ d.listed = t.listed
            /\ d.told = t.told /\ d.worked = t.worked
        BY <1>0, <1>5 DEF StartCoroutine, TaskType
      <3>3. ~t.final /\ ~Answered(t)
        BY <1>0, <3>2 DEF TaskInv, DeliveryInv, Withdrawn, InProgress
      <3>4. DeliveryInv(d)
        BY <1>0, <3>2, <3>3 DEF TaskInv, DeliveryInv, Withdrawn, Answered, InProgress
      <3>5. StatusInv(d)
        BY <1>0, <3>2, <3>3 DEF TaskInv, StatusInv, TaskType
      <3>6. WorkInv(d)
        BY <1>0, <3>2 DEF TaskInv, WorkInv
      <3>. QED
        BY <3>1, <3>2, <3>4, <3>5, <3>6 DEF TaskInv, ExternalInv
    <2>2. \A t \in Ended(task[i], "raised") : TaskInv(t)
      BY <1>0, <1>5, EndedInv DEF StartCoroutine, InProgress
    <2>. QED
      BY <1>5, <2>1, <2>2, ChangeInv DEF StartCoroutine
  <1>6. ASSUME NEW i \in DOMAIN task, AgentEnds(i) PROVE KeptTree
    <2>1. PICK how \in {"ok", "okAfterRetry", "error"} : Change(i, Ended(task[i], how))
      BY <1>6 DEF AgentEnds
    <2>2. task[i].mode # "external"
      BY <1>0, <1>6 DEF AgentEnds, Working, TaskInv, ExternalInv
    <2>3. \A t \in Ended(task[i], how) : TaskInv(t)
      BY <1>0, <1>6, <2>2, EndedInv DEF AgentEnds, Working, InProgress
    <2>. QED
      BY <2>1, <2>3, ChangeInv
  <1>7. ASSUME NEW i \in DOMAIN task, Watch(i) PROVE KeptTree
    <2>. DEFINE status == IF task[i].asked THEN "failed" ELSE StatusOf(task[i].agent)
    <2>1. status \in {"completed", "failed"}
      BY DEF StatusOf
    <2>2. /\ status = "completed" => task[i].agent = "ok" /\ ~task[i].asked
          /\ status = "failed" => task[i].agent # "ok" \/ task[i].asked
      BY DEF StatusOf
    <2>3. /\ task[i].mode \in Background /\ task[i].answer \in {"started", "none"}
          /\ ~task[i].final /\ task[i].notices = 0 /\ WorkInv(task[i])
          /\ task[i].agent \notin InProgress
      BY <1>0, <1>7 DEF Watch, Background, TaskInv, TaskType, DeliveryInv, Withdrawn
    <2>4. \A t \in Finalized(task[i], status) : TaskInv(t)
      BY <1>0, <2>1, <2>2, <2>3, FinalizedInv
    <2>. QED
      BY <1>7, <2>4, ChangeInv DEF Watch
  <1>8. ASSUME NEW i \in DOMAIN task, CallerWakes(i) PROVE KeptTree
    <2>. DEFINE t == task[i]
    <2>1. /\ t \in TaskType /\ TaskInv(t) /\ t.answer = "waiting" /\ t.mode = "foreground"
          /\ t.agent \notin InProgress /\ ~t.final /\ t.notices = 0
          /\ t.tree \in {"clean", "changed"} => t.listed
      BY <1>0, <1>8 DEF CallerWakes, TaskInv, TaskType, DeliveryInv, Withdrawn, WorkInv, Background
    <2>2. CASE t.agent = "raised"
      <3>. DEFINE d == [t EXCEPT !.answer = "error"]
      <3>1. d \in TaskType
        BY <2>1 DEF TaskType
      <3>2. /\ d.answer = "error" /\ d.agent = t.agent /\ d.mode = t.mode
            /\ d.asked = t.asked /\ d.status = t.status /\ d.final = t.final
            /\ d.notices = t.notices /\ d.updated = t.updated /\ d.tree = t.tree
            /\ d.listed = t.listed /\ d.told = t.told /\ d.worked = t.worked
        BY <2>1 DEF TaskType
      <3>3. DeliveryInv(d)
        BY <2>1, <3>2 DEF TaskInv, DeliveryInv, Withdrawn, Background
      <3>4. StatusInv(d)
        BY <2>1, <3>2 DEF TaskInv, StatusInv, Background
      <3>5. WorkInv(d)
        BY <2>1, <2>2, <3>2 DEF TaskInv, WorkInv
      <3>6. TaskInv(d)
        BY <2>1, <3>1, <3>2, <3>3, <3>4, <3>5 DEF TaskInv, ExternalInv
      <3>. QED
        BY <1>8, <2>2, <3>6, ChangeInv DEF CallerWakes
    <2>3. CASE t.agent # "raised"
      <3>1. ASSUME NEW c \in Cleaned(t) PROVE TaskInv([c EXCEPT !.answer = "result"])
        <4>. DEFINE d == [c EXCEPT !.answer = "result"]
        <4>1. /\ SameButTree(c, t)
              /\ c.tree \in {"clean", "changed"} => c.listed
              /\ t.tree = "changed" <=> c.tree = "changed"
              /\ t.tree = "changed" => c.told
          BY <2>1, CleanedKeeps
        <4>2. d \in TaskType
          BY <4>1 DEF SameButTree, TaskType
        <4>3. /\ d.answer = "result" /\ d.agent = t.agent /\ d.mode = t.mode
              /\ d.asked = t.asked /\ d.status = t.status /\ d.final = t.final
              /\ d.notices = t.notices /\ d.updated = t.updated /\ d.worked = t.worked
              /\ d.tree = c.tree /\ d.listed = c.listed /\ d.told = c.told
          BY <4>1 DEF SameButTree, TaskType
        <4>4. DeliveryInv(d)
          BY <2>1, <4>3 DEF TaskInv, DeliveryInv, Withdrawn, Background
        <4>5. StatusInv(d)
          BY <2>1, <4>3 DEF TaskInv, StatusInv, Background
        <4>6. WorkInv(d)
          BY <2>1, <4>1, <4>3 DEF TaskInv, WorkInv
        <4>. QED
          BY <2>1, <4>2, <4>3, <4>4, <4>5, <4>6 DEF TaskInv, ExternalInv
      <3>2. \A d \in {[c EXCEPT !.answer = "result"] : c \in Cleaned(t)} : TaskInv(d)
        BY <3>1
      <3>. QED
        BY <1>8, <2>3, <3>2, ChangeInv DEF CallerWakes
    <2>. QED
      BY <2>2, <2>3
  <1>9. ASSUME NEW i \in DOMAIN task, CallerTimesOut(i) \/ MainCancelled(i) PROVE KeptTree
    <2>. DEFINE t == task[i]
    <2>1. PICK answer \in {"started", "none"} : Adopt(i, answer)
      BY <1>9 DEF CallerTimesOut, MainCancelled
    <2>. DEFINE d == [t EXCEPT !.mode = "adopted", !.answer = answer]
    <2>2. /\ t \in TaskType /\ TaskInv(t) /\ t.mode = "foreground"
          /\ ~t.final /\ t.notices = 0 /\ ~Answered(t)
      BY <1>0, <1>9 DEF CallerTimesOut, MainCancelled, TaskInv, TaskType, DeliveryInv, Withdrawn, Background, Answered
    <2>3. d \in TaskType
      BY <2>2 DEF TaskType
    <2>4. /\ d.mode = "adopted" /\ d.answer = answer /\ d.agent = t.agent
          /\ d.asked = t.asked /\ d.status = t.status /\ d.final = t.final
          /\ d.notices = t.notices /\ d.updated = t.updated /\ d.tree = t.tree
          /\ d.listed = t.listed /\ d.told = t.told /\ d.worked = t.worked
      BY <2>2 DEF TaskType
    <2>5. DeliveryInv(d)
      BY <2>2, <2>4 DEF DeliveryInv, Withdrawn, Answered
    <2>6. StatusInv(d)
      BY <2>2, <2>4 DEF TaskInv, StatusInv
    <2>7. WorkInv(d)
      BY <2>2, <2>4 DEF TaskInv, WorkInv, Deliveries, Answered
    <2>8. TaskInv(d)
      BY <2>3, <2>4, <2>5, <2>6, <2>7 DEF TaskInv, ExternalInv
    <2>. QED
      BY <2>1, <2>8, ChangeInv DEF Adopt
  <1>10. ASSUME NEW i \in DOMAIN task, Work(i) PROVE KeptTree
    <2>. DEFINE t == task[i]
                d == [t EXCEPT !.tree = "changed", !.worked = TRUE]
    <2>1. /\ t \in TaskType /\ TaskInv(t) /\ t.agent \in Working /\ t.listed
          /\ ~t.final /\ t.notices = 0 /\ ~Answered(t)
      BY <1>0, <1>10 DEF Work, Working, TaskInv, TaskType, DeliveryInv, Withdrawn, WorkInv, InProgress
    <2>2. d \in TaskType
      BY <2>1 DEF TaskType
    <2>3. /\ d.tree = "changed" /\ d.worked /\ d.mode = t.mode /\ d.answer = t.answer
          /\ d.agent = t.agent /\ d.asked = t.asked /\ d.status = t.status
          /\ d.final = t.final /\ d.notices = t.notices /\ d.updated = t.updated
          /\ d.listed = t.listed /\ d.told = t.told
      BY <2>1 DEF TaskType
    <2>4. DeliveryInv(d)
      BY <2>1, <2>3 DEF TaskInv, DeliveryInv, Withdrawn, Answered
    <2>5. StatusInv(d)
      BY <2>1, <2>3 DEF TaskInv, StatusInv
    <2>6. WorkInv(d)
      BY <2>1, <2>3 DEF WorkInv, Deliveries, Answered, Working, InProgress
    <2>7. TaskInv(d)
      BY <2>1, <2>2, <2>3, <2>4, <2>5, <2>6 DEF TaskInv, ExternalInv, Working
    <2>. QED
      BY <1>10, <2>7, ChangeInv DEF Work
  <1>11. ASSUME NEW i \in DOMAIN task, Cancel(i) PROVE KeptTree
    <2>. DEFINE t == task[i]
                d == Asked(t)
    <2>1. t \in TaskType /\ TaskInv(t) /\ t.mode \in Background
      BY <1>0, <1>11 DEF Cancel
    <2>2. /\ d.mode = t.mode /\ d.answer = t.answer
          /\ d.status = t.status /\ d.final = t.final /\ d.notices = t.notices
          /\ d.updated = t.updated /\ d.tree = t.tree /\ d.listed = t.listed
          /\ d.told = t.told /\ d.worked = t.worked
          /\ d.asked = (t.asked \/ ~t.final)
          /\ d.agent = (IF Begun(t) THEN t.agent ELSE "cancelled")
      BY <2>1 DEF TaskType, Asked
    <2>3. d \in TaskType
      BY <2>1, ZenonT(30) DEF TaskType, Asked
    <2>4. Deliveries(d) = Deliveries(t)
      BY <2>2 DEF Deliveries, Answered
    <2>5. WorkInv(d)
      BY <2>1, <2>2, <2>4 DEF TaskInv, WorkInv, Begun
    <2>6. CASE Begun(t) \/ t.mode = "adopted"
      <3>1. DeliveryInv(d)
        BY <2>1, <2>2, <2>6 DEF TaskInv, DeliveryInv, Answered, Withdrawn, InProgress, Begun
      <3>2. StatusInv(d)
        BY <2>1, <2>2, <2>6 DEF TaskInv, StatusInv, Begun
      <3>3. TaskInv(d)
        BY <2>1, <2>2, <2>3, <2>5, <3>1, <3>2 DEF TaskInv, ExternalInv, Background
      <3>4. Begun(d) <=> Begun(t)
        BY <2>2 DEF Begun
      <3>5. Change(i, {d})
        BY <1>11, <2>2, <2>6, <3>4 DEF Cancel
      <3>. QED
        BY <3>3, <3>5, ChangeInv
    <2>7. CASE ~Begun(t) /\ t.mode = "launched"
      <3>1. Withdrawn(d) /\ ~Begun(d) /\ d.asked \in BOOLEAN
        BY <2>2, <2>3, <2>7 DEF Withdrawn, Begun, TaskType
      <3>2. d.answer \in {"started", "none"} /\ d.agent \notin InProgress /\ d.agent # "ok"
        BY <2>1, <2>2, <2>7, <3>1 DEF TaskInv, TaskType, DeliveryInv, InProgress, Withdrawn
      <3>3. \A f \in Finalized(d, "failed") : TaskInv(f)
        BY <2>1, <2>2, <2>3, <2>5, <3>1, <3>2, FinalizedInv
      <3>4. Change(i, Finalized(d, "failed"))
        BY <1>11, <2>2, <2>7, <3>1 DEF Cancel
      <3>. QED
        BY <3>3, <3>4, ChangeInv
    <2>. QED
      BY <2>1, <2>6, <2>7 DEF Background
  <1>12. ASSUME NEW i \in DOMAIN task, TaskUpdate(i) PROVE KeptTree
    <2>. DEFINE t == task[i]
    <2>1. t \in TaskType /\ TaskInv(t) /\ t.mode # "foreground"
      BY <1>0, <1>12 DEF TaskUpdate
    <2>2. ASSUME NEW status \in {"completed", "failed"}
          PROVE  TaskInv([t EXCEPT !.status = status, !.updated = TRUE])
      <3>. DEFINE d == [t EXCEPT !.status = status, !.updated = TRUE]
      <3>1. d \in TaskType
        BY <2>1 DEF TaskType
      <3>2. /\ d.updated /\ d.mode = t.mode /\ d.answer = t.answer /\ d.agent = t.agent
            /\ d.asked = t.asked /\ d.final = t.final /\ d.notices = t.notices
            /\ d.tree = t.tree /\ d.listed = t.listed /\ d.told = t.told /\ d.worked = t.worked
        BY <2>1 DEF TaskType
      <3>3. DeliveryInv(d)
        BY <2>1, <3>2 DEF TaskInv, DeliveryInv, Withdrawn, Answered
      <3>4. StatusInv(d)
        BY <2>1, <3>2 DEF StatusInv
      <3>5. WorkInv(d)
        BY <2>1, <3>2 DEF TaskInv, WorkInv, Deliveries, Answered
      <3>. QED
        BY <2>1, <3>1, <3>2, <3>3, <3>4, <3>5 DEF TaskInv, ExternalInv
    <2>. QED
      BY <1>12, <2>2, ChangeInv DEF TaskUpdate
  <1>13. ASSUME NEW i \in DOMAIN task, Retry(i) PROVE KeptTree
    <2>. DEFINE t == task[i]
                d == [t EXCEPT !.agent = "retrying"]
    <2>1. t \in TaskType /\ TaskInv(t) /\ t.agent = "running" /\ d \in TaskType
      BY <1>0, <1>13 DEF Retry, TaskType, InProgress
    <2>2. /\ d.agent = "retrying" /\ d.mode = t.mode /\ d.answer = t.answer
          /\ d.asked = t.asked /\ d.status = t.status /\ d.final = t.final
          /\ d.notices = t.notices /\ d.updated = t.updated /\ d.tree = t.tree
          /\ d.listed = t.listed /\ d.told = t.told /\ d.worked = t.worked
      BY <2>1 DEF TaskType
    <2>3. ~t.final /\ ~Answered(t)
      BY <2>1 DEF TaskInv, DeliveryInv, Withdrawn, InProgress
    <2>4. DeliveryInv(d)
      BY <2>1, <2>2, <2>3 DEF TaskInv, DeliveryInv, Withdrawn, Answered, InProgress
    <2>5. StatusInv(d)
      BY <2>1, <2>2, <2>3 DEF TaskInv, StatusInv, TaskType
    <2>6. WorkInv(d)
      BY <2>1, <2>2 DEF TaskInv, WorkInv, Deliveries, Answered
    <2>7. TaskInv(d)
      BY <2>1, <2>2, <2>4, <2>5, <2>6 DEF TaskInv, ExternalInv
    <2>. QED
      BY <1>13, <2>7, ChangeInv DEF Retry
  <1>. QED
    BY <1>1, <1>2, <1>3, <1>5, <1>6, <1>7, <1>8, <1>9, <1>10, <1>11, <1>12, <1>13
       DEF TasksNext, Proceed

LEMMA TasksInvInit == ASSUME TasksInit PROVE TasksInv
  <1>. USE TasksAssumption
  <1>. QED
    BY DEF TasksInit, TasksInv

LEMMA TasksInvStep == ASSUME TasksInv, [TasksNext]_taskVars PROVE TasksInv'
  <1>. USE TasksAssumption
  <1>1. CASE TasksNext
    <2>1. acts \in 0..MaxActs
      BY DEF TasksInv
    <2>2. ASSUME NEW i \in DOMAIN task, Cancel(i) \/ Retry(i)
          PROVE  acts' \in 0..MaxActs
      BY <2>1, <2>2, TasksAssumption DEF Cancel, Retry, MayAct
    <2>3. UNCHANGED acts \/ \E i \in DOMAIN task : Cancel(i) \/ Retry(i)
      BY <1>1 DEF TasksNext, Proceed, Launch, Foreground, TaskCreate, RemoveTrees, StartCoroutine, AgentEnds,
         Watch, CallerWakes, Work, CallerTimesOut, MainCancelled, Adopt, TaskUpdate
    <2>4. acts' \in 0..MaxActs
      BY <2>1, <2>2, <2>3
    <2>. QED
      BY <1>1, <2>4, TaskStep DEF TasksInv
  <1>2. CASE UNCHANGED taskVars
    BY <1>2 DEF taskVars, TasksInv
  <1>. QED
    BY <1>1, <1>2

(* What the invariant says of one task is what the properties say of all.  *)
LEMMA TasksInvImplies ==
  ASSUME TasksInv PROVE TypeOK /\ DeliveredOnce /\ StatusTrue /\ WorkIsReported
  <1>1. TypeOK
    BY DEF TasksInv, TypeOK, TaskInv, DeliveryInv
  <1>2. DeliveredOnce
    <2> SUFFICES ASSUME NEW i \in DOMAIN task
                 PROVE  /\ Deliveries(task[i]) <= 1 \/ Withdrawn(task[i])
                        /\ Deliveries(task[i]) >= 1 => task[i].agent \notin InProgress
      BY DEF DeliveredOnce
    <2>1. DeliveryInv(task[i]) /\ task[i].notices \in Nat
      BY DEF TasksInv, TaskInv, TaskType
    <2>. QED
      BY <2>1 DEF DeliveryInv, Deliveries, Answered, Background
  <1>3. StatusTrue
    BY DEF TasksInv, StatusTrue, TaskInv, StatusInv
  <1>4. WorkIsReported
    BY DEF TasksInv, WorkIsReported, TaskInv, WorkInv
  <1>. QED
    BY <1>1, <1>2, <1>3, <1>4

-----------------------------------------------------------------------------
(* The inductive invariant: types, and for each task what its deliveries,  *)
(* its status and its worktree have to do with how far its coroutine is.   *)
THEOREM TasksInvariant == TasksSpec => []TasksInv
  BY TasksInvInit, TasksInvStep, PTL DEF TasksSpec

(* Every variable keeps its type, for any number of subagents.             *)
THEOREM TasksTypeCorrect == TasksSpec => []TypeOK
  BY TasksInvariant, TasksInvImplies, PTL

(* However completion, timeout and cancellation race, the end of a         *)
(* subagent is told only after it, and at most once unless it was          *)
(* cancelled before it began.                                              *)
THEOREM ToldAtMostOnce == TasksSpec => []DeliveredOnce
  BY TasksInvariant, TasksInvImplies, PTL

(* A final status not written by TaskUpdate is how the subagent ended.     *)
THEOREM StatusIsTrue == TasksSpec => []StatusTrue
  BY TasksInvariant, TasksInvImplies, PTL

(* Changes in a worktree are kept, listed and reported, whatever is        *)
(* cleaned up meanwhile and however git fails.                             *)
THEOREM WorkNeverLost == TasksSpec => []WorkIsReported
  BY TasksInvariant, TasksInvImplies, PTL

-----------------------------------------------------------------------------
(* Tasks implements Delivery.                                              *)

(* What Delivery allows one subagent in one step, whose record is t before *)
(* the step and u after it.                                                *)
SameForMain(t, u) ==
  /\ StageOf(u) = StageOf(t) /\ OwnerOf(u) = OwnerOf(t) /\ ToldOf(u) = ToldOf(t)

HandedOver(t, u) ==
  /\ OwnerOf(t) = "call" /\ OwnerOf(u) = "manager"
  /\ ToldOf(t) = "not" /\ ToldOf(u) = "not" /\ StageOf(u) = StageOf(t)

StartedNow(t, u) ==
  /\ StageOf(t) = "waiting" /\ StageOf(u) = "working" /\ OwnerOf(u) = OwnerOf(t)
  /\ ToldOf(u) = ToldOf(t)

WithdrawnNow(t, u) ==
  /\ StageOf(t) = "waiting" /\ StageOf(u) = "withdrawn" /\ OwnerOf(t) = "manager"
  /\ OwnerOf(u) = "manager" /\ ToldOf(u) = "notice"

ToldAgain(t, u) ==
  /\ StageOf(t) = "withdrawn" /\ StageOf(u) = "withdrawn" /\ OwnerOf(u) = OwnerOf(t)
  /\ ToldOf(u) = "again"

CameToEnd(t, u) ==
  /\ StageOf(t) \in {"waiting", "working"} /\ StageOf(u) = "ended" /\ OwnerOf(u) = OwnerOf(t)
  /\ ToldOf(u) = ToldOf(t) \/ (OwnerOf(t) = "manager" /\ ToldOf(u) = "notice")

ToldNow(t, u) ==
  /\ StageOf(t) = "ended" /\ StageOf(u) = "ended" /\ OwnerOf(u) = OwnerOf(t)
  /\ ToldOf(t) = "not" /\ ToldOf(u) = (IF OwnerOf(t) = "call" THEN "result" ELSE "notice")

Allowed(t, u) ==
  \/ SameForMain(t, u) \/ HandedOver(t, u) \/ CameToEnd(t, u) \/ ToldNow(t, u)
  \/ StartedNow(t, u) \/ WithdrawnNow(t, u) \/ ToldAgain(t, u)

PromisedStep == [Promised!Next]_(Promised!vars)

-----------------------------------------------------------------------------
(* A step of one task that Delivery allows is a step of Delivery.          *)
LEMMA ChangePromised ==
  ASSUME TasksInv, NEW i \in DOMAIN task, NEW outcomes,
         \A u \in outcomes : Allowed(task[i], u), Change(i, outcomes)
  PROVE  PromisedStep
  <1>. USE TasksAssumption
  <1>1. PICK u \in outcomes : task' = [task EXCEPT ![i] = u]
    BY DEF Change
  <1>2. /\ task \in Seq(TaskType) /\ Len(task) <= MaxTasks /\ Len(task) \in Nat
        /\ DOMAIN task = 1..Len(task) /\ i \in 1..MaxTasks
    BY DEF TasksInv
  <1>3. DOMAIN task' = DOMAIN task /\ task'[i] = u /\ \A j \in DOMAIN task \ {i} : task'[j] = task[j]
    BY <1>1, <1>2
  <1>4. /\ Stage' = [Stage EXCEPT ![i] = StageOf(u)] /\ Stage[i] = StageOf(task[i])
        /\ Owner' = [Owner EXCEPT ![i] = OwnerOf(u)] /\ Owner[i] = OwnerOf(task[i])
        /\ Told' = [Told EXCEPT ![i] = ToldOf(u)] /\ Told[i] = ToldOf(task[i])
    BY <1>2, <1>3 DEF Stage, Owner, Told
  <1>5. /\ StageOf(u) = StageOf(task[i]) => Stage' = Stage
        /\ OwnerOf(u) = OwnerOf(task[i]) => Owner' = Owner
        /\ ToldOf(u) = ToldOf(task[i]) => Told' = Told
    BY <1>2, <1>3 DEF Stage, Owner, Told
  <1>6. CASE SameForMain(task[i], u)
    BY <1>5, <1>6 DEF SameForMain, PromisedStep, Promised!vars
  <1>7. CASE HandedOver(task[i], u)
    <2>1. Promised!HandOver(i)
      BY <1>4, <1>5, <1>7 DEF HandedOver, Promised!HandOver
    <2>. QED
      BY <1>2, <2>1 DEF PromisedStep, Promised!Next
  <1>8. CASE CameToEnd(task[i], u)
    <2>1. Promised!End(i)
      BY <1>4, <1>5, <1>8 DEF CameToEnd, Promised!End
    <2>. QED
      BY <1>2, <2>1 DEF PromisedStep, Promised!Next
  <1>9. CASE ToldNow(task[i], u)
    <2>1. Promised!Tell(i)
      BY <1>4, <1>5, <1>9 DEF ToldNow, Promised!Tell
    <2>. QED
      BY <1>2, <2>1 DEF PromisedStep, Promised!Next
  <1>10. CASE StartedNow(task[i], u)
    <2>1. Promised!Start(i)
      BY <1>4, <1>5, <1>10 DEF StartedNow, Promised!Start
    <2>. QED
      BY <1>2, <2>1 DEF PromisedStep, Promised!Next
  <1>11. CASE WithdrawnNow(task[i], u)
    <2>1. Promised!Withdraw(i)
      BY <1>4, <1>5, <1>11 DEF WithdrawnNow, Promised!Withdraw
    <2>. QED
      BY <1>2, <2>1 DEF PromisedStep, Promised!Next
  <1>12. CASE ToldAgain(task[i], u)
    <2>1. Promised!TellAgain(i)
      BY <1>4, <1>5, <1>12 DEF ToldAgain, Promised!TellAgain
    <2>. QED
      BY <1>2, <2>1 DEF PromisedStep, Promised!Next
  <1>. QED
    BY <1>1, <1>6, <1>7, <1>8, <1>9, <1>10, <1>11, <1>12 DEF Allowed

(* A new subagent is one that begins; an external task is none.            *)
LEMMA NewPromised ==
  ASSUME TasksInv, Len(task) < MaxTasks,
         NEW mode \in {"foreground", "launched", "external"}, NEW isolated \in BOOLEAN,
         task' = Append(task, NewTask(mode, isolated))
  PROVE  PromisedStep
  <1>. USE TasksAssumption
  <1>. DEFINE n == Len(task) + 1
              u == NewTask(mode, isolated)
  <1>1. /\ task \in Seq(TaskType) /\ Len(task) \in Nat /\ DOMAIN task = 1..Len(task)
        /\ n \in 1..MaxTasks /\ n \notin DOMAIN task
    BY DEF TasksInv
  <1>2. DOMAIN task' = DOMAIN task \cup {n} /\ task'[n] = u /\ \A j \in DOMAIN task : task'[j] = task[j]
    BY <1>1
  <1>3. /\ Stage' = [Stage EXCEPT ![n] = StageOf(u)] /\ Stage[n] = "none"
        /\ Owner' = [Owner EXCEPT ![n] = OwnerOf(u)]
        /\ StageOf(u) = "none" => Stage' = Stage
        /\ OwnerOf(u) = "nobody" => Owner' = Owner
        /\ ToldOf(u) = "not" => Told' = Told
    BY <1>1, <1>2 DEF Stage, Owner, Told
  <1>4. ToldOf(u) = "not"
    BY DEF ToldOf, Deliveries, Answered, NewTask
  <1>5. CASE mode = "external"
    <2>1. u.mode = "external"
      BY <1>5 DEF NewTask
    <2>2. StageOf(u) = "none" /\ OwnerOf(u) = "nobody"
      BY <2>1 DEF StageOf, OwnerOf
    <2>. QED
      BY <1>3, <1>4, <2>2 DEF PromisedStep, Promised!vars
  <1>6. CASE mode # "external"
    <2>1. StageOf(u) = "waiting" /\ OwnerOf(u) \in {"call", "manager"}
      BY <1>6 DEF StageOf, OwnerOf, NewTask
    <2>2. /\ Stage[n] = "none" /\ Stage' = [Stage EXCEPT ![n] = "waiting"] /\ Told' = Told
          /\ \E who \in {"call", "manager"} : Owner' = [Owner EXCEPT ![n] = who]
      BY <1>3, <1>4, <2>1
    <2>3. Promised!Begin(n)
      BY <2>2 DEF Promised!Begin
    <2>. QED
      BY <1>1, <2>3 DEF PromisedStep, Promised!Next
  <1>. QED
    BY <1>5, <1>6

-----------------------------------------------------------------------------
(* What the main agent sees of a task is in these four fields.             *)
SameCourse(t, u) ==
  /\ u.mode = t.mode /\ u.agent = t.agent /\ u.answer = t.answer /\ u.notices = t.notices

LEMMA CourseAllowed ==
  ASSUME NEW t, NEW u, SameCourse(t, u)
  PROVE  Allowed(t, u)
  BY DEF SameCourse, Allowed, SameForMain, StageOf, OwnerOf, ToldOf, Deliveries, Answered, Withdrawn

(* A task is finalized, its coroutine ended before or in this very step.   *)
LEMMA FinalizedAllowed ==
  ASSUME NEW t \in TaskType, NEW e \in TaskType, NEW status, NEW f \in Finalized(e, status),
         t.mode \in Background, ~Answered(t), t.notices = 0,
         e.mode = t.mode, e.answer = t.answer, e.notices = t.notices,
         e.agent \notin InProgress, e.tree \in {"clean", "changed"} => e.listed,
         Withdrawn(e) => t.agent = "created", ~Withdrawn(t)
  PROVE  Allowed(t, f)
  <1>1. PICK c \in Cleaned(e) : f = [c EXCEPT !.status = status, !.final = TRUE, !.notices = @ + 1]
    BY DEF Finalized
  <1>2. SameButTree(c, e)
    BY CleanedKeeps
  <1>3. f.mode = t.mode /\ f.agent = e.agent /\ f.answer = t.answer /\ f.notices = 1
    BY <1>1, <1>2 DEF SameButTree, TaskType
  <1>4. ToldOf(t) = "not" /\ ToldOf(f) = "notice" /\ OwnerOf(t) = "manager" /\ OwnerOf(f) = "manager"
    BY <1>3 DEF ToldOf, Deliveries, Answered, OwnerOf, Background
  <1>5. Withdrawn(f) <=> Withdrawn(e)
    BY <1>3 DEF Withdrawn
  <1>6. CASE Withdrawn(e)
    <2>1. StageOf(t) = "waiting" /\ StageOf(f) = "withdrawn"
      BY <1>3, <1>5, <1>6 DEF StageOf, Background, Withdrawn, Working, InProgress
    <2>. QED
      BY <1>4, <2>1 DEF Allowed, WithdrawnNow
  <1>7. CASE ~Withdrawn(e)
    <2>1. StageOf(f) = "ended" /\ StageOf(t) \in {"waiting", "working", "ended"}
      BY <1>3, <1>5, <1>7 DEF StageOf, Background, Working, InProgress
    <2>. QED
      BY <1>4, <2>1 DEF Allowed, CameToEnd, ToldNow
  <1>. QED
    BY <1>6, <1>7

(* A withdrawn one is finalized once more.                                 *)
LEMMA AgainAllowed ==
  ASSUME NEW t \in TaskType, NEW e \in TaskType, NEW status, NEW f \in Finalized(e, status),
         Withdrawn(t), t.notices >= 1, ~Answered(t),
         e.mode = t.mode, e.agent = t.agent, e.answer = t.answer, e.notices = t.notices,
         e.tree \in {"clean", "changed"} => e.listed
  PROVE  Allowed(t, f)
  <1>1. PICK c \in Cleaned(e) : f = [c EXCEPT !.status = status, !.final = TRUE, !.notices = @ + 1]
    BY DEF Finalized
  <1>2. SameButTree(c, e)
    BY CleanedKeeps
  <1>3. /\ f.mode = "launched" /\ f.agent = "cancelled" /\ f.answer = t.answer
        /\ f.notices = t.notices + 1 /\ t.notices \in Nat
    BY <1>1, <1>2 DEF SameButTree, TaskType, Withdrawn
  <1>4. StageOf(t) = "withdrawn" /\ StageOf(f) = "withdrawn" /\ OwnerOf(f) = OwnerOf(t)
    BY <1>3 DEF StageOf, OwnerOf, Withdrawn, Working, InProgress
  <1>5. ToldOf(f) = "again"
    BY <1>3 DEF ToldOf, Deliveries, Answered
  <1>. QED
    BY <1>4, <1>5 DEF Allowed, ToldAgain

(* A coroutine that was in progress ends.                                  *)
LEMMA EndedAllowed ==
  ASSUME NEW t \in TaskType, TaskInv(t), t.mode # "external", t.agent \in InProgress,
         NEW how \in {"ok", "okAfterRetry", "error", "raised"}, NEW e \in Ended(t, how)
  PROVE  Allowed(t, e)
  <1>. DEFINE d == [t EXCEPT !.agent = how]
  <1>1. /\ d \in TaskType /\ d.agent = how /\ d.agent \notin InProgress
        /\ d.mode = t.mode /\ d.answer = t.answer /\ d.notices = t.notices
        /\ d.tree = t.tree /\ d.listed = t.listed
    BY DEF TaskType, InProgress
  <1>2. /\ ~Answered(t) /\ t.notices = 0 /\ (t.tree \in {"clean", "changed"} => t.listed)
        /\ ~Withdrawn(t) /\ ~Withdrawn(d)
    BY <1>1 DEF TaskInv, TaskType, DeliveryInv, WorkInv, Withdrawn, InProgress
  <1>3. CASE t.mode = "launched"
    <2>1. e \in Finalized(d, StatusOf(how))
      BY <1>3 DEF Ended
    <2>2. t.mode \in Background
      BY <1>3 DEF Background
    <2>. QED
      BY <1>1, <1>2, <2>1, <2>2, FinalizedAllowed
  <1>4. CASE t.mode # "launched"
    <2>1. e = d
      BY <1>4 DEF Ended
    <2>2. StageOf(t) \in {"waiting", "working"} /\ StageOf(d) = "ended" /\ OwnerOf(d) = OwnerOf(t)
      BY <1>1, <1>2 DEF StageOf, OwnerOf, Working, InProgress
    <2>3. ToldOf(d) = ToldOf(t)
      BY <1>1 DEF ToldOf, Deliveries, Answered
    <2>. QED
      BY <2>1, <2>2, <2>3 DEF Allowed, CameToEnd
  <1>. QED
    BY <1>3, <1>4

-----------------------------------------------------------------------------
(* Every action keeps the promise.                                         *)
LEMMA NextPromised ==
  ASSUME TasksInv, TasksNext
  PROVE  PromisedStep
  <1>0. \A i \in DOMAIN task : TaskInv(task[i]) /\ task[i] \in TaskType
    BY DEF TasksInv, TaskInv
  <1>1. ASSUME NEW isolated \in BOOLEAN, Launch(isolated) \/ Foreground(isolated)
        PROVE  PromisedStep
    BY <1>1, NewPromised DEF Launch, Foreground, MayCall
  <1>2. CASE TaskCreate
    BY <1>2, NewPromised DEF TaskCreate
  <1>3. CASE RemoveTrees
    <2>1. /\ DOMAIN task' = DOMAIN task
          /\ \A i \in DOMAIN task : task'[i] \in Removals(task[i]) \cup {task[i]}
      BY <1>3 DEF RemoveTrees
    <2>2. \A i \in DOMAIN task : SameCourse(task[i], task'[i])
      BY <1>0, <2>1, ZenonT(30) DEF Removals, SameCourse, TaskType
    <2>3. \A i \in DOMAIN task : /\ StageOf(task'[i]) = StageOf(task[i])
                                /\ OwnerOf(task'[i]) = OwnerOf(task[i])
                                /\ ToldOf(task'[i]) = ToldOf(task[i])
      BY <2>2 DEF SameCourse, StageOf, OwnerOf, ToldOf, Deliveries, Answered, Withdrawn
    <2>4. Stage' = Stage /\ Owner' = Owner /\ Told' = Told
      BY <2>1, <2>3 DEF Stage, Owner, Told
    <2>. QED
      BY <2>4 DEF PromisedStep, Promised!vars
  <1>4. ASSUME NEW i \in DOMAIN task, StartCoroutine(i) PROVE PromisedStep
    <2>1. CASE Change(i, {[task[i] EXCEPT !.agent = "running"]})
      <3>1. \A u \in {[task[i] EXCEPT !.agent = "running"]} : Allowed(task[i], u)
        <4>. DEFINE u == [task[i] EXCEPT !.agent = "running"]
        <4>1. /\ u.mode = task[i].mode /\ u.answer = task[i].answer
              /\ u.notices = task[i].notices /\ u.agent = "running" /\ task[i].agent = "created"
          BY <1>0, <1>4 DEF StartCoroutine, TaskType
        <4>2. StageOf(task[i]) = "waiting" /\ StageOf(u) = "working"
          BY <1>4, <4>1 DEF StageOf, StartCoroutine, Working, InProgress
        <4>3. OwnerOf(u) = OwnerOf(task[i]) /\ ToldOf(u) = ToldOf(task[i])
          BY <4>1 DEF OwnerOf, ToldOf, Deliveries, Answered
        <4>. QED
          BY <4>2, <4>3 DEF Allowed, StartedNow
      <3>. QED
        BY <2>1, <3>1, ChangePromised
    <2>2. CASE Change(i, Ended(task[i], "raised"))
      <3>1. \A u \in Ended(task[i], "raised") : Allowed(task[i], u)
        BY <1>0, <1>4, EndedAllowed DEF StartCoroutine, InProgress
      <3>. QED
        BY <2>2, <3>1, ChangePromised
    <2>. QED
      BY <1>4, <2>1, <2>2 DEF StartCoroutine
  <1>5. ASSUME NEW i \in DOMAIN task, AgentEnds(i) PROVE PromisedStep
    <2>1. PICK how \in {"ok", "okAfterRetry", "error"} : Change(i, Ended(task[i], how))
      BY <1>5 DEF AgentEnds
    <2>2. task[i].mode # "external" /\ task[i].agent \in InProgress
      BY <1>0, <1>5 DEF AgentEnds, Working, TaskInv, ExternalInv
    <2>3. \A u \in Ended(task[i], how) : Allowed(task[i], u)
      BY <1>0, <2>2, EndedAllowed
    <2>. QED
      BY <2>1, <2>3, ChangePromised
  <1>6. ASSUME NEW i \in DOMAIN task, Watch(i) PROVE PromisedStep
    <2>1. PICK status : Change(i, Finalized(task[i], status))
      BY <1>6 DEF Watch
    <2>2. /\ task[i].mode \in Background /\ ~Answered(task[i]) /\ task[i].notices = 0
          /\ task[i].agent \notin InProgress /\ ~Withdrawn(task[i])
          /\ task[i].tree \in {"clean", "changed"} => task[i].listed
      BY <1>0, <1>6 DEF Watch, Background, Answered, TaskInv, TaskType, DeliveryInv, WorkInv, Withdrawn
    <2>3. \A u \in Finalized(task[i], status) : Allowed(task[i], u)
      BY <1>0, <2>2, FinalizedAllowed
    <2>. QED
      BY <2>1, <2>3, ChangePromised
  <1>7. ASSUME NEW i \in DOMAIN task, CallerWakes(i) PROVE PromisedStep
    <2>. DEFINE t == task[i]
    <2>1. /\ t \in TaskType /\ t.answer = "waiting" /\ t.mode = "foreground"
          /\ t.agent \notin InProgress /\ t.notices = 0
          /\ t.tree \in {"clean", "changed"} => t.listed
      BY <1>0, <1>7 DEF CallerWakes, TaskInv, TaskType, DeliveryInv, WorkInv, Background, Withdrawn
    <2>2. ASSUME NEW u, u.mode = t.mode, u.agent = t.agent, u.notices = 0,
                 u.answer \in {"result", "error"}
          PROVE  Allowed(t, u)
      <3>1. StageOf(t) = "ended" /\ StageOf(u) = "ended"
        BY <2>1, <2>2 DEF StageOf, Withdrawn, Working, InProgress
      <3>2. OwnerOf(t) = "call" /\ OwnerOf(u) = "call"
        BY <2>1, <2>2 DEF OwnerOf
      <3>3. ToldOf(t) = "not" /\ ToldOf(u) = "result"
        BY <2>1, <2>2 DEF ToldOf, Deliveries, Answered
      <3>. QED
        BY <3>1, <3>2, <3>3 DEF Allowed, ToldNow
    <2>3. CASE t.agent = "raised"
      <3>1. \A u \in {[t EXCEPT !.answer = "error"]} : Allowed(t, u)
        BY <2>1, <2>2 DEF TaskType
      <3>. QED
        BY <1>7, <2>3, <3>1, ChangePromised DEF CallerWakes
    <2>4. CASE t.agent # "raised"
      <3>1. ASSUME NEW c \in Cleaned(t) PROVE Allowed(t, [c EXCEPT !.answer = "result"])
        <4>1. SameButTree(c, t)
          BY <2>1, CleanedKeeps
        <4>. QED
          BY <2>1, <2>2, <4>1 DEF SameButTree, TaskType
      <3>2. \A u \in {[c EXCEPT !.answer = "result"] : c \in Cleaned(t)} : Allowed(t, u)
        BY <3>1
      <3>. QED
        BY <1>7, <2>4, <3>2, ChangePromised DEF CallerWakes
    <2>. QED
      BY <2>3, <2>4
  <1>8. ASSUME NEW i \in DOMAIN task, CallerTimesOut(i) \/ MainCancelled(i) PROVE PromisedStep
    <2>. DEFINE t == task[i]
    <2>1. PICK answer \in {"started", "none"} : Adopt(i, answer)
      BY <1>8 DEF CallerTimesOut, MainCancelled
    <2>. DEFINE u == [t EXCEPT !.mode = "adopted", !.answer = answer]
    <2>2. t \in TaskType /\ t.mode = "foreground" /\ t.answer = "waiting" /\ t.notices = 0
      BY <1>0, <1>8 DEF CallerTimesOut, MainCancelled, TaskInv, TaskType, DeliveryInv, Background, Withdrawn
    <2>3. u.mode = "adopted" /\ u.answer = answer /\ u.agent = t.agent /\ u.notices = 0
      BY <2>2 DEF TaskType
    <2>4. StageOf(u) = StageOf(t)
      BY <2>2, <2>3 DEF StageOf, Withdrawn
    <2>5. OwnerOf(t) = "call" /\ OwnerOf(u) = "manager"
      BY <2>2, <2>3 DEF OwnerOf
    <2>6. ToldOf(t) = "not" /\ ToldOf(u) = "not"
      BY <2>2, <2>3 DEF ToldOf, Deliveries, Answered
    <2>7. Allowed(t, u)
      BY <2>4, <2>5, <2>6 DEF Allowed, HandedOver
    <2>. QED
      BY <2>1, <2>7, ChangePromised DEF Adopt
  <1>9. ASSUME NEW i \in DOMAIN task, Work(i) PROVE PromisedStep
    <2>1. \A u \in {[task[i] EXCEPT !.tree = "changed", !.worked = TRUE]} : SameCourse(task[i], u)
      BY <1>0 DEF SameCourse, TaskType
    <2>. QED
      BY <1>9, <2>1, CourseAllowed, ChangePromised DEF Work
  <1>10. ASSUME NEW i \in DOMAIN task, TaskUpdate(i) PROVE PromisedStep
    <2>1. PICK status : Change(i, {[task[i] EXCEPT !.status = status, !.updated = TRUE]})
      BY <1>10 DEF TaskUpdate
    <2>2. \A u \in {[task[i] EXCEPT !.status = status, !.updated = TRUE]} : SameCourse(task[i], u)
      BY <1>0 DEF SameCourse, TaskType
    <2>. QED
      BY <2>1, <2>2, CourseAllowed, ChangePromised
  <1>11. ASSUME NEW i \in DOMAIN task, Retry(i) PROVE PromisedStep
    <2>. DEFINE u == [task[i] EXCEPT !.agent = "retrying"]
    <2>1. /\ u.mode = task[i].mode /\ u.answer = task[i].answer
          /\ u.notices = task[i].notices /\ u.agent = "retrying" /\ task[i].agent = "running"
      BY <1>0, <1>11 DEF Retry, TaskType
    <2>2. StageOf(u) = StageOf(task[i])
      BY <2>1 DEF StageOf, Working, InProgress
    <2>3. OwnerOf(u) = OwnerOf(task[i]) /\ ToldOf(u) = ToldOf(task[i])
      BY <2>1 DEF OwnerOf, ToldOf, Deliveries, Answered
    <2>4. Allowed(task[i], u)
      BY <2>2, <2>3 DEF Allowed, SameForMain
    <2>. QED
      BY <1>11, <2>4, ChangePromised DEF Retry
  <1>12. ASSUME NEW i \in DOMAIN task, Cancel(i) PROVE PromisedStep
    <2>. DEFINE t == task[i]
                d == Asked(t)
    <2>1. t \in TaskType /\ TaskInv(t) /\ t.mode \in Background
      BY <1>0, <1>12 DEF Cancel
    <2>2. /\ d.mode = t.mode /\ d.answer = t.answer /\ d.notices = t.notices
          /\ d.tree = t.tree /\ d.listed = t.listed
          /\ d.agent = (IF Begun(t) THEN t.agent ELSE "cancelled")
      BY <2>1 DEF TaskType, Asked
    <2>3. d \in TaskType
      BY <2>1, ZenonT(30) DEF TaskType, Asked
    <2>4. /\ ~Answered(t) /\ (t.tree \in {"clean", "changed"} => t.listed)
          /\ Begun(d) <=> Begun(t)
      BY <2>1, <2>2 DEF TaskInv, DeliveryInv, WorkInv, Background, Answered, Begun
    <2>5. CASE Begun(t) \/ t.mode = "adopted"
      <3>1. Change(i, {d})
        BY <1>12, <2>2, <2>4, <2>5 DEF Cancel
      <3>2. CASE d.agent = t.agent
        <4>1. \A u \in {d} : Allowed(t, u)
          BY <2>2, <3>2, CourseAllowed DEF SameCourse
        <4>. QED
          BY <3>1, <4>1, ChangePromised
      <3>3. CASE d.agent # t.agent
        <4>1. t.agent = "created" /\ d.agent = "cancelled" /\ t.mode = "adopted"
          BY <2>2, <2>5, <3>3 DEF Begun
        <4>2. StageOf(t) = "waiting" /\ StageOf(d) = "ended"
          BY <2>2, <4>1 DEF StageOf, Withdrawn, Working, InProgress
        <4>3. OwnerOf(d) = OwnerOf(t) /\ ToldOf(d) = ToldOf(t)
          BY <2>2 DEF OwnerOf, ToldOf, Deliveries, Answered
        <4>4. \A u \in {d} : Allowed(t, u)
          BY <4>2, <4>3 DEF Allowed, CameToEnd
        <4>. QED
          BY <3>1, <4>4, ChangePromised
      <3>. QED
        BY <3>2, <3>3
    <2>6. CASE ~Begun(t) /\ t.mode = "launched"
      <3>1. Change(i, Finalized(d, "failed"))
        BY <1>12, <2>2, <2>4, <2>6 DEF Cancel
      <3>2. CASE t.agent = "created"
        <4>1. t.notices = 0 /\ ~Withdrawn(t) /\ d.agent \notin InProgress
          BY <2>1, <2>2, <2>6, <3>2 DEF TaskInv, TaskType, DeliveryInv, Withdrawn, InProgress, Begun
        <4>2. \A f \in Finalized(d, "failed") : Allowed(t, f)
          BY <2>1, <2>2, <2>3, <2>4, <3>2, <4>1, FinalizedAllowed
        <4>. QED
          BY <3>1, <4>2, ChangePromised
      <3>3. CASE t.agent # "created"
        <4>1. Withdrawn(t) /\ t.notices >= 1 /\ d.agent = t.agent
          BY <2>1, <2>2, <2>6, <3>3 DEF TaskInv, DeliveryInv, Withdrawn, InProgress, Begun
        <4>2. \A f \in Finalized(d, "failed") : Allowed(t, f)
          BY <2>1, <2>2, <2>3, <2>4, <4>1, AgainAllowed
        <4>. QED
          BY <3>1, <4>2, ChangePromised
      <3>. QED
        BY <3>2, <3>3
    <2>. QED
      BY <2>1, <2>5, <2>6 DEF Background
  <1>. QED
    BY <1>1, <1>2, <1>3, <1>4, <1>5, <1>6, <1>7, <1>8, <1>9, <1>10, <1>11, <1>12
       DEF TasksNext, Proceed

-----------------------------------------------------------------------------
(* However completion, timeout, cancellation and cleanup race: the end of  *)
(* every subagent is told at most once, by the call that awaits it or,     *)
(* from the adoption on, by TaskManager, and not before it has come; of    *)
(* one cancelled before it began it may be told again.                     *)
THEOREM TasksDeliver == TasksSpec => DeliversAsPromised
  <1>1. TasksInit => Promised!Init
    BY TasksAssumption DEF TasksInit, Promised!Init, Stage, Owner, Told
  <1>2. TasksInv /\ [TasksNext]_taskVars => [Promised!Next]_(Promised!vars)
    <2>1. ASSUME UNCHANGED taskVars PROVE UNCHANGED Promised!vars
      BY <2>1 DEF taskVars, Promised!vars, Stage, Owner, Told
    <2>. QED
      BY <2>1, NextPromised DEF PromisedStep
  <1>. QED
    BY <1>1, <1>2, TasksInvariant, PTL DEF TasksSpec, DeliversAsPromised, Promised!Spec

-----------------------------------------------------------------------------
(***************************************************************************)
(* Theorems about NamedAgents, for any number of agents, messages and      *)
(* calls.  The chain the forks inherit: what the main run leaves in it at  *)
(* any time, and what a fork is asked.                                     *)
(***************************************************************************)

Words == {"said", "notice", "reply", "boilerplate", "task"}

(* What a fork is asked: its task, and the input of the run, without text. *)
ForkInput == UserMessage(<<TextBlock(<<"boilerplate">>), TextBlock(<<"task">>), TextBlock(<<>>)>>)

LEMMA ForkInputIs ==
  ASSUME NEW I, NEW H
  PROVE  /\ ForkInput \in Messages(Words, I, H) /\ ForkInput.role = "user"
         /\ ForkInput.content # <<>> /\ TextOnly(ForkInput) /\ HasText(ForkInput)
<1> DEFINE a == TextBlock(<<"boilerplate">>)
           b == TextBlock(<<"task">>)
           c == TextBlock(<<>>)
           blocks == << a, b, c >>
<1>1. a.kind = "text" /\ b.kind = "text" /\ c.kind = "text"
  BY DEF TextBlock
<1>2. a \in BlocksOf(Words, I, H) /\ b \in BlocksOf(Words, I, H) /\ c \in BlocksOf(Words, I, H)
  <2>1. <<"boilerplate">> \in Seq(Words) /\ <<"task">> \in Seq(Words) /\ <<>> \in Seq(Words)
    BY DEF Words
  <2>2. \A w \in Seq(Words) : TextBlock(w) \in BlocksOf(Words, I, H)
    BY DEF TextBlock, TextBlocks, BlocksOf
  <2> QED BY <2>1, <2>2
<1> HIDE DEF a, b, c
<1>3. blocks \in Seq(BlocksOf(Words, I, H)) /\ blocks # <<>> /\ DOMAIN blocks = 1..3
      /\ blocks[1] = a /\ blocks[2] = b /\ blocks[3] = c
  BY <1>2
<1>4. ForkInput.content = blocks /\ ForkInput.role = "user" /\ ForkInput = [role |-> "user", content |-> blocks]
  BY DEF ForkInput, UserMessage, Message, a, b, c
<1> HIDE DEF blocks
<1>5. \A p \in DOMAIN blocks : blocks[p].kind = "text"
  BY <1>1, <1>3
<1>6. 1 \in DOMAIN blocks
  BY <1>3
<1>7. HasText(ForkInput)
  BY <1>4, <1>5, <1>6 DEF HasText, ToSet
<1> QED BY <1>3, <1>4, <1>5, <1>7 DEF TextOnly, Messages

LEMMA ThreeInARow ==
  ASSUME NEW x, NEW y, NEW z
  PROVE  << x, y >> \o << z >> = << x, y, z >>
<1> DEFINE S == {x, y, z}
           s == << x, y >> \o << z >>
           t == << x, y, z >>
<1>1. << x, y >> \in Seq(S) /\ << z >> \in Seq(S)
  OBVIOUS
<1>2. s \in Seq(S) /\ Len(s) = 3
  BY <1>1
<1>3. s[1] = x /\ s[2] = y /\ s[3] = z
  OBVIOUS
<1>4. t \in Seq(S) /\ Len(t) = 3 /\ t[1] = x /\ t[2] = y /\ t[3] = z
  OBVIOUS
<1> HIDE DEF s, t, S
<1>5. \A i \in 1..3 : i = 1 \/ i = 2 \/ i = 3
  OBVIOUS
<1>6. \A i \in 1..3 : s[i] = t[i]
  BY <1>3, <1>4, <1>5
<1>7. s = t
  BY <1>2, <1>4, <1>6
<1> QED BY <1>7 DEF s, t

LEMMA MessageExtended ==
  ASSUME NEW blocks, NEW more, NEW msg, msg = [role |-> "user", content |-> blocks]
  PROVE  [msg EXCEPT !.content = @ \o more] = [role |-> "user", content |-> msg.content \o more]
<1> DEFINE all == msg.content \o more
           m == [msg EXCEPT !.content = all]
<1>1. m = [msg EXCEPT !.content = @ \o more]
  OBVIOUS
<1>2. DOMAIN msg = {"role", "content"} /\ msg.role = "user"
  OBVIOUS
<1> HIDE DEF all
<1>3. m = [k \in {"role", "content"} |-> IF k = "content" THEN all ELSE msg[k]]
  BY <1>2
<1>4. m = [role |-> "user", content |-> all]
  BY <1>2, <1>3
<1> HIDE DEF m
<1> QED BY <1>1, <1>4 DEF all

(* The conversation of a fork before its repair.                           *)
Forked(msgs) == Append(CopiedParent(msgs), ForkInput)

LEMMA ForkedIs ==
  ASSUME NEW I, NEW H, NEW msgs, CopiedParent(msgs) \in Chains(Words, I, H)
  PROVE  ForkRequest(msgs) = RepairChain(Forked(msgs)) /\ Forked(msgs) \in Chains(Words, I, H)
<1> DEFINE c == CopiedParent(msgs)
           n == Len(c)
           t == Append(c, ForkTask)
           empty == UserMessage(<<TextBlock(<<>>)>>)
           joined == [role |-> "user", content |-> ForkTask.content \o empty.content]
<1>1. ForkTask = [role |-> "user", content |-> <<TextBlock(<<"boilerplate">>), TextBlock(<<"task">>)>>]
      /\ empty = [role |-> "user", content |-> <<TextBlock(<<>>)>>]
  BY DEF ForkTask, UserMessage, Message
<1>2. joined = ForkInput
  <2>2. \A x, y, z : << x, y >> \o << z >> = << x, y, z >>
    BY ThreeInARow
  <2> QED BY <1>1, <2>2 DEF ForkInput, UserMessage, Message
<1>3. ForkInput \in Messages(Words, I, H)
  BY ForkInputIs
<1> DEFINE S == Messages(Words, I, H) \cup {ForkTask}
<1>4. c \in Seq(S) /\ ForkTask \in S
  BY SeqGrows DEF Chains
<1> HIDE DEF c, S
<1>5. t \in Seq(S) /\ Len(t) = n + 1 /\ n \in Nat /\ t[n + 1] = ForkTask /\ t # <<>> /\ \A i \in 1..n : t[i] = c[i]
  BY <1>4
<1> HIDE DEF t, n
<1>6. Last(t) = ForkTask /\ Last(t).role = "user"
  BY <1>1, <1>5 DEF Last
<1>7. AppendMessage(t, empty) = [t EXCEPT ![n + 1].content = @ \o empty.content]
  BY <1>1, <1>5, <1>6 DEF AppendMessage
<1>8. [ForkTask EXCEPT !.content = @ \o empty.content] = joined
  <2> DEFINE more == empty.content
             extended == [role |-> "user", content |-> ForkTask.content \o more]
  <2>1. PICK blocks : ForkTask = [role |-> "user", content |-> blocks]
    BY <1>1
  <2>2. extended = joined
    OBVIOUS
  <2> HIDE DEF joined, empty, extended
  <2>3. [ForkTask EXCEPT !.content = @ \o more] = extended
    <3> HIDE DEF more
    <3> QED BY <2>1, MessageExtended DEF extended
  <2> QED BY <2>2, <2>3
<1> HIDE DEF joined, empty
<1>9. n + 1 \in DOMAIN t
  BY <1>5
<1>10. AppendMessage(t, empty) = [t EXCEPT ![n + 1] = ForkInput]
  BY <1>2, <1>5, <1>7, <1>8, <1>9
<1>11. [t EXCEPT ![n + 1] = ForkInput] = Append(c, ForkInput)
  <2> DEFINE u == [t EXCEPT ![n + 1] = ForkInput]
             v == Append(c, ForkInput)
             U == S \cup {ForkInput}
  <2>1. DOMAIN t = 1..(n + 1) /\ t \in Seq(U) /\ c \in Seq(U) /\ ForkInput \in U
    BY <1>4, <1>5, SeqGrows
  <2> HIDE DEF U
  <2>2. u \in Seq(U) /\ DOMAIN u = 1..(n + 1) /\ Len(u) = n + 1 /\ u[n + 1] = ForkInput /\ \A i \in 1..n : u[i] = t[i]
    BY <1>5, <2>1
  <2>3. v \in Seq(U) /\ Len(v) = n + 1 /\ v[n + 1] = ForkInput /\ \A i \in 1..n : v[i] = c[i]
    BY <1>5, <2>1 DEF n
  <2>4. \A i \in 1..(n + 1) : u[i] = v[i]
    BY <1>5, <2>2, <2>3
  <2> HIDE DEF u, v
  <2>5. u = v
    BY <2>2, <2>3, <2>4
  <2> QED BY <2>5 DEF u, v
<1>12. AppendMessage(BuildForkedMessages(msgs), UserMessage(<<TextBlock(<<>>)>>)) = Forked(msgs)
  BY <1>10, <1>11 DEF BuildForkedMessages, Forked, t, c, empty
<1>13. ForkRequest(msgs) = RepairChain(Forked(msgs))
  BY <1>12 DEF ForkRequest
<1>14. Forked(msgs) \in Chains(Words, I, H)
  BY <1>3 DEF Forked, Chains
<1> QED BY <1>13, <1>14

(* A chain that could be sent, or none, and a message of text.             *)
LEMMA SettledAndText ==
  ASSUME NEW I, NEW H, NEW msgs \in Chains(Words, I, H), msgs = <<>> \/ Settled(msgs)
  PROVE  AnsweredInTurn(Append(msgs, ForkInput)) /\ Unanswered(Append(msgs, ForkInput)) = {}
<1> DEFINE c == Append(msgs, ForkInput)
           n == Len(msgs)
<1>1. /\ ForkInput \in Messages(Words, I, H) /\ ForkInput.role = "user" /\ ForkInput.content # <<>>
      /\ TextOnly(ForkInput) /\ ResultIds(ForkInput) = {}
  BY ForkInputIs, TextSays
<1>2. MoreText(msgs, ForkInput, c)
  BY <1>1, TextAppended
<1>3. Clean(msgs) /\ Unanswered(msgs) = {}
  <2>1. ASSUME msgs = <<>> PROVE Clean(msgs) /\ Unanswered(msgs) = {}
    <3>1. DOMAIN msgs = {}
      BY <2>1
    <3>2. AllUseIds(msgs) = {} /\ AllResultIds(msgs) = {}
      BY <3>1, AnsweredBy
    <3> QED BY <3>1, <3>2 DEF Clean, Distinct, Unanswered
  <2> QED BY <2>1 DEF Settled
<1>4. Clean(c)
  BY <1>1, <1>3, TextKeepsClean
<1>5. n \in Nat /\ DOMAIN msgs = 1..n
  BY ChainIs
<1> HIDE DEF c, n
<1>6. \A i \in DOMAIN c : (i \in DOMAIN msgs /\ c[i] = msgs[i]) \/ c[i] = ForkInput
  BY <1>2, <1>5 DEF MoreText, n
<1>7. \A i \in DOMAIN msgs : i \in DOMAIN c /\ c[i] = msgs[i]
  BY <1>2, <1>5 DEF MoreText, n
<1>8. \A i \in DOMAIN msgs : Settled(msgs)
  BY <1>5 DEF n
<1>9. ASSUME NEW i \in DOMAIN c, c[i].role = "assistant"
      PROVE  i + 1 \in DOMAIN c /\ c[i + 1].role = "user" /\ ResultIds(c[i + 1]) = UseIds(c[i])
  <2>1. i \in DOMAIN msgs /\ c[i] = msgs[i]
    BY <1>1, <1>6, <1>9
  <2>2. i + 1 \in DOMAIN msgs /\ msgs[i + 1].role = "user" /\ ResultIds(msgs[i + 1]) = UseIds(msgs[i])
    BY <1>8, <1>9, <2>1, SettledIs
  <2> QED BY <1>7, <2>1, <2>2
<1>10. ASSUME NEW i \in DOMAIN c, c[i].role = "user", ResultIds(c[i]) # {}
       PROVE  i - 1 \in DOMAIN c /\ c[i - 1].role = "assistant" /\ UseIds(c[i - 1]) = ResultIds(c[i])
  <2>1. i \in DOMAIN msgs /\ c[i] = msgs[i]
    BY <1>1, <1>6, <1>10
  <2>2. i - 1 \in DOMAIN msgs /\ msgs[i - 1].role = "assistant" /\ UseIds(msgs[i - 1]) = ResultIds(msgs[i])
    BY <1>8, <1>10, <2>1, SettledIs
  <2> QED BY <1>7, <2>1, <2>2
<1>11. AnsweredInTurn(c)
  BY <1>4, <1>9, <1>10 DEF AnsweredInTurn
<1>12. Unanswered(c) = {}
  BY <1>2, <1>3 DEF Unanswered, MoreText
<1> QED BY <1>11, <1>12 DEF c

LEMMA SettledAndReply ==
  ASSUME NEW I, NEW H, NEW msgs \in Chains(Words, I, H), msgs = <<>> \/ Settled(msgs),
         NEW msg \in Messages(Words, I, H), TextOnly(msg), msg.content # <<>>, msg.role = "assistant"
  PROVE  LET c == Append(Append(msgs, msg), ForkInput)
         IN  AnsweredInTurn(c) /\ Unanswered(c) = {}
<1> DEFINE b == Append(msgs, msg)
           c == Append(b, ForkInput)
           n == Len(msgs)
<1>1. /\ ForkInput \in Messages(Words, I, H) /\ ForkInput.role = "user" /\ ForkInput.content # <<>>
      /\ TextOnly(ForkInput) /\ ResultIds(ForkInput) = {} /\ UseIds(msg) = {}
  BY ForkInputIs, TextSays
<1>2. b \in Chains(Words, I, H) /\ MoreText(msgs, msg, b)
  BY TextAppended
<1>3. MoreText(b, ForkInput, c)
  <2> HIDE DEF b
  <2> QED BY <1>1, <1>2, TextAppended
<1>4. Clean(msgs) /\ Unanswered(msgs) = {}
  <2>1. ASSUME msgs = <<>> PROVE Clean(msgs) /\ Unanswered(msgs) = {}
    <3>1. DOMAIN msgs = {}
      BY <2>1
    <3>2. AllUseIds(msgs) = {} /\ AllResultIds(msgs) = {}
      BY <3>1, AnsweredBy
    <3> QED BY <3>1, <3>2 DEF Clean, Distinct, Unanswered
  <2> QED BY <2>1 DEF Settled
<1>5. Clean(b)
  BY <1>4, TextKeepsClean
<1>6. Clean(c)
  <2> HIDE DEF b
  <2> QED BY <1>1, <1>2, <1>5, TextKeepsClean
<1>7. n \in Nat /\ DOMAIN msgs = 1..n
  BY ChainIs
<1> HIDE DEF b, c, n
<1>8. /\ DOMAIN c = 1..(n + 2) /\ c[n + 1] = msg /\ c[n + 2] = ForkInput
      /\ \A i \in DOMAIN msgs : i \in DOMAIN c /\ c[i] = msgs[i]
  <2>1. Len(b) = n + 1 /\ DOMAIN b = 1..(n + 1) /\ b[n + 1] = msg /\ \A i \in DOMAIN msgs : b[i] = msgs[i]
    BY <1>2 DEF MoreText, n
  <2>2. (n + 1) + 1 = n + 2
    BY <1>7
  <2>3. DOMAIN c = 1..(n + 2) /\ c[n + 2] = ForkInput /\ \A i \in DOMAIN b : c[i] = b[i]
    BY <1>3, <2>1, <2>2 DEF MoreText
  <2> QED BY <1>7, <2>1, <2>3
<1>9. \A i \in DOMAIN c : (i \in DOMAIN msgs /\ c[i] = msgs[i]) \/ i = n + 1 \/ i = n + 2
  BY <1>7, <1>8
<1>10. \A i \in DOMAIN msgs : Settled(msgs)
  BY <1>7 DEF n
<1>11. ASSUME NEW i \in DOMAIN c, c[i].role = "assistant"
      PROVE  i + 1 \in DOMAIN c /\ c[i + 1].role = "user" /\ ResultIds(c[i + 1]) = UseIds(c[i])
  <2>1. CASE i \in DOMAIN msgs
    <3>1. c[i] = msgs[i]
      BY <1>8, <2>1
    <3>2. i + 1 \in DOMAIN msgs /\ msgs[i + 1].role = "user" /\ ResultIds(msgs[i + 1]) = UseIds(msgs[i])
      BY <1>10, <1>11, <2>1, <3>1, SettledIs
    <3> QED BY <1>8, <3>1, <3>2
  <2>2. CASE i \notin DOMAIN msgs
    <3>1. i = n + 1
      BY <1>1, <1>8, <1>9, <1>11, <2>2
    <3>2. i + 1 = n + 2 /\ n + 2 \in DOMAIN c
      BY <1>7, <1>8, <3>1
    <3> QED BY <1>1, <1>8, <3>1, <3>2
  <2> QED BY <2>1, <2>2
<1>12. ASSUME NEW i \in DOMAIN c, c[i].role = "user", ResultIds(c[i]) # {}
       PROVE  i - 1 \in DOMAIN c /\ c[i - 1].role = "assistant" /\ UseIds(c[i - 1]) = ResultIds(c[i])
  <2>1. i \in DOMAIN msgs /\ c[i] = msgs[i]
    BY <1>1, <1>8, <1>9, <1>12
  <2>2. i - 1 \in DOMAIN msgs /\ msgs[i - 1].role = "assistant" /\ UseIds(msgs[i - 1]) = ResultIds(msgs[i])
    BY <1>10, <1>12, <2>1, SettledIs
  <2> QED BY <1>8, <2>1, <2>2
<1>13. AnsweredInTurn(c)
  BY <1>6, <1>11, <1>12 DEF AnsweredInTurn
<1>14. Unanswered(c) = {}
  BY <1>2, <1>3, <1>4 DEF Unanswered, MoreText
<1> QED BY <1>13, <1>14 DEF b, c

(* A chain that ends with the user, with no call open.                     *)
LEMMA ForkOfAnswered ==
  ASSUME NEW n \in Nat, NEW I \in SUBSET (1..n), NEW msgs \in Chains(Words, I, I),
         msgs = <<>> \/ Settled(msgs)
  PROVE  ForkRequest(msgs) \in Chains(Words, I, I) /\ AnsweredInTurn(ForkRequest(msgs))
<1> DEFINE c == Append(msgs, ForkInput)
<1>1. CopiedParent(msgs) = msgs
  BY DEF CopiedParent, Settled, EndsWithUser, Last
<1>2. ForkRequest(msgs) = RepairChain(c) /\ c \in Chains(Words, I, I)
  <2>1. CopiedParent(msgs) \in Chains(Words, I, I)
    BY <1>1
  <2> QED BY <1>1, <2>1, ForkedIs DEF Forked
<1>3. AnsweredInTurn(c) /\ Unanswered(c) = {}
  BY SettledAndText
<1> HIDE DEF c
<1>4. DropInvalidBlocks(c) = c
  BY <1>2, <1>3, CleanIsKept DEF AnsweredInTurn
<1>5. RepairChain(c) = c
  BY <1>3, <1>4 DEF RepairChain
<1> QED BY <1>2, <1>3, <1>5

(* The reply of the copy: its calls are results.                           *)
ClosedBlock(b) == IF IsUse(b) THEN PlaceholderBlock(b.id) ELSE b

ClosedReply(msg) == AssistantMessage([k \in DOMAIN msg.content |-> ClosedBlock(msg.content[k])])

LEMMA CopiedReply ==
  ASSUME NEW msgs, msgs # <<>>, Last(msgs).role = "assistant"
  PROVE  CopiedParent(msgs) = Append(Front(msgs), ClosedReply(Last(msgs)))
BY DEF CopiedParent, ClosedReply, ClosedBlock

LEMMA ClosedReplyIs ==
  ASSUME NEW F, NEW I, NEW msg \in Messages(F, I, I), ResultIds(msg) = {}
  PROVE  /\ ClosedReply(msg) \in Messages(F, I, I) /\ ClosedReply(msg).role = "assistant"
         /\ UseIds(ClosedReply(msg)) = {} /\ ResultIds(ClosedReply(msg)) = UseIds(msg)
<1> DEFINE blocks == msg.content
           out == [k \in DOMAIN blocks |-> ClosedBlock(blocks[k])]
<1>1. blocks \in Seq(BlocksOf(F, I, I)) /\ Len(blocks) \in Nat /\ DOMAIN blocks = 1..Len(blocks)
      /\ \A k \in DOMAIN blocks : blocks[k] \in BlocksOf(F, I, I)
  BY DEF Messages
<1>2. \A k \in DOMAIN blocks : ~IsResult(blocks[k])
  BY DEF ResultIds, ToSet
<1>3. \A b \in BlocksOf(F, I, I) :
        /\ ClosedBlock(b) \in BlocksOf(F, I, I) /\ ~IsUse(ClosedBlock(b)) /\ ClosedBlock(b).id = b.id
        /\ ~IsResult(b) => (IsResult(ClosedBlock(b)) <=> IsUse(b))
  BY DEF ClosedBlock, BlocksOf, TextBlocks, IdBlocks, IsUse, IsResult, PlaceholderBlock
<1>4. out \in Seq(BlocksOf(F, I, I)) /\ DOMAIN out = DOMAIN blocks /\ \A k \in DOMAIN blocks : out[k] = ClosedBlock(blocks[k])
  <2> DEFINE g(k) == ClosedBlock(blocks[k])
             u == [k \in 1..Len(blocks) |-> g(k)]
  <2>1. \A k \in 1..Len(blocks) : g(k) \in BlocksOf(F, I, I)
    BY <1>1, <1>3
  <2>2. out = u
    BY <1>1
  <2> HIDE DEF g, out, blocks
  <2>3. u \in Seq(BlocksOf(F, I, I)) /\ DOMAIN u = 1..Len(blocks)
    BY <1>1, <2>1
  <2>4. DOMAIN out = DOMAIN blocks
    BY <1>1, <2>2, <2>3
  <2>5. \A k \in DOMAIN blocks : out[k] = ClosedBlock(blocks[k])
    BY <1>1, <2>2 DEF g
  <2> QED BY <2>2, <2>3, <2>4, <2>5
<1>5. ClosedReply(msg) = [role |-> "assistant", content |-> out]
  BY DEF ClosedReply, AssistantMessage, Message
<1> HIDE DEF out
<1> DEFINE c == ClosedReply(msg)
<1>6. c.content = out /\ c.role = "assistant" /\ c \in Messages(F, I, I)
  BY <1>4, <1>5 DEF Messages
<1> HIDE DEF c, blocks
<1>7. UseIds(c) = {}
  BY <1>1, <1>3, <1>4, <1>6 DEF UseIds, ToSet
<1>8. ASSUME NEW id \in ResultIds(c) PROVE id \in UseIds(msg)
  <2>1. PICK k \in DOMAIN blocks : IsResult(out[k]) /\ id = out[k].id
    BY <1>4, <1>6, <1>8 DEF ResultIds, ToSet
  <2>2. IsUse(blocks[k]) /\ id = blocks[k].id
    BY <1>1, <1>2, <1>3, <1>4, <2>1
  <2> QED BY <2>2 DEF UseIds, ToSet, blocks
<1>9. ASSUME NEW id \in UseIds(msg) PROVE id \in ResultIds(c)
  <2>1. PICK k \in DOMAIN blocks : IsUse(blocks[k]) /\ id = blocks[k].id
    BY <1>9 DEF UseIds, ToSet, blocks
  <2>2. IsResult(out[k]) /\ id = out[k].id
    BY <1>1, <1>2, <1>3, <1>4, <2>1
  <2> QED BY <1>4, <1>6, <2>2 DEF ResultIds, ToSet
<1> QED BY <1>6, <1>7, <1>8, <1>9 DEF c

(* A chain that ends with a reply, cancelled or in work.                   *)
LEMMA ForkOfReply ==
  ASSUME NEW n \in Nat, NEW I \in SUBSET (1..n), NEW msgs \in Chains(Words, I, I), Repairable(msgs),
         Clean(msgs), msgs # <<>>, msgs[Len(msgs)].role = "assistant"
  PROVE  ForkRequest(msgs) \in Chains(Words, I, I) /\ AnsweredInTurn(ForkRequest(msgs))
<1> DEFINE s == Front(msgs)
           last == msgs[Len(msgs)]
           closed == ClosedReply(last)
           m == Len(s)
           c == Forked(msgs)
           kept == Message("assistant", KeptBlocks(c, m + 1))
<1>1. /\ s \in Chains(Words, I, I) /\ m = Len(msgs) - 1 /\ DOMAIN s = 1..m
      /\ \A i \in 1..m : s[i] = msgs[i]
      /\ s = <<>> \/ Settled(s)
  BY FrontIsSettled
<1>2. Len(msgs) \in Nat /\ DOMAIN msgs = 1..Len(msgs) /\ Len(msgs) \in DOMAIN msgs /\ m \in Nat /\ Len(msgs) = m + 1
  BY <1>1 DEF Chains
<1>3. last \in Messages(Words, I, I) /\ ResultIds(last) = {}
  <2>1. last \in Messages(Words, I, I)
    BY <1>2, ChainIs
  <2> QED BY <1>2, <2>1 DEF Repairable, Shaped
<1>4. closed \in Messages(Words, I, I) /\ closed.role = "assistant" /\ UseIds(closed) = {}
      /\ ResultIds(closed) = UseIds(last)
  BY <1>3, ClosedReplyIs
<1>5. CopiedParent(msgs) = Append(s, closed)
  BY CopiedReply DEF Last
<1>6. CopiedParent(msgs) \in Chains(Words, I, I)
  BY <1>1, <1>4, <1>5 DEF Chains
<1>7. ForkRequest(msgs) = RepairChain(c) /\ c \in Chains(Words, I, I)
  BY <1>6, ForkedIs
<1>8. /\ ForkInput \in Messages(Words, I, I) /\ ForkInput.role = "user" /\ ForkInput.content # <<>>
      /\ TextOnly(ForkInput) /\ UseIds(ForkInput) = {}
  BY ForkInputIs, TextSays
<1> HIDE DEF closed, last, s
<1>9. /\ Len(c) = m + 2 /\ DOMAIN c = 1..(m + 2) /\ c[m + 1] = closed /\ c[m + 2] = ForkInput
      /\ \A i \in DOMAIN s : c[i] = s[i]
  <2> DEFINE T == Messages(Words, I, I)
             b == Append(s, closed)
             d == Append(b, ForkInput)
  <2>1. c = d
    BY <1>5 DEF Forked
  <2>2. s \in Seq(T) /\ closed \in T /\ ForkInput \in T
    BY <1>1, <1>4, <1>8 DEF Chains
  <2> HIDE DEF T, c, d
  <2>3. b \in Seq(T) /\ Len(b) = m + 1 /\ b[m + 1] = closed /\ \A i \in 1..m : b[i] = s[i]
    BY <1>2, <2>2
  <2> HIDE DEF b
  <2>4. d \in Seq(T) /\ Len(d) = m + 2 /\ d[m + 2] = ForkInput /\ \A i \in 1..(m + 1) : d[i] = b[i]
    BY <1>2, <2>2, <2>3 DEF d
  <2>5. m + 1 \in 1..(m + 1) /\ \A i \in 1..m : i \in 1..(m + 1)
    BY <1>2
  <2>6. DOMAIN d = 1..(m + 2)
    BY <1>2, <2>4
  <2> HIDE DEF m
  <2> QED BY <1>1, <2>1, <2>3, <2>4, <2>5, <2>6
<1> HIDE DEF c, m
<1>10. ASSUME NEW i \in DOMAIN s
       PROVE  i \in DOMAIN msgs /\ i \in DOMAIN c /\ c[i] = msgs[i] /\ s[i] = msgs[i] /\ i \in Nat /\ i <= m
  BY <1>1, <1>2, <1>9
<1>11. \A i \in DOMAIN c : i \in DOMAIN s \/ i = m + 1 \/ i = m + 2
  BY <1>1, <1>2, <1>9
<1>12. m + 1 \in DOMAIN c /\ m + 2 \in DOMAIN c
  BY <1>2, <1>9
<1>13. \A id : id \in AllUseIds(c) => \E i \in DOMAIN s : id \in UseIds(s[i])
  BY <1>4, <1>8, <1>9, <1>10, <1>11, AnsweredBy
<1>14. ASSUME NEW i \in DOMAIN s
       PROVE  Message(c[i].role, KeptBlocks(c, i)) = s[i] /\ s[i].content # <<>>
  <2>1. Clean(s)
    BY <1>1, <1>14 DEF Settled
  <2>2. ASSUME NEW p \in DOMAIN c[i].content PROVE Keeps(c, i, p)
    <3>1. SUFFICES ASSUME c[i].content[p].kind # "text"
                   PROVE  /\ ~SeenBefore(c, i, p)
                          /\ IsResult(c[i].content[p]) => c[i].content[p].id \in AllUseIds(c)
      BY DEF Keeps
    <3>2. ASSUME SeenBefore(c, i, p) PROVE FALSE
      <4>1. PICK j \in 1..i : \E q \in DOMAIN c[j].content :
                   /\ j < i \/ q < p
                   /\ c[j].content[q].kind # "text"
                   /\ SameCall(c[j].content[q], c[i].content[p])
        BY <3>2 DEF SeenBefore
      <4>2. PICK q \in DOMAIN c[j].content :
                   /\ j < i \/ q < p
                   /\ Twice(c[j].content[q], c[i].content[p])
        BY <3>1, <4>1 DEF Twice
      <4>3. j \in DOMAIN s /\ j \in Nat
        BY <1>1, <1>2, <1>10
      <4>4. c[j] = s[j] /\ c[i] = s[i] /\ i \in Nat
        BY <1>10, <4>3
      <4>5. p \in Nat /\ q \in Nat
        <5>1. s[i].content \in Seq(BlocksOf(Words, I, I)) /\ s[j].content \in Seq(BlocksOf(Words, I, I))
          BY <1>1, <4>3, ChainIs
        <5>2. \A x \in Seq(BlocksOf(Words, I, I)) : DOMAIN x \subseteq Nat
          OBVIOUS
        <5> QED BY <4>4, <5>1, <5>2
      <4>6. j = i /\ q = p
        BY <2>1, <4>2, <4>3, <4>4 DEF Clean, Distinct
      <4> QED BY <4>2, <4>4, <4>5, <4>6
    <3>3. ASSUME IsResult(c[i].content[p]) PROVE c[i].content[p].id \in AllUseIds(c)
      <4>1. c[i].content[p].id \in AllResultIds(s)
        BY <1>10, <3>3, IdsAreAt
      <4>2. c[i].content[p].id \in AllUseIds(s)
        BY <2>1, <4>1 DEF Clean
      <4>3. PICK j \in DOMAIN s : c[i].content[p].id \in UseIds(s[j])
        BY <4>2, AnsweredBy
      <4>4. j \in DOMAIN c /\ c[j] = s[j]
        BY <1>10
      <4> QED BY <4>3, <4>4, AnsweredBy
    <3> QED BY <3>2, <3>3
  <2>3. Message(c[i].role, KeptBlocks(c, i)) = c[i]
    BY <1>7, <1>10, <2>2, AllKept
  <2> QED BY <1>10, <2>1, <2>3 DEF Clean
<1>15. KeptBlocks(c, m + 2) = ForkInput.content /\ Message(c[m + 2].role, KeptBlocks(c, m + 2)) = ForkInput
  <2>1. \A p \in DOMAIN c[m + 2].content : Keeps(c, m + 2, p)
    BY <1>8, <1>9 DEF Keeps, TextOnly
  <2> QED BY <1>7, <1>9, <1>12, <2>1, AllKept
<1>16. kept \in Messages(Words, I, I) /\ TextOnly(kept) /\ kept.role = "assistant" /\ kept.content = KeptBlocks(c, m + 1)
       /\ Message(c[m + 1].role, KeptBlocks(c, m + 1)) = kept
  <2> DEFINE out == KeptBlocks(c, m + 1)
             blocks == closed.content
  <2>1. blocks \in Seq(BlocksOf(Words, I, I)) /\ c[m + 1].content = blocks
    BY <1>4, <1>9 DEF Messages
  <2>2. out \in Seq(BlocksOf(Words, I, I))
    BY <2>1, SelectedIs DEF KeptBlocks
  <2>3. PICK g \in [DOMAIN out -> DOMAIN c[m + 1].content] :
               \A q \in DOMAIN out : out[q] = c[m + 1].content[g[q]] /\ Keeps(c, m + 1, g[q])
    BY <1>7, <1>12, KeptAre
  <2>4. ASSUME NEW p \in DOMAIN blocks, Keeps(c, m + 1, p) PROVE blocks[p].kind = "text"
    <3>1. SUFFICES ASSUME blocks[p].kind # "text" PROVE FALSE
      OBVIOUS
    <3>2. blocks[p] \in BlocksOf(Words, I, I)
      BY <2>1
    <3>3. ~IsUse(blocks[p])
      <4> SUFFICES ASSUME IsUse(blocks[p]) PROVE blocks[p].id \in UseIds(closed)
        BY <1>4
      <4> QED BY <2>4 DEF UseIds, ToSet
    <3>4. IsResult(blocks[p])
      BY <3>1, <3>2, <3>3, KindsAre
    <3>5. blocks[p].id \in UseIds(last)
      BY <1>4, <2>4, <3>4 DEF ResultIds, ToSet
    <3>6. blocks[p].id \in AllUseIds(c)
      BY <2>1, <2>4, <3>1, <3>4 DEF Keeps
    <3>7. PICK j \in DOMAIN s : blocks[p].id \in UseIds(s[j])
      BY <1>13, <3>6
    <3>8. j \in DOMAIN msgs /\ blocks[p].id \in UseIds(msgs[j]) /\ j \in Nat /\ j <= m
      BY <1>10, <3>7
    <3>9. j = Len(msgs)
      BY <1>2, <3>5, <3>8 DEF Repairable, UsesApart, last
    <3> QED BY <1>2, <3>8, <3>9
  <2>5. \A q \in DOMAIN out : out[q].kind = "text"
    BY <2>1, <2>3, <2>4
  <2>6. kept = [role |-> "assistant", content |-> out]
    BY DEF Message
  <2> HIDE DEF out, kept
  <2>7. kept \in Messages(Words, I, I) /\ kept.role = "assistant" /\ kept.content = out
    BY <2>2, <2>6 DEF Messages
  <2> QED BY <1>4, <1>9, <2>5, <2>7 DEF TextOnly, kept, out
<1> HIDE DEF kept
<1> DEFINE out == DropInvalidBlocks(c)
<1>17. out = WithKept(c, m + 2, WithKept(c, m + 1, s))
  <2>1. m = Len(s)
    BY DEF m
  <2>2. KeptWhole(s, c)
    BY <1>14 DEF KeptWhole
  <2>3. s \in Chains(Words, I, I) /\ c \in Chains(Words, I, I) /\ Len(c) = Len(s) + 2
    BY <1>1, <1>7, <1>9, <2>1
  <2>4. DropInvalidBlocks(c) = WithKept(c, m + 2, WithKept(c, m + 1, s))
    <3> HIDE DEF out
    <3>1. DropInvalidBlocks(c) = WithKept(c, Len(s) + 2, WithKept(c, Len(s) + 1, s))
      BY <2>2, <2>3, DropAfter
    <3> QED BY <2>1, <3>1
  <2> QED BY <2>4
<1>18. out = IF KeptBlocks(c, m + 1) = <<>> THEN Append(s, ForkInput) ELSE Append(Append(s, kept), ForkInput)
  <2>1. WithKept(c, m + 1, s) = IF KeptBlocks(c, m + 1) = <<>> THEN s ELSE Append(s, kept)
    BY <1>16 DEF WithKept
  <2>2. \A x : WithKept(c, m + 2, x) = Append(x, ForkInput)
    BY <1>8, <1>15 DEF WithKept
  <2> HIDE DEF out
  <2> QED BY <1>17, <2>1, <2>2
<1> HIDE DEF out
<1>19. AnsweredInTurn(out) /\ Unanswered(out) = {}
  <2>1. CASE KeptBlocks(c, m + 1) = <<>>
    BY <1>1, <1>18, <2>1, SettledAndText
  <2>2. CASE KeptBlocks(c, m + 1) # <<>>
    BY <1>1, <1>16, <1>18, <2>2, SettledAndReply
  <2> QED BY <2>1, <2>2
<1>20. RepairChain(c) = out
  BY <1>19 DEF RepairChain, out
<1>21. RepairChain(c) \in Chains(Words, I, I)
  BY <1>7, RepairIs
<1> QED BY <1>7, <1>19, <1>20, <1>21

(* A chain that ends with results, while some are still awaited: the       *)
(* task comes after them as a message of its own, and what the adapter     *)
(* makes of the two is what it makes of one.                               *)
LEMMA ForkOfOpen ==
  ASSUME NEW n \in Nat, NEW I \in SUBSET (1..n), NEW msgs \in Chains(Words, I, I), Repairable(msgs),
         Clean(msgs), EndsWithUser(msgs), Unanswered(msgs) # {}, ~HasText(msgs[Len(msgs)])
  PROVE  CallsAnswered("openai", OpenAIMessages(ForkRequest(msgs)))
<1> DEFINE open == Unanswered(msgs)
           P == UserMessage(Placeholders(open))
           two == Append(msgs, ForkInput)
           one == AppendMessage(msgs, ForkInput)
           R == AppendMessage(two, P)
           N == AppendMessage(one, P)
           last == msgs[Len(msgs)]
           s == Front(msgs)
<1>1. /\ ForkInput \in Messages(Words, I, I) /\ ForkInput.role = "user" /\ ForkInput.content # <<>>
      /\ TextOnly(ForkInput) /\ HasText(ForkInput) /\ UseIds(ForkInput) = {} /\ ResultIds(ForkInput) = {}
  BY ForkInputIs, TextSays
<1>2. msgs # <<>> /\ last.role = "user" /\ Len(msgs) \in Nat /\ DOMAIN msgs = 1..Len(msgs)
  BY ChainIs DEF EndsWithUser
<1>3. /\ two \in Chains(Words, I, I) /\ Clean(two) /\ Unanswered(two) = open
      /\ Len(two) = Len(msgs) + 1 /\ two[Len(msgs) + 1] = ForkInput
      /\ \A i \in DOMAIN msgs : two[i] = msgs[i]
  <2>1. two \in Chains(Words, I, I) /\ MoreText(msgs, ForkInput, two)
    BY <1>1, TextAppended
  <2>2. Clean(two)
    BY <1>1, TextKeepsClean
  <2>3. Unanswered(two) = open
    BY <2>1 DEF MoreText, Unanswered
  <2> HIDE DEF two, open
  <2> QED BY <2>1, <2>2, <2>3 DEF MoreText
<1>4. one \in Chains(Words, I, I) /\ Clean(one) /\ Unanswered(one) = open
  <2>1. Appendable(msgs, ForkInput)
    BY <1>1, TextAppends
  <2>2. one \in Chains(Words, I, I) /\ Clean(one)
    BY <1>1, <2>1, AppendIs, AppendIsClean
  <2>3. SaysAlso(msgs, ForkInput, one)
    BY <1>1, AppendSays
  <2> HIDE DEF one
  <2> QED BY <1>1, <2>2, <2>3 DEF SaysAlso, Unanswered
<1>5. Repairable(one) /\ EndsWithUser(one)
  BY <1>1, UserRepairable
<1>6. Joins(msgs, ForkInput, one)
  BY <1>1, <1>2, JoinsOrAdds DEF Adds
<1>7. open # {} /\ P \in Messages(Words, I, I) /\ P.role = "user"
  BY PlaceholdersFit DEF UserMessage, Message
<1>8. CopiedParent(msgs) = msgs
  BY <1>2 DEF CopiedParent, Last
<1>9. ForkRequest(msgs) = RepairChain(two)
  <2>1. CopiedParent(msgs) \in Chains(Words, I, I)
    BY <1>8
  <2> QED BY <1>8, <2>1, ForkedIs DEF Forked
<1> HIDE DEF two, one, open, s, last
<1>10. RepairChain(two) = R /\ RepairChain(one) = N
  BY <1>3, <1>4, <1>7, RepairOfClean
<1>11. R \in Chains(Words, I, I) /\ Clean(R)
  <2>1. RepairChain(two) \in Chains(Words, I, I) /\ Clean(RepairChain(two))
    BY <1>3, RepairIs, RepairIsClean
  <2> QED BY <1>10, <2>1
<1>12. N \in Chains(Words, I, I) /\ Settled(N)
  <2>1. RepairChain(one) \in Chains(Words, I, I) /\ Settled(RepairChain(one))
    BY <1>4, <1>5, RepairSettles
  <2> QED BY <1>10, <2>1
<1> HIDE DEF P
<1>13. Joins(two, P, R)
  <2>1. Joins(two, P, R) \/ Adds(two, P, R)
    BY <1>3, <1>7, JoinsOrAdds
  <2>2. two # <<>> /\ two[Len(two)].role = "user"
    <3>1. Len(two) # 0
      BY <1>2, <1>3
    <3>2. Len(<<>>) = 0
      OBVIOUS
    <3> QED BY <1>1, <1>3, <3>1, <3>2
  <2> HIDE DEF R
  <2> QED BY <1>7, <2>1, <2>2 DEF Adds
<1>14. Joins(one, P, N)
  <2>1. Joins(one, P, N) \/ Adds(one, P, N)
    BY <1>4, <1>7, JoinsOrAdds
  <2> HIDE DEF N
  <2> QED BY <1>5, <1>7, <2>1 DEF Adds, EndsWithUser
<1> HIDE DEF R, N
<1> DEFINE r == R[Len(R)]
           c == N[Len(N)]
<1>15. R = Append(msgs, r) /\ r.role = "user" /\ r.content = ForkInput.content \o P.content /\ r \in Messages(Words, I, I)
  <2>1. Len(R) = Len(msgs) + 1 /\ DOMAIN two = 1..(Len(msgs) + 1) /\ Len(two) = Len(msgs) + 1
    <3>1. DOMAIN two = 1..Len(two)
      BY <1>3, ChainIs
    <3> QED BY <1>3, <1>13, <3>1 DEF Joins
  <2>2. \A i \in DOMAIN msgs : i \in DOMAIN two /\ i # Len(two)
    BY <1>2, <2>1
  <2>3. \A i \in DOMAIN msgs : R[i] = msgs[i]
    BY <1>3, <1>13, <2>2 DEF Joins
  <2>4. R = Append(msgs, r)
    <3>1. msgs \in Seq(Messages(Words, I, I)) /\ R \in Seq(Messages(Words, I, I))
      BY <1>11 DEF Chains
    <3> QED BY <2>1, <2>3, <3>1, EndsAlike
  <2>5. r.role = "user" /\ r.content = ForkInput.content \o P.content
    BY <1>3, <1>7, <1>13, <2>1 DEF Joins
  <2>6. Len(R) \in DOMAIN R
    <3>1. DOMAIN R = 1..Len(R)
      BY <1>11, ChainIs
    <3> QED BY <1>2, <2>1, <3>1
  <2>7. r \in Messages(Words, I, I)
    BY <1>11, <2>6, ChainIs
  <2> QED BY <2>4, <2>5, <2>7
<1>16. msgs = Append(s, last) /\ last \in Messages(Words, I, I) /\ s \in Chains(Words, I, I)
  <2> HIDE DEF r, c
  <2>1. msgs # <<>>
    BY <1>2
  <2> QED BY <2>1, LastOfChain DEF s, last
<1>17. Len(one) = Len(msgs) /\ Len(N) = Len(msgs) /\ one[Len(msgs)].content = last.content \o ForkInput.content
       /\ \A i \in DOMAIN msgs : i # Len(msgs) => one[i] = msgs[i]
  BY <1>6, <1>14 DEF Joins, last
<1>18. c.role = "user" /\ c.content = (last.content \o ForkInput.content) \o P.content
  BY <1>7, <1>14, <1>17 DEF Joins
<1>19. N = Append(s, c)
  <2>1. N = Append(Front(one), c)
    <3>1. one # <<>>
      BY <1>5 DEF EndsWithUser
    <3> QED BY <1>4, <1>12, <1>14, <1>17, <3>1, JoinedLast
  <2>2. Front(one) = s
    <3>1. DOMAIN one = DOMAIN msgs
      BY <1>6 DEF Joins
    <3>2. Front(one) = [i \in 1..(Len(msgs) - 1) |-> one[i]] /\ s = [i \in 1..(Len(msgs) - 1) |-> msgs[i]]
      BY <1>17 DEF Front, s
    <3>3. \A i \in 1..(Len(msgs) - 1) : one[i] = msgs[i]
      BY <1>2, <1>17
    <3> QED BY <3>2, <3>3
  <2> QED BY <2>1, <2>2
<1>20. c \in Messages(Words, I, I)
  <2>1. Len(N) \in DOMAIN N
    BY <1>12 DEF Settled, EndsWithUser, Chains
  <2> QED BY <1>12, <2>1, ChainIs
<1> HIDE DEF r, c
<1>21. c.content = last.content \o r.content
  <2> DEFINE T == BlocksOf(Words, I, I)
             x == last.content
             y == ForkInput.content
             z == P.content
  <2>1. x \in Seq(T) /\ y \in Seq(T) /\ z \in Seq(T)
    BY <1>1, <1>7, <1>16 DEF Messages
  <2>2. c.content = (x \o y) \o z /\ r.content = y \o z
    BY <1>15, <1>18
  <2> HIDE DEF T, x, y, z
  <2>3. (x \o y) \o z = x \o (y \o z)
    BY <2>1, Reassociated
  <2>4. c.content = x \o r.content
    BY <2>2, <2>3
  <2> QED BY <2>4 DEF x
<1>22. HasText(r)
  <2> DEFINE T == BlocksOf(Words, I, I)
             x == ForkInput.content
             y == P.content
             z == x \o y
  <2>1. x \in Seq(T) /\ y \in Seq(T) /\ r.content = z
    BY <1>1, <1>7, <1>15 DEF Messages
  <2>2. PICK p \in DOMAIN x : x[p].kind = "text"
    BY <1>1 DEF HasText, ToSet
  <2> HIDE DEF T, x, y
  <2>3. p \in DOMAIN z /\ z[p] = x[p]
    BY <2>1, <2>2
  <2> QED BY <2>1, <2>2, <2>3 DEF HasText, ToSet
<1>23. Together(last, r, c)
  BY <1>2, <1>15, <1>18, <1>21, <1>22 DEF Together, last
<1>24. OpenAIMessages(R) = OpenAIMessages(N)
  <2>1. R = Append(Append(s, last), r) /\ N = Append(s, c)
    BY <1>15, <1>16, <1>19
  <2>2. Clean(Append(Append(s, last), r)) /\ Clean(Append(s, c))
    BY <1>11, <1>12, <2>1 DEF Settled
  <2>3. OpenAIMessages(Append(Append(s, last), r)) = OpenAIMessages(Append(s, c))
    BY <1>15, <1>16, <1>20, <1>23, <2>2, RequestSplit
  <2> QED BY <2>1, <2>3
<1>25. CallsAnswered("openai", OpenAIMessages(N))
  BY <1>12, SettledIsPaired DEF Serialize, Providers
<1> QED BY <1>9, <1>10, <1>24, <1>25

(* A chain of the texts of the model and the calls made before "id".       *)
IdsBefore(id) == 1..(id - 1)

SoundChain(msgs, id) ==
  id \in Nat \ {0} /\ msgs \in Chains(Words, IdsBefore(id), IdsBefore(id)) /\ Repairable(msgs) /\ Clean(msgs)

(* Calls that have not returned are open in the chain, each of them once.  *)
Awaited(todo, msgs) ==
  /\ \A k, l \in DOMAIN todo : todo[k] = todo[l] => k = l
  /\ \A k \in DOMAIN todo : todo[k] \in Unanswered(msgs)

(* What the user or the tools put at the end of a chain.                   *)
UserPut(msgs, id, c) == SoundChain(c, id) /\ EndsWithUser(c)

LEMMA OneText ==
  ASSUME NEW w \in Words, NEW role \in {"user", "assistant"}, NEW I, NEW H
  PROVE  LET msg == Message(role, <<TextBlock(<<w>>)>>)
         IN  /\ msg \in Messages(Words, I, H) /\ msg.role = role /\ msg.content # <<>> /\ TextOnly(msg)
<1> DEFINE b == TextBlock(<<w>>)
           msg == Message(role, << b >>)
<1>1. b \in BlocksOf(Words, I, H) /\ b.kind = "text"
  BY DEF TextBlock, TextBlocks, BlocksOf
<1> HIDE DEF b
<1>2. msg = [role |-> role, content |-> << b >>]
  BY DEF Message
<1> HIDE DEF msg
<1>3. << b >> \in Seq(BlocksOf(Words, I, H)) /\ << b >> # <<>> /\ DOMAIN << b >> = {1} /\ << b >>[1] = b
  BY <1>1
<1>4. msg \in Messages(Words, I, H) /\ msg.role = role /\ msg.content = << b >>
  BY <1>2, <1>3 DEF Messages
<1>5. msg.content # <<>> /\ TextOnly(msg)
  BY <1>1, <1>3, <1>4 DEF TextOnly
<1> QED BY <1>4, <1>5 DEF msg, b

LEMMA TextAdded ==
  ASSUME NEW msgs, NEW id, SoundChain(msgs, id), NEW w \in Words
  PROVE  LET c == AppendMessage(msgs, UserMessage(<<TextBlock(<<w>>)>>))
         IN  UserPut(msgs, id, c) /\ Unanswered(c) = Unanswered(msgs)
<1> DEFINE I == IdsBefore(id)
           msg == UserMessage(<<TextBlock(<<w>>)>>)
           c == AppendMessage(msgs, msg)
<1>1. msgs \in Chains(Words, I, I) /\ Repairable(msgs) /\ Clean(msgs) /\ id \in Nat \ {0}
  BY DEF SoundChain
<1>2. msg \in Messages(Words, I, I) /\ msg.role = "user" /\ msg.content # <<>> /\ TextOnly(msg)
  BY OneText DEF UserMessage
<1> HIDE DEF msg, I
<1>3. UseIds(msg) = {} /\ ResultIds(msg) = {} /\ Appendable(msgs, msg)
  BY <1>2, TextSays, TextAppends
<1>4. c \in Chains(Words, I, I) /\ Clean(c) /\ SaysAlso(msgs, msg, c)
  BY <1>1, <1>2, <1>3, AppendIs, AppendIsClean, AppendSays
<1>5. Repairable(c) /\ EndsWithUser(c)
  BY <1>1, <1>2, <1>3, UserRepairable
<1> HIDE DEF c
<1>6. Unanswered(c) = Unanswered(msgs)
  BY <1>3, <1>4 DEF SaysAlso, Unanswered
<1>7. UserPut(msgs, id, c)
  BY <1>1, <1>4, <1>5 DEF UserPut, SoundChain, I
<1> QED BY <1>6, <1>7 DEF c, msg

(* The blocks of a message as a function of a sequence of ids.             *)
LEMMA BlocksMade ==
  ASSUME NEW m \in Nat, NEW kind \in {"use", "result"}, NEW J, NEW ids \in [1..m -> J]
  PROVE  LET s == [k \in 1..m |-> [kind |-> kind, text |-> <<>>, id |-> ids[k]]]
         IN  /\ s \in Seq(BlocksOf(Words, J, J)) /\ Len(s) = m /\ DOMAIN s = 1..m
             /\ \A k \in 1..m : s[k].kind = kind /\ s[k].id = ids[k]
<1> DEFINE b(k) == [kind |-> kind, text |-> <<>>, id |-> ids[k]]
           s == [k \in 1..m |-> b(k)]
<1>1. \A k \in 1..m : b(k) \in BlocksOf(Words, J, J) /\ b(k).kind = kind /\ b(k).id = ids[k]
  <2> SUFFICES ASSUME NEW k \in 1..m PROVE b(k) \in BlocksOf(Words, J, J) /\ b(k).kind = kind /\ b(k).id = ids[k]
    OBVIOUS
  <2>1. ids[k] \in J
    OBVIOUS
  <2> QED BY <2>1 DEF IdBlocks, BlocksOf
<1> HIDE DEF b
<1>2. s \in Seq(BlocksOf(Words, J, J)) /\ Len(s) = m /\ DOMAIN s = 1..m
  BY <1>1
<1>3. \A k \in 1..m : s[k] = b(k)
  OBVIOUS
<1> HIDE DEF s
<1>4. \A k \in 1..m : s[k].kind = kind /\ s[k].id = ids[k]
  BY <1>1, <1>3
<1> QED BY <1>2, <1>4 DEF s, b

ResultsOf(todo, m) == UserMessage([k \in 1..m |-> ToolResultBlock(todo[k])])

LEMMA ResultsAre ==
  ASSUME NEW J, NEW m \in Nat \ {0}, NEW todo, \A k \in 1..m : todo[k] \in J,
         \A k, l \in 1..m : todo[k] = todo[l] => k = l
  PROVE  LET msg == ResultsOf(todo, m)
         IN  /\ msg \in Messages(Words, J, J) /\ msg.role = "user" /\ msg.content # <<>>
             /\ UseIds(msg) = {} /\ ResultIds(msg) = {todo[k] : k \in 1..m}
             /\ \A p, q \in DOMAIN msg.content : Twice(msg.content[p], msg.content[q]) => p = q
<1> DEFINE msg == ResultsOf(todo, m)
           ids == [k \in 1..m |-> todo[k]]
           s == [k \in 1..m |-> [kind |-> "result", text |-> <<>>, id |-> ids[k]]]
<1>1. ids \in [1..m -> J] /\ \A k \in 1..m : ids[k] = todo[k]
  OBVIOUS
<1>2. msg = [role |-> "user", content |-> s]
  BY DEF ResultsOf, UserMessage, Message, ToolResultBlock
<1> HIDE DEF ids
<1>3. /\ s \in Seq(BlocksOf(Words, J, J)) /\ Len(s) = m /\ DOMAIN s = 1..m
      /\ \A k \in 1..m : s[k].kind = "result" /\ s[k].id = ids[k]
  BY <1>1, BlocksMade
<1> HIDE DEF s, msg
<1>4. msg \in Messages(Words, J, J) /\ msg.role = "user" /\ msg.content = s
  BY <1>2, <1>3 DEF Messages
<1>5. s # <<>>
  BY <1>3
<1>6. UseIds(msg) = {}
  BY <1>3, <1>4 DEF UseIds, IsUse, ToSet
<1>7. \A x : x \in ResultIds(msg) <=> \E k \in 1..m : x = todo[k]
  BY <1>1, <1>3, <1>4 DEF ResultIds, IsResult, ToSet
<1>8. \A p, q \in DOMAIN s : Twice(s[p], s[q]) => p = q
  BY <1>1, <1>3 DEF Twice, SameCall
<1>9. ResultIds(msg) = {todo[k] : k \in 1..m}
  BY <1>7
<1> QED BY <1>4, <1>5, <1>6, <1>8, <1>9 DEF msg

LEMMA ResultsAdded ==
  ASSUME NEW msgs, NEW id, SoundChain(msgs, id), NEW todo \in Seq(Nat), Awaited(todo, msgs),
         NEW m \in DOMAIN todo
  PROVE  LET c == AppendMessage(msgs, ResultsOf(todo, m))
         IN  /\ UserPut(msgs, id, c)
             /\ Awaited(SubSeq(todo, m + 1, Len(todo)), c)
<1> DEFINE I == IdsBefore(id)
           msg == ResultsOf(todo, m)
           c == AppendMessage(msgs, msg)
           rest == SubSeq(todo, m + 1, Len(todo))
<1>1. msgs \in Chains(Words, I, I) /\ Repairable(msgs) /\ Clean(msgs) /\ id \in Nat \ {0}
  BY DEF SoundChain
<1>2. m \in Nat \ {0} /\ m <= Len(todo) /\ Len(todo) \in Nat /\ DOMAIN todo = 1..Len(todo)
      /\ 1..m \subseteq DOMAIN todo
  OBVIOUS
<1>3. (\A k \in 1..m : todo[k] \in I) /\ \A k, l \in 1..m : todo[k] = todo[l] => k = l
  <2>1. Unanswered(msgs) \subseteq I
    BY <1>1, UnansweredAre
  <2> QED BY <1>2, <2>1 DEF Awaited
<1>4. /\ msg \in Messages(Words, I, I) /\ msg.role = "user" /\ msg.content # <<>>
      /\ UseIds(msg) = {} /\ ResultIds(msg) = {todo[k] : k \in 1..m}
      /\ \A p, q \in DOMAIN msg.content : Twice(msg.content[p], msg.content[q]) => p = q
  BY <1>2, <1>3, ResultsAre
<1> HIDE DEF msg, I
<1>5. ResultIds(msg) \subseteq Unanswered(msgs)
  BY <1>2, <1>4 DEF Awaited
<1>6. Appendable(msgs, msg)
  BY <1>4, <1>5 DEF Appendable, Unanswered
<1>7. c \in Chains(Words, I, I) /\ Clean(c) /\ SaysAlso(msgs, msg, c)
  BY <1>1, <1>4, <1>6, AppendIs, AppendIsClean, AppendSays
<1>8. Repairable(c) /\ EndsWithUser(c)
  BY <1>1, <1>4, <1>5, UserRepairable
<1> HIDE DEF c
<1>9. UserPut(msgs, id, c)
  BY <1>1, <1>7, <1>8 DEF UserPut, SoundChain, I
<1>10. \A k \in DOMAIN rest : m + k \in DOMAIN todo /\ rest[k] = todo[m + k] /\ m + k \notin 1..m /\ k \in Nat
  <2>1. rest \in Seq(Nat) /\ Len(rest) = Len(todo) - m /\ DOMAIN rest = 1..(Len(todo) - m)
    BY <1>2
  <2>2. \A k \in 1..(Len(todo) - m) : rest[k] = todo[m + k]
    BY <1>2
  <2> HIDE DEF rest
  <2>3. \A k \in DOMAIN rest : k \in 1..(Len(todo) - m) /\ k \in Nat /\ k > 0
    BY <1>2, <2>1
  <2>4. \A k \in 1..(Len(todo) - m) : m + k \in 1..Len(todo) /\ m + k \notin 1..m
    BY <1>2
  <2>5. \A k \in DOMAIN rest : m + k \in DOMAIN todo /\ m + k \notin 1..m
    BY <1>2, <2>3, <2>4
  <2> QED BY <2>2, <2>3, <2>5
<1> HIDE DEF rest
<1>11. Awaited(rest, c)
  <2>1. ASSUME NEW k \in DOMAIN rest, NEW l \in DOMAIN rest, rest[k] = rest[l] PROVE k = l
    <3>1. m + k = m + l
      BY <1>10, <2>1 DEF Awaited
    <3> QED BY <1>2, <1>10, <3>1
  <2>2. ASSUME NEW k \in DOMAIN rest PROVE rest[k] \in Unanswered(c)
    <3>1. rest[k] \in Unanswered(msgs)
      BY <1>10 DEF Awaited
    <3>2. rest[k] \notin ResultIds(msg)
      BY <1>2, <1>4, <1>10 DEF Awaited
    <3> QED BY <1>7, <3>1, <3>2 DEF SaysAlso, Unanswered
  <2> QED BY <2>1, <2>2 DEF Awaited
<1> QED BY <1>9, <1>11 DEF c, msg, rest

LEMMA TurnBegins ==
  ASSUME NEW msgs, NEW id, SoundChain(msgs, id), EndsWithUser(msgs)
  PROVE  SoundChain(RepairChain(msgs), id) /\ Settled(RepairChain(msgs))
<1> DEFINE I == IdsBefore(id)
           c == RepairChain(msgs)
<1>1. msgs \in Chains(Words, I, I) /\ Repairable(msgs) /\ id - 1 \in Nat /\ I \in SUBSET (1..(id - 1)) /\ id \in Nat \ {0}
  BY DEF SoundChain, IdsBefore
<1> HIDE DEF I
<1>2. c \in Chains(Words, I, I) /\ Settled(c)
  BY <1>1, RepairSettles
<1> HIDE DEF c
<1>3. Repairable(c) /\ Clean(c)
  BY <1>2, SettledIsRepairable DEF Settled
<1> QED BY <1>1, <1>2, <1>3 DEF SoundChain, I, c

CallsFrom(first, m) == [k \in 1..m |-> first + k - 1]

ReplyOf(text, first, m) ==
  AssistantMessage((IF text THEN <<TextBlock(<<"reply">>)>> ELSE <<>>)
                   \o [k \in 1..m |-> ToolUseBlock(first + k - 1)])

LEMMA ReplyIs ==
  ASSUME NEW text \in BOOLEAN, NEW id \in Nat \ {0}, NEW m \in Nat, text \/ m > 0
  PROVE  LET msg == ReplyOf(text, id, m)
             J == IdsBefore(id + m)
         IN  /\ msg \in Messages(Words, J, J) /\ msg.role = "assistant" /\ msg.content # <<>>
             /\ ResultIds(msg) = {} /\ UseIds(msg) = {id + k - 1 : k \in 1..m}
             /\ \A p, q \in DOMAIN msg.content : Twice(msg.content[p], msg.content[q]) => p = q
<1> DEFINE msg == ReplyOf(text, id, m)
           J == IdsBefore(id + m)
           B == BlocksOf(Words, J, J)
           said == IF text THEN <<TextBlock(<<"reply">>)>> ELSE <<>>
           ids == CallsFrom(id, m)
           s == [k \in 1..m |-> [kind |-> "use", text |-> <<>>, id |-> ids[k]]]
           all == said \o s
<1>1. ids \in [1..m -> J] /\ (\A k \in 1..m : ids[k] = id + k - 1) /\ \A k, l \in 1..m : ids[k] = ids[l] => k = l
  BY DEF CallsFrom, IdsBefore
<1>2. msg = [role |-> "assistant", content |-> all]
  BY DEF ReplyOf, AssistantMessage, Message, ToolUseBlock, CallsFrom
<1>3. said \in Seq(B) /\ Len(said) \in Nat /\ (\A q \in DOMAIN said : said[q].kind = "text")
      /\ DOMAIN said = 1..Len(said) /\ (text => Len(said) = 1)
  <2> DEFINE b == TextBlock(<<"reply">>)
  <2>1. b \in B /\ b.kind = "text"
    BY DEF TextBlock, TextBlocks, BlocksOf, Words
  <2> HIDE DEF b, B
  <2>2. << b >> \in Seq(B) /\ Len(<< b >>) = 1 /\ DOMAIN << b >> = {1} /\ << b >>[1] = b
    BY <2>1
  <2>3. <<>> \in Seq(B) /\ Len(<<>>) = 0 /\ DOMAIN <<>> = {}
    OBVIOUS
  <2>4. CASE text
    <3>1. said = << b >>
      BY <2>4 DEF b
    <3> HIDE DEF said
    <3> QED BY <2>1, <2>2, <2>4, <3>1
  <2>5. CASE ~text
    <3>1. said = <<>>
      BY <2>5
    <3> HIDE DEF said
    <3> QED BY <2>3, <2>5, <3>1
  <2> QED BY <2>4, <2>5
<1> HIDE DEF ids, J, said
<1>4. /\ s \in Seq(B) /\ Len(s) = m /\ DOMAIN s = 1..m
      /\ \A k \in 1..m : s[k].kind = "use" /\ s[k].id = ids[k]
  BY <1>1, BlocksMade
<1> HIDE DEF s, msg, B
<1>5. Follows(said, s) /\ all \in Seq(B)
  BY <1>3, <1>4, JoinedAfter
<1> HIDE DEF all
<1>6. msg \in Messages(Words, J, J) /\ msg.role = "assistant" /\ msg.content = all
  BY <1>2, <1>5 DEF Messages, B
<1>7. Len(all) = Len(said) + m
  BY <1>4, <1>5 DEF Follows, all
<1>8. all # <<>>
  <2>1. Len(all) # 0
    BY <1>3, <1>7
  <2> QED BY <2>1
<1>9. \A q \in DOMAIN all :
        \/ all[q].kind = "text"
        \/ /\ q - Len(said) \in 1..m /\ all[q].kind = "use" /\ all[q].id = ids[q - Len(said)] /\ q \in Nat
  <2> SUFFICES ASSUME NEW q \in DOMAIN all
               PROVE  \/ all[q].kind = "text"
                      \/ /\ q - Len(said) \in 1..m /\ all[q].kind = "use" /\ all[q].id = ids[q - Len(said)] /\ q \in Nat
    OBVIOUS
  <2>1. q \in Nat
    BY <1>5
  <2>2. CASE q \in DOMAIN said
    BY <1>3, <1>5, <2>2 DEF Follows, all
  <2>3. CASE q \notin DOMAIN said
    <3>1. q - Len(said) \in DOMAIN s /\ all[q] = s[q - Len(said)]
      BY <1>5, <2>3 DEF Follows, all
    <3> QED BY <1>4, <2>1, <3>1
  <2> QED BY <2>2, <2>3
<1>10. \A k \in 1..m : Len(said) + k \in DOMAIN all /\ all[Len(said) + k].kind = "use" /\ all[Len(said) + k].id = ids[k]
  BY <1>4, <1>5 DEF Follows, all
<1>11. ResultIds(msg) = {}
  BY <1>6, <1>9 DEF ResultIds, IsResult, ToSet
<1>12. \A x : x \in UseIds(msg) <=> \E k \in 1..m : x = ids[k]
  <2>1. \A x : x \in UseIds(msg) <=> \E q \in DOMAIN all : all[q].kind = "use" /\ x = all[q].id
    BY <1>6 DEF UseIds, IsUse, ToSet
  <2> QED BY <1>9, <1>10, <2>1
<1>13. UseIds(msg) = {id + k - 1 : k \in 1..m}
  <2> DEFINE fresh == {id + k - 1 : k \in 1..m}
  <2>1. \A x : x \in fresh <=> \E k \in 1..m : x = id + k - 1
    OBVIOUS
  <2>2. \A x : (\E k \in 1..m : x = ids[k]) <=> (\E k \in 1..m : x = id + k - 1)
    BY <1>1
  <2> HIDE DEF fresh
  <2>3. UseIds(msg) = fresh
    BY <1>12, <2>1, <2>2
  <2> QED BY <2>3 DEF fresh
<1>14. \A p, q \in DOMAIN all : Twice(all[p], all[q]) => p = q
  <2> SUFFICES ASSUME NEW p \in DOMAIN all, NEW q \in DOMAIN all, Twice(all[p], all[q]) PROVE p = q
    OBVIOUS
  <2>1. /\ p - Len(said) \in 1..m /\ q - Len(said) \in 1..m /\ p \in Nat /\ q \in Nat
        /\ ids[p - Len(said)] = ids[q - Len(said)]
    BY <1>9 DEF Twice, SameCall
  <2>2. p - Len(said) = q - Len(said)
    BY <1>1, <2>1
  <2> QED BY <1>3, <2>1, <2>2
<1> QED BY <1>6, <1>8, <1>11, <1>13, <1>14 DEF msg, J

LEMMA ReplyAdded ==
  ASSUME NEW msgs, NEW id, SoundChain(msgs, id), Settled(msgs),
         NEW text \in BOOLEAN, NEW m \in Nat, text \/ m > 0
  PROVE  LET c == AppendMessage(msgs, ReplyOf(text, id, m))
         IN  SoundChain(c, id + m) /\ Awaited(CallsFrom(id, m), c)
<1> DEFINE I == IdsBefore(id)
           J == IdsBefore(id + m)
           msg == ReplyOf(text, id, m)
           c == AppendMessage(msgs, msg)
           ids == CallsFrom(id, m)
<1>1. msgs \in Chains(Words, I, I) /\ Clean(msgs) /\ id \in Nat \ {0}
  BY DEF SoundChain
<1>2. I \subseteq J /\ id + m \in Nat \ {0}
  BY <1>1 DEF IdsBefore
<1>3. /\ msg \in Messages(Words, J, J) /\ msg.role = "assistant" /\ msg.content # <<>>
      /\ ResultIds(msg) = {} /\ UseIds(msg) = {id + k - 1 : k \in 1..m}
      /\ \A p, q \in DOMAIN msg.content : Twice(msg.content[p], msg.content[q]) => p = q
  BY <1>1, ReplyIs
<1>4. AllUseIds(msgs) \subseteq I
  <2>1. \A x \in AllUseIds(msgs) : \E i \in DOMAIN msgs : \E p \in DOMAIN msgs[i].content :
             IsUse(msgs[i].content[p]) /\ x = msgs[i].content[p].id
    BY IdsAreAt
  <2>2. \A i \in DOMAIN msgs : \A p \in DOMAIN msgs[i].content : msgs[i].content[p] \in BlocksOf(Words, I, I)
    BY <1>1, ChainIs
  <2>3. \A b \in BlocksOf(Words, I, I) : IsUse(b) => b.id \in I
    BY KindsAre DEF IsUse
  <2> QED BY <2>1, <2>2, <2>3
<1>5. UseIds(msg) \cap AllUseIds(msgs) = {}
  <2>1. \A k \in 1..m : id + k - 1 \notin IdsBefore(id)
    BY <1>1 DEF IdsBefore
  <2> QED BY <1>3, <1>4, <2>1
<1>6. msgs \in Chains(Words, J, J)
  BY <1>1, <1>2, ChainsGrow
<1> HIDE DEF I, J, msg
<1>7. Appendable(msgs, msg)
  BY <1>3, <1>5 DEF Appendable
<1>8. c \in Chains(Words, J, J) /\ Clean(c)
  BY <1>1, <1>3, <1>6, <1>7, AppendIs, AppendIsClean
<1>9. Repairable(c) /\ UseIds(msg) \subseteq Unanswered(c)
  BY <1>3, <1>5, <1>6, AssistantRepairable
<1> HIDE DEF c
<1>10. SoundChain(c, id + m)
  BY <1>2, <1>8, <1>9 DEF SoundChain, J
<1>11. Awaited(ids, c)
  <2>1. DOMAIN ids = 1..m /\ \A k \in 1..m : ids[k] = id + k - 1
    BY DEF CallsFrom
  <2> HIDE DEF ids
  <2>2. \A k, l \in 1..m : id + k - 1 = id + l - 1 => k = l
    BY <1>1
  <2> QED BY <1>3, <1>9, <2>1, <2>2 DEF Awaited
<1> QED BY <1>10, <1>11 DEF c, msg, ids

(* What every step of the main agent leaves: a chain that a repair makes a *)
(* request again, which it is while a reply is awaited, and in which the   *)
(* calls that have not returned are open.                                  *)
MainInv ==
  /\ away \in BOOLEAN /\ main \in {"idle", "llm", "tools"} /\ calls \in Seq(Nat)
  /\ SoundChain(conv, nextId)
  /\ ~away /\ main = "llm" => Settled(conv)
  /\ ~away /\ main = "tools" => Awaited(calls, conv)

(* A fork is asked a request, at any time.                                 *)
LEMMA ForkIsAnswered ==
  ASSUME SoundChain(conv, nextId), ~Interposed
  PROVE  CallsAnswered("openai", Serialize("openai", ForkRequest(conv)))
<1> DEFINE I == IdsBefore(nextId)
           m == nextId - 1
           R == ForkRequest(conv)
<1>1. m \in Nat /\ I \in SUBSET (1..m) /\ conv \in Chains(Words, I, I) /\ Repairable(conv) /\ Clean(conv)
  BY DEF SoundChain, IdsBefore
<1>2. Serialize("openai", R) = OpenAIMessages(R)
  BY DEF Serialize
<1> HIDE DEF I, m
<1>3. Len(conv) \in Nat /\ DOMAIN conv = 1..Len(conv) /\ (conv # <<>> => Len(conv) \in DOMAIN conv)
  BY <1>1 DEF Chains
<1>4. ASSUME conv = <<>> \/ Settled(conv) PROVE CallsAnswered("openai", OpenAIMessages(R))
  <2>1. R \in Chains(Words, I, I) /\ AnsweredInTurn(R)
    BY <1>1, <1>4, ForkOfAnswered
  <2> HIDE DEF R
  <2> QED BY <2>1, OpenAIAnswered
<1>5. ASSUME conv # <<>>, conv[Len(conv)].role = "assistant" PROVE CallsAnswered("openai", OpenAIMessages(R))
  <2>1. R \in Chains(Words, I, I) /\ AnsweredInTurn(R)
    BY <1>1, <1>5, ForkOfReply
  <2> HIDE DEF R
  <2> QED BY <2>1, OpenAIAnswered
<1>6. ASSUME EndsWithUser(conv), Unanswered(conv) # {} PROVE CallsAnswered("openai", OpenAIMessages(R))
  <2>1. PICK id : id \in Unanswered(conv)
    BY <1>6
  <2>2. PICK i \in DOMAIN conv : id \in UseIds(conv[i]) /\ (i = Len(conv) \/ i + 1 = Len(conv)) /\ conv[i].role = "assistant"
    BY <1>1, <2>1, OpenAtEnd DEF Repairable
  <2>3. Len(conv) \in (i + 1)..Len(conv)
    BY <1>3, <1>6, <2>2 DEF EndsWithUser
  <2>4. UseIds(conv[i]) \ AllResultIds(conv) # {}
    BY <2>1, <2>2 DEF Unanswered
  <2>5. ~HasText(conv[Len(conv)])
    BY <2>2, <2>3, <2>4 DEF Interposed
  <2> HIDE DEF R
  <2> QED BY <1>1, <1>6, <2>5, ForkOfOpen DEF R
<1>7. conv = <<>> \/ conv[Len(conv)].role \in {"user", "assistant"}
  BY <1>1, <1>3, ChainIs DEF Messages
<1>8. ASSUME EndsWithUser(conv), Unanswered(conv) = {} PROVE Settled(conv)
  BY <1>1, <1>8 DEF Settled, Repairable
<1> HIDE DEF R
<1>9. CallsAnswered("openai", OpenAIMessages(R))
  BY <1>4, <1>5, <1>6, <1>7, <1>8 DEF EndsWithUser
<1> QED BY <1>2, <1>9 DEF R

LEMMA SoundGrows ==
  ASSUME NEW msgs, NEW id, SoundChain(msgs, id), NEW m \in Nat
  PROVE  SoundChain(msgs, id + m)
<1>1. IdsBefore(id) \subseteq IdsBefore(id + m) /\ id + m \in Nat \ {0}
  BY DEF IdsBefore, SoundChain
<1>2. msgs \in Chains(Words, IdsBefore(id + m), IdsBefore(id + m))
  BY <1>1, ChainsGrow DEF SoundChain
<1> QED BY <1>1, <1>2 DEF SoundChain

LEMMA NothingYet ==
  SoundChain(<<>>, 1)
<1>1. DOMAIN <<>> = {} /\ Len(<<>>) = 0
  OBVIOUS
<1>2. AllResultIds(<<>>) = {}
  BY <1>1, AnsweredBy
<1>3. Repairable(<<>>)
  BY <1>1 DEF Repairable, Shaped, UsesApart, Filled, Alternating
<1>4. Clean(<<>>)
  BY <1>1, <1>2 DEF Clean, Distinct
<1> QED BY <1>3, <1>4 DEF SoundChain, Chains

(* A text joins what the user or the tools said last.                      *)
LEMMA TextKeepsSettled ==
  ASSUME NEW msgs, NEW id, SoundChain(msgs, id), NEW w \in Words, Settled(msgs)
  PROVE  Settled(AppendMessage(msgs, UserMessage(<<TextBlock(<<w>>)>>)))
<1> DEFINE c == AppendMessage(msgs, UserMessage(<<TextBlock(<<w>>)>>))
<1>1. UserPut(msgs, id, c) /\ Unanswered(c) = Unanswered(msgs)
  BY TextAdded
<1> HIDE DEF c
<1>2. Settled(c)
  BY <1>1 DEF UserPut, SoundChain, Settled, Repairable
<1> QED BY <1>2 DEF c

LEMMA MainInvInit == NamedInit => MainInv
<1> SUFFICES ASSUME NamedInit PROVE MainInv
  OBVIOUS
<1>1. conv = <<>> /\ nextId = 1 /\ away = FALSE /\ main = "idle" /\ calls = <<>>
  BY DEF NamedInit
<1>2. SoundChain(conv, nextId)
  <2>1. conv = <<>> /\ nextId = 1
    BY <1>1
  <2> QED BY <2>1, NothingYet, Zenon
<1>3. <<>> \in Seq(Nat)
  OBVIOUS
<1> QED BY <1>1, <1>2, <1>3 DEF MainInv

LEMMA MainInvNotice ==
  ASSUME MainInv, Notice PROVE MainInv'
<1> DEFINE c == AppendMessage(conv, Notified)
<1>1. SoundChain(c, nextId) /\ Unanswered(c) = Unanswered(conv) /\ (Settled(conv) => Settled(c))
  <2>1. Notified = UserMessage(<<TextBlock(<<"notice">>)>>) /\ "notice" \in Words /\ SoundChain(conv, nextId)
    BY DEF Notified, MainInv, Words
  <2>2. UserPut(conv, nextId, c) /\ Unanswered(c) = Unanswered(conv)
    BY <2>1, TextAdded
  <2>3. Settled(conv) => Settled(c)
    BY <2>1, TextKeepsSettled
  <2> QED BY <2>2, <2>3 DEF UserPut
<1>2. conv' = c /\ UNCHANGED <<away, main, calls, nextId>>
  BY DEF Notice
<1> HIDE DEF c
<1> QED BY <1>1, <1>2 DEF MainInv, Awaited

LEMMA MainInvSay ==
  ASSUME MainInv, Say PROVE MainInv'
<1> DEFINE c == AppendMessage(conv, Said)
<1>1. SoundChain(c, nextId) /\ EndsWithUser(c)
  <2>1. Said = UserMessage(<<TextBlock(<<"said">>)>>) /\ "said" \in Words /\ SoundChain(conv, nextId)
    BY DEF Said, MainInv, Words
  <2> QED BY <2>1, TextAdded DEF UserPut
<1>2. SoundChain(RepairChain(c), nextId) /\ Settled(RepairChain(c))
  BY <1>1, TurnBegins
<1>3. conv' = (IF away THEN conv ELSE RepairChain(c)) /\ main' = "llm" /\ UNCHANGED <<away, calls, nextId>>
  BY DEF Say, SendTurn, AddedHere
<1> HIDE DEF c
<1> QED BY <1>2, <1>3 DEF MainInv

LEMMA MainInvReply ==
  ASSUME MainInv, Reply PROVE MainInv'
<1>1. PICK text \in BOOLEAN, n \in 0..(MaxIds - nextId + 1) :
        /\ text \/ n > 0
        /\ conv' = AddedHere(ReplyMessage(text, n)) /\ nextId' = nextId + n
        /\ \/ main' = "idle" /\ calls' = calls
           \/ main' = "tools" /\ calls' = [k \in 1..n |-> nextId + k - 1]
  BY DEF Reply
<1>2. main = "llm" /\ away' = away /\ n \in Nat /\ nextId \in Nat \ {0}
  BY DEF Reply, MainInv, SoundChain
<1> DEFINE c == AppendMessage(conv, ReplyOf(text, nextId, n))
           fresh == CallsFrom(nextId, n)
<1>3. conv' = IF away THEN conv ELSE c
  BY <1>1 DEF AddedHere, ReplyMessage, ReplyOf
<1>4. ~away => SoundChain(c, nextId + n) /\ Awaited(fresh, c)
  BY <1>1, <1>2, ReplyAdded DEF MainInv
<1>5. away => SoundChain(conv, nextId + n)
  BY <1>2, SoundGrows DEF MainInv
<1>6. fresh \in Seq(Nat) /\ (calls' = fresh \/ (main' = "idle" /\ calls' = calls))
  BY <1>1, <1>2 DEF CallsFrom
<1>7. main' \in {"idle", "tools"}
  BY <1>1
<1> HIDE DEF c, fresh
<1>8. SoundChain(conv', nextId')
  BY <1>1, <1>3, <1>4, <1>5 DEF MainInv
<1>9. calls' \in Seq(Nat)
  BY <1>6 DEF MainInv
<1>10. ~away' /\ main' = "tools" => Awaited(calls', conv')
  BY <1>2, <1>3, <1>4, <1>6
<1> QED BY <1>2, <1>7, <1>8, <1>9, <1>10 DEF MainInv

LEMMA MainInvReturn ==
  ASSUME MainInv, CallsReturn PROVE MainInv'
<1>1. PICK n \in DOMAIN calls :
        /\ calls' = SubSeq(calls, n + 1, Len(calls))
        /\ \/ /\ conv' = AddedHere(Results(n)) /\ main' = main
           \/ SendTurn(AddedHere(Results(n)))
           \/ conv' = AddedHere(Results(n)) /\ main' = "idle"
  BY DEF CallsReturn
<1>2. main = "tools" /\ UNCHANGED <<away, nextId>> /\ calls \in Seq(Nat) /\ SoundChain(conv, nextId) /\ away \in BOOLEAN
  BY DEF CallsReturn, MainInv
<1> DEFINE c == AppendMessage(conv, ResultsOf(calls, n))
           rest == SubSeq(calls, n + 1, Len(calls))
<1>3. AddedHere(Results(n)) = IF away THEN conv ELSE c
  BY DEF AddedHere, Results, ResultsOf
<1>4. ~away => SoundChain(c, nextId) /\ EndsWithUser(c) /\ Awaited(rest, c)
  BY <1>2, ResultsAdded DEF MainInv, UserPut
<1>5. ~away => SoundChain(RepairChain(c), nextId) /\ Settled(RepairChain(c))
  BY <1>4, TurnBegins
<1>6. rest \in Seq(Nat)
  BY <1>2
<1> HIDE DEF c, rest
<1>7. \/ conv' = (IF away THEN conv ELSE c) /\ main' \in {"tools", "idle"}
      \/ conv' = (IF away THEN conv ELSE RepairChain(c)) /\ main' = "llm"
  BY <1>1, <1>2, <1>3 DEF SendTurn
<1>8. calls' = rest
  BY <1>1 DEF rest
<1> QED BY <1>2, <1>4, <1>5, <1>6, <1>7, <1>8 DEF MainInv

LEMMA MainInvNext ==
  ASSUME MainInv, [NamedNext]_namedVars PROVE MainInv'
<1>1. ASSUME UNCHANGED mainVars PROVE MainInv'
  BY <1>1 DEF MainInv, mainVars
<1>2. CASE UNCHANGED namedVars
  BY <1>1, <1>2 DEF namedVars, mainVars
<1>3. ASSUME NEW n \in AgentNames, Take(n) \/ FinishMessage(n) PROVE MainInv'
  BY <1>1, <1>3 DEF Take, FinishMessage
<1>4. CASE CancelRun
  <2>1. <<>> \in Seq(Nat)
    OBVIOUS
  <2> QED BY <1>4, <2>1 DEF CancelRun, MainInv
<1>5. CASE SwitchSession
  BY <1>5 DEF SwitchSession, MainInv
<1> QED BY <1>2, <1>3, <1>4, <1>5, MainInvSay, MainInvReply, MainInvReturn, MainInvNotice DEF NamedNext

(* The chain that forks inherit is a request when a reply is awaited and   *)
(* can be made one at any time; calls that run are open in it.             *)
THEOREM MainInvariant == NamedSpec => []MainInv
<1>1. MainInv /\ [NamedNext]_namedVars => MainInv'
  BY MainInvNext
<1> QED BY <1>1, MainInvInit, PTL DEF NamedSpec

(* A fork's first request has no call left open, whatever the main run is  *)
(* doing.                                                                  *)
THEOREM ForkRequestsPaired == NamedSpec => ForkRequestPaired
<1>1. MainInv => \A n \in AgentNames : Take(n) /\ agent[n].fork /\ ~Interposed =>
         CallsAnswered("openai", Serialize("openai", ForkRequest(conv)))
  BY ForkIsAnswered DEF MainInv
<1>2. NamedSpec => []MainInv
  BY MainInvariant
<1> QED BY <1>1, <1>2, PTL DEF ForkRequestPaired
=============================================================================
