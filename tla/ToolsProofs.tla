---------------------------- MODULE ToolsProofs -----------------------------
(***************************************************************************)
(* Theorems about the tools: ToolGate, where a call is let through, and    *)
(* Workspace, where it does its work.                                      *)
(***************************************************************************)
EXTENDS ToolGate, WellFoundedInduction, Workspace, SequenceTheorems, TLAPS

-----------------------------------------------------------------------------
(***************************************************************************)
(* No forbidden call runs, for any tools, agents, rules and hooks.  The    *)
(* inductive invariant says what a call that passed the first layers is    *)
(* cleared of while it waits for the user - rules learned meanwhile only   *)
(* allow - and that no hook that vetoes is ever marked as fired.  A second *)
(* one says what the rule file and the rules in memory have of each other: *)
(* no rule that denies is lost, and no call allowed for ever is asked      *)
(* about again.                                                            *)
(***************************************************************************)

Cleared(i) ==
  LET tool == ToolNamed(reply[i].tool) IN
    /\ ~HardDenied(tool, reply[i].content)
    /\ IsBash(tool) => DOMAIN reply[i].content.segments \subseteq Nat \ {0}
    /\ \/ under[i] = "bypassPermissions" \/ tool.category = "planning"
       \/ Outside(tool, reply[i].content)
       \/ Evaluate(rules, tool.name, reply[i].content) # "deny"
    /\ ~agent.main => tool.name \notin AgentDisallowed
    /\ ~agent.main /\ agent.bashReadonly /\ IsBash(tool) => BashPipelineReadonly(reply[i].content)

Unvetoed(i) == \A k \in DOMAIN Hooks : Hooks[k].reject => ~Concerns(Hooks[k], "pre_tool_use", reply[i])

VetoesUnspent == \A k \in DOMAIN Hooks : Hooks[k].reject => Hooks[k].id \notin fired

GateInv ==
  /\ state \in [DOMAIN reply -> States]
  /\ under \in [DOMAIN reply -> Modes \cup {"none"}]
  /\ mode \in Modes
  /\ VetoesUnspent
  /\ \A i \in DOMAIN reply :
       reply[i].tool = "Bash" => DOMAIN reply[i].content.segments \subseteq Nat \ {0}
  /\ \A i \in DOMAIN reply : state[i] \in {"asking", "running", "ran"} => Cleared(i)
  /\ \A i \in DOMAIN reply : state[i] \in {"running", "ran"} => Unvetoed(i)

(* What the tools' records are taken to be: ToolNamed finds the tool of a  *)
(* name that is registered.                                                *)
LEMMA RegisteredNamed ==
  ASSUME NEW who, NEW name \in Registry(who)
  PROVE  /\ ToolNamed(name) \in Tools /\ ToolNamed(name).name = name
         /\ ~who.main => name \notin AgentDisallowed
BY DEF Registry, ToolNamed

(* A rule that allows makes no call denied that was not.                   *)
LEMMA AllowingDeniesNothing ==
  ASSUME NEW known, NEW rule, rule.effect = "allow", NEW name, NEW content,
         Evaluate(known \cup {rule}, name, content) = "deny"
  PROVE  Evaluate(known, name, content) = "deny"
BY DEF Evaluate

(* What the decision says of a call it lets through or asks about.         *)
LEMMA DecisionClears ==
  ASSUME NEW m, NEW known, NEW tool, NEW content, Check(m, known, tool, content) # "deny"
  PROVE  /\ ~HardDenied(tool, content)
         /\ \/ m = "bypassPermissions" \/ tool.category = "planning"
            \/ Outside(tool, content)
            \/ Evaluate(known, tool.name, content) # "deny"
BY DEF Check

(* Hooks before the first veto, and hooks of another event, veto nothing.  *)
LEMMA PreToolKeepsVetoes ==
  ASSUME VetoesUnspent, NEW input, RunPreTool(input)
  PROVE  VetoesUnspent'
<1> DEFINE before == {i \in Due("pre_tool_use", input) : \A k \in Vetoes(input) : i < k}
<1>1. fired' = Marked(before)
  BY DEF RunPreTool
<1>2. \A i \in before : i \in DOMAIN Hooks /\ i \in Nat
  BY HooksAssumption DEF Due
<1>3. \A i \in before : ~Hooks[i].reject
  BY <1>2 DEF Vetoes
<1> QED BY <1>1, <1>2, <1>3, HooksAssumption DEF VetoesUnspent, Marked

LEMMA PostToolKeepsVetoes ==
  ASSUME VetoesUnspent, NEW input, fired' = Marked(Due("post_tool_use", input))
  PROVE  VetoesUnspent'
<1>1. \A i \in Due("post_tool_use", input) : i \in DOMAIN Hooks /\ ~Hooks[i].reject
  BY HooksAssumption DEF Due, Concerns
<1> QED BY <1>1, HooksAssumption DEF VetoesUnspent, Marked

(* A call no due hook vetoes, no hook would veto.                          *)
LEMMA NoVeto ==
  ASSUME VetoesUnspent, NEW input, Vetoes(input) = {}
  PROVE  \A k \in DOMAIN Hooks : Hooks[k].reject => ~Concerns(Hooks[k], "pre_tool_use", input)
BY DEF VetoesUnspent, Vetoes, Due

-----------------------------------------------------------------------------
LEMMA InitInv == Init => GateInv
BY HooksAssumption DEF Init, GateInv, VetoesUnspent, States, Modes

(* A verdict or a decision lets a cleared call on: it runs unless a hook   *)
(* vetoes it.                                                              *)
LEMMA ProceedStep ==
  ASSUME GateInv, NEW i \in DOMAIN reply, Proceed(i),
         UNCHANGED <<agent, reply, mode>>, under' \in [DOMAIN reply -> Modes \cup {"none"}],
         \A j \in DOMAIN reply : j # i => under'[j] = under[j],
         \A j \in DOMAIN reply : j # i /\ Cleared(j) => Cleared(j)',
         Cleared(i)'
  PROVE  GateInv'
<1>1. state' \in [DOMAIN reply -> States] /\ \A j \in DOMAIN reply : j # i => state'[j] = state[j]
  BY DEF GateInv, Proceed, Becomes, States, Over
<1>2. VetoesUnspent'
  BY PreToolKeepsVetoes DEF GateInv, Proceed
<1>3. state'[i] \in {"running", "refused"} /\ (state'[i] = "running" => Unvetoed(i))
  BY NoVeto DEF GateInv, Proceed, Becomes, Unvetoed
<1>4. \A j \in DOMAIN reply : Unvetoed(j)' <=> Unvetoed(j)
  BY DEF Unvetoed, Concerns, ConditionHolds, ExprHolds, FieldValue
<1> QED BY <1>1, <1>2, <1>3, <1>4 DEF GateInv

(* A call is over, or waits for the user.                                  *)
LEMMA EndStep ==
  ASSUME GateInv, NEW i \in DOMAIN reply, NEW where \in {"asking", "refused", "failed"},
         Becomes(i, where), UNCHANGED <<agent, reply, mode, fired>>,
         under' \in [DOMAIN reply -> Modes \cup {"none"}],
         \A j \in DOMAIN reply : j # i /\ Cleared(j) => Cleared(j)',
         where = "asking" => Cleared(i)'
  PROVE  GateInv'
<1>1. state' \in [DOMAIN reply -> States] /\ state'[i] = where
        /\ \A j \in DOMAIN reply : j # i => state'[j] = state[j]
  BY DEF GateInv, Becomes, States, Over
<1>2. \A j \in DOMAIN reply : Unvetoed(j)' <=> Unvetoed(j)
  BY DEF Unvetoed, Concerns, ConditionHolds, ExprHolds, FieldValue
<1> QED BY <1>1, <1>2 DEF GateInv, VetoesUnspent

(* As long as agent, reply and rules stay, so does what a call is cleared  *)
(* of.                                                                     *)
LEMMA SameCleared ==
  ASSUME UNCHANGED <<agent, reply, rules>>, NEW j, under'[j] = under[j]
  PROVE  Cleared(j)' <=> Cleared(j)
BY DEF Cleared

LEMMA StartStep ==
  ASSUME GateInv, NEW i \in DOMAIN reply, Start(i)
  PROVE  GateInv'
<1> USE DEF settings
<1>1. /\ under' \in [DOMAIN reply -> Modes \cup {"none"}] /\ under'[i] = ModeFor(agent)
      /\ \A j \in DOMAIN reply : j # i => under'[j] = under[j]
      /\ UNCHANGED <<agent, reply, mode, rules>>
  BY DEF Start, GateInv, ModeFor, Modes
<1>2. \A j \in DOMAIN reply : j # i /\ Cleared(j) => Cleared(j)'
  BY <1>1, SameCleared
<1>3. ASSUME reply[i].tool \in Registry(agent), Valid(agent, reply[i]), Decision(i) # "deny"
      PROVE  Cleared(i)'
  <2>1. /\ ToolNamed(reply[i].tool).name = reply[i].tool
        /\ ~agent.main => reply[i].tool \notin AgentDisallowed
    BY <1>3, RegisteredNamed
  <2>2. ~agent.main /\ agent.bashReadonly /\ IsBash(ToolNamed(reply[i].tool))
          => BashPipelineReadonly(reply[i].content)
    BY <1>3, <2>1 DEF Valid, IsBash
  <2>3. /\ ~HardDenied(ToolNamed(reply[i].tool), reply[i].content)
        /\ \/ ModeFor(agent) = "bypassPermissions" \/ ToolNamed(reply[i].tool).category = "planning"
           \/ Outside(ToolNamed(reply[i].tool), reply[i].content)
           \/ Evaluate(rules, ToolNamed(reply[i].tool).name, reply[i].content) # "deny"
    BY <1>3, DecisionClears DEF Decision
  <2> QED BY <1>1, <2>1, <2>2, <2>3 DEF Cleared, GateInv, IsBash
<1>4. CASE Becomes(i, "failed") /\ UNCHANGED fired
  BY <1>1, <1>2, <1>4, EndStep
<1>5. CASE Becomes(i, "refused") /\ UNCHANGED fired
  BY <1>1, <1>2, <1>5, EndStep
<1>6. CASE /\ reply[i].tool \in Registry(agent) /\ Valid(agent, reply[i])
           /\ Decision(i) = "ask" /\ Becomes(i, "asking") /\ UNCHANGED fired
  BY <1>1, <1>2, <1>3, <1>6, EndStep
<1>7. CASE /\ reply[i].tool \in Registry(agent) /\ Valid(agent, reply[i])
           /\ Decision(i) \in {"allow", "ask"} /\ Proceed(i)
  <2>1. Cleared(i)'
    BY <1>3, <1>7
  <2> QED BY <1>1, <1>2, <1>7, <2>1, ProceedStep
<1> QED BY <1>4, <1>5, <1>6, <1>7 DEF Start

(* The rule learned allows: the calls waiting beside stay cleared.         *)
LEMMA AllowAlwaysStep ==
  ASSUME GateInv, NEW i \in DOMAIN reply, AllowAlways(i)
  PROVE  GateInv'
<1>1. UNCHANGED <<agent, reply, mode, under>> /\ state[i] = "asking"
  BY DEF AllowAlways
<1>2. rules' = rules \/ rules' = rules \cup {LearnedRule(reply[i])}
  BY DEF AllowAlways, Learn
<1>3. \A j \in DOMAIN reply : Cleared(j) => Cleared(j)'
  <2> SUFFICES ASSUME NEW j \in DOMAIN reply, Cleared(j) PROVE Cleared(j)'
    OBVIOUS
  <2>1. ASSUME NEW name, NEW content, Evaluate(rules', name, content) = "deny"
        PROVE  Evaluate(rules, name, content) = "deny"
    BY <1>2, <2>1, AllowingDeniesNothing DEF LearnedRule
  <2> QED BY <1>1, <2>1 DEF Cleared
<1>4. Cleared(i)' /\ under' \in [DOMAIN reply -> Modes \cup {"none"}]
  BY <1>1, <1>3 DEF GateInv
<1>5. CASE Proceed(i)
  BY <1>1, <1>3, <1>4, <1>5, ProceedStep
<1>6. CASE Becomes(i, "failed") /\ UNCHANGED fired
  BY <1>1, <1>3, <1>4, <1>6, EndStep
<1> QED BY <1>5, <1>6 DEF AllowAlways

LEMMA FinishStep ==
  ASSUME GateInv, NEW i \in DOMAIN reply, Finish(i)
  PROVE  GateInv'
<1> USE DEF settings
<1>1. UNCHANGED <<agent, reply, mode, rules, under>> /\ state[i] = "running"
  BY DEF Finish
<1>2. VetoesUnspent'
  BY PostToolKeepsVetoes DEF Finish, GateInv
<1>3. state' \in [DOMAIN reply -> States]
      /\ \A j \in DOMAIN reply : state'[j] = state[j] \/ (j = i /\ state'[j] = "ran")
  BY DEF Finish, Becomes, GateInv, States, Over
<1>4. \A j \in DOMAIN reply : (Unvetoed(j)' <=> Unvetoed(j)) /\ (Cleared(j)' <=> Cleared(j))
  BY <1>1, SameCleared DEF Unvetoed, Concerns, ConditionHolds, ExprHolds, FieldValue
<1> QED BY <1>1, <1>2, <1>3, <1>4 DEF GateInv

(* Between replies there is no call to speak of.                           *)
LEMMA NoCallInv ==
  ASSUME GateInv, reply' = <<>>, state' = <<>>, under' = <<>>, mode' \in Modes, VetoesUnspent'
  PROVE  GateInv'
BY DEF GateInv, States, Modes

THEOREM GateInvariant == Spec => []GateInv
<1>1. GateInv /\ [Next]_vars => GateInv'
  <2> SUFFICES ASSUME GateInv, [Next]_vars PROVE GateInv'
    OBVIOUS
  <2> USE DEF settings
  <2>1. ASSUME NEW who \in Agents, NEW calls \in Replies, BeginReply(who, calls)
        PROVE  GateInv'
    BY <2>1, RepliesAssumption DEF BeginReply, GateInv, VetoesUnspent, States, Modes
  <2>2. ASSUME NEW i \in DOMAIN reply, Start(i) PROVE GateInv'
    BY <2>2, StartStep
  <2>3. ASSUME NEW i \in DOMAIN reply, Refuse(i) PROVE GateInv'
    <3>1. \A j \in DOMAIN reply : Cleared(j)' <=> Cleared(j)
      BY <2>3, SameCleared DEF Refuse
    <3> QED BY <2>3, <3>1, EndStep DEF Refuse, GateInv
  <2>4. ASSUME NEW i \in DOMAIN reply, Allow(i) PROVE GateInv'
    <3>1. \A j \in DOMAIN reply : Cleared(j)' <=> Cleared(j)
      BY <2>4, SameCleared DEF Allow
    <3> QED BY <2>4, <3>1, ProceedStep DEF Allow, GateInv
  <2>5. ASSUME NEW i \in DOMAIN reply, AllowAlways(i) PROVE GateInv'
    BY <2>5, AllowAlwaysStep
  <2>6. ASSUME NEW i \in DOMAIN reply, Finish(i) PROVE GateInv'
    BY <2>6, FinishStep
  <2>7. CASE NoReply /\ UNCHANGED <<mode, fired>>
    BY <2>7, NoCallInv DEF NoReply, GateInv, VetoesUnspent
  <2>8. CASE EndBatch /\ UNCHANGED <<reply, state, under>>
    <3>1. \A j \in DOMAIN reply : (Unvetoed(j)' <=> Unvetoed(j)) /\ (Cleared(j)' <=> Cleared(j))
      BY <2>8, SameCleared DEF EndBatch, Unvetoed, Concerns, ConditionHolds, ExprHolds, FieldValue
    <3> QED BY <2>8, <3>1 DEF EndBatch, GateInv, VetoesUnspent
  <2>9. CASE Restart
    <3>1. reply = <<>> /\ DOMAIN reply = {}
      BY <2>9 DEF Restart, Idle
    <3> QED BY <2>9, <3>1 DEF Restart, GateInv, VetoesUnspent
  <2>10. ASSUME NEW m \in Modes, SetMode(m) PROVE GateInv'
    <3>1. \A j \in DOMAIN reply : (Unvetoed(j)' <=> Unvetoed(j)) /\ (Cleared(j)' <=> Cleared(j))
      BY <2>10, SameCleared DEF SetMode, Unvetoed, Concerns, ConditionHolds, ExprHolds, FieldValue
    <3> QED BY <2>10, <3>1 DEF SetMode, GateInv, VetoesUnspent
  <2>11. CASE UNCHANGED vars
    <3>1. \A j \in DOMAIN reply : (Unvetoed(j)' <=> Unvetoed(j)) /\ (Cleared(j)' <=> Cleared(j))
      BY <2>11, SameCleared DEF vars, Unvetoed, Concerns, ConditionHolds, ExprHolds, FieldValue
    <3> QED BY <2>11, <3>1 DEF vars, GateInv, VetoesUnspent
  <2>12. CASE EndBatch
    BY <2>7, <2>8, <2>12 DEF EndBatch
  <2>13. CASE Cancel
    BY <2>7, <2>13 DEF Cancel
  <2> QED BY <2>1, <2>2, <2>3, <2>4, <2>5, <2>6, <2>9, <2>10, <2>11, <2>12, <2>13 DEF Next
<1> QED BY <1>1, InitInv, PTL DEF Spec

(* What the layers' own verdicts say of a call in terms of the call.       *)
LEMMA ClearedOfSettings ==
  ASSUME NEW tool, NEW content, ~HardDenied(tool, content),
         IsBash(tool) => DOMAIN content.segments \subseteq Nat \ {0}
  PROVE  /\ IsBash(tool) => ~content.dangerous /\ ~NamesSettings(content)
         /\ tool.category = "filesystem" /\ ~tool.readOnly => ~SensitiveWrite(content)
<1>1. ASSUME IsBash(tool), NamesSettings(content)
      PROVE  \E p \in BashWriteTargets(content) : SensitiveWrite(p)
  <2>1. CASE \E p \in content.redirects : SensitiveWrite(p)
    BY <2>1 DEF BashWriteTargets
  <2>2. ASSUME NEW k \in DOMAIN content.segments, content.segments[k].verb \in {"rm", "mv", "cp"},
               NEW p \in content.segments[k].paths, SensitiveWrite(p)
        PROVE  \E q \in BashWriteTargets(content) : SensitiveWrite(q)
    <3>1. Removes(content.segments[k])
      BY <2>2 DEF Removes
    <3>2. k \in 1..k
      BY <1>1, <2>2
    <3>3. p \in BashWriteTargets(content)
      BY <2>2, <3>1, <3>2 DEF BashWriteTargets
    <3> QED BY <2>2, <3>3
  <2> QED BY <1>1, <2>1, <2>2 DEF NamesSettings
<1> QED BY <1>1 DEF HardDenied, Blacklisted

LEMMA NotDeniedMatchesNone ==
  ASSUME NEW known, NEW name, NEW content, Evaluate(known, name, content) # "deny"
  PROVE  ~\E rule \in known : rule.effect = "deny" /\ Matches(rule, name, content)
<1> SUFFICES ASSUME NEW rule \in known, rule.effect = "deny", Matches(rule, name, content)
             PROVE  Evaluate(known, name, content) = "deny"
  OBVIOUS
<1> QED BY DEF Evaluate

LEMMA ReadonlyPipelineIs ==
  ASSUME NEW command, BashPipelineReadonly(command)
  PROVE  /\ command.redirects = {}
         /\ \A k \in DOMAIN command.segments : command.segments[k].verb \in ReadonlyCommands
BY DEF BashPipelineReadonly, Plain, ReadonlySegment

(* No forbidden call runs: whatever the mode, the rules, the verdicts, the *)
(* agent, the hooks and the order of it all.                               *)
THEOREM NothingForbiddenRuns == Spec => []NeverForbidden
<1>1. GateInv => NeverForbidden
  <2> SUFFICES ASSUME GateInv, NEW i \in DOMAIN reply, state[i] \in {"running", "ran"}
               PROVE  LET tool == ToolNamed(reply[i].tool)
                          content == reply[i].content
                      IN
                        /\ IsBash(tool) => ~content.dangerous /\ ~NamesSettings(content)
                        /\ tool.category = "filesystem" /\ ~tool.readOnly => ~SensitiveWrite(content)
                        /\ \/ under[i] = "bypassPermissions" \/ tool.category = "planning"
                           \/ Outside(tool, content)
                           \/ ~\E rule \in rules : rule.effect = "deny" /\ Matches(rule, tool.name, content)
                        /\ ~agent.main => tool.name \notin AgentDisallowed
                        /\ ~agent.main /\ agent.bashReadonly /\ IsBash(tool) =>
                             /\ content.redirects = {}
                             /\ \A k \in DOMAIN content.segments :
                                  content.segments[k].verb \in ReadonlyCommands
                        /\ \A k \in DOMAIN Hooks :
                             Hooks[k].reject => ~Concerns(Hooks[k], "pre_tool_use", reply[i])
    BY DEF NeverForbidden
  <2>1. Cleared(i) /\ Unvetoed(i)
    BY DEF GateInv
  <2> QED BY <2>1, ClearedOfSettings, NotDeniedMatchesNone, ReadonlyPipelineIs DEF Cleared, Unvetoed
<1> QED BY <1>1, GateInvariant, PTL

-----------------------------------------------------------------------------
(* The rule file.  Induction over Nat, with a set of numbers in the place  *)
(* of a predicate.                                                         *)
LEMMA NaturalOrder ==
  \E R : /\ IsWellFoundedOn(R, Nat)
         /\ \A m, n \in Nat : m < n => <<m, n>> \in R
<1>1. IsWellFoundedOn(OpToRel(<, Nat), Nat)
  BY NatLessThanWellFounded
<1>2. \A m, n \in Nat : m < n => <<m, n>> \in OpToRel(<, Nat)
  BY DEF OpToRel
<1> QED BY <1>1, <1>2

LEMMA Induction ==
  ASSUME NEW S \in SUBSET Nat, 0 \in S, \A n \in S : n + 1 \in S
  PROVE  S = Nat
<1> SUFFICES ASSUME Nat \ S # {} PROVE FALSE
  OBVIOUS
<1>1. PICK R : /\ IsWellFoundedOn(R, Nat)
               /\ \A m, n \in Nat : m < n => <<m, n>> \in R
  BY NaturalOrder
<1>2. \E x \in Nat \ S : \A y \in Nat \ S : ~ (<<y, x>> \in R)
  BY <1>1, WFMin
<1>3. PICK x \in Nat \ S : \A y \in Nat \ S : ~ (<<y, x>> \in R)
  BY <1>2
<1>4. x # 0 /\ x \in Nat /\ \A y \in Nat : y < x => y \in S
  BY <1>1, <1>3
<1>5. x - 1 \in S /\ (x - 1) + 1 = x
  BY <1>4
<1> QED BY <1>3, <1>5

(* f[i] is what is left of the first i entries.                            *)
Kept(f, entries, n) ==
  f = [i \in 0..n |-> IF i = 0 THEN <<>>
                      ELSE IF entries[i].kind = "malformed" THEN f[i - 1]
                      ELSE Append(f[i - 1], entries[i])]

LEMMA KeptAt ==
  ASSUME NEW f, NEW entries, NEW n \in Nat, Kept(f, entries, n), NEW i \in 0..n
  PROVE  f[i] = IF i = 0 THEN <<>>
                ELSE IF entries[i].kind = "malformed" THEN f[i - 1]
                ELSE Append(f[i - 1], entries[i])
<1> DEFINE v(k) == IF k = 0 THEN <<>>
                   ELSE IF entries[k].kind = "malformed" THEN f[k - 1]
                   ELSE Append(f[k - 1], entries[k])
           h == [k \in 0..n |-> v(k)]
<1>1. f = h
  BY DEF Kept
<1>2. h[i] = v(i)
  OBVIOUS
<1> QED
  <2> HIDE DEF h
  <2> QED BY <1>1, <1>2

LEMMA KeptExists ==
  ASSUME NEW entries, NEW m \in Nat
  PROVE  \E f : Kept(f, entries, m)
<1> DEFINE S == {n \in Nat : \E f : Kept(f, entries, n)}
<1>1. 0 \in S
  <2> DEFINE f == [i \in 0..0 |-> <<>>]
  <2>1. Kept(f, entries, 0)
    BY DEF Kept
  <2> QED BY <2>1
<1>2. ASSUME NEW n \in S PROVE n + 1 \in S
  <2>1. PICK f : Kept(f, entries, n)
    BY <1>2
  <2> DEFINE g == [i \in 0..n + 1 |-> IF i <= n THEN f[i]
                                      ELSE IF entries[i].kind = "malformed" THEN f[i - 1]
                                      ELSE Append(f[i - 1], entries[i])]
             v(i) == IF i = 0 THEN <<>>
                     ELSE IF entries[i].kind = "malformed" THEN g[i - 1]
                     ELSE Append(g[i - 1], entries[i])
  <2>2. n \in Nat
    OBVIOUS
  <2>3. \A i \in 0..n : f[i] = IF i = 0 THEN <<>>
                               ELSE IF entries[i].kind = "malformed" THEN f[i - 1]
                               ELSE Append(f[i - 1], entries[i])
    BY <2>1, <2>2, KeptAt
  <2>4. \A i \in 0..n : g[i] = f[i]
    BY <2>2
  <2>5. g[n + 1] = IF entries[n + 1].kind = "malformed" THEN f[n] ELSE Append(f[n], entries[n + 1])
    BY <2>2
  <2>6. ASSUME NEW i \in 0..n + 1 PROVE g[i] = v(i)
    <3>1. CASE i \in 0..n
      <4>1. i = 0 \/ i - 1 \in 0..n
        BY <2>2, <3>1
      <4> HIDE DEF g
      <4> QED BY <2>3, <2>4, <3>1, <4>1
    <3>2. CASE i = n + 1
      <4>1. i # 0 /\ i - 1 = n /\ g[n] = f[n]
        BY <2>2, <2>4, <3>2
      <4> HIDE DEF g
      <4> QED BY <2>5, <3>2, <4>1
    <3> QED BY <2>2, <3>1, <3>2
  <2>7. Kept(g, entries, n + 1)
    <3>1. g = [i \in 0..n + 1 |-> g[i]]
      OBVIOUS
    <3> HIDE DEF g
    <3>2. g = [i \in 0..n + 1 |-> v(i)]
      BY <2>6, <3>1
    <3> QED BY <3>2 DEF Kept
  <2> QED BY <2>2, <2>7
<1> HIDE DEF S
<1>3. S = Nat
  BY <1>1, <1>2, Induction DEF S
<1> QED BY <1>3 DEF S

LEMMA WithoutMalformedKept ==
  ASSUME NEW entries, Len(entries) \in Nat
  PROVE  \E f : Kept(f, entries, Len(entries)) /\ WithoutMalformed(entries) = f[Len(entries)]
<1> DEFINE c == CHOOSE f : Kept(f, entries, Len(entries))
<1>1. Kept(c, entries, Len(entries))
  BY KeptExists
<1>2. WithoutMalformed(entries) = c[Len(entries)]
  BY DEF Kept, WithoutMalformed
<1> QED BY <1>1, <1>2

(* Entries before the first that is not a rule, those Load takes.          *)
Loaded(entries, k) == \A j \in 1..k : entries[j].kind = "rule"

(* What is left are the entries that are not malformed, and those Load     *)
(* takes still stand first.                                                *)
LEMMA WithoutMalformedIs ==
  ASSUME NEW T, NEW entries \in Seq(T)
  PROVE  LET rest == WithoutMalformed(entries) IN
         /\ rest \in Seq(T)
         /\ \A j \in 1..Len(rest) : rest[j].kind # "malformed" /\ \E i \in 1..Len(entries) : rest[j] = entries[i]
         /\ \A i \in 1..Len(entries) : entries[i].kind # "malformed" =>
               \E j \in 1..Len(rest) : rest[j] = entries[i]
         /\ \A k \in 1..Len(entries) : Loaded(entries, k) =>
               k <= Len(rest) /\ \A j \in 1..k : rest[j] = entries[j]
<1>1. PICK f : Kept(f, entries, Len(entries)) /\ WithoutMalformed(entries) = f[Len(entries)]
  BY WithoutMalformedKept
<1> DEFINE Sub(n) == \A j \in 1..Len(f[n]) : /\ f[n][j].kind # "malformed"
                                             /\ \E i \in 1..n : f[n][j] = entries[i]
           All(n) == \A i \in 1..n : entries[i].kind # "malformed" =>
                       \E j \in 1..Len(f[n]) : f[n][j] = entries[i]
           First(n) == \A k \in 1..n : Loaded(entries, k) =>
                         k <= Len(f[n]) /\ \A j \in 1..k : f[n][j] = entries[j]
           Good(n) == f[n] \in Seq(T) /\ Len(f[n]) <= n /\ Sub(n) /\ All(n) /\ First(n)
           S == {n \in Nat : n <= Len(entries) => Good(n)}
<1>2. 0 \in S
  <2>1. f[0] = <<>>
    BY <1>1 DEF Kept
  <2>2. f[0] \in Seq(T) /\ Len(f[0]) <= 0
    BY <2>1
  <2>3. Sub(0) /\ All(0) /\ First(0)
    BY <2>1
  <2> HIDE DEF Sub, All, First
  <2> QED BY <2>2, <2>3
<1>3. ASSUME NEW n \in S PROVE n + 1 \in S
  <2> SUFFICES ASSUME n + 1 <= Len(entries) PROVE Good(n + 1)
    OBVIOUS
  <2>1. n \in Nat /\ Good(n)
    <3> HIDE DEF Good
    <3> QED BY <1>3
  <2>2. f[n + 1] = IF entries[n + 1].kind = "malformed" THEN f[n] ELSE Append(f[n], entries[n + 1])
    <3>1. n + 1 \in 0..Len(entries) /\ n + 1 # 0 /\ (n + 1) - 1 = n /\ Len(entries) \in Nat
      BY <2>1
    <3> HIDE DEF Good
    <3> QED BY <1>1, <3>1, KeptAt
  <2>3. CASE entries[n + 1].kind = "malformed"
    <3>1. f[n + 1] = f[n]
      BY <2>2, <2>3
    <3>2. Sub(n + 1)
      BY <2>1, <3>1
    <3>3. All(n + 1)
      BY <2>1, <2>3, <3>1
    <3>4. First(n + 1)
      <4>1. ~Loaded(entries, n + 1)
        BY <2>1, <2>3 DEF Loaded
      <4> QED BY <2>1, <3>1, <4>1
    <3> QED BY <2>1, <3>1, <3>2, <3>3, <3>4
  <2>4. CASE entries[n + 1].kind # "malformed"
    <3> DEFINE s == f[n]
               e == entries[n + 1]
               t == f[n + 1]
    <3>1. s \in Seq(T) /\ e \in T /\ t = Append(s, e) /\ Len(s) \in Nat
      BY <2>1, <2>2, <2>4
    <3>2. t \in Seq(T) /\ Len(t) = Len(s) + 1 /\ t[Len(s) + 1] = e
      BY <3>1
    <3>3. \A j \in 1..Len(s) : t[j] = s[j]
      BY <3>1
    <3>4. Sub(n + 1)
      <4> SUFFICES ASSUME NEW j \in 1..Len(t)
                   PROVE  t[j].kind # "malformed" /\ \E i \in 1..n + 1 : t[j] = entries[i]
        OBVIOUS
      <4>1. CASE j \in 1..Len(s)
        <5>1. PICK i \in 1..n : s[j] = entries[i] /\ s[j].kind # "malformed"
          BY <2>1, <4>1
        <5> QED BY <2>1, <3>3, <4>1, <5>1, SMTT(30)
      <4>2. CASE j = Len(s) + 1
        BY <2>1, <2>4, <3>2, <4>2
      <4> QED BY <3>1, <3>2, <4>1, <4>2
    <3>5. All(n + 1)
      BY <2>1, <3>1, <3>2, <3>3, SMTT(30)
    <3>6. First(n + 1)
      <4> SUFFICES ASSUME NEW k \in 1..n + 1, Loaded(entries, k)
                   PROVE  k <= Len(t) /\ \A j \in 1..k : t[j] = entries[j]
        OBVIOUS
      <4>1. CASE k \in 1..n
        BY <2>1, <3>1, <3>2, <3>3, <4>1
      <4>2. CASE k = n + 1
        <5>1. n = Len(s) /\ \A j \in 1..n : s[j] = entries[j]
          <6>1. CASE n = 0
            BY <2>1, <3>1, <6>1
          <6>2. CASE n # 0
            <7>1. n \in 1..n /\ Loaded(entries, n)
              BY <2>1, <4>2, <6>2 DEF Loaded
            <7> QED BY <2>1, <3>1, <7>1
          <6> QED BY <6>1, <6>2
        <5> QED BY <2>1, <3>2, <3>3, <4>2, <5>1
      <4> QED BY <2>1, <4>1, <4>2
    <3>7. t \in Seq(T) /\ Len(t) <= n + 1
      BY <2>1, <3>1, <3>2
    <3> HIDE DEF Sub, All, First
    <3> QED BY <3>4, <3>5, <3>6, <3>7
  <2> QED BY <2>3, <2>4
<1> HIDE DEF S
<1>4. S = Nat
  BY <1>2, <1>3, Induction DEF S
<1>5. Good(Len(entries))
  BY <1>4 DEF S
<1> QED BY <1>1, <1>5

(* A rule that denies and is in force would be loaded again, and so would  *)
(* one learned, unless the file has an entry that does not parse.          *)
DenyKept == \A rule \in rules : rule.effect = "deny" => rule \in FixedRules \cup Load(localFile)
LearnedKept ==
  /\ always # {} => \A k \in DOMAIN localFile : localFile[k].kind # "malformed"
  /\ always # {} => ~Broken(localFile)
  /\ \A input \in always : \E k \in DOMAIN localFile : localFile[k] = LearnedEntry(input)
  /\ (\A k \in DOMAIN localFile : localFile[k].kind # "bad") =>
       \A input \in always : LearnedRule(input) \in rules

FileInv ==
  /\ localFile \in Seq(Range(localFile))
  /\ \A k \in DOMAIN localFile : localFile[k].kind \in {"rule", "bad", "malformed", "broken"}
  /\ DenyKept
  /\ LearnedKept

(* What the file keeps is kept, and what was learned stands at its end.    *)
LEMMA LearnStep ==
  ASSUME FileInv, ~Broken(localFile), NEW input, Learn(input), always' = always \cup {input}
  PROVE  FileInv'
<1> DEFINE s == localFile
           r == WithoutMalformed(localFile)
           t == localFile'
           e == LearnedEntry(input)
           T == Range(localFile)
<1>1. s \in Seq(T) /\ t = Append(r, e)
  BY DEF FileInv, Learn, Broken
<1>2. /\ r \in Seq(T)
      /\ \A j \in 1..Len(r) : r[j].kind # "malformed" /\ \E i \in 1..Len(s) : r[j] = s[i]
      /\ \A i \in 1..Len(s) : s[i].kind # "malformed" => \E j \in 1..Len(r) : r[j] = s[i]
      /\ \A k \in 1..Len(s) : Loaded(s, k) => k <= Len(r) /\ \A j \in 1..k : r[j] = s[j]
  BY <1>1, WithoutMalformedIs
<1>3. /\ Len(r) \in Nat /\ Len(s) \in Nat /\ DOMAIN s = 1..Len(s)
      /\ t \in Seq(T \cup {e}) /\ Len(t) = Len(r) + 1 /\ t[Len(r) + 1] = e
      /\ DOMAIN t = 1..Len(r) + 1
      /\ \A j \in 1..Len(r) : t[j] = r[j]
  <2> HIDE DEF T, e, r, s
  <2>1. r \in Seq(T \cup {e}) /\ e \in T \cup {e}
    BY <1>2
  <2> QED BY <1>1, <1>2, <2>1
<1> HIDE DEF s, t, r, e, T
<1>4. t \in Seq(Range(t))
  BY <1>3 DEF Range
<1>5. e.kind \in {"rule", "bad"} /\ e.rule = LearnedRule(input)
      /\ (e.kind = "bad" <=> ~input.content.parses)
  BY DEF LearnedEntry, e
<1>6. \A k \in DOMAIN t : t[k].kind \in {"rule", "bad"}
  <2> SUFFICES ASSUME NEW k \in DOMAIN t PROVE t[k].kind \in {"rule", "bad"}
    OBVIOUS
  <2>1. CASE k \in 1..Len(r)
    <3>1. PICK i \in 1..Len(s) : r[k] = s[i] /\ r[k].kind # "malformed"
      BY <1>2, <2>1
    <3>2. s[i].kind \in {"rule", "bad", "malformed"}
      BY <1>3 DEF FileInv, Broken, s
    <3> QED BY <1>3, <2>1, <3>1, <3>2
  <2>2. CASE k = Len(r) + 1
    BY <1>3, <1>5, <2>2
  <2> QED BY <1>3, <2>1, <2>2
<1>7. Load(s) \subseteq Load(t)
  <2> SUFFICES ASSUME NEW rule \in Load(s) PROVE rule \in Load(t)
    OBVIOUS
  <2>1. PICK i \in 1..Len(s) : Loaded(s, i) /\ rule = s[i].rule
    BY <1>3 DEF Load, Loaded
  <2>2. i <= Len(r) /\ \A j \in 1..i : r[j] = s[j]
    BY <1>2, <2>1
  <2>3. i \in DOMAIN t /\ Loaded(t, i) /\ rule = t[i].rule
    <3>1. \A j \in 1..i : t[j] = s[j]
      BY <1>3, <2>2
    <3> QED BY <1>3, <2>1, <2>2, <3>1 DEF Loaded
  <2> QED BY <1>6, <2>3 DEF Load, Loaded, Broken
<1>8. rules' = IF input.content.parses THEN rules \cup {LearnedRule(input)} ELSE rules
  BY DEF Learn
<1>9. DenyKept'
  <2>1. \A rule \in rules' : rule.effect = "deny" => rule \in rules
    BY <1>8 DEF LearnedRule
  <2> QED BY <1>7, <2>1 DEF FileInv, DenyKept, s, t
<1>10. \A known \in always' : \E k \in DOMAIN t : t[k] = LearnedEntry(known)
  <2> SUFFICES ASSUME NEW known \in always' PROVE \E k \in DOMAIN t : t[k] = LearnedEntry(known)
    OBVIOUS
  <2>1. CASE known = input
    BY <1>3, <2>1 DEF e
  <2>2. CASE known \in always
    <3>1. PICK i \in 1..Len(s) : s[i] = LearnedEntry(known)
      BY <1>3, <2>2 DEF FileInv, LearnedKept, s
    <3>2. s[i].kind # "malformed"
      BY <3>1 DEF LearnedEntry
    <3>3. PICK j \in 1..Len(r) : r[j] = s[i]
      BY <1>2, <3>1, <3>2
    <3> QED BY <1>3, <3>1, <3>3
  <2> QED BY <2>1, <2>2
<1>11. ASSUME \A k \in DOMAIN t : t[k].kind # "bad" PROVE \A known \in always' : LearnedRule(known) \in rules'
  <2>1. input.content.parses
    BY <1>3, <1>5, <1>11
  <2>2. ASSUME NEW i \in DOMAIN s PROVE s[i].kind # "bad"
    <3>1. CASE s[i].kind = "malformed"
      BY <3>1
    <3>2. CASE s[i].kind # "malformed"
      <4>1. PICK j \in 1..Len(r) : r[j] = s[i]
        BY <1>2, <1>3, <2>2, <3>2
      <4> QED BY <1>3, <1>11, <4>1
    <3> QED BY <3>1, <3>2
  <2>3. \A known \in always : LearnedRule(known) \in rules
    BY <2>2 DEF FileInv, LearnedKept, s
  <2> QED BY <1>8, <2>1, <2>3
<1> QED BY <1>4, <1>6, <1>9, <1>10, <1>11 DEF FileInv, LearnedKept, Broken, t

(* A file that was broken had no rule to lose.                             *)
LEMMA LearnAnewStep ==
  ASSUME FileInv, Broken(localFile), NEW input, Learn(input), always' = always \cup {input}
  PROVE  FileInv'
<1> DEFINE e == LearnedEntry(input)
           t == localFile'
<1>1. t = <<e>>
  <2>1. t = Append(<<>>, e)
    BY DEF Learn
  <2> QED BY <2>1
<1>2. t \in Seq(Range(t)) /\ DOMAIN t = {1} /\ t[1] = e
  BY <1>1 DEF Range
<1>3. e.kind \in {"rule", "bad"} /\ (e.kind = "bad" <=> ~input.content.parses)
  BY DEF LearnedEntry
<1>4. always' = {input}
  BY DEF FileInv, LearnedKept
<1>5. rules' = IF input.content.parses THEN rules \cup {LearnedRule(input)} ELSE rules
  BY DEF Learn
<1> HIDE DEF t, e
<1>6. DenyKept'
  <2>1. \A rule \in rules' : rule.effect = "deny" => rule \in rules
    BY <1>5 DEF LearnedRule
  <2>2. Load(localFile) = {}
    BY DEF Load
  <2> QED BY <2>1, <2>2 DEF FileInv, DenyKept
<1>7. LearnedKept'
  BY <1>2, <1>3, <1>4, <1>5 DEF LearnedKept, Broken, t, e
<1> QED BY <1>2, <1>3, <1>6, <1>7 DEF FileInv, t

(* A restart reads what was in force, and what was learned.                *)
LEMMA RestartStep ==
  ASSUME FileInv, Restart
  PROVE  FileInv'
<1>1. rules' = FixedRules \cup Load(localFile) /\ UNCHANGED <<localFile, always>>
  BY DEF Restart
<1>2. ASSUME \A k \in DOMAIN localFile : localFile[k].kind # "bad", NEW input \in always
      PROVE  LearnedRule(input) \in rules'
  <2>1. PICK k \in DOMAIN localFile : localFile[k] = LearnedEntry(input)
    BY DEF FileInv, LearnedKept
  <2>2. \A j \in DOMAIN localFile : localFile[j].kind = "rule"
    BY <1>2 DEF FileInv, LearnedKept, Broken
  <2>3. DOMAIN localFile = 1..Len(localFile) /\ Len(localFile) \in Nat
    BY DEF FileInv
  <2>4. \A j \in 1..k : localFile[j].kind = "rule"
    BY <2>2, <2>3
  <2>5. localFile[k].rule = LearnedRule(input)
    BY <2>1 DEF LearnedEntry
  <2> QED BY <1>1, <2>2, <2>4, <2>5 DEF Load, Broken
<1>3. DenyKept'
  BY <1>1 DEF DenyKept
<1>4. LearnedKept'
  BY <1>1, <1>2 DEF FileInv, LearnedKept
<1> QED BY <1>1, <1>3, <1>4 DEF FileInv

LEMMA OtherFileStep ==
  ASSUME FileInv, UNCHANGED <<localFile, rules, always>>
  PROVE  FileInv'
BY DEF FileInv, DenyKept, LearnedKept

(* The rules, their file and what was allowed for ever change in two kinds *)
(* of steps only.                                                          *)
LEMMA RuleSteps ==
  ASSUME [Next]_vars
  PROVE  \/ UNCHANGED <<localFile, rules, always>>
         \/ Restart
         \/ \E i \in DOMAIN reply : AllowAlways(i)
BY DEF Next, vars, settings, BeginReply, Start, Refuse, Allow, Finish, EndBatch, Cancel, SetMode

LEMMA FileInit == Init => FileInv
<1> SUFFICES ASSUME Init PROVE FileInv
  OBVIOUS
<1>1. always = {} /\ rules = FixedRules \cup Load(localFile) /\ localFile \in LocalFiles
  BY DEF Init
<1> QED BY <1>1, FilesAssumption DEF FileInv, DenyKept, LearnedKept

THEOREM FileInvariant == Spec => []FileInv
<1>1. FileInv /\ [Next]_vars => FileInv'
  <2>1. ASSUME FileInv, NEW i \in DOMAIN reply, AllowAlways(i) PROVE FileInv'
    BY <2>1, LearnStep, LearnAnewStep DEF AllowAlways
  <2> QED BY <2>1, RuleSteps, RestartStep, OtherFileStep
<1> QED BY <1>1, FileInit, PTL DEF Spec

(* A file that can be read keeps its entries that deny.                    *)
LEMMA DenyEntriesKept ==
  ASSUME FileInv, NEW input, Learn(input), ~Broken(localFile), NEW entry \in DenyEntries(localFile)
  PROVE  entry \in DenyEntries(localFile')
<1> DEFINE T == Range(localFile)
           r == WithoutMalformed(localFile)
           e == LearnedEntry(input)
<1>1. localFile \in Seq(T) /\ localFile' = Append(r, e)
  BY DEF FileInv, Learn
<1>2. PICK i \in 1..Len(localFile) : /\ entry = localFile[i] /\ localFile[i].kind = "rule"
                                      /\ localFile[i].rule.effect = "deny"
  <2>1. DOMAIN localFile = 1..Len(localFile)
    BY <1>1
  <2> QED BY <2>1 DEF DenyEntries
<1>3. r \in Seq(T) /\ \E j \in 1..Len(r) : r[j] = localFile[i]
  BY <1>1, <1>2, WithoutMalformedIs
<1>4. PICK j \in 1..Len(r) : r[j] = localFile[i]
  BY <1>3
<1>5. j \in DOMAIN localFile' /\ localFile'[j] = r[j]
  <2> HIDE DEF T, r, e
  <2>1. r \in Seq(T \cup {e}) /\ e \in T \cup {e}
    BY <1>3
  <2> QED BY <1>1, <1>4, <2>1
<1> QED BY <1>2, <1>4, <1>5 DEF DenyEntries

(* A rule that denies stays in force and in its file, whatever is learned  *)
(* and however often the file is read again.                               *)
THEOREM DeniesStay == Spec => DenyStaysInForce
<1> DEFINE Stay == /\ \A rule \in rules : rule.effect = "deny" => rule \in rules'
                   /\ ~Broken(localFile) => DenyEntries(localFile) \subseteq DenyEntries(localFile')
<1>1. FileInv /\ [Next]_vars => [Stay]_vars
  <2> SUFFICES ASSUME FileInv, [Next]_vars PROVE Stay
    BY Zenon
  <2>1. CASE UNCHANGED <<localFile, rules, always>>
    BY <2>1
  <2>2. CASE Restart
    BY <2>2 DEF Restart, FileInv, DenyKept
  <2>3. ASSUME NEW i \in DOMAIN reply, AllowAlways(i) PROVE Stay
    BY <2>3, DenyEntriesKept DEF AllowAlways, Learn
  <2> QED BY <2>1, <2>2, <2>3, RuleSteps
<1> QED BY <1>1, FileInvariant, PTL DEF Spec, DenyStaysInForce

(* What the decision says of a call it asks about, if a rule in memory     *)
(* allows it.                                                              *)
LEMMA AskedInSpite ==
  ASSUME NEW m, NEW known, NEW tool, NEW input, tool.name = input.tool,
         LearnedRule(input) \in known, input.content.text \in input.content.learnt,
         Check(m, known, tool, input.content) = "ask"
  PROVE  Outside(tool, input.content) \/ Evaluate(known, input.tool, input.content) = "ask"
<1>1. Matches(LearnedRule(input), input.tool, input.content)
  BY DEF Matches, LearnedRule
<1>2. Evaluate(known, input.tool, input.content) # "none"
  BY <1>1 DEF Evaluate
<1> QED BY <1>2 DEF Check

(* A call allowed for ever is asked about again only for one of the four   *)
(* reasons, whatever was learned beside and however often the file is read *)
(* again.                                                                  *)
THEOREM AskedAboutOnce == Spec => AskedOnce
<1> DEFINE Why(i) == \/ Outside(ToolNamed(reply[i].tool), reply[i].content)
                     \/ Evaluate(rules, reply[i].tool, reply[i].content) = "ask"
                     \/ reply[i].content.text \notin reply[i].content.learnt
                     \/ \E k \in DOMAIN localFile : localFile[k].kind = "bad"
           Asks(i) == state[i] = "new" /\ state'[i] = "asking" /\ reply[i] \in always
<1>1. GateInv /\ FileInv /\ [Next]_vars
        => [\A i \in DOMAIN reply \cap DOMAIN reply' : Asks(i) => Why(i)]_vars
  <2> SUFFICES ASSUME GateInv, FileInv, [Next]_vars,
                      NEW i \in DOMAIN reply, i \in DOMAIN reply', Asks(i)
               PROVE  Why(i)
    OBVIOUS
  <2>1. Start(i)
    <3>1. state \in [DOMAIN reply -> States]
      BY DEF GateInv
    <3>2. ASSUME NEW who \in Agents, NEW calls \in Replies, BeginReply(who, calls) PROVE FALSE
      BY <3>2 DEF BeginReply
    <3>3. ASSUME NEW j \in DOMAIN reply, Start(j), j # i PROVE FALSE
      BY <3>1, <3>3 DEF Start, Becomes, Proceed
    <3>4. ASSUME NEW j \in DOMAIN reply, Refuse(j) \/ Allow(j) \/ AllowAlways(j) \/ Finish(j)
          PROVE  FALSE
      BY <3>1, <3>4 DEF Refuse, Allow, AllowAlways, Finish, Becomes, Proceed
    <3>5. ~(EndBatch \/ Cancel)
      BY DEF EndBatch, Cancel, NoReply
    <3>6. ~Restart /\ ~\E m \in Modes : SetMode(m)
      BY DEF Restart, SetMode
    <3>7. ~UNCHANGED vars
      BY DEF vars
    <3> QED BY <3>2, <3>3, <3>4, <3>5, <3>6, <3>7 DEF Next
  <2>2. reply[i].tool \in Registry(agent) /\ Decision(i) = "ask"
    <3>1. state \in [DOMAIN reply -> States]
      BY DEF GateInv
    <3> QED BY <2>1, <3>1 DEF Start, Becomes, Proceed
  <2>3. ToolNamed(reply[i].tool).name = reply[i].tool
    BY <2>2, RegisteredNamed
  <2>4. CASE \A k \in DOMAIN localFile : localFile[k].kind # "bad"
    <3>1. LearnedRule(reply[i]) \in rules
      BY <2>4 DEF FileInv, LearnedKept
    <3> QED BY <2>2, <2>3, <3>1, AskedInSpite DEF Decision
  <2> QED BY <2>4
<1> QED BY <1>1, GateInvariant, FileInvariant, PTL DEF Spec, AskedOnce

-----------------------------------------------------------------------------
(***************************************************************************)
(* Type correctness of Workspace, for any agents, files, texts and commits *)
(* and however its processes behave.                                       *)
(***************************************************************************)

Contents == Seq(Words \cup {"no file"})
Trees == [Files -> Contents]

Processes == [dir : {"tree", "copy"}, writer : BOOLEAN, child : BOOLEAN,
              main : {"none", "new", "running", "ended"}, code : 0..LauncherFailed]

Commands == [tool : {"Bash", "Grep"}, at : {"wait", "drain"}, proc : Slots, attempts : Nat]
TestCalls == [tool : {"Tests"}, at : {"wait", "drain"}, proc : Slots,
              copy : BOOLEAN, regression : {"not asked for", "to come", "running"}]
Reverts == [tool : {"Revert"}, target : DOMAIN Commits, paths : SUBSET Files]
Calls == {NoCall} \cup Commands \cup TestCalls \cup Reverts

TypeOK ==
  /\ work \in Trees /\ staged \in Trees
  /\ procs \in [Slots -> Processes]
  /\ call \in [Actors -> Calls]
  /\ writes \in Nat

-----------------------------------------------------------------------------
(* What the operators on processes, texts and trees give.                  *)

LEMMA NoProcessIs == NoProcess \in Processes
  BY DEF NoProcess, Processes, LauncherFailed

LEMMA SweptIs ==
  ASSUME NEW processes \in [Slots -> Processes], NEW calls
  PROVE  Swept(processes, calls) \in [Slots -> Processes]
  BY NoProcessIs DEF Swept

(* One field of one process is set.                                        *)
LEMMA FieldSet ==
  ASSUME NEW processes \in [Slots -> Processes], NEW p \in Slots
  PROVE  /\ \A main \in {"none", "new", "running", "ended"} :
              [processes EXCEPT ![p].main = main] \in [Slots -> Processes]
         /\ \A child \in BOOLEAN : [processes EXCEPT ![p].child = child] \in [Slots -> Processes]
         /\ \A code \in 0..LauncherFailed :
              [processes EXCEPT ![p].code = code] \in [Slots -> Processes]
  <1>. DEFINE q == processes[p]
  <1>1. q \in Processes
    OBVIOUS
  <1>2. /\ \A main \in {"none", "new", "running", "ended"} : [q EXCEPT !.main = main] \in Processes
        /\ \A child \in BOOLEAN : [q EXCEPT !.child = child] \in Processes
        /\ \A code \in 0..LauncherFailed : [q EXCEPT !.code = code] \in Processes
    <2>. HIDE DEF q
    <2>. QED
      BY <1>1 DEF Processes
  <1>. QED
    BY <1>2

LEMMA StartIs ==
  ASSUME procs \in [Slots -> Processes], NEW p \in Slots, NEW dir \in {"tree", "copy"},
         NEW writer \in BOOLEAN, StartProcess(p, dir, writer)
  PROVE  procs' \in [Slots -> Processes]
  BY DEF StartProcess, Processes, LauncherFailed

LEMMA KillIs ==
  ASSUME procs \in [Slots -> Processes], NEW p \in Slots, NEW wholeTree \in BOOLEAN,
         Kill(p, wholeTree)
  PROVE  procs' \in [Slots -> Processes]
  <1>. SUFFICES ASSUME procs[p].main # "ended"
                PROVE  procs' \in [Slots -> Processes]
    BY DEF Kill
  <1>1. PICK child \in BOOLEAN : child = (procs[p].child /\ ~wholeTree)
    BY Zenon
  <1>2. procs' = [[[procs EXCEPT ![p].main = "ended"] EXCEPT ![p].child = child] EXCEPT ![p].code = 1]
    BY <1>1, SMT DEF Kill
  <1>3. [procs EXCEPT ![p].main = "ended"] \in [Slots -> Processes]
    BY FieldSet
  <1>4. [[procs EXCEPT ![p].main = "ended"] EXCEPT ![p].child = child] \in [Slots -> Processes]
    BY <1>3, FieldSet
  <1>5. 1 \in 0..LauncherFailed
    BY DEF LauncherFailed
  <1>. QED
    BY <1>2, <1>4, <1>5, FieldSet

LEMMA EndedIs ==
  ASSUME NEW processes \in [Slots -> Processes], NEW p \in Slots, NEW code \in 0..LauncherFailed
  PROVE  [processes EXCEPT ![p].main = "ended", ![p].code = code] \in [Slots -> Processes]
  <1>1. [processes EXCEPT ![p].main = "ended"] \in [Slots -> Processes]
    BY FieldSet
  <1>2. [[processes EXCEPT ![p].main = "ended"] EXCEPT ![p].code = code] \in [Slots -> Processes]
    BY <1>1, FieldSet
  <1>. QED
    BY <1>2

LEMMA TextsAre == Texts \cup {Absent} \subseteq Contents /\ Commits \in [DOMAIN Commits -> Trees]
  <1>1. Seq(Words) \subseteq Contents
    <2>. SUFFICES ASSUME NEW text \in Seq(Words)
                  PROVE  text \in Contents
      OBVIOUS
    <2>1. Words \subseteq Words \cup {"no file"}
      OBVIOUS
    <2>. QED
      BY <2>1, SeqMonotonic DEF Contents
  <1>2. Absent \in Contents
    BY DEF Contents, Absent
  <1>. QED
    BY <1>1, <1>2, WorkspaceAssumption, ZenonT(30) DEF Trees

LEMMA ReplacedIs == ASSUME NEW text \in Contents
                    PROVE  Replaced(text) \in Contents
  <1>1. text \in [1..Len(text) -> Words \cup {"no file"}] /\ Len(text) \in Nat
    BY LenProperties DEF Contents
  <1>2. Replaced(text) \in [1..Len(text) -> Words \cup {"no file"}]
    BY <1>1, WorkspaceAssumption DEF Replaced
  <1>. QED
    BY <1>1, <1>2, SeqDef DEF Contents

(* A call that is answered, and one that goes on.                          *)
LEMMA AnswerStep ==
  ASSUME TypeOK, NEW a \in Actors, Answer(a)
  PROVE  /\ call' \in [Actors -> Calls] /\ procs' \in [Slots -> Processes]
  <1>1. call' = [call EXCEPT ![a] = NoCall] /\ procs' = Swept(procs, call')
    BY DEF Answer
  <1>2. procs' \in [Slots -> Processes]
    BY <1>1, SweptIs DEF TypeOK
  <1>. QED
    BY <1>1, <1>2 DEF TypeOK, Calls, NoCall

-----------------------------------------------------------------------------
(* Each action keeps the invariant.                                        *)

LEMMA ProcessKeeps ==
  ASSUME TypeOK, NEW p \in Slots, Process(p)
  PROVE  TypeOK'
  <1>2. UNCHANGED call
    BY DEF Process, RunsOn, LauncherFails, Forks, Works, Ends
  <1>3. procs \in [Slots -> Processes]
    BY DEF TypeOK
  <1>4. procs' \in [Slots -> Processes]
    <2>1. CASE RunsOn(p)
      BY <1>3, <2>1, FieldSet DEF RunsOn
    <2>2. CASE LauncherFails(p)
      <3>1. LauncherFailed \in 0..LauncherFailed
        BY DEF LauncherFailed
      <3>2. [procs EXCEPT ![p].main = "ended", ![p].code = LauncherFailed] \in [Slots -> Processes]
        BY <1>3, <3>1, EndedIs
      <3>. QED
        BY <2>2, <3>2, SweptIs DEF LauncherFails
    <2>3. CASE Forks(p)
      BY <1>3, <2>3, FieldSet DEF Forks
    <2>4. CASE Works(p)
      BY <1>3, <2>4 DEF Works
    <2>5. ASSUME NEW code \in 0..2, procs' = Swept([procs EXCEPT ![p].main = "ended", ![p].code = code], call)
          PROVE  procs' \in [Slots -> Processes]
      <3>1. code \in 0..LauncherFailed
        BY DEF LauncherFailed
      <3>2. [procs EXCEPT ![p].main = "ended", ![p].code = code] \in [Slots -> Processes]
        BY <1>3, <3>1, EndedIs
      <3>. QED
        BY <2>5, <3>2, SweptIs
    <2>6. ASSUME procs' = Swept([procs EXCEPT ![p].child = FALSE], call)
          PROVE  procs' \in [Slots -> Processes]
      <3>1. [procs EXCEPT ![p].child = FALSE] \in [Slots -> Processes]
        BY <1>3, FieldSet
      <3>. QED
        BY <2>6, <3>1, SweptIs
    <2>. QED
      BY <2>1, <2>2, <2>3, <2>4, <2>5, <2>6 DEF Process, Ends
  <1>5. work' \in Trees /\ staged' \in Trees /\ writes' \in Nat
    <2>1. CASE Works(p)
      <3>. QED
        BY <2>1, TextsAre DEF Works, Changes, Trees, TypeOK
    <2>2. CASE ~Works(p)
      BY <2>2 DEF Process, RunsOn, LauncherFails, Forks, Ends, tree, TypeOK
    <2>. QED
      BY <2>1, <2>2
  <1>6. TypeOK'
    BY <1>2, <1>4, <1>5 DEF TypeOK
  <1>. QED
    BY <1>6

LEMMA WriteFileKeeps ==
  ASSUME TypeOK, NEW a \in Actors, WriteFile(a)
  PROVE  TypeOK'
  <1>1. work' \in Trees /\ writes' \in Nat
    BY TextsAre DEF WriteFile, Changes, TypeOK, Trees
  <1>. QED
    BY <1>1 DEF WriteFile, TypeOK

LEMMA EditFileKeeps ==
  ASSUME TypeOK, NEW a \in Actors, EditFile(a)
  PROVE  TypeOK'
  <1>1. PICK file \in Files : work' = [work EXCEPT ![file] = Replaced(@)]
    BY DEF EditFile
  <1>2. work[file] \in Contents
    BY DEF TypeOK, Trees
  <1>3. work' \in Trees
    BY <1>1, <1>2, ReplacedIs DEF TypeOK, Trees
  <1>. QED
    BY <1>3 DEF EditFile, Changes, TypeOK

(* Everything else an agent does leaves writes alone and sets its call.    *)
LEMMA OtherCallKeeps ==
  ASSUME TypeOK, NEW a \in Actors, NEW c \in Calls, call' = [call EXCEPT ![a] = c],
         procs' \in [Slots -> Processes], work' \in Trees, staged' \in Trees,
         UNCHANGED writes
  PROVE  TypeOK'
  BY DEF TypeOK

LEMMA StartCommandKeeps ==
  ASSUME TypeOK, NEW a \in Actors, StartCommand(a)
  PROVE  TypeOK'
  <1>1. PICK tool \in {"Bash", "Grep"}, p \in Slots :
          /\ StartProcess(p, "tree", tool = "Bash")
          /\ call' = [call EXCEPT ![a] = [tool |-> tool, at |-> "wait", proc |-> p, attempts |-> 0]]
    BY DEF StartCommand
  <1>2. /\ call[a] = NoCall /\ UNCHANGED <<work, staged, writes>>
    BY DEF StartCommand, Free, tree
  <1>3. procs' \in [Slots -> Processes]
    <2>1. PICK writer \in BOOLEAN : writer = (tool = "Bash")
      BY Zenon
    <2>2. StartProcess(p, "tree", writer)
      BY <1>1, <2>1, Zenon
    <2>. QED
      BY <2>2, StartIs DEF TypeOK
  <1>. DEFINE c == [tool |-> tool, at |-> "wait", proc |-> p, attempts |-> 0]
  <1>4. c \in Calls
    BY <1>2 DEF Calls, Commands, NoCall
  <1>. QED
    BY <1>1, <1>2, <1>3, <1>4, OtherCallKeeps DEF TypeOK

LEMMA StartTestsKeeps ==
  ASSUME TypeOK, NEW a \in Actors, StartTests(a)
  PROVE  TypeOK'
  <1>1. PICK copy \in BOOLEAN, regression \in {"not asked for", "to come"}, p \in Slots :
          /\ StartProcess(p, IF copy THEN "copy" ELSE "tree", TRUE)
          /\ call' = [call EXCEPT ![a] = [tool |-> "Tests", at |-> "wait", proc |-> p,
                                         copy |-> copy, regression |-> regression]]
    BY DEF StartTests
  <1>2. /\ call[a] = NoCall /\ UNCHANGED <<work, staged, writes>>
    BY DEF StartTests, Free, tree
  <1>3. procs' \in [Slots -> Processes]
    BY <1>1, StartIs DEF TypeOK
  <1>. DEFINE c == [tool |-> "Tests", at |-> "wait", proc |-> p, copy |-> copy, regression |-> regression]
  <1>4. c \in Calls
    BY <1>2 DEF Calls, TestCalls, NoCall
  <1>. QED
    BY <1>1, <1>2, <1>3, <1>4, OtherCallKeeps DEF TypeOK

LEMMA StartRevertKeeps ==
  ASSUME TypeOK, NEW a \in Actors, StartRevert(a)
  PROVE  TypeOK'
  <1>1. PICK target \in DOMAIN Commits, paths \in {Files} \cup {{file} : file \in Files} :
          call' = [call EXCEPT ![a] = [tool |-> "Revert", target |-> target, paths |-> paths]]
    BY DEF StartRevert
  <1>2. /\ call[a] = NoCall /\ UNCHANGED <<work, staged, procs, writes>>
    BY DEF StartRevert, Free, tree
  <1>. DEFINE c == [tool |-> "Revert", target |-> target, paths |-> paths]
  <1>3. c \in Calls
    BY <1>2 DEF Calls, Reverts, NoCall
  <1>. QED
    BY <1>1, <1>2, <1>3, OtherCallKeeps DEF TypeOK

(* A command or a test run that is waited for: answered, started once      *)
(* more, or killed.                                                        *)
LEMMA AnsweredKeeps ==
  ASSUME TypeOK, NEW a \in Actors, Answer(a),
         work' \in Trees, staged' \in Trees, UNCHANGED writes
  PROVE  TypeOK'
  <1>1. procs' \in [Slots -> Processes] /\ call' = [call EXCEPT ![a] = NoCall]
    BY AnswerStep DEF TypeOK, Answer
  <1>2. NoCall \in Calls
    BY DEF Calls, NoCall
  <1>. QED
    BY <1>1, <1>2, OtherCallKeeps

LEMMA WaitsKeeps ==
  ASSUME TypeOK, NEW a \in Actors, Waits(a)
  PROVE  TypeOK'
  <1>2. UNCHANGED <<work, staged, writes>> /\ work' \in Trees /\ staged' \in Trees
    BY DEF TypeOK, Waits, Collect, TimeOut, Drain, StartRegression, TestsPass, TestsFail, TestsRead, TestsTimeOut, tree
  <1>3. call[a].tool \in {"Bash", "Grep", "Tests"}
    BY DEF Waits, Collect, TimeOut, Drain, StartRegression, TestsPass, TestsFail, TestsRead, TestsTimeOut, In
  <1>4. call[a] \in Commands \cup TestCalls
    <2>1. call[a] \in Calls
      BY DEF TypeOK
    <2>2. NoCall.tool = "none"
      BY DEF NoCall
    <2>3. \A c \in Reverts : c.tool = "Revert"
      BY DEF Reverts
    <2>. QED
      BY <1>3, <2>1, <2>2, <2>3 DEF Calls
  <1>5. PICK p \in Slots : p = call[a].proc
    BY <1>4 DEF Commands, TestCalls
  <1>6. CASE Answer(a)
    BY <1>2, <1>3, <1>6, AnsweredKeeps
  <1>7. ASSUME call[a] \in Commands, StartProcess(call[a].proc, "tree", TRUE),
               call' = [call EXCEPT ![a].attempts = @ + 1]
        PROVE  TypeOK'
    <2>. DEFINE c == [call[a] EXCEPT !.attempts = @ + 1]
    <2>1. c \in Calls
      BY <1>7 DEF Commands, Calls
    <2>2. procs' \in [Slots -> Processes]
      BY <1>5, <1>7, StartIs DEF TypeOK
    <2>3. call' = [call EXCEPT ![a] = c]
      BY <1>7
    <2>. HIDE DEF c
    <2>. QED
      BY <1>2, <1>3, <2>1, <2>2, <2>3, OtherCallKeeps
  <1>8. ASSUME NEW wholeTree \in BOOLEAN, Kill(call[a].proc, wholeTree),
               call' = [call EXCEPT ![a].at = "drain"]
        PROVE  TypeOK'
    <2>. DEFINE c == [call[a] EXCEPT !.at = "drain"]
    <2>1. c \in Calls
      BY <1>4 DEF Commands, TestCalls, Calls
    <2>2. procs' \in [Slots -> Processes]
      BY <1>5, <1>8, KillIs DEF TypeOK
    <2>3. call' = [call EXCEPT ![a] = c]
      BY <1>8
    <2>. HIDE DEF c
    <2>. QED
      BY <1>2, <1>3, <2>1, <2>2, <2>3, OtherCallKeeps
  <1>9. ASSUME call[a] \in TestCalls, StartProcess(call[a].proc, Sandbox(a), TRUE),
               call' = [call EXCEPT ![a].regression = "running"]
        PROVE  TypeOK'
    <2>. DEFINE c == [call[a] EXCEPT !.regression = "running"]
    <2>1. c \in Calls
      BY <1>9 DEF TestCalls, Calls
    <2>2. PICK dir \in {"tree", "copy"} : dir = Sandbox(a)
      BY DEF Sandbox
    <2>3. procs' \in [Slots -> Processes]
      BY <1>5, <1>9, <2>2, StartIs DEF TypeOK
    <2>4. call' = [call EXCEPT ![a] = c]
      BY <1>9
    <2>. HIDE DEF c
    <2>. QED
      BY <1>2, <1>3, <2>1, <2>3, <2>4, OtherCallKeeps
  <1>10. In(a, "Bash") \/ In(a, "Grep") => call[a] \in Commands
    BY <1>4 DEF In, Commands, TestCalls
  <1>11. In(a, "Tests") => call[a] \in TestCalls
    BY <1>4 DEF In, Commands, TestCalls
  <1>12. Windows \in BOOLEAN
    BY WorkspaceAssumption
  <1>13. CASE Collect(a)
    BY <1>6, <1>7, <1>10, <1>13 DEF Collect
  <1>14. CASE TimeOut(a)
    BY <1>8, <1>12, <1>14 DEF TimeOut
  <1>15. CASE StartRegression(a)
    BY <1>9, <1>11, <1>15 DEF StartRegression, TestsRead
  <1>16. CASE TestsTimeOut(a)
    BY <1>8, <1>16 DEF TestsTimeOut
  <1>17. CASE Drain(a) \/ TestsPass(a) \/ TestsFail(a)
    BY <1>6, <1>17 DEF Drain, TestsPass, TestsFail
  <1>. QED
    BY <1>13, <1>14, <1>15, <1>16, <1>17 DEF Waits

(* A checkout puts into the tree what the index or a commit has.           *)
LEMMA CheckoutIs ==
  ASSUME TypeOK, NEW target \in DOMAIN Commits, NEW files, Checkout(target, files)
  PROVE  work' \in Trees /\ staged' \in Trees
  <1>1. Source(target) \in Trees
    BY TextsAre DEF Source, TypeOK
  <1>. QED
    BY <1>1 DEF Checkout, TypeOK, Trees

LEMMA RevertKeeps ==
  ASSUME TypeOK, NEW a \in Actors, Revert(a)
  PROVE  TypeOK'
  <1>2. call[a].tool = "Revert" /\ Answer(a) /\ UNCHANGED writes
    BY DEF Revert, In
  <1>3. call[a] \in Reverts
    <2>1. call[a] \in Calls /\ NoCall.tool = "none"
      BY DEF TypeOK, NoCall
    <2>2. \A c \in Commands \cup TestCalls : c.tool # "Revert"
      BY DEF Commands, TestCalls
    <2>. QED
      BY <1>2, <2>1, <2>2 DEF Calls
  <1>4. PICK target \in DOMAIN Commits : target = call[a].target
    BY <1>3 DEF Reverts
  <1>5. \E done \in SUBSET Files : Checkout(target, done)
    BY <1>3, <1>4 DEF Revert, Reverts
  <1>6. work' \in Trees /\ staged' \in Trees
    BY <1>5, CheckoutIs
  <1>. QED
    BY <1>2, <1>6, AnsweredKeeps

LEMMA CancelKeeps ==
  ASSUME TypeOK, NEW a \in Actors, CancelCall(a)
  PROVE  TypeOK'
  <1>1. Answer(a) /\ UNCHANGED <<work, staged, writes>>
    BY DEF CancelCall, tree
  <1>. QED
    BY <1>1, AnsweredKeeps DEF TypeOK

-----------------------------------------------------------------------------
(* The theorems.                                                           *)

(* Every variable keeps its type.                                          *)
THEOREM WorkspaceTypeCorrect == WorkspaceSpec => []TypeOK
  <1>1. WorkspaceInit => TypeOK
    <2>1. Commits["HEAD"] \in Trees
      BY TextsAre, WorkspaceAssumption
    <2>. QED
      BY <2>1, NoProcessIs DEF WorkspaceInit, TypeOK, Calls
  <1>2. TypeOK /\ [WorkspaceNext]_workspaceVars => TypeOK'
    <2>. SUFFICES ASSUME TypeOK, [WorkspaceNext]_workspaceVars
                  PROVE  TypeOK'
      OBVIOUS
    <2>1. CASE UNCHANGED workspaceVars
      BY <2>1 DEF TypeOK, workspaceVars, tree
    <2>. QED
      BY <2>1, ProcessKeeps, WriteFileKeeps, EditFileKeeps, StartCommandKeeps,
         StartTestsKeeps, StartRevertKeeps, WaitsKeeps, RevertKeeps, CancelKeeps DEF WorkspaceNext
  <1>. QED
    BY <1>1, <1>2, PTL DEF WorkspaceSpec
=============================================================================
