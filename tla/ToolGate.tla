----------------------------- MODULE ToolGate ------------------------------
(***************************************************************************)
(* The way of a tool call from the model's reply to its execution          *)
(* (engine/agent.py, partition_tool_calls, _execute_batch, _exec_one): the *)
(* tools a subagent is left with (subagent/runner.py), the permission      *)
(* layers, the question to the user or the headless verdict, the rule      *)
(* learned from it (permission/rules.py) and the hooks that may veto       *)
(* (hooks/engine.py, hooks/conditions.py).  Replies follow each other, the *)
(* process restarts between them and reads its rule files again.           *)
(***************************************************************************)
EXTENDS Permission, FiniteSets

CONSTANTS Tools,             \* the main registry, one record per name
          Agents,            \* the main agent and definitions of subagents
          Replies,           \* replies the model may make: sequences of calls, each
                             \* a tool's name and the content
          Hooks,             \* the configured hooks, in order
          FixedRules,        \* rules of the user's and the project's file
          LocalFiles,        \* what the local rule file may hold at first
          ConcurrencyLimit,  \* CONCURRENCY_LIMIT
          MaxReplies,        \* bound: replies
          MaxSwitches        \* bound: changes of the mode

ASSUME ToolGateAssumption ==
  /\ ConcurrencyLimit \in Nat \ {0}
  /\ {MaxReplies, MaxSwitches} \subseteq Nat

(* HookEngine.load checks that only a hook of pre_tool_use vetoes; that    *)
(* ids differ it leaves to the configuration.                              *)
ASSUME HooksAssumption ==
  /\ DOMAIN Hooks \subseteq Nat
  /\ \A i, k \in DOMAIN Hooks :
       /\ Hooks[i].reject => Hooks[i].event = "pre_tool_use"
       /\ Hooks[i].id = Hooks[k].id => i = k

(* A file is a list of entries of four kinds, see below.                   *)
ASSUME FilesAssumption ==
  \A file \in LocalFiles :
    /\ file \in Seq(Range(file))
    /\ \A i \in DOMAIN file : file[i].kind \in {"rule", "bad", "malformed", "broken"}

(* A command is a sequence of segments.                                    *)
ASSUME RepliesAssumption ==
  \A calls \in Replies : \A i \in DOMAIN calls :
    calls[i].tool = "Bash" => DOMAIN calls[i].content.segments \subseteq Nat \ {0}

VARIABLES agent,      \* whose reply is executed
          mode,       \* PermissionChecker._mode of the main agent
          rules,      \* RuleEngine._rules
          localFile,  \* permissions.local.yaml, entry by entry
          fired,      \* HookEngine._fired
          reply,      \* the calls of the reply being executed
          from,       \* the first call of the current batch
          state,      \* where each call is
          replies, switches,
          under,      \* history: the mode each call was decided in
          always      \* history: the calls the user allowed for ever

vars == <<agent, mode, rules, localFile, fired, reply, from, state, replies,
          switches, under, always>>
settings == <<mode, rules, localFile, switches, always>>

Over == {"ran", "refused", "failed"}
States == {"new", "asking", "running"} \cup Over

ToolNamed(name) == CHOOSE tool \in Tools : tool.name = name

-----------------------------------------------------------------------------
(* The tools of a subagent: filter_tools and the wrapper around Bash.      *)

AgentDisallowed ==
  {"Agent", "AskUserQuestion", "TaskStop", "TaskList", "TaskGet", "TaskCreate", "TaskUpdate"}
AsyncAllowed == {"ReadFile", "WriteFile", "EditFile", "Glob", "Grep", "Bash"}

(* A fork skips the definition's lists, never the first layer, and is      *)
(* always in the background.                                               *)
Registry(who) ==
  {tool.name : tool \in {t \in Tools :
     who.main \/
       /\ t.name \notin AgentDisallowed
       /\ who.background \/ who.fork => t.name \in AsyncAllowed
       /\ ~who.fork =>
            /\ who.tools # {} => t.name \in who.tools
            /\ t.name \notin who.disallowed}}

(* validate_input: the tool's own look at the input, and the wrapper's.    *)
Valid(who, input) ==
  /\ ~input.malformed
  /\ ~who.main /\ who.bashReadonly /\ input.tool = "Bash"
       => BashPipelineReadonly(input.content)

(* An acceptEdits subagent has a checker of its own mode over the same     *)
(* layers; the others share the main one.                                  *)
ModeFor(who) == IF ~who.main /\ who.mode = "acceptEdits" THEN "acceptEdits" ELSE mode

-----------------------------------------------------------------------------
(* Rules learned from verdicts.  An entry of the file is a rule, a text    *)
(* that does not parse as one ("bad"), or not even two strings             *)
(* ("malformed"): loading stops at either, learning rewrites the file      *)
(* without the malformed ones.  An entry may also break the file as a      *)
(* whole ("broken"): what is not YAML, or no list, has no rules to load,   *)
(* and learning begins it anew.                                            *)

Broken(entries) == \E i \in DOMAIN entries : entries[i].kind = "broken"

Load(entries) ==
  {entries[i].rule : i \in {k \in DOMAIN entries :
     ~Broken(entries) /\ \A j \in 1..k : entries[j].kind = "rule"}}

(* RuleEngine.learn writes Tool(text) with the text cut to its limit and   *)
(* reads it again as a pair of patterns: "learnt" are the texts the second *)
(* pattern matches, none for a text that was cut; a text with a closing    *)
(* parenthesis does not parse.                                             *)
LearnedRule(input) ==
  [tools |-> {input.tool}, texts |-> input.content.learnt, effect |-> "allow"]

LearnedEntry(input) ==
  [kind |-> IF input.content.parses THEN "rule" ELSE "bad", rule |-> LearnedRule(input)]

(* Mutant: the file is written anew.                                       *)
LearnOverwriting(input) ==
  /\ localFile' = <<LearnedEntry(input)>>
  /\ rules' = IF input.content.parses THEN rules \cup {LearnedRule(input)} ELSE rules

(* Mutant: the rule is kept in memory only.                                *)
LearnForNow(input) ==
  /\ UNCHANGED localFile
  /\ rules' = IF input.content.parses THEN rules \cup {LearnedRule(input)} ELSE rules

WithoutMalformed(entries) ==
  LET kept[i \in 0..Len(entries)] ==
        IF i = 0 THEN <<>>
        ELSE IF entries[i].kind = "malformed" THEN kept[i - 1]
        ELSE Append(kept[i - 1], entries[i])
  IN  kept[Len(entries)]

(* The file first; the rule in memory only if it parses.                   *)
Learn(input) ==
  /\ localFile' = Append(IF Broken(localFile) THEN <<>> ELSE WithoutMalformed(localFile),
                         LearnedEntry(input))
  /\ rules' = IF input.content.parses THEN rules \cup {LearnedRule(input)} ELSE rules

-----------------------------------------------------------------------------
(* Hooks.  A condition is a set of comparisons, all or some of which must  *)
(* hold.                                                                   *)

FieldValue(event, input, field) ==
  CASE field = "tool" -> input.tool
    [] field = "event" -> event
    [] field = "args" -> input.content.text
    [] OTHER -> ""

ExprHolds(expr, event, input) ==
  (FieldValue(event, input, expr.field) \in expr.values) = (expr.op # "!=")

ConditionHolds(condition, event, input) ==
  IF condition.all
  THEN \A expr \in condition.exprs : ExprHolds(expr, event, input)
  ELSE \E expr \in condition.exprs : ExprHolds(expr, event, input)

Concerns(hook, event, input) ==
  hook.event = event /\ ConditionHolds(hook.condition, event, input)

Due(event, input) ==
  {i \in DOMAIN Hooks : /\ Concerns(Hooks[i], event, input)
                        /\ ~(Hooks[i].once /\ Hooks[i].id \in fired)}

Marked(due) == fired \cup {Hooks[i].id : i \in {k \in due : Hooks[k].once}}

(* A hook that vetoes is never marked as fired, once or not.               *)
Vetoes(input) == {i \in Due("pre_tool_use", input) : Hooks[i].reject}

(* run_pre_tool: the hooks before the first veto run.                      *)
RunPreTool(input) ==
  fired' = Marked({i \in Due("pre_tool_use", input) : \A k \in Vetoes(input) : i < k})

-----------------------------------------------------------------------------
(* Batches.                                                                *)

Safe(input) == input.tool \in Registry(agent) /\ ToolNamed(input.tool).safe

(* The batch that begins at a call: the run of concurrency-safe calls it   *)
(* begins, or itself alone.                                                *)
Batch(i) ==
  IF Safe(reply[i])
  THEN {j \in i..Len(reply) : \A k \in i..j : Safe(reply[k])}
  ELSE {i}

Idle == reply = <<>>

NoReply == reply' = <<>> /\ from' = 1 /\ state' = <<>> /\ under' = <<>>

Becomes(i, where) == state' = [state EXCEPT ![i] = where]

(* A reply of the main agent, or of a subagent.                            *)
BeginReply(who, calls) ==
  /\ Idle /\ replies < MaxReplies
  /\ agent' = who /\ reply' = calls /\ from' = 1
  /\ state' = [i \in DOMAIN calls |-> "new"]
  /\ under' = [i \in DOMAIN calls |-> "none"]
  /\ replies' = replies + 1
  /\ UNCHANGED <<settings, fired>>

(* The end of the gate: hooks may still veto, otherwise the tool runs.     *)
Proceed(i) ==
  /\ RunPreTool(reply[i])
  /\ Becomes(i, IF Vetoes(reply[i]) = {} THEN "running" ELSE "refused")

Decision(i) ==
  Check(ModeFor(agent), rules, ToolNamed(reply[i].tool), reply[i].content)

(* _exec_one up to its first wait: an unknown tool and a malformed input   *)
(* fail, a denied call is refused, a question waits for the user or, in a  *)
(* subagent, is answered at once by _SubSink.                              *)
Start(i) ==
  /\ ~Idle /\ i \in Batch(from) /\ state[i] = "new"
  /\ \A j \in Batch(from) : j < i => state[j] # "new"
  /\ Cardinality({j \in Batch(from) : state[j] \in {"asking", "running"}}) < ConcurrencyLimit
  /\ under' = [under EXCEPT ![i] = ModeFor(agent)]
  /\ \/ /\ ~(reply[i].tool \in Registry(agent) /\ Valid(agent, reply[i]))
        /\ Becomes(i, "failed") /\ UNCHANGED fired
     \/ /\ reply[i].tool \in Registry(agent) /\ Valid(agent, reply[i])
        /\ \/ /\ \/ Decision(i) = "deny"
                 \/ Decision(i) = "ask" /\ ~agent.main /\ agent.mode \in {"default", "acceptEdits"}
              /\ Becomes(i, "refused") /\ UNCHANGED fired
           \/ /\ Decision(i) = "ask" /\ agent.main
              /\ Becomes(i, "asking") /\ UNCHANGED fired
           \/ /\ \/ Decision(i) = "allow"
                 \/ Decision(i) = "ask" /\ ~agent.main /\ agent.mode \notin {"default", "acceptEdits"}
              /\ Proceed(i)
  /\ UNCHANGED <<agent, settings, reply, from, replies>>

(* The user's verdict.                                                     *)
Refuse(i) ==
  /\ ~Idle /\ i \in Batch(from) /\ state[i] = "asking"
  /\ Becomes(i, "refused")
  /\ UNCHANGED <<agent, settings, fired, reply, from, replies, under>>

Allow(i) ==
  /\ ~Idle /\ i \in Batch(from) /\ state[i] = "asking"
  /\ Proceed(i)
  /\ UNCHANGED <<agent, settings, reply, from, replies, under>>

(* A rule that does not parse raises after the file was written, and the   *)
(* call the user allowed ends as a failed one.                             *)
AllowAlways(i) ==
  /\ ~Idle /\ i \in Batch(from) /\ state[i] = "asking"
  /\ Learn(reply[i])
  /\ always' = always \cup {reply[i]}
  /\ IF reply[i].content.parses
     THEN Proceed(i)
     ELSE Becomes(i, "failed") /\ UNCHANGED fired
  /\ UNCHANGED <<agent, mode, switches, reply, from, replies, under>>

(* The tool returns or raises; its hooks run, and none can veto any more.  *)
Finish(i) ==
  /\ ~Idle /\ i \in Batch(from) /\ state[i] = "running"
  /\ Becomes(i, "ran")
  /\ fired' = Marked(Due("post_tool_use", reply[i]))
  /\ UNCHANGED <<agent, settings, reply, from, replies, under>>

(* The batch's results are complete: the next batch, or the end.           *)
EndBatch ==
  /\ ~Idle /\ \A i \in Batch(from) : state[i] \in Over
  /\ IF from + Cardinality(Batch(from)) > Len(reply)
     THEN NoReply
     ELSE from' = from + Cardinality(Batch(from)) /\ UNCHANGED <<reply, state, under>>
  /\ UNCHANGED <<agent, settings, fired, replies>>

(* The run is cancelled while it waits; no call of the reply goes on.      *)
Cancel ==
  /\ ~Idle /\ \E i \in Batch(from) : state[i] \in {"asking", "running"}
  /\ NoReply
  /\ UNCHANGED <<agent, settings, fired, replies>>

(* /permissions, also while a question is open.                            *)
SetMode(m) ==
  /\ switches < MaxSwitches /\ m # mode
  /\ mode' = m /\ switches' = switches + 1
  /\ UNCHANGED <<agent, rules, localFile, always, fired, reply, from, state, replies, under>>

(* The mode is read from where the last change stored it, the rules from   *)
(* the three files.                                                        *)
Restart ==
  /\ Idle /\ replies < MaxReplies
  /\ rules' = FixedRules \cup Load(localFile)
  /\ fired' = {}
  /\ UNCHANGED <<reply, from, state, under>>
  /\ UNCHANGED <<agent, mode, localFile, replies, switches, always>>

Init ==
  /\ agent \in {a \in Agents : a.main}
  /\ mode = "default"
  /\ localFile \in LocalFiles
  /\ rules = FixedRules \cup Load(localFile)
  /\ fired = {} /\ always = {}
  /\ reply = <<>> /\ from = 1 /\ state = <<>> /\ under = <<>>
  /\ replies = 0 /\ switches = 0

Next ==
  \/ \E who \in Agents : \E calls \in Replies : BeginReply(who, calls)
  \/ \E i \in DOMAIN reply :
       Start(i) \/ Refuse(i) \/ Allow(i) \/ AllowAlways(i) \/ Finish(i)
  \/ EndBatch \/ Cancel \/ Restart
  \/ \E m \in Modes : SetMode(m)

Spec == Init /\ [][Next]_vars

-----------------------------------------------------------------------------
(* Properties.                                                             *)

(* However calls side by side, verdicts, learned rules and switches of the *)
(* mode interleave, of a call that runs it holds that                      *)
(*  - no command has a form the blacklist knows;                           *)
(*  - no file tool writes to a place with the agent's settings, and no     *)
(*    command has such a place behind a redirect, or behind rm, mv or cp   *)
(*    in the same segment.  Other ways to it a command may have: after a   *)
(*    cd or by a program of its own it is asked about at most, and runs    *)
(*    under bypassPermissions;                                             *)
(*  - no rule denies it now, unless it was decided when rules were         *)
(*    bypassed, or its place is outside of the sandbox;                    *)
(*  - a subagent has none of the tools of the main agent alone, and a      *)
(*    read-only one has a verb of the list in front of each segment and no *)
(*    redirect;                                                            *)
(*  - no hook that vetoes speaks of it.                                    *)
NamesSettings(command) ==
  \/ \E p \in command.redirects : SensitiveWrite(p)
  \/ \E i \in DOMAIN command.segments :
       /\ command.segments[i].verb \in {"rm", "mv", "cp"}
       /\ \E p \in command.segments[i].paths : SensitiveWrite(p)

NeverForbidden ==
  \A i \in DOMAIN reply : state[i] \in {"running", "ran"} =>
    LET tool == ToolNamed(reply[i].tool)
        content == reply[i].content
    IN
      /\ IsBash(tool) => ~content.dangerous /\ ~NamesSettings(content)
      /\ tool.category = "filesystem" /\ ~tool.readOnly => ~SensitiveWrite(content)
      /\ \/ under[i] = "bypassPermissions" \/ tool.category = "planning"
         \/ Outside(tool, content)
         \/ ~\E rule \in rules : rule.effect = "deny" /\ Matches(rule, tool.name, content)
      /\ ~agent.main => tool.name \notin AgentDisallowed
      /\ ~agent.main /\ agent.bashReadonly /\ IsBash(tool) =>
           /\ content.redirects = {}
           /\ \A k \in DOMAIN content.segments : content.segments[k].verb \in ReadonlyCommands
      /\ \A k \in DOMAIN Hooks : Hooks[k].reject => ~Concerns(Hooks[k], "pre_tool_use", reply[i])

(* What rules.py:12 says of a rule that denies, "wherever it is written it *)
(* forbids; to permit more is only to change or delete the rule": but for  *)
(* the mode that bypasses all rules, no call it matches runs.              *)
DenyForbids ==
  \A i \in DOMAIN reply : state[i] \in {"running", "ran"} =>
    \/ under[i] = "bypassPermissions"
    \/ ~\E rule \in rules : rule.effect = "deny" /\ Matches(rule, reply[i].tool, reply[i].content)

(* What runner.py:83 says of an agent with bash_readonly, "a restriction   *)
(* by mechanism": no command of its changes a file.                        *)
ReadersOnlyRead ==
  \A i \in DOMAIN reply : state[i] \in {"running", "ran"} =>
    ~(~agent.main /\ agent.bashReadonly /\ reply[i].tool = "Bash" /\ reply[i].content.changes)

(* The user is not asked again about a call allowed for ever, in this      *)
(* process or after a restart: unless its place is outside the sandbox, a  *)
(* rule says to ask, the text was too long to be learned whole, or the     *)
(* file has an entry that loading stops at.                                *)
AskedOnce ==
  [][\A i \in DOMAIN reply \cap DOMAIN reply' : state[i] = "new" /\ state'[i] = "asking" /\ reply[i] \in always =>
       \/ Outside(ToolNamed(reply[i].tool), reply[i].content)
       \/ Evaluate(rules, reply[i].tool, reply[i].content) = "ask"
       \/ reply[i].content.text \notin reply[i].content.learnt
       \/ \E k \in DOMAIN localFile : localFile[k].kind = "bad"]_vars

(* A rule that denies stays in force, through everything learned later and *)
(* every restart, and stays in the file: but a file that cannot be read as *)
(* a whole is begun anew (rules.py:187).                                   *)
DenyEntries(entries) ==
  {entries[i] : i \in {k \in DOMAIN entries : /\ entries[k].kind = "rule"
                                              /\ entries[k].rule.effect = "deny"}}

DenyStaysInForce ==
  [][/\ \A rule \in rules : rule.effect = "deny" => rule \in rules'
     /\ ~Broken(localFile) => DenyEntries(localFile) \subseteq DenyEntries(localFile')]_vars

=============================================================================
