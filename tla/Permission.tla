---------------------------- MODULE Permission ----------------------------
(***************************************************************************)
(* The decision whether a tool call may run (permission/checker.py,        *)
(* modes.py, blacklist.py, sandbox.py) and the rules it consults           *)
(* (permission/rules.py), as operators.  A path is the place it resolves   *)
(* to and the words its spelling has; a command is its segments and what   *)
(* the decision reads off its text.  A rule is the calls its two patterns  *)
(* match, the texts of their contents at that.                             *)
(***************************************************************************)
EXTENDS Integers, Sequences, SequencesExt

CONSTANTS Roots,   \* the sandbox: work directory, temporary directory, extra roots
          KdDirs   \* directories of the agent's own settings

Effects == {"allow", "ask", "deny"}
Modes == {"default", "acceptEdits", "plan", "bypassPermissions"}

-----------------------------------------------------------------------------
(* Paths.  A link is a path whose place is not where its words say.        *)

Under(place, dir) == IsPrefix(dir, place)

(* PathSandbox.contains, after resolving.                                  *)
InSandbox(path) == \E root \in Roots : Under(path.place, root)

SensitiveFilenames ==
  {"config.yaml", "config.local.yaml", "permissions.yaml", "permissions.local.yaml"}
SensitiveDirnames == {"skills"}

(* _sensitive_write: the settings of the agent and the skills that enter   *)
(* its prompt.                                                             *)
SensitiveWrite(path) ==
  /\ \E dir \in KdDirs : Under(path.place, dir)
  /\ \/ path.place # <<>> /\ Last(path.place) \in SensitiveFilenames
     \/ \E i \in DOMAIN path.place : path.place[i] \in SensitiveDirnames

-----------------------------------------------------------------------------
(* Commands: segments of a verb, its options and its paths; what output is *)
(* redirected to; substitution of other commands.  A line end is a space   *)
(* to shlex.split: "more" are the verbs on further lines of a segment.     *)

ReadonlyCommands ==
  {"ls", "find", "grep", "cat", "head", "tail", "wc", "pwd", "echo", "printf", "which",
   "type", "diff", "file", "strings", "du", "df", "free", "whoami", "dirname", "basename",
   "date", "stat", "realpath", "tree", "sort", "uniq", "cut", "printenv"}

(* Options that write are known of find alone.                             *)
ReadonlyExcludeTokens(verb) ==
  IF verb = "find"
  THEN {"-delete", "-exec", "-execdir", "-ok", "-okdir", "-fls", "-fprint", "-fprintf"}
  ELSE {}

(* One segment that counts as read-only: by its first word, whatever the   *)
(* options of verbs other than find do, and whatever its further lines.    *)
ReadonlySegment(segment) ==
  /\ segment.verb \in ReadonlyCommands
  /\ segment.options \cap ReadonlyExcludeTokens(segment.verb) = {}

Plain(command) == command.redirects = {} /\ ~command.substitutes

IsReadonlyBash(command) ==
  /\ Plain(command)
  /\ Len(command.segments) = 1
  /\ ReadonlySegment(command.segments[1])

(* Also of several segments, and of none.                                  *)
BashPipelineReadonly(command) ==
  /\ Plain(command)
  /\ \A i \in DOMAIN command.segments : ReadonlySegment(command.segments[i])

(* Everything after the first rm, mv or cp, whichever segment or line.     *)
Removes(segment) == ({segment.verb} \cup segment.more) \cap {"rm", "mv", "cp"} # {}

BashWriteTargets(command) ==
  command.redirects
    \cup UNION {command.segments[j].paths :
                  j \in {k \in DOMAIN command.segments :
                           \E i \in 1..k : Removes(command.segments[i])}}

Mentioned(command) ==
  command.redirects \cup UNION {command.segments[i].paths : i \in DOMAIN command.segments}

(* The two words somewhere in the text, not necessarily of one path.       *)
MentionsSensitivePath(command) ==
  /\ \E p \in Mentioned(command) : "kdagent" \in p.words
  /\ \E p \in Mentioned(command) : "sensitive" \in p.words

Blacklisted(command) == command.dangerous

-----------------------------------------------------------------------------
(* Rules.                                                                  *)

Matches(rule, tool, content) == tool \in rule.tools /\ content.text \in rule.texts

(* RuleEngine.evaluate: deny over ask over allow, in whatever order the    *)
(* rules stand, so that a set of rules is all there is to know.            *)
Evaluate(rules, tool, content) ==
  LET said == {rule.effect : rule \in {r \in rules : Matches(r, tool, content)}}
  IN IF "deny" \in said THEN "deny"
     ELSE IF "ask" \in said THEN "ask"
     ELSE IF said # {} THEN "allow" ELSE "none"

-----------------------------------------------------------------------------
ToolClass(tool) ==
  IF tool.category = "shell" THEN "shell" ELSE IF tool.readOnly THEN "read" ELSE "write"

MatrixEffect(mode, class) ==
  IF \/ mode = "bypassPermissions"
     \/ class = "read"
     \/ mode = "acceptEdits" /\ class = "write"
  THEN "allow" ELSE "ask"

IsBash(tool) == tool.name = "Bash"

(* What no mode and no rule can permit: dangerous commands, and writes to  *)
(* the agent's own settings by a file tool or by a command.                *)
HardDenied(tool, content) ==
  \/ IsBash(tool) /\ Blacklisted(content)
  \/ tool.category = "filesystem" /\ ~tool.readOnly /\ SensitiveWrite(content)
  \/ IsBash(tool) /\ \E p \in BashWriteTargets(content) : SensitiveWrite(p)

Outside(tool, content) == tool.category = "filesystem" /\ ~InSandbox(content)

(* The last layers, for a call no rule speaks of.                          *)
Unruled(mode, tool, content) ==
  IF IsBash(tool) /\ MentionsSensitivePath(content) THEN "ask"
  ELSE IF IsBash(tool) /\ mode = "acceptEdits" /\ IsReadonlyBash(content) THEN "allow"
  ELSE MatrixEffect(mode, ToolClass(tool))

(* Mutant: the mode is looked at first.                                    *)
CheckModeFirst(mode, rules, tool, content) ==
  IF mode = "bypassPermissions" \/ tool.category = "planning" THEN "allow"
  ELSE IF HardDenied(tool, content) THEN "deny"
  ELSE IF Outside(tool, content) THEN "ask"
  ELSE IF Evaluate(rules, tool.name, content) # "none" THEN Evaluate(rules, tool.name, content)
  ELSE Unruled(mode, tool, content)

(* PermissionChecker.check.  A place outside the sandbox is asked about    *)
(* before any rule is looked at, also before one that denies.              *)
Check(mode, rules, tool, content) ==
  IF HardDenied(tool, content) THEN "deny"
  ELSE IF mode = "bypassPermissions" \/ tool.category = "planning" THEN "allow"
  ELSE IF Outside(tool, content) THEN "ask"
  ELSE IF Evaluate(rules, tool.name, content) # "none" THEN Evaluate(rules, tool.name, content)
  ELSE Unruled(mode, tool, content)

=============================================================================
