---------------------------- MODULE MCToolGate ----------------------------
(* A main agent and two subagents, one that may only read and one in the  *)
(* background; each reply is there for a layer of the decision; one hook   *)
(* that vetoes, one that fires once, one after.                            *)
EXTENDS ToolGate

MCRoots == {<<"work">>}
MCKdDirs == {<<"work", ".kdagent">>}

Tool(name, category, readOnly, safe) ==
  [name |-> name, category |-> category, readOnly |-> readOnly, safe |-> safe]

MCTools == {Tool("Bash", "shell", FALSE, FALSE), Tool("ReadFile", "filesystem", TRUE, TRUE),
            Tool("WriteFile", "filesystem", FALSE, FALSE), Tool("Agent", "system", FALSE, FALSE)}

Main == [main |-> TRUE, mode |-> "", tools |-> {}, disallowed |-> {}, bashReadonly |-> FALSE,
         background |-> FALSE, fork |-> FALSE]
MCAgents == {Main,
  [Main EXCEPT !.main = FALSE, !.mode = "dontAsk", !.fork = TRUE, !.background = TRUE],
  [Main EXCEPT !.main = FALSE, !.mode = "acceptEdits", !.bashReadonly = TRUE,
               !.tools = {"Bash", "ReadFile"}]}

Path(text, place, words) ==
  [text |-> text, learnt |-> {text}, parses |-> TRUE, place |-> place, words |-> words]
Segment(verb, options, paths) ==
  [verb |-> verb, options |-> options, paths |-> paths, more |-> {}]
(* "changes" is what the command does, whatever is read off its text.      *)
Command(text, segments, changes, dangerous) ==
  [text |-> text, learnt |-> {text}, parses |-> TRUE, segments |-> segments,
   redirects |-> {}, substitutes |-> FALSE, dangerous |-> dangerous, changes |-> changes]
Call(tool, content) == [tool |-> tool, content |-> content, malformed |-> FALSE]

Source == Path("src/a", <<"work", "src", "a">>, {})
Other == Path("/tmp/other", <<"other">>, {})
Passwd == Path("/etc/passwd", <<"etc", "passwd">>, {})
Link == Path("link", <<"work", ".kdagent", "skills", "s">>, {})
Settings == Path("permissions.yaml", <<"work", "permissions.yaml">>, {"sensitive"})
KdDir == Path(".kdagent", <<"work", ".kdagent">>, {"kdagent"})

Grep == Command("grep x src/a", <<Segment("grep", {}, {Source})>>, FALSE, FALSE)
Push == Command("git push", <<Segment("git", {}, {})>>, TRUE, FALSE)
RmRoot == Command("rm -rf /", <<Segment("rm", {"-rf"}, {})>>, TRUE, TRUE)
RmLink == Command("ls; rm link", <<Segment("ls", {}, {}), Segment("rm", {}, {Link})>>, TRUE, FALSE)
CdRm == Command("cd .kdagent; rm permissions.yaml",
                <<Segment("cd", {}, {KdDir}), Segment("rm", {}, {Settings})>>, TRUE, FALSE)
Subshell == [Command("echo (a)", <<Segment("echo", {}, {})>>, FALSE, FALSE) EXCEPT !.parses = FALSE]
Sort == Command("sort -o list list", <<Segment("sort", {"-o"}, {})>>, TRUE, FALSE)
FindDelete == Command("find . -delete", <<Segment("find", {"-delete"}, {})>>, TRUE, FALSE)
Lines == Command("ls (line end) mv a b", <<[Segment("ls", {}, {Source}) EXCEPT !.more = {"mv"}]>>, TRUE, FALSE)

Read == Call("ReadFile", Source)
Look == Call("ReadFile", Other)
Single == {Read, Call("ReadFile", Passwd), Call("WriteFile", Link),
           Call("WriteFile", Source), Call("Bash", Grep), Call("Bash", Push),
           Call("Bash", RmRoot), Call("Bash", RmLink), Call("Bash", CdRm),
           Call("Bash", Subshell), Call("Bash", Sort), Call("Bash", FindDelete),
           Call("Bash", Lines), Call("Agent", Source)}
MCReplies == {<< input >> : input \in Single}
  \cup {<<Look, Look, Read>>, <<Call("WriteFile", Source), Call("WriteFile", Source)>>,
        <<[Read EXCEPT !.malformed = TRUE], Call("Bash", Grep)>>}

Rule(tool, text, effect) == [tools |-> {tool}, texts |-> {text}, effect |-> effect]
Entry(kind, rule) == [kind |-> kind, rule |-> rule]
MCFixedRules == {Rule("ReadFile", "src/a", "allow")}
MCLocalFiles == {<<>>,
  <<Entry("rule", Rule("Bash", "git push", "deny")), Entry("malformed", Rule("Bash", "", "deny")),
    Entry("rule", Rule("Bash", "grep x src/a", "ask"))>>,
  <<Entry("rule", Rule("ReadFile", "/tmp/other", "deny")), Entry("bad", Rule("Bash", "", "allow")),
    Entry("rule", Rule("Bash", "git push", "deny"))>>,
  <<Entry("rule", Rule("Bash", "git push", "deny")), Entry("broken", Rule("Bash", "", "deny"))>>}

Condition(field, op, values) ==
  [all |-> TRUE, exprs |-> {[field |-> field, op |-> op, values |-> values]}]
Hook(id, event, reject, once, condition) ==
  [id |-> id, event |-> event, reject |-> reject, once |-> once, condition |-> condition]
MCHooks ==
  <<Hook("note", "pre_tool_use", FALSE, TRUE, Condition("tool", "!=", {"ReadFile"})),
    Hook("veto", "pre_tool_use", TRUE, TRUE,
         [all |-> FALSE, exprs |-> {[field |-> "args", op |-> "=~", values |-> {"/etc/passwd"}],
                                    [field |-> "event", op |-> "==", values |-> {"none"}]}]),
    Hook("after", "post_tool_use", FALSE, TRUE, Condition("event", "==", {"post_tool_use"}))>>
===========================================================================
