----------------------------- MODULE Workspace -----------------------------
(***************************************************************************)
(* The tools that change the working tree, and the commands they start:    *)
(* WriteFile, EditFile and Grep (tools/filesystem.py), Bash                *)
(* (tools/shell.py), TestRunner (tools/test_runner.py) and GitRevert       *)
(* (tools/git_revert.py).  The main agent and its background subagents     *)
(* share the tree and the thread: a tool gives way only where it awaits a  *)
(* process.  Processes run beside all of them, leave children, outlive a   *)
(* timeout or a cancelled call, and need not ever end.                     *)
(***************************************************************************)
EXTENDS Integers, Sequences, FiniteSets

CONSTANTS Actors,       \* the agents at work in the tree
          Files,
          Words,        \* what a text is a sequence of
          Texts,        \* what may be written to a file
          Word, Other,  \* the words an edit replaces and puts in its place
          Commits,      \* name of a commit -> file -> text
          Windows,      \* the platform kills a tree of processes, not one
          LauncherRetries, \* _WSL_RETRIES
          MaxCommands,  \* bound: commands with a process left at one time
          MaxWrites     \* bound: changes made by tools and by processes

Absent == <<"no file">>

ASSUME WorkspaceAssumption ==
  /\ "no file" \notin Words /\ {Word, Other} \subseteq Words
  /\ Texts \subseteq Seq(Words)
  /\ "HEAD" \in DOMAIN Commits
  /\ Commits \in [DOMAIN Commits -> [Files -> Seq(Words) \cup {Absent}]]
  /\ Windows \in BOOLEAN
  /\ {LauncherRetries, MaxCommands, MaxWrites} \subseteq Nat

VARIABLES work,     \* the files of the working tree
          staged,   \* git's index
          procs,    \* the processes started for commands
          call,     \* the tool call of each agent
          writes

tree == <<work, staged, writes>>
workspaceVars == <<work, staged, procs, call, writes>>

NoCall == [tool |-> "none"]

(* Exit codes stand for themselves up to 2; this one is any code that      *)
(* comes with the launcher's error in the output.                          *)
LauncherFailed == 3

Tracked(file) == staged[file] # Absent
Dirty == {file \in Files : work[file] # staged[file] \/ staged[file] # Commits["HEAD"][file]}

(* A process and, once it has forked, what it left running: both hold the  *)
(* pipes that communicate() reads to their end.                            *)
Slots == 1..MaxCommands
NoProcess == [dir |-> "tree", writer |-> FALSE, main |-> "none", child |-> FALSE, code |-> 0]
Running(process) == process.main \in {"new", "running"} \/ process.child
Live(p) == Running(procs[p])
Waited(calls, p) == \E a \in Actors : "proc" \in DOMAIN calls[a] /\ calls[a].proc = p

(* What has ended and is not waited for is gone.                           *)
Swept(processes, calls) ==
  [p \in Slots |-> IF Running(processes[p]) \/ Waited(calls, p) THEN processes[p]
                   ELSE NoProcess]

Vacant(p) == procs[p] = NoProcess /\ \A q \in 1..(p - 1) : procs[q] # NoProcess
StartProcess(p, dir, writer) ==
  procs' = [procs EXCEPT ![p] = [dir |-> dir, writer |-> writer, main |-> "new",
                                 child |-> FALSE, code |-> 0]]
(* Nothing is killed once the process itself has ended, be there children. *)
Kill(p, wholeTree) ==
  IF procs[p].main = "ended" THEN UNCHANGED procs
  ELSE procs' = [procs EXCEPT ![p].main = "ended", ![p].child = @ /\ ~wholeTree, ![p].code = 1]

Free(a) == call[a] = NoCall
In(a, tool) == call[a].tool = tool

(* The call is over, with an answer the model is told.                     *)
Answer(a) ==
  /\ call' = [call EXCEPT ![a] = NoCall]
  /\ procs' = Swept(procs, call')

-----------------------------------------------------------------------------
(* Processes.                                                              *)

Changes == writes < MaxWrites /\ writes' = writes + 1

RunsOn(p) ==
  /\ procs[p].main = "new"
  /\ procs' = [procs EXCEPT ![p].main = "running"]
  /\ UNCHANGED <<tree, call>>

(* The launcher of WSL fails before it runs the command.                   *)
LauncherFails(p) ==
  /\ procs[p].main = "new" /\ procs[p].writer
  /\ procs' = Swept([procs EXCEPT ![p].main = "ended", ![p].code = LauncherFailed], call)
  /\ UNCHANGED <<tree, call>>

Forks(p) ==
  /\ procs[p].main = "running" /\ ~procs[p].child /\ procs[p].writer
  /\ procs' = [procs EXCEPT ![p].child = TRUE]
  /\ UNCHANGED <<tree, call>>

(* It writes a file, or stages one; in a copy it touches nothing here.     *)
Works(p) ==
  /\ Live(p) /\ procs[p].main # "new"
  /\ procs[p].writer /\ procs[p].dir = "tree"
  /\ Changes
  /\ \E file \in Files :
       \/ /\ \E text \in Texts \cup {Absent} : work' = [work EXCEPT ![file] = text]
          /\ UNCHANGED staged
       \/ /\ staged' = [staged EXCEPT ![file] = work[file]]
          /\ UNCHANGED work
  /\ UNCHANGED <<procs, call>>

Ends(p) ==
  /\ \/ /\ procs[p].main = "running"
        /\ \E code \in 0..2 :
             procs' = Swept([procs EXCEPT ![p].main = "ended", ![p].code = code], call)
     \/ /\ procs[p].child
        /\ procs' = Swept([procs EXCEPT ![p].child = FALSE], call)
  /\ UNCHANGED <<tree, call>>

Process(p) == RunsOn(p) \/ LauncherFails(p) \/ Forks(p) \/ Works(p) \/ Ends(p)

-----------------------------------------------------------------------------
(* WriteFile and EditFile: an edit has no await between its read and its   *)
(* write, so that no other agent comes between them.                       *)

WriteFile(a) ==
  /\ Free(a) /\ Changes
  /\ \E file \in Files, text \in Texts : work' = [work EXCEPT ![file] = text]
  /\ UNCHANGED <<staged, procs, call>>

Count(text) == Cardinality({i \in DOMAIN text : text[i] = Word})
Replaced(text) == [i \in DOMAIN text |-> IF text[i] = Word THEN Other ELSE text[i]]

EditFile(a) ==
  /\ Free(a) /\ Changes
  /\ \E file \in Files :
       /\ Count(work[file]) = 1
       /\ work' = [work EXCEPT ![file] = Replaced(@)]
  /\ UNCHANGED <<staged, procs, call>>

-----------------------------------------------------------------------------
(* Bash and Grep: wait_for(communicate()), and after a timeout the kill    *)
(* and five seconds more for what is left in the pipes.                    *)

StartCommand(a) ==
  /\ Free(a)
  /\ \E tool \in {"Bash", "Grep"}, p \in Slots :
       /\ Vacant(p)
       /\ StartProcess(p, "tree", tool = "Bash")
       /\ call' = [call EXCEPT ![a] = [tool |-> tool, at |-> "wait", proc |-> p,
                                       attempts |-> 0]]
  /\ UNCHANGED tree

Retries(a) ==
  /\ call[a].tool = "Bash"
  /\ procs[call[a].proc].code = LauncherFailed
  /\ call[a].attempts < LauncherRetries

(* Bash starts again when the launcher failed, twice at most.              *)
Collect(a) ==
  /\ In(a, "Bash") \/ In(a, "Grep")
  /\ call[a].at = "wait" /\ ~Live(call[a].proc)
  /\ IF Retries(a)
     THEN /\ StartProcess(call[a].proc, "tree", TRUE)
          /\ call' = [call EXCEPT ![a].attempts = @ + 1]
     ELSE Answer(a)
  /\ UNCHANGED tree

TimeOut(a) ==
  /\ In(a, "Bash") \/ In(a, "Grep")
  /\ call[a].at = "wait" /\ Live(call[a].proc)
  /\ Kill(call[a].proc, Windows)
  /\ call' = [call EXCEPT ![a].at = "drain"]
  /\ UNCHANGED tree

(* After a kill the rest of the output is read to its end.                 *)
DrainToTheEnd(a) ==
  /\ In(a, "Bash") \/ In(a, "Grep")
  /\ call[a].at = "drain" /\ ~Live(call[a].proc)
  /\ Answer(a)
  /\ UNCHANGED tree

Drain(a) ==
  /\ In(a, "Bash") \/ In(a, "Grep")
  /\ call[a].at = "drain"
  /\ Answer(a)
  /\ UNCHANGED tree

-----------------------------------------------------------------------------
(* TestRunner: the command in the tree or in a copy, then the regression   *)
(* command.  The copy goes when the call ends in any way.                  *)

Sandbox(a) == IF call[a].copy THEN "copy" ELSE "tree"

StartTests(a) ==
  /\ Free(a)
  /\ \E copy \in BOOLEAN, regression \in {"not asked for", "to come"}, p \in Slots :
       /\ Vacant(p)
       /\ StartProcess(p, IF copy THEN "copy" ELSE "tree", TRUE)
       /\ call' = [call EXCEPT ![a] = [tool |-> "Tests", at |-> "wait", proc |-> p,
                                       copy |-> copy, regression |-> regression]]
  /\ UNCHANGED tree

TestsRead(a) == In(a, "Tests") /\ ~Live(call[a].proc)
Succeeds(a) == call[a].at = "wait" /\ procs[call[a].proc].code = 0

StartRegression(a) ==
  /\ TestsRead(a) /\ Succeeds(a) /\ call[a].regression = "to come"
  /\ StartProcess(call[a].proc, Sandbox(a), TRUE)
  /\ call' = [call EXCEPT ![a].regression = "running"]
  /\ UNCHANGED tree

(* Answered as passed: the last command ended with 0, or it is the         *)
(* regression command and there is no result of it.                        *)
TestsPass(a) ==
  /\ TestsRead(a)
  /\ \/ Succeeds(a) /\ call[a].regression # "to come"
     \/ call[a].at = "drain" /\ call[a].regression = "running"
  /\ Answer(a)
  /\ UNCHANGED tree

(* Answered as failed, as a regression, or as an error.                    *)
TestsFail(a) ==
  /\ TestsRead(a)
  /\ \/ call[a].at = "wait" /\ ~Succeeds(a)
     \/ call[a].at = "drain" /\ call[a].regression # "running"
  /\ Answer(a)
  /\ UNCHANGED tree

(* After the kill the output is read to its end, with no limit.            *)
TestsTimeOut(a) ==
  /\ In(a, "Tests") /\ call[a].at = "wait" /\ Live(call[a].proc)
  /\ Kill(call[a].proc, FALSE)
  /\ call' = [call EXCEPT ![a].at = "drain"]
  /\ UNCHANGED tree

-----------------------------------------------------------------------------
(* GitRevert: status, checkout, status, each an awaited process.           *)

(* A path that is gone, dry_run and a clean tree end the call before the   *)
(* checkout, whatever the target.                                          *)
StartRevert(a) ==
  /\ Free(a) /\ Dirty # {}
  /\ \E target \in DOMAIN Commits, paths \in {Files} \cup {{file} : file \in Files} :
       /\ paths = Files \/ \A file \in paths : work[file] # Absent
       /\ call' = [call EXCEPT ![a] = [tool |-> "Revert", target |-> target, paths |-> paths]]
  /\ UNCHANGED <<tree, procs>>

(* git checkout -- paths takes the files from the index, and git checkout  *)
(* target -- paths from the commit, into the index as well.                *)
Source(target) == IF target = "HEAD" THEN staged ELSE Commits[target]

Checkout(target, files) ==
  /\ work' = [file \in Files |-> IF file \in files THEN Source(target)[file] ELSE work[file]]
  /\ staged' = [file \in Files |-> IF file \in files THEN Source(target)[file]
                                   ELSE staged[file]]

(* It fails when no path is known to its source; a timeout kills it when   *)
(* some of the files are done.                                             *)
Revert(a) ==
  LET known == {file \in call[a].paths : Source(call[a].target)[file] # Absent}
  IN  /\ In(a, "Revert")
      /\ \E done \in SUBSET known : Checkout(call[a].target, done)
      /\ Answer(a)
      /\ UNCHANGED writes

-----------------------------------------------------------------------------
(* The run is cancelled: the call is gone where it awaits, its processes   *)
(* are not.                                                                *)
CancelCall(a) ==
  /\ call[a] # NoCall
  /\ Answer(a)
  /\ UNCHANGED tree

WorkspaceInit ==
  /\ work = Commits["HEAD"] /\ staged = Commits["HEAD"]
  /\ procs = [p \in Slots |-> NoProcess]
  /\ call = [a \in Actors |-> NoCall]
  /\ writes = 0

Waits(a) ==
  \/ Collect(a) \/ TimeOut(a) \/ Drain(a)
  \/ StartRegression(a) \/ TestsPass(a) \/ TestsFail(a) \/ TestsTimeOut(a)

WorkspaceNext ==
  \/ \E p \in Slots : Process(p)
  \/ \E a \in Actors :
       \/ WriteFile(a) \/ EditFile(a)
       \/ StartCommand(a) \/ StartTests(a) \/ StartRevert(a)
       \/ Waits(a) \/ Revert(a) \/ CancelCall(a)

(* An agent's call goes on, and its timeout comes; no process need end.    *)
Fairness == \A a \in Actors : WF_workspaceVars(Waits(a))

WorkspaceSpec == WorkspaceInit /\ [][WorkspaceNext]_workspaceVars /\ Fairness

-----------------------------------------------------------------------------
(* A call of Bash or Grep is answered however its command behaves: the     *)
(* timeout is not waited out by children that hold the pipes.              *)
CommandsAnswered ==
  \A a \in Actors : call[a].tool \in {"Bash", "Grep"} ~> call[a].tool \notin {"Bash", "Grep"}

(* What git_revert.py:5 says of the default target, HEAD, "discards the     *)
(* changes that are not committed": when all of the files it was asked for *)
(* have been checked out, those HEAD knows are as they were committed.     *)
RevertDiscards ==
  [][\A a \in Actors :
       Revert(a) /\ call[a].target = "HEAD" /\ Checkout("HEAD", call[a].paths) =>
         \A file \in call[a].paths :
           Tracked(file) /\ Commits["HEAD"][file] # Absent => work'[file] = Commits["HEAD"][file]]_workspaceVars

(* What git_revert.py:6 says, that new files which git does not track are  *)
(* not reverted: whatever the target, they are left as they are.           *)
UntrackedStay ==
  [][\A a \in Actors, file \in Files :
       Revert(a) /\ ~Tracked(file) => work'[file] = work[file]]_workspaceVars

(* What test_runner.py:4 says of an answer "passed": the command exited    *)
(* with 0, and so did the regression command if there was one.             *)
PassedIsPassed ==
  [][\A a \in Actors : TestsPass(a) => procs[call[a].proc].code = 0]_workspaceVars
=============================================================================
