# KDAgent: specifications, checks and proofs

KDAgent (`src/src/kdagent`, Python) is a terminal coding agent. A user's input
starts a *run*: the agent sends the conversation to a language model, executes
the tool calls of the reply, adds their results, and repeats until a reply asks
for no tools. Around this loop stand a session journal on disk, three layers of
context compaction, permission checks, background subagents, a memory
directory, and an evaluation harness. Everything runs on one asyncio event
loop: there are no threads of the program's own, so an interleaving can happen
exactly where the code awaits, and that is the granularity of the actions here.
Other *processes* are another matter: commands the agent starts, a second
KDAgent in the same directory, and crashes come between any two writes.

This directory holds TLA+ modules translated from that source, the TLC
configurations that check them on small instances, and TLAPS proofs.
`PROJECT.json` maps every definition to the lines it models.

## 1. Inventory

| Component (source) | State | Operations | Correct when | Modules |
|---|---|---|---|---|
| Conversation chain (`engine/conversation.py`, `messages.py`) | list of messages of text, call and result blocks | add user, assistant, results; merge of adjacent same-role user messages; `repair_chain`; `restore` | every request alternates roles, pairs each call with its result, once; repair drops nothing real | `Conversation` |
| Session journal (`sessions/manager.py`, `records.py`) | one JSONL file per session, todos, title | `_flush_last`, `_rewrite_last`, create, resume, delete, expiry | what was flushed can be read back, once; the file follows the memory | `SessionStore`, `Compaction` |
| Agent loop (`engine/agent.py`) | turn, retry counters, stop reason, reply buffers | run, turn, stream, retry, execute batches, ask permission, cancel | bounded effort per turn; a true stop reason; each turn ends, unless a tool or the user's verdict is waited for | `AgentLoop`, `SessionStore`, `ToolGate`, `Streams` |
| Reminders (`engine/agent.py`, `harness/checkpoints.py`) | failure counts, turn of each last reminder | circuit breaker, replan, stale list, step boundary, large change | said for their reason, not repeated within the cooldown, refreshed when due | `Reminders` |
| Context compaction (`context/context_manager.py`, `compactor.py`) | failure budgets, circuit; the summary awaited | preventive, forced, emergency, manual compaction | nothing forgotten, sessions kept apart, pairs not parted, a circuit that follows its budget | `Compaction`, `AgentLoop` |
| Tool result storage (`context/tool_result_handler.py`) | persisted files, replacements | layer 1 (save large), aggregate, layer 2 (summarise) | a replaced result can be read from its session's directory | `ToolResults`, `Compaction` |
| Provider adapters (`engine/llm/`) | stream buffers | stream, payload building, error classes | calls recorded whole or not at all; a request the provider accepts | `Adapters`, `Streams` |
| Background tasks (`subagent/task.py`) | table of tasks, asyncio tasks | launch, adopt, cancel, stop, update, notify | the end of each is told, once, with its true status | `Tasks`, `Delivery` |
| Subagents, worktrees (`subagent/`) | worktree list; named agents with their queues | spawn, fork, name, send a message, isolate, clean up | work in a worktree is reported or removed, never lost; tools kept to those defined; every message handled; a fork's request acceptable | `Tasks`, `NamedAgents`, `ToolGate` |
| Permission (`permission/`) | learned rules and their file, mode | layered decision, learn, reload | no layer that may not be overruled is; a rule learned is the rule applied | `Permission`, `ToolGate` |
| Hooks (`hooks/`) | once-hooks fired | match, veto | a veto holds | `ToolGate` |
| Memory (`memory/`) | notes, index, cache, lock file | create, update, delete, extract, consolidate | index and notes agree; one consolidation at a time, a day apart | `MemoryStore`, `Memory` |
| Tools (`tools/`) | the working tree, processes | read, write, edit, shell, tests, revert | an answer to every command; a revert and a test answer that are what they say | `Workspace` |
| Evaluation (`eval/`), observability (`obs/`) | reports, traces, verdicts | run tasks, judge, repeat, compare | every task counted once, every trace with its own verdict | `Eval` |
| Harness analysis (`harness/detect.py`, ...) | - | match error texts, load rules | the notes on patterns are written like the others | `Memory` |
| Terminal UI (`ui/`) | session shown, dialogs | start runs, cancel, verdicts, `/compact`, `/session`, `/memory` | environment of the above | all |
| MCP (`mcp/`), skills (`skill/`), start-up (`cli.py`, `config.py`) | connected servers; cached instructions | connect, load, wire | - | - |

How they interact. The UI starts `Agent.run` as a worker for *every* input
(`ui/app.py`, `run_agent`, not exclusive). The agent calls the conversation
directly and tells the UI through a callback after each message, on which the
UI makes the session flush. Before each request the agent repairs the chain
and asks the `ContextManager` whether to compact; a compaction awaits a
provider call of its own, then replaces the conversation and rewrites the
session's file. A reply comes through the provider's stream parser; its calls
pass hooks and permission layers, run in batches, and their results pass the
result handler, which may store or summarise them, into the conversation.
`/compact` and the compaction of a resumed session are asyncio tasks beside the
run. `/session new | resume | delete` replaces the agent's conversation at
once, whether a run is active or not. A background task that ends adds a
notice, without a flush, to the conversation the application started with. A
foreground subagent is awaited by the run that called it until a timeout or the
run's cancellation hands it to the task manager. A run that has ended extracts
notes and may start a consolidation in the background.

What is hard here: two runs, or a run and a compaction, between two awaits of
each other; a file that is written by comparing counts of lines with counts of
messages; crashes inside a write that truncates first; three kinds of retry in
one loop with shared counters; a cooldown measured on a clock that restarts;
state computed before an await and used after it; a subagent that ends while
its caller times out, is cancelled, or somebody cleans up its worktree; a lock
file taken in four steps; pipes held open by the children of a killed command;
a permission decision that is asked about, learned from and repeated beside
others; an evaluation repeated over the leftovers of the last. `PROJECT.json`
lists these under `hazards`, each at its line, with the properties that would
catch it going wrong or the reason why none does.

## 2. Modules

| Module | Models | Uses |
|---|---|---|
| `Conversation` | messages, merging, `repair_chain`; operators only | - |
| `SessionStore` | runs adding to the conversation, the journal, crashes, resume | `Conversation` |
| `AgentLoop` | control of a run: turns, retries, budgets, permission, stop reason | - |
| `Reminders` | the reminders a run writes after batches and rounds | - |
| `ToolResults` | storing, summarising and budgeting results; operators only | - |
| `Compaction` | summarising and storing beside runs and session switches | `Conversation`, `ToolResults` |
| `Tasks` | subagents in the foreground and background, their worktrees | `Delivery` (refined) |
| `Delivery` | what delegating promises the main agent: the abstract specification | - |
| `NamedAgents` | agents with a name: their queues, and what a fork begins with | `Adapters`, `Conversation` |
| `Permission` | the five layers as one decision; operators only | - |
| `ToolGate` | calls through hooks, layers, questions, learned rules, batches | `Permission` |
| `MemoryStore` | notes, index and cache; one process's create, update, delete | - |
| `Memory` | who writes notes and when: extraction, consolidation, lock, crashes | `MemoryStore` |
| `Workspace` | file tools, commands and their processes, tests, reverts | - |
| `Adapters` | both stream parsers and both serialisations; operators only | - |
| `Streams` | replies cut, broken, repeated, and the requests after them | `Adapters`, `Conversation` |
| `Eval` | tasks side by side, judging, traces, reports, repeated attempts | - |
| `ConversationProofs` | lemmas on chains and on what the adapters make of them; what repairing twice does | `Adapters`, `Conversation` |
| `SessionStoreProofs`, `CompactionProofs`, `StreamsProofs` | theorems | their module, `ConversationProofs` |
| `AgentProofs` | theorems about `AgentLoop` and `Reminders`, the control of a run | both |
| `ToolsProofs` | theorems about `ToolGate` and `Workspace`, what tools may do and do | both |
| `BackgroundProofs` | theorems about `Memory`, `Tasks` and `NamedAgents`, what goes on beside a run | all three, `ConversationProofs` |
| `EvalProofs` | theorems | its module |
| `MC...` | instances, bounds and symmetry for TLC | |

**Conversation.** A message has a role and a sequence of blocks; a block has a
kind (`text`, `use`, `result`, `placeholder`), a call id and, for texts, the
fragments it was joined from. What a text says is a token (an input, a notice,
a snapshot). `RepairChain` is both passes of `repair_chain`: drop repeated
calls, orphaned and repeated results and the messages they leave empty, then
add a placeholder result for every call still unanswered - at the end of the
chain, as the code does.

**SessionStore.** `conv` is the agent's conversation, `file` the *physical*
lines of the `.jsonl`: a line may be complete, torn (a write was cut), joined
to the next append and unreadable, or cut inside a character, which makes the
reading loop raise. `pc` says where each run is; a run is begun by `StartRun`,
its replies arrive block by block (`StreamBlock`), are repeated
(`RetryTransient`, `RetryTruncated`), end (`EndReply`, `EndEmptyReply`), and
its calls return batch by batch (`FinishBatch`). `StopRun` is `_flush_partial`
on cancellation. What is sent is the chain with or without the reminder that
`_assemble_payload` appends to a copy of it (`AssemblePayload`). `Crash` stops the process between two writes, `CrashInFlush` inside
one; `Resume` reads the lines back, repairs, adds the todo snapshot and, after
a day, the reminder. The history `beside` says what runs that were active
together have done so far: nothing ("no"), been active together ("runs"), or begun a turn
while the calls of another were out ("tools").

**AgentLoop.** One variable per counter of the code; `pc` is the await the run
is suspended in. `BeginTurn` is the head of a turn with its preventive check,
the `Fail...` and `Reply...` actions are the ends of a provider call as
`_loop_iteration_inner` distinguishes them, `Finish...` those of a compaction,
`AskPermission`/`Answer`/`CallReturns`/`EndRound` the tool phase, `UICompact`
a manual compaction beside the run, on the same budgets. History variables
(`calls`, `rounds`, `compactions`, `outcome`) record what happened, so that
the properties can compare it with what the code counted.

**Reminders.** One action per batch and per round, over the counters the agent
keeps across runs. What the code reads from the conversation is what the
conversation shows (`testShown`, `listShown`), which a compaction may take from
it; the histories `idleRounds`, `quiet`, `failedCalls` and `tested` say what
happened, in rounds and calls, on a scale that never restarts. A TodoWrite whose input
cannot be read renews the list by the newest one that can
(`_latest_todo_input`), if the conversation shows any.

**ToolResults, Compaction.** A result is stored beyond the limit of its tool,
else perhaps summarised (by the cost model's comparison), and the batch is then
brought within its budget by storing the largest. `objects` are the
conversation objects in memory (a run keeps the last), `jobs` the compactions
that wait for their summary, each with what it will keep. A summary tells what
the messages it was made from tell; each failure of the summary call leaves out
the oldest ones, recorded in `dropped`. Stored texts are files in the directory
of the handler of the current session. The history `crossed` records that a
session was opened in the middle of a run or a compaction, or that a compaction
ended on a conversation that is no longer the one it read (`Fresh`).

**Tasks, Delivery.** `task` holds one record per subagent (or external task):
`mode` says who waits for it (`foreground`: the calling run; `launched`,
`adopted`: the task manager), `agent` how far its coroutine is, the other
fields are those of `BackgroundTask`, of the Agent call's answer and of its
worktree. Since a coroutine that ends inside `launch` runs `_finalize` before
the loop does anything else, its end and its notice are one action (`Ended`),
while the awaiting call and adopt's watcher are woken in a later one
(`CallerWakes`, `Watch`): `CallerTimesOut`, `MainCancelled`, `Cancel`,
`TaskUpdate` and `RemoveTrees` may come between. `Cancel` may come again and
again, and finalizes a launched task that never began each time. git may fail at each of its
calls (`Removals`). `Delivery` forgets all of this but how far each subagent
is, who has to tell its end, and whether it is told: the call may hand over to
the manager, never the reverse; the end is told once, after it, by the one who
then has to, and again only of a subagent withdrawn before it began. `Tasks!DeliversAsPromised` is `Delivery!Spec` under the mapping
`Stage`, `Owner`, `Told`, and carries, refined, what the status and worktree
bookkeeping hides.

**NamedAgents.** `agent` is the registry: each name's queue, the message being
handled, and the results so far (`_message_loop`: `Take`, `FinishMessage`);
`sent` records what was accepted. `conv` is the conversation forks inherit,
which the main agent goes on changing: it speaks (`Say`), gets replies,
executes their calls batch by batch, one of which may start an agent or send a
message, is cancelled, notified, or leaves for another session. A run of a fork
is a run like any other; what is of its own is how it begins (`ForkRequest`:
the copy of `build_forked_messages`, the empty input, the repair), and that is
serialised with `Adapters` and judged as the provider would.

**Permission, ToolGate.** A command is its segments (verb, options, paths), the
lines after its first, its redirections and whether it parses, and, beside what
the layers see of it, what it really changes; a path is its text, the place
it resolves to and the words the layers look for. As in the code, options are
looked at for `find` alone (`ReadonlyExcludeTokens`). `Check` is the order of
`PermissionChecker`: blacklist and sensitive places, a mode that bypasses the
rest, sandbox, rules (deny before ask before allow), the matrix of the mode.
`ToolGate` takes a reply through partitioning into
batches, hooks before the call, decision, question or the headless verdict of
a subagent, learning (`allow for good` writes the rule file, which a restart
parses again), hooks after. A rule file that cannot be read, or holds no list,
is begun anew by the next learning.

**MemoryStore, Memory.** Note and index line are two writes, the index is read
before it is written, every process has a cache that only its own writes drop.
Two histories serve the properties: `author`, the process that wrote a note
together with its line (a process killed between the two leaves the note to
nobody, `Disowned`), and `excused`, the notes whose line was lost to a failure,
an overlap or the limit. `Memory` adds the jobs that write: extraction at the end of a run,
consolidation behind its gate and lock (looked at, removed, written, read
back), `/memory`, error patterns; processes are killed and restarted, and time
is the set of thresholds it has passed.

**Workspace.** A tool holds the thread until it awaits a process; the file tools
await none, so each is one action. The test runner starts its command
(`StartTests`) and, when that passed, a regression (`StartRegression`), and
tells how they ended (`TestsPass`, `TestsFail`, `TestsTimeOut`). A process may
write, fork a child that keeps its pipes, outlive its call, or never end;
`TimeOut`, `CancelCall` and `Drain` are what the shell, the test runner and
Grep each do about it. Git's index stands between the tree and the commits.

**Adapters, Streams.** A parser is a record; feeding it a line gives the next
parser and its events. `Streams` lets the provider send pieces of several calls
in any order, stop anywhere, and repeat, and follows the events through
`_stream_llm` into the conversation and back into a request of the provider.

**Eval.** A task goes through copy, agent, patch and judging (its own tests, or
left for the Docker harness); traces are marked through the context of each
asyncio task; `Crash` stops the process anywhere, and the next attempt
finds traces and reports of the last, under the same id or another.

## 3. What the runs check

The runs (states: distinct ones TLC finds):

| Run | Instance | States | Shows |
|---|---|---|---|
| `Session` | 2 inputs, in turn or together; without a crash 3 calls, or 2 and a notice; 2 crashes, between or inside writes, or 1 with todos | 658,000 | `RequestWellFormed`, `NothingRepairedAway`, `PlaceholdersTellTruth`, `FileFollowsMemory`, `DurableUncut`, `StoredOnce`, `OnlyLastLineChanges` |
| `AgentLoop` | 4 runs of 2 turns, 2 calls, 1 manual compaction, budgets of 3 | 60,000 | `EffortBounded`, `StopReasonTrue`, `CircuitFollowsBudget`, `Terminates` |
| `Reminders` | 2 runs of 3 rounds of 2 batches, thresholds of 2 | 943,000 | `RemindersSpaced`, `ReplanOnlyWhenStuck` |
| `Compaction` | 2 sessions, 4 items, batches of 2, 2 compactions, 1 switch | 397,000 | `NothingForgotten`, `SessionsApart`, `CutBetweenPairs`, `ResultsReadable` |
| `Tasks` | 2 subagents or external tasks, in two worktrees, or in one and 1 cancellation or retry; or 1 subagent and 3 of these | 175,000 | `DeliversAsPromised`, `EndIsTold`, `StatusTrue`, `WorkIsReported` |
| `ToolGate` | 3 agents, 17 replies of up to 3 calls, 3 hooks, 4 rule files, 2 replies, 1 mode switch | 192,000 | `NeverForbidden`, `AskedOnce`, `DenyStaysInForce` |
| `Memory` | 2 processes, 2 notes, an index of 1 line, 4 events | 924,000 | `NoteIndexed`, `OneConsolidation`, `CreateKeepsOwn`, `DayApart` |
| `Workspace` | 2 agents, 2 files, 2 commits, 1 process, 2 changes | 92,000 | `CommandsAnswered` |
| `Streams` | both providers, 3 streams, 2 calls of 2 pieces | 1,076,000 | `RecordedWhole`, `NeverSilent`, `RequestPaired` |
| `Eval` | 2 tasks side by side, 2 run ids, 2 attempts, 1 trace per task | 2,219,000 | `CountedOnce`, `VerdictsTrue`, `DiffTells` |
| `NamedAgents` | 1 name, 3 messages, 3 calls, 3 turns, 1 notice, 1 switch | 562,000 | `MessagesHandled`, `ForkRequestPaired` |
| `RevertHead` | as `Workspace` | - | that `RevertDiscards` is *violated*: `git_revert.py:5` says "默认 HEAD = 丢弃未提交改动", but a change that is staged survives a revert to HEAD, since the files are taken from the index |

Where one instance cannot hold together what is worth exploring, the `MC` module
says with `Bounded` which smaller instances a run covers in turn: its
specification (`MCSpec`) takes the steps of the module that stay within one of
them.

No run lists a type invariant. Those of `AgentLoop`, `SessionStore`, `Tasks`,
`Compaction`, `Memory`, `Reminders`, `Streams`, `Workspace` and `Eval` stand in the
modules of their proofs and are proved for all instances (`TypeOK`, for `Reminders`
`CountersOK`, for `Memory` `NotesTypeOK`), and so is what the invariants of
`ToolGate` say of its calls and its rule file and `MainInv` of the chain and the
calls of `NamedAgents`; a type error elsewhere shows as a failure of TLC to
evaluate a step.
Each property has, in `PROJECT.json` under `mutants`, a change of the code's
model that a plausible mistake would be, and TLC finds the property violated
with it.

### Where the code and its words part

Besides `RevertHead`, eleven configurations outside the list of runs each check
one property that states what a doc, a comment or a message of the source says,
and each ends with a counterexample. They document the
conditions below, and are to be run when that code is changed.

| Configuration (module) | Property | What the source says | What happens |
|---|---|---|---|
| `TwoRuns` (`MCSessionStore`) | `RunningUnmarked` | `conversation.py:113`: "该工具调用在上次会话中断，未实际执行" | `run_agent` is not exclusive: a second input, while a call of the first run is being executed, repairs the chain, which answers that call with this placeholder; the true result is later dropped as a repeated one |
| `StopReason` (`AgentLoop`) | `CompletedIsComplete` | `agent.py:348`: "根 span=trace.run，记停止原因" | the reason is preset to "completed" and recorded in a `finally`: so is a run that an exception ends |
| `RefreshRounds` (`Reminders`) | `RefreshedAfterRounds` | `checkpoints.py:25`: "连续 N 轮工具活动但 todo 未更新 → 强制刷新" | every *batch* counts as a round (`agent.py:1068`), and one reply may have several |
| `RefreshAcross` (`Reminders`) | `RefreshedWhenDue` | the same, and `checkpoints.py:29`: "距上次注入至少 N 轮才再注入" | the turn begins anew with every run, the turn of the last refresh does not: a refresh that is due is withheld |
| `TestForgotten` (`Reminders`) | `AccusedRightly` | `agent.py:1145`: "判据要求测试通过，但本会话未跑过测试" | the test is looked for in the conversation, and a compaction may have taken it from there |
| `CompactBeside` (`MCCompaction`) | `Remembered` | `compactor.py:7`: "9 部分结构化摘要 + 保留近期原文" | what a run adds while the summary is awaited is neither in the summary nor kept |
| `CompactSwitch` (`MCCompaction`) | `FileAgreesAfter` | `context_manager.py:231`: "替换历史 → 整体重写会话文件（04 §3.5：内存与文件一致）" | the file rewritten is that of the session current by then, not of the one compacted |
| `DenyRules` (`MCToolGate`) | `DenyForbids` | `rules.py:12`: "想禁死一个操作，写在哪一层都禁得死；放宽权限只能改/删 deny" | the sandbox asks about a path outside before the rules are looked at, and a consent is final |
| `ReadOnlyAgents` (`MCToolGate`) | `ReadersOnlyRead` | `runner.py:83`: "机制级只读限制而非仅提示词约束"; `checker.py:44`: "只收录明确无写变体的命令" | `sort -o` and what stands on a second line count as read-only |
| `RevertOther` (`MCWorkspace`) | `UntrackedStay` | `git_revert.py:5`: "untracked 新文件**不回退**" | a checkout from another commit also writes over files git does not track now |
| `Regression` (`MCWorkspace`) | `PassedIsPassed` | `test_runner.py:4`: "passed：命令 exit 0（且回归命令未给或也通过）" | a regression that times out has no result and is taken for one that passed |

Three more disagreements are no property:

- a stored result that the model reads back should be shown to it whole
  (`context/tool_result_handler.py`, its header), but `_exec_one` never tells
  `ReadFile` the session's directory: the text is stored, or summarised, once
  more, and the model is sent to another file (`PersistDirTold` in
  `Compaction`);
- the results of a named agent are said to be visible through `SendMessage` and
  `TaskGet` (`subagent/named.py`, `result_history`); neither shows them;
- the Agent tool without a type and without a name is said to fork the parent's
  conversation (`subagent/agent_tool.py`, its header), but `TaskManager.launch`
  runs it without one: only a fork with a name inherits anything, which is why
  `NamedAgents` and not `Tasks` has `ForkRequest`.

### Conditions

Where the code holds a property only under a condition, the condition is in
the property or in a constant, never in a missing action:

- **Runs beside each other.** A turn that begins while the calls of another run
  are out answers them with placeholders (`TwoRuns`): `NothingRepairedAway`,
  `PlaceholdersTellTruth`, `FileFollowsMemory`, `DurableUncut` and `StoredOnce`
  are about `beside # "tools"`; runs may be active together otherwise.
- **Compaction beside input.** `NothingForgotten`, `SessionsApart` and
  `ResultsReadable` hold until `crossed`; what happens then is in
  `CompactBeside` and `CompactSwitch`.
- **A placeholder at the end.** After a run cancelled between call and result,
  another input, a crash and a resume, the placeholder for the unanswered call
  does not follow it, and a reply of another run may come between as well:
  `RequestWellFormed` is about runs that follow one another
  (`beside = "no"`) before the first crash.
- **Torn writes.** `_rewrite_last` truncates before it writes, and an append
  joins a torn line: `DurableUncut` is about crashes that cut no write.
- **Retries.** The note a retry leaves is taken for the error of the whole
  subagent: `StatusTrue` lets one that ended well after a retry be "failed".
- **The lock.** `OneConsolidation` and `DayApart` except the overlap of two
  processes inside `_acquire_lock`, the one way to hold the lock twice.
- **TestRunner** reads to the end of the pipes after its kill, without a limit:
  `CommandsAnswered` is about `Bash` and `Grep`, `Terminates` about runs whose
  calls return (`left` becomes 0 again and again), and `EndIsTold` and
  `MessagesHandled` about subagents that are not at work for good.
- **A rule file that cannot be read** is begun anew by `learn`, with the learned
  rule alone; the denials in it are gone, and `DenyStaysInForce` grants it, as
  the comment in `learn` announces it.
- **Outside of the roots** the sandbox asks every time, whatever was learned,
  though `agent.py` says of "allow for good" that the same operation passes
  next time: `AskedOnce` is about calls inside.
- **A fork under a text.** A notice, a hook's prompt or a reminder between a
  reply with open calls and their results makes the repair's placeholder come
  too late (`Interposed`); and `ForkRequestPaired` is about OpenAI's form, the
  one `build_forked_messages` names: in Anthropic's, the placeholders of the
  copy stand in a message of the assistant.
- **A fork after a switch of sessions** inherits the conversation the
  application started with, as the notices of tasks go there (`away`).
- **Rejected in bulk.** With Docker, tasks refused by the check of their
  reference patch stay in the list: `DiffTells` is about local judging.

### Bounds, and why they are enough

Two inputs are the least with which something of an earlier run (an unanswered
call, a cancelled reply) meets a later one; three call ids give a batch of
parallel calls next to a later call, the case `_flush_last` was rewritten for.
Two crashes allow one during the recovery of another. `AgentLoop` uses the
code's own limits for the retries and the budgets (3, 2, 3); two turns
distinguish the first from the last and four runs let failures of one run
exhaust the budget in another. In `Session` the third call goes without a crash or a notice,
the second crash with runs that follow one another, without todos, and runs beside
each other with one crash between writes and two calls (`Bounded`): two calls
are enough for one to be out when the other run begins a turn. `Reminders` scales the thresholds down to 2 so
that each is reached, passed, and reached again within three rounds and across
the border of two runs. `Compaction` lets a compaction summarise what an
earlier one summarised, in a session that was left and resumed; `KeepMin = 1`
lets every cut happen that five kept messages would allow in longer
conversations; the budget of a batch is scaled to 46,000 characters (the code
has 200,000) so that a batch of two passes it, with the limits of one result
and the cost model as in the code. A fourth item comes with one compaction or
switch at most, and a second compaction, once paths have crossed, finds two
items at most (`Bounded`): after that only `CutBetweenPairs` says anything.
`Tasks` needs two: subagents share nothing
but their order and the one user, and a foreground one beside a background one
shows every pair of paths; one act lets a cancellation or a retry meet
every state of both, of which only one has a worktree then; three acts on a
single one (`Bounded`) repeat a cancellation before and after its coroutine begins, which is where `Delivery`
allows a second notice (`Withdrawn` in `DeliveredOnce`). The calls of `ToolGate` are chosen one per layer of the
decision, among them a path through a symbolic link, a write split over two
segments of a command, one that does not parse, `sort -o`, `find -delete` and a
command over two lines; one of the four rule files cannot be read. Two replies let a verdict
of the first meet a repetition in the second, before or after a restart.
`Memory` has an index of one line so that the limit of the code (200) is met
by two notes; four events are one more than the longest chain the exceptions
of its properties need (write, crash, restart, write). `Workspace` runs on the
POSIX side (`Windows = FALSE` kills one process, the harder case: its children
live on and hold the pipes). Two streams after a cut one are where a request
can carry what three replies left. `Eval` needs two tasks (a mark of one on the
trace of the other), two ids and two attempts (a comparison, and a leftover
under the same id).

One name is enough for `NamedAgents`: agents share only the conversation, which
they do not write, and the bound on messages; three messages put one before,
one during and one after a run, three calls give two batches and a call left
open, and three turns a reply after a cancelled one.

Symmetry is declared over values the modules only compare for equality (runs,
sessions, processes, names of notes, tasks, run ids), and in no run that checks
liveness. Deadlock checking is off everywhere: the program really stops when
the user gives no more input and the bounds of the environment are used up.

### Fairness

`AgentLoop` claims liveness under `WF_vars(Proceed)`: the event loop resumes a
run whose await has completed, and provider calls end (they have timeouts in
the code). Nothing obliges the user, and no tool has to return: `StartRun`,
`Cancel`, `UICompact` and what moves a call (`CallsMove`: verdicts and tools)
are not under fairness. `Terminates` therefore says that a turn comes to the
end of its run *if* calls are not out for good (`[]<>(left = 0)`): the verdict
is awaited without limit, and so is a test runner's pipe. `Tasks` has weak
fairness per subagent of what the event loop does: it starts a coroutine that
was created and wakes whoever awaits one that ended (`StartCoroutine`, `Watch`,
`CallerWakes`). That a subagent ends is not assumed (`AgentEnds`), as its tools
are those of the main agent: `EndIsTold` says that the end is told or the
subagent is still at work. Timeouts, cancellations and
cleanups are under none: it holds whether or not they happen.
`Workspace` has it for what the loop does about a command (`Waits`: collect,
time out, drain, and the ends of a test), but for
no process: a command need not ever end, which is the case `CommandsAnswered`
is about. `NamedAgents` has it for each agent's loop, which is resumed when a
message waits; that a message's run ends is not assumed but a premise of
`MessagesHandled` (`[]<>~Busy(n)`), as for `Tasks`. The other
specifications state no fairness; their properties are
about what may not happen.

## 4. What is proved

**AgentProofs**, of `AgentLoop`, proves, for every value of the constants allowed by
`AgentLoopAssumption` (every iteration, retry and failure limit), that
`Spec` satisfies `TypeOK`, `EffortBounded`, `StopReasonTrue` and
`CircuitFollowsBudget`. None of the four is inductive. `LoopInv` strengthens
them by

- `EffortInv`: what the three retry counters say about the provider calls made
  so far at each place where another may begin. `EffortBounded` alone says
  nothing about how many retries are left, so a step from the bound could pass
  it; with `calls = truncated + transient + emergency` at every such place the
  bound follows from the limits of the three.
- `ReasonInv`: a run that has not ended still has the preset reason, has made
  one tool round per turn and reaches a later turn from a tool round only. It
  is what makes "completed" and "max-iterations" true when they are recorded.
  `StopReasonTrue` speaks of every way to end, also of the exception, of which
  it says what the code records: the preset "completed".

`LoopInvInit` is the base, `TypeStep`, `EffortStep`, `ReasonStep` and
`CircuitStep` the step, one case per action, `BudgetType` a lemma on the ends
of a compaction; the theorems follow by temporal logic.

**BackgroundProofs**, of `Tasks`, proves `TypeOK`, `DeliveredOnce`, `StatusTrue` and
`WorkIsReported` of `Tasks`, for any number of subagents and of acts. All
four speak of one task at a time, and so does the invariant: `TasksInv` is
`TaskInv` of every record, in four parts.

- `DeliveryInv`: a notice was added exactly if the task was finalized; a
  finalized task's coroutine has ended; one that was launched and is not
  finalized has not. `DeliveredOnce` alone would let a step finalize a task
  whose answer was given, or the reverse. Once is once, but for a task that was
  withdrawn before it began (`Withdrawn`): `cancel` finalizes it, and tells its
  end, each time it is called.
- `StatusInv`: the status is the preset one until the task is finalized, and
  afterwards as `StatusTrue` says.
- `WorkInv`: a worktree with changes is listed; a subagent that never began,
  or was cancelled before it did, has left no changes. It is why an exception
  that leaves the call before the cleanup loses no work.
- `ExternalInv`: an external task has no coroutine.

`ChangeInv` and `AppendInv` reduce a step to the one record it changes,
`CleanedKeeps`, `FinalizedInv` and `EndedInv` treat cleanup and finalization once
for all actions that use them, and `TaskStep` has one case per action.

It also proves the refinement: `Spec => DeliversAsPromised`, that is, `Tasks`
implements `Delivery` under the mapping of section 2, for any number of
subagents. `Allowed(t, u)` says what `Delivery` lets happen to one subagent in a
step from the record `t` to `u`; `ChangePromised` and `NewPromised` lift it to a
step of the whole (`PromisedStep`), `CourseAllowed`, `FinalizedAllowed` and
`EndedAllowed` establish it for a step that changes nothing for the main agent,
for a finalization and for an end. `TasksInv` is needed where the same step of
`Tasks` could otherwise tell twice: that a task about to be finalized has not
been, and that its coroutine ended.

**ToolsProofs**, of `ToolGate`, proves `Spec => []NeverForbidden` for all roots, tools,
agents, replies, hooks and rules, under the assumptions of `ToolGate` (limits are
numbers; ids of hooks differ and only hooks before a call veto). It says of a
call that runs what the layers decide by: no form the blacklist knows; no file
tool that writes to the agent's settings, and no command that *names* them after
a redirection or in a segment of `rm`, `mv` or `cp` (one that changes its
directory first names none); no rule that denies it, unless it was
decided when rules were bypassed or its place is outside of the roots; of a
subagent, none of the tools of the main agent alone, and of a read-only one a
verb of the list in front of each segment and no redirection. That
this list is too wide is `ReadersOnlyRead`, refuted in `ReadOnlyAgents`.
`NeverForbidden` speaks of a call that runs, the decision was made earlier,
perhaps under another mode and with fewer rules. `GateInv` therefore says of
every call that is asked about or runs that it was cleared under the mode
recorded when it was decided (`Cleared`), of every call that runs that no hook
concerns it to veto it (`Unvetoed`), and that no vetoing hook is spent
(`VetoesUnspent`: a once-hook is marked only when its turn comes, and a veto
does not mark it). `AllowingDeniesNothing` is why rules learned meanwhile
cannot turn a cleared call into a denied one; there is one lemma per kind of
step.

For the rule file it proves `DenyStaysInForce` and `AskedOnce`, for all files
whose entries are rules, bad, malformed or broken (`FilesAssumption`: the ways
`_load_entries` can fare with an entry, or with the file). Both compare the rules in memory with what
a restart would read, so `FileInv` relates the two at every moment: a deny in
force is fixed or would be loaded again (`DenyKept`); of a call allowed for good
the entry is in the file, no entry is malformed any more (a learning drops
those), and its rule is in memory unless a bad entry stops the loading
(`LearnedKept`). `AskedOnce` is why the second part has its condition: a bad
entry before the learned one is one of the four reasons to ask again.

**SessionStoreProofs** proves the seven properties of the session run, from
the operators on chains upward. Blocks are compared by kind and id alone, so
most lemmas are about places: where `Concat`, `Selected` and `AppendMessage`
put a block, and hence what they keep of types, calls and results.

- *For any number of runs beside each other*: `TypeOK` (types of chains are
  indexed by the ids given out, `Chains(Ids, Ids)`), and
  `OnlyLastLineChanges`, whatever is repaired and wherever a write is cut. Also
  `PlaceholdersTellTruth` and `NothingRepairedAway`, for any number of crashes:
  both speak of the time before a turn begins while the calls of another run
  are out (the condition of section 3). Until then (`BesideInv`), replies of several
  runs may be under way and calls of one be out, `OnceInv` holds: no call is
  made twice and none answered twice (`Clean`), the replies under way have new
  ids, and the calls that are out are open in the chain.
  On a clean chain `DropInvalidBlocks` is the identity (`CleanIsKept`), so a
  repair only adds, and `NothingRepairedAway` follows. Repairing twice is
  repairing once for every chain, clean or not (`RepairTwice`, in
  `ConversationProofs`).
- *With one run at a time* (`MaxConcurrent = 1`): the four below. The hypothesis
  gives `AloneInv`: a reply under way, and calls that have not returned, belong
  to the only active run. For runs beside each other the run `Session` checks
  them under their conditions.
- *The file*: `DurableUncut` and `FileFollowsMemory`, by `StoreInv`. `_flush_last` counts lines and
  messages and does not compare them, so the invariant has to say that the
  counts stand for the contents. As long as no write was cut: every line can be
  read and no call or result stands in two (`Whole`); what was logged is in a
  line; and while the process is up, line i is message i, as it is or as it was
  before it grew (`Follow`), and no call is in memory alone (`Sound`, which
  keeps the next flush from writing one again). Both are proved as
  they are checked, `FileFollowsMemory` as long as no write was cut: then it is
  no longer true.
- *The file after cut writes too*: `StoredOnce`, by `FileInv`.
  Line i may now stand for no message or for another one, because a bad line is
  skipped when the file is read and a repair adds messages that were never
  written; a flush still writes the messages from the number of the lines on.
  The invariant says that what it may write stands in no other line: `Beyond`
  now, `Answered` (a call in memory with its result in the file has the result
  in memory) also once results are added, and `ShortIfTorn` that behind a line
  cut short no two messages are written at once, since the first would be lost
  in that line and a later flush start at the wrong message. What is read back
  fits (`ReadBackFits`) by counting: it is shorter than the file, or every line
  was good and every message is in the place of its line.
- *Until the first crash*: `RequestWellFormed`, by `ShapeInv`, which holds while
  `crashes = 0`: every call but those of the last message that makes any is
  answered in the message after it, in full; and where a run is about to send,
  the chain ends with the user and nothing is open (`ShapedAnswered` makes a
  request of that). With a crash it is false, by the placeholder at the
  end of section 3.

**CompactionProofs** proves `TypeOK` and `CutBetweenPairs` whatever the user does
beside a run or a compaction: what a compaction keeps never begins with a result
(`Separate`), because `_recent_keep` moves the cut back before one, and in a chain
whose results stand right after their calls nothing else can be parted.

`NothingForgotten`, `SessionsApart` and `ResultsReadable` are proved as they are
checked, for any number of sessions, items, compactions and switches, the user
typing beside runs and compactions: `KeptAlways == Spec => [](~crossed => Kept)`.
The condition is the one of section 3. None of the three is inductive; the
invariant, `Kept`, was first checked by TLC. Its parts:

- `Lone`: there is one conversation object, that of the current session;
  `JobsFit`: every compaction that awaits its summary is of this conversation,
  and the run awaits at most one of them. A compaction that ends on the
  conversation it read puts its outcome in the place of the same messages and
  loses nothing; one that ends on another sets `crossed`.
- `Chained`: the file of every session, and the conversation, hold no call and no
  result twice and every result right after its call (`Placed`), say the same,
  message by message, but for a last message that says nothing yet (`Twin`), and
  no call has a result in one and a placeholder in the other (`Apart`). With it a
  repair at a resume adds placeholders and takes nothing (`Mended`), and a switch
  of sessions finds what the conversation said in the file.
- `BatchFits`: the calls of a batch under way are those of the last message,
  answered nowhere; its stored texts are in the current session's directory.
- `Heard`: what a session was told is in its file or was left out by a retried
  summary (`dropped`); the induction step is that a summary and what is kept tell
  what the whole chain told (`Condensed`).
- `Backed`: what the file shows shortened is stored where the session's handler
  reads. The budget of a batch is a recursion that shortens one result at a time;
  `Shortened` keeps places, ids and texts (`SameResults`).

**StreamsProofs** proves `RecordedWhole`, `NeverSilent` and `RequestPaired` for any
number of pieces, calls and requests, both providers, and lines in any order the
model lets a provider write them. The invariant, `StreamsInv`, has two halves:

- *What was read is what was written.* `ReplyInv` says, for each provider, which
  reply its parser and the events gathered so far stand for: in the OpenAI form
  the entry of a call holds the pieces sent of it and nothing is flushed before
  the reply stops (`OpenAIInv`); in the Anthropic form the calls before the open
  one were told already, whole, and the open block holds its pieces
  (`AnthropicInv`). When the reply stops, the calls that pass are the first of
  every id among the named ones; one that is not whole raises the error before
  any reply with calls can be recorded. `NeverSilent` follows from the same
  correspondence: a cut, or a named call, leaves an event or spent tokens.
- *What is sent is paired.* `ChainInv` says what the conversation is at each
  place of the run: one `RepairChain` makes settled (`RepairSettles`), or settled
  already while a stream is under way, so that a request sent again without a
  repair, after a cut or a broken connection, is paired too. `Settled` is: roles
  alternate in the sense of the code, no call or result twice, no call open, the
  user last. `SettledIsPaired` turns a settled chain into a paired request in both
  forms; for the OpenAI one, where a message becomes several items, from where
  each message's items lie in the request (`ConcatLaid`).

**AgentProofs**, of `Reminders`, proves `CountersOK`, `ReplanOnlyWhenStuck` and
`RemindersSpaced` for all thresholds (`RemindersAssumption`: positive numbers).
The properties speak of rounds begun and calls that failed, the code of turns and
counters. `Since` says what the turn kept for a reminder tells of the rounds
begun since (`AgeInv`): the cooldown is over, or the code's distance in turns is at
most the number of those rounds. The turn that begins anew with each run makes
the distance smaller, never larger, so that it may withhold a reminder but not
repeat one too soon. `StuckInv` bounds what the breaker's openings and the
failures counted stand for by the failures in a row.

**BackgroundProofs**, of `Memory`, proves `NoteIndexed`, `OneConsolidation`, `DayApart` and
`CreateKeepsOwn` for any processes, notes and index limit (`None` and `Gone` are
no processes: `ProcsAssumption`).

- `LockInv` carries the lock: as long as no overlap inside the acquiring
  happened (`~shared`), at most one process is between looking and claiming,
  a process that consolidates is the one in the lock and nobody acquires
  beside it, and a done consolidation keeps the lock young (`AloneInv`).
- `OwnNotesListed`: a cache, once there, lists every note its process wrote
  but the one being written. It is what makes `CreateKeepsOwn` true of a check
  against a cache that other processes do not drop.
- `RemovedExcused` and `NoteIndexed` go together: a line that is taken from a
  list read earlier was the note's only one, so the note must be gone, excused,
  or about to have its line written. `Without`, the recursive removal of a
  name's lines, is treated by induction.

**BackgroundProofs**, of `NamedAgents`, proves `ForkRequestPaired` for any names,
messages, calls, turns and notices. The property looks at one moment, when a
message is taken, and the main run may be anywhere; `MainInv` says what holds of
the conversation everywhere: repairing it gives a request (`SoundChain`), it is
one while a reply is awaited (`Settled`), and the calls that run are open in it,
each once (`Awaited`), so that their results can be added. It is stated of the
time before a switch of sessions; afterwards only notices reach the chain, which
leave it sound. From a sound chain there are three ways to a fork's request:

- no call is open (`ForkOfAnswered`): the task is one more message of text;
- the chain ends with a reply (`ForkOfReply`): its calls became placeholders in
  the copy, where they stand in a message of the assistant and answer calls the
  copy no longer makes, so the repair takes them away, and the reply with them
  if it has no text;
- some calls have results and some have not (`ForkOfOpen`): the task follows the
  results as a message of its own, and the placeholders follow the task. The
  chain is no request as it stands (two messages of the user in a row, the
  answers in both), but `RequestSplit` shows that the adapter makes of the two
  what it makes of one, as the first has no text (`~Interposed`), and the chain
  with one message is settled (`RepairSettles`). It is the case in which the
  text before the answers, excluded by `Interposed`, would part them.

**ToolsProofs**, of `Workspace`, proves `TypeOK` for any agents, files, texts and
commits (`WorkspaceAssumption`: texts are sequences of words, a missing file is
no text, HEAD is a commit): in particular that an edit turns a text into a text,
which is an induction over its words, and that a checkout leaves every file a
text or missing.

**EvalProofs** proves `CountedOnce`, `VerdictsTrue` and `DiffTells` for any
tasks, workers, run ids and attempts. All three look at saved reports; the
invariant follows a task's entry to them. `EntriesShape`: an entry is one
verdict, or a second after a backfill that raised. `StageInv` and `EntryInv` say
at which stage it is there already and at which not yet, which is why no path
counts a task twice; `CountInv` that the counters of the report are the
cardinalities of what they claim to count; `TraceInv` that the traces of this
attempt are marked with their own task and say what its entry says;
`ReportInv` that a report of local judging has every task not refused.

*Induction.* The library's induction theorems take an operator and cannot be
instantiated by the provers. `Induction`, proved in `ConversationProofs` and in
`ToolsProofs` from the well-foundedness of `<`, takes a *set* of numbers
instead: with it the recursive functions of the models (`Concat`, `Selected`,
`Without`, the budget of a batch) are proved about for every input. It does not
help with the folds and selections of the community modules, whose definitions
choose through `LAMBDA`s that no backend accepts; the modules that are proved
about use `Concat` and `Selected` of `Conversation` in their place.

Only model-checked: the liveness properties `Terminates`, `EndIsTold`,
`CommandsAnswered` and `MessagesHandled` (the prover has no support for
fairness and `ENABLED`).

## 5. Not modelled

- **MCP** (`mcp/`): connecting and registering follow the library's protocol,
  which is not in the source.
- **Skills** (`skill/`), **start-up** (`cli.py`, `config.py`): files read,
  options parsed, objects wired; nothing is done in an order that matters.
- **Of named agents**: their worktrees, which nobody cleans up; compactions of
  the conversation they inherit (`Compaction` checks that a cut parts no pair);
  the truncation feedback of a reply, which leaves the conversation as a reply
  followed by an input does; the end of the process, which ends them all.
- **A crash inside the rewrite after a compaction.** It needs the physical
  lines of `SessionStore` under the histories of `Compaction`, too large to be
  explored together.
- **The Docker harness** itself: what it makes of an id it has seen is outside
  the source; `Eval` takes each task's verdict from it as it comes.
- Of the modelled components: titles, listing and expiry of sessions; hooks of
  session events and the commands hooks start; token counts of histories (a
  compaction may happen whenever the code would ask); HTTP status codes and
  usage counts; shell text, reduced to the features the layers look for;
  wording of prompts, reminders, notes and reviews; spans and the calibration
  of the cost model, which only read what was logged. `Tasks` takes worktrees
  to be created without error and sees of a worktree what `has_changes` sees;
  what a result says is abstracted to whether it names a kept worktree.

What would add most next: a crash inside the rewrite after a compaction.
