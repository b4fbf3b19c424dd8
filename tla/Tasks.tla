------------------------------- MODULE Tasks -------------------------------
(***************************************************************************)
(* Subagents in the foreground and in the background (subagent/task.py,    *)
(* subagent/agent_tool.py) and the worktrees some of them work in          *)
(* (subagent/worktree.py).  The main run awaits a foreground subagent; on  *)
(* a timeout, or when the user cancels the run, TaskManager adopts it.     *)
(* What a subagent does is left to it: it works, and comes to an end.      *)
(***************************************************************************)
EXTENDS Integers, Sequences

CONSTANTS MaxTasks,     \* bound: subagents and external tasks
          MaxActs       \* bound: cancels and retries, together

ASSUME TasksAssumption == {MaxTasks, MaxActs} \subseteq Nat

VARIABLES task,      \* the subagents and tasks, in the order of their start
          acts       \* counter of the calls of cancel and the retries

taskVars == <<task, acts>>

-----------------------------------------------------------------------------
(* A subagent: its mode, how far its coroutine is, whether it was asked in *)
(* time to stop, its BackgroundTask's status, whether that was finalized   *)
(* and how often announced, whether TaskUpdate changed it; what its Agent  *)
(* call returned; its worktree, whether WorktreeManager lists it, and whether   *)
(* the result it ended with says that it is kept; history: whether the     *)
(* subagent left changes in it that git sees on its branch.                *)
NewTask(mode, isolated) ==
  [mode |-> mode, agent |-> "created", asked |-> FALSE,
   status |-> "running", final |-> FALSE, notices |-> 0, updated |-> FALSE,
   answer |-> IF mode = "foreground" THEN "waiting" ELSE "started",
   tree |-> IF isolated THEN "clean" ELSE "none", listed |-> isolated, told |-> FALSE,
   worked |-> FALSE]

InProgress == {"created", "running", "retrying"}
Working == InProgress \ {"created"}
Background == {"launched", "adopted"}
Change(i, outcomes) == \E t \in outcomes : task' = [task EXCEPT ![i] = t]

MayAct == acts < MaxActs

-----------------------------------------------------------------------------
(* WorktreeManager.remove after a look for changes: git may refuse to      *)
(* remove the directory, or have removed it and refuse to delete the       *)
(* branch; either way the worktree stays listed.                           *)
Removals(t) == {t, [t EXCEPT !.tree = "gone"],
                   [t EXCEPT !.tree = "gone", !.listed = FALSE]}

(* Mutant: removed without a look for changes.                            *)
CleanedBlindly(t) ==
  IF t.tree = "none" THEN {t}
  ELSE IF ~t.listed THEN {[t EXCEPT !.told = TRUE]}
  ELSE {[r EXCEPT !.told = r.listed] : r \in Removals(t)}

(* auto_cleanup and the suffix its callers add: a worktree with changes is *)
(* kept, and so is one that cannot be looked at or removed.                *)
Cleaned(t) ==
  IF t.tree = "none" THEN {t}
  ELSE IF ~t.listed \/ t.tree = "changed" THEN {[t EXCEPT !.told = TRUE]}
  ELSE {[r EXCEPT !.told = r.listed] : r \in Removals(t)}

(* _finalize: status, cleanup, notice.                                     *)
Finalized(t, status) ==
  {[c EXCEPT !.status = status, !.final = TRUE, !.notices = @ + 1] : c \in Cleaned(t)}

(* _extract_result takes whatever error the agent reported last for the    *)
(* end of its run, also the note that a call is being retried.             *)
StatusOf(agent) == IF agent = "ok" THEN "completed" ELSE "failed"

(* The coroutine ends; launch's wrapper finalizes in the same step, while  *)
(* adopt's watcher and the awaiting call are woken by it.                  *)
Ended(t, how) ==
  LET e == [t EXCEPT !.agent = how]
  IN  IF t.mode = "launched" THEN Finalized(e, StatusOf(how)) ELSE {e}

-----------------------------------------------------------------------------
(* The Agent tool.  It is not concurrency-safe, so that a run calls no     *)
(* other tool while it awaits a subagent; but another run may.             *)
MayCall == Len(task) < MaxTasks

Launch(isolated) ==
  /\ MayCall /\ task' = Append(task, NewTask("launched", isolated))
  /\ UNCHANGED acts

Foreground(isolated) ==
  /\ MayCall /\ task' = Append(task, NewTask("foreground", isolated))
  /\ UNCHANGED acts

(* The awaiting call is resumed with the subagent done: its result, or its *)
(* exception, which passes the cleanup by.                                 *)
CallerWakes(i) ==
  /\ task[i].answer = "waiting" /\ task[i].agent \notin InProgress
  /\ IF task[i].agent = "raised"
     THEN Change(i, {[task[i] EXCEPT !.answer = "error"]})
     ELSE Change(i, {[c EXCEPT !.answer = "result"] : c \in Cleaned(task[i])})
  /\ UNCHANGED acts

Adopt(i, answer) ==
  /\ Change(i, {[task[i] EXCEPT !.mode = "adopted", !.answer = answer]})
  /\ UNCHANGED acts

CallerTimesOut(i) ==
  /\ task[i].answer = "waiting" /\ task[i].agent \in InProgress
  /\ Adopt(i, "started")

(* Mutant: a subagent that is done already is not adopted.                *)
CancelledUnlessDone(i) ==
  /\ task[i].answer = "waiting"
  /\ IF task[i].agent \in InProgress THEN Adopt(i, "none")
     ELSE /\ Change(i, {[task[i] EXCEPT !.answer = "none"]})
          /\ UNCHANGED acts

(* The user cancels the main run: the call is adopted, done or not.        *)
MainCancelled(i) == task[i].answer = "waiting" /\ Adopt(i, "none")

-----------------------------------------------------------------------------
(* The subagent.  Its start fails when the client of its model cannot be   *)
(* made; a cancellation it has begun to run with is swallowed by Agent.run *)
(* and ends it as if it were done.                                         *)
StartCoroutine(i) ==
  /\ task[i].agent = "created" /\ task[i].mode # "external"
  /\ \/ Change(i, {[task[i] EXCEPT !.agent = "running"]})
     \/ Change(i, Ended(task[i], "raised"))
  /\ UNCHANGED acts

Work(i) ==
  /\ task[i].agent \in Working /\ task[i].tree = "clean"
  /\ Change(i, {[task[i] EXCEPT !.tree = "changed", !.worked = TRUE]})
  /\ UNCHANGED acts

(* A transient error of the provider is reported and retried.              *)
Retry(i) ==
  /\ MayAct /\ acts' = acts + 1
  /\ task[i].agent = "running"
  /\ Change(i, {[task[i] EXCEPT !.agent = "retrying"]})

AgentEnds(i) ==
  /\ task[i].agent \in Working
  /\ \/ Change(i, Ended(task[i], IF task[i].agent = "running" THEN "ok" ELSE "okAfterRetry"))
     \/ ~task[i].asked /\ Change(i, Ended(task[i], "error"))
  /\ UNCHANGED acts

-----------------------------------------------------------------------------
(* TaskManager.                                                            *)

(* Mutant: a request to cancel is forgotten when the result came.         *)
WatchResult(i) ==
  /\ task[i].mode = "adopted" /\ ~task[i].final /\ task[i].agent \notin InProgress
  /\ Change(i, Finalized(task[i], StatusOf(task[i].agent)))
  /\ UNCHANGED acts

(* adopt's watcher; a task that was asked to stop is a cancelled one, also *)
(* if the subagent returned.                                               *)
Watch(i) ==
  /\ task[i].mode = "adopted" /\ ~task[i].final /\ task[i].agent \notin InProgress
  /\ Change(i, Finalized(task[i],
                 IF task[i].asked THEN "failed" ELSE StatusOf(task[i].agent)))
  /\ UNCHANGED acts

(* A cancelled subagent has not begun, whether it was launched or adopted. *)
Begun(t) == t.agent \notin {"created", "cancelled"}

Asked(t) == [t EXCEPT !.asked = @ \/ ~t.final,
                      !.agent = IF Begun(t) THEN @ ELSE "cancelled"]

(* Mutant: launch's cancel finalizes whether the coroutine runs or not.   *)
CancelAndFinalize(i) ==
  /\ MayAct /\ acts' = acts + 1
  /\ task[i].mode \in Background
  /\ LET t == Asked(task[i])
     IN  Change(i, IF t.mode = "adopted" THEN {t} ELSE Finalized(t, "failed"))

(* BackgroundTask.cancel: a coroutine that has not begun never will, and   *)
(* launch's cancel finalizes in its stead, once more with every call;      *)
(* adopt's leaves it to the watcher, whom the cancelled coroutine wakes.   *)
Cancel(i) ==
  /\ MayAct /\ acts' = acts + 1
  /\ task[i].mode \in Background
  /\ LET t == Asked(task[i])
     IN  Change(i, IF t.mode = "launched" /\ ~Begun(t) THEN Finalized(t, "failed") ELSE {t})

TaskCreate ==
  /\ Len(task) < MaxTasks
  /\ task' = Append(task, NewTask("external", FALSE))
  /\ UNCHANGED acts

(* TaskUpdate takes the id of any task.                                    *)
TaskUpdate(i) ==
  /\ task[i].mode # "foreground"
  /\ \E status \in {"completed", "failed"} :
       Change(i, {[task[i] EXCEPT !.status = status, !.updated = TRUE]})
  /\ UNCHANGED acts

-----------------------------------------------------------------------------
(* The user: /worktree remove, or cleanup of those grown old, whose        *)
(* subagent may still be running.                                          *)
RemoveTrees ==
  /\ task' \in {s \in [DOMAIN task -> UNION {Removals(task[i]) : i \in DOMAIN task}] :
                  \A i \in DOMAIN task :
                    s[i] \in IF task[i].listed /\ task[i].tree # "changed"
                             THEN Removals(task[i]) ELSE {task[i]}}
  /\ UNCHANGED acts

-----------------------------------------------------------------------------
TasksInit == task = <<>> /\ acts = 0

(* What the event loop does of itself.                                     *)
Proceed(i) == StartCoroutine(i) \/ Watch(i) \/ CallerWakes(i)

TasksNext ==
  \/ \E isolated \in BOOLEAN : Launch(isolated) \/ Foreground(isolated)
  \/ TaskCreate \/ RemoveTrees
  \/ \E i \in DOMAIN task :
       \/ Proceed(i) \/ AgentEnds(i) \/ Work(i) \/ Retry(i) \/ CallerTimesOut(i) \/ MainCancelled(i)
       \/ Cancel(i) \/ TaskUpdate(i)

(* Coroutines that can go on are resumed.  That a subagent comes to an end *)
(* is not assumed: one of its tools may never return.                      *)
Fairness ==
  \A i \in 1..MaxTasks : WF_taskVars(i \in DOMAIN task /\ Proceed(i))

TasksSpec == TasksInit /\ [][TasksNext]_taskVars /\ Fairness

-----------------------------------------------------------------------------
(* Properties.                                                             *)

TaskType ==
  [mode : {"foreground", "launched", "adopted", "external"},
   agent : InProgress \cup {"ok", "okAfterRetry", "error", "raised", "cancelled"},
   status : {"running", "completed", "failed"},
   answer : {"waiting", "started", "none", "result", "error"},
   tree : {"none", "clean", "changed", "gone"},
   notices : Nat, asked : BOOLEAN, final : BOOLEAN, updated : BOOLEAN,
   listed : BOOLEAN, told : BOOLEAN, worked : BOOLEAN]

(* Every variable has its type, and a call is answered with a result       *)
(* exactly as long as its subagent is no task of TaskManager's.            *)
TypeOK ==
  /\ task \in Seq(TaskType) /\ Len(task) <= MaxTasks
  /\ acts \in 0..MaxActs
  /\ \A i \in DOMAIN task :
       task[i].mode = "foreground" <=> task[i].answer \in {"waiting", "result", "error"}

(* How often the end of a subagent came to the main agent.                 *)
Answered(t) == t.answer \in {"result", "error"}
Deliveries(t) == t.notices + (IF Answered(t) THEN 1 ELSE 0)

(* The end of a subagent is told once, as the result of its call or as a   *)
(* notice, whichever of completion, timeout and cancellation comes first,  *)
(* and not before it has ended.  One that was launched and cancelled       *)
(* before it began is told of with each further cancel.                    *)
Withdrawn(t) == t.mode = "launched" /\ t.agent = "cancelled"

DeliveredOnce ==
  \A i \in DOMAIN task :
    /\ Deliveries(task[i]) <= 1 \/ Withdrawn(task[i])
    /\ Deliveries(task[i]) >= 1 => task[i].agent \notin InProgress

(* It is told at all: adopt's watcher is the only one to finalize and must *)
(* not be lost (task.py:223), and no race may leave a task running whose   *)
(* subagent has ended or was never begun.                                  *)
EndIsTold ==
  \A i \in 1..MaxTasks :
    (i \in DOMAIN task /\ task[i].mode # "external")
      ~> (i \in DOMAIN task /\ (Deliveries(task[i]) >= 1 \/ task[i].agent \in Working))

(* A final status that TaskUpdate did not write is how the subagent ended; *)
(* one adopted and asked to stop counts as cancelled, whatever it returned *)
(* (task.py:217).                                                          *)
StatusTrue ==
  \A i \in DOMAIN task : LET t == task[i] IN
    t.mode \in Background /\ ~t.updated =>
      /\ t.status = "running" <=> ~t.final
      /\ t.status = "completed" => t.agent = "ok" /\ ~(t.mode = "adopted" /\ t.asked)
      /\ t.status = "failed" => t.agent # "ok" \/ t.asked

(* A worktree in which a subagent left changes is there for good, listed   *)
(* for review, and the result the subagent ended with says so              *)
(* (agent_tool.py:252).                                                    *)
WorkIsReported ==
  \A i \in DOMAIN task : LET t == task[i] IN
    /\ t.worked => t.tree = "changed"
    /\ t.worked /\ Deliveries(t) >= 1 => t.listed /\ t.told

(* What the module promises of every subagent (Delivery), each of which is *)
(* as far as its coroutine is; its call answers for it until TaskManager   *)
(* does.  An external task has no subagent.                                *)
StageOf(t) == IF t.mode = "external" THEN "none"
              ELSE IF t.agent = "created" THEN "waiting"
              ELSE IF t.agent \in Working THEN "working"
              ELSE IF Withdrawn(t) THEN "withdrawn" ELSE "ended"

OwnerOf(t) == IF t.mode = "external" THEN "nobody"
              ELSE IF t.mode = "foreground" THEN "call" ELSE "manager"

ToldOf(t) == CASE Deliveries(t) = 0 -> "not"
               [] Deliveries(t) = 1 -> IF Answered(t) THEN "result" ELSE "notice"
               [] OTHER -> "again"

Stage == [i \in 1..MaxTasks |-> IF i \in DOMAIN task THEN StageOf(task[i]) ELSE "none"]
Owner == [i \in 1..MaxTasks |-> IF i \in DOMAIN task THEN OwnerOf(task[i]) ELSE "nobody"]
Told == [i \in 1..MaxTasks |-> IF i \in DOMAIN task THEN ToldOf(task[i]) ELSE "not"]

Promised == INSTANCE Delivery WITH
  Ids <- 1..MaxTasks, stage <- Stage, owner <- Owner, told <- Told

(* Completion, timeout, cancellation of the run and of the task, in any    *)
(* order: every step is one that Delivery allows, so that the end of what  *)
(* began is told at most once, by the call or by TaskManager, not before.  *)
DeliversAsPromised == Promised!Spec
=============================================================================
