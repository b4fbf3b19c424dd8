-------------------------------- MODULE Eval --------------------------------
(***************************************************************************)
(* An evaluation: EvalRunner (eval/runner.py) works on the tasks of a      *)
(* file, several at a time, judges each by its tests or leaves them all to *)
(* the Docker harness (eval/docker_judge.py), puts the verdicts into the   *)
(* traces the agents left (eval/trace_store.py, obs/telemetry.py), and the *)
(* command (eval/cli.py) saves the report, which eval/report_diff.py later *)
(* compares with another run's.  The process may go down at any point and  *)
(* the evaluation be run again, under the same run id or another; traces   *)
(* and reports of earlier attempts are still there.                        *)
(***************************************************************************)
EXTENDS Integers, Sequences, FiniteSets, Functions

CONSTANTS Tasks,
          RunIds,
          Workers,     \* --workers
          MaxTraces,   \* bound: traces of one task (its agent's, its subagents')
          MaxAttempts  \* bound: times the evaluation is started

ASSUME EvalAssumption ==
  /\ Tasks # {} /\ IsFiniteSet(Tasks)
  /\ RunIds # {}
  /\ Workers \in Nat \ {0}
  /\ {MaxTraces, MaxAttempts} \subseteq Nat

VARIABLES phase,    \* where EvalRunner.run is
          runId,    \* report.run_id
          docker,   \* the harness judges
          valid,    \* the tasks with env_valid
          stage,    \* where each task is
          marks,    \* eval.task_id as the context of each task has it
          patch,    \* EvalTask.model_patch
          entries,  \* the task's entries in report.resolved and report.failed
          listed,   \* report.tasks
          counted,  \* metrics.total and metrics.resolved
          traces,   \* the files under obs/traces
          reports,  \* the report.json of each run id, if it has one
          attempt

setup == <<runId, docker, valid>>
report == <<entries, listed, counted>>
vars == <<phase, setup, stage, marks, patch, report, traces, reports, attempt>>

FailureKind == {"empty_patch", "not_located", "wrong_fix", "regression",
                "harness_fault", "constraint_conflict"}
NoTask == "no task"
NoVerdict == "no verdict"
NoReport == {}
Results == {"none", "pass", "fail"}

(* The reference patch of a task: none, a text that is no patch, one that  *)
(* applies to the base commit, one that does not or raises.                *)
GoldPatches == {"none", "text", "applies", "stale"}
GoldCheck(gold) == gold # "stale"
GoldValid(gold) == {t \in Tasks : GoldCheck(gold[t])}

(* What differs from its one commit in the copy of a task: nothing when it *)
(* is sealed; then its dependencies may be installed there, wholly, in     *)
(* part or not at all, and the agent changes what it likes.  The patch     *)
(* leaves the directories of the runtime out.                              *)
SealCopy == {}
InstallRepoDeps(copy) == {copy \cup installed : installed \in SUBSET {"runtime"}}
ExtractPatch(copy) == copy \ {"runtime"}
Patches == {ExtractPatch(copy \cup edited) :
              copy \in InstallRepoDeps(SealCopy), edited \in SUBSET {"runtime", "tests", "code"}}

-----------------------------------------------------------------------------
(* Verdicts.                                                               *)

Classify(produced, located, constraint, passed, error) ==
  IF error THEN "harness_fault"
  ELSE IF produced = {} THEN "empty_patch"
  ELSE IF passed = "pass" THEN "harness_fault"
  ELSE IF "tests" \in produced THEN (IF constraint THEN "constraint_conflict" ELSE "regression")
  ELSE IF located THEN "wrong_fix" ELSE "not_located"

(* A task with tests is judged by them, one without by its likeness to the *)
(* reference patch (gold_similarity).                                      *)
Judged(f2p, p2p, similar, kind) ==
  IF f2p = "pass" THEN (IF p2p = "fail" THEN "regression" ELSE "resolved")
  ELSE IF f2p = "none" /\ similar THEN "resolved" ELSE kind

KindsOf(produced, f2p, errors) ==
  {Classify(produced, located, constraint, f2p, error) :
     located \in BOOLEAN, constraint \in BOOLEAN, error \in errors}

LocalVerdicts ==
  {Judged(f2p, p2p, similar, kind) :
     f2p \in Results, p2p \in Results, similar \in BOOLEAN,
     kind \in UNION {KindsOf(produced, f2p, BOOLEAN) : produced \in Patches, f2p \in Results}}

(* The harness tells resolved, error, empty or nothing of a task.          *)
HarnessVerdicts(produced) ==
  {"resolved", "harness_fault", "empty_patch"} \cup KindsOf(produced, "fail", {FALSE})

-----------------------------------------------------------------------------
(* Traces.                                                                 *)

(* JsonlExporter.export_trace_header, with the attributes of the context   *)
(* the agent runs in.                                                      *)
TraceOf(t, n) ==
  [task |-> t, n |-> n, attempt |-> attempt, run |-> runId, mark |-> marks[t],
   verdict |-> NoVerdict, whole |-> TRUE]
Traced(t) == {x \in traces : x.task = t /\ x.attempt = attempt}

(* Mutant: one value for all tasks, as before the context variable.        *)
MarkAll(t) == [x \in Tasks |-> t]
SetTraceAttributes(t) == [marks EXCEPT ![t] = t]

ResetTraceAttributes(t) == [marks EXCEPT ![t] = NoTask]

(* backfill_verdict reads every file, whichever task it is of: one that    *)
(* does not decode raises, after some of the others were written.          *)
Undecodable == \E x \in traces : ~x.whole
Backfill(t, outcome, written) ==
  {IF x \in written /\ x.run = runId /\ x.mark = t THEN [x EXCEPT !.verdict = outcome] ELSE x : x \in traces}

(* load_traces: what a review finds of a task, files that do not read left *)
(* out.                                                                    *)
LoadOne(x) == x.whole
LoadTraces(r, t) == {x \in traces : LoadOne(x) /\ x.run = r /\ x.mark = t}

-----------------------------------------------------------------------------
(* The report.                                                             *)

Reported(t, verdicts) == [entries EXCEPT ![t] = @ \o verdicts]
Count(outcome) == [counted EXCEPT !.resolved = @ + (IF outcome = "resolved" THEN 1 ELSE 0)]

(* Mutant: a task that failed is left for the harness to judge as well.    *)
StillListed(t) == listed
(* _safe_task: a task that raised is judged no further.                    *)
Unlisted(t) == listed \ {t}

(* The verdict of a task goes into the report and then into its traces; if *)
(* that raises, _safe_task reports the task once more.                     *)
Verdict(t, outcome) ==
  /\ counted' = Count(outcome)
  /\ \/ /\ ~Undecodable
        /\ entries' = Reported(t, << outcome >>)
        /\ traces' = Backfill(t, outcome, traces)
        /\ UNCHANGED listed
     \/ /\ Undecodable
        /\ entries' = Reported(t, <<outcome, "harness_fault">>)
        /\ \E written \in SUBSET {x \in traces : x.whole} :
             traces' = Backfill(t, outcome, written)
        /\ listed' = Unlisted(t)

-----------------------------------------------------------------------------
(* EvalRunner.run: the tasks whose reference patch applies (gold_check)    *)
(* are worked on, the others only listed as invalid.                       *)
Launch ==
  /\ phase \in {"off", "saved"} /\ attempt < MaxAttempts
  /\ attempt' = attempt + 1
  /\ phase' = "working"
  /\ runId' \in RunIds
  /\ docker' \in BOOLEAN
  /\ valid' \in {GoldValid(gold) : gold \in [Tasks -> GoldPatches]}
  /\ stage' = [t \in Tasks |-> IF t \in valid' THEN "queued" ELSE "done"]
  /\ marks' = [t \in Tasks |-> NoTask]
  /\ patch' = [t \in Tasks |-> {}]
  /\ entries' = [t \in Tasks |-> <<>>]
  /\ listed' = Tasks
  /\ counted' = [total |-> 0, resolved |-> 0]
  /\ UNCHANGED <<traces, reports>>

(* _safe_task: whatever raises in a task is its failure and no one else's. *)
Fault(t) ==
  /\ entries' = Reported(t, <<"harness_fault">>)
  /\ listed' = Unlisted(t)
  /\ stage' = [stage EXCEPT ![t] = "done"]

(* _run_task up to its await: the sealed copy (seal_copy) may fail.        *)
StartTask(t) ==
  /\ phase = "working" /\ stage[t] = "queued"
  /\ Cardinality({x \in Tasks : stage[x] = "busy"}) < Workers
  /\ counted' = [counted EXCEPT !.total = @ + 1]
  /\ \/ Fault(t) /\ UNCHANGED marks
     \/ /\ stage' = [stage EXCEPT ![t] = "busy"]
        /\ marks' = SetTraceAttributes(t)
        /\ UNCHANGED <<entries, listed>>
  /\ UNCHANGED <<phase, setup, patch, traces, reports, attempt>>

(* The agent, or a subagent of its, begins a trace.                        *)
BeginTrace(t) ==
  /\ phase = "working" /\ stage[t] = "busy"
  /\ Cardinality(Traced(t)) < MaxTraces
  /\ traces' = traces \cup {TraceOf(t, Cardinality(Traced(t)) + 1)}
  /\ UNCHANGED <<phase, setup, stage, marks, patch, report, reports, attempt>>

(* The agent is done.  Taking its patch may fail; otherwise the task is    *)
(* judged, or left to the harness.                                         *)
FinishTask(t) ==
  /\ phase = "working" /\ stage[t] = "busy"
  /\ marks' = ResetTraceAttributes(t)
  /\ \/ /\ Fault(t)
        /\ UNCHANGED <<patch, counted, traces>>
     \/ /\ docker
        /\ patch' \in {[patch EXCEPT ![t] = produced] : produced \in Patches}
        /\ stage' = [stage EXCEPT ![t] = "done"]
        /\ UNCHANGED <<entries, listed, counted, traces>>
     \/ /\ ~docker
        /\ \E outcome \in LocalVerdicts : Verdict(t, outcome)
        /\ stage' = [stage EXCEPT ![t] = "done"]
        /\ UNCHANGED patch
  /\ UNCHANGED <<phase, setup, reports, attempt>>

AllWorked == phase = "working" /\ \A t \in Tasks : stage[t] = "done"

-----------------------------------------------------------------------------
(* _docker_judge_report: patches that do not apply are judged here, the    *)
(* rest by the harness.  Here nothing catches a backfill that raises: the  *)
(* evaluation ends without a report.                                       *)
DockerVerdict(t, outcome) ==
  /\ entries' = Reported(t, << outcome >>)
  /\ counted' = Count(outcome)
  /\ stage' = [stage EXCEPT ![t] = "judged"]
  /\ \/ /\ ~Undecodable
        /\ traces' = Backfill(t, outcome, traces)
        /\ UNCHANGED phase
     \/ /\ Undecodable
        /\ \E written \in SUBSET {x \in traces : x.whole} :
             traces' = Backfill(t, outcome, written)
        /\ phase' = "off"

Precheck ==
  /\ AllWorked /\ docker
  /\ phase' = "precheck"
  /\ UNCHANGED <<setup, stage, marks, patch, report, traces, reports, attempt>>

(* patch_applies: an empty patch never applies; the others may not.        *)
Reject(t) ==
  /\ phase = "precheck" /\ t \in listed /\ stage[t] # "judged"
  /\ \E kind \in KindsOf(patch[t], "fail", {FALSE}) : DockerVerdict(t, kind)
  /\ listed' = listed \ {t}
  /\ UNCHANGED <<setup, marks, patch, reports, attempt>>

(* judge(): the harness runs once over what is left, or fails as a whole   *)
(* (DockerJudgeError), or raises past the evaluation.                      *)
RunHarness ==
  /\ phase = "precheck"
  /\ \A t \in listed : patch[t] # {}
  /\ phase' \in IF listed = {} THEN {"verdicts"} ELSE {"verdicts", "harness failed", "off"}
  /\ UNCHANGED <<setup, stage, marks, patch, report, traces, reports, attempt>>

HarnessJudges(t) ==
  /\ t \in listed /\ stage[t] # "judged"
  /\ \/ /\ phase = "verdicts"
        /\ \E verdict \in HarnessVerdicts(patch[t]) : DockerVerdict(t, verdict)
     \/ /\ phase = "harness failed"
        /\ DockerVerdict(t, "harness_fault")
  /\ UNCHANGED <<setup, marks, patch, listed, reports, attempt>>

Judgement ==
  \/ AllWorked /\ ~docker
  \/ /\ phase \in {"verdicts", "harness failed"}
     /\ \A t \in listed : stage[t] = "judged"

(* persist_report writes resolved, failed and invalid; the way it was      *)
(* judged is remembered for DiffTells only.                                *)
Persisted ==
  [resolved |-> {t \in Tasks : "resolved" \in Range(entries[t])},
   failed |-> {t \in Tasks : Range(entries[t]) \ {"resolved"} # {}},
   invalid |-> Tasks \ valid,
   docker |-> docker]

Save ==
  /\ Judgement
  /\ phase' = "saved"
  /\ reports' = [reports EXCEPT ![runId] = {Persisted}]
  /\ UNCHANGED <<setup, stage, marks, patch, report, traces, attempt>>

(* The process goes down.  A trace being written may end in the middle of  *)
(* a character, and a report in the middle of anything (load_report then   *)
(* has none): it is written over the one before.                           *)
Crash ==
  /\ phase \notin {"off", "saved"}
  /\ phase' = "off"
  /\ \E cut \in SUBSET {x \in traces : x.attempt = attempt /\ stage[x.task] = "busy"} :
       traces' = {IF x \in cut THEN [x EXCEPT !.whole = FALSE] ELSE x : x \in traces}
  /\ \/ UNCHANGED reports
     \/ Judgement /\ reports' = [reports EXCEPT ![runId] = NoReport]
  /\ UNCHANGED <<setup, stage, marks, patch, report, attempt>>

Init ==
  /\ phase = "off" /\ docker = FALSE
  /\ runId \in RunIds
  /\ reports = [r \in RunIds |-> NoReport]
  /\ valid = {}
  /\ stage = [t \in Tasks |-> "queued"]
  /\ marks = [t \in Tasks |-> NoTask]
  /\ patch = [t \in Tasks |-> {}]
  /\ entries = [t \in Tasks |-> <<>>]
  /\ listed = Tasks
  /\ counted = [total |-> 0, resolved |-> 0]
  /\ traces = {}
  /\ attempt = 0

Next ==
  \/ Launch \/ Precheck \/ RunHarness \/ Save \/ Crash
  \/ \E t \in Tasks : StartTask(t) \/ BeginTrace(t) \/ FinishTask(t) \/ Reject(t) \/ HarnessJudges(t)

Spec == Init /\ [][Next]_vars

-----------------------------------------------------------------------------
(* diff_runs: two reports compared, task by task.                          *)

Tasked(a) == a.resolved \cup a.failed

(* Mutant: a task missing in one run counts as failed there.               *)
DiffOverAll(a, b) ==
  LET all == Tasked(a) \cup Tasked(b)
  IN [onlyA |-> {}, onlyB |-> {},
      pass2pass |-> a.resolved \cap b.resolved,
      fail2fail |-> all \ (a.resolved \cup b.resolved),
      fail2pass |-> b.resolved \ a.resolved,
      pass2fail |-> a.resolved \ b.resolved]
DiffRuns(a, b) ==
  LET both == Tasked(a) \cap Tasked(b)
  IN [onlyA |-> Tasked(a) \ Tasked(b), onlyB |-> Tasked(b) \ Tasked(a),
      pass2pass |-> a.resolved \cap b.resolved,
      fail2fail |-> both \ (a.resolved \cup b.resolved),
      fail2pass |-> (both \cap b.resolved) \ a.resolved,
      pass2fail |-> (both \cap a.resolved) \ b.resolved]

-----------------------------------------------------------------------------
Sound == phase = "saved" /\ ~Undecodable

(* A saved report has every task it worked on exactly once, resolved or    *)
(* failed, and counts what it has, however tasks raised, were rejected or  *)
(* judged in bulk (_safe_task, _docker_judge_report), as long as every     *)
(* trace can be read.                                                      *)
CountedOnce ==
  Sound =>
    /\ \A t \in valid : Len(entries[t]) = 1
    /\ counted.resolved = Cardinality({t \in Tasks : entries[t] = <<"resolved">>})
    /\ counted.total = Cardinality(valid)

(* Comparing two saved reports (diff_runs) tells of a repair or a          *)
(* regression only where both evaluations worked on the task, however      *)
(* either attempt was interrupted and whichever tasks its own check had    *)
(* refused (gold_check); for evaluations judged by their own tests.        *)
DiffTells ==
  \A r1, r2 \in RunIds : \A a \in reports[r1], b \in reports[r2] :
    LET diff == DiffRuns(a, b)
    IN ~a.docker /\ ~b.docker =>
         /\ (diff.fail2pass \cup diff.pass2fail) \cap (a.invalid \cup b.invalid) = {}
         /\ diff.onlyA \subseteq b.invalid /\ diff.onlyB \subseteq a.invalid

(* A trace made for a task in this evaluation ends with the verdict the    *)
(* report has of that task, never another's, with tasks side by side and   *)
(* traces of an earlier attempt around (set_trace_attributes,              *)
(* backfill_verdict); one of a task that raised may be left without.       *)
VerdictsTrue ==
  Sound =>
    \A t \in Tasks : \A x \in Traced(t) :
      /\ x \in LoadTraces(runId, t)
      /\ \/ entries[x.task] = << x.verdict >>
         \/ x.verdict = NoVerdict /\ entries[x.task] = <<"harness_fault">>
=============================================================================
