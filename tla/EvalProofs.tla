----------------------------- MODULE EvalProofs -----------------------------
(***************************************************************************)
(* Theorems about Eval, for any tasks, run ids, workers and attempts: a    *)
(* saved report has every task once, its traces have its verdicts, and two *)
(* reports can be compared.  What makes it so is where a task's entry in   *)
(* the report may come from at each of its stages.                         *)
(***************************************************************************)
EXTENDS Eval, FiniteSetTheorems, TLAPS

Verdicts == FailureKind \cup {"resolved"}
Judging == {"precheck", "verdicts", "harness failed"}

Traces == [task : Tasks, n : Nat, attempt : Nat, run : RunIds, mark : Tasks \cup {NoTask},
           verdict : Verdicts \cup {NoVerdict}, whole : BOOLEAN]
Reports == [resolved : SUBSET Tasks, failed : SUBSET Tasks, invalid : SUBSET Tasks,
            docker : BOOLEAN]

TypeOK ==
  /\ phase \in {"off", "working", "saved"} \cup Judging
  /\ runId \in RunIds /\ docker \in BOOLEAN /\ valid \in SUBSET Tasks
  /\ stage \in [Tasks -> {"queued", "busy", "done", "judged"}]
  /\ marks \in [Tasks -> Tasks \cup {NoTask}]
  /\ patch \in [Tasks -> SUBSET {"runtime", "tests", "code"}]
  /\ entries \in [Tasks -> Seq(Verdicts)]
  /\ listed \in SUBSET Tasks
  /\ counted \in [total : Nat, resolved : Nat]
  /\ traces \in SUBSET Traces /\ IsFiniteSet(traces)
  /\ reports \in [RunIds -> SUBSET Reports]
  /\ attempt \in Nat

(* A task has no entry, one, or a second one for a backfill that raised.   *)
EntriesShape ==
  \A t \in Tasks : \/ entries[t] = <<>>
                   \/ \E v \in Verdicts : entries[t] = << v >>
                   \/ Undecodable /\ \E v \in Verdicts : entries[t] = <<v, "harness_fault">>

StageInv ==
  /\ phase = "working" =>
       \A t \in Tasks : stage[t] # "judged" /\ (t \notin valid => stage[t] = "done")
  /\ phase \in Judging => docker /\ \A t \in Tasks : stage[t] \in {"done", "judged"}
  /\ phase = "saved" => \A t \in Tasks : /\ stage[t] \in {"done", "judged"}
                                         /\ docker /\ t \in listed => stage[t] = "judged"
                                         /\ ~docker => stage[t] = "done"

(* Where a task has its entry already, and where not yet.                  *)
EntryInv ==
  \A t \in Tasks :
    /\ stage[t] \in {"queued", "busy"} => entries[t] = <<>>
    /\ stage[t] = "judged" \/ t \notin listed => entries[t] # <<>>
    /\ docker /\ t \in listed /\ stage[t] # "judged" => entries[t] = <<>>
    /\ ~docker /\ t \notin valid => entries[t] = <<>>
    /\ ~docker /\ t \in valid /\ stage[t] = "done" => entries[t] # <<>>

Begun == {t \in valid : stage[t] # "queued"}
ResolvedTasks == {t \in Tasks : entries[t] = <<"resolved">>}
CountInv ==
  /\ counted.total = Cardinality(Begun)
  /\ ~Undecodable => counted.resolved = Cardinality(ResolvedTasks)

(* The traces this attempt made are its tasks' and say what its report     *)
(* says.                                                                   *)
OwnTraces ==
  \A x \in traces : /\ x.attempt <= attempt
                    /\ x.attempt = attempt => x.run = runId /\ x.mark = x.task /\ x.task \in valid
TracesTrue ==
  ~Undecodable =>
    \A x \in traces : x.attempt = attempt =>
      \/ entries[x.task] = << x.verdict >>
      \/ x.verdict = NoVerdict /\ entries[x.task] \in {<<>>, <<"harness_fault">>}

(* A trace of this attempt belongs to its task, and has the verdict the    *)
(* report has, if it is judged.                                            *)
TraceInv ==
  /\ phase = "working" => \A t \in Tasks : stage[t] = "busy" => marks[t] = t
  /\ OwnTraces
  /\ TracesTrue

(* A report by the tasks' own tests has the tasks that were not refused.   *)
ReportInv ==
  \A r \in RunIds : \A a \in reports[r] :
    ~a.docker => a.resolved \cup a.failed = Tasks \ a.invalid

EvalInv ==
  TypeOK /\ EntriesShape /\ StageInv /\ EntryInv /\ CountInv /\ TraceInv /\ ReportInv

-----------------------------------------------------------------------------
(* What the verdicts and the patches may be.                               *)
LEMMA KindsAre == ASSUME NEW produced, NEW f2p, NEW errors
                  PROVE  KindsOf(produced, f2p, errors) \subseteq FailureKind
  BY DEF KindsOf, Classify, FailureKind

LEMMA VerdictsAre ==
  /\ LocalVerdicts \subseteq Verdicts
  /\ \A produced : HarnessVerdicts(produced) \subseteq Verdicts
  /\ "harness_fault" \in Verdicts
  <1>1. LocalVerdicts \subseteq Verdicts
    BY KindsAre DEF LocalVerdicts, Judged, Verdicts, FailureKind
  <1>2. \A produced : HarnessVerdicts(produced) \subseteq Verdicts
    BY KindsAre DEF HarnessVerdicts, Verdicts, FailureKind
  <1>. QED
    BY <1>1, <1>2 DEF Verdicts, FailureKind

LEMMA PatchesAre == Patches \subseteq SUBSET {"runtime", "tests", "code"}
  <1>1. \A copy \in InstallRepoDeps(SealCopy) : copy \in SUBSET {"runtime"}
    BY DEF InstallRepoDeps, SealCopy
  <1>2. SUFFICES ASSUME NEW produced \in Patches
                 PROVE  produced \subseteq {"runtime", "tests", "code"}
    OBVIOUS
  <1>3. PICK copy \in InstallRepoDeps(SealCopy), edited \in SUBSET {"runtime", "tests", "code"} :
          produced = ExtractPatch(copy \cup edited)
    BY <1>2 DEF Patches
  <1>. QED
    BY <1>1, <1>3 DEF ExtractPatch

(* Lists of one or two entries.                                            *)
LEMMA EntryLists ==
  ASSUME NEW v, NEW w
  PROVE  /\ <<>> \o << v >> = << v >> /\ <<>> \o <<v, w>> = <<v, w>>
         /\ << v >> # <<>> /\ <<v, w>> # <<>> /\ << v >> # <<w, v>>
         /\ << v >> = << w >> => v = w
  OBVIOUS

(* What a backfill leaves of the traces, whichever files it comes to.      *)
LEMMA BackfillIs ==
  ASSUME traces \in SUBSET Traces, NEW t, NEW v \in Verdicts, NEW written
  PROVE  /\ Backfill(t, v, written) \in SUBSET Traces
         /\ \A y \in Backfill(t, v, written) :
              \E x \in traces : IF x \in written /\ x.run = runId /\ x.mark = t
                                THEN y = [x EXCEPT !.verdict = v] ELSE y = x
         /\ \A x \in traces : \E y \in Backfill(t, v, written) : y.whole = x.whole
  <1>1. \A x \in Traces : [x EXCEPT !.verdict = v] \in Traces
    BY DEF Traces
  <1>2. \A x \in Traces : [x EXCEPT !.verdict = v].whole = x.whole
    BY DEF Traces
  <1>. QED
    BY <1>1, <1>2 DEF Backfill

-----------------------------------------------------------------------------
(* The steps, by what they do to the report and to the traces.             *)

(* A task that had no entry gets one, or two if the backfill raises.       *)
Enters(t, v) ==
  \/ entries' = Reported(t, << v >>)
  \/ Undecodable /\ entries' = Reported(t, <<v, "harness_fault">>)

LEMMA EntryStep ==
  ASSUME TypeOK, EntriesShape, NEW t \in Tasks, NEW v \in Verdicts, entries[t] = <<>>,
         Enters(t, v), Undecodable => Undecodable'
  PROVE  /\ entries' \in [Tasks -> Seq(Verdicts)]
         /\ EntriesShape'
         /\ entries'[t] # <<>>
         /\ \A x \in Tasks \ {t} : entries'[x] = entries[x]
         /\ ~Undecodable' => entries'[t] = << v >>
  <1>1. << v >> \in Seq(Verdicts) /\ <<v, "harness_fault">> \in Seq(Verdicts)
    BY VerdictsAre
  <1>2. CASE entries' = Reported(t, << v >>)
    <2>1. entries'[t] = << v >> /\ \A x \in Tasks \ {t} : entries'[x] = entries[x]
      BY <1>2, EntryLists DEF Reported, TypeOK
    <2>2. entries' \in [Tasks -> Seq(Verdicts)]
      BY <1>1, <1>2, EntryLists DEF Reported, TypeOK
    <2>3. EntriesShape'
      BY <2>1 DEF EntriesShape
    <2>. QED
      BY <2>1, <2>2, <2>3, EntryLists
  <1>3. CASE Undecodable /\ entries' = Reported(t, <<v, "harness_fault">>)
    <2>1. entries'[t] = <<v, "harness_fault">> /\ \A x \in Tasks \ {t} : entries'[x] = entries[x]
      BY <1>3, EntryLists DEF Reported, TypeOK
    <2>2. entries' \in [Tasks -> Seq(Verdicts)]
      BY <1>1, <1>3, EntryLists DEF Reported, TypeOK
    <2>3. EntriesShape'
      BY <1>3, <2>1 DEF EntriesShape
    <2>. QED
      BY <1>3, <2>1, <2>2, <2>3, EntryLists
  <1>. QED
    BY <1>2, <1>3 DEF Enters

LEMMA CountStep ==
  ASSUME TypeOK, EntriesShape, CountInv, NEW t \in Tasks, NEW v \in Verdicts, entries[t] = <<>>,
         Enters(t, v), Undecodable => Undecodable',
         counted'.resolved = counted.resolved + (IF v = "resolved" THEN 1 ELSE 0)
  PROVE  ~Undecodable' => counted'.resolved = Cardinality(ResolvedTasks')
  <1>. SUFFICES ASSUME ~Undecodable'
                PROVE  counted'.resolved = Cardinality(ResolvedTasks')
    OBVIOUS
  <1>1. entries'[t] = << v >> /\ \A x \in Tasks \ {t} : entries'[x] = entries[x]
    BY EntryStep
  <1>2. counted.resolved = Cardinality(ResolvedTasks)
    BY DEF CountInv
  <1>3. IsFiniteSet(ResolvedTasks) /\ t \notin ResolvedTasks
    <2>1. ResolvedTasks \subseteq Tasks
      BY DEF ResolvedTasks
    <2>. QED
      BY <2>1, EvalAssumption, FS_Subset, EntryLists DEF ResolvedTasks
  <1>4. CASE v = "resolved"
    <2>1. ResolvedTasks' = ResolvedTasks \cup {t}
      BY <1>1, <1>4, EntryLists DEF ResolvedTasks
    <2>2. Cardinality(ResolvedTasks \cup {t}) = Cardinality(ResolvedTasks) + 1
      BY <1>3, FS_AddElement
    <2>. QED
      BY <1>2, <1>4, <2>1, <2>2
  <1>5. CASE v # "resolved"
    <2>1. ResolvedTasks' = ResolvedTasks
      BY <1>1, <1>3, <1>5, EntryLists DEF ResolvedTasks
    <2>2. counted'.resolved = counted.resolved
      BY <1>5 DEF TypeOK
    <2>. QED
      BY <1>2, <2>1, <2>2
  <1>. QED
    BY <1>4, <1>5

(* A backfill reaches every file when they can all be read.                *)
Backfilled(t, v) ==
  \E written \in SUBSET traces :
    (~Undecodable => written = traces) /\ traces' = Backfill(t, v, written)

LEMMA BackfillStep ==
  ASSUME TypeOK, NEW t \in Tasks, NEW v \in Verdicts, Backfilled(t, v)
  PROVE  /\ traces' \in SUBSET Traces /\ IsFiniteSet(traces')
         /\ Undecodable => Undecodable'
  <1>1. PICK written \in SUBSET traces : traces' = Backfill(t, v, written)
    BY DEF Backfilled
  <1>2. traces \in SUBSET Traces
    BY DEF TypeOK
  <1>3. Backfill(t, v, written) \in SUBSET Traces
    BY <1>2, BackfillIs
  <1>4. \A x \in traces : \E y \in Backfill(t, v, written) : y.whole = x.whole
    BY <1>2, BackfillIs
  <1>5. IsFiniteSet(Backfill(t, v, written))
    <2>. DEFINE f == [x \in traces |-> IF x \in written /\ x.run = runId /\ x.mark = t
                                       THEN [x EXCEPT !.verdict = v] ELSE x]
    <2>1. Backfill(t, v, written) = {f[x] : x \in traces}
      BY DEF Backfill
    <2>2. f \in Surjection(traces, Backfill(t, v, written))
      BY <2>1 DEF Surjection
    <2>. HIDE DEF f
    <2>3. IsFiniteSet(traces)
      BY DEF TypeOK
    <2>. QED
      BY <2>2, <2>3, FS_Surjection
  <1>. QED
    BY <1>1, <1>3, <1>4, <1>5 DEF Undecodable

LEMMA BackfillTrue ==
  ASSUME TypeOK, EntriesShape, OwnTraces, TracesTrue, NEW t \in Tasks, NEW v \in Verdicts,
         entries[t] = <<>>, Enters(t, v), Backfilled(t, v), UNCHANGED <<runId, valid, attempt>>
  PROVE  OwnTraces' /\ TracesTrue'
  <1>1. PICK written \in SUBSET traces : /\ ~Undecodable => written = traces
                                        /\ traces' = Backfill(t, v, written)
    BY DEF Backfilled
  <1>2. traces \in SUBSET Traces /\ (Undecodable => Undecodable')
    BY BackfillStep DEF TypeOK
  <1>3. \A y \in traces' : \E x \in traces :
          IF x \in written /\ x.run = runId /\ x.mark = t
          THEN y = [x EXCEPT !.verdict = v] ELSE y = x
    <2>1. \A y \in Backfill(t, v, written) : \E x \in traces :
            IF x \in written /\ x.run = runId /\ x.mark = t
            THEN y = [x EXCEPT !.verdict = v] ELSE y = x
      BY DEF Backfill
    <2>. QED
      BY <1>1, <2>1
  <1>4. OwnTraces'
    <2>1. \A y \in traces' : \E x \in traces :
            y.attempt = x.attempt /\ y.run = x.run /\ y.mark = x.mark /\ y.task = x.task
      BY <1>2, <1>3 DEF Traces
    <2>. QED
      BY <2>1 DEF OwnTraces
  <1>5. TracesTrue'
    <2>. SUFFICES ASSUME ~Undecodable', NEW y \in traces', y.attempt = attempt
                  PROVE  \/ entries'[y.task] = << y.verdict >>
                         \/ y.verdict = NoVerdict /\ entries'[y.task] \in {<<>>, <<"harness_fault">>}
      BY DEF TracesTrue
    <2>1. entries'[t] = << v >> /\ \A x \in Tasks \ {t} : entries'[x] = entries[x]
      BY <1>2, EntryStep
    <2>2. PICK x \in traces : IF x \in written /\ x.run = runId /\ x.mark = t
                              THEN y = [x EXCEPT !.verdict = v] ELSE y = x
      BY <1>3
    <2>3. x \in Traces /\ x \in written /\ x.attempt = attempt /\ x.task \in Tasks
      BY <1>1, <1>2, <2>2 DEF Traces
    <2>4. x.run = runId /\ x.mark = x.task
      <3>1. x.attempt = attempt => x.run = runId /\ x.mark = x.task /\ x.task \in valid
        BY DEF OwnTraces
      <3>. QED
        BY <2>3, <3>1
    <2>5. CASE x.task = t
      <3>1. y.verdict = v /\ y.task = t
        BY <2>2, <2>3, <2>4, <2>5 DEF Traces
      <3>. QED
        BY <2>1, <3>1
    <2>6. CASE x.task # t
      <3>1. y = x
        BY <2>2, <2>4, <2>6
      <3>2. entries'[x.task] = entries[x.task]
        BY <2>1, <2>3, <2>6
      <3>. QED
        BY <1>2, <2>3, <3>1, <3>2 DEF TracesTrue
    <2>. QED
      BY <2>5, <2>6
  <1>. QED
    BY <1>4, <1>5

(* A task that raised has no verdict in its traces.                        *)
LEMMA FaultTrue ==
  ASSUME TypeOK, EntriesShape, OwnTraces, TracesTrue, NEW t \in Tasks,
         entries[t] = <<>>, Enters(t, "harness_fault"), UNCHANGED <<runId, valid, attempt, traces>>
  PROVE  OwnTraces' /\ TracesTrue'
  <1>1. OwnTraces'
    BY DEF OwnTraces
  <1>2. Undecodable' = Undecodable
    BY DEF Undecodable
  <1>3. ~Undecodable' => entries'[t] = <<"harness_fault">>
    BY <1>2, EntryStep, VerdictsAre
  <1>4. \A x \in Tasks \ {t} : entries'[x] = entries[x]
    BY <1>2, EntryStep, VerdictsAre
  <1>5. TracesTrue'
    <2>. SUFFICES ASSUME ~Undecodable', NEW x \in traces, x.attempt = attempt
                  PROVE  \/ entries'[x.task] = << x.verdict >>
                         \/ x.verdict = NoVerdict /\ entries'[x.task] \in {<<>>, <<"harness_fault">>}
      BY DEF TracesTrue
    <2>1. \/ entries[x.task] = << x.verdict >>
          \/ x.verdict = NoVerdict /\ entries[x.task] \in {<<>>, <<"harness_fault">>}
      BY <1>2 DEF TracesTrue
    <2>2. x.task \in Tasks
      BY DEF TypeOK, Traces
    <2>3. CASE x.task = t
      <3>1. x.verdict = NoVerdict
        BY <2>1, <2>3, EntryLists
      <3>. QED
        BY <1>3, <2>3, <3>1
    <2>4. CASE x.task # t
      BY <1>4, <2>1, <2>2, <2>4
    <2>. QED
      BY <2>3, <2>4
  <1>. QED
    BY <1>1, <1>5

-----------------------------------------------------------------------------
(* Each action keeps the invariant.                                        *)

LEMMA LaunchKeeps == EvalInv /\ Launch => EvalInv'
  <1>. SUFFICES ASSUME EvalInv, Launch
                PROVE  EvalInv'
    OBVIOUS
  <1>1. TypeOK /\ OwnTraces /\ ReportInv
    BY DEF EvalInv, TraceInv
  <1>2. valid' \in SUBSET Tasks
    BY DEF Launch, GoldValid
  <1>3. counted' = [total |-> 0, resolved |-> 0]
    BY DEF Launch
  <1>4. TypeOK'
    BY <1>1, <1>2 DEF TypeOK, Launch
  <1>5. EntriesShape'
    BY DEF EntriesShape, Launch
  <1>6. StageInv'
    BY DEF StageInv, Launch, Judging
  <1>7. EntryInv'
    BY DEF EntryInv, Launch
  <1>8. CountInv'
    <2>1. Begun' = {} /\ ResolvedTasks' = {}
      BY <1>2, EntryLists DEF Launch, Begun, ResolvedTasks
    <2>. QED
      BY <1>3, <2>1, FS_EmptySet DEF CountInv
  <1>9. TraceInv'
    <2>1. attempt \in Nat /\ attempt' = attempt + 1 /\ traces' = traces
      BY <1>1 DEF TypeOK, Launch
    <2>2. \A x \in traces : x.attempt \in Nat
      BY <1>1 DEF TypeOK, Traces
    <2>3. \A x \in traces' : x.attempt <= attempt' /\ x.attempt # attempt'
      BY <1>1, <2>1, <2>2 DEF OwnTraces
    <2>. QED
      BY <2>3 DEF TraceInv, OwnTraces, TracesTrue, Launch
  <1>10. ReportInv'
    BY <1>1 DEF ReportInv, Launch
  <1>. QED
    BY <1>4, <1>5, <1>6, <1>7, <1>8, <1>9, <1>10 DEF EvalInv

LEMMA StartTaskKeeps ==
  ASSUME EvalInv, NEW t \in Tasks, StartTask(t)
  PROVE  EvalInv'
  <1>1. TypeOK /\ EntriesShape /\ StageInv /\ EntryInv /\ CountInv /\ TraceInv /\ ReportInv
    BY DEF EvalInv
  <1>2. phase = "working" /\ stage[t] = "queued" /\ UNCHANGED <<phase, setup, patch, traces, reports, attempt>>
    BY DEF StartTask
  <1>3. t \in valid /\ entries[t] = <<>>
    BY <1>1, <1>2 DEF StageInv, EntryInv
  <1>4. Undecodable' = Undecodable
    BY <1>2 DEF Undecodable
  <1>5. /\ counted' \in [total : Nat, resolved : Nat]
        /\ counted'.total = counted.total + 1 /\ counted'.resolved = counted.resolved
    BY <1>1, SMTT(30) DEF StartTask, TypeOK
  <1>6. stage'[t] # "queued" /\ \A x \in Tasks \ {t} : stage'[x] = stage[x]
    BY <1>1 DEF StartTask, Fault, TypeOK
  <1>7. counted'.total = Cardinality(Begun')
    <2>1. Begun' = Begun \cup {t} /\ t \notin Begun
      BY <1>1, <1>2, <1>3, <1>6 DEF Begun, setup, TypeOK
    <2>2. IsFiniteSet(Begun)
      <3>1. Begun \subseteq Tasks
        BY <1>1 DEF Begun, TypeOK
      <3>. QED
        BY <3>1, EvalAssumption, FS_Subset
    <2>3. Cardinality(Begun \cup {t}) = Cardinality(Begun) + 1
      BY <2>1, <2>2, FS_AddElement
    <2>. QED
      BY <1>1, <1>5, <2>1, <2>3 DEF CountInv
  <1>8. CASE Fault(t) /\ UNCHANGED marks
    <2>1. Enters(t, "harness_fault") /\ "harness_fault" \in Verdicts
      BY <1>8, VerdictsAre DEF Fault, Enters
    <2>2. /\ entries' \in [Tasks -> Seq(Verdicts)] /\ EntriesShape'
          /\ entries'[t] # <<>> /\ \A x \in Tasks \ {t} : entries'[x] = entries[x]
      BY <1>1, <1>3, <1>4, <2>1, EntryStep
    <2>3. TypeOK'
      BY <1>1, <1>2, <1>5, <1>8, <2>2 DEF TypeOK, Fault, Unlisted, setup
    <2>4. StageInv'
      BY <1>1, <1>2, <1>8 DEF StageInv, Fault, TypeOK, Judging, setup
    <2>5. EntryInv'
      <3>1. stage'[t] = "done" /\ listed' = listed \ {t}
        BY <1>1, <1>8 DEF Fault, TypeOK, Unlisted
      <3>. QED
        BY <1>1, <1>2, <1>3, <1>6, <2>2, <3>1 DEF EntryInv, setup
    <2>6. CountInv'
      <3>1. counted'.resolved = counted.resolved + (IF "harness_fault" = "resolved" THEN 1 ELSE 0)
        BY <1>1, <1>5 DEF TypeOK
      <3>2. ~Undecodable' => counted'.resolved = Cardinality(ResolvedTasks')
        BY <1>1, <1>3, <1>4, <2>1, <3>1, CountStep
      <3>. QED
        BY <1>7, <3>2 DEF CountInv
    <2>7. TraceInv'
      <3>1. OwnTraces' /\ TracesTrue'
        BY <1>1, <1>2, <1>3, <2>1, FaultTrue DEF TraceInv, setup
      <3>2. \A x \in Tasks : stage'[x] = "busy" => marks'[x] = x
        BY <1>1, <1>2, <1>8 DEF TraceInv, Fault, TypeOK
      <3>. QED
        BY <3>1, <3>2 DEF TraceInv
    <2>8. ReportInv'
      BY <1>1, <1>2 DEF ReportInv
    <2>. QED
      BY <2>2, <2>3, <2>4, <2>5, <2>6, <2>7, <2>8 DEF EvalInv
  <1>9. CASE /\ stage' = [stage EXCEPT ![t] = "busy"]
             /\ marks' = SetTraceAttributes(t)
             /\ UNCHANGED <<entries, listed>>
    <2>1. TypeOK'
      BY <1>1, <1>2, <1>5, <1>9 DEF TypeOK, SetTraceAttributes, setup
    <2>2. EntriesShape'
      BY <1>1, <1>4, <1>9 DEF EntriesShape
    <2>3. StageInv'
      BY <1>1, <1>2, <1>3, <1>9 DEF StageInv, TypeOK, Judging, setup
    <2>4. EntryInv'
      <3>1. stage'[t] = "busy"
        BY <1>1, <1>9 DEF TypeOK
      <3>. QED
        BY <1>1, <1>2, <1>3, <1>6, <1>9, <3>1 DEF EntryInv, setup
    <2>5. CountInv'
      <3>1. ResolvedTasks' = ResolvedTasks
        BY <1>9 DEF ResolvedTasks
      <3>. QED
        BY <1>1, <1>4, <1>5, <1>7, <3>1 DEF CountInv
    <2>6. TraceInv'
      <3>1. OwnTraces' /\ TracesTrue'
        BY <1>1, <1>2, <1>4, <1>9 DEF TraceInv, OwnTraces, TracesTrue, setup
      <3>2. \A x \in Tasks : stage'[x] = "busy" => marks'[x] = x
        BY <1>1, <1>2, <1>9 DEF TraceInv, SetTraceAttributes, TypeOK
      <3>. QED
        BY <3>1, <3>2 DEF TraceInv
    <2>7. ReportInv'
      BY <1>1, <1>2 DEF ReportInv
    <2>. QED
      BY <2>1, <2>2, <2>3, <2>4, <2>5, <2>6, <2>7 DEF EvalInv
  <1>. QED
    BY <1>8, <1>9 DEF StartTask

LEMMA BeginTraceKeeps ==
  ASSUME EvalInv, NEW t \in Tasks, BeginTrace(t)
  PROVE  EvalInv'
  <1>1. TypeOK /\ EntriesShape /\ StageInv /\ EntryInv /\ CountInv /\ TraceInv /\ ReportInv
    BY DEF EvalInv
  <1>2. /\ phase = "working" /\ stage[t] = "busy"
        /\ UNCHANGED <<phase, setup, stage, marks, patch, report, reports, attempt>>
    BY DEF BeginTrace
  <1>3. UNCHANGED <<phase, runId, docker, valid, stage, marks, patch, entries, listed, counted, reports, attempt>>
    BY <1>2 DEF setup, report
  <1>4. entries[t] = <<>> /\ marks[t] = t /\ t \in valid
    BY <1>1, <1>2 DEF EntryInv, TraceInv, StageInv
  <1>. DEFINE new == TraceOf(t, Cardinality(Traced(t)) + 1)
  <1>5. traces' = traces \cup {new}
    BY DEF BeginTrace
  <1>6. /\ new \in Traces /\ new.whole /\ new.verdict = NoVerdict
        /\ new.attempt = attempt /\ new.run = runId /\ new.mark = t /\ new.task = t
    <2>1. IsFiniteSet(traces) => Cardinality(Traced(t)) \in Nat
      <3>1. Traced(t) \subseteq traces
        BY DEF Traced
      <3>. QED
        BY <3>1, FS_Subset, FS_CardinalityType
    <2>2. IsFiniteSet(traces)
      BY <1>1 DEF TypeOK
    <2>. QED
      BY <1>1, <1>4, <2>1, <2>2 DEF TraceOf, Traces, TypeOK
  <1>. HIDE DEF new
  <1>7. Undecodable' = Undecodable
    BY <1>5, <1>6 DEF Undecodable
  <1>8. TypeOK'
    <2>1. IsFiniteSet(traces')
      BY <1>1, <1>5, FS_AddElement DEF TypeOK
    <2>. QED
      BY <1>1, <1>3, <1>5, <1>6, <2>1 DEF TypeOK
  <1>9. EntriesShape' /\ StageInv' /\ EntryInv'
    BY <1>1, <1>3, <1>7 DEF EntriesShape, StageInv, EntryInv
  <1>10. CountInv'
    <2>1. Begun' = Begun /\ ResolvedTasks' = ResolvedTasks
      BY <1>3 DEF Begun, ResolvedTasks
    <2>. QED
      BY <1>1, <1>3, <1>7, <2>1 DEF CountInv
  <1>11. TraceInv'
    <2>1. OwnTraces'
      BY <1>1, <1>3, <1>4, <1>5, <1>6 DEF TraceInv, OwnTraces, TypeOK
    <2>2. TracesTrue'
      BY <1>1, <1>3, <1>4, <1>5, <1>6, <1>7 DEF TraceInv, TracesTrue
    <2>. QED
      BY <1>1, <1>3, <2>1, <2>2 DEF TraceInv
  <1>12. ReportInv'
    BY <1>1, <1>3 DEF ReportInv
  <1>. QED
    BY <1>8, <1>9, <1>10, <1>11, <1>12 DEF EvalInv

(* What a task is left with when the agent is done, whoever judges it.     *)
LEMMA FinishStep ==
  ASSUME EvalInv, NEW t \in Tasks, FinishTask(t)
  PROVE  /\ phase = "working" /\ t \in valid /\ entries[t] = <<>>
         /\ UNCHANGED <<phase, runId, docker, valid, reports, attempt>>
         /\ stage' = [stage EXCEPT ![t] = "done"] /\ StageInv'
         /\ counted'.total = counted.total => counted'.total = Cardinality(Begun')
         /\ \A x \in Tasks : stage'[x] = "busy" => marks'[x] = x
         /\ marks' \in [Tasks -> Tasks \cup {NoTask}]
         /\ ReportInv'
  <1>1. TypeOK /\ StageInv /\ EntryInv /\ CountInv /\ TraceInv /\ ReportInv
    BY DEF EvalInv
  <1>2. /\ phase = "working" /\ stage[t] = "busy" /\ marks' = ResetTraceAttributes(t)
        /\ UNCHANGED <<phase, runId, docker, valid, reports, attempt>>
    BY DEF FinishTask, setup
  <1>3. t \in valid /\ entries[t] = <<>>
    BY <1>1, <1>2 DEF StageInv, EntryInv
  <1>4. stage' = [stage EXCEPT ![t] = "done"]
    BY DEF FinishTask, Fault
  <1>5. StageInv'
    BY <1>1, <1>2, <1>4 DEF StageInv, TypeOK, Judging
  <1>6. Begun' = Begun
    BY <1>1, <1>2, <1>4 DEF Begun, TypeOK
  <1>7. \A x \in Tasks : stage'[x] = "busy" => marks'[x] = x
    BY <1>1, <1>2, <1>4 DEF TraceInv, ResetTraceAttributes, TypeOK
  <1>8. marks' \in [Tasks -> Tasks \cup {NoTask}]
    BY <1>1, <1>2 DEF ResetTraceAttributes, TypeOK
  <1>9. ReportInv'
    BY <1>1, <1>2 DEF ReportInv
  <1>. QED
    BY <1>1, <1>2, <1>3, <1>4, <1>5, <1>6, <1>7, <1>8, <1>9 DEF CountInv

LEMMA FinishTaskKeeps ==
  ASSUME EvalInv, NEW t \in Tasks, FinishTask(t)
  PROVE  EvalInv'
  <1>1. TypeOK /\ EntriesShape /\ StageInv /\ EntryInv /\ CountInv /\ TraceInv /\ ReportInv
    BY DEF EvalInv
  <1>2. /\ phase = "working" /\ t \in valid /\ entries[t] = <<>>
        /\ UNCHANGED <<phase, runId, docker, valid, reports, attempt>>
        /\ stage' = [stage EXCEPT ![t] = "done"] /\ StageInv'
        /\ counted'.total = counted.total => counted'.total = Cardinality(Begun')
        /\ \A x \in Tasks : stage'[x] = "busy" => marks'[x] = x
        /\ marks' \in [Tasks -> Tasks \cup {NoTask}]
        /\ ReportInv'
    BY FinishStep
  <1>3. /\ stage' \in [Tasks -> {"queued", "busy", "done", "judged"}] /\ stage'[t] = "done"
        /\ \A x \in Tasks \ {t} : stage'[x] = stage[x]
    BY <1>1, <1>2 DEF TypeOK
  <1>4. CASE Fault(t) /\ UNCHANGED <<patch, counted, traces>>
    <2>1. Enters(t, "harness_fault") /\ "harness_fault" \in Verdicts
      BY <1>4, VerdictsAre DEF Fault, Enters
    <2>2. Undecodable' = Undecodable /\ listed' = listed \ {t}
      BY <1>4 DEF Undecodable, Fault, Unlisted
    <2>3. /\ entries' \in [Tasks -> Seq(Verdicts)] /\ EntriesShape'
          /\ entries'[t] # <<>> /\ \A x \in Tasks \ {t} : entries'[x] = entries[x]
      BY <1>1, <1>2, <2>1, <2>2, EntryStep
    <2>4. TypeOK'
      BY <1>1, <1>2, <1>3, <1>4, <2>2, <2>3 DEF TypeOK
    <2>5. EntryInv'
      BY <1>1, <1>2, <1>3, <2>2, <2>3 DEF EntryInv
    <2>6. CountInv'
      <3>1. counted'.resolved = counted.resolved + (IF "harness_fault" = "resolved" THEN 1 ELSE 0)
        BY <1>1, <1>4 DEF TypeOK
      <3>2. ~Undecodable' => counted'.resolved = Cardinality(ResolvedTasks')
        BY <1>1, <1>2, <2>1, <2>2, <3>1, CountStep
      <3>. QED
        BY <1>2, <1>4, <3>2 DEF CountInv
    <2>7. OwnTraces' /\ TracesTrue'
      BY <1>1, <1>2, <1>4, <2>1, FaultTrue DEF TraceInv
    <2>. QED
      BY <1>2, <2>3, <2>4, <2>5, <2>6, <2>7 DEF EvalInv, TraceInv
  <1>5. CASE /\ docker
             /\ patch' \in {[patch EXCEPT ![t] = produced] : produced \in Patches}
             /\ UNCHANGED <<entries, listed, counted, traces>>
    <2>1. Undecodable' = Undecodable /\ ResolvedTasks' = ResolvedTasks
      BY <1>5 DEF Undecodable, ResolvedTasks
    <2>2. patch' \in [Tasks -> SUBSET {"runtime", "tests", "code"}]
      <3>1. PICK produced \in Patches : patch' = [patch EXCEPT ![t] = produced]
        BY <1>5
      <3>. QED
        BY <1>1, <3>1, PatchesAre DEF TypeOK
    <2>3. TypeOK'
      BY <1>1, <1>2, <1>3, <1>5, <2>2 DEF TypeOK
    <2>4. EntriesShape'
      BY <1>1, <1>5, <2>1 DEF EntriesShape
    <2>5. EntryInv'
      BY <1>1, <1>2, <1>3, <1>5 DEF EntryInv
    <2>6. CountInv'
      BY <1>1, <1>2, <1>5, <2>1 DEF CountInv
    <2>7. OwnTraces' /\ TracesTrue'
      BY <1>1, <1>2, <1>5, <2>1 DEF TraceInv, OwnTraces, TracesTrue
    <2>. QED
      BY <1>2, <2>3, <2>4, <2>5, <2>6, <2>7 DEF EvalInv, TraceInv
  <1>6. ASSUME ~docker, UNCHANGED patch, NEW v \in LocalVerdicts, Verdict(t, v)
        PROVE  EvalInv'
    <2>1. v \in Verdicts
      BY VerdictsAre
    <2>2. Enters(t, v)
      BY <1>6 DEF Verdict, Enters
    <2>3. Backfilled(t, v)
      BY <1>6 DEF Verdict, Backfilled
    <2>4. /\ traces' \in SUBSET Traces /\ IsFiniteSet(traces')
          /\ Undecodable => Undecodable'
      BY <1>1, <2>1, <2>3, BackfillStep
    <2>5. /\ entries' \in [Tasks -> Seq(Verdicts)] /\ EntriesShape'
          /\ entries'[t] # <<>> /\ \A x \in Tasks \ {t} : entries'[x] = entries[x]
      BY <1>1, <1>2, <2>1, <2>2, <2>4, EntryStep
    <2>6. listed' \in SUBSET Tasks /\ \A x \in Tasks \ {t} : x \in listed' <=> x \in listed
      BY <1>1, <1>6 DEF Verdict, Unlisted, TypeOK
    <2>7. /\ counted' \in [total : Nat, resolved : Nat] /\ counted'.total = counted.total
          /\ counted'.resolved = counted.resolved + (IF v = "resolved" THEN 1 ELSE 0)
      BY <1>1, <1>6 DEF Verdict, Count, TypeOK
    <2>8. TypeOK'
      BY <1>1, <1>2, <1>3, <1>6, <2>4, <2>5, <2>6, <2>7 DEF TypeOK
    <2>9. EntryInv'
      BY <1>1, <1>2, <1>3, <1>6, <2>5, <2>6 DEF EntryInv
    <2>10. CountInv'
      <3>1. ~Undecodable' => counted'.resolved = Cardinality(ResolvedTasks')
        BY <1>1, <1>2, <2>1, <2>2, <2>4, <2>7, CountStep
      <3>. QED
        BY <1>2, <2>7, <3>1 DEF CountInv
    <2>11. OwnTraces' /\ TracesTrue'
      BY <1>1, <1>2, <2>1, <2>2, <2>3, BackfillTrue DEF TraceInv
    <2>. QED
      BY <1>2, <2>5, <2>8, <2>9, <2>10, <2>11 DEF EvalInv, TraceInv
  <1>. QED
    BY <1>4, <1>5, <1>6 DEF FinishTask

(* A verdict of the judging that follows, by the check of the patches or   *)
(* by the harness.                                                         *)
LEMMA DockerVerdictStep ==
  ASSUME EvalInv, phase \in Judging, NEW t \in listed, stage[t] # "judged",
         NEW v \in Verdicts, DockerVerdict(t, v), listed' \in {listed, listed \ {t}},
         UNCHANGED <<runId, docker, valid, marks, patch, reports, attempt>>
  PROVE  EvalInv'
  <1>1. TypeOK /\ EntriesShape /\ StageInv /\ EntryInv /\ CountInv /\ TraceInv /\ ReportInv
    BY DEF EvalInv
  <1>2. t \in Tasks /\ docker /\ entries[t] = <<>> /\ stage[t] = "done"
    BY <1>1 DEF StageInv, EntryInv, TypeOK
  <1>3. /\ stage' \in [Tasks -> {"queued", "busy", "done", "judged"}] /\ stage'[t] = "judged"
        /\ \A x \in Tasks \ {t} : stage'[x] = stage[x]
    BY <1>1, <1>2 DEF DockerVerdict, TypeOK
  <1>4. phase' \in Judging \cup {"off"}
    BY DEF DockerVerdict
  <1>5. Enters(t, v)
    BY DEF DockerVerdict, Enters
  <1>6. Backfilled(t, v)
    BY DEF DockerVerdict, Backfilled
  <1>7. /\ traces' \in SUBSET Traces /\ IsFiniteSet(traces')
        /\ Undecodable => Undecodable'
    BY <1>1, <1>2, <1>6, BackfillStep
  <1>8. /\ entries' \in [Tasks -> Seq(Verdicts)] /\ EntriesShape'
        /\ entries'[t] # <<>> /\ \A x \in Tasks \ {t} : entries'[x] = entries[x]
    BY <1>1, <1>2, <1>5, <1>7, EntryStep
  <1>9. listed' \in SUBSET Tasks /\ \A x \in Tasks \ {t} : x \in listed' <=> x \in listed
    BY <1>1 DEF TypeOK
  <1>10. /\ counted' \in [total : Nat, resolved : Nat] /\ counted'.total = counted.total
         /\ counted'.resolved = counted.resolved + (IF v = "resolved" THEN 1 ELSE 0)
    <2>1. counted \in [total : Nat, resolved : Nat] /\ counted' = Count(v)
      BY <1>1 DEF DockerVerdict, TypeOK
    <2>. QED
      BY <2>1 DEF Count
  <1>11. TypeOK'
    BY <1>1, <1>3, <1>4, <1>7, <1>8, <1>9, <1>10 DEF TypeOK
  <1>12. StageInv'
    BY <1>1, <1>2, <1>3, <1>4 DEF StageInv, Judging
  <1>13. EntryInv'
    BY <1>1, <1>2, <1>3, <1>8, <1>9 DEF EntryInv
  <1>14. CountInv'
    <2>1. Begun' = Begun
      BY <1>1, <1>2, <1>3 DEF Begun, TypeOK
    <2>2. ~Undecodable' => counted'.resolved = Cardinality(ResolvedTasks')
      BY <1>1, <1>2, <1>5, <1>7, <1>10, CountStep
    <2>. QED
      BY <1>1, <1>10, <2>1, <2>2 DEF CountInv
  <1>15. TraceInv'
    <2>1. OwnTraces' /\ TracesTrue'
      BY <1>1, <1>2, <1>5, <1>6, BackfillTrue DEF TraceInv
    <2>. QED
      BY <1>4, <2>1 DEF TraceInv, Judging
  <1>16. ReportInv'
    BY <1>1 DEF ReportInv
  <1>. QED
    BY <1>8, <1>11, <1>12, <1>13, <1>14, <1>15, <1>16 DEF EvalInv

LEMMA RejectKeeps ==
  ASSUME EvalInv, NEW t \in Tasks, Reject(t)
  PROVE  EvalInv'
  <1>1. /\ phase \in Judging /\ t \in listed /\ stage[t] # "judged" /\ listed' \in {listed, listed \ {t}}
        /\ UNCHANGED <<runId, docker, valid, marks, patch, reports, attempt>>
    BY DEF Reject, Judging, setup
  <1>2. PICK v \in Verdicts : DockerVerdict(t, v)
    BY KindsAre DEF Reject, Verdicts
  <1>. QED
    BY <1>1, <1>2, DockerVerdictStep

LEMMA HarnessJudgesKeeps ==
  ASSUME EvalInv, NEW t \in Tasks, HarnessJudges(t)
  PROVE  EvalInv'
  <1>1. /\ phase \in Judging /\ t \in listed /\ stage[t] # "judged" /\ listed' \in {listed, listed \ {t}}
        /\ UNCHANGED <<runId, docker, valid, marks, patch, reports, attempt>>
    BY DEF HarnessJudges, Judging, setup
  <1>2. PICK v \in Verdicts : DockerVerdict(t, v)
    BY VerdictsAre DEF HarnessJudges
  <1>. QED
    BY <1>1, <1>2, DockerVerdictStep

(* The steps that leave tasks, report and traces alone.                    *)
LEMMA PhaseStep ==
  ASSUME EvalInv, phase' \in {"off", "working", "saved"} \cup Judging, StageInv',
         UNCHANGED <<runId, docker, valid, stage, marks, patch, entries, listed, counted, traces, attempt>>,
         phase' = "working" => phase = "working",
         reports' \in [RunIds -> SUBSET Reports], ReportInv'
  PROVE  EvalInv'
  <1>1. TypeOK /\ EntriesShape /\ EntryInv /\ CountInv /\ TraceInv
    BY DEF EvalInv
  <1>2. TypeOK'
    BY <1>1 DEF TypeOK
  <1>3. Undecodable' = Undecodable /\ Begun' = Begun /\ ResolvedTasks' = ResolvedTasks
    BY DEF Undecodable, Begun, ResolvedTasks
  <1>4. EntriesShape' /\ EntryInv' /\ CountInv'
    BY <1>1, <1>3 DEF EntriesShape, EntryInv, CountInv
  <1>5. TraceInv'
    BY <1>1, <1>3 DEF TraceInv, OwnTraces, TracesTrue
  <1>. QED
    BY <1>2, <1>4, <1>5 DEF EvalInv

LEMMA PrecheckKeeps == EvalInv /\ Precheck => EvalInv'
  <1>. SUFFICES ASSUME EvalInv, Precheck
                PROVE  EvalInv'
    OBVIOUS
  <1>1. /\ phase' = "precheck" /\ docker /\ \A t \in Tasks : stage[t] = "done"
        /\ UNCHANGED <<runId, docker, valid, stage, marks, patch, entries, listed, counted, traces, reports, attempt>>
    BY DEF Precheck, AllWorked, setup, report
  <1>2. StageInv'
    BY <1>1 DEF StageInv, Judging
  <1>3. reports' \in [RunIds -> SUBSET Reports] /\ ReportInv'
    BY <1>1 DEF EvalInv, TypeOK, ReportInv
  <1>. QED
    BY <1>1, <1>2, <1>3, PhaseStep DEF Judging

LEMMA RunHarnessKeeps == EvalInv /\ RunHarness => EvalInv'
  <1>. SUFFICES ASSUME EvalInv, RunHarness
                PROVE  EvalInv'
    OBVIOUS
  <1>1. /\ phase = "precheck" /\ phase' \in {"verdicts", "harness failed", "off"}
        /\ UNCHANGED <<runId, docker, valid, stage, marks, patch, entries, listed, counted, traces, reports, attempt>>
    BY DEF RunHarness, setup, report
  <1>2. StageInv'
    BY <1>1 DEF EvalInv, StageInv, Judging
  <1>3. reports' \in [RunIds -> SUBSET Reports] /\ ReportInv'
    BY <1>1 DEF EvalInv, TypeOK, ReportInv
  <1>. QED
    BY <1>1, <1>2, <1>3, PhaseStep DEF Judging

LEMMA SaveKeeps == EvalInv /\ Save => EvalInv'
  <1>. SUFFICES ASSUME EvalInv, Save
                PROVE  EvalInv'
    OBVIOUS
  <1>1. TypeOK /\ EntriesShape /\ StageInv /\ EntryInv /\ ReportInv
    BY DEF EvalInv
  <1>2. /\ phase' = "saved" /\ Judgement /\ reports' = [reports EXCEPT ![runId] = {Persisted}]
        /\ UNCHANGED <<runId, docker, valid, stage, marks, patch, entries, listed, counted, traces, attempt>>
    BY DEF Save, setup, report
  <1>3. Persisted \in Reports
    BY <1>1 DEF Persisted, Reports, TypeOK
  <1>4. StageInv'
    <2>1. CASE AllWorked /\ ~docker
      BY <1>2, <2>1 DEF StageInv, AllWorked, Judging
    <2>2. CASE phase \in {"verdicts", "harness failed"} /\ \A t \in listed : stage[t] = "judged"
      BY <1>1, <1>2, <2>2 DEF StageInv, Judging
    <2>. QED
      BY <1>2, <2>1, <2>2 DEF Judgement
  <1>5. ~docker => \A t \in Tasks : entries[t] # <<>> <=> t \in valid
    <2>1. ~docker => \A t \in Tasks : stage[t] = "done"
      BY <1>1, <1>2 DEF Judgement, AllWorked, StageInv, Judging
    <2>. QED
      BY <1>1, <2>1 DEF EntryInv
  <1>6. \A t \in Tasks : entries[t] # <<>> <=> Range(entries[t]) # {}
    <2>. SUFFICES ASSUME NEW t \in Tasks
                  PROVE  entries[t] # <<>> <=> Range(entries[t]) # {}
      OBVIOUS
    <2>1. CASE entries[t] = <<>>
      BY <2>1 DEF Range
    <2>2. CASE \E v \in Verdicts : entries[t] = << v >>
      BY <2>2 DEF Range
    <2>3. CASE \E v \in Verdicts : entries[t] = <<v, "harness_fault">>
      BY <2>3 DEF Range
    <2>. QED
      BY <1>1, <2>1, <2>2, <2>3 DEF EntriesShape
  <1>7. Persisted.resolved \cup Persisted.failed = {t \in Tasks : entries[t] # <<>>}
    <2>1. \A t \in Tasks : Range(entries[t]) # {} <=> \/ "resolved" \in Range(entries[t])
                                                     \/ Range(entries[t]) \ {"resolved"} # {}
      OBVIOUS
    <2>. QED
      BY <1>6, <2>1 DEF Persisted
  <1>8. ~Persisted.docker => Persisted.resolved \cup Persisted.failed = Tasks \ Persisted.invalid
    BY <1>1, <1>5, <1>7 DEF Persisted, TypeOK
  <1>9. reports' \in [RunIds -> SUBSET Reports] /\ ReportInv'
    BY <1>1, <1>2, <1>3, <1>8 DEF ReportInv, TypeOK
  <1>. QED
    BY <1>2, <1>4, <1>9, PhaseStep

(* A crash that leaves every trace readable has cut none.                  *)
LEMMA CrashKeeps == EvalInv /\ Crash => EvalInv'
  <1>. SUFFICES ASSUME EvalInv, Crash
                PROVE  EvalInv'
    OBVIOUS
  <1>1. TypeOK /\ EntriesShape /\ EntryInv /\ CountInv /\ TraceInv /\ ReportInv
    BY DEF EvalInv
  <1>2. /\ phase' = "off"
        /\ UNCHANGED <<runId, docker, valid, stage, marks, patch, entries, listed, counted, attempt>>
    BY DEF Crash, setup, report
  <1>3. PICK cut \in SUBSET {x \in traces : x.attempt = attempt /\ stage[x.task] = "busy"} :
          traces' = {IF x \in cut THEN [x EXCEPT !.whole = FALSE] ELSE x : x \in traces}
    BY DEF Crash
  <1>4. traces \in SUBSET Traces /\ IsFiniteSet(traces)
    BY <1>1 DEF TypeOK
  <1>5. traces' \in SUBSET Traces
    BY <1>3, <1>4, ZenonT(30) DEF Traces
  <1>6. IsFiniteSet(traces')
    <2>. DEFINE f == [x \in traces |-> IF x \in cut THEN [x EXCEPT !.whole = FALSE] ELSE x]
    <2>1. f \in Surjection(traces, traces')
      BY <1>3 DEF Surjection
    <2>. HIDE DEF f
    <2>. QED
      BY <1>4, <2>1, FS_Surjection
  <1>7. Undecodable => Undecodable'
    <2>. SUFFICES ASSUME NEW x \in traces, ~x.whole
                  PROVE  \E y \in traces' : ~y.whole
      BY DEF Undecodable
    <2>1. CASE x \in cut
      <3>1. [x EXCEPT !.whole = FALSE] \in traces'
        BY <1>3, <2>1
      <3>2. ~[x EXCEPT !.whole = FALSE].whole
        BY <1>4 DEF Traces
      <3>. QED
        BY <3>1, <3>2
    <2>2. CASE x \notin cut
      <3>1. x \in traces'
        BY <1>3, <2>2
      <3>. QED
        BY <3>1
    <2>. QED
      BY <2>1, <2>2
  <1>8. ~Undecodable' => traces' = traces
    <2>. SUFFICES ASSUME ~Undecodable'
                  PROVE  traces' = traces
      OBVIOUS
    <2>1. ASSUME NEW x \in cut
          PROVE  FALSE
      <3>1. [x EXCEPT !.whole = FALSE] \in traces'
        BY <1>3, <2>1
      <3>2. ~[x EXCEPT !.whole = FALSE].whole
        BY <1>4, <2>1 DEF Traces
      <3>. QED
        BY <3>1, <3>2 DEF Undecodable
    <2>. QED
      BY <1>3, <2>1
  <1>9. reports' \in [RunIds -> SUBSET Reports] /\ ReportInv'
    <2>1. reports' = reports \/ reports' = [reports EXCEPT ![runId] = {}]
      BY DEF Crash, NoReport
    <2>. QED
      BY <1>1, <2>1 DEF TypeOK, ReportInv
  <1>10. TypeOK'
    BY <1>1, <1>2, <1>5, <1>6, <1>9 DEF TypeOK
  <1>11. EntriesShape'
    BY <1>1, <1>2, <1>7 DEF EntriesShape
  <1>12. StageInv' /\ EntryInv'
    BY <1>1, <1>2 DEF StageInv, EntryInv, Judging
  <1>13. CountInv'
    <2>1. Begun' = Begun /\ ResolvedTasks' = ResolvedTasks
      BY <1>2 DEF Begun, ResolvedTasks
    <2>. QED
      BY <1>1, <1>2, <1>7, <2>1 DEF CountInv
  <1>14. TraceInv'
    <2>1. OwnTraces'
      <3>1. \A y \in traces' : \E x \in traces :
              y.attempt = x.attempt /\ y.run = x.run /\ y.mark = x.mark /\ y.task = x.task
        BY <1>3, <1>4 DEF Traces
      <3>. QED
        BY <1>1, <1>2, <3>1 DEF TraceInv, OwnTraces
    <2>2. TracesTrue'
      BY <1>1, <1>2, <1>7, <1>8 DEF TraceInv, TracesTrue
    <2>. QED
      BY <1>2, <2>1, <2>2 DEF TraceInv
  <1>. QED
    BY <1>9, <1>10, <1>11, <1>12, <1>13, <1>14 DEF EvalInv

-----------------------------------------------------------------------------
(* The theorems.                                                           *)

LEMMA EvalInit == Init => EvalInv
  <1>. SUFFICES ASSUME Init
                PROVE  EvalInv
    OBVIOUS
  <1>1. TypeOK
    <2>1. IsFiniteSet({}) /\ <<>> \in Seq(Verdicts)
      BY FS_EmptySet
    <2>2. /\ entries \in [Tasks -> Seq(Verdicts)] /\ patch \in [Tasks -> SUBSET {"runtime", "tests", "code"}]
          /\ stage \in [Tasks -> {"queued", "busy", "done", "judged"}]
          /\ marks \in [Tasks -> Tasks \cup {NoTask}]
      BY <2>1 DEF Init
    <2>3. reports \in [RunIds -> SUBSET Reports] /\ traces \in SUBSET Traces /\ IsFiniteSet(traces)
      BY <2>1 DEF Init, NoReport
    <2>. QED
      BY <2>2, <2>3 DEF Init, TypeOK
  <1>2. EntriesShape /\ StageInv /\ EntryInv
    BY DEF Init, EntriesShape, StageInv, EntryInv, Judging
  <1>3. CountInv
    <2>1. Begun = {} /\ ResolvedTasks = {}
      BY EntryLists DEF Init, Begun, ResolvedTasks
    <2>. QED
      BY <2>1, FS_EmptySet DEF Init, CountInv
  <1>4. TraceInv
    BY DEF Init, TraceInv, OwnTraces, TracesTrue
  <1>5. ReportInv
    BY DEF Init, ReportInv, NoReport
  <1>. QED
    BY <1>1, <1>2, <1>3, <1>4, <1>5 DEF EvalInv

LEMMA EvalStep == EvalInv /\ [Next]_vars => EvalInv'
  <1>. SUFFICES ASSUME EvalInv, [Next]_vars
                PROVE  EvalInv'
    OBVIOUS
  <1>1. CASE UNCHANGED vars
    <2>1. UNCHANGED <<phase, runId, docker, valid, stage, marks, patch, entries, listed, counted, traces, reports, attempt>>
      BY <1>1 DEF vars, setup, report
    <2>2. TypeOK /\ StageInv /\ ReportInv
      BY DEF EvalInv
    <2>3. StageInv' /\ ReportInv' /\ reports' \in [RunIds -> SUBSET Reports]
      BY <2>1, <2>2 DEF StageInv, ReportInv, TypeOK
    <2>. QED
      BY <2>1, <2>2, <2>3, PhaseStep DEF TypeOK
  <1>2. ASSUME NEW t \in Tasks,
               StartTask(t) \/ BeginTrace(t) \/ FinishTask(t) \/ Reject(t) \/ HarnessJudges(t)
        PROVE  EvalInv'
    BY <1>2, StartTaskKeeps, BeginTraceKeeps, FinishTaskKeeps, RejectKeeps, HarnessJudgesKeeps
  <1>. QED
    BY <1>1, <1>2, LaunchKeeps, PrecheckKeeps, RunHarnessKeeps, SaveKeeps, CrashKeeps DEF Next

(* The inductive invariant: where every task is, what its entry may be     *)
(* there, what has been counted, and what its traces say.                  *)
THEOREM EvalInvariant == Spec => []EvalInv
  BY EvalInit, EvalStep, PTL DEF Spec

(* Every variable of an evaluation keeps its type.                         *)
THEOREM EvalTypeCorrect == Spec => []TypeOK
  <1>1. EvalInv => TypeOK
    BY DEF EvalInv
  <1>. QED
    BY <1>1, EvalInvariant, PTL

(* A saved report has every task it worked on exactly once and counts what *)
(* it has, whatever raised on the way (_safe_task, _docker_judge_report).  *)
THEOREM EveryTaskCountedOnce == Spec => []CountedOnce
  <1>1. EvalInv => CountedOnce
    <2>. SUFFICES ASSUME EvalInv, phase = "saved", ~Undecodable
                  PROVE  /\ \A t \in valid : Len(entries[t]) = 1
                         /\ counted.resolved = Cardinality({t \in Tasks : entries[t] = <<"resolved">>})
                         /\ counted.total = Cardinality(valid)
      BY DEF CountedOnce, Sound
    <2>1. TypeOK /\ EntriesShape /\ StageInv /\ EntryInv /\ CountInv
      BY DEF EvalInv
    <2>2. \A t \in valid : Len(entries[t]) = 1
      <3>. SUFFICES ASSUME NEW t \in valid
                    PROVE  Len(entries[t]) = 1
        OBVIOUS
      <3>1. t \in Tasks /\ entries[t] # <<>>
        BY <2>1 DEF TypeOK, StageInv, EntryInv
      <3>2. \E v \in Verdicts : entries[t] = << v >>
        BY <2>1, <3>1 DEF EntriesShape
      <3>. QED
        BY <3>2
    <2>3. counted.total = Cardinality(valid)
      <3>1. Begun = valid
        BY <2>1 DEF Begun, TypeOK, StageInv
      <3>. QED
        BY <2>1, <3>1 DEF CountInv
    <2>. QED
      BY <2>1, <2>2, <2>3 DEF CountInv, ResolvedTasks
  <1>. QED
    BY <1>1, EvalInvariant, PTL

(* A trace made for a task in this evaluation ends with the verdict the    *)
(* report has of that task (set_trace_attributes, backfill_verdict).       *)
THEOREM TracesSayTheVerdict == Spec => []VerdictsTrue
  <1>1. EvalInv => VerdictsTrue
    <2>. SUFFICES ASSUME EvalInv, phase = "saved", ~Undecodable,
                         NEW t \in Tasks, NEW x \in Traced(t)
                  PROVE  /\ x \in LoadTraces(runId, t)
                         /\ \/ entries[x.task] = << x.verdict >>
                            \/ x.verdict = NoVerdict /\ entries[x.task] = <<"harness_fault">>
      BY DEF VerdictsTrue, Sound
    <2>1. TypeOK /\ StageInv /\ EntryInv /\ TraceInv
      BY DEF EvalInv
    <2>2. x \in traces /\ x.task = t /\ x.attempt = attempt
      BY DEF Traced
    <2>3. x \in LoadTraces(runId, t)
      BY <2>1, <2>2 DEF TraceInv, OwnTraces, LoadTraces, LoadOne, Undecodable
    <2>4. entries[t] # <<>>
      <3>1. t \in valid
        BY <2>1, <2>2 DEF TraceInv, OwnTraces
      <3>. QED
        BY <2>1, <3>1 DEF StageInv, EntryInv
    <2>5. \/ entries[x.task] = << x.verdict >>
          \/ x.verdict = NoVerdict /\ entries[x.task] \in {<<>>, <<"harness_fault">>}
      BY <2>1, <2>2 DEF TraceInv, TracesTrue
    <2>. QED
      BY <2>2, <2>3, <2>4, <2>5
  <1>. QED
    BY <1>1, EvalInvariant, PTL

(* Comparing two saved reports tells of a repair or a regression only      *)
(* where both evaluations worked on the task (diff_runs).                  *)
THEOREM DiffTellsOfBoth == Spec => []DiffTells
  <1>1. EvalInv => DiffTells
    <2>. SUFFICES ASSUME EvalInv, NEW r1 \in RunIds, NEW r2 \in RunIds,
                         NEW a \in reports[r1], NEW b \in reports[r2], ~a.docker, ~b.docker
                  PROVE  LET diff == DiffRuns(a, b)
                         IN /\ (diff.fail2pass \cup diff.pass2fail) \cap (a.invalid \cup b.invalid) = {}
                            /\ diff.onlyA \subseteq b.invalid /\ diff.onlyB \subseteq a.invalid
      BY DEF DiffTells
    <2>1. /\ Tasked(a) = Tasks \ a.invalid /\ Tasked(b) = Tasks \ b.invalid
      BY DEF EvalInv, ReportInv, Tasked
    <2>. QED
      BY <2>1 DEF DiffRuns
  <1>. QED
    BY <1>1, EvalInvariant, PTL
=============================================================================
