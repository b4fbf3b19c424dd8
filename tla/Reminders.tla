----------------------------- MODULE Reminders -----------------------------
(***************************************************************************)
(* The reminders the agent writes into the conversation while it watches   *)
(* its own tool rounds (engine/agent.py, _update_circuit_breaker,          *)
(* _observe_todos, _checkpoint_round_end; thresholds in                    *)
(* harness/checkpoints.py): the circuit breaker over failing tools, the    *)
(* advice to replan, the refresh of a stale todo list, the check of what   *)
(* is declared done at a step boundary against what the conversation shows *)
(* was done, and the warning about a round that writes many files.         *)
(*                                                                         *)
(* The counters belong to the agent and live through all its runs; _turn   *)
(* begins at 0 in every run.                                               *)
(***************************************************************************)
EXTENDS Integers, FiniteSets

CONSTANTS CircuitBreakLimit,   \* CIRCUIT_BREAK_LIMIT
          ReplanTriggerCount,  \* REPLAN_TRIGGER_COUNT
          ReinjectCooldown,    \* REINJECT_COOLDOWN
          StaleTodoThreshold,  \* STALE_TODO_THRESHOLD
          LargeChangeThreshold,\* LARGE_CHANGE_THRESHOLD
          MaxTurns,            \* bound: rounds of a run
          MaxAgentRuns,        \* bound: runs
          MaxBatches,          \* bound: batches of a round
          MaxErrors            \* bound: failed calls of a batch

ASSUME RemindersAssumption ==
  /\ {CircuitBreakLimit, ReplanTriggerCount, ReinjectCooldown, StaleTodoThreshold,
      LargeChangeThreshold, MaxTurns, MaxAgentRuns, MaxBatches} \subseteq Nat \ {0}
  /\ MaxErrors \in Nat

VARIABLES run, roundTurn, \* runs begun; Agent._turn
          batches,     \* batches of the round so far, NoRound outside one
          failures,    \* _consecutive_failures
          triggers,    \* _circuit_breaker_triggers
          hasTodos,    \* _last_todos is not None
          idleBatches, \* _turns_since_todo_update, up to the threshold
          replanTurn, staleTurn, largeTurn,  \* the _*_inject_turn
          writes,      \* len(_round_write_paths)
          testShown,   \* the conversation shows a call of a test
          listShown,   \* the conversation shows a readable TodoWrite
          said,        \* the reminders written by this step
          tested,      \* history: a test of this session, asked for, answered
          idleRounds,  \* history: rounds with tools since the list was renewed
          quiet,       \* history: rounds begun since each kind was last said
          failedCalls  \* history: failed calls since a batch without any

counters == <<failures, triggers, hasTodos, idleBatches>>
turnsSaid == <<replanTurn, staleTurn, largeTurn>>
shown == <<testShown, listShown, tested>>
remindersVars == <<run, roundTurn, batches, counters, turnsSaid, writes, said,
                   idleRounds, quiet, failedCalls, shown>>

NoRound == -1
Never == -ReinjectCooldown - 1
Kinds == {"circuit", "replan", "boundary", "untested", "missing file", "stale"}
Repeated == {"replan", "stale", "large"}

Stuck == CircuitBreakLimit * ReplanTriggerCount

(* Ages are counted up to the limit they are compared with.                *)
Older(age, limit) == IF age < limit THEN age + 1 ELSE limit

(* What the last step of a task declared done asks for: a test, a file     *)
(* that is not there, or else a file that is, or nothing a machine checks. *)
NotDone == "none"
Criteria == {"test", "missing file", "other"}

-----------------------------------------------------------------------------
BeginRun ==
  /\ batches = NoRound /\ run < MaxAgentRuns
  /\ run' = run + 1 /\ roundTurn' = 0 /\ said' = {}
  /\ UNCHANGED <<batches, counters, turnsSaid, writes, idleRounds, quiet, failedCalls, shown>>

(* The reply with the calls of the round enters the conversation.          *)
BeginRound ==
  /\ batches = NoRound /\ run > 0 /\ roundTurn < MaxTurns
  /\ batches' = 0 /\ writes' = 0 /\ said' = {}
  /\ quiet' = [k \in Repeated |-> Older(quiet[k], ReinjectCooldown)]
  /\ \/ UNCHANGED <<testShown, tested>>
     \/ testShown' = TRUE /\ tested' = IF tested = "no" THEN "asked" ELSE tested
  /\ UNCHANGED <<run, roundTurn, counters, turnsSaid, listShown, idleRounds, failedCalls>>

(* _update_circuit_breaker on a batch of which `errors` calls failed.      *)
NewFailures(errors) == IF errors = 0 THEN 0 ELSE failures + errors
Opens(errors) == NewFailures(errors) >= CircuitBreakLimit
(* Mutant: progress does not clear the openings.                          *)
TriggersKept(errors) == triggers + (IF Opens(errors) THEN 1 ELSE 0)

NewTriggers(errors) ==
  (IF errors = 0 THEN 0 ELSE triggers) + (IF Opens(errors) THEN 1 ELSE 0)

Replans(errors) ==
  /\ Opens(errors)
  /\ NewTriggers(errors) >= ReplanTriggerCount
  /\ roundTurn - replanTurn >= ReinjectCooldown
  /\ hasTodos

UpdateCircuitBreaker(errors) ==
  /\ failures' = IF Opens(errors) THEN 0 ELSE NewFailures(errors)
  /\ triggers' = IF Replans(errors) THEN 0 ELSE NewTriggers(errors)
  /\ replanTurn' = IF Replans(errors) THEN roundTurn ELSE replanTurn

(* A batch has no TodoWrite, or one that gives a list, or one whose input  *)
(* is none: then the newest readable one of the conversation, if it still  *)
(* shows one, is taken for it (_latest_todo_input).                        *)
TodoCalls == {"none", "written", "unreadable"}

Renews(todo) == todo = "written" \/ (todo = "unreadable" /\ listShown)

(* _observe_todos: a list found renews the todos; a batch without TodoWrite *)
(* makes them older; a TodoWrite without a list does neither.              *)
NewIdle(todo) ==
  IF Renews(todo) THEN 0 ELSE IF todo = "none" THEN Older(idleBatches, StaleTodoThreshold)
  ELSE idleBatches

Stale(todo) ==
  /\ hasTodos \/ Renews(todo)
  /\ NewIdle(todo) >= StaleTodoThreshold
  /\ roundTurn - staleTurn >= ReinjectCooldown

(* Mutant: the turn of the reminder is not remembered.                     *)
StaleTurnForgotten(todo) ==
  /\ hasTodos' = (hasTodos \/ Renews(todo))
  /\ idleBatches' = NewIdle(todo)
  /\ UNCHANGED staleTurn

ObserveTodos(todo) ==
  /\ hasTodos' = (hasTodos \/ Renews(todo))
  /\ idleBatches' = NewIdle(todo)
  /\ staleTurn' = IF Stale(todo) THEN roundTurn ELSE staleTurn

(* todo_progress: with a list before, the latest TodoWrite of the          *)
(* conversation may declare a task done that was not; of several the first *)
(* counts.                                                                 *)
MayDeclare(todo, declared) == declared = NotDone \/ (todo = "written" /\ hasTodos)

(* _verify_step_boundary: what was declared is contradicted, or asked to   *)
(* be looked at again.                                                     *)
Verified(declared) ==
  CASE declared = "test" /\ ~testShown -> "untested"
    [] declared = "missing file" -> "missing file"
    [] OTHER -> "boundary"

Batch(errors, todo, declared, paths) ==
  /\ batches \in 0..(MaxBatches - 1)
  /\ MayDeclare(todo, declared)
  /\ UpdateCircuitBreaker(errors)
  /\ ObserveTodos(todo)
  /\ listShown' = (listShown \/ todo = "written")
  /\ writes' = writes + paths
  /\ batches' = batches + 1
  /\ said' = {k \in Kinds : \/ k = "circuit" /\ Opens(errors)
                            \/ k = "replan" /\ Replans(errors)
                            \/ k = Verified(declared) /\ declared # NotDone
                            \/ k = "stale" /\ Stale(todo)}
  /\ idleRounds' = IF Renews(todo) THEN 0
                   ELSE IF batches = 0 THEN Older(idleRounds, StaleTodoThreshold) ELSE idleRounds
  /\ quiet' = [k \in Repeated |-> IF k \in said' THEN 0 ELSE quiet[k]]
  /\ failedCalls' = IF errors = 0 THEN 0
                    ELSE IF failedCalls + errors > Stuck THEN Stuck ELSE failedCalls + errors
  /\ UNCHANGED <<run, roundTurn, largeTurn, testShown, tested>>

(* _checkpoint_round_end, then the next turn of _run_loop.                 *)
Large ==
  /\ writes >= LargeChangeThreshold
  /\ roundTurn - largeTurn >= ReinjectCooldown

CheckpointRoundEnd ==
  /\ batches > 0
  /\ batches' = NoRound /\ roundTurn' = roundTurn + 1
  /\ said' = IF Large THEN {"large"} ELSE {}
  /\ largeTurn' = IF Large THEN roundTurn ELSE largeTurn
  /\ quiet' = [quiet EXCEPT !["large"] = IF Large THEN 0 ELSE @]
  /\ tested' = IF tested = "asked" THEN "answered" ELSE tested
  /\ UNCHANGED <<run, counters, replanTurn, staleTurn, writes, idleRounds, failedCalls,
                 testShown, listShown>>

(* The user cancels in the middle of a round.                              *)
CancelRound ==
  /\ batches # NoRound
  /\ batches' = NoRound /\ roundTurn' = MaxTurns /\ said' = {}
  /\ tested' = IF tested = "asked" THEN "no" ELSE tested
  /\ UNCHANGED <<run, counters, turnsSaid, writes, idleRounds, quiet, failedCalls,
                 testShown, listShown>>

(* A summary takes the place of messages, and of the calls in them.        *)
Compact ==
  /\ batches = NoRound
  /\ testShown' \in {FALSE, testShown} /\ listShown' \in {FALSE, listShown}
  /\ said' = {}
  /\ UNCHANGED <<run, roundTurn, batches, counters, turnsSaid, writes, idleRounds, quiet,
                 failedCalls, tested>>

RemindersInit ==
  /\ run = 0 /\ roundTurn = 0 /\ batches = NoRound
  /\ failures = 0 /\ triggers = 0 /\ hasTodos = FALSE /\ idleBatches = 0
  /\ replanTurn = Never /\ staleTurn = Never /\ largeTurn = Never
  /\ writes = 0 /\ said = {} /\ testShown = FALSE /\ listShown = FALSE /\ tested = "no"
  /\ idleRounds = 0 /\ quiet = [k \in Repeated |-> ReinjectCooldown] /\ failedCalls = 0

RemindersNext ==
  \/ BeginRun \/ BeginRound \/ CheckpointRoundEnd \/ CancelRound \/ Compact
  \/ \E errors \in 0..MaxErrors, todo \in TodoCalls,
       declared \in Criteria \cup {NotDone}, paths \in 0..1 :
       Batch(errors, todo, declared, paths)

RemindersSpec == RemindersInit /\ [][RemindersNext]_remindersVars

-----------------------------------------------------------------------------
(* Properties.                                                             *)

(* The advice to replan takes that many openings of the breaker, hence     *)
(* that many failed calls, with no good batch between (agent.py:1015).     *)
ReplanOnlyWhenStuck == []["replan" \in said' => failedCalls' >= Stuck]_remindersVars

(* A repeated kind of reminder is not written again before as many rounds  *)
(* as the cooldown says have begun (checkpoints.py:29), though the turn it *)
(* is measured with begins anew with every run.                            *)
RemindersSpaced ==
  [][\A k \in Repeated \cap said' : quiet[k] >= ReinjectCooldown]_remindersVars

(* A todo list is refreshed after as many rounds of tools without an       *)
(* update as the threshold says (checkpoints.py:25), not before.  The code *)
(* counts batches, of which one round may have several.                    *)
RefreshedAfterRounds ==
  []["stale" \in said' => idleRounds' >= StaleTodoThreshold]_remindersVars

(* A list that is old enough by the code's own count is refreshed by the   *)
(* next batch, once the cooldown since the last refresh is over            *)
(* (checkpoints.py:25, 29).  The turn begins at 0 in a new run, the turn   *)
(* of the last refresh stays, and the refresh is withheld.                 *)
RefreshedWhenDue ==
  [][(/\ batches # NoRound /\ batches' = batches + 1
      /\ hasTodos' /\ idleBatches' >= StaleTodoThreshold
      /\ quiet["stale"] >= ReinjectCooldown) => "stale" \in said']_remindersVars

(* The warning that this session has run no test (agent.py:1145) is true:  *)
(* none was answered, in any run of the agent and by any tool.  A          *)
(* compaction takes the calls away that would show it.                     *)
AccusedRightly == []["untested" \in said' => tested # "answered"]_remindersVars
=============================================================================
