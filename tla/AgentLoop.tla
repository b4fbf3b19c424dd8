----------------------------- MODULE AgentLoop -----------------------------
(***************************************************************************)
(* The control of Agent.run (engine/agent.py): turns, the calls to the     *)
(* provider with their three kinds of repetition, preventive and emergency *)
(* compaction with the budgets of ContextManager (context/                 *)
(* context_manager.py), the tool phase with permission questions, and the  *)
(* reason the run stops for.  What enters the conversation is the subject  *)
(* of SessionStore.                                                        *)
(***************************************************************************)
EXTENDS Integers

CONSTANTS MaxIterations,        \* MAX_ITERATIONS
          TransientRetryMax,    \* TRANSIENT_RETRY_MAX
          TruncateLimit,        \* truncated replies of a turn that end the run
          CompactFailureLimit,  \* COMPACT_FAILURE_LIMIT
          HasContextManager,    \* the agent was given a ContextManager
          MaxRuns,              \* bound: runs of one agent
          MaxCalls,             \* bound: tool calls in one reply
          MaxManual             \* bound: compactions asked for by the UI

ASSUME AgentLoopAssumption ==
  /\ MaxIterations \in Nat \ {0} /\ TruncateLimit \in Nat \ {0}
  /\ CompactFailureLimit \in Nat \ {0} /\ TransientRetryMax \in Nat
  /\ MaxCalls \in Nat \ {0} /\ MaxRuns \in Nat /\ MaxManual \in Nat
  /\ HasContextManager \in BOOLEAN

VARIABLES pc,          \* where the run is
          runs,        \* runs started
          turn,        \* Agent._turn
          stopReason,  \* Agent._stop_reason
          truncated, transient, emergency,  \* retries of this turn
          autoFail, forceFail, circuitOpen, \* ContextManager's budgets
          left,        \* tool calls of this round not returned yet
          asking,      \* of these, the ones waiting for the user's verdict
          manual,      \* compactions asked for by the UI so far
          calls,       \* history: provider calls of this turn
          rounds,      \* history: complete tool rounds of this run
          compactions, \* history: compactions begun in this turn
          outcome      \* history: how the last provider call, or the last
                       \* forced compaction after it, ended

retries == <<truncated, transient, emergency>>
budgets == <<autoFail, forceFail, circuitOpen>>
tools == <<left, asking>>
vars == <<pc, runs, turn, stopReason, retries, budgets, tools, manual, calls,
          rounds, compactions, outcome>>

Ended == {"done", "raised"}
Awaiting == {"auto", "force", "llm", "emergency", "tools"}
StopReasons == {"completed", "max-iterations", "cancelled", "error", "context-full"}

-----------------------------------------------------------------------------
Stop(reason) == pc' = "done" /\ stopReason' = reason

(* Mutant: the reason of the run before is kept.                          *)
StartRunKeepingReason ==
  /\ pc \in {"idle"} \cup Ended /\ runs < MaxRuns
  /\ pc' = "turn" /\ runs' = runs + 1 /\ turn' = 0
  /\ rounds' = 0 /\ outcome' = "none"
  /\ UNCHANGED <<stopReason, retries, budgets, tools, manual, calls, compactions>>

(* _run_loop enters with turn 0 and the reason a run has unless it is told *)
(* otherwise.                                                              *)
StartRun ==
  /\ pc \in {"idle"} \cup Ended /\ runs < MaxRuns
  /\ pc' = "turn" /\ runs' = runs + 1 /\ turn' = 0
  /\ stopReason' = "completed"
  /\ rounds' = 0 /\ outcome' = "none"
  /\ UNCHANGED <<retries, budgets, tools, manual, calls, compactions>>

(* Mutant: one turn more than the limit before it stops.                  *)
ReachLimitLate ==
  /\ pc = "turn" /\ turn > MaxIterations
  /\ Stop("max-iterations")
  /\ UNCHANGED <<runs, turn, retries, budgets, tools, manual, calls, rounds,
                 compactions, outcome>>

ReachLimit ==
  /\ pc = "turn" /\ turn = MaxIterations
  /\ Stop("max-iterations")
  /\ UNCHANGED <<runs, turn, retries, budgets, tools, manual, calls, rounds,
                 compactions, outcome>>

(* The head of a turn: check_before_call finds the context small enough,   *)
(* above the auto line with the circuit closed, or above the force line.   *)
BeginTurn(check) ==
  /\ pc = "turn" /\ turn < MaxIterations
  /\ check # "llm" => HasContextManager
  /\ check = "auto" => ~circuitOpen
  /\ pc' = check
  /\ truncated' = 0 /\ transient' = 0 /\ emergency' = 0
  /\ calls' = 0 /\ compactions' = IF check = "llm" THEN 0 ELSE 1
  /\ UNCHANGED <<runs, turn, stopReason, budgets, tools, manual, rounds, outcome>>

-----------------------------------------------------------------------------
(* Mutant: a success leaves the circuit open.                             *)
ResetBudgetsOnly == autoFail' = 0 /\ forceFail' = 0 /\ UNCHANGED circuitOpen

(* ContextManager: success clears both budgets and closes the circuit.     *)
ResetBudgets == autoFail' = 0 /\ forceFail' = 0 /\ circuitOpen' = FALSE

AutoFails ==
  /\ autoFail' = autoFail + 1
  /\ IF autoFail + 1 >= CompactFailureLimit THEN circuitOpen' = TRUE ELSE UNCHANGED circuitOpen
  /\ UNCHANGED forceFail

ForceFails == forceFail' = forceFail + 1 /\ UNCHANGED <<autoFail, circuitOpen>>

(* auto_compact swallows its failure.                                      *)
FinishAuto ==
  /\ pc = "auto"
  /\ ResetBudgets \/ AutoFails
  /\ pc' = "llm"
  /\ UNCHANGED <<runs, turn, stopReason, retries, tools, manual, calls, rounds,
                 compactions, outcome>>

(* force_compact, before the call or after the provider found the prompt   *)
(* too long: the budget is used up, it succeeds, or its failure ends the   *)
(* run.                                                                    *)
ForceCompact ==
  \/ /\ forceFail < CompactFailureLimit
     /\ ResetBudgets /\ pc' = "llm" /\ UNCHANGED <<stopReason, outcome>>
  \/ /\ forceFail < CompactFailureLimit
     /\ ForceFails /\ Stop("error") /\ outcome' = "uncompacted"
  \/ /\ forceFail >= CompactFailureLimit
     /\ Stop("context-full") /\ outcome' = "uncompacted" /\ UNCHANGED budgets

FinishForce ==
  /\ pc = "force"
  /\ ForceCompact
  /\ UNCHANGED <<runs, turn, retries, tools, manual, calls, rounds, compactions>>

(* Mutant: the retry after an emergency compaction is not counted.        *)
FinishEmergencyUncounted ==
  /\ pc = "emergency"
  /\ ForceCompact
  /\ UNCHANGED <<runs, turn, retries, tools, manual, calls, rounds, compactions>>

FinishEmergency ==
  /\ pc = "emergency"
  /\ ForceCompact
  /\ emergency' = IF pc' = "llm" THEN emergency + 1 ELSE emergency
  /\ UNCHANGED <<runs, turn, truncated, transient, tools, manual, calls,
                 rounds, compactions>>

(* /compact and the compaction of a resumed session run in tasks of their  *)
(* own beside the loop; /compact (askBudget FALSE) never asks the budget.  *)
UICompact(askBudget) ==
  /\ HasContextManager /\ manual < MaxManual
  /\ askBudget => forceFail < CompactFailureLimit
  /\ ResetBudgets \/ ForceFails
  /\ manual' = manual + 1
  /\ UNCHANGED <<pc, runs, turn, stopReason, retries, tools, calls, rounds,
                 compactions, outcome>>

-----------------------------------------------------------------------------
(* One call of the provider ends.                                          *)
CallEnds(how) ==
  /\ pc = "llm"
  /\ calls' = calls + 1
  /\ outcome' = how
  /\ UNCHANGED <<runs, turn, budgets, manual, rounds>>

(* A text, or nothing at all, completes the run.                           *)
ReplyWithoutTools(how) ==
  /\ CallEnds(how)
  /\ pc' = "done"
  /\ UNCHANGED <<stopReason, retries, tools, compactions>>

ReplyWithTools(n) ==
  /\ CallEnds("tools")
  /\ pc' = "tools" /\ left' = n /\ asking' = 0
  /\ UNCHANGED <<stopReason, retries, compactions>>

ReplyTruncated ==
  /\ CallEnds("truncated")
  /\ truncated' = truncated + 1
  /\ IF truncated + 1 >= TruncateLimit THEN Stop("error") ELSE UNCHANGED <<pc, stopReason>>
  /\ UNCHANGED <<transient, emergency, tools, compactions>>

FailTransient ==
  /\ CallEnds("error")
  /\ IF transient < TransientRetryMax
     THEN transient' = transient + 1 /\ UNCHANGED <<pc, stopReason>>
     ELSE Stop("error") /\ UNCHANGED transient
  /\ UNCHANGED <<truncated, emergency, tools, compactions>>

FailTooLong ==
  /\ CallEnds("error")
  /\ IF emergency < 1 /\ HasContextManager
     THEN pc' = "emergency" /\ compactions' = compactions + 1 /\ UNCHANGED stopReason
     ELSE Stop("error") /\ UNCHANGED compactions
  /\ UNCHANGED <<retries, tools>>

FailForGood ==
  /\ CallEnds("error")
  /\ Stop("error")
  /\ UNCHANGED <<retries, tools, compactions>>

-----------------------------------------------------------------------------
(* The tool phase.                                                         *)
InTools ==
  /\ pc = "tools"
  /\ UNCHANGED <<runs, stopReason, retries, budgets, manual, calls, compactions, outcome>>

(* A call needs the user's verdict: it waits on a future only the UI sets. *)
AskPermission ==
  /\ InTools /\ left > asking
  /\ asking' = asking + 1
  /\ UNCHANGED <<pc, turn, left, rounds>>

(* A call comes back with a result, an error result, or a denial.          *)
CallReturns ==
  /\ InTools /\ left > asking
  /\ left' = left - 1
  /\ UNCHANGED <<pc, turn, asking, rounds>>

Answer ==
  /\ InTools /\ asking > 0
  /\ left' = left - 1 /\ asking' = asking - 1
  /\ UNCHANGED <<pc, turn, rounds>>

EndRound ==
  /\ InTools /\ left = 0
  /\ pc' = "turn" /\ turn' = turn + 1 /\ rounds' = rounds + 1
  /\ UNCHANGED tools

(* Storing an oversized result may raise, past every handler of the loop:  *)
(* the run ends by an exception, which leaves stopReason as it was.        *)
ResultsCannotBeStored ==
  /\ InTools /\ HasContextManager /\ asking = 0
  /\ pc' = "raised" /\ left' = 0 /\ asking' = 0
  /\ UNCHANGED <<turn, rounds>>

(* The user cancels: at whatever await the run is, it unwinds to _run_loop. *)
Cancel ==
  /\ pc \in Awaiting
  /\ Stop("cancelled")
  /\ left' = 0 /\ asking' = 0
  /\ UNCHANGED <<runs, turn, retries, budgets, manual, calls, rounds, compactions, outcome>>

-----------------------------------------------------------------------------
Init ==
  /\ pc = "idle" /\ runs = 0 /\ turn = 0 /\ stopReason = "completed"
  /\ truncated = 0 /\ transient = 0 /\ emergency = 0
  /\ autoFail = 0 /\ forceFail = 0 /\ circuitOpen = FALSE
  /\ left = 0 /\ asking = 0 /\ manual = 0
  /\ calls = 0 /\ rounds = 0 /\ compactions = 0 /\ outcome = "none"

(* What the run does by itself once it is given a turn.                    *)
Proceed ==
  \/ ReachLimit
  \/ \E check \in {"llm", "auto", "force"} : BeginTurn(check)
  \/ FinishAuto \/ FinishForce \/ FinishEmergency
  \/ \E how \in {"text", "empty"} : ReplyWithoutTools(how)
  \/ \E n \in 1..MaxCalls : ReplyWithTools(n)
  \/ ReplyTruncated \/ FailTransient \/ FailTooLong \/ FailForGood
  \/ EndRound

(* What happens to the calls of a round.                                   *)
CallsMove == AskPermission \/ Answer \/ CallReturns \/ ResultsCannotBeStored

Next ==
  \/ StartRun \/ Proceed \/ CallsMove \/ Cancel
  \/ \E askBudget \in BOOLEAN : UICompact(askBudget)

(* The event loop resumes a run whose await has completed, and the streams *)
(* of the provider end (its HTTP client has a timeout).  Nothing obliges a *)
(* tool to come back (TestRunner waits without a limit for the output of a *)
(* process it has killed, test_runner.py:272), nor the user to start,      *)
(* answer, cancel or compact.                                              *)
Spec == Init /\ [][Next]_vars /\ WF_vars(Proceed)

-----------------------------------------------------------------------------
(* Properties.                                                             *)

(* Every variable has its type.                                            *)
TypeOK ==
  /\ pc \in {"idle", "turn"} \cup Ended \cup Awaiting
  /\ runs \in Nat /\ manual \in Nat
  /\ autoFail \in Nat /\ forceFail \in Nat
  /\ left \in Nat /\ asking \in 0..left
  /\ truncated \in Nat /\ transient \in Nat
  /\ calls \in Nat /\ rounds \in Nat /\ compactions \in Nat
  /\ turn \in 0..MaxIterations
  /\ emergency \in 0..1
  /\ circuitOpen \in BOOLEAN
  /\ stopReason \in StopReasons
  /\ outcome \in {"none", "text", "empty", "tools", "truncated", "error", "uncompacted"}

(* The three kinds of repetition nest in one loop (agent.py:433): together *)
(* they allow a turn at most this many provider calls and two compactions, *)
(* whatever order the failures come in.                                    *)
CallsPerTurn == 1 + (TruncateLimit - 1) + TransientRetryMax + 1

EffortBounded == calls <= CallsPerTurn /\ compactions <= 2

(* Of every run that ends, one that an exception takes out of the loop     *)
(* included, the reason recorded with the trace names the way it ended:    *)
(* "max-iterations" only after that many tool rounds, "context-full" and   *)
(* "error" only after what they name; and "completed" exactly when the     *)
(* last reply asked for no tools, or when an exception was raised, whose   *)
(* run keeps the reason set before it (agent.py:345).                      *)
StopReasonTrue ==
  pc \in Ended =>
    /\ stopReason = "completed" <=> outcome \in {"text", "empty"} \/ pc = "raised"
    /\ stopReason = "max-iterations" => outcome = "tools" /\ rounds = MaxIterations
    /\ stopReason = "context-full" => outcome = "uncompacted"
    /\ stopReason = "error" => outcome \in {"truncated", "error", "uncompacted"}

(* What the trace promises to record (agent.py:348), the reason of the     *)
(* stop: a run recorded as completed did complete, however it left the     *)
(* loop.  A run that an exception ends is recorded as completed as well.   *)
CompletedIsComplete ==
  pc \in Ended /\ stopReason = "completed" => outcome \in {"text", "empty"}

(* The circuit opens at the limit and is open exactly then: it is never    *)
(* left open by a success, from whichever path that success came.          *)
CircuitFollowsBudget == circuitOpen <=> autoFail >= CompactFailureLimit

(* Every turn begun comes to the end of its run, as long as no round waits *)
(* for ever for a call: for a tool that never comes back, or for the       *)
(* user's verdict (_ask_permission awaits it without a limit).             *)
Terminates == []<>(left = 0) => (pc = "turn" ~> pc \in Ended)
=============================================================================
