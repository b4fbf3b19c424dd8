---------------------------- MODULE AgentProofs -----------------------------
(***************************************************************************)
(* Theorems about the rounds of a run: AgentLoop, which controls them, and *)
(* Reminders, which watches them.                                          *)
(***************************************************************************)
EXTENDS AgentLoop, Reminders, TLAPS

-----------------------------------------------------------------------------
(***************************************************************************)
(* Theorems about AgentLoop, for every iteration limit, retry limit and    *)
(* budget: its variables keep their types, a turn's effort is bounded      *)
(* whatever order the failures come in, and the recorded stop reason is    *)
(* the true one.                                                           *)
(***************************************************************************)

(* What the three retry counters say about the calls made so far, at each  *)
(* place where the next call or compaction of the turn may begin.          *)
EffortInv ==
  /\ pc \in {"auto", "force"} => /\ calls = 0 /\ truncated = 0
                                 /\ transient = 0 /\ emergency = 0
                                 /\ compactions = 1
  /\ pc = "llm" => /\ calls = truncated + transient + emergency
                   /\ truncated < TruncateLimit
                   /\ transient <= TransientRetryMax
                   /\ compactions <= 1 + emergency
  /\ pc = "emergency" => /\ calls = truncated + transient + 1
                         /\ truncated < TruncateLimit
                         /\ transient <= TransientRetryMax
                         /\ emergency = 0

(* Until it ends, a run keeps the reason it began with, has made one tool  *)
(* round per turn, and comes to a later turn from a tool round only.       *)
ReasonInv ==
  /\ pc \in {"turn"} \cup Awaiting => /\ stopReason = "completed" /\ rounds = turn
                                      /\ outcome \notin {"text", "empty"}
  /\ pc \in Awaiting => turn < MaxIterations
  /\ pc = "turn" /\ turn > 0 => outcome = "tools"
  /\ pc = "tools" => outcome = "tools"

LoopInv == TypeOK /\ EffortInv /\ EffortBounded /\ ReasonInv /\ StopReasonTrue
             /\ CircuitFollowsBudget

-----------------------------------------------------------------------------
LEMMA LoopInvInit == ASSUME Init PROVE LoopInv
  <1>. USE AgentLoopAssumption
  <1>1. TypeOK
    <2>1. pc \in {"idle", "turn"} \cup Ended \cup Awaiting
      BY DEF Init
    <2>2. circuitOpen \in BOOLEAN
      BY DEF Init
    <2>3. left \in Nat /\ asking \in 0..left /\ turn \in 0..MaxIterations
      BY DEF Init
    <2>4. stopReason \in StopReasons
      BY DEF Init, StopReasons
    <2>. QED
      BY <2>1, <2>2, <2>3, <2>4 DEF Init, TypeOK
  <1>2. EffortInv /\ EffortBounded
    BY DEF Init, EffortInv, EffortBounded, CallsPerTurn
  <1>3. ReasonInv /\ StopReasonTrue
    BY DEF Init, ReasonInv, StopReasonTrue, Awaiting, Ended
  <1>4. CircuitFollowsBudget
    BY DEF Init, CircuitFollowsBudget
  <1>. QED
    BY <1>1, <1>2, <1>3, <1>4 DEF LoopInv

(* However a compaction ends, the budgets keep their types.                 *)
LEMMA BudgetType ==
  ASSUME TypeOK, ResetBudgets \/ AutoFails \/ ForceFails
  PROVE  autoFail' \in Nat /\ forceFail' \in Nat /\ circuitOpen' \in BOOLEAN
  <1>1. CASE ResetBudgets
    BY <1>1 DEF ResetBudgets
  <1>2. CASE AutoFails
    <2>1. circuitOpen' \in BOOLEAN
      BY <1>2 DEF TypeOK, AutoFails
    <2>2. autoFail' \in Nat /\ forceFail' \in Nat
      BY <1>2 DEF TypeOK, AutoFails
    <2>. QED
      BY <2>1, <2>2
  <1>3. CASE ForceFails
    <2>1. circuitOpen' \in BOOLEAN
      BY <1>3 DEF TypeOK, ForceFails
    <2>2. autoFail' \in Nat /\ forceFail' \in Nat
      BY <1>3 DEF TypeOK, ForceFails
    <2>. QED
      BY <2>1, <2>2
  <1>. QED
    BY <1>1, <1>2, <1>3

(* No action takes a variable out of its type.                              *)
LEMMA TypeStep ==
  ASSUME LoopInv, [Next]_vars PROVE TypeOK'
  <1>. USE AgentLoopAssumption DEF LoopInv, TypeOK, ReasonInv, Awaiting, Ended, StopReasons,
          retries, budgets, tools
  <1>1. CASE StartRun
    BY <1>1 DEF StartRun
  <1>2. CASE ReachLimit
    BY <1>2 DEF ReachLimit, Stop
  <1>3. ASSUME NEW check \in {"llm", "auto", "force"}, BeginTurn(check) PROVE TypeOK'
    BY <1>3 DEF BeginTurn
  <1>4. CASE FinishAuto
    <2>1. autoFail' \in Nat /\ forceFail' \in Nat /\ circuitOpen' \in BOOLEAN
      BY <1>4, BudgetType DEF FinishAuto
    <2>. QED
      BY <1>4, <2>1 DEF FinishAuto
  <1>5. CASE FinishForce
    <2>1. autoFail' \in Nat /\ forceFail' \in Nat /\ circuitOpen' \in BOOLEAN
      <3>1. CASE UNCHANGED budgets
        BY <3>1
      <3>. QED
        BY <1>5, <3>1, BudgetType DEF FinishForce, ForceCompact
    <2>. QED
      BY <1>5, <2>1 DEF FinishForce, ForceCompact, Stop
  <1>6. CASE FinishEmergency
    <2>1. autoFail' \in Nat /\ forceFail' \in Nat /\ circuitOpen' \in BOOLEAN
      <3>1. CASE UNCHANGED budgets
        BY <3>1
      <3>. QED
        BY <1>6, <3>1, BudgetType DEF FinishEmergency, ForceCompact
    <2>. QED
      BY <1>6, <2>1 DEF FinishEmergency, ForceCompact, Stop, EffortInv
  <1>7. ASSUME NEW how \in {"text", "empty"}, ReplyWithoutTools(how) PROVE TypeOK'
    BY <1>7 DEF ReplyWithoutTools, CallEnds
  <1>8. ASSUME NEW n \in 1..MaxCalls, ReplyWithTools(n) PROVE TypeOK'
    BY <1>8 DEF ReplyWithTools, CallEnds
  <1>9. CASE ReplyTruncated
    BY <1>9 DEF ReplyTruncated, CallEnds, Stop
  <1>10. CASE FailTransient
    BY <1>10 DEF FailTransient, CallEnds, Stop
  <1>11. CASE FailTooLong
    BY <1>11 DEF FailTooLong, CallEnds, Stop
  <1>12. CASE FailForGood
    BY <1>12 DEF FailForGood, CallEnds, Stop
  <1>13. CASE AskPermission
    BY <1>13 DEF AskPermission, InTools
  <1>14. CASE CallReturns
    BY <1>14 DEF CallReturns, InTools
  <1>15. CASE EndRound
    BY <1>15 DEF EndRound, InTools
  <1>16. CASE ResultsCannotBeStored
    BY <1>16 DEF ResultsCannotBeStored, InTools
  <1>17. CASE Answer
    BY <1>17 DEF Answer, InTools
  <1>18. CASE Cancel
    BY <1>18 DEF Cancel, Stop
  <1>19. ASSUME NEW askBudget \in BOOLEAN, UICompact(askBudget) PROVE TypeOK'
    <2>1. autoFail' \in Nat /\ forceFail' \in Nat /\ circuitOpen' \in BOOLEAN
      BY <1>19, BudgetType DEF UICompact
    <2>. QED
      BY <1>19, <2>1 DEF UICompact
  <1>20. CASE UNCHANGED vars
    BY <1>20 DEF vars
  <1>. QED
    BY <1>1, <1>2, <1>3, <1>4, <1>5, <1>6, <1>7, <1>8, <1>9, <1>10, <1>11,
       <1>12, <1>13, <1>14, <1>15, <1>16, <1>17, <1>18, <1>19, <1>20 DEF
       Next, Proceed, CallsMove

(* No action makes a call or compaction that its counters do not pay for.   *)
LEMMA EffortStep ==
  ASSUME LoopInv, [Next]_vars PROVE (EffortInv /\ EffortBounded)'
  <1>. USE AgentLoopAssumption DEF LoopInv, TypeOK, EffortInv, EffortBounded, CallsPerTurn,
          retries, budgets, tools
  <1>1. CASE StartRun
    BY <1>1 DEF StartRun
  <1>2. CASE ReachLimit
    BY <1>2 DEF ReachLimit, Stop
  <1>3. ASSUME NEW check \in {"llm", "auto", "force"}, BeginTurn(check) PROVE (EffortInv /\ EffortBounded)'
    BY <1>3 DEF BeginTurn
  <1>4. CASE FinishAuto
    BY <1>4 DEF FinishAuto, ResetBudgets, AutoFails
  <1>5. CASE FinishForce
    BY <1>5 DEF FinishForce, ForceCompact, ResetBudgets, ForceFails, Stop
  <1>6. CASE FinishEmergency
    BY <1>6 DEF FinishEmergency, ForceCompact, ResetBudgets, ForceFails,
       Stop
  <1>7. ASSUME NEW how \in {"text", "empty"}, ReplyWithoutTools(how) PROVE (EffortInv /\ EffortBounded)'
    BY <1>7 DEF ReplyWithoutTools, CallEnds
  <1>8. ASSUME NEW n \in 1..MaxCalls, ReplyWithTools(n) PROVE (EffortInv /\ EffortBounded)'
    BY <1>8 DEF ReplyWithTools, CallEnds
  <1>9. CASE ReplyTruncated
    BY <1>9 DEF ReplyTruncated, CallEnds, Stop
  <1>10. CASE FailTransient
    BY <1>10 DEF FailTransient, CallEnds, Stop
  <1>11. CASE FailTooLong
    BY <1>11 DEF FailTooLong, CallEnds, Stop
  <1>12. CASE FailForGood
    BY <1>12 DEF FailForGood, CallEnds, Stop
  <1>13. CASE AskPermission
    BY <1>13 DEF AskPermission, InTools
  <1>14. CASE CallReturns
    BY <1>14 DEF CallReturns, InTools
  <1>15. CASE EndRound
    BY <1>15 DEF EndRound, InTools
  <1>16. CASE ResultsCannotBeStored
    BY <1>16 DEF ResultsCannotBeStored, InTools
  <1>17. CASE Answer
    BY <1>17 DEF Answer, InTools
  <1>18. CASE Cancel
    BY <1>18 DEF Cancel, Stop
  <1>19. ASSUME NEW askBudget \in BOOLEAN, UICompact(askBudget) PROVE (EffortInv /\ EffortBounded)'
    BY <1>19 DEF UICompact, ResetBudgets, ForceFails
  <1>20. CASE UNCHANGED vars
    BY <1>20 DEF vars
  <1>. QED
    BY <1>1, <1>2, <1>3, <1>4, <1>5, <1>6, <1>7, <1>8, <1>9, <1>10, <1>11,
       <1>12, <1>13, <1>14, <1>15, <1>16, <1>17, <1>18, <1>19, <1>20 DEF
       Next, Proceed, CallsMove

(* Every action that ends the run gives the reason that fits.               *)
LEMMA ReasonStep ==
  ASSUME LoopInv, [Next]_vars PROVE (ReasonInv /\ StopReasonTrue)'
  <1>. USE AgentLoopAssumption DEF LoopInv, TypeOK, ReasonInv, StopReasonTrue, Awaiting,
          Ended, retries, budgets, tools
  <1>1. CASE StartRun
    BY <1>1 DEF StartRun
  <1>2. CASE ReachLimit
    BY <1>2 DEF ReachLimit, Stop
  <1>3. ASSUME NEW check \in {"llm", "auto", "force"}, BeginTurn(check) PROVE (ReasonInv /\ StopReasonTrue)'
    BY <1>3 DEF BeginTurn
  <1>4. CASE FinishAuto
    BY <1>4 DEF FinishAuto, ResetBudgets, AutoFails
  <1>5. CASE FinishForce
    BY <1>5 DEF FinishForce, ForceCompact, ResetBudgets, ForceFails, Stop
  <1>6. CASE FinishEmergency
    BY <1>6 DEF FinishEmergency, ForceCompact, ResetBudgets, ForceFails,
       Stop
  <1>7. ASSUME NEW how \in {"text", "empty"}, ReplyWithoutTools(how) PROVE (ReasonInv /\ StopReasonTrue)'
    BY <1>7 DEF ReplyWithoutTools, CallEnds
  <1>8. ASSUME NEW n \in 1..MaxCalls, ReplyWithTools(n) PROVE (ReasonInv /\ StopReasonTrue)'
    BY <1>8 DEF ReplyWithTools, CallEnds
  <1>9. CASE ReplyTruncated
    BY <1>9 DEF ReplyTruncated, CallEnds, Stop
  <1>10. CASE FailTransient
    BY <1>10 DEF FailTransient, CallEnds, Stop
  <1>11. CASE FailTooLong
    BY <1>11 DEF FailTooLong, CallEnds, Stop
  <1>12. CASE FailForGood
    BY <1>12 DEF FailForGood, CallEnds, Stop
  <1>13. CASE AskPermission
    BY <1>13 DEF AskPermission, InTools
  <1>14. CASE CallReturns
    BY <1>14 DEF CallReturns, InTools
  <1>15. CASE EndRound
    BY <1>15 DEF EndRound, InTools
  <1>16. CASE ResultsCannotBeStored
    BY <1>16 DEF ResultsCannotBeStored, InTools
  <1>17. CASE Answer
    BY <1>17 DEF Answer, InTools
  <1>18. CASE Cancel
    BY <1>18 DEF Cancel, Stop
  <1>19. ASSUME NEW askBudget \in BOOLEAN, UICompact(askBudget) PROVE (ReasonInv /\ StopReasonTrue)'
    BY <1>19 DEF UICompact, ResetBudgets, ForceFails
  <1>20. CASE UNCHANGED vars
    BY <1>20 DEF vars
  <1>. QED
    BY <1>1, <1>2, <1>3, <1>4, <1>5, <1>6, <1>7, <1>8, <1>9, <1>10, <1>11,
       <1>12, <1>13, <1>14, <1>15, <1>16, <1>17, <1>18, <1>19, <1>20 DEF
       Next, Proceed, CallsMove

(* The circuit opens with the last failure of the budget, closes with it.   *)
LEMMA CircuitStep ==
  ASSUME LoopInv, [Next]_vars PROVE CircuitFollowsBudget'
  <1>. USE AgentLoopAssumption DEF LoopInv, TypeOK, CircuitFollowsBudget, retries, budgets,
          tools
  <1>1. CASE StartRun
    BY <1>1 DEF StartRun
  <1>2. CASE ReachLimit
    BY <1>2 DEF ReachLimit, Stop
  <1>3. ASSUME NEW check \in {"llm", "auto", "force"}, BeginTurn(check) PROVE CircuitFollowsBudget'
    BY <1>3 DEF BeginTurn
  <1>4. CASE FinishAuto
    BY <1>4 DEF FinishAuto, ResetBudgets, AutoFails
  <1>5. CASE FinishForce
    BY <1>5 DEF FinishForce, ForceCompact, ResetBudgets, ForceFails, Stop
  <1>6. CASE FinishEmergency
    BY <1>6 DEF FinishEmergency, ForceCompact, ResetBudgets, ForceFails,
       Stop
  <1>7. ASSUME NEW how \in {"text", "empty"}, ReplyWithoutTools(how) PROVE CircuitFollowsBudget'
    BY <1>7 DEF ReplyWithoutTools, CallEnds
  <1>8. ASSUME NEW n \in 1..MaxCalls, ReplyWithTools(n) PROVE CircuitFollowsBudget'
    BY <1>8 DEF ReplyWithTools, CallEnds
  <1>9. CASE ReplyTruncated
    BY <1>9 DEF ReplyTruncated, CallEnds, Stop
  <1>10. CASE FailTransient
    BY <1>10 DEF FailTransient, CallEnds, Stop
  <1>11. CASE FailTooLong
    BY <1>11 DEF FailTooLong, CallEnds, Stop
  <1>12. CASE FailForGood
    BY <1>12 DEF FailForGood, CallEnds, Stop
  <1>13. CASE AskPermission
    BY <1>13 DEF AskPermission, InTools
  <1>14. CASE CallReturns
    BY <1>14 DEF CallReturns, InTools
  <1>15. CASE EndRound
    BY <1>15 DEF EndRound, InTools
  <1>16. CASE ResultsCannotBeStored
    BY <1>16 DEF ResultsCannotBeStored, InTools
  <1>17. CASE Answer
    BY <1>17 DEF Answer, InTools
  <1>18. CASE Cancel
    BY <1>18 DEF Cancel, Stop
  <1>19. ASSUME NEW askBudget \in BOOLEAN, UICompact(askBudget) PROVE CircuitFollowsBudget'
    BY <1>19 DEF UICompact, ResetBudgets, ForceFails
  <1>20. CASE UNCHANGED vars
    BY <1>20 DEF vars
  <1>. QED
    BY <1>1, <1>2, <1>3, <1>4, <1>5, <1>6, <1>7, <1>8, <1>9, <1>10, <1>11,
       <1>12, <1>13, <1>14, <1>15, <1>16, <1>17, <1>18, <1>19, <1>20 DEF
       Next, Proceed, CallsMove

THEOREM LoopInvariant == Spec => []LoopInv
  <1>1. Init => LoopInv
    BY LoopInvInit
  <1>2. LoopInv /\ [Next]_vars => LoopInv'
    BY TypeStep, EffortStep, ReasonStep, CircuitStep DEF LoopInv
  <1>. QED
    BY <1>1, <1>2, PTL DEF Spec

-----------------------------------------------------------------------------
(* The variables of the loop keep their types, for any limits.             *)
THEOREM TypeCorrect == Spec => []TypeOK
  <1>1. LoopInv => TypeOK
    BY DEF LoopInv
  <1>. QED
    BY <1>1, LoopInvariant, PTL

(* A turn makes at most CallsPerTurn provider calls and two compactions:   *)
(* the three repetitions in one loop of agent.py:433 cannot feed on each   *)
(* other, whatever limits they are given.                                  *)
THEOREM EffortIsBounded == Spec => []EffortBounded
  <1>1. LoopInv => EffortBounded
    BY DEF LoopInv
  <1>. QED
    BY <1>1, LoopInvariant, PTL

(* The stop reason of every run that ended, by an exception too, names the *)
(* way it ended; "completed" stands for two, a last reply and an exception.*)
THEOREM StopReasonIsTrue == Spec => []StopReasonTrue
  <1>1. LoopInv => StopReasonTrue
    BY DEF LoopInv
  <1>. QED
    BY <1>1, LoopInvariant, PTL

(* The automatic path is shut off exactly while its budget is used up.     *)
THEOREM CircuitIsBudget == Spec => []CircuitFollowsBudget
  <1>1. LoopInv => CircuitFollowsBudget
    BY DEF LoopInv
  <1>. QED
    BY <1>1, LoopInvariant, PTL

-----------------------------------------------------------------------------
(***************************************************************************)
(* Theorems about Reminders, for any thresholds: the advice to replan      *)
(* comes only when the agent is stuck, and a repeated reminder waits out   *)
(* its cooldown, in whichever runs of the agent.  The agent keeps a turn   *)
(* for each kind of reminder and counters of failures; the invariant says  *)
(* what these tell of the rounds and calls that really were (quiet,        *)
(* failedCalls).                                                           *)
(***************************************************************************)

CountersOK ==
  /\ run \in Nat /\ roundTurn \in 0..MaxTurns
  /\ batches \in 0..MaxBatches \cup {NoRound}
  /\ failures \in Nat /\ triggers \in Nat /\ hasTodos \in BOOLEAN
  /\ idleBatches \in 0..StaleTodoThreshold
  /\ {replanTurn, staleTurn, largeTurn} \subseteq Nat \cup {Never}
  /\ writes \in Nat /\ {testShown, listShown} \subseteq BOOLEAN
  /\ said \subseteq Kinds \cup Repeated
  /\ tested \in {"no", "asked", "answered"}
  /\ idleRounds \in 0..StaleTodoThreshold
  /\ quiet \in [Repeated -> 0..ReinjectCooldown]
  /\ failedCalls \in 0..Stuck

(* The failures counted now and those the openings stand for were all      *)
(* failed calls with no good batch between.                                *)
StuckInv == failedCalls = Stuck \/ triggers * CircuitBreakLimit + failures <= failedCalls

(* What the turn of a reminder tells of the rounds since: the cooldown is  *)
(* over, or at least as many rounds began as turns went by, counting the   *)
(* next one; a run at its last turn begins no more.                        *)
Since(at, since, b, t) ==
  \/ since = ReinjectCooldown
  \/ /\ at \in Nat
     /\ \/ b # NoRound /\ t - at <= since
        \/ b = NoRound /\ (t = MaxTurns \/ t - at <= since + 1)

AgeInv ==
  /\ Since(replanTurn, quiet["replan"], batches, roundTurn)
  /\ Since(staleTurn, quiet["stale"], batches, roundTurn)
  /\ Since(largeTurn, quiet["large"], batches, roundTurn)
  /\ batches # NoRound => roundTurn < MaxTurns

RemindersInv == CountersOK /\ StuckInv /\ AgeInv

-----------------------------------------------------------------------------
(* Arithmetic on the thresholds.                                           *)
LEMMA Thresholds ==
  /\ CircuitBreakLimit \in Nat \ {0} /\ ReplanTriggerCount \in Nat \ {0}
  /\ ReinjectCooldown \in Nat \ {0} /\ StaleTodoThreshold \in Nat \ {0}
  /\ LargeChangeThreshold \in Nat \ {0} /\ MaxTurns \in Nat \ {0} /\ MaxBatches \in Nat \ {0}
  /\ MaxErrors \in Nat
  BY RemindersAssumption

LEMMA Multiples ==
  ASSUME NEW a \in Nat, NEW b \in Nat, NEW c \in Nat
  PROVE  /\ a * c \in Nat /\ (a + 1) * c = a * c + c
         /\ a >= b => a * c >= b * c
  OBVIOUS

LEMMA StuckIs == Stuck \in Nat /\ Stuck = ReplanTriggerCount * CircuitBreakLimit
  BY Thresholds DEF Stuck

(* The breaker over a batch: what it counts stands for failed calls.       *)
LEMMA BreakerStep ==
  ASSUME CountersOK, StuckInv, NEW errors \in 0..MaxErrors, UpdateCircuitBreaker(errors),
         failedCalls' = IF errors = 0 THEN 0
                        ELSE IF failedCalls + errors > Stuck THEN Stuck ELSE failedCalls + errors
  PROVE  /\ failures' \in Nat /\ triggers' \in Nat /\ failedCalls' \in 0..Stuck
         /\ StuckInv'
         /\ Replans(errors) => failedCalls' = Stuck
  <1>1. /\ failures \in Nat /\ triggers \in Nat /\ failedCalls \in 0..Stuck /\ errors \in Nat
        /\ Stuck \in Nat /\ CircuitBreakLimit \in Nat \ {0}
    BY Thresholds, StuckIs DEF CountersOK
  <1>2. failedCalls' \in 0..Stuck
    BY <1>1
  <1>3. NewFailures(errors) \in Nat /\ NewTriggers(errors) \in Nat
    BY <1>1 DEF NewFailures, NewTriggers
  <1>4. failures' \in Nat /\ triggers' \in Nat
    BY <1>3 DEF UpdateCircuitBreaker
  <1>5. \/ failedCalls' = Stuck
        \/ NewTriggers(errors) * CircuitBreakLimit + (IF Opens(errors) THEN 0 ELSE NewFailures(errors))
             <= failedCalls'
    <2>1. CASE errors = 0
      <3>1. ~Opens(errors) /\ NewTriggers(errors) = 0 /\ NewFailures(errors) = 0
        BY <1>1, <2>1 DEF Opens, NewFailures, NewTriggers
      <3>. QED
        BY <1>1, <2>1, <3>1
    <2>2. CASE errors # 0 /\ failedCalls + errors <= Stuck
      <3>1. failedCalls' = failedCalls + errors /\ failedCalls # Stuck
        BY <1>1, <2>2
      <3>2. triggers * CircuitBreakLimit + failures <= failedCalls /\ triggers * CircuitBreakLimit \in Nat
        BY <1>1, <3>1, Multiples DEF StuckInv
      <3>3. CASE Opens(errors)
        <4>1. NewTriggers(errors) = triggers + 1 /\ failures + errors >= CircuitBreakLimit
          BY <1>1, <2>2, <3>3 DEF NewTriggers, Opens, NewFailures
        <4>2. NewTriggers(errors) * CircuitBreakLimit = triggers * CircuitBreakLimit + CircuitBreakLimit
          BY <1>1, <4>1, Multiples
        <4>. QED
          BY <1>1, <3>1, <3>2, <3>3, <4>1, <4>2
      <3>4. CASE ~Opens(errors)
        <4>1. NewTriggers(errors) = triggers /\ NewFailures(errors) = failures + errors
          BY <1>1, <2>2, <3>4 DEF NewTriggers, NewFailures
        <4>. QED
          BY <1>1, <3>1, <3>2, <3>4, <4>1
      <3>. QED
        BY <3>3, <3>4
    <2>3. CASE errors # 0 /\ failedCalls + errors > Stuck
      BY <2>3
    <2>. QED
      BY <1>1, <2>1, <2>2, <2>3
  <1>6. Replans(errors) => failedCalls' = Stuck
    <2>. SUFFICES ASSUME Replans(errors), failedCalls' # Stuck
                  PROVE  FALSE
      OBVIOUS
    <2>1. NewTriggers(errors) >= ReplanTriggerCount /\ Opens(errors)
      BY DEF Replans
    <2>2. NewTriggers(errors) * CircuitBreakLimit >= ReplanTriggerCount * CircuitBreakLimit
      BY <1>1, <1>3, <2>1, Thresholds, Multiples
    <2>3. NewTriggers(errors) * CircuitBreakLimit \in Nat
      BY <1>1, <1>3, Multiples
    <2>4. NewTriggers(errors) * CircuitBreakLimit <= failedCalls'
      BY <1>2, <1>5, <2>1, <2>3
    <2>. QED
      BY <1>1, <1>2, <2>2, <2>3, <2>4, StuckIs
  <1>7. StuckInv'
    <2>1. CASE Replans(errors)
      BY <1>6, <2>1 DEF StuckInv, Stuck
    <2>2. CASE ~Replans(errors)
      <3>1. /\ triggers' = NewTriggers(errors)
            /\ failures' = IF Opens(errors) THEN 0 ELSE NewFailures(errors)
        BY <2>2 DEF UpdateCircuitBreaker
      <3>. QED
        BY <1>5, <3>1 DEF StuckInv, Stuck
    <2>. QED
      BY <2>1, <2>2
  <1>. QED
    BY <1>2, <1>4, <1>6, <1>7

(* What a turn that was remembered tells within a round: the cooldown is   *)
(* never over too early.                                                   *)
LEMMA SinceTells ==
  ASSUME NEW at, NEW since \in 0..ReinjectCooldown, NEW b, NEW t \in 0..MaxTurns, b # NoRound,
         Since(at, since, b, t)
  PROVE  t - at >= ReinjectCooldown => since >= ReinjectCooldown
  BY Thresholds DEF Since

(* A reminder said in a round, and one that was not; the begin of a round, *)
(* its end, and the begin of a run.                                        *)
LEMMA SinceSaid ==
  ASSUME NEW t \in 0..MaxTurns, NEW b, b # NoRound
  PROVE  Since(t, 0, b, t)
  BY Thresholds DEF Since

LEMMA SinceSilent ==
  ASSUME NEW at, NEW since \in 0..ReinjectCooldown, NEW t \in 0..MaxTurns, NEW b, NEW c,
         Since(at, since, b, t), b # NoRound, c # NoRound
  PROVE  Since(at, since, c, t)
  BY Thresholds DEF Since

LEMMA SinceBegins ==
  ASSUME NEW at, NEW since \in 0..ReinjectCooldown, NEW t \in 0..MaxTurns, t < MaxTurns,
         Since(at, since, NoRound, t)
  PROVE  Since(at, Older(since, ReinjectCooldown), 0, t)
  BY Thresholds DEF Since, Older, NoRound

LEMMA SinceEnds ==
  ASSUME NEW at, NEW since \in 0..ReinjectCooldown, NEW t \in 0..MaxTurns, t < MaxTurns,
         NEW b, b # NoRound, Since(at, since, b, t)
  PROVE  Since(at, since, NoRound, t + 1) /\ Since(at, since, NoRound, MaxTurns)
  BY Thresholds DEF Since, NoRound

LEMMA SinceRun ==
  ASSUME NEW at, NEW since \in 0..ReinjectCooldown, NEW t \in 0..MaxTurns,
         Since(at, since, NoRound, t)
  PROVE  Since(at, since, NoRound, 0)
  BY Thresholds DEF Since, NoRound

-----------------------------------------------------------------------------
(* Each action keeps the invariant.                                        *)

LEMMA BeginRoundKeeps == RemindersInv /\ BeginRound => RemindersInv'
  <1>. SUFFICES ASSUME RemindersInv, BeginRound
                PROVE  RemindersInv'
    OBVIOUS
  <1>1. CountersOK /\ StuckInv /\ AgeInv
    BY DEF RemindersInv
  <1>2. /\ batches = NoRound /\ roundTurn < MaxTurns /\ batches' = 0 /\ writes' = 0 /\ said' = {}
        /\ quiet' = [k \in Repeated |-> Older(quiet[k], ReinjectCooldown)]
        /\ UNCHANGED <<run, roundTurn, failures, triggers, hasTodos, idleBatches,
                       replanTurn, staleTurn, largeTurn, listShown, idleRounds, failedCalls>>
    BY DEF BeginRound, counters, turnsSaid
  <1>3. testShown' \in BOOLEAN /\ tested' \in {"no", "asked", "answered"}
    <2>1. testShown \in BOOLEAN /\ tested \in {"no", "asked", "answered"}
      BY <1>1 DEF CountersOK
    <2>2. testShown' \in {TRUE, testShown} /\ tested' \in {"asked", tested}
      BY DEF BeginRound
    <2>. QED
      BY <2>1, <2>2
  <1>4. \A k \in Repeated :
          /\ quiet[k] \in 0..ReinjectCooldown /\ quiet'[k] = Older(quiet[k], ReinjectCooldown)
          /\ Older(quiet[k], ReinjectCooldown) \in 0..ReinjectCooldown
    BY <1>1, <1>2, Thresholds DEF CountersOK, Older
  <1>5. CountersOK'
    <2>1. testShown' \in BOOLEAN /\ listShown' \in BOOLEAN
      BY <1>1, <1>2, <1>3 DEF CountersOK
    <2>2. quiet' \in [Repeated -> 0..ReinjectCooldown]
      BY <1>2, <1>4
    <2>3. batches' \in 0..MaxBatches
      BY <1>2, Thresholds
    <2>. QED
      BY <1>1, <1>2, <1>3, <2>1, <2>2, <2>3 DEF CountersOK
  <1>6. StuckInv'
    BY <1>1, <1>2 DEF StuckInv, Stuck
  <1>7. AgeInv'
    <2>1. "replan" \in Repeated /\ "stale" \in Repeated /\ "large" \in Repeated /\ roundTurn \in 0..MaxTurns
      BY <1>1 DEF Repeated, CountersOK
    <2>2. /\ Since(replanTurn, quiet["replan"], NoRound, roundTurn)
          /\ Since(staleTurn, quiet["stale"], NoRound, roundTurn)
          /\ Since(largeTurn, quiet["large"], NoRound, roundTurn)
      BY <1>1, <1>2 DEF AgeInv
    <2>3. /\ Since(replanTurn, Older(quiet["replan"], ReinjectCooldown), 0, roundTurn)
          /\ Since(staleTurn, Older(quiet["stale"], ReinjectCooldown), 0, roundTurn)
          /\ Since(largeTurn, Older(quiet["large"], ReinjectCooldown), 0, roundTurn)
      BY <1>2, <1>4, <2>1, <2>2, SinceBegins
    <2>. QED
      BY <1>2, <1>4, <2>1, <2>3 DEF AgeInv
  <1>. QED
    BY <1>5, <1>6, <1>7 DEF RemindersInv

(* A batch keeps the invariant, and repeats nothing early.                *)
LEMMA BatchStep ==
  ASSUME RemindersInv, NEW errors \in 0..MaxErrors, NEW todo \in TodoCalls,
         NEW declared \in Criteria \cup {NotDone}, NEW paths \in 0..1,
         Batch(errors, todo, declared, paths)
  PROVE  /\ RemindersInv'
         /\ "replan" \in said' => failedCalls' = Stuck
         /\ \A k \in Repeated \cap said' : quiet[k] >= ReinjectCooldown
  <1>1. CountersOK /\ StuckInv /\ AgeInv
    BY DEF RemindersInv
  <1>2. /\ batches \in 0..(MaxBatches - 1) /\ batches' = batches + 1 /\ writes' = writes + paths
        /\ UpdateCircuitBreaker(errors) /\ ObserveTodos(todo)
        /\ said' = {k \in Kinds : \/ k = "circuit" /\ Opens(errors)
                                  \/ k = "replan" /\ Replans(errors)
                                  \/ k = Verified(declared) /\ declared # NotDone
                                  \/ k = "stale" /\ Stale(todo)}
        /\ listShown' = (listShown \/ todo = "written")
        /\ idleRounds' = IF Renews(todo) THEN 0
                         ELSE IF batches = 0 THEN Older(idleRounds, StaleTodoThreshold) ELSE idleRounds
        /\ quiet' = [k \in Repeated |-> IF k \in said' THEN 0 ELSE quiet[k]]
        /\ failedCalls' = IF errors = 0 THEN 0
                          ELSE IF failedCalls + errors > Stuck THEN Stuck ELSE failedCalls + errors
        /\ UNCHANGED <<run, roundTurn, largeTurn, testShown, tested>>
    BY DEF Batch
  <1>3. /\ batches # NoRound /\ batches' # NoRound /\ batches' \in 0..MaxBatches
        /\ roundTurn \in 0..MaxTurns /\ roundTurn < MaxTurns
    BY <1>1, <1>2, Thresholds DEF NoRound, CountersOK, AgeInv
  <1>4. /\ failures' \in Nat /\ triggers' \in Nat /\ failedCalls' \in 0..Stuck
        /\ StuckInv' /\ (Replans(errors) => failedCalls' = Stuck)
    BY <1>1, <1>2, BreakerStep
  <1>5. /\ "replan" \in said' <=> Replans(errors)
        /\ "stale" \in said' <=> Stale(todo)
        /\ "large" \notin said'
    BY <1>2 DEF Kinds, Verified
  <1>6. /\ quiet["replan"] \in 0..ReinjectCooldown /\ quiet["stale"] \in 0..ReinjectCooldown /\ quiet["large"] \in 0..ReinjectCooldown
        /\ quiet'["replan"] = (IF "replan" \in said' THEN 0 ELSE quiet["replan"])
        /\ quiet'["stale"] = (IF "stale" \in said' THEN 0 ELSE quiet["stale"])
        /\ quiet'["large"] = quiet["large"]
    BY <1>1, <1>2, <1>5 DEF Repeated, CountersOK
  <1>7. /\ Since(replanTurn, quiet["replan"], batches, roundTurn)
        /\ Since(staleTurn, quiet["stale"], batches, roundTurn)
        /\ Since(largeTurn, quiet["large"], batches, roundTurn)
    BY <1>1 DEF AgeInv
  <1>8. idleBatches' \in 0..StaleTodoThreshold /\ idleRounds' \in 0..StaleTodoThreshold
    <2>1. idleBatches \in 0..StaleTodoThreshold /\ idleRounds \in 0..StaleTodoThreshold
      BY <1>1 DEF CountersOK
    <2>2. \A age \in 0..StaleTodoThreshold : Older(age, StaleTodoThreshold) \in 0..StaleTodoThreshold
      BY Thresholds DEF Older
    <2>3. idleBatches' = NewIdle(todo)
      BY <1>2 DEF ObserveTodos
    <2>4. NewIdle(todo) \in {0, Older(idleBatches, StaleTodoThreshold), idleBatches}
      BY DEF NewIdle
    <2>5. idleRounds' \in {0, Older(idleRounds, StaleTodoThreshold), idleRounds}
      BY <1>2
    <2>6. 0 \in 0..StaleTodoThreshold
      BY Thresholds
    <2>. QED
      BY <2>1, <2>2, <2>3, <2>4, <2>5, <2>6
  <1>9. CountersOK'
    <2>1. hasTodos' \in BOOLEAN /\ {testShown', listShown'} \subseteq BOOLEAN
      <3>1. hasTodos \in BOOLEAN /\ listShown \in BOOLEAN /\ testShown' \in BOOLEAN
        BY <1>1, <1>2 DEF CountersOK
      <3>2. hasTodos' = (hasTodos \/ Renews(todo)) /\ listShown' = (listShown \/ todo = "written")
        BY <1>2 DEF ObserveTodos
      <3>3. hasTodos' \in BOOLEAN
        BY <3>2 DEF Renews
      <3>. QED
        BY <3>1, <3>2, <3>3
    <2>2. replanTurn' \in {replanTurn, roundTurn} /\ staleTurn' \in {staleTurn, roundTurn} /\ roundTurn \in Nat
      BY <1>2, <1>3, Thresholds DEF UpdateCircuitBreaker, ObserveTodos
    <2>3. {replanTurn', staleTurn', largeTurn'} \subseteq Nat \cup {Never}
      BY <1>1, <1>2, <2>2 DEF CountersOK
    <2>4. writes' \in Nat
      BY <1>1, <1>2 DEF CountersOK
    <2>5. quiet' \in [Repeated -> 0..ReinjectCooldown]
      <3>1. \A k \in Repeated : (IF k \in said' THEN 0 ELSE quiet[k]) \in 0..ReinjectCooldown
        BY <1>1, Thresholds DEF CountersOK
      <3>. QED
        BY <1>2, <3>1
    <2>7. said' \subseteq Kinds \cup Repeated
      BY <1>2
    <2>. QED
      BY <1>1, <1>2, <1>3, <1>4, <1>8, <2>1, <2>3, <2>4, <2>5, <2>7 DEF CountersOK
  <1>10. AgeInv'
    <2>1. Since(replanTurn', quiet'["replan"], batches', roundTurn)
      <3>1. replanTurn' = IF Replans(errors) THEN roundTurn ELSE replanTurn
        BY <1>2 DEF UpdateCircuitBreaker
      <3>2. CASE Replans(errors)
        BY <1>3, <1>5, <1>6, <3>1, <3>2, SinceSaid
      <3>3. CASE ~Replans(errors)
        BY <1>3, <1>5, <1>6, <1>7, <3>1, <3>3, SinceSilent
      <3>. QED
        BY <3>2, <3>3
    <2>2. Since(staleTurn', quiet'["stale"], batches', roundTurn)
      <3>1. staleTurn' = IF Stale(todo) THEN roundTurn ELSE staleTurn
        BY <1>2 DEF ObserveTodos
      <3>2. CASE Stale(todo)
        BY <1>3, <1>5, <1>6, <3>1, <3>2, SinceSaid
      <3>3. CASE ~Stale(todo)
        BY <1>3, <1>5, <1>6, <1>7, <3>1, <3>3, SinceSilent
      <3>. QED
        BY <3>2, <3>3
    <2>3. Since(largeTurn', quiet'["large"], batches', roundTurn)
      BY <1>2, <1>3, <1>6, <1>7, SinceSilent
    <2>. QED
      BY <1>2, <1>3, <2>1, <2>2, <2>3 DEF AgeInv
  <1>12. \A k \in Repeated \cap said' : quiet[k] >= ReinjectCooldown
    <2>1. Replans(errors) => quiet["replan"] >= ReinjectCooldown
      BY <1>3, <1>6, <1>7, SinceTells DEF Replans
    <2>2. Stale(todo) => quiet["stale"] >= ReinjectCooldown
      BY <1>3, <1>6, <1>7, SinceTells DEF Stale
    <2>. QED
      BY <1>5, <2>1, <2>2 DEF Repeated
  <1>15. RemindersInv'
    BY <1>4, <1>9, <1>10 DEF RemindersInv
  <1>. QED
    BY <1>4, <1>5, <1>12, <1>15

LEMMA EndRoundStep ==
  ASSUME RemindersInv, CheckpointRoundEnd
  PROVE  /\ RemindersInv' /\ said' \subseteq {"large"}
         /\ "large" \in said' => quiet["large"] >= ReinjectCooldown
  <1>1. CountersOK /\ StuckInv /\ AgeInv
    BY DEF RemindersInv
  <1>2. /\ batches > 0 /\ batches' = NoRound /\ roundTurn' = roundTurn + 1
        /\ said' = IF Large THEN {"large"} ELSE {}
        /\ largeTurn' = IF Large THEN roundTurn ELSE largeTurn
        /\ quiet' = [quiet EXCEPT !["large"] = IF Large THEN 0 ELSE @]
        /\ tested' = IF tested = "asked" THEN "answered" ELSE tested
        /\ UNCHANGED <<run, failures, triggers, hasTodos, idleBatches, replanTurn, staleTurn,
                       writes, idleRounds, failedCalls, testShown, listShown>>
    BY DEF CheckpointRoundEnd, counters
  <1>3. batches # NoRound /\ roundTurn \in 0..MaxTurns /\ roundTurn < MaxTurns /\ roundTurn + 1 \in 0..MaxTurns
    BY <1>1, <1>2, Thresholds DEF CountersOK, AgeInv, NoRound
  <1>4. /\ quiet["replan"] \in 0..ReinjectCooldown /\ quiet["stale"] \in 0..ReinjectCooldown /\ quiet["large"] \in 0..ReinjectCooldown
        /\ quiet'["replan"] = quiet["replan"] /\ quiet'["stale"] = quiet["stale"]
        /\ quiet'["large"] = IF Large THEN 0 ELSE quiet["large"]
    BY <1>1, <1>2 DEF Repeated, CountersOK
  <1>5. 0 \in 0..ReinjectCooldown
    BY Thresholds
  <1>6. CountersOK'
    <2>1. quiet' \in [Repeated -> 0..ReinjectCooldown]
      BY <1>1, <1>2, <1>5 DEF CountersOK
    <2>2. {replanTurn', staleTurn', largeTurn'} \subseteq Nat \cup {Never}
      BY <1>1, <1>2, <1>3 DEF CountersOK
    <2>. QED
      BY <1>1, <1>2, <1>3, <2>1, <2>2 DEF CountersOK, Repeated
  <1>7. AgeInv'
    <2>1. /\ Since(replanTurn, quiet["replan"], batches, roundTurn)
          /\ Since(staleTurn, quiet["stale"], batches, roundTurn)
          /\ Since(largeTurn, quiet["large"], batches, roundTurn)
      BY <1>1 DEF AgeInv
    <2>2. Since(largeTurn', quiet'["large"], batches, roundTurn)
      BY <1>2, <1>3, <1>4, <2>1, SinceSaid
    <2>3. quiet'["large"] \in 0..ReinjectCooldown
      BY <1>4, <1>5
    <2>4. /\ Since(replanTurn, quiet["replan"], NoRound, roundTurn + 1)
          /\ Since(staleTurn, quiet["stale"], NoRound, roundTurn + 1)
          /\ Since(largeTurn', quiet'["large"], NoRound, roundTurn + 1)
      BY <1>3, <1>4, <2>1, <2>2, <2>3, SinceEnds
    <2>. QED
      BY <1>2, <1>4, <2>4 DEF AgeInv
  <1>8. StuckInv'
    BY <1>1, <1>2 DEF StuckInv, Stuck
  <1>9. Large => quiet["large"] >= ReinjectCooldown
    BY <1>1, <1>3, <1>4, SinceTells DEF Large, AgeInv
  <1>. QED
    BY <1>2, <1>6, <1>7, <1>8, <1>9 DEF RemindersInv

(* The steps between the rounds say nothing.                               *)
LEMMA OutsideStep ==
  ASSUME RemindersInv, BeginRun \/ CancelRound \/ Compact
  PROVE  RemindersInv' /\ said' = {}
  <1>1. CountersOK /\ StuckInv /\ AgeInv
    BY DEF RemindersInv
  <1>2. /\ said' = {} /\ batches' = NoRound /\ testShown' \in BOOLEAN /\ listShown' \in BOOLEAN
        /\ tested' \in {"no", "asked", "answered"} /\ run' \in Nat
        /\ UNCHANGED <<failures, triggers, hasTodos, idleBatches, replanTurn, staleTurn, largeTurn,
                       writes, idleRounds, quiet, failedCalls>>
    <2>1. /\ testShown \in BOOLEAN /\ listShown \in BOOLEAN /\ run \in Nat
          /\ tested \in {"no", "asked", "answered"}
      BY <1>1 DEF CountersOK
    <2>2. CASE BeginRun
      BY <2>1, <2>2 DEF BeginRun, counters, turnsSaid, shown
    <2>3. CASE CancelRound
      BY <2>1, <2>3 DEF CancelRound, counters, turnsSaid
    <2>4. CASE Compact
      BY <2>1, <2>4 DEF Compact, counters, turnsSaid
    <2>. QED
      BY <2>2, <2>3, <2>4
  <1>3. roundTurn' \in {0, roundTurn, MaxTurns} /\ roundTurn \in 0..MaxTurns
    BY <1>1 DEF BeginRun, CancelRound, Compact, CountersOK
  <1>4. CountersOK'
    BY <1>1, <1>2, <1>3, Thresholds DEF CountersOK
  <1>5. /\ Since(replanTurn, quiet["replan"], batches, roundTurn)
        /\ Since(staleTurn, quiet["stale"], batches, roundTurn)
        /\ Since(largeTurn, quiet["large"], batches, roundTurn)
        /\ quiet["replan"] \in 0..ReinjectCooldown /\ quiet["stale"] \in 0..ReinjectCooldown /\ quiet["large"] \in 0..ReinjectCooldown
    BY <1>1 DEF AgeInv, Repeated, CountersOK
  <1>6. AgeInv'
    <2>1. CASE BeginRun
      <3>1. batches = NoRound /\ roundTurn' = 0
        BY <2>1 DEF BeginRun
      <3>. QED
        BY <1>2, <1>3, <1>5, <3>1, SinceRun DEF AgeInv
    <2>2. CASE CancelRound
      <3>1. batches # NoRound /\ roundTurn' = MaxTurns /\ roundTurn < MaxTurns
        BY <1>1, <2>2 DEF CancelRound, AgeInv
      <3>. QED
        BY <1>2, <1>3, <1>5, <3>1, SinceEnds DEF AgeInv
    <2>3. CASE Compact
      <3>1. batches = NoRound /\ roundTurn' = roundTurn
        BY <2>3 DEF Compact
      <3>. QED
        BY <1>2, <1>5, <3>1 DEF AgeInv
    <2>. QED
      BY <2>1, <2>2, <2>3
  <1>7. StuckInv'
    BY <1>1, <1>2 DEF StuckInv, Stuck
  <1>. QED
    BY <1>2, <1>4, <1>6, <1>7 DEF RemindersInv

LEMMA StutterKeeps == RemindersInv /\ UNCHANGED remindersVars => RemindersInv'
  <1>. SUFFICES ASSUME RemindersInv, UNCHANGED remindersVars
                PROVE  RemindersInv'
    OBVIOUS
  <1>1. CountersOK /\ StuckInv /\ AgeInv
    BY DEF RemindersInv
  <1>2. UNCHANGED <<run, roundTurn, batches, failures, triggers, hasTodos, idleBatches, replanTurn,
                    staleTurn, largeTurn, writes, said, idleRounds, quiet, failedCalls,
                    testShown, listShown, tested>>
    BY DEF remindersVars, counters, turnsSaid, shown
  <1>3. CountersOK'
    BY <1>1, <1>2 DEF CountersOK
  <1>4. StuckInv' /\ AgeInv'
    BY <1>1, <1>2 DEF StuckInv, Stuck, AgeInv
  <1>. QED
    BY <1>3, <1>4 DEF RemindersInv

LEMMA RemindersBase == RemindersInit => RemindersInv
  <1>. SUFFICES ASSUME RemindersInit
                PROVE  RemindersInv
    OBVIOUS
  <1>1. CountersOK
    <2>1. quiet \in [Repeated -> 0..ReinjectCooldown]
      <3>1. ReinjectCooldown \in 0..ReinjectCooldown
        BY Thresholds
      <3>. QED
        BY <3>1 DEF RemindersInit
    <2>2. roundTurn \in 0..MaxTurns /\ idleRounds \in 0..StaleTodoThreshold /\ idleBatches \in 0..StaleTodoThreshold
          /\ failedCalls \in 0..Stuck
      BY Thresholds, StuckIs DEF RemindersInit
    <2>. QED
      BY <2>1, <2>2 DEF RemindersInit, CountersOK
  <1>2. StuckInv
    BY Thresholds DEF RemindersInit, StuckInv
  <1>3. AgeInv
    BY DEF RemindersInit, AgeInv, Since, Repeated
  <1>. QED
    BY <1>1, <1>2, <1>3 DEF RemindersInv

(* What every step keeps and every step says, in one place.                *)
LEMMA RemindersStep ==
  ASSUME RemindersInv, RemindersNext
  PROVE  /\ RemindersInv'
         /\ "replan" \in said' => failedCalls' >= Stuck
         /\ \A k \in Repeated \cap said' : quiet[k] >= ReinjectCooldown
  <1>0. Stuck \in Nat
    BY StuckIs
  <1>1. CASE BeginRun \/ CancelRound \/ Compact
    BY <1>1, OutsideStep
  <1>2. CASE BeginRound
    BY <1>2, BeginRoundKeeps DEF BeginRound
  <1>3. CASE CheckpointRoundEnd
    BY <1>3, EndRoundStep
  <1>4. ASSUME NEW errors \in 0..MaxErrors, NEW todo \in TodoCalls,
               NEW declared \in Criteria \cup {NotDone}, NEW paths \in 0..1,
               Batch(errors, todo, declared, paths)
        PROVE  /\ RemindersInv'
               /\ "replan" \in said' => failedCalls' >= Stuck
               /\ \A k \in Repeated \cap said' : quiet[k] >= ReinjectCooldown
    BY <1>0, <1>4, BatchStep
  <1>. QED
    BY <1>1, <1>2, <1>3, <1>4 DEF RemindersNext

-----------------------------------------------------------------------------
(* The theorems.                                                           *)

(* The counters stand for the failed calls, and the turns remembered for   *)
(* the rounds, that really were.                                           *)
THEOREM RemindersInvariant == RemindersSpec => []RemindersInv
  <1>1. RemindersInv /\ [RemindersNext]_remindersVars => RemindersInv'
    BY StutterKeeps, RemindersStep
  <1>. QED
    BY <1>1, RemindersBase, PTL DEF RemindersSpec

(* Every counter and remembered turn keeps its type.                       *)
THEOREM RemindersTypeCorrect == RemindersSpec => []CountersOK
  <1>1. RemindersInv => CountersOK
    BY DEF RemindersInv
  <1>. QED
    BY <1>1, RemindersInvariant, PTL

(* The advice to replan takes as many failed calls, with no good batch     *)
(* between, as the limit and the trigger count say (agent.py:1015).        *)
THEOREM ReplansOnlyWhenStuck == RemindersSpec => ReplanOnlyWhenStuck
  <1>1. RemindersInv /\ [RemindersNext]_remindersVars => ["replan" \in said' => failedCalls' >= Stuck]_remindersVars
    BY RemindersStep
  <1>. QED
    BY <1>1, RemindersInvariant, PTL DEF RemindersSpec, ReplanOnlyWhenStuck

(* A repeated reminder waits out its cooldown (checkpoints.py:29), counted *)
(* in the rounds that began since, though the turn it is measured with     *)
(* begins anew with every run of the agent.                                *)
THEOREM RemindersAreSpaced == RemindersSpec => RemindersSpaced
  <1>1. RemindersInv /\ [RemindersNext]_remindersVars =>
          [\A k \in Repeated \cap said' : quiet[k] >= ReinjectCooldown]_remindersVars
    BY RemindersStep
  <1>. QED
    BY <1>1, RemindersInvariant, PTL DEF RemindersSpec, RemindersSpaced
=============================================================================
