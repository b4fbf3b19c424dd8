------------------------------ MODULE Delivery ------------------------------
(***************************************************************************)
(* What delegating work to a subagent promises the main agent, whatever    *)
(* happens to the call meanwhile: someone is answerable for the end of     *)
(* every subagent, first perhaps the call that awaits it, later the task   *)
(* manager it is handed over to, never the other way; the end is told once *)
(* and by the one who is answerable then, as the result of the call or as  *)
(* a notice; and never before the subagent has ended.  A subagent the      *)
(* manager withdraws before it began is told of at once, perhaps again.    *)
(***************************************************************************)
CONSTANT Ids          \* the subagents that may be begun

VARIABLES stage,      \* how far each subagent is
          owner,      \* who has to tell its end
          told        \* how it was told

vars == <<stage, owner, told>>

Init ==
  /\ stage = [i \in Ids |-> "none"]
  /\ owner = [i \in Ids |-> "nobody"]
  /\ told = [i \in Ids |-> "not"]

Begin(i) ==
  /\ stage[i] = "none"
  /\ stage' = [stage EXCEPT ![i] = "waiting"]
  /\ \E who \in {"call", "manager"} : owner' = [owner EXCEPT ![i] = who]
  /\ UNCHANGED told

(* The call is given up, or taken from the run: no end is lost by it,      *)
(* whether the subagent has ended or not.                                  *)
HandOver(i) ==
  /\ owner[i] = "call" /\ told[i] = "not"
  /\ owner' = [owner EXCEPT ![i] = "manager"]
  /\ UNCHANGED <<stage, told>>

Start(i) ==
  /\ stage[i] = "waiting"
  /\ stage' = [stage EXCEPT ![i] = "working"]
  /\ UNCHANGED <<owner, told>>

Withdraw(i) ==
  /\ stage[i] = "waiting" /\ owner[i] = "manager"
  /\ stage' = [stage EXCEPT ![i] = "withdrawn"]
  /\ told' = [told EXCEPT ![i] = "notice"]
  /\ UNCHANGED owner

TellAgain(i) ==
  /\ stage[i] = "withdrawn"
  /\ told' = [told EXCEPT ![i] = "again"]
  /\ UNCHANGED <<stage, owner>>

(* It may not even get to work.  The manager may tell in the same step.    *)
End(i) ==
  /\ stage[i] \in {"waiting", "working"}
  /\ stage' = [stage EXCEPT ![i] = "ended"]
  /\ \/ UNCHANGED told
     \/ owner[i] = "manager" /\ told' = [told EXCEPT ![i] = "notice"]
  /\ UNCHANGED owner

Tell(i) ==
  /\ stage[i] = "ended" /\ told[i] = "not"
  /\ told' = [told EXCEPT ![i] = IF owner[i] = "call" THEN "result" ELSE "notice"]
  /\ UNCHANGED <<stage, owner>>

Next ==
  \E i \in Ids : \/ Begin(i) \/ HandOver(i) \/ Start(i) \/ End(i) \/ Tell(i)
                 \/ Withdraw(i) \/ TellAgain(i)

Spec == Init /\ [][Next]_vars
=============================================================================
