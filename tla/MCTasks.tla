------------------------------ MODULE MCTasks -------------------------------
(* Tasks on small instances: two subagents, both in worktrees, or one of   *)
(* them and with one cancellation or retry; or one subagent that is        *)
(* cancelled again and again.                                              *)
EXTENDS Tasks

Bounded ==
  Len(task) > 1 =>
    /\ task[1].tree # "none"
    /\ acts <= IF task[2].tree = "none" THEN 1 ELSE 0

MCSpec == TasksInit /\ [][TasksNext /\ Bounded']_taskVars /\ Fairness
=============================================================================
