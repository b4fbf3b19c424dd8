------------------------------- MODULE MCEval -------------------------------
(* Eval for TLC: neither the tasks nor the run ids are told apart.         *)
EXTENDS Eval, TLC

Symmetry == Permutations(Tasks) \cup Permutations(RunIds)
=============================================================================
