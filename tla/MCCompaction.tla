---------------------------- MODULE MCCompaction ----------------------------
(* Compaction on small instances: the sessions are interchangeable; tools  *)
(* return source code or a log of medium length, or a log that is too long *)
(* for the history.                                                        *)
EXTENDS Compaction

SessionSymmetry == Permutations(Sessions)

Output(tool, marks, chars) == [tool |-> tool, marks |-> marks, chars |-> chars]

SomeOutputs == {Output("ReadFile", {"code"}, 45000), Output("Bash", {"log"}, 45000),
                Output("Bash", {"log"}, 60000)}

(* A fourth item only with one compaction or switch at most, and before    *)
(* paths cross; once they have, no second compaction beyond two items.     *)
Bounded ==
  /\ next > 4 => compactions + switches <= 1 /\ ~crossed
  /\ crossed /\ compactions > 1 => next <= 3

MCSpec == Init /\ [][Next /\ Bounded']_vars
=============================================================================
