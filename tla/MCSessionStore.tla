--------------------------- MODULE MCSessionStore ---------------------------
(* SessionStore on small instances: the runs are interchangeable.  What    *)
(* one instance cannot hold together is bounded in turn: without a crash,  *)
(* three calls, or two and a notice; two crashes, or one with a todo list, *)
(* of runs that follow one another; and runs beside each other, with one   *)
(* crash between writes.                                                   *)
EXTENDS SessionStore

RunSymmetry == Permutations(Runs)

Small == nextId <= 3 /\ Len(pending) <= 2

Bounded ==
  \/ beside = "no" /\ crashes = 0 /\ ~todos /\ (notices = 0 \/ Small)
  \/ beside = "no" /\ notices = 0 /\ Small /\ (~todos \/ crashes < 2)
  \/ notices = 0 /\ ~cut /\ ~todos /\ Small
     /\ crashes <= (IF beside = "tools" THEN 0 ELSE 1)

MCSpec == Init /\ [][Next /\ Bounded']_vars
=============================================================================
