------------------------------ MODULE MCMemory ------------------------------
(* The processes are interchangeable, and so are the names of the notes.   *)
EXTENDS Memory

MemorySymmetry == Permutations(Procs) \cup Permutations(Names)
=============================================================================
