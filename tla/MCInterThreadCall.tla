------------------------- MODULE MCInterThreadCall ---------------------------
EXTENDS InterThreadCall, TLC

(* Threads that call alike are interchangeable.                             *)
Symmetric == Permutations(Callers \ AsyncCallers)
=============================================================================
