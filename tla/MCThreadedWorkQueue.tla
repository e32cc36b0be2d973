------------------------ MODULE MCThreadedWorkQueue -------------------------
(* Instances of ThreadedWorkQueue for TLC: the configurations give the      *)
(* constants model values.  Items and workers are interchangeable, but the  *)
(* liveness properties rule SYMMETRY out.                                   *)
EXTENDS ThreadedWorkQueue
=============================================================================
