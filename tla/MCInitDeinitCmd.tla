-------------------------- MODULE MCInitDeinitCmd ---------------------------
(* Instances of InitDeinitCmd for TLC.  Two processes, of which the first   *)
(* has two connections; all are to one site.  Another site has at most a    *)
(* lock file that was left.                                                 *)
EXTENDS InitDeinitCmd, TLC

CONSTANTS c1, c2, c3, p1, p2, s1, s2

MCSite == [c \in {c1, c2, c3} |-> s1]
MCOwner == c1 :> p1 @@ c2 :> p2 @@ c3 :> p1
=============================================================================
