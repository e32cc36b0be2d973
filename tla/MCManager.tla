----------------------------- MODULE MCManager ------------------------------
(* Instances of Manager for TLC.                                            *)
EXTENDS Manager, TLC

Symmetric == Permutations(Frames \ {Panels})
=============================================================================
