--------------------------- MODULE MCConsoleInput ---------------------------
(* Instances of ConsoleInput for TLC: the configurations give the constants *)
(* model values.  No SYMMETRY, because of the liveness property.            *)
EXTENDS ConsoleInput
=============================================================================
