------------------------------ MODULE MCOpBase ------------------------------
(* Instances of OpBase for TLC; the constants are in the configuration.     *)
EXTENDS OpBase
=============================================================================
