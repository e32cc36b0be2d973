------------------------- MODULE MCConnectionsPool --------------------------
(* Instances of ConnectionsPool for TLC; the constants are in the           *)
(* configurations.                                                          *)
EXTENDS ConnectionsPool
=============================================================================
