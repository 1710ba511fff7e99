-------------------------- MODULE MCNetworkThread --------------------------
(* Small instances of NetworkThread for TLC.                               *)
EXTENDS NetworkThread

CONSTANTS t1, t2, t3, t4
=============================================================================
