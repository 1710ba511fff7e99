---------------------------- MODULE MCCoreThread ----------------------------
(* Small instances of CoreThread for TLC.                                  *)
EXTENDS CoreThread

CONSTANTS t1, t2, t3, t4
=============================================================================
