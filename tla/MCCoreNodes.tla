---------------------------- MODULE MCCoreNodes ----------------------------
(* Small instances of CoreNodes for TLC.                                   *)
EXTENDS CoreNodes, TLC

CONSTANTS n1, n2, x1, x2, x3, o1, o2, o3

\* Nothing tells identities, addresses or heap blocks apart.
Interchangeable ==
    Permutations({n1, n2}) \cup Permutations({x1, x2, x3}) \cup Permutations({o1, o2, o3})
=============================================================================
