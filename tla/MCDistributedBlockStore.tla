---------------------- MODULE MCDistributedBlockStore ----------------------
(* A small instance of DistributedBlockStore for TLC.                      *)
EXTENDS DistributedBlockStore

CONSTANTS n1, n2
=============================================================================
