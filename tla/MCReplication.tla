--------------------------- MODULE MCReplication ---------------------------
(* Replication for TLC.  No definition names a node or orders nodes. *)
EXTENDS Replication, TLC

NodeSymmetry == Permutations(Node)
=============================================================================
