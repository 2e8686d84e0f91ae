---------------------------- MODULE MCElection ----------------------------
(***************************************************************************)
(* Election on a small cluster.  Nodes are interchangeable: no definition  *)
(* orders or names them.                                                   *)
(***************************************************************************)
EXTENDS Election, TLC

NodeSymmetry == Permutations(Node)
=============================================================================
