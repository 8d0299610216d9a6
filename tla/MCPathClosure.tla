---------------------------- MODULE MCPathClosure ----------------------------
(***************************************************************************)
(* Three nodes: every matrix of zeros and ones, and every one whose paths  *)
(* all lead through two nodes.                                             *)
(***************************************************************************)
EXTENDS PathClosure

MCNodes  == 0 .. 2
OnesOnly == [Cells -> {0, 1}]
Counts   == [Cells -> {0, 2}]
MCInputs == OnesOnly \union Counts
=============================================================================
