--------------------------- MODULE MCClusterStore ---------------------------
(***************************************************************************)
(* Small instances of ClusterStore for TLC.  The symmetry is for runs      *)
(* without liveness.                                                       *)
(***************************************************************************)
EXTENDS ClusterStore, TLC

ClusterSymmetry == Permutations(Worker) \cup Permutations(Change)
=============================================================================
