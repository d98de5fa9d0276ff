------------------------------ MODULE MCUsage ------------------------------
(***************************************************************************)
(* Small instances of Usage for TLC.  Its run checks liveness, so it uses  *)
(* no symmetry.                                                            *)
(***************************************************************************)
EXTENDS Usage
=============================================================================
