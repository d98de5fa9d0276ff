------------------------------ MODULE MCStore ------------------------------
(***************************************************************************)
(* A small instance of Store for TLC.  Its run checks liveness, so no      *)
(* symmetry is declared.                                                   *)
(***************************************************************************)
EXTENDS Store
=============================================================================
