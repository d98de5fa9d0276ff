------------------------------- MODULE MCXray -------------------------------
(***************************************************************************)
(* Small instances of Xray for TLC.  The runs check liveness, so they use   *)
(* no symmetry.                                                            *)
(***************************************************************************)
EXTENDS Xray
=============================================================================
