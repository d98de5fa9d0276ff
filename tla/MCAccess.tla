------------------------------ MODULE MCAccess ------------------------------
(***************************************************************************)
(* A small instance of Access for TLC: the requests are interchangeable.   *)
(***************************************************************************)
EXTENDS Access, TLC

Symmetry == Permutations(Request)
=============================================================================
