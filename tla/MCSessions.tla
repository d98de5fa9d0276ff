----------------------------- MODULE MCSessions -----------------------------
(***************************************************************************)
(* Small instances of Sessions for TLC.                                    *)
(***************************************************************************)
EXTENDS Sessions, TLC

SessionSymmetry == Permutations(Session) \cup Permutations(Addr)
=============================================================================
