------------------------------- MODULE MCJobs -------------------------------
(***************************************************************************)
(* Two workers, two alerts for the seller and one nudge for a customer in a *)
(* table that holds two.                                                   *)
(***************************************************************************)
EXTENDS Jobs
=============================================================================
