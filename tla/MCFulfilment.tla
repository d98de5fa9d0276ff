---------------------------- MODULE MCFulfilment ----------------------------
(***************************************************************************)
(* A small instance of Fulfilment for TLC: one customer, who ordered once  *)
(* before, and one voucher.  Everything the customer, the seller and the   *)
(* panel may do meets in the one database; a second customer would only    *)
(* repeat it.                                                              *)
(***************************************************************************)
EXTENDS Fulfilment
=============================================================================
