------------------------------- MODULE Sales -------------------------------
(***************************************************************************)
(* What a seller may expect of whatever is sold or given away: a voucher,  *)
(* an order, a request for a renewal, a customer's free trial.  Each is    *)
(* delivered at most once, and once it is delivered or withdrawn, that is  *)
(* the end of it.                                                          *)
(***************************************************************************)
EXTENDS Naturals

CONSTANT Offer

VARIABLES
    state,      \* how far each offer has come
    delivered   \* how often it has been delivered

vars == <<state, delivered>>

Moves == {<<"none", "open">>, <<"open", "delivered">>, <<"open", "withdrawn">>}

Init ==
    /\ state \in [Offer -> {"none", "open", "withdrawn"}]
    /\ delivered = [o \in Offer |-> 0]

\* Several offers may move at once, each along its own life.
Next ==
    /\ state' \in [Offer -> {"none", "open", "delivered", "withdrawn"}]
    /\ delivered' \in [Offer -> 0..1]
    /\ \A o \in Offer :
        /\ state'[o] = state[o] \/ <<state[o], state'[o]>> \in Moves
        /\ delivered'[o] = IF state[o] # "delivered" /\ state'[o] = "delivered"
                           THEN delivered[o] + 1 ELSE delivered[o]

Spec == Init /\ [][Next]_vars
=============================================================================
