--------------------------- MODULE MCFleetDispatch ---------------------------
(* Three approvals for TLC, each with one ceiling that bites.              *)
EXTENDS FleetDispatch

CONSTANTS d1, d2

MCDispatchers == {d1, d2}
MCSpends == {[contacts |-> 1, billable |-> 2, parallel |-> 2],
             [contacts |-> 2, billable |-> 1, parallel |-> 2],
             [contacts |-> 2, billable |-> 2, parallel |-> 1]}
=============================================================================
