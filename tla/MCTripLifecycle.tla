--------------------------- MODULE MCTripLifecycle ---------------------------
(* Model values for TLC: orders that share a vehicle, a driver or a commitment. *)
EXTENDS TripLifecycle

CONSTANTS v1, v2, d1, d2, c1, c2

Orders ==
    {[vehicle |-> v1, driver |-> d1, load |-> {c1, c2}],
     [vehicle |-> v2, driver |-> d2, load |-> {c1, c2}],
     [vehicle |-> v1, driver |-> d2, load |-> {c2}],
     [vehicle |-> v2, driver |-> d1, load |-> {}]}
=============================================================================
