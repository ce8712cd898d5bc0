\* Two dispatches compete for vehicle, drivers and commitments; two transitions and a geofence.
SPECIFICATION FairSpec
CONSTANTS
    v1 = v1
    v2 = v2
    d1 = d1
    d2 = d2
    c1 = c1
    c2 = c2
    Vehicle = {v1, v2}
    Driver = {d1, d2}
    Commitment = {c1, c2}
    Order <- Orders
    Dispatch = {t1, t2}
    Transition = {x1, x2}
    Geofence = {g1}
    None = None
INVARIANTS
    ExclusiveAssignment
    RecordsFollowTrips
PROPERTIES
    SerialTransitionsAreLegal
    EveryRequestEnds
