------------------------ MODULE TripLifecycle_proofs ------------------------
(***************************************************************************)
(* Proofs about TripLifecycle for any vehicles, drivers, commitments,      *)
(* orders and requests.                                                    *)
(*                                                                         *)
(* The locks are proved first: a dispatch holds its vehicle and its        *)
(* driver, a transition and a geofence the trip they are about to write.   *)
(* What they have checked under these locks then stays true until they     *)
(* commit, and the properties follow from the commits alone.               *)
(***************************************************************************)
EXTENDS TripLifecycle, DataLoading, TLAPS

InDispatch(x) == pc[x] \in {"vehicle", "driver", "vehicleFree", "saving"}

\* A dispatch that has not ended has no trip yet, and holds what it has locked.
DispatchInv ==
    \A x \in Dispatch :
        /\ pc[x] # "arriving" /\ target[x] = "DISPATCHED"
        /\ pc[x] # "done" => status[x] = None /\ cargo[x] = {}
        /\ InDispatch(x) =>
              /\ trip[x] = x
              /\ crew[x].vehicle \in Vehicle /\ crew[x].driver \in Driver
              /\ lock[crew[x].vehicle] = x
              /\ pc[x] # "vehicle" => lock[crew[x].driver] = x

\* A transition in progress holds its trip, whose status still allows it, and
\* releases the commitments of that trip if it must.
TransitionInv ==
    \A x \in Transition :
        /\ pc[x] \in {"idle", "saving", "done"}
        /\ pc[x] = "saving" =>
              /\ trip[x] \in Trip
              /\ lock[trip[x]] = x
              /\ target[x] \in ValidTransitions(status[trip[x]])
              /\ load[x] = IF target[x] \in Released THEN cargo[trip[x]] ELSE {}

\* A geofence in progress is about a trip that exists; it holds it once it writes,
\* whatever has become of its status.
GeofenceInv ==
    \A x \in Geofence :
        /\ pc[x] \in {"idle", "arriving", "saving", "done"}
        /\ load[x] = {}
        /\ pc[x] \in {"arriving", "saving"} =>
              /\ trip[x] \in Trip
              /\ status[trip[x]] # None
              /\ target[x] = "IN_TRANSIT"
        /\ pc[x] = "saving" => lock[trip[x]] = x

\* The vehicle found free is still free, but for trips that were diverted or
\* overwritten; so is the driver.
FreeInv ==
    \A x \in Dispatch, t \in Trip \ (diverted \cup overrun) :
        Moving(t) =>
            /\ pc[x] \in {"vehicleFree", "saving"} => vehicle[t] # crew[x].vehicle
            /\ pc[x] = "saving" => driver[t] # crew[x].driver

DivertedInv == \A t \in Trip : status[t] = "DIVERTED" => t \in diverted

IInv ==
    /\ TypeOK
    /\ DispatchInv
    /\ TransitionInv
    /\ GeofenceInv
    /\ FreeInv
    /\ DivertedInv
    /\ ExclusiveAssignment
    /\ CommitmentsFollowTrips
    /\ StopsFollowTrips

-----------------------------------------------------------------------------
\* Where a transition may lead: never back to DISPATCHED, and nowhere from a trip
\* that has ended or does not exist.
LEMMA TransitionTargets ==
    ASSUME NEW s, NEW to, to \in ValidTransitions(s)
    PROVE  /\ s \in {"DISPATCHED", "IN_TRANSIT", "HELD_FOR_INSPECTION", "DIVERTED"}
           /\ s # None
           /\ to \in TripStatus /\ to # "DISPATCHED" /\ to # None
  BY NoneIsNoStatus DEF ValidTransitions, TripStatus

\* The geofence's transition is a legal one.
LEMMA GeofenceTarget == "IN_TRANSIT" \in ValidTransitions("DISPATCHED")
  BY DEF ValidTransitions

\* The invariant holds before the first request.
LEMMA InitEstablishes == Init => IInv
<1> SUFFICES ASSUME Init PROVE IInv
  OBVIOUS
<1>1. TypeOK
  BY DEF Init, TypeOK, TripStatus
<1>2. DispatchInv /\ TransitionInv /\ GeofenceInv
  BY TripAssumption DEF Init, DispatchInv, InDispatch, TransitionInv, GeofenceInv, Trip, Txn
<1>3. FreeInv /\ DivertedInv /\ ExclusiveAssignment
  BY NoneIsNoStatus DEF Init, FreeInv, DivertedInv, ExclusiveAssignment, Moving, Trip, TripStatus
<1>4. CommitmentsFollowTrips /\ StopsFollowTrips
  BY DEF Init, CommitmentsFollowTrips, StopsFollowTrips
<1> QED
  BY <1>1, <1>2, <1>3, <1>4 DEF IInv

\* Only a commit writes the trips, their cargo and the commitments.
LEMMA OnlyCommitWrites ==
    ASSUME [Next]_vars, ~ \E x \in Txn : Commit(x)
    PROVE  UNCHANGED <<status, vehicle, driver, cargo, delivery, diverted, overrun>>
  BY DEF Next, Begin, Advance, Served, LockVehicle, LockDriver, CheckVehicle, CheckDriver,
         LockTrip, ReachStop, MarkStop, StartTrip, ClaimCommitment, Conflict, Fail,
         BreakDeadlock, RollBack, vars, tables, session, history

\* Every step of a request keeps the types of the state.
LEMMA TypeStep ==
    ASSUME TypeOK, DispatchInv, TransitionInv, GeofenceInv, [Next]_vars
    PROVE  TypeOK'
<1> USE DEF TypeOK
<1>1. ASSUME NEW x \in Dispatch, NEW o \in Order, LockVehicle(x, o)
      PROVE  TypeOK'
  BY <1>1, TripAssumption DEF LockVehicle, Goto, tables, history, Txn, Trip, LockedRow
<1>2. ASSUME NEW x \in Transition, NEW t \in Trip, NEW s \in TripStatus, LockTrip(x, t, s)
      PROVE  TypeOK'
  BY <1>2 DEF LockTrip, Goto, tables, history, Txn, LockedRow
<1>3. ASSUME NEW x \in Geofence, NEW t \in Trip, ReachStop(x, t)
      PROVE  TypeOK'
  BY <1>3 DEF ReachStop, Goto, tables, history, TripStatus
<1>4. ASSUME NEW x \in Geofence, NEW t \in Trip, MarkStop(x, t)
      PROVE  TypeOK'
  BY <1>4 DEF MarkStop, Goto, session, history
<1>5. ASSUME NEW x \in Txn, LockDriver(x)
      PROVE  TypeOK'
  BY <1>5 DEF LockDriver, Goto, tables, session, history
<1>6. ASSUME NEW x \in Txn, CheckVehicle(x) \/ CheckDriver(x)
      PROVE  TypeOK'
  BY <1>6 DEF CheckVehicle, CheckDriver, Goto, tables, session, history
<1>7. ASSUME NEW x \in Txn, StartTrip(x)
      PROVE  TypeOK'
  BY <1>7 DEF StartTrip, Goto, tables, session, history
<1>8. ASSUME NEW x \in Txn, NEW c \in Commitment, ClaimCommitment(x, c)
      PROVE  TypeOK'
  BY <1>8 DEF ClaimCommitment, tables, history
<1>9. ASSUME NEW x \in Txn, Commit(x)
      PROVE  TypeOK'
  <2>1. trip[x] \in Trip
    BY <1>9 DEF Commit, DispatchInv, InDispatch, TransitionInv, GeofenceInv, Txn, Trip
  <2>2. /\ vehicle' \in [Trip -> Vehicle \cup {None}]
        /\ driver' \in [Trip -> Driver \cup {None}]
        /\ cargo' \in [Trip -> SUBSET Commitment]
    <3>1. CASE x \in Dispatch
      <4>1. /\ vehicle' = [vehicle EXCEPT ![x] = crew[x].vehicle]
            /\ driver' = [driver EXCEPT ![x] = crew[x].driver]
            /\ cargo' = [cargo EXCEPT ![x] = load[x]]
        BY <1>9, <3>1 DEF Commit, NewTrip
      <4>2. crew[x].vehicle \in Vehicle \cup {None} /\ crew[x].driver \in Driver \cup {None}
        BY DEF Txn
      <4>3. load[x] \in SUBSET Commitment
        BY DEF Txn
      <4> QED  BY <4>1, <4>2, <4>3
    <3>2. CASE x \notin Dispatch
      BY <1>9, <3>2 DEF Commit
    <3> QED  BY <3>1, <3>2
  <2>3. delivery' \in [Commitment -> {"PENDING", "DISPATCHED"}]
    BY <1>9 DEF Commit, DeliveryStatusSet
  <2>4. lock' \in [LockedRow -> Txn \cup {None}]
    BY <1>9 DEF Commit, Unlocked
  <2>5. status' \in [Trip -> TripStatus \cup {None}] /\ reached' \subseteq Trip
        /\ diverted' \subseteq Trip /\ overrun' \subseteq Trip
    BY <1>9, <2>1 DEF Commit
  <2> QED
    BY <1>9, <2>2, <2>3, <2>4, <2>5 DEF Commit, Closed, Goto, TripStatus
<1>10. ASSUME NEW x \in Txn, RollBack(x)
       PROVE  TypeOK'
  BY <1>10 DEF RollBack, Unlocked, Closed, Goto, tables, history, TripStatus
<1>11. CASE UNCHANGED vars
  BY <1>11 DEF vars, tables, session, history
<1> QED
  BY <1>1, <1>2, <1>3, <1>4, <1>5, <1>6, <1>7, <1>8, <1>9, <1>10, <1>11
  DEF Next, Begin, Advance, Served, Conflict, Fail, BreakDeadlock
\* A row lock passes only from its holder, when that ends; the trip of a dispatch
\* is written by nobody else, for it does not exist.
LEMMA DispatchStep ==
    ASSUME TypeOK, DispatchInv, TransitionInv, GeofenceInv, [Next]_vars
    PROVE  DispatchInv'
<1> USE DEF TypeOK, DispatchInv, InDispatch, Txn, Trip, LockedRow
<1>1. ASSUME NEW x \in Dispatch, NEW o \in Order, LockVehicle(x, o)
      PROVE  DispatchInv'
  <2>1. o.vehicle \in Vehicle /\ o.driver \in Driver
    BY TripAssumption
  <2>2. /\ lock'[o.vehicle] = x /\ lock[o.vehicle] = None
        /\ \A r \in LockedRow : r # o.vehicle => lock'[r] = lock[r]
    BY <1>1, <2>1 DEF LockVehicle
  <2>3. /\ pc'[x] = "vehicle" /\ trip'[x] = x /\ target'[x] = target[x]
        /\ crew'[x] = [vehicle |-> o.vehicle, driver |-> o.driver]
        /\ \A y \in Txn : y # x => /\ pc'[y] = pc[y] /\ trip'[y] = trip[y]
                                   /\ crew'[y] = crew[y] /\ target'[y] = target[y]
    BY <1>1 DEF LockVehicle, Goto
  <2>4. pc[x] = "idle" /\ status' = status /\ cargo' = cargo /\ target' = target
    BY <1>1 DEF LockVehicle, tables
  <2>5. \A y \in Dispatch : y # x /\ InDispatch(y) =>
            /\ lock'[crew'[y].vehicle] = y
            /\ pc[y] # "vehicle" => lock'[crew'[y].driver] = y
    BY <2>1, <2>2, <2>3, TripAssumption
  <2>6. \A y \in Dispatch : y # x => /\ pc'[y] = pc[y] /\ trip'[y] = trip[y]
                                     /\ crew'[y] = crew[y] /\ target'[y] = target[y]
    BY <2>3
  <2> QED
    BY <2>1, <2>2, <2>3, <2>4, <2>5, <2>6
<1>2. ASSUME NEW x \in Transition, NEW t \in Trip, NEW s \in TripStatus, LockTrip(x, t, s)
      PROVE  DispatchInv'
  BY <1>2, TripAssumption, NoneIsNoStatus DEF LockTrip, Goto, tables, history
<1>3. ASSUME NEW x \in Geofence, NEW t \in Trip, ReachStop(x, t)
      PROVE  DispatchInv'
  BY <1>3, TripAssumption, NoneIsNoStatus DEF ReachStop, Goto, tables, history
<1>4. ASSUME NEW x \in Geofence, NEW t \in Trip, MarkStop(x, t)
      PROVE  DispatchInv'
  BY <1>4, TripAssumption, NoneIsNoStatus DEF MarkStop, Goto, session, history
<1>5. ASSUME NEW x \in Txn, LockDriver(x)
      PROVE  DispatchInv'
  BY <1>5, TripAssumption, NoneIsNoStatus DEF LockDriver, Goto, tables, session, history
<1>6. ASSUME NEW x \in Txn, CheckVehicle(x) \/ CheckDriver(x)
      PROVE  DispatchInv'
  BY <1>6, TripAssumption, NoneIsNoStatus DEF CheckVehicle, CheckDriver, Goto, tables, session, history
<1>7. ASSUME NEW x \in Txn, StartTrip(x)
      PROVE  DispatchInv'
  BY <1>7, TripAssumption, NoneIsNoStatus DEF StartTrip, Goto, tables, session, history
<1>8. ASSUME NEW x \in Txn, NEW c \in Commitment, ClaimCommitment(x, c)
      PROVE  DispatchInv'
  BY <1>8, TripAssumption, NoneIsNoStatus DEF ClaimCommitment, tables, history
<1>9. ASSUME NEW x \in Txn, Commit(x)
      PROVE  DispatchInv'
  <2>1. x \notin Dispatch => trip[x] \in Trip /\ status[trip[x]] # None
    BY <1>9, TransitionTargets DEF Commit, TransitionInv, GeofenceInv
  <2>2. \A y \in Dispatch : y # x /\ pc[y] # "done" => trip[x] # y
    BY <1>9, <2>1 DEF Commit
  <2> QED
    BY <1>9, <2>2, TripAssumption DEF Commit, NewTrip, Unlocked, Closed, Goto
<1>10. ASSUME NEW x \in Txn, RollBack(x)
       PROVE  DispatchInv'
  BY <1>10, TripAssumption, NoneIsNoStatus DEF RollBack, Unlocked, Closed, Goto, tables, history
<1>11. CASE UNCHANGED vars
  BY <1>11 DEF vars, tables, session, history
<1> QED
  BY <1>1, <1>2, <1>3, <1>4, <1>5, <1>6, <1>7, <1>8, <1>9, <1>10, <1>11
  DEF Next, Begin, Advance, Served, Conflict, Fail, BreakDeadlock

\* A transition under way sees no other write to its trip: the others wait for
\* its lock.
LEMMA TransitionStep ==
    ASSUME TypeOK, DispatchInv, TransitionInv, GeofenceInv, [Next]_vars
    PROVE  TransitionInv'
<1> USE DEF TypeOK, TransitionInv, Txn, Trip, LockedRow
<1>1. ASSUME NEW x \in Dispatch, NEW o \in Order, LockVehicle(x, o)
      PROVE  TransitionInv'
  BY <1>1, TripAssumption DEF LockVehicle, Goto, tables, history
<1>2. ASSUME NEW x \in Transition, NEW t \in Trip, NEW s \in TripStatus, LockTrip(x, t, s)
      PROVE  TransitionInv'
  BY <1>2, TripAssumption DEF LockTrip, Goto, tables, history
<1>3. ASSUME NEW x \in Geofence, NEW t \in Trip, ReachStop(x, t)
      PROVE  TransitionInv'
  BY <1>3, TripAssumption DEF ReachStop, Goto, tables, history
<1>4. ASSUME NEW x \in Geofence, NEW t \in Trip, MarkStop(x, t)
      PROVE  TransitionInv'
  BY <1>4, TripAssumption DEF MarkStop, Goto, session, history
<1>5. ASSUME NEW x \in Txn, LockDriver(x)
      PROVE  TransitionInv'
  BY <1>5, TripAssumption DEF LockDriver, Goto, tables, session, history
<1>6. ASSUME NEW x \in Txn, CheckVehicle(x) \/ CheckDriver(x)
      PROVE  TransitionInv'
  <2>1. x \notin Transition
    BY <1>6 DEF CheckVehicle, CheckDriver
  <2>2. \A y \in Transition : pc'[y] = pc[y]
    BY <1>6, <2>1 DEF CheckVehicle, CheckDriver, Goto
  <2>3. UNCHANGED <<tables, lock, session>>
    BY <1>6 DEF CheckVehicle, CheckDriver
  <2> QED
    BY <2>2, <2>3 DEF tables, session
<1>7. ASSUME NEW x \in Txn, StartTrip(x)
      PROVE  TransitionInv'
  BY <1>7, TripAssumption DEF StartTrip, Goto, tables, session, history
<1>8. ASSUME NEW x \in Txn, NEW c \in Commitment, ClaimCommitment(x, c)
      PROVE  TransitionInv'
  BY <1>8, TripAssumption DEF ClaimCommitment, tables, history
<1>9. ASSUME NEW x \in Txn, Commit(x)
      PROVE  TransitionInv'
  <2>1. \A y \in Transition : y # x /\ pc[y] = "saving" => trip[x] # trip[y]
    <3>1. x \in Dispatch => trip[x] = x /\ status[x] = None
      BY <1>9 DEF Commit, DispatchInv, InDispatch
    <3>2. x \in Transition \cup Geofence => lock[trip[x]] = x
      BY <1>9 DEF Commit, GeofenceInv
    <3>3. \A y \in Transition : pc[y] = "saving" => lock[trip[y]] = y /\ status[trip[y]] # None
      BY TransitionTargets
    <3> QED
      BY <3>1, <3>2, <3>3
  <2>2. \A y \in Transition : y # x /\ pc[y] = "saving" =>
            /\ status'[trip[y]] = status[trip[y]]
            /\ cargo'[trip[y]] = cargo[trip[y]]
            /\ lock'[trip[y]] = y
    <3>1. \A y \in Transition : y # x /\ pc[y] = "saving" => status'[trip[y]] = status[trip[y]]
      BY <1>9, <2>1 DEF Commit
    <3>2. cargo' = IF x \in Dispatch THEN [cargo EXCEPT ![x] = load[x]] ELSE cargo
      BY <1>9 DEF Commit, NewTrip
    <3>3. x \in Dispatch => trip[x] = x
      BY <1>9 DEF Commit, DispatchInv, InDispatch
    <3>4. \A y \in Transition : y # x /\ pc[y] = "saving" => lock'[trip[y]] = y
      BY <1>9 DEF Commit, Unlocked
    <3> QED
      BY <2>1, <3>1, <3>2, <3>3, <3>4
  <2>3. \A y \in Txn : y # x => /\ pc'[y] = pc[y] /\ trip'[y] = trip[y]
                                /\ load'[y] = load[y] /\ target'[y] = target[y]
    BY <1>9 DEF Commit, Closed, Goto
  <2>4. pc'[x] = "done"
    BY <1>9 DEF Commit, Goto
  <2>5. ASSUME NEW y \in Transition, y # x, pc[y] = "saving"
        PROVE  /\ trip'[y] \in Trip
               /\ lock'[trip'[y]] = y
               /\ target'[y] \in ValidTransitions(status'[trip'[y]])
               /\ load'[y] = IF target'[y] \in Released THEN cargo'[trip'[y]] ELSE {}
    <3>1. /\ trip'[y] = trip[y] /\ load'[y] = load[y] /\ target'[y] = target[y]
          /\ status'[trip[y]] = status[trip[y]]
          /\ cargo'[trip[y]] = cargo[trip[y]]
          /\ lock'[trip[y]] = y
      BY <2>2, <2>3, <2>5
    <3>2. /\ trip[y] \in Trip
          /\ target[y] \in ValidTransitions(status[trip[y]])
          /\ load[y] = IF target[y] \in Released THEN cargo[trip[y]] ELSE {}
      BY <2>5
    <3> QED
      BY ONLY <3>1, <3>2
  <2>6. \A y \in Transition : y # x => pc'[y] = pc[y]
    BY <2>3
  <2> HIDE DEF TypeOK
  <2> QED
    BY <2>4, <2>5, <2>6
<1>10. ASSUME NEW x \in Txn, RollBack(x)
       PROVE  TransitionInv'
  BY <1>10, TripAssumption DEF RollBack, Unlocked, Closed, Goto, tables, history
<1>11. CASE UNCHANGED vars
  BY <1>11 DEF vars, tables, session, history
<1> QED
  BY <1>1, <1>2, <1>3, <1>4, <1>5, <1>6, <1>7, <1>8, <1>9, <1>10, <1>11
  DEF Next, Begin, Advance, Served, Conflict, Fail, BreakDeadlock

\* A geofence may see its trip change until it holds the row, never disappear.
LEMMA GeofenceStep ==
    ASSUME TypeOK, DispatchInv, TransitionInv, GeofenceInv, [Next]_vars
    PROVE  GeofenceInv'
<1> USE DEF TypeOK, GeofenceInv, Txn, Trip, LockedRow
<1>1. ASSUME NEW x \in Dispatch, NEW o \in Order, LockVehicle(x, o)
      PROVE  GeofenceInv'
  BY <1>1, TripAssumption, NoneIsNoStatus DEF LockVehicle, Goto, tables, history
<1>2. ASSUME NEW x \in Transition, NEW t \in Trip, NEW s \in TripStatus, LockTrip(x, t, s)
      PROVE  GeofenceInv'
  BY <1>2, TripAssumption, NoneIsNoStatus DEF LockTrip, Goto, tables, history
<1>3. ASSUME NEW x \in Geofence, NEW t \in Trip, ReachStop(x, t)
      PROVE  GeofenceInv'
  <2>1. /\ pc'[x] = "arriving" /\ trip'[x] = t /\ target'[x] = "IN_TRANSIT"
        /\ \A y \in Txn : y # x => /\ pc'[y] = pc[y] /\ trip'[y] = trip[y] /\ target'[y] = target[y]
    BY <1>3 DEF ReachStop, Goto
  <2>2. /\ status[t] # None
        /\ UNCHANGED <<status, lock, load>>
    BY <1>3, NoneIsNoStatus DEF ReachStop, tables, TripStatus
  <2> QED
    BY <2>1, <2>2
<1>4. ASSUME NEW x \in Geofence, NEW t \in Trip, MarkStop(x, t)
      PROVE  GeofenceInv'
  BY <1>4, TripAssumption, NoneIsNoStatus DEF MarkStop, Goto, session, history
<1>5. ASSUME NEW x \in Txn, LockDriver(x)
      PROVE  GeofenceInv'
  BY <1>5, TripAssumption, NoneIsNoStatus DEF LockDriver, Goto, tables, session, history
<1>6. ASSUME NEW x \in Txn, CheckVehicle(x) \/ CheckDriver(x)
      PROVE  GeofenceInv'
  BY <1>6, TripAssumption, NoneIsNoStatus DEF CheckVehicle, CheckDriver, Goto, tables, session, history
<1>7. ASSUME NEW x \in Txn, StartTrip(x)
      PROVE  GeofenceInv'
  BY <1>7, TripAssumption, NoneIsNoStatus DEF StartTrip, Goto, tables, session, history
<1>8. ASSUME NEW x \in Txn, NEW c \in Commitment, ClaimCommitment(x, c)
      PROVE  GeofenceInv'
  BY <1>8, TripAssumption, NoneIsNoStatus DEF ClaimCommitment, tables, history
<1>9. ASSUME NEW x \in Txn, Commit(x)
      PROVE  GeofenceInv'
  <2>1. target[x] # None
    BY NoneIsNoStatus
  <2> QED
    BY <1>9, <2>1, TripAssumption DEF Commit, NewTrip, Unlocked, Closed, Goto
<1>10. ASSUME NEW x \in Txn, RollBack(x)
       PROVE  GeofenceInv'
  BY <1>10, TripAssumption, NoneIsNoStatus DEF RollBack, Unlocked, Closed, Goto, tables, history
<1>11. CASE UNCHANGED vars
  BY <1>11 DEF vars, tables, session, history
<1> QED
  BY <1>1, <1>2, <1>3, <1>4, <1>5, <1>6, <1>7, <1>8, <1>9, <1>10, <1>11
  DEF Next, Begin, Advance, Served, Conflict, Fail, BreakDeadlock

-----------------------------------------------------------------------------
\* A commit writes the status of one trip: the dispatch's own new trip, or one
\* that exists, along a valid transition unless a geofence overwrites it.
LEMMA CommitWrites ==
    ASSUME TypeOK, DispatchInv, TransitionInv, GeofenceInv, NEW x \in Txn, Commit(x)
    PROVE  /\ trip[x] \in Trip
           /\ status' = [status EXCEPT ![trip[x]] = target[x]]
           /\ status'[trip[x]] = target[x]
           /\ \A t \in Trip : t # trip[x] => status'[t] = status[t]
           /\ \/ /\ x \in Dispatch /\ trip[x] = x /\ target[x] = "DISPATCHED"
                 /\ status[x] = None /\ cargo[x] = {}
                 /\ vehicle'[x] = crew[x].vehicle /\ driver'[x] = crew[x].driver
                 /\ cargo'[x] = load[x]
                 /\ \A t \in Trip : t # x => /\ vehicle'[t] = vehicle[t]
                                             /\ driver'[t] = driver[t]
                                             /\ cargo'[t] = cargo[t]
              \/ /\ x \in Transition /\ target[x] \in ValidTransitions(status[trip[x]])
                 /\ load[x] = IF target[x] \in Released THEN cargo[trip[x]] ELSE {}
                 /\ UNCHANGED <<vehicle, driver, cargo>>
              \/ /\ x \in Geofence /\ target[x] = "IN_TRANSIT"
                 /\ load[x] = {}
                 /\ status[trip[x]] # None
                 /\ status[trip[x]] = "DISPATCHED" \/ trip[x] \in overrun'
                 /\ UNCHANGED <<vehicle, driver, cargo>>
<1> USE DEF TypeOK
<1>1. trip[x] \in Trip
  BY DEF Commit, DispatchInv, InDispatch, TransitionInv, GeofenceInv, Txn, Trip
<1>2. /\ status' = [status EXCEPT ![trip[x]] = target[x]]
      /\ status'[trip[x]] = target[x]
      /\ \A t \in Trip : t # trip[x] => status'[t] = status[t]
  BY <1>1 DEF Commit
<1>3. CASE x \in Dispatch
  <2>1. /\ trip[x] = x /\ target[x] = "DISPATCHED" /\ status[x] = None /\ cargo[x] = {}
    BY <1>3 DEF Commit, DispatchInv, InDispatch
  <2>2. NewTrip(x)
    BY <1>3 DEF Commit
  <2> QED
    BY <1>1, <1>2, <1>3, <2>1, <2>2 DEF NewTrip, Trip
<1>4. CASE x \in Transition
  BY <1>1, <1>2, <1>4, TripAssumption DEF Commit, TransitionInv
<1>5. CASE x \in Geofence
  BY <1>1, <1>2, <1>5, TripAssumption DEF Commit, GeofenceInv
<1> QED
  BY <1>3, <1>4, <1>5 DEF Txn

\* A running trip that was neither diverted nor overwritten was running before
\* the step, with the same vehicle and driver, or has just been created.
LEMMA StillMoving ==
    ASSUME TypeOK, DispatchInv, TransitionInv, GeofenceInv, DivertedInv, [Next]_vars,
           NEW t \in Trip \ (diverted' \cup overrun'), Moving(t)'
    PROVE  /\ t \notin diverted \cup overrun
           /\ \/ Moving(t) /\ vehicle'[t] = vehicle[t] /\ driver'[t] = driver[t]
              \/ Commit(t) /\ t \in Dispatch
<1>1. CASE ~ \E x \in Txn : Commit(x)
  <2>1. UNCHANGED <<status, vehicle, driver, cargo, delivery, diverted, overrun>>
    BY <1>1, OnlyCommitWrites
  <2> QED
    BY <2>1 DEF Moving
<1>2. ASSUME NEW x \in Txn, Commit(x)
      PROVE  /\ t \notin diverted \cup overrun
             /\ \/ Moving(t) /\ vehicle'[t] = vehicle[t] /\ driver'[t] = driver[t]
                \/ Commit(t) /\ t \in Dispatch
  <2>1. diverted \subseteq diverted' /\ overrun \subseteq overrun'
    BY <1>2 DEF Commit
  <2>2. CASE t # trip[x]
    BY <1>2, <2>1, <2>2, CommitWrites DEF Moving
  <2>3. CASE t = trip[x] /\ x \in Dispatch
    BY <1>2, <2>1, <2>3, CommitWrites, TripAssumption
  <2>4. CASE t = trip[x] /\ x \in Transition
    <3>1. /\ target[x] \in ValidTransitions(status[t])
          /\ UNCHANGED <<vehicle, driver>>
      BY <1>2, <2>4, CommitWrites, TripAssumption
    <3>2. status[t] \in {"DISPATCHED", "IN_TRANSIT", "HELD_FOR_INSPECTION", "DIVERTED"}
      BY <3>1, TransitionTargets
    <3>3. status[t] # "DIVERTED"
      BY <2>1 DEF DivertedInv
    <3> QED
      BY <2>1, <3>1, <3>2, <3>3 DEF Moving
  <2>5. CASE t = trip[x] /\ x \in Geofence
    BY <1>2, <2>1, <2>5, CommitWrites, TripAssumption DEF Moving
  <2> QED
    BY <2>2, <2>3, <2>4, <2>5 DEF Txn
<1> QED
  BY <1>1, <1>2

\* A trip that is DIVERTED stays in the history of diverted trips.
LEMMA DivertedStep ==
    ASSUME TypeOK, DispatchInv, TransitionInv, GeofenceInv, DivertedInv, [Next]_vars
    PROVE  DivertedInv'
<1>1. CASE ~ \E x \in Txn : Commit(x)
  BY <1>1, OnlyCommitWrites DEF DivertedInv
<1>2. ASSUME NEW x \in Txn, Commit(x)
      PROVE  DivertedInv'
  BY <1>2, CommitWrites DEF DivertedInv, Commit
<1> QED
  BY <1>1, <1>2

\* Two dispatches past their first check hold different vehicles, and past their
\* second lock different drivers.
LEMMA HeldApart ==
    ASSUME DispatchInv, NEW x \in Dispatch, NEW y \in Dispatch, x # y,
           pc[x] \in {"vehicleFree", "saving"}, pc[y] \in {"vehicleFree", "saving"}
    PROVE  crew[x].vehicle # crew[y].vehicle /\ crew[x].driver # crew[y].driver
  BY DEF DispatchInv, InDispatch

\* What was found free under a lock stays free until the dispatch commits.
LEMMA FreeStep ==
    ASSUME TypeOK, DispatchInv, TransitionInv, GeofenceInv, DivertedInv, FreeInv, [Next]_vars
    PROVE  FreeInv'
<1> SUFFICES ASSUME NEW y \in Dispatch, NEW t \in Trip \ (diverted' \cup overrun'), Moving(t)'
             PROVE  /\ pc'[y] \in {"vehicleFree", "saving"} => vehicle'[t] # crew'[y].vehicle
                    /\ pc'[y] = "saving" => driver'[t] # crew'[y].driver
  BY DEF FreeInv
\* Between its check and its commit a dispatch changes nothing but its progress.
<1>1. pc'[y] \in {"vehicleFree", "saving"} =>
          /\ crew'[y] = crew[y]
          /\ ~ Commit(y)
          /\ \/ pc[y] = pc'[y]
             \/ CheckVehicle(y) /\ pc[y] = "driver" /\ pc'[y] = "vehicleFree"
             \/ CheckDriver(y) /\ pc[y] = "vehicleFree" /\ pc'[y] = "saving"
  <2> DEFINE Same    == pc'[y] = pc[y] /\ crew'[y] = crew[y]
             Outside == pc'[y] \notin {"vehicleFree", "saving"}
             Checked == /\ crew'[y] = crew[y]
                        /\ \/ CheckVehicle(y) /\ pc[y] = "driver" /\ pc'[y] = "vehicleFree"
                           \/ CheckDriver(y) /\ pc[y] = "vehicleFree" /\ pc'[y] = "saving"
  <2>1. DOMAIN pc = Txn /\ DOMAIN crew = Txn /\ y \in Txn /\ y \notin Transition
    BY TripAssumption DEF TypeOK, Txn
  <2>2. pc[y] # "arriving"
    BY DEF DispatchInv
  <2>3. ASSUME NEW x \in Txn, Begin(x)  PROVE Same \/ Outside
    <3>1. CASE x \in Dispatch /\ \E o \in Order : LockVehicle(x, o)
      BY <2>1, <3>1 DEF LockVehicle, Goto
    <3>2. CASE x \in Transition /\ \E u \in Trip, s \in TripStatus : LockTrip(x, u, s)
      BY <2>1, <3>2 DEF LockTrip, Goto
    <3>3. CASE \E u \in Trip : ReachStop(x, u) \/ MarkStop(x, u)
      BY <2>1, <3>3 DEF ReachStop, MarkStop, Goto, session
    <3> QED
      BY <2>3, <3>1, <3>2, <3>3 DEF Begin
  <2>4. ASSUME NEW x \in Txn, LockDriver(x) \/ StartTrip(x) \/ \E c \in Commitment : ClaimCommitment(x, c)
        PROVE  Same \/ Outside
    BY <2>1, <2>2, <2>4 DEF LockDriver, StartTrip, ClaimCommitment, Goto, session
  <2>5. ASSUME NEW x \in Txn, Conflict(x) \/ BreakDeadlock(x) \/ Fail(x)
        PROVE  Same \/ Outside
    BY <2>1, <2>5 DEF Conflict, BreakDeadlock, Fail, RollBack, Closed, Goto
  <2>6. ASSUME NEW x \in Txn, Commit(x)  PROVE pc'[x] = "done" /\ (Same \/ Outside)
    BY <2>1, <2>6 DEF Commit, Closed, Goto
  <2>7. ASSUME NEW x \in Txn, CheckVehicle(x) \/ CheckDriver(x)  PROVE Same \/ Checked
    BY <2>1, <2>7 DEF CheckVehicle, CheckDriver, Goto, session
  <2>8. ASSUME UNCHANGED vars  PROVE Same
    BY <2>8 DEF vars, session
  <2>9. ~ Outside => ~ Commit(y)
    BY <2>1, <2>6
  <2>10. Same \/ Outside \/ Checked
    BY <2>3, <2>4, <2>5, <2>6, <2>7, <2>8 DEF Next, Advance, Served
  <2> QED
    BY <2>9, <2>10
<1>2. t \notin diverted \cup overrun
  BY StillMoving
<1>3. CASE Moving(t) /\ vehicle'[t] = vehicle[t] /\ driver'[t] = driver[t]
  <2>1. CASE pc[y] = pc'[y]
    BY <1>1, <1>2, <1>3, <2>1 DEF FreeInv
  <2>2. CASE CheckVehicle(y) /\ pc'[y] = "vehicleFree"
    <3>1. vehicle[t] # crew[y].vehicle
      BY <1>3, <2>2 DEF CheckVehicle, VehicleDispatched, Moving, Running
    <3> QED
      BY <1>1, <1>3, <2>2, <3>1
  <2>3. CASE CheckDriver(y) /\ pc[y] = "vehicleFree" /\ pc'[y] = "saving"
    <3>1. driver[t] # crew[y].driver
      BY <1>3, <2>3 DEF CheckDriver, DriverDispatched, Moving, Running
    <3>2. vehicle[t] # crew[y].vehicle
      BY <1>2, <1>3, <2>3 DEF FreeInv
    <3> QED
      BY <1>1, <1>3, <2>3, <3>1, <3>2
  <2> QED
    BY <1>1, <2>1, <2>2, <2>3
<1>4. CASE Commit(t) /\ t \in Dispatch
  <2>1. /\ pc[t] = "saving"
        /\ vehicle'[t] = crew[t].vehicle /\ driver'[t] = crew[t].driver
    BY <1>4, CommitWrites, TripAssumption DEF Commit, Txn
  <2>2. ASSUME pc'[y] \in {"vehicleFree", "saving"}
        PROVE  y # t /\ pc[y] = pc'[y]
    <3>1. y # t
      BY <1>1, <1>4, <2>2
    <3>2. pc' = [pc EXCEPT ![t] = "done"]
      BY <1>4 DEF Commit, Goto
    <3> QED
      BY <3>1, <3>2 DEF TypeOK, Txn
  <2>3. pc'[y] \in {"vehicleFree", "saving"} =>
            crew[t].vehicle # crew[y].vehicle /\ crew[t].driver # crew[y].driver
    BY <1>4, <2>1, <2>2, HeldApart
  <2> QED
    BY <1>1, <2>1, <2>3
<1> QED
  BY <1>3, <1>4, StillMoving

\* No step gives a vehicle or a driver to two running trips.
LEMMA ExclusiveStep ==
    ASSUME TypeOK, DispatchInv, TransitionInv, GeofenceInv, DivertedInv, FreeInv,
           ExclusiveAssignment, [Next]_vars
    PROVE  ExclusiveAssignment'
<1> SUFFICES ASSUME NEW s \in Trip \ (diverted' \cup overrun'),
                    NEW t \in Trip \ (diverted' \cup overrun'),
                    s # t, Moving(s)', Moving(t)'
             PROVE  vehicle'[s] # vehicle'[t] /\ driver'[s] # driver'[t]
  BY DEF ExclusiveAssignment
<1>1. s \notin diverted \cup overrun /\ t \notin diverted \cup overrun
  BY StillMoving
\* The trip just created has a vehicle and a driver no other running trip has.
<1>2. ASSUME NEW new \in Dispatch, NEW old \in Trip \ (diverted \cup overrun), new # old,
             Commit(new), Moving(old)
      PROVE  vehicle'[new] # vehicle'[old] /\ driver'[new] # driver'[old]
  <2>1. /\ vehicle'[new] = crew[new].vehicle /\ driver'[new] = crew[new].driver
        /\ vehicle'[old] = vehicle[old] /\ driver'[old] = driver[old]
    BY <1>2, CommitWrites, TripAssumption DEF Txn
  <2>2. pc[new] = "saving"
    BY <1>2 DEF Commit
  <2> QED
    BY <1>2, <2>1, <2>2 DEF FreeInv
<1>3. ~ (Commit(s) /\ Commit(t) /\ s \in Dispatch /\ t \in Dispatch)
  <2> SUFFICES ASSUME Commit(s), Commit(t), s \in Dispatch, t \in Dispatch
               PROVE  FALSE
    OBVIOUS
  <2>1. pc'[s] = "done" /\ pc[t] = "saving" /\ pc' = [pc EXCEPT ![s] = "done"]
        /\ pc' = [pc EXCEPT ![t] = "done"]
    BY DEF Commit, Goto, TypeOK, Txn
  <2> QED
    BY <2>1 DEF TypeOK, Txn
<1>4. CASE Commit(s) /\ s \in Dispatch
  BY <1>1, <1>2, <1>3, <1>4, StillMoving
<1>5. CASE Commit(t) /\ t \in Dispatch
  BY <1>1, <1>2, <1>3, <1>5, StillMoving
<1>6. CASE /\ Moving(s) /\ vehicle'[s] = vehicle[s] /\ driver'[s] = driver[s]
           /\ Moving(t) /\ vehicle'[t] = vehicle[t] /\ driver'[t] = driver[t]
  BY <1>1, <1>6 DEF ExclusiveAssignment
<1> QED
  BY <1>4, <1>5, <1>6, StillMoving

\* A commit writes the commitments of its trip together with the status that
\* drops or claims them.
LEMMA CommitmentsStep ==
    ASSUME TypeOK, DispatchInv, TransitionInv, GeofenceInv, CommitmentsFollowTrips, [Next]_vars
    PROVE  CommitmentsFollowTrips'
<1>1. CASE ~ \E x \in Txn : Commit(x)
  BY <1>1, OnlyCommitWrites DEF CommitmentsFollowTrips
<1>2. ASSUME NEW x \in Txn, Commit(x)
      PROVE  CommitmentsFollowTrips'
  <2> DEFINE Dropped == {"CANCELLED", "ABORTED"}
             Carrying(c) == {t \in Trip : c \in cargo[t]}
             Carrying2(c) == {t \in Trip : c \in cargo'[t]}
  <2> SUFFICES ASSUME NEW c \in Commitment, Carrying2(c) \cap overrun' = {}
               PROVE  /\ (\A t \in Carrying2(c) : status'[t] \in Dropped) => delivery'[c] = "PENDING"
                      /\ Carrying2(c) # {} /\ (\A t \in Carrying2(c) : status'[t] \notin Dropped)
                            => delivery'[c] = "DISPATCHED"
    BY DEF CommitmentsFollowTrips
  <2>1. /\ delivery'[c] = IF c \in load[x] THEN DeliveryStatusSet(x) ELSE delivery[c]
        /\ overrun \subseteq overrun'
    BY <1>2 DEF Commit
  <2>2. Carrying(c) \cap overrun = {} =>
            /\ (\A t \in Carrying(c) : status[t] \in Dropped) => delivery[c] = "PENDING"
            /\ Carrying(c) # {} /\ (\A t \in Carrying(c) : status[t] \notin Dropped)
                  => delivery[c] = "DISPATCHED"
    BY DEF CommitmentsFollowTrips
  <2>3. /\ trip[x] \in Trip /\ status'[trip[x]] = target[x]
        /\ \A t \in Trip : t # trip[x] => status'[t] = status[t]
    BY <1>2, CommitWrites
  <2>4. CASE x \in Dispatch
    <3>1. /\ trip[x] = x /\ target[x] = "DISPATCHED" /\ x \notin Carrying(c)
          /\ cargo'[x] = load[x]
          /\ \A t \in Trip : t # x => cargo'[t] = cargo[t]
      BY <1>2, <2>4, CommitWrites, TripAssumption
    <3>2. CASE c \in load[x]
      <4>1. x \in Carrying2(c) /\ status'[x] \notin Dropped
        BY <2>3, <3>1, <3>2
      <4>2. delivery'[c] = "DISPATCHED"
        BY <2>1, <2>4, <3>2 DEF DeliveryStatusSet
      <4> QED
        BY <4>1, <4>2
    <3>3. CASE c \notin load[x]
      <4>1. Carrying2(c) = Carrying(c) /\ \A t \in Carrying(c) : status'[t] = status[t]
        BY <2>3, <3>1, <3>3
      <4>2. delivery'[c] = delivery[c]
        BY <2>1, <3>3
      <4> HIDE DEF Carrying, Carrying2
      <4> QED
        BY <2>1, <2>2, <4>1, <4>2
    <3> QED
      BY <3>2, <3>3
  <2>5. CASE x \in Transition
    <3>1. /\ target[x] \in ValidTransitions(status[trip[x]])
          /\ load[x] = IF target[x] \in Released THEN cargo[trip[x]] ELSE {}
          /\ Carrying2(c) = Carrying(c)
      BY <1>2, <2>5, CommitWrites, TripAssumption
    <3>2. status[trip[x]] \notin Dropped
      BY <3>1, TransitionTargets
    <3>3. CASE c \in load[x]
      <4>1. trip[x] \in Carrying2(c) /\ status'[trip[x]] \in Dropped
        BY <2>3, <3>1, <3>3 DEF Released
      <4>2. delivery'[c] = "PENDING"
        BY <2>1, <2>5, <3>3, TripAssumption DEF DeliveryStatusSet
      <4> QED
        BY <4>1, <4>2
    <3>4. CASE c \notin load[x]
      <4>1. delivery'[c] = delivery[c]
        BY <2>1, <3>4
      <4>2. \A t \in Carrying(c) : status'[t] \in Dropped <=> status[t] \in Dropped
        BY <2>3, <3>1, <3>2, <3>4 DEF Released
      <4> HIDE DEF Carrying, Carrying2, Dropped
      <4> QED
        BY <2>1, <2>2, <3>1, <4>1, <4>2
    <3> QED
      BY <3>3, <3>4
  <2>6. CASE x \in Geofence
    <3>1. /\ load[x] = {} /\ target[x] = "IN_TRANSIT"
          /\ status[trip[x]] = "DISPATCHED" \/ trip[x] \in overrun'
          /\ Carrying2(c) = Carrying(c)
      BY <1>2, <2>6, CommitWrites, TripAssumption
    <3>2. delivery'[c] = delivery[c]
      BY <2>1, <3>1
    <3>3. \A t \in Carrying(c) : status'[t] \in Dropped <=> status[t] \in Dropped
      BY <2>3, <3>1
    <3> HIDE DEF Carrying, Carrying2, Dropped
    <3> QED
      BY <2>1, <2>2, <3>1, <3>2, <3>3
  <2> QED
    BY <2>4, <2>5, <2>6 DEF Txn
<1> QED
  BY <1>1, <1>2

\* The stops keep following their trips.
LEMMA StopsStep ==
    ASSUME TypeOK, DispatchInv, TransitionInv, GeofenceInv, StopsFollowTrips, [Next]_vars
    PROVE  StopsFollowTrips'
<1>1. ASSUME NEW x \in Txn, Commit(x)
      PROVE  StopsFollowTrips'
  <2>1. /\ status'[trip[x]] = target[x]
        /\ \A t \in Trip : t # trip[x] => status'[t] = status[t]
    BY <1>1, CommitWrites
  <2>2. reached' = IF x \in Geofence THEN reached \cup {trip[x]} ELSE reached
    BY <1>1 DEF Commit
  <2>3. x \notin Dispatch => target[x] \notin {None, "DISPATCHED"}
    BY <1>1, CommitWrites, TransitionTargets, GeofenceTarget, TripAssumption
  <2>4. x \in Dispatch => trip[x] \notin reached
    BY <1>1, CommitWrites, TripAssumption DEF StopsFollowTrips
  <2> QED
    BY <2>1, <2>2, <2>3, <2>4, TripAssumption DEF StopsFollowTrips, TypeOK, Txn
<1>2. ASSUME NEW x \in Txn, NEW t \in Trip, MarkStop(x, t)
      PROVE  StopsFollowTrips'
  BY <1>2 DEF MarkStop, StopsFollowTrips
<1>3. CASE UNCHANGED <<status, reached>>
  BY <1>3 DEF StopsFollowTrips
<1> QED
  BY <1>1, <1>2, <1>3
  DEF Next, Begin, Advance, Served, LockVehicle, LockDriver, CheckVehicle, CheckDriver,
      LockTrip, ReachStop, StartTrip, ClaimCommitment, Conflict, Fail, BreakDeadlock, RollBack,
      vars, tables

-----------------------------------------------------------------------------
\* The invariant holds in every state.
LEMMA Inductive == Spec => []IInv
<1>1. Init => IInv
  BY InitEstablishes
<1>2. IInv /\ [Next]_vars => IInv'
  BY TypeStep, DispatchStep, TransitionStep, GeofenceStep, FreeStep, DivertedStep,
     ExclusiveStep, CommitmentsStep, StopsStep DEF IInv
<1> QED
  BY <1>1, <1>2, PTL DEF Spec

\* No vehicle and no driver is on two running trips, however many requests compete
\* for them: row locks on both, taken before the running trips are counted, are
\* enough, but for trips that were diverted or overwritten by a geofence.
THEOREM AssignmentIsExclusive == Spec => []ExclusiveAssignment
<1>1. IInv => ExclusiveAssignment
  BY DEF IInv
<1> QED
  BY <1>1, Inductive, PTL

\* A trip, its commitments and its stop tell the same story in every state, after
\* commits, roll backs and broken deadlocks alike.
THEOREM RecordsCorrect == Spec => []RecordsFollowTrips
<1>1. IInv => RecordsFollowTrips
  BY DEF IInv, RecordsFollowTrips
<1> QED
  BY <1>1, Inductive, PTL

\* No two requests take a trip off VALID_TRIP_TRANSITIONS together; only the
\* geofence, which reads without a lock, can.
THEOREM TransitionsAreLegal == Spec => SerialTransitionsAreLegal
<1> DEFINE Legal(t) == status[t] # None /\ status'[t] # status[t] =>
                           status'[t] \in ValidTransitions(status[t])
<1>1. IInv /\ [Next]_vars => [\A t \in Trip \ overrun' : Legal(t)]_vars
  <2> SUFFICES ASSUME IInv, [Next]_vars, NEW t \in Trip \ overrun',
                      status[t] # None, status'[t] # status[t]
               PROVE  status'[t] \in ValidTransitions(status[t])
    OBVIOUS
  <2> USE DEF IInv
  <2>1. PICK x \in Txn : Commit(x)
    BY OnlyCommitWrites
  <2>2. t = trip[x] /\ status'[t] = target[x]
    BY <2>1, CommitWrites
  <2> QED
    BY <2>1, <2>2, CommitWrites, GeofenceTarget
<1> QED
  BY <1>1, Inductive, PTL DEF Spec, SerialTransitionsAreLegal

-----------------------------------------------------------------------------
(***************************************************************************)
(* Proofs about DataLoading: whatever scripts and routes run at once, stop *)
(* halfway and are run again, a script's rows are there together and once. *)
(*                                                                         *)
(* The argument: a row with a unique key that one session has inserted is  *)
(* in no committed row and with no other session, and the rows before the  *)
(* one a session is at are inserted or found.  A driver has no such key;   *)
(* until a route registers one, the vehicle that comes before it has.      *)
(***************************************************************************)

\* The loading of data on its own.
DataSpec == DataInit /\ [][DataNext]_dataVars

\* The rows of each plan, as sets.
LEMMA PlanRows ==
  /\ ToSet(Plan["seed_demo"]) = {"organization", "jurisdiction", "user", "membership"}
  /\ ToSet(Plan["load_pilot_corridor"])
       = {"version", "node", "edge", "bridge", "restriction", "facility"}
  /\ ToSet(Plan["seed_regional_network"])
       = {"regional_node", "regional_edge", "regional_facility"}
  /\ ToSet(Plan["seed_fleet_demo"]) = {"vehicle", "driver", "device", "commitment", "trip"}
  /\ ToSet(Plan["seed_reporting_demo"]) = {"media", "report", "report_media", "incident"}
  /\ ToSet(Plan["create_vehicle"]) = {"vehicle"}
  /\ ToSet(Plan["create_driver"]) = {"driver"}
  /\ ToSet(Plan["create_commitment"]) = {"commitment"}
  /\ ToSet(Plan["register_device"]) = {"device"}
  /\ ToSet(Plan["replay_simulator"]) = {"simulator"}
<1>1. Plan["seed_demo"] = <<"organization", "jurisdiction", "user", "membership">>
  BY DEF Plan, SeedDemo
<1>2. Plan["load_pilot_corridor"]
        = <<"version", "node", "edge", "bridge", "restriction">> \o <<"facility">>
  BY DEF Plan, LoadPilotCorridor, SavedNetwork, SavedFacilities
<1>3. Plan["seed_regional_network"]
        = <<"regional_node", "regional_edge">> \o <<"regional_facility">>
  BY DEF Plan, SeedRegionalNetwork, RegionalRoads, RegionalFacilities
<1>4. Plan["seed_fleet_demo"] = <<"vehicle", "driver", "device", "commitment", "trip">>
  BY DEF Plan, SeedFleetDemo
<1>5. Plan["seed_reporting_demo"] = <<"media", "report", "report_media", "incident">>
  BY DEF Plan, SeedReportingDemo
<1>6. /\ Plan["create_vehicle"] = <<"vehicle">> /\ Plan["create_driver"] = <<"driver">>
      /\ Plan["create_commitment"] = <<"commitment">>
      /\ Plan["register_device"] = <<"device">>
      /\ Plan["replay_simulator"] = <<"simulator">>
  BY DEF Plan, CreateVehicle, CreateDriver, CreateCommitment, RegisterDevice, ReplaySimulator
<1>7. ToSet(Plan["seed_demo"]) = {"organization", "jurisdiction", "user", "membership"}
  BY <1>1 DEF ToSet
<1>8. ToSet(Plan["load_pilot_corridor"])
       = {"version", "node", "edge", "bridge", "restriction", "facility"}
  BY <1>2 DEF ToSet
<1>9. ToSet(Plan["seed_regional_network"])
       = {"regional_node", "regional_edge", "regional_facility"}
  BY <1>3 DEF ToSet
<1>10. ToSet(Plan["seed_fleet_demo"])
         = {"vehicle", "driver", "device", "commitment", "trip"}
  BY <1>4 DEF ToSet
<1>11. ToSet(Plan["seed_reporting_demo"]) = {"media", "report", "report_media", "incident"}
  BY <1>5 DEF ToSet
<1>12. /\ ToSet(Plan["create_vehicle"]) = {"vehicle"}
       /\ ToSet(Plan["create_driver"]) = {"driver"}
       /\ ToSet(Plan["create_commitment"]) = {"commitment"}
       /\ ToSet(Plan["register_device"]) = {"device"}
       /\ ToSet(Plan["replay_simulator"]) = {"simulator"}
  BY <1>6 DEF ToSet
<1> QED
  BY <1>7, <1>8, <1>9, <1>10, <1>11, <1>12

\* The rows a job is about.
RowsOf(j) == ToSet(Plan[j])

\* A plan is a sequence of rows, and the fleet script looks for the vehicle first and
\* for the driver next.
LEMMA PlanSteps ==
  /\ \A j \in Jobs : Len(Plan[j]) \in Nat
  /\ \A j \in Jobs, i \in Nat : 1 <= i /\ i <= Len(Plan[j]) => Plan[j][i] \in RowsOf(j)
  /\ \A j \in Jobs : \A r \in RowsOf(j) : \E i \in 1..Len(Plan[j]) : Plan[j][i] = r
  /\ Plan["seed_fleet_demo"][1] = "vehicle"
  /\ \A i \in 1..Len(Plan["seed_fleet_demo"]) :
       Plan["seed_fleet_demo"][i] = "driver" => i = 2
<1>1. Plan["seed_fleet_demo"] = <<"vehicle", "driver", "device", "commitment", "trip">>
  BY DEF Plan, SeedFleetDemo
<1>2. ASSUME NEW j \in Jobs PROVE Len(Plan[j]) \in Nat /\ DOMAIN Plan[j] = 1..Len(Plan[j])
  <2>1. /\ Len(Plan["load_pilot_corridor"]) = 6
        /\ DOMAIN Plan["load_pilot_corridor"] = 1..6
    BY DEF Plan, LoadPilotCorridor, SavedNetwork, SavedFacilities
  <2>2. /\ Len(Plan["seed_regional_network"]) = 3
        /\ DOMAIN Plan["seed_regional_network"] = 1..3
    BY DEF Plan, SeedRegionalNetwork, RegionalRoads, RegionalFacilities
  <2>3. /\ Len(Plan["seed_demo"]) = 4 /\ DOMAIN Plan["seed_demo"] = 1..4
        /\ Len(Plan["seed_fleet_demo"]) = 5 /\ DOMAIN Plan["seed_fleet_demo"] = 1..5
        /\ Len(Plan["seed_reporting_demo"]) = 4 /\ DOMAIN Plan["seed_reporting_demo"] = 1..4
    BY DEF Plan, SeedDemo, SeedFleetDemo, SeedReportingDemo
  <2>4. /\ Len(Plan["create_vehicle"]) = 1 /\ DOMAIN Plan["create_vehicle"] = 1..1
        /\ Len(Plan["create_driver"]) = 1 /\ DOMAIN Plan["create_driver"] = 1..1
        /\ Len(Plan["create_commitment"]) = 1 /\ DOMAIN Plan["create_commitment"] = 1..1
        /\ Len(Plan["register_device"]) = 1 /\ DOMAIN Plan["register_device"] = 1..1
        /\ Len(Plan["replay_simulator"]) = 1 /\ DOMAIN Plan["replay_simulator"] = 1..1
    BY DEF Plan, CreateVehicle, CreateDriver, CreateCommitment, RegisterDevice,
           ReplaySimulator
  <2>5. j \in {"seed_demo", "load_pilot_corridor", "seed_regional_network",
               "seed_fleet_demo", "seed_reporting_demo", "create_vehicle", "create_driver",
               "create_commitment", "register_device", "replay_simulator"}
    BY DEF Jobs, Plan
  <2> QED
    BY <2>1, <2>2, <2>3, <2>4, <2>5
<1>3. ASSUME NEW j \in Jobs
      PROVE  Len(Plan[j]) \in Nat /\ RowsOf(j) = {Plan[j][i] : i \in 1..Len(Plan[j])}
  BY <1>2 DEF RowsOf, ToSet
<1> QED
  BY <1>1, <1>3

\* The rows that are inserted with another one are in no plan, and every row is known.
LEMMA RowFacts ==
  /\ \A j \in Jobs : RowsOf(j) \intersect (DemoTrip \union DemoIncident) = {}
  /\ \A j \in Jobs : RowsOf(j) \subseteq Row
  /\ \A r \in Row : With(r) \subseteq DemoTrip \union DemoIncident
  /\ \A r \in DemoTrip \union DemoIncident : r \in Row /\ With(r) = {}
  /\ \A j \in Jobs : "vehicle" \in RowsOf(j) => j \in {"seed_fleet_demo", "create_vehicle"}
  /\ \A j \in Jobs : "driver" \in RowsOf(j) => j \in {"seed_fleet_demo", "create_driver"}
  /\ {"vehicle", "driver"} \subseteq RowsOf("seed_fleet_demo")
  /\ "position" \in Row /\ "ledger" \in Row /\ "breadcrumb" \in Row
  /\ Roads \subseteq Row
<1>1. ASSUME NEW j \in Jobs
      PROVE  j \in {"seed_demo", "load_pilot_corridor", "seed_regional_network",
               "seed_fleet_demo", "seed_reporting_demo", "create_vehicle", "create_driver",
               "create_commitment", "register_device", "replay_simulator"}
  BY DEF Jobs, Plan
<1>2. \A j \in Jobs : RowsOf(j) \subseteq Row
  BY DEF Row, RowsOf
<1>3. \A j \in Jobs : RowsOf(j) \intersect (DemoTrip \union DemoIncident) = {}
  BY <1>1, PlanRows DEF RowsOf, DemoTrip, DemoIncident
<1>4. \A j \in Jobs : "vehicle" \in RowsOf(j) => j \in {"seed_fleet_demo", "create_vehicle"}
  BY <1>1, PlanRows DEF RowsOf
<1>5. \A j \in Jobs : "driver" \in RowsOf(j) => j \in {"seed_fleet_demo", "create_driver"}
  BY <1>1, PlanRows DEF RowsOf
<1>6. /\ {"vehicle", "driver"} \subseteq RowsOf("seed_fleet_demo")
      /\ "edge" \in RowsOf("load_pilot_corridor")
      /\ "regional_edge" \in RowsOf("seed_regional_network")
      /\ "load_pilot_corridor" \in Jobs /\ "seed_regional_network" \in Jobs
  BY PlanRows DEF RowsOf, Jobs, Plan
<1>7. Roads \subseteq Row
  BY <1>2, <1>6 DEF Roads
<1>8. /\ \A r \in DemoTrip \union DemoIncident : r \in Row /\ With(r) = {}
      /\ \A r \in Row : With(r) \subseteq DemoTrip \union DemoIncident
      /\ "position" \in Row /\ "ledger" \in Row /\ "breadcrumb" \in Row
  <2>1. \A r \in DemoTrip \union DemoIncident : r \in Row
    BY DEF Row
  <2>2. \A r \in DemoTrip \union DemoIncident : r # "trip" /\ r # "incident"
    BY DEF DemoTrip, DemoIncident
  <2>3. \A r \in DemoTrip \union DemoIncident : With(r) = {}
    BY <2>2 DEF With
  <2>4. \A r \in Row : With(r) \subseteq DemoTrip \union DemoIncident
    BY DEF With
  <2>5. "position" \in DemoTrip /\ "ledger" \in DemoTrip /\ "breadcrumb" \in DemoTrip
    BY DEF DemoTrip
  <2> QED
    BY <2>1, <2>3, <2>4, <2>5
<1> QED
  BY <1>2, <1>3, <1>4, <1>5, <1>6, <1>7, <1>8

\* What a loader in progress is.
Work == [job : Jobs, at : Nat, drafts : SUBSET Row, pc : {"look", "insert"}]

\* What it has inserted is of its own plan, with the rows that go along.
OwnDrafts(x) ==
  /\ 1 <= x.at /\ x.at <= Len(Plan[x.job]) + 1
  /\ x.drafts \subseteq RowsOf(x.job) \union DemoTrip \union DemoIncident
  /\ \A r \in x.drafts : With(r) \subseteq x.drafts
  /\ ("ledger" \in x.drafts \/ "breadcrumb" \in x.drafts) => "position" \in x.drafts

\* The rows before the one it is at have been inserted or found.
Done(x, stored) ==
  \A i \in Nat : 1 <= i /\ i < x.at =>
    Plan[x.job][i] \in x.drafts \/ stored[Plan[x.job][i]] > 0

\* The fleet script inserts a driver only when it has inserted the vehicle.
VehicleFirst(x) ==
  x.job = "seed_fleet_demo" =>
    /\ "driver" \in x.drafts => "vehicle" \in x.drafts
    /\ x.at = 2 /\ x.pc = "insert" => "vehicle" \in x.drafts

\* A constrained row that is inserted is in no committed row and with no other loader.
DraftsInv ==
  \A l \in Loaders : Active(l) =>
    \A r \in loader[l].drafts : Constrained(r) =>
      /\ rows[r] = 0
      /\ \A k \in Loaders : k # l /\ Active(k) => r \notin loader[k].drafts

\* Until a route has registered one of them there is a vehicle exactly when there is a
\* driver.
PairInv ==
  registered = {} =>
    /\ rows["vehicle"] > 0 <=> rows["driver"] > 0
    /\ \A l \in Loaders : Active(l) => VehicleFirst(loader[l])

WorkInv ==
  /\ jobsRun \subseteq Jobs
  /\ rows \in [Row -> 0..2]
  /\ loader \in [Loaders -> {Free} \union Work]
  /\ \A l \in Loaders : Active(l) => OwnDrafts(loader[l]) /\ Done(loader[l], rows)

RoadsInv == closedRoads \subseteq Roads /\ \A road \in closedRoads : rows[road] > 0

DataInv == WorkInv /\ RoadsInv /\ DraftsInv /\ PairInv /\ ScriptsAreWhole /\ RowsAreUnique

\* A job in progress is a job, and no free loader.
LEMMA WorkFacts == \A x \in Work : x # Free /\ x.job \in Jobs
<1>1. "none" \notin Jobs
  BY DEF Jobs, Plan
<1> QED
  BY <1>1 DEF Work, Free

\* The empty database satisfies it.
LEMMA DataInitHolds == DataAssumption /\ DataInit => DataInv
<1> SUFFICES ASSUME DataAssumption, DataInit PROVE DataInv
  OBVIOUS
<1> USE DEF DataInit
<1>1. jobsRun \subseteq Jobs
  BY DEF DataAssumption
<1>2. rows \in [Row -> 0..2] /\ \A r \in Row : rows[r] = 0
  OBVIOUS
<1>3. \A l \in Loaders : ~Active(l)
  BY DEF Active
<1>4. WorkInv
  BY <1>1, <1>2, <1>3 DEF WorkInv
<1>5. RoadsInv /\ DraftsInv
  BY <1>3 DEF RoadsInv, DraftsInv
<1>6. rows["vehicle"] = 0 /\ rows["driver"] = 0
  <2>1. "vehicle" \in Row /\ "driver" \in Row
    BY RowFacts DEF Jobs, Plan
  <2> QED
    BY <1>2, <2>1
<1>7. PairInv
  BY <1>3, <1>6 DEF PairInv
<1>8. RowsAreUnique
  BY <1>2 DEF RowsAreUnique
<1>9. ScriptsAreWhole
  <2>1. \A script \in Scripts : Written[script] \subseteq Row
    BY RowFacts DEF Scripts, Jobs, Plan, Written, RowsOf
  <2> QED
    BY <1>2, <2>1 DEF ScriptsAreWhole, Present
<1> QED
  BY <1>4, <1>5, <1>7, <1>8, <1>9 DEF DataInv

\* A step of one loader that stores nothing.
LEMMA LoaderSteps ==
  ASSUME DataInv, NEW l \in Loaders, NEW y, loader' = [loader EXCEPT ![l] = y],
         UNCHANGED <<jobsRun, rows, closedRoads, registered>>,
         y # Free =>
           /\ y \in Work /\ OwnDrafts(y) /\ Done(y, rows)
           /\ registered = {} => VehicleFirst(y)
           /\ \A r \in y.drafts : Constrained(r) =>
                /\ rows[r] = 0
                /\ \A k \in Loaders : k # l /\ Active(k) => r \notin loader[k].drafts
  PROVE  DataInv'
<1>1. /\ loader'[l] = y /\ \A k \in Loaders : k # l => loader'[k] = loader[k]
      /\ DOMAIN loader = Loaders /\ y \in {Free} \union Work
  BY DEF DataInv, WorkInv
<1>2. (Active(l)' <=> y # Free) /\ \A k \in Loaders : k # l => (Active(k)' <=> Active(k))
  BY <1>1 DEF Active
<1>3. loader' \in [Loaders -> {Free} \union Work]
  BY <1>1 DEF DataInv, WorkInv
<1>4. ASSUME NEW k \in Loaders, Active(k)' PROVE (OwnDrafts(loader[k]) /\ Done(loader[k], rows))'
  <2>1. CASE k = l
    BY <2>1, <1>1, <1>2, <1>4 DEF OwnDrafts, Done
  <2>2. CASE k # l
    <3>1. OwnDrafts(loader[k]) /\ Done(loader[k], rows)
      BY <2>2, <1>2, <1>4 DEF DataInv, WorkInv
    <3> QED
      BY <3>1, <2>2, <1>1 DEF OwnDrafts, Done
  <2> QED
    BY <2>1, <2>2
<1>5. WorkInv'
  BY <1>3, <1>4 DEF DataInv, WorkInv
<1>6. RoadsInv' /\ ScriptsAreWhole' /\ RowsAreUnique'
  BY DEF DataInv, RoadsInv, ScriptsAreWhole, RowsAreUnique, Present
<1>7. DraftsInv'
  <2> SUFFICES ASSUME NEW k \in Loaders, Active(k)', NEW r \in (loader[k].drafts)',
                      Constrained(r)
               PROVE  /\ rows[r] = 0
                      /\ \A m \in Loaders : m # k /\ Active(m)' => r \notin (loader[m].drafts)'
    BY DEF DraftsInv, Constrained
  <2>1. CASE k = l
    BY <2>1, <1>1, <1>2
  <2>2. CASE k # l
    <3>1. /\ rows[r] = 0
          /\ \A m \in Loaders : m # k /\ Active(m) => r \notin loader[m].drafts
      BY <2>2, <1>1, <1>2 DEF DataInv, DraftsInv
    <3>2. Active(l)' => r \notin (loader[l].drafts)'
      BY <2>2, <1>1, <1>2
    <3> QED
      BY <3>1, <3>2, <1>1, <1>2
  <2> QED
    BY <2>1, <2>2
<1>8. PairInv'
  <2>1. ASSUME registered = {}, NEW k \in Loaders, Active(k)' PROVE VehicleFirst(loader[k])'
    <3>1. CASE k = l
      BY <3>1, <2>1, <1>1, <1>2 DEF VehicleFirst
    <3>2. CASE k # l
      <4>1. VehicleFirst(loader[k])
        BY <3>2, <2>1, <1>2 DEF DataInv, PairInv
      <4> QED
        BY <4>1, <3>2, <1>1 DEF VehicleFirst
    <3> QED
      BY <3>1, <3>2
  <2> QED
    BY <2>1 DEF DataInv, PairInv
<1> QED
  BY <1>5, <1>6, <1>7, <1>8 DEF DataInv

\* A loader that fails takes its drafts with it.
LEMMA CrashKeepsData ==
  ASSUME DataInv, NEW l \in Loaders, Crash(l)
  PROVE  DataInv'
<1>1. loader' = [loader EXCEPT ![l] = Free]
  BY DEF Crash, RolledBack
<1> QED
  BY <1>1, LoaderSteps DEF Crash

\* A loader starts without drafts.
LEMMA StartKeepsData ==
  ASSUME DataInv, NEW l \in Loaders, Start(l)
  PROVE  DataInv'
<1>1. PICK job \in jobsRun : loader' = [loader EXCEPT ![l] =
        [job |-> job, at |-> 1, drafts |-> {},
         pc |-> IF job \in Unlooked THEN "insert" ELSE "look"]]
  BY DEF Start
<1> DEFINE y == [job |-> job, at |-> 1, drafts |-> {},
                 pc |-> IF job \in Unlooked THEN "insert" ELSE "look"]
<1>2. job \in Jobs
  BY DEF DataInv, WorkInv
<1>3. y \in Work
  BY <1>2 DEF Work
<1>4. OwnDrafts(y) /\ Done(y, rows) /\ VehicleFirst(y)
  BY <1>2, PlanSteps DEF OwnDrafts, Done, VehicleFirst
<1>5. y.drafts = {}
  OBVIOUS
<1> HIDE DEF y
<1>6. loader' = [loader EXCEPT ![l] = y]
  BY <1>1 DEF y
<1> QED
  BY <1>3, <1>4, <1>5, <1>6, LoaderSteps DEF Start

\* What is known of a loader that has rows left.
LEMMA AtWork ==
  ASSUME DataInv, NEW l \in Loaders, Active(l), Remaining(l)
  PROVE  /\ loader[l] \in Work /\ loader[l] # Free
         /\ OwnDrafts(loader[l]) /\ Done(loader[l], rows)
         /\ Next1(l) = Plan[loader[l].job][loader[l].at]
         /\ Next1(l) \in RowsOf(loader[l].job) /\ Next1(l) \in Row
         /\ loader[l].at \in Nat /\ 1 <= loader[l].at
         /\ loader[l].at <= Len(Plan[loader[l].job]) /\ Len(Plan[loader[l].job]) \in Nat
<1>1. loader[l] \in Work /\ loader[l] # Free /\ OwnDrafts(loader[l]) /\ Done(loader[l], rows)
  BY DEF DataInv, WorkInv, Active
<1>2. loader[l].job \in Jobs /\ loader[l].at \in Nat /\ 1 <= loader[l].at
  BY <1>1, WorkFacts DEF Work, OwnDrafts
<1>3. loader[l].at <= Len(Plan[loader[l].job])
  BY DEF Remaining
<1> QED
  BY <1>1, <1>2, <1>3, PlanSteps, RowFacts DEF Next1

\* The row looked up is there, or will be inserted next.
LEMMA LookUpKeepsData ==
  ASSUME DataInv, NEW l \in Loaders, LookUp(l)
  PROVE  DataInv'
<1>1. Active(l) /\ Remaining(l) /\ UNCHANGED <<jobsRun, rows, closedRoads, registered>>
  BY DEF LookUp
<1>2. /\ loader[l] \in Work /\ loader[l] # Free
      /\ OwnDrafts(loader[l]) /\ Done(loader[l], rows)
      /\ Next1(l) = Plan[loader[l].job][loader[l].at]
      /\ Next1(l) \in RowsOf(loader[l].job) /\ Next1(l) \in Row
      /\ loader[l].at \in Nat /\ 1 <= loader[l].at
      /\ loader[l].at <= Len(Plan[loader[l].job]) /\ Len(Plan[loader[l].job]) \in Nat
  BY <1>1, AtWork
<1>3. CASE loader' = RolledBack(l)
  <2>1. loader' = [loader EXCEPT ![l] = Free]
    BY <1>3 DEF RolledBack
  <2> QED
    BY <1>1, <2>1, LoaderSteps
<1>4. CASE Found(l) /\ loader' = [loader EXCEPT ![l].at = @ + 1]
  <2> DEFINE y == [loader[l] EXCEPT !.at = @ + 1]
  <2>1. /\ y \in Work /\ y.at = loader[l].at + 1 /\ y.drafts = loader[l].drafts
        /\ y.job = loader[l].job /\ y.pc = loader[l].pc
    BY <1>2 DEF Work
  <2>2. loader' = [loader EXCEPT ![l] = y]
    BY <1>4
  <2> HIDE DEF y
  <2>3. OwnDrafts(y)
    BY <1>2, <2>1 DEF OwnDrafts
  <2>4. Done(y, rows)
    BY <1>2, <1>4, <2>1 DEF Done, Found, Present
  <2>5. loader[l].pc = "look"
    BY <1>4 DEF LookUp
  <2>6. registered = {} => VehicleFirst(y)
    BY <1>1, <1>2, <2>1, <2>5 DEF VehicleFirst, DataInv, PairInv
  <2>7. \A r \in y.drafts : Constrained(r) =>
          /\ rows[r] = 0
          /\ \A k \in Loaders : k # l /\ Active(k) => r \notin loader[k].drafts
    BY <1>1, <2>1 DEF DataInv, DraftsInv
  <2> QED
    BY <1>1, <2>1, <2>2, <2>3, <2>4, <2>6, <2>7, LoaderSteps
<1>5. CASE ~Found(l) /\ loader' = [loader EXCEPT ![l].pc = "insert"]
  <2> DEFINE y == [loader[l] EXCEPT !.pc = "insert"]
  <2>1. /\ y \in Work /\ y.at = loader[l].at /\ y.drafts = loader[l].drafts
        /\ y.job = loader[l].job /\ y.pc = "insert"
    BY <1>2 DEF Work
  <2>2. loader' = [loader EXCEPT ![l] = y]
    BY <1>5
  <2> HIDE DEF y
  <2>3. OwnDrafts(y) /\ Done(y, rows)
    BY <1>2, <2>1 DEF OwnDrafts, Done
  <2>4. ASSUME registered = {}, y.job = "seed_fleet_demo", y.at = 2
        PROVE  "vehicle" \in y.drafts
    <3>1. Plan["seed_fleet_demo"][2] = "driver" /\ Plan["seed_fleet_demo"][1] = "vehicle"
      BY DEF Plan, SeedFleetDemo
    <3>2. ~(rows["driver"] > 0)
      BY <1>2, <1>5, <2>1, <2>4, <3>1 DEF Found, Present
    <3>3. ~(rows["vehicle"] > 0)
      BY <2>4, <3>2 DEF DataInv, PairInv
    <3> QED
      BY <2>3, <2>4, <3>1, <3>3 DEF Done
  <2>5. registered = {} => VehicleFirst(y)
    BY <1>1, <2>1, <2>4 DEF VehicleFirst, DataInv, PairInv
  <2>6. \A r \in y.drafts : Constrained(r) =>
          /\ rows[r] = 0
          /\ \A k \in Loaders : k # l /\ Active(k) => r \notin loader[k].drafts
    BY <1>1, <2>1 DEF DataInv, DraftsInv
  <2> QED
    BY <1>1, <2>1, <2>2, <2>3, <2>5, <2>6, LoaderSteps
<1> QED
  BY <1>3, <1>4, <1>5 DEF LookUp

\* What is inserted is in no committed row and with no other loader.
LEMMA InsertKeepsData ==
  ASSUME DataInv, NEW l \in Loaders, Insert(l)
  PROVE  DataInv'
<1> DEFINE new == {Next1(l)} \union With(Next1(l))
           keyed == {row \in new : Constrained(row)}
<1>1. Active(l) /\ Remaining(l) /\ UNCHANGED <<jobsRun, rows, closedRoads, registered>>
  BY DEF Insert
<1>2. /\ loader[l] \in Work /\ loader[l] # Free
      /\ OwnDrafts(loader[l]) /\ Done(loader[l], rows)
      /\ Next1(l) = Plan[loader[l].job][loader[l].at]
      /\ Next1(l) \in RowsOf(loader[l].job) /\ Next1(l) \in Row
      /\ loader[l].at \in Nat /\ 1 <= loader[l].at
      /\ loader[l].at <= Len(Plan[loader[l].job]) /\ Len(Plan[loader[l].job]) \in Nat
  BY <1>1, AtWork
<1>3. CASE loader' = RolledBack(l)
  <2>1. loader' = [loader EXCEPT ![l] = Free]
    BY <1>3 DEF RolledBack
  <2> QED
    BY <1>1, <2>1, LoaderSteps
<1>4. CASE /\ ~ \E row \in keyed : Present(row)
           /\ loader' = [loader EXCEPT ![l].drafts = @ \union new,
                                       ![l].at = @ + 1, ![l].pc = "look"]
  <2> DEFINE y == [loader[l] EXCEPT !.drafts = @ \union new, !.at = @ + 1, !.pc = "look"]
  <2>1. new \subseteq Row /\ With(Next1(l)) \subseteq DemoTrip \union DemoIncident
    BY <1>2, RowFacts
  <2>2. /\ y \in Work /\ y.at = loader[l].at + 1 /\ y.drafts = loader[l].drafts \union new
        /\ y.job = loader[l].job /\ y.pc = "look"
    <3> DEFINE d == loader[l].drafts \union new
               u == [loader[l] EXCEPT !.drafts = d]
               v == [u EXCEPT !.at = @ + 1]
               z == [v EXCEPT !.pc = "look"]
    <3>1. d \in SUBSET Row
      BY <1>2, <2>1 DEF Work
    <3>2. y = z
      OBVIOUS
    <3> HIDE DEF d
    <3>3. u \in Work /\ u.at = loader[l].at /\ u.drafts = d /\ u.job = loader[l].job
      BY <1>2, <3>1 DEF Work
    <3> HIDE DEF u
    <3>4. v \in Work /\ v.at = loader[l].at + 1 /\ v.drafts = d /\ v.job = loader[l].job
      BY <1>2, <3>3 DEF Work
    <3> HIDE DEF v
    <3>5. z \in Work /\ z.at = loader[l].at + 1 /\ z.drafts = d /\ z.job = loader[l].job
          /\ z.pc = "look"
      BY <3>4 DEF Work
    <3> HIDE DEF z
    <3> QED
      BY <3>2, <3>5, Zenon DEF d
  <2>3. loader' = [loader EXCEPT ![l] = y]
    BY <1>4
  <2>4. \A k \in Loaders \ {l} : Active(k) => loader[k].drafts \intersect keyed = {}
    BY DEF Insert
  <2> HIDE DEF y
  <2>5. OwnDrafts(y)
    <3>1. \A r \in new : r = Next1(l) \/ r \in With(Next1(l))
      OBVIOUS
    <3>2. ("ledger" \in new \/ "breadcrumb" \in new) => "position" \in new
      <4>1. Next1(l) # "ledger" /\ Next1(l) # "breadcrumb"
        <5>1. "ledger" \in DemoTrip /\ "breadcrumb" \in DemoTrip
          BY DEF DemoTrip
        <5> QED
          BY <1>2, <5>1, WorkFacts, RowFacts
      <4> QED
        BY <4>1 DEF With, DemoTrip, DemoIncident
    <3>3. \A r \in y.drafts : With(r) \subseteq y.drafts
      <4>1. \A r \in With(Next1(l)) : With(r) = {}
        BY <2>1, RowFacts
      <4> QED
        BY <1>2, <2>2, <3>1, <4>1 DEF OwnDrafts
    <3>4. y.drafts \subseteq RowsOf(y.job) \union DemoTrip \union DemoIncident
      BY <1>2, <2>1, <2>2 DEF OwnDrafts
    <3>5. 1 <= y.at /\ y.at <= Len(Plan[y.job]) + 1
      BY <1>2, <2>2
    <3>6. ("ledger" \in y.drafts \/ "breadcrumb" \in y.drafts) => "position" \in y.drafts
      BY <1>2, <2>2, <3>2 DEF OwnDrafts
    <3> QED
      BY <3>3, <3>4, <3>5, <3>6 DEF OwnDrafts
  <2>6. Done(y, rows)
    BY <1>2, <2>2 DEF Done
  <2>7. ASSUME registered = {} PROVE VehicleFirst(y)
    <3>1. VehicleFirst(loader[l])
      BY <1>1, <2>7 DEF DataInv, PairInv
    <3>2. ASSUME y.job = "seed_fleet_demo", "driver" \in new PROVE "vehicle" \in y.drafts
      <4>1. Next1(l) = "driver"
        <5>1. "driver" \notin DemoTrip /\ "driver" \notin DemoIncident
          BY DEF DemoTrip, DemoIncident
        <5> QED
          BY <2>1, <3>2, <5>1
      <4>2. loader[l].at = 2
        BY <1>2, <2>2, <3>2, <4>1, PlanSteps
      <4>3. loader[l].pc = "insert"
        BY DEF Insert
      <4> QED
        BY <2>2, <3>1, <3>2, <4>2, <4>3 DEF VehicleFirst
    <3> QED
      BY <2>2, <3>1, <3>2 DEF VehicleFirst
  <2>8. ASSUME NEW r \in y.drafts, Constrained(r)
        PROVE  /\ rows[r] = 0
               /\ \A k \in Loaders : k # l /\ Active(k) => r \notin loader[k].drafts
    <3>1. CASE r \in loader[l].drafts
      BY <1>1, <2>8, <3>1 DEF DataInv, DraftsInv
    <3>2. CASE r \in new
      <4>1. r \in keyed
        BY <2>8, <3>2
      <4>2. ~(rows[r] > 0) /\ rows[r] \in 0..2
        BY <1>4, <2>1, <3>2, <4>1 DEF Present, DataInv, WorkInv
      <4> QED
        BY <2>4, <4>1, <4>2
    <3> QED
      BY <2>2, <2>8, <3>1, <3>2
  <2> QED
    BY <1>1, <2>2, <2>3, <2>5, <2>6, <2>7, <2>8, LoaderSteps
<1> QED
  BY <1>3, <1>4 DEF Insert

\* What a commit stores.
LEMMA CommitStores ==
  ASSUME DataInv, NEW l \in Loaders, Finish(l)
  PROVE  /\ loader[l] \in Work /\ Active(l)
         /\ OwnDrafts(loader[l]) /\ loader[l].drafts \subseteq Row
         /\ rows' \in [Row -> 0..2]
         /\ \A r \in Row : rows'[r] >= rows[r]
         /\ \A r \in Row : r \notin loader[l].drafts => rows'[r] = rows[r]
         /\ \A r \in loader[l].drafts : rows'[r] > 0 /\ rows'[r] <= rows[r] + 1
         /\ \A r \in RowsOf(loader[l].job) :
              (rows[r] > 0 \/ r \in loader[l].drafts) /\ rows'[r] > 0
<1>1. loader[l] \in Work /\ Active(l) /\ OwnDrafts(loader[l]) /\ Done(loader[l], rows)
  BY DEF DataInv, WorkInv, Finish, Active
<1>2. loader[l].drafts \subseteq Row /\ loader[l].job \in Jobs /\ loader[l].at \in Nat
  BY <1>1, WorkFacts DEF Work
<1>3. rows \in [Row -> 0..2]
  BY DEF DataInv, WorkInv
<1>4. rows' = [row \in Row |-> IF row \in loader[l].drafts /\ rows[row] < 2
                               THEN rows[row] + 1 ELSE rows[row]]
  BY DEF Finish, Stored
<1>5. /\ rows' \in [Row -> 0..2]
      /\ \A r \in Row : rows'[r] >= rows[r]
      /\ \A r \in Row : r \notin loader[l].drafts => rows'[r] = rows[r]
  BY <1>3, <1>4
<1>6. \A r \in loader[l].drafts : rows'[r] > 0 /\ rows'[r] <= rows[r] + 1
  BY <1>2, <1>3, <1>4
<1>7. ASSUME NEW r \in RowsOf(loader[l].job)
      PROVE  (rows[r] > 0 \/ r \in loader[l].drafts) /\ rows'[r] > 0
  <2>1. PICK i \in 1..Len(Plan[loader[l].job]) : Plan[loader[l].job][i] = r
    BY <1>2, PlanSteps
  <2>2. i < loader[l].at
    BY <1>1, <1>2, PlanSteps DEF Finish, MayCommit, Remaining
  <2>3. rows[r] > 0 \/ r \in loader[l].drafts
    BY <1>1, <1>2, <2>1, <2>2, PlanSteps DEF Done
  <2>4. r \in Row
    BY <1>2, RowFacts
  <2> QED
    BY <1>3, <1>5, <1>6, <2>3, <2>4
<1> QED
  BY <1>1, <1>2, <1>5, <1>6, <1>7

\* The drafts of a loader are rows of its own plan where they are rows of a plan.
LEMMA DraftsOfOnePlan ==
  ASSUME NEW x, OwnDrafts(x), NEW j \in Jobs, NEW r \in RowsOf(j), r \in x.drafts
  PROVE  r \in RowsOf(x.job)
BY RowFacts DEF OwnDrafts

\* A commit leaves all rows of its script, and none of another one.
LEMMA FinishKeepsData ==
  ASSUME DataInv, NEW l \in Loaders, Finish(l)
  PROVE  DataInv'
<1>1. /\ loader[l] \in Work /\ Active(l)
      /\ OwnDrafts(loader[l]) /\ loader[l].drafts \subseteq Row
      /\ rows' \in [Row -> 0..2]
      /\ \A r \in Row : rows'[r] >= rows[r]
      /\ \A r \in Row : r \notin loader[l].drafts => rows'[r] = rows[r]
      /\ \A r \in loader[l].drafts : rows'[r] > 0 /\ rows'[r] <= rows[r] + 1
      /\ \A r \in RowsOf(loader[l].job) :
           (rows[r] > 0 \/ r \in loader[l].drafts) /\ rows'[r] > 0
  BY CommitStores
<1>2. rows \in [Row -> 0..2] /\ loader \in [Loaders -> {Free} \union Work]
  BY DEF DataInv, WorkInv
<1>3. loader[l].job \in Jobs
  BY <1>1, WorkFacts
<1>4. loader' = [loader EXCEPT ![l] = Free]
  BY DEF Finish
<1>5. ~Active(l)' /\ \A k \in Loaders : k # l => loader'[k] = loader[k]
  BY <1>2, <1>4 DEF Active
<1>6. \A k \in Loaders : Active(k)' => k # l /\ Active(k) /\ loader'[k] = loader[k]
  BY <1>5 DEF Active
<1>7. WorkInv'
  <2>1. ASSUME NEW k \in Loaders, Active(k)'
        PROVE  (OwnDrafts(loader[k]) /\ Done(loader[k], rows))'
    <3>1. /\ OwnDrafts(loader[k]) /\ Done(loader[k], rows) /\ loader[k] \in Work
          /\ loader'[k] = loader[k] /\ loader[k].job \in Jobs
      BY <1>2, <1>6, <2>1, WorkFacts DEF DataInv, WorkInv, Active
    <3>2. OwnDrafts(loader[k])'
      BY <3>1 DEF OwnDrafts
    <3>3. ASSUME NEW i \in Nat, 1 <= i, i < loader[k].at
          PROVE  Plan[loader[k].job][i] \in loader[k].drafts
                   \/ rows'[Plan[loader[k].job][i]] > 0
      <4>1. Plan[loader[k].job][i] \in loader[k].drafts \/ rows[Plan[loader[k].job][i]] > 0
        BY <3>1, <3>3 DEF Done
      <4>2. Plan[loader[k].job][i] \in Row
        <5>1. i <= Len(Plan[loader[k].job])
          BY <3>1, <3>3, PlanSteps DEF OwnDrafts, Work
        <5> QED
          BY <3>1, <3>3, <5>1, PlanSteps, RowFacts
      <4> QED
        BY <1>1, <1>2, <4>1, <4>2
    <3> QED
      BY <3>1, <3>2, <3>3 DEF Done
  <2>2. loader' \in [Loaders -> {Free} \union Work]
    BY <1>2, <1>4
  <2>3. (jobsRun \subseteq Jobs)'
    BY DEF Finish, DataInv, WorkInv
  <2> QED
    BY <1>1, <2>1, <2>2, <2>3 DEF WorkInv
<1>8. RoadsInv'
  <2>1. closedRoads' \subseteq closedRoads
    BY DEF Finish
  <2>2. \A road \in closedRoads : road \in Row
    BY RowFacts DEF DataInv, RoadsInv
  <2> QED
    BY <1>1, <1>2, <2>1, <2>2 DEF DataInv, RoadsInv
<1>9. DraftsInv'
  <2> SUFFICES ASSUME NEW k \in Loaders, Active(k)', NEW r \in (loader[k].drafts)',
                      Constrained(r)
               PROVE  /\ rows'[r] = 0
                      /\ \A m \in Loaders : m # k /\ Active(m)' => r \notin (loader[m].drafts)'
    BY DEF DraftsInv, Constrained
  <2>1. k # l /\ Active(k) /\ r \in loader[k].drafts
    BY <1>6
  <2>2. /\ rows[r] = 0
        /\ \A m \in Loaders : m # k /\ Active(m) => r \notin loader[m].drafts
    BY <2>1 DEF DataInv, DraftsInv
  <2>3. r \in Row
    BY <1>2, <2>1 DEF Work, Active
  <2> QED
    BY <1>1, <1>6, <2>1, <2>2, <2>3
<1>10. registered' = {} => registered = {} /\ loader[l].job \notin {"create_vehicle", "create_driver"}
  BY DEF Finish
<1>11. PairInv'
  <2> SUFFICES ASSUME registered' = {}
               PROVE  /\ rows'["vehicle"] > 0 <=> rows'["driver"] > 0
                      /\ \A k \in Loaders : Active(k)' => VehicleFirst(loader[k])'
    BY DEF PairInv
  <2>1. ASSUME NEW k \in Loaders, Active(k)' PROVE VehicleFirst(loader[k])'
    <3>1. VehicleFirst(loader[k]) /\ loader'[k] = loader[k]
      BY <1>6, <1>10, <2>1 DEF DataInv, PairInv
    <3> QED
      BY <3>1 DEF VehicleFirst
  <2>2. CASE loader[l].job = "seed_fleet_demo"
    BY <1>1, <2>1, <2>2, RowFacts
  <2>3. CASE loader[l].job # "seed_fleet_demo"
    <3>1. "seed_fleet_demo" \in Jobs /\ "vehicle" \in Row /\ "driver" \in Row
      BY RowFacts DEF Jobs, Plan
    <3>2. "vehicle" \notin loader[l].drafts
      BY <1>1, <1>3, <1>10, <2>3, <3>1, RowFacts, DraftsOfOnePlan
    <3>3. "driver" \notin loader[l].drafts
      BY <1>1, <1>3, <1>10, <2>3, <3>1, RowFacts, DraftsOfOnePlan
    <3> QED
      BY <1>1, <1>10, <2>1, <3>1, <3>2, <3>3 DEF DataInv, PairInv
  <2> QED
    BY <2>2, <2>3
<1>12. ScriptsAreWhole'
  <2> SUFFICES ASSUME NEW script \in Scripts
               PROVE  /\ \A q, r \in Written[script] : rows'[q] > 0 <=> rows'[r] > 0
                      /\ \A r \in Written[script] :
                           rows'[r] > 0 => \A w \in With(r) : rows'[w] > 0
    BY DEF ScriptsAreWhole, Present, Written, With
  <2>1. script \in Jobs
    BY DEF Scripts, Jobs, Plan
  <2>2. Written[script] \subseteq RowsOf(script) /\ RowsOf(script) \subseteq Row
    BY <2>1, RowFacts DEF Written, RowsOf
  <2>3. /\ \A q, r \in Written[script] : rows[q] > 0 <=> rows[r] > 0
        /\ \A r \in Written[script] : rows[r] > 0 => \A w \in With(r) : rows[w] > 0
    BY DEF DataInv, ScriptsAreWhole, Present
  <2>4. \A r \in Row : With(r) \subseteq Row
    BY RowFacts
  <2>5. CASE loader[l].job = script
    <3>1. ASSUME NEW r \in Written[script], NEW w \in With(r) PROVE rows'[w] > 0
      <4>1. CASE rows[r] > 0
        BY <1>1, <1>2, <2>2, <2>3, <2>4, <3>1, <4>1
      <4>2. CASE r \in loader[l].drafts
        <5>1. w \in loader[l].drafts
          BY <1>1, <3>1, <4>2 DEF OwnDrafts
        <5> QED
          BY <1>1, <5>1
      <4> QED
        BY <1>1, <2>2, <2>5, <4>1, <4>2
    <3> QED
      BY <1>1, <2>2, <2>5, <3>1
  <2>6. CASE loader[l].job # script
    <3>1. \A r \in Written[script] : r \notin RowsOf(loader[l].job)
      BY <1>3, <2>6 DEF Written, RowsOf
    <3>2. \A r \in Written[script] : r \notin loader[l].drafts
      BY <1>1, <2>1, <2>2, <3>1, DraftsOfOnePlan
    <3>3. \A r \in Written[script] : rows'[r] = rows[r]
      BY <1>1, <2>2, <3>2
    <3> QED
      BY <1>1, <1>2, <2>2, <2>3, <2>4, <3>3
  <2> QED
    BY <2>5, <2>6
<1>13. RowsAreUnique'
  <2> SUFFICES ASSUME NEW row \in Row, rows'[row] > 1
               PROVE  row = "driver" /\ registered' # {}
    BY DEF RowsAreUnique
  <2>1. row = "driver"
    <3>1. CASE row \in loader[l].drafts
      BY <1>1, <1>2, <3>1 DEF DataInv, DraftsInv, Constrained
    <3>2. CASE row \notin loader[l].drafts
      BY <1>1, <3>2 DEF DataInv, RowsAreUnique
    <3> QED
      BY <3>1, <3>2
  <2>2. ASSUME registered' = {} PROVE FALSE
    <3>1. rows["driver"] <= 1 /\ rows["driver"] \in 0..2
      BY <1>2, <1>10, <2>1, <2>2 DEF DataInv, RowsAreUnique
    <3>2. "driver" \in loader[l].drafts
      BY <1>1, <2>1, <3>1
    <3>3. "seed_fleet_demo" \in Jobs
      BY DEF Jobs, Plan
    <3>4. loader[l].job = "seed_fleet_demo"
      BY <1>1, <1>3, <1>10, <2>2, <3>2, <3>3, RowFacts, DraftsOfOnePlan
    <3>5. "vehicle" \in loader[l].drafts
      BY <1>1, <1>10, <2>2, <3>2, <3>4 DEF DataInv, PairInv, VehicleFirst
    <3>6. rows["vehicle"] = 0
      BY <1>1, <3>5 DEF DataInv, DraftsInv, Constrained
    <3>7. rows["driver"] = 0
      BY <1>10, <2>2, <3>1, <3>6 DEF DataInv, PairInv
    <3> QED
      BY <1>1, <2>1, <3>2, <3>7
  <2> QED
    BY <2>1, <2>2
<1> QED
  BY <1>7, <1>8, <1>9, <1>11, <1>12, <1>13 DEF DataInv

\* A road is declared closed.
LEMMA ClosureKeepsData == DataInv /\ DeclareClosed => DataInv'
<1> SUFFICES ASSUME DataInv, DeclareClosed PROVE DataInv'
  OBVIOUS
<1>1. UNCHANGED <<jobsRun, rows, loader, registered>>
  BY DEF DeclareClosed
<1>2. RoadsInv'
  BY <1>1 DEF DeclareClosed, DataInv, RoadsInv, Present
<1>3. WorkInv'
  BY <1>1 DEF DataInv, WorkInv, Active, OwnDrafts, Done
<1>4. DraftsInv'
  BY <1>1 DEF DataInv, DraftsInv, Active, Constrained
<1>5. PairInv'
  BY <1>1 DEF DataInv, PairInv, Active, VehicleFirst
<1>6. ScriptsAreWhole' /\ RowsAreUnique'
  BY <1>1 DEF DataInv, ScriptsAreWhole, RowsAreUnique, Present
<1> QED
  BY <1>2, <1>3, <1>4, <1>5, <1>6 DEF DataInv

\* A position is written while no loader holds one.
LEMMA TrackKeepsData == DataInv /\ Track => DataInv'
<1> SUFFICES ASSUME DataInv, Track PROVE DataInv'
  OBVIOUS
<1> DEFINE tracked == {"position", "ledger", "breadcrumb"}
<1>1. UNCHANGED <<jobsRun, closedRoads, loader, registered>>
  BY DEF Track
<1>2. rows \in [Row -> 0..2] /\ loader \in [Loaders -> {Free} \union Work]
  BY DEF DataInv, WorkInv
<1>3. rows' = [rows EXCEPT !["position"] = 1, !["ledger"] = 1, !["breadcrumb"] = 1]
  BY DEF Track
<1>4. tracked \subseteq Row /\ tracked \subseteq DemoTrip
  BY RowFacts DEF DemoTrip
<1>5. /\ rows' \in [Row -> 0..2]
      /\ \A r \in tracked : rows'[r] = 1
      /\ \A r \in Row : r \notin tracked => rows'[r] = rows[r]
  BY <1>2, <1>3, <1>4
<1>6. \A r \in tracked : rows[r] <= 1
  BY <1>2, <1>4 DEF DataInv, RowsAreUnique
<1>7. \A r \in Row : rows'[r] >= rows[r]
  BY <1>2, <1>5, <1>6
<1> HIDE DEF tracked
<1>8. ASSUME NEW k \in Loaders, Active(k)
      PROVE  loader[k].drafts \intersect tracked = {}
  <2>1. OwnDrafts(loader[k])
    BY <1>8 DEF DataInv, WorkInv
  <2>2. "position" \notin loader[k].drafts
    BY <1>8 DEF Track
  <2> QED
    BY <2>1, <2>2 DEF OwnDrafts, tracked
<1>9. \A k \in Loaders : (Active(k)' <=> Active(k)) /\ loader'[k] = loader[k]
  BY <1>1 DEF Active
<1>10. WorkInv'
  <2>1. ASSUME NEW k \in Loaders, Active(k)
        PROVE  (OwnDrafts(loader[k]) /\ Done(loader[k], rows))'
    <3>1. /\ OwnDrafts(loader[k]) /\ Done(loader[k], rows) /\ loader[k] \in Work
          /\ loader'[k] = loader[k] /\ loader[k].job \in Jobs
      BY <1>2, <1>9, <2>1, WorkFacts DEF DataInv, WorkInv, Active
    <3>2. OwnDrafts(loader[k])'
      BY <3>1 DEF OwnDrafts
    <3>3. ASSUME NEW i \in Nat, 1 <= i, i < loader[k].at
          PROVE  Plan[loader[k].job][i] \in loader[k].drafts
                   \/ rows'[Plan[loader[k].job][i]] > 0
      <4>1. Plan[loader[k].job][i] \in loader[k].drafts \/ rows[Plan[loader[k].job][i]] > 0
        BY <3>1, <3>3 DEF Done
      <4>2. Plan[loader[k].job][i] \in Row
        <5>1. i <= Len(Plan[loader[k].job])
          BY <3>1, <3>3, PlanSteps DEF OwnDrafts, Work
        <5> QED
          BY <3>1, <3>3, <5>1, PlanSteps, RowFacts
      <4> QED
        BY <1>2, <1>5, <1>7, <4>1, <4>2
    <3> QED
      BY <3>1, <3>2, <3>3 DEF Done
  <2> QED
    BY <1>1, <1>2, <1>5, <1>9, <2>1 DEF DataInv, WorkInv
<1>11. RoadsInv'
  <2>1. \A road \in closedRoads : road \in Row
    BY RowFacts DEF DataInv, RoadsInv
  <2> QED
    BY <1>1, <1>2, <1>5, <1>7, <2>1 DEF DataInv, RoadsInv
<1>12. DraftsInv'
  <2> SUFFICES ASSUME NEW k \in Loaders, Active(k)', NEW r \in (loader[k].drafts)',
                      Constrained(r)
               PROVE  /\ rows'[r] = 0
                      /\ \A m \in Loaders : m # k /\ Active(m)' => r \notin (loader[m].drafts)'
    BY DEF DraftsInv, Constrained
  <2>1. Active(k) /\ r \in loader[k].drafts
    BY <1>9
  <2>2. /\ rows[r] = 0
        /\ \A m \in Loaders : m # k /\ Active(m) => r \notin loader[m].drafts
    BY <2>1 DEF DataInv, DraftsInv
  <2>3. r \in Row /\ r \notin tracked
    BY <1>2, <1>8, <2>1 DEF Work, Active
  <2> QED
    BY <1>5, <1>9, <2>2, <2>3
<1>13. PairInv'
  <2>1. "vehicle" \in Row /\ "driver" \in Row
    BY RowFacts DEF Jobs, Plan
  <2>2. rows'["vehicle"] = rows["vehicle"] /\ rows'["driver"] = rows["driver"]
    BY <1>5, <2>1 DEF tracked
  <2> QED
    BY <1>1, <1>9, <2>2 DEF DataInv, PairInv, VehicleFirst
<1>14. ScriptsAreWhole'
  <2> SUFFICES ASSUME NEW script \in Scripts
               PROVE  /\ \A q, r \in Written[script] : rows'[q] > 0 <=> rows'[r] > 0
                      /\ \A r \in Written[script] :
                           rows'[r] > 0 => \A w \in With(r) : rows'[w] > 0
    BY DEF ScriptsAreWhole, Present, Written, With
  <2>1. script \in Jobs
    BY DEF Scripts, Jobs, Plan
  <2>2. Written[script] \subseteq RowsOf(script) /\ RowsOf(script) \subseteq Row
    BY <2>1, RowFacts DEF Written, RowsOf
  <2>3. /\ \A q, r \in Written[script] : rows[q] > 0 <=> rows[r] > 0
        /\ \A r \in Written[script] : rows[r] > 0 => \A w \in With(r) : rows[w] > 0
    BY DEF DataInv, ScriptsAreWhole, Present
  <2>4. \A r \in Row : With(r) \subseteq Row
    BY RowFacts
  <2>5. \A r \in Written[script] : rows'[r] = rows[r]
    BY <1>4, <1>5, <2>1, <2>2, RowFacts
  <2> QED
    BY <1>2, <1>5, <1>7, <2>2, <2>3, <2>4, <2>5
<1>15. RowsAreUnique'
  <2>1. \A row \in Row : rows'[row] > 1 => rows[row] > 1
    BY <1>5
  <2> QED
    BY <1>1, <2>1 DEF DataInv, RowsAreUnique
<1> QED
  BY <1>10, <1>11, <1>12, <1>13, <1>14, <1>15 DEF DataInv

\* Every step keeps the invariant.
LEMMA DataStepKeeps == DataInv /\ [DataNext]_dataVars => DataInv'
<1> SUFFICES ASSUME DataInv, [DataNext]_dataVars PROVE DataInv'
  OBVIOUS
<1>1. ASSUME NEW l \in Loaders, Start(l) PROVE DataInv'
  BY <1>1, StartKeepsData
<1>2. ASSUME NEW l \in Loaders, LookUp(l) PROVE DataInv'
  BY <1>2, LookUpKeepsData
<1>3. ASSUME NEW l \in Loaders, Insert(l) PROVE DataInv'
  BY <1>3, InsertKeepsData
<1>4. ASSUME NEW l \in Loaders, Finish(l) PROVE DataInv'
  BY <1>4, FinishKeepsData
<1>5. ASSUME NEW l \in Loaders, Crash(l) PROVE DataInv'
  BY <1>5, CrashKeepsData
<1>6. CASE UNCHANGED dataVars
  <2>1. UNCHANGED <<jobsRun, rows, closedRoads, loader, registered>>
    BY <1>6 DEF dataVars
  <2>2. WorkInv' /\ RoadsInv'
    BY <2>1 DEF DataInv, WorkInv, RoadsInv, Active, OwnDrafts, Done
  <2>3. DraftsInv' /\ PairInv'
    BY <2>1 DEF DataInv, DraftsInv, PairInv, Active, Constrained, VehicleFirst
  <2>4. ScriptsAreWhole' /\ RowsAreUnique'
    BY <2>1 DEF DataInv, ScriptsAreWhole, RowsAreUnique, Present
  <2> QED
    BY <2>2, <2>3, <2>4 DEF DataInv
<1> QED
  BY <1>1, <1>2, <1>3, <1>4, <1>5, <1>6, ClosureKeepsData, TrackKeepsData DEF DataNext

\* Whatever is loaded at once, interrupted and loaded again: a script leaves all of its
\* rows or none, and nothing is there twice but a driver that a route registered
\* meanwhile (load_pilot_corridor.py, seed_fleet_demo.py and the other loaders).
THEOREM LoadedDataCorrect == DataSpec => []LoadedDataIsSound
<1>1. DataInit => DataInv
  BY DataInitHolds, DataAssumption
<1>2. DataInv => LoadedDataIsSound
  <2> SUFFICES ASSUME DataInv PROVE DataTypeOK
    BY DEF DataInv, LoadedDataIsSound
  <2>1. ASSUME NEW l \in Loaders, Active(l)
        PROVE  /\ loader[l].job \in Jobs /\ loader[l].pc \in {"look", "insert"}
               /\ loader[l].at \in 1..Len(Plan[loader[l].job]) + 1
               /\ loader[l].drafts \subseteq Row
    <3>1. loader[l] \in Work /\ OwnDrafts(loader[l])
      BY <2>1 DEF DataInv, WorkInv, Active
    <3> QED
      BY <3>1, PlanSteps DEF Work, OwnDrafts
  <2> QED
    BY <2>1 DEF DataInv, WorkInv, RoadsInv, DataTypeOK, Present
<1> QED
  BY <1>1, <1>2, DataStepKeeps, PTL DEF DataSpec

\* Loading data again opens no road that was declared closed: a commit resets the status
\* of the roads it inserts, and those were not there to be closed.
THEOREM NothingReopened == DataSpec => LoadingReopensNothing
<1>1. DataInit => DataInv
  BY DataInitHolds, DataAssumption
<1>2. DataInv /\ [DataNext]_dataVars => [closedRoads \subseteq closedRoads']_dataVars
  <2> SUFFICES ASSUME DataInv, DataNext PROVE closedRoads \subseteq closedRoads'
    BY DEF dataVars
  <2>1. ASSUME NEW l \in Loaders, Finish(l) PROVE closedRoads \subseteq closedRoads'
    <3>1. Active(l) /\ closedRoads' = closedRoads \ (loader[l].drafts \intersect Roads)
      BY <2>1 DEF Finish, Reopened
    <3>2. \A road \in Roads : Constrained(road)
      BY DEF Roads, Constrained
    <3>3. \A road \in loader[l].drafts \intersect Roads : rows[road] = 0
      BY <3>1, <3>2 DEF DataInv, DraftsInv
    <3> QED
      BY <3>1, <3>3 DEF DataInv, RoadsInv
  <2>2. ASSUME NEW l \in Loaders, Start(l) \/ LookUp(l) \/ Insert(l) \/ Crash(l)
        PROVE  closedRoads' = closedRoads
    BY <2>2 DEF Start, LookUp, Insert, Crash
  <2>3. DeclareClosed \/ Track => closedRoads \subseteq closedRoads'
    BY DEF DeclareClosed, Track
  <2> QED
    BY <2>1, <2>2, <2>3 DEF DataNext
<1> QED
  BY <1>1, <1>2, DataStepKeeps, PTL DEF DataSpec, LoadingReopensNothing
=============================================================================
