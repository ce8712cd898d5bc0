---------------------------- MODULE TripLifecycle ----------------------------
(***************************************************************************)
(* Fleet trips: dispatch of a vehicle and a driver with delivery           *)
(* commitments, the status transitions of a trip, and the geofence of a    *)
(* telemetry batch that starts a trip by itself.                           *)
(*                                                                         *)
(* Each request is one READ COMMITTED transaction.  A dispatch takes the   *)
(* row locks of vehicle and driver and counts their running trips; a       *)
(* transition takes the row lock of its trip; both then UPDATE commitments *)
(* one row at a time; the geofence reads the trip without a lock and only  *)
(* its final UPDATE waits for one.  Locks last to the end of transaction.  *)
(* The commit is the caller's, as in the integration tests: get_db closes  *)
(* the session of an HTTP request without one.                             *)
(***************************************************************************)
EXTENDS Integers, FiniteSets

CONSTANTS
    Vehicle, Driver, Commitment,
    Order,         \* what a dispatch may ask for: vehicle, driver and commitments
    Dispatch,      \* dispatch requests; a request is the trip it creates
    Transition,    \* requests to change a trip's status
    Geofence,      \* telemetry batches near a stop of a trip
    None

ASSUME TripAssumption ==
    /\ Dispatch \cap Transition = {}
    /\ Dispatch \cap Geofence = {}
    /\ Transition \cap Geofence = {}
    /\ Vehicle \cap Driver = {}
    /\ Commitment \cap (Vehicle \cup Driver) = {}
    /\ Dispatch \cap (Vehicle \cup Driver \cup Commitment) = {}
    /\ Order \subseteq [vehicle: Vehicle, driver: Driver, load: SUBSET Commitment]
    /\ None \notin Dispatch \cup Transition \cup Geofence \cup Vehicle \cup Driver

Trip == Dispatch
Txn == Dispatch \cup Transition \cup Geofence
LockedRow == Vehicle \cup Driver \cup Commitment \cup Trip

\* Nothing creates a PLANNED trip: the dispatch inserts it as DISPATCHED.
TripStatus == {"DISPATCHED", "IN_TRANSIT", "HELD_FOR_INSPECTION", "DIVERTED",
               "COMPLETED", "CANCELLED", "ABORTED"}

ASSUME NoneIsNoStatus == None \notin TripStatus

\* Mutated form of Released: an aborted trip keeps its commitments.
ReleasedByCancel == {"CANCELLED"}

\* The statuses that release the commitments of a trip.
Released == {"CANCELLED", "ABORTED"}

\* VALID_TRIP_TRANSITIONS
ValidTransitions(s) ==
    CASE s = "DISPATCHED" -> {"IN_TRANSIT", "DIVERTED", "ABORTED", "CANCELLED"}
      [] s = "IN_TRANSIT" -> {"HELD_FOR_INSPECTION", "DIVERTED", "COMPLETED", "ABORTED"}
      [] s = "HELD_FOR_INSPECTION" -> {"IN_TRANSIT", "DIVERTED", "ABORTED"}
      [] s = "DIVERTED" -> {"IN_TRANSIT", "COMPLETED", "ABORTED"}
      [] OTHER -> {}

\* The statuses is_vehicle_dispatched and is_driver_dispatched count.
Running == {"DISPATCHED", "IN_TRANSIT", "HELD_FOR_INSPECTION"}

VARIABLES
    status,      \* trips.status as committed; None before the trip exists
    vehicle,     \* trips.vehicle_id
    driver,      \* trips.driver_id
    cargo,       \* trip_commitments: commitments of each trip
    delivery,    \* delivery_commitments.status
    reached,     \* trips whose stop is ARRIVED
    lock,        \* holder of each row lock
    pc,          \* progress of each transaction
    trip,        \* trip a transaction works on
    crew,        \* vehicle and driver a dispatch asks for
    load,        \* commitments a transaction writes
    todo,        \* ... and those of them it has still to UPDATE
    target,      \* trip status it will commit
    diverted,    \* history: trips that have been DIVERTED
    overrun      \* history: trips whose status a geofence overwrote unseen

tables  == <<status, vehicle, driver, cargo, delivery, reached>>
session == <<trip, crew, load, todo, target>>
history == <<diverted, overrun>>
vars    == <<tables, lock, pc, session, history>>

-----------------------------------------------------------------------------
Init ==
    /\ status = [t \in Trip |-> None]
    /\ vehicle = [t \in Trip |-> None]
    /\ driver = [t \in Trip |-> None]
    /\ cargo = [t \in Trip |-> {}]
    /\ delivery = [c \in Commitment |-> "PENDING"]
    /\ reached = {}
    /\ lock = [r \in LockedRow |-> None]
    /\ pc = [x \in Txn |-> "idle"]
    /\ trip = [x \in Txn |-> None]
    /\ crew = [x \in Txn |-> [vehicle |-> None, driver |-> None]]
    /\ load = [x \in Txn |-> {}]
    /\ todo = [x \in Txn |-> {}]
    /\ target = [x \in Txn |-> "DISPATCHED"]
    /\ diverted = {}
    /\ overrun = {}

\* The session is closed.
Closed(x) ==
    /\ trip' = [trip EXCEPT ![x] = None]
    /\ crew' = [crew EXCEPT ![x] = [vehicle |-> None, driver |-> None]]
    /\ load' = [load EXCEPT ![x] = {}]
    /\ todo' = [todo EXCEPT ![x] = {}]
    /\ target' = [target EXCEPT ![x] = "DISPATCHED"]

Goto(x, label) == pc' = [pc EXCEPT ![x] = label]

\* Mutated form of LockVehicle: the vehicle is read without FOR UPDATE.
ReadVehicle(x, o) ==
    /\ pc[x] = "idle"
    /\ trip' = [trip EXCEPT ![x] = x]
    /\ crew' = [crew EXCEPT ![x] = [vehicle |-> o.vehicle, driver |-> o.driver]]
    /\ load' = [load EXCEPT ![x] = o.load]
    /\ todo' = [todo EXCEPT ![x] = o.load]
    /\ Goto(x, "vehicle")
    /\ UNCHANGED <<tables, lock, target, history>>

\* A dispatch arrives; vehicle FOR UPDATE.
LockVehicle(x, o) ==
    /\ pc[x] = "idle"
    /\ lock[o.vehicle] = None
    /\ lock' = [lock EXCEPT ![o.vehicle] = x]
    /\ trip' = [trip EXCEPT ![x] = x]
    /\ crew' = [crew EXCEPT ![x] = [vehicle |-> o.vehicle, driver |-> o.driver]]
    /\ load' = [load EXCEPT ![x] = o.load]
    /\ todo' = [todo EXCEPT ![x] = o.load]
    /\ Goto(x, "vehicle")
    /\ UNCHANGED <<tables, target, history>>

\* Driver FOR UPDATE.
LockDriver(x) ==
    /\ pc[x] = "vehicle"
    /\ lock[crew[x].driver] = None
    /\ lock' = [lock EXCEPT ![crew[x].driver] = x]
    /\ Goto(x, "driver")
    /\ UNCHANGED <<tables, session, history>>

VehicleDispatched(v) == \E t \in Trip : vehicle[t] = v /\ status[t] \in Running
DriverDispatched(d)  == \E t \in Trip : driver[t] = d /\ status[t] \in Running

CheckVehicle(x) ==
    /\ pc[x] = "driver"
    /\ ~ VehicleDispatched(crew[x].vehicle)
    /\ Goto(x, "vehicleFree")
    /\ UNCHANGED <<tables, lock, session, history>>

\* The commitments are read next, whatever their status or trip; the checks of
\* capacity and cargo class only refuse.
CheckDriver(x) ==
    /\ pc[x] = "vehicleFree"
    /\ ~ DriverDispatched(crew[x].driver)
    /\ Goto(x, "saving")
    /\ UNCHANGED <<tables, lock, session, history>>

\* Mutated form of LockTrip: the trip is read without FOR UPDATE, so that a
\* transition in progress is not waited for.
ReadTrip(x, t, s) ==
    /\ pc[x] = "idle"
    /\ s \in ValidTransitions(status[t])
    /\ trip' = [trip EXCEPT ![x] = t]
    /\ target' = [target EXCEPT ![x] = s]
    /\ load' = [load EXCEPT ![x] = IF s \in Released THEN cargo[t] ELSE {}]
    /\ todo' = [todo EXCEPT ![x] = load'[x]]
    /\ Goto(x, "saving")
    /\ UNCHANGED <<tables, lock, crew, history>>

\* Trip FOR UPDATE, the transition checked, the trip row updated; CANCELLED and
\* ABORTED release its commitments.
LockTrip(x, t, s) ==
    /\ pc[x] = "idle"
    /\ lock[t] = None
    /\ s \in ValidTransitions(status[t])
    /\ lock' = [lock EXCEPT ![t] = x]
    /\ trip' = [trip EXCEPT ![x] = t]
    /\ target' = [target EXCEPT ![x] = s]
    /\ load' = [load EXCEPT ![x] = IF s \in Released THEN cargo[t] ELSE {}]
    /\ todo' = [todo EXCEPT ![x] = load'[x]]
    /\ Goto(x, "saving")
    /\ UNCHANGED <<tables, crew, history>>

\* The geofence finds a pending stop close by and reads the trip, without a lock.
ReachStop(x, t) ==
    /\ pc[x] = "idle"
    /\ status[t] = "DISPATCHED"
    /\ t \notin reached
    /\ trip' = [trip EXCEPT ![x] = t]
    /\ target' = [target EXCEPT ![x] = "IN_TRANSIT"]
    /\ Goto(x, "arriving")
    /\ UNCHANGED <<tables, lock, crew, load, todo, history>>

\* The flush: UPDATE trips SET status = 'IN_TRANSIT' WHERE id = ...
StartTrip(x) ==
    /\ pc[x] = "arriving"
    /\ lock[trip[x]] = None
    /\ lock' = [lock EXCEPT ![trip[x]] = x]
    /\ Goto(x, "saving")
    /\ UNCHANGED <<tables, session, history>>

\* A trip that has left is not written, only its stop; it may even have ended since
\* the batch of fixes found it active.
MarkStop(x, t) ==
    /\ pc[x] = "idle"
    /\ status[t] \notin {None, "DISPATCHED"}
    /\ t \notin reached
    /\ reached' = reached \cup {t}
    /\ Goto(x, "done")
    /\ UNCHANGED <<status, vehicle, driver, cargo, delivery, lock, session, history>>

\* UPDATE delivery_commitments, a row at a time.
ClaimCommitment(x, c) ==
    /\ pc[x] = "saving"
    /\ c \in todo[x]
    /\ lock[c] = None
    /\ lock' = [lock EXCEPT ![c] = x]
    /\ todo' = [todo EXCEPT ![x] = @ \ {c}]
    /\ UNCHANGED <<tables, pc, trip, crew, load, target, history>>

Unlocked(x) == [r \in LockedRow |-> IF lock[r] = x THEN None ELSE lock[r]]

\* The status a transaction gives to the commitments it writes.
DeliveryStatusSet(x) == IF x \in Dispatch THEN "DISPATCHED" ELSE "PENDING"

\* The row of the new trip and its links to commitments.
NewTrip(x) ==
    /\ vehicle' = [vehicle EXCEPT ![x] = crew[x].vehicle]
    /\ driver' = [driver EXCEPT ![x] = crew[x].driver]
    /\ cargo' = [cargo EXCEPT ![x] = load[x]]

Commit(x) ==
    /\ pc[x] = "saving"
    /\ todo[x] = {}
    /\ status' = [status EXCEPT ![trip[x]] = target[x]]
    /\ delivery' = [c \in Commitment |->
           IF c \in load[x] THEN DeliveryStatusSet(x) ELSE delivery[c]]
    /\ IF x \in Dispatch
       THEN NewTrip(x)
       ELSE UNCHANGED <<vehicle, driver, cargo>>
    /\ reached' = IF x \in Geofence THEN reached \cup {trip[x]} ELSE reached
    /\ lock' = Unlocked(x)
    /\ Goto(x, "done")
    /\ diverted' = IF target[x] = "DIVERTED" THEN diverted \cup {trip[x]} ELSE diverted
    /\ overrun' = IF x \in Geofence /\ status[trip[x]] # "DISPATCHED"
                  THEN overrun \cup {trip[x]} ELSE overrun
    /\ Closed(x)

\* Mutated form of RollBack: the session is never closed.
RollBackKeepsLocks(x) ==
    /\ Goto(x, "done")
    /\ UNCHANGED <<tables, lock, session, history>>

RollBack(x) ==
    /\ lock' = Unlocked(x)
    /\ Goto(x, "done")
    /\ Closed(x)
    /\ UNCHANGED <<tables, history>>

\* The resources are taken: ResourceAlreadyDispatchedError.
Conflict(x) ==
    /\ \/ pc[x] = "driver" /\ VehicleDispatched(crew[x].vehicle)
       \/ pc[x] = "vehicleFree" /\ DriverDispatched(crew[x].driver)
    /\ RollBack(x)

\* An inactive resource, an overloaded vehicle, an error or a lost connection.
Fail(x) ==
    /\ pc[x] \notin {"idle", "done"}
    /\ RollBack(x)

\* Transactions that wait only for one another.
Deadlocked(S) ==
    \A x \in S : /\ pc[x] = "saving"
                 /\ todo[x] # {}
                 /\ \A c \in todo[x] : lock[c] \in S

\* PostgreSQL aborts one of them.
BreakDeadlock(x) ==
    /\ \E S \in SUBSET Txn : x \in S /\ Deadlocked(S)
    /\ RollBack(x)

Served ==
    /\ \A x \in Txn : pc[x] \in {"idle", "done"}
    /\ UNCHANGED vars

Begin(x) ==
    \/ x \in Dispatch /\ \E o \in Order : LockVehicle(x, o)
    \/ x \in Transition /\ \E t \in Trip, s \in TripStatus : LockTrip(x, t, s)
    \/ x \in Geofence /\ \E t \in Trip : ReachStop(x, t) \/ MarkStop(x, t)

Advance(x) ==
    \/ LockDriver(x) \/ CheckVehicle(x) \/ CheckDriver(x) \/ Conflict(x)
    \/ StartTrip(x)
    \/ \E c \in Commitment : ClaimCommitment(x, c)
    \/ Commit(x)
    \/ BreakDeadlock(x)

Next == (\E x \in Txn : Begin(x) \/ Advance(x) \/ Fail(x)) \/ Served

Spec == Init /\ [][Next]_vars

\* Users need not send requests; a request under way executes its next statement
\* when it can, and the database breaks deadlocks.
FairSpec == Spec /\ \A x \in Txn : WF_vars(Advance(x))

-----------------------------------------------------------------------------
TypeOK ==
    /\ status \in [Trip -> TripStatus \cup {None}]
    /\ vehicle \in [Trip -> Vehicle \cup {None}]
    /\ driver \in [Trip -> Driver \cup {None}]
    /\ cargo \in [Trip -> SUBSET Commitment]
    /\ delivery \in [Commitment -> {"PENDING", "DISPATCHED"}]
    /\ reached \subseteq Trip
    /\ lock \in [LockedRow -> Txn \cup {None}]
    /\ pc \in [Txn -> {"idle", "vehicle", "driver", "vehicleFree", "arriving",
                       "saving", "done"}]
    /\ trip \in [Txn -> Trip \cup {None}]
    /\ crew \in [Txn -> [vehicle: Vehicle \cup {None}, driver: Driver \cup {None}]]
    /\ load \in [Txn -> SUBSET Commitment]
    /\ todo \in [Txn -> SUBSET Commitment]
    /\ target \in [Txn -> TripStatus]
    /\ diverted \subseteq Trip
    /\ overrun \subseteq Trip

Moving(t) == status[t] \in {"DISPATCHED", "IN_TRANSIT", "HELD_FOR_INSPECTION"}

\* A vehicle or a driver is on one running trip only, unless one of the trips has
\* been diverted (the conflict check does not count DIVERTED) or its status was
\* overwritten by a geofence.
ExclusiveAssignment ==
    \A s, t \in Trip \ (diverted \cup overrun) :
        /\ s # t /\ Moving(s) /\ Moving(t)
        => vehicle[s] # vehicle[t] /\ driver[s] # driver[t]

\* A commitment is PENDING when every trip that carries it has been cancelled or
\* aborted, and DISPATCHED when none has: statuses of trips and commitments
\* change together, however requests interleave or are aborted.
CommitmentsFollowTrips ==
    \A c \in Commitment :
        LET carrying == {t \in Trip : c \in cargo[t]}
            Dropped == {"CANCELLED", "ABORTED"}
        IN  carrying \cap overrun = {} =>
               /\ (\A t \in carrying : status[t] \in Dropped) => delivery[c] = "PENDING"
               /\ carrying # {} /\ (\A t \in carrying : status[t] \notin Dropped)
                     => delivery[c] = "DISPATCHED"

\* A trip whose stop has been reached is no longer waiting to depart: the stop and
\* the status are written together, though the trip is read without a lock.
StopsFollowTrips == \A t \in reached : status[t] \notin {None, "DISPATCHED"}

\* What is stored about a trip agrees with its status, in the tables' types.
RecordsFollowTrips == TypeOK /\ CommitmentsFollowTrips /\ StopsFollowTrips

\* Concurrent transitions are serialised by the row lock: trips that no geofence
\* overwrites change their status only along VALID_TRIP_TRANSITIONS.
SerialTransitionsAreLegal ==
    [][\A t \in Trip \ overrun' :
          status[t] # None /\ status'[t] # status[t] =>
              status'[t] \in ValidTransitions(status[t])]_vars

\* Commitment rows are locked in any order, yet every request ends.
EveryRequestEnds == \A x \in Txn : pc[x] # "idle" ~> pc[x] = "done"
=============================================================================
