---------------------------- MODULE RouteDispatch ----------------------------
(***************************************************************************)
(* Route plans and dispatch decisions against a road network that moves:   *)
(* a plan is computed from the version of the statuses and then from the   *)
(* statuses, statements of one READ COMMITTED transaction, and used later  *)
(* by a decision that compares its version with the live one.              *)
(*                                                                         *)
(* The network is the abstract StatusBoard, one for each network version   *)
(* imported; EdgeStatus is shown to implement it.  pgRouting is external:  *)
(* it returns a cheapest path over the edges it is given, modelled as any  *)
(* of the paths they contain.  Its answer names edges by their index, and  *)
(* the query joins the rows of every edge with that index, of whichever    *)
(* network version: an index is unique in one version only.  Costs,        *)
(* geometry and the snapping of coordinates to nodes are left out.         *)
(***************************************************************************)
EXTENDS Integers, FiniteSets

CONSTANTS
    Edge,
    Network,       \* network versions, built in this order
    EdgesOf,       \* edges of each network version
    Index,         \* edge_index of each edge
    Path,          \* sets of edges that lead from the origin to the destination
    Unfit,         \* edges whose bridges or restrictions exclude the vehicle
    Trip,
    Evaluation,    \* requests to evaluate a route, also the names of their plans
    Decider,       \* requests to decide on a dispatch
    Lifetime,      \* 1 h: how long a plan may be used
    MaxClock,      \* bound on the clock
    MaxVersion,    \* bound on the versions of the statuses
    None

ASSUME RouteAssumption ==
    /\ Network \subseteq Nat \ {0} /\ Network # {}
    /\ EdgesOf \in [Network -> SUBSET Edge]
    /\ \A m, n \in Network : m # n => EdgesOf[m] \cap EdgesOf[n] = {}
    /\ Index \in [Edge -> Nat]
    /\ \A n \in Network : \A e, f \in EdgesOf[n] : Index[e] = Index[f] => e = f
    /\ Path \subseteq SUBSET Edge
    /\ Unfit \subseteq Edge
    /\ Lifetime \in Nat /\ MaxClock \in Nat /\ MaxVersion \in Nat
    /\ {} \notin Path
    /\ None \notin Evaluation \cup Edge

Status == {"OPEN", "RESTRICTED", "PROVISIONAL_CAUTION", "BLOCKED"}
RouteResult == {"FEASIBLE", "NO_FEASIBLE_PATH"}
DispatchAction == {"ACCEPTED", "REJECTED", "DIVERTED"}
TripStatus == {"PLANNED", "DISPATCHED", "CANCELLED"}

\* A route is the set of its stored edges; {} is no route.
RoutePlan == [network: Network, version: Nat, critical: BOOLEAN, result: RouteResult,
              primary: SUBSET Edge, alternatives: SUBSET SUBSET Edge, expires: Nat]
Decision == [trip: Trip, plan: Evaluation, action: DispatchAction, route: SUBSET Edge, version: Nat]

\* What a request carries from its first statement to its last.
EvaluationWork == [network: Network, version: Nat, critical: BOOLEAN, admissible: SUBSET Edge]
DecisionWork == [trip: Trip, plan: Evaluation, action: DispatchAction, route: SUBSET Edge,
                 version: Nat, seen: {None} \cup TripStatus]

VARIABLES
    status,      \* status of each edge
    counter,     \* status_version of each network version, 0 before its import
    plan,        \* route_plans: the plan of each evaluation, None if there is none
    decision,    \* dispatch_decisions
    trip,        \* status of each trip, and the plan it follows
    clock,
    pc,          \* progress of each request
    work         \* what a request has read

requests == Evaluation \cup Decider
network  == <<status, counter>>
vars     == <<network, plan, decision, trip, clock, pc, work>>

\* get_active_network_version: the latest built of those imported.
Live == CHOOSE n \in Network : counter[n] > 0 /\ \A m \in Network : counter[m] > 0 => m <= n

Init ==
    /\ status = [e \in Edge |-> "OPEN"]
    /\ counter = [n \in Network |-> IF \A m \in Network : n <= m THEN 1 ELSE 0]
    /\ plan = [p \in Evaluation |-> None]
    /\ decision = [d \in Decider |-> None]
    /\ trip = [t \in Trip |-> [status |-> "PLANNED", route |-> None]]
    /\ clock = 0
    /\ pc = [r \in requests |-> "idle"]
    /\ work = [r \in requests |-> None]

Tick ==
    /\ clock < MaxClock
    /\ clock' = clock + 1
    /\ UNCHANGED <<network, plan, decision, trip, pc, work>>

-----------------------------------------------------------------------------
\* The network.

\* Mutated form of Bumped: only the live network version counts the change.
BumpedLive(n) == IF n = Live THEN counter[n] + 1 ELSE counter[n]

\* The update counts the change on every network version there is.
Bumped(n) == IF counter[n] > 0 THEN counter[n] + 1 ELSE 0

DeclareStatus(e, s) ==
    /\ \A n \in Network : counter[n] < MaxVersion
    /\ \E n \in Network : counter[n] > 0 /\ e \in EdgesOf[n]
    /\ status' = [status EXCEPT ![e] = s]
    /\ counter' = [n \in Network |-> Bumped(n)]
    /\ UNCHANGED <<plan, decision, trip, clock, pc, work>>

\* A new version is imported active, its edges open, its counter at the default.
ImportNetwork(n) ==
    /\ counter[n] = 0
    /\ n = Live + 1
    /\ counter' = [counter EXCEPT ![n] = 1]
    /\ UNCHANGED <<status, plan, decision, trip, clock, pc, work>>

-----------------------------------------------------------------------------
\* Evaluation of a route.

BeginEvaluate(p, critical) ==
    /\ pc[p] = "idle"
    /\ pc' = [pc EXCEPT ![p] = "versioned"]
    /\ work' = [work EXCEPT ![p] = [network |-> Live, version |-> counter[Live],
                                    critical |-> critical, admissible |-> {}]]
    /\ UNCHANGED <<network, plan, decision, trip, clock>>

\* Mutated form of Excluded: a caution does not keep critical cargo off.
ExcludedClosed(e, critical) == status[e] = "BLOCKED" \/ e \in Unfit

Excluded(e, critical) ==
    \/ status[e] = "BLOCKED"
    \/ status[e] = "PROVISIONAL_CAUTION" /\ critical
    \/ e \in Unfit

\* The edges of the network version read, less those excluded: literals of the
\* path queries to come.
ReadEdges(p) ==
    /\ pc[p] = "versioned"
    /\ pc' = [pc EXCEPT ![p] = "assessed"]
    /\ work' = [work EXCEPT ![p].admissible =
           {e \in EdgesOf[work[p].network] : ~Excluded(e, work[p].critical)}]
    /\ UNCHANGED <<network, plan, decision, trip, clock>>

\* pgr_dijkstra finds a cheapest path, if any; without costs it may be any path.
Dijkstra(p) == {r \in Path : r \subseteq work[p].admissible}

\* pgr_ksp with K = 3: the three cheapest paths, or all if there are fewer.
Ksp(p) ==
    IF Cardinality(Dijkstra(p)) <= 3
    THEN {Dijkstra(p)}
    ELSE {paths \in SUBSET Dijkstra(p) : Cardinality(paths) = 3}

\* The rows joined to a path: the edges of all versions imported, active or not,
\* that have an index of the path.
Detailed(r) ==
    {e \in UNION {EdgesOf[n] : n \in {m \in Network : counter[m] > 0}} :
        \E f \in r : Index[e] = Index[f]}

\* The path equal to the primary is no alternative, but lists of rows are compared:
\* when several rows have one index their order is open, and the lists may differ.
\* The primary need not be one of the three, Dijkstra chose it among equals.
Alternatives(primary, paths) ==
    LET others == {Detailed(r) : r \in paths \ {primary}}
    IN  IF primary \in paths /\ Cardinality(Detailed(primary)) > Cardinality(primary)
        THEN {others, others \cup {Detailed(primary)}}
        ELSE {others}

\* The status version is the one read first, also when the statuses are newer.
Planned(p, result, primary, alternatives) ==
    [network |-> work[p].network, version |-> work[p].version, critical |-> work[p].critical,
     result |-> result, primary |-> primary, alternatives |-> alternatives,
     expires |-> clock + Lifetime]

\* Nothing is left of the network, or no path of what is left.
Unroutable(p) == Planned(p, "NO_FEASIBLE_PATH", {}, {})

EndEvaluate(p) ==
    /\ pc[p] = "assessed"
    /\ IF Dijkstra(p) = {}
       THEN plan' = [plan EXCEPT ![p] = Unroutable(p)]
       ELSE \E primary \in Dijkstra(p), paths \in Ksp(p) :
            \E alternatives \in Alternatives(primary, paths) :
               plan' = [plan EXCEPT ![p] = Planned(p, "FEASIBLE", Detailed(primary), alternatives)]
    /\ pc' = [pc EXCEPT ![p] = "done"]
    /\ work' = [work EXCEPT ![p] = None]
    /\ UNCHANGED <<network, decision, trip, clock>>

-----------------------------------------------------------------------------
\* Dispatch decisions.

\* Mutated form of Stale: a plan is out of date one change late.
StaleLate(p) == plan[p].version + 1 < counter[Live]

Stale(p) == plan[p].version < counter[Live]

Found(p) == plan[p] # None

\* The plan is found, not expired, and its version not behind the live one;
\* neither its result nor its trip is looked at, and the rank of the route
\* chosen may be that of none.
BeginDecide(d, t, p, action) ==
    /\ pc[d] = "idle"
    /\ Found(p)
    /\ clock <= plan[p].expires
    /\ ~Stale(p)
    /\ pc' = [pc EXCEPT ![d] = "compared"]
    /\ \E route \in {plan[p].primary, {}} \cup plan[p].alternatives :
          work' = [work EXCEPT ![d] = [trip |-> t, plan |-> p, action |-> action, route |-> route,
                                       version |-> counter[Live], seen |-> None]]
    /\ UNCHANGED <<network, plan, decision, trip, clock>>

\* The trip of a decision that sets its route is read without a lock.
ReadTrip(d) ==
    /\ pc[d] = "compared"
    /\ work[d].action # "REJECTED"
    /\ pc' = [pc EXCEPT ![d] = "read"]
    /\ work' = [work EXCEPT ![d].seen = trip[work[d].trip].status]
    /\ UNCHANGED <<network, plan, decision, trip, clock>>

\* The trip of an accepted or diverted route follows its plan; a planned one is
\* dispatched, by the status read before.
Followed(d) ==
    LET w == work[d] IN
    IF w.action = "REJECTED" THEN trip
    ELSE [trip EXCEPT ![w.trip] =
             [status |-> IF w.action = "ACCEPTED" /\ w.seen = "PLANNED" THEN "DISPATCHED" ELSE @.status,
              route  |-> w.plan]]

EndDecide(d) ==
    /\ pc[d] \in {"compared", "read"}
    /\ pc[d] = IF work[d].action = "REJECTED" THEN "compared" ELSE "read"
    /\ decision' = [decision EXCEPT ![d] =
           [trip |-> work[d].trip, plan |-> work[d].plan, action |-> work[d].action,
            route |-> work[d].route, version |-> work[d].version]]
    /\ trip' = Followed(d)
    /\ pc' = [pc EXCEPT ![d] = "done"]
    /\ work' = [work EXCEPT ![d] = None]
    /\ UNCHANGED <<network, plan, clock>>

\* The transitions of a trip at large, TripLifecycle, that leave PLANNED.
TripMoves(t) ==
    /\ trip[t].status = "PLANNED"
    /\ \E s \in {"DISPATCHED", "CANCELLED"} : trip' = [trip EXCEPT ![t].status = s]
    /\ UNCHANGED <<network, plan, decision, clock, pc, work>>

-----------------------------------------------------------------------------
Next ==
    \/ Tick
    \/ \E e \in Edge, s \in Status : DeclareStatus(e, s)
    \/ \E n \in Network : ImportNetwork(n)
    \/ \E p \in Evaluation, critical \in BOOLEAN : BeginEvaluate(p, critical)
    \/ \E p \in Evaluation : ReadEdges(p) \/ EndEvaluate(p)
    \/ \E d \in Decider : pc[d] = "idle" /\
          \E t \in Trip, p \in Evaluation, action \in DispatchAction :
              BeginDecide(d, t, p, action)
    \/ \E d \in Decider : ReadTrip(d) \/ EndDecide(d)
    \/ \E t \in Trip : TripMoves(t)

Spec == Init /\ [][Next]_vars

-----------------------------------------------------------------------------
\* Plans, decisions and trips are of the right kind, and only an evaluation that
\* found no path has none.
TypeOK ==
    /\ status \in [Edge -> Status]
    /\ counter \in [Network -> Nat]
    /\ plan \in [Evaluation -> {None} \cup RoutePlan]
    /\ \A p \in Evaluation :
          plan[p] # None => (plan[p].primary = {} <=> plan[p].result = "NO_FEASIBLE_PATH")
    /\ decision \in [Decider -> {None} \cup Decision]
    /\ trip \in [Trip -> [status: TripStatus, route: {None} \cup Evaluation]]
    /\ clock \in 0 .. MaxClock
    /\ pc \in [requests -> {"idle", "versioned", "assessed", "compared", "read", "done"}]
    /\ work \in [requests -> {None} \cup EvaluationWork \cup DecisionWork]

Usable(route, critical) ==
    \A e \in route : status[e] # "BLOCKED" /\ (critical => status[e] # "PROVISIONAL_CAUTION")

\* The edges of a stored route that belong to the network version it was planned on.
Own(p, route) == route \cap EdgesOf[plan[p].network]

Routes(p) ==
    IF plan[p].result = "FEASIBLE" THEN {plan[p].primary} \cup plan[p].alternatives ELSE {}

Current(p) == plan[p] # None /\ plan[p].version = counter[plan[p].network]

\* Whatever rows of other network versions the join adds to a stored route, its
\* edges of the version it was planned on are a path from origin to destination
\* (execute_dijkstra, execute_ksp).
StoredRoutesLead ==
    \A p \in Evaluation : plan[p] # None => \A route \in Routes(p) : Own(p, route) \in Path

\* A plan whose version is still its network's has no closed road of that network
\* on any of its paths, and none under caution if it is for critical cargo: the
\* version was read before the statuses, never after (EvaluateRouteUseCase.execute).
CurrentPlansAreUsable ==
    \A p \in Evaluation :
        Current(p) => \A route \in Routes(p) : Usable(Own(p, route), plan[p].critical)

\* What is stored of plans and decisions has its type, routes lead to their
\* destination, and current plans are usable.
RoutesAreSound == TypeOK /\ StoredRoutesLead /\ CurrentPlansAreUsable

\* A decision recorded on a plan of the live network, with no change of status since
\* the versions were compared, chooses a route whose roads of that network are still
\* usable then: the statuses the plan was computed from need not be read again
\* (RecordDispatchDecisionUseCase).
DecisionsAreFresh ==
    [][\A d \in Decider :
          decision'[d] # decision[d] =>
              LET w == work[d] IN
              plan[w.plan].network = Live /\ counter[Live] = w.version
              => Usable(Own(w.plan, w.route), plan[w.plan].critical)]_vars

First == CHOOSE n \in Network : \A m \in Network : n <= m

\* The roads of the first network version and its counter are a StatusBoard, also
\* when later versions are imported and counted with it.
FirstBoard == INSTANCE StatusBoard WITH
    Edge <- EdgesOf[First], Default <- "OPEN",
    status <- [e \in EdgesOf[First] |-> status[e]], version <- counter[First]

FirstNetworkIsABoard == FirstBoard!Spec

=============================================================================
