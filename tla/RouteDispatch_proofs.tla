------------------------ MODULE RouteDispatch_proofs ------------------------
(***************************************************************************)
(* Proofs about RouteDispatch for any networks, roads, evaluations,        *)
(* deciders and trips.                                                     *)
(*                                                                         *)
(* The inductive invariant IInv says that a version ever read is at most   *)
(* the one its network counts now, that a plan stays once it is stored,    *)
(* and what a decision in progress knows of the plan it was compared with. *)
(***************************************************************************)
EXTENDS RouteDispatch, CoordinationLog, WellFoundedInduction,
        FiniteSetTheorems, TLAPS

Deciding(r) == pc[r] \in {"compared", "read"}

\* The first network version is imported, and of those imported one is the latest.
NetworkInv ==
    /\ counter[First] > 0
    /\ \E n \in Network : counter[n] > 0 /\ \A m \in Network : counter[m] > 0 => m <= n

Evaluating(r) == pc[r] \in {"versioned", "assessed"}

\* Edges of a network version that may be used as long as its counter is this.
UsableFor(edges, w) ==
    /\ edges \subseteq EdgesOf[w.network]
    /\ w.version = counter[w.network] => Usable(edges, w.critical)

\* An evaluation in progress holds a version its network had, and edges that were
\* admissible then or later.
EvaluationInv ==
    \A p \in requests : Evaluating(p) =>
        /\ p \in Evaluation
        /\ work[p] \in EvaluationWork
        /\ 0 < counter[work[p].network]
        /\ work[p].version <= counter[work[p].network]
        /\ UsableFor(work[p].admissible, work[p])

\* A stored plan has a version its network had, and its evaluation is over.
PlanInv ==
    \A p \in Evaluation : plan[p] # None =>
        /\ pc[p] = "done"
        /\ 0 < counter[plan[p].network]
        /\ plan[p].version <= counter[plan[p].network]
        /\ plan[p].result = "NO_FEASIBLE_PATH" => plan[p].alternatives = {}

\* A decision in progress holds a route of a stored plan that was not behind the
\* version compared.
DecisionInv ==
    \A d \in requests : Deciding(d) =>
        /\ work[d] \in DecisionWork
        /\ plan[work[d].plan] # None
        /\ work[d].version <= plan[work[d].plan].version
        /\ work[d].route \in {plan[work[d].plan].primary, {}} \cup plan[work[d].plan].alternatives

IInv ==
    /\ TypeOK
    /\ NetworkInv
    /\ EvaluationInv
    /\ PlanInv
    /\ DecisionInv
    /\ StoredRoutesLead
    /\ CurrentPlansAreUsable

-----------------------------------------------------------------------------
\* Of a set of numbers one is the least.
LEMMA LeastNumber ==
    ASSUME NEW S \in SUBSET Nat, S # {}
    PROVE  \E n \in S : \A m \in S : n <= m
<1> DEFINE less == OpToRel(<, Nat)
<1>1. IsWellFoundedOn(less, Nat)
  BY NatLessThanWellFounded
<1>2. PICK n \in S : \A m \in S : <<m, n>> \notin less
  <2> HIDE DEF less
  <2> QED
    BY <1>1, WFMin
<1>3. \A m \in S : ~ (m < n)
  BY <1>2 DEF OpToRel
<1> QED
  BY <1>3

\* The first network version exists and is unique.
LEMMA FirstIsLeast == First \in Network /\ \A m \in Network : First <= m
<1>1. \E n \in Network : \A m \in Network : n <= m
  BY LeastNumber, RouteAssumption
<1> QED
  BY <1>1 DEF First

\* The live version is the latest imported, as long as there is one.
LEMMA LiveIsLatest ==
    ASSUME NetworkInv
    PROVE  /\ Live \in Network
           /\ counter[Live] > 0
           /\ \A m \in Network : counter[m] > 0 => m <= Live
  BY DEF NetworkInv, Live

\* The invariant holds with the networks there are at first.
LEMMA InitEstablishes == Init => IInv
<1> SUFFICES ASSUME Init PROVE IInv
  OBVIOUS
<1>1. TypeOK
  BY RouteAssumption DEF Init, TypeOK, Status, TripStatus
<1>2. NetworkInv
  BY FirstIsLeast, RouteAssumption DEF Init, NetworkInv
<1>3. EvaluationInv /\ PlanInv /\ DecisionInv /\ StoredRoutesLead /\ CurrentPlansAreUsable
  BY DEF Init, EvaluationInv, Evaluating, PlanInv, DecisionInv, Deciding, StoredRoutesLead,
         CurrentPlansAreUsable, Current
<1> QED
  BY <1>1, <1>2, <1>3 DEF IInv

-----------------------------------------------------------------------------
\* The steps.

\* A plan that is stored is one of an evaluation's, and a decision reads the plan
\* of its own work.
LEMMA PlannedIsARoutePlan ==
    ASSUME TypeOK, EvaluationInv, NEW p \in Evaluation, Evaluating(p),
           NEW result \in RouteResult, NEW primary \in SUBSET Edge,
           NEW alternatives \in SUBSET SUBSET Edge
    PROVE  Planned(p, result, primary, alternatives) \in RoutePlan
<1>1. clock + Lifetime \in Nat
  BY RouteAssumption DEF TypeOK
<1> QED
  BY <1>1 DEF EvaluationInv, EvaluationWork, Planned, RoutePlan, requests

\* The rows joined to a path of admissible edges are edges, and those of the
\* version planned on are the path: an index is unique in one version.
LEMMA DetailedIsPath ==
    ASSUME EvaluationInv, NEW p \in Evaluation, pc[p] = "assessed", NEW r \in Dijkstra(p)
    PROVE  /\ r \in Path /\ r # {}
           /\ Detailed(r) \in SUBSET Edge
           /\ Detailed(r) \cap EdgesOf[work[p].network] = r
           /\ r \subseteq work[p].admissible
<1>1. /\ work[p].network \in Network /\ counter[work[p].network] > 0
      /\ r \in Path /\ r \subseteq work[p].admissible
      /\ r \subseteq EdgesOf[work[p].network]
  BY DEF EvaluationInv, Evaluating, EvaluationWork, requests, Dijkstra, UsableFor
<1>2. Detailed(r) \in SUBSET Edge
  BY RouteAssumption DEF Detailed
<1>3. Detailed(r) \cap EdgesOf[work[p].network] \subseteq r
  BY <1>1, RouteAssumption DEF Detailed
<1>4. r \subseteq Detailed(r)
  BY <1>1 DEF Detailed
<1> QED
  BY <1>1, <1>2, <1>3, <1>4, RouteAssumption

\* What EndEvaluate stores: a plan of the version read, whose routes are, in the
\* version planned on, paths of the edges admitted.
LEMMA EvaluationStores ==
    ASSUME TypeOK, EvaluationInv, NEW p \in Evaluation, EndEvaluate(p)
    PROVE  \E result \in RouteResult, primary \in SUBSET Edge, alternatives \in SUBSET SUBSET Edge :
               /\ plan' = [plan EXCEPT ![p] = Planned(p, result, primary, alternatives)]
               /\ primary = {} <=> result = "NO_FEASIBLE_PATH"
               /\ result = "NO_FEASIBLE_PATH" => alternatives = {}
               /\ result = "FEASIBLE" => \A route \in {primary} \cup alternatives :
                      /\ route \cap EdgesOf[work[p].network] \in Path
                      /\ route \cap EdgesOf[work[p].network] \subseteq work[p].admissible
<1>1. CASE Dijkstra(p) = {}
  <2>1. plan' = [plan EXCEPT ![p] = Planned(p, "NO_FEASIBLE_PATH", {}, {})]
    BY <1>1 DEF EndEvaluate, Unroutable
  <2>2. "NO_FEASIBLE_PATH" \in RouteResult
    BY DEF RouteResult
  <2> WITNESS "NO_FEASIBLE_PATH" \in RouteResult, {} \in SUBSET Edge, {} \in SUBSET SUBSET Edge
  <2> QED
    BY <2>1
<1>2. CASE Dijkstra(p) # {}
  <2>1. PICK r \in Dijkstra(p), paths \in Ksp(p) : \E alternatives \in Alternatives(r, paths) :
            plan' = [plan EXCEPT ![p] = Planned(p, "FEASIBLE", Detailed(r), alternatives)]
    BY <1>2 DEF EndEvaluate
  <2>2. PICK alternatives \in Alternatives(r, paths) :
            plan' = [plan EXCEPT ![p] = Planned(p, "FEASIBLE", Detailed(r), alternatives)]
    BY <2>1
  <2>3. paths \subseteq Dijkstra(p) /\ pc[p] = "assessed"
    BY <2>1 DEF Ksp, EndEvaluate
  <2>4. alternatives \subseteq {Detailed(q) : q \in Dijkstra(p)}
    BY <2>1, <2>2, <2>3 DEF Alternatives
  <2>5. \A q \in Dijkstra(p) :
            /\ q \in Path /\ q # {} /\ Detailed(q) \in SUBSET Edge
            /\ Detailed(q) \cap EdgesOf[work[p].network] = q
            /\ q \subseteq work[p].admissible
    BY <2>3, DetailedIsPath
  <2>6. \A route \in {Detailed(r)} \cup alternatives :
            /\ route \in SUBSET Edge
            /\ route \cap EdgesOf[work[p].network] \in Path
            /\ route \cap EdgesOf[work[p].network] \subseteq work[p].admissible
    <3>1. \A route \in {Detailed(r)} \cup alternatives : \E q \in Dijkstra(p) : route = Detailed(q)
      BY <2>1, <2>4
    <3>2. \A q \in Dijkstra(p) :
              /\ Detailed(q) \in SUBSET Edge
              /\ Detailed(q) \cap EdgesOf[work[p].network] \in Path
              /\ Detailed(q) \cap EdgesOf[work[p].network] \subseteq work[p].admissible
      BY <2>5, Zenon
    <3> QED
      BY <3>1, <3>2, Zenon
  <2>7. Detailed(r) # {}
    BY <2>1, <2>5
  <2>8. "FEASIBLE" \in RouteResult /\ Detailed(r) \in SUBSET Edge
        /\ alternatives \in SUBSET SUBSET Edge
    BY <2>6 DEF RouteResult
  <2> DEFINE Stores(result, primary, others) ==
          /\ plan' = [plan EXCEPT ![p] = Planned(p, result, primary, others)]
          /\ primary = {} <=> result = "NO_FEASIBLE_PATH"
          /\ result = "NO_FEASIBLE_PATH" => others = {}
          /\ result = "FEASIBLE" => \A route \in {primary} \cup others :
                 /\ route \cap EdgesOf[work[p].network] \in Path
                 /\ route \cap EdgesOf[work[p].network] \subseteq work[p].admissible
  <2>9. Stores("FEASIBLE", Detailed(r), alternatives)
    BY <2>2, <2>6, <2>7
  <2> HIDE DEF Stores
  <2>10. \E result \in RouteResult, primary \in SUBSET Edge, others \in SUBSET SUBSET Edge :
             Stores(result, primary, others)
    BY <2>8, <2>9, Zenon
  <2> QED
    BY <2>10, Zenon DEF Stores
<1> QED
  BY <1>1, <1>2

\* Every step keeps the types of the state.
LEMMA TypeStep ==
    ASSUME TypeOK, NetworkInv, EvaluationInv, DecisionInv, [Next]_vars
    PROVE  TypeOK'
<1> USE DEF TypeOK
<1>1. CASE Tick
  BY <1>1, RouteAssumption DEF Tick, network
<1>2. ASSUME NEW e \in Edge, NEW s \in Status, DeclareStatus(e, s)
      PROVE  TypeOK'
  BY <1>2 DEF DeclareStatus, Bumped
<1>3. ASSUME NEW n \in Network, ImportNetwork(n)
      PROVE  TypeOK'
  BY <1>3 DEF ImportNetwork
<1>4. ASSUME NEW p \in Evaluation, NEW critical \in BOOLEAN, BeginEvaluate(p, critical)
      PROVE  TypeOK'
  <2>1. counter[Live] \in Nat /\ Live \in Network
    BY LiveIsLatest
  <2> QED
    BY <1>4, <2>1 DEF BeginEvaluate, network, EvaluationWork
<1>5. ASSUME NEW p \in Evaluation, EndEvaluate(p)
      PROVE  TypeOK'
  <2>1. PICK result \in RouteResult, primary \in SUBSET Edge, alternatives \in SUBSET SUBSET Edge :
            /\ plan' = [plan EXCEPT ![p] = Planned(p, result, primary, alternatives)]
            /\ primary = {} <=> result = "NO_FEASIBLE_PATH"
    <3> HIDE DEF TypeOK
    <3> QED
      BY <1>5, EvaluationStores
  <2>2. Planned(p, result, primary, alternatives) \in RoutePlan
    BY <1>5, PlannedIsARoutePlan DEF EndEvaluate, Evaluating
  <2>3. plan' \in [Evaluation -> {None} \cup RoutePlan]
    BY <2>1, <2>2
  <2>4. \A q \in Evaluation : plan'[q] # None =>
            (plan'[q].primary = {} <=> plan'[q].result = "NO_FEASIBLE_PATH")
    BY <2>1 DEF Planned
  <2> QED
    BY <1>5, <2>3, <2>4 DEF EndEvaluate, network, requests
<1>6. ASSUME NEW d \in Decider, NEW t \in Trip, NEW p \in Evaluation, NEW action \in DispatchAction,
             BeginDecide(d, t, p, action)
      PROVE  TypeOK'
  <2>1. counter[Live] \in Nat /\ plan[p] \in RoutePlan
    BY <1>6, LiveIsLatest DEF BeginDecide, Found
  <2>2. PICK route \in {plan[p].primary, {}} \cup plan[p].alternatives :
            work' = [work EXCEPT ![d] = [trip |-> t, plan |-> p, action |-> action,
                        route |-> route, version |-> counter[Live], seen |-> None]]
    BY <1>6 DEF BeginDecide
  <2>3. route \in SUBSET Edge
    BY <2>1, <2>2 DEF RoutePlan
  <2> QED
    BY <1>6, <2>1, <2>2, <2>3 DEF BeginDecide, network, DecisionWork
<1>7. ASSUME NEW d \in Decider, ReadTrip(d)
      PROVE  TypeOK'
  <2>1. work[d] \in DecisionWork
    BY <1>7 DEF ReadTrip, DecisionInv, Deciding, requests
  <2> QED
    BY <1>7, <2>1 DEF ReadTrip, network, DecisionWork
<1>8. ASSUME NEW d \in Decider, EndDecide(d)
      PROVE  TypeOK'
  <2>1. d \in requests /\ Deciding(d)
    BY <1>8 DEF EndDecide, Deciding, requests
  <2>2. work[d].plan \in Evaluation /\ plan[work[d].plan] \in RoutePlan
    BY <2>1 DEF DecisionInv, DecisionWork
  <2>3. work[d].route \in SUBSET Edge
    BY <2>1, <2>2 DEF DecisionInv, DecisionWork, RoutePlan
  <2>4. decision' \in [Decider -> {None} \cup Decision]
    BY <1>8, <2>1, <2>3 DEF EndDecide, DecisionInv, DecisionWork, Decision
  <2>5. Followed(d) \in [Trip -> [status: TripStatus, route: {None} \cup Evaluation]]
    BY <2>1 DEF Followed, DecisionInv, DecisionWork, TripStatus
  <2> QED
    BY <1>8, <2>4, <2>5 DEF EndDecide, network
<1>9. ASSUME NEW t \in Trip, TripMoves(t)
      PROVE  TypeOK'
  BY <1>9 DEF TripMoves, network, TripStatus
<1>10. CASE UNCHANGED vars
  BY <1>10 DEF vars, network
<1>11. ASSUME NEW p \in Evaluation, ReadEdges(p)
      PROVE  TypeOK'
  <2>1. work[p] \in EvaluationWork
    BY <1>11 DEF ReadEdges, EvaluationInv, Evaluating, requests
  <2>2. {e \in EdgesOf[work[p].network] : ~Excluded(e, work[p].critical)} \in SUBSET Edge
    BY <2>1, RouteAssumption DEF EvaluationWork
  <2> HIDE DEF Excluded
  <2> QED
    BY <1>11, <2>1, <2>2 DEF ReadEdges, network, EvaluationWork, requests
<1> QED
  BY <1>1, <1>2, <1>3, <1>4, <1>5, <1>6, <1>7, <1>8, <1>9, <1>10, <1>11 DEF Next

\* Every change of status counts on each network version imported, and an
\* import makes the one imported the latest.
LEMMA NetworkStep ==
    ASSUME TypeOK, NetworkInv, [Next]_vars
    PROVE  /\ NetworkInv'
           /\ \A n \in Network : counter[n] > 0 => counter'[n] >= counter[n]
<1> USE DEF TypeOK
<1>1. ASSUME NEW e \in Edge, NEW s \in Status, DeclareStatus(e, s)
      PROVE  /\ NetworkInv'
             /\ \A n \in Network : counter[n] > 0 => counter'[n] >= counter[n]
  <2>1. \A n \in Network : counter'[n] > 0 <=> counter[n] > 0
    BY <1>1 DEF DeclareStatus, Bumped
  <2>2. \A n \in Network : counter[n] > 0 => counter'[n] >= counter[n]
    BY <1>1 DEF DeclareStatus, Bumped
  <2> QED
    BY <2>1, <2>2, FirstIsLeast DEF NetworkInv, First
<1>2. ASSUME NEW n \in Network, ImportNetwork(n)
      PROVE  /\ NetworkInv'
             /\ \A m \in Network : counter[m] > 0 => counter'[m] >= counter[m]
  <2>1. /\ counter'[n] = 1
        /\ \A m \in Network : m # n => counter'[m] = counter[m]
    BY <1>2 DEF ImportNetwork
  <2>2. \A m \in Network : counter'[m] > 0 => m <= n
    <3> HIDE DEF TypeOK
    <3>1. Live \in Network /\ n = Live + 1 /\ \A m \in Network : counter[m] > 0 => m <= Live
      BY <1>2, LiveIsLatest DEF ImportNetwork
    <3> QED
      BY <2>1, <3>1, RouteAssumption
  <2>3. First # n
    BY <1>2 DEF ImportNetwork, NetworkInv
  <2> QED
    BY <1>2, <2>1, <2>2, <2>3, FirstIsLeast DEF NetworkInv, First, ImportNetwork
<1>3. CASE UNCHANGED counter
  BY <1>3, RouteAssumption DEF NetworkInv, First
<1> QED
  BY <1>1, <1>2, <1>3
  DEF Next, Tick, BeginEvaluate, ReadEdges, EndEvaluate, BeginDecide, ReadTrip, EndDecide, TripMoves,
      vars, network

\* The counters a version was read from only grow; a request in progress keeps
\* its work until its own next step.
LEMMA EvaluationStep ==
    ASSUME TypeOK, NetworkInv, EvaluationInv, [Next]_vars
    PROVE  EvaluationInv'
<1> USE DEF EvaluationInv, Evaluating, EvaluationWork, requests
<1>1. CASE Tick
  BY <1>1 DEF Tick, network, UsableFor, Usable
<1>2. ASSUME NEW e \in Edge, NEW s \in Status, DeclareStatus(e, s)
      PROVE  EvaluationInv'
  <2>1. ASSUME NEW r \in requests, Evaluating(r)
        PROVE  /\ 0 < counter'[work[r].network]
               /\ work[r].version < counter'[work[r].network]
    BY <1>2, <2>1 DEF DeclareStatus, Bumped, TypeOK
  <2>2. \A r \in requests : Evaluating(r) => work[r].version \in Nat /\ counter'[work[r].network] \in Nat
    BY <1>2 DEF DeclareStatus, Bumped, TypeOK
  <2>3. pc' = pc /\ work' = work
    BY <1>2 DEF DeclareStatus
  <2> QED
    BY <2>1, <2>2, <2>3 DEF UsableFor
<1>3. ASSUME NEW n \in Network, ImportNetwork(n)
      PROVE  EvaluationInv'
  <2>1. /\ pc' = pc /\ work' = work /\ status' = status
        /\ \A r \in requests : Evaluating(r) => counter'[work[r].network] = counter[work[r].network]
    BY <1>3 DEF ImportNetwork, TypeOK
  <2> QED
    BY <2>1 DEF UsableFor, Usable
<1>4. ASSUME NEW p \in Evaluation, NEW critical \in BOOLEAN, BeginEvaluate(p, critical)
      PROVE  EvaluationInv'
  <2>1. /\ work'[p] = [network |-> Live, version |-> counter[Live], critical |-> critical,
                         admissible |-> {}]
        /\ \A r \in requests : r # p => work'[r] = work[r] /\ pc'[r] = pc[r]
        /\ counter' = counter /\ status' = status
    BY <1>4 DEF BeginEvaluate, network, TypeOK
  <2>2. Live \in Network /\ counter[Live] > 0 /\ counter[Live] \in Nat
    BY LiveIsLatest DEF TypeOK
  <2> QED
    BY <2>1, <2>2 DEF UsableFor, Usable
<1>5. ASSUME NEW p \in Evaluation, EndEvaluate(p)
      PROVE  EvaluationInv'
  BY <1>5 DEF EndEvaluate, network, TypeOK, UsableFor, Usable
<1>6. ASSUME NEW d \in Decider, NEW t \in Trip, NEW p \in Evaluation, NEW action \in DispatchAction,
             BeginDecide(d, t, p, action)
      PROVE  EvaluationInv'
  BY <1>6 DEF BeginDecide, network, TypeOK, UsableFor, Usable
<1>7. ASSUME NEW d \in Decider, ReadTrip(d)
      PROVE  EvaluationInv'
  BY <1>7 DEF ReadTrip, network, TypeOK, UsableFor, Usable
<1>8. ASSUME NEW d \in Decider, EndDecide(d)
      PROVE  EvaluationInv'
  BY <1>8 DEF EndDecide, network, TypeOK, UsableFor, Usable
<1>9. ASSUME NEW t \in Trip, TripMoves(t)
      PROVE  EvaluationInv'
  BY <1>9 DEF TripMoves, network, UsableFor, Usable
<1>10. CASE UNCHANGED vars
  BY <1>10 DEF vars, network, UsableFor, Usable
<1>11. ASSUME NEW p \in Evaluation, ReadEdges(p)
      PROVE  EvaluationInv'
  <2> DEFINE edges == {e \in EdgesOf[work[p].network] : ~Excluded(e, work[p].critical)}
  <2>1. /\ work' = [work EXCEPT ![p].admissible = edges]
        /\ pc' = [pc EXCEPT ![p] = "assessed"]
        /\ UNCHANGED <<status, counter>>
    BY <1>11 DEF ReadEdges, network
  <2>2. /\ work[p] \in EvaluationWork /\ 0 < counter[work[p].network]
        /\ work[p].version <= counter[work[p].network]
    BY <1>11 DEF ReadEdges
  <2>3. edges \subseteq EdgesOf[work[p].network] /\ edges \subseteq Edge
        /\ Usable(edges, work[p].critical)
    BY <2>2, RouteAssumption DEF Excluded, Usable
  <2> HIDE DEF edges
  <2>4. /\ work'[p] = [work[p] EXCEPT !.admissible = edges]
        /\ \A r \in requests : r # p => work'[r] = work[r] /\ pc'[r] = pc[r]
    BY <2>1 DEF TypeOK
  <2>5. /\ work'[p].network = work[p].network /\ work'[p].version = work[p].version
        /\ work'[p].critical = work[p].critical /\ work'[p].admissible = edges
        /\ work'[p] \in EvaluationWork
    BY <2>2, <2>3, <2>4
  <2> QED
    BY <2>1, <2>2, <2>3, <2>4, <2>5 DEF UsableFor, Usable
<1> QED
  BY <1>1, <1>2, <1>3, <1>4, <1>5, <1>6, <1>7, <1>8, <1>9, <1>10, <1>11 DEF Next

\* What EndEvaluate writes at the plan it stores, and nowhere else.
LEMMA StoredPlan ==
    ASSUME TypeOK, EvaluationInv, NEW p \in Evaluation, EndEvaluate(p)
    PROVE  /\ plan'[p].network = work[p].network
           /\ plan'[p].version = work[p].version
           /\ plan'[p].result = "NO_FEASIBLE_PATH" => plan'[p].alternatives = {}
           /\ \A route \in Routes(p)' :
                  /\ Own(p, route)' \in Path
                  /\ work[p].version = counter[work[p].network]
                     => Usable(Own(p, route)', plan'[p].critical)
           /\ \A q \in Evaluation : q # p => plan'[q] = plan[q]
           /\ work[p].version <= counter[work[p].network]
           /\ 0 < counter[work[p].network]
<1>1. PICK result \in RouteResult, primary \in SUBSET Edge, alternatives \in SUBSET SUBSET Edge :
          /\ plan' = [plan EXCEPT ![p] = Planned(p, result, primary, alternatives)]
          /\ primary = {} <=> result = "NO_FEASIBLE_PATH"
          /\ result = "NO_FEASIBLE_PATH" => alternatives = {}
          /\ result = "FEASIBLE" => \A route \in {primary} \cup alternatives :
                 /\ route \cap EdgesOf[work[p].network] \in Path
                 /\ route \cap EdgesOf[work[p].network] \subseteq work[p].admissible
  BY EvaluationStores
<1>2. /\ plan'[p] = Planned(p, result, primary, alternatives)
      /\ \A q \in Evaluation : q # p => plan'[q] = plan[q]
  BY <1>1 DEF TypeOK
<1>3. /\ plan'[p].network = work[p].network
      /\ plan'[p].version = work[p].version
      /\ plan'[p].critical = work[p].critical
      /\ plan'[p].result = result
      /\ plan'[p].primary = primary
      /\ plan'[p].alternatives = alternatives
  BY <1>2 DEF Planned
<1>4. /\ work[p].version <= counter[work[p].network] /\ 0 < counter[work[p].network]
      /\ work[p].version = counter[work[p].network]
         => Usable(work[p].admissible, work[p].critical)
  BY DEF EndEvaluate, EvaluationInv, Evaluating, UsableFor, requests
<1>5. ASSUME NEW route \in Routes(p)'
      PROVE  /\ Own(p, route)' \in Path
             /\ Own(p, route)' \subseteq work[p].admissible
  <2>1. result = "FEASIBLE" /\ route \in {primary} \cup alternatives
    BY <1>3, <1>5 DEF Routes
  <2>2. Own(p, route)' = route \cap EdgesOf[work[p].network]
    BY <1>3 DEF Own
  <2> QED
    BY <1>1, <2>1, <2>2
<1>6. \A route \in Routes(p)' : work[p].version = counter[work[p].network]
          => Usable(Own(p, route)', plan'[p].critical)
  BY <1>3, <1>4, <1>5 DEF Usable
<1> QED
  BY <1>1, <1>2, <1>3, <1>4, <1>5, <1>6

\* A plan whose version its network still counts keeps agreeing with the roads.
LEMMA PlanStep ==
    ASSUME TypeOK, NetworkInv, EvaluationInv, PlanInv, [Next]_vars
    PROVE  PlanInv'
<1> USE DEF PlanInv, requests
<1>1. CASE Tick
  BY <1>1 DEF Tick, network
<1>2. ASSUME NEW e \in Edge, NEW s \in Status, DeclareStatus(e, s)
      PROVE  PlanInv'
  BY <1>2 DEF DeclareStatus, Bumped, TypeOK, RoutePlan
<1>3. ASSUME NEW n \in Network, ImportNetwork(n)
      PROVE  PlanInv'
  BY <1>3 DEF ImportNetwork, TypeOK, RoutePlan
<1>4. ASSUME NEW p \in Evaluation, NEW critical \in BOOLEAN, BeginEvaluate(p, critical)
      PROVE  PlanInv'
  BY <1>4 DEF BeginEvaluate, network, TypeOK
<1>5. ASSUME NEW p \in Evaluation, EndEvaluate(p)
      PROVE  PlanInv'
  <2>1. counter' = counter /\ pc' = [pc EXCEPT ![p] = "done"]
    BY <1>5 DEF EndEvaluate, network
  <2> QED
    BY <1>5, <2>1, StoredPlan DEF TypeOK
<1>6. ASSUME NEW d \in Decider, NEW t \in Trip, NEW p \in Evaluation, NEW action \in DispatchAction,
             BeginDecide(d, t, p, action)
      PROVE  PlanInv'
  BY <1>6 DEF BeginDecide, network, TypeOK
<1>7. ASSUME NEW d \in Decider, ReadTrip(d)
      PROVE  PlanInv'
  BY <1>7 DEF ReadTrip, network, TypeOK
<1>8. ASSUME NEW d \in Decider, EndDecide(d)
      PROVE  PlanInv'
  BY <1>8 DEF EndDecide, network, TypeOK
<1>9. ASSUME NEW t \in Trip, TripMoves(t)
      PROVE  PlanInv'
  BY <1>9 DEF TripMoves, network
<1>10. CASE UNCHANGED vars
  BY <1>10 DEF vars, network
<1>11. ASSUME NEW p \in Evaluation, ReadEdges(p)
      PROVE  PlanInv'
  BY <1>11 DEF ReadEdges, network, TypeOK
<1> QED
  BY <1>1, <1>2, <1>3, <1>4, <1>5, <1>6, <1>7, <1>8, <1>9, <1>10, <1>11 DEF Next

\* The plan of a decision in progress stays as it was compared: a plan stored is
\* never written again.
LEMMA DecisionStep ==
    ASSUME TypeOK, NetworkInv, EvaluationInv, PlanInv, DecisionInv, [Next]_vars
    PROVE  DecisionInv'
<1> USE DEF DecisionInv, DecisionWork, Deciding, requests
<1>1. CASE Tick
  BY <1>1 DEF Tick, network
<1>2. ASSUME NEW e \in Edge, NEW s \in Status, DeclareStatus(e, s)
      PROVE  DecisionInv'
  BY <1>2 DEF DeclareStatus
<1>3. ASSUME NEW n \in Network, ImportNetwork(n)
      PROVE  DecisionInv'
  BY <1>3 DEF ImportNetwork
<1>4. ASSUME NEW p \in Evaluation, NEW critical \in BOOLEAN, BeginEvaluate(p, critical)
      PROVE  DecisionInv'
  BY <1>4 DEF BeginEvaluate, network, TypeOK
<1>5. ASSUME NEW p \in Evaluation, EndEvaluate(p)
      PROVE  DecisionInv'
  <2>1. \A q \in Evaluation : plan[q] # None => plan'[q] = plan[q]
    <3>1. pc[p] = "assessed"
      BY <1>5 DEF EndEvaluate
    <3>2. plan[p] = None
      BY <3>1 DEF PlanInv
    <3> QED
      BY <1>5, <3>2, StoredPlan
  <2>2. /\ pc' = [pc EXCEPT ![p] = "done"] /\ work' = [work EXCEPT ![p] = None]
        /\ pc[p] = "assessed"
    BY <1>5 DEF EndEvaluate
  <2>3. \A d \in requests : Deciding(d)' => d # p /\ Deciding(d) /\ work'[d] = work[d]
    BY <2>2 DEF TypeOK
  <2>4. \A d \in requests : Deciding(d) => work[d].plan \in Evaluation
    OBVIOUS
  <2> QED
    BY <2>1, <2>3, <2>4
<1>6. ASSUME NEW d \in Decider, NEW t \in Trip, NEW p \in Evaluation, NEW action \in DispatchAction,
             BeginDecide(d, t, p, action)
      PROVE  DecisionInv'
  <2>1. PICK route \in {plan[p].primary, {}} \cup plan[p].alternatives :
            work' = [work EXCEPT ![d] = [trip |-> t, plan |-> p, action |-> action,
                        route |-> route, version |-> counter[Live], seen |-> None]]
    BY <1>6 DEF BeginDecide
  <2>2. /\ work'[d] = [trip |-> t, plan |-> p, action |-> action, route |-> route,
                       version |-> counter[Live], seen |-> None]
        /\ \A r \in requests : r # d => work'[r] = work[r] /\ pc'[r] = pc[r]
        /\ plan' = plan
    BY <1>6, <2>1 DEF BeginDecide, network, TypeOK
  <2>3. plan[p] # None /\ ~ (plan[p].version < counter[Live])
    BY <1>6 DEF BeginDecide, Found, Stale
  <2>4. /\ counter[Live] \in Nat /\ plan[p] \in RoutePlan
        /\ plan[p].version \in Nat /\ route \in SUBSET Edge
    BY <2>1, <2>3, LiveIsLatest DEF TypeOK, RoutePlan
  <2> QED
    BY <2>1, <2>2, <2>3, <2>4
<1>7. ASSUME NEW d \in Decider, ReadTrip(d)
      PROVE  DecisionInv'
  <2>1. trip[work[d].trip].status \in TripStatus
    BY <1>7 DEF ReadTrip, TypeOK
  <2> QED
    BY <1>7, <2>1 DEF ReadTrip, network, TypeOK
<1>8. ASSUME NEW d \in Decider, EndDecide(d)
      PROVE  DecisionInv'
  BY <1>8 DEF EndDecide, network, TypeOK
<1>9. ASSUME NEW t \in Trip, TripMoves(t)
      PROVE  DecisionInv'
  BY <1>9 DEF TripMoves, network
<1>10. CASE UNCHANGED vars
  BY <1>10 DEF vars, network
<1>11. ASSUME NEW p \in Evaluation, ReadEdges(p)
      PROVE  DecisionInv'
  BY <1>11 DEF ReadEdges, network, TypeOK
<1> QED
  BY <1>1, <1>2, <1>3, <1>4, <1>5, <1>6, <1>7, <1>8, <1>9, <1>10, <1>11 DEF Next

\* A change of status leaves every version read before behind the counter, and a
\* plan stored now was computed from the statuses of now.
LEMMA CurrentStep ==
    ASSUME TypeOK, NetworkInv, EvaluationInv, PlanInv, StoredRoutesLead, CurrentPlansAreUsable,
           [Next]_vars
    PROVE  StoredRoutesLead' /\ CurrentPlansAreUsable'
<1> USE DEF StoredRoutesLead, CurrentPlansAreUsable, Current, Routes, Own, Usable
<1>1. ASSUME NEW e \in Edge, NEW s \in Status, DeclareStatus(e, s)
      PROVE  StoredRoutesLead' /\ CurrentPlansAreUsable'
  <2>1. plan' = plan
    BY <1>1 DEF DeclareStatus
  <2>2. \A n \in Network : counter[n] > 0 => counter'[n] = counter[n] + 1
    BY <1>1 DEF DeclareStatus, Bumped
  <2>3. \A p \in Evaluation : plan[p] # None => plan[p].version < counter'[plan[p].network]
    BY <2>2 DEF PlanInv, TypeOK, RoutePlan
  <2>4. \A p \in Evaluation : plan[p] # None => plan[p].version # counter'[plan[p].network]
    BY <2>2, <2>3 DEF PlanInv, TypeOK, RoutePlan
  <2> QED
    BY <2>1, <2>4
<1>2. ASSUME NEW n \in Network, ImportNetwork(n)
      PROVE  StoredRoutesLead' /\ CurrentPlansAreUsable'
  <2>1. \A p \in Evaluation : plan[p] # None => counter'[plan[p].network] = counter[plan[p].network]
    BY <1>2 DEF ImportNetwork, PlanInv, TypeOK, RoutePlan
  <2> QED
    BY <1>2, <2>1 DEF ImportNetwork
<1>3. ASSUME NEW p \in Evaluation, EndEvaluate(p)
      PROVE  StoredRoutesLead' /\ CurrentPlansAreUsable'
  <2>1. counter' = counter /\ status' = status
    BY <1>3 DEF EndEvaluate, network
  <2>2. /\ \A route \in Routes(p)' : Own(p, route)' \in Path
        /\ Current(p)' => \A route \in Routes(p)' : Usable(Own(p, route)', plan'[p].critical)
    <3> HIDE DEF Routes, Own, Usable
    <3>1. Current(p)' => work[p].version = counter[work[p].network]
      BY <1>3, <2>1, StoredPlan
    <3>2. \A route \in Routes(p)' : Own(p, route)' \in Path
      BY <1>3, StoredPlan
    <3>3. Current(p)' => \A route \in Routes(p)' :
              /\ work[p].version = counter[work[p].network] => Usable(Own(p, route)', plan'[p].critical)
              /\ work[p].version = counter[work[p].network]
      BY <1>3, <3>1, StoredPlan
    <3> QED
      BY <2>1, <3>2, <3>3 DEF Usable
  <2>3. \A q \in Evaluation : q # p => plan'[q] = plan[q]
    BY <1>3, StoredPlan
  <2>4. ASSUME NEW q \in Evaluation, q # p
        PROVE  /\ Routes(q)' = Routes(q) /\ (Current(q)' <=> Current(q))
               /\ \A route : Own(q, route)' = Own(q, route)
               /\ plan'[q] = plan[q]
    BY <2>1, <2>3, <2>4
  <2>5. ASSUME NEW q \in Evaluation, plan'[q] # None
        PROVE  /\ \A route \in Routes(q)' : Own(q, route)' \in Path
               /\ Current(q)' => \A route \in Routes(q)' : Usable(Own(q, route)', plan'[q].critical)
    <3>1. CASE q = p
      <4> HIDE DEF Routes, Own
      <4> QED
        BY <2>1, <2>2, <3>1
    <3>2. CASE q # p
      <4>1. plan[q] # None
        BY <2>4, <2>5, <3>2
      <4>2. /\ \A route \in Routes(q) : Own(q, route) \in Path
            /\ Current(q) => \A route \in Routes(q) : Usable(Own(q, route), plan[q].critical)
        BY <4>1
      <4> HIDE DEF Routes, Own, Current
      <4> QED
        BY <2>1, <2>4, <3>2, <4>2
    <3> QED
      BY <3>1, <3>2
  <2> HIDE DEF Routes, Own
  <2> QED
    BY <2>1, <2>5
<1>4. CASE UNCHANGED <<network, plan>>
  BY <1>4 DEF network
<1> QED
  BY <1>1, <1>2, <1>3, <1>4
  DEF Next, Tick, BeginEvaluate, ReadEdges, BeginDecide, ReadTrip, EndDecide, TripMoves, vars

-----------------------------------------------------------------------------
\* The invariant holds in every state.
LEMMA Inductive == Spec => []IInv
<1>1. Init => IInv
  BY InitEstablishes
<1>2. IInv /\ [Next]_vars => IInv'
  BY TypeStep, NetworkStep, EvaluationStep, PlanStep, DecisionStep, CurrentStep DEF IInv
<1> QED
  BY <1>1, <1>2, PTL DEF Spec

\* Stored routes lead to their destination, and a plan whose version is still its
\* network's avoids every road of it closed now, whenever the statuses changed while
\* it was computed and whichever network versions were imported before or since.
THEOREM RoutesCorrect == Spec => []RoutesAreSound
<1>1. IInv => RoutesAreSound
  BY DEF IInv, RoutesAreSound
<1> QED
  BY <1>1, Inductive, PTL

\* Comparing two versions is enough to dispatch by a plan computed earlier: if
\* the live version is still the one compared when the decision is recorded, the
\* roads of the live network on its route are usable then.
THEOREM DispatchIsFresh == Spec => DecisionsAreFresh
<1> DEFINE Fresh(d) ==
        decision'[d] # decision[d] =>
            LET w == work[d] IN
            plan[w.plan].network = Live /\ counter[Live] = w.version
            => Usable(Own(w.plan, w.route), plan[w.plan].critical)
<1>1. IInv /\ [Next]_vars => [\A d \in Decider : Fresh(d)]_vars
  <2> SUFFICES ASSUME IInv, [Next]_vars, NEW d \in Decider, decision'[d] # decision[d],
                      plan[work[d].plan].network = Live, counter[Live] = work[d].version
               PROVE  Usable(Own(work[d].plan, work[d].route), plan[work[d].plan].critical)
    OBVIOUS
  <2> USE DEF IInv
  <2>1. EndDecide(d)
    BY DEF Next, Tick, DeclareStatus, ImportNetwork, BeginEvaluate, ReadEdges, EndEvaluate, BeginDecide,
           ReadTrip, EndDecide, TripMoves, vars, TypeOK
  <2>2. d \in requests /\ Deciding(d)
    BY <2>1 DEF EndDecide, Deciding, requests
  <2> DEFINE p == work[d].plan
  <2>3. /\ p \in Evaluation /\ plan[p] # None
        /\ work[d].version \in Nat /\ work[d].version <= plan[p].version
        /\ work[d].route \in {plan[p].primary, {}} \cup plan[p].alternatives
    BY <2>2 DEF DecisionInv, DecisionWork
  <2>4. plan[p] \in RoutePlan /\ plan[p].version <= counter[plan[p].network]
    BY <2>3 DEF TypeOK, PlanInv
  <2>5. plan[p].version = counter[plan[p].network]
    <3>1. counter[plan[p].network] = work[d].version
      OBVIOUS
    <3>2. plan[p].version \in Nat
      BY <2>4 DEF RoutePlan
    <3> HIDE DEF p
    <3> QED
      BY <2>3, <2>4, <3>1, <3>2
  <2>6. work[d].route = {} \/ work[d].route \in Routes(p)
    <3>1. plan[p].primary = {} <=> plan[p].result = "NO_FEASIBLE_PATH"
      BY <2>3 DEF TypeOK
    <3>2. plan[p].result = "NO_FEASIBLE_PATH" => plan[p].alternatives = {}
      BY <2>3 DEF PlanInv
    <3>3. plan[p].result \in RouteResult
      BY <2>4 DEF RoutePlan
    <3> QED
      BY <2>3, <3>1, <3>2, <3>3 DEF Routes, RouteResult
  <2> QED
    BY <2>3, <2>5, <2>6 DEF CurrentPlansAreUsable, Current, Usable, Own
<1> QED
  BY <1>1, Inductive, PTL DEF Spec, DecisionsAreFresh

\* The first network version stays a StatusBoard, whose readers may rely on its
\* counter, while later versions are imported beside it and counted with it.
THEOREM FirstNetworkImplementsBoard == Spec => FirstNetworkIsABoard
<1>1. Init => FirstBoard!Init
  BY FirstIsLeast, RouteAssumption DEF Init, FirstBoard!Init
<1>2. IInv /\ IInv' /\ [Next]_vars => [FirstBoard!Declare]_(FirstBoard!board)
  <2> SUFFICES ASSUME IInv, IInv', [Next]_vars
               PROVE  FirstBoard!Declare \/ UNCHANGED FirstBoard!board
    OBVIOUS
  <2> USE DEF IInv
  <2>1. First \in Network /\ counter[First] > 0 /\ EdgesOf[First] \subseteq Edge
    BY FirstIsLeast, RouteAssumption DEF NetworkInv
  <2>2. ASSUME NEW e \in Edge, NEW s \in Status, DeclareStatus(e, s)
        PROVE  FirstBoard!Declare
    <3>1. counter'[First] = counter[First] + 1
      BY <2>1, <2>2 DEF DeclareStatus, Bumped
    <3>2. counter[First] \in Nat
      BY <2>1 DEF TypeOK
    <3>3. [x \in EdgesOf[First] |-> status'[x]] \in [EdgesOf[First] -> Status]
      BY <2>1 DEF TypeOK
    <3> QED
      BY <3>1, <3>2, <3>3 DEF FirstBoard!Declare, First
  <2>3. ASSUME NEW n \in Network, ImportNetwork(n)
        PROVE  UNCHANGED FirstBoard!board
    <3>1. counter'[First] = counter[First] /\ status' = status
      BY <2>1, <2>3 DEF ImportNetwork, TypeOK
    <3> QED
      BY <3>1 DEF FirstBoard!board, First
  <2>4. ASSUME UNCHANGED network
        PROVE  UNCHANGED FirstBoard!board
    BY <2>4 DEF network, FirstBoard!board, First
  <2> QED
    BY <2>2, <2>3, <2>4
    DEF Next, Tick, BeginEvaluate, ReadEdges, EndEvaluate, BeginDecide, ReadTrip, EndDecide, TripMoves, vars
<1> QED
  BY <1>1, <1>2, Inductive, PTL DEF Spec, FirstNetworkIsABoard, FirstBoard!Spec

-----------------------------------------------------------------------------
(***************************************************************************)
(* Proofs about CoordinationLog, the log of what officers decided about    *)
(* incidents and facilities: a completed inspection was asked for, and     *)
(* inspections of a subject alternate unless two requests about it were    *)
(* judged at once or its log outgrew what a request reads.                 *)
(*                                                                         *)
(* The argument: the row is inserted after the history was read, but as    *)
(* long as nobody else is judged for the subject its log cannot move, so   *)
(* the judgement still holds at the insert.                                *)
(***************************************************************************)

\* The coordination service on its own.
LogSpec == LogInit /\ [][LogNext]_logVars

Judging(c) == logCall[c].pc = "judged"
LogOf(subject) == {a \in actionLog : a.subject = subject}

\* Requests of a subject that a later completion answers.
AllAnswered(subject) ==
  \A r \in LogOf(subject) : r.action = "REQUEST_INSPECTION" =>
    \E d \in LogOf(subject) : d.action = "INSPECTION_COMPLETE" /\ d.createdAt > r.createdAt

\* The log is finite and its instants are distinct.
StampsInv ==
  /\ IsFiniteSet(actionLog)
  /\ \A a, b \in actionLog : a.createdAt = b.createdAt => a = b
  /\ logClock \in Nat

\* What a request was judged by is still so when it is recorded: a completion
\* has its request, and unless the subject was raced nobody else writes about it.
JudgementInv ==
  \A c \in LogCalls : Judging(c) =>
    /\ logCall[c].action = "INSPECTION_COMPLETE" =>
         \E r \in LogOf(logCall[c].subject) : r.action = "REQUEST_INSPECTION"
    /\ logCall[c].subject \notin logRaced =>
         /\ \A d \in LogCalls : Judging(d) /\ logCall[d].subject = logCall[c].subject => d = c
         /\ /\ logCall[c].action = "REQUEST_INSPECTION"
            /\ Cardinality(LogOf(logCall[c].subject)) <= MaxActionsRead
            => AllAnswered(logCall[c].subject)

LogInv == InspectionsAreOrderly /\ StampsInv /\ JudgementInv

\* The empty log satisfies it.
LEMMA LogBegins == LogInit => LogInv
<1> SUFFICES ASSUME LogInit PROVE LogInv
  OBVIOUS
<1> USE DEF LogInit
<1>1. LogTypeOK /\ CompletionsHaveRequests /\ InspectionsAlternate
  BY DEF LogTypeOK, CompletionsHaveRequests, InspectionsAlternate
<1>2. StampsInv
  BY FS_EmptySet DEF StampsInv
<1>3. JudgementInv
  BY DEF JudgementInv, Judging, NoCall
<1> QED
  BY <1>1, <1>2, <1>3 DEF LogInv, InspectionsAreOrderly

\* The log of a subject is finite, so a request that may read as many rows as
\* there are reads them all.
LEMMA HistoryIsComplete ==
  ASSUME StampsInv, LogTypeOK, NEW subject
  PROVE  /\ IsFiniteSet(LogOf(subject)) /\ Cardinality(LogOf(subject)) \in Nat
         /\ History(subject) \subseteq LogOf(subject)
         /\ Cardinality(LogOf(subject)) <= MaxActionsRead
            => History(subject) = LogOf(subject)
<1> DEFINE newer(a) == {b \in LogOf(subject) : b.createdAt > a.createdAt}
<1>1. IsFiniteSet(LogOf(subject))
  BY FS_Subset DEF StampsInv, LogOf
<1>2. Cardinality(LogOf(subject)) \in Nat
  BY <1>1, FS_CardinalityType
<1>3. History(subject) = {a \in LogOf(subject) : Cardinality(newer(a)) < MaxActionsRead}
  BY DEF History, LogOf
<1>4. ASSUME NEW a \in LogOf(subject), Cardinality(LogOf(subject)) <= MaxActionsRead
      PROVE  Cardinality(newer(a)) < MaxActionsRead
  <2>1. a \notin newer(a)
    <3>1. a.createdAt \in Nat
      BY DEF LogOf, LogTypeOK, Action
    <3> QED
      BY <3>1
  <2>2. newer(a) \subseteq LogOf(subject) \ {a} /\ a \in LogOf(subject)
    BY <1>4, <2>1
  <2> HIDE DEF newer
  <2>3. /\ IsFiniteSet(LogOf(subject) \ {a})
        /\ Cardinality(LogOf(subject) \ {a}) = Cardinality(LogOf(subject)) - 1
    BY <1>1, <2>2, FS_RemoveElement
  <2>4. /\ IsFiniteSet(newer(a))
        /\ Cardinality(newer(a)) <= Cardinality(LogOf(subject) \ {a})
    BY <2>2, <2>3, FS_Subset
  <2>5. Cardinality(newer(a)) \in Nat
    BY <2>4, FS_CardinalityType
  <2> QED
    BY <1>2, <1>4, <2>3, <2>4, <2>5, LogAssumption
<1> QED
  BY <1>1, <1>2, <1>3, <1>4

\* The reading and judging of the history.
LEMMA JudgeKeepsLog ==
  ASSUME LogInv, NEW c \in LogCalls, Judge(c)
  PROVE  LogInv'
<1> USE DEF LogInv, InspectionsAreOrderly
<1>1. PICK subject \in Subjects, action \in ActionType :
        /\ MakesSense(action, InspectionStatus(History(subject)))
        /\ logCall' = [logCall EXCEPT ![c] =
                         [pc |-> "judged", subject |-> subject, action |-> action]]
        /\ logRaced' = IF \E d \in LogCalls \ {c} :
                           logCall[d].pc = "judged" /\ logCall[d].subject = subject
                       THEN logRaced \union {subject} ELSE logRaced
  BY DEF Judge
<1>2. UNCHANGED <<actionLog, logClock>> /\ logRaced \subseteq logRaced'
  BY <1>1 DEF Judge
<1>3. /\ Judging(c)' /\ logCall'[c].subject = subject /\ logCall'[c].action = action
      /\ \A d \in LogCalls : d # c => logCall'[d] = logCall[d]
  BY <1>1 DEF LogTypeOK, Judging
<1>4. \A s : LogOf(s)' = LogOf(s) /\ (AllAnswered(s)' <=> AllAnswered(s))
  BY <1>2 DEF LogOf, AllAnswered
<1>5. action = "INSPECTION_COMPLETE" =>
        \E r \in LogOf(subject) : r.action = "REQUEST_INSPECTION"
  <2> SUFFICES ASSUME action = "INSPECTION_COMPLETE"
               PROVE  \E r \in LogOf(subject) : r.action = "REQUEST_INSPECTION"
    OBVIOUS
  <2>1. InspectionStatus(History(subject)) = "REQUESTED"
    BY <1>1 DEF MakesSense
  <2>2. {a \in History(subject) : a.action = "REQUEST_INSPECTION"} # {}
    BY <2>1 DEF InspectionStatus
  <2> QED
    BY <2>2, HistoryIsComplete
<1>6. action = "REQUEST_INSPECTION" /\ Cardinality(LogOf(subject)) <= MaxActionsRead
      => AllAnswered(subject)
  <2> SUFFICES ASSUME action = "REQUEST_INSPECTION",
                      Cardinality(LogOf(subject)) <= MaxActionsRead
               PROVE  AllAnswered(subject)
    OBVIOUS
  <2>1. History(subject) = LogOf(subject)
    BY HistoryIsComplete
  <2>2. InspectionStatus(LogOf(subject)) # "REQUESTED"
    BY <1>1, <2>1 DEF MakesSense
  <2> QED
    BY <2>2 DEF InspectionStatus, AllAnswered
<1>7. LogTypeOK'
  <2>1. [pc |-> "judged", subject |-> subject, action |-> action] \in Request
    BY DEF Request
  <2>2. logCall' \in [LogCalls -> {NoCall} \union Request]
    BY <1>1, <2>1 DEF LogTypeOK
  <2>3. logRaced' \subseteq Subjects
    BY <1>1 DEF LogTypeOK
  <2> QED
    BY <1>2, <2>2, <2>3 DEF LogTypeOK
<1>8. StampsInv'
  BY <1>2 DEF StampsInv
<1>9. JudgementInv'
  <2> SUFFICES ASSUME NEW b \in LogCalls, Judging(b)'
               PROVE  /\ logCall'[b].action = "INSPECTION_COMPLETE" =>
                           \E r \in LogOf(logCall'[b].subject) : r.action = "REQUEST_INSPECTION"
                      /\ logCall'[b].subject \notin logRaced' =>
                           /\ \A d \in LogCalls : Judging(d)' /\ logCall'[d].subject = logCall'[b].subject => d = b
                           /\ /\ logCall'[b].action = "REQUEST_INSPECTION"
                              /\ Cardinality(LogOf(logCall'[b].subject)) <= MaxActionsRead
                              => AllAnswered(logCall'[b].subject)
    BY <1>4 DEF JudgementInv
  <2>1. \A d \in LogCalls : d # c => (Judging(d)' <=> Judging(d))
    BY <1>3 DEF Judging
  <2>2. \A d \in LogCalls : d # c /\ Judging(d) /\ logCall[d].subject = subject
          => subject \in logRaced'
    BY <1>1 DEF Judging
  <2>3. CASE b = c
    BY <1>3, <1>5, <1>6, <2>1, <2>2, <2>3
  <2>4. CASE b # c
    <3>1. Judging(b) /\ logCall'[b] = logCall[b]
      BY <1>3, <2>1, <2>4
    <3>2. logCall[b].subject \notin logRaced' => logCall[b].subject \notin logRaced
      BY <1>2
    <3>3. logCall[b].subject \notin logRaced' =>
            \A d \in LogCalls : Judging(d)' /\ logCall'[d].subject = logCall[b].subject => d = b
      BY <1>3, <2>1, <2>2, <2>4, <3>1, <3>2 DEF JudgementInv
    <3> QED
      BY <3>1, <3>2, <3>3 DEF JudgementInv
  <2> QED
    BY <2>3, <2>4
<1>10. CompletionsHaveRequests' /\ InspectionsAlternate'
  BY <1>2 DEF CompletionsHaveRequests, InspectionsAlternate, Before
<1> QED
  BY <1>7, <1>8, <1>9, <1>10

\* The insert of the record and the commit.
LEMMA RecordKeepsLog ==
  ASSUME LogInv, NEW c \in LogCalls, Record(c)
  PROVE  LogInv'
<1> USE DEF LogInv, InspectionsAreOrderly
<1> DEFINE new == Stamped(c)
<1>1. /\ Judging(c) /\ actionLog' = actionLog \union {new}
      /\ logClock' = logClock + 1 /\ logRaced' = logRaced
      /\ logCall' = [logCall EXCEPT ![c] = NoCall]
  BY DEF Record, Judging
<1>2. logCall[c] \in Request /\ logClock \in Nat
  BY <1>1 DEF LogTypeOK, Judging, NoCall, StampsInv
<1> PICK subject \in Subjects : logCall[c].subject = subject
  BY <1>2 DEF Request
<1> PICK n \in Action : n = new
  BY <1>2 DEF Stamped, Action, Request
<1>3. /\ n = new /\ n.by = c /\ n.subject = subject
      /\ n.action = logCall[c].action /\ n.createdAt = logClock
  BY <1>2 DEF Stamped, Action, Request
<1> HIDE DEF new
<1>4. /\ \A a \in actionLog : a \in Action /\ a.createdAt \in Nat /\ a.createdAt < logClock
      /\ n \notin actionLog
  BY <1>2, <1>3 DEF LogTypeOK, Action
<1>5. /\ ~Judging(c)'
      /\ \A d \in LogCalls : d # c => logCall'[d] = logCall[d] /\ (Judging(d)' <=> Judging(d))
  BY <1>1 DEF LogTypeOK, Judging, NoCall
<1>6. /\ LogOf(subject)' = LogOf(subject) \union {n}
      /\ \A s : s # subject => LogOf(s)' = LogOf(s)
      /\ \A s : LogOf(s) \subseteq LogOf(s)'
  BY <1>1, <1>3 DEF LogOf
<1>7. LogTypeOK'
  <2>1. \A a \in actionLog' : a \in Action /\ a.createdAt < logClock'
    BY <1>1, <1>2, <1>3, <1>4
  <2>2. logCall' \in [LogCalls -> {NoCall} \union Request]
    BY <1>1 DEF LogTypeOK
  <2> QED
    BY <1>1, <2>1, <2>2 DEF LogTypeOK
<1>8. StampsInv'
  <2>1. IsFiniteSet(actionLog')
    BY <1>1, FS_AddElement DEF StampsInv
  <2>2. \A a, b \in actionLog' : a.createdAt = b.createdAt => a = b
    BY <1>1, <1>2, <1>3, <1>4 DEF StampsInv
  <2> QED
    BY <1>1, <1>2, <2>1, <2>2 DEF StampsInv
<1>9. JudgementInv'
  <2> SUFFICES ASSUME NEW b \in LogCalls, Judging(b)', NEW s \in Subjects,
                      s = logCall'[b].subject
               PROVE  /\ logCall'[b].action = "INSPECTION_COMPLETE" =>
                           \E r \in LogOf(s)' : r.action = "REQUEST_INSPECTION"
                      /\ s \notin logRaced' =>
                           /\ \A d \in LogCalls : Judging(d)' /\ logCall'[d].subject = s => d = b
                           /\ /\ logCall'[b].action = "REQUEST_INSPECTION"
                              /\ Cardinality(LogOf(s)') <= MaxActionsRead
                              => AllAnswered(s)'
    <3>1. ASSUME NEW b \in LogCalls, Judging(b)' PROVE logCall'[b].subject \in Subjects
      BY <1>7, <3>1 DEF LogTypeOK, Judging, NoCall, Request
    <3> QED
      BY <3>1 DEF JudgementInv, LogOf, AllAnswered
  <2>1. b # c /\ Judging(b) /\ logCall'[b] = logCall[b] /\ s = logCall[b].subject
    BY <1>5
  <2>2. s \notin logRaced => s # subject
    BY <1>1, <2>1 DEF JudgementInv
  <2>3. s \notin logRaced => LogOf(s)' = LogOf(s)
    BY <1>6, <2>2
  <2>4. s \notin logRaced => (AllAnswered(s)' <=> AllAnswered(s))
    BY <2>3 DEF AllAnswered
  <2>5. s \notin logRaced =>
           \A d \in LogCalls : Judging(d)' /\ logCall'[d].subject = s => d = b
    BY <1>5, <2>1 DEF JudgementInv
  <2>6. logCall[b].action = "INSPECTION_COMPLETE" =>
           \E r \in LogOf(s)' : r.action = "REQUEST_INSPECTION"
    BY <1>6, <2>1 DEF JudgementInv
  <2>7. s \notin logRaced /\ logCall[b].action = "REQUEST_INSPECTION"
        /\ Cardinality(LogOf(s)) <= MaxActionsRead => AllAnswered(s)
    BY <2>1 DEF JudgementInv
  <2> QED
    BY <1>1, <2>1, <2>3, <2>4, <2>5, <2>6, <2>7
<1>10. CompletionsHaveRequests'
  <2> SUFFICES ASSUME NEW d \in actionLog', d.action = "INSPECTION_COMPLETE"
               PROVE  \E r \in actionLog' : r.action = "REQUEST_INSPECTION" /\ Before(r, d)
    BY DEF CompletionsHaveRequests, Before
  <2>1. CASE d \in actionLog
    BY <1>1, <2>1 DEF CompletionsHaveRequests
  <2>2. CASE d = n
    <3>1. PICK r \in LogOf(subject) : r.action = "REQUEST_INSPECTION"
      BY <1>1, <1>3, <2>2 DEF JudgementInv
    <3>2. r \in actionLog /\ r.subject = subject
      BY <3>1 DEF LogOf
    <3> QED
      BY <1>1, <1>3, <1>4, <2>2, <3>1, <3>2 DEF Before
  <2> QED
    BY <1>1, <2>1, <2>2
<1>11. InspectionsAlternate'
  <2> SUFFICES ASSUME NEW r \in actionLog', NEW s \in actionLog',
                      r.action = "REQUEST_INSPECTION", s.action = "REQUEST_INSPECTION",
                      Before(r, s), r.subject \notin logRaced,
                      Cardinality(LogOf(r.subject)') <= MaxActionsRead + 1
               PROVE  \E d \in actionLog' : d.action = "INSPECTION_COMPLETE"
                                            /\ Before(r, d) /\ Before(d, s)
    BY <1>1 DEF InspectionsAlternate, LogOf, Before
  <2>1. IsFiniteSet(LogOf(r.subject)) /\ Cardinality(LogOf(r.subject)) \in Nat
    BY HistoryIsComplete
  <2>2. r # n
    BY <1>1, <1>2, <1>3, <1>4 DEF Before
  <2>3. r \in actionLog
    BY <1>1, <2>2
  <2>4. CASE s \in actionLog
    <3>1. Cardinality(LogOf(r.subject)) <= MaxActionsRead + 1
      <4>1. IsFiniteSet(LogOf(r.subject)')
        BY <1>6, <2>1, FS_AddElement, FS_Subset
      <4>2. Cardinality(LogOf(r.subject)) <= Cardinality(LogOf(r.subject)')
        BY <1>6, <4>1, FS_Subset
      <4>3. Cardinality(LogOf(r.subject)') \in Nat
        BY <4>1, FS_CardinalityType
      <4> QED
        BY <2>1, <4>2, <4>3, LogAssumption
    <3> QED
      BY <1>1, <2>3, <2>4, <3>1 DEF InspectionsAlternate, LogOf
  <2>5. CASE s = n
    <3>1. r.subject = subject /\ logCall[c].action = "REQUEST_INSPECTION"
      BY <1>3, <2>5 DEF Before
    <3>2. n \notin LogOf(subject)
      BY <1>4 DEF LogOf
    <3>3. Cardinality(LogOf(subject)') = Cardinality(LogOf(subject)) + 1
      <4>1. PICK L : L = LogOf(subject) /\ IsFiniteSet(L) /\ n \notin L
        BY <2>1, <3>1, <3>2
      <4>2. LogOf(subject)' = L \cup {n}
        BY <1>6, <4>1
      <4>3. Cardinality(L \cup {n}) = Cardinality(L) + 1
        BY <4>1, FS_AddElement
      <4> QED
        BY <4>1, <4>2, <4>3
    <3>4. Cardinality(LogOf(subject)) <= MaxActionsRead
      BY <2>1, <3>1, <3>3, LogAssumption
    <3>5. AllAnswered(subject)
      BY <1>1, <3>1, <3>4 DEF JudgementInv
    <3>6. PICK d \in LogOf(subject) : d.action = "INSPECTION_COMPLETE" /\ d.createdAt > r.createdAt
      BY <2>3, <3>1, <3>5 DEF AllAnswered, LogOf
    <3>7. d \in actionLog /\ d.subject = subject
      BY <3>6 DEF LogOf
    <3> QED
      BY <1>1, <1>2, <1>3, <1>4, <2>3, <2>5, <3>1, <3>6, <3>7 DEF Before
  <2> QED
    BY <1>1, <2>4, <2>5
<1> QED
  BY <1>7, <1>8, <1>9, <1>10, <1>11

\* The rollback, and a step of something else.
LEMMA FailKeepsLog ==
  ASSUME LogInv, (\E c \in LogCalls : Fail(c)) \/ UNCHANGED logVars
  PROVE  LogInv'
<1> USE DEF LogInv, InspectionsAreOrderly
<1>1. /\ UNCHANGED <<actionLog, logClock, logRaced>>
      /\ logCall' \in [LogCalls -> {NoCall} \union Request]
      /\ \A d \in LogCalls : Judging(d)' => Judging(d) /\ logCall'[d] = logCall[d]
  <2>1. ASSUME NEW c \in LogCalls, Fail(c) PROVE <1>1
    BY <2>1 DEF Fail, LogTypeOK, Judging, NoCall
  <2>2. CASE UNCHANGED logVars
    BY <2>2 DEF logVars, LogTypeOK, Judging
  <2> QED
    BY <2>1, <2>2
<1>2. \A s : LogOf(s)' = LogOf(s) /\ (AllAnswered(s)' <=> AllAnswered(s))
  BY <1>1 DEF LogOf, AllAnswered
<1>3. LogTypeOK' /\ StampsInv'
  BY <1>1 DEF LogTypeOK, StampsInv
<1>4. JudgementInv'
  BY <1>1, <1>2 DEF JudgementInv
<1>5. CompletionsHaveRequests' /\ InspectionsAlternate'
  BY <1>1 DEF CompletionsHaveRequests, InspectionsAlternate, Before
<1> QED
  BY <1>3, <1>4, <1>5

\* Whatever requests overlap and fail, a completion follows a request, and two
\* requests of a subject that was not raced have a completion between them
\* (RecordCoordinationActionUseCase).
THEOREM InspectionsCorrect == LogSpec => []InspectionsAreOrderly
<1>1. LogInv /\ [LogNext]_logVars => LogInv'
  BY JudgeKeepsLog, RecordKeepsLog, FailKeepsLog DEF LogNext
<1>2. LogInv => InspectionsAreOrderly
  BY DEF LogInv
<1> QED
  BY <1>1, <1>2, LogBegins, PTL DEF LogSpec
=============================================================================
