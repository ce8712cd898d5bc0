-------------------------- MODULE DispatchPlanning --------------------------
(***************************************************************************)
(* The multi-stop dispatch planner: commitments become stops, the solver   *)
(* assigns them to vehicles within the capacities, dropping what does not  *)
(* fit, and the plan is read out of its solution node by node.  The solver *)
(* counts whole kilograms; weights here are tenths of them.  It searches   *)
(* for a limited time, so any assignment within the capacities may come    *)
(* back, and none at all.                                                  *)
(***************************************************************************)
EXTENDS Naturals, Sequences, FiniteSets, SequencesExt, Functions

CONSTANTS
  StopCount,    \* commitments in the request
  VehicleCount, \* vehicles in the request
  Demands,      \* weights a commitment may have
  Capacities    \* maximum weights a vehicle may carry

ASSUME PlanningAssumption ==
  /\ StopCount \in Nat \ {0} /\ VehicleCount \in Nat \ {0}
  /\ Demands \subseteq Nat /\ Capacities \subseteq Nat

(* Node 0 is the depot, node i the i-th stop.                               *)
Stops == 1..StopCount
Fleet == 1..VehicleCount
Nothing == 0

VARIABLES
  demand,    \* weight of each stop
  capacity,  \* of each vehicle
  solution,  \* the nodes each vehicle visits, in order, or none found
  plan       \* the routes read out so far, and the stops left over

planningVars == <<demand, capacity, solution, plan>>

Unsolved == [found |-> FALSE, tours |-> << >>]
NoPlanYet == [pc |-> "solving"]

PlanningInit ==
  /\ demand \in [Stops -> Demands]
  /\ capacity \in [Fleet -> Capacities]
  /\ solution = Unsolved
  /\ plan = NoPlanYet

-----------------------------------------------------------------------------
(* The solver's data: fractions of a kilogram are cut off.                  *)
Whole(weight) == weight \div 10

(* Mutated form of DemandAt: the depot's zero is not put in front.          *)
DemandAtShifted(node) == IF node = StopCount THEN 0 ELSE Whole(demand[node + 1])

DemandAt(node) == Whole(demand[node])

Load(tour) == FoldFunction(LAMBDA m, n : m + n, 0, [i \in DOMAIN tour |-> DemandAt(tour[i])])

(* The sequences of stops a vehicle may visit, each stop once.              *)
Tours == UNION {SetToSeqs(S) : S \in SUBSET Stops}

(* The tours within the capacities that share no stop.                      *)
Assignments ==
  {t \in [Fleet -> Tours] :
     /\ \A v \in Fleet : Load(t[v]) <= Whole(capacity[v])
     /\ \A v, w \in Fleet : v # w => ToSet(t[v]) \intersect ToSet(t[w]) = {}}

(* The solver answers within its time, or finds nothing.                    *)
Solve ==
  /\ plan = NoPlanYet
  /\ \/ \E t \in Assignments :
          /\ solution' = [found |-> TRUE, tours |-> t]
          /\ plan' = [pc |-> "reading", vehicle |-> 1, routes |-> {}, assigned |-> {}]
     \/ /\ UNCHANGED solution
        /\ plan' = [pc |-> "planned", routes |-> {}, unassigned |-> Stops]
  /\ UNCHANGED <<demand, capacity>>

(* The next vehicle's tour is read; an empty one makes no route.            *)
ReadTour ==
  /\ plan.pc = "reading" /\ plan.vehicle <= VehicleCount
  /\ LET tour == solution.tours[plan.vehicle]
     IN plan' = [plan EXCEPT
          !.vehicle = @ + 1,
          !.assigned = @ \union ToSet(tour),
          !.routes = @ \union (IF tour = << >> THEN {}
                               ELSE {[vehicle |-> plan.vehicle, stops |-> tour]})]
  /\ UNCHANGED <<demand, capacity, solution>>

LeftOver == {s \in Stops : s \notin plan.assigned}

FinishPlan ==
  /\ plan.pc = "reading" /\ plan.vehicle > VehicleCount
  /\ plan' = [pc |-> "planned", routes |-> plan.routes, unassigned |-> LeftOver]
  /\ UNCHANGED <<demand, capacity, solution>>

PlanningNext == Solve \/ ReadTour \/ FinishPlan

-----------------------------------------------------------------------------
(* A plan is being solved, read or has been returned.                       *)
PlanningTypeOK ==
  /\ demand \in [Stops -> Demands] /\ capacity \in [Fleet -> Capacities]
  /\ plan.pc \in {"solving", "reading", "planned"}

(* Every commitment asked for is on exactly one route, once, or reported as *)
(* unassigned, and no vehicle has two routes.                               *)
EveryStopIsPlannedOnce ==
  plan.pc = "planned" =>
    /\ \A s \in Stops :
         Cardinality({v \in plan.routes \X Stops :
                        v[2] \in DOMAIN v[1].stops /\ v[1].stops[v[2]] = s})
           = IF s \in plan.unassigned THEN 0 ELSE 1
    /\ \A q, r \in plan.routes : q.vehicle = r.vehicle => q = r

RealLoad(tour) == FoldFunction(LAMBDA m, n : m + n, 0, [i \in DOMAIN tour |-> demand[tour[i]]])

(* What is cut off is all that can be overloaded: a vehicle carries less    *)
(* than a kilogram per stop above its capacity.                             *)
OverloadIsBelowRounding ==
  plan.pc = "planned" =>
    \A r \in plan.routes :
      RealLoad(r.stops) < capacity[r.vehicle] + 10 * Len(r.stops)

(* A plan has each stop once and fits the vehicles, up to the rounding.     *)
PlansAreSound == PlanningTypeOK /\ EveryStopIsPlannedOnce /\ OverloadIsBelowRounding
=============================================================================
