--------------------------- MODULE FacilityReach ---------------------------
(***************************************************************************)
(* Whether a facility can be supplied.  The use case lists the supply hubs *)
(* among the facilities that a limited, unordered query returns, asks the  *)
(* database for the cheapest path from each of them in turn, each statement*)
(* seeing the statuses committed by then, keeps the cheapest, and compares *)
(* the weight limits along it with the weight to be carried.  Roads may be *)
(* closed and reopened, and network versions imported, between two of its  *)
(* statements.  No statement looks at the version of an edge: routes run   *)
(* over the edges of all of them, and an edge_index, which is unique only  *)
(* within a version, stands for every edge that has it.                    *)
(***************************************************************************)
EXTENDS Naturals, FiniteSets, FiniteSetsExt, Functions

CONSTANTS
  Hubs,         \* the logistics hubs and oxygen plants on the network
  Others,       \* number of the other facilities
  ListLimit,    \* facilities that one query returns at most
  Routes,       \* per hub, the sets of edges that lead to the facility's node index
  NetworkOf,    \* network version of each edge
  IndexOf,      \* edge_index of each edge
  Seconds,      \* of each edge
  WeightLimit,  \* of each edge, in tonnes
  Required      \* tonnes to be carried

Edges == DOMAIN Seconds

(* The path query has no rows for a hub at the facility's own node, so no   *)
(* route is empty.                                                          *)
ASSUME ReachAssumption ==
  /\ IsFiniteSet(Edges)
  /\ \A h \in Hubs : Routes[h] \subseteq (SUBSET Edges) \ {{}}
  /\ Others \in Nat /\ ListLimit \in Nat
  /\ \A e, f \in Edges : NetworkOf[e] = NetworkOf[f] /\ IndexOf[e] = IndexOf[f] => e = f
  /\ \A e \in Edges : Seconds[e] \in Nat \ {0} /\ WeightLimit[e] \in Nat
  /\ Required \in Nat

VARIABLES
  imported,  \* the edges of the network versions imported so far
  blocked,   \* edges whose current status is BLOCKED
  enquiry,   \* the request being served
  seen       \* history: the edges in the table and open when each hub was asked about

reachVars == <<imported, blocked, enquiry, seen>>

NoPath == [edges |-> {}, cost |-> 0]
Path == [edges: SUBSET Edges, cost: Nat]
Waiting == [pc |-> "waiting"]
Asking == [pc: {"asking"}, hubs: SUBSET Hubs, left: SUBSET Hubs, best: Path]
Verdict == {"INSUFFICIENT_DATA", "NO_FEASIBLE_PATH", "RESTRICTED_REACHABLE",
            "REACHABLE", "ERROR"}

ReachInit ==
  /\ imported = {}
  /\ blocked = {}
  /\ enquiry = Waiting
  /\ seen = [h \in Hubs |-> {}]

-----------------------------------------------------------------------------
Cost(route) == FoldFunctionOnSet(LAMBDA m, n : m + n, 0, Seconds, route)

(* Only a status of BLOCKED takes an edge out of the network.               *)
OpenRoads == imported \ blocked

(* Mutated form of Passable: closed roads are not excluded.                 *)
PassableAll(h) == {route \in Routes[h] : route \subseteq imported}

(* The routes of a hub that the query may use.                              *)
Passable(h) == {route \in Routes[h] : route \subseteq OpenRoads}

(* The edges joined to those of a route by their edge_index.                *)
JoinedTo(e) == {f \in imported : IndexOf[f] = IndexOf[e]}
Joined(route) == UNION {JoinedTo(e) : e \in route}

(* The seconds of a step are added up once per edge joined to it.           *)
Charged(route) ==
  FoldFunctionOnSet(LAMBDA m, n : m + n, 0,
                    [e \in Edges |-> Seconds[e] * Cardinality(JoinedTo(e))], route)

(* What the query answers for a cheapest route by pgr_dijkstra; there are   *)
(* no rows without one.                                                     *)
Dijkstra(h) ==
  {[edges |-> Joined(route), cost |-> Charged(route)] :
     route \in {r \in Passable(h) : \A q \in Passable(h) : Cost(r) <= Cost(q)}}

Cheaper(best, path) == IF best = NoPath \/ path.cost < best.cost THEN path ELSE best

Bottlenecks(path) == {e \in path.edges : Required > WeightLimit[e]}

(* What is answered once every hub has been asked about.                    *)
Conclusion(best) ==
  IF best = NoPath THEN "NO_FEASIBLE_PATH"
  ELSE IF Bottlenecks(best) # {} THEN "RESTRICTED_REACHABLE" ELSE "REACHABLE"

-----------------------------------------------------------------------------
(* The hubs among the facilities listed.                                    *)
Listings ==
  LET total  == Cardinality(Hubs) + Others
      length == IF total < ListLimit THEN total ELSE ListLimit
  IN {S \in SUBSET Hubs : Cardinality(S) <= length /\ length <= Cardinality(S) + Others}

(* A request arrives.  An unmapped facility, one too far from the network,  *)
(* or one for which no hub is listed is not evaluated.                      *)
Enquire ==
  /\ enquiry = Waiting
  /\ \E mapped \in BOOLEAN, S \in Listings :
       enquiry' = IF mapped /\ S # {}
                  THEN [pc |-> "asking", hubs |-> S, left |-> S, best |-> NoPath]
                  ELSE [pc |-> "answered", hubs |-> {}, verdict |-> "INSUFFICIENT_DATA",
                        path |-> NoPath]
  /\ seen' = [h \in Hubs |-> {}]
  /\ UNCHANGED <<imported, blocked>>

(* The path from the next hub.                                              *)
AskHub ==
  /\ enquiry.pc = "asking"
  /\ \E h \in enquiry.left :
       /\ seen' = [seen EXCEPT ![h] = OpenRoads]
       /\ \E best \in IF Passable(h) = {} THEN {enquiry.best}
                      ELSE {Cheaper(enquiry.best, path) : path \in Dijkstra(h)} :
            enquiry' = [enquiry EXCEPT !.left = @ \ {h}, !.best = best]
  /\ UNCHANGED <<imported, blocked>>

Answer(outcome, path) ==
  /\ enquiry' = [pc |-> "answered", hubs |-> enquiry.hubs, verdict |-> outcome, path |-> path]
  /\ UNCHANGED <<imported, blocked, seen>>

(* The query raises.  The handler of that calls a logger which the module   *)
(* does not have, so the request ends in the error of the handler.          *)
QueryFails ==
  /\ enquiry.pc = "asking" /\ enquiry.left # {}
  /\ Answer("ERROR", NoPath)

Conclude ==
  /\ enquiry.pc = "asking" /\ enquiry.left = {}
  /\ Answer(Conclusion(enquiry.best), enquiry.best)

Done ==
  /\ enquiry.pc = "answered"
  /\ enquiry' = Waiting
  /\ UNCHANGED <<imported, blocked, seen>>

(* Meanwhile a road is closed or reopened, or a network version imported.   *)
DeclareRoad ==
  /\ \E e \in imported : blocked' \in {blocked \union {e}, blocked \ {e}}
  /\ UNCHANGED <<imported, enquiry, seen>>

ImportNetwork ==
  /\ \E e \in Edges : imported' = imported \union {f \in Edges : NetworkOf[f] = NetworkOf[e]}
  /\ UNCHANGED <<blocked, enquiry, seen>>

ReachNext ==
  \/ Enquire \/ AskHub \/ QueryFails \/ Conclude \/ Done
  \/ DeclareRoad \/ ImportNetwork

-----------------------------------------------------------------------------
(* The request is in one of its phases.                                     *)
ReachTypeOK ==
  /\ imported \subseteq Edges /\ blocked \subseteq Edges
  /\ \/ enquiry = Waiting
     \/ enquiry \in Asking /\ enquiry.left \subseteq enquiry.hubs
     \/ /\ enquiry.pc = "answered" /\ enquiry.hubs \subseteq Hubs
        /\ enquiry.verdict \in Verdict /\ enquiry.path \in Path
  /\ seen \in [Hubs -> SUBSET Edges]

Concluded == enquiry.pc = "answered"

SingleIndexed == \A e, f \in imported : IndexOf[e] = IndexOf[f] => e = f

(* A facility reported as reachable was: some hub had a route open when it  *)
(* was asked about, and the path reported is that route, with the roads of  *)
(* other network versions that share an index with it.  While no roads do,  *)
(* no hub asked about had a cheaper route open.                             *)
ReachableMeansOpen ==
  Concluded /\ enquiry.verdict \in {"REACHABLE", "RESTRICTED_REACHABLE"} =>
    /\ \E h \in enquiry.hubs : \E route \in Routes[h] :
         /\ route \subseteq seen[h] /\ route \subseteq enquiry.path.edges
         /\ \A e \in enquiry.path.edges : \E f \in route : IndexOf[e] = IndexOf[f]
    /\ SingleIndexed => \A h \in enquiry.hubs : \A route \in Routes[h] :
         route \subseteq seen[h] => enquiry.path.cost <= Cost(route)

(* A facility reported as cut off was, from the hubs listed: every route of *)
(* each of them had an edge closed or missing when the hub was asked about. *)
NoPathMeansCutOff ==
  Concluded /\ enquiry.verdict = "NO_FEASIBLE_PATH" =>
    \A h \in enquiry.hubs : \A route \in Routes[h] : ~(route \subseteq seen[h])

(* A path reported without bottlenecks bears the weight on all its edges.   *)
ReachableMeansBearing ==
  Concluded /\ enquiry.verdict = "REACHABLE" =>
    \A e \in enquiry.path.edges : Required <= WeightLimit[e]

(* The verdict on a facility is true of the roads that were open when the   *)
(* hubs were asked about.                                                   *)
ReachabilityIsTrue ==
  ReachTypeOK /\ ReachableMeansOpen /\ NoPathMeansCutOff /\ ReachableMeansBearing
=============================================================================
