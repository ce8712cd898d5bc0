-------------------------- MODULE DisruptionImpact --------------------------
(***************************************************************************)
(* What the impact evaluator does with one event about one road edge: it   *)
(* lists the running trips whose route uses the edge, compares the place   *)
(* of each vehicle with the edge, and writes a versioned impact for each   *)
(* trip that still has to pass, with a verdict per delivery commitment and *)
(* per facility nearby.  Vehicles move, trips end and are rerouted between *)
(* its statements; nothing is visible until the dispatcher commits.        *)
(***************************************************************************)
EXTENDS Naturals, FiniteSets, FiniteSetsExt

CONSTANTS
  Trips,       \* trips, each with a vehicle of its own
  Events,      \* the outbox events about the edge, each handled once
  PlansOf,     \* the route plans computed for each trip
  Through,     \* the plans that use the edge
  Places,      \* where a vehicle can be
  Beyond,      \* per plan that uses the edge, the places at the edge or past it
  Due,         \* per trip, the half hours left to each of its commitments
  Distance     \* of each facility to the edge, in metres

Plans == UNION {PlansOf[t] : t \in Trips}
NoPlan == "none"
Unseen == "unseen"   \* no position of the vehicle is known

ASSUME ImpactAssumption ==
  /\ NoPlan \notin Plans /\ Through \subseteq Plans
  /\ Unseen \notin Places /\ Beyond \in [Through -> SUBSET Places]
  /\ \A t \in Trips : \A c \in DOMAIN Due[t] : Due[t][c] \in Nat
  /\ \A f \in DOMAIN Distance : Distance[f] \in Nat

VARIABLES
  trip,          \* status and current route snapshot of each trip
  position,      \* the last place each vehicle has sent
  tripImpacts,   \* committed rows of the trip impacts on the edge
  facImpacts,    \* committed rows of the facility impacts
  evaluation,    \* the events and their handling
  short,         \* history: of the running trips and their plans at the start,
  cleared        \*   those with the vehicle short of the edge, or beyond it, at
                 \*   some moment of the handling

impactVars == <<trip, position, tripImpacts, facImpacts, evaluation, short, cleared>>

Kinds == {"incident.verified", "BLOCKED", "RESTRICTED", "OPEN"}
Recommendation == {"REROUTE_MANDATORY", "REROUTE_ADVISORY", "PROCEED_WITH_CAUTION"}
SlaStatus == {"ON_TIME", "AT_RISK", "BREACHED"}

(* A trip impact and, with it, the impacts on the commitments of the trip.   *)
IsImpact(i) ==
  /\ i.by \in Events /\ i.trip \in Trips /\ i.version \in Nat \ {0}
  /\ i.isActive \in BOOLEAN /\ i.action \in Recommendation
  /\ i.sla \in [DOMAIN i.sla -> SlaStatus]

FacilityRow == [by: Events, facility: DOMAIN Distance, isolated: BOOLEAN]

ImpactInit ==
  /\ trip = [t \in Trips |-> [status |-> "DISPATCHED", snapshot |-> NoPlan]]
  /\ position = [t \in Trips |-> Unseen]
  /\ tripImpacts = {}
  /\ facImpacts = {}
  /\ evaluation = [e \in Events |-> [pc |-> "published"]]
  /\ short = [e \in Events |-> {}]
  /\ cleared = [e \in Events |-> {}]

-----------------------------------------------------------------------------
(* The route of a trip: its snapshot, or every plan computed for it.        *)
RoutesOf(t) == IF trip[t].snapshot = NoPlan THEN PlansOf[t] ELSE {trip[t].snapshot}

(* Mutated form of Running: a trip that has not left yet is not asked for.  *)
RunningInTransit == {"IN_TRANSIT"}

Running == {"DISPATCHED", "IN_TRANSIT"}

(* The rows of the join of trips, plans and plan edges.                     *)
Rows == {row \in Trips \X Through :
           trip[row[1]].status \in Running /\ row[2] \in RoutesOf(row[1])}

(* One row per trip.                                                        *)
ListedOnce(joined) ==
  {CHOOSE row \in joined : row[1] = t : t \in {row[1] : row \in joined}}

(* What the dispatcher asks the use case for; OPEN and the rest ask nothing. *)
Severity(kind, high) ==
  CASE kind = "incident.verified" -> IF high THEN "CRITICAL" ELSE "MODERATE"
    [] kind = "BLOCKED" -> "CRITICAL"
    [] OTHER -> "HIGH"

Delay(kind) == IF kind = "BLOCKED" THEN 2 ELSE 1

(* What is recommended to a trip that still has to pass.                    *)
Recommended(kind, severity) ==
  IF kind # "RESTRICTED" \/ severity = "CRITICAL" THEN "REROUTE_MANDATORY"
  ELSE IF severity = "HIGH" THEN "REROUTE_ADVISORY" ELSE "PROCEED_WITH_CAUTION"

(* The verdict on a commitment due in so many half hours.                   *)
Sla(due, delay) ==
  IF delay > due THEN "BREACHED" ELSE IF delay + 2 > due THEN "AT_RISK" ELSE "ON_TIME"

Commitments(t) == DOMAIN Due[t]
Verdicts(t, delay) == [c \in Commitments(t) |-> Sla(Due[t][c], delay)]

(* The facilities near the edge, and whether they are cut off.              *)
Near == {f \in DOMAIN Distance : Distance[f] <= 5000}
FacilityImpact(e, f) == [by |-> e, facility |-> f, isolated |-> Distance[f] < 200]
FacilityImpacts(e) == {FacilityImpact(e, f) : f \in Near}

(* Whether a vehicle has cleared the edge: its place and the edge are        *)
(* projected on the geometry of the plan.  One without a position has not.  *)
IsAhead(place, plan) == place \in Beyond[plan]

-----------------------------------------------------------------------------
(* The trips on their way, and the plans they may be following through the  *)
(* edge, are those that an event now is about.                              *)
Concerned == {row \in Trips \X Through :
                /\ trip[row[1]].status \in {"DISPATCHED", "IN_TRANSIT"}
                /\ row[2] \in RoutesOf(row[1])}

(* The handler starts: it lists the trips.                                  *)
BeginEvaluation(e) ==
  /\ evaluation[e].pc = "published"
  /\ \E kind \in Kinds, high \in BOOLEAN :
       evaluation' = [evaluation EXCEPT ![e] =
         IF kind = "OPEN" THEN [pc |-> "handled", asked |-> FALSE]
         ELSE [pc |-> "assessing", kind |-> kind, severity |-> Severity(kind, high),
               left |-> ListedOnce(Rows), at |-> {}, drafts |-> {}]]
  /\ short' = [short EXCEPT ![e] = {r \in Concerned : ~IsAhead(position[r[1]], r[2])}]
  /\ cleared' = [cleared EXCEPT ![e] = {r \in Concerned : IsAhead(position[r[1]], r[2])}]
  /\ UNCHANGED <<trip, position, tripImpacts, facImpacts>>

(* The position of the vehicle of the next trip is read and compared, on    *)
(* the plan listed for it.                                                  *)
LocateVehicle(e) ==
  /\ evaluation[e].pc = "assessing" /\ evaluation[e].at = {}
  /\ \E row \in evaluation[e].left :
       evaluation' = [evaluation EXCEPT
         ![e].left = @ \ {row},
         ![e].at = {[trip |-> row[1], ahead |-> IsAhead(position[row[1]], row[2])]}]
  /\ UNCHANGED <<trip, position, tripImpacts, facImpacts, short, cleared>>

(* The impacts of a trip that the handler sees, its own included, and what  *)
(* the query for the latest may return.                                     *)
NoImpact == [version |-> 0, isActive |-> FALSE]
Visible(e, t) == {i \in tripImpacts \union evaluation[e].drafts : i.trip = t}
LatestOfTrip(e, t) ==
  IF Visible(e, t) = {} THEN {NoImpact}
  ELSE {i \in Visible(e, t) : \A j \in Visible(e, t) : j.version <= i.version}

(* Only an impact that is still active is closed.                           *)
Closes(prev) == prev.isActive

(* The latest impact of the trip is read and the next one written: a        *)
(* closing one for a vehicle past the edge, an active one with the verdicts *)
(* on its commitments otherwise.                                            *)
AssessTrip(e) ==
  /\ evaluation[e].pc = "assessing" /\ evaluation[e].at # {}
  /\ \E a \in evaluation[e].at : \E prev \in LatestOfTrip(e, a.trip) :
       LET kind == evaluation[e].kind
           active == [by |-> e, trip |-> a.trip, version |-> prev.version + 1, isActive |-> TRUE,
                      action |-> Recommended(kind, evaluation[e].severity),
                      sla |-> Verdicts(a.trip, Delay(kind))]
           closing == [active EXCEPT !.isActive = FALSE, !.sla = << >>,
                                     !.action = "PROCEED_WITH_CAUTION"]
           written == IF ~a.ahead THEN {active}
                      ELSE IF Closes(prev) THEN {closing} ELSE {}
       IN evaluation' = [evaluation EXCEPT ![e].at = {}, ![e].drafts = @ \union written]
  /\ UNCHANGED <<trip, position, tripImpacts, facImpacts, short, cleared>>

(* The dispatcher commits the impacts of trips and facilities together.     *)
CommitEvaluation(e) ==
  /\ evaluation[e].pc = "assessing" /\ evaluation[e].at = {} /\ evaluation[e].left = {}
  /\ tripImpacts' = tripImpacts \union evaluation[e].drafts
  /\ facImpacts' = facImpacts \union FacilityImpacts(e)
  /\ evaluation' = [evaluation EXCEPT ![e] = [pc |-> "handled", asked |-> TRUE]]
  /\ UNCHANGED <<trip, position, short, cleared>>

(* A statement fails: the handler is rolled back and the event retried.     *)
FailEvaluation(e) ==
  /\ evaluation[e].pc = "assessing"
  /\ evaluation' = [evaluation EXCEPT ![e] = [pc |-> "published"]]
  /\ UNCHANGED <<trip, position, tripImpacts, facImpacts, short, cleared>>

(* Meanwhile vehicles report their positions, wherever they go,             *)
Advance(t) ==
  /\ \E place \in Places \ {position[t]} :
       LET handled == {e \in Events : evaluation[e].pc = "assessing"}
           Seen(e, ahead) == {r \in short[e] \union cleared[e] :
                                r[1] = t /\ IsAhead(place, r[2]) = ahead}
       IN /\ position' = [position EXCEPT ![t] = place]
          /\ short' = [e \in Events |->
               IF e \in handled THEN short[e] \union Seen(e, FALSE) ELSE short[e]]
          /\ cleared' = [e \in Events |->
               IF e \in handled THEN cleared[e] \union Seen(e, TRUE) ELSE cleared[e]]
  /\ UNCHANGED <<trip, tripImpacts, facImpacts, evaluation>>

(* trips leave, end, and are put on another route.                          *)
ChangeTrip(t) ==
  /\ \/ /\ trip[t].status = "DISPATCHED"
        /\ trip' = [trip EXCEPT ![t].status = "IN_TRANSIT"]
     \/ /\ trip[t].status = "IN_TRANSIT"
        /\ trip' = [trip EXCEPT ![t].status = "COMPLETED"]
     \/ \E p \in PlansOf[t] : trip' = [trip EXCEPT ![t].snapshot = p]
  /\ UNCHANGED <<position, tripImpacts, facImpacts, evaluation, short, cleared>>

ImpactNext ==
  \/ \E e \in Events : \/ BeginEvaluation(e) \/ LocateVehicle(e) \/ AssessTrip(e)
                       \/ CommitEvaluation(e) \/ FailEvaluation(e)
  \/ \E t \in Trips : Advance(t) \/ ChangeTrip(t)

-----------------------------------------------------------------------------
(* The rows, the trips and the handlers.                                    *)
ImpactTypeOK ==
  /\ \A t \in Trips : /\ trip[t].status \in {"DISPATCHED", "IN_TRANSIT", "COMPLETED"}
                      /\ trip[t].snapshot \in PlansOf[t] \union {NoPlan}
  /\ position \in [Trips -> Places \union {Unseen}]
  /\ \A i \in tripImpacts : IsImpact(i)
  /\ facImpacts \subseteq FacilityRow
  /\ \A e \in Events : evaluation[e].pc \in {"published", "assessing", "handled"}

Judged(e) == evaluation[e].pc = "handled" /\ evaluation[e].asked

(* Nobody is left unwarned: once an event is handled, each trip on its way  *)
(* with the edge on its route when the handling began has an active impact  *)
(* of that event, with a verdict for each of its commitments, or its        *)
(* vehicle was beyond the edge on such a route at some moment meanwhile.    *)
EveryTripIsWarned ==
  \A e \in Events : Judged(e) =>
    \A r \in short[e] :
      \/ \E q \in cleared[e] : q[1] = r[1]
      \/ \E i \in tripImpacts : /\ i.by = e /\ i.trip = r[1] /\ i.isActive
                                /\ DOMAIN i.sla = DOMAIN Due[r[1]]

(* Nobody is turned back: an event asks a trip to take another route only   *)
(* if its vehicle, at some moment of the handling, was short of the edge on *)
(* a route the trip had when the handling began.                            *)
NobodyIsTurnedBack ==
  \A i \in tripImpacts : i.isActive => \E r \in short[i.by] : r[1] = i.trip

(* One event warns a trip once, however many plans and plan edges join it   *)
(* to the edge.                                                             *)
OneImpactPerEvent ==
  \A i, j \in tripImpacts : i.by = j.by /\ i.trip = j.trip => i = j

(* A closing assessment closes something: the version before it is an       *)
(* active impact of the same trip, even if two handlers overlap.            *)
ClosingsCloseAnImpact ==
  \A i \in tripImpacts : ~i.isActive =>
    \E j \in tripImpacts : j.trip = i.trip /\ j.isActive /\ j.version = i.version - 1

(* An event warns every trip that has to pass, no other, and each once, and *)
(* a warning is closed only if there is one.                                *)
ImpactsAreSound ==
  ImpactTypeOK /\ EveryTripIsWarned /\ NobodyIsTurnedBack
    /\ OneImpactPerEvent /\ ClosingsCloseAnImpact
=============================================================================
