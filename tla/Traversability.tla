--------------------------- MODULE Traversability ---------------------------
(***************************************************************************)
(* The rule that decides whether one vehicle may use one edge: closures,   *)
(* cautions and unknown statuses first, then the bridge whose capacity     *)
(* nobody knows, then each active restriction in the order of the list.    *)
(* A behaviour judges one case.                                            *)
(***************************************************************************)
EXTENDS Integers, Sequences, SequencesExt

CONSTANTS
  Weights,      \* of vehicles and of weight limits, in tonnes
  Hours,        \* of the day
  MaxListed     \* length of the lists of restrictions

ASSUME TraversabilityAssumption ==
  Weights \subseteq Nat /\ Hours \subseteq 0..23 /\ MaxListed \in Nat

VARIABLES
  ride,     \* the vehicle, the edge, its status and the hour
  listed,   \* the restrictions of the edge, as they are listed
  verdict   \* what is decided

rideVars == <<ride, listed, verdict>>

RoadStatus == {"OPEN", "RESTRICTED", "PROVISIONAL_CAUTION", "BLOCKED", "UNKNOWN"}
Unlimited == -1

Ride == [status: RoadStatus, critical: BOOLEAN, heavy: BOOLEAN, bridge: BOOLEAN,
         hazardous: BOOLEAN, weight: Weights, hour: Hours]

(* A restriction with its value, which may be missing, and whether it is in *)
(* force at the time.  Heights and widths are compared as weights are.      *)
Restriction ==
  [kind: {"MAX_WEIGHT"}, value: Weights \union {Unlimited}, active: BOOLEAN]
  \union [kind: {"HAZARDOUS_CARGO_PROHIBITED", "NIGHT_CURFEW"}, value: {Unlimited},
          active: BOOLEAN]

Undecided == [decided |-> FALSE]

TraversabilityInit ==
  /\ ride \in Ride
  /\ listed \in UNION {[1..n -> Restriction] : n \in 0..MaxListed}
  /\ verdict = Undecided

-----------------------------------------------------------------------------
(* The places of the restrictions in force.                                 *)
InForce(list) == {i \in DOMAIN list : list[i].active}

(* Whether a weight limit of the bridge is on record.                       *)
KnowsLimit(list) == \E i \in InForce(list) : list[i].kind = "MAX_WEIGHT"

AtNight(hour) == hour >= 20 \/ hour < 5

Violates(v, r) ==
  \/ r.kind = "MAX_WEIGHT" /\ r.value # Unlimited /\ v.weight > r.value
  \/ r.kind = "HAZARDOUS_CARGO_PROHIBITED" /\ v.hazardous
  \/ r.kind = "NIGHT_CURFEW" /\ AtNight(v.hour)

(* Mutated form of FirstViolated: only the head of the list is looked at.   *)
HeadViolated(v, list) ==
  {i \in InForce(list) : Violates(v, list[i]) /\ \A j \in InForce(list) : i <= j}

(* The place of the first violated restriction, if there is one.            *)
FirstViolated(v, list) ==
  {i \in InForce(list) :
     Violates(v, list[i]) /\ \A j \in InForce(list) : Violates(v, list[j]) => i <= j}

Refused(review) == [decided |-> TRUE, pass |-> FALSE, review |-> review, penalty |-> 0]
Permitted(penalty) == [decided |-> TRUE, pass |-> TRUE, review |-> FALSE, penalty |-> penalty]

(* The decision, first match first.                                         *)
Decide(v, list) ==
  LET first == FirstViolated(v, list)
  IN CASE v.status = "BLOCKED" -> Refused(FALSE)
       [] v.status = "PROVISIONAL_CAUTION" /\ v.critical -> Refused(TRUE)
       [] v.status = "UNKNOWN" -> Refused(TRUE)
       [] v.status \notin {"BLOCKED", "UNKNOWN"}
          /\ ~(v.status = "PROVISIONAL_CAUTION" /\ v.critical) ->
            IF v.bridge /\ v.heavy /\ ~KnowsLimit(list) THEN Refused(TRUE)
            ELSE IF first # {} THEN Refused(\E i \in first : list[i].kind = "NIGHT_CURFEW")
            ELSE Permitted(IF v.status = "RESTRICTED" THEN 300 ELSE 0)

EvaluateRide ==
  /\ verdict = Undecided
  /\ verdict' = Decide(ride, listed)
  /\ UNCHANGED <<ride, listed>>

-----------------------------------------------------------------------------
(* A case is undecided or has been decided.                                 *)
TraversabilityTypeOK == verdict.decided => verdict.pass \in BOOLEAN /\ verdict.review \in BOOLEAN

(* Whether a vehicle may pass does not depend on the order in which the     *)
(* database lists the restrictions; only whether a review is asked for may. *)
VerdictIgnoresOrder ==
  verdict.decided => Decide(ride, Reverse(listed)).pass = verdict.pass

(* Nothing that speaks against a road opens it: a vehicle that may not pass *)
(* may not pass either if a further restriction is in force, other than the *)
(* first weight limit of a bridge, or if it weighs more.                    *)
NothingWorseOpens ==
  verdict.decided /\ ~verdict.pass =>
    /\ \A r \in Restriction :
         r.active /\ (r.kind = "MAX_WEIGHT" => KnowsLimit(listed))
         => ~Decide(ride, Append(listed, r)).pass
    /\ \A w \in Weights : w > ride.weight => ~Decide([ride EXCEPT !.weight = w], listed).pass

(* The verdict does not depend on the order of the list and is monotone.    *)
VerdictsAreSound == TraversabilityTypeOK /\ VerdictIgnoresOrder /\ NothingWorseOpens
=============================================================================
