---------------------------- MODULE HazardZones ----------------------------
(***************************************************************************)
(* Landslide risk: zones are derived once from the steep edges of the road *)
(* network, and a refresh asks the weather provider about each zone,       *)
(* scores it and stores one assessment per zone, all in one transaction.   *)
(* The map overlay shows the latest assessment of each zone.               *)
(***************************************************************************)
EXTENDS Integers, FiniteSets, FiniteSetsExt

CONSTANTS
  Seeders,      \* requests to derive the zones
  Refreshers,   \* requests to refresh the assessments
  Gradient,     \* of each edge, in percent
  Threshold,    \* edges at least as steep get a zone
  Rains         \* what the provider may report: rainfall of 24 and 72 hours

SteepEdges == {e \in DOMAIN Gradient : Gradient[e] >= Threshold}

ASSUME HazardAssumption ==
  /\ IsFiniteSet(Seeders) /\ IsFiniteSet(Refreshers) /\ IsFiniteSet(DOMAIN Gradient)
  /\ \A e \in DOMAIN Gradient : Gradient[e] \in Nat
  /\ Rains \subseteq [r24: Nat, r72: Nat]

VARIABLES
  riskZones,    \* committed rows of risk_zones
  assessments,  \* committed rows of risk_assessments
  zoneSeed,     \* the seeding requests being served
  refreshPass,  \* the refreshes being served
  hazardClock,  \* the time
  seedsRaced    \* history: two requests found no zone at once

hazardVars == <<riskZones, assessments, zoneSeed, refreshPass, hazardClock, seedsRaced>>

Zone == [edge: SteepEdges, by: Seeders]
Assessment == [pass: Refreshers, zone: Zone, at: 0..Cardinality(Refreshers),
               rain: [r24: Nat, r72: Nat], level: 1..4, score: 0..4000]
Down == [r24 |-> 0, r72 |-> 0, down |-> TRUE]
Answers == {[r24 |-> r.r24, r72 |-> r.r72, down |-> FALSE] : r \in Rains}

Idle == [pc |-> "idle"]
Ended == [pc |-> "ended"]

HazardInit ==
  /\ riskZones = {}
  /\ assessments = {}
  /\ zoneSeed = [s \in Seeders |-> Idle]
  /\ refreshPass = [p \in Refreshers |-> Idle]
  /\ hazardClock = 0
  /\ seedsRaced = FALSE

-----------------------------------------------------------------------------
AtMost(n, limit) == Min({n, limit})

(* The weighted score, in 4000ths: 0.40 of gradient over 40 percent, 0.45   *)
(* of 24 h rain over 100 mm and 0.15 of 72 h rain over 200 mm.              *)
RiskScore(gradient, rain) ==
  40 * AtMost(gradient, 40) + 18 * AtMost(rain.r24, 100) + 3 * AtMost(rain.r72, 200)

(* Levels in the order of their severity: LOW, MODERATE, HIGH, SEVERE.      *)
RiskLevel(score) ==
  IF score < 1200 THEN 1 ELSE IF score < 2200 THEN 2 ELSE IF score < 3200 THEN 3 ELSE 4

(* What the client returns: every failure of the provider becomes no rain.  *)
Rainfall(answer) == IF answer.down THEN [r24 |-> 0, r72 |-> 0]
                    ELSE [r24 |-> answer.r24, r72 |-> answer.r72]

LevelOf(zone, rain) == RiskLevel(RiskScore(Gradient[zone.edge], rain))

(* The row of one assessment.                                               *)
Assessed(p, zone, at, rain) ==
  [pass |-> p, zone |-> zone, at |-> at, rain |-> rain,
   level |-> LevelOf(zone, rain), score |-> RiskScore(Gradient[zone.edge], rain)]

(* Mutated form of Assess: a zone the provider did not answer is left out.  *)
AssessAnswered(p, zone, at, answer) ==
  IF answer.down THEN {} ELSE {Assessed(p, zone, at, Rainfall(answer))}

(* The assessment of one zone in a pass.                                    *)
Assess(p, zone, at, answer) ==
  {Assessed(p, zone, at, Rainfall(answer))}

Of(zone) == {a \in assessments : a.zone = zone}

(* Mutated form of Latest: the highest score is shown instead.              *)
LatestWorst(zone) ==
  {a \in Of(zone) : \A b \in Of(zone) : b.score <= a.score}

(* The latest assessment of a zone.                                         *)
Latest(zone) == {a \in Of(zone) : \A b \in Of(zone) : b.at <= a.at}

(* The overlay of the map: every zone, with nothing until it is assessed.   *)
Overlay == [zone \in riskZones |-> Latest(zone)]

-----------------------------------------------------------------------------

HasZones == riskZones # {}

(* The seeding request finds zones and does nothing, or reads the edges.    *)
CheckZones(s) ==
  /\ zoneSeed[s] = Idle
  /\ IF HasZones
     THEN zoneSeed' = [zoneSeed EXCEPT ![s] = Ended]
     ELSE zoneSeed' = [zoneSeed EXCEPT ![s] = [pc |-> "seeding"]]
  /\ seedsRaced' = (seedsRaced \/ (riskZones = {}
                      /\ \E t \in Seeders \ {s} : zoneSeed[t].pc = "seeding"))
  /\ UNCHANGED <<riskZones, assessments, refreshPass, hazardClock>>

(* One zone for each steep edge, under identifiers of its own.              *)
NewZones(s) == [edge: SteepEdges, by: {s}]

SaveZones(s) ==
  /\ zoneSeed[s].pc = "seeding"
  /\ zoneSeed' = [zoneSeed EXCEPT ![s] = Ended]
  /\ riskZones' = riskZones \union NewZones(s)
  /\ UNCHANGED <<assessments, refreshPass, hazardClock, seedsRaced>>

FailSeed(s) ==
  /\ zoneSeed[s].pc = "seeding"
  /\ zoneSeed' = [zoneSeed EXCEPT ![s] = Ended]
  /\ UNCHANGED <<riskZones, assessments, refreshPass, hazardClock, seedsRaced>>

(* A refresh reads the zones and the time once, before the first request.   *)
BeginRefresh(p) ==
  /\ refreshPass[p] = Idle
  /\ refreshPass' = [refreshPass EXCEPT ![p] =
       [pc |-> "fetching", read |-> riskZones, left |-> riskZones,
        at |-> hazardClock, drafts |-> {}]]
  /\ hazardClock' = hazardClock + 1
  /\ UNCHANGED <<riskZones, assessments, zoneSeed, seedsRaced>>

(* The provider answers for the next zone, or does not.                     *)
AssessZone(p) ==
  /\ refreshPass[p].pc = "fetching"
  /\ \E zone \in refreshPass[p].left, answer \in Answers \union {Down} :
       refreshPass' = [refreshPass EXCEPT
         ![p].left = @ \ {zone},
         ![p].drafts = @ \union Assess(p, zone, refreshPass[p].at, answer)]
  /\ UNCHANGED <<riskZones, assessments, zoneSeed, hazardClock, seedsRaced>>

(* The route commits what the pass has stored.                              *)
CommitRefresh(p) ==
  /\ refreshPass[p].pc = "fetching"
  /\ refreshPass[p].left = {}
  /\ assessments' = assessments \union refreshPass[p].drafts
  /\ refreshPass' = [refreshPass EXCEPT ![p] =
       [pc |-> "committed", read |-> @.read, at |-> @.at]]
  /\ UNCHANGED <<riskZones, zoneSeed, hazardClock, seedsRaced>>

(* A statement fails, or the process dies: the whole pass is rolled back.   *)
FailRefresh(p) ==
  /\ refreshPass[p].pc = "fetching"
  /\ refreshPass' = [refreshPass EXCEPT ![p] = Ended]
  /\ UNCHANGED <<riskZones, assessments, zoneSeed, hazardClock, seedsRaced>>

HazardNext ==
  \/ \E s \in Seeders : CheckZones(s) \/ SaveZones(s) \/ FailSeed(s)
  \/ \E p \in Refreshers :
       BeginRefresh(p) \/ AssessZone(p) \/ CommitRefresh(p) \/ FailRefresh(p)

-----------------------------------------------------------------------------
(* Zones lie on steep edges; a score lies between the bounds of its scale.  *)
HazardTypeOK ==
  /\ riskZones \subseteq Zone
  /\ \A a \in assessments : a \in Assessment /\ a.zone \in riskZones
  /\ \A s \in Seeders : zoneSeed[s].pc \in {"idle", "seeding", "ended"}
  /\ \A p \in Refreshers : refreshPass[p].pc \in {"idle", "fetching", "committed", "ended"}
  /\ hazardClock \in 0..Cardinality(Refreshers)

(* A refresh is complete: once it has committed, it has left exactly one    *)
(* assessment for each zone it read, those the provider did not answer for  *)
(* included, and a refresh that failed has left none.                       *)
PassesAreWhole ==
  \A p \in Refreshers :
    LET left == {a \in assessments : a.pass = p}
    IN IF refreshPass[p].pc = "committed"
       THEN /\ {a.zone : a \in left} = refreshPass[p].read
            /\ Cardinality(left) = Cardinality(refreshPass[p].read)
       ELSE left = {}

(* More rain never reads as less risk: of two assessments of one zone, the  *)
(* one with no less rain in both windows is on no lower level.              *)
RainRaisesRisk ==
  \A a, b \in assessments :
    a.zone = b.zone /\ a.rain.r24 <= b.rain.r24 /\ a.rain.r72 <= b.rain.r72
    => a.score <= b.score /\ a.level <= b.level

(* The overlay never goes back: a refresh that commits late does not        *)
(* replace the later assessment of a faster one.                            *)
LatestNeverGoesBack ==
  [][\A zone \in riskZones : \A a \in Overlay[zone], b \in Overlay'[zone] : a.at <= b.at]_hazardVars

(* An edge has one zone, unless two requests both found the table empty.    *)
OneZonePerEdge ==
  seedsRaced \/ \A y, z \in riskZones : y.edge = z.edge => y = z

(* The assessments can be compared: a zone for each edge, an assessment of  *)
(* each zone by each refresh, and levels that grow with the rain.           *)
AssessmentsAreSound == HazardTypeOK /\ OneZonePerEdge /\ PassesAreWhole /\ RainRaisesRisk
=============================================================================
