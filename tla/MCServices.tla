----------------------------- MODULE MCServices -----------------------------
(***************************************************************************)
(* The services that share no state with each other, checked in one run:   *)
(* each behaviour exercises one of them, and the others keep still.        *)
(***************************************************************************)
EXTENDS CoordinationLog, HazardZones, PublicAccess, DataLoading, FacilityReach,
        DisruptionImpact, RiskFeatures, HazardDetection, DispatchPlanning,
        Traversability, TLC

VARIABLE service  \* the one at work

vars == <<service, logVars, hazardVars, publicVars, dataVars, reachVars,
          impactVars, featureVars, detectionVars, planningVars, rideVars>>

Services == {"coordination", "hazard", "public", "loading", "reach",
             "impact", "features", "detection", "planning", "rides"}

(* The inputs of a service that is not at work are fixed.                   *)
FaintBox == [span |-> <<0, 4>>, confidence |-> 20, class |-> "LANDSLIDE"]

Init ==
  /\ service \in Services
  /\ LogInit /\ HazardInit /\ PublicInit /\ ReachInit /\ ImpactInit /\ FeatureInit
  /\ DataInit
  /\ service # "loading" => jobsRun = {"seed_demo", "seed_reporting_demo"}
  /\ IF service = "detection" THEN DetectionInit
     ELSE /\ boxes = [b \in Indices |-> FaintBox] /\ order = {}
          /\ kept = {} /\ finding = NoFinding
  /\ IF service = "planning" THEN PlanningInit
     ELSE /\ demand = [s \in Stops |-> 9] /\ capacity = [v \in Fleet |-> 35]
          /\ solution = Unsolved /\ plan = NoPlanYet
  /\ IF service = "rides" THEN TraversabilityInit
     ELSE /\ ride = CHOOSE r \in Ride : TRUE
          /\ listed = << >> /\ verdict = Undecided

(* The services that are not at work keep still.                            *)
OthersStill ==
  /\ UNCHANGED service
  /\ service # "coordination" => UNCHANGED logVars
  /\ service # "hazard" => UNCHANGED hazardVars
  /\ service # "public" => UNCHANGED publicVars
  /\ service # "loading" => UNCHANGED dataVars
  /\ service # "reach" => UNCHANGED reachVars
  /\ service # "impact" => UNCHANGED impactVars
  /\ service # "features" => UNCHANGED featureVars
  /\ service # "detection" => UNCHANGED detectionVars
  /\ service # "planning" => UNCHANGED planningVars
  /\ service # "rides" => UNCHANGED rideVars

Coordinate == service = "coordination" /\ LogNext /\ OthersStill
AssessHazards == service = "hazard" /\ HazardNext /\ OthersStill
ServePublic == service = "public" /\ PublicNext /\ OthersStill
LoadData == service = "loading" /\ DataNext /\ OthersStill
EvaluateReach == service = "reach" /\ ReachNext /\ OthersStill
(* The kind of an event chooses the labels of its impacts and no more: one  *)
(* kind that asks for an evaluation, and one that does not, are enough.     *)
OneKind == \A e \in Events : evaluation'[e].pc = "assessing" => evaluation'[e].kind = "BLOCKED"

EvaluateImpact == service = "impact" /\ ImpactNext /\ OneKind /\ OthersStill
KeepFeatures == service = "features" /\ FeatureNext /\ OthersStill
DetectHazard == service = "detection" /\ DetectionNext /\ OthersStill
PlanDispatch == service = "planning" /\ PlanningNext /\ OthersStill
JudgeRide == service = "rides" /\ EvaluateRide /\ OthersStill

Next ==
  \/ Coordinate \/ AssessHazards \/ ServePublic \/ LoadData \/ EvaluateReach
  \/ EvaluateImpact \/ KeepFeatures \/ DetectHazard \/ PlanDispatch \/ JudgeRide

(* Time passes, whatever the requests do.                                   *)
Spec == Init /\ [][Next]_vars /\ WF_vars(service = "public" /\ Tick /\ OthersStill)

(* Late work undoes nothing: the overlay never goes back to an older        *)
(* assessment, and loading data again opens no road that was declared       *)
(* closed.                                                                  *)
NothingIsUndone == LatestNeverGoesBack /\ LoadingReopensNothing

MCGradient == [steep |-> 35, flat |-> 4]
MCRains == {[r24 |-> 20, r72 |-> 25], [r24 |-> 80, r72 |-> 120], [r24 |-> 120, r72 |-> 260]}
MCDeployments ==
  {{"seed_demo", "load_pilot_corridor", "seed_regional_network"},
   {"seed_demo", "load_pilot_corridor", "seed_fleet_demo", "create_vehicle", "create_driver"},
   {"seed_demo", "seed_reporting_demo"},
   {"seed_demo", "load_pilot_corridor", "create_vehicle", "create_commitment",
    "register_device", "replay_simulator"}}
MCHubs == {"byrnihat", "barapani"}
MCRoutes == [byrnihat |-> {{"nh6a", "nh6b"}, {"nh6a", "bypass"}, {"ghat", "bypass"}},
             barapani |-> {{"nh6b"}, {"bypass"}}]
MCNetworkOf == [nh6a |-> 1, nh6b |-> 1, bypass |-> 1, ghat |-> 2]
MCIndexOf == [nh6a |-> 1, nh6b |-> 2, bypass |-> 3, ghat |-> 2]
MCSeconds == [nh6a |-> 3, nh6b |-> 2, bypass |-> 4, ghat |-> 1]
MCWeightLimit == [nh6a |-> 40, nh6b |-> 12, bypass |-> 20, ghat |-> 40]
MCPlansOf == [t1 |-> {"direct", "valley", "detour"}]
MCBeyond == [direct |-> {"ladrymbai", "silchar"}, valley |-> {"silchar"}]
MCDue == [t1 |-> [vaccine |-> 2, food |-> 5]]
MCDistance == [clinic |-> 150, depot |-> 3000, far |-> 9000]
MCFileEdges == [imd |-> <<"e1", "e2">>, correction |-> <<"e2", "e1">>, early |-> <<"e1">>]
MCFileDay == [imd |-> 1, correction |-> 1, early |-> 0]
MCElevations == [e1 |-> <<100, 160, 120>>, e2 |-> <<50, 90>>]
MCEdgeLength == [e1 |-> 400, e2 |-> 400]
MCDecay == <<17, 20>>
MCFileRain == [imd |-> <<0, 1, 0, 9>>, correction |-> <<0, 9, 1, 5>>, early |-> <<7>>]
MCSpans == {<<0, 4>>, <<1, 5>>, <<3, 6>>}
=============================================================================
