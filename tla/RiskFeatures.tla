---------------------------- MODULE RiskFeatures ----------------------------
(***************************************************************************)
(* The feature store of the risk model: scheduled ingestions upsert one    *)
(* observation per edge and day from a rainfall file, a script computes    *)
(* the terrain of some edges, and the refresh pass of the risk worker      *)
(* picks the edges observed lately and predicts each from its terrain and  *)
(* its latest observation.  An ingestion is one transaction that keeps the *)
(* rows it has written locked until its commit.                            *)
(***************************************************************************)
EXTENDS Integers, Sequences, SequencesExt, FiniteSets

CONSTANTS
  Ingestions,  \* runs of the ingestion script, each of a file of its own
  FileEdges,   \* per ingestion, its edges in the order of the file
  FileDay,     \* per ingestion, the date of its last row
  FileRain,    \* per ingestion, the daily rainfall of its rows, oldest first
  IndexDays,   \* the days that count for the rainfall index
  DecayOf,     \* the decay of the index, as <<numerator, denominator>>
  Elevations,  \* per edge, the elevations sampled along it
  EdgeLength,  \* per edge, its length
  Passes,      \* refresh passes of the risk worker
  FreshDays    \* how old an observation may be to make its edge due

FeatureEdges == UNION {ToSet(FileEdges[i]) : i \in Ingestions}

ASSUME FeatureAssumption ==
  /\ \A i \in Ingestions :
       /\ FileEdges[i] \in Seq(ToSet(FileEdges[i])) /\ FileDay[i] \in Nat
       /\ FileRain[i] \in Seq(Nat) /\ FileRain[i] # << >>
  /\ FreshDays \in Nat /\ IndexDays \in Nat
  /\ DecayOf \in Nat \X Nat /\ 0 < DecayOf[1] /\ DecayOf[1] < DecayOf[2]
  /\ \A e \in FeatureEdges :
       /\ Elevations[e] \in Seq(Nat) /\ Elevations[e] # << >>
       /\ EdgeLength[e] \in Nat \ {0}

VARIABLES
  weather,     \* committed observations, one per edge and day
  terrain,     \* per edge with terrain features, its susceptibility zone
  ingestion,   \* the ingestions
  riskPass,    \* the refresh passes
  today,       \* the date
  predictions  \* history: what each pass predicted an edge from

featureVars == <<weather, terrain, ingestion, riskPass, today, predictions>>

FeatureInit ==
  /\ weather = {}
  /\ terrain = << >>
  /\ ingestion = [i \in Ingestions |-> [pc |-> "writing", at |-> 1]]
  /\ riskPass = [p \in Passes |-> [pc |-> "waiting"]]
  /\ today = 0
  /\ predictions = {}

-----------------------------------------------------------------------------
(* The last rows of an edge, or as many as there are: rows, whatever days   *)
(* are missing between them.                                                *)
LastDays(rain, n) ==
  SubSeq(rain, IF Len(rain) > n THEN Len(rain) - n + 1 ELSE 1, Len(rain))

(* Mutated form of RainfallIndex: the newest row does not decay.             *)
RainfallIndexFresh(rain) ==
  LET recent == Reverse(LastDays(rain, IndexDays))
  IN SumFunction([i \in 1..Len(recent) |->
           DecayOf[1]^(i - 1) * DecayOf[2]^(IndexDays - i + 1) * recent[i]])

(* The antecedent rainfall index, times the denominator to the IndexDays:   *)
(* the newest row decays once, the one before it twice, and so on.          *)
RainfallIndex(rain) ==
  LET recent == Reverse(LastDays(rain, IndexDays))
  IN SumFunction([i \in 1..Len(recent) |->
           DecayOf[1]^i * DecayOf[2]^(IndexDays - i) * recent[i]])

(* The observation an ingestion makes of one edge.                          *)
Observed(i, edge) ==
  [edge |-> edge, day |-> FileDay[i], by |-> i, r24 |-> Last(FileRain[i]),
   r48 |-> SumFunction(LastDays(FileRain[i], 2)),
   r72 |-> SumFunction(LastDays(FileRain[i], 3)),
   ari |-> RainfallIndex(FileRain[i])]

Observation == UNION {{Observed(i, edge) : edge \in ToSet(FileEdges[i])} : i \in Ingestions}

(* The rows an ingestion has written and not yet committed.                 *)
InFlight(i) ==
  IF ingestion[i].pc = "writing"
  THEN {Observed(i, FileEdges[i][n]) : n \in 1..ingestion[i].at - 1} ELSE {}

SameKey(a, b) == a.edge = b.edge /\ a.day = b.day

(* The ingestions an upsert waits for: those that hold the row it writes.   *)
Holders(i) ==
  IF ingestion[i].pc # "writing" \/ ingestion[i].at > Len(FileEdges[i]) THEN {}
  ELSE {j \in Ingestions \ {i} :
          \E w \in InFlight(j) : SameKey(w, Observed(i, FileEdges[i][ingestion[i].at]))}

(* The next row is inserted, or replaces the one of its edge and day.       *)
Upsert(i) ==
  /\ ingestion[i].pc = "writing" /\ ingestion[i].at <= Len(FileEdges[i])
  /\ Holders(i) = {}
  /\ ingestion' = [ingestion EXCEPT ![i].at = @ + 1]
  /\ UNCHANGED <<weather, terrain, riskPass, today, predictions>>

(* Mutated form of MayPublish: every row is committed on its own.           *)
MayPublishRow(i) == ingestion[i].at > 1

(* The rows are committed after the last of them.                           *)
MayPublish(i) == ingestion[i].at > Len(FileEdges[i])

CommitIngestion(i) ==
  /\ ingestion[i].pc = "writing" /\ MayPublish(i)
  /\ weather' = {w \in weather : \A n \in InFlight(i) : ~SameKey(w, n)} \union InFlight(i)
  /\ ingestion' = [ingestion EXCEPT ![i] = [pc |-> "committed"]]
  /\ UNCHANGED <<terrain, riskPass, today, predictions>>

(* A run fails, or the database ends one of two runs that wait for each     *)
(* other; it is started again by hand, or not.                              *)
FailIngestion(i) ==
  /\ ingestion[i].pc = "writing" /\ ingestion[i].at > 1
  /\ ingestion' = [ingestion EXCEPT ![i].at = 1]
  /\ UNCHANGED <<weather, terrain, riskPass, today, predictions>>

(* The zones in the order of their thresholds of slope, in percent, with    *)
(* the scores the model is given for them, in thousandths.                  *)
SlopeThresholds == {15, 25, 35}
Zones == <<"LOW", "MEDIUM", "HIGH", "VERY_HIGH">>
ZoneScore == [LOW |-> 125, MEDIUM |-> 375, HIGH |-> 625, VERY_HIGH |-> 875]

Rise(edge) == Max(ToSet(Elevations[edge])) - Min(ToSet(Elevations[edge]))

(* Whether the slope of an edge, 100 * rise / length percent, reaches a     *)
(* threshold.                                                               *)
Reaches(edge, percent) == percent * EdgeLength[edge] <= 100 * Rise(edge)

ZoneBySlope(edge) == Zones[1 + Cardinality({t \in SlopeThresholds : Reaches(edge, t)})]

(* The terrain script writes the edges of a bounding box, no more than a     *)
(* limit and in no order, so any; it commits once, and an edge without a    *)
(* length fails it as a whole.                                              *)
ComputeTerrain ==
  /\ \E some \in SUBSET FeatureEdges :
       terrain' = [edge \in some \union DOMAIN terrain |-> ZoneBySlope(edge)]
  /\ UNCHANGED <<weather, ingestion, riskPass, today, predictions>>

-----------------------------------------------------------------------------
(* The edges a pass looks at.                                               *)
RecentEdges == {w.edge : w \in {v \in weather : v.day >= today - FreshDays}}

BeginPass(p) ==
  /\ riskPass[p].pc = "waiting"
  /\ riskPass' = [riskPass EXCEPT ![p] =
       [pc |-> "predicting", left |-> RecentEdges, cutoff |-> today - FreshDays]]
  /\ UNCHANGED <<weather, terrain, ingestion, today, predictions>>

LatestObservation(edge) ==
  {w \in weather : w.edge = edge /\ \A v \in weather : v.edge = edge => v.day <= w.day}

HasTerrain(edge) == edge \in DOMAIN terrain

(* What the model is given for an edge.                                     *)
FeatureVector(edge, w) ==
  [score |-> ZoneScore[terrain[edge]], r72 |-> w.r72, ari |-> w.ari]

(* The next edge is predicted; one without terrain is skipped.              *)
Predict(p) ==
  /\ riskPass[p].pc = "predicting"
  /\ \E edge \in riskPass[p].left :
       /\ riskPass' = [riskPass EXCEPT ![p].left = @ \ {edge}]
       /\ predictions' = predictions \union
            (IF HasTerrain(edge)
             THEN {[pass |-> p, edge |-> edge, from |-> w, cutoff |-> riskPass[p].cutoff,
                   vector |-> FeatureVector(edge, w)] :
                     w \in LatestObservation(edge)}
             ELSE {})
  /\ UNCHANGED <<weather, terrain, ingestion, today>>

EndPass(p) ==
  /\ riskPass[p].pc = "predicting" /\ riskPass[p].left = {}
  /\ riskPass' = [riskPass EXCEPT ![p] = [pc |-> "ended"]]
  /\ UNCHANGED <<weather, terrain, ingestion, today, predictions>>

NextDay ==
  /\ \E i \in Ingestions : today < FileDay[i] + FreshDays
  /\ today' = today + 1
  /\ UNCHANGED <<weather, terrain, ingestion, riskPass, predictions>>

FeatureNext ==
  \/ \E i \in Ingestions : Upsert(i) \/ CommitIngestion(i) \/ FailIngestion(i)
  \/ ComputeTerrain
  \/ \E p \in Passes : BeginPass(p) \/ Predict(p) \/ EndPass(p)
  \/ NextDay

-----------------------------------------------------------------------------
(* The store has one row per edge and day.                                  *)
FeatureTypeOK ==
  /\ weather \subseteq Observation
  /\ \A v, w \in weather : SameKey(v, w) => v = w
  /\ DOMAIN terrain \subseteq FeatureEdges /\ terrain \in [DOMAIN terrain -> ToSet(Zones)]
  /\ \A i \in Ingestions : ingestion[i].pc \in {"writing", "committed"}
  /\ \A p \in Passes : riskPass[p].pc \in {"waiting", "predicting", "ended"}

(* Two files about one day do not mix: of the edges they have in common,    *)
(* all rows come from the one that was committed last.                      *)
FilesDoNotMix ==
  \A i, j \in Ingestions :
    LET common == ToSet(FileEdges[i]) \intersect ToSet(FileEdges[j])
    IN i # j /\ FileDay[i] = FileDay[j] =>
         ~ \E v, w \in weather : {v.edge, w.edge} \subseteq common /\ v.by = i /\ w.by = j

(* An edge is predicted from an observation no older than those its pass    *)
(* was to look at, although selection and reading are two queries.          *)
PredictionsAreFresh == \A q \in predictions : q.from.day >= q.cutoff

(* The windows of an observation nest: it never rained more in 24 hours     *)
(* than in 48, nor in 48 than in 72.                                        *)
WindowsNest == \A w \in weather : w.r24 <= w.r48 /\ w.r48 <= w.r72

(* Of two edges the steeper one never has the lower score, although scores  *)
(* go by zones and the zones by thresholds of the slope.                    *)
SteeperScoresHigher ==
  \A p, q \in predictions :
    Rise(p.edge) * EdgeLength[q.edge] <= Rise(q.edge) * EdgeLength[p.edge]
      => p.vector.score <= q.vector.score

(* The model is fed with one file per day, fresh rows and windows that make *)
(* sense, and it gets the zones the slopes stand for.                       *)
FeaturesAreSound ==
  FeatureTypeOK /\ FilesDoNotMix /\ PredictionsAreFresh /\ WindowsNest /\ SteeperScoresHigher

(* The index a prediction is made from, against its definition as a         *)
(* moisture that takes in each day's rain and decays overnight: an older    *)
(* day never counts for a newer one.                                        *)
IndexIsMoisture ==
  \A q \in predictions :
    q.vector.ari =
      FoldLeft(LAMBDA wet, rain : ((wet + rain * DecayOf[2]^IndexDays) * DecayOf[1]) \div DecayOf[2],
               0, LastDays(FileRain[q.from.by], IndexDays))
=============================================================================
