-------------------------- MODULE HazardDetection --------------------------
(***************************************************************************)
(* What the photo of a field report is taken to show: the boxes the model  *)
(* returns are filtered by confidence, thinned by greedy non-maximum       *)
(* suppression, and the most confident one left decides.  Boxes are        *)
(* intervals of a picture of one unit in height.                           *)
(***************************************************************************)
EXTENDS Naturals, FiniteSets, FiniteSetsExt

CONSTANTS
  BoxCount,    \* boxes the model returns
  Spans,       \* where a box may lie, as <<left, right>>
  Confidences, \* in percent
  MinConfidence, MaxOverlap \* the two thresholds, in percent

ASSUME DetectionAssumption ==
  /\ BoxCount \in Nat \ {0}
  /\ \A s \in Spans : s \in Nat \X Nat /\ s[1] < s[2]
  /\ Confidences \subseteq 0..100 /\ MinConfidence \in 1..100 /\ MaxOverlap \in 1..100

VARIABLES
  boxes,    \* span, confidence and class of each box
  order,    \* boxes still to be considered, in no order yet
  kept,     \* boxes kept so far
  finding   \* what is answered

detectionVars == <<boxes, order, kept, finding>>

Classes == {"CLEAR_ROAD", "LANDSLIDE", "UNRECOGNIZED"}
Indices == 1..BoxCount
NoFinding == [pc |-> "looking"]

Survivors == {b \in Indices : boxes[b].confidence >= MinConfidence}

(* The boxes that may come first in the order of falling confidence, which  *)
(* leaves open how equal ones are placed.                                   *)
First(some) ==
  {b \in some : \A c \in some : boxes[c].confidence <= boxes[b].confidence}

DetectionInit ==
  /\ boxes \in [Indices -> [span: Spans, confidence: Confidences, class: Classes]]
  /\ order = Survivors
  /\ kept = {}
  /\ finding = NoFinding

-----------------------------------------------------------------------------
Common(a, b) ==
  LET left == Max({a[1], b[1]})
      right == Min({a[2], b[2]})
  IN IF right > left THEN right - left ELSE 0

Union(a, b) == ((a[2] - a[1]) + (b[2] - b[1])) - Common(a, b)

(* Whether the intersection of two boxes reaches the share of their union   *)
(* at which they are taken to show one thing.                               *)
Overlap(a, b) ==
  100 * Common(boxes[a].span, boxes[b].span)
    >= MaxOverlap * Union(boxes[a].span, boxes[b].span)

(* Mutated form of Suppresses: overlap with the boxes seen before is enough *)
(* to go, kept or not.                                                      *)
SuppressesAny(best, b) ==
  \E a \in Indices \ {b} : boxes[a].confidence >= MinConfidence /\ Overlap(a, b)

(* Whether a box goes because of the one that is kept now.                  *)
Suppresses(best, b) == Overlap(best, b)

(* The most confident box is kept, and those that overlap it are dropped.   *)
KeepBest ==
  /\ finding = NoFinding
  /\ \E best \in First(order) :
       /\ kept' = kept \union {best}
       /\ order' = {b \in order \ {best} : ~Suppresses(best, b)}
  /\ UNCHANGED <<boxes, finding>>

(* A class the platform does not know counts as a damaged road.             *)
Resolved(class) == IF class = "UNRECOGNIZED" THEN "ROAD_DAMAGE_CRACK" ELSE class

(* The kept boxes that may come first once they are sorted.                 *)
Deciding == First(kept)

(* The answer: the road is clear if no box is left or the first says so.    *)
Verify ==
  /\ finding = NoFinding /\ order = {}
  /\ \/ /\ kept = {}
        /\ finding' = [pc |-> "found", class |-> "CLEAR_ROAD", blocked |-> FALSE,
                       confidence |-> 100]
     \/ \E b \in Deciding :
          LET class == Resolved(boxes[b].class)
          IN finding' = [pc |-> "found", class |-> class, blocked |-> class # "CLEAR_ROAD",
                         confidence |-> boxes[b].confidence]
  /\ UNCHANGED <<boxes, order, kept>>

DetectionNext == KeepBest \/ Verify

-----------------------------------------------------------------------------
(* Indices, kept boxes and findings have their types.                       *)
DetectionTypeOK ==
  /\ kept \subseteq Survivors /\ order \subseteq Survivors \ kept
  /\ finding # NoFinding => finding.confidence \in 0..100

(* Suppression thins and loses nothing: boxes that are kept do not overlap, *)
(* and a box that was dropped overlaps a kept one at least as confident.    *)
KeptBoxesRepresentAll ==
  /\ \A a, b \in kept : a # b => ~Overlap(a, b)
  /\ \A b \in Survivors \ (kept \union order) :
       \E a \in kept : Overlap(a, b) /\ boxes[a].confidence >= boxes[b].confidence

(* The most confident box decides: whatever is suppressed, the answer is    *)
(* that of a box no other box exceeds, and a road is called blocked only if *)
(* such a box shows a hazard.                                               *)
BestBoxDecides ==
  finding # NoFinding /\ Survivors # {} =>
    \E b \in Survivors :
      /\ \A c \in Indices : boxes[c].confidence <= boxes[b].confidence
      /\ finding.confidence = boxes[b].confidence
      /\ finding.blocked <=> boxes[b].class # "CLEAR_ROAD"

(* Suppression keeps a box for each hazard, and the best box decides.       *)
DetectionIsSound == DetectionTypeOK /\ KeptBoxesRepresentAll /\ BestBoxDecides
=============================================================================
