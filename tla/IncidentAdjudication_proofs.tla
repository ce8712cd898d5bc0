---------------------- MODULE IncidentAdjudication_proofs ----------------------
(***************************************************************************)
(* Proofs about IncidentAdjudication for any reports, requests and roads.  *)
(*                                                                         *)
(* A request writes back what it read some time ago, so the inductive      *)
(* invariant IInv says of every entity in a request's hands what holds of  *)
(* the stored row (a verdict has its decision), and of every status        *)
(* evaluated and not yet declared what holds of a declared one.            *)
(***************************************************************************)
EXTENDS IncidentAdjudication, TLAPS

\* A request leaves its rows with its last step.
OwnRows ==
    \A q \in Request :
        pc[q] # "done" => incident[q] = None /\ decision[q] = None /\ merge[q] = None /\ event[q] = None

\* A request at work has read the row of a report, or the links of an incident to
\* merge with another, or evaluated roads.
WorkOf(q) ==
    /\ pc[q] = "fetched" => work[q] \in Task
    /\ pc[q] = "evaluated" => work[q] \in Evaluation /\ Known(work[q].incident)
    /\ pc[q] = "merging" => work[q] \in Merging /\ Mergeable(work[q].source, work[q].target)
    /\ At(q, "review") /\ work[q].into # None => Known(work[q].into)

WorkInv == \A q \in Request : WorkOf(q)

HasConfirmation(r) ==
    \E q \in Decided(r, "CONFIRM_INCIDENT") :
        /\ incident[decision[q].incident] # None
        /\ event[q] # None /\ event[q].incident = decision[q].incident

HasRejection(r) == Decided(r, "REJECT_REPORT") # {}

\* A verdict has its decision, also one in the hands of a request.
VerdictInv ==
    /\ \A r \in Report : report[r] # None =>
          /\ report[r].state = "VERIFIED" => HasConfirmation(r)
          /\ report[r].state = "REJECTED" => HasRejection(r)
    /\ \A q \in Request, r \in Report : pc[q] = "fetched" /\ work[q].report = r =>
          /\ work[q].entity.state = "VERIFIED" => HasConfirmation(r)
          /\ work[q].entity.state = "REJECTED" => HasRejection(r)

\* A review with If-Match read the version it asks for.
MatchInv ==
    \A q \in Request :
        At(q, "review") /\ work[q].match # None => work[q].entity.version = work[q].match

\* A decision with If-Match leaves a later version behind, which only a write over
\* another's result takes back.
VersionInv ==
    \A q \in Request :
        decision[q] # None /\ decision[q].match # None =>
            \/ decision[q].report \in overwritten
            \/ /\ report[decision[q].report] # None
               /\ report[decision[q].report].version > decision[q].match

\* A status evaluated for a road counts every other active incident, unless the
\* road's conditions changed since.
EffectiveInv ==
    \A q, j \in Request, e \in Edge :
        /\ pc[q] = "evaluated" /\ e \in DOMAIN work[q].effective
        /\ j # work[q].incident /\ Active(j) /\ closes[j][e] # "none"
        => e \in outrun \/ work[q].effective[e] # "OPEN"

\* The links a merge has read are still the source's: none is ever removed.
LinksInv ==
    \A q \in Request, e \in Edge :
        pc[q] = "merging" /\ work[q].links[e] # "none" => closes[work[q].source][e] # "none"

IInv ==
    /\ TypeOK
    /\ OwnRows
    /\ WorkInv
    /\ VerdictInv
    /\ MatchInv
    /\ VersionInv
    /\ IfMatchIsExclusive
    /\ LinksInv
    /\ EffectiveInv
    /\ IncidentKeepsRoadFromOpening
-----------------------------------------------------------------------------
\* None is no row, no request and no road.
LEMMA NoneIsNothing ==
    /\ None \notin Request /\ None \notin Edge
    /\ None \notin ReportRow /\ None \notin Incident /\ None \notin Decision
    /\ None \notin Merge /\ None \notin OutboxEvent
  BY AdjudicationAssumption, NoneIsNoRow

\* What a request about a report has read, ...
LEMMA TaskFields ==
    ASSUME NEW t \in Task
    PROVE  /\ t.report \in Report /\ t.entity \in ReportRow
           /\ t.op \in {"triage", "review", "amend", "photo"}
           /\ t.op = "review" => /\ t.kind \in DecisionKind /\ t.match \in Nat \cup {None}
                                 /\ t.edges \in [Edge -> Closure] /\ t.into \in Request \cup {None}
           /\ t.op = "amend" => t.correction \in Submission
           /\ t.op = "photo" => t.found \in {"clear", "blocked"}
  BY DEF Task

\* ... what a resolution has evaluated, ...
LEMMA EvaluationFields ==
    ASSUME NEW t \in Evaluation
    PROVE  /\ t.incident \in Request
           /\ (DOMAIN t.effective) \subseteq Edge
           /\ \A e \in DOMAIN t.effective : t.effective[e] \in Status
<1>1. PICK es \in SUBSET Edge : t.effective \in [es -> Status]
  BY DEF Evaluation
<1> QED
  BY <1>1 DEF Evaluation

\* ... what a merge has read, ...
LEMMA MergingFields ==
    ASSUME NEW t \in Merging
    PROVE  /\ t.source \in Request /\ t.target \in Request /\ t.version \in Nat
           /\ t.links \in [Edge -> Closure] /\ t.reports \in SUBSET Report /\ t.edges \in SUBSET Edge
  BY DEF Merging

\* ... and what reports look like before and after an update.
LEMMA RowFields ==
    ASSUME NEW row \in ReportRow
    PROVE  /\ row.state \in ReviewState /\ row.reporter \in User /\ row.severity \in Severity
           /\ row.edge \in Edge \cup {None} /\ row.version \in Nat
           /\ row # None
           /\ \A state \in ReviewState : Updated([row EXCEPT !.state = state]) \in ReportRow
           /\ \A state : /\ Updated([row EXCEPT !.state = state]).state = state
                         /\ Updated([row EXCEPT !.state = state]).version = row.version + 1
           /\ \A found \in {"clear", "blocked"} :
                 /\ [row EXCEPT !.cv = found] \in ReportRow
                 /\ [row EXCEPT !.cv = found].state = row.state
                 /\ [row EXCEPT !.cv = found].version = row.version
           /\ Updated(row) \in ReportRow
           /\ Updated(row).state = row.state /\ Updated(row).version = row.version + 1
<1>1. /\ row.state \in ReviewState /\ row.reporter \in User /\ row.severity \in Severity
      /\ row.edge \in Edge \cup {None} /\ row.version \in Nat
      /\ row # None
  BY NoneIsNothing DEF ReportRow
<1>2. /\ Updated(row) \in ReportRow
      /\ Updated(row).state = row.state /\ Updated(row).version = row.version + 1
  BY DEF ReportRow, Updated
<1>3. \A found \in {"clear", "blocked"} :
         /\ [row EXCEPT !.cv = found] \in ReportRow
         /\ [row EXCEPT !.cv = found].state = row.state
         /\ [row EXCEPT !.cv = found].version = row.version
  BY DEF ReportRow
<1>4. \A state \in ReviewState : Updated([row EXCEPT !.state = state]) \in ReportRow
  <2>1. \A state \in ReviewState : [row EXCEPT !.state = state] \in ReportRow
    BY DEF ReportRow
  <2>2. \A x \in ReportRow : Updated(x) \in ReportRow
    BY DEF ReportRow, Updated
  <2> QED
    BY <2>1, <2>2
<1>5. \A state : /\ Updated([row EXCEPT !.state = state]).state = state
                 /\ Updated([row EXCEPT !.state = state]).version = row.version + 1
  BY DEF ReportRow, Updated
<1> QED
  BY <1>1, <1>2, <1>3, <1>4, <1>5

\* A row of a report whose review state is written is a row.
LEMMA StateFields ==
    ASSUME NEW row \in ReportRow, NEW state \in ReviewState
    PROVE  /\ Updated([row EXCEPT !.state = state]) \in ReportRow
           /\ Updated([row EXCEPT !.state = state]).state = state
           /\ Updated([row EXCEPT !.state = state]).version = row.version + 1
<1> DEFINE written == [row EXCEPT !.state = state]
<1>1. written \in ReportRow /\ written.state = state /\ written.version = row.version
  BY DEF ReportRow
<1> HIDE DEF written
<1> QED
  BY <1>1, RowFields

\* A row resolved by a merge is a row, ...
LEMMA MergedFields ==
    ASSUME NEW row \in Incident, NEW n \in Nat
    PROVE  /\ [row EXCEPT !.lifecycle = "RESOLVED", !.version = n] \in Incident
           /\ [row EXCEPT !.lifecycle = "RESOLVED", !.version = n].lifecycle = "RESOLVED"
  BY DEF Incident

\* ... and so is one advanced to RESOLVED.
LEMMA ResolvedFields ==
    ASSUME NEW row \in Incident, NEW n \in Nat
    PROVE  /\ [row EXCEPT !.lifecycle = "RESOLVED", !.version = @ + n] \in Incident
           /\ [row EXCEPT !.lifecycle = "RESOLVED", !.version = @ + n].lifecycle = "RESOLVED"
           /\ [row EXCEPT !.lifecycle = "RESOLVED", !.version = @ + n].severity = row.severity
<1>1. /\ row = [lifecycle |-> row.lifecycle, severity |-> row.severity, version |-> row.version]
      /\ row.severity \in Severity /\ row.version \in Nat
  BY DEF Incident
<1>2. [row EXCEPT !.lifecycle = "RESOLVED", !.version = @ + n]
        = [lifecycle |-> "RESOLVED", severity |-> row.severity, version |-> row.version + n]
  <2> DEFINE once == [row EXCEPT !.lifecycle = "RESOLVED"]
  <2>1. once = [lifecycle |-> "RESOLVED", severity |-> row.severity, version |-> row.version]
    BY <1>1
  <2>2. [row EXCEPT !.lifecycle = "RESOLVED", !.version = @ + n]
          = [once EXCEPT !.version = once.version + n]
    OBVIOUS
  <2> HIDE DEF once
  <2>3. once.version = row.version
    BY <2>1
  <2>4. [once EXCEPT !.version = once.version + n]
          = [lifecycle |-> "RESOLVED", severity |-> row.severity, version |-> row.version + n]
    BY <2>1, <2>3
  <2> QED
    BY <2>2, <2>4
<1> QED
  BY <1>1, <1>2 DEF Incident

\* A report just submitted.
LEMMA SubmittedFields ==
    ASSUME NEW s \in Submission, NEW state \in StateAtSubmission(s.severity), NEW v \in Nat
    PROVE  /\ Submitted(s, state, v) \in ReportRow
           /\ Submitted(s, state, v).state \in {"SUBMITTED", "PROVISIONAL_CAUTION"}
<1>1. s.reporter \in User /\ s.severity \in {"LOW", "CRITICAL"} /\ s.edge \in Edge \cup {None}
  BY AdjudicationAssumption
<1>2. state \in {"SUBMITTED", "PROVISIONAL_CAUTION"}
  BY DEF StateAtSubmission
<1> QED
  BY <1>1, <1>2 DEF Submitted, ReportRow, ReviewState, Severity

-----------------------------------------------------------------------------
\* A request begins by reading a report as it is.
Begins(q) ==
    /\ pc[q] = "idle"
    /\ \E t \in Task :
          /\ Fetch(q, t)
          /\ report[t.report] # None /\ t.entity = report[t.report]
          /\ t.op = "review" =>
                /\ t.match # None => t.entity.version = t.match
                /\ t.into # None => Known(t.into)

\* What a request that arrives asks for.
LEMMA AskIs ==
    ASSUME TypeOK, NEW q \in Request, Arrives(q), Ask(q)
    PROVE  \/ Begins(q)
           \/ pc[q] = "idle" /\ \E i \in Request, es \in SUBSET Edge : BeginResolve(q, i, es)
           \/ pc[q] = "idle" /\ \E i, j \in Request : BeginMerge(q, i, j)
<1>0. pc[q] = "idle"
  BY DEF Arrives
<1>1. \A r \in Report : report[r] # None => report[r] \in ReportRow
  BY DEF TypeOK
<1>2. ASSUME NEW s \in Submission, NEW r \in Report, BeginAmend(q, s, r)
      PROVE  Begins(q)
  <2> DEFINE t == [op |-> "amend", report |-> r, entity |-> report[r], correction |-> s]
  <2>1. t \in Task /\ Fetch(q, t) /\ t.entity = report[t.report] /\ report[t.report] # None
    BY <1>1, <1>2 DEF BeginAmend, Task
  <2> QED
    BY <1>0, <2>1 DEF Begins
<1>3. ASSUME NEW r \in Report, NEW found \in {"clear", "blocked"}, BeginVerifyPhoto(q, r, found)
      PROVE  Begins(q)
  <2> DEFINE t == [op |-> "photo", report |-> r, entity |-> report[r], found |-> found]
  <2>1. t \in Task /\ Fetch(q, t) /\ t.entity = report[t.report] /\ report[t.report] # None
    BY <1>1, <1>3 DEF BeginVerifyPhoto, Task
  <2> QED
    BY <1>0, <2>1 DEF Begins
<1>4. ASSUME NEW u \in Verifier, NEW r \in Report, BeginTriage(q, u, r)
      PROVE  Begins(q)
  <2> DEFINE t == [op |-> "triage", report |-> r, entity |-> report[r]]
  <2>1. t \in Task /\ Fetch(q, t) /\ t.entity = report[t.report] /\ report[t.report] # None
    BY <1>1, <1>4 DEF BeginTriage, Task
  <2> QED
    BY <1>0, <2>1 DEF Begins
<1>5. ASSUME NEW u \in Verifier, NEW r \in Report, NEW kind \in DecisionKind, NEW match \in Match,
             NEW edges \in [Edge -> Closure], NEW into \in Request \cup {None},
             BeginReview(q, u, r, kind, match, edges, into)
      PROVE  Begins(q)
  <2> DEFINE t == [op |-> "review", report |-> r, entity |-> report[r], kind |-> kind,
                   match |-> match, edges |-> edges, into |-> into]
  <2>1. report[r] # None /\ Matches(r, match) /\ Fetch(q, t) /\ (into # None => Known(into))
    BY <1>5 DEF BeginReview
  <2>2. match \in Nat \cup {None}
    BY AdjudicationAssumption
  <2>3. t \in Task
    BY <1>1, <2>1, <2>2 DEF Task
  <2>4. t.entity = report[t.report] /\ report[t.report] # None
    BY <2>1
  <2>5. (t.match # None => t.entity.version = t.match) /\ (t.into # None => Known(t.into))
    BY <2>1 DEF Matches
  <2> HIDE DEF t
  <2> QED
    BY <1>0, <2>1, <2>3, <2>4, <2>5 DEF Begins
<1>6. ASSUME NEW u \in Verifier, Review(q, u)
      PROVE  Begins(q)
  <2>1. Impact \subseteq [Edge -> Closure] /\ [e \in Edge |-> "none"] \in [Edge -> Closure]
    BY AdjudicationAssumption DEF Closure
  <2>2. "CONFIRM_INCIDENT" \in DecisionKind /\ None \in Request \cup {None}
    BY DEF DecisionKind
  <2> QED
    BY <1>5, <1>6, <2>1, <2>2 DEF Review
<1> QED
  BY <1>0, <1>2, <1>3, <1>4, <1>6 DEF Ask

\* The steps of the specification.
LEMMA Steps ==
    ASSUME TypeOK, [Next]_vars
    PROVE  \/ \E r \in Report, s \in Submission : Submit(r, s)
           \/ \E q \in Request : \/ Begins(q)
                                 \/ Triage(q) \/ Refuse(q) \/ Confirm(q) \/ VerifyPhoto(q)
                                 \/ \E new \in Report : Amend(q, new)
                                 \/ \E i \in Request, es \in SUBSET Edge :
                                       pc[q] = "idle" /\ BeginResolve(q, i, es)
                                 \/ \E i, j \in Request : pc[q] = "idle" /\ BeginMerge(q, i, j)
                                 \/ Resolve(q) \/ EndMerge(q) \/ FailMerge(q)
           \/ UNCHANGED vars
  BY AskIs DEF Next, Answer

-----------------------------------------------------------------------------
\* What the writers of a report's row write.
LEMMA UpdateTypes ==
    ASSUME TypeOK, NEW q \in Request, work[q].report \in Report,
           NEW entity, UpdateReport(q, entity), Updated(entity) \in ReportRow
    PROVE  report' \in [Report -> ReportRow \cup {None}] /\ overwritten' \subseteq Report
  BY DEF TypeOK, UpdateReport

\* A request that ends leaves a state of the right types.
LEMMA FinishTypes ==
    ASSUME TypeOK, NEW q \in Request, Finish(q)
    PROVE  /\ pc' \in [Request -> {"idle", "fetched", "evaluated", "merging", "done"}]
           /\ work' \in [Request -> Task \cup Evaluation \cup Merging \cup {None}]
  BY DEF TypeOK, Finish

\* The roads of a linked report are closures.
LEMMA LinkTypes ==
    ASSUME NEW q \in Request, work[q].edges \in [Edge -> Closure]
    PROVE  EdgesToLink(q) \in [Edge -> Closure]
  BY DEF EdgesToLink, Closure

\* The decision of a review is on the report reviewed, with its kind and its If-Match.
LEMMA ReviewedFields ==
    ASSUME NEW q \in Request, work[q] \in Task, work[q].op = "review", NEW into \in Request \cup {None}
    PROVE  /\ Reviewed(q, into) \in Decision
           /\ Reviewed(q, into).report = work[q].report /\ Reviewed(q, into).kind = work[q].kind
           /\ Reviewed(q, into).incident = into /\ Reviewed(q, into).match = work[q].match
  BY TaskFields DEF Reviewed, Decision

\* What a merge reads is a task of its kind.
LEMMA BeginMergeFields ==
    ASSUME TypeOK, NEW q \in Request, NEW i \in Request, NEW j \in Request, BeginMerge(q, i, j)
    PROVE  /\ work'[q] \in Merging /\ pc'[q] = "merging" /\ Mergeable(i, j)
           /\ work'[q].source = i /\ work'[q].target = j /\ work'[q].links = closes[i]
           /\ \A p \in Request : p # q => pc'[p] = pc[p] /\ work'[p] = work[p]
           /\ pc' \in [Request -> {"idle", "fetched", "evaluated", "merging", "done"}]
           /\ work' \in [Request -> Task \cup Evaluation \cup Merging \cup {None}]
           /\ UNCHANGED <<tables, history>>
<1> DEFINE t == [source |-> i, target |-> j, version |-> incident[i].version,
                 links |-> closes[i], reports |-> about[i] \ about[j],
                 edges |-> {e \in Edge : closes[i][e] # "none" /\ closes[j][e] = "none"}]
<1>1. work' = [work EXCEPT ![q] = t] /\ pc' = [pc EXCEPT ![q] = "merging"] /\ Mergeable(i, j)
      /\ UNCHANGED <<tables, history>>
  BY DEF BeginMerge
<1>2. incident[i].version \in Nat
  BY <1>1 DEF Mergeable, Known, TypeOK, Incident
<1>3. closes[i] \in [Edge -> Closure] /\ about[i] \ about[j] \in SUBSET Report
  BY DEF TypeOK
<1>4. t \in Merging /\ t.source = i /\ t.target = j /\ t.links = closes[i]
  BY <1>2, <1>3 DEF Merging
<1> HIDE DEF t
<1> QED
  BY <1>1, <1>4 DEF TypeOK

\* A merge writes the row of its source, resolved, the target's links and rows of its own.
LEMMA EndMergeFields ==
    ASSUME TypeOK, WorkInv, NEW q \in Request, EndMerge(q)
    PROVE  LET i == work[q].source
               j == work[q].target
           IN /\ i \in Request /\ j \in Request /\ i # j /\ Known(i) /\ Known(j)
              /\ work[q] \in Merging /\ pc[q] = "merging"
              /\ incident' \in [Request -> Incident \cup {None}]
              /\ incident'[i] \in Incident /\ incident'[i].lifecycle = "RESOLVED"
              /\ \A x \in Request : x # i => incident'[x] = incident[x]
              /\ MergedLinks(q) \in [Edge -> Closure]
              /\ closes'[j] = MergedLinks(q)
<1> DEFINE i == work[q].source
           j == work[q].target
<1>1. pc[q] = "merging" /\ work[q] \in Merging /\ Mergeable(i, j)
  BY DEF EndMerge, WorkInv, WorkOf
<1>2. i \in Request /\ j \in Request /\ work[q].version \in Nat /\ work[q].links \in [Edge -> Closure]
  BY <1>1, MergingFields
<1>3. incident[i] \in Incident /\ i # j /\ Known(i) /\ Known(j)
  BY <1>1, <1>2 DEF Mergeable, Known, TypeOK
<1>4. PICK version \in {work[q].version, incident[i].version} :
          incident' = [incident EXCEPT ![i].lifecycle = "RESOLVED", ![i].version = version + 1]
  BY DEF EndMerge
<1>5. version + 1 \in Nat
  BY <1>2, <1>3, <1>4 DEF Incident
<1> DEFINE n == version + 1
<1>6. n \in Nat /\ incident' = [incident EXCEPT ![i].lifecycle = "RESOLVED", ![i].version = n]
  BY <1>4, <1>5
<1>7. MergedLinks(q) \in [Edge -> Closure]
  BY <1>2 DEF MergedLinks, TypeOK
<1>8. closes' = [closes EXCEPT ![j] = MergedLinks(q)]
  BY DEF EndMerge
<1> HIDE DEF i, j, n
<1> DEFINE row == [incident[i] EXCEPT !.lifecycle = "RESOLVED", !.version = n]
<1>9. incident' = [incident EXCEPT ![i] = row] /\ row \in Incident /\ row.lifecycle = "RESOLVED"
  <2>1. incident' = [incident EXCEPT ![i] = row]
    BY <1>2, <1>3, <1>6 DEF TypeOK, Incident
  <2>2. row \in Incident /\ row.lifecycle = "RESOLVED"
    BY <1>3, <1>6, MergedFields
  <2> QED
    BY <2>1, <2>2
<1> HIDE DEF row
<1>10. /\ incident'[i] \in Incident /\ incident'[i].lifecycle = "RESOLVED"
       /\ \A x \in Request : x # i => incident'[x] = incident[x]
       /\ incident' \in [Request -> Incident \cup {None}]
  BY <1>2, <1>9 DEF TypeOK
<1>11. closes'[j] = MergedLinks(q)
  BY <1>2, <1>8 DEF TypeOK
<1> QED
  BY <1>1, <1>2, <1>3, <1>7, <1>10, <1>11 DEF i, j

\* Every step keeps the types of the state.
LEMMA TypeStep ==
    ASSUME TypeOK, WorkInv, [Next]_vars
    PROVE  TypeOK'
<1>1. ASSUME NEW r \in Report, NEW s \in Submission, Submit(r, s)
      PROVE  TypeOK'
  <2>1. report' \in [Report -> ReportRow \cup {None}]
    BY <1>1, SubmittedFields DEF Submit, TypeOK
  <2> QED
    BY <1>1, <2>1 DEF Submit, TypeOK, history
<1>2. ASSUME NEW q \in Request, Begins(q)
      PROVE  TypeOK'
  BY <1>2 DEF Begins, Fetch, TypeOK, tables, history
<1>3. ASSUME NEW q \in Request, Triage(q)
      PROVE  TypeOK'
  <2>1. work[q] \in Task
    BY <1>3 DEF Triage, At, WorkInv, WorkOf
  <2>2. Updated([work[q].entity EXCEPT !.state = "UNDER_REVIEW"]) \in ReportRow
    BY <2>1, TaskFields, RowFields DEF ReviewState
  <2>3. report' \in [Report -> ReportRow \cup {None}] /\ overwritten' \subseteq Report
    BY <1>3, <2>1, <2>2, TaskFields, UpdateTypes DEF Triage
  <2> QED
    BY <1>3, <2>3, FinishTypes DEF Triage, TypeOK
<1>4. ASSUME NEW q \in Request, Refuse(q)
      PROVE  TypeOK'
  <2>1. work[q] \in Task /\ work[q].op = "review"
    BY <1>4 DEF Refuse, At, WorkInv, WorkOf
  <2>2. PICK state \in {"REJECTED", "MORE_INFO_NEEDED"} :
            UpdateReport(q, [work[q].entity EXCEPT !.state = state])
    BY <1>4 DEF Refuse
  <2>3. Updated([work[q].entity EXCEPT !.state = state]) \in ReportRow
    BY <2>1, TaskFields, RowFields DEF ReviewState
  <2>4. report' \in [Report -> ReportRow \cup {None}] /\ overwritten' \subseteq Report
    BY <2>1, <2>2, <2>3, TaskFields, UpdateTypes
  <2>5. decision' \in [Request -> Decision \cup {None}]
    BY <1>4, <2>1, ReviewedFields DEF Refuse, TypeOK
  <2> QED
    BY <1>4, <2>4, <2>5, FinishTypes DEF Refuse, TypeOK
<1>5. ASSUME NEW q \in Request, Confirm(q)
      PROVE  TypeOK'
  <2> DEFINE links == EdgesToLink(q)
             into  == IF work[q].into = None THEN q ELSE work[q].into
  <2>1. work[q] \in Task /\ work[q].op = "review"
    BY <1>5 DEF Confirm, At, WorkInv, WorkOf
  <2>2. /\ work[q].report \in Report /\ work[q].entity \in ReportRow
        /\ work[q].edges \in [Edge -> Closure] /\ into \in Request
    BY <2>1, TaskFields
  <2>3. links \in [Edge -> Closure] /\ Affected(links) \subseteq Edge
    BY <2>2, LinkTypes DEF Affected
  <2>4. report' \in [Report -> ReportRow \cup {None}] /\ overwritten' \subseteq Report
    <3>1. Updated([work[q].entity EXCEPT !.state = "VERIFIED"]) \in ReportRow
      BY <2>2, RowFields DEF ReviewState
    <3> QED
      BY <1>5, <2>2, <3>1, UpdateTypes DEF Confirm
  <2>5. decision' \in [Request -> Decision \cup {None}]
    BY <1>5, <2>1, <2>2, ReviewedFields DEF Confirm, TypeOK
  <2>6. event' \in [Request -> OutboxEvent \cup {None}]
    BY <1>5, <2>2 DEF Confirm, TypeOK, OutboxEvent
  <2>7. status' \in [Edge -> Status]
    <3>1. \A severity : Confirmed(links, severity) \in Status
      BY DEF Confirmed, Status
    <3> HIDE DEF links
    <3>2. status' = [e \in Edge |-> IF e \in Affected(links)
                          THEN Confirmed(links, work[q].entity.severity) ELSE status[e]]
      BY <1>5 DEF Confirm, links
    <3> QED
      BY <3>1, <3>2 DEF TypeOK
  <2>8. /\ incident' \in [Request -> Incident \cup {None}]
        /\ about' \in [Request -> SUBSET Report]
        /\ closes' \in [Request -> [Edge -> Closure]]
        /\ outrun' \subseteq Edge
    <3>1. CASE work[q].into = None
      <4>1. [lifecycle |-> "ACTIVE", severity |-> work[q].entity.severity, version |-> 1] \in Incident
        BY <2>2, RowFields DEF Incident
      <4> HIDE DEF links
      <4>2. CreateIncident(q, links)
            /\ outrun' = (outrun \ Affected(links)) \cup (Affected(links) \cap Evaluated)
        BY <1>5, <3>1 DEF Confirm, links
      <4> QED
        BY <2>2, <2>3, <4>1, <4>2 DEF CreateIncident, TypeOK
    <3>2. CASE work[q].into # None
      BY <1>5, <3>2 DEF Confirm, TypeOK
    <3> QED
      BY <3>1, <3>2
  <2>9. merge' = merge
    BY <1>5 DEF Confirm
  <2>10. /\ pc' \in [Request -> {"idle", "fetched", "evaluated", "merging", "done"}]
         /\ work' \in [Request -> Task \cup Evaluation \cup Merging \cup {None}]
    BY <1>5, FinishTypes DEF Confirm
  <2> QED
    BY <2>4, <2>5, <2>6, <2>7, <2>8, <2>9, <2>10 DEF TypeOK
<1>6. ASSUME NEW q \in Request, VerifyPhoto(q)
      PROVE  TypeOK'
  <2> DEFINE seen == [work[q].entity EXCEPT !.cv = work[q].found]
  <2>1. work[q] \in Task /\ work[q].op = "photo"
    BY <1>6 DEF VerifyPhoto, At, WorkInv, WorkOf
  <2>2. seen \in ReportRow
    BY <2>1, TaskFields, RowFields
  <2> HIDE DEF seen
  <2>3. Updated(seen) \in ReportRow
        /\ Updated([seen EXCEPT !.state = "PROVISIONAL_CAUTION"]) \in ReportRow
    BY <2>2, RowFields DEF ReviewState
  <2>4. UpdateReport(q, seen) \/ UpdateReport(q, [seen EXCEPT !.state = "PROVISIONAL_CAUTION"])
    BY <1>6 DEF VerifyPhoto, seen
  <2>5. report' \in [Report -> ReportRow \cup {None}] /\ overwritten' \subseteq Report
    BY <2>1, <2>3, <2>4, TaskFields, UpdateTypes
  <2> QED
    BY <1>6, <2>5, FinishTypes DEF VerifyPhoto, TypeOK
<1>7. ASSUME NEW q \in Request, NEW new \in Report, Amend(q, new)
      PROVE  TypeOK'
  <2>1. work[q] \in Task /\ work[q].op = "amend"
    BY <1>7 DEF Amend, At, WorkInv, WorkOf
  <2>2. work[q].report \in Report /\ work[q].entity \in ReportRow /\ work[q].correction \in Submission
    BY <2>1, TaskFields
  <2>3. report' \in [Report -> ReportRow \cup {None}] /\ overwritten' \subseteq Report
    <3>1. Updated([work[q].entity EXCEPT !.state = "UNDER_REVIEW"]) \in ReportRow
      BY <2>2, RowFields DEF ReviewState
    <3>2. PICK state \in StateAtSubmission(work[q].correction.severity) :
              IF work[q].entity.state = "MORE_INFO_NEEDED"
              THEN /\ report' = [report EXCEPT ![new] = Submitted(work[q].correction, state, 2),
                        ![work[q].report] = Updated([work[q].entity EXCEPT !.state = "UNDER_REVIEW"])]
                   /\ overwritten' = IF report[work[q].report] = work[q].entity THEN overwritten
                                     ELSE overwritten \cup {work[q].report}
              ELSE /\ report' = [report EXCEPT ![new] = Submitted(work[q].correction, state, 2)]
                   /\ UNCHANGED overwritten
      BY <1>7 DEF Amend
    <3>3. Submitted(work[q].correction, state, 2) \in ReportRow
      BY <2>2, SubmittedFields
    <3> DEFINE correction == Submitted(work[q].correction, state, 2)
                back == Updated([work[q].entity EXCEPT !.state = "UNDER_REVIEW"])
    <3>4. correction \in ReportRow /\ back \in ReportRow
      BY <3>1, <3>3
    <3>5. CASE work[q].entity.state = "MORE_INFO_NEEDED"
      <4>1. /\ report' = [report EXCEPT ![new] = correction, ![work[q].report] = back]
            /\ overwritten' \in {overwritten, overwritten \cup {work[q].report}}
        BY <3>2, <3>5
      <4> HIDE DEF correction, back
      <4> QED
        BY <2>2, <3>4, <4>1 DEF TypeOK
    <3>6. CASE work[q].entity.state # "MORE_INFO_NEEDED"
      <4>1. report' = [report EXCEPT ![new] = correction] /\ overwritten' = overwritten
        BY <3>2, <3>6
      <4> HIDE DEF correction, back
      <4> QED
        BY <3>4, <4>1 DEF TypeOK
    <3> QED
      BY <3>5, <3>6
  <2> QED
    BY <1>7, <2>3, FinishTypes DEF Amend, TypeOK
<1>8. ASSUME NEW q \in Request, NEW i \in Request, NEW es \in SUBSET Edge, BeginResolve(q, i, es)
      PROVE  TypeOK'
  <2> DEFINE effective == [e \in es |-> Recalculated(e, i)]
  <2>1. effective \in [es -> Status]
    BY DEF Recalculated, Status
  <2>2. [op |-> "resolve", incident |-> i, effective |-> effective] \in Evaluation
    <3> HIDE DEF effective
    <3>1. effective \in UNION {[fs -> Status] : fs \in SUBSET Edge}
      BY <2>1
    <3> QED
      BY <3>1 DEF Evaluation
  <2> QED
    BY <1>8, <2>2 DEF BeginResolve, TypeOK, tables, history
<1>9. ASSUME NEW q \in Request, Resolve(q)
      PROVE  TypeOK'
  <2>1. work[q] \in Evaluation /\ work[q].incident \in Request /\ Known(work[q].incident)
    BY <1>9, EvaluationFields DEF Resolve, WorkInv, WorkOf
  <2>2. incident' \in [Request -> Incident \cup {None}]
    <3>1. incident[work[q].incident] \in Incident
      BY <2>1 DEF Known, TypeOK
    <3>2. [incident[work[q].incident] EXCEPT !.lifecycle = "RESOLVED", !.version = @ + 2] \in Incident
      BY <3>1, ResolvedFields
    <3>3. incident' = [incident EXCEPT ![work[q].incident] =
             [incident[work[q].incident] EXCEPT !.lifecycle = "RESOLVED", !.version = @ + 2]]
      BY <1>9, <2>1, <3>1 DEF Resolve, TypeOK, Incident
    <3> QED
      BY <2>1, <3>2, <3>3 DEF TypeOK
  <2>3. status' \in [Edge -> Status]
    BY <1>9, <2>1, EvaluationFields DEF Resolve, TypeOK
  <2>4. event' \in [Request -> OutboxEvent \cup {None}]
    BY <1>9, <2>1 DEF Resolve, TypeOK, OutboxEvent
  <2> QED
    BY <1>9, <2>2, <2>3, <2>4, FinishTypes DEF Resolve, TypeOK, history
<1>10. ASSUME NEW q \in Request, EndMerge(q)
       PROVE  TypeOK'
  <2> DEFINE i == work[q].source
             j == work[q].target
  <2>1. /\ i \in Request /\ j \in Request /\ i # j /\ work[q] \in Merging
        /\ incident' \in [Request -> Incident \cup {None}]
        /\ MergedLinks(q) \in [Edge -> Closure]
    BY <1>10, EndMergeFields
  <2>2. closes' \in [Request -> [Edge -> Closure]] /\ about' \in [Request -> SUBSET Report]
    BY <1>10, <2>1, MergingFields DEF EndMerge, TypeOK
  <2>3. event' \in [Request -> OutboxEvent \cup {None}]
    BY <1>10, <2>1 DEF EndMerge, TypeOK, OutboxEvent
  <2>4. /\ merge' \in [Request -> Merge \cup {None}]
        /\ \A p \in Request : merge'[p] # None => merge'[p].source # merge'[p].target
    <3>1. [source |-> i, target |-> j] \in Merge
      BY <2>1 DEF Merge
    <3> QED
      BY <1>10, <2>1, <3>1 DEF EndMerge, TypeOK
  <2>5. outrun' \subseteq Edge
    BY <1>10 DEF EndMerge, TypeOK
  <2>6. UNCHANGED <<report, status, decision, overwritten>> /\ Finish(q)
    BY <1>10 DEF EndMerge
  <2> QED
    BY <2>1, <2>2, <2>3, <2>4, <2>5, <2>6, FinishTypes DEF TypeOK
<1>11. ASSUME NEW q \in Request, FailMerge(q)
       PROVE  TypeOK'
  BY <1>11, FinishTypes DEF FailMerge, TypeOK, tables, history
<1>12. ASSUME NEW q \in Request, NEW i \in Request, NEW j \in Request, BeginMerge(q, i, j)
       PROVE  TypeOK'
  <2>1. /\ pc' \in [Request -> {"idle", "fetched", "evaluated", "merging", "done"}]
        /\ work' \in [Request -> Task \cup Evaluation \cup Merging \cup {None}]
        /\ UNCHANGED <<tables, history>>
    BY <1>12, BeginMergeFields
  <2> QED
    BY <2>1 DEF TypeOK, tables, history
<1>13. CASE UNCHANGED vars
  BY <1>13 DEF vars, tables, history, TypeOK
<1> QED
  BY <1>1, <1>2, <1>3, <1>4, <1>5, <1>6, <1>7, <1>8, <1>9, <1>10, <1>11, <1>12, <1>13, Steps


-----------------------------------------------------------------------------
\* The rows a step leaves as they were: a request writes its own, once, and an
\* incident stays in the table.
LEMMA KeptRows ==
    ASSUME TypeOK, OwnRows, WorkInv, [Next]_vars, NEW p \in Request
    PROVE  /\ decision[p] # None => decision'[p] = decision[p]
           /\ event[p] # None => event'[p] = event[p]
           /\ merge[p] # None => merge'[p] = merge[p]
           /\ Known(p) => Known(p)'
<1>1. CASE \E r \in Report, s \in Submission : Submit(r, s)
  BY <1>1 DEF Submit, Known
<1>2. ASSUME NEW q \in Request, Begins(q)
      PROVE  UNCHANGED tables
  BY <1>2 DEF Begins, Fetch
<1>3. ASSUME NEW q \in Request, Triage(q) \/ VerifyPhoto(q) \/ \E new \in Report : Amend(q, new)
      PROVE  UNCHANGED <<incident, decision, event, merge>>
  BY <1>3 DEF Triage, VerifyPhoto, Amend
<1>4. ASSUME NEW q \in Request, Refuse(q)
      PROVE  /\ UNCHANGED <<incident, event, merge>>
             /\ decision[p] # None => decision'[p] = decision[p]
  BY <1>4 DEF Refuse, At, OwnRows, TypeOK
<1>5. ASSUME NEW q \in Request, Confirm(q)
      PROVE  /\ UNCHANGED merge
             /\ decision[p] # None => decision'[p] = decision[p]
             /\ event[p] # None => event'[p] = event[p]
             /\ Known(p) => Known(p)'
  <2>1. pc[q] = "fetched" /\ decision[q] = None /\ event[q] = None /\ incident[q] = None
    BY <1>5 DEF Confirm, At, OwnRows
  <2>2. p # q => decision'[p] = decision[p] /\ event'[p] = event[p] /\ incident'[p] = incident[p]
    BY <1>5 DEF Confirm, CreateIncident, TypeOK
  <2> QED
    BY <1>5, <2>1, <2>2 DEF Confirm, Known
<1>6. ASSUME NEW q \in Request, NEW i \in Request, NEW es \in SUBSET Edge, BeginResolve(q, i, es)
      PROVE  UNCHANGED tables
  BY <1>6 DEF BeginResolve
<1>7. ASSUME NEW q \in Request, Resolve(q)
      PROVE  /\ UNCHANGED <<decision, merge>>
             /\ event[p] # None => event'[p] = event[p]
             /\ Known(p) => Known(p)'
  <2>1. pc[q] = "evaluated" /\ event[q] = None
    BY <1>7 DEF Resolve, OwnRows
  <2>2. \A i \in Request : Known(i) => Known(i)'
    <3>1. incident' \in [Request -> Incident \cup {None}]
      BY <1>7, TypeStep DEF TypeOK
    <3>2. incident'[work[q].incident] \in Incident
      <4>1. work[q].incident \in Request /\ incident[work[q].incident] \in Incident
        BY <2>1, EvaluationFields DEF WorkInv, WorkOf, Known, TypeOK
      <4>2. incident' = [incident EXCEPT ![work[q].incident] =
               [incident[work[q].incident] EXCEPT !.lifecycle = "RESOLVED", !.version = @ + 2]]
        BY <1>7, <4>1 DEF Resolve, TypeOK, Incident
      <4> QED
        BY <4>1, <4>2, ResolvedFields DEF TypeOK
    <3>3. \A i \in Request : i # work[q].incident => incident'[i] = incident[i]
      BY <1>7 DEF Resolve, TypeOK
    <3> QED
      BY <3>2, <3>3, NoneIsNothing DEF Known
  <2> QED
    BY <1>7, <2>1, <2>2 DEF Resolve, TypeOK
<1>8. ASSUME NEW q \in Request, EndMerge(q)
      PROVE  /\ UNCHANGED decision
             /\ event[p] # None => event'[p] = event[p]
             /\ merge[p] # None => merge'[p] = merge[p]
             /\ Known(p) => Known(p)'
  <2>1. event[q] = None /\ merge[q] = None
    BY <1>8 DEF OwnRows, EndMerge
  <2>2. Known(p) => Known(p)'
    BY <1>8, EndMergeFields, NoneIsNothing DEF Known
  <2> QED
    BY <1>8, <2>1, <2>2 DEF EndMerge, TypeOK
<1>9. ASSUME NEW q \in Request,
             FailMerge(q) \/ \E i, j \in Request : BeginMerge(q, i, j)
      PROVE  UNCHANGED tables
  BY <1>9 DEF FailMerge, BeginMerge
<1>10. CASE UNCHANGED vars
  BY <1>10 DEF vars, tables, Known
<1> QED
  BY <1>1, <1>2, <1>3, <1>4, <1>5, <1>6, <1>7, <1>8, <1>9, <1>10, Steps DEF tables, Known

\* The requests other than the one that takes the step.
Same(p) == pc'[p] = pc[p] /\ work'[p] = work[p]

Acts(q) ==
    \/ pc[q] = "idle" /\ pc'[q] = "fetched" /\ Begins(q)
    \/ pc[q] = "idle" /\ pc'[q] = "evaluated" /\ \E i \in Request, es \in SUBSET Edge : BeginResolve(q, i, es)
    \/ pc[q] = "idle" /\ pc'[q] = "merging" /\ \E i, j \in Request : BeginMerge(q, i, j)
    \/ pc[q] # "done" /\ pc'[q] = "done"

\* Every step of the system is one of these.
LEMMA StepOf ==
    ASSUME TypeOK, [Next]_vars
    PROVE  \/ \E q \in Request : /\ Acts(q)
                                 /\ \A p \in Request : p # q => Same(p)
           \/ \A p \in Request : Same(p)
<1>1. CASE \E r \in Report, s \in Submission : Submit(r, s)
  BY <1>1 DEF Submit, Same
<1>2. ASSUME NEW q \in Request, Begins(q)
      PROVE  Acts(q) /\ \A p \in Request : p # q => Same(p)
  BY <1>2 DEF Begins, Fetch, Acts, Same, TypeOK
<1>3. ASSUME NEW q \in Request, Finish(q), pc[q] \in {"idle", "fetched", "evaluated", "merging"}
      PROVE  Acts(q) /\ \A p \in Request : p # q => Same(p)
  BY <1>3 DEF Finish, Acts, Same, TypeOK
<1>4. ASSUME NEW q \in Request,
             \/ Triage(q) \/ Refuse(q) \/ Confirm(q) \/ VerifyPhoto(q) \/ Resolve(q)
             \/ \E new \in Report : Amend(q, new)
             \/ EndMerge(q) \/ FailMerge(q)
      PROVE  Finish(q) /\ pc[q] \in {"idle", "fetched", "evaluated", "merging"}
  BY <1>4 DEF Triage, Refuse, Confirm, VerifyPhoto, Resolve, Amend, EndMerge, FailMerge, At
<1>5. ASSUME NEW q \in Request, pc[q] = "idle",
             \E i \in Request, es \in SUBSET Edge : BeginResolve(q, i, es)
      PROVE  Acts(q) /\ \A p \in Request : p # q => Same(p)
  BY <1>5 DEF BeginResolve, Acts, Same, TypeOK
<1>6. ASSUME NEW q \in Request, pc[q] = "idle", NEW i \in Request, NEW j \in Request, BeginMerge(q, i, j)
      PROVE  Acts(q) /\ \A p \in Request : p # q => Same(p)
  <2>1. pc'[q] = "merging" /\ \A p \in Request : p # q => pc'[p] = pc[p] /\ work'[p] = work[p]
    BY <1>6, BeginMergeFields
  <2> QED
    BY <1>6, <2>1 DEF Acts, Same
<1>7. CASE UNCHANGED vars
  BY <1>7 DEF vars, Same
<1> QED
  BY <1>1, <1>2, <1>3, <1>4, <1>5, <1>6, <1>7, Steps

\* What a request at work has read.
LEMMA WorkStep ==
    ASSUME TypeOK, OwnRows, WorkInv, [Next]_vars
    PROVE  WorkInv'
<1>1. \A p \in Request : Known(p) => Known(p)'
  BY KeptRows
<1>2. ASSUME NEW p \in Request, Same(p)
      PROVE  WorkOf(p)'
  <2>1. pc[p] = "evaluated" => work[p].incident \in Request /\ incident'[work[p].incident] # None
    BY <1>1, EvaluationFields DEF WorkInv, WorkOf, Known
  <2>2. At(p, "review") /\ work[p].into # None => incident'[work[p].into] # None
    BY <1>1, TaskFields DEF At, WorkInv, WorkOf, Known
  <2>3. pc[p] = "merging" => Mergeable(work[p].source, work[p].target)'
    BY <1>1, <1>2, MergingFields DEF Same, WorkInv, WorkOf, Mergeable, Known
  <2> QED
    BY <1>2, <2>1, <2>2, <2>3 DEF Same, WorkInv, WorkOf, At, Known
<1>3. ASSUME NEW q \in Request, Acts(q)
      PROVE  WorkOf(q)'
  <2>1. CASE Begins(q)
    <3>1. PICK t \in Task : /\ work'[q] = t /\ pc'[q] = "fetched" /\ incident' = incident
                            /\ t.op = "review" /\ t.into # None => Known(t.into)
      BY <2>1 DEF Begins, Fetch, tables, TypeOK
    <3> QED
      BY <3>1 DEF WorkOf, At, Known
  <2>2. ASSUME NEW i \in Request, NEW es \in SUBSET Edge, BeginResolve(q, i, es)
        PROVE  WorkOf(q)'
    <3>1. work'[q] = [op |-> "resolve", incident |-> i, effective |-> [e \in es |-> Recalculated(e, i)]]
          /\ pc'[q] = "evaluated" /\ incident[i] # None /\ incident' = incident
      BY <2>2 DEF BeginResolve, TypeOK, tables, Known
    <3>2. work'[q] \in Evaluation /\ work'[q].incident = i
      <4>1. [e \in es |-> Recalculated(e, i)] \in [es -> Status]
        BY DEF Recalculated, Status
      <4> QED
        BY <3>1, <4>1 DEF Evaluation
    <3> QED
      BY <3>1, <3>2 DEF WorkOf, At, Known
  <2>3. CASE pc'[q] = "done"
    BY <2>3 DEF WorkOf, At
  <2>4. ASSUME NEW i \in Request, NEW j \in Request, BeginMerge(q, i, j)
        PROVE  WorkOf(q)'
    <3>1. /\ work'[q] \in Merging /\ pc'[q] = "merging" /\ Mergeable(i, j) /\ incident' = incident
          /\ work'[q].source = i /\ work'[q].target = j
      BY <2>4, BeginMergeFields DEF tables
    <3> QED
      BY <3>1 DEF WorkOf, At, Mergeable, Known
  <2> QED
    BY <1>3, <2>1, <2>2, <2>3, <2>4 DEF Acts
<1>4. \A p \in Request : WorkOf(p)'
  BY <1>2, <1>3, StepOf
<1> QED
  BY <1>4 DEF WorkInv, WorkOf

\* A request writes rows of its own once, with its last step.
LEMMA OwnRowsStep ==
    ASSUME TypeOK, OwnRows, WorkInv, [Next]_vars
    PROVE  OwnRows'
<1>1. ASSUME NEW q \in Request, Refuse(q) \/ Confirm(q) \/ Resolve(q) \/ EndMerge(q)
      PROVE  OwnRows'
  <2>1. /\ pc' = [pc EXCEPT ![q] = "done"]
        /\ \A p \in Request : p # q =>
              decision'[p] = decision[p] /\ merge'[p] = merge[p] /\ event'[p] = event[p]
    <3>1. CASE Refuse(q)
      BY <3>1 DEF Refuse, Finish, TypeOK
    <3>2. CASE Confirm(q)
      BY <3>2 DEF Confirm, Finish, TypeOK
    <3>3. CASE Resolve(q)
      BY <3>3 DEF Resolve, Finish, TypeOK
    <3>4. CASE EndMerge(q)
      BY <3>4 DEF EndMerge, Finish, TypeOK
    <3> QED  BY <1>1, <3>1, <3>2, <3>3, <3>4
  <2>2. \A p \in Request : p # q /\ incident[p] = None => incident'[p] = None
    <3>1. CASE Refuse(q)
      BY <3>1 DEF Refuse
    <3>2. CASE Confirm(q)
      BY <3>2 DEF Confirm, CreateIncident, TypeOK
    <3>3. CASE Resolve(q)
      <4>1. Known(work[q].incident)
        BY <3>3 DEF Resolve, WorkInv, WorkOf
      <4> QED
        BY <3>3, <4>1 DEF Resolve, Known, TypeOK
    <3>4. CASE EndMerge(q)
      BY <3>4, EndMergeFields DEF Known
    <3> QED
      BY <1>1, <3>1, <3>2, <3>3, <3>4
  <2> QED
    BY <2>1, <2>2 DEF OwnRows, TypeOK
<1>2. ASSUME NEW q \in Request, Triage(q) \/ VerifyPhoto(q) \/ \E new \in Report : Amend(q, new)
      PROVE  OwnRows'
  BY <1>2 DEF Triage, VerifyPhoto, Amend, Finish, OwnRows, TypeOK
<1>3. ASSUME NEW q \in Request, pc[q] = "idle",
             Begins(q) \/ \E i \in Request, es \in SUBSET Edge : BeginResolve(q, i, es)
      PROVE  OwnRows'
  <2>1. UNCHANGED tables
    BY <1>3 DEF Begins, Fetch, BeginResolve
  <2>2. pc[q] # "done" /\ \A p \in Request : p # q => pc'[p] = pc[p]
    BY <1>3 DEF Begins, Fetch, BeginResolve, TypeOK
  <2> QED
    BY <2>1, <2>2 DEF OwnRows, tables
<1>4. CASE UNCHANGED vars \/ \E r \in Report, s \in Submission : Submit(r, s)
  BY <1>4 DEF vars, tables, Submit, OwnRows
<1>5. ASSUME NEW q \in Request,
             FailMerge(q) \/ \E i, j \in Request : pc[q] = "idle" /\ BeginMerge(q, i, j)
      PROVE  OwnRows'
  <2>1. UNCHANGED tables
    BY <1>5 DEF FailMerge, BeginMerge
  <2>2. pc[q] # "done" /\ \A p \in Request : p # q => pc'[p] = pc[p]
    BY <1>5 DEF FailMerge, BeginMerge, Finish, TypeOK
  <2> QED
    BY <2>1, <2>2 DEF OwnRows, tables
<1> QED
  BY <1>1, <1>2, <1>3, <1>4, <1>5, Steps DEF Begins


-----------------------------------------------------------------------------
\* The row of a report is new, or written by a request from the entity it read.
Writes(q, r) ==
    /\ pc[q] = "fetched" /\ work[q] \in Task /\ work[q].report = r
    /\ report'[r] \in ReportRow
    /\ report'[r].version = work[q].entity.version + 1
    /\ report[r] = work[q].entity \/ r \in overwritten'

\* An update writes back the entity fetched, with the next version, and no other row.
LEMMA UpdateWrites ==
    ASSUME TypeOK, NEW q \in Request, pc[q] = "fetched", work[q] \in Task,
           NEW entity, UpdateReport(q, entity), Updated(entity) \in ReportRow,
           Updated(entity).version = work[q].entity.version + 1
    PROVE  /\ Writes(q, work[q].report)
           /\ report'[work[q].report] = Updated(entity)
           /\ \A r \in Report : r # work[q].report => report'[r] = report[r]
           /\ overwritten \subseteq overwritten'
<1>1. work[q].report \in Report
  BY TaskFields
<1> QED
  BY <1>1 DEF UpdateReport, Writes, TypeOK

\* How a report changes: it is submitted, or a request writes back what it fetched.
ReportsWritten ==
    /\ overwritten \subseteq overwritten'
    /\ \A r \in Report :
          \/ report'[r] = report[r]
          \/ report[r] = None /\ report'[r].state \in {"SUBMITTED", "PROVISIONAL_CAUTION"}
          \/ \E q \in Request :
                /\ Writes(q, r)
                /\ \/ report'[r].state \notin {"VERIFIED", "REJECTED"}
                   \/ report'[r].state = work[q].entity.state
                   \/ report'[r].state = "VERIFIED" /\ Confirm(q)
                   \/ report'[r].state = "REJECTED" /\ Refuse(q) /\ work[q].kind = "REJECT_REPORT"

\* Every step changes reports in these ways only.
LEMMA RowsWritten ==
    ASSUME TypeOK, WorkInv, [Next]_vars
    PROVE  ReportsWritten
<1> USE DEF ReportsWritten
<1>1. ASSUME NEW x \in Report, NEW s \in Submission, Submit(x, s)
      PROVE  ReportsWritten
  <2>1. PICK state \in StateAtSubmission(s.severity) :
            report' = [report EXCEPT ![x] = Submitted(s, state, 1)]
    BY <1>1 DEF Submit
  <2>2. report[x] = None /\ overwritten' = overwritten
    BY <1>1 DEF Submit, NextReport, history
  <2> QED
    BY <2>1, <2>2, SubmittedFields DEF TypeOK
<1>2. ASSUME NEW q \in Request, Triage(q)
      PROVE  ReportsWritten
  <2>1. pc[q] = "fetched" /\ work[q] \in Task
    BY <1>2 DEF Triage, At, WorkInv, WorkOf
  <2> DEFINE entity == [work[q].entity EXCEPT !.state = "UNDER_REVIEW"]
  <2>2. /\ Updated(entity) \in ReportRow /\ Updated(entity).state = "UNDER_REVIEW"
        /\ Updated(entity).version = work[q].entity.version + 1
    <3>1. work[q].entity \in ReportRow /\ "UNDER_REVIEW" \in ReviewState
      BY <2>1, TaskFields DEF ReviewState
    <3>2. Updated(entity) \in ReportRow
      BY <3>1, RowFields
    <3>3. Updated(entity).state = "UNDER_REVIEW"
      BY <3>1 DEF Updated, ReportRow
    <3>4. Updated(entity).version = work[q].entity.version + 1
      BY <3>1, RowFields
    <3> QED
      BY <3>2, <3>3, <3>4
  <2>3. UpdateReport(q, entity)
    BY <1>2 DEF Triage
  <2> HIDE DEF entity
  <2> QED
    BY <2>1, <2>2, <2>3, UpdateWrites
<1>3. ASSUME NEW q \in Request, Refuse(q)
      PROVE  ReportsWritten
  <2>1. pc[q] = "fetched" /\ work[q] \in Task
    BY <1>3 DEF Refuse, At, WorkInv, WorkOf
  <2>2. PICK state \in {"REJECTED", "MORE_INFO_NEEDED"} :
            /\ UpdateReport(q, [work[q].entity EXCEPT !.state = state])
            /\ state = "REJECTED" => work[q].kind = "REJECT_REPORT"
    BY <1>3 DEF Refuse
  <2> DEFINE entity == [work[q].entity EXCEPT !.state = state]
  <2>3. /\ Updated(entity) \in ReportRow /\ Updated(entity).state = state
        /\ Updated(entity).version = work[q].entity.version + 1
    <3>1. work[q].entity \in ReportRow /\ state \in ReviewState
      BY <2>1, TaskFields DEF ReviewState
    <3> QED
      BY <3>1, StateFields
  <2>4. UpdateReport(q, entity)
    BY <2>2
  <2> HIDE DEF entity
  <2> QED
    BY <1>3, <2>1, <2>2, <2>3, <2>4, UpdateWrites
<1>4. ASSUME NEW q \in Request, Confirm(q)
      PROVE  ReportsWritten
  <2>1. pc[q] = "fetched" /\ work[q] \in Task
    BY <1>4 DEF Confirm, At, WorkInv, WorkOf
  <2> DEFINE entity == [work[q].entity EXCEPT !.state = "VERIFIED"]
  <2>2. /\ Updated(entity) \in ReportRow /\ Updated(entity).state = "VERIFIED"
        /\ Updated(entity).version = work[q].entity.version + 1
    <3>1. work[q].entity \in ReportRow /\ "VERIFIED" \in ReviewState
      BY <2>1, TaskFields DEF ReviewState
    <3>2. Updated(entity) \in ReportRow
      BY <3>1, RowFields
    <3>3. Updated(entity).state = "VERIFIED"
      BY <3>1 DEF Updated, ReportRow
    <3>4. Updated(entity).version = work[q].entity.version + 1
      BY <3>1, RowFields
    <3> QED
      BY <3>2, <3>3, <3>4
  <2>3. UpdateReport(q, entity)
    BY <1>4 DEF Confirm
  <2> HIDE DEF entity
  <2> QED
    BY <1>4, <2>1, <2>2, <2>3, UpdateWrites
<1>5. ASSUME NEW q \in Request, VerifyPhoto(q)
      PROVE  ReportsWritten
  <2> DEFINE seen == [work[q].entity EXCEPT !.cv = work[q].found]
  <2>1. pc[q] = "fetched" /\ work[q] \in Task /\ work[q].op = "photo"
    BY <1>5 DEF VerifyPhoto, At, WorkInv, WorkOf
  <2>2. seen \in ReportRow /\ seen.state = work[q].entity.state /\ seen.version = work[q].entity.version
    BY <2>1, TaskFields, RowFields
  <2>3. UpdateReport(q, seen) \/ UpdateReport(q, [seen EXCEPT !.state = "PROVISIONAL_CAUTION"])
    BY <1>5 DEF VerifyPhoto
  <2> HIDE DEF seen
  <2>4. PICK entity : /\ UpdateReport(q, entity) /\ Updated(entity) \in ReportRow
                      /\ Updated(entity).version = work[q].entity.version + 1
                      /\ Updated(entity).state \in {"PROVISIONAL_CAUTION", work[q].entity.state}
    <3> DEFINE cautioned == [seen EXCEPT !.state = "PROVISIONAL_CAUTION"]
    <3>1. "PROVISIONAL_CAUTION" \in ReviewState
      BY DEF ReviewState
    <3>2. Updated(cautioned) \in ReportRow
      BY <2>2, <3>1, RowFields
    <3>3. Updated(cautioned).state = "PROVISIONAL_CAUTION"
      BY <2>2, RowFields
    <3>4. Updated(cautioned).version = seen.version + 1
      BY <2>2, RowFields
    <3>5. /\ Updated(seen) \in ReportRow /\ Updated(seen).state = seen.state
          /\ Updated(seen).version = seen.version + 1
      BY <2>2, RowFields
    <3>6. UpdateReport(q, seen) \/ UpdateReport(q, cautioned)
      BY <2>3
    <3> HIDE DEF cautioned
    <3> QED
      BY <2>2, <3>2, <3>3, <3>4, <3>5, <3>6
  <2> QED
    BY <2>1, <2>4, UpdateWrites
<1>6. ASSUME NEW q \in Request, NEW new \in Report, Amend(q, new)
      PROVE  ReportsWritten
  <2>1. /\ pc[q] = "fetched" /\ work[q] \in Task /\ work[q].op = "amend"
        /\ report[new] = None
    BY <1>6 DEF Amend, At, WorkInv, WorkOf, NextReport
  <2>2. work[q].report \in Report /\ work[q].entity \in ReportRow /\ work[q].correction \in Submission
    BY <2>1, TaskFields
  <2> DEFINE back == Updated([work[q].entity EXCEPT !.state = "UNDER_REVIEW"])
  <2>3. /\ back \in ReportRow /\ back.state = "UNDER_REVIEW"
        /\ back.version = work[q].entity.version + 1
    <3>1. "UNDER_REVIEW" \in ReviewState
      BY DEF ReviewState
    <3> QED
      BY <2>2, <3>1, StateFields
  <2>4. PICK correction \in ReportRow :
            /\ correction.state \in {"SUBMITTED", "PROVISIONAL_CAUTION"}
            /\ \/ /\ report' = [report EXCEPT ![new] = correction, ![work[q].report] = back]
                  /\ overwritten' = IF report[work[q].report] = work[q].entity THEN overwritten
                                    ELSE overwritten \cup {work[q].report}
               \/ report' = [report EXCEPT ![new] = correction] /\ UNCHANGED overwritten
    <3>1. PICK state \in StateAtSubmission(work[q].correction.severity) :
              IF work[q].entity.state = "MORE_INFO_NEEDED"
              THEN /\ report' = [report EXCEPT ![new] = Submitted(work[q].correction, state, 2),
                        ![work[q].report] = back]
                   /\ overwritten' = IF report[work[q].report] = work[q].entity THEN overwritten
                                     ELSE overwritten \cup {work[q].report}
              ELSE /\ report' = [report EXCEPT ![new] = Submitted(work[q].correction, state, 2)]
                   /\ UNCHANGED overwritten
      BY <1>6 DEF Amend
    <3>2. /\ Submitted(work[q].correction, state, 2) \in ReportRow
          /\ Submitted(work[q].correction, state, 2).state \in {"SUBMITTED", "PROVISIONAL_CAUTION"}
      BY <2>2, SubmittedFields
    <3> HIDE DEF back
    <3> QED
      BY <3>1, <3>2
  <2> HIDE DEF back
  <2>5. CASE report' = [report EXCEPT ![new] = correction] /\ UNCHANGED overwritten
    BY <2>1, <2>4, <2>5 DEF TypeOK
  <2>6. CASE /\ report' = [report EXCEPT ![new] = correction, ![work[q].report] = back]
             /\ overwritten' = IF report[work[q].report] = work[q].entity THEN overwritten
                               ELSE overwritten \cup {work[q].report}
    <3>1. /\ report'[work[q].report] = back
          /\ new # work[q].report => report'[new] = correction
          /\ \A r \in Report \ {new, work[q].report} : report'[r] = report[r]
      BY <2>2, <2>6 DEF TypeOK
    <3>2. Writes(q, work[q].report)
      BY <2>1, <2>2, <2>3, <2>6, <3>1 DEF Writes
    <3>3. overwritten \subseteq overwritten'
      BY <2>6
    <3>4. ASSUME NEW r \in Report, r # work[q].report, report'[r] # report[r]
          PROVE  report[r] = None /\ report'[r].state \in {"SUBMITTED", "PROVISIONAL_CAUTION"}
      BY <2>1, <2>4, <3>1, <3>4
    <3>5. report'[work[q].report].state \notin {"VERIFIED", "REJECTED"}
      BY <2>3, <3>1
    <3> QED
      BY <3>2, <3>3, <3>4, <3>5
  <2> QED
    BY <2>4, <2>5, <2>6
<1>7. UNCHANGED <<report, overwritten>> => ReportsWritten
  OBVIOUS
<1>8. ASSUME NEW q \in Request, Begins(q)
      PROVE  ReportsWritten
  BY <1>7, <1>8 DEF Begins, Fetch, tables, history
<1>9. ASSUME NEW q \in Request, Resolve(q)
      PROVE  ReportsWritten
  BY <1>7, <1>9 DEF Resolve, history
<1>10. ASSUME NEW q \in Request, NEW i \in Request, NEW es \in SUBSET Edge, BeginResolve(q, i, es)
       PROVE  ReportsWritten
  BY <1>7, <1>10 DEF BeginResolve, tables, history
<1>11. ASSUME NEW q \in Request,
              EndMerge(q) \/ FailMerge(q) \/ \E i, j \in Request : BeginMerge(q, i, j)
       PROVE  ReportsWritten
  BY <1>7, <1>11 DEF EndMerge, FailMerge, BeginMerge, tables, history
<1>12. CASE UNCHANGED vars
  BY <1>7, <1>12 DEF vars, tables, history
<1> HIDE DEF ReportsWritten
<1> QED
  BY <1>1, <1>2, <1>3, <1>4, <1>5, <1>6, <1>8, <1>9, <1>10, <1>11, <1>12, Steps

\* A decision is recorded with the write of its report, by one request at a time.
LEMMA NewDecision ==
    ASSUME TypeOK, WorkInv, [Next]_vars, NEW p \in Request, decision'[p] # decision[p]
    PROVE  /\ At(p, "review") /\ work[p] \in Task
           /\ decision'[p].report = work[p].report /\ decision'[p].match = work[p].match
           /\ Writes(p, work[p].report)
           /\ \A q \in Request : q # p => decision'[q] = decision[q]
<1>1. \E q \in Request : Refuse(q) \/ Confirm(q)
  <2>1. ASSUME NEW q \in Request, Begins(q)  PROVE decision' = decision
    BY <2>1 DEF Begins, Fetch, tables
  <2>2. ASSUME NEW q \in Request, Triage(q) \/ VerifyPhoto(q)  PROVE decision' = decision
    BY <2>2 DEF Triage, VerifyPhoto
  <2>3. ASSUME NEW q \in Request, NEW new \in Report, Amend(q, new)  PROVE decision' = decision
    BY <2>3 DEF Amend
  <2>4. ASSUME NEW q \in Request, NEW i \in Request, NEW es \in SUBSET Edge, BeginResolve(q, i, es)
        PROVE  decision' = decision
    BY <2>4 DEF BeginResolve, tables
  <2>5. ASSUME NEW q \in Request,
               EndMerge(q) \/ FailMerge(q) \/ \E i, j \in Request : BeginMerge(q, i, j)
        PROVE  decision' = decision
    BY <2>5 DEF EndMerge, FailMerge, BeginMerge, tables
  <2>6. ASSUME NEW q \in Request, Resolve(q)  PROVE decision' = decision
    BY <2>6 DEF Resolve
  <2>7. ASSUME NEW r \in Report, NEW s \in Submission, Submit(r, s)  PROVE decision' = decision
    BY <2>7 DEF Submit
  <2>8. UNCHANGED vars => decision' = decision
    BY DEF vars, tables
  <2> QED
    BY <2>1, <2>2, <2>3, <2>4, <2>5, <2>6, <2>7, <2>8, Steps
<1>2. PICK q \in Request : Refuse(q) \/ Confirm(q)
  BY <1>1
<1>3. At(q, "review") /\ work[q] \in Task
  BY <1>2 DEF Refuse, Confirm, At, WorkInv, WorkOf
<1>4. PICK into \in Request \cup {None} : decision' = [decision EXCEPT ![q] = Reviewed(q, into)]
  BY <1>2, <1>3, TaskFields DEF Refuse, Confirm, At
<1>5. q = p /\ decision'[p] = Reviewed(q, into) /\ \A x \in Request : x # p => decision'[x] = decision[x]
  BY <1>4 DEF TypeOK
<1>6. PICK state \in ReviewState : UpdateReport(q, [work[q].entity EXCEPT !.state = state])
  BY <1>2 DEF Refuse, Confirm, ReviewState
<1>7. Writes(q, work[q].report)
  <2> DEFINE entity == [work[q].entity EXCEPT !.state = state]
  <2>1. Updated(entity) \in ReportRow /\ Updated(entity).version = work[q].entity.version + 1
    BY <1>3, TaskFields, RowFields
  <2>2. UpdateReport(q, entity)
    BY <1>6
  <2> HIDE DEF entity
  <2> QED
    BY <1>3, <2>1, <2>2, UpdateWrites DEF At
<1> QED
  BY <1>3, <1>5, <1>7, ReviewedFields DEF At


-----------------------------------------------------------------------------
\* The verdicts.

\* Decisions, incidents and events stay on record, and verdicts with them.
LEMMA VerdictsKept ==
    ASSUME TypeOK, OwnRows, WorkInv, [Next]_vars, NEW r \in Report
    PROVE  /\ HasConfirmation(r) => HasConfirmation(r)'
           /\ HasRejection(r) => HasRejection(r)'
<1>1. \A p \in Request : /\ decision[p] # None => decision'[p] = decision[p]
                         /\ event[p] # None => event'[p] = event[p]
                         /\ incident[p] # None => incident'[p] # None
  BY KeptRows DEF Known
<1>2. ASSUME HasConfirmation(r)
      PROVE  HasConfirmation(r)'
  <2>1. PICK q \in Decided(r, "CONFIRM_INCIDENT") :
            /\ incident[decision[q].incident] # None
            /\ event[q] # None /\ event[q].incident = decision[q].incident
    BY <1>2 DEF HasConfirmation
  <2>2. q \in Request /\ decision[q] # None /\ decision'[q] = decision[q] /\ event'[q] = event[q]
    BY <1>1, <2>1 DEF Decided
  <2>3. event[q].incident \in Request
    BY <2>1, <2>2 DEF TypeOK, OutboxEvent
  <2> QED
    BY <1>1, <2>1, <2>2, <2>3 DEF HasConfirmation, Decided
<1>3. ASSUME HasRejection(r)
      PROVE  HasRejection(r)'
  BY <1>1, <1>3 DEF HasRejection, Decided
<1> QED
  BY <1>2, <1>3

\* A confirmation writes verdict, decision, incident and event together; ...
LEMMA ConfirmDecides ==
    ASSUME TypeOK, OwnRows, WorkInv, [Next]_vars, NEW q \in Request, Confirm(q),
           NEW r \in Report, work[q].report = r
    PROVE  HasConfirmation(r)'
<1> DEFINE into == IF work[q].into = None THEN q ELSE work[q].into
<1>1. work[q] \in Task /\ work[q].op = "review" /\ work[q].kind = "CONFIRM_INCIDENT" /\ At(q, "review")
  BY DEF Confirm, At, WorkInv, WorkOf
<1>2. into \in Request
  BY <1>1, TaskFields
<1>3. decision'[q] = Reviewed(q, into)
  BY DEF Confirm, TypeOK
<1>4. /\ decision'[q] # None /\ decision'[q].report = r /\ decision'[q].kind = "CONFIRM_INCIDENT"
      /\ decision'[q].incident = into
  BY <1>1, <1>2, <1>3, ReviewedFields, NoneIsNothing
<1>5. event'[q] # None /\ event'[q].incident = into
  <2>1. event'[q] = [incident |-> into,
                     type |-> IF into = q THEN "incident.created" ELSE "incident.verified"]
    BY DEF Confirm, TypeOK
  <2>2. event'[q] \in OutboxEvent
    BY <1>2, <2>1 DEF OutboxEvent
  <2> QED
    BY <2>1, <2>2, NoneIsNothing
<1>6. incident'[into] # None
  <2>1. CASE work[q].into = None
    <3>1. incident'[q] = [lifecycle |-> "ACTIVE", severity |-> work[q].entity.severity, version |-> 1]
      BY <2>1 DEF Confirm, CreateIncident, TypeOK
    <3>2. work[q].entity.severity \in Severity
      BY <1>1, TaskFields, RowFields
    <3>3. incident'[q] \in Incident
      BY <3>1, <3>2 DEF Incident
    <3> QED
      BY <2>1, <3>3, NoneIsNothing
  <2>2. CASE work[q].into # None
    <3>1. Known(into)
      BY <1>1, <2>2 DEF WorkInv, WorkOf
    <3> HIDE DEF into
    <3> QED
      BY <1>2, <3>1, KeptRows DEF Known
  <2> QED
    BY <2>1, <2>2
<1> HIDE DEF into
<1> QED
  BY <1>4, <1>5, <1>6 DEF HasConfirmation, Decided

\* ... a rejection verdict and decision.
LEMMA RefuseDecides ==
    ASSUME TypeOK, WorkInv, NEW q \in Request, Refuse(q), work[q].kind = "REJECT_REPORT",
           NEW r \in Report, work[q].report = r
    PROVE  HasRejection(r)'
<1>1. work[q] \in Task /\ work[q].op = "review"
  BY DEF Refuse, At, WorkInv, WorkOf
<1>2. decision'[q] = Reviewed(q, None)
  BY DEF Refuse, TypeOK
<1>3. /\ decision'[q] # None /\ decision'[q].report = r /\ decision'[q].kind = "REJECT_REPORT"
  BY <1>1, <1>2, ReviewedFields, NoneIsNothing
<1> QED
  BY <1>3 DEF HasRejection, Decided

\* A verdict keeps its decision, also in the entities still to be written back.
LEMMA VerdictStep ==
    ASSUME TypeOK, OwnRows, WorkInv, VerdictInv, [Next]_vars
    PROVE  VerdictInv'
<1>1. \A r \in Report : /\ HasConfirmation(r) => HasConfirmation(r)'
                        /\ HasRejection(r) => HasRejection(r)'
  BY VerdictsKept
<1>2. ASSUME NEW r \in Report, report'[r] # None
      PROVE  /\ report'[r].state = "VERIFIED" => HasConfirmation(r)'
             /\ report'[r].state = "REJECTED" => HasRejection(r)'
  <2>1. CASE report'[r] = report[r]
    BY <1>1, <1>2, <2>1 DEF VerdictInv
  <2>2. CASE report'[r].state \notin {"VERIFIED", "REJECTED"}
    BY <2>2
  <2>3. ASSUME NEW q \in Request, Writes(q, r), report'[r].state = work[q].entity.state
        PROVE  /\ report'[r].state = "VERIFIED" => HasConfirmation(r)'
               /\ report'[r].state = "REJECTED" => HasRejection(r)'
    BY <1>1, <2>3 DEF VerdictInv, Writes
  <2>4. ASSUME NEW q \in Request, Writes(q, r), report'[r].state = "VERIFIED", Confirm(q)
        PROVE  HasConfirmation(r)'
    BY <2>4, ConfirmDecides DEF Writes
  <2>5. ASSUME NEW q \in Request, Writes(q, r), Refuse(q), work[q].kind = "REJECT_REPORT"
        PROVE  HasRejection(r)'
    BY <2>5, RefuseDecides DEF Writes
  <2> QED
    BY <2>1, <2>2, <2>3, <2>4, <2>5, RowsWritten DEF ReportsWritten
<1>3. ASSUME NEW q \in Request, NEW r \in Report, pc'[q] = "fetched", work'[q].report = r
      PROVE  /\ work'[q].entity.state = "VERIFIED" => HasConfirmation(r)'
             /\ work'[q].entity.state = "REJECTED" => HasRejection(r)'
  <2>1. CASE Same(q)
    BY <1>1, <1>3, <2>1 DEF Same, VerdictInv
  <2>2. CASE Begins(q)
    <3>1. report[r] # None /\ work'[q].entity = report[r]
      BY <1>3, <2>2 DEF Begins, Fetch, TypeOK
    <3> QED
      BY <1>1, <3>1 DEF VerdictInv
  <2> QED
    BY <1>3, <2>1, <2>2, StepOf DEF Acts
<1> QED
  BY <1>2, <1>3 DEF VerdictInv

-----------------------------------------------------------------------------
\* If-Match.

\* A review is admitted with the version it asks for.
LEMMA MatchStep ==
    ASSUME TypeOK, MatchInv, [Next]_vars
    PROVE  MatchInv'
<1> SUFFICES ASSUME NEW q \in Request, pc'[q] = "fetched", work'[q].op = "review", work'[q].match # None
             PROVE  work'[q].entity.version = work'[q].match
  BY DEF MatchInv, At
<1>1. CASE Same(q)
  BY <1>1 DEF Same, MatchInv, At
<1>2. CASE Begins(q)
  BY <1>2 DEF Begins, Fetch, TypeOK
<1> QED
  BY <1>1, <1>2, StepOf DEF Acts

\* A new decision leaves a version behind that is later than the one it asked for.
LEMMA DecidedVersion ==
    ASSUME TypeOK, WorkInv, MatchInv, [Next]_vars, NEW p \in Request,
           decision'[p] # decision[p], decision'[p].match # None
    PROVE  /\ decision'[p].report \in Report
           /\ report'[decision'[p].report] # None
           /\ report'[decision'[p].report].version > decision'[p].match
           /\ \/ decision'[p].report \in overwritten'
              \/ report[decision'[p].report].version = decision'[p].match
<1>1. /\ At(p, "review") /\ work[p] \in Task
      /\ decision'[p].report = work[p].report /\ decision'[p].match = work[p].match
      /\ Writes(p, work[p].report)
  BY NewDecision
<1>2. work[p].entity.version = work[p].match
  BY <1>1 DEF MatchInv
<1>3. work[p].report \in Report /\ work[p].entity.version \in Nat
  BY <1>1, TaskFields, RowFields
<1> QED
  BY <1>1, <1>2, <1>3, NoneIsNothing DEF Writes

\* A decision with If-Match leaves a later version.
LEMMA VersionStep ==
    ASSUME TypeOK, OwnRows, WorkInv, MatchInv, VersionInv, [Next]_vars
    PROVE  VersionInv'
<1> SUFFICES ASSUME NEW p \in Request, decision'[p] # None, decision'[p].match # None,
                    decision'[p].report \notin overwritten'
             PROVE  /\ report'[decision'[p].report] # None
                    /\ report'[decision'[p].report].version > decision'[p].match
  BY DEF VersionInv
<1>1. CASE decision'[p] # decision[p]
  BY <1>1, DecidedVersion
<1>2. CASE decision'[p] = decision[p]
  <2> DEFINE r == decision[p].report
             m == decision[p].match
  <2>1. r \in Report /\ m \in Nat
    BY <1>2 DEF TypeOK, Decision
  <2>2. overwritten \subseteq overwritten'
    BY RowsWritten DEF ReportsWritten
  <2>3. report[r] # None /\ report[r].version > m /\ report[r].version \in Nat
    <3>1. report[r] # None /\ report[r].version > m
      BY <1>2, <2>2 DEF VersionInv
    <3>2. report[r] \in ReportRow
      BY <2>1, <3>1 DEF TypeOK
    <3> QED
      BY <3>1, <3>2, RowFields
  <2>4. CASE report'[r] = report[r]
    BY <1>2, <2>3, <2>4
  <2>5. ASSUME NEW q \in Request, Writes(q, r)
        PROVE  report'[r] # None /\ report'[r].version > m
    <3>1. report[r] = work[q].entity
      BY <1>2, <2>5 DEF Writes
    <3>2. report'[r].version = report[r].version + 1 /\ report'[r] # None
      BY <2>5, <3>1, NoneIsNothing DEF Writes
    <3> QED
      BY <2>1, <2>3, <3>2
  <2> QED
    BY <1>2, <2>1, <2>3, <2>4, <2>5, RowsWritten DEF ReportsWritten
<1> QED
  BY <1>1, <1>2

\* A second decision with the same If-Match meets that later version.
LEMMA ExclusionStep ==
    ASSUME TypeOK, OwnRows, WorkInv, MatchInv, VersionInv, IfMatchIsExclusive, [Next]_vars
    PROVE  IfMatchIsExclusive'
<1>1. overwritten \subseteq overwritten'
  BY RowsWritten DEF ReportsWritten
<1>2. ASSUME NEW p \in Request, NEW q \in Request, p # q,
             decision'[p] # decision[p], decision'[q] # None,
             decision'[p].report = decision'[q].report,
             decision'[p].match = decision'[q].match, decision'[p].match # None
      PROVE  decision'[p].report \in overwritten'
  <2>1. decision'[q] = decision[q]
    BY <1>2, NewDecision
  <2>2. \/ decision[q].report \in overwritten
        \/ report[decision[q].report].version > decision[q].match
    BY <1>2, <2>1 DEF VersionInv
  <2>3. \/ decision'[p].report \in overwritten'
        \/ report[decision'[p].report].version = decision'[p].match
    BY <1>2, DecidedVersion
  <2>4. decision[q].match \in Nat
    BY <1>2, <2>1 DEF TypeOK, Decision
  <2> QED
    BY <1>1, <1>2, <2>1, <2>2, <2>3, <2>4
<1> SUFFICES ASSUME NEW p \in Request, NEW q \in Request, p # q,
                    decision'[p] # None, decision'[q] # None,
                    decision'[p].report = decision'[q].report,
                    decision'[p].match = decision'[q].match, decision'[p].match # None
             PROVE  decision'[p].report \in overwritten'
  BY DEF IfMatchIsExclusive
<1>3. CASE decision'[p] # decision[p]
  BY <1>2, <1>3
<1>4. CASE decision'[q] # decision[q]
  BY <1>2, <1>4
<1>5. CASE decision'[p] = decision[p] /\ decision'[q] = decision[q]
  BY <1>1, <1>5 DEF IfMatchIsExclusive
<1> QED
  BY <1>3, <1>4, <1>5


-----------------------------------------------------------------------------
\* The roads.

\* Steps that leave incidents and roads alone.
LEMMA QuietRoads ==
    ASSUME TypeOK, [Next]_vars,
           \A q \in Request : ~ Confirm(q) /\ ~ Resolve(q) /\ ~ EndMerge(q)
    PROVE  UNCHANGED <<incident, closes, status, outrun>>
  BY Steps DEF Submit, Begins, Fetch, Triage, Refuse, VerifyPhoto, Amend, BeginResolve, BeginMerge,
        FailMerge, vars, tables, history

\* A confirmation declares the roads it affects, opens at most its own incident,
\* and marks those that a resolution has evaluated.
LEMMA ConfirmRoads ==
    ASSUME TypeOK, OwnRows, WorkInv, NEW q \in Request, Confirm(q)
    PROVE  /\ \A e \in Edge : status'[e] # "OPEN" \/ status'[e] = status[e]
           /\ \A i \in Request : Active(i) => Active(i)' /\ closes'[i] = closes[i]
           /\ \A i \in Request, e \in Edge : Active(i)' /\ closes'[i][e] # "none" =>
                 \/ Active(i) /\ closes[i][e] # "none"
                 \/ status'[e] # "OPEN" /\ (e \in Evaluated => e \in outrun')
           /\ \A e \in Edge : e \in outrun => e \in outrun' \/ (status'[e] # "OPEN" /\ e \notin Evaluated)
<1> DEFINE links == EdgesToLink(q)
           down  == Affected(links)
<1>1. \A e \in Edge : IF e \in down THEN status'[e] \in {"BLOCKED", "RESTRICTED"} ELSE status'[e] = status[e]
  BY DEF Confirm, Confirmed
<1>2. pc[q] = "fetched" /\ incident[q] = None
  BY DEF Confirm, At, OwnRows
<1>3. down = {e \in Edge : links[e] # "none"}
  BY DEF Affected
<1>4. CASE work[q].into = None
  <2>1. CreateIncident(q, links) /\ outrun' = (outrun \ down) \cup (down \cap Evaluated)
    BY <1>4 DEF Confirm
  <2> HIDE DEF links, down
  <2>2. /\ closes' = [closes EXCEPT ![q] = links]
        /\ \A i \in Request : i # q => incident'[i] = incident[i]
    BY <2>1 DEF CreateIncident, TypeOK
  <2>3. ~ Active(q) /\ \A i \in Request : i # q => (Active(i)' <=> Active(i)) /\ closes'[i] = closes[i]
    BY <1>2, <2>2 DEF Active, Known, TypeOK
  <2>4. closes'[q] = links
    BY <2>2 DEF TypeOK
  <2>5. \A e \in Edge : links[e] # "none" => status'[e] # "OPEN" /\ (e \in Evaluated => e \in outrun')
    BY <1>1, <1>3, <2>1
  <2>6. \A e \in Edge : e \in outrun => e \in outrun' \/ (status'[e] # "OPEN" /\ e \notin Evaluated)
    BY <1>1, <2>1
  <2> QED
    BY <1>1, <2>3, <2>4, <2>5, <2>6
<1>5. CASE work[q].into # None
  <2>1. UNCHANGED <<incident, closes, outrun>>
    BY <1>5 DEF Confirm
  <2> HIDE DEF links, down
  <2> QED
    BY <1>1, <2>1 DEF Active, Known
<1> QED
  BY <1>4, <1>5

\* A resolution declares each road as the other incidents demand.
LEMMA ResolveRoads ==
    ASSUME TypeOK, WorkInv, NEW q \in Request, Resolve(q)
    PROVE  /\ pc[q] = "evaluated" /\ pc'[q] = "done" /\ outrun' = outrun /\ closes' = closes
           /\ \A e \in Edge : IF e \in DOMAIN work[q].effective
                              THEN status'[e] = work[q].effective[e] ELSE status'[e] = status[e]
           /\ \A i \in Request : Active(i)' => Active(i) /\ i # work[q].incident
<1>1. /\ pc[q] = "evaluated" /\ pc'[q] = "done" /\ outrun' = outrun /\ closes' = closes
      /\ \A e \in Edge : IF e \in DOMAIN work[q].effective
                         THEN status'[e] = work[q].effective[e] ELSE status'[e] = status[e]
  BY DEF Resolve, Finish, TypeOK, history
<1>2. work[q].incident \in Request /\ incident[work[q].incident] \in Incident
  BY <1>1, EvaluationFields DEF WorkInv, WorkOf, Known, TypeOK
<1>3. incident' = [incident EXCEPT ![work[q].incident] =
           [incident[work[q].incident] EXCEPT !.lifecycle = "RESOLVED", !.version = @ + 2]]
  BY <1>2 DEF Resolve, TypeOK, Incident
<1>4. incident'[work[q].incident].lifecycle = "RESOLVED"
  BY <1>2, <1>3, ResolvedFields DEF TypeOK
<1>5. \A i \in Request : i # work[q].incident => incident'[i] = incident[i]
  BY <1>3 DEF TypeOK
<1> QED
  BY <1>1, <1>4, <1>5 DEF Active, Known

\* A merge carries the roads read from the source over to the target.
LEMMA MergeRoads ==
    ASSUME TypeOK, WorkInv, LinksInv, NEW q \in Request, EndMerge(q),
           NEW i, i = work[q].source, NEW j, j = work[q].target
    PROVE  /\ status' = status /\ outrun \subseteq outrun' /\ pc[q] = "merging" /\ pc'[q] = "done"
           /\ i \in Request /\ j \in Request /\ i # j /\ Known(i) /\ Known(j)
           /\ \A x \in Request : Active(x)' <=> Active(x) /\ x # i
           /\ \A x \in Request : x # j => closes'[x] = closes[x]
           /\ \A e \in Edge : closes'[j][e] = IF closes[j][e] = "none" THEN work[q].links[e] ELSE closes[j][e]
           /\ \A e \in Edge : work[q].links[e] # "none" => closes[i][e] # "none"
           /\ \A e \in Edge : Active(j) /\ closes[j][e] = "none" /\ work[q].links[e] # "none" =>
                 e \in outrun' \/ (Active(i) /\ e \notin Evaluated)
<1>1. /\ i \in Request /\ j \in Request /\ i # j /\ Known(i) /\ Known(j)
      /\ incident'[i].lifecycle = "RESOLVED"
      /\ \A x \in Request : x # i => incident'[x] = incident[x]
      /\ pc[q] = "merging" /\ closes'[j] = MergedLinks(q)
  BY EndMergeFields
<1>2. status' = status /\ closes' = [closes EXCEPT ![j] = MergedLinks(q)] /\ pc'[q] = "done"
  BY DEF EndMerge, Finish, TypeOK
<1>3. \A e \in Edge : MergedLinks(q)[e] = IF closes[j][e] = "none" THEN work[q].links[e] ELSE closes[j][e]
  BY DEF MergedLinks
<1>4. \A x \in Request : Active(x)' <=> Active(x) /\ x # i
  BY <1>1 DEF Active, Known
<1>5. outrun' = outrun \cup {e \in {f \in Edge : MergedLinks(q)[f] # closes[j][f]} :
                                Active(j) /\ (e \in Evaluated \/ incident[i].lifecycle = "RESOLVED")}
  BY DEF EndMerge
<1>6. Active(i) \/ incident[i].lifecycle = "RESOLVED"
  BY <1>1 DEF Active, Known, TypeOK, Incident
<1>7. \A e \in Edge : Active(j) /\ closes[j][e] = "none" /\ work[q].links[e] # "none" =>
         e \in outrun' \/ (Active(i) /\ e \notin Evaluated)
  BY <1>3, <1>5, <1>6
<1>8. \A x \in Request : x # j => closes'[x] = closes[x]
  BY <1>2 DEF TypeOK
<1>9. \A e \in Edge : work[q].links[e] # "none" => closes[i][e] # "none"
  BY <1>1 DEF LinksInv
<1> QED
  BY <1>1, <1>2, <1>3, <1>4, <1>5, <1>7, <1>8, <1>9

\* Links stay: only the rows of an incident being opened and those of the target of
\* a merge are written.
LEMMA LinksKept ==
    ASSUME TypeOK, OwnRows, WorkInv, LinksInv, [Next]_vars, NEW x \in Request, Known(x), NEW e \in Edge,
           closes[x][e] # "none"
    PROVE  closes'[x][e] # "none"
<1>1. ASSUME NEW q \in Request, Confirm(q)
      PROVE  closes'[x] = closes[x]
  <2>1. pc[q] = "fetched" /\ x # q
    BY <1>1 DEF Confirm, At, OwnRows, Known
  <2> QED
    BY <1>1, <2>1 DEF Confirm, CreateIncident, TypeOK
<1>2. ASSUME NEW q \in Request, Resolve(q)
      PROVE  closes'[x] = closes[x]
  BY <1>2 DEF Resolve
<1>3. ASSUME NEW q \in Request, EndMerge(q)
      PROVE  closes'[x][e] # "none"
  BY <1>3, MergeRoads
<1> QED
  BY <1>1, <1>2, <1>3, QuietRoads

\* What a merge has read, its source keeps.
LEMMA LinksStep ==
    ASSUME TypeOK, OwnRows, WorkInv, LinksInv, [Next]_vars
    PROVE  LinksInv'
<1> SUFFICES ASSUME NEW q \in Request, NEW e \in Edge, pc'[q] = "merging", work'[q].links[e] # "none"
             PROVE  closes'[work'[q].source][e] # "none"
  BY DEF LinksInv
<1>1. CASE Same(q)
  <2>1. pc[q] = "merging" /\ work'[q] = work[q] /\ work[q] \in Merging /\ Known(work[q].source)
    BY <1>1 DEF Same, WorkInv, WorkOf, Mergeable
  <2> QED
    BY <2>1, MergingFields, LinksKept DEF LinksInv
<1>2. ASSUME NEW i \in Request, NEW j \in Request, BeginMerge(q, i, j)
      PROVE  closes'[work'[q].source][e] # "none"
  BY <1>2, BeginMergeFields DEF tables
<1> QED
  BY <1>1, <1>2, StepOf DEF Acts

\* A road that an active incident covers does not open.
LEMMA RoadStep ==
    ASSUME TypeOK, OwnRows, WorkInv, LinksInv, EffectiveInv, IncidentKeepsRoadFromOpening, [Next]_vars
    PROVE  IncidentKeepsRoadFromOpening'
<1> SUFFICES ASSUME NEW e \in Edge, e \notin outrun', NEW x \in Request, Active(x)', closes'[x][e] # "none"
             PROVE  status'[e] # "OPEN"
  BY DEF IncidentKeepsRoadFromOpening
<1>0. e \notin outrun /\ Active(x) /\ closes[x][e] # "none" => status[e] # "OPEN"
  BY DEF IncidentKeepsRoadFromOpening
<1>1. ASSUME NEW q \in Request, Confirm(q)
      PROVE  status'[e] # "OPEN"
  BY <1>0, <1>1, ConfirmRoads
<1>2. ASSUME NEW q \in Request, Resolve(q)
      PROVE  status'[e] # "OPEN"
  <2>1. /\ pc[q] = "evaluated" /\ outrun' = outrun /\ closes' = closes
        /\ IF e \in DOMAIN work[q].effective
           THEN status'[e] = work[q].effective[e] ELSE status'[e] = status[e]
        /\ Active(x) /\ x # work[q].incident
    BY <1>2, ResolveRoads
  <2> QED
    BY <1>0, <2>1 DEF EffectiveInv
<1>3. ASSUME NEW q \in Request, EndMerge(q)
      PROVE  status'[e] # "OPEN"
  <2> DEFINE i == work[q].source
             j == work[q].target
  <2>1. /\ i \in Request /\ j \in Request /\ status' = status /\ e \notin outrun /\ Active(x) /\ x # i
        /\ x # j => closes'[x] = closes[x]
        /\ closes'[j][e] = IF closes[j][e] = "none" THEN work[q].links[e] ELSE closes[j][e]
        /\ work[q].links[e] # "none" => closes[i][e] # "none"
        /\ Active(j) /\ closes[j][e] = "none" /\ work[q].links[e] # "none" =>
              e \in outrun' \/ (Active(i) /\ e \notin Evaluated)
    BY <1>3, MergeRoads
  <2>2. Active(i) /\ closes[i][e] # "none" => status[e] # "OPEN"
    BY <2>1 DEF IncidentKeepsRoadFromOpening
  <2> QED
    BY <1>0, <2>1, <2>2
<1>4. CASE UNCHANGED <<incident, closes, status, outrun>>
  BY <1>0, <1>4 DEF Active, Known
<1> QED
  BY <1>1, <1>2, <1>3, <1>4, QuietRoads

\* A status evaluated for a road goes on counting its other active incidents.
LEMMA EffectiveStep ==
    ASSUME TypeOK, OwnRows, WorkInv, LinksInv, EffectiveInv, [Next]_vars
    PROVE  EffectiveInv'
<1> SUFFICES ASSUME NEW q \in Request, NEW j \in Request, NEW e \in Edge,
                    pc'[q] = "evaluated", e \in DOMAIN work'[q].effective, e \notin outrun',
                    j # work'[q].incident, Active(j)', closes'[j][e] # "none"
             PROVE  work'[q].effective[e] # "OPEN"
  BY DEF EffectiveInv
<1>1. CASE Same(q)
  <2>1. pc[q] = "evaluated" /\ work'[q] = work[q] /\ e \in Evaluated
    BY <1>1 DEF Same, Evaluated
  <2> SUFFICES ASSUME ~ (Active(j) /\ closes[j][e] # "none" /\ e \notin outrun)
               PROVE  FALSE
    BY <2>1 DEF EffectiveInv
  <2>2. ASSUME NEW p \in Request, Confirm(p)
        PROVE  FALSE
    BY <2>1, <2>2, ConfirmRoads
  <2>3. ASSUME NEW p \in Request, Resolve(p)
        PROVE  FALSE
    BY <2>3, ResolveRoads
  <2>4. ASSUME NEW p \in Request, EndMerge(p)
        PROVE  FALSE
    <3> DEFINE k == work[p].target
    <3>1. /\ e \notin outrun /\ Active(j)
          /\ j # k => closes'[j] = closes[j]
          /\ closes'[k][e] = IF closes[k][e] = "none" THEN work[p].links[e] ELSE closes[k][e]
          /\ Active(k) /\ closes[k][e] = "none" /\ work[p].links[e] # "none" => e \in outrun' \/ e \notin Evaluated
      BY <2>4, MergeRoads
    <3> QED
      BY <2>1, <3>1
  <2>5. CASE UNCHANGED <<incident, closes, status, outrun>>
    BY <2>5 DEF Active, Known
  <2> QED
    BY <2>2, <2>3, <2>4, <2>5, QuietRoads
<1>2. ASSUME NEW i \in Request, NEW es \in SUBSET Edge, BeginResolve(q, i, es)
      PROVE  work'[q].effective[e] # "OPEN"
  <2>1. /\ work'[q] = [op |-> "resolve", incident |-> i, effective |-> [f \in es |-> Recalculated(f, i)]]
        /\ UNCHANGED <<incident, closes>>
    BY <1>2 DEF BeginResolve, TypeOK, tables
  <2>2. e \in es /\ work'[q].effective[e] = Recalculated(e, i) /\ work'[q].incident = i
    BY <2>1
  <2>3. j \in Conditions(e, i)
    BY <2>1, <2>2 DEF Conditions, Active, Known
  <2> QED
    BY <2>2, <2>3 DEF Recalculated
<1>3. CASE pc'[q] \in {"fetched", "merging", "done"}
  BY <1>3
<1> QED
  BY <1>1, <1>2, <1>3, StepOf DEF Acts

-----------------------------------------------------------------------------
\* The invariant holds before the first request.
LEMMA InitEstablishes == Init => IInv
<1> SUFFICES ASSUME Init
             PROVE  IInv
  OBVIOUS
<1>1. TypeOK
  BY DEF Init, TypeOK, Closure, Status
<1>2. OwnRows /\ WorkInv /\ VerdictInv /\ MatchInv /\ VersionInv /\ LinksInv /\ EffectiveInv
  BY DEF Init, OwnRows, WorkInv, WorkOf, VerdictInv, MatchInv, VersionInv, LinksInv, EffectiveInv, At
<1>3. IfMatchIsExclusive /\ IncidentKeepsRoadFromOpening
  BY DEF Init, IfMatchIsExclusive, IncidentKeepsRoadFromOpening, Active, Known
<1> QED
  BY <1>1, <1>2, <1>3 DEF IInv

\* In every reachable state the rows, and the entities in the hands of requests, are
\* as IInv says.
THEOREM Inductive == Spec => []IInv
<1>1. IInv /\ [Next]_vars => IInv'
  BY TypeStep, OwnRowsStep, WorkStep, VerdictStep, MatchStep, VersionStep, ExclusionStep,
     LinksStep, EffectiveStep, RoadStep DEF IInv
<1> QED
  BY InitEstablishes, <1>1, PTL DEF Spec

-----------------------------------------------------------------------------
\* Whatever requests overlap, a verdict has its decision and event, and two decisions
\* under one If-Match mean that a result was overwritten.
THEOREM DecisionsCorrect == Spec => []DecisionsAreSound
<1>1. IInv => DecisionsAreSound
  <2>1. VerdictInv => VerdictsAreRecorded
    BY DEF VerdictInv, VerdictsAreRecorded, HasConfirmation, HasRejection
  <2> QED
    BY <2>1 DEF IInv, DecisionsAreSound
<1> QED
  BY Inductive, <1>1, PTL

\* A road with an active incident is not open, apart from roads whose conditions
\* changed behind an evaluation or came with an incident resolved before.
THEOREM RoadsStayClosed == Spec => []IncidentKeepsRoadFromOpening
<1>1. IInv => IncidentKeepsRoadFromOpening
  BY DEF IInv
<1> QED
  BY Inductive, <1>1, PTL

\* Only a resolution, a merge into a resolved incident, or one whose source got links
\* behind its back takes the last active incident from a road.
THEOREM CoverageCorrect == Spec => CoverageEndsByResolution
<1> DEFINE Ends == \E q \in Request :
               \/ pc[q] = "evaluated" /\ pc'[q] = "done"
               \/ /\ pc[q] = "merging" /\ pc'[q] = "done"
                  /\ \/ incident[work[q].target].lifecycle = "RESOLVED"
                     \/ closes[work[q].source] # work[q].links
<1>1. IInv /\ [Next]_vars => [\A e \in Edge : Covered(e) /\ ~Covered(e)' => Ends]_vars
  <2> SUFFICES ASSUME IInv, [Next]_vars, NEW e \in Edge, NEW x \in Request, Active(x), closes[x][e] # "none",
                      \A y \in Request : ~ (Active(y)' /\ closes'[y][e] # "none")
               PROVE  Ends
    BY DEF Covered
  <2> USE DEF IInv
  <2>1. ASSUME NEW q \in Request, Confirm(q)
        PROVE  FALSE
    BY <2>1, ConfirmRoads
  <2>2. ASSUME NEW q \in Request, Resolve(q)
        PROVE  Ends
    BY <2>2, ResolveRoads
  <2>3. ASSUME NEW q \in Request, EndMerge(q)
        PROVE  Ends
    <3> DEFINE i == work[q].source
               j == work[q].target
    <3>1. /\ \A y \in Request : Active(y)' <=> Active(y) /\ y # i
          /\ \A y \in Request : y # j => closes'[y] = closes[y]
          /\ closes'[j][e] = IF closes[j][e] = "none" THEN work[q].links[e] ELSE closes[j][e]
          /\ i # j /\ i \in Request /\ j \in Request /\ Known(j) /\ pc[q] = "merging" /\ pc'[q] = "done"
      BY <2>3, MergeRoads
    <3>2. Active(j) => closes[j][e] = "none" /\ work[q].links[e] = "none"
      BY <3>1
    <3>3. x = i \/ x = j
      BY <3>1
    <3>4. ~ Active(j) \/ closes[i] # work[q].links
      BY <3>2, <3>3
    <3>5. ~ Active(j) => incident[j].lifecycle = "RESOLVED"
      BY <3>1 DEF Active, Known, TypeOK, Incident
    <3> QED
      BY <3>1, <3>4, <3>5
  <2>4. CASE UNCHANGED <<incident, closes, status, outrun>>
    BY <2>4 DEF Active, Known
  <2> QED
    BY <2>1, <2>2, <2>3, <2>4, QuietRoads
<1> QED
  BY Inductive, <1>1, PTL DEF Spec, CoverageEndsByResolution
=============================================================================
