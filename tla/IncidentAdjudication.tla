------------------------- MODULE IncidentAdjudication -------------------------
(***************************************************************************)
(* Adjudication of field reports: triage, verification, amendment and the  *)
(* result of the photo model on the report's row; the incidents opened,    *)
(* resolved and merged; and the status declared for the roads they affect. *)
(*                                                                         *)
(* A request reads the report (or the rows of an incident, or the          *)
(* conditions of its roads) without a lock and writes later, in one READ   *)
(* COMMITTED transaction, whose writes are one step, its commit: nothing   *)
(* else looks at them before, and rows they lock only delay other writers. *)
(* update_report writes every reviewed column from the entity read, so a   *)
(* request that lost the race writes back what it read.                    *)
(* Requests that are refused change nothing and are left out, and so is    *)
(* MONITORING, a lifecycle no code sets.  Statuses are declared here only  *)
(* by adjudication: other declarations are the subject of EdgeStatus.      *)
(***************************************************************************)
EXTENDS Integers

CONSTANTS
    Request,       \* requests, numbered as they arrive; an incident has the
                   \* number of the one that opened it
    Report,        \* reports, numbered as they are submitted
    Edge,
    User,
    Verifier,      \* users with the capability VERIFY_REPORT
    Home,          \* the jurisdiction of a user's reports, None if there is none
    Scope,         \* jurisdictions a user works in
    Submission,    \* observations a user may submit
    Impact,        \* affected_edges a reviewer may give
    Match,         \* versions a reviewer may ask for by If-Match, None without it
    None

ASSUME AdjudicationAssumption ==
    /\ Request \subseteq Nat /\ Report \subseteq Nat
    /\ Verifier \subseteq User
    /\ \A u \in User : Home[u] = None \/ Home[u] \in Scope[u]
    /\ Submission \subseteq [reporter: User, severity: {"LOW", "CRITICAL"}, edge: Edge \cup {None}]
    /\ Impact \subseteq [Edge -> {"none", "partial", "full"}]
    /\ Match \subseteq Nat \cup {None}
    /\ None \notin Request \cup Edge

ReviewState == {"SUBMITTED", "PROVISIONAL_CAUTION", "UNDER_REVIEW",
                "MORE_INFO_NEEDED", "VERIFIED", "REJECTED"}
Severity == {"LOW", "CRITICAL"}
Closure == {"none", "partial", "full"}           \* of an edge by an incident
Status == {"OPEN", "RESTRICTED", "BLOCKED"}

\* cv: what the photo model found, None if it has not run.
ReportRow == [state: ReviewState, reporter: User, severity: Severity, edge: Edge \cup {None},
              cv: {None, "clear", "blocked"}, version: Nat]
Incident == [lifecycle: {"ACTIVE", "RESOLVED"}, severity: Severity, version: Nat]
DecisionKind == {"CONFIRM_INCIDENT", "REJECT_REPORT", "REQUEST_MORE_INFO"}
\* match: the version the reviewer's If-Match asked for, None without one.
Decision == [report: Report, kind: DecisionKind, incident: Request \cup {None}, match: Nat \cup {None}]
Merge == [source: Request, target: Request]
OutboxEvent == [type: {"incident.created", "incident.verified", "INCIDENT_RESOLVED", "INCIDENT_MERGED"},
                incident: Request]

\* What a request has read and was asked to do.
Task == [op: {"triage"}, report: Report, entity: ReportRow]
        \cup [op: {"review"}, report: Report, entity: ReportRow, kind: DecisionKind,
              match: Nat \cup {None}, edges: [Edge -> Closure], into: Request \cup {None}]
        \cup [op: {"amend"}, report: Report, entity: ReportRow, correction: Submission]
        \cup [op: {"photo"}, report: Report, entity: ReportRow, found: {"clear", "blocked"}]

\* What a merge has read: the source's links, and the reports and edges of them
\* that the target did not have.
Merging == [source: Request, target: Request, version: Nat, links: [Edge -> Closure],
            reports: SUBSET Report, edges: SUBSET Edge]

Evaluation == [op: {"resolve"}, incident: Request,
               effective: UNION {[es -> Status] : es \in SUBSET Edge}]

ASSUME NoneIsNoRow == None \notin ReportRow \cup Incident \cup Decision \cup Merge \cup OutboxEvent

VARIABLES
    report,        \* reports, None if not in the table
    incident,      \* incidents, None if not opened
    about,         \* incident_reports: the reports linked to each incident
    closes,        \* incident_edges: how each incident closes each edge
    status,        \* current status of each edge
    decision,      \* review_decisions recorded by each request
    merge,         \* incident_merges recorded by each request
    event,         \* outbox event written by each request
    pc,            \* progress of each request
    work,          \* what a request read and was asked to do
    overwritten,   \* history: reports written from an entity that was out of date
    outrun         \* history: edges whose conditions changed unseen by their status

tables  == <<report, incident, about, closes, status, decision, merge, event>>
history == <<overwritten, outrun>>
vars    == <<tables, pc, work, history>>

Init ==
    /\ report = [r \in Report |-> None]
    /\ incident = [i \in Request |-> None]
    /\ about = [i \in Request |-> {}]
    /\ closes = [i \in Request |-> [e \in Edge |-> "none"]]
    /\ status = [e \in Edge |-> "OPEN"]
    /\ decision = [q \in Request |-> None]
    /\ merge = [q \in Request |-> None]
    /\ event = [q \in Request |-> None]
    /\ pc = [q \in Request |-> "idle"]
    /\ work = [q \in Request |-> None]
    /\ overwritten = {}
    /\ outrun = {}

-----------------------------------------------------------------------------
\* Submission.

\* should_auto_provisional_caution: a severe observation of an officer, if its
\* kind, accuracy and age are right.
StateAtSubmission(severity) ==
    {"SUBMITTED"} \cup (IF severity = "CRITICAL" THEN {"PROVISIONAL_CAUTION"} ELSE {})

\* s.edge: the candidate edge given, or the nearest within 250 m, if any.
Submitted(s, state, version) ==
    [state |-> state, reporter |-> s.reporter, severity |-> s.severity, edge |-> s.edge,
     cv |-> None, version |-> version]

NextReport(r) == report[r] = None /\ \A o \in Report : o < r => report[o] # None

Submit(r, s) ==
    /\ NextReport(r)
    /\ \E state \in StateAtSubmission(s.severity) :
          report' = [report EXCEPT ![r] = Submitted(s, state, 1)]
    /\ UNCHANGED <<incident, about, closes, status, decision, merge, event, pc, work, history>>

-----------------------------------------------------------------------------
\* Requests about a report: the first step reads it, the last one writes it.

Arrives(q) == pc[q] = "idle" /\ \A p \in Request : p < q => pc[p] # "idle"

Fetch(q, op) ==
    /\ pc' = [pc EXCEPT ![q] = "fetched"]
    /\ work' = [work EXCEPT ![q] = op]
    /\ UNCHANGED <<tables, history>>

MayReview(u, r) ==
    /\ report[r].reporter # u
    /\ Home[report[r].reporter] \in Scope[u] \cup {None}

BeginTriage(q, u, r) ==
    /\ report[r] # None /\ MayReview(u, r)
    /\ Fetch(q, [op |-> "triage", report |-> r, entity |-> report[r]])

\* Mutated form of Matches: the precondition is not looked at.
MatchesAny(r, match) == TRUE

Matches(r, match) == match \in {None, report[r].version}

Known(i) == incident[i] # None

\* edges: affected_edges; into: existing_incident_id.
BeginReview(q, u, r, kind, match, edges, into) ==
    /\ report[r] # None /\ MayReview(u, r) /\ Matches(r, match)
    /\ into # None => Known(into)
    /\ Fetch(q, [op |-> "review", report |-> r, entity |-> report[r], kind |-> kind,
                 match |-> match, edges |-> edges, into |-> into])

\* s: the corrected observation.
BeginAmend(q, s, r) ==
    /\ report[r] # None
    /\ report[r].state \notin {"VERIFIED", "REJECTED"}
    /\ s.reporter = report[r].reporter \/ s.reporter \in Verifier
    /\ Fetch(q, [op |-> "amend", report |-> r, entity |-> report[r], correction |-> s])

BeginVerifyPhoto(q, r, found) ==
    /\ report[r] # None
    /\ Fetch(q, [op |-> "photo", report |-> r, entity |-> report[r], found |-> found])

At(q, op) == pc[q] = "fetched" /\ work[q].op = op

Finish(q) ==
    /\ pc' = [pc EXCEPT ![q] = "done"]
    /\ work' = [work EXCEPT ![q] = None]

\* update_report: the version written is the one read plus one.
Updated(entity) == [entity EXCEPT !.version = @ + 1]

UpdateReport(q, entity) ==
    LET r == work[q].report IN
    /\ report' = [report EXCEPT ![r] = Updated(entity)]
    /\ overwritten' = IF report[r] = work[q].entity THEN overwritten ELSE overwritten \cup {r}

\* Triage claims the report whatever its state.
Triage(q) ==
    /\ At(q, "triage")
    /\ UpdateReport(q, [work[q].entity EXCEPT !.state = "UNDER_REVIEW"])
    /\ Finish(q)
    /\ UNCHANGED <<incident, about, closes, status, decision, merge, event, outrun>>

\* The row of a decision.
Reviewed(q, into) ==
    [report |-> work[q].report, kind |-> work[q].kind, incident |-> into,
     match |-> work[q].match]

Refuse(q) ==
    /\ At(q, "review") /\ work[q].kind # "CONFIRM_INCIDENT"
    /\ UpdateReport(q, [work[q].entity EXCEPT
           !.state = IF work[q].kind = "REJECT_REPORT" THEN "REJECTED" ELSE "MORE_INFO_NEEDED"])
    /\ decision' = [decision EXCEPT ![q] = Reviewed(q, None)]
    /\ Finish(q)
    /\ UNCHANGED <<incident, about, closes, status, merge, event, outrun>>

\* The edges a confirmation affects: those given, or else the report's own.
EdgesToLink(q) ==
    IF \A e \in Edge : work[q].edges[e] = "none"
    THEN [e \in Edge |-> IF e = work[q].entity.edge THEN "full" ELSE "none"]
    ELSE work[q].edges

Affected(links) == {e \in Edge : links[e] # "none"}

Confirmed(links, severity) ==
    IF severity = "CRITICAL" \/ \E e \in Edge : links[e] = "full" THEN "BLOCKED" ELSE "RESTRICTED"

CreateIncident(q, links) ==
    /\ incident' = [incident EXCEPT ![q] = [lifecycle |-> "ACTIVE",
                        severity |-> work[q].entity.severity, version |-> 1]]
    /\ about' = [about EXCEPT ![q] = {work[q].report}]
    /\ closes' = [closes EXCEPT ![q] = links]

\* Edges some resolution has evaluated and not yet declared.
Evaluated == {e \in Edge : \E q \in Request : pc[q] = "evaluated" /\ e \in DOMAIN work[q].effective}

\* A report confirmed into an existing incident is not linked to it, nor its edges.
Confirm(q) ==
    LET links == EdgesToLink(q)
        into  == IF work[q].into = None THEN q ELSE work[q].into
    IN
    /\ At(q, "review") /\ work[q].kind = "CONFIRM_INCIDENT"
    /\ IF work[q].into = None
       THEN /\ CreateIncident(q, links)
            /\ outrun' = (outrun \ Affected(links)) \cup (Affected(links) \cap Evaluated)
       ELSE UNCHANGED <<incident, about, closes, outrun>>
    /\ status' = [e \in Edge |-> IF e \in Affected(links)
                                 THEN Confirmed(links, work[q].entity.severity) ELSE status[e]]
    /\ decision' = [decision EXCEPT ![q] = Reviewed(q, into)]
    /\ event' = [event EXCEPT ![q] = [incident |-> into,
                     type |-> IF into = q THEN "incident.created" ELSE "incident.verified"]]
    /\ UpdateReport(q, [work[q].entity EXCEPT !.state = "VERIFIED"])
    /\ Finish(q)
    /\ UNCHANGED merge

\* The correction is a report of its own, written twice: created and then linked.
\* The original goes back to review if it waited for information when it was read.
Amend(q, new) ==
    LET original == work[q].entity
        s == work[q].correction
    IN
    /\ At(q, "amend")
    /\ NextReport(new)
    /\ \E state \in StateAtSubmission(s.severity) :
          LET correction == Submitted(s, state, 2) IN
          IF original.state = "MORE_INFO_NEEDED"
          THEN /\ report' = [report EXCEPT ![new] = correction,
                        ![work[q].report] = Updated([original EXCEPT !.state = "UNDER_REVIEW"])]
               /\ overwritten' = IF report[work[q].report] = original THEN overwritten
                                 ELSE overwritten \cup {work[q].report}
          ELSE /\ report' = [report EXCEPT ![new] = correction]
               /\ UNCHANGED overwritten
    /\ Finish(q)
    /\ UNCHANGED <<incident, about, closes, status, decision, merge, event, outrun>>

\* A confident detection of a blocked road raises a report nobody has looked at.
VerifyPhoto(q) ==
    LET seen == [work[q].entity EXCEPT !.cv = work[q].found] IN
    /\ At(q, "photo")
    /\ UpdateReport(q, IF seen.state = "SUBMITTED" /\ seen.cv = "blocked"
                       THEN [seen EXCEPT !.state = "PROVISIONAL_CAUTION"] ELSE seen)
    /\ Finish(q)
    /\ UNCHANGED <<incident, about, closes, status, decision, merge, event, outrun>>

-----------------------------------------------------------------------------
\* Incidents.

Active(i) == Known(i) /\ incident[i].lifecycle = "ACTIVE"

\* get_active_incidents_for_edge, as seen by the transaction that resolves i.
Conditions(e, i) == {j \in Request \ {i} : Active(j) /\ closes[j][e] # "none"}

\* Mutated form of Recalculated: the road opens when its incident is resolved.
RecalculatedOpen(e, i) == "OPEN"

Recalculated(e, i) ==
    LET open == Conditions(e, i) IN
    IF \E j \in open : closes[j][e] = "full" \/ incident[j].severity = "CRITICAL" THEN "BLOCKED"
    ELSE IF open # {} THEN "RESTRICTED"
    ELSE "OPEN"

\* The row of the incident is locked from its update to the commit.
Resolving(i) == \E q \in Request : pc[q] = "evaluated" /\ work[q].incident = i

\* The incident is resolved whatever its lifecycle, and the roads named by the
\* request are evaluated from the incidents committed so far.
BeginResolve(q, i, es) ==
    /\ Known(i) /\ ~Resolving(i)
    /\ pc' = [pc EXCEPT ![q] = "evaluated"]
    /\ work' = [work EXCEPT ![q] = [op |-> "resolve", incident |-> i,
                                    effective |-> [e \in es |-> Recalculated(e, i)]]]
    /\ UNCHANGED <<tables, history>>

\* Both the entity and the repository advance the version.
Resolve(q) ==
    LET es == DOMAIN work[q].effective IN
    /\ pc[q] = "evaluated"
    /\ incident' = [incident EXCEPT ![work[q].incident].lifecycle = "RESOLVED",
                                    ![work[q].incident].version = @ + 2]
    /\ status' = [e \in Edge |-> IF e \in es THEN work[q].effective[e] ELSE status[e]]
    /\ event' = [event EXCEPT ![q] = [type |-> "INCIDENT_RESOLVED", incident |-> work[q].incident]]
    /\ Finish(q)
    /\ UNCHANGED <<report, about, closes, decision, merge, history>>

\* Only a merge of an incident into itself is refused.
Mergeable(source, target) == source # target /\ Known(source) /\ Known(target)

\* The source's links are read without a lock.
BeginMerge(q, source, target) ==
    /\ Mergeable(source, target)
    /\ pc' = [pc EXCEPT ![q] = "merging"]
    /\ work' = [work EXCEPT ![q] =
           [source |-> source, target |-> target, version |-> incident[source].version,
            links |-> closes[source], reports |-> about[source] \ about[target],
            edges |-> {e \in Edge : closes[source][e] # "none" /\ closes[target][e] = "none"}]]
    /\ UNCHANGED <<tables, history>>

\* Mutated form of MergedLinks: the edges of the source are not copied.
MergedLinksDropped(q) == closes[work[q].target]

\* An edge the target has already keeps its own closure.
MergedLinks(q) ==
    LET has == closes[work[q].target] IN
    [e \in Edge |-> IF has[e] = "none" THEN work[q].links[e] ELSE has[e]]

\* The links read are written to the target, and those the source got since stay
\* behind.  Edges that come to an active incident from a resolved one, or while
\* they are evaluated, keep a status that did not count it.  The version of the
\* source is read again before its update, or after.
EndMerge(q) ==
    LET source == work[q].source
        target == work[q].target
        moved  == {e \in Edge : MergedLinks(q)[e] # closes[target][e]}
    IN
    /\ pc[q] = "merging" /\ ~Resolving(source)
    /\ about' = [about EXCEPT ![target] = @ \cup work[q].reports]
    /\ closes' = [closes EXCEPT ![target] = MergedLinks(q)]
    /\ \E version \in {work[q].version, incident[source].version} :
          incident' = [incident EXCEPT ![source].lifecycle = "RESOLVED",
                                       ![source].version = version + 1]
    /\ merge' = [merge EXCEPT ![q] = [source |-> source, target |-> target]]
    /\ event' = [event EXCEPT ![q] = [type |-> "INCIDENT_MERGED", incident |-> target]]
    /\ outrun' = outrun \cup
           {e \in moved : Active(target) /\ (e \in Evaluated \/ incident[source].lifecycle = "RESOLVED")}
    /\ Finish(q)
    /\ UNCHANGED <<report, status, decision, overwritten>>

\* Another merge gave the target one of the links meanwhile: unless the request
\* looked for it only then, it inserts the same key and is rolled back.
FailMerge(q) ==
    /\ pc[q] = "merging"
    /\ \/ work[q].reports \cap about[work[q].target] # {}
       \/ \E e \in work[q].edges : closes[work[q].target][e] # "none"
    /\ Finish(q)
    /\ UNCHANGED <<tables, history>>

-----------------------------------------------------------------------------
Review(q, u) ==
    \E r \in Report, match \in Match :
        \/ \E edges \in Impact, into \in Request \cup {None} :
              BeginReview(q, u, r, "CONFIRM_INCIDENT", match, edges, into)
        \/ \E kind \in DecisionKind \ {"CONFIRM_INCIDENT"} :
              BeginReview(q, u, r, kind, match, [e \in Edge |-> "none"], None)

Ask(q) ==
    \/ \E s \in Submission, r \in Report : BeginAmend(q, s, r)
    \/ \E r \in Report, found \in {"clear", "blocked"} : BeginVerifyPhoto(q, r, found)
    \/ \E u \in Verifier, r \in Report : BeginTriage(q, u, r)
    \/ \E u \in Verifier : Review(q, u)
    \/ \E i \in Request, es \in SUBSET Edge : BeginResolve(q, i, es)
    \/ \E i, j \in Request : BeginMerge(q, i, j)

Answer(q) ==
    \/ Triage(q) \/ Refuse(q) \/ Confirm(q) \/ VerifyPhoto(q)
    \/ \E new \in Report : Amend(q, new)

Next ==
    \/ \E r \in Report, s \in Submission : Submit(r, s)
    \/ \E q \in Request :
          \/ Arrives(q) /\ Ask(q)
          \/ pc[q] = "fetched" /\ Answer(q)
          \/ Resolve(q) \/ EndMerge(q) \/ FailMerge(q)

Spec == Init /\ [][Next]_vars

-----------------------------------------------------------------------------
\* The tables hold rows of the right kind and no merge is of an incident with itself.
TypeOK ==
    /\ report \in [Report -> ReportRow \cup {None}]
    /\ incident \in [Request -> Incident \cup {None}]
    /\ about \in [Request -> SUBSET Report]
    /\ closes \in [Request -> [Edge -> Closure]]
    /\ status \in [Edge -> Status]
    /\ decision \in [Request -> Decision \cup {None}]
    /\ merge \in [Request -> Merge \cup {None}]
    /\ \A q \in Request : merge[q] # None => merge[q].source # merge[q].target
    /\ event \in [Request -> OutboxEvent \cup {None}]
    /\ pc \in [Request -> {"idle", "fetched", "evaluated", "merging", "done"}]
    /\ work \in [Request -> Task \cup Evaluation \cup Merging \cup {None}]
    /\ overwritten \subseteq Report
    /\ outrun \subseteq Edge

Decided(r, kind) == {q \in Request : decision[q] # None /\ decision[q].report = r /\ decision[q].kind = kind}

\* A verified report has a decision to confirm it, about an incident in the table
\* and announced by an event, and a rejected one a decision to reject it, even
\* when a slower request wrote the verdict back over a newer state
\* (verify_report: one transaction writes them all).
VerdictsAreRecorded ==
    \A r \in Report : report[r] # None =>
        /\ report[r].state = "VERIFIED" =>
              \E q \in Decided(r, "CONFIRM_INCIDENT") :
                  /\ incident[decision[q].incident] # None
                  /\ event[q] # None /\ event[q].incident = decision[q].incident
        /\ report[r].state = "REJECTED" => Decided(r, "REJECT_REPORT") # {}

\* Two decisions taken with the same If-Match on one report betray a request that
\* overwrote another's result: without one, whoever decides second is refused.
IfMatchIsExclusive ==
    \A p, q \in Request :
        p # q /\ decision[p] # None /\ decision[q] # None
        /\ decision[p].report = decision[q].report
        /\ decision[p].match = decision[q].match /\ decision[p].match # None
        => decision[p].report \in overwritten

\* The record of the reviews is complete and fair: every verdict has the decision
\* behind it, and of two reviewers who saw the same version one is refused.
DecisionsAreSound == TypeOK /\ VerdictsAreRecorded /\ IfMatchIsExclusive

\* A road with an active incident is not open, unless its conditions changed
\* between a resolution's evaluation and its declaration, or a merge brought it
\* the edges of an incident resolved before (resolve_incident, recalculation).
IncidentKeepsRoadFromOpening ==
    \A e \in Edge \ outrun, i \in Request :
        Active(i) /\ closes[i][e] # "none" => status[e] # "OPEN"

Covered(e) == \E i \in Request : Active(i) /\ closes[i][e] # "none"

\* A road loses its last active incident only when that one is resolved or
\* merged: into one that is, or while it was given links behind the merge's back.
\* Every other merge carries its roads over (record_incident_merge).
CoverageEndsByResolution ==
    [][\A e \in Edge : Covered(e) /\ ~Covered(e)' =>
          \E q \in Request :
              \/ pc[q] = "evaluated" /\ pc'[q] = "done"
              \/ /\ pc[q] = "merging" /\ pc'[q] = "done"
                 /\ \/ incident[work[q].target].lifecycle = "RESOLVED"
                    \/ closes[work[q].source] # work[q].links]_vars
=============================================================================
