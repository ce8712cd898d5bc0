# TLA+ models of the Smart Logistics Accessibility Intelligence Platform

This directory holds TLA+ models of the platform's backend and of its offline
client, the configurations that check them with TLC, and theorems about them that TLAPS
checks. The reference is the code at this commit; the design documents under
`src/pre-devlopment-assets/ner-project/` are used only to say what the code is
expected to do. All paths below are relative to the repository; `app/` stands
for `src/backend/app/`.

How to run: `tlc -config Outbox.cfg MCOutboxDispatcher.tla` checks a run,
`tlapm OutboxDispatcher_proofs.tla` checks a proof module. `PROJECT.json` lists
the runs, the theorems, the source lines of every definition, the hazards the
properties are for, and for every checked property one mutant: an operator that changes the model as a plausible
bug would and makes the property fail. Mutants stand next to the operator they
change, and nothing else uses them.

## 1. The system

A FastAPI backend on PostgreSQL (async SQLAlchemy sessions, READ COMMITTED,
`autoflush=False`, `expire_on_commit=False`), two worker processes that share the
database, a Redis counter for public rate limits, an object store for media, and
a web client with an offline queue in IndexedDB. Modules of the backend do not
call each other's tables except through the *outbox*: a use case writes an event
in its own transaction, a worker delivers it later.

```
 field client ──batches──▶ reporting ──review──▶ incidents ─┐
 (offline queue)              ▲ CV results                  │ outbox event
 operators ─────────────▶ network (edge status) ◀─ risk ────┤ (same transaction)
        status_version │      worker (weather, prediction)  ▼
 routing / dispatch ◀──┘                              outbox dispatcher
 logistics (trips) ◀── geofence ── telemetry          └▶ impact evaluator
```

### Inventory

| Component | State | Operations | What is hard | What makes it correct |
|---|---|---|---|---|
| **Edge status** `app/modules/network`, `app/workers/risk_refresh_worker.py` | `edge_status_events` (log), `edge_status_current` (projection with a version), `network_versions.status_version` | declare a status (HTTP), risk pass over all edges with recent weather | the version is read by one statement and written by another; the row is re-read and only differing columns are updated; one pass declares many edges in one transaction | no bump of the network version lost; projection agrees with its log; log and outbox commit together; the worker only escalates |
| **Outbox and impact** `app/workers/outbox_dispatcher.py`, `app/modules/impact` | `outbox_events` (retry count, backoff, dead letter), `outbox_consumer_receipts`, impact assessments with versions | publish, poll, handle, commit a success or a failure | row locks end at the first commit of a batch; crashes; retries behind newer events; retry state shared by all consumers | effects exactly once per consumer; dead letter after `max_retries`; everything published is settled |
| **Trips** `app/modules/logistics` | trips, stops, vehicles, drivers, delivery commitments | dispatch, transition, automatic start by a geofence | row locks on vehicle, driver, trip, commitments; unlocked read by the geofence; deadlocks | one running trip per vehicle and driver; legal transitions; commitments follow trips |
| **Telemetry** `app/modules/telemetry` | replay ledger per device, current position, breadcrumbs | ingest a batch; simulator; geofence | `FOR UPDATE` locks nothing when there is no row; out-of-order, repeated, future and anomalous fixes; several devices of different rank per vehicle | no fix stored twice; position only advances and is one real fix |
| **Offline queue** `src/frontend/src/features/field`, `src/frontend/src/shared/offline` | drafts, operations with a state machine, media, in IndexedDB; several tabs | save, queue, edit, discard, synchronise every 15 s | lost answers, late requests, two tabs, tab closed in mid-pass, a session that ends, ids reused after an edit | a report is neither lost nor stored twice; SYNCED means stored |
| **Field reports** `app/modules/reporting` | reports, amendments, media, `sync_results` | submit, batch synchronise, amend, attach media, apply CV results | check and insert are separate statements; CV result races a human review | one report per client operation id; a human decision is not overridden |
| **Incidents** `app/modules/incidents` | incidents, review state and version of reports, decisions, links to edges, merges | triage, verify, resolve, merge | optional `If-Match` compared on an unlocked read; every writer writes all columns back; a resolution evaluates edges and declares them later, a merge reads links and writes them later; only self-merge is refused | a verdict has its decision; a road with an active incident does not open |
| **Routing** `app/modules/routing` | route plans with `status_version` and expiry, dispatch decisions, trips | evaluate a route, record a decision | version and statuses are read by different statements; the version is compared by one statement and the decision inserted by another; networks are imported meanwhile, and the rows of a path are joined by an index that only one version makes unique | a plan that passes the version check has no closed road of its network |
| **Network queries** `app/modules/network/application/evaluate_reachability.py`, `app/modules/network/domain` | none | reachability of a facility, traversability of an edge | one path query per hub while roads close and networks are imported; a limited list of hubs; restrictions in any order | a facility reported reachable (or cut off) was; verdicts are monotone |
| **Identity** `app/modules/identity`, `app/core/security.py` | auth transactions, sessions, CSRF tokens, memberships, grants | sign-in callback, choice of an organisation, resolution of the principal, logout, logout from all devices, revocation, suspension, grants | a principal is resolved by three statements; revocations lock the sessions one by one; changes persist only by routes that commit | an ended session is refused; a grant rests on an authority; requests end |
| **Coordination** `app/modules/coordination` | append-only actions per subject | record an action | judged against an unlocked, truncated history | completions have requests; inspection cycles do not nest |
| **Hazard** `app/modules/hazard` | zones, assessments | derive the zones, refresh from a weather provider, overlay | provider fails for some zones; refreshes overlap | a refresh is whole; the overlay does not go back |
| **Public portal** `app/modules/public`, `app/core/rate_limit.py` | Redis counters, public route plans | limited route evaluation with a regional fallback | increment and expiry are two calls; the engine fails after it has stored a plan | admissions are bounded, blocked clients recover; stored plans are those offered |
| **Units of work** `app/core/db.py` | sessions | open, commit, roll back, close | `get_db` (145-163) never commits; only some routes do | an acknowledged write is durable |
| **AI services** `app/modules/ai`, `app/scripts/ingest_weather_features.py` | weather and terrain features per edge | ingest a rainfall file, read the latest features, interpret detections, plan tours | ingestions overlap; fewer rows than days; thresholds; truncation to whole kilograms | files do not mix; predictions are fresh and made from the rainfall index and zone of their edge; each stop is planned once |
| **Data loading** `app/scripts`, `app/modules/network/application/seed_regional_network.py`, registration routes | rows of most tables | scripts and routes: look up, insert, one commit | killed between statements, run twice or at once | a script leaves all or nothing; rows are unique; nothing is reopened |
| AI predictors, migrations, data preparation, views, configuration, training | – | – | – | not modelled, see section 8 |

Interactions: *shared tables* (network version read by routing; trips written by
logistics, telemetry and dispatch decisions; statuses written by incidents and
the risk worker, read by routing, reachability and impact), *events* (risk worker
and incident verification to the impact evaluator), *messages* (field client to reporting, devices to telemetry).

### Routes without a commit

`get_db` closes the session of a request without committing. The routes of
routing, hazard, coordination and the public route evaluation, the declaration of
a status and five routes of identity commit in the router; the scripts and the
two workers commit; **the routes of reporting, incidents, logistics,
telemetry and impact do not**, so what they acknowledge is rolled back. The
integration tests of these components call the use cases and commit themselves
(for example `src/backend/tests/integration/telemetry/test_concurrency_and_replay.py:90`).
`TripLifecycle`, `TelemetryIngest`, `IncidentAdjudication`, the registration
routes of `DataLoading` and the server of `OfflineSync` model the use cases with
that commit, the behaviour the tests and the documents describe; with no commit
their properties hold vacuously. What the missing commit does is shown by the run
`offline_rollback`, where the constant `RoutesCommit` is FALSE, as in the code:
the officer is shown SYNCED and the server has no report. In identity, the
routes that commit are those at `app/modules/identity/api/router.py:160`, `191`,
`207`, `238` and `349`; the provider's callback, the membership and the grant
routes do not, and `IdentityAccess` gives them the commit of their integration
tests.

## 2. Conventions of the models

* A transaction is a process. Each SQL statement whose place between the
  statements of other transactions matters is an action; `pc[t]` says which one
  comes next. READ COMMITTED means every statement sees the committed tables and
  the transaction's own flushed rows.
* Tables hold committed data. Drafts of a transaction are variables of its
  session and enter the tables in its `Commit` action.
* Row locks are variables (`lock`, `rowLock`). A blocked statement is a disabled
  action; a lock is released by `Commit`, by `Abort`/`RollBack`, or by the
  database when it breaks a deadlock.
* Every statement may fail (`Abort`, `Fail`, `HandlerFails`, `Crash`): the
  session rolls back.
* History variables (marked `history` where they are declared: `stale`,
  `contended`, `diverted`, `short`, `cleared`, `overrun`, `raced`, `overwritten`,
  `outrun`, `barred`, `failures`, `touched`, `seen`, …) only record; no guard
  reads them. They name the executions in which a race the code does not exclude has taken place,
  or a person has intervened, so that the property of all other executions can be
  stated. Section 5 lists these exceptions.
* Data is abstract: edges, vehicles, devices, events are model values; times and
  sequence numbers are small naturals.
* `Served` stutters when all requests of an instance are done, so that TLC's
  deadlock check finds only real deadlocks.

## 3. Modules

| Module | Models | Checked by | Proofs |
|---|---|---|---|
| `StatusBoard` | abstract: statuses and a version that moves with them | – | refined by `EdgeStatus` and by `RouteDispatch` |
| `EventDelivery` | abstract: each event is delivered once to each consumer, or given up after the last failure | – | refined by `OutboxDispatcher` |
| `EdgeStatus` | declarations, projection, network version, risk passes | `MCEdgeStatus` | `EdgeStatus_proofs` |
| `RouteDispatch` | route plans and dispatch decisions over boards of statuses | `MCRouteDispatch` | `RouteDispatch_proofs` |
| `OutboxDispatcher` | outbox, receipts, retries, impact versions | `MCOutboxDispatcher` | `OutboxDispatcher_proofs` |
| `TripLifecycle` | dispatch, transitions, geofence start | `MCTripLifecycle` | `TripLifecycle_proofs` |
| `TelemetryIngest` | replay ledger, position, breadcrumbs | `MCTelemetryIngest` | `TelemetryIngest_proofs` |
| `OfflineSync` | the field client's queue, sync passes, batch synchronisation on the server | `MCOfflineSync` | `OfflineSync_proofs` |
| `IncidentAdjudication` | triage, verification, amendment, photo result, resolution, merge | `MCIncidentAdjudication` | `IncidentAdjudication_proofs` |
| `IdentityAccess` | sign-in, sessions, memberships, grants | `MCIdentityAccess` | `IdentityAccess_proofs` |
| ten service modules, `DisruptionImpact` among them | see below | `MCServices` | in the four modules named below |

### EdgeStatus

| Action | Code |
|---|---|
| `ReadForDeclare`, `ReadForRisk` | `DeclareEdgeStatusUseCase.execute`: `get_current_status`, `version + 1` (`declare_edge_status.py:53-58`) |
| `StartPass`, `SkipEdge`, `AssessEdge` | the loop of `refresh_edge_risks`: prediction below the threshold or not more severe, or target found |
| `LoadBaseline` | `append_status_event_and_update_current`: event added, row loaded again (`repository.py:637-664`) |
| `BumpAndFlush` | `UPDATE network_versions SET status_version = status_version + 1`, then the flush of the row; `Flushed` writes only columns that differ from the loaded row |
| `Commit`, `Abort` | route or worker commits once; any exception rolls everything back |

`row`, `global`, `events`, `outbox` are the tables. `lock` is the row lock of
`network_versions`, which all declarers share. A risk pass keeps it until its
commit. The prediction is abstract: a pass may find any target for any edge.
Restrictions and evidence freshness are left out; the import of a network is in
`RouteDispatch` and `DataLoading`, its seed rows are the initial state here.

`ImplementsBoard` says that the module implements `StatusBoard`, with the
committed statuses for `status` and `network_versions.status_version` for
`version`: a commit is one `Declare`, which may change several statuses, and all
other steps stutter. It is the promise on which a plan's version check rests.

### RouteDispatch

`StatusBoard` is the interface: this module has one board for each imported
network version and never looks at how a declaration is carried out.

| Action | Code |
|---|---|
| `DeclareStatus` | what `EdgeStatus` promises, except that the one UPDATE without a WHERE clause (`repository.py:688-691`) advances the counters of all versions (`Bumped`) |
| `ImportNetwork` | a new active version, whose counter starts at 1 |
| `BeginEvaluate`, `ReadEdges`, `EndEvaluate` | `EvaluateRouteUseCase.execute`: the version is read, then the edges of that version with their statuses, then paths are asked for over those admitted; critical cargo also avoids provisional cautions |
| `Detailed` | the join of a path with `road_edges` on `edge_index` alone (`routing/infrastructure/repository.py:197`, `252`): every imported edge with an index of the path is stored |
| `BeginDecide`, `ReadTrip`, `EndDecide` | `RecordDispatchDecisionUseCase.execute`: expiry and version, then the unlocked trip, then the insert and the trip's status and snapshot |
| `TripMoves`, `Tick` | other writers of the trip; plans expire |

pgRouting is external: `Dijkstra` and `Ksp` return any of the paths that the
edges admitted contain; these are of the network version read, because they are
literals of the query. What is *stored* is `Detailed`, and it mixes versions: an
index is unique only within one (`network/infrastructure/models.py:119`).
`RoutesAreSound` and `DecisionsAreFresh` therefore speak of the edges of a route
that belong to the version it was planned on (`Own`). Of all the edges a route
stores neither is true: see section 5.
`FirstNetworkIsABoard` shows that the board of the first network
version is kept by imports and declarations of later ones.

### OutboxDispatcher

| Action | Code |
|---|---|
| `Publish` | the transaction of a use case (incident verification, resolution, risk pass) with its event |
| `Snapshot`, `LockBatch` | the poll: `FOR UPDATE SKIP LOCKED`, oldest first, at most `BatchSize`; rows changed since the snapshot are re-checked on their own columns, not on the receipts |
| `Handle`, `HandlerFails` | `_handle_impact_evaluator_event` inside the savepoint |
| `ReadReceipt` | `session.get(OutboxReceiptModel, …)` |
| `CommitSuccess`, `CommitFailure` | receipt, event columns, assessment and commit; retry count from the row cached at the poll |
| `ReceiptConflict` | the insert of a receipt that another process inserted meanwhile |
| `Crash`, `BackoffElapses` | the process dies and restarts; `next_attempt_at` passes |

The commit of the first event releases all locks of the batch; `batch` and
`cached` keep what the loop still has in memory. The evaluator is abstracted to
what others can observe: it appends an assessment whose version follows the
latest one of that edge. `DisruptionImpact` has what it does inside.

`DeliversOnce` says that, with one process per consumer, the module implements
`EventDelivery`: a consumer has had the events whose receipt is SUCCESS, an event
has had its effects as often as there are assessments of it, the failures are
those counted, and the given up events are the dead letters. Polls, handlers,
crashes and roll backs stutter; a commit is one delivery or one failure.

### TripLifecycle

A dispatch request *is* the trip it creates. `LockVehicle`, `LockDriver`,
`CheckVehicle`, `CheckDriver`, `ClaimCommitment`, `Commit` are the statements of
`DispatchTripUseCase` (`dispatch_trip.py`); `LockTrip` starts
`UpdateTripStatusUseCase`; `ReachStop` and `StartTrip` are the geofence's
unlocked read and its UPDATE, `MarkStop` what it does to a trip that has left or
ended (telemetry `repository.py:298-339`); a trip has one stop here. `Conflict` is
`ResourceAlreadyDispatchedError`; `BreakDeadlock` is PostgreSQL aborting one of
the transactions that wait for one another. Capacity, cargo class and activity of
resources only refuse a request and are covered by `Fail`.

### TelemetryIngest

A batch is one transaction: `ReadLedger` and `ReadPosition` (`FOR UPDATE`, which
locks only a row that exists), `Refuse`/`Accept` per fix in sequence order with
the checks in the order of the code, `SaveLedger` (upsert, `GREATEST` of the
sequence numbers), `FindPosition` (second, unlocked select), `WritePosition`,
`Commit`. `Rewritten` is the column-wise UPDATE, which is where two batches can
mix. A fix is `invalid`, `normal` or `fast` (above 140 km/h).

### OfflineSync

The one module that composes client and server. `used`, `drafts`, `ops`,
`photos` are the IndexedDB that all tabs share; `delayed` stands for a
`nextAttemptAt` that lies ahead. `due`, `ready`, `answer` are what a pass holds in
memory, `stage`, `todo`, `drafted`, `verdicts` a request on the server, `reports`
and `results` its tables.

| Action | Code |
|---|---|
| `NewDraft`, `EditDraft`, `QueueDraft`, `ReopenAs`, `DiscardOperation` | the functions of `store.ts`, one IndexedDB transaction each |
| `Autosave` | the wizard's 400 ms timer, which `finish` does not cancel: it saves the draft again after it has been queued (`ReportWizard.tsx:354-362`) |
| `SendTextOnly` | the button in `SyncQueue.tsx` |
| `StartPass`, `Resume`, `TakeDue` | begin of `pass` in `engine.ts`, only while the tab is `verified` (`OfflineProvider.tsx:94`): NEEDS_LOGIN is queued again, what is due is listed |
| `Unauthenticated`, `Expire` | a 401 makes the operation or batch NEEDS_LOGIN, and its event makes the tab drop what it knows of its session (`client.ts:26`, `session.tsx:69-79`) |
| `CheckSession`, `SignIn`, `EndSession` | `/me` is asked again and says whether the session lives; the officer signs in; the session ends on the server |
| `BeginUpload`, `Upload`, `Mark` | the loop over `due`; the payload sent is the one listed, the photos are read again |
| `Send`, `Receive`, `Apply`, `EndPass` | the batch and its answer, item by item |
| `Throw` | `assertTransition` refuses an update: the exception ends the pass |
| `FailUpload`, `LoseAnswer`, `RefuseBatch`, `CloseTab`, `LoseContact`, `EndSession` | faults, counted by `FaultLimit`; `classifyFailure` decides the state; a tab that cannot reach `/me` goes on with a cached identity and starts no pass |
| `Lookup`, `Find`, `RefuseItem`, `Insert` | an item in `sync_reports.py` and `submit_report.py`; the insert waits for a transaction that has inserted the same key and fails if that one commits |
| `Finish`, `Drop`, `Vanish` | end of the request, an answer nobody waits for, a request that is lost or whose server fails |

A request whose answer is lost stays on the server and may be handled at any
later time. A report is its id and a version number, a photo its owner and whether
it has been uploaded. `signedIn` is whether the session of the cookie lives on the
server, `login` what each tab knows of it, `stale` the batches sent with a session
that ended before the server looked at them. The query cache is a library:
it is taken to drop the entry that the code sets to `undefined`. Left out: chunks
of 50 items, several owners on a device (a person other than the one who queued
the report who signs in),
full storage, purge, discarding a draft, removing photos, and a 409 answered to
an upload call.

### IncidentAdjudication

A request is two steps: what it reads without a lock (`Begin…`), and its writes,
which become visible at once with its commit (`Triage`, `Refuse`, `Confirm`,
`Amend`, `VerifyPhoto`, `Resolve`, `EndMerge`).

| Definition | Code |
|---|---|
| `BeginReview`, `Matches` | `VerifyReportUseCase.execute`: no review of one's own report, jurisdiction, and `If-Match` only if the client sent it |
| `UpdateReport` | `update_report`: every reviewed column is written from the entity read, the version is the one read plus one |
| `Confirm`, `CreateIncident`, `EdgesToLink` | a confirmation: incident, links, statuses, decision, event; a confirmation into an existing incident links neither the report nor its edges |
| `BeginResolve`, `Recalculated`, `Resolve` | `ResolveIncidentUseCase.execute` evaluates the other active incidents of each edge, and declares the results afterwards; `recalculation.py` |
| `BeginMerge`, `EndMerge`, `FailMerge` | `MergeIncidentsUseCase.execute` and `record_incident_merge`: the links of the source are read (214-227), later written to the target, and the source is resolved (239-248); a link that another merge has inserted meanwhile is the same key, and the request is rolled back |
| `VerifyPhoto` | `ApplyCvVerificationUseCase.execute` |

`MONITORING` and `Incident.reopen` have no caller and are left out.

### IdentityAccess

Every authenticated request resolves its principal in three statements
(`ReadSession` and `TouchSession`, which locks the session's row,
`ReadMembership`, `ReadGrants`) and then does one thing: `Look`, `IssueToken`,
`Logout`, `BeginLogoutAll` with `LockSession` per session, `BeginAdminRevoke`,
`CreateMembership`, `EndMembership`, `CreateGrant`, `RevokeGrant`. A sign-in is
`BeginCallback`, `ConsumeState`, `ExchangeCode`, `ReadMemberships`, and then
`OpenSession` or `OfferChoice` and a later `SelectOrg`. `Baseline` is
`ROLE_CAPABILITY_MAP`. `RollBack` is any failure, `BreakDeadlock` PostgreSQL's.
`barred` records the sessions that were ended, so that `EndedSessionsAreRefused`
can speak of requests that arrive afterwards.

### The services

Ten modules that share no state. `MCServices` puts them into one run: a behaviour
exercises one of them (`service`) and the others keep still.

Each is also proved about, on its own specification. The proofs stand with those
of the component the service works for or is nearest to: `DisruptionImpact` in
`OutboxDispatcher_proofs`, `CoordinationLog` in `RouteDispatch_proofs`,
`DataLoading` in `TripLifecycle_proofs`, and the other seven, which start from the
roads, in `EdgeStatus_proofs`.

| Module | State and actions |
|---|---|
| `CoordinationLog` | the log and the requests under way; read the history and judge it, insert, commit, roll back |
| `HazardZones` | zones, assessments; two requests derive zones, refreshes overlap, the provider answers or not for each zone |
| `PublicAccess` | one Redis key with its expiry; `INCR` and `EXPIRE` as two calls, Redis fails or the worker dies between them, the engine stores and raises, the regional fallback answers |
| `DataLoading` | rows by natural key; five scripts and five routes look up, insert and commit once, and crash anywhere; one row of the module stands for the rows one script writes to one table |
| `FacilityReach` | imported and closed roads, the request; the hubs among a limited, unordered list, one path query per hub while roads close and open and networks are imported, then the weight limits of the cheapest path. No statement looks at the network version: routes run over all edges, and the rows of a path are joined by index. A query that raises ends the request: its handler calls a `logger` the module does not have (`network/infrastructure/repository.py:569-576`) |
| `DisruptionImpact` | trips with route snapshots, positions of vehicles (a few places), impact rows; list, locate and assess each trip, write; trips start, end, move anywhere and are rerouted meanwhile. Whether a place is past the edge depends on the plan listed (`Beyond`), as in the code, which projects both on the plan's geometry |
| `RiskFeatures` | observations and terrain per edge; ingestions build windows and the rainfall index, upsert and keep their rows locked; the terrain script gives some edges, at most 5000 of a bounding box, their zone by slope; passes select edges and predict |
| `HazardDetection` | boxes, those kept and those still to be looked at; filter, greedy suppression step by step, where equally confident boxes come in any order (`np.argsort` is not stable), decision |
| `DispatchPlanning` | demands, capacities, solution, plan; the solver returns any assignment within the capacities as it counts them, or none |
| `Traversability` | one vehicle, one edge, a list of restrictions; the rule of `traversability.py` and its verdict; nothing but tests calls `evaluate_edge_traversability` so far |

The last three are algorithms: their initial states enumerate the inputs, and
their properties are reference definitions (no two kept boxes overlap, every stop
is planned once, the verdict does not depend on an order).

## 4. Runs

Every run explores its instance completely. A property of a run is often a named
conjunction of parts that one question holds together (`HistoryIsSound` is the
type invariant, the soundness of the ledger and the absence of replays); the
parts are defined, commented and named in the module, and the text below uses
their names. The type invariants are such parts.

| Run | Instance | Shows |
|---|---|---|
| `edge_status` | 2 edges, 2 operators, 1 risk pass | `VersionsAreSound`: rows keep their types and no bump of the network version is lost; where no declaration was made on a stale read, the projection can be rebuilt from the log and the worker only escalates; the board of statuses is implemented |
| `routing` | 2 network versions with 4 edges, 1 evaluation, 1 decision, 3 versions of statuses, 2 ticks | `RoutesAreSound`: a plan whose version is current has no closed road of its network, and its routes lead to the destination; a decision with no change since its comparison chooses a usable route; the first network's board survives imports |
| `outbox` | 2 events, one process for each of 2 consumers, `MaxRetries` 2, 1 crash | `ReceiptsAreSound`: exactly-once effects, dead letters only after the last retry; every event is settled, and `DeliversOnce`: delivery exactly once is implemented |
| `outbox_shared` | 2 events, 2 processes of one consumer, `MaxRetries` 1, 1 crash | receipts collide, and still every event is settled |
| `trips` | 2 dispatches, 2 transitions, 1 geofence, 2 vehicles, drivers and commitments | exclusive vehicles and drivers; `RecordsFollowTrips`: commitments and stops follow their trips; legal transitions; requests that lock commitments in opposite orders all end |
| `telemetry` | 3 batches, 2 devices of different rank, payloads with a repeat, an invalid, a future and a fast fix | `HistoryIsSound`: no fix stored twice, the ledger is the newest breadcrumb; `PositionIsSound`: the position is one real fix, a best-rank fix is never left behind |
| `offline` | 2 tabs, one report, edited and queued again | no late answer takes back SYNCED |
| `offline_faults` | 1 tab, one fault of any kind, edits, late requests | `ReportsAreSound`: one report for an operation, none without its photo, and retries that never look like a conflict; SYNCED only when exactly it is stored; every queued report settles or waits for the officer to sign in |
| `offline_rollback` (violated) | 1 report, `RoutesCommit` FALSE | SYNCED is shown and nothing is stored |
| `adjudication` | 2 reports and 2 roads; 4 requests from nothing, or 3 from three active incidents; two versions for `If-Match` | `DecisionsAreSound`: a verdict has its decision and event, `If-Match` admits one decision; a road with an active incident does not open; `CoverageEndsByResolution`: a road loses its last cover by a resolution, or by a merge into an incident that is resolved by then or of one that was given links meanwhile |
| `identity` | 2 users, 2 organisations, 3 sessions and 2 sign-ins, a repeated callback, 2 requests | ended sessions are refused; `GrantsAreSound`: grants rest on an authority; requests that lock sessions in opposite orders all end |
| `services` | each service with 1 to 4 requests | see the table below |

The violated run quotes in `findings` what a comment and a message to the officer
say, and shows that the code does something else: SYNCED is shown for what is
rolled back.

| Service | Instance | Property | Its parts |
|---|---|---|---|
| coordination | 4 requests on one subject, histories of 2 rows | `InspectionsAreOrderly` | `LogTypeOK`, `CompletionsHaveRequests`, `InspectionsAlternate` |
| hazard | a steep and a flat edge, 2 seeders, 2 refreshes, 3 rainfalls | `AssessmentsAreSound`, `NothingIsUndone` | `HazardTypeOK`, `OneZonePerEdge`, `PassesAreWhole`, `RainRaisesRisk`; `LatestNeverGoesBack` |
| public | limit 2, window 2 ticks, 2 requests at once | `PublicAccessIsSound`, `BlockedClientsRecover` | `PublicTypeOK`, `AdmissionsAreBounded`, `StoredPlansWereOffered` |
| loading | 4 deployments of 3 to 6 jobs, 2 at a time | `LoadedDataIsSound`, `NothingIsUndone` | `DataTypeOK`, `ScriptsAreWhole`, `RowsAreUnique`; `LoadingReopensNothing` |
| reach | 2 hubs and 2 other facilities of which 2 are listed, 2 network versions with 4 edges, two of them with one index | `ReachabilityIsTrue` | `ReachTypeOK`, `ReachableMeansOpen`, `NoPathMeansCutOff`, `ReachableMeansBearing` |
| impact | 1 trip with 3 plans and 2 commitments, 3 places, 2 events of one kind, and any that ask nothing | `ImpactsAreSound` | `ImpactTypeOK`, `EveryTripIsWarned`, `NobodyIsTurnedBack`, `OneImpactPerEvent`, `ClosingsCloseAnImpact` |
| features | 3 files of 2 days and 2 edges, 2 passes | `FeaturesAreSound`, `IndexIsMoisture` | `FeatureTypeOK`, `FilesDoNotMix`, `PredictionsAreFresh`, `WindowsNest`, `SteeperScoresHigher` |
| detection | all sets of 3 boxes of 3 places and confidences | `DetectionIsSound` | `DetectionTypeOK`, `KeptBoxesRepresentAll`, `BestBoxDecides` |
| planning | 3 stops, 2 vehicles, weights around whole kilograms | `PlansAreSound` | `PlanningTypeOK`, `EveryStopIsPlannedOnce`, `OverloadIsBelowRounding` |
| rides | all edges and vehicles of the bounds, up to 2 restrictions | `VerdictsAreSound` | `TraversabilityTypeOK`, `VerdictIgnoresOrder`, `NothingWorseOpens` |

**Why the bounds are enough.** All races found need two transactions and at most
one more that prepares the state; each passing run has one more, except
`routing`, `identity` and the services, where the third actor (a declaration, an
import, the first request) is an action of its own that needs no transaction.
Two edges (or commitments) suffice for what relates different rows of a pass
(lock order, one lock for many rows). Two events in a batch of two give a first
commit and an unlocked rest; `MaxRetries` 2 distinguishes the first failure from
the last, and `MaxRetries` 1 reaches a dead letter at once. One crash at every
possible point covers restarts: the state after a restart is the one a first
start may find. Sequence numbers 0 to 3, times 0 to 2, `MaxAge` 0 and `MaxSkew` =
`MaxBackward` = 1 make every comparison of the checks come out both ways. In
`routing` the second network has a road of its own, so that a plan of the first
one never is a plan of the second, and `ferry` is unfit for the vehicle. In
`adjudication` two reports of one road give two incidents that cover it, and one
of the impacts closes a lane of the other road. The run has a second start, with
three incidents that reviews have opened, because the race of merges needs three
and three requests more; in its first start two of the six requests are over. In
the impact service the two plans over the edge leave it behind at different
places, so that a reroute can put the edge ahead of a vehicle again; the kind of
an event only chooses the labels of its impacts, so one kind that asks for an
evaluation is enough (`OneKind`). The counters that would grow are
bounded by the requests of an instance; `CrashLimit`, `MaxClock`, `MaxVersion`,
`Match`, `OneKind`, `Delegable` and `Grantee` are the only bounds added in guards (`Match`
leaves out a review without `If-Match` in the run, where it makes too many
states; the theorems cover it).
In `services` the rainfall index looks back 3 days over
files of 4 rows and fewer, and one edge lies exactly on a slope threshold.
Symmetry is used only in runs without liveness and only over requests of one kind
and interchangeable rows. In `OfflineSync` `FaultLimit` and `MaxEdit` bound
faults and versions, `MaxReports` the ids given to new reports (the rest are for
fresh ids), and `ScanRetryLimit` is 2 instead of 4, which has a first, a last and
no middle retry. Two tabs and faults together are beyond an exhaustive run:
`offline` has the tabs, `offline_faults` the faults; a lost answer with a retry
already makes two requests of one operation race on the server.

Deadlock is checked except in the runs of `RouteDispatch`, `IncidentAdjudication` and `MCServices`, whose
instances come to an end when their requests are used up and which hold no lock
that another request waits for in a cycle (two ingestions do, see section 5).

## 5. Known exceptions

Properties named `Serial…`, or with a history variable in them, except
executions that the code does not exclude:

* **Two declarations of one edge from the same version** (`contended`): the
  edge's version may stay or go back, and, because unchanged columns are not
  written, the row may carry one declaration's source event with the other's
  status. A risk pass that read RESTRICTED overwrites a BLOCKED declared
  meanwhile, though `risk_refresh_worker.py:53-54` says that only escalations are
  declared.
* **Order of assessments**: the latest assessment of an edge may come from an
  older event that was retried after its backoff, or that was skipped because
  another consumer held its row (`outbox_dispatcher.py:175`); no property
  promises an order.
* **First telemetry batches of a device** (`raced`): there is no ledger row to
  lock, both batches are accepted and a fix may be stored twice; likewise for the
  position (`overwritten`).
* **A commitment on two trips**: dispatch claims commitments whatever their
  status, so the property about commitments speaks of all trips that carry them.
* **DIVERTED** frees vehicle and driver though the trip may resume: they can then
  be on two running trips (`diverted`).
* **The geofence** writes IN_TRANSIT from an unlocked read, also over a
  cancellation committed in between (`overrun`); in the same way a dispatch
  decision revives a cancelled trip.
* **Two dispatchers of one consumer**: the first commit of a batch releases the
  locks of the rest, and an event may be handled twice. `EffectsMatchReceipt` is
  therefore checked and proved for one process per consumer, as deployed.
* **The officer intervened** (`touched`): a report edited under its own id after a
  lost answer meets the cached result of the first version, is shown as SYNCED,
  and the edit is not stored; a draft saved by the autosave timer after it was
  queued can be queued again under the same id.
* **Adjudication without `If-Match`**: two reviewers decide one report, each may
  open an incident, and the slower request writes its whole entity back
  (`overwritten`); the photo model and an amendment do the same.
  `IfMatchIsExclusive` therefore speaks of two decisions with one version.
* **Resolution** (`outrun`): an incident confirmed between the evaluation of a
  road and its declaration is not seen, and the road opens under it.
* **Merges**: a merge into a resolved incident, and a cycle of merges, are
  accepted. With A into B and C into A at once, the roads of C may come to A after
  A's links were read (`incidents/infrastructure/repository.py:226`) and before A
  is resolved (239-248), and then no active incident covers them, though the
  comment of line 225 says that the source's edges are linked to the target.
  `CoverageEndsByResolution` names both cases.
* **Edges of other network versions**: a stored plan and a reported path also have
  the edges of other versions that share an index with theirs, blocked or not: the
  join asks for the index alone (`routing/infrastructure/repository.py:197, 252`,
  `network/infrastructure/repository.py:564`, whose docstring at line 532 says that
  blocked edges are excluded). `RoutesAreSound` and `DecisionsAreFresh` speak of
  the plan's own network; `ReachableMeansOpen` says that some route inside the path
  was open, and that it was the cheapest while indices are unique. Stated of all
  the edges of a route, `CurrentPlansAreUsable` and `ReachableMeansOpen` are
  violated in these instances: with both versions imported, a current plan on the
  second one lists a blocked edge of the first.
* **Networks**: an imported version starts its counter at 1, so the version of a
  plan of the old network passes the `<` comparison;
  `DecisionsAreFresh` speaks of plans of the live network. The rule that keeps
  hazardous cargo out asks for a kind of restriction (`NO_HAZMAT`,
  `evaluate_route.py:104`) that the enumeration does not have.
* **Sessions**: a sign-in that runs while all sessions of its user are ended
  survives, and so does a request that has read its session before
  (`late` marks the requests that must be refused). Revoking a grant leaves the grants given
  on its strength; `GrantsAreGrounded` speaks of the time of the grant.
* **Inspections**: two requests judged at once may both open a cycle (`logRaced`),
  and a subject with more actions than one request reads forgets its open
  inspection.
* **Hazards**: two requests that find no zones both derive them (`seedsRaced`); a
  provider that does not answer is stored as a dry day.
* **Rate limit**: the windows are fixed, so twice the limit fits into one span of
  `window_seconds` (`rate_limit.py:55` promises the limit); a key whose expiry was never set blocks its client for good;
  `BlockedClientsRecover` speaks of keys with an expiry.
* **Loading**: drivers have no unique key, and two runs of the fleet script
  duplicate them if a route has registered the vehicles first (`registered`).
* **Reachability**: only hubs among the first 100 facilities of an unordered query
  are asked (`evaluate_reachability.py:67`, `ListLimit`); the verdicts speak of
  these. A failed path query is an error of the request. A hub at the facility's
  own node has no path, because the query has no rows for it; the routes of the
  model are therefore never empty (`ReachAssumption`).
* **Impact**: a vehicle without a position counts as not past the edge; whether a
  vehicle is past it is judged on the one plan listed, so `EveryTripIsWarned`
  excepts a trip that was past it on any of its routes (`cleared`); a road
  that reopens leaves impacts active until the next event; two handlers may give
  one version twice.
* **Curfews**: a route excludes a road under curfew by the departure and the
  road's own travel time (`evaluate_route.py:110`), not by the time of arrival,
  and from 22:00 to 06:00, where the verdict on one edge has 20:00 to 05:00
  (`traversability.py:116-117`). `RouteDispatch` takes the excluded roads as given.
* **Features**: two ingestions with opposite orders of edges deadlock and one is
  rolled back as a whole, which `FilesDoNotMix` shows to be harmless. A window
  counts rows, not days. Edges beyond the limit of the terrain script have no
  terrain and are never predicted.
* **Planning**: weights are cut to whole kilograms, so a vehicle may carry less
  than one per stop too much; a commitment listed twice is planned twice. A
  request may also repeat a vehicle (`app/modules/ai/api/schemas.py:69`), which would then drive
  two tours; in the model the vehicles of a request are distinct.
* **Detection**: an answer without a box is CLEAR_ROAD with confidence 1.0.

## 6. Liveness and fairness

* `OutboxDispatcher!FairSpec`: `WF` of a worker's own steps, because
  `run_outbox_worker` is an endless loop that survives any exception and is
  restarted by the deployment after a crash (crashes are not fair and are
  bounded); `WF` of `BackoffElapses`, because time passes. Nobody is obliged to
  publish; the handler may fail forever, which ends in a dead letter.
* `TripLifecycle!FairSpec` and `IdentityAccess!FairSpec`: `WF` of the steps of a
  request under way and of PostgreSQL's deadlock detection (part of the same
  disjunction). Users are not obliged to send anything.
* `OfflineSync!FairSpec`: `WF` of a tab's pass, because timers start one every 15
  seconds (`OfflineProvider.tsx:122`) and the engine runs to its end; `WF` of a
  request's steps on the server; `WF` of `BackoffElapses`. A pass starts only while
  the tab is verified; `WF` of `CheckSession`, because `/me` is asked at once after
  a 401 and every 15 seconds while the identity is a cached one (`session.tsx:62`,
  `75`). Nobody is obliged to sign in: the property promises that a queued report
  settles or that the session is over, and so that one in NEEDS_LOGIN settles once
  the officer has signed in and stays so. It assumes
  that the officer at last leaves the device alone: re-queueing a report over a
  running pass again and again keeps it in the queue. Faults are bounded.
* `MCServices!Spec`: `WF` of `Tick`, because time passes; requests are not fair.

Liveness is checked by TLC only: it is out of the prover's reach.

## 7. Theorems

Proved by TLAPS for every value of the constants that satisfies the named
assumptions.

**`EdgeStatus_proofs`** (assumption `TxnAssumption`: finitely many edges, disjoint
kinds of transactions): `TypeCorrect`, `CounterCorrect` (together
`VersionsCorrect`), `ProjectionCorrect`, `OutboxCorrect`, `ChangeIsVersioned`, `EscalationOnly`, `BoardImplemented`. None
of the properties is inductive alone. `IInv` adds:

* `LockInv` – rows are flushed only under the lock of `network_versions`;
* `EdgeInv` – a transaction declares an edge at most once;
* `CounterInv` – the counter the holder sees is the committed one plus its own
  flushed events, and the committed events are those of committed transactions.
  This is the heart of `CounterCorrect`: at a commit, `Cardinality` grows by
  `Cardinality(written[t])`, which `PairingKeepsSize` and the disjointness of
  new and old event ids give;
* `RiskInv` – a pass declares only RESTRICTED or BLOCKED;
* `ReadInv` – what a transaction read is still true of edges not in `stale[t]`,
  so the column-wise UPDATE writes exactly the declared row;
* `SeverityInv` – so is the severity comparison.

Each conjunct has a step lemma with one case per action; `Commit` is the only
hard one. The two action properties follow from `IInv` and the step.
`BoardImplemented` is the refinement of `StatusBoard`: the initial rows are its
initial board, and a step that changes a status or the counter is a commit, which
by `IInv` and `ChangeIsVersioned` makes the version greater.

**`OutboxDispatcher_proofs`** (assumptions `DispatcherAssumption` and, as a
hypothesis of each theorem, `OneWorkerPerConsumer`, the way the deployment runs
it; section 5 says why it is needed): `ExactlyOnce`,
`DeadLetterCorrect` (together `ReceiptsCorrect`), `DispatchedForGood`, `DeliveryImplemented`. The argument is that with one process
per consumer nobody else writes its receipts, and only the evaluator can fail, so
`FreshInv` (what the poll saw still holds, though the locks are gone) and
`CountInv` (the cached retry count is the stored one, which counts the failures)
survive the commits of others. `BatchInv` and `DraftInv` say that the loop is at
an event of its batch and that an edge's assessments have a latest one.
`DeliveryImplemented` is the refinement of `EventDelivery`, step by step: what the
lost locks, the cached rows and the retries might do twice is excluded by
`ExactlyOnce`, and `PublishedInv` says that a worker is only at published events.

**`RouteDispatch_proofs`** (`RouteAssumption`: networks are positive numbers and
there is one, their roads are disjoint, no path is empty; an index is that of one
edge within a version, and of any number across versions): `RoutesCorrect`,
`DispatchIsFresh`, `FirstNetworkImplementsBoard`. The first two speak of the edges
of the plan's own network (`Own`): what the join by index adds to a route from
another version is outside them (section 5).

* `NetworkInv` – the first network is imported, so there is a live one
  (`LeastNumber` gives the first by well-foundedness, since `CHOOSE` alone says
  nothing);
* `EvaluationInv`, `PlanInv` – a version ever read is at most the one its network
  counts now, and while it is the same the edges read as admissible are usable.
  Roads change only together with the counter, so a plan whose
  version is still the counter was computed from the roads as they are: this is
  why the version is read before the roads;
* `DecisionInv` – a decision in progress holds a route of a stored plan that was
  not behind the version compared.

`DispatchIsFresh` is an action property that follows from `IInv` and the step;
the refinement shows that imports and requests stutter on the first network.

**`TripLifecycle_proofs`** (`TripAssumption`: kinds of requests and of rows are
disjoint; `NoneIsNoStatus`): `AssignmentIsExclusive`, `RecordsCorrect`,
`TransitionsAreLegal`.

* `DispatchInv`, `TransitionInv`, `GeofenceInv` – who holds which lock when, and
  what was checked under it;
* `FreeInv` – a vehicle or driver found free is still free of running trips that
  were neither diverted nor overwritten, because every other dispatch that could
  take it needs the lock. Conflicting commits are impossible by it;
* `DivertedInv` – a trip in DIVERTED is in the history `diverted`.

**`TelemetryIngest_proofs`** (`TelemetryAssumption`: payloads are in the order of
sequence numbers, ranks and bounds are numbers, None is no row): `HistoryCorrect`,
`PositionCorrect`.

* `LedgerLock`, `PositionLock` – a row read `FOR UPDATE` is still the stored one
  when its batch commits, and whoever writes holds it;
* `Fold` – the breadcrumbs of a batch are new and distinct, and the last of them
  is the mark the ledger will get;
* `Candidate` – the running position is the one read or a fix of the batch, and
  no fix of a best source is newer;
* `RankInv` – a position has the rank of a device.

The attempt to prove `LedgerIsNewestCrumb` showed that the module's formula had
said less than its comment, because one conjunct was indented into the quantifier
before it. It now says what the comment says; TLC and the proof agree.

**`IncidentAdjudication_proofs`** (`AdjudicationAssumption`, `NoneIsNoRow`):
`DecisionsCorrect`, `RoadsStayClosed`, `CoverageCorrect`.

* `OwnRows` – a request leaves its rows with its last step only;
* `WorkInv` – what is in a request's hands;
* `VerdictInv` – a verdict has its decision also in the entity a request has
  still to write back: the slower of two reviewers can bring back a status, but
  not one without a decision;
* `MatchInv`, `VersionInv` – a decision with `If-Match` read that version and
  leaves a later one, so a second one with the same `If-Match` needs a write over
  another's result;
* `LinksInv` – the links a merge has read are still its source's, because no link
  is ever removed; so what a merge has read does arrive at its target, and only a
  link that another merge gives the source afterwards is left behind;
* `EffectiveInv` – a status evaluated and not yet declared counts every other
  active incident of the road, or the road is in `outrun`.

**`IdentityAccess_proofs`** (`IdentityAssumption`, `NoneIsNoRow`):
`EndedSessionsStayOut`, `GrantsCorrect`. No step takes back a revocation, the end
of a membership or a grant on record (`SessionsKept`, `MembershipsKept`,
`GrantsKept`, one case for each action); from that

* `BarredInv` – an ended session is revoked or its membership is over;
* `RequestOf` – a late request that got past the first read has a membership that
  is over, and so it never passes the second; the sessions a logout-all left out
  of its `UPDATE` were revoked already; the capabilities read have a founder;
* `SignInOf` – a sign-in has not created its session yet, so that nobody's
  session is overwritten by it.

**`OfflineSync_proofs`** (`OfflineAssumption`, `NoneIsNoRow`): `ReportsStored`,
`SyncedStays`, and `SyncedStored` with the hypothesis `RoutesCommit = TRUE`, which
the run `offline_rollback` shows to be needed: the route as it is does not commit
(section 1). The proof follows one operation through the queue, the passes of
every tab, the batches and the tables:

* `Undisturbed` – a step leaves the text and the photos of an operation the
  officer has not intervened on, and never marks a photo as not uploaded. So what
  was true of a row that names an operation stays true of it (`Stays`), wherever
  the row is;
* `ListedInv`, `BatchInv`, `TablesInv` – every such row (listed, ready, sent,
  inserted, stored) has the text in the queue and says rightly whether there is a
  photo. This is what excludes a conflict: the server compares two copies of one
  text;
* `UploadInv` – the photos of the operation a pass prepares are uploaded, but for
  those it is about to upload; `Mark` needs it to say "with a photo". A photo that
  the officer moves to another report while it is pending is of an operation he
  intervened on (`OfWritten`);
* `PassInv` – a pass waits for a batch of its own, in which every item is still to
  be handled or has an answer, so that an answer received decides every item;
* `Row` – an id has one uncommitted report at most, and none when it has a result:
  the unique keys, seen from the batches. A commit therefore appends to an empty
  table;
* `AnswerInv`, `SyncedInv` – "stored" is said of committed results only, and
  SYNCED is written on that answer only.

Each of these invariants, with its whole `IInv`, was model-checked on the instance
of the component's run before it was proved.

**The services.** Each theorem is about the specification of one service,
`XInit /\ [][XNext]_xVars` with no fairness, which is what a behaviour of
`MCServices` is for the service it exercises. What is assumed of the constants is
that sets of requests, edges and zones are finite where the code counts them, and
that weights, times, gradients and rainfalls are whole numbers in their ranges.

* `EveryWarningReachesItsTrip` (`DisruptionImpact`): `CoverInv` follows a trip
  from the list through the look at its vehicle to its draft, so that none is
  lost; `PlaceInv` says that each look at a vehicle is recorded in `short` and
  `cleared`, which hold the listed routes on which it was seen short of the edge
  and past it since the handling began; `TripsInv` and `OwnInv` make one impact of
  an event and a trip; `ClosingInv` says that a draft that closes has what it
  closes in the table or in the same hands.
* `InspectionsCorrect` (`CoordinationLog`): `JudgementInv` – while nobody else is
  judged about the subject its log cannot move, so the judgement still holds at
  the insert; `StampsInv` – the instants are distinct.
* `AssessmentsCorrect`, `OverlayNeverGoesBack` (`HazardZones`): `PassInv` – a pass
  drafts one assessment of each zone it takes from its list, and nobody else
  writes in its name; `ScoresInv` and the monotonicity of score and level make
  more rain no less risk; `TimeInv` – the time counts the passes begun.
* `ReachabilityCorrect` (`FacilityReach`): `AskedInv` – while an index is that of
  one edge, the best path so far is the best of the hubs asked, each at the time it
  was asked, and was open then. Paths have least costs because costs are natural
  numbers. With an index in two versions the details are of either.
* `PublicAccessCorrect` (`PublicAccess`): `BudgetInv` – what a key adds to the
  admissions before it is bounded by its count, and all that is younger than its
  expiry was let in by it; `PendingInv` – only one request can be between
  increment and expiry.
* `LoadedDataCorrect`, `NothingReopened` (`DataLoading`): `WorkInv` – rows before
  the one a job is at have been found or inserted; `DraftsInv` – a row under a
  unique key is in one pair of hands only; `PairInv` – vehicles and drivers of the
  fleet script come together until a route registers one.
* `FeaturesCorrect` (`RiskFeatures`): `StoreInv`, `DuePassInv` – a commit replaces
  the rows of its day and never takes the last row of an edge, so that an edge
  that was due still has one when it is predicted. `ShortSums` computes the
  windows from the fold, `HighestSample` and `RiseIsNumber` make the slope a
  number, `ZonesFollowSlopes` that zones grow with it.
* `DetectionCorrect` (`HazardDetection`): `ApartInv`, `RepresentedInv` – a box that
  is kept overlaps none that may still be kept, and is at least as confident as
  each that goes because of it.
* `PlansCorrect` (`DispatchPlanning`): `ToursReadInv` – the routes read so far are
  the tours of the vehicles before the next one; what is cut off a load is less
  than a kilogram per stop, by induction over the fold.
* `VerdictsCorrect` (`Traversability`): a verdict stops a vehicle exactly if
  something speaks against the road (`Against`), which names no order.

The sums, samples and stops of unbounded length in these proofs need induction
over data, which the provers cannot take from a library theorem. It is done by a
least counterexample: the set of sizes for which the claim fails has a least
element (`LeastNat`, from well-foundedness), and the claim for the size
before it refutes it.

`OutboxCorrect`, `ChangeIsVersioned` and `DispatchedForGood` (a dispatched event
never changes again) state properties that no run repeats: the proofs cover
every instance, and the runs keep to what is not proved or shows the same state
from another side.

What the assumptions on the constants exclude is no more than that values of
different kinds are the same value (None, ids of different tables), the empty
world (no network) and unsorted payloads, which the ingestion sorts first
(`ingest_telemetry.py:65`). `None` is a value of the models, not of the code.

Every safety invariant and action property that the runs check is proved, except
the following, which are model-checked only:

* `IndexIsMoisture`: it compares two definitions by powers of the decay, and the
  provers know no laws of exponentiation.
* `EventuallySettled`, `EveryRequestEnds`, `EverySubmissionSettles` and
  `BlockedClientsRecover`: liveness is out of the prover's reach, and so is
  freedom from deadlock.

## 8. Not modelled

* **AI predictors, map matching, geometry**: numerical code behind ports. The
  models let a prediction be anything it can be.
* **Migrations and data preparation**: run once on an idle database or on files.
* **Views of the web client, configuration, logging, tracing, object storage.**
* **Media tickets** of reports: the routes that issue and confirm them never
  commit, an upload is marked CLEAN without a scan, and nothing reads the status
  before a download; a model of it would have no property that could fail.
* **Sharing grants**, `Incident.reopen`, `ImportNetworkVersionUseCase`
  and `core/pagination`: no route or worker calls them. (The
  import of a network is modelled from the repository function that the scripts
  call.)
* **Idle timeouts of sessions and the audit log**: what a request writes just
  before it raises is rolled back with it, so both only refuse.
* **Authentication and authorisation checks** in front of the use cases other
  than those of identity, adjudication and dispatch: they only refuse requests,
  and the models let any request arrive.
* `last_seen_at` of a device, batches of more than
  50 items, several owners on a device, full storage.

## 9. Plan

The components of the inventory are modelled, their safety properties are proved
but for the one named at the end of section 7, and the abstract specifications of
the two interfaces others rely on, the board of statuses and the delivery of
events, are refined. What is left for those who change the code:

1. The parts of the partly modelled components: upload tickets, once their routes
   commit; sharing grants, once something calls them; several owners on a device.
2. The exceptions of section 5: a change that closes one of them makes its history
   variable superfluous, and the property and its proof become stronger without it.
3. The missing commits of section 1: with them, the run `offline_rollback` has to
   pass with `RoutesCommit` TRUE, as the other two runs of the module do.
