---------------------------- MODULE DataLoading ----------------------------
(***************************************************************************)
(* The scripts that load the pilot corridor, the regional network and the  *)
(* demonstration data, and the routes that register vehicles, drivers,     *)
(* commitments and devices.  Each looks rows up by their natural key,      *)
(* inserts those it does not find, and commits once at its end.  Several   *)
(* may run at once.  A row of this module stands for the rows of one table *)
(* that one script writes.                                                 *)
(***************************************************************************)
EXTENDS Naturals, Sequences, FiniteSets, SequencesExt

CONSTANTS
  Loaders,      \* scripts and requests in progress at one time
  Deployments   \* sets of jobs that one deployment runs together

VARIABLES
  jobsRun,     \* the jobs of this deployment
  rows,        \* how often each row is committed; two stands for more
  closedRoads, \* roads of the loaded networks that were declared closed
  loader,      \* the scripts and requests in progress
  registered   \* history: the routes that have registered something

dataVars == <<jobsRun, rows, closedRoads, loader, registered>>

(* What each script inserts, in the order of its flushes.                   *)
SeedDemo == <<"organization", "jurisdiction", "user", "membership">>
SavedNetwork == <<"version", "node", "edge", "bridge", "restriction">>
SavedFacilities == <<"facility">>
LoadPilotCorridor == SavedNetwork \o SavedFacilities
RegionalRoads == <<"regional_node", "regional_edge">>
RegionalFacilities == <<"regional_facility">>
SeedRegionalNetwork == RegionalRoads \o RegionalFacilities
SeedFleetDemo == <<"vehicle", "driver", "device", "commitment", "trip">>
SeedReportingDemo == <<"media", "report", "report_media", "incident">>

(* What the routes insert.                                                  *)
CreateVehicle == <<"vehicle">>
CreateDriver == <<"driver">>
CreateCommitment == <<"commitment">>
RegisterDevice == <<"device">>
ReplaySimulator == <<"simulator">>

(* Rows that are inserted together with another one, when that one is new.  *)
DemoTrip == {"stop", "trip_commitment", "position", "ledger", "breadcrumb"}
DemoIncident == {"incident_report", "decision", "outbox_event"}
With(row) == IF row = "trip" THEN DemoTrip
             ELSE IF row = "incident" THEN DemoIncident ELSE {}

Plan == [seed_demo |-> SeedDemo,
         load_pilot_corridor |-> LoadPilotCorridor,
         seed_regional_network |-> SeedRegionalNetwork,
         seed_fleet_demo |-> SeedFleetDemo,
         seed_reporting_demo |-> SeedReportingDemo,
         create_vehicle |-> CreateVehicle,
         create_driver |-> CreateDriver,
         create_commitment |-> CreateCommitment,
         register_device |-> RegisterDevice,
         replay_simulator |-> ReplaySimulator]

Scripts == {"seed_demo", "load_pilot_corridor", "seed_regional_network",
            "seed_fleet_demo", "seed_reporting_demo"}
Jobs == DOMAIN Plan
Row == (UNION {ToSet(Plan[j]) : j \in Jobs}) \union DemoTrip \union DemoIncident
Roads == {"edge", "regional_edge"}

ASSUME DataAssumption == Deployments \subseteq SUBSET Jobs

(* What must be there for a job to do anything: it returns, raises or meets *)
(* a foreign key otherwise.                                                 *)
Needs(job) ==
  CASE job = "load_pilot_corridor" -> {"jurisdiction"}
    [] job = "seed_regional_network" -> {"version", "jurisdiction"}
    [] job \in {"seed_fleet_demo", "create_commitment"} -> {"organization", "facility"}
    [] job = "seed_reporting_demo" -> {"user", "jurisdiction"}
    [] job \in {"create_vehicle", "create_driver"} -> {"organization"}
    [] job \in {"register_device", "replay_simulator"} -> {"vehicle"}
    [] OTHER -> {}

(* The routes that insert without looking first, and the one that refuses   *)
(* when it finds the row.                                                   *)
Unlooked == {"create_driver", "create_commitment", "register_device"}
Refusing == {"create_vehicle"}

(* Whether a constraint of the schema forbids a second row: all have an     *)
(* identifier that depends on the key, or a unique key, except drivers.     *)
Constrained(row) == row # "driver"

Free == [job |-> "none"]

DataInit ==
  /\ jobsRun \in Deployments
  /\ rows = [r \in Row |-> 0]
  /\ closedRoads = {}
  /\ loader = [l \in Loaders |-> Free]
  /\ registered = {}

-----------------------------------------------------------------------------
Present(row) == rows[row] > 0
Active(l) == loader[l] # Free
Next1(l) == Plan[loader[l].job][loader[l].at]
Remaining(l) == loader[l].at <= Len(Plan[loader[l].job])

(* A job starts: the session is new and nothing has been inserted.          *)
Start(l) ==
  /\ ~Active(l)
  /\ \E job \in jobsRun :
       /\ \A row \in Needs(job) : Present(row)
       /\ loader' = [loader EXCEPT ![l] =
            [job |-> job, at |-> 1, drafts |-> {},
             pc |-> IF job \in Unlooked THEN "insert" ELSE "look"]]
  /\ UNCHANGED <<jobsRun, rows, closedRoads, registered>>

(* The session ends without a commit and takes its inserts with it.         *)
RolledBack(l) == [loader EXCEPT ![l] = Free]

(* Whether the lookup of the next row finds one.                            *)
Found(l) == Present(Next1(l))

(* The next row is looked up.  A lookup that meets two rows raises.         *)
LookUp(l) ==
  /\ Active(l) /\ Remaining(l) /\ loader[l].pc = "look"
  /\ loader' =
       IF rows[Next1(l)] > 1 \/ (Found(l) /\ loader[l].job \in Refusing)
       THEN RolledBack(l)
       ELSE IF Found(l) THEN [loader EXCEPT ![l].at = @ + 1]
       ELSE [loader EXCEPT ![l].pc = "insert"]
  /\ UNCHANGED <<jobsRun, rows, closedRoads, registered>>

(* The row and those that go with it are inserted and flushed.  A unique    *)
(* key makes the insert wait for another session that holds the same key,   *)
(* and fail when a row is there.                                            *)
Insert(l) ==
  /\ Active(l) /\ Remaining(l) /\ loader[l].pc = "insert"
  /\ LET new == {Next1(l)} \union With(Next1(l))
         keyed == {row \in new : Constrained(row)}
     IN /\ \A k \in Loaders \ {l} : Active(k) => loader[k].drafts \intersect keyed = {}
        /\ loader' = IF \E row \in keyed : Present(row) THEN RolledBack(l)
                     ELSE [loader EXCEPT ![l].drafts = @ \union new,
                                         ![l].at = @ + 1, ![l].pc = "look"]
  /\ UNCHANGED <<jobsRun, rows, closedRoads, registered>>

Stored(drafts) ==
  [row \in Row |-> IF row \in drafts /\ rows[row] < 2 THEN rows[row] + 1 ELSE rows[row]]

(* Mutated form of MayCommit: the session commits before its last row.      *)
MayCommitEarly(l) == loader[l].pc = "look"

(* The one commit comes after the last row.                                 *)
MayCommit(l) == ~Remaining(l)

(* The roads whose status row a commit writes: those that are new.          *)
Reopened(l) == loader[l].drafts \intersect Roads

Finish(l) ==
  /\ Active(l) /\ MayCommit(l)
  /\ rows' = Stored(loader[l].drafts)
  /\ closedRoads' = closedRoads \ Reopened(l)
  /\ registered' = registered \union ({loader[l].job} \intersect {"create_vehicle", "create_driver"})
  /\ loader' = [loader EXCEPT ![l] = Free]
  /\ UNCHANGED jobsRun

(* A statement fails or the process dies.                                   *)
Crash(l) ==
  /\ Active(l)
  /\ loader' = RolledBack(l)
  /\ UNCHANGED <<jobsRun, rows, closedRoads, registered>>

(* Meanwhile the platform is in use: a road is declared closed, and a       *)
(* vehicle is tracked, which writes its position.                           *)
DeclareClosed ==
  /\ \E road \in Roads : Present(road) /\ closedRoads' = closedRoads \union {road}
  /\ UNCHANGED <<jobsRun, rows, loader, registered>>

Track ==
  /\ Present("device") /\ ~Present("position")
  /\ \A l \in Loaders : Active(l) => "position" \notin loader[l].drafts
  /\ rows' = [rows EXCEPT !["position"] = 1, !["ledger"] = 1, !["breadcrumb"] = 1]
  /\ UNCHANGED <<jobsRun, closedRoads, loader, registered>>

DataNext ==
  \/ \E l \in Loaders : Start(l) \/ LookUp(l) \/ Insert(l) \/ Finish(l) \/ Crash(l)
  \/ DeclareClosed
  \/ Track

-----------------------------------------------------------------------------
(* Row counts, roads and loaders have their types.                          *)
DataTypeOK ==
  /\ jobsRun \subseteq Jobs
  /\ rows \in [Row -> 0..2]
  /\ closedRoads \subseteq {road \in Roads : Present(road)}
  /\ \A l \in Loaders : Active(l) =>
       /\ loader[l].job \in Jobs /\ loader[l].pc \in {"look", "insert"}
       /\ loader[l].at \in 1..Len(Plan[loader[l].job]) + 1
       /\ loader[l].drafts \subseteq Row

Written == [script \in Scripts |->
              {row \in ToSet(Plan[script]) :
                 \A job \in Jobs \ {script} : row \notin ToSet(Plan[job])}]

(* A script leaves all of its rows or none, wherever it is interrupted and  *)
(* whatever runs beside it: the corridor never has edges without its        *)
(* facilities, nor the demonstration an incident without its event.         *)
ScriptsAreWhole ==
  \A script \in Scripts :
    /\ \A q, r \in Written[script] : Present(q) <=> Present(r)
    /\ \A r \in Written[script] : Present(r) => \A w \in With(r) : Present(w)

(* Scripts and routes that run at once do not register a thing twice, except *)
(* a driver, and that only once a route has registered a driver, or all the *)
(* demonstration vehicles, on whose unique key two runs of the fleet script *)
(* otherwise wait for each other.                                           *)
RowsAreUnique ==
  \A row \in Row : rows[row] > 1 => row = "driver" /\ registered # {}

(* Loading data again closes and opens nothing: a road that was declared    *)
(* closed stays closed.                                                     *)
LoadingReopensNothing == [][closedRoads \subseteq closedRoads']_dataVars

(* Whatever is loaded at once, interrupted and loaded again, the rows of a  *)
(* script are there together and once.                                      *)
LoadedDataIsSound == DataTypeOK /\ ScriptsAreWhole /\ RowsAreUnique
=============================================================================
