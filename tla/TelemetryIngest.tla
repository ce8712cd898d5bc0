--------------------------- MODULE TelemetryIngest ---------------------------
(***************************************************************************)
(* Ingestion of telemetry batches from the devices of one vehicle: the     *)
(* replay ledger of each device, the vehicle's current position and its    *)
(* breadcrumb history.                                                     *)
(*                                                                         *)
(* Each batch is one READ COMMITTED transaction.  It reads the ledger and  *)
(* the position FOR UPDATE, which locks a row that exists and nothing when *)
(* there is none, folds the fixes in order of sequence number, then        *)
(* upserts both rows and inserts the breadcrumbs.  Rows of other vehicles, *)
(* the device's last_seen_at and the geofence of a trip are left out.      *)
(* The commit is the caller's, as in the integration tests: get_db closes  *)
(* the session of an HTTP request without one.                             *)
(***************************************************************************)
EXTENDS Integers, Sequences

CONSTANTS
    Device,
    Rank,          \* get_source_rank of each device's type: 1 is the best
    Batch,         \* requests to ingest
    Payload,       \* fixes a batch may carry, sorted by sequence number
    MaxSkew,       \* 900 s: how far a fix may lie in the future
    MaxBackward,   \* 3600 s: how far a device's clock may go back
    MaxAge,        \* 60 s: older positions give way to any source
    MaxClock,      \* bound on the server clock
    Vehicle,       \* the row of the current position
    None

Row == Device \cup {Vehicle}

\* invalid: validate_coordinates refuses it; fast: above 140 km/h.
Fix == [seq: Nat, at: Nat, kind: {"normal", "fast", "invalid"}]

ASSUME TelemetryAssumption ==
    /\ Rank \in [Device -> Nat]
    /\ Payload \subseteq Seq(Fix)
    /\ \A p \in Payload : \A i \in 1 .. Len(p) - 1 : p[i].seq <= p[i + 1].seq
    /\ MaxSkew \in Nat /\ MaxBackward \in Nat /\ MaxAge \in Nat /\ MaxClock \in Nat
    /\ Vehicle \notin Device
    /\ None \notin Batch \cup [seq: Nat, at: Nat] \cup [at: Nat, rank: Nat, device: Device]

Mark == [seq: Nat, at: Nat]                            \* device_replay_ledgers
Place == [at: Nat, rank: Nat, device: Device]          \* vehicle_positions_current
Crumb == [device: Device, batch: Batch, seq: Nat, at: Nat, kind: {"normal", "fast"}]

VARIABLES
    ledger,      \* replay ledger row of each device, None if there is none
    position,    \* current position of the vehicle, None if there is none
    crumbs,      \* position_breadcrumbs
    lock,        \* holder of each row's lock
    clock,       \* server time
    pc,          \* progress of each batch
    device,      \* device that sent it
    fixes,       \* fixes it has still to evaluate
    now,         \* time it began
    known,       \* ledger row it read FOR UPDATE
    last,        \* running last sequence number and event time
    base,        \* position it read FOR UPDATE
    found,       \* position it found again before writing
    candidate,   \* running candidate position
    trail,       \* breadcrumbs to save
    raced,       \* history: devices whose ledger was upserted over a row unseen
    overwritten  \* history: position was updated by a batch that had read no row

tables  == <<ledger, position, crumbs>>
local   == <<device, now, known, base>>
folding == <<fixes, last, candidate, trail>>
history == <<raced, overwritten>>
vars    == <<tables, lock, clock, pc, local, folding, found, history>>

-----------------------------------------------------------------------------
Init ==
    /\ ledger = [d \in Device |-> None]
    /\ position = None
    /\ crumbs = {}
    /\ lock = [r \in Row |-> None]
    /\ clock = 0
    /\ pc = [b \in Batch |-> "idle"]
    /\ device = [b \in Batch |-> None]
    /\ fixes = [b \in Batch |-> <<>>]
    /\ now = [b \in Batch |-> 0]
    /\ known = [b \in Batch |-> None]
    /\ last = [b \in Batch |-> None]
    /\ base = [b \in Batch |-> None]
    /\ found = [b \in Batch |-> None]
    /\ candidate = [b \in Batch |-> None]
    /\ trail = [b \in Batch |-> {}]
    /\ raced = {}
    /\ overwritten = FALSE

Goto(b, label) == pc' = [pc EXCEPT ![b] = label]

Tick ==
    /\ clock < MaxClock
    /\ clock' = clock + 1
    /\ UNCHANGED <<tables, lock, pc, local, folding, found, history>>

\* A batch arrives from a device of the vehicle.
Start(b, d, p) ==
    /\ pc[b] = "idle"
    /\ device' = [device EXCEPT ![b] = d]
    /\ fixes' = [fixes EXCEPT ![b] = p]
    /\ now' = [now EXCEPT ![b] = clock]
    /\ Goto(b, "ledger")
    /\ UNCHANGED <<tables, lock, clock, known, last, base, candidate, trail, found, history>>

\* SELECT ... FOR UPDATE of row r, whose committed value is row.
LockIfThere(b, r, row) ==
    IF row = None
    THEN UNCHANGED lock
    ELSE /\ lock[r] = None
         /\ lock' = [lock EXCEPT ![r] = b]

ReadLedger(b) ==
    /\ pc[b] = "ledger"
    /\ LockIfThere(b, device[b], ledger[device[b]])
    /\ known' = [known EXCEPT ![b] = ledger[device[b]]]
    /\ last' = [last EXCEPT ![b] = ledger[device[b]]]
    /\ Goto(b, "position")
    /\ UNCHANGED <<tables, clock, device, now, base, fixes, candidate, trail, found, history>>

ReadPosition(b) ==
    /\ pc[b] = "position"
    /\ LockIfThere(b, Vehicle, position)
    /\ base' = [base EXCEPT ![b] = position]
    /\ candidate' = [candidate EXCEPT ![b] = position]
    /\ Goto(b, "folding")
    /\ UNCHANGED <<tables, clock, device, now, known, fixes, last, trail, found, history>>

-----------------------------------------------------------------------------
\* The checks of one fix, in the order of the code.

Quarantined(b, f) ==
    \/ f.kind = "invalid"
    \/ f.at - now[b] > MaxSkew

\* Mutated form of Duplicate: the last sequence number is accepted again.
OlderOnly(b, f) == last[b] # None /\ f.seq < last[b].seq

Duplicate(b, f) == last[b] # None /\ f.seq <= last[b].seq

ClockAnomaly(b, f) == last[b] # None /\ last[b].at - f.at > MaxBackward

Accepted(b, f) == ~ Quarantined(b, f) /\ ~ Duplicate(b, f) /\ ~ ClockAnomaly(b, f)

\* Mutated form of Supersedes: source precedence upside down.
SupersedesBetter(b, f) ==
    \/ candidate[b] = None
    \/ /\ f.at > candidate[b].at
       /\ Rank[device[b]] >= candidate[b].rank \/ now[b] - candidate[b].at > MaxAge

\* The fix becomes the candidate position.
Supersedes(b, f) ==
    \/ candidate[b] = None
    \/ /\ f.at > candidate[b].at
       /\ Rank[device[b]] <= candidate[b].rank \/ now[b] - candidate[b].at > MaxAge

\* Only a fix of a possible speed moves the vehicle.
Reliable(f) == f.kind # "fast"

NextFix(b) == fixes' = [fixes EXCEPT ![b] = Tail(@)]

\* The fix is answered with a reason and leaves no trace.
Refuse(b) ==
    /\ pc[b] = "folding"
    /\ fixes[b] # <<>>
    /\ ~ Accepted(b, Head(fixes[b]))
    /\ NextFix(b)
    /\ UNCHANGED <<tables, lock, clock, pc, local, last, candidate, trail, found, history>>

Accept(b) ==
    /\ pc[b] = "folding"
    /\ fixes[b] # <<>>
    /\ LET f == Head(fixes[b]) IN
         /\ Accepted(b, f)
         /\ last' = [last EXCEPT ![b] = [seq |-> f.seq, at |-> f.at]]
         /\ trail' = [trail EXCEPT ![b] = @ \cup
               {[device |-> device[b], batch |-> b, seq |-> f.seq, at |-> f.at, kind |-> f.kind]}]
         /\ IF Reliable(f) /\ Supersedes(b, f)
            THEN candidate' = [candidate EXCEPT ![b] =
                     [at |-> f.at, rank |-> Rank[device[b]], device |-> device[b]]]
            ELSE UNCHANGED candidate
    /\ NextFix(b)
    /\ UNCHANGED <<tables, lock, clock, pc, local, found, history>>

-----------------------------------------------------------------------------
\* Writing takes the lock of the row, or keeps it.
LockToWrite(b, r) ==
    /\ lock[r] \in {None, b}
    /\ lock' = [lock EXCEPT ![r] = b]

\* INSERT ... ON CONFLICT DO UPDATE, of the ledger row read if nothing is accepted.
SaveLedger(b) ==
    /\ pc[b] = "folding"
    /\ fixes[b] = <<>>
    /\ IF last[b] = None THEN UNCHANGED lock ELSE LockToWrite(b, device[b])
    /\ Goto(b, "locate")
    /\ UNCHANGED <<tables, clock, local, folding, found, history>>

Moved(b) ==
    /\ candidate[b] # None
    /\ base[b] # None => candidate[b].at > base[b].at

\* The position is selected again, without a lock.
FindPosition(b) ==
    /\ pc[b] = "locate"
    /\ Moved(b)
    /\ found' = [found EXCEPT ![b] = position]
    /\ Goto(b, "write")
    /\ UNCHANGED <<tables, lock, clock, local, folding, history>>

\* UPDATE, or INSERT while there is still no row.
WritePosition(b) ==
    /\ pc[b] = "write"
    /\ found[b] = None => position = None
    /\ LockToWrite(b, Vehicle)
    /\ Goto(b, "commit")
    /\ UNCHANGED <<tables, clock, local, folding, found, history>>

KeepPosition(b) ==
    /\ pc[b] = "locate"
    /\ ~ Moved(b)
    /\ Goto(b, "commit")
    /\ UNCHANGED <<tables, lock, clock, local, folding, found, history>>

Unlocked(b) == [r \in Row |-> IF lock[r] = b THEN None ELSE lock[r]]

\* last_sequence_number = GREATEST(old, new); last_event_at is overwritten.
Merged(old, new) ==
    [seq |-> IF old # None /\ old.seq > new.seq THEN old.seq ELSE new.seq,
     at  |-> new.at]

\* The UPDATE sets the columns in which the candidate differs from the row found.
Rewritten(b) ==
    IF found[b] = None
    THEN candidate[b]
    ELSE [c \in {"at", "rank", "device"} |->
            IF candidate[b][c] = found[b][c] THEN position[c] ELSE candidate[b][c]]

Commit(b) ==
    LET d == device[b] IN
    /\ pc[b] = "commit"
    /\ ledger' = IF last[b] = None THEN ledger
                 ELSE [ledger EXCEPT ![d] = Merged(@, last[b])]
    /\ position' = IF Moved(b) THEN Rewritten(b) ELSE position
    /\ crumbs' = crumbs \cup trail[b]
    /\ lock' = Unlocked(b)
    /\ Goto(b, "done")
    /\ raced' = IF last[b] # None /\ known[b] = None /\ ledger[d] # None
                THEN raced \cup {d} ELSE raced
    /\ overwritten' = (overwritten \/ (Moved(b) /\ base[b] = None /\ position # None))
    /\ UNCHANGED <<clock, local, folding, found>>

-----------------------------------------------------------------------------
RollBack(b) ==
    /\ lock' = Unlocked(b)
    /\ Goto(b, "done")
    /\ UNCHANGED <<tables, clock, local, folding, found, history>>

\* The INSERT of the position meets a row: IntegrityError.
InsertConflict(b) ==
    /\ pc[b] = "write"
    /\ found[b] = None /\ position # None
    /\ RollBack(b)

\* An error or a lost connection.
Fail(b) ==
    /\ pc[b] \notin {"idle", "done"}
    /\ RollBack(b)

\* The row a batch needs next.
Wanted(b) ==
    CASE pc[b] = "ledger" /\ ledger[device[b]] # None                -> {device[b]}
      [] pc[b] = "position" /\ position # None                      -> {Vehicle}
      [] pc[b] = "folding" /\ fixes[b] = <<>> /\ last[b] # None     -> {device[b]}
      [] pc[b] = "write" /\ (found[b] = None => position = None)    -> {Vehicle}
      [] OTHER                                                      -> {}

\* PostgreSQL aborts one of the transactions that wait only for one another.
BreakDeadlock(b) ==
    /\ \E S \in SUBSET Batch :
          /\ b \in S
          /\ \A x \in S : \E r \in Wanted(x) : lock[r] \in S \ {x}
    /\ RollBack(b)

Served ==
    /\ \A b \in Batch : pc[b] \in {"idle", "done"}
    /\ UNCHANGED vars

Advance(b) ==
    \/ ReadLedger(b) \/ ReadPosition(b)
    \/ Refuse(b) \/ Accept(b)
    \/ SaveLedger(b)
    \/ FindPosition(b) \/ WritePosition(b) \/ KeepPosition(b) \/ InsertConflict(b)
    \/ Commit(b)
    \/ BreakDeadlock(b)

Next ==
    \/ Tick
    \/ \E b \in Batch :
          \/ \E d \in Device, p \in Payload : Start(b, d, p)
          \/ Advance(b)
          \/ Fail(b)
    \/ Served

Spec == Init /\ [][Next]_vars

-----------------------------------------------------------------------------
TypeOK ==
    /\ ledger \in [Device -> Mark \cup {None}]
    /\ position \in Place \cup {None}
    /\ crumbs \subseteq Crumb
    /\ lock \in [Row -> Batch \cup {None}]
    /\ clock \in 0 .. MaxClock
    /\ pc \in [Batch -> {"idle", "ledger", "position", "folding", "locate", "write",
                         "commit", "done"}]
    /\ device \in [Batch -> Device \cup {None}]
    /\ fixes \in [Batch -> Seq(Fix)]
    /\ now \in [Batch -> 0 .. MaxClock]
    /\ known \in [Batch -> Mark \cup {None}]
    /\ last \in [Batch -> Mark \cup {None}]
    /\ base \in [Batch -> Place \cup {None}]
    /\ found \in [Batch -> Place \cup {None}]
    /\ candidate \in [Batch -> Place \cup {None}]
    /\ trail \in [Batch -> SUBSET Crumb]
    /\ raced \subseteq Device
    /\ overwritten \in BOOLEAN

\* However batches are retried, reordered or overlap, a device's breadcrumbs have
\* distinct sequence numbers, unless its first two batches overlapped: a ledger
\* row that does not exist yet cannot be locked.
HistoryHasNoReplay ==
    \A b, c \in crumbs :
        b # c /\ b.device = c.device /\ b.device \notin raced => b.seq # c.seq

\* The ledger of a device is the breadcrumb with the highest sequence number; with
\* overlapping first batches at least the number is right.
LedgerIsNewestCrumb ==
    \A d \in Device :
        LET own == {c \in crumbs : c.device = d} IN
        IF ledger[d] = None THEN own = {}
        ELSE /\ \A c \in own : c.seq <= ledger[d].seq
             /\ \E c \in own : /\ c.seq = ledger[d].seq
                               /\ d \notin raced => c.at = ledger[d].at

\* The current position is one normal fix of the history, never a mixture of two,
\* while every batch that updated it had locked it.
PositionIsAFix ==
    position # None /\ ~ overwritten =>
        \E c \in crumbs : /\ c.kind = "normal"
                          /\ c.device = position.device
                          /\ c.at = position.at
                          /\ position.rank = Rank[c.device]

\* A fix of the best source is never left behind: the position is as recent as any
\* normal fix of a device of the highest precedence.
BestSourceLeads ==
    \A c \in crumbs :
        /\ c.kind = "normal"
        /\ \A d \in Device : Rank[c.device] <= Rank[d]
        /\ ~ overwritten
        => position # None /\ position.at >= c.at

\* What is stored of a device agrees: its ledger is the newest of its breadcrumbs
\* and none of them is stored twice, apart from first batches that overlapped.
HistoryIsSound == TypeOK /\ LedgerIsNewestCrumb /\ HistoryHasNoReplay

\* The position that dispatchers see is one fix of the history, and none of the
\* best source is newer.
PositionIsSound == PositionIsAFix /\ BestSourceLeads
=============================================================================
