-------------------------- MODULE OutboxDispatcher --------------------------
(***************************************************************************)
(* The outbox dispatcher: workers poll outbox_events with FOR UPDATE SKIP  *)
(* LOCKED, handle each event in a savepoint, record a receipt per consumer *)
(* and commit after every event.                                           *)
(*                                                                         *)
(* A batch is locked once, but the first COMMIT ends the transaction and   *)
(* with it the row locks of the whole batch: the events left are processed *)
(* from the rows cached at the poll, without a lock and without a second   *)
(* look at their receipts.  Between the statements of one worker the       *)
(* others commit (READ COMMITTED).                                         *)
(*                                                                         *)
(* Only the impact evaluator has a handler: for an event about a road edge *)
(* it writes an assessment, numbered after the latest one on that edge.    *)
(* One active trip is taken to cross each such edge.                       *)
(***************************************************************************)
EXTENDS Integers, FiniteSets

CONSTANTS
    Event,        \* outbox events, numbered in the order of created_at
    Edge,         \* road edges
    EdgeOf,       \* the edge an event is about
    NoEdge,       \* ... of an event type that the evaluator ignores
    Consumer,     \* consumer ids
    Evaluator,    \* "impact_evaluator"
    Worker,       \* dispatcher processes
    ConsumerOf,   \* the consumer a process runs for
    NoWorker,
    BatchSize,    \* LIMIT of the poll (10)
    MaxRetries,   \* OutboxEventModel.max_retries (5)
    CrashLimit    \* bound on process deaths

ASSUME DispatcherAssumption ==
    /\ Event \subseteq Nat
    /\ NoEdge \notin Edge
    /\ EdgeOf \in [Event -> Edge \cup {NoEdge}]
    /\ Evaluator \in Consumer
    /\ ConsumerOf \in [Worker -> Consumer]
    /\ NoWorker \notin Worker
    /\ BatchSize \in Nat \ {0}
    /\ MaxRetries \in Nat \ {0}
    /\ CrashLimit \in Nat

\* How the deployment runs the dispatcher: one process for each consumer.
OneWorkerPerConsumer ==
    \A v, w \in Worker : ConsumerOf[v] = ConsumerOf[w] => v = w

Receipt == {"NONE", "SUCCESS", "FAILED"}
Assessment == [event: Event, version: Nat, by: Worker]

VARIABLES
    published,    \* committed outbox_events rows
    retry,        \* retry_count
    dead,         \* events with dead_lettered_at set
    due,          \* events whose next_attempt_at is null or past
    receipt,      \* outbox_consumer_receipts
    assessments,  \* committed impact assessments
    rowLock,      \* worker that holds the lock of an outbox_events row
    pc,           \* progress of each worker
    snap,         \* events its poll saw as pending
    batch,        \* events it has still to process
    cached,       \* retry_count of each event as its poll read it
    outcome,      \* whether the handler of the current event succeeded
    drafted,      \* version of the assessment in the open savepoint
    seen,         \* receipt status the worker read
    failures,     \* history: failed attempts committed for each event
    crashes

tables == <<published, retry, dead, due, receipt, assessments>>
local  == <<snap, batch, cached, outcome, drafted, seen>>
vars   == <<tables, rowLock, pc, local, failures, crashes>>

-----------------------------------------------------------------------------
Init ==
    /\ published = {}
    /\ retry = [e \in Event |-> 0]
    /\ dead = {}
    /\ due = Event
    /\ receipt = [c \in Consumer |-> [e \in Event |-> "NONE"]]
    /\ assessments = {}
    /\ rowLock = [e \in Event |-> NoWorker]
    /\ pc = [w \in Worker |-> "idle"]
    /\ snap = [w \in Worker |-> {}]
    /\ batch = [w \in Worker |-> {}]
    /\ cached = [w \in Worker |-> [e \in Event |-> 0]]
    /\ outcome = [w \in Worker |-> "ok"]
    /\ drafted = [w \in Worker |-> 0]
    /\ seen = [w \in Worker |-> "NONE"]
    /\ failures = [e \in Event |-> 0]
    /\ crashes = 0

\* The transaction of a use case commits with its outbox event.
Publish(e) ==
    /\ e \notin published
    /\ published' = published \cup {e}
    /\ UNCHANGED <<retry, dead, due, receipt, assessments, rowLock, pc, local,
                   failures, crashes>>

\* Mutated form of Snapshot: the receipts are not looked at.
SnapshotAll(w) ==
    /\ pc[w] = "idle"
    /\ snap' = [snap EXCEPT ![w] = (published \cap due) \ dead]
    /\ pc' = [pc EXCEPT ![w] = "polling"]
    /\ UNCHANGED <<tables, rowLock, batch, cached, outcome, drafted, seen,
                   failures, crashes>>

\* The poll's statement takes its snapshot: pending, due, no SUCCESS receipt.
Snapshot(w) ==
    /\ pc[w] = "idle"
    /\ snap' = [snap EXCEPT ![w] =
           {e \in (published \cap due) \ dead :
               receipt[ConsumerOf[w]][e] # "SUCCESS"}]
    /\ pc' = [pc EXCEPT ![w] = "polling"]
    /\ UNCHANGED <<tables, rowLock, batch, cached, outcome, drafted, seen,
                   failures, crashes>>

\* The first BatchSize of a set of events, by created_at.
IsOldest(es, all) ==
    /\ es \subseteq all
    /\ \A e \in es, f \in all \ es : e < f
    /\ es = all \/ Cardinality(es) = BatchSize

\* ... and locks rows in order, skipping locked ones; a row changed since the
\* snapshot is re-checked on its own columns only, not on the receipts.
LockBatch(w) ==
    /\ pc[w] = "polling"
    /\ \E es \in SUBSET snap[w] :
          /\ IsOldest(es, {e \in (snap[w] \cap due) \ dead : rowLock[e] = NoWorker})
          /\ Cardinality(es) <= BatchSize
          /\ batch' = [batch EXCEPT ![w] = es]
          /\ rowLock' = [e \in Event |-> IF e \in es THEN w ELSE rowLock[e]]
          /\ pc' = [pc EXCEPT ![w] = IF es = {} THEN "idle" ELSE "next"]
    /\ cached' = [cached EXCEPT ![w] = retry]
    /\ snap' = [snap EXCEPT ![w] = {}]
    /\ UNCHANGED <<tables, outcome, drafted, seen, failures, crashes>>

\* The event the loop is at.
Current(w) == CHOOSE e \in batch[w] : \A f \in batch[w] : e <= f

OnEdge(g) == {a \in assessments : EdgeOf[a.event] = g}

\* (prev_impact.assessment_version + 1) if prev_impact else 1
NextVersion(g) ==
    IF OnEdge(g) = {} THEN 1
    ELSE LET prev == CHOOSE a \in OnEdge(g) : \A b \in OnEdge(g) : b.version <= a.version
         IN  prev.version + 1

\* Other consumers have no handler, and the evaluator ignores other types.
Assesses(w, e) == ConsumerOf[w] = Evaluator /\ EdgeOf[e] # NoEdge

\* The handler runs inside a savepoint.
Handle(w) ==
    /\ pc[w] = "next"
    /\ outcome' = [outcome EXCEPT ![w] = "ok"]
    /\ drafted' = [drafted EXCEPT ![w] =
           IF Assesses(w, Current(w)) THEN NextVersion(EdgeOf[Current(w)]) ELSE 0]
    /\ pc' = [pc EXCEPT ![w] = "handled"]
    /\ UNCHANGED <<tables, rowLock, snap, batch, cached, seen, failures, crashes>>

\* It raises: the savepoint is rolled back.
HandlerFails(w) ==
    /\ pc[w] = "next"
    /\ ConsumerOf[w] = Evaluator
    /\ outcome' = [outcome EXCEPT ![w] = "error"]
    /\ drafted' = [drafted EXCEPT ![w] = 0]
    /\ pc' = [pc EXCEPT ![w] = "handled"]
    /\ UNCHANGED <<tables, rowLock, snap, batch, cached, seen, failures, crashes>>

\* session.get(OutboxReceiptModel, ...), on either path.
ReadReceipt(w) ==
    /\ pc[w] = "handled"
    /\ seen' = [seen EXCEPT ![w] = receipt[ConsumerOf[w]][Current(w)]]
    /\ pc' = [pc EXCEPT ![w] = "ready"]
    /\ UNCHANGED <<tables, rowLock, snap, batch, cached, outcome, drafted,
                   failures, crashes>>

\* The write waits for the lock of the event's row, and a receipt that was not
\* there may be inserted only if it still is not.
MayWrite(w) ==
    /\ pc[w] = "ready"
    /\ rowLock[Current(w)] \in {NoWorker, w}
    /\ seen[w] = "NONE" => receipt[ConsumerOf[w]][Current(w)] = "NONE"

Unlocked(w) == [e \in Event |-> IF rowLock[e] = w THEN NoWorker ELSE rowLock[e]]

\* A commit ends the transaction: all its locks go, the loop takes the next event.
EndEvent(w) ==
    /\ rowLock' = Unlocked(w)
    /\ batch' = [batch EXCEPT ![w] = @ \ {Current(w)}]
    /\ pc' = [pc EXCEPT ![w] = IF batch[w] = {Current(w)} THEN "idle" ELSE "next"]
    /\ UNCHANGED <<snap, cached, outcome, drafted, seen, crashes>>

\* An attribute set to the value it was loaded with is not written.
Stamp(w, status) ==
    receipt' = IF seen[w] = status THEN receipt
               ELSE [receipt EXCEPT ![ConsumerOf[w]][Current(w)] = status]

Drafts(w) ==
    IF Assesses(w, Current(w))
    THEN {[event |-> Current(w), version |-> drafted[w], by |-> w]} ELSE {}

\* Mutated form of CommitSuccess: the effects committed without the receipt.
CommitEffectsFirst(w) ==
    /\ MayWrite(w)
    /\ outcome[w] = "ok"
    /\ assessments' = assessments \cup Drafts(w)
    /\ UNCHANGED <<published, retry, dead, due, receipt, failures>>
    /\ EndEvent(w)

\* Effects of the handler and SUCCESS receipt, in one commit.
CommitSuccess(w) ==
    /\ MayWrite(w)
    /\ outcome[w] = "ok"
    /\ assessments' = assessments \cup Drafts(w)
    /\ Stamp(w, "SUCCESS")
    /\ UNCHANGED <<published, retry, dead, due, failures>>
    /\ EndEvent(w)

\* Retry count (from the cached row), backoff or dead letter, FAILED receipt.
CommitFailure(w) ==
    /\ MayWrite(w)
    /\ outcome[w] = "error"
    /\ LET e == Current(w) IN
          /\ retry' = [retry EXCEPT ![e] = cached[w][e] + 1]
          /\ dead' = IF retry'[e] >= MaxRetries THEN dead \cup {e} ELSE dead
          /\ due' = IF retry'[e] >= MaxRetries THEN due ELSE due \ {e}
          /\ failures' = [failures EXCEPT ![e] = @ + 1]
    /\ Stamp(w, "FAILED")
    /\ UNCHANGED <<published, assessments>>
    /\ EndEvent(w)

\* Mutated form of Abandon: the connection leaks, and its row locks with it.
AbandonKeepsLocks(w) ==
    /\ batch' = [batch EXCEPT ![w] = {}]
    /\ snap' = [snap EXCEPT ![w] = {}]
    /\ pc' = [pc EXCEPT ![w] = "idle"]
    /\ UNCHANGED <<tables, rowLock, cached, outcome, drafted, seen, failures>>

\* The session is closed: everything uncommitted is gone.
Abandon(w) ==
    /\ rowLock' = Unlocked(w)
    /\ batch' = [batch EXCEPT ![w] = {}]
    /\ snap' = [snap EXCEPT ![w] = {}]
    /\ pc' = [pc EXCEPT ![w] = "idle"]
    /\ UNCHANGED <<tables, cached, outcome, drafted, seen, failures>>

\* Somebody inserted the receipt meanwhile.  The savepoint (or the commit of the
\* failure) raises, the error handler trips over the expired event, and the
\* exception reaches the loop of run_outbox_worker.
ReceiptConflict(w) ==
    /\ pc[w] = "ready"
    /\ rowLock[Current(w)] \in {NoWorker, w}
    /\ seen[w] = "NONE"
    /\ receipt[ConsumerOf[w]][Current(w)] # "NONE"
    /\ Abandon(w)
    /\ UNCHANGED crashes

\* The process or its connection dies, and is started again.
Crash(w) ==
    /\ pc[w] # "idle"
    /\ crashes < CrashLimit
    /\ Abandon(w)
    /\ crashes' = crashes + 1

\* next_attempt_at passes.
BackoffElapses(e) ==
    /\ e \notin due
    /\ due' = due \cup {e}
    /\ UNCHANGED <<published, retry, dead, receipt, assessments, rowLock, pc,
                   local, failures, crashes>>

Work(w) ==
    \/ Snapshot(w) \/ LockBatch(w)
    \/ Handle(w) \/ HandlerFails(w)
    \/ ReadReceipt(w)
    \/ CommitSuccess(w) \/ CommitFailure(w) \/ ReceiptConflict(w)

Next ==
    \/ \E e \in Event : Publish(e) \/ BackoffElapses(e)
    \/ \E w \in Worker : Work(w) \/ Crash(w)

Spec == Init /\ [][Next]_vars

\* The loop of a worker never stops and time passes; nobody has to publish.
FairSpec ==
    /\ Spec
    /\ \A w \in Worker : WF_vars(Work(w))
    /\ \A e \in Event : WF_vars(BackoffElapses(e))

-----------------------------------------------------------------------------
TypeOK ==
    /\ published \subseteq Event
    /\ retry \in [Event -> Nat]
    /\ dead \subseteq Event
    /\ due \subseteq Event
    /\ receipt \in [Consumer -> [Event -> Receipt]]
    /\ assessments \subseteq Assessment
    /\ rowLock \in [Event -> Worker \cup {NoWorker}]
    /\ pc \in [Worker -> {"idle", "polling", "next", "handled", "ready"}]
    /\ snap \in [Worker -> SUBSET Event]
    /\ batch \in [Worker -> SUBSET Event]
    /\ cached \in [Worker -> [Event -> Nat]]
    /\ outcome \in [Worker -> {"ok", "error"}]
    /\ drafted \in [Worker -> Nat]
    /\ seen \in [Worker -> Receipt]
    /\ failures \in [Event -> Nat]
    /\ crashes \in Nat

\* Exactly once: however workers crash, fail and retry, an event has one set of
\* effects when the evaluator's receipt says SUCCESS, and none otherwise.
EffectsMatchReceipt ==
    /\ \A a, b \in assessments : a.event = b.event => a = b
    /\ \A e \in Event :
          (\E a \in assessments : a.event = e)
             <=> receipt[Evaluator][e] = "SUCCESS" /\ EdgeOf[e] # NoEdge

\* What has been dispatched for a consumer stays so: no late failure turns a
\* SUCCESS receipt into FAILED, which would have the event handled once more.
SuccessIsFinal ==
    [][\A c \in Consumer, e \in Event :
          receipt[c][e] = "SUCCESS" => receipt'[c][e] = "SUCCESS"]_vars

\* An event is given up only after max_retries failures, and then at once.
DeadLetterAfterMaxRetries ==
    \A e \in Event : e \in dead <=> failures[e] >= MaxRetries

\* What a receipt and a dead letter say of an event is what happened to it: its
\* effects are there once iff it is dispatched, and it is dead iff its retries
\* are used up.
ReceiptsAreSound == TypeOK /\ EffectsMatchReceipt /\ DeadLetterAfterMaxRetries

\* Every published event is dispatched to each consumer or dead-lettered.
EventuallySettled ==
    \A c \in Consumer, e \in Event :
        e \in published ~> (receipt[c][e] = "SUCCESS" \/ e \in dead)

-----------------------------------------------------------------------------
\* What the tables say of deliveries: a consumer has had the events it has a
\* SUCCESS receipt for, and an event its effects once per assessment of it.
Delivery == INSTANCE EventDelivery WITH
    Affecting <- {e \in Event : EdgeOf[e] # NoEdge},
    delivered <- [c \in Consumer |-> {e \in Event : receipt[c][e] = "SUCCESS"}],
    effects <- [e \in Event |-> Cardinality({a \in assessments : a.event = e})],
    failed <- retry,
    givenUp <- dead

\* Exactly once, step by step: polls, locks that go with the first commit, rows
\* used from a cache, failures, retries and crashes are invisible.  Each step of
\* a worker is one delivery with its effects, one failure that counts, or nothing.
DeliversOnce == Delivery!Spec
=============================================================================
