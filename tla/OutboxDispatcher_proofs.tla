----------------------- MODULE OutboxDispatcher_proofs -----------------------
(***************************************************************************)
(* Proofs about OutboxDispatcher: with one process per consumer every      *)
(* event has its effects exactly once, for any events, batch size, retry   *)
(* limit, failures and crashes.                                            *)
(*                                                                         *)
(* The argument: nobody else writes a consumer's receipts or the retry     *)
(* counts, so what a process read at the poll is still so when it commits, *)
(* although the row locks are long gone.                                   *)
(***************************************************************************)
EXTENDS OutboxDispatcher, DisruptionImpact, FiniteSets, FiniteSetTheorems,
        WellFoundedInduction, TLAPS

Busy(w) == pc[w] \in {"next", "handled", "ready"}

\* The loop is at an event of its batch.
BatchInv ==
    \A w \in Worker : Busy(w) <=> batch[w] # {}

\* What the poll saw of the receipts still holds, and so does what the worker
\* read of the current one.
FreshInv ==
    \A w \in Worker :
        /\ \A e \in snap[w] \cup batch[w] : receipt[ConsumerOf[w]][e] # "SUCCESS"
        /\ pc[w] # "polling" => snap[w] = {}
        /\ pc[w] = "ready" => seen[w] = receipt[ConsumerOf[w]][Current(w)]

\* Only the evaluator fails, so only it counts and gives up.
CountInv ==
    /\ \A w \in Worker : outcome[w] = "error" /\ pc[w] \in {"handled", "ready"}
           => ConsumerOf[w] = Evaluator
    /\ \A w \in Worker : ConsumerOf[w] = Evaluator =>
           \A e \in batch[w] : cached[w][e] = retry[e] /\ e \notin dead
    /\ \A e \in Event : retry[e] = failures[e]

\* An assessment is drafted exactly for the events the evaluator assesses, and
\* the assessments of an edge have a latest one.
DraftInv ==
    \A g \in Edge : OnEdge(g) # {} =>
        \E a \in OnEdge(g) : \A b \in OnEdge(g) : b.version <= a.version

\* A worker is only ever at published events.
PublishedInv ==
    \A w \in Worker : snap[w] \cup batch[w] \subseteq published

IInv ==
    /\ TypeOK
    /\ BatchInv
    /\ PublishedInv
    /\ DraftInv
    /\ FreshInv
    /\ CountInv
    /\ EffectsMatchReceipt
    /\ DeadLetterAfterMaxRetries

-----------------------------------------------------------------------------
\* A set of event numbers that is not empty has a least one.
LEMMA LeastExists ==
    ASSUME NEW S, S \subseteq Nat, S # {}
    PROVE  \E x \in S : \A y \in S : x <= y
<1>1. PICK x \in S : \A y \in S : ~ (<<y, x>> \in OpToRel(<, Nat))
  BY NatLessThanWellFounded, WFMin
<1>2. \A y \in S : ~ (y < x)
  BY <1>1 DEF OpToRel
<1> QED
  BY <1>2

\* The loop takes its current event from the batch.
LEMMA CurrentInBatch ==
    ASSUME TypeOK, BatchInv, NEW w \in Worker, Busy(w)
    PROVE  Current(w) \in batch[w] /\ Current(w) \in Event
<1>1. batch[w] # {} /\ batch[w] \subseteq Event /\ batch[w] \subseteq Nat
  BY DispatcherAssumption DEF TypeOK, BatchInv
<1>2. \E e \in batch[w] : \A f \in batch[w] : e <= f
  BY <1>1, LeastExists
<1> QED
  BY <1>1, <1>2 DEF Current

\* The invariant holds before the first poll.
LEMMA InitEstablishes == Init => IInv
<1> SUFFICES ASSUME Init PROVE IInv
  OBVIOUS
<1>1. TypeOK
  BY DispatcherAssumption DEF Init, TypeOK, Receipt
<1>2. BatchInv /\ DraftInv /\ FreshInv /\ CountInv
  BY DispatcherAssumption DEF Init, BatchInv, DraftInv, FreshInv, CountInv, Busy, OnEdge
<1>3. EffectsMatchReceipt /\ DeadLetterAfterMaxRetries
  BY DispatcherAssumption DEF Init, EffectsMatchReceipt, DeadLetterAfterMaxRetries
<1>4. PublishedInv
  BY DEF Init, PublishedInv
<1> QED
  BY <1>1, <1>2, <1>3, <1>4 DEF IInv

\* Every step of the workers keeps the types of the state.
LEMMA TypeStep ==
    ASSUME TypeOK, BatchInv, DraftInv, [Next]_vars
    PROVE  TypeOK'
<1> USE DEF TypeOK
<1>1. ASSUME NEW e \in Event, Publish(e)
      PROVE  TypeOK'
  BY <1>1 DEF Publish, tables, local, Abandon, Unlocked, Receipt
<1>2. ASSUME NEW e \in Event, BackoffElapses(e)
      PROVE  TypeOK'
  BY <1>2 DEF BackoffElapses, tables, local, Abandon, Unlocked, Receipt
<1>3. ASSUME NEW w \in Worker, Snapshot(w)
      PROVE  TypeOK'
  BY <1>3 DEF Snapshot, tables, local, Abandon, Unlocked, Receipt
<1>4. ASSUME NEW w \in Worker, LockBatch(w)
      PROVE  TypeOK'
  BY <1>4, DispatcherAssumption DEF LockBatch, tables
<1>5. ASSUME NEW w \in Worker, Handle(w)
      PROVE  TypeOK'
  <2>1. Current(w) \in Event
    BY <1>5, CurrentInBatch DEF Handle, Busy
  <2>2. ASSUME NEW g \in Edge PROVE NextVersion(g) \in Nat
    <3>1. CASE OnEdge(g) = {}
      BY <3>1 DEF NextVersion
    <3>2. CASE OnEdge(g) # {}
      <4> DEFINE prev == CHOOSE a \in OnEdge(g) : \A b \in OnEdge(g) : b.version <= a.version
      <4>1. prev \in OnEdge(g)
        BY <3>2 DEF DraftInv
      <4>2. prev.version \in Nat
        BY <4>1 DEF OnEdge, Assessment
      <4> QED
        BY <3>2, <4>2 DEF NextVersion
    <3> QED
      BY <3>1, <3>2
  <2>3. Assesses(w, Current(w)) => EdgeOf[Current(w)] \in Edge
    BY <2>1, DispatcherAssumption DEF Assesses
  <2> HIDE DEF TypeOK
  <2>4. drafted' \in [Worker -> Nat]
    BY <1>5, <2>1, <2>2, <2>3 DEF Handle, TypeOK
  <2> QED
    BY <1>5, <2>4 DEF Handle, TypeOK, tables
<1>6. ASSUME NEW w \in Worker, HandlerFails(w)
      PROVE  TypeOK'
  BY <1>6 DEF HandlerFails, tables, local, Abandon, Unlocked, Receipt
<1>7. ASSUME NEW w \in Worker, ReadReceipt(w)
      PROVE  TypeOK'
  <2>1. Current(w) \in batch[w] /\ Current(w) \in Event
    BY <1>7, CurrentInBatch DEF ReadReceipt, MayWrite, Busy
  <2>2. ConsumerOf[w] \in Consumer
    BY DispatcherAssumption
  <2>3. receipt[ConsumerOf[w]][Current(w)] \in Receipt
    BY <2>1, <2>2
  <2> QED
    BY <1>7, <2>3 DEF ReadReceipt, tables
<1>8. ASSUME NEW w \in Worker, CommitSuccess(w)
      PROVE  TypeOK'
  <2>1. Current(w) \in batch[w] /\ Current(w) \in Event
    BY <1>8, CurrentInBatch DEF CommitSuccess, MayWrite, Busy
  <2>2. receipt' \in [Consumer -> [Event -> Receipt]]
    BY <1>8, <2>1, DispatcherAssumption DEF CommitSuccess, Stamp, Receipt
  <2>3. assessments' \subseteq Assessment
    BY <1>8, <2>1 DEF CommitSuccess, Drafts, Assessment
  <2>4. /\ rowLock' \in [Event -> Worker \cup {NoWorker}]
        /\ batch' \in [Worker -> SUBSET Event]
        /\ pc' \in [Worker -> {"idle", "polling", "next", "handled", "ready"}]
    BY <1>8 DEF CommitSuccess, EndEvent, Unlocked
  <2> QED
    BY <1>8, <2>2, <2>3, <2>4 DEF CommitSuccess, EndEvent
<1>9. ASSUME NEW w \in Worker, CommitFailure(w)
      PROVE  TypeOK'
  <2>1. Current(w) \in batch[w] /\ Current(w) \in Event
    BY <1>9, CurrentInBatch DEF CommitFailure, MayWrite, Busy
  <2>2. receipt' \in [Consumer -> [Event -> Receipt]]
    BY <1>9, <2>1, DispatcherAssumption DEF CommitFailure, Stamp, Receipt
  <2>3. /\ retry' \in [Event -> Nat]
        /\ failures' \in [Event -> Nat]
        /\ dead' \subseteq Event
        /\ due' \subseteq Event
    BY <1>9, <2>1 DEF CommitFailure
  <2>4. /\ rowLock' \in [Event -> Worker \cup {NoWorker}]
        /\ batch' \in [Worker -> SUBSET Event]
        /\ pc' \in [Worker -> {"idle", "polling", "next", "handled", "ready"}]
    BY <1>9 DEF CommitFailure, EndEvent, Unlocked
  <2> QED
    BY <1>9, <2>2, <2>3, <2>4 DEF CommitFailure, EndEvent
<1>10. ASSUME NEW w \in Worker, ReceiptConflict(w)
      PROVE  TypeOK'
  BY <1>10 DEF ReceiptConflict, tables, local, Abandon, Unlocked, Receipt
<1>11. ASSUME NEW w \in Worker, Crash(w)
      PROVE  TypeOK'
  BY <1>11 DEF Crash, tables, local, Abandon, Unlocked, Receipt
<1>12. CASE UNCHANGED vars
  BY <1>12 DEF vars, tables, local
<1> QED
  BY <1>1, <1>2, <1>3, <1>4, <1>5, <1>6, <1>7, <1>8, <1>9, <1>10, <1>11, <1>12
  DEF Next, Work

\* A worker's loop stays at an event of its batch.
LEMMA BatchStep ==
    ASSUME TypeOK, BatchInv, [Next]_vars
    PROVE  BatchInv'
<1> USE DEF TypeOK, BatchInv, Busy
<1>1. ASSUME NEW e \in Event, Publish(e)
      PROVE  BatchInv'
  BY <1>1 DEF Publish, tables, local, Abandon
<1>2. ASSUME NEW e \in Event, BackoffElapses(e)
      PROVE  BatchInv'
  BY <1>2 DEF BackoffElapses, tables, local, Abandon
<1>3. ASSUME NEW w \in Worker, Snapshot(w)
      PROVE  BatchInv'
  BY <1>3 DEF Snapshot, tables, local, Abandon
<1>4. ASSUME NEW w \in Worker, LockBatch(w)
      PROVE  BatchInv'
  BY <1>4 DEF LockBatch, tables, local, Abandon
<1>5. ASSUME NEW w \in Worker, Handle(w)
      PROVE  BatchInv'
  BY <1>5 DEF Handle, tables, local, Abandon
<1>6. ASSUME NEW w \in Worker, HandlerFails(w)
      PROVE  BatchInv'
  BY <1>6 DEF HandlerFails, tables, local, Abandon
<1>7. ASSUME NEW w \in Worker, ReadReceipt(w)
      PROVE  BatchInv'
  BY <1>7 DEF ReadReceipt, tables, local, Abandon
<1>8. ASSUME NEW w \in Worker, CommitSuccess(w)
      PROVE  BatchInv'
  <2>1. Current(w) \in batch[w] /\ Current(w) \in Event
    BY <1>8, CurrentInBatch DEF CommitSuccess, MayWrite, Busy
  <2> QED
    BY <1>8, <2>1 DEF CommitSuccess, EndEvent
<1>9. ASSUME NEW w \in Worker, CommitFailure(w)
      PROVE  BatchInv'
  <2>1. Current(w) \in batch[w] /\ Current(w) \in Event
    BY <1>9, CurrentInBatch DEF CommitFailure, MayWrite, Busy
  <2> QED
    BY <1>9, <2>1 DEF CommitFailure, EndEvent
<1>10. ASSUME NEW w \in Worker, ReceiptConflict(w)
      PROVE  BatchInv'
  BY <1>10 DEF ReceiptConflict, tables, local, Abandon
<1>11. ASSUME NEW w \in Worker, Crash(w)
      PROVE  BatchInv'
  BY <1>11 DEF Crash, tables, local, Abandon
<1>12. CASE UNCHANGED vars
  BY <1>12 DEF vars, local
<1> QED
  BY <1>1, <1>2, <1>3, <1>4, <1>5, <1>6, <1>7, <1>8, <1>9, <1>10, <1>11, <1>12
  DEF Next, Work

\* What a worker is at has been published and stays so.
LEMMA PublishedStep ==
    ASSUME TypeOK, PublishedInv, [Next]_vars
    PROVE  PublishedInv'
<1> USE DEF TypeOK, PublishedInv
<1>1. ASSUME NEW e \in Event, Publish(e)
      PROVE  PublishedInv'
  BY <1>1 DEF Publish, local
<1>2. ASSUME NEW w \in Worker, Snapshot(w)
      PROVE  PublishedInv'
  BY <1>2 DEF Snapshot, tables
<1>3. ASSUME NEW w \in Worker, LockBatch(w)
      PROVE  PublishedInv'
  <2>1. /\ published' = published /\ snap'[w] = {} /\ batch'[w] \subseteq snap[w]
        /\ \A v \in Worker : v # w => snap'[v] = snap[v] /\ batch'[v] = batch[v]
    BY <1>3 DEF LockBatch, tables
  <2> QED
    BY <2>1
<1>4. ASSUME NEW w \in Worker, CommitSuccess(w) \/ CommitFailure(w)
      PROVE  PublishedInv'
  <2>1. published' = published /\ snap' = snap /\ \A v \in Worker : batch'[v] \subseteq batch[v]
    <3>1. CASE CommitSuccess(w)
      BY <3>1 DEF CommitSuccess, EndEvent
    <3>2. CASE CommitFailure(w)
      BY <3>2 DEF CommitFailure, EndEvent
    <3> QED
      BY <1>4, <3>1, <3>2
  <2> QED
    BY <2>1
<1>5. ASSUME NEW w \in Worker, ReceiptConflict(w) \/ Crash(w)
      PROVE  PublishedInv'
  BY <1>5 DEF ReceiptConflict, Crash, Abandon, tables
<1>6. ASSUME NEW w \in Worker, Handle(w) \/ HandlerFails(w) \/ ReadReceipt(w)
      PROVE  PublishedInv'
  BY <1>6 DEF Handle, HandlerFails, ReadReceipt, tables
<1>7. ASSUME NEW e \in Event, BackoffElapses(e)
      PROVE  PublishedInv'
  BY <1>7 DEF BackoffElapses, local
<1>8. CASE UNCHANGED vars
  BY <1>8 DEF vars, tables, local
<1> QED
  BY <1>1, <1>2, <1>3, <1>4, <1>5, <1>6, <1>7, <1>8 DEF Next, Work

\* Every edge with assessments keeps a latest one.
LEMMA DraftStep ==
    ASSUME TypeOK, BatchInv, DraftInv, [Next]_vars
    PROVE  DraftInv'
<1> USE DEF DraftInv, OnEdge
<1>1. ASSUME NEW e \in Event, Publish(e)
      PROVE  DraftInv'
  BY <1>1 DEF Publish, tables, Abandon
<1>2. ASSUME NEW e \in Event, BackoffElapses(e)
      PROVE  DraftInv'
  BY <1>2 DEF BackoffElapses, tables, Abandon
<1>3. ASSUME NEW w \in Worker, Snapshot(w)
      PROVE  DraftInv'
  BY <1>3 DEF Snapshot, tables, Abandon
<1>4. ASSUME NEW w \in Worker, LockBatch(w)
      PROVE  DraftInv'
  BY <1>4 DEF LockBatch, tables, Abandon
<1>5. ASSUME NEW w \in Worker, Handle(w)
      PROVE  DraftInv'
  BY <1>5 DEF Handle, tables, Abandon
<1>6. ASSUME NEW w \in Worker, HandlerFails(w)
      PROVE  DraftInv'
  BY <1>6 DEF HandlerFails, tables, Abandon
<1>7. ASSUME NEW w \in Worker, ReadReceipt(w)
      PROVE  DraftInv'
  BY <1>7 DEF ReadReceipt, tables, Abandon
<1>8. ASSUME NEW w \in Worker, CommitSuccess(w)
      PROVE  DraftInv'
  <2>1. Current(w) \in batch[w] /\ Current(w) \in Event
    BY <1>8, CurrentInBatch DEF CommitSuccess, MayWrite, Busy
  <2>2. PICK d \in SUBSET Assessment : /\ assessments' = assessments \cup d
                                    /\ \A a, b \in d : a = b
    <3>1. Drafts(w) \subseteq Assessment /\ \A a, b \in Drafts(w) : a = b
      BY <2>1 DEF Drafts, Assessment, TypeOK
    <3> QED
      BY <1>8, <3>1 DEF CommitSuccess
  <2> SUFFICES ASSUME NEW g \in Edge, OnEdge(g)' # {}
               PROVE  \E a \in OnEdge(g)' : \A b \in OnEdge(g)' : b.version <= a.version
    OBVIOUS
  <2>3. OnEdge(g)' = OnEdge(g) \cup {a \in d : EdgeOf[a.event] = g}
    BY <2>2
  <2>4. \A a \in OnEdge(g)' : a.version \in Nat
    BY <2>2 DEF TypeOK, Assessment
  <2>5. CASE OnEdge(g) = {}
    BY <2>2, <2>3, <2>4, <2>5
  <2>6. CASE OnEdge(g) # {}
    <3>1. PICK a \in OnEdge(g) : \A b \in OnEdge(g) : b.version <= a.version
      BY <2>6
    <3>2. CASE \E b \in OnEdge(g)' : b.version > a.version
      <4>1. PICK b \in OnEdge(g)' : b.version > a.version
        BY <3>2
      <4>2. b \in d
        BY <2>3, <2>4, <3>1, <4>1
      <4>3. \A c \in OnEdge(g)' : c.version <= b.version
        BY <2>2, <2>3, <2>4, <3>1, <4>1, <4>2
      <4> QED
        BY <4>1, <4>3
    <3>3. CASE \A b \in OnEdge(g)' : ~ (b.version > a.version)
      BY <2>3, <2>4, <3>1, <3>3
    <3> QED
      BY <3>2, <3>3
  <2> QED
    BY <2>5, <2>6
<1>9. ASSUME NEW w \in Worker, CommitFailure(w)
      PROVE  DraftInv'
  BY <1>9 DEF CommitFailure, tables, Abandon
<1>10. ASSUME NEW w \in Worker, ReceiptConflict(w)
      PROVE  DraftInv'
  BY <1>10 DEF ReceiptConflict, tables, Abandon
<1>11. ASSUME NEW w \in Worker, Crash(w)
      PROVE  DraftInv'
  BY <1>11 DEF Crash, tables, Abandon
<1>12. CASE UNCHANGED vars
  BY <1>12 DEF vars, tables
<1> QED
  BY <1>1, <1>2, <1>3, <1>4, <1>5, <1>6, <1>7, <1>8, <1>9, <1>10, <1>11, <1>12
  DEF Next, Work

\* What a poll saw still holds after the locks of its batch are gone.
LEMMA FreshStep ==
    ASSUME OneWorkerPerConsumer, TypeOK, BatchInv, FreshInv, [Next]_vars
    PROVE  FreshInv'
<1> USE DEF FreshInv, TypeOK
<1>1. ASSUME NEW e \in Event, Publish(e)
      PROVE  FreshInv'
  BY <1>1 DEF Publish, tables, local, Abandon, Current
<1>2. ASSUME NEW e \in Event, BackoffElapses(e)
      PROVE  FreshInv'
  BY <1>2 DEF BackoffElapses, tables, local, Abandon, Current
<1>3. ASSUME NEW w \in Worker, Snapshot(w)
      PROVE  FreshInv'
  BY <1>3 DEF Snapshot, tables, local, Abandon, Current
<1>4. ASSUME NEW w \in Worker, LockBatch(w)
      PROVE  FreshInv'
  <2>1. /\ UNCHANGED <<receipt, seen>>
        /\ snap'[w] = {} /\ batch'[w] \subseteq snap[w] /\ pc'[w] \in {"idle", "next"}
        /\ \A v \in Worker : v # w =>
              pc'[v] = pc[v] /\ snap'[v] = snap[v] /\ batch'[v] = batch[v]
    BY <1>4 DEF LockBatch, tables
  <2>2. ASSUME NEW v \in Worker, v # w PROVE Current(v)' = Current(v)
    BY <2>1, <2>2 DEF Current
  <2> QED
    BY <2>1, <2>2
<1>5. ASSUME NEW w \in Worker, Handle(w)
      PROVE  FreshInv'
  BY <1>5 DEF Handle, tables, local, Abandon, Current
<1>6. ASSUME NEW w \in Worker, HandlerFails(w)
      PROVE  FreshInv'
  BY <1>6 DEF HandlerFails, tables, local, Abandon, Current
<1>7. ASSUME NEW w \in Worker, ReadReceipt(w)
      PROVE  FreshInv'
  BY <1>7 DEF ReadReceipt, tables, local, Abandon, Current
<1>8. ASSUME NEW w \in Worker, CommitSuccess(w)
      PROVE  FreshInv'
  <2>1. Current(w) \in batch[w] /\ Current(w) \in Event
    BY <1>8, CurrentInBatch DEF CommitSuccess, MayWrite, Busy
  <2>2. \A v \in Worker : v # w => ConsumerOf[v] # ConsumerOf[w]
    BY DEF OneWorkerPerConsumer
  <2>3. \A v \in Worker : ConsumerOf[v] \in Consumer
    BY DispatcherAssumption
  <2>4. batch'[w] = batch[w] \ {Current(w)} /\ pc'[w] # "ready" /\ snap' = snap
        /\ \A v \in Worker : v # w => batch'[v] = batch[v] /\ pc'[v] = pc[v]
    BY <1>8 DEF CommitSuccess, EndEvent
  <2>5. \A c \in Consumer, e \in Event :
           receipt'[c][e] # receipt[c][e] => c = ConsumerOf[w] /\ e = Current(w)
    BY <1>8, <2>1 DEF CommitSuccess, Stamp
  <2>6. pc[w] = "ready"
    BY <1>8 DEF CommitSuccess, MayWrite
  <2>7. snap[w] = {}
    BY <2>6
  <2>8. seen' = seen
    BY <1>8 DEF CommitSuccess, EndEvent
  <2>9. ASSUME NEW v \in Worker, v # w, pc[v] = "ready"
        PROVE  Current(v)' = Current(v) /\ Current(v) \in Event
    BY <2>4, <2>9, CurrentInBatch DEF Current, Busy
  <2>10. \A v \in Worker : batch[v] \subseteq Event /\ snap[v] \subseteq Event
    OBVIOUS
  <2> HIDE DEF FreshInv, TypeOK
  <2>11. \A v \in Worker, e \in Event :
             v # w \/ e # Current(w) => receipt'[ConsumerOf[v]][e] = receipt[ConsumerOf[v]][e]
    BY <2>2, <2>3, <2>5
  <2>12. ASSUME NEW v \in Worker, NEW e \in snap'[v] \cup batch'[v]
         PROVE  receipt'[ConsumerOf[v]][e] # "SUCCESS"
    <3>1. e \in snap[v] \cup batch[v] /\ e \in Event /\ (v # w \/ e # Current(w))
      BY <2>4, <2>7, <2>10
    <3> QED
      BY <2>11, <3>1 DEF FreshInv
  <2>13. \A v \in Worker : pc'[v] # "polling" => snap'[v] = {}
    BY <2>4, <2>7 DEF FreshInv
  <2>14. ASSUME NEW v \in Worker, pc'[v] = "ready"
         PROVE  seen'[v] = receipt'[ConsumerOf[v]][Current(v)']
    <3>1. v # w /\ pc[v] = "ready"
      BY <2>4, <2>14
    <3>2. seen[v] = receipt[ConsumerOf[v]][Current(v)]
      BY <3>1 DEF FreshInv
    <3> QED
      BY <2>8, <2>9, <2>11, <3>1, <3>2
  <2> QED
    BY <2>12, <2>13, <2>14 DEF FreshInv
<1>9. ASSUME NEW w \in Worker, CommitFailure(w)
      PROVE  FreshInv'
  <2>1. Current(w) \in batch[w] /\ Current(w) \in Event
    BY <1>9, CurrentInBatch DEF CommitFailure, MayWrite, Busy
  <2>2. \A v \in Worker : v # w => ConsumerOf[v] # ConsumerOf[w]
    BY DEF OneWorkerPerConsumer
  <2>3. \A v \in Worker : ConsumerOf[v] \in Consumer
    BY DispatcherAssumption
  <2>4. batch'[w] = batch[w] \ {Current(w)} /\ pc'[w] # "ready" /\ snap' = snap
        /\ \A v \in Worker : v # w => batch'[v] = batch[v] /\ pc'[v] = pc[v]
    BY <1>9 DEF CommitFailure, EndEvent
  <2>5. \A c \in Consumer, e \in Event :
           receipt'[c][e] # receipt[c][e] => c = ConsumerOf[w] /\ e = Current(w)
    BY <1>9, <2>1 DEF CommitFailure, Stamp
  <2>6. pc[w] = "ready"
    BY <1>9 DEF CommitFailure, MayWrite
  <2>7. snap[w] = {}
    BY <2>6
  <2>8. seen' = seen
    BY <1>9 DEF CommitFailure, EndEvent
  <2>9. ASSUME NEW v \in Worker, v # w, pc[v] = "ready"
        PROVE  Current(v)' = Current(v) /\ Current(v) \in Event
    BY <2>4, <2>9, CurrentInBatch DEF Current, Busy
  <2>10. \A v \in Worker : batch[v] \subseteq Event /\ snap[v] \subseteq Event
    OBVIOUS
  <2> HIDE DEF FreshInv, TypeOK
  <2>11. \A v \in Worker, e \in Event :
             v # w \/ e # Current(w) => receipt'[ConsumerOf[v]][e] = receipt[ConsumerOf[v]][e]
    BY <2>2, <2>3, <2>5
  <2>12. ASSUME NEW v \in Worker, NEW e \in snap'[v] \cup batch'[v]
         PROVE  receipt'[ConsumerOf[v]][e] # "SUCCESS"
    <3>1. e \in snap[v] \cup batch[v] /\ e \in Event /\ (v # w \/ e # Current(w))
      BY <2>4, <2>7, <2>10
    <3> QED
      BY <2>11, <3>1 DEF FreshInv
  <2>13. \A v \in Worker : pc'[v] # "polling" => snap'[v] = {}
    BY <2>4, <2>7 DEF FreshInv
  <2>14. ASSUME NEW v \in Worker, pc'[v] = "ready"
         PROVE  seen'[v] = receipt'[ConsumerOf[v]][Current(v)']
    <3>1. v # w /\ pc[v] = "ready"
      BY <2>4, <2>14
    <3>2. seen[v] = receipt[ConsumerOf[v]][Current(v)]
      BY <3>1 DEF FreshInv
    <3> QED
      BY <2>8, <2>9, <2>11, <3>1, <3>2
  <2> QED
    BY <2>12, <2>13, <2>14 DEF FreshInv
<1>10. ASSUME NEW w \in Worker, ReceiptConflict(w)
      PROVE  FreshInv'
  BY <1>10 DEF ReceiptConflict, tables, local, Abandon, Current
<1>11. ASSUME NEW w \in Worker, Crash(w)
      PROVE  FreshInv'
  BY <1>11 DEF Crash, tables, local, Abandon, Current
<1>12. CASE UNCHANGED vars
  BY <1>12 DEF vars, tables, local, Current
<1> QED
  BY <1>1, <1>2, <1>3, <1>4, <1>5, <1>6, <1>7, <1>8, <1>9, <1>10, <1>11, <1>12
  DEF Next, Work

\* The retry count a worker has cached stays the stored one.
LEMMA CountStep ==
    ASSUME OneWorkerPerConsumer, TypeOK, BatchInv, CountInv, [Next]_vars
    PROVE  CountInv'
<1> USE DEF CountInv, TypeOK
<1>1. ASSUME NEW e \in Event, Publish(e)
      PROVE  CountInv'
  BY <1>1 DEF Publish, tables, local, Abandon
<1>2. ASSUME NEW e \in Event, BackoffElapses(e)
      PROVE  CountInv'
  BY <1>2 DEF BackoffElapses, tables, local, Abandon
<1>3. ASSUME NEW w \in Worker, Snapshot(w)
      PROVE  CountInv'
  BY <1>3 DEF Snapshot, tables, local, Abandon
<1>4. ASSUME NEW w \in Worker, LockBatch(w)
      PROVE  CountInv'
  <2>1. /\ UNCHANGED <<retry, dead, failures, outcome>>
        /\ cached'[w] = retry /\ batch'[w] \cap dead = {} /\ pc'[w] \in {"idle", "next"}
        /\ batch'[w] \subseteq Event
        /\ \A v \in Worker : v # w =>
              pc'[v] = pc[v] /\ cached'[v] = cached[v] /\ batch'[v] = batch[v]
    BY <1>4 DEF LockBatch, IsOldest, tables
  <2>2. ASSUME NEW v \in Worker, ConsumerOf[v] = Evaluator, NEW e \in batch'[v]
        PROVE  cached'[v][e] = retry'[e] /\ e \notin dead'
    <3>1. CASE v = w
      BY <2>1, <2>2, <3>1
    <3>2. CASE v # w
      BY <2>1, <2>2, <3>2
    <3> QED
      BY <3>1, <3>2
  <2>3. \A v \in Worker : outcome'[v] = "error" /\ pc'[v] \in {"handled", "ready"}
           => ConsumerOf[v] = Evaluator
    BY <2>1
  <2> QED
    BY <2>1, <2>2, <2>3
<1>5. ASSUME NEW w \in Worker, Handle(w)
      PROVE  CountInv'
  BY <1>5 DEF Handle, tables, local, Abandon
<1>6. ASSUME NEW w \in Worker, HandlerFails(w)
      PROVE  CountInv'
  BY <1>6 DEF HandlerFails, tables, local, Abandon
<1>7. ASSUME NEW w \in Worker, ReadReceipt(w)
      PROVE  CountInv'
  BY <1>7 DEF ReadReceipt, tables, local, Abandon
<1>8. ASSUME NEW w \in Worker, CommitSuccess(w)
      PROVE  CountInv'
  BY <1>8 DEF CommitSuccess, EndEvent
<1>9. ASSUME NEW w \in Worker, CommitFailure(w)
      PROVE  CountInv'
  <2> DEFINE e == Current(w)
  <2>1. e \in batch[w] /\ e \in Event
    BY <1>9, CurrentInBatch DEF CommitFailure, MayWrite, Busy
  <2>2. ConsumerOf[w] = Evaluator
    BY <1>9 DEF CommitFailure, MayWrite
  <2>3. \A v \in Worker : v # w => ConsumerOf[v] # Evaluator
    BY <2>2 DEF OneWorkerPerConsumer
  <2>4. cached[w][e] = retry[e] /\ retry[e] \in Nat /\ retry[e] = failures[e]
    BY <2>1, <2>2
  <2>5. /\ retry' = [retry EXCEPT ![e] = cached[w][e] + 1]
        /\ failures' = [failures EXCEPT ![e] = failures[e] + 1]
        /\ dead' \subseteq dead \cup {e}
        /\ UNCHANGED <<cached, outcome>>
        /\ batch' = [batch EXCEPT ![w] = batch[w] \ {e}]
        /\ pc'[w] \in {"idle", "next"} /\ \A v \in Worker : v # w => pc'[v] = pc[v]
    BY <1>9 DEF CommitFailure, EndEvent
  <2> HIDE DEF e
  <2>6. \A f \in Event : retry'[f] = failures'[f]
    BY <2>1, <2>4, <2>5
  <2>7. \A f \in batch'[w] : cached'[w][f] = retry'[f] /\ f \notin dead'
    BY <2>1, <2>2, <2>5
  <2> QED
    BY <2>2, <2>3, <2>5, <2>6, <2>7
<1>10. ASSUME NEW w \in Worker, ReceiptConflict(w)
      PROVE  CountInv'
  BY <1>10 DEF ReceiptConflict, tables, local, Abandon
<1>11. ASSUME NEW w \in Worker, Crash(w)
      PROVE  CountInv'
  BY <1>11 DEF Crash, tables, local, Abandon
<1>12. CASE UNCHANGED vars
  BY <1>12 DEF vars, tables, local
<1> QED
  BY <1>1, <1>2, <1>3, <1>4, <1>5, <1>6, <1>7, <1>8, <1>9, <1>10, <1>11, <1>12
  DEF Next, Work

\* An event is dead exactly after the last failure allowed.
LEMMA DeadLetterStep ==
    ASSUME OneWorkerPerConsumer, TypeOK, BatchInv, CountInv, DeadLetterAfterMaxRetries, [Next]_vars
    PROVE  DeadLetterAfterMaxRetries'
<1> USE DEF DeadLetterAfterMaxRetries
<1>1. ASSUME NEW e \in Event, Publish(e)
      PROVE  DeadLetterAfterMaxRetries'
  BY <1>1 DEF Publish, tables, Abandon
<1>2. ASSUME NEW e \in Event, BackoffElapses(e)
      PROVE  DeadLetterAfterMaxRetries'
  BY <1>2 DEF BackoffElapses, tables, Abandon
<1>3. ASSUME NEW w \in Worker, Snapshot(w)
      PROVE  DeadLetterAfterMaxRetries'
  BY <1>3 DEF Snapshot, tables, Abandon
<1>4. ASSUME NEW w \in Worker, LockBatch(w)
      PROVE  DeadLetterAfterMaxRetries'
  BY <1>4 DEF LockBatch, tables, Abandon
<1>5. ASSUME NEW w \in Worker, Handle(w)
      PROVE  DeadLetterAfterMaxRetries'
  BY <1>5 DEF Handle, tables, Abandon
<1>6. ASSUME NEW w \in Worker, HandlerFails(w)
      PROVE  DeadLetterAfterMaxRetries'
  BY <1>6 DEF HandlerFails, tables, Abandon
<1>7. ASSUME NEW w \in Worker, ReadReceipt(w)
      PROVE  DeadLetterAfterMaxRetries'
  BY <1>7 DEF ReadReceipt, tables, Abandon
<1>8. ASSUME NEW w \in Worker, CommitSuccess(w)
      PROVE  DeadLetterAfterMaxRetries'
  BY <1>8 DEF CommitSuccess, tables, Abandon
<1>9. ASSUME NEW w \in Worker, CommitFailure(w)
      PROVE  DeadLetterAfterMaxRetries'
  <2> DEFINE e == Current(w)
  <2>1. e \in batch[w] /\ e \in Event
    BY <1>9, CurrentInBatch DEF CommitFailure, MayWrite, Busy
  <2>2. ConsumerOf[w] = Evaluator
    BY <1>9 DEF CommitFailure, MayWrite, CountInv
  <2>3. /\ cached[w][e] = failures[e] /\ failures[e] \in Nat
        /\ e \notin dead /\ retry \in [Event -> Nat] /\ failures \in [Event -> Nat]
    BY <2>1, <2>2 DEF CountInv, TypeOK
  <2>4. /\ retry' = [retry EXCEPT ![e] = cached[w][e] + 1]
        /\ failures' = [failures EXCEPT ![e] = failures[e] + 1]
        /\ dead' = IF retry'[e] >= MaxRetries THEN dead \cup {e} ELSE dead
    BY <1>9 DEF CommitFailure
  <2> HIDE DEF e
  <2> QED
    BY <2>1, <2>3, <2>4
<1>10. ASSUME NEW w \in Worker, ReceiptConflict(w)
      PROVE  DeadLetterAfterMaxRetries'
  BY <1>10 DEF ReceiptConflict, tables, Abandon
<1>11. ASSUME NEW w \in Worker, Crash(w)
      PROVE  DeadLetterAfterMaxRetries'
  BY <1>11 DEF Crash, tables, Abandon
<1>12. CASE UNCHANGED vars
  BY <1>12 DEF vars, tables
<1> QED
  BY <1>1, <1>2, <1>3, <1>4, <1>5, <1>6, <1>7, <1>8, <1>9, <1>10, <1>11, <1>12
  DEF Next, Work

\* The receipt and the effects of one event are written together.
LEMMA EffectStep ==
    ASSUME OneWorkerPerConsumer, TypeOK, BatchInv, FreshInv, CountInv,
           EffectsMatchReceipt, [Next]_vars
    PROVE  EffectsMatchReceipt'
<1>1. ASSUME NEW w \in Worker, CommitSuccess(w)
      PROVE  EffectsMatchReceipt'
  <2> DEFINE e == Current(w)
             c == ConsumerOf[w]
  <2>1. e \in batch[w] /\ e \in Event
    BY <1>1, CurrentInBatch DEF CommitSuccess, MayWrite, Busy
  <2>2. c \in Consumer /\ Evaluator \in Consumer
    BY DispatcherAssumption
  <2>3. receipt[c][e] # "SUCCESS" /\ seen[w] = receipt[c][e]
    BY <1>1, <2>1 DEF CommitSuccess, MayWrite, FreshInv
  <2>4. /\ receipt' = [receipt EXCEPT ![c][e] = "SUCCESS"]
        /\ assessments' = assessments \cup Drafts(w)
    BY <1>1, <2>3 DEF CommitSuccess, Stamp
  <2>5. CASE c = Evaluator /\ EdgeOf[e] # NoEdge
    <3>1. \A a \in assessments : a.event # e
      BY <2>1, <2>3, <2>5 DEF EffectsMatchReceipt
    <3>2. Drafts(w) = {[event |-> e, version |-> drafted[w], by |-> w]}
      BY <2>5 DEF Drafts, Assesses
    <3>3. \A f \in Event : receipt'[Evaluator][f] =
             IF f = e THEN "SUCCESS" ELSE receipt[Evaluator][f]
      BY <2>1, <2>2, <2>4, <2>5 DEF TypeOK
    <3> HIDE DEF e, c
    <3>4. \A a, b \in assessments' : a.event = b.event => a = b
      BY <2>4, <3>1, <3>2 DEF EffectsMatchReceipt
    <3>5. ASSUME NEW f \in Event
          PROVE  (\E a \in assessments' : a.event = f)
                    <=> (\E a \in assessments : a.event = f) \/ f = e
      <4> DEFINE new == [event |-> e, version |-> drafted[w], by |-> w]
      <4>1. new \in assessments' /\ new.event = e
        BY <2>4, <3>2
      <4>2. \A a \in assessments' : a \in assessments \/ a.event = e
        BY <2>4, <3>2
      <4>3. assessments \subseteq assessments'
        BY <2>4
      <4> HIDE DEF new
      <4> QED
        BY <4>1, <4>2, <4>3
    <3> QED
      BY <2>5, <3>3, <3>4, <3>5 DEF EffectsMatchReceipt
  <2>6. CASE ~ (c = Evaluator /\ EdgeOf[e] # NoEdge)
    <3>1. assessments' = assessments
      BY <2>4, <2>6 DEF Drafts, Assesses
    <3>2. \A f \in Event : EdgeOf[f] # NoEdge => receipt'[Evaluator][f] = receipt[Evaluator][f]
      BY <2>1, <2>2, <2>4, <2>6 DEF TypeOK
    <3> QED
      BY <3>1, <3>2 DEF EffectsMatchReceipt
  <2> QED
    BY <2>5, <2>6
<1>2. ASSUME NEW w \in Worker, CommitFailure(w)
      PROVE  EffectsMatchReceipt'
  <2> DEFINE e == Current(w)
             c == ConsumerOf[w]
  <2>1. e \in batch[w] /\ e \in Event
    BY <1>2, CurrentInBatch DEF CommitFailure, MayWrite, Busy
  <2>2. c \in Consumer /\ Evaluator \in Consumer
    BY DispatcherAssumption
  <2>3. receipt[c][e] # "SUCCESS" /\ seen[w] = receipt[c][e]
    BY <1>2, <2>1 DEF CommitFailure, MayWrite, FreshInv
  <2>4. /\ receipt' = [receipt EXCEPT ![c][e] = "FAILED"]
        /\ assessments' = assessments
    BY <1>2, <2>1, <2>2, <2>3 DEF CommitFailure, Stamp, TypeOK
  <2>5. \A f \in Event :
           receipt'[Evaluator][f] = "SUCCESS" <=> receipt[Evaluator][f] = "SUCCESS"
    BY <2>1, <2>2, <2>3, <2>4 DEF TypeOK
  <2> QED
    BY <2>4, <2>5 DEF EffectsMatchReceipt
<1>3. CASE ~ \E w \in Worker : CommitSuccess(w) \/ CommitFailure(w)
  <2>1. UNCHANGED <<receipt, assessments>>
    BY <1>3 DEF Next, Work, Publish, BackoffElapses, Snapshot, LockBatch, Handle,
       HandlerFails, ReadReceipt, ReceiptConflict, Crash, Abandon, tables, vars
  <2> QED
    BY <2>1 DEF EffectsMatchReceipt
<1> QED
  BY <1>1, <1>2, <1>3

-----------------------------------------------------------------------------
\* With one process for each consumer the invariant holds in every state.
LEMMA Inductive == ASSUME OneWorkerPerConsumer PROVE Spec => []IInv
<1>1. Init => IInv
  BY InitEstablishes
<1>2. IInv /\ [Next]_vars => IInv'
  BY TypeStep, BatchStep, PublishedStep, DraftStep, FreshStep, CountStep, DeadLetterStep,
     EffectStep DEF IInv
<1> QED
  BY <1>1, <1>2, PTL DEF Spec

\* Exactly once: with one process per consumer, whatever fails or crashes, an
\* event has its effects iff the evaluator's receipt says SUCCESS, and only once.
THEOREM ExactlyOnce ==
    ASSUME OneWorkerPerConsumer PROVE Spec => []EffectsMatchReceipt
<1>1. IInv => EffectsMatchReceipt
  BY DEF IInv
<1> QED
  BY <1>1, Inductive, PTL

\* With one process per consumer an event is given up exactly when max_retries
\* of its attempts have failed.
THEOREM DeadLetterCorrect ==
    ASSUME OneWorkerPerConsumer PROVE Spec => []DeadLetterAfterMaxRetries
<1>1. IInv => DeadLetterAfterMaxRetries
  BY DEF IInv
<1> QED
  BY <1>1, Inductive, PTL

\* With one process per consumer receipts and dead letters say what happened:
\* effects once iff dispatched, given up iff the retries are used up.
THEOREM ReceiptsCorrect ==
    ASSUME OneWorkerPerConsumer PROVE Spec => []ReceiptsAreSound
<1>1. IInv => ReceiptsAreSound
  BY DEF IInv, ReceiptsAreSound
<1> QED
  BY <1>1, Inductive, PTL

\* With one process per consumer a SUCCESS receipt is never taken back.
THEOREM DispatchedForGood ==
    ASSUME OneWorkerPerConsumer PROVE Spec => SuccessIsFinal
<1> DEFINE A == \A c \in Consumer, e \in Event :
                   receipt[c][e] = "SUCCESS" => receipt'[c][e] = "SUCCESS"
<1>1. IInv /\ [Next]_vars => [A]_vars
  <2> SUFFICES ASSUME IInv, [Next]_vars,
                      NEW c \in Consumer, NEW e \in Event, receipt[c][e] = "SUCCESS"
               PROVE  receipt'[c][e] = "SUCCESS"
    OBVIOUS
  <2>1. CASE \E w \in Worker : CommitSuccess(w)
    BY <2>1 DEF CommitSuccess, Stamp, IInv, TypeOK
  <2>2. ASSUME NEW w \in Worker, CommitFailure(w)
        PROVE  receipt'[c][e] = "SUCCESS"
    <3>1. Current(w) \in batch[w] /\ Current(w) \in Event
      BY <2>2, CurrentInBatch DEF CommitFailure, MayWrite, Busy, IInv
    <3>2. receipt[ConsumerOf[w]][Current(w)] # "SUCCESS" /\ ConsumerOf[w] \in Consumer
      BY <3>1, DispatcherAssumption DEF IInv, FreshInv
    <3>3. ~ (c = ConsumerOf[w] /\ e = Current(w))
      BY <3>2
    <3>4. receipt' \in {receipt, [receipt EXCEPT ![ConsumerOf[w]][Current(w)] = "FAILED"]}
      BY <2>2 DEF CommitFailure, Stamp
    <3> QED
      BY <3>1, <3>2, <3>3, <3>4 DEF IInv, TypeOK
  <2>3. CASE ~ \E w \in Worker : CommitSuccess(w) \/ CommitFailure(w)
    BY <2>3 DEF Next, Work, Publish, BackoffElapses, Snapshot, LockBatch, Handle,
       HandlerFails, ReadReceipt, ReceiptConflict, Crash, Abandon, tables, vars
  <2> QED
    BY <2>1, <2>2, <2>3
<1> QED
  BY <1>1, Inductive, PTL DEF Spec, SuccessIsFinal

-----------------------------------------------------------------------------
\* What the tables say of deliveries, and what a step of the abstract
\* specification relates.
Had == [c \in Consumer |-> {e \in Event : receipt[c][e] = "SUCCESS"}]
EffectsOf(e) == {a \in assessments : a.event = e}
Effects == [e \in Event |-> Cardinality(EffectsOf(e))]
Affecting == {e \in Event : EdgeOf[e] # NoEdge}

\* A successful commit delivers the current event, with its one assessment if
\* the evaluator has something to do about it.
LEMMA SuccessDelivers ==
    ASSUME IInv, NEW w \in Worker, CommitSuccess(w),
           NEW e, e = Current(w), NEW c, c = ConsumerOf[w]
    PROVE  Delivery!Deliver(c, e)
<1>1. e \in batch[w] /\ e \in Event /\ c \in Consumer
  BY CurrentInBatch, DispatcherAssumption DEF CommitSuccess, MayWrite, Busy, IInv
<1>2. /\ receipt[c][e] # "SUCCESS" /\ seen[w] = receipt[c][e]
      /\ receipt \in [Consumer -> [Event -> Receipt]]
  BY <1>1 DEF CommitSuccess, MayWrite, IInv, FreshInv, TypeOK
<1>3. /\ receipt' = [receipt EXCEPT ![c][e] = "SUCCESS"]
      /\ assessments' = assessments \cup Drafts(w)
      /\ UNCHANGED <<published, retry, dead>>
  BY <1>2 DEF CommitSuccess, Stamp
<1>4. e \in published /\ e \notin Had[c] /\ (c = Evaluator => e \notin dead)
  BY <1>1, <1>2 DEF IInv, PublishedInv, CountInv, Had
<1>5. Had' = [Had EXCEPT ![c] = Had[c] \cup {e}]
  <2>1. \A d \in Consumer : Had'[d] = IF d = c THEN Had[c] \cup {e} ELSE Had[d]
    BY <1>1, <1>2, <1>3 DEF Had
  <2> QED
    BY <2>1 DEF Had
<1>6. Effects' = IF c = Evaluator /\ e \in Affecting
                 THEN [Effects EXCEPT ![e] = Effects[e] + 1] ELSE Effects
  <2>1. CASE c = Evaluator /\ e \in Affecting
    <3> DEFINE new == [event |-> e, version |-> drafted[w], by |-> w]
    <3>1. assessments' = assessments \cup {new}
      BY <1>3, <2>1 DEF Drafts, Assesses, Affecting
    <3>2. EffectsOf(e) = {}
      BY <1>1, <1>2, <2>1 DEF IInv, EffectsMatchReceipt, EffectsOf
    <3>3. EffectsOf(e)' = {new} /\ \A f \in Event : f # e => EffectsOf(f)' = EffectsOf(f)
      BY <3>1, <3>2 DEF EffectsOf
    <3>4. Cardinality(EffectsOf(e)) = 0 /\ Cardinality(EffectsOf(e)') = 1
      BY <3>2, <3>3, FS_EmptySet, FS_Singleton
    <3> HIDE DEF new
    <3>5. \A f \in Event : Effects'[f] = IF f = e THEN Effects[e] + 1 ELSE Effects[f]
      BY <1>1, <3>3, <3>4 DEF Effects
    <3> QED
      BY <2>1, <3>5 DEF Effects
  <2>2. CASE ~ (c = Evaluator /\ e \in Affecting)
    <3>1. assessments' = assessments
      BY <1>1, <1>3, <2>2 DEF Drafts, Assesses, Affecting
    <3> QED
      BY <2>2, <3>1 DEF Effects, EffectsOf
  <2> QED
    BY <2>1, <2>2
<1> QED
  BY <1>3, <1>4, <1>5, <1>6
  DEF Delivery!Deliver, Had, Effects, EffectsOf, Affecting

\* A failed commit counts one failure of the evaluator, and the last one allowed
\* gives the event up.
LEMMA FailureCounts ==
    ASSUME IInv, NEW w \in Worker, CommitFailure(w), NEW e, e = Current(w)
    PROVE  Delivery!Fail(e) /\ e \in Event
<1>1. e \in batch[w] /\ e \in Event
  BY CurrentInBatch DEF CommitFailure, MayWrite, Busy, IInv
<1>2. ConsumerOf[w] = Evaluator /\ Evaluator \in Consumer
  BY DispatcherAssumption DEF CommitFailure, MayWrite, IInv, CountInv
<1>3. /\ receipt[Evaluator][e] # "SUCCESS" /\ seen[w] = receipt[Evaluator][e]
      /\ receipt \in [Consumer -> [Event -> Receipt]]
  BY <1>1, <1>2 DEF CommitFailure, MayWrite, IInv, FreshInv, TypeOK
<1>4. /\ cached[w][e] = retry[e] /\ e \notin dead /\ e \in published
      /\ retry \in [Event -> Nat] /\ retry[e] = failures[e]
  BY <1>1, <1>2 DEF IInv, CountInv, PublishedInv, TypeOK
<1>5. retry[e] \in Nat /\ retry[e] < MaxRetries
  BY <1>1, <1>4, DispatcherAssumption DEF IInv, DeadLetterAfterMaxRetries
<1>6. /\ receipt' = [receipt EXCEPT ![Evaluator][e] = "FAILED"]
      /\ retry' = [retry EXCEPT ![e] = retry[e] + 1]
      /\ dead' = IF retry'[e] >= MaxRetries THEN dead \cup {e} ELSE dead
      /\ UNCHANGED <<published, assessments>>
  BY <1>1, <1>2, <1>3, <1>4 DEF CommitFailure, Stamp
<1>7. dead' = IF retry[e] + 1 = MaxRetries THEN dead \cup {e} ELSE dead
  BY <1>1, <1>4, <1>5, <1>6, DispatcherAssumption
<1>8. Had' = Had
  <2>1. \A d \in Consumer : Had'[d] = Had[d]
    BY <1>1, <1>2, <1>3, <1>6 DEF Had
  <2> QED
    BY <2>1 DEF Had
<1>9. e \notin Had[Evaluator]
  BY <1>2, <1>3 DEF Had
<1> QED
  BY <1>1, <1>4, <1>6, <1>7, <1>8, <1>9 DEF Delivery!Fail, Had

\* With one process per consumer the dispatcher implements EventDelivery: its
\* polls, lost locks, cached rows, retries and crashes are invisible, and each
\* commit is one delivery with its effects or one failure that counts.
THEOREM DeliveryImplemented ==
    ASSUME OneWorkerPerConsumer PROVE Spec => DeliversOnce
<1>1. Init => Delivery!Init
  <2> SUFFICES ASSUME Init PROVE Delivery!Init
    OBVIOUS
  <2>1. \A e \in Event : {a \in assessments : a.event = e} = {}
    BY DEF Init
  <2>2. \A c \in Consumer : {e \in Event : receipt[c][e] = "SUCCESS"} = {}
    BY DEF Init
  <2> QED
    BY <2>1, <2>2, FS_EmptySet DEF Init, Delivery!Init
<1>2. IInv /\ [Next]_vars => [Delivery!Next]_(Delivery!delivery)
  <2> SUFFICES ASSUME IInv, [Next]_vars
               PROVE  Delivery!Next \/ UNCHANGED Delivery!delivery
    OBVIOUS
  <2>1. ASSUME NEW w \in Worker, CommitSuccess(w) PROVE Delivery!Next
    <3>1. PICK e \in Event, c \in Consumer : e = Current(w) /\ c = ConsumerOf[w]
      BY <2>1, CurrentInBatch, DispatcherAssumption DEF CommitSuccess, MayWrite, Busy, IInv
    <3>2. Delivery!Deliver(c, e)
      BY <2>1, <3>1, SuccessDelivers
    <3> QED
      BY <3>1, <3>2 DEF Delivery!Next
  <2>2. ASSUME NEW w \in Worker, CommitFailure(w) PROVE Delivery!Next
    <3>1. PICK e : e = Current(w)
      OBVIOUS
    <3>2. Delivery!Fail(e) /\ e \in Event
      BY <2>2, <3>1, FailureCounts
    <3> QED
      BY <3>2 DEF Delivery!Next
  <2>3. ASSUME NEW e \in Event, Publish(e) PROVE Delivery!Next
    <3>1. Delivery!Publish(e)
      BY <2>3 DEF Publish, Delivery!Publish
    <3> QED
      BY <3>1 DEF Delivery!Next
  <2>4. CASE /\ ~ \E w \in Worker : CommitSuccess(w) \/ CommitFailure(w)
             /\ ~ \E e \in Event : Publish(e)
    <3>1. UNCHANGED <<published, receipt, assessments, retry, dead>>
      BY <2>4 DEF Next, Work, BackoffElapses, Snapshot, LockBatch, Handle,
         HandlerFails, ReadReceipt, ReceiptConflict, Crash, Abandon, tables, vars
    <3> QED
      BY <3>1 DEF Delivery!delivery
  <2> QED
    BY <2>1, <2>2, <2>3, <2>4
<1> QED
  BY <1>1, <1>2, Inductive, PTL DEF Spec, DeliversOnce, Delivery!Spec

-----------------------------------------------------------------------------
(***************************************************************************)
(* Proofs about DisruptionImpact, the consumer that the dispatcher hands   *)
(* the events about an edge to: every trip that has to pass is warned, no  *)
(* vehicle beyond the edge is turned back, whatever moves, ends or is      *)
(* rerouted between the statements of overlapping handlers.                *)
(*                                                                         *)
(* The argument follows a trip from the list through the look at its       *)
(* vehicle to its draft; the histories know the place of each vehicle on   *)
(* each route listed, so they know what the handler saw of it.             *)
(***************************************************************************)

\* The impact evaluator on its own.
ImpactSpec == ImpactInit /\ [][ImpactNext]_impactVars

Handling(e) == evaluation[e].pc = "assessing"

\* A handler at work has its trips and its drafts.
HandlerInv ==
  /\ DOMAIN evaluation = Events
  /\ \A e \in Events : Handling(e) =>
       {"pc", "kind", "severity", "left", "at", "drafts"} \subseteq DOMAIN evaluation[e]

\* A handler is at trips of its own: each is still to be looked at, being looked
\* at, or assessed, and only once.
TripsInv ==
  \A e \in Events : Handling(e) =>
    /\ evaluation[e].left \subseteq Trips \X Through
    /\ \A r, s \in evaluation[e].left : r[1] = s[1] => r = s
    /\ evaluation[e].at \subseteq [trip: Trips, ahead: BOOLEAN]
    /\ \A a, b \in evaluation[e].at : a = b
    /\ \A a \in evaluation[e].at : \A r \in evaluation[e].left : r[1] # a.trip
    /\ \A i \in evaluation[e].drafts :
         /\ IsImpact(i) /\ i.by = e
         /\ \A r \in evaluation[e].left : r[1] # i.trip
         /\ \A a \in evaluation[e].at : a.trip # i.trip
         /\ \A j \in evaluation[e].drafts : j.trip = i.trip => j = i

\* An event leaves impacts only by the commit of its handler.
OwnInv ==
  \A e \in Events : evaluation[e].pc # "handled" => \A i \in tripImpacts : i.by # e

\* Some row of a trip was short of the edge, or beyond it, since the handling began.
WasShort(e, t) == \E r \in short[e] : r[1] = t
WasBeyond(e, t) == \E r \in cleared[e] : r[1] = t

\* The histories know each row of the trips there were, and what a handler read of
\* a place was so at some moment.
PlaceInv ==
  /\ DOMAIN trip = Trips /\ DOMAIN short = Events /\ DOMAIN cleared = Events
  /\ \A e \in Events : short[e] \subseteq Trips \X Through /\ cleared[e] \subseteq Trips \X Through
  /\ \A e \in Events : Handling(e) =>
       /\ \A r \in short[e] \union cleared[e] :
            r \in IF IsAhead(position[r[1]], r[2]) THEN cleared[e] ELSE short[e]
       /\ evaluation[e].left \subseteq short[e] \union cleared[e]
       /\ \A a \in evaluation[e].at : IF a.ahead THEN WasBeyond(e, a.trip) ELSE WasShort(e, a.trip)
       /\ \A i \in evaluation[e].drafts : i.isActive => WasShort(e, i.trip)

Warns(i, t) == i.trip = t /\ i.isActive /\ DOMAIN i.sla = DOMAIN Due[t]

\* No trip is lost on the way from the list to the impacts.
CoverInv ==
  \A e \in Events : Handling(e) =>
    \A t \in Trips : WasShort(e, t) =>
      \/ \E r \in evaluation[e].left : r[1] = t
      \/ \E a \in evaluation[e].at : a.trip = t
      \/ WasBeyond(e, t)
      \/ \E i \in evaluation[e].drafts : Warns(i, t)

Closed(i, j) == j.trip = i.trip /\ j.isActive /\ j.version = i.version - 1

\* A closing impact not committed yet closes one that is or will be.
ClosingInv ==
  \A e \in Events : Handling(e) =>
    \A i \in evaluation[e].drafts : ~i.isActive =>
      \E j \in tripImpacts \union evaluation[e].drafts : Closed(i, j)

ImpactInv ==
  /\ HandlerInv /\ TripsInv /\ OwnInv /\ PlaceInv /\ CoverInv /\ ClosingInv
  /\ ImpactsAreSound

\* Nothing is published, so nothing is missing.
LEMMA ImpactBegins == ImpactInit => ImpactInv
<1> SUFFICES ASSUME ImpactInit PROVE ImpactInv
  OBVIOUS
<1> USE DEF ImpactInit
<1>1. HandlerInv /\ TripsInv /\ OwnInv /\ PlaceInv /\ CoverInv /\ ClosingInv
  BY DEF HandlerInv, TripsInv, OwnInv, PlaceInv, CoverInv, ClosingInv, Handling
<1>2. ImpactTypeOK
  BY DEF ImpactTypeOK
<1>3. EveryTripIsWarned /\ NobodyIsTurnedBack /\ OneImpactPerEvent /\ ClosingsCloseAnImpact
  BY DEF EveryTripIsWarned, Judged, NobodyIsTurnedBack, OneImpactPerEvent, ClosingsCloseAnImpact
<1> QED
  BY <1>1, <1>2, <1>3 DEF ImpactInv, ImpactsAreSound

\* The list has one row for each trip that has to use the edge.
LEMMA ListIsComplete ==
  /\ ListedOnce(Rows) \subseteq Concerned
  /\ \A r, s \in ListedOnce(Rows) : r[1] = s[1] => r = s
  /\ \A q \in Concerned : \E r \in ListedOnce(Rows) : r[1] = q[1]
<1> DEFINE Of(t) == CHOOSE row \in Rows : row[1] = t
<1>1. \A r \in ListedOnce(Rows) : \E t : r = Of(t) /\ \E row \in Rows : row[1] = t
  BY DEF ListedOnce
<1>2. \A t : (\E row \in Rows : row[1] = t) => Of(t) \in Rows /\ Of(t)[1] = t
  OBVIOUS
<1>3. \A t : (\E row \in Rows : row[1] = t) => Of(t) \in ListedOnce(Rows)
  BY DEF ListedOnce
<1>4. Rows = Concerned
  BY DEF Rows, Concerned, Running
<1> HIDE DEF Of
<1> QED
  BY <1>1, <1>2, <1>3, <1>4

\* The start of a handler.
LEMMA EvaluationBegins ==
  ASSUME ImpactInv, NEW e \in Events, BeginEvaluation(e)
  PROVE  ImpactInv'
<1> USE DEF ImpactInv, ImpactsAreSound
<1>1. /\ evaluation[e].pc = "published"
      /\ UNCHANGED <<trip, position, tripImpacts, facImpacts>>
      /\ DOMAIN evaluation = Events /\ DOMAIN evaluation' = Events
      /\ \A f \in Events : f # e => evaluation'[f] = evaluation[f]
  BY DEF BeginEvaluation, HandlerInv
<1>2. \/ evaluation'[e] = [pc |-> "handled", asked |-> FALSE]
      \/ \E kind, severity :
           evaluation'[e] = [pc |-> "assessing", kind |-> kind, severity |-> severity,
                             left |-> ListedOnce(Rows), at |-> {}, drafts |-> {}]
  BY <1>1 DEF BeginEvaluation
<1>3. /\ short'[e] = {r \in Concerned : ~IsAhead(position[r[1]], r[2])}
      /\ cleared'[e] = {r \in Concerned : IsAhead(position[r[1]], r[2])}
      /\ \A f \in Events : f # e => short'[f] = short[f] /\ cleared'[f] = cleared[f]
      /\ DOMAIN short' = Events /\ DOMAIN cleared' = Events
  BY DEF BeginEvaluation, PlaceInv
<1> DEFINE list == ListedOnce(Rows)
<1>4. /\ list \subseteq Trips \X Through
      /\ \A r, s \in list : r[1] = s[1] => r = s
      /\ list \subseteq short'[e] \union cleared'[e]
      /\ \A t : WasShort(e, t)' => \E r \in list : r[1] = t
  <2>1. Concerned \subseteq Trips \X Through /\ short'[e] \union cleared'[e] = Concerned
    BY <1>3 DEF Concerned
  <2>2. \A t : WasShort(e, t)' => \E q \in Concerned : q[1] = t
    BY <2>1 DEF WasShort
  <2> QED
    BY <2>1, <2>2, ListIsComplete
<1> HIDE DEF list
<1>5. Handling(e)' => /\ evaluation'[e].left = list /\ evaluation'[e].at = {}
                  /\ evaluation'[e].drafts = {}
  <2>1. CASE evaluation'[e] = [pc |-> "handled", asked |-> FALSE]
    BY <2>1 DEF Handling
  <2>2. CASE \E kind, severity :
               evaluation'[e] = [pc |-> "assessing", kind |-> kind, severity |-> severity,
                                 left |-> ListedOnce(Rows), at |-> {}, drafts |-> {}]
    BY <2>2 DEF list
  <2> QED
    BY <1>2, <2>1, <2>2
<1>6. \A f \in Events : f # e => (Handling(f)' <=> Handling(f))
  BY <1>1 DEF Handling
<1>7. HandlerInv'
  <2>1. Handling(e)' =>
          {"pc", "kind", "severity", "left", "at", "drafts"} \subseteq DOMAIN evaluation'[e]
    <3>1. CASE evaluation'[e] = [pc |-> "handled", asked |-> FALSE]
      BY <3>1 DEF Handling
    <3>2. CASE \E kind, severity :
               evaluation'[e] = [pc |-> "assessing", kind |-> kind, severity |-> severity,
                                 left |-> ListedOnce(Rows), at |-> {}, drafts |-> {}]
      BY <3>2
    <3> QED
      BY <1>2, <3>1, <3>2
  <2> QED
    BY <1>1, <1>6, <2>1 DEF HandlerInv
<1>8. TripsInv'
  BY <1>1, <1>4, <1>5, <1>6 DEF TripsInv
<1>9. OwnInv'
  BY <1>1 DEF OwnInv
<1>10. PlaceInv'
  <2>1. /\ short'[e] \subseteq Trips \X Through /\ cleared'[e] \subseteq Trips \X Through
        /\ \A r \in short'[e] \union cleared'[e] :
             r \in IF IsAhead(position[r[1]], r[2]) THEN cleared'[e] ELSE short'[e]
    BY <1>3 DEF Concerned
  <2> QED
    BY <1>1, <1>3, <1>4, <1>5, <1>6, <2>1 DEF PlaceInv, WasShort, WasBeyond, IsAhead
<1>11. CoverInv'
  BY <1>1, <1>3, <1>4, <1>5, <1>6 DEF CoverInv, WasShort, WasBeyond, Warns
<1>12. ClosingInv'
  BY <1>1, <1>5, <1>6 DEF ClosingInv
<1>13. ImpactTypeOK'
  BY <1>1, <1>2 DEF ImpactTypeOK
<1>14. EveryTripIsWarned'
  <2>1. ~ Judged(e)' /\ \A f \in Events : f # e => (Judged(f)' <=> Judged(f))
    BY <1>1, <1>2 DEF Judged
  <2> QED
    BY <1>1, <1>3, <2>1 DEF EveryTripIsWarned
<1>15. NobodyIsTurnedBack'
  <2>1. \A i \in tripImpacts : i.by # e /\ i.by \in Events
    BY <1>1 DEF OwnInv, ImpactTypeOK, IsImpact
  <2> QED
    BY <1>1, <1>3, <2>1 DEF NobodyIsTurnedBack
<1>16. OneImpactPerEvent' /\ ClosingsCloseAnImpact'
  BY <1>1 DEF OneImpactPerEvent, ClosingsCloseAnImpact
<1> QED
  BY <1>7, <1>8, <1>9, <1>10, <1>11, <1>12, <1>13, <1>14, <1>15, <1>16

\* The look at the next vehicle.
LEMMA VehicleLocated ==
  ASSUME ImpactInv, NEW e \in Events, LocateVehicle(e)
  PROVE  ImpactInv'
<1> USE DEF ImpactInv, ImpactsAreSound
<1>1. PICK row \in evaluation[e].left :
        evaluation' = [evaluation EXCEPT
          ![e].left = evaluation[e].left \ {row},
          ![e].at = {[trip |-> row[1], ahead |-> IsAhead(position[row[1]], row[2])]}]
  BY DEF LocateVehicle
<1> DEFINE it == [trip |-> row[1], ahead |-> IsAhead(position[row[1]], row[2])]
<1>2. /\ Handling(e) /\ evaluation[e].at = {}
      /\ UNCHANGED <<trip, position, tripImpacts, facImpacts, short, cleared>>
  BY DEF LocateVehicle, Handling
<1>4. /\ HandlerInv'
      /\ \A f \in Events : f # e => evaluation'[f] = evaluation[f]
      /\ evaluation'[e].pc = "assessing"
      /\ evaluation'[e].left = evaluation[e].left \ {row} /\ evaluation'[e].at = {it}
      /\ evaluation'[e].drafts = evaluation[e].drafts
  <2>1. /\ DOMAIN evaluation = Events
        /\ {"pc", "kind", "severity", "left", "at", "drafts"} \subseteq DOMAIN evaluation[e]
    BY <1>2 DEF HandlerInv
  <2>2. evaluation' = [evaluation EXCEPT ![e].left = evaluation[e].left \ {row}, ![e].at = {it}]
    BY <1>1
  <2> HIDE DEF it
  <2>3. /\ DOMAIN evaluation' = Events
        /\ \A f \in Events : f # e => evaluation'[f] = evaluation[f]
        /\ DOMAIN evaluation'[e] = DOMAIN evaluation[e]
        /\ evaluation'[e].pc = evaluation[e].pc
        /\ evaluation'[e].left = evaluation[e].left \ {row} /\ evaluation'[e].at = {it}
        /\ evaluation'[e].drafts = evaluation[e].drafts
    BY <2>1, <2>2
  <2> QED
    BY <1>2, <2>1, <2>3 DEF HandlerInv, Handling
<1>5. row[1] \in Trips /\ it.trip = row[1] /\ it.ahead = IsAhead(position[row[1]], row[2])
      /\ it \in [trip: Trips, ahead: BOOLEAN]
  BY <1>2 DEF TripsInv, IsAhead
<1> HIDE DEF it
<1>6. \A f \in Events : f # e => (Handling(f)' <=> Handling(f))
  BY <1>4 DEF Handling
<1>7. TripsInv'
  <2>1. \A r \in evaluation[e].left \ {row} : r[1] # row[1]
    BY <1>2 DEF TripsInv
  <2> QED
    BY <1>2, <1>4, <1>5, <1>6, <2>1 DEF TripsInv
<1>8. OwnInv'
  BY <1>2, <1>4 DEF OwnInv, Handling
<1>9. PlaceInv'
  <2>1. IF it.ahead THEN WasBeyond(e, it.trip) ELSE WasShort(e, it.trip)
    BY <1>2, <1>5 DEF PlaceInv, WasShort, WasBeyond
  <2> QED
    BY <1>2, <1>4, <1>6, <2>1 DEF PlaceInv, WasShort, WasBeyond, IsAhead
<1>10. CoverInv'
  BY <1>2, <1>4, <1>5, <1>6 DEF CoverInv, WasShort, WasBeyond
<1>11. ClosingInv'
  BY <1>2, <1>4, <1>6 DEF ClosingInv
<1>12. ImpactTypeOK'
  BY <1>2, <1>4 DEF ImpactTypeOK
<1>13. EveryTripIsWarned'
  BY <1>2, <1>4 DEF EveryTripIsWarned, Judged
<1>14. NobodyIsTurnedBack' /\ OneImpactPerEvent' /\ ClosingsCloseAnImpact'
  BY <1>2 DEF NobodyIsTurnedBack, OneImpactPerEvent, ClosingsCloseAnImpact
<1> QED
  BY <1>4, <1>7, <1>8, <1>9, <1>10, <1>11, <1>12, <1>13, <1>14

\* The verdict on the trip that is being looked at.
LEMMA TripAssessed ==
  ASSUME ImpactInv, NEW e \in Events, AssessTrip(e)
  PROVE  ImpactInv'
<1> USE DEF ImpactInv, ImpactsAreSound
<1> DEFINE drafts == evaluation[e].drafts
<1>1. /\ Handling(e)
      /\ UNCHANGED <<trip, position, tripImpacts, facImpacts, short, cleared>>
  BY DEF AssessTrip, Handling
<1>2a. PICK a \in evaluation[e].at : \E prev \in LatestOfTrip(e, a.trip) :
        LET kind == evaluation[e].kind
            active == [by |-> e, trip |-> a.trip, version |-> prev.version + 1, isActive |-> TRUE,
                       action |-> Recommended(kind, evaluation[e].severity),
                       sla |-> Verdicts(a.trip, Delay(kind))]
            closing == [active EXCEPT !.isActive = FALSE, !.sla = << >>,
                                      !.action = "PROCEED_WITH_CAUTION"]
            written == IF ~a.ahead THEN {active}
                       ELSE IF Closes(prev) THEN {closing} ELSE {}
        IN evaluation' = [evaluation EXCEPT ![e].at = {}, ![e].drafts = @ \union written]
  BY DEF AssessTrip
<1>2. PICK prev \in LatestOfTrip(e, a.trip) :
        LET kind == evaluation[e].kind
            active == [by |-> e, trip |-> a.trip, version |-> prev.version + 1, isActive |-> TRUE,
                       action |-> Recommended(kind, evaluation[e].severity),
                       sla |-> Verdicts(a.trip, Delay(kind))]
            closing == [active EXCEPT !.isActive = FALSE, !.sla = << >>,
                                      !.action = "PROCEED_WITH_CAUTION"]
            written == IF ~a.ahead THEN {active}
                       ELSE IF Closes(prev) THEN {closing} ELSE {}
        IN evaluation' = [evaluation EXCEPT ![e].at = {}, ![e].drafts = @ \union written]
  BY <1>2a
<1> DEFINE kind == evaluation[e].kind
           active == [by |-> e, trip |-> a.trip, version |-> prev.version + 1, isActive |-> TRUE,
                      action |-> Recommended(kind, evaluation[e].severity),
                      sla |-> Verdicts(a.trip, Delay(kind))]
           closing == [active EXCEPT !.isActive = FALSE, !.sla = << >>,
                                     !.action = "PROCEED_WITH_CAUTION"]
           written == IF ~a.ahead THEN {active}
                      ELSE IF prev.isActive THEN {closing} ELSE {}
<1>3. evaluation' = [evaluation EXCEPT ![e].at = {}, ![e].drafts = @ \union written]
  BY <1>2 DEF Closes
<1> HIDE DEF written, drafts
<1>4. /\ HandlerInv'
      /\ \A f \in Events : f # e => evaluation'[f] = evaluation[f]
      /\ evaluation'[e].pc = "assessing"
      /\ evaluation'[e].left = evaluation[e].left /\ evaluation'[e].at = {}
      /\ evaluation'[e].drafts = drafts \union written
  <2>1. /\ DOMAIN evaluation = Events
        /\ {"pc", "kind", "severity", "left", "at", "drafts"} \subseteq DOMAIN evaluation[e]
    BY <1>1 DEF HandlerInv
  <2>2. /\ DOMAIN evaluation' = Events
        /\ \A f \in Events : f # e => evaluation'[f] = evaluation[f]
        /\ DOMAIN evaluation'[e] = DOMAIN evaluation[e]
        /\ evaluation'[e].pc = evaluation[e].pc
        /\ evaluation'[e].left = evaluation[e].left /\ evaluation'[e].at = {}
        /\ evaluation'[e].drafts = drafts \union written
    BY <1>3, <2>1 DEF drafts
  <2> QED
    BY <1>1, <2>1, <2>2 DEF HandlerInv, Handling
<1>5. \A f \in Events : f # e => (Handling(f)' <=> Handling(f))
  BY <1>4 DEF Handling
<1>6. /\ a.trip \in Trips /\ a.ahead \in BOOLEAN
  BY <1>1, <1>2 DEF TripsInv
<1>7. /\ prev.version \in Nat
      /\ prev.isActive => /\ prev \in tripImpacts \union drafts
                          /\ prev.trip = a.trip
  <2>1. CASE Visible(e, a.trip) = {}
    BY <1>2, <2>1 DEF LatestOfTrip, NoImpact
  <2>2. CASE Visible(e, a.trip) # {}
    <3>1. prev \in Visible(e, a.trip)
      BY <1>2, <2>2 DEF LatestOfTrip
    <3>2. prev \in tripImpacts \union drafts /\ prev.trip = a.trip
      BY <3>1 DEF Visible, drafts
    <3>3. IsImpact(prev)
      BY <1>1, <3>2 DEF ImpactTypeOK, TripsInv, drafts
    <3> QED
      BY <3>2, <3>3 DEF IsImpact
  <2> QED
    BY <2>1, <2>2
<1>8. Warns(active, a.trip) /\ IsImpact(active) /\ active.by = e
  <2>1. active.sla \in [DOMAIN Due[a.trip] -> SlaStatus]
    BY DEF Verdicts, Commitments, Sla, SlaStatus
  <2>2. active.action \in Recommendation
    BY DEF Recommended, Recommendation
  <2>3. /\ active.by = e /\ active.trip = a.trip /\ active.version = prev.version + 1
        /\ active.isActive = TRUE
    OBVIOUS
  <2>4. DOMAIN active.sla = DOMAIN Due[a.trip]
    BY <2>1
  <2> HIDE DEF active
  <2>5. prev.version + 1 \in Nat \ {0}
    BY <1>7
  <2> QED
    BY <1>6, <2>1, <2>2, <2>3, <2>4, <2>5 DEF IsImpact, Warns
<1>9. /\ IsImpact(closing) /\ closing.by = e /\ closing.trip = a.trip
      /\ closing.isActive = FALSE
      /\ prev.isActive => Closed(closing, prev)
  <2>1. /\ closing.by = e /\ closing.trip = a.trip /\ closing.version = prev.version + 1
        /\ closing.isActive = FALSE /\ closing.sla = << >>
        /\ closing.action = "PROCEED_WITH_CAUTION"
    OBVIOUS
  <2>2. << >> \in [DOMAIN << >> -> SlaStatus]
    OBVIOUS
  <2> HIDE DEF closing
  <2>3. closing.sla \in [DOMAIN closing.sla -> SlaStatus]
    BY <2>1, <2>2
  <2>4. closing.action \in Recommendation /\ closing.isActive \in BOOLEAN
    BY <2>1 DEF Recommendation
  <2>5. closing.version \in Nat \ {0}
    BY <1>7, <2>1
  <2>6. IsImpact(closing)
    BY <1>6, <2>1, <2>3, <2>4, <2>5 DEF IsImpact
  <2> QED
    BY <1>7, <2>1, <2>6 DEF Closed
<1>10. /\ ~a.ahead => written = {active}
       /\ a.ahead => written = IF prev.isActive THEN {closing} ELSE {}
  BY DEF written
<1> HIDE DEF active, closing
<1>11. /\ \A i \in written : IsImpact(i) /\ i.by = e /\ i.trip = a.trip
       /\ \A i, j \in written : i = j
       /\ \A i \in written : i.isActive => ~a.ahead
       /\ \A i \in written : ~i.isActive => prev.isActive /\ Closed(i, prev)
       /\ ~a.ahead => \E i \in written : Warns(i, a.trip)
  <2>1. CASE ~a.ahead
    BY <1>8, <1>10, <2>1 DEF Warns
  <2>2. CASE a.ahead /\ prev.isActive
    BY <1>9, <1>10, <2>2
  <2>3. CASE a.ahead /\ ~prev.isActive
    BY <1>10, <2>3
  <2> QED
    BY <2>1, <2>2, <2>3
<1>12. TripsInv'
  <2>1. /\ drafts = evaluation[e].drafts
        /\ \A i \in drafts : i.trip # a.trip
        /\ \A r \in evaluation[e].left : r[1] # a.trip
    BY <1>1, <1>2 DEF TripsInv, drafts
  <2>2. \A i \in drafts \union written :
          /\ IsImpact(i) /\ i.by = e
          /\ \A r \in evaluation[e].left : r[1] # i.trip
          /\ \A j \in drafts \union written : j.trip = i.trip => j = i
    BY <1>1, <1>11, <2>1 DEF TripsInv
  <2>3. /\ evaluation[e].left \subseteq Trips \X Through
        /\ \A r, s \in evaluation[e].left : r[1] = s[1] => r = s
    BY <1>1 DEF TripsInv
  <2>4. \A f \in Events : f # e /\ Handling(f) => UNCHANGED evaluation[f]
    BY <1>4
  <2>5. \A i \in drafts \union written : IsImpact(i)'
    BY <2>2 DEF IsImpact
  <2> QED
    BY <1>4, <1>5, <2>2, <2>3, <2>4, <2>5 DEF TripsInv
<1>13. OwnInv'
  BY <1>1, <1>4 DEF OwnInv, Handling
<1>14. PlaceInv'
  <2>1. \A i \in drafts \union written : i.isActive => WasShort(e, i.trip)
    BY <1>1, <1>2, <1>11 DEF PlaceInv, drafts
  <2> QED
    BY <1>1, <1>4, <1>5, <2>1 DEF PlaceInv, WasShort, WasBeyond, IsAhead
<1>15. CoverInv'
  <2>1. \A t \in Trips : WasShort(e, t) =>
          \/ \E r \in evaluation[e].left : r[1] = t
          \/ WasBeyond(e, t)
          \/ \E i \in drafts \union written : Warns(i, t)
    <3> SUFFICES ASSUME NEW t \in Trips, WasShort(e, t), ~WasBeyond(e, t),
                        ~ \E r \in evaluation[e].left : r[1] = t
                 PROVE  \E i \in drafts \union written : Warns(i, t)
      OBVIOUS
    <3>1. CASE \E b \in evaluation[e].at : b.trip = t
      <4>1. a.trip = t
        BY <1>1, <1>2, <3>1 DEF TripsInv
      <4>2. ~a.ahead
        BY <1>1, <1>2, <4>1 DEF PlaceInv
      <4> QED
        BY <1>11, <4>1, <4>2
    <3>2. CASE \E i \in evaluation[e].drafts : Warns(i, t)
      BY <3>2 DEF drafts
    <3> QED
      BY <1>1, <3>1, <3>2 DEF CoverInv
  <2>2. \A t : \A i \in drafts \union written : Warns(i, t)' <=> Warns(i, t)
    BY DEF Warns
  <2> QED
    BY <1>1, <1>4, <1>5, <2>1, <2>2 DEF CoverInv, Warns, WasShort, WasBeyond
<1>16. ClosingInv'
  <2>1. \A i \in drafts \union written : ~i.isActive =>
          \E j \in tripImpacts \union (drafts \union written) : Closed(i, j)
    BY <1>1, <1>7, <1>11 DEF ClosingInv, drafts
  <2> QED
    BY <1>1, <1>4, <1>5, <2>1 DEF ClosingInv, Closed
<1>17. ImpactTypeOK'
  BY <1>1, <1>4 DEF ImpactTypeOK, IsImpact
<1>18. EveryTripIsWarned'
  BY <1>1, <1>4 DEF EveryTripIsWarned, Judged
<1>19. NobodyIsTurnedBack' /\ OneImpactPerEvent' /\ ClosingsCloseAnImpact'
  BY <1>1 DEF NobodyIsTurnedBack, OneImpactPerEvent, ClosingsCloseAnImpact
<1> QED
  BY <1>4, <1>12, <1>13, <1>14, <1>15, <1>16, <1>17, <1>18, <1>19

\* The commit of a handler.
LEMMA EvaluationCommits ==
  ASSUME ImpactInv, NEW e \in Events, CommitEvaluation(e)
  PROVE  ImpactInv'
<1> USE DEF ImpactInv, ImpactsAreSound
<1> DEFINE drafts == evaluation[e].drafts
<1>1. /\ Handling(e) /\ evaluation[e].left = {} /\ evaluation[e].at = {}
      /\ tripImpacts' = tripImpacts \union drafts
      /\ facImpacts' = facImpacts \union FacilityImpacts(e)
      /\ UNCHANGED <<trip, position, short, cleared>>
  BY DEF CommitEvaluation, Handling
<1>2. /\ DOMAIN evaluation' = Events
      /\ evaluation'[e] = [pc |-> "handled", asked |-> TRUE]
      /\ \A f \in Events : f # e => evaluation'[f] = evaluation[f]
  BY DEF CommitEvaluation, HandlerInv
<1>3. /\ \A i \in drafts : /\ IsImpact(i) /\ i.by = e
                           /\ i.isActive => WasShort(e, i.trip)
                           /\ \A j \in drafts : j.trip = i.trip => j = i
                           /\ ~i.isActive => \E j \in tripImpacts \union drafts : Closed(i, j)
      /\ \A t \in Trips : WasShort(e, t) => WasBeyond(e, t) \/ \E i \in drafts : Warns(i, t)
      /\ \A i \in tripImpacts : i.by # e
  BY <1>1 DEF TripsInv, PlaceInv, CoverInv, ClosingInv, OwnInv, Handling
<1> HIDE DEF drafts
<1>4. ~Handling(e)' /\ \A f \in Events : f # e => (Handling(f)' <=> Handling(f))
  BY <1>2 DEF Handling
<1>5. HandlerInv'
  BY <1>2, <1>4 DEF HandlerInv
<1>6. TripsInv'
  BY <1>2, <1>4 DEF TripsInv, IsImpact
<1>7. OwnInv'
  <2> SUFFICES ASSUME NEW f \in Events, evaluation'[f].pc # "handled", NEW i \in tripImpacts'
               PROVE  i.by # f
    BY DEF OwnInv
  <2>1. f # e
    BY <1>2
  <2>2. evaluation[f].pc # "handled"
    BY <1>2, <2>1
  <2> QED
    BY <1>1, <1>3, <2>1, <2>2 DEF OwnInv
<1>8. PlaceInv'
  BY <1>1, <1>2, <1>4 DEF PlaceInv, WasShort, WasBeyond, IsAhead
<1>9. CoverInv'
  BY <1>1, <1>2, <1>4 DEF CoverInv, Warns, WasShort, WasBeyond
<1>10. ClosingInv'
  BY <1>1, <1>2, <1>4 DEF ClosingInv, Closed
<1>11. ImpactTypeOK'
  <2>1. FacilityImpacts(e) \subseteq FacilityRow
    <3>1. \A f \in Near : FacilityImpact(e, f) \in FacilityRow
      <4> SUFFICES ASSUME NEW f \in Near PROVE FacilityImpact(e, f) \in FacilityRow
        OBVIOUS
      <4> DEFINE cut == Distance[f] < 200
      <4>1. cut \in BOOLEAN
        OBVIOUS
      <4> HIDE DEF cut
      <4>2. [by |-> e, facility |-> f, isolated |-> cut] \in FacilityRow
        BY <4>1 DEF FacilityRow, Near
      <4> QED
        BY <4>2 DEF FacilityImpact, cut
    <3> QED
      BY <3>1 DEF FacilityImpacts
  <2>2. \A i \in tripImpacts' : IsImpact(i)'
    BY <1>1, <1>3 DEF ImpactTypeOK, IsImpact
  <2>3. \A f \in Events : evaluation'[f].pc \in {"published", "assessing", "handled"}
    BY <1>2 DEF ImpactTypeOK
  <2>4. FacilityRow' = FacilityRow
    BY DEF FacilityRow
  <2> QED
    BY <1>1, <2>1, <2>2, <2>3, <2>4 DEF ImpactTypeOK
<1>12. EveryTripIsWarned'
  <2> SUFFICES ASSUME NEW f \in Events, Judged(f)', NEW r \in short[f], ~WasBeyond(f, r[1])
               PROVE  \E i \in tripImpacts' : i.by = f /\ Warns(i, r[1])
    BY <1>1 DEF EveryTripIsWarned, Warns, WasBeyond
  <2>1. CASE f = e
    <3>1. r[1] \in Trips /\ WasShort(e, r[1])
      BY <2>1 DEF PlaceInv, WasShort
    <3> QED
      BY <1>1, <1>3, <2>1, <3>1
  <2>2. CASE f # e
    BY <1>1, <1>2, <2>2 DEF EveryTripIsWarned, Judged, Warns, WasBeyond
  <2> QED
    BY <2>1, <2>2
<1>13. NobodyIsTurnedBack'
  BY <1>1, <1>3 DEF NobodyIsTurnedBack, WasShort
<1>14. OneImpactPerEvent'
  BY <1>1, <1>3 DEF OneImpactPerEvent
<1>15. ClosingsCloseAnImpact'
  BY <1>1, <1>3 DEF ClosingsCloseAnImpact, Closed
<1> QED
  BY <1>5, <1>6, <1>7, <1>8, <1>9, <1>10, <1>11, <1>12, <1>13, <1>14, <1>15

\* The rollback of a handler.
LEMMA EvaluationFails ==
  ASSUME ImpactInv, NEW e \in Events, FailEvaluation(e)
  PROVE  ImpactInv'
<1> USE DEF ImpactInv, ImpactsAreSound
<1>1. /\ Handling(e)
      /\ UNCHANGED <<trip, position, tripImpacts, facImpacts, short, cleared>>
      /\ DOMAIN evaluation' = Events
      /\ evaluation'[e] = [pc |-> "published"]
      /\ \A f \in Events : f # e => evaluation'[f] = evaluation[f]
  BY DEF FailEvaluation, HandlerInv, Handling
<1>2. ~Handling(e)' /\ \A f \in Events : f # e => (Handling(f)' <=> Handling(f))
  BY <1>1 DEF Handling
<1>3. HandlerInv'
  BY <1>1, <1>2 DEF HandlerInv
<1>4. TripsInv'
  BY <1>1, <1>2 DEF TripsInv
<1>5. OwnInv'
  BY <1>1 DEF OwnInv, Handling
<1>6. PlaceInv'
  BY <1>1, <1>2 DEF PlaceInv, WasShort, WasBeyond, IsAhead
<1>10. CoverInv' /\ ClosingInv'
  BY <1>1, <1>2 DEF CoverInv, ClosingInv, WasShort, WasBeyond
<1>7. ImpactTypeOK'
  BY <1>1 DEF ImpactTypeOK
<1>8. EveryTripIsWarned'
  BY <1>1 DEF EveryTripIsWarned, Judged
<1>9. NobodyIsTurnedBack' /\ OneImpactPerEvent' /\ ClosingsCloseAnImpact'
  BY <1>1 DEF NobodyIsTurnedBack, OneImpactPerEvent, ClosingsCloseAnImpact
<1> QED
  BY <1>3, <1>4, <1>5, <1>6, <1>7, <1>8, <1>9, <1>10

\* A vehicle moves on.
LEMMA VehicleMoves ==
  ASSUME ImpactInv, NEW t \in Trips, Advance(t)
  PROVE  ImpactInv'
<1> USE DEF ImpactInv, ImpactsAreSound
<1>1. /\ UNCHANGED <<trip, tripImpacts, facImpacts, evaluation>>
      /\ DOMAIN short' = Events /\ DOMAIN cleared' = Events
      /\ \A e \in Events : Handling(e)' <=> Handling(e)
      /\ \A e \in Events : ~Handling(e) => short'[e] = short[e] /\ cleared'[e] = cleared[e]
  BY DEF Advance, Handling
<1>2. PICK place \in Places :
        /\ position' = [position EXCEPT ![t] = place]
        /\ \A e \in Events : Handling(e) =>
             /\ short'[e] = short[e] \union {r \in short[e] \union cleared[e] :
                                              r[1] = t /\ IsAhead(place, r[2]) = FALSE}
             /\ cleared'[e] = cleared[e] \union {r \in short[e] \union cleared[e] :
                                                  r[1] = t /\ IsAhead(place, r[2]) = TRUE}
  BY DEF Advance, Handling
<1>3. \A e \in Events : /\ short[e] \subseteq short'[e] /\ cleared[e] \subseteq cleared'[e]
                        /\ short'[e] \union cleared'[e] = short[e] \union cleared[e]
  BY <1>1, <1>2
<1>4. HandlerInv' /\ TripsInv' /\ OwnInv' /\ ClosingInv'
  BY <1>1 DEF HandlerInv, TripsInv, OwnInv, ClosingInv, Handling
<1>5. \A e \in Events : \A s : /\ WasShort(e, s) => WasShort(e, s)'
                              /\ WasBeyond(e, s) => WasBeyond(e, s)'
  BY <1>3 DEF WasShort, WasBeyond
<1>6. PlaceInv'
  <2>1. \A e \in Events : /\ short'[e] \subseteq Trips \X Through
                          /\ cleared'[e] \subseteq Trips \X Through
    BY <1>3 DEF PlaceInv
  <2>2. ASSUME NEW e \in Events, Handling(e), NEW r \in short[e] \union cleared[e]
        PROVE  r \in IF IsAhead(position'[r[1]], r[2]) THEN cleared'[e] ELSE short'[e]
    <3>1. CASE r[1] = t
      <4>1. position'[t] = place
        BY <1>2 DEF ImpactTypeOK
      <4> QED
        BY <1>2, <2>2, <3>1, <4>1 DEF IsAhead
    <3>2. CASE r[1] # t
      <4>1. position'[r[1]] = position[r[1]]
        BY <1>2, <3>2 DEF ImpactTypeOK
      <4>2. r \in IF IsAhead(position[r[1]], r[2]) THEN cleared[e] ELSE short[e]
        BY <2>2 DEF PlaceInv
      <4> QED
        BY <1>3, <4>1, <4>2
    <3> QED
      BY <3>1, <3>2
  <2>3. ASSUME NEW e \in Events, Handling(e)
        PROVE  /\ evaluation[e].left \subseteq short'[e] \union cleared'[e]
               /\ \A a \in evaluation[e].at :
                    IF a.ahead THEN WasBeyond(e, a.trip)' ELSE WasShort(e, a.trip)'
               /\ \A i \in evaluation[e].drafts : i.isActive => WasShort(e, i.trip)'
    <3>1. /\ evaluation[e].left \subseteq short[e] \union cleared[e]
          /\ \A a \in evaluation[e].at : IF a.ahead THEN WasBeyond(e, a.trip) ELSE WasShort(e, a.trip)
          /\ \A i \in evaluation[e].drafts : i.isActive => WasShort(e, i.trip)
      BY <2>3 DEF PlaceInv
    <3>2. \A s : (WasShort(e, s) => WasShort(e, s)') /\ (WasBeyond(e, s) => WasBeyond(e, s)')
      BY <1>3 DEF WasShort, WasBeyond
    <3> QED
      BY <1>3, <3>1, <3>2
  <2> QED
    BY <1>1, <1>3, <2>1, <2>2, <2>3 DEF PlaceInv, IsAhead, WasShort, WasBeyond
<1>7. CoverInv'
  <2>1. \A e \in Events : Handling(e) => \A s \in Trips : WasShort(e, s)' => WasShort(e, s) \/ WasBeyond(e, s)
    BY <1>3 DEF WasShort, WasBeyond
  <2> QED
    BY <1>1, <1>5, <2>1 DEF CoverInv, Warns
<1>8. ImpactTypeOK'
  BY <1>1, <1>2 DEF ImpactTypeOK, IsImpact
<1>9. EveryTripIsWarned'
  BY <1>1 DEF EveryTripIsWarned, Judged, Handling
<1>10. NobodyIsTurnedBack'
  BY <1>1, <1>3 DEF NobodyIsTurnedBack, ImpactTypeOK, IsImpact
<1>11. OneImpactPerEvent' /\ ClosingsCloseAnImpact'
  BY <1>1 DEF OneImpactPerEvent, ClosingsCloseAnImpact
<1> QED
  BY <1>4, <1>6, <1>7, <1>8, <1>9, <1>10, <1>11

\* A trip leaves, ends, or is rerouted; or nothing happens.
LEMMA TripChanges ==
  ASSUME ImpactInv,
         (\E t \in Trips : ChangeTrip(t)) \/ UNCHANGED impactVars
  PROVE  ImpactInv'
<1> USE DEF ImpactInv, ImpactsAreSound
<1>1. UNCHANGED <<position, tripImpacts, facImpacts, evaluation, short, cleared>>
  BY DEF ChangeTrip, impactVars
<1>2. /\ DOMAIN trip' = Trips
      /\ \A t \in Trips : /\ trip'[t].status \in {"DISPATCHED", "IN_TRANSIT", "COMPLETED"}
                          /\ trip'[t].snapshot \in PlansOf[t] \union {NoPlan}
  <2>1. CASE UNCHANGED trip
    BY <2>1 DEF ImpactTypeOK, PlaceInv
  <2>2. ASSUME NEW t \in Trips, ChangeTrip(t) PROVE <1>2!1 /\ <1>2!2
    <3>1. \/ trip[t].status = "DISPATCHED" /\ trip' = [trip EXCEPT ![t].status = "IN_TRANSIT"]
          \/ trip[t].status = "IN_TRANSIT" /\ trip' = [trip EXCEPT ![t].status = "COMPLETED"]
          \/ \E p \in PlansOf[t] : trip' = [trip EXCEPT ![t].snapshot = p]
      BY <2>2 DEF ChangeTrip
    <3>2. DOMAIN trip = Trips
      BY DEF PlaceInv
    <3>3. CASE \E p \in PlansOf[t] : trip' = [trip EXCEPT ![t].snapshot = p]
      BY <3>2, <3>3 DEF ImpactTypeOK
    <3>4. CASE trip' = [trip EXCEPT ![t].status = "IN_TRANSIT"]
      BY <3>2, <3>4 DEF ImpactTypeOK
    <3>5. CASE trip' = [trip EXCEPT ![t].status = "COMPLETED"]
      BY <3>2, <3>5 DEF ImpactTypeOK
    <3> QED
      BY <3>1, <3>3, <3>4, <3>5
  <2> QED
    BY <2>1, <2>2 DEF impactVars
<1>3. HandlerInv' /\ TripsInv' /\ OwnInv' /\ ClosingInv'
  BY <1>1 DEF HandlerInv, TripsInv, OwnInv, ClosingInv, Handling
<1>6. PlaceInv' /\ CoverInv'
  BY <1>1, <1>2 DEF PlaceInv, CoverInv, WasShort, WasBeyond, IsAhead, Handling, Warns
<1>4. ImpactTypeOK'
  BY <1>1, <1>2 DEF ImpactTypeOK
<1>5. EveryTripIsWarned' /\ NobodyIsTurnedBack' /\ OneImpactPerEvent' /\ ClosingsCloseAnImpact'
  BY <1>1 DEF EveryTripIsWarned, Judged, NobodyIsTurnedBack, OneImpactPerEvent, ClosingsCloseAnImpact
<1> QED
  BY <1>3, <1>4, <1>5, <1>6

\* However its handlers overlap, fail and are retried, the evaluator warns each
\* trip that has to pass once per event, none beyond the edge all along, and closes only
\* a warning there is (EvaluateDisruptionImpactUseCase).
THEOREM EveryWarningReachesItsTrip == ImpactSpec => []ImpactsAreSound
<1>1. ImpactInv /\ [ImpactNext]_impactVars => ImpactInv'
  <2> SUFFICES ASSUME ImpactInv, [ImpactNext]_impactVars PROVE ImpactInv'
    OBVIOUS
  <2>1. ASSUME NEW e \in Events,
               \/ BeginEvaluation(e) \/ LocateVehicle(e) \/ AssessTrip(e)
               \/ CommitEvaluation(e) \/ FailEvaluation(e)
        PROVE  ImpactInv'
    BY <2>1, EvaluationBegins, VehicleLocated, TripAssessed, EvaluationCommits, EvaluationFails
  <2>2. ASSUME NEW t \in Trips, Advance(t) \/ ChangeTrip(t) PROVE ImpactInv'
    BY <2>2, VehicleMoves, TripChanges
  <2>3. CASE UNCHANGED impactVars
    BY <2>3, TripChanges
  <2> QED
    BY <2>1, <2>2, <2>3 DEF ImpactNext
<1>2. ImpactInv => ImpactsAreSound
  BY DEF ImpactInv
<1> QED
  BY <1>1, <1>2, ImpactBegins, PTL DEF ImpactSpec
=============================================================================
