-------------------------- MODULE EdgeStatus_proofs --------------------------
(***************************************************************************)
(* Proofs about EdgeStatus for any edges, operators and risk passes.       *)
(*                                                                         *)
(* The inductive invariant IInv says who may hold flushed rows (only the   *)
(* holder of the network_versions lock), what its private counter is worth *)
(* and what an unstale transaction knows of the rows it is about to write. *)
(***************************************************************************)
EXTENDS EdgeStatus, RiskFeatures, PublicAccess, DispatchPlanning,
        Traversability, HazardDetection, FacilityReach, HazardZones,
        FiniteSetTheorems, SequenceTheorems, WellFoundedInduction, TLAPS

Live(t) == pc[t] \notin {"idle", "committed", "aborted"}
Working(t) == pc[t] \in {"assessed", "read", "baseline"}

\* Flushed, uncommitted rows exist only under the lock.
LockInv ==
    /\ lock # NoTxn => Live(lock) /\ written[lock] # {}
    /\ \A t \in Txn : Live(t) /\ written[t] # {} => lock = t
    /\ \A t \in Txn : pc[t] = "idle" => written[t] = {}

\* An edge is declared at most once in a transaction.
EdgeInv ==
    \A t \in Txn :
        /\ Working(t) => /\ cur[t] \in Edge
                         /\ cur[t] \notin written[t]
                         /\ cur[t] \notin todo[t]
        /\ Live(t) => todo[t] \cap written[t] = {}
        /\ pc[t] = "idle" => todo[t] = {}

\* The counter the holder sees is the committed one plus its own events.
CounterInv ==
    /\ IsFiniteSet(events)
    /\ \A x \in events : pc[x[1]] = "committed"
    /\ \A t \in Txn : Live(t) /\ written[t] # {} =>
            gdraft[t] = global + Cardinality(written[t])

\* Risk passes declare only the targets of status_for_probability.
RiskInv ==
    \A t \in RiskPass :
        /\ Working(t) => target[t][cur[t]] \in RiskTarget
        /\ \A e \in written[t] : target[t][e] \in RiskTarget

\* What a transaction has read and nobody has changed is still so.
ReadInv ==
    \A t \in Txn :
        /\ pc[t] \in {"read", "baseline"} /\ cur[t] \notin stale[t] =>
               nextv[t] = row[cur[t]].version + 1
        /\ pc[t] = "baseline" /\ cur[t] \notin stale[t] =>
               base[t] = row[cur[t]]
        /\ Live(t) => \A e \in written[t] \ stale[t] :
               draft[t][e] = [version |-> row[e].version + 1,
                              status |-> target[t][e],
                              source |-> <<t, e>>]

\* The severity comparison of a risk pass still holds where nobody interfered.
SeverityInv ==
    \A t \in RiskPass :
        /\ Working(t) /\ cur[t] \notin stale[t] =>
               Severity(target[t][cur[t]]) > Severity(row[cur[t]].status)
        /\ Live(t) => \A e \in written[t] \ stale[t] :
               Severity(target[t][e]) > Severity(row[e].status)

IInv ==
    /\ TypeOK
    /\ LockInv
    /\ EdgeInv
    /\ CounterInv
    /\ RiskInv
    /\ ReadInv
    /\ SeverityInv
    /\ GlobalCountsEvents
    /\ SerialProjectionRebuildable
    /\ OutboxMirrorsRiskLog

-----------------------------------------------------------------------------
\* Pairing a value with each member of a finite set keeps its size.
LEMMA PairingKeepsSize ==
    ASSUME NEW x, NEW S, IsFiniteSet(S)
    PROVE  IsFiniteSet({x} \X S) /\ Cardinality({x} \X S) = Cardinality(S)
<1> DEFINE f == [e \in S |-> <<x, e>>]
<1>1. f \in Bijection(S, {x} \X S)
  BY DEF Bijection, Injection, Surjection, IsInjective
<1>2. ExistsBijection(S, {x} \X S)
  BY <1>1 DEF ExistsBijection
<1> QED
  BY <1>2, FS_Bijection

\* The invariant holds before any declaration.
LEMMA InitEstablishes == Init => IInv
<1> SUFFICES ASSUME Init PROVE IInv
  OBVIOUS
<1>1. TypeOK
  BY TxnAssumption DEF Init, TypeOK, Row, SeedRow, AccessibilityStatus, PC, Txn, EventId, Seed
<1>2. Cardinality(events) = 0 /\ IsFiniteSet(events)
  BY FS_EmptySet DEF Init
<1>3. LockInv /\ EdgeInv /\ CounterInv /\ RiskInv /\ ReadInv /\ SeverityInv
  BY <1>2, TxnAssumption
  DEF Init, LockInv, EdgeInv, CounterInv, RiskInv, ReadInv, SeverityInv, Live,
      Working, Txn
<1>4. GlobalCountsEvents
  BY <1>2 DEF Init, GlobalCountsEvents
<1>5. SerialProjectionRebuildable
  <2> SUFFICES ASSUME NEW e \in Edge
               PROVE  /\ row[e].version = 1 + Cardinality(EventsOf(e))
                      /\ row[e].source = Seed
                      /\ row[e].status = "OPEN" /\ EventsOf(e) = {}
    BY DEF SerialProjectionRebuildable
  <2>1. EventsOf(e) = {}
    BY DEF Init, EventsOf
  <2> QED
    BY <2>1, FS_EmptySet DEF Init, SeedRow
<1>6. OutboxMirrorsRiskLog
  BY DEF Init, OutboxMirrorsRiskLog
<1> QED
  BY <1>1, <1>3, <1>4, <1>5, <1>6 DEF IInv

\* A step of a declaration keeps the types of the state.
LEMMA TypeStep ==
    ASSUME TypeOK, EdgeInv, RiskInv, [Next]_vars
    PROVE  TypeOK'
<1> USE DEF TypeOK
<1>1. ASSUME NEW t \in Txn, NEW e \in Edge, NEW s \in AccessibilityStatus,
             ReadForDeclare(t, e, s)
      PROVE  TypeOK'
  BY <1>1 DEF ReadForDeclare, tables, history, Visible, Row, PC
<1>2. ASSUME NEW t \in Txn, NEW es \in SUBSET Edge, StartPass(t, es)
      PROVE  TypeOK'
  BY <1>2 DEF StartPass, tables, history, PC
<1>3. ASSUME NEW t \in Txn, NEW e \in Edge, SkipEdge(t, e)
      PROVE  TypeOK'
  BY <1>3 DEF SkipEdge, tables, history
<1>4. ASSUME NEW t \in Txn, NEW e \in Edge, NEW s \in RiskTarget, AssessEdge(t, e, s)
      PROVE  TypeOK'
  BY <1>4 DEF AssessEdge, tables, history, RiskTarget, AccessibilityStatus, PC
<1>5. ASSUME NEW t \in Txn, ReadForRisk(t)
      PROVE  TypeOK'
  BY <1>5 DEF ReadForRisk, tables, history, Visible, Row, PC, EdgeInv, Working
<1>6. ASSUME NEW t \in Txn, LoadBaseline(t)
      PROVE  TypeOK'
  BY <1>6 DEF LoadBaseline, tables, history, Visible, PC, EdgeInv, Working
<1>7. ASSUME NEW t \in Txn, BumpAndFlush(t)
      PROVE  TypeOK'
  <2>1. cur[t] \in Edge
    BY <1>7 DEF BumpAndFlush, EdgeInv, Working
  <2>2. Flushed(t) \in Row
    BY <2>1 DEF Flushed, Visible, Row, EventId
  <2> QED
    BY <1>7, <2>1, <2>2 DEF BumpAndFlush, tables, history, PC
<1>8. ASSUME NEW t \in Txn, Commit(t)
      PROVE  TypeOK'
  <2>1. row' \in [Edge -> Row] /\ global' \in Nat /\ lock' \in Txn \cup {NoTxn}
        /\ pc' \in [Txn -> PC] /\ stale' \in [Txn -> SUBSET Edge]
        /\ contended' \subseteq Edge
    BY <1>8 DEF Commit, PC
  <2>2. events' \subseteq EventId
    BY <1>8 DEF Commit, EventId
  <2>3. outbox' \subseteq [id: RiskPass \X Edge, status: RiskTarget]
    BY <1>8 DEF Commit, RiskInv
  <2> QED
    BY <1>8, <2>1, <2>2, <2>3 DEF Commit, session
<1>9. ASSUME NEW t \in Txn, Abort(t)
      PROVE  TypeOK'
  BY <1>9 DEF Abort, tables, session, history, PC
<1>10. CASE UNCHANGED vars
  BY <1>10 DEF vars, tables, session, history
<1> QED
  BY <1>1, <1>2, <1>3, <1>4, <1>5, <1>6, <1>7, <1>8, <1>9, <1>10
  DEF Next, Begin, Advance, Served

\* Every step of a transaction other than its commit leaves the tables alone.
LEMMA LockStep ==
    ASSUME TypeOK, LockInv, EdgeInv, [Next]_vars
    PROVE  LockInv'
<1> USE DEF TypeOK, LockInv, Live
<1>1. ASSUME NEW t \in Txn, NEW e \in Edge, NEW s \in AccessibilityStatus,
             ReadForDeclare(t, e, s)
      PROVE  LockInv'
  BY <1>1, TxnAssumption DEF ReadForDeclare, Txn
<1>2. ASSUME NEW t \in Txn, NEW es \in SUBSET Edge, StartPass(t, es)
      PROVE  LockInv'
  BY <1>2, TxnAssumption DEF StartPass, Txn
<1>3. ASSUME NEW t \in Txn, NEW e \in Edge, SkipEdge(t, e)
      PROVE  LockInv'
  BY <1>3, TxnAssumption DEF SkipEdge, Txn
<1>4. ASSUME NEW t \in Txn, NEW e \in Edge, NEW s \in RiskTarget, AssessEdge(t, e, s)
      PROVE  LockInv'
  BY <1>4, TxnAssumption DEF AssessEdge, Txn
<1>5. ASSUME NEW t \in Txn, ReadForRisk(t)
      PROVE  LockInv'
  BY <1>5, TxnAssumption DEF ReadForRisk, Txn
<1>6. ASSUME NEW t \in Txn, LoadBaseline(t)
      PROVE  LockInv'
  BY <1>6, TxnAssumption DEF LoadBaseline, Txn
<1>7. ASSUME NEW t \in Txn, BumpAndFlush(t)
      PROVE  LockInv'
  BY <1>7, TxnAssumption DEF BumpAndFlush, Txn
<1>8. ASSUME NEW t \in Txn, Commit(t)
      PROVE  LockInv'
  BY <1>8, TxnAssumption DEF Commit, session, Txn
<1>9. ASSUME NEW t \in Txn, Abort(t)
      PROVE  LockInv'
  BY <1>9, TxnAssumption DEF Abort, session, Txn
<1>10. CASE UNCHANGED vars
  BY <1>10 DEF vars, session
<1> QED
  BY <1>1, <1>2, <1>3, <1>4, <1>5, <1>6, <1>7, <1>8, <1>9, <1>10
  DEF Next, Begin, Advance, Served

\* A transaction declares an edge at most once.
LEMMA EdgeStep ==
    ASSUME TypeOK, LockInv, EdgeInv, [Next]_vars
    PROVE  EdgeInv'
<1> USE DEF TypeOK, LockInv, EdgeInv, Live, Working
<1>1. ASSUME NEW t \in Txn, NEW e \in Edge, NEW s \in AccessibilityStatus,
             ReadForDeclare(t, e, s)
      PROVE  EdgeInv'
  BY <1>1 DEF ReadForDeclare
<1>2. ASSUME NEW t \in Txn, NEW es \in SUBSET Edge, StartPass(t, es)
      PROVE  EdgeInv'
  BY <1>2 DEF StartPass
<1>3. ASSUME NEW t \in Txn, NEW e \in Edge, SkipEdge(t, e)
      PROVE  EdgeInv'
  BY <1>3 DEF SkipEdge
<1>4. ASSUME NEW t \in Txn, NEW e \in Edge, NEW s \in RiskTarget, AssessEdge(t, e, s)
      PROVE  EdgeInv'
  BY <1>4 DEF AssessEdge
<1>5. ASSUME NEW t \in Txn, ReadForRisk(t)
      PROVE  EdgeInv'
  BY <1>5 DEF ReadForRisk
<1>6. ASSUME NEW t \in Txn, LoadBaseline(t)
      PROVE  EdgeInv'
  BY <1>6 DEF LoadBaseline
<1>7. ASSUME NEW t \in Txn, BumpAndFlush(t)
      PROVE  EdgeInv'
  BY <1>7 DEF BumpAndFlush
<1>8. ASSUME NEW t \in Txn, Commit(t)
      PROVE  EdgeInv'
  BY <1>8 DEF Commit, session
<1>9. ASSUME NEW t \in Txn, Abort(t)
      PROVE  EdgeInv'
  BY <1>9 DEF Abort, session
<1>10. CASE UNCHANGED vars
  BY <1>10 DEF vars, session
<1> QED
  BY <1>1, <1>2, <1>3, <1>4, <1>5, <1>6, <1>7, <1>8, <1>9, <1>10
  DEF Next, Begin, Advance, Served

\* A commit adds its events to a log that had none of them, and the counter it
\* publishes has counted exactly these.
LEMMA CommitCounts ==
    ASSUME TypeOK, LockInv, CounterInv, GlobalCountsEvents,
           NEW t \in Txn, Commit(t)
    PROVE  /\ IsFiniteSet(events')
           /\ global' = 1 + Cardinality(events')
           /\ global' >= global
           /\ written[t] # {} => global' > global
<1> DEFINE new == {t} \X written[t]
<1>1. IsFiniteSet(written[t]) /\ Cardinality(written[t]) \in Nat
  BY TxnAssumption, FS_Subset, FS_CardinalityType DEF TypeOK
<1>2. IsFiniteSet(new) /\ Cardinality(new) = Cardinality(written[t])
  BY <1>1, PairingKeepsSize
<1>3. events \cap new = {}
  BY DEF Commit, CounterInv
<1>4. /\ IsFiniteSet(events \cup new)
      /\ Cardinality(events \cup new) = Cardinality(events) + Cardinality(new)
  <2>1. Cardinality(events) \in Nat
    BY FS_CardinalityType DEF CounterInv
  <2>2. IsFiniteSet(events)
    BY DEF CounterInv
  <2>3. /\ IsFiniteSet(events \cup new)
        /\ Cardinality(events \cup new) =
              Cardinality(events) + Cardinality(new) - Cardinality(events \cap new)
    BY <1>2, <2>2, FS_Union
  <2>4. Cardinality(events \cap new) = 0
    BY <1>3, FS_EmptySet
  <2> HIDE DEF new
  <2> QED
    BY <1>1, <1>2, <2>1, <2>3, <2>4
<1>5. events' = events \cup new
  BY DEF Commit
<1>6. written[t] # {} => Cardinality(written[t]) > 0
  BY <1>1, FS_EmptySet
<1>7. written[t] = {} => Cardinality(written[t]) = 0
  BY FS_EmptySet
<1>8. global' = global + Cardinality(written[t])
  <2>1. global' = IF written[t] = {} THEN global ELSE gdraft[t]
    BY DEF Commit
  <2>2. written[t] # {} => gdraft[t] = global + Cardinality(written[t])
    BY DEF Commit, CounterInv, Live
  <2> QED
    BY <1>7, <2>1, <2>2 DEF TypeOK
<1> QED
  BY <1>1, <1>2, <1>4, <1>5, <1>6, <1>8, FS_CardinalityType
  DEF GlobalCountsEvents, TypeOK, CounterInv

\* Steps that publish nothing keep the published part of a state formula.
LEMMA OnlyCommitPublishes ==
    ASSUME [Next]_vars,
           ~ \E t \in Txn : Commit(t)
    PROVE  UNCHANGED <<tables, history>>
  BY DEF Next, Begin, Advance, Served, ReadForDeclare, StartPass, SkipEdge,
         AssessEdge, ReadForRisk, LoadBaseline, BumpAndFlush, Abort, vars

\* The network version keeps counting the committed declarations.
LEMMA GlobalStep ==
    ASSUME TypeOK, LockInv, CounterInv, GlobalCountsEvents, [Next]_vars
    PROVE  GlobalCountsEvents'
<1>1. CASE \E t \in Txn : Commit(t)
  BY <1>1, CommitCounts DEF GlobalCountsEvents
<1>2. CASE ~ \E t \in Txn : Commit(t)
  BY <1>2, OnlyCommitPublishes DEF tables, GlobalCountsEvents
<1> QED
  BY <1>1, <1>2

\* The counter a transaction sees stays the committed one plus its own events.
LEMMA CounterStep ==
    ASSUME TypeOK, LockInv, EdgeInv, CounterInv, GlobalCountsEvents, [Next]_vars
    PROVE  CounterInv'
<1> USE DEF TypeOK, LockInv, CounterInv, Live
<1>1. ASSUME NEW t \in Txn, NEW e \in Edge, NEW s \in AccessibilityStatus,
             ReadForDeclare(t, e, s)
      PROVE  CounterInv'
  BY <1>1 DEF ReadForDeclare, tables, EventId
<1>2. ASSUME NEW t \in Txn, NEW es \in SUBSET Edge, StartPass(t, es)
      PROVE  CounterInv'
  BY <1>2 DEF StartPass, tables, EventId
<1>3. ASSUME NEW t \in Txn, NEW e \in Edge, SkipEdge(t, e)
      PROVE  CounterInv'
  BY <1>3 DEF SkipEdge, tables, EventId
<1>4. ASSUME NEW t \in Txn, NEW e \in Edge, NEW s \in RiskTarget, AssessEdge(t, e, s)
      PROVE  CounterInv'
  BY <1>4 DEF AssessEdge, tables, EventId
<1>5. ASSUME NEW t \in Txn, ReadForRisk(t)
      PROVE  CounterInv'
  BY <1>5 DEF ReadForRisk, tables, EventId
<1>6. ASSUME NEW t \in Txn, LoadBaseline(t)
      PROVE  CounterInv'
  BY <1>6 DEF LoadBaseline, tables, EventId
<1>7. ASSUME NEW t \in Txn, BumpAndFlush(t)
      PROVE  CounterInv'
  <2>1. IsFiniteSet(written[t]) /\ Cardinality(written[t]) \in Nat
    BY TxnAssumption, FS_Subset, FS_CardinalityType
  <2>2. cur[t] \notin written[t]
    BY <1>7 DEF BumpAndFlush, EdgeInv, Working
  <2>3. Cardinality(written'[t]) = Cardinality(written[t]) + 1
    <3>1. written'[t] = written[t] \cup {cur[t]}
      BY <1>7 DEF BumpAndFlush
    <3>2. Cardinality(written[t] \cup {cur[t]}) = Cardinality(written[t]) + 1
      BY ONLY <2>1, <2>2, FS_AddElement
    <3> QED
      BY <3>1, <3>2
  <2>4. lock = NoTxn => Cardinality(written[t]) = 0
    <3>1. pc[t] = "baseline"
      BY <1>7 DEF BumpAndFlush
    <3>2. lock = NoTxn => written[t] = {}
      BY <3>1, TxnAssumption DEF Txn
    <3> QED
      BY <3>2, FS_EmptySet
  <2>5. gdraft'[t] = global + Cardinality(written'[t])
    <3>1. gdraft'[t] = (IF lock = t THEN gdraft[t] ELSE global) + 1
      BY <1>7 DEF BumpAndFlush
    <3>2. lock = t => gdraft[t] = global + Cardinality(written[t])
      BY TxnAssumption DEF Txn
    <3>3. lock # t => lock = NoTxn
      BY <1>7 DEF BumpAndFlush
    <3> QED
      BY <2>1, <2>3, <2>4, <3>1, <3>2, <3>3
  <2>6. \A u \in Txn : u # t /\ Live(u)' => written'[u] = {}
    BY <1>7, TxnAssumption DEF BumpAndFlush, Txn
  <2>7. \A x \in events : pc'[x[1]] = "committed"
    BY <1>7 DEF BumpAndFlush, EventId
  <2> QED
    BY <1>7, <2>5, <2>6, <2>7 DEF BumpAndFlush, tables
<1>8. ASSUME NEW t \in Txn, Commit(t)
      PROVE  CounterInv'
  <2>1. IsFiniteSet(events')
    BY <1>8, CommitCounts
  <2>2. \A x \in events' : pc'[x[1]] = "committed"
    BY <1>8 DEF Commit, EventId
  <2>3. ASSUME NEW u \in Txn, Live(u)', written'[u] # {}
        PROVE  gdraft'[u] = global' + Cardinality(written'[u])
    BY <1>8, <2>3, TxnAssumption DEF Commit, session, Txn
  <2> QED
    BY <2>1, <2>2, <2>3
<1>9. ASSUME NEW t \in Txn, Abort(t)
      PROVE  CounterInv'
  BY <1>9 DEF Abort, session, tables, EventId
<1>10. CASE UNCHANGED vars
  BY <1>10 DEF vars, session, tables
<1> QED
  BY <1>1, <1>2, <1>3, <1>4, <1>5, <1>6, <1>7, <1>8, <1>9, <1>10
  DEF Next, Begin, Advance, Served

\* A risk pass goes on declaring only worse statuses.
LEMMA RiskStep ==
    ASSUME TypeOK, LockInv, EdgeInv, RiskInv, [Next]_vars
    PROVE  RiskInv'
<1> USE DEF TypeOK, LockInv, EdgeInv, RiskInv, Live, Working
<1>1. ASSUME NEW t \in Txn, NEW e \in Edge, NEW s \in AccessibilityStatus,
             ReadForDeclare(t, e, s)
      PROVE  RiskInv'
  BY <1>1, TxnAssumption DEF ReadForDeclare, Txn
<1>2. ASSUME NEW t \in Txn, NEW es \in SUBSET Edge, StartPass(t, es)
      PROVE  RiskInv'
  BY <1>2 DEF StartPass
<1>3. ASSUME NEW t \in Txn, NEW e \in Edge, SkipEdge(t, e)
      PROVE  RiskInv'
  BY <1>3 DEF SkipEdge
<1>4. ASSUME NEW t \in Txn, NEW e \in Edge, NEW s \in RiskTarget,
             AssessEdge(t, e, s)
      PROVE  RiskInv'
  BY <1>4 DEF AssessEdge, Txn
<1>5. ASSUME NEW t \in Txn, ReadForRisk(t)
      PROVE  RiskInv'
  BY <1>5 DEF ReadForRisk
<1>6. ASSUME NEW t \in Txn, LoadBaseline(t)
      PROVE  RiskInv'
  BY <1>6 DEF LoadBaseline
<1>7. ASSUME NEW t \in Txn, BumpAndFlush(t)
      PROVE  RiskInv'
  BY <1>7 DEF BumpAndFlush, Txn
<1>8. ASSUME NEW t \in Txn, Commit(t)
      PROVE  RiskInv'
  BY <1>8 DEF Commit, session
<1>9. ASSUME NEW t \in Txn, Abort(t)
      PROVE  RiskInv'
  BY <1>9 DEF Abort, session
<1>10. CASE UNCHANGED vars
  BY <1>10 DEF vars, tables, session, history
<1> QED
  BY <1>1, <1>2, <1>3, <1>4, <1>5, <1>6, <1>7, <1>8, <1>9, <1>10
  DEF Next, Begin, Advance, Served

\* What a transaction read stays true of the edges nobody else declared.
LEMMA ReadStep ==
    ASSUME TypeOK, LockInv, EdgeInv, ReadInv,
           [Next]_vars
    PROVE  ReadInv'
<1> USE DEF TypeOK, LockInv, EdgeInv, ReadInv, Live, Working
<1>1. ASSUME NEW t \in Txn, NEW e \in Edge, NEW s \in AccessibilityStatus,
             ReadForDeclare(t, e, s)
      PROVE  ReadInv'
  BY <1>1 DEF ReadForDeclare, tables, history, Visible
<1>2. ASSUME NEW t \in Txn, NEW es \in SUBSET Edge, StartPass(t, es)
      PROVE  ReadInv'
  BY <1>2 DEF StartPass, tables, history, Visible
<1>3. ASSUME NEW t \in Txn, NEW e \in Edge, SkipEdge(t, e)
      PROVE  ReadInv'
  BY <1>3 DEF SkipEdge, tables, history, Visible
<1>4. ASSUME NEW t \in Txn, NEW e \in Edge, NEW s \in RiskTarget,
             AssessEdge(t, e, s)
      PROVE  ReadInv'
  BY <1>4 DEF AssessEdge, tables, history, Visible
<1>5. ASSUME NEW t \in Txn, ReadForRisk(t)
      PROVE  ReadInv'
  BY <1>5 DEF ReadForRisk, tables, history, Visible
<1>6. ASSUME NEW t \in Txn, LoadBaseline(t)
      PROVE  ReadInv'
  BY <1>6 DEF LoadBaseline, tables, history, Visible
<1>7. ASSUME NEW t \in Txn, BumpAndFlush(t)
      PROVE  ReadInv'
  <2>1. cur[t] \in Edge /\ cur[t] \notin written[t]
    BY <1>7 DEF BumpAndFlush
  <2>2. cur[t] \notin stale[t] =>
           Flushed(t) = [version |-> row[cur[t]].version + 1,
                         status |-> target[t][cur[t]],
                         source |-> <<t, cur[t]>>]
    BY <1>7, <2>1 DEF BumpAndFlush, Flushed, Visible, Row
  <2>3. draft'[t][cur[t]] = Flushed(t)
    BY <1>7, <2>1 DEF BumpAndFlush
  <2>4. ASSUME NEW e \in written'[t] \ stale[t]
        PROVE  draft'[t][e] = [version |-> row[e].version + 1,
                               status |-> target[t][e],
                               source |-> <<t, e>>]
    BY <1>7, <2>1, <2>2, <2>3, <2>4 DEF BumpAndFlush
  <2> QED
    BY <1>7, <2>4 DEF BumpAndFlush, tables, history
<1>8. ASSUME NEW t \in Txn, Commit(t)
      PROVE  ReadInv'
  <2>1. ASSUME NEW u \in Txn, pc'[u] \in {"read", "baseline"}, cur'[u] \notin stale'[u]
        PROVE  row'[cur[u]] = row[cur[u]] /\ cur[u] \in Edge
    BY <1>8, <2>1 DEF Commit, session, Reading
  <2>2. ASSUME NEW u \in Txn, Live(u)', NEW e \in written'[u]
        PROVE  row' = row
    BY <1>8, <2>2, TxnAssumption DEF Commit, session, Txn
  <2>3. ASSUME NEW u \in Txn
        PROVE  stale[u] \subseteq stale'[u]
    BY <1>8 DEF Commit
  <2>4. ASSUME NEW u \in Txn, pc'[u] \in {"read", "baseline"}, cur'[u] \notin stale'[u]
        PROVE  pc[u] = pc'[u] /\ cur[u] = cur'[u] /\ cur[u] \notin stale[u]
    BY <1>8, <2>3, <2>4 DEF Commit, session
  <2>5. UNCHANGED <<nextv, base, draft, target, written>>
    BY <1>8 DEF Commit, session
  <2>6. ASSUME NEW u \in Txn, Live(u)'
        PROVE  Live(u)
    BY <1>8, <2>6 DEF Commit
  <2>7. ASSUME NEW u \in Txn, pc'[u] \in {"read", "baseline"}, cur'[u] \notin stale'[u]
        PROVE  /\ nextv'[u] = row'[cur'[u]].version + 1
               /\ pc'[u] = "baseline" => base'[u] = row'[cur'[u]]
    BY <2>1, <2>4, <2>5, <2>7
  <2>8. ASSUME NEW u \in Txn, Live(u)', NEW e \in written'[u] \ stale'[u]
        PROVE  draft'[u][e] = [version |-> row'[e].version + 1,
                               status |-> target'[u][e],
                               source |-> <<u, e>>]
    BY <2>2, <2>3, <2>5, <2>6, <2>8
  <2> QED
    BY <2>7, <2>8
<1>9. ASSUME NEW t \in Txn, Abort(t)
      PROVE  ReadInv'
  BY <1>9 DEF Abort, tables, session, history
<1>10. CASE UNCHANGED vars
  BY <1>10 DEF vars, tables, session, history
<1> QED
  BY <1>1, <1>2, <1>3, <1>4, <1>5, <1>6, <1>7, <1>8, <1>9, <1>10
  DEF Next, Begin, Advance, Served

\* So does what it found out about the severity.
LEMMA SeverityStep ==
    ASSUME TypeOK, LockInv, EdgeInv, SeverityInv,
           [Next]_vars
    PROVE  SeverityInv'
<1> USE DEF TypeOK, LockInv, EdgeInv, SeverityInv, Live, Working
<1>1. ASSUME NEW t \in Txn, NEW e \in Edge, NEW s \in AccessibilityStatus,
             ReadForDeclare(t, e, s)
      PROVE  SeverityInv'
  BY <1>1, TxnAssumption DEF ReadForDeclare, tables, history, Visible, Txn
<1>2. ASSUME NEW t \in Txn, NEW es \in SUBSET Edge, StartPass(t, es)
      PROVE  SeverityInv'
  BY <1>2 DEF StartPass, tables, history, Visible, Txn
<1>3. ASSUME NEW t \in Txn, NEW e \in Edge, SkipEdge(t, e)
      PROVE  SeverityInv'
  BY <1>3 DEF SkipEdge, tables, history, Visible, Txn
<1>4. ASSUME NEW t \in Txn, NEW e \in Edge, NEW s \in RiskTarget,
             AssessEdge(t, e, s)
      PROVE  SeverityInv'
  BY <1>4 DEF AssessEdge, tables, history, Visible, Txn
<1>5. ASSUME NEW t \in Txn, ReadForRisk(t)
      PROVE  SeverityInv'
  BY <1>5 DEF ReadForRisk, tables, history, Visible, Txn
<1>6. ASSUME NEW t \in Txn, LoadBaseline(t)
      PROVE  SeverityInv'
  BY <1>6 DEF LoadBaseline, tables, history, Visible, Txn
<1>7. ASSUME NEW t \in Txn, BumpAndFlush(t)
      PROVE  SeverityInv'
  BY <1>7 DEF BumpAndFlush, tables, history, Visible, Txn
<1>8. ASSUME NEW t \in Txn, Commit(t)
      PROVE  SeverityInv'
  <2>1. ASSUME NEW u \in RiskPass, Working(u)', cur'[u] \notin stale'[u]
        PROVE  /\ row'[cur'[u]] = row[cur[u]]
               /\ Working(u) /\ cur[u] \notin stale[u] /\ cur'[u] = cur[u]
    BY <1>8, <2>1 DEF Commit, session, Reading, Txn
  <2>2. ASSUME NEW u \in RiskPass, Live(u)', NEW e \in written'[u] \ stale'[u]
        PROVE  row' = row /\ Live(u) /\ e \in written[u] \ stale[u]
    BY <1>8, <2>2, TxnAssumption DEF Commit, session, Txn
  <2>3. target' = target
    BY <1>8 DEF Commit, session
  <2> QED
    BY <2>1, <2>2, <2>3
<1>9. ASSUME NEW t \in Txn, Abort(t)
      PROVE  SeverityInv'
  BY <1>9 DEF Abort, tables, session, history, Txn
<1>10. CASE UNCHANGED vars
  BY <1>10 DEF vars, tables, session, history
<1> QED
  BY <1>1, <1>2, <1>3, <1>4, <1>5, <1>6, <1>7, <1>8, <1>9, <1>10
  DEF Next, Begin, Advance, Served

\* What a committed transaction declared stays what it declared.
LEMMA CommittedIsFinal ==
    ASSUME TypeOK, [Next]_vars, NEW u \in Txn, pc[u] = "committed"
    PROVE  target'[u] = target[u]
  BY DEF TypeOK, Next, Begin, Advance, Served, ReadForDeclare, StartPass,
         SkipEdge, AssessEdge, ReadForRisk, LoadBaseline, BumpAndFlush, Commit,
         Abort, vars, session

\* What a commit does to the log of one edge.
LEMMA CommitLogsEdge ==
    ASSUME TypeOK, CounterInv, NEW t \in Txn, Commit(t), NEW e \in Edge
    PROVE  /\ IsFiniteSet(EventsOf(e))
           /\ e \in written[t] =>
                 /\ EventsOf(e)' = EventsOf(e) \cup {<<t, e>>}
                 /\ Cardinality(EventsOf(e)') = Cardinality(EventsOf(e)) + 1
           /\ e \notin written[t] => EventsOf(e)' = EventsOf(e)
<1>1. IsFiniteSet(EventsOf(e))
  <2>1. EventsOf(e) \subseteq events /\ IsFiniteSet(events)
    BY DEF EventsOf, CounterInv
  <2> QED
    BY ONLY <2>1, FS_Subset
<1>2. <<t, e>> \notin EventsOf(e)
  BY DEF EventsOf, CounterInv, Commit
<1>3. events' = events \cup ({t} \X written[t])
  BY DEF Commit
<1>4. e \in written[t] => EventsOf(e)' = EventsOf(e) \cup {<<t, e>>}
  BY <1>3 DEF EventsOf, TypeOK
<1>5. e \notin written[t] => EventsOf(e)' = EventsOf(e)
  BY <1>3 DEF EventsOf, TypeOK
<1>6. Cardinality(EventsOf(e) \cup {<<t, e>>}) = Cardinality(EventsOf(e)) + 1
  BY ONLY <1>1, <1>2, FS_AddElement
<1> QED
  BY <1>1, <1>4, <1>5, <1>6

\* The projection of an edge stays what its log says.
LEMMA SerialStep ==
    ASSUME TypeOK, LockInv, EdgeInv, CounterInv, ReadInv,
           SerialProjectionRebuildable, [Next]_vars
    PROVE  SerialProjectionRebuildable'
<1>1. ASSUME NEW e \in Edge, row[e].source # Seed, row[e].source \in EventsOf(e)
      PROVE  target'[row[e].source[1]] = target[row[e].source[1]]
  <2>1. row[e].source \in Txn \X Edge
    BY <1>1 DEF TypeOK, Row, EventId
  <2>2. row[e].source[1] \in Txn /\ pc[row[e].source[1]] = "committed"
    BY <1>1, <2>1 DEF EventsOf, CounterInv
  <2> QED
    BY <2>2, CommittedIsFinal
<1>2. CASE ~ \E t \in Txn : Commit(t)
  <2>1. row' = row /\ events' = events /\ contended' = contended
    BY <1>2, OnlyCommitPublishes DEF tables, history
  <2>2. \A e \in Edge : EventsOf(e)' = EventsOf(e)
    BY <2>1 DEF EventsOf
  <2> QED
    BY <1>1, <2>1, <2>2 DEF SerialProjectionRebuildable
<1>3. ASSUME NEW t \in Txn, Commit(t)
      PROVE  SerialProjectionRebuildable'
  <2> SUFFICES ASSUME NEW e \in Edge, e \notin contended'
               PROVE  /\ row'[e].version = 1 + Cardinality(EventsOf(e)')
                      /\ row'[e].source = Seed =>
                            row'[e].status = "OPEN" /\ EventsOf(e)' = {}
                      /\ row'[e].source # Seed =>
                            /\ row'[e].source \in EventsOf(e)'
                            /\ row'[e].status = target'[row'[e].source[1]][e]
    BY DEF SerialProjectionRebuildable
  <2>1. e \notin contended /\ target' = target
    BY <1>3 DEF Commit, session
  <2>2. row'[e] = IF e \in written[t] THEN draft[t][e] ELSE row[e]
    BY <1>3 DEF Commit
  <2>3. /\ row[e].version = 1 + Cardinality(EventsOf(e))
        /\ row[e].source = Seed => row[e].status = "OPEN" /\ EventsOf(e) = {}
        /\ row[e].source # Seed =>
              /\ row[e].source \in EventsOf(e)
              /\ row[e].status = target[row[e].source[1]][e]
    BY <2>1 DEF SerialProjectionRebuildable
  <2>4. CASE e \notin written[t]
    BY <1>3, <2>1, <2>2, <2>3, <2>4, CommitLogsEdge
  <2>5. CASE e \in written[t]
    <3>1. e \notin stale[t] /\ Live(t)
      BY <1>3, <2>5 DEF Commit, Live
    <3>2. row'[e] = [version |-> row[e].version + 1, status |-> target[t][e],
                     source |-> <<t, e>>]
      BY <2>2, <2>5, <3>1 DEF ReadInv
    <3>3. <<t, e>> # Seed
      BY TxnAssumption DEF Seed, Txn
    <3>4. /\ EventsOf(e)' = EventsOf(e) \cup {<<t, e>>}
          /\ Cardinality(EventsOf(e)') = Cardinality(EventsOf(e)) + 1
      BY <1>3, <2>5, CommitLogsEdge
    <3>5. Cardinality(EventsOf(e)) \in Nat
      BY <1>3, CommitLogsEdge, FS_CardinalityType
    <3> QED
      BY <2>1, <2>3, <3>2, <3>3, <3>4, <3>5
  <2> QED
    BY <2>4, <2>5
<1> QED
  BY <1>2, <1>3

\* The outbox and the log of the risk worker stay the same set.
LEMMA OutboxStep ==
    ASSUME TypeOK, OutboxMirrorsRiskLog, [Next]_vars
    PROVE  OutboxMirrorsRiskLog'
<1>1. CASE ~ \E t \in Txn : Commit(t)
  BY <1>1, OnlyCommitPublishes DEF tables, OutboxMirrorsRiskLog
<1>2. ASSUME NEW t \in Txn, Commit(t)
      PROVE  OutboxMirrorsRiskLog'
  <2>1. events' = events \cup ({t} \X written[t])
    BY <1>2 DEF Commit
  <2>2. written[t] \subseteq Edge
    BY DEF TypeOK
  <2>3. CASE t \in RiskPass
    <3>1. outbox' = outbox \cup
             {[id |-> <<t, e>>, status |-> target[t][e]] : e \in written[t]}
      BY <1>2, <2>3 DEF Commit
    <3>2. {o.id : o \in outbox'} = {o.id : o \in outbox} \cup ({t} \X written[t])
      <4> DEFINE New == {[id |-> <<t, e>>, status |-> target[t][e]] : e \in written[t]}
      <4>1. {o.id : o \in New} = {<<t, e>> : e \in written[t]}
        <5>1. \A e \in written[t] : \E o \in New : o.id = <<t, e>>
          <6> SUFFICES ASSUME NEW e \in written[t]
                       PROVE  \E o \in New : o.id = <<t, e>>
            OBVIOUS
          <6> WITNESS [id |-> <<t, e>>, status |-> target[t][e]] \in New
          <6> QED
            OBVIOUS
        <5>2. \A o \in New : \E e \in written[t] : o.id = <<t, e>>
          OBVIOUS
        <5> HIDE DEF New
        <5> QED
          BY <5>1, <5>2
      <4>2. {<<t, e>> : e \in written[t]} = {t} \X written[t]
        OBVIOUS
      <4> HIDE DEF New
      <4>3. {o.id : o \in outbox \cup New} = {o.id : o \in outbox} \cup {o.id : o \in New}
        OBVIOUS
      <4> QED
        BY <3>1, <4>1, <4>2, <4>3 DEF New
    <3>3. events' \cap (RiskPass \X Edge)
             = (events \cap (RiskPass \X Edge)) \cup ({t} \X written[t])
      BY <2>1, <2>2, <2>3
    <3> QED
      BY <3>2, <3>3 DEF OutboxMirrorsRiskLog
  <2>4. CASE t \notin RiskPass
    <3>1. outbox' = outbox
      BY <1>2, <2>4 DEF Commit
    <3>2. events' \cap (RiskPass \X Edge) = events \cap (RiskPass \X Edge)
      BY <2>1, <2>4
    <3> QED
      BY <3>1, <3>2 DEF OutboxMirrorsRiskLog
  <2> QED
    BY <2>3, <2>4
<1> QED
  BY <1>1, <1>2

-----------------------------------------------------------------------------
\* The invariant holds in every state of the declarations.
LEMMA Inductive == Spec => []IInv
<1>1. Init => IInv
  BY InitEstablishes
<1>2. IInv /\ [Next]_vars => IInv'
  BY TypeStep, LockStep, EdgeStep, CounterStep, RiskStep, ReadStep,
     SeverityStep, GlobalStep, SerialStep, OutboxStep DEF IInv
<1> QED
  BY <1>1, <1>2, PTL DEF Spec

\* Every variable keeps to its type, whatever transactions run.
THEOREM TypeCorrect == Spec => []TypeOK
<1>1. IInv => TypeOK
  BY DEF IInv
<1> QED
  BY <1>1, Inductive, PTL

\* status_version counts the declarations of the log: the atomic UPDATE under
\* the shared row lock loses none, however transactions interleave or fail.
THEOREM CounterCorrect == Spec => []GlobalCountsEvents
<1>1. IInv => GlobalCountsEvents
  BY DEF IInv
<1> QED
  BY <1>1, Inductive, PTL

\* Both together: the rows keep their types and the network-wide counter misses
\* no declaration.
THEOREM VersionsCorrect == Spec => []VersionsAreSound
<1>1. IInv => VersionsAreSound
  BY DEF IInv, VersionsAreSound
<1> QED
  BY <1>1, Inductive, PTL

\* The projection row of an edge that never met a stale declaration is what its
\* log says.
THEOREM ProjectionCorrect == Spec => []SerialProjectionRebuildable
<1>1. IInv => SerialProjectionRebuildable
  BY DEF IInv
<1> QED
  BY <1>1, Inductive, PTL

\* The risk worker's outbox events are exactly those of its declarations.
THEOREM OutboxCorrect == Spec => []OutboxMirrorsRiskLog
<1>1. IInv => OutboxMirrorsRiskLog
  BY DEF IInv
<1> QED
  BY <1>1, Inductive, PTL

\* No road status changes without moving the version route plans are checked
\* against.
THEOREM ChangeIsVersioned == Spec => ChangeMovesGlobal
<1>1. IInv /\ [Next]_vars => [row' # row => global' > global]_vars
  <2> SUFFICES ASSUME IInv, [Next]_vars, row' # row
               PROVE  global' > global
    OBVIOUS
  <2>1. PICK t \in Txn : Commit(t)
    BY OnlyCommitPublishes DEF tables
  <2>2. written[t] # {}
    BY <2>1 DEF Commit, IInv, TypeOK
  <2> QED
    BY <2>1, <2>2, CommitCounts DEF IInv
<1> QED
  BY <1>1, Inductive, PTL DEF Spec, ChangeMovesGlobal

\* The detailed declarations implement the abstract board: every step of a
\* transaction is a declaration of statuses under a higher version, or changes
\* neither.
THEOREM BoardImplemented == Spec => ImplementsBoard
<1>1. Init => Board!Init
  BY DEF Init, Board!Init, SeedRow
<1>2. IInv /\ IInv' /\ [Next]_vars => [Board!Declare]_(Board!board)
  <2> SUFFICES ASSUME IInv, IInv', [Next]_vars
               PROVE  Board!Declare \/ UNCHANGED Board!board
    OBVIOUS
  <2>1. CASE UNCHANGED <<row, global>>
    BY <2>1 DEF Board!board
  <2>2. CASE ~ UNCHANGED <<row, global>>
    <3>1. PICK t \in Txn : Commit(t)
      BY <2>2, OnlyCommitPublishes DEF tables
    <3>2. written[t] # {}
      BY <2>2, <3>1 DEF Commit, IInv, TypeOK
    <3>3. global' > global
      BY <3>1, <3>2, CommitCounts DEF IInv
    <3>4. [e \in Edge |-> row[e].status]' \in [Edge -> AccessibilityStatus]
      BY DEF IInv, TypeOK, Row
    <3>5. global' \in Nat
      BY DEF IInv, TypeOK
    <3> QED
      BY <3>3, <3>4, <3>5 DEF Board!Declare
  <2> QED
    BY <2>1, <2>2
<1> QED
  BY <1>1, <1>2, Inductive, PTL DEF Spec, ImplementsBoard, Board!Spec

\* A risk pass that met no concurrent declaration only raises severity.
THEOREM EscalationOnly == Spec => SerialRiskOnlyEscalates
<1> DEFINE A == \A t \in RiskPass : \A e \in Edge :
                   /\ pc[t] # "committed" /\ pc'[t] = "committed"
                   /\ e \in written[t] \ stale[t]
                   => Severity(row'[e].status) > Severity(row[e].status)
<1>1. IInv /\ [Next]_vars => [A]_vars
  <2> SUFFICES ASSUME IInv, [Next]_vars,
                      NEW t \in RiskPass, NEW e \in Edge,
                      pc[t] # "committed", pc'[t] = "committed",
                      e \in written[t] \ stale[t]
               PROVE  Severity(row'[e].status) > Severity(row[e].status)
    OBVIOUS
  <2>1. Commit(t)
    BY DEF IInv, TypeOK, Txn, Next, Begin, Advance, Served, ReadForDeclare,
           StartPass, SkipEdge, AssessEdge, ReadForRisk, LoadBaseline,
           BumpAndFlush, Commit, Abort, vars
  <2>2. Live(t) /\ t \in Txn
    BY <2>1 DEF Commit, Live, Txn
  <2>3. row'[e] = draft[t][e]
    BY <2>1 DEF Commit
  <2>4. draft[t][e].status = target[t][e]
    <3>1. draft[t][e] = [version |-> row[e].version + 1, status |-> target[t][e],
                         source |-> <<t, e>>]
      BY <2>2 DEF IInv, ReadInv
    <3> QED
      BY <3>1
  <2>5. Severity(target[t][e]) > Severity(row[e].status)
    BY <2>2 DEF IInv, SeverityInv
  <2> QED
    BY <2>3, <2>4, <2>5
<1> QED
  BY <1>1, Inductive, PTL DEF Spec, SerialRiskOnlyEscalates

-----------------------------------------------------------------------------
(***************************************************************************)
(* Proofs about HazardZones, the landslide zones of steep edges and their  *)
(* assessments by overlapping refreshes.                                   *)
(*                                                                         *)
(* The argument: a pass drafts one assessment for each zone it takes from  *)
(* its list and nobody else writes assessments of that pass, so at its     *)
(* commit there is one for each zone it had read.                          *)
(***************************************************************************)

\* The landslide service on its own.
HazardSpec == HazardInit /\ [][HazardNext]_hazardVars

Rain == [r24: Nat, r72: Nat]
Fetching(p) == refreshPass[p].pc = "fetching"

\* One seeding request at a time finds no zone, or the race is on record.
SeedInv ==
  /\ DOMAIN zoneSeed = Seeders /\ seedsRaced \in BOOLEAN
  /\ ~seedsRaced =>
       \A s \in Seeders : zoneSeed[s].pc = "seeding" =>
         /\ riskZones = {}
         /\ \A t \in Seeders : zoneSeed[t].pc = "seeding" => t = s

\* A pass has its zones, and has drafted one assessment of each it has left.
PassInv ==
  /\ DOMAIN refreshPass = Refreshers
  /\ \A p \in Refreshers : Fetching(p) =>
       /\ {"pc", "read", "left", "at", "drafts"} \subseteq DOMAIN refreshPass[p]
       /\ refreshPass[p].read \subseteq riskZones
       /\ refreshPass[p].left \subseteq refreshPass[p].read
       /\ refreshPass[p].at \in 0..Cardinality(Refreshers)
       /\ \A a \in refreshPass[p].drafts :
            a.pass = p /\ a \in Assessment /\ a.zone \notin refreshPass[p].left
       /\ \A a, b \in refreshPass[p].drafts : a.zone = b.zone => a = b
       /\ {a.zone : a \in refreshPass[p].drafts} = refreshPass[p].read \ refreshPass[p].left

\* An assessment says what the formula says of its rain.
IsScored(a) ==
  /\ a.score = RiskScore(Gradient[a.zone.edge], a.rain)
  /\ a.level = RiskLevel(a.score)

ScoresInv ==
  /\ \A a \in assessments : IsScored(a)
  /\ \A p \in Refreshers : Fetching(p) => \A a \in refreshPass[p].drafts : IsScored(a)

\* A pass leaves assessments by its commit, one for each zone.
LeftInv ==
  \A p \in Refreshers :
    LET left == {a \in assessments : a.pass = p}
    IN IF refreshPass[p].pc = "committed"
       THEN /\ {a.zone : a \in left} = refreshPass[p].read
            /\ \A a, b \in left : a.zone = b.zone => a = b
            /\ refreshPass[p].read \subseteq riskZones
       ELSE left = {}

\* The time counts the passes begun.
Begun == {p \in Refreshers : refreshPass[p].pc # "idle"}
TimeInv == hazardClock = Cardinality(Begun)

HazardInv ==
  /\ HazardTypeOK /\ OneZonePerEdge /\ SeedInv /\ PassInv /\ ScoresInv /\ LeftInv /\ TimeInv

\* The smaller of two numbers.
LEMMA AtMostIsLeast ==
  ASSUME NEW n \in Nat, NEW limit \in Nat
  PROVE  /\ AtMost(n, limit) = IF n <= limit THEN n ELSE limit
<1>1. \E x \in {n, limit} : \A y \in {n, limit} : x <= y
  OBVIOUS
<1> QED
  BY <1>1 DEF AtMost, Min

\* The scale of the scores.
OnScale(n) == n \in 0..4000

\* No score below the upper end is missing.
LEMMA ScaleIsWhole == ASSUME NEW n \in Nat, n <= 4000 PROVE OnScale(n)
BY DEF OnScale

\* The score is on its scale and grows with the rain, and so does the level.
LEMMA ScoreIsMonotonic ==
  ASSUME NEW g, g \in Nat, NEW r, r \in Rain, NEW s, s \in Rain
  PROVE  /\ RiskScore(g, r) \in Nat /\ OnScale(RiskScore(g, r))
         /\ RiskScore(g, s) \in Nat /\ OnScale(RiskScore(g, s))
         /\ r.r24 <= s.r24 /\ r.r72 <= s.r72 => RiskScore(g, r) <= RiskScore(g, s)
<1> DEFINE p == r.r24
           q == r.r72
           u == s.r24
           v == s.r72
<1>1. g \in Nat /\ p \in Nat /\ q \in Nat /\ u \in Nat /\ v \in Nat
  BY DEF Rain
<1> DEFINE G == AtMost(g, 40)
           A == AtMost(p, 100)
           B == AtMost(q, 200)
           C == AtMost(u, 100)
           D == AtMost(v, 200)
<1> HIDE DEF p, q, u, v
<1>2. /\ G \in Nat /\ G <= 40 /\ A \in Nat /\ A <= 100 /\ B \in Nat /\ B <= 200
      /\ C \in Nat /\ C <= 100 /\ D \in Nat /\ D <= 200
  BY <1>1, AtMostIsLeast
<1>3. p <= u /\ q <= v => A <= C /\ B <= D
  BY <1>1, AtMostIsLeast
<1>4. RiskScore(g, r) = 40 * G + 18 * A + 3 * B /\ RiskScore(g, s) = 40 * G + 18 * C + 3 * D
  BY Zenon DEF RiskScore, p, q, u, v
<1> HIDE DEF G, A, B, C, D
<1>5. /\ RiskScore(g, r) \in Nat /\ OnScale(RiskScore(g, r))
      /\ RiskScore(g, s) \in Nat /\ OnScale(RiskScore(g, s))
  <2>1. /\ 40 * G + 18 * A + 3 * B \in Nat /\ 40 * G + 18 * A + 3 * B <= 4000
        /\ 40 * G + 18 * C + 3 * D \in Nat /\ 40 * G + 18 * C + 3 * D <= 4000
    BY <1>2
  <2> QED
    BY <1>4, <2>1, ScaleIsWhole
<1>6. ASSUME r.r24 <= s.r24, r.r72 <= s.r72 PROVE RiskScore(g, r) <= RiskScore(g, s)
  <2>1. A <= C /\ B <= D
    BY <1>3, <1>6 DEF p, q, u, v
  <2> QED
    BY <1>2, <1>4, <2>1
<1> QED
  BY <1>5, <1>6

\* Levels are numbered in the order of their scores.
LEMMA LevelIsMonotonic ==
  ASSUME NEW m \in Nat, NEW n \in Nat
  PROVE  RiskLevel(m) \in 1..4 /\ (m <= n => RiskLevel(m) <= RiskLevel(n))
BY DEF RiskLevel

\* There are finitely many zones.
LEMMA ZonesAreFinite == IsFiniteSet(Zone)
<1>1. IsFiniteSet(SteepEdges)
  BY HazardAssumption, FS_Subset DEF SteepEdges
<1>2. IsFiniteSet(SteepEdges \X Seeders)
  BY <1>1, HazardAssumption, FS_Product
<1> DEFINE f == [x \in SteepEdges \X Seeders |-> [edge |-> x[1], by |-> x[2]]]
<1>3. Zone = {f[x] : x \in SteepEdges \X Seeders}
  <2>1. ASSUME NEW z \in Zone PROVE \E x \in SteepEdges \X Seeders : f[x] = z
    <3>1. <<z.edge, z.by>> \in SteepEdges \X Seeders /\ z = [edge |-> z.edge, by |-> z.by]
      BY <2>1 DEF Zone
    <3> QED
      BY <3>1
  <2>2. \A x \in SteepEdges \X Seeders : f[x] \in Zone
    BY DEF Zone
  <2> QED
    BY <2>1, <2>2
<1>4. f \in Surjection(SteepEdges \X Seeders, Zone)
  BY <1>3 DEF Surjection
<1> QED
  BY <1>2, <1>4, FS_Surjection

\* The drafted row.
LEMMA DraftIsSound ==
  ASSUME NEW p \in Refreshers, NEW zone \in Zone,
         NEW at \in 0..Cardinality(Refreshers), NEW rain \in Rain
  PROVE  \E a \in Assessment : /\ a = Assessed(p, zone, at, rain)
                               /\ IsScored(a) /\ a.pass = p /\ a.zone = zone
<1>1. Gradient[zone.edge] \in Nat
  BY HazardAssumption DEF Zone, SteepEdges
<1>2. PICK g : g = Gradient[zone.edge] /\ g \in Nat
  BY <1>1
<1>3. PICK score : score = RiskScore(g, rain) /\ score \in Nat /\ OnScale(score)
  BY <1>2, ScoreIsMonotonic
<1>4. PICK level : level = RiskLevel(score) /\ level \in 1..4
  <2>1. RiskLevel(score) \in 1..4
    BY <1>3, LevelIsMonotonic
  <2> QED
    BY <2>1
<1> DEFINE a == Assessed(p, zone, at, rain)
<1>5. a = [pass |-> p, zone |-> zone, at |-> at, rain |-> rain, level |-> level, score |-> score]
  BY <1>2, <1>3, <1>4 DEF Assessed, LevelOf
<1> HIDE DEF a
<1>6. a \in Assessment
  <2>1. rain \in [r24: Nat, r72: Nat]
    BY DEF Rain
  <2> QED
    BY <1>3, <1>4, <1>5, <2>1 DEF Assessment, OnScale
<1>7. /\ a.pass = p /\ a.zone = zone /\ a.rain = rain /\ a.level = level /\ a.score = score
  BY <1>5
<1>8. IsScored(a)
  <2>1. a.score = RiskScore(Gradient[a.zone.edge], a.rain)
    <3>1. Gradient[a.zone.edge] = g
      BY <1>2, <1>7
    <3> QED
      BY <1>3, <1>7, <3>1
  <2>2. a.level = RiskLevel(a.score)
    BY <1>4, <1>7
  <2> QED
    BY <2>1, <2>2 DEF IsScored
<1>9. Assessed(p, zone, at, rain) = a
  BY DEF a
<1> QED
  BY <1>6, <1>7, <1>8, <1>9

\* More rain on one gradient has no smaller score and no lower level.
LEMMA RainRaisesScore ==
  ASSUME NEW g, g \in Nat, NEW r, r \in Rain, NEW s, s \in Rain, r.r24 <= s.r24, r.r72 <= s.r72
  PROVE  /\ RiskScore(g, r) <= RiskScore(g, s)
         /\ RiskLevel(RiskScore(g, r)) <= RiskLevel(RiskScore(g, s))
<1>1. PICK x, y : x = RiskScore(g, r) /\ y = RiskScore(g, s)
  OBVIOUS
<1>2. x \in Nat /\ y \in Nat /\ x <= y
  BY <1>1, ScoreIsMonotonic
<1>3. RiskLevel(x) <= RiskLevel(y)
  BY <1>2, LevelIsMonotonic
<1> QED
  BY <1>1, <1>2, <1>3

\* More rain is no less risk, as every assessment is scored by the formula.
LEMMA ScoredRaises == HazardTypeOK /\ ScoresInv => RainRaisesRisk
<1> SUFFICES ASSUME HazardTypeOK, ScoresInv, NEW a \in assessments, NEW b \in assessments,
                    a.zone = b.zone, a.rain.r24 <= b.rain.r24, a.rain.r72 <= b.rain.r72
             PROVE  a.score <= b.score /\ a.level <= b.level
  BY DEF RainRaisesRisk
<1>1. \A x \in assessments : x.zone \in Zone /\ x.rain \in Rain /\ IsScored(x)
  BY DEF HazardTypeOK, Assessment, Rain, ScoresInv
<1>2. PICK g : g \in Nat /\ g = Gradient[a.zone.edge]
  <2>1. a.zone.edge \in SteepEdges
    BY <1>1 DEF Zone
  <2> QED
    BY <2>1, HazardAssumption DEF SteepEdges
<1>3. /\ a.score = RiskScore(g, a.rain) /\ b.score = RiskScore(g, b.rain)
      /\ a.level = RiskLevel(a.score) /\ b.level = RiskLevel(b.score)
  BY <1>1, <1>2 DEF IsScored
<1>4. /\ RiskScore(g, a.rain) <= RiskScore(g, b.rain)
      /\ RiskLevel(RiskScore(g, a.rain)) <= RiskLevel(RiskScore(g, b.rain))
  BY <1>1, <1>2, RainRaisesScore
<1> QED
  BY <1>3, <1>4

\* As many assessments as zones, if each zone has exactly one.
LEMMA LeftIsWhole == HazardTypeOK /\ LeftInv => PassesAreWhole
<1> SUFFICES ASSUME HazardTypeOK, LeftInv, NEW p \in Refreshers,
                    refreshPass[p].pc = "committed"
             PROVE  LET left == {a \in assessments : a.pass = p}
                    IN /\ {a.zone : a \in left} = refreshPass[p].read
                       /\ Cardinality(left) = Cardinality(refreshPass[p].read)
  BY DEF PassesAreWhole, LeftInv
<1> DEFINE left == {a \in assessments : a.pass = p}
           read == refreshPass[p].read
           of == [zone \in read |-> CHOOSE a \in left : a.zone = zone]
<1>1. /\ {a.zone : a \in left} = read
      /\ \A a, b \in left : a.zone = b.zone => a = b
      /\ read \subseteq riskZones
  BY DEF LeftInv
<1>2. IsFiniteSet(read)
  BY <1>1, ZonesAreFinite, FS_Subset DEF HazardTypeOK
<1> HIDE DEF left, read
<1>3. \A zone \in read : of[zone] \in left /\ of[zone].zone = zone
  <2> SUFFICES ASSUME NEW zone \in read PROVE of[zone] \in left /\ of[zone].zone = zone
    OBVIOUS
  <2>1. \E a \in left : a.zone = zone
    BY <1>1
  <2> QED
    BY <2>1
<1>4. of \in [read -> left]
  BY <1>3
<1>5. \A a \in left : a.zone \in read /\ of[a.zone] = a
  BY <1>1, <1>3
<1>6. \A y, z \in read : of[y] = of[z] => y = z
  BY <1>3
<1> HIDE DEF of
<1>7. of \in Surjection(read, left)
  <2>1. ASSUME NEW a \in left PROVE \E zone \in read : of[zone] = a
    <3>1. PICK zone \in read : zone = a.zone
      BY <1>5
    <3>2. of[zone] = a
      BY <1>5, <3>1
    <3> QED
      BY <3>2
  <2> QED
    BY <1>4, <2>1 DEF Surjection
<1>8. of \in Injection(read, left)
  <2>1. of \in [read -> left] /\ \A y, z \in read : of[y] = of[z] => y = z
    BY <1>4, <1>6
  <2> QED
    BY <2>1, Zenon DEF Injection, IsInjective
<1>9. Cardinality(left) = Cardinality(read)
  BY <1>2, <1>7, <1>8, FS_Surjection
<1> QED
  BY <1>1, <1>9 DEF left, read

\* Nothing is stored and nothing begun.
LEMMA HazardBegins == HazardInit => HazardInv
<1> SUFFICES ASSUME HazardInit PROVE HazardInv
  OBVIOUS
<1> USE DEF HazardInit, Idle
<1>1. Cardinality(Refreshers) \in Nat
  BY HazardAssumption, FS_CardinalityType
<1>2. HazardTypeOK
  BY <1>1 DEF HazardTypeOK
<1>3. OneZonePerEdge /\ SeedInv
  BY DEF OneZonePerEdge, SeedInv
<1>4. PassInv /\ ScoresInv /\ LeftInv
  BY DEF PassInv, ScoresInv, LeftInv, Fetching
<1>5. TimeInv
  <2>1. Begun = {}
    BY DEF Begun
  <2> QED
    BY <2>1, FS_EmptySet DEF TimeInv
<1> QED
  BY <1>2, <1>3, <1>4, <1>5 DEF HazardInv

\* The steps of a seeding request.
LEMMA SeedKeeps ==
  ASSUME HazardInv, NEW s \in Seeders, CheckZones(s) \/ SaveZones(s) \/ FailSeed(s)
  PROVE  HazardInv'
<1> USE DEF HazardInv
<1>1. /\ UNCHANGED <<assessments, refreshPass, hazardClock>>
      /\ riskZones \subseteq riskZones'
  BY DEF CheckZones, SaveZones, FailSeed
<1>2. riskZones' \subseteq Zone
  BY DEF CheckZones, SaveZones, FailSeed, NewZones, Zone, HazardTypeOK
<1>3. /\ \A t \in Seeders : t # s => zoneSeed'[t] = zoneSeed[t]
      /\ zoneSeed'[s].pc \in {"seeding", "ended"} /\ DOMAIN zoneSeed' = Seeders
  BY DEF CheckZones, SaveZones, FailSeed, SeedInv, Ended
<1>4. HazardTypeOK'
  BY <1>1, <1>2, <1>3 DEF HazardTypeOK
<1>5. OneZonePerEdge' /\ SeedInv'
  <2>1. CASE CheckZones(s)
    <3>1. /\ riskZones' = riskZones /\ zoneSeed'[s].pc = "seeding" => riskZones = {}
          /\ seedsRaced' = (seedsRaced \/ (riskZones = {}
                      /\ \E t \in Seeders \ {s} : zoneSeed[t].pc = "seeding"))
      BY <2>1 DEF CheckZones, SeedInv, HasZones, Ended
    <3>2. OneZonePerEdge' /\ seedsRaced' \in BOOLEAN
      BY <2>1, <3>1 DEF OneZonePerEdge, SeedInv, CheckZones
    <3>3. ASSUME ~seedsRaced', NEW t \in Seeders, zoneSeed'[t].pc = "seeding"
          PROVE  riskZones' = {} /\ \A u \in Seeders : zoneSeed'[u].pc = "seeding" => u = t
      BY <1>3, <2>1, <3>1, <3>3 DEF SeedInv, CheckZones
    <3> QED
      BY <1>3, <3>2, <3>3 DEF SeedInv
  <2>2. CASE SaveZones(s)
    <3>1. /\ zoneSeed[s].pc = "seeding" /\ zoneSeed'[s].pc = "ended"
          /\ riskZones' = riskZones \union NewZones(s) /\ seedsRaced' = seedsRaced
      BY <2>2 DEF SaveZones, SeedInv, Ended
    <3>2. \A y, z \in NewZones(s) : y.edge = z.edge => y = z
      BY DEF NewZones
    <3>3. ~seedsRaced => riskZones = {} /\ \A t \in Seeders : zoneSeed'[t].pc # "seeding"
      BY <1>3, <3>1 DEF SeedInv
    <3> QED
      BY <1>3, <3>1, <3>2, <3>3 DEF SeedInv, OneZonePerEdge
  <2>3. CASE FailSeed(s)
    <3>1. /\ zoneSeed'[s].pc = "ended" /\ riskZones' = riskZones /\ seedsRaced' = seedsRaced
      BY <2>3 DEF FailSeed, SeedInv, Ended
    <3> QED
      BY <1>3, <3>1 DEF SeedInv, OneZonePerEdge
  <2> QED
    BY <2>1, <2>2, <2>3
<1>6. PassInv'
  BY <1>1 DEF PassInv, Fetching
<1>7. ScoresInv'
  BY <1>1 DEF ScoresInv, Fetching, IsScored
<1>8. LeftInv'
  BY <1>1 DEF LeftInv
<1>9. TimeInv'
  BY <1>1 DEF TimeInv, Begun
<1> QED
  BY <1>4, <1>5, <1>6, <1>7, <1>8, <1>9

\* The start of a refresh.
LEMMA RefreshBegins ==
  ASSUME HazardInv, NEW p \in Refreshers, BeginRefresh(p)
  PROVE  HazardInv'
<1> USE DEF HazardInv
<1>1. /\ UNCHANGED <<riskZones, assessments, zoneSeed, seedsRaced>>
      /\ hazardClock' = hazardClock + 1 /\ refreshPass[p].pc = "idle"
      /\ DOMAIN refreshPass' = Refreshers
      /\ \A q \in Refreshers : q # p => refreshPass'[q] = refreshPass[q]
  BY DEF BeginRefresh, PassInv, Idle
<1>2. /\ refreshPass'[p] = [pc |-> "fetching", read |-> riskZones, left |-> riskZones,
                           at |-> hazardClock, drafts |-> {}]
  BY DEF BeginRefresh, PassInv
<1>3. /\ refreshPass'[p].pc = "fetching" /\ refreshPass'[p].read = riskZones
      /\ refreshPass'[p].left = riskZones /\ refreshPass'[p].at = hazardClock
      /\ refreshPass'[p].drafts = {}
      /\ {"pc", "read", "left", "at", "drafts"} \subseteq DOMAIN refreshPass'[p]
  BY <1>2
<1>4. TimeInv' /\ hazardClock' \in 0..Cardinality(Refreshers)
  <2>1. IsFiniteSet(Begun) /\ p \notin Begun /\ Begun' = Begun \union {p}
    BY <1>1, <1>3, HazardAssumption, FS_Subset DEF Begun
  <2>2. IsFiniteSet(Begun') /\ Cardinality(Begun') = Cardinality(Begun) + 1
    BY <2>1, FS_AddElement
  <2>3. Cardinality(Begun') <= Cardinality(Refreshers)
    BY HazardAssumption, FS_Subset DEF Begun
  <2>4. Cardinality(Begun') \in Nat /\ Cardinality(Refreshers) \in Nat
    BY <2>2, HazardAssumption, FS_CardinalityType
  <2> QED
    BY <1>1, <2>2, <2>3, <2>4 DEF TimeInv
<1>5. HazardTypeOK'
  BY <1>1, <1>3, <1>4 DEF HazardTypeOK
<1>6. OneZonePerEdge' /\ SeedInv'
  BY <1>1 DEF OneZonePerEdge, SeedInv
<1>7. PassInv'
  <2>1. hazardClock \in 0..Cardinality(Refreshers)
    BY DEF HazardTypeOK
  <2> QED
    BY <1>1, <1>3, <2>1 DEF PassInv, Fetching
<1>8. ScoresInv'
  BY <1>1, <1>3 DEF ScoresInv, Fetching, IsScored
<1>9. LeftInv'
  BY <1>1, <1>3 DEF LeftInv
<1> QED
  BY <1>4, <1>5, <1>6, <1>7, <1>8, <1>9

\* The answer of the provider for a zone, or its silence.
LEMMA ZoneAssessed ==
  ASSUME HazardInv, NEW p \in Refreshers, AssessZone(p)
  PROVE  HazardInv'
<1> USE DEF HazardInv
<1>1. PICK zone \in refreshPass[p].left, answer \in Answers \union {Down} :
        refreshPass' = [refreshPass EXCEPT
          ![p].left = @ \ {zone},
          ![p].drafts = @ \union Assess(p, zone, refreshPass[p].at, answer)]
  BY DEF AssessZone
<1>2. /\ UNCHANGED <<riskZones, assessments, zoneSeed, hazardClock, seedsRaced>>
      /\ Fetching(p)
  BY DEF AssessZone, Fetching
<1> DEFINE new == Assessed(p, zone, refreshPass[p].at, Rainfall(answer))
           drafts == refreshPass[p].drafts
           left == refreshPass[p].left
<1>3. new \in Assessment /\ IsScored(new) /\ new.pass = p /\ new.zone = zone
  <2>1. zone \in Zone /\ refreshPass[p].at \in 0..Cardinality(Refreshers)
    BY <1>2 DEF PassInv, HazardTypeOK
  <2>2. Rainfall(answer) \in Rain
    BY HazardAssumption DEF Rainfall, Answers, Down, Rain
  <2> QED
    <3>1. PICK a \in Assessment : /\ a = Assessed(p, zone, refreshPass[p].at, Rainfall(answer))
                                  /\ IsScored(a) /\ a.pass = p /\ a.zone = zone
      BY <2>1, <2>2, DraftIsSound
    <3> QED
      BY <3>1
<1> HIDE DEF new
<1>4. refreshPass' = [refreshPass EXCEPT ![p].left = @ \ {zone}, ![p].drafts = @ \union {new}]
  BY <1>1 DEF Assess, new
<1>5. /\ DOMAIN refreshPass' = Refreshers
      /\ \A q \in Refreshers : q # p => refreshPass'[q] = refreshPass[q]
      /\ DOMAIN refreshPass'[p] = DOMAIN refreshPass[p]
      /\ refreshPass'[p].pc = refreshPass[p].pc /\ refreshPass'[p].read = refreshPass[p].read
      /\ refreshPass'[p].at = refreshPass[p].at
      /\ refreshPass'[p].left = left \ {zone} /\ refreshPass'[p].drafts = drafts \union {new}
  <2>1. DOMAIN refreshPass = Refreshers
        /\ {"pc", "read", "left", "at", "drafts"} \subseteq DOMAIN refreshPass[p]
    BY <1>2 DEF PassInv
  <2> QED
    BY <1>4, <2>1
<1>6. HazardTypeOK'
  BY <1>2, <1>5 DEF HazardTypeOK
<1>7. OneZonePerEdge' /\ SeedInv'
  BY <1>2 DEF OneZonePerEdge, SeedInv
<1>8. PassInv'
  <2>1. /\ left \subseteq refreshPass[p].read
        /\ \A a \in drafts : a.pass = p /\ a \in Assessment /\ a.zone \notin left
        /\ \A a, b \in drafts : a.zone = b.zone => a = b
        /\ {a.zone : a \in drafts} = refreshPass[p].read \ left
        /\ zone \in left
    BY <1>2 DEF PassInv
  <2> HIDE DEF left, drafts
  <2>2. \A a, b \in drafts \union {new} : a.zone = b.zone => a = b
    BY <1>3, <2>1
  <2>3. {a.zone : a \in drafts \union {new}} = refreshPass[p].read \ (left \ {zone})
    <3>1. {a.zone : a \in drafts \union {new}} = {a.zone : a \in drafts} \union {zone}
      BY <1>3
    <3> QED
      BY <2>1, <3>1
  <2>4. \A a \in drafts \union {new} :
          a.pass = p /\ a \in Assessment /\ a.zone \notin left \ {zone}
    BY <1>3, <2>1
  <2>5. \A q \in Refreshers : q # p /\ Fetching(q)' => Fetching(q)
    BY <1>5 DEF Fetching
  <2> QED
    BY <1>2, <1>5, <2>1, <2>2, <2>3, <2>4, <2>5 DEF PassInv
<1>9. ScoresInv'
  <2>1. \A q \in Refreshers : q # p /\ Fetching(q)' => Fetching(q)
    BY <1>5 DEF Fetching
  <2> QED
    BY <1>2, <1>3, <1>5, <2>1 DEF ScoresInv, IsScored
<1>10. LeftInv'
  BY <1>2, <1>5 DEF LeftInv, Fetching
<1>11. TimeInv'
  <2>1. Begun' = Begun
    BY <1>5 DEF Begun
  <2> QED
    BY <1>2, <2>1 DEF TimeInv
<1> QED
  BY <1>6, <1>7, <1>8, <1>9, <1>10, <1>11

\* The commit of a refresh.
LEMMA RefreshCommits ==
  ASSUME HazardInv, NEW p \in Refreshers, CommitRefresh(p)
  PROVE  HazardInv'
<1> USE DEF HazardInv
<1> DEFINE drafts == refreshPass[p].drafts
<1>1. /\ Fetching(p) /\ refreshPass[p].left = {}
      /\ assessments' = assessments \union drafts
      /\ UNCHANGED <<riskZones, zoneSeed, hazardClock, seedsRaced>>
  BY DEF CommitRefresh, Fetching
<1>2. /\ DOMAIN refreshPass' = Refreshers
      /\ \A q \in Refreshers : q # p => refreshPass'[q] = refreshPass[q]
      /\ refreshPass'[p].pc = "committed" /\ refreshPass'[p].read = refreshPass[p].read
  BY DEF CommitRefresh, PassInv
<1>3. /\ \A a \in drafts : a.pass = p /\ a \in Assessment /\ IsScored(a)
      /\ \A a, b \in drafts : a.zone = b.zone => a = b
      /\ {a.zone : a \in drafts} = refreshPass[p].read
      /\ refreshPass[p].read \subseteq riskZones
  BY <1>1 DEF PassInv, ScoresInv
<1>4. \A a \in assessments : a.pass # p
  BY <1>1 DEF LeftInv, Fetching
<1> HIDE DEF drafts
<1>5. HazardTypeOK'
  <2>1. \A a \in assessments' : a \in Assessment /\ a.zone \in riskZones
    BY <1>1, <1>3 DEF HazardTypeOK
  <2> QED
    BY <1>1, <1>2, <2>1 DEF HazardTypeOK
<1>6. OneZonePerEdge' /\ SeedInv'
  BY <1>1 DEF OneZonePerEdge, SeedInv
<1>7. \A q \in Refreshers : Fetching(q)' => q # p /\ Fetching(q)
  BY <1>2 DEF Fetching
<1>8. PassInv'
  BY <1>1, <1>2, <1>7 DEF PassInv
<1>9. ScoresInv'
  BY <1>1, <1>2, <1>3, <1>7 DEF ScoresInv, IsScored
<1>10. LeftInv'
  <2>1. {a \in assessments' : a.pass = p} = drafts
    BY <1>1, <1>3, <1>4
  <2>2. \A q \in Refreshers : q # p =>
          {a \in assessments' : a.pass = q} = {a \in assessments : a.pass = q}
    BY <1>1, <1>3
  <2>3. \A q \in Refreshers : q # p =>
          LET left == {a \in assessments' : a.pass = q}
          IN IF refreshPass'[q].pc = "committed"
             THEN /\ {a.zone : a \in left} = refreshPass'[q].read
                  /\ \A a, b \in left : a.zone = b.zone => a = b
                  /\ refreshPass'[q].read \subseteq riskZones'
             ELSE left = {}
    BY <1>1, <1>2, <2>2 DEF LeftInv
  <2>4. LET left == {a \in assessments' : a.pass = p}
        IN /\ {a.zone : a \in left} = refreshPass'[p].read
           /\ \A a, b \in left : a.zone = b.zone => a = b
           /\ refreshPass'[p].read \subseteq riskZones'
    BY <1>1, <1>2, <1>3, <2>1
  <2> QED
    BY <1>2, <2>3, <2>4 DEF LeftInv
<1>11. TimeInv'
  <2>1. Begun' = Begun
    BY <1>1, <1>2 DEF Begun, Fetching
  <2> QED
    BY <1>1, <2>1 DEF TimeInv
<1> QED
  BY <1>5, <1>6, <1>8, <1>9, <1>10, <1>11

\* The rollback of a refresh, and a step of something else.
LEMMA RefreshFails ==
  ASSUME HazardInv, (\E p \in Refreshers : FailRefresh(p)) \/ UNCHANGED hazardVars
  PROVE  HazardInv'
<1> USE DEF HazardInv
<1>1. /\ UNCHANGED <<riskZones, assessments, zoneSeed, hazardClock, seedsRaced>>
      /\ DOMAIN refreshPass' = Refreshers
      /\ \A q \in Refreshers : \/ refreshPass'[q] = refreshPass[q]
                               \/ Fetching(q) /\ refreshPass'[q].pc = "ended"
  <2>1. ASSUME NEW p \in Refreshers, FailRefresh(p) PROVE <1>1
    BY <2>1 DEF FailRefresh, PassInv, Fetching, Ended
  <2>2. CASE UNCHANGED hazardVars
    BY <2>2 DEF hazardVars, PassInv
  <2> QED
    BY <2>1, <2>2
<1>2. HazardTypeOK'
  BY <1>1 DEF HazardTypeOK
<1>3. OneZonePerEdge' /\ SeedInv'
  BY <1>1 DEF OneZonePerEdge, SeedInv
<1>4. \A q \in Refreshers : Fetching(q)' => Fetching(q) /\ refreshPass'[q] = refreshPass[q]
  BY <1>1 DEF Fetching
<1>5. PassInv'
  BY <1>1, <1>4 DEF PassInv
<1>6. ScoresInv'
  BY <1>1, <1>4 DEF ScoresInv, IsScored
<1>7. LeftInv'
  <2> SUFFICES ASSUME NEW q \in Refreshers
               PROVE  LET left == {a \in assessments : a.pass = q}
                      IN IF refreshPass'[q].pc = "committed"
                         THEN /\ {a.zone : a \in left} = refreshPass'[q].read
                              /\ \A a, b \in left : a.zone = b.zone => a = b
                              /\ refreshPass'[q].read \subseteq riskZones
                         ELSE left = {}
    BY <1>1 DEF LeftInv
  <2>1. CASE refreshPass'[q] = refreshPass[q]
    BY <2>1 DEF LeftInv
  <2>2. CASE Fetching(q) /\ refreshPass'[q].pc = "ended"
    BY <2>2 DEF LeftInv, Fetching
  <2> QED
    BY <1>1, <2>1, <2>2
<1>8. TimeInv'
  <2>1. Begun' = Begun
    BY <1>1 DEF Begun, Fetching
  <2> QED
    BY <1>1, <2>1 DEF TimeInv
<1> QED
  BY <1>2, <1>3, <1>5, <1>6, <1>7, <1>8

\* The invariant is inductive.
LEMMA HazardStep == HazardInv /\ [HazardNext]_hazardVars => HazardInv'
  BY SeedKeeps, RefreshBegins, ZoneAssessed, RefreshCommits, RefreshFails DEF HazardNext

\* However seeding requests and refreshes overlap and fail, each refresh leaves
\* one assessment of each zone it read, with levels that grow with the rain,
\* and an edge has one zone unless two requests found none at once.
THEOREM AssessmentsCorrect == HazardSpec => []AssessmentsAreSound
<1>1. HazardInv => AssessmentsAreSound
  BY ScoredRaises, LeftIsWhole DEF HazardInv, AssessmentsAreSound
<1> QED
  BY <1>1, HazardBegins, HazardStep, PTL DEF HazardSpec

\* The overlay never replaces an assessment by an older one, although passes
\* commit in any order: it shows the latest by the time of reading.
THEOREM OverlayNeverGoesBack == HazardSpec => LatestNeverGoesBack
<1> DEFINE Forward == \A zone \in riskZones : \A a \in Overlay[zone], b \in Overlay'[zone] : a.at <= b.at
<1>1. HazardInv /\ [HazardNext]_hazardVars => [Forward]_hazardVars
  <2> SUFFICES ASSUME HazardInv, HazardNext, NEW zone \in riskZones,
                      NEW a \in Overlay[zone], NEW b \in Overlay'[zone]
               PROVE  a.at <= b.at
    OBVIOUS
  <2>1. assessments \subseteq assessments' /\ riskZones \subseteq riskZones'
    BY DEF HazardNext, CheckZones, SaveZones, FailSeed, BeginRefresh, AssessZone,
           CommitRefresh, FailRefresh
  <2>2. a \in assessments /\ a.zone = zone
    BY DEF Overlay, Latest, Of
  <2>3. \A c \in assessments' : c.zone = zone => c.at <= b.at
    BY <2>1 DEF Overlay, Latest, Of
  <2> QED
    BY <2>1, <2>2, <2>3
<1> QED
  BY <1>1, HazardBegins, HazardStep, PTL DEF HazardSpec, LatestNeverGoesBack

-----------------------------------------------------------------------------
(***************************************************************************)
(* Proofs about FacilityReach: the verdict on a facility is true of the    *)
(* roads as each query saw them, whatever is closed in between.            *)
(*                                                                         *)
(* The argument: the best path kept so far is over a route open for some   *)
(* hub asked about and not dearer than any open route of one, and no path  *)
(* kept means that each route of each of them was cut.  That a cost is a   *)
(* number at all takes an induction over the edges of a route.             *)
(***************************************************************************)

\* The reachability service on its own.
ReachSpec == ReachInit /\ [][ReachNext]_reachVars

\* The recursive function that the library's fold is defined by.
SumRec(g, f, D) ==
  g = [s \in D |-> IF s = {} THEN 0
                   ELSE f[CHOOSE x \in s : TRUE] + g[s \ {CHOOSE x \in s : TRUE}]]

\* A set of natural numbers has a least one.
LEMMA LeastNat ==
    ASSUME NEW S, S \subseteq Nat, S # {}
    PROVE  \E x \in S : \A y \in S : x <= y
<1>1. PICK x \in S : \A y \in S : ~ (<<y, x>> \in OpToRel(<, Nat))
  BY NatLessThanWellFounded, WFMin
<1>2. \A y \in S : ~ (y < x)
  BY <1>1 DEF OpToRel
<1> QED
  BY <1>2

\* There is such a function on the subsets of a finite set: take the least size
\* for which there is none.
LEMMA SumExists ==
  ASSUME NEW S, IsFiniteSet(S), NEW f, \A x \in S : f[x] \in Nat
  PROVE \E g : SumRec(g, f, SUBSET S) /\ g \in [SUBSET S -> Nat]
<1> DEFINE Sub(n) == {s \in SUBSET S : Cardinality(s) <= n}
           Good(n) == \E g : SumRec(g, f, Sub(n)) /\ g \in [Sub(n) -> Nat]
           Bad == {n \in Nat : ~ Good(n)}
<1>0. \A s \in SUBSET S : IsFiniteSet(s) /\ Cardinality(s) \in Nat
                          /\ Cardinality(s) <= Cardinality(S)
  BY FS_Subset, FS_CardinalityType
<1>1. Bad = {}
  <2> SUFFICES ASSUME Bad # {} PROVE FALSE
    OBVIOUS
  <2>1. PICK n \in Bad : \A m \in Bad : n <= m
    <3>1. Bad \subseteq Nat
      OBVIOUS
    <3> HIDE DEF Bad
    <3> QED
      BY <3>1, LeastNat
  <2>2. CASE n = 0
    <3>1. \A s : s \in Sub(0) <=> s = {}
      BY <1>0, FS_EmptySet
    <3> DEFINE z == [s \in Sub(0) |-> 0]
    <3>2. SumRec(z, f, Sub(0))
      BY <3>1 DEF SumRec
    <3>3. z \in [Sub(0) -> Nat]
      OBVIOUS
    <3> QED
      BY <2>1, <2>2, <3>2, <3>3
  <2>3. CASE n # 0
    <3>1. Good(n - 1) /\ n - 1 \in Nat
      <4>1. n \in Nat /\ n - 1 \in Nat /\ ~(n <= n - 1)
        BY <2>1, <2>3
      <4>2. n - 1 \notin Bad
        BY <2>1, <4>1
      <4> QED
        BY <4>1, <4>2
    <3>2. PICK g : SumRec(g, f, Sub(n-1)) /\ g \in [Sub(n-1) -> Nat]
      BY <3>1
    <3> DEFINE x(s) == CHOOSE y \in s : TRUE
               h == [s \in Sub(n) |-> IF s = {} THEN 0 ELSE f[x(s)] + g[s \ {x(s)}]]
    <3>3. ASSUME NEW s \in Sub(n), s # {}
          PROVE  s \ {x(s)} \in Sub(n-1) /\ x(s) \in s /\ f[x(s)] \in Nat
      <4>1. x(s) \in s
        BY <3>3
      <4>2. IsFiniteSet(s)
        BY FS_Subset
      <4>3. f[x(s)] \in Nat
        BY <4>1
      <4> HIDE DEF x
      <4>4. Cardinality(s \ {x(s)}) = Cardinality(s) - 1
        BY <4>1, <4>2, FS_RemoveElement
      <4>5. s \subseteq S /\ Cardinality(s) \in Nat /\ Cardinality(s) <= n /\ n \in Nat
        BY <1>0, <2>1
      <4> QED
        BY <4>1, <4>3, <4>4, <4>5
    <3>4. h \in [Sub(n) -> Nat]
      BY <3>2, <3>3
    <3>5. \A s \in Sub(n-1) : s \in Sub(n) /\ h[s] = g[s]
      <4>1. \A s \in Sub(n-1) : s \in Sub(n)
        BY <1>0, <3>1
      <4>2. \A s \in Sub(n-1) : g[s] = IF s = {} THEN 0 ELSE f[x(s)] + g[s \ {x(s)}]
        BY <3>2 DEF SumRec
      <4> QED
        BY <4>1, <4>2
    <3>6. \A s \in Sub(n) : s # {} => h[s \ {x(s)}] = g[s \ {x(s)}]
      BY <3>3, <3>5
    <3>7. h = [s \in Sub(n) |-> IF s = {} THEN 0 ELSE f[x(s)] + h[s \ {x(s)}]]
      <4> DEFINE k == [s \in Sub(n) |-> IF s = {} THEN 0 ELSE f[x(s)] + h[s \ {x(s)}]]
      <4>1. \A s \in Sub(n) : h[s] = IF s = {} THEN 0 ELSE f[x(s)] + g[s \ {x(s)}]
        OBVIOUS
      <4>2. \A s \in Sub(n) : k[s] = IF s = {} THEN 0 ELSE f[x(s)] + h[s \ {x(s)}]
        OBVIOUS
      <4>3. \A s \in Sub(n) : k[s] = h[s]
        BY <3>6, <4>1, <4>2
      <4>4. DOMAIN h = Sub(n) /\ DOMAIN k = Sub(n)
        OBVIOUS
      <4>5. h = [s \in DOMAIN h |-> h[s]] /\ k = [s \in DOMAIN k |-> k[s]]
        OBVIOUS
      <4> HIDE DEF h, k, Sub
      <4>6. h = k
        BY <4>3, <4>4, <4>5
      <4> QED
        BY <4>6 DEF k
    <3>8. SumRec(h, f, Sub(n))
      BY <3>7 DEF SumRec
    <3> QED
      BY <2>1, <3>4, <3>8
  <2> QED
    BY <2>2, <2>3
<1>2. Cardinality(S) \in Nat
  BY FS_CardinalityType
<1>3. Sub(Cardinality(S)) = SUBSET S
  BY <1>0
<1>4. Good(Cardinality(S))
  BY <1>1, <1>2
<1> QED
  BY <1>3, <1>4

\* The sum of a function over a set, as FacilityReach writes it.
SumOver(f, S) == FoldFunctionOnSet(LAMBDA m, n : m + n, 0, f, S)

\* A sum of natural numbers is one.
LEMMA SumIsNatural ==
  ASSUME NEW S, IsFiniteSet(S), NEW f, \A x \in S : f[x] \in Nat
  PROVE  SumOver(f, S) \in Nat
<1>1. IsFiniteSet(S) /\ \A x \in S : f[x] \in Nat
  OBVIOUS
<1> DEFINE F == CHOOSE g : SumRec(g, f, SUBSET S)
<1>2. \E g : SumRec(g, f, SUBSET S)
  BY <1>1, SumExists
<1>3. SumRec(F, f, SUBSET S)
  BY <1>2
<1>4. SumOver(f, S) = F[S]
  BY DEF SumOver, FoldFunctionOnSet, MapThenFoldSet, SumRec
<1> HIDE DEF F
<1>5. \A s \in SUBSET S : F[s] \in Nat
  <2> DEFINE Bad == {n \in Nat : \E s \in SUBSET S : Cardinality(s) = n /\ F[s] \notin Nat}
  <2>1. \A s \in SUBSET S : IsFiniteSet(s) /\ Cardinality(s) \in Nat
    BY FS_Subset, FS_CardinalityType
  <2>2. Bad = {}
    <3> SUFFICES ASSUME Bad # {} PROVE FALSE
      OBVIOUS
    <3>1. PICK n \in Bad : \A m \in Bad : n <= m
      <4>1. Bad \subseteq Nat
        OBVIOUS
      <4> HIDE DEF Bad
      <4> QED
        BY <4>1, LeastNat
    <3>2. PICK s \in SUBSET S : Cardinality(s) = n /\ F[s] \notin Nat
      BY <3>1
    <3>3. F[s] = IF s = {} THEN 0
                 ELSE f[CHOOSE x \in s : TRUE] + F[s \ {CHOOSE x \in s : TRUE}]
      BY <1>3 DEF SumRec
    <3>4. s # {}
      BY <3>2, <3>3
    <3>5. PICK x \in s : x = CHOOSE y \in s : TRUE
      BY <3>4
    <3>6. s \ {x} \in SUBSET S /\ Cardinality(s \ {x}) = n - 1 /\ n - 1 \in Nat
      <4>1. IsFiniteSet(s) /\ Cardinality(s) = n
        BY <2>1, <3>2
      <4>2. Cardinality(s \ {x}) = n - 1
        BY <4>1, FS_RemoveElement
      <4>3. s \ {x} \in SUBSET S
        OBVIOUS
      <4> QED
        BY <2>1, <4>2, <4>3
    <3>7. F[s \ {x}] \in Nat
      BY <3>1, <3>6
    <3> QED
      BY <1>1, <3>2, <3>3, <3>4, <3>5, <3>7
  <2> QED
    BY <2>1, <2>2
<1> QED
  BY <1>4, <1>5

\* Functions that agree on a set have one sum over it.
LEMMA SumAgrees ==
  ASSUME NEW S, NEW f, NEW g, \A x \in S : f[x] = g[x]
  PROVE  SumOver(f, S) = SumOver(g, S)
<1> DEFINE F == CHOOSE h : SumRec(h, f, SUBSET S)
           G == CHOOSE h : SumRec(h, g, SUBSET S)
<1>1. \A h : SumRec(h, f, SUBSET S) <=> SumRec(h, g, SUBSET S)
  <2> SUFFICES ASSUME NEW h
               PROVE  SumRec(h, f, SUBSET S) <=> SumRec(h, g, SUBSET S)
    OBVIOUS
  <2>1. [s \in SUBSET S |-> IF s = {} THEN 0
                            ELSE f[CHOOSE x \in s : TRUE] + h[s \ {CHOOSE x \in s : TRUE}]]
      = [s \in SUBSET S |-> IF s = {} THEN 0
                            ELSE g[CHOOSE x \in s : TRUE] + h[s \ {CHOOSE x \in s : TRUE}]]
    <3>1. \A s \in SUBSET S : s # {} => f[CHOOSE x \in s : TRUE] = g[CHOOSE x \in s : TRUE]
      OBVIOUS
    <3> QED
      BY <3>1
  <2> QED
    BY <2>1 DEF SumRec
<1>2. F = G
  BY <1>1
<1>3. SumOver(f, S) = F[S] /\ SumOver(g, S) = G[S]
  BY DEF SumOver, FoldFunctionOnSet, MapThenFoldSet, SumRec
<1> HIDE DEF F, G
<1> QED
  BY <1>2, <1>3

\* Routes cost numbers of seconds, ...
LEMMA CostIsNatural == \A r \in SUBSET Edges : Cost(r) \in Nat
<1> SUFFICES ASSUME NEW r \in SUBSET Edges PROVE Cost(r) \in Nat
  OBVIOUS
<1>1. IsFiniteSet(r) /\ \A x \in r : Seconds[x] \in Nat
  BY FS_Subset, ReachAssumption
<1> QED
  BY <1>1, SumIsNatural DEF Cost, SumOver

\* ... also charged for every edge joined, and no others while indices are unique.
LEMMA ChargedSeconds ==
  ASSUME imported \subseteq Edges, NEW r \in SUBSET Edges
  PROVE  /\ Charged(r) \in Nat
         /\ SingleIndexed /\ r \subseteq imported => Charged(r) = Cost(r)
<1> DEFINE charge == [e \in Edges |-> Seconds[e] * Cardinality(JoinedTo(e))]
<1>1. IsFiniteSet(r) /\ \A e \in Edges : Seconds[e] \in Nat
  BY FS_Subset, ReachAssumption
<1>2. \A e \in Edges : Cardinality(JoinedTo(e)) \in Nat
  <2>1. \A e \in Edges : JoinedTo(e) \in SUBSET Edges
    BY DEF JoinedTo
  <2> QED
    BY <2>1, FS_Subset, FS_CardinalityType, ReachAssumption
<1>3. \A e \in r : charge[e] \in Nat
  <2>1. \A m, n \in Nat : m * n \in Nat
    OBVIOUS
  <2> QED
    BY <1>1, <1>2, <2>1
<1>4. ASSUME SingleIndexed, r \subseteq imported, NEW e \in r
      PROVE  charge[e] = Seconds[e]
  <2>1. JoinedTo(e) = {e}
    BY <1>4 DEF JoinedTo, SingleIndexed
  <2>2. Cardinality(JoinedTo(e)) = 1
    BY <2>1, FS_Singleton
  <2>3. charge[e] = Seconds[e] * 1
    BY <2>2
  <2> QED
    BY <1>1, <2>3
<1> HIDE DEF charge
<1>5. Charged(r) = SumOver(charge, r) /\ Cost(r) = SumOver(Seconds, r)
  BY DEF Charged, Cost, SumOver, charge
<1>6. Charged(r) \in Nat
  BY <1>1, <1>3, <1>5, SumIsNatural
<1>7. SingleIndexed /\ r \subseteq imported => Charged(r) = Cost(r)
  BY <1>4, <1>5, SumAgrees
<1> QED
  BY <1>6, <1>7

\* What the paths asked for so far say of the hubs asked about.
BestOf(best, asked) ==
  /\ best = NoPath => \A h \in asked : \A route \in Routes[h] : ~(route \subseteq seen[h])
  /\ best # NoPath =>
       /\ \E h \in asked : \E route \in Routes[h] :
            /\ route \subseteq seen[h] /\ route \subseteq best.edges
            /\ \A e \in best.edges : \E f \in route : IndexOf[e] = IndexOf[f]
       /\ SingleIndexed => \A h \in asked : \A route \in Routes[h] :
            route \subseteq seen[h] => best.cost <= Cost(route)

AskedInv == enquiry.pc = "asking" => BestOf(enquiry.best, enquiry.hubs \ enquiry.left)

ReachInv == ReachabilityIsTrue /\ AskedInv

\* What the query answers is over an open route of the hub, and costs what no open
\* route of the hub is below.
LEMMA DijkstraIsCheapest ==
  ASSUME imported \subseteq Edges, NEW h \in Hubs, NEW path \in Dijkstra(h)
  PROVE  /\ path \in Path /\ path # NoPath
         /\ \E route \in Routes[h] :
              /\ route \subseteq OpenRoads /\ route \subseteq path.edges
              /\ \A e \in path.edges : \E f \in route : IndexOf[e] = IndexOf[f]
         /\ SingleIndexed => \A q \in Passable(h) : path.cost <= Cost(q)
<1>1. PICK route \in Passable(h) :
        /\ path = [edges |-> Joined(route), cost |-> Charged(route)]
        /\ \A q \in Passable(h) : Cost(route) <= Cost(q)
  BY DEF Dijkstra
<1>2. route \in Routes[h] /\ route \subseteq OpenRoads
  BY DEF Passable
<1>3. route \in SUBSET Edges /\ route # {} /\ route \subseteq imported
  BY <1>2, ReachAssumption DEF OpenRoads
<1>4. Charged(route) \in Nat /\ (SingleIndexed => Charged(route) = Cost(route))
  BY <1>3, ChargedSeconds
<1>5. /\ route \subseteq Joined(route) /\ Joined(route) \subseteq Edges
      /\ \A e \in Joined(route) : \E f \in route : IndexOf[e] = IndexOf[f]
  BY <1>3 DEF Joined, JoinedTo
<1>6. path.edges = Joined(route) /\ path.cost = Charged(route)
  BY <1>1
<1>7. path \in Path /\ path # NoPath
  BY <1>1, <1>3, <1>4, <1>5, <1>6 DEF Path, NoPath
<1> QED
  BY <1>1, <1>2, <1>4, <1>5, <1>6, <1>7

\* Nobody has asked yet.
LEMMA ReachBegins == ReachInit => ReachInv
<1> SUFFICES ASSUME ReachInit PROVE ReachInv
  OBVIOUS
<1> USE DEF ReachInit, Waiting
<1>1. ReachTypeOK
  BY DEF ReachTypeOK
<1>2. ReachableMeansOpen /\ NoPathMeansCutOff /\ ReachableMeansBearing
  BY DEF ReachableMeansOpen, NoPathMeansCutOff, ReachableMeansBearing, Concluded
<1>3. AskedInv
  BY DEF AskedInv
<1> QED
  BY <1>1, <1>2, <1>3 DEF ReachInv, ReachabilityIsTrue

\* A request comes, or the last one has been answered.
LEMMA EnquireKeeps ==
  ASSUME ReachInv, Enquire \/ Done
  PROVE  ReachInv'
<1> USE DEF ReachInv, ReachabilityIsTrue
<1> DEFINE Refusal == [pc |-> "answered", hubs |-> {}, verdict |-> "INSUFFICIENT_DATA", path |-> NoPath]
<1>1. /\ UNCHANGED <<imported, blocked>> /\ seen' \in [Hubs -> SUBSET Edges]
      /\ \/ enquiry' = Waiting
         \/ \E S \in SUBSET Hubs :
              enquiry' = [pc |-> "asking", hubs |-> S, left |-> S, best |-> NoPath]
         \/ enquiry' = Refusal
  BY DEF Enquire, Done, ReachTypeOK, Listings
<1>2. NoPath \in Path
  BY DEF NoPath, Path
<1>3. CASE enquiry' = Waiting
  <2>1. enquiry'.pc = "waiting"
    BY <1>3 DEF Waiting
  <2> QED
    BY <1>1, <1>3, <2>1 DEF ReachTypeOK, ReachableMeansOpen, NoPathMeansCutOff,
       ReachableMeansBearing, Concluded, AskedInv
<1>4. ASSUME NEW S \in SUBSET Hubs,
             enquiry' = [pc |-> "asking", hubs |-> S, left |-> S, best |-> NoPath]
      PROVE  ReachInv'
  <2>1. enquiry'.pc = "asking" /\ enquiry'.hubs = S /\ enquiry'.left = S /\ enquiry'.best = NoPath
    BY <1>4
  <2>2. enquiry' \in Asking
    BY <1>2, <1>4 DEF Asking
  <2>3. AskedInv'
    BY <2>1 DEF AskedInv, BestOf
  <2> QED
    BY <1>1, <2>1, <2>2, <2>3 DEF ReachTypeOK, ReachableMeansOpen, NoPathMeansCutOff,
       ReachableMeansBearing, Concluded
<1>5. CASE enquiry' = Refusal
  <2>1. enquiry'.pc = "answered" /\ enquiry'.verdict = "INSUFFICIENT_DATA"
        /\ enquiry'.path = NoPath /\ enquiry'.hubs = {}
    BY <1>5
  <2> HIDE DEF Refusal
  <2> QED
    BY <1>1, <1>2, <2>1 DEF ReachTypeOK, Verdict, ReachableMeansOpen, NoPathMeansCutOff,
       ReachableMeansBearing, Concluded, AskedInv
<1> QED
  BY <1>1, <1>3, <1>4, <1>5

\* The query for the next hub.
LEMMA AskKeeps ==
  ASSUME ReachInv, AskHub
  PROVE  ReachInv'
<1> USE DEF ReachInv, ReachabilityIsTrue
<1>1. PICK h \in enquiry.left :
       /\ seen' = [seen EXCEPT ![h] = OpenRoads]
       /\ \E best \in IF Passable(h) = {} THEN {enquiry.best}
                      ELSE {Cheaper(enquiry.best, path) : path \in Dijkstra(h)} :
            enquiry' = [enquiry EXCEPT !.left = @ \ {h}, !.best = best]
  BY DEF AskHub
<1>2. PICK best : /\ enquiry' = [enquiry EXCEPT !.left = @ \ {h}, !.best = best]
                  /\ best \in IF Passable(h) = {} THEN {enquiry.best}
                              ELSE {Cheaper(enquiry.best, path) : path \in Dijkstra(h)}
  BY <1>1
<1>3. enquiry \in Asking /\ enquiry.pc = "asking" /\ UNCHANGED <<imported, blocked>>
  BY DEF AskHub, ReachTypeOK, Waiting
<1>4. /\ h \in enquiry.hubs /\ enquiry.hubs \subseteq Hubs /\ enquiry.left \subseteq enquiry.hubs
      /\ enquiry.best \in Path /\ seen \in [Hubs -> SUBSET Edges]
      /\ imported \subseteq Edges /\ OpenRoads \subseteq Edges
  BY <1>3 DEF Asking, ReachTypeOK, Waiting, OpenRoads
<1> PICK asked : asked = enquiry.hubs \ enquiry.left
  OBVIOUS
<1> PICK old : old = enquiry.best
  OBVIOUS
<1>5. /\ enquiry'.pc = "asking" /\ enquiry'.left = enquiry.left \ {h} /\ enquiry'.best = best
      /\ enquiry'.hubs = enquiry.hubs /\ enquiry'.hubs \ enquiry'.left = asked \union {h}
      /\ seen'[h] = OpenRoads /\ \A g \in asked : seen'[g] = seen[g]
      /\ SingleIndexed' <=> SingleIndexed
  BY <1>1, <1>2, <1>3, <1>4 DEF Asking, SingleIndexed
<1>6. \/ Passable(h) = {} /\ best = old
      \/ \E path \in Dijkstra(h) : best = Cheaper(old, path)
  BY <1>2
<1>7. BestOf(old, asked)
  BY <1>3 DEF AskedInv
<1>8. \A route \in Routes[h] : route \subseteq OpenRoads => route \in Passable(h)
  BY DEF Passable
<1>9. best \in Path /\ BestOf(best, asked \union {h})'
  <2>1. CASE Passable(h) = {} /\ best = old
    <3>1. \A route \in Routes[h] : ~(route \subseteq seen'[h])
      BY <1>5, <1>8, <2>1
    <3> QED
      BY <1>4, <1>5, <1>7, <2>1, <3>1 DEF BestOf
  <2>2. ASSUME NEW path \in Dijkstra(h), best = Cheaper(old, path)
        PROVE  best \in Path /\ BestOf(best, asked \union {h})'
    <3>1. /\ path \in Path /\ path # NoPath
          /\ \E route \in Routes[h] :
               /\ route \subseteq OpenRoads /\ route \subseteq path.edges
               /\ \A e \in path.edges : \E f \in route : IndexOf[e] = IndexOf[f]
          /\ SingleIndexed => \A q \in Passable(h) : path.cost <= Cost(q)
      BY <1>4, <2>2, DijkstraIsCheapest
    <3>2. /\ path.cost \in Nat /\ old.cost \in Nat /\ old \in Path
          /\ \A g \in Hubs : \A route \in Routes[g] : Cost(route) \in Nat
      BY <1>4, <3>1, CostIsNatural, ReachAssumption DEF Path
    <3>3. SingleIndexed =>
            \A route \in Routes[h] : route \subseteq seen'[h] => path.cost <= Cost(route)
      BY <1>5, <1>8, <3>1
    <3>4. asked \subseteq Hubs /\ h \in Hubs
      BY <1>4
    <3>5. CASE old = NoPath
      <4>1. best = path
        BY <2>2, <3>5 DEF Cheaper
      <4> QED
        BY <1>5, <1>7, <3>1, <3>3, <3>5, <4>1 DEF BestOf
    <3>6. CASE old # NoPath /\ path.cost < old.cost
      <4>1. best = path
        BY <2>2, <3>6 DEF Cheaper
      <4>2. SingleIndexed => \A g \in asked : \A route \in Routes[g] :
              route \subseteq seen'[g] => path.cost <= Cost(route)
        BY <1>5, <1>7, <3>2, <3>4, <3>6 DEF BestOf
      <4> QED
        BY <1>5, <3>1, <3>3, <4>1, <4>2 DEF BestOf
    <3>7. CASE old # NoPath /\ ~(path.cost < old.cost)
      <4>1. best = old
        BY <2>2, <3>7 DEF Cheaper
      <4>2. SingleIndexed =>
              \A route \in Routes[h] : route \subseteq seen'[h] => old.cost <= Cost(route)
        BY <3>2, <3>3, <3>4, <3>7
      <4> QED
        BY <1>5, <1>7, <3>2, <3>7, <4>1, <4>2 DEF BestOf
    <3> QED
      BY <3>5, <3>6, <3>7
  <2> QED
    BY <1>6, <2>1, <2>2
<1>10. ReachTypeOK'
  <2>1. enquiry' \in Asking /\ enquiry'.left \subseteq enquiry'.hubs
    BY <1>2, <1>3, <1>4, <1>5, <1>9 DEF Asking
  <2>2. seen' \in [Hubs -> SUBSET Edges]
    BY <1>1, <1>4
  <2> QED
    BY <1>3, <2>1, <2>2 DEF ReachTypeOK
<1>11. AskedInv'
  BY <1>5, <1>9 DEF AskedInv
<1>12. ReachableMeansOpen' /\ NoPathMeansCutOff' /\ ReachableMeansBearing'
  BY <1>5 DEF ReachableMeansOpen, NoPathMeansCutOff, ReachableMeansBearing, Concluded
<1> QED
  BY <1>10, <1>11, <1>12

\* The answer.
LEMMA ConcludeKeeps ==
  ASSUME ReachInv, Conclude
  PROVE  ReachInv'
<1> USE DEF ReachInv, ReachabilityIsTrue
<1> DEFINE best == enquiry.best
<1>1. /\ enquiry.pc = "asking" /\ enquiry.left = {}
      /\ UNCHANGED <<imported, blocked, seen>>
      /\ enquiry' = [pc |-> "answered", hubs |-> enquiry.hubs, verdict |-> Conclusion(best), path |-> best]
  BY DEF Conclude, Answer
<1>2. /\ enquiry'.pc = "answered" /\ enquiry'.verdict = Conclusion(best) /\ enquiry'.path = best
      /\ enquiry'.hubs = enquiry.hubs
  BY <1>1
<1>3. enquiry \in Asking
  BY <1>1 DEF ReachTypeOK, Waiting
<1>4. best \in Path /\ BestOf(best, enquiry.hubs) /\ enquiry.hubs \subseteq Hubs
  BY <1>1, <1>3 DEF Asking, AskedInv
<1> HIDE DEF best
<1>5. /\ Conclusion(best) \in Verdict
      /\ Conclusion(best) \in {"REACHABLE", "RESTRICTED_REACHABLE"} => best # NoPath
      /\ Conclusion(best) = "NO_FEASIBLE_PATH" => best = NoPath
      /\ Conclusion(best) = "REACHABLE" => Bottlenecks(best) = {}
  BY DEF Conclusion, Verdict
<1>6. ReachTypeOK'
  BY <1>1, <1>2, <1>4, <1>5 DEF ReachTypeOK
<1>7. ReachableMeansOpen'
  <2>1. SingleIndexed' <=> SingleIndexed
    BY <1>1 DEF SingleIndexed
  <2> QED
    BY <1>1, <1>2, <1>4, <1>5, <2>1 DEF ReachableMeansOpen, BestOf
<1>8. NoPathMeansCutOff'
  BY <1>1, <1>2, <1>4, <1>5 DEF NoPathMeansCutOff, BestOf
<1>9. ReachableMeansBearing'
  <2> SUFFICES ASSUME Conclusion(best) = "REACHABLE", NEW e \in best.edges
               PROVE  Required <= WeightLimit[e]
    BY <1>2 DEF ReachableMeansBearing
  <2>1. e \in Edges /\ Required \in Nat /\ WeightLimit[e] \in Nat
    BY <1>4, ReachAssumption DEF Path
  <2>2. ~(Required > WeightLimit[e])
    BY <1>5 DEF Bottlenecks
  <2> QED
    BY <2>1, <2>2
<1>10. AskedInv'
  BY <1>2 DEF AskedInv
<1> QED
  BY <1>6, <1>7, <1>8, <1>9, <1>10

\* A query fails, and the request with it.
LEMMA FailedKeeps ==
  ASSUME ReachInv, QueryFails
  PROVE  ReachInv'
<1> USE DEF ReachInv, ReachabilityIsTrue
<1>1. /\ enquiry.pc = "asking" /\ UNCHANGED <<imported, blocked, seen>>
      /\ enquiry' = [pc |-> "answered", hubs |-> enquiry.hubs, verdict |-> "ERROR", path |-> NoPath]
  BY DEF QueryFails, Answer
<1>2. enquiry.hubs \subseteq Hubs
  BY <1>1 DEF ReachTypeOK, Waiting, Asking
<1>3. /\ enquiry'.pc = "answered" /\ enquiry'.hubs = enquiry.hubs /\ enquiry'.verdict = "ERROR"
      /\ enquiry'.path = NoPath
  BY <1>1
<1>4. NoPath \in Path
  BY DEF NoPath, Path
<1> QED
  BY <1>1, <1>2, <1>3, <1>4 DEF ReachTypeOK, Verdict, ReachableMeansOpen, NoPathMeansCutOff,
     ReachableMeansBearing, Concluded, AskedInv

\* A road is closed or reopened meanwhile, a network is imported, or nothing happens.
LEMMA RoadKeeps ==
  ASSUME ReachInv, DeclareRoad \/ ImportNetwork \/ UNCHANGED reachVars
  PROVE  ReachInv'
<1> USE DEF ReachInv, ReachabilityIsTrue
<1>1. UNCHANGED <<enquiry, seen>> /\ imported \subseteq imported'
  BY DEF DeclareRoad, ImportNetwork, reachVars
<1>2. imported' \subseteq Edges /\ blocked' \subseteq Edges
  BY DEF DeclareRoad, ImportNetwork, reachVars, ReachTypeOK
<1>3. ReachTypeOK'
  BY <1>1, <1>2 DEF ReachTypeOK
<1>4. SingleIndexed' => SingleIndexed
  BY <1>1 DEF SingleIndexed
<1>5. AskedInv'
  BY <1>1, <1>4 DEF AskedInv, BestOf
<1>6. ReachableMeansOpen' /\ NoPathMeansCutOff' /\ ReachableMeansBearing'
  BY <1>1, <1>4 DEF ReachableMeansOpen, NoPathMeansCutOff, ReachableMeansBearing, Concluded
<1> QED
  BY <1>3, <1>5, <1>6

\* Whatever roads are closed and reopened and whatever networks imported between the
\* queries, a facility reported as reachable was so over a route open when its hub
\* was asked about, a cheapest one while edge indices are unique, and one reported
\* as cut off was, from the hubs listed (EvaluateFacilityReachabilityUseCase).
THEOREM ReachabilityCorrect == ReachSpec => []ReachabilityIsTrue
<1>1. ReachInv /\ [ReachNext]_reachVars => ReachInv'
  BY EnquireKeeps, AskKeeps, ConcludeKeeps, FailedKeeps, RoadKeeps DEF ReachNext
<1>2. ReachInv => ReachabilityIsTrue
  BY DEF ReachInv
<1> QED
  BY <1>1, <1>2, ReachBegins, PTL DEF ReachSpec

-----------------------------------------------------------------------------
(***************************************************************************)
(* Proofs about HazardDetection: suppression thins the boxes and loses     *)
(* none, and the most confident box decides.                               *)
(*                                                                         *)
(* The argument: a box that is kept overlaps none that may still be kept,  *)
(* and is at least as confident as each that goes because of it.           *)
(***************************************************************************)

\* The detector on its own.
DetectionSpec == DetectionInit /\ [][DetectionNext]_detectionVars

\* The boxes do not change, and the three sets of indices are disjoint.
BoxesInv ==
  /\ boxes \in [Indices -> [span: Spans, confidence: Confidences, class: Classes]]
  /\ kept \subseteq Survivors
  /\ order \subseteq Survivors \ kept
  /\ finding = NoFinding \/ order = {}

\* A kept box overlaps neither another one that is kept nor one that may still be.
ApartInv ==
  \A a \in kept : \A b \in kept \union order : a # b => ~Overlap(a, b) /\ ~Overlap(b, a)

\* A box that was dropped overlaps a kept one at least as confident.
RepresentedInv ==
  \A b \in Survivors \ (kept \union order) :
    \E a \in kept : Overlap(a, b) /\ boxes[a].confidence >= boxes[b].confidence

\* What is found is what a box says that no other exceeds.
FindingInv ==
  finding # NoFinding => finding.confidence \in 0..100 /\ BestBoxDecides

DetectionInv == BoxesInv /\ ApartInv /\ RepresentedInv /\ FindingInv

\* Overlap does not depend on which of two boxes is named first.
LEMMA OverlapIsSymmetric ==
  ASSUME BoxesInv, NEW a \in Indices, NEW b \in Indices
  PROVE  Overlap(a, b) <=> Overlap(b, a)
<1> PICK s : s = boxes[a].span
  OBVIOUS
<1> PICK t : t = boxes[b].span
  OBVIOUS
<1>1. s \in Spans /\ t \in Spans
  BY DEF BoxesInv
<1>2. s[1] \in Nat /\ s[2] \in Nat /\ t[1] \in Nat /\ t[2] \in Nat
  BY <1>1, DetectionAssumption
<1>3. Common(s, t) = Common(t, s)
  <2>1. {s[1], t[1]} = {t[1], s[1]} /\ {s[2], t[2]} = {t[2], s[2]}
    OBVIOUS
  <2> QED
    BY <2>1 DEF Common
<1>4. Union(s, t) = Union(t, s)
  <2>1. (s[2] - s[1]) + (t[2] - t[1]) = (t[2] - t[1]) + (s[2] - s[1])
    BY <1>2
  <2>2. Union(s, t) = ((s[2] - s[1]) + (t[2] - t[1])) - Common(s, t)
    BY DEF Union
  <2>3. Union(t, s) = ((t[2] - t[1]) + (s[2] - s[1])) - Common(t, s)
    BY DEF Union
  <2> HIDE DEF Union
  <2> QED
    BY <1>3, <2>1, <2>2, <2>3
<1> QED
  BY <1>3, <1>4 DEF Overlap

\* Confidences are comparable.
LEMMA ConfidenceIsNumber ==
  ASSUME BoxesInv, NEW b \in Indices
  PROVE  boxes[b].confidence \in 0..100
<1>1. boxes[b].confidence \in Confidences
  BY DEF BoxesInv
<1> QED
  BY <1>1, DetectionAssumption

\* At the start all survivors are to be considered.
LEMMA DetectionBegins == DetectionInit => DetectionInv
BY DEF DetectionInit, DetectionInv, BoxesInv, ApartInv, RepresentedInv, FindingInv, NoFinding

\* Keeping the most confident box keeps all of this.
LEMMA KeepBestKeeps == DetectionInv /\ KeepBest => DetectionInv'
<1> SUFFICES ASSUME DetectionInv, KeepBest PROVE DetectionInv'
  OBVIOUS
<1> USE DEF DetectionInv
<1>1. PICK best \in First(order) :
        /\ kept' = kept \union {best}
        /\ order' = {b \in order \ {best} : ~Suppresses(best, b)}
  BY DEF KeepBest
<1>2. best \in order /\ \A c \in order : boxes[c].confidence <= boxes[best].confidence
  BY <1>1 DEF First
<1>3. boxes' = boxes /\ finding' = finding /\ finding = NoFinding /\ Survivors' = Survivors
  BY DEF KeepBest, Survivors
<1>4. \A a, b : Overlap(a, b)' <=> Overlap(a, b)
  BY <1>3 DEF Overlap
<1>5. order \subseteq Indices /\ kept \subseteq Indices /\ Survivors \subseteq Indices
  BY DEF BoxesInv, Survivors
<1>6. BoxesInv'
  BY <1>1, <1>2, <1>3 DEF BoxesInv
<1>7. ApartInv'
  <2> SUFFICES ASSUME NEW a \in kept', NEW b \in kept' \union order', a # b
               PROVE  ~Overlap(a, b) /\ ~Overlap(b, a)
    BY <1>4 DEF ApartInv
  <2>1. a \in Indices /\ b \in Indices
    BY <1>1, <1>2, <1>5
  <2>2. Overlap(a, b) <=> Overlap(b, a)
    BY <2>1, OverlapIsSymmetric
  <2>3. CASE a \in kept
    BY <1>1, <1>2, <2>3 DEF ApartInv
  <2>4. CASE a = best /\ b \in kept
    BY <1>2, <2>4 DEF ApartInv
  <2>5. CASE a = best /\ b \in order'
    BY <1>1, <2>2, <2>5 DEF Suppresses
  <2> QED
    BY <1>1, <2>3, <2>4, <2>5
<1>8. RepresentedInv'
  <2> SUFFICES ASSUME NEW b \in Survivors, b \notin kept', b \notin order'
               PROVE  \E a \in kept' :
                        Overlap(a, b) /\ boxes[a].confidence >= boxes[b].confidence
    BY <1>3, <1>4 DEF RepresentedInv
  <2>1. CASE b \in order
    <3>1. Overlap(best, b)
      BY <1>1, <2>1 DEF Suppresses
    <3>2. boxes[b].confidence \in 0..100 /\ boxes[best].confidence \in 0..100
      BY <1>2, <1>5, <2>1, ConfidenceIsNumber
    <3>3. boxes[best].confidence >= boxes[b].confidence
      BY <1>2, <2>1, <3>2
    <3> QED
      BY <1>1, <3>1, <3>3
  <2>2. CASE b \notin order
    BY <1>1, <2>2 DEF RepresentedInv
  <2> QED
    BY <2>1, <2>2
<1>9. FindingInv'
  BY <1>3 DEF FindingInv
<1> QED
  BY <1>6, <1>7, <1>8, <1>9

\* The first of the kept boxes exceeds every box there was.
LEMMA DecidingIsBest ==
  ASSUME BoxesInv, RepresentedInv, order = {}, NEW b \in Deciding
  PROVE  b \in Survivors /\ \A c \in Indices : boxes[c].confidence <= boxes[b].confidence
<1>1. b \in kept /\ b \in Survivors /\ \A c \in kept : boxes[c].confidence <= boxes[b].confidence
  BY DEF Deciding, First, BoxesInv
<1> SUFFICES ASSUME NEW c \in Indices PROVE boxes[c].confidence <= boxes[b].confidence
  BY <1>1
<1>2. \A d \in Indices : boxes[d].confidence \in 0..100
  BY ConfidenceIsNumber
<1>3. Survivors \subseteq Indices /\ kept \subseteq Survivors
  BY DEF Survivors, BoxesInv
<1>4. boxes[b].confidence >= MinConfidence
  BY <1>1 DEF Survivors
<1>5. CASE c \notin Survivors
  <2>1. ~(boxes[c].confidence >= MinConfidence)
    BY <1>5 DEF Survivors
  <2>2. \A x, y \in 0..100 : ~(x >= MinConfidence) /\ y >= MinConfidence => x <= y
    BY DetectionAssumption
  <2> QED
    BY <1>1, <1>2, <1>3, <1>4, <2>1, <2>2
<1>6. CASE c \in kept
  BY <1>1, <1>6
<1>7. CASE c \in Survivors \ kept
  <2>1. PICK a \in kept : boxes[a].confidence >= boxes[c].confidence
    BY <1>7 DEF RepresentedInv
  <2>2. boxes[a].confidence <= boxes[b].confidence
    BY <1>1
  <2>3. a \in Indices /\ c \in Indices /\ b \in Indices
    BY <1>1, <1>3
  <2>4. \A x, y, z \in 0..100 : x >= y /\ x <= z => y <= z
    OBVIOUS
  <2> QED
    BY <1>2, <2>1, <2>2, <2>3, <2>4
<1> QED
  BY <1>5, <1>6, <1>7

\* The answer is the one of such a box.
LEMMA VerifyKeeps == DetectionInv /\ Verify => DetectionInv'
<1> SUFFICES ASSUME DetectionInv, Verify PROVE DetectionInv'
  OBVIOUS
<1> USE DEF DetectionInv
<1>1. boxes' = boxes /\ kept' = kept /\ order' = order /\ order = {} /\ Survivors' = Survivors
  BY DEF Verify, Survivors
<1>2. \A a, b : Overlap(a, b)' <=> Overlap(a, b)
  BY <1>1 DEF Overlap
<1>3. BoxesInv'
  BY <1>1 DEF BoxesInv
<1>4. ApartInv'
  BY <1>1, <1>2 DEF ApartInv
<1>5. RepresentedInv'
  BY <1>1, <1>2 DEF RepresentedInv
<1>6. FindingInv'
  <2>1. CASE kept = {} /\ finding' = [pc |-> "found", class |-> "CLEAR_ROAD",
                                      blocked |-> FALSE, confidence |-> 100]
    <3>1. Survivors = {}
      BY <1>1, <2>1 DEF RepresentedInv
    <3>2. finding'.confidence \in 0..100
      BY <2>1
    <3> QED
      BY <1>1, <3>1, <3>2 DEF FindingInv, BestBoxDecides
  <2>2. ASSUME NEW b \in Deciding, NEW class, class = Resolved(boxes[b].class),
               finding' = [pc |-> "found", class |-> class, blocked |-> class # "CLEAR_ROAD",
                           confidence |-> boxes[b].confidence]
        PROVE  FindingInv'
    <3>1. b \in Survivors /\ \A c \in Indices : boxes[c].confidence <= boxes[b].confidence
      BY <1>1, DecidingIsBest
    <3>2. finding'.confidence = boxes[b].confidence
      BY <2>2
    <3>3. finding'.blocked <=> class # "CLEAR_ROAD"
      BY <2>2
    <3>4. class # "CLEAR_ROAD" <=> boxes[b].class # "CLEAR_ROAD"
      BY <2>2 DEF Resolved
    <3>5. boxes[b].confidence \in 0..100
      BY <3>1, ConfidenceIsNumber DEF Survivors
    <3> QED
      BY <1>1, <3>1, <3>2, <3>3, <3>4, <3>5 DEF FindingInv, BestBoxDecides
  <2> QED
    BY <2>1, <2>2 DEF Verify
<1> QED
  BY <1>3, <1>4, <1>5, <1>6

\* Nothing else changes the detector's state.
LEMMA DetectionStep == DetectionInv /\ [DetectionNext]_detectionVars => DetectionInv'
<1>1. DetectionInv /\ UNCHANGED detectionVars => DetectionInv'
  BY DEF detectionVars, DetectionInv, BoxesInv, ApartInv, RepresentedInv, FindingInv,
         BestBoxDecides, Survivors, Overlap
<1> QED
  BY <1>1, KeepBestKeeps, VerifyKeeps DEF DetectionNext

\* Whatever boxes are returned and however equal ones are ordered, the boxes that
\* are kept do not overlap and stand for all that were dropped, and the answer is
\* that of a box no other one exceeds.
THEOREM DetectionCorrect == DetectionSpec => []DetectionIsSound
<1>1. DetectionInv => DetectionIsSound
  BY DEF DetectionInv, BoxesInv, ApartInv, RepresentedInv, FindingInv, DetectionIsSound,
         DetectionTypeOK, KeptBoxesRepresentAll, BestBoxDecides
<1> QED
  BY <1>1, DetectionBegins, DetectionStep, PTL DEF DetectionSpec

-----------------------------------------------------------------------------
(***************************************************************************)
(* Proofs about Traversability: the rule stops a vehicle exactly if        *)
(* something speaks against the road, which does not depend on the order   *)
(* of the restrictions and only grows with them.                           *)
(***************************************************************************)

\* The rule on its own.
RideSpec == TraversabilityInit /\ [][EvaluateRide]_rideVars

\* What speaks against a road, in whatever order it is found.
Against(v, list) ==
  \/ v.status \in {"BLOCKED", "UNKNOWN"}
  \/ v.status = "PROVISIONAL_CAUTION" /\ v.critical
  \/ v.bridge /\ v.heavy /\ ~KnowsLimit(list)
  \/ \E i \in InForce(list) : Violates(v, list[i])

\* A case is decided by the rule or not decided yet.
RideInv ==
  /\ ride \in Ride
  /\ listed \in Seq(Restriction)
  /\ verdict = Undecided \/ verdict = Decide(ride, listed)

\* If a restriction is violated, there is a first one.
LEMMA FirstExists ==
  ASSUME NEW v, NEW list \in Seq(Restriction)
  PROVE  FirstViolated(v, list) # {} <=> \E i \in InForce(list) : Violates(v, list[i])
<1> DEFINE S == {i \in InForce(list) : Violates(v, list[i])}
<1>1. S \subseteq Nat
  BY DEF InForce
<1>2. ASSUME S # {} PROVE FirstViolated(v, list) # {}
  <2>1. PICK x \in S : \A y \in S : x <= y
    <3> HIDE DEF S
    <3> QED
      BY <1>1, <1>2, LeastNat
  <2> QED
    BY <2>1 DEF FirstViolated
<1>3. FirstViolated(v, list) \subseteq S
  BY DEF FirstViolated
<1> QED
  BY <1>2, <1>3

\* A vehicle may pass exactly if nothing speaks against it.
LEMMA PassIsNothingAgainst ==
  ASSUME NEW v, v \in Ride, NEW list, list \in Seq(Restriction)
  PROVE  /\ Decide(v, list).decided
         /\ Decide(v, list).pass \in BOOLEAN
         /\ Decide(v, list).review \in BOOLEAN
         /\ Decide(v, list).pass <=> ~Against(v, list)
<1> DEFINE first == FirstViolated(v, list)
<1>1. first # {} <=> \E i \in InForce(list) : Violates(v, list[i])
  BY FirstExists
<1>2. \A b \in BOOLEAN : /\ Refused(b).decided /\ ~Refused(b).pass
                         /\ Refused(b).pass \in BOOLEAN /\ Refused(b).review \in BOOLEAN
  BY DEF Refused
<1>3. \A n : /\ Permitted(n).decided /\ Permitted(n).pass
             /\ Permitted(n).pass \in BOOLEAN /\ Permitted(n).review \in BOOLEAN
  BY DEF Permitted
<1>4. CASE v.status = "BLOCKED"
  <2>1. Decide(v, list) = Refused(FALSE)
    BY <1>4 DEF Decide
  <2> QED
    BY <1>2, <1>4, <2>1 DEF Against
<1>5. CASE v.status = "PROVISIONAL_CAUTION" /\ v.critical
  <2>1. Decide(v, list) = Refused(TRUE)
    BY <1>5 DEF Decide
  <2> QED
    BY <1>2, <1>5, <2>1 DEF Against
<1>6. CASE v.status = "UNKNOWN"
  <2>1. Decide(v, list) = Refused(TRUE)
    BY <1>6 DEF Decide
  <2> QED
    BY <1>2, <1>6, <2>1 DEF Against
<1>7. CASE /\ v.status \notin {"BLOCKED", "UNKNOWN"}
           /\ ~(v.status = "PROVISIONAL_CAUTION" /\ v.critical)
  <2>1. Decide(v, list) =
          IF v.bridge /\ v.heavy /\ ~KnowsLimit(list) THEN Refused(TRUE)
          ELSE IF first # {} THEN Refused(\E i \in first : list[i].kind = "NIGHT_CURFEW")
          ELSE Permitted(IF v.status = "RESTRICTED" THEN 300 ELSE 0)
    BY <1>7 DEF Decide
  <2> HIDE DEF first
  <2>2. CASE v.bridge /\ v.heavy /\ ~KnowsLimit(list)
    <3>1. Decide(v, list) = Refused(TRUE)
      BY <2>1, <2>2
    <3> QED
      BY <1>2, <2>2, <3>1 DEF Against
  <2>3. CASE ~(v.bridge /\ v.heavy /\ ~KnowsLimit(list)) /\ first # {}
    <3>1. PICK b \in BOOLEAN : b = (\E i \in first : list[i].kind = "NIGHT_CURFEW")
      OBVIOUS
    <3>2. Decide(v, list) = Refused(b)
      BY <2>1, <2>3, <3>1
    <3> QED
      BY <1>1, <1>2, <2>3, <3>2 DEF Against
  <2>4. CASE ~(v.bridge /\ v.heavy /\ ~KnowsLimit(list)) /\ first = {}
    <3>1. PICK n : Decide(v, list) = Permitted(n)
      BY <2>1, <2>4
    <3> QED
      BY <1>1, <1>3, <1>7, <2>4, <3>1 DEF Against
  <2> QED
    BY <2>2, <2>3, <2>4
<1> QED
  BY <1>4, <1>5, <1>6, <1>7

\* The list read backwards holds the same restrictions.
LEMMA ReverseIsSame ==
  ASSUME NEW v, NEW list \in Seq(Restriction)
  PROVE  Reverse(list) \in Seq(Restriction) /\ (Against(v, Reverse(list)) <=> Against(v, list))
<1> DEFINE back == Reverse(list)
           n == Len(list)
<1>1. back \in Seq(Restriction) /\ Len(back) = n /\ n \in Nat
  BY DEF Reverse
<1>2. \A i \in 1..n : (n - i) + 1 \in 1..n /\ back[i] = list[(n - i) + 1]
                      /\ back[(n - i) + 1] = list[i]
  <2>1. ASSUME NEW i \in 1..n PROVE (n - i) + 1 \in 1..n /\ (n - ((n - i) + 1)) + 1 = i
    BY <1>1
  <2>2. \A i \in 1..n : back[i] = list[(n - i) + 1]
    BY DEF Reverse
  <2> HIDE DEF back, n
  <2> QED
    BY <2>1, <2>2
<1>3. DOMAIN back = 1..n /\ DOMAIN list = 1..n
  BY <1>1
<1> HIDE DEF back, n
<1>4. KnowsLimit(back) <=> KnowsLimit(list)
  BY <1>2, <1>3 DEF KnowsLimit, InForce
<1>5. (\E i \in InForce(back) : Violates(v, back[i]))
        <=> (\E i \in InForce(list) : Violates(v, list[i]))
  BY <1>2, <1>3 DEF InForce
<1>6. Against(v, back) <=> Against(v, list)
  BY <1>4, <1>5 DEF Against
<1> QED
  BY <1>1, <1>6 DEF back

\* A further restriction in force takes no objection away, unless it is the first
\* weight limit of a bridge.
LEMMA OneMoreRestriction ==
  ASSUME NEW v, NEW list \in Seq(Restriction), NEW r \in Restriction,
         r.active, r.kind = "MAX_WEIGHT" => KnowsLimit(list), Against(v, list)
  PROVE  Append(list, r) \in Seq(Restriction) /\ Against(v, Append(list, r))
<1> DEFINE more == Append(list, r)
<1>1. more \in Seq(Restriction) /\ Len(more) = Len(list) + 1 /\ Len(list) \in Nat
  OBVIOUS
<1>2. \A i \in DOMAIN list : i \in DOMAIN more /\ more[i] = list[i]
  OBVIOUS
<1>3. \A i \in DOMAIN more : i \in DOMAIN list \/ more[i] = r
  OBVIOUS
<1> HIDE DEF more
<1>4. \A i \in InForce(list) : i \in InForce(more) /\ more[i] = list[i]
  BY <1>2 DEF InForce
<1>5. KnowsLimit(more) => KnowsLimit(list)
  <2> SUFFICES ASSUME NEW i \in InForce(more), more[i].kind = "MAX_WEIGHT"
               PROVE  KnowsLimit(list)
    BY DEF KnowsLimit
  <2>1. CASE i \in DOMAIN list
    BY <1>2, <2>1 DEF KnowsLimit, InForce
  <2>2. CASE more[i] = r
    BY <2>2
  <2> QED
    BY <1>3, <2>1, <2>2 DEF InForce
<1>6. Against(v, more)
  BY <1>4, <1>5 DEF Against
<1> QED
  BY <1>1, <1>6 DEF more

\* Nor does more weight.
LEMMA MoreWeight ==
  ASSUME NEW v \in Ride, NEW list \in Seq(Restriction), NEW w \in Weights, w > v.weight,
         Against(v, list)
  PROVE  [v EXCEPT !.weight = w] \in Ride /\ Against([v EXCEPT !.weight = w], list)
<1> DEFINE u == [v EXCEPT !.weight = w]
<1>1. u \in Ride /\ u.weight = w
  BY DEF Ride
<1>2. /\ u.status = v.status /\ u.critical = v.critical /\ u.bridge = v.bridge
      /\ u.heavy = v.heavy /\ u.hazardous = v.hazardous /\ u.hour = v.hour
  BY DEF Ride
<1> HIDE DEF u
<1>3. ASSUME NEW i \in InForce(list), Violates(v, list[i]) PROVE Violates(u, list[i])
  <2>1. list[i] \in Restriction
    BY DEF InForce
  <2>2. PICK x : x = list[i].value
    OBVIOUS
  <2>3. PICK y : y = v.weight
    OBVIOUS
  <2>4. x \in Int /\ y \in Int /\ w \in Int
    BY <2>1, <2>2, <2>3, TraversabilityAssumption DEF Restriction, Ride, Unlimited
  <2>5. w > y /\ (y > x => w > x)
    BY <2>3, <2>4
  <2> QED
    BY <1>1, <1>2, <1>3, <2>2, <2>3, <2>5 DEF Violates
<1>4. Against(u, list)
  BY <1>2, <1>3 DEF Against
<1> QED
  BY <1>1, <1>4 DEF u

\* A case starts undecided.
LEMMA RideBegins == TraversabilityInit => RideInv
<1>1. \A n \in Nat : [1..n -> Restriction] \subseteq Seq(Restriction)
  OBVIOUS
<1> QED
  BY <1>1, TraversabilityAssumption DEF TraversabilityInit, RideInv

\* It is decided by the rule.
LEMMA RideStep == RideInv /\ [EvaluateRide]_rideVars => RideInv'
<1>1. RideInv /\ EvaluateRide => RideInv'
  BY DEF RideInv, EvaluateRide
<1>2. RideInv /\ UNCHANGED rideVars => RideInv'
  BY DEF RideInv, rideVars
<1> QED
  BY <1>1, <1>2

\* Whatever a road's restrictions are and however long their list, its order decides
\* nothing, and no further objection lets a vehicle through that was stopped.
THEOREM VerdictsCorrect == RideSpec => []VerdictsAreSound
<1>1. RideInv => VerdictsAreSound
  <2> SUFFICES ASSUME RideInv PROVE VerdictsAreSound
    OBVIOUS
  <2>1. CASE verdict = Undecided
    <3>1. ~verdict.decided
      BY <2>1 DEF Undecided
    <3> QED
      BY <3>1 DEF VerdictsAreSound, TraversabilityTypeOK, VerdictIgnoresOrder,
                  NothingWorseOpens
  <2>2. CASE verdict = Decide(ride, listed)
    <3>1. /\ verdict.pass \in BOOLEAN /\ verdict.review \in BOOLEAN
          /\ verdict.pass <=> ~Against(ride, listed)
      BY <2>2, PassIsNothingAgainst DEF RideInv
    <3>2. VerdictIgnoresOrder
      <4>1. /\ Reverse(listed) \in Seq(Restriction)
            /\ Against(ride, Reverse(listed)) <=> Against(ride, listed)
        BY ReverseIsSame DEF RideInv
      <4>2. /\ Decide(ride, Reverse(listed)).pass \in BOOLEAN
            /\ Decide(ride, Reverse(listed)).pass <=> ~Against(ride, Reverse(listed))
        BY <4>1, PassIsNothingAgainst DEF RideInv
      <4> QED
        BY <3>1, <4>1, <4>2 DEF VerdictIgnoresOrder
    <3>3. NothingWorseOpens
      <4> SUFFICES ASSUME Against(ride, listed)
                   PROVE  /\ \A r \in Restriction :
                               r.active /\ (r.kind = "MAX_WEIGHT" => KnowsLimit(listed))
                                 => ~Decide(ride, Append(listed, r)).pass
                          /\ \A w \in Weights : w > ride.weight
                               => ~Decide([ride EXCEPT !.weight = w], listed).pass
        BY <3>1 DEF NothingWorseOpens
      <4>1. ASSUME NEW r \in Restriction, r.active, r.kind = "MAX_WEIGHT" => KnowsLimit(listed)
            PROVE  ~Decide(ride, Append(listed, r)).pass
        <5>1. Append(listed, r) \in Seq(Restriction) /\ Against(ride, Append(listed, r))
          BY <4>1, OneMoreRestriction DEF RideInv
        <5> QED
          BY <5>1, PassIsNothingAgainst DEF RideInv
      <4>2. ASSUME NEW w \in Weights, w > ride.weight
            PROVE  ~Decide([ride EXCEPT !.weight = w], listed).pass
        <5>1. [ride EXCEPT !.weight = w] \in Ride
              /\ Against([ride EXCEPT !.weight = w], listed)
          BY <4>2, MoreWeight DEF RideInv
        <5> QED
          BY <5>1, PassIsNothingAgainst DEF RideInv
      <4> QED
        BY <4>1, <4>2
    <3> QED
      BY <3>1, <3>2, <3>3 DEF VerdictsAreSound, TraversabilityTypeOK
  <2> QED
    BY <2>1, <2>2 DEF RideInv
<1> QED
  BY <1>1, RideBegins, RideStep, PTL DEF RideSpec

-----------------------------------------------------------------------------
(***************************************************************************)
(* Proofs about DispatchPlanning: the plan read out of a solution has each *)
(* stop once and overloads no vehicle by a kilogram per stop.              *)
(*                                                                         *)
(* The argument: tours share no stop and repeat none, so a stop is at one  *)
(* place of one route or left over.  The overload is a sum of what the     *)
(* division cuts off, bounded by an induction over the stops of a tour.    *)
(***************************************************************************)

\* The planner on its own.
PlanningSpec == PlanningInit /\ [][PlanningNext]_planningVars

\* The sum that the library's fold computes.
Sum(f) == (CHOOSE g : SumRec(g, f, SUBSET DOMAIN f))[DOMAIN f]

\* A sum of numbers that exceed ten times others by less than ten exceeds ten times
\* the sum of the others by less than ten for each: by induction on the size of the
\* subset that is summed up.
LEMMA RoundedSum ==
  ASSUME NEW S, IsFiniteSet(S), NEW f, f \in [S -> Nat], NEW g, g \in [S -> Nat],
         \A x \in S : f[x] <= 10 * g[x] + 9
  PROVE  Sum(f) \in Nat /\ Sum(g) \in Nat /\ Sum(f) <= 10 * Sum(g) + 9 * Cardinality(S)
<1> DEFINE F == CHOOSE h : SumRec(h, f, SUBSET S)
           G == CHOOSE h : SumRec(h, g, SUBSET S)
           Good(s) == F[s] \in Nat /\ G[s] \in Nat /\ F[s] <= 10 * G[s] + 9 * Cardinality(s)
           Bad == {n \in Nat : \E s \in SUBSET S : Cardinality(s) = n /\ ~Good(s)}
<1>1. SumRec(F, f, SUBSET S) /\ SumRec(G, g, SUBSET S)
  <2>1. (\E h : SumRec(h, f, SUBSET S)) /\ (\E h : SumRec(h, g, SUBSET S))
    BY SumExists
  <2> QED
    BY <2>1
<1>2. Sum(f) = F[S] /\ Sum(g) = G[S]
  BY DEF Sum
<1>3. \A s \in SUBSET S : IsFiniteSet(s) /\ Cardinality(s) \in Nat
  BY FS_Subset, FS_CardinalityType
<1> HIDE DEF F, G
<1>4. Bad = {}
  <2> SUFFICES ASSUME Bad # {} PROVE FALSE
    OBVIOUS
  <2>1. PICK n \in Bad : \A m \in Bad : n <= m
    <3>1. Bad \subseteq Nat
      OBVIOUS
    <3> HIDE DEF Bad
    <3> QED
      BY <3>1, LeastNat
  <2>2. PICK s \in SUBSET S : Cardinality(s) = n /\ ~Good(s)
    BY <2>1
  <2>3. CASE s = {}
    <3>1. F[s] = 0 /\ G[s] = 0 /\ Cardinality(s) = 0
      BY <1>1, <2>3, FS_EmptySet DEF SumRec
    <3> QED
      BY <2>2, <3>1
  <2>4. CASE s # {}
    <3>1. PICK x \in s : x = CHOOSE y \in s : TRUE
      BY <2>4
    <3>2. F[s] = f[x] + F[s \ {x}] /\ G[s] = g[x] + G[s \ {x}]
      <4>1. F[s] = IF s = {} THEN 0
                   ELSE f[CHOOSE y \in s : TRUE] + F[s \ {CHOOSE y \in s : TRUE}]
        BY <1>1 DEF SumRec
      <4>2. G[s] = IF s = {} THEN 0
                   ELSE g[CHOOSE y \in s : TRUE] + G[s \ {CHOOSE y \in s : TRUE}]
        BY <1>1 DEF SumRec
      <4> QED
        BY <2>4, <3>1, <4>1, <4>2
    <3>3. s \ {x} \in SUBSET S /\ Cardinality(s \ {x}) = n - 1 /\ n - 1 \in Nat /\ n \in Nat
      <4>1. Cardinality(s \ {x}) = n - 1
        BY <1>3, <2>2, FS_RemoveElement
      <4>2. s \ {x} \in SUBSET S
        OBVIOUS
      <4> QED
        BY <1>3, <2>2, <4>1, <4>2
    <3>4. Good(s \ {x})
      <4>1. n - 1 \notin Bad
        BY <2>1, <3>3
      <4> QED
        BY <3>3, <4>1
    <3>5. PICK a, b, c, d : a = f[x] /\ b = g[x] /\ c = F[s \ {x}] /\ d = G[s \ {x}]
      OBVIOUS
    <3>6. a \in Nat /\ b \in Nat /\ a <= 10 * b + 9
      BY <3>5
    <3>7. c \in Nat /\ d \in Nat /\ c <= 10 * d + 9 * (n - 1)
      BY <3>3, <3>4, <3>5
    <3>8. a + c \in Nat /\ b + d \in Nat /\ a + c <= 10 * (b + d) + 9 * n
      BY <3>3, <3>6, <3>7
    <3> QED
      BY <2>2, <3>2, <3>5, <3>8
  <2> QED
    BY <2>3, <2>4
<1>5. Good(S)
  BY <1>3, <1>4
<1> QED
  BY <1>2, <1>5

\* A tour is a sequence of different stops.
LEMMA TourIsSequence ==
  ASSUME NEW tour \in Tours
  PROVE  \E n \in 0..StopCount : tour \in [1..n -> Stops]
                                 /\ \A i, j \in 1..n : tour[i] = tour[j] => i = j
<1>1. PICK S \in SUBSET Stops : tour \in SetToSeqs(S)
  BY DEF Tours
<1>2. StopCount \in Nat /\ IsFiniteSet(Stops) /\ Cardinality(Stops) = StopCount
  BY PlanningAssumption, FS_Interval DEF Stops
<1>3. Cardinality(S) \in 0..StopCount
  BY <1>1, <1>2, FS_Subset, FS_CardinalityType
<1>4. tour \in [1..Cardinality(S) -> Stops]
      /\ \A i, j \in 1..Cardinality(S) : tour[i] = tour[j] => i = j
  BY <1>1 DEF SetToSeqs
<1> QED
  BY <1>3, <1>4

\* What a vehicle carries above its capacity is less than a kilogram per stop.
LEMMA TourFits ==
  ASSUME NEW tour, NEW n \in Nat, tour \in [1..n -> Stops], n # 0,
         demand \in [Stops -> Demands], NEW c \in Nat, Load(tour) <= Whole(c)
  PROVE  RealLoad(tour) < c + 10 * Len(tour)
<1> DEFINE f == [i \in DOMAIN tour |-> demand[tour[i]]]
           g == [i \in DOMAIN tour |-> DemandAt(tour[i])]
<1>1. IsFiniteSet(1..n) /\ Cardinality(1..n) = n /\ Len(tour) = n
  BY FS_Interval
<1>2. \A d \in Nat : d \div 10 \in Nat /\ d <= 10 * (d \div 10) + 9
  OBVIOUS
<1>3. f \in [1..n -> Nat] /\ g \in [1..n -> Nat] /\ \A i \in 1..n : f[i] <= 10 * g[i] + 9
  <2>1. \A i \in 1..n : demand[tour[i]] \in Nat
    BY PlanningAssumption
  <2> QED
    BY <1>2, <2>1 DEF DemandAt, Whole
<1>4. RealLoad(tour) = Sum(f)
  BY DEF RealLoad, Sum, SumRec, FoldFunction, FoldFunctionOnSet, MapThenFoldSet
<1>5. Load(tour) = Sum(g)
  BY DEF Load, Sum, SumRec, FoldFunction, FoldFunctionOnSet, MapThenFoldSet
<1> HIDE DEF f, g
<1>6. Sum(f) \in Nat /\ Sum(g) \in Nat /\ Sum(f) <= 10 * Sum(g) + 9 * n
  BY <1>1, <1>3, RoundedSum
<1>7. Sum(g) <= c \div 10
  BY <1>5 DEF Whole
<1>8. 10 * (c \div 10) <= c /\ c \div 10 \in Nat
  OBVIOUS
<1> QED
  BY <1>1, <1>4, <1>6, <1>7, <1>8

\* While the weights do not change, loads do not.
LEMMA LoadsStay ==
  ASSUME demand' = demand
  PROVE  \A t : Load(t)' = Load(t) /\ RealLoad(t)' = RealLoad(t)
<1> SUFFICES ASSUME NEW t PROVE Load(t)' = Load(t) /\ RealLoad(t)' = RealLoad(t)
  OBVIOUS
<1>1. Load(t) = Sum([i \in DOMAIN t |-> Whole(demand[t[i]])])
  BY DEF Load, DemandAt, Sum, SumRec, FoldFunction, FoldFunctionOnSet, MapThenFoldSet
<1>2. Load(t)' = Sum([i \in DOMAIN t |-> Whole(demand'[t[i]])])
  BY DEF Load, DemandAt, Sum, SumRec, FoldFunction, FoldFunctionOnSet, MapThenFoldSet
<1>3. RealLoad(t) = Sum([i \in DOMAIN t |-> demand[t[i]]])
  BY DEF RealLoad, Sum, SumRec, FoldFunction, FoldFunctionOnSet, MapThenFoldSet
<1>4. RealLoad(t)' = Sum([i \in DOMAIN t |-> demand'[t[i]]])
  BY DEF RealLoad, Sum, SumRec, FoldFunction, FoldFunctionOnSet, MapThenFoldSet
<1> QED
  BY <1>1, <1>2, <1>3, <1>4

\* Nor do the assignments that fit.
LEMMA AssignmentsStay ==
  ASSUME demand' = demand, capacity' = capacity
  PROVE  Assignments' = Assignments
<1>1. ASSUME NEW t PROVE t \in Assignments' <=> t \in Assignments
  <2>1. \A v : Load(t[v])' = Load(t[v]) /\ Whole(capacity[v])' = Whole(capacity[v])
    BY LoadsStay DEF Whole
  <2> QED
    BY <2>1 DEF Assignments
<1>2. \A t : t \in Assignments' <=> t \in Assignments
  BY <1>1
<1> QED
  BY <1>2

\* The routes read so far are the tours of the vehicles before the next one.
ToursReadInv ==
  plan.pc = "reading" =>
    /\ solution.tours \in Assignments
    /\ {"vehicle", "routes", "assigned"} \subseteq DOMAIN plan
    /\ plan.vehicle \in Nat \ {0}
    /\ \A r : r \in plan.routes <=>
         \E v \in Fleet : /\ v < plan.vehicle /\ solution.tours[v] # << >>
                          /\ r = [vehicle |-> v, stops |-> solution.tours[v]]
    /\ \A s : s \in plan.assigned <=>
         \E v \in Fleet : v < plan.vehicle /\ s \in ToSet(solution.tours[v])

PlanningInv == PlansAreSound /\ ToursReadInv

\* The weights and the capacities are what the request says.
LEMMA PlanningBegins == PlanningInit => PlanningInv
BY DEF PlanningInit, PlanningInv, PlansAreSound, PlanningTypeOK, EveryStopIsPlannedOnce,
       OverloadIsBelowRounding, ToursReadInv, NoPlanYet

\* The solver answers with assignments, or leaves everything over.
LEMMA SolveKeeps == PlanningInv /\ Solve => PlanningInv'
<1> SUFFICES ASSUME PlanningInv, Solve PROVE PlanningInv'
  OBVIOUS
<1>1. demand' = demand /\ capacity' = capacity
  BY DEF Solve
<1>2. ASSUME NEW t \in Assignments, solution' = [found |-> TRUE, tours |-> t],
             plan' = [pc |-> "reading", vehicle |-> 1, routes |-> {}, assigned |-> {}]
      PROVE  PlanningInv'
  <2>1. plan'.pc = "reading" /\ solution'.tours = t /\ plan'.vehicle = 1
        /\ plan'.routes = {} /\ plan'.assigned = {}
        /\ {"vehicle", "routes", "assigned"} \subseteq DOMAIN plan'
    BY <1>2
  <2>2. Assignments' = Assignments
    BY <1>1, AssignmentsStay
  <2>3. \A v \in Fleet : ~(v < 1)
    BY DEF Fleet
  <2>4. ToursReadInv'
    BY <2>1, <2>2, <2>3 DEF ToursReadInv
  <2> QED
    BY <1>1, <2>1, <2>4 DEF PlanningInv, PlansAreSound, PlanningTypeOK,
       EveryStopIsPlannedOnce, OverloadIsBelowRounding
<1>3. ASSUME plan' = [pc |-> "planned", routes |-> {}, unassigned |-> Stops]
      PROVE  PlanningInv'
  <2>1. plan'.pc = "planned" /\ plan'.routes = {} /\ plan'.unassigned = Stops
    BY <1>3
  <2>2. EveryStopIsPlannedOnce'
    <3>1. ASSUME NEW s \in Stops
          PROVE  Cardinality({v \in plan'.routes \X Stops :
                                v[2] \in DOMAIN v[1].stops /\ v[1].stops[v[2]] = s})
                   = IF s \in plan'.unassigned THEN 0 ELSE 1
      <4>1. {v \in plan'.routes \X Stops :
                v[2] \in DOMAIN v[1].stops /\ v[1].stops[v[2]] = s} = {}
        BY <2>1
      <4> QED
        BY <2>1, <4>1, FS_EmptySet
    <3> QED
      BY <2>1, <3>1 DEF EveryStopIsPlannedOnce
  <2> QED
    BY <1>1, <2>1, <2>2 DEF PlanningInv, PlansAreSound, PlanningTypeOK,
       OverloadIsBelowRounding, ToursReadInv
<1> QED
  BY <1>2, <1>3 DEF Solve

\* One more tour is read.
LEMMA ReadTourKeeps == PlanningInv /\ ReadTour => PlanningInv'
<1> SUFFICES ASSUME PlanningInv, ReadTour PROVE PlanningInv'
  OBVIOUS
<1>1. demand' = demand /\ capacity' = capacity /\ solution' = solution
      /\ plan.pc = "reading" /\ plan.vehicle <= VehicleCount
  BY DEF ReadTour
<1>2. ToursReadInv
  BY DEF PlanningInv
<1> PICK n : n = plan.vehicle
  OBVIOUS
<1> PICK tour : tour = solution.tours[n]
  OBVIOUS
<1>3. n \in Nat \ {0} /\ n <= VehicleCount
  BY <1>1, <1>2 DEF ToursReadInv
<1>4. /\ plan'.pc = "reading" /\ plan'.vehicle = n + 1
      /\ plan'.assigned = plan.assigned \union ToSet(tour)
      /\ plan'.routes = plan.routes \union (IF tour = << >> THEN {}
                                            ELSE {[vehicle |-> n, stops |-> tour]})
      /\ DOMAIN plan' = DOMAIN plan
  BY <1>1, <1>2 DEF ReadTour, ToursReadInv
<1>5. Assignments' = Assignments
  BY <1>1, AssignmentsStay
<1>6. \A v \in Fleet : v < n + 1 <=> v < n \/ v = n
  BY <1>3 DEF Fleet
<1>7. n \in Fleet
  BY <1>3 DEF Fleet
<1>8. ASSUME NEW r
      PROVE  r \in plan'.routes <=>
               \E v \in Fleet : /\ v < n + 1 /\ solution.tours[v] # << >>
                                /\ r = [vehicle |-> v, stops |-> solution.tours[v]]
  <2>1. r \in plan'.routes <=>
          r \in plan.routes \/ (tour # << >> /\ r = [vehicle |-> n, stops |-> tour])
    BY <1>4
  <2>2. r \in plan.routes <=>
          \E v \in Fleet : /\ v < n /\ solution.tours[v] # << >>
                           /\ r = [vehicle |-> v, stops |-> solution.tours[v]]
    BY <1>1, <1>2 DEF ToursReadInv
  <2> QED
    BY <1>6, <1>7, <2>1, <2>2
<1>9. ASSUME NEW s
      PROVE  s \in plan'.assigned <=>
               \E v \in Fleet : v < n + 1 /\ s \in ToSet(solution.tours[v])
  <2>1. s \in plan'.assigned <=> s \in plan.assigned \/ s \in ToSet(tour)
    BY <1>4
  <2>2. s \in plan.assigned <=> \E v \in Fleet : v < n /\ s \in ToSet(solution.tours[v])
    BY <1>1, <1>2 DEF ToursReadInv
  <2> QED
    BY <1>6, <1>7, <2>1, <2>2
<1>10. ToursReadInv'
  <2>1. solution.tours \in Assignments /\ {"vehicle", "routes", "assigned"} \subseteq DOMAIN plan
    BY <1>1, <1>2 DEF ToursReadInv
  <2>2. n + 1 \in Nat \ {0}
    BY <1>3
  <2> QED
    BY <1>1, <1>4, <1>5, <1>8, <1>9, <2>1, <2>2 DEF ToursReadInv
<1> QED
  BY <1>1, <1>4, <1>10 DEF PlanningInv, PlansAreSound, PlanningTypeOK,
     EveryStopIsPlannedOnce, OverloadIsBelowRounding

\* Once all tours are read, the plan has each stop once.
LEMMA EachStopOnce ==
  ASSUME PlanningInv, FinishPlan, NEW s \in Stops
  PROVE  Cardinality({v \in plan'.routes \X Stops :
                        v[2] \in DOMAIN v[1].stops /\ v[1].stops[v[2]] = s})
           = IF s \in plan'.unassigned THEN 0 ELSE 1
<1> DEFINE Visits == {v \in plan'.routes \X Stops :
                        v[2] \in DOMAIN v[1].stops /\ v[1].stops[v[2]] = s}
<1> PICK tours : tours = solution.tours
  OBVIOUS
<1>1. /\ plan.pc = "reading" /\ ToursReadInv
      /\ plan'.routes = plan.routes
      /\ plan'.unassigned = {q \in Stops : q \notin plan.assigned}
  BY DEF PlanningInv, FinishPlan, LeftOver
<1>2. \A v \in Fleet : v < plan.vehicle
  BY <1>1, PlanningAssumption DEF FinishPlan, ToursReadInv, Fleet
<1>3. \A r : r \in plan'.routes <=>
        \E v \in Fleet : tours[v] # << >> /\ r = [vehicle |-> v, stops |-> tours[v]]
  BY <1>1, <1>2 DEF ToursReadInv
<1>4. s \in plan'.unassigned <=> ~ \E v \in Fleet : s \in ToSet(tours[v])
  BY <1>1, <1>2 DEF ToursReadInv
<1>5. /\ tours \in [Fleet -> Tours]
      /\ \A v, w \in Fleet : v # w => ToSet(tours[v]) \intersect ToSet(tours[w]) = {}
  BY <1>1 DEF ToursReadInv, Assignments
<1>6. CASE s \in plan'.unassigned
  <2>1. Visits = {}
    <3> SUFFICES ASSUME NEW r \in plan'.routes, NEW i \in Stops, i \in DOMAIN r.stops,
                        r.stops[i] = s
                 PROVE  FALSE
      OBVIOUS
    <3>1. PICK v \in Fleet : r = [vehicle |-> v, stops |-> tours[v]]
      BY <1>3
    <3>2. s \in ToSet(tours[v])
      BY <3>1 DEF ToSet
    <3> QED
      BY <1>4, <1>6, <3>2
  <2> QED
    BY <1>6, <2>1, FS_EmptySet
<1>7. CASE s \notin plan'.unassigned
  <2>1. PICK v \in Fleet : s \in ToSet(tours[v])
    BY <1>4, <1>7
  <2>2. PICK n \in 0..StopCount : /\ tours[v] \in [1..n -> Stops]
                                  /\ \A i, j \in 1..n : tours[v][i] = tours[v][j] => i = j
    BY <1>5, TourIsSequence
  <2>3. PICK i \in 1..n : tours[v][i] = s
    BY <2>1, <2>2 DEF ToSet
  <2>4. i \in Stops
    BY <2>2, <2>3, PlanningAssumption DEF Stops
  <2>5. PICK r : r = [vehicle |-> v, stops |-> tours[v]]
    OBVIOUS
  <2>6. r.stops = tours[v] /\ tours[v] # << >>
    BY <2>2, <2>3, <2>5
  <2>7. r \in plan'.routes
    BY <1>3, <2>5, <2>6
  <2>8. <<r, i>> \in Visits
    BY <2>2, <2>3, <2>4, <2>6, <2>7
  <2>9. ASSUME NEW q \in plan'.routes, NEW j \in Stops, j \in DOMAIN q.stops, q.stops[j] = s
        PROVE  q = r /\ j = i
    <3>1. PICK w \in Fleet : q = [vehicle |-> w, stops |-> tours[w]]
      BY <1>3
    <3>2. j \in DOMAIN tours[w] /\ tours[w][j] = s
      BY <2>9, <3>1
    <3>3. s \in ToSet(tours[w])
      BY <3>2 DEF ToSet
    <3>4. w = v
      BY <1>5, <2>1, <3>3
    <3> QED
      BY <2>2, <2>3, <2>5, <3>1, <3>2, <3>4
  <2>10. Visits = {<<r, i>>}
    BY <2>8, <2>9
  <2> HIDE DEF Visits
  <2>11. Cardinality(Visits) = 1
    BY <2>10, FS_Singleton
  <2> QED
    BY <1>7, <2>11 DEF Visits
<1> QED
  BY <1>6, <1>7

\* The plan is complete: each stop is on it once, and each tour fits.
LEMMA FinishPlanKeeps == PlanningInv /\ FinishPlan => PlanningInv'
<1> SUFFICES ASSUME PlanningInv, FinishPlan PROVE PlanningInv'
  OBVIOUS
<1> PICK tours : tours = solution.tours
  OBVIOUS
<1>1. demand' = demand /\ capacity' = capacity /\ plan.pc = "reading" /\ ToursReadInv
      /\ plan'.pc = "planned" /\ plan'.routes = plan.routes
  BY DEF PlanningInv, FinishPlan
<1>2. ASSUME NEW r \in plan'.routes
      PROVE  \E v \in Fleet : tours[v] # << >> /\ r = [vehicle |-> v, stops |-> tours[v]]
  BY <1>1 DEF ToursReadInv
<1>3. EveryStopIsPlannedOnce'
  <2>1. \A q, r \in plan'.routes : q.vehicle = r.vehicle => q = r
    <3> SUFFICES ASSUME NEW q \in plan'.routes, NEW r \in plan'.routes, q.vehicle = r.vehicle
                 PROVE  q = r
      OBVIOUS
    <3>1. PICK v \in Fleet : q = [vehicle |-> v, stops |-> tours[v]]
      BY <1>2
    <3>2. PICK w \in Fleet : r = [vehicle |-> w, stops |-> tours[w]]
      BY <1>2
    <3> QED
      BY <3>1, <3>2
  <2> QED
    BY <2>1, EachStopOnce DEF EveryStopIsPlannedOnce
<1>4. OverloadIsBelowRounding'
  <2> SUFFICES ASSUME NEW r \in plan'.routes
               PROVE  RealLoad(r.stops)' < capacity[r.vehicle] + 10 * Len(r.stops)
    BY <1>1 DEF OverloadIsBelowRounding
  <2>1. PICK v \in Fleet : tours[v] # << >> /\ r = [vehicle |-> v, stops |-> tours[v]]
    BY <1>2
  <2>2. tours \in [Fleet -> Tours] /\ Load(tours[v]) <= Whole(capacity[v])
    BY <1>1 DEF ToursReadInv, Assignments
  <2>3. PICK n \in 0..StopCount : tours[v] \in [1..n -> Stops]
    BY <2>2, TourIsSequence
  <2>4. n \in Nat /\ n # 0
    <3>1. n = 0 => tours[v] = << >>
      BY <2>3
    <3> QED
      BY <2>1, <3>1, PlanningAssumption
  <2>5. demand \in [Stops -> Demands] /\ capacity[v] \in Nat
    BY PlanningAssumption DEF PlanningInv, PlansAreSound, PlanningTypeOK
  <2>6. RealLoad(tours[v]) < capacity[v] + 10 * Len(tours[v])
    BY <2>2, <2>3, <2>4, <2>5, TourFits
  <2>7. r.stops = tours[v] /\ r.vehicle = v
    BY <2>1
  <2>8. RealLoad(r.stops)' = RealLoad(tours[v])
    BY <1>1, <2>7, LoadsStay
  <2> QED
    BY <2>6, <2>7, <2>8
<1> QED
  BY <1>1, <1>3, <1>4 DEF PlanningInv, PlansAreSound, PlanningTypeOK, ToursReadInv

\* Nothing else changes the planner's state.
LEMMA PlanningStep == PlanningInv /\ [PlanningNext]_planningVars => PlanningInv'
<1>1. PlanningInv /\ UNCHANGED planningVars => PlanningInv'
  <2> SUFFICES ASSUME PlanningInv, UNCHANGED planningVars PROVE PlanningInv'
    OBVIOUS
  <2>1. demand' = demand /\ capacity' = capacity /\ solution' = solution /\ plan' = plan
    BY DEF planningVars
  <2>2. Assignments' = Assignments /\ \A t : RealLoad(t)' = RealLoad(t)
    BY <2>1, LoadsStay, AssignmentsStay
  <2> QED
    BY <2>1, <2>2 DEF PlanningInv, PlansAreSound, PlanningTypeOK, EveryStopIsPlannedOnce,
       OverloadIsBelowRounding, ToursReadInv
<1> QED
  BY <1>1, SolveKeeps, ReadTourKeeps, FinishPlanKeeps DEF PlanningNext

\* Whatever the weights, the capacities and the assignment the solver finds, a plan
\* has each stop asked for on one route, once, or among those left over, and no
\* vehicle is overloaded by a kilogram per stop.
THEOREM PlansCorrect == PlanningSpec => []PlansAreSound
<1>1. PlanningInv => PlansAreSound
  BY DEF PlanningInv
<1> QED
  BY <1>1, PlanningBegins, PlanningStep, PTL DEF PlanningSpec

-----------------------------------------------------------------------------
(***************************************************************************)
(* Proofs about PublicAccess: the limit holds whatever fails between the   *)
(* two calls to Redis.                                                     *)
(*                                                                         *)
(* The argument: a key lets in no more than it has counted, and once its   *)
(* expiry is set all that is younger was let in by it, so nothing older    *)
(* than the key before it is left when it goes.  The sums over the ticks   *)
(* are handled by an induction over the ages.                              *)
(***************************************************************************)

\* The public portal on its own.
PublicSpec == PublicInit /\ [][PublicNext]_publicVars

\* Any element of a set may be added first.
AnyFirst(G, f, S) ==
  \A s \in SUBSET S : G[s] \in Nat /\ \A x \in s : G[s] = f[x] + G[s \ {x}]

\* The fold's function takes its elements in an order nobody knows; any of them may
\* be taken first: by induction on the size of the set.
LEMMA AnyElementFirst ==
  ASSUME NEW S, IsFiniteSet(S), NEW f, f \in [S -> Nat], NEW G, SumRec(G, f, SUBSET S)
  PROVE  AnyFirst(G, f, S)
<1> DEFINE Good(s) == G[s] \in Nat /\ \A x \in s : G[s] = f[x] + G[s \ {x}]
           Bad == {n \in Nat : \E s \in SUBSET S : Cardinality(s) = n /\ ~Good(s)}
<1>1. \A s \in SUBSET S : IsFiniteSet(s) /\ Cardinality(s) \in Nat
  BY FS_Subset, FS_CardinalityType
<1>2. Bad = {}
  <2> SUFFICES ASSUME Bad # {} PROVE FALSE
    OBVIOUS
  <2>1. PICK n \in Bad : \A m \in Bad : n <= m
    <3>1. Bad \subseteq Nat
      OBVIOUS
    <3> HIDE DEF Bad
    <3> QED
      BY <3>1, LeastNat
  <2>2. PICK s \in SUBSET S : Cardinality(s) = n /\ ~Good(s)
    BY <2>1
  <2>3. G[s] = IF s = {} THEN 0
               ELSE f[CHOOSE y \in s : TRUE] + G[s \ {CHOOSE y \in s : TRUE}]
    BY DEF SumRec
  <2>4. s # {}
    BY <2>2, <2>3
  <2>5. PICK c \in s : c = CHOOSE y \in s : TRUE
    BY <2>4
  <2>6. G[s] = f[c] + G[s \ {c}]
    BY <2>3, <2>4, <2>5
  <2>7. ASSUME NEW t \in SUBSET s, NEW x \in s, x \notin t PROVE Good(t)
    <3>1. t \in SUBSET S /\ Cardinality(t) \in Nat /\ Cardinality(s) \in Nat /\ IsFiniteSet(s)
      BY <1>1
    <3>2. Cardinality(t) <= Cardinality(s \ {x}) /\ Cardinality(s \ {x}) = Cardinality(s) - 1
      <4>1. t \in SUBSET (s \ {x}) /\ IsFiniteSet(s \ {x})
        BY <2>7, <3>1, FS_RemoveElement
      <4>2. Cardinality(t) <= Cardinality(s \ {x})
        BY <4>1, FS_Subset
      <4>3. Cardinality(s \ {x}) = Cardinality(s) - 1
        BY <3>1, FS_RemoveElement
      <4> QED
        BY <4>2, <4>3
    <3>3. Cardinality(t) \notin Bad
      BY <2>1, <2>2, <3>1, <3>2
    <3> QED
      BY <3>1, <3>3
  <2>8. f[c] \in Nat /\ G[s \ {c}] \in Nat
    <3>1. Good(s \ {c})
      BY <2>7
    <3> QED
      BY <3>1
  <2>9. ASSUME NEW x \in s PROVE G[s] = f[x] + G[s \ {x}]
    <3>1. CASE x = c
      BY <2>6, <3>1
    <3>2. CASE x # c
      <4>1. Good(s \ {c}) /\ Good(s \ {x}) /\ Good((s \ {c}) \ {x})
        BY <2>7
      <4>2. (s \ {c}) \ {x} = (s \ {x}) \ {c} /\ x \in s \ {c} /\ c \in s \ {x}
        BY <3>2
      <4>3. G[s \ {c}] = f[x] + G[(s \ {c}) \ {x}]
        BY <4>1, <4>2
      <4>4. G[s \ {x}] = f[c] + G[(s \ {c}) \ {x}]
        BY <4>1, <4>2
      <4>5. PICK a, b, d : a = f[x] /\ b = f[c] /\ d = G[(s \ {c}) \ {x}]
        OBVIOUS
      <4>6. a \in Nat /\ b \in Nat /\ d \in Nat
        BY <4>1, <4>5
      <4>7. b + (a + d) = a + (b + d)
        BY <4>6
      <4> QED
        BY <2>6, <4>3, <4>4, <4>5, <4>7
    <3> QED
      BY <3>1, <3>2
  <2>10. G[s] \in Nat
    BY <2>6, <2>8
  <2> QED
    BY <2>2, <2>9, <2>10
<1> QED
  BY <1>1, <1>2 DEF AnyFirst

\* The admissions of the last k ticks.
Recent(f, k) == (CHOOSE g : SumRec(g, f, SUBSET DOMAIN f))[{i \in DOMAIN f : i < k}]

\* They add up tick by tick, in the end to the total.
LEMMA RecentAddsUp ==
  ASSUME NEW f, f \in [0..Window - 1 -> Nat]
  PROVE  /\ \A k \in 0..Window : Recent(f, k) \in Nat
         /\ Recent(f, 0) = 0
         /\ \A k \in 0..Window - 1 : Recent(f, k + 1) = Recent(f, k) + f[k]
         /\ Recent(f, Window) = Total(f)
<1> DEFINE Before(k) == {i \in 0..Window - 1 : i < k}
<1>0. Window \in Nat \ {0}
  BY PublicAssumption
<1>1. PICK S : S = 0..Window - 1
  OBVIOUS
<1>2. IsFiniteSet(S) /\ f \in [S -> Nat] /\ DOMAIN f = S
  <2>1. IsFiniteSet(S)
    BY <1>0, <1>1, FS_Interval
  <2> QED
    BY <1>1, <2>1
<1>3. PICK G : /\ SumRec(G, f, SUBSET S)
               /\ Total(f) = G[S]
               /\ \A k : Recent(f, k) = G[Before(k)]
  <2> DEFINE F == CHOOSE g : SumRec(g, f, SUBSET S)
  <2>1. \E g : SumRec(g, f, SUBSET S)
    BY <1>2, SumExists
  <2>2. SumRec(F, f, SUBSET S)
    BY <2>1
  <2>3. Total(f) = F[S]
    BY <1>2 DEF Total, FoldFunction, FoldFunctionOnSet, MapThenFoldSet, SumRec
  <2>4. \A k : Recent(f, k) = F[Before(k)]
    BY <1>1, <1>2 DEF Recent
  <2> HIDE DEF F
  <2> QED
    BY <2>2, <2>3, <2>4
<1>4. AnyFirst(G, f, S)
  BY <1>2, <1>3, AnyElementFirst
<1>5. Before(0) = {} /\ Before(Window) = S
  BY <1>0, <1>1
<1>6. \A k \in 0..Window - 1 : Before(k + 1) \ {k} = Before(k) /\ k \in Before(k + 1)
  BY <1>0
<1>7. G[{}] = 0
  BY <1>3 DEF SumRec
<1>8. \A k : Before(k) \in SUBSET S
  BY <1>1
<1> HIDE DEF Before
<1>10. ASSUME NEW k \in 0..Window - 1 PROVE Recent(f, k + 1) = Recent(f, k) + f[k]
  <2>1. G[Before(k + 1)] = f[k] + G[Before(k)]
    <3>1. PICK t \in SUBSET S : t = Before(k + 1)
      BY <1>8
    <3>2. G[t] = f[k] + G[t \ {k}]
      BY <1>4, <1>6, <3>1 DEF AnyFirst
    <3> QED
      BY <1>6, <3>1, <3>2
  <2>2. f[k] \in Nat /\ G[Before(k)] \in Nat
    BY <1>4, <1>8 DEF AnyFirst
  <2>3. PICK a, b : a = f[k] /\ b = G[Before(k)]
    OBVIOUS
  <2>4. a + b = b + a
    BY <2>2, <2>3
  <2> QED
    BY <1>3, <2>1, <2>3, <2>4
<1>11. \A k : Recent(f, k) \in Nat
  BY <1>3, <1>4, <1>8 DEF AnyFirst
<1>12. Recent(f, 0) = 0 /\ Recent(f, Window) = Total(f)
  BY <1>3, <1>5, <1>7
<1> QED
  BY <1>10, <1>11, <1>12

\* Properties of sums of the last ticks are proved tick by tick.
LEMMA TickByTick ==
  ASSUME NEW n \in Nat, NEW Good, 0 \in Good,
         \A k \in 0..n : k \in Good /\ k + 1 \in 0..n => k + 1 \in Good
  PROVE  \A k \in 0..n : k \in Good
<1> DEFINE Bad == {k \in 0..n : k \notin Good}
<1> SUFFICES ASSUME Bad # {} PROVE FALSE
  OBVIOUS
<1>1. PICK k \in Bad : \A m \in Bad : k <= m
  <2>1. Bad \subseteq Nat
    OBVIOUS
  <2> HIDE DEF Bad
  <2> QED
    BY <2>1, LeastNat
<1>2. k # 0 /\ k \in Nat /\ k <= n
  BY <1>1
<1>3. k - 1 \in 0..n /\ (k - 1) + 1 = k /\ ~(k <= k - 1)
  BY <1>2
<1>4. k - 1 \in Good
  BY <1>1, <1>3
<1> QED
  BY <1>1, <1>3, <1>4

\* One more admission counts in every sum.
LEMMA RecentCountsNew ==
  ASSUME NEW f, f \in [0..Window - 1 -> Nat], NEW g, g = [f EXCEPT ![0] = @ + 1]
  PROVE  /\ g \in [0..Window - 1 -> Nat]
         /\ \A k \in 0..Window : Recent(g, k) = Recent(f, k) + (IF k = 0 THEN 0 ELSE 1)
<1> DEFINE Good == {k \in 0..Window :
                      Recent(g, k) = Recent(f, k) + (IF k = 0 THEN 0 ELSE 1)}
<1>1. Window \in Nat \ {0}
  BY PublicAssumption
<1>2. g \in [0..Window - 1 -> Nat] /\ g[0] = f[0] + 1
      /\ \A k \in 0..Window - 1 : k # 0 => g[k] = f[k]
  BY <1>1
<1>3. /\ \A k \in 0..Window : Recent(f, k) \in Nat /\ Recent(g, k) \in Nat
      /\ Recent(f, 0) = 0 /\ Recent(g, 0) = 0
      /\ \A k \in 0..Window - 1 : /\ Recent(f, k + 1) = Recent(f, k) + f[k]
                                  /\ Recent(g, k + 1) = Recent(g, k) + g[k]
  BY <1>2, RecentAddsUp
<1>4. 0 \in Good
  BY <1>1, <1>3
<1>5. ASSUME NEW k \in 0..Window, k \in Good, k + 1 \in 0..Window PROVE k + 1 \in Good
  <2>1. k \in 0..Window - 1 /\ k + 1 # 0
    BY <1>1, <1>5
  <2>2. PICK a, b, c, d : a = f[k] /\ b = g[k] /\ c = Recent(f, k) /\ d = Recent(g, k)
    OBVIOUS
  <2>3. a \in Nat /\ c \in Nat /\ d \in Nat
    BY <1>3, <2>1, <2>2
  <2>4. Recent(f, k + 1) = c + a /\ Recent(g, k + 1) = d + b
    BY <1>3, <2>1, <2>2
  <2>5. CASE k = 0
    <3>1. b = a + 1 /\ d = c
      BY <1>2, <1>3, <2>2, <2>5
    <3>2. d + b = (c + a) + 1
      BY <2>3, <3>1
    <3> QED
      BY <1>5, <2>1, <2>4, <3>2
  <2>6. CASE k # 0
    <3>1. b = a /\ d = c + 1
      BY <1>2, <1>5, <2>1, <2>2, <2>6
    <3>2. d + b = (c + a) + 1
      BY <2>3, <3>1
    <3> QED
      BY <1>5, <2>1, <2>4, <3>2
  <2> QED
    BY <2>5, <2>6
<1> HIDE DEF Good
<1>6. \A k \in 0..Window : k \in Good
  BY <1>1, <1>4, <1>5, TickByTick
<1> QED
  BY <1>2, <1>6 DEF Good

\* A tick makes every admission a tick older and forgets the oldest ones.
LEMMA RecentAges ==
  ASSUME NEW f, f \in [0..Window - 1 -> Nat],
         NEW g, g = [age \in 0..Window - 1 |-> IF age = 0 THEN 0 ELSE f[age - 1]]
  PROVE  /\ g \in [0..Window - 1 -> Nat]
         /\ \A k \in 0..Window - 1 : Recent(g, k + 1) = Recent(f, k)
<1> DEFINE Good == {k \in 0..Window - 1 : Recent(g, k + 1) = Recent(f, k)}
<1>1. Window \in Nat \ {0} /\ Window - 1 \in Nat
  BY PublicAssumption
<1>2. g \in [0..Window - 1 -> Nat] /\ g[0] = 0
      /\ \A k \in 0..Window - 1 : k + 1 \in 0..Window - 1 => g[k + 1] = f[k]
  <2>1. \A k \in 0..Window - 1 : k # 0 => k - 1 \in 0..Window - 1 /\ f[k - 1] \in Nat
    BY <1>1
  <2>2. g \in [0..Window - 1 -> Nat]
    BY <1>1, <2>1
  <2>3. \A k \in Nat : k + 1 # 0 /\ (k + 1) - 1 = k
    OBVIOUS
  <2> QED
    BY <1>1, <2>2, <2>3
<1>3. /\ \A k \in 0..Window : Recent(f, k) \in Nat /\ Recent(g, k) \in Nat
      /\ Recent(f, 0) = 0 /\ Recent(g, 0) = 0
      /\ \A k \in 0..Window - 1 : /\ Recent(f, k + 1) = Recent(f, k) + f[k]
                                  /\ Recent(g, k + 1) = Recent(g, k) + g[k]
  BY <1>2, RecentAddsUp
<1>4. 0 \in Good
  <2>1. Recent(g, 0 + 1) = 0 + 0
    BY <1>1, <1>2, <1>3
  <2> QED
    BY <1>1, <1>3, <2>1
<1>5. ASSUME NEW k \in 0..Window - 1, k \in Good, k + 1 \in 0..Window - 1
      PROVE  k + 1 \in Good
  <2>1. Recent(g, (k + 1) + 1) = Recent(g, k + 1) + g[k + 1]
    BY <1>3, <1>5
  <2>2. Recent(f, k + 1) = Recent(f, k) + f[k]
    BY <1>3
  <2>3. g[k + 1] = f[k]
    BY <1>2, <1>5
  <2> QED
    BY <1>5, <2>1, <2>2, <2>3
<1> HIDE DEF Good
<1>6. \A k \in 0..Window - 1 : k \in Good
  BY <1>1, <1>4, <1>5, TickByTick
<1> QED
  BY <1>2, <1>6 DEF Good

\* What a key with this count has let in at most.
Spent(count) == IF count > Limit THEN Limit ELSE count

\* The request that counted first and has still to set the expiry.
Pending == {r \in PublicRequests : visit[r].pc = "counted"}

\* It is alone, and its key stays until it is done.
PendingInv ==
  /\ \A r, q \in Pending : r = q
  /\ Pending # {} => rateKey.ttl = NoExpiry /\ rateKey.count # 0

\* A key adds to what was let in before it no more than it has counted, and all that
\* is younger than its expiry was let in by it.
BudgetInv ==
  /\ rateKey.count = 0 => Recent(admitted, Window) <= Limit
  /\ rateKey.count # 0 =>
       Recent(admitted, Window) + (IF Pending = {} THEN 0 ELSE 1)
         <= Limit + Spent(rateKey.count)
  /\ rateKey.ttl # NoExpiry =>
       Recent(admitted, Window - rateKey.ttl) <= Spent(rateKey.count)

PublicInv ==
  /\ PublicTypeOK
  /\ admitted \in [0..Window - 1 -> Nat]
  /\ StoredPlansWereOffered
  /\ PendingInv
  /\ Production => BudgetInv

\* At the start nothing was let in.
LEMMA PublicBegins == PublicInit => PublicInv
<1> SUFFICES ASSUME PublicInit PROVE PublicInv
  OBVIOUS
<1>1. Limit \in Nat \ {0} /\ Window \in Nat \ {0}
  BY PublicAssumption
<1>2. rateKey = Absent /\ rateKey.count = 0 /\ rateKey.ttl = NoExpiry
  BY DEF PublicInit, Absent
<1>3. rateKey \in [count: 0..Limit + 1, ttl: 1..NoExpiry]
  BY <1>1, <1>2 DEF Absent, NoExpiry
<1>4. admitted = [age \in 0..Window - 1 |-> 0] /\ admitted \in [0..Window - 1 -> Nat]
  BY DEF PublicInit
<1>5. \A r \in PublicRequests : visit[r].pc = "gone"
  BY DEF PublicInit, Gone
<1>6. Recent(admitted, Window) = 0
  <2> DEFINE Good == {k \in 0..Window : Recent(admitted, k) = 0}
  <2>1. 0 \in Good
    BY <1>1, <1>4, RecentAddsUp
  <2>2. ASSUME NEW k \in 0..Window, k \in Good, k + 1 \in 0..Window PROVE k + 1 \in Good
    <3>1. k \in 0..Window - 1 /\ Recent(admitted, k) = 0
      BY <1>1, <2>2
    <3>2. Recent(admitted, k + 1) = Recent(admitted, k) + admitted[k]
      BY <1>4, <3>1, RecentAddsUp
    <3>3. admitted[k] = 0
      BY <1>4, <3>1
    <3>4. Recent(admitted, k + 1) = 0
      BY <3>1, <3>2, <3>3
    <3> QED
      BY <2>2, <3>4
  <2> HIDE DEF Good
  <2>3. \A k \in 0..Window : k \in Good
    BY <1>1, <2>1, <2>2, TickByTick
  <2> QED
    BY <1>1, <2>3 DEF Good
<1>7. PublicTypeOK
  BY <1>2, <1>3, <1>4 DEF PublicInit, PublicTypeOK
<1>8. PendingInv /\ StoredPlansWereOffered
  BY <1>5 DEF PendingInv, Pending, StoredPlansWereOffered
<1>9. BudgetInv
  BY <1>1, <1>2, <1>6 DEF BudgetInv
<1> QED
  BY <1>4, <1>7, <1>8, <1>9 DEF PublicInv

\* Letting one request in adds one to each sum.
LEMMA AdmittingAddsOne ==
  ASSUME admitted \in [0..Window - 1 -> Nat], admitted' = [admitted EXCEPT ![0] = @ + 1]
  PROVE  /\ admitted' \in [0..Window - 1 -> Nat]
         /\ Recent(admitted', Window) = Recent(admitted, Window) + 1
         /\ \A k \in 0..Window : Recent(admitted', k) <= Recent(admitted, k) + 1
         /\ Recent(admitted', 0) = 0
         /\ \A k \in 0..Window : Recent(admitted, k) \in Nat /\ Recent(admitted', k) \in Nat
<1>1. Window \in Nat \ {0}
  BY PublicAssumption
<1>2. /\ admitted' \in [0..Window - 1 -> Nat]
      /\ \A k \in 0..Window :
           Recent(admitted', k) = Recent(admitted, k) + (IF k = 0 THEN 0 ELSE 1)
  BY RecentCountsNew
<1>3. \A k \in 0..Window : Recent(admitted, k) \in Nat /\ Recent(admitted', k) \in Nat
  BY <1>2, RecentAddsUp
<1>4. Recent(admitted', 0) = 0
  BY <1>2, RecentAddsUp
<1>5. Window \in 0..Window /\ Window # 0
  BY <1>1
<1>6. ASSUME NEW k \in 0..Window PROVE Recent(admitted', k) <= Recent(admitted, k) + 1
  <2>1. PICK a \in Nat : a = Recent(admitted, k)
    BY <1>3
  <2>2. Recent(admitted', k) = a + (IF k = 0 THEN 0 ELSE 1)
    BY <1>2, <2>1
  <2> QED
    BY <2>1, <2>2
<1>7. Recent(admitted', Window) = Recent(admitted, Window) + 1
  BY <1>2, <1>5
<1> QED
  BY <1>2, <1>3, <1>4, <1>6, <1>7

\* A request that is answered or moves on leaves the others where they are.
LEMMA MovesOn ==
  ASSUME PublicInv, NEW r \in PublicRequests, NEW v,
         visit' = [visit EXCEPT ![r] = v], v.pc # "counted",
         v.pc = "answered" => (v.stored <=> v.answer = "ENGINE")
  PROVE  /\ StoredPlansWereOffered'
         /\ DOMAIN visit' = PublicRequests
         /\ Pending' = Pending \ {r}
<1>1. DOMAIN visit = PublicRequests
  BY DEF PublicInv, PublicTypeOK
<1>2. visit'[r] = v /\ \A q \in PublicRequests \ {r} : visit'[q] = visit[q]
  BY <1>1
<1>3. DOMAIN visit' = PublicRequests
  BY <1>1
<1>4. StoredPlansWereOffered'
  BY <1>2 DEF PublicInv, StoredPlansWereOffered
<1>5. Pending' = Pending \ {r}
  BY <1>2 DEF Pending
<1> QED
  BY <1>3, <1>4, <1>5

\* A judged request has a place in the limiter's answers.
LEMMA Judged ==
  ASSUME PublicInv, NEW r \in PublicRequests, NEW admit \in BOOLEAN,
         NEW refusal \in {"UNAVAILABLE", "RATE_LIMITED"}, Pass(r, admit, refusal)
  PROVE  /\ StoredPlansWereOffered'
         /\ DOMAIN visit' = PublicRequests
         /\ Pending' = Pending \ {r}
<1>1. CASE admit
  <2>1. visit' = [visit EXCEPT ![r] = At("admitted")]
    BY <1>1 DEF Pass
  <2>2. At("admitted").pc = "admitted"
    BY DEF At
  <2> HIDE DEF At
  <2> QED
    BY <2>1, <2>2, MovesOn
<1>2. CASE ~admit
  <2>1. visit' = [visit EXCEPT ![r] = Answered(refusal, FALSE)]
    BY <1>2 DEF Pass
  <2>2. /\ Answered(refusal, FALSE).pc = "answered"
        /\ Answered(refusal, FALSE).answer = refusal
        /\ Answered(refusal, FALSE).stored = FALSE
    BY DEF Answered
  <2> HIDE DEF Answered
  <2> QED
    BY <2>1, <2>2, MovesOn
<1> QED
  BY <1>1, <1>2

\* Nothing is let in, and the key stays.
LEMMA NothingLetIn ==
  ASSUME PublicInv, StoredPlansWereOffered', DOMAIN visit' = PublicRequests,
         NEW r \in PublicRequests, Pending' = Pending \ {r},
         rateKey' = rateKey, redisUp' \in BOOLEAN, admitted' = admitted
  PROVE  PublicInv'
<1>1. Limit \in Nat \ {0} /\ Window \in Nat \ {0}
  BY PublicAssumption
<1>2. PublicTypeOK'
  BY DEF PublicInv, PublicTypeOK
<1>3. PendingInv'
  BY DEF PublicInv, PendingInv
<1>4. ASSUME Production PROVE BudgetInv'
  <2>1. BudgetInv
    BY <1>4 DEF PublicInv
  <2>2. rateKey.count \in Nat
    BY <1>1 DEF PublicInv, PublicTypeOK
  <2>3. PICK a \in Nat : a = Recent(admitted, Window)
    BY <1>1, RecentAddsUp DEF PublicInv
  <2>4. PICK c \in Nat : c = Spent(rateKey.count)
    BY <1>1, <2>2 DEF Spent
  <2>5. a + (IF Pending = {} THEN 0 ELSE 1) <= Limit + c
          => a + (IF Pending' = {} THEN 0 ELSE 1) <= Limit + c
    BY <1>1
  <2>6. Spent(rateKey.count)' = Spent(rateKey.count)
    BY DEF Spent
  <2> QED
    BY <2>1, <2>3, <2>4, <2>5, <2>6 DEF BudgetInv
<1> QED
  BY <1>2, <1>3, <1>4 DEF PublicInv

\* Limiter and key unavailable: production lets nobody in.
LEMMA UnavailableKeeps ==
  ASSUME PublicInv, NEW r \in PublicRequests, Unavailable(r), rateKey' = rateKey,
         redisUp' = redisUp
  PROVE  PublicInv'
<1>1. /\ StoredPlansWereOffered' /\ DOMAIN visit' = PublicRequests
      /\ Pending' = Pending \ {r}
  BY Judged, PublicAssumption DEF Unavailable
<1>2. redisUp' \in BOOLEAN
  BY DEF PublicInv, PublicTypeOK
<1>3. CASE Production
  <2>1. admitted' = admitted
    BY <1>3 DEF Unavailable, Pass
  <2> QED
    BY <1>1, <1>2, <2>1, NothingLetIn
<1>4. CASE ~Production
  <2>1. admitted' \in [0..Window - 1 -> Nat]
    <3>1. admitted' = [admitted EXCEPT ![0] = @ + 1]
      BY <1>4 DEF Unavailable, Pass
    <3> QED
      BY <3>1, AdmittingAddsOne DEF PublicInv
  <2>2. PublicTypeOK'
    <3>1. DOMAIN admitted' = 0..Window - 1
      BY <2>1
    <3> QED
      BY <1>1, <1>2, <3>1 DEF PublicInv, PublicTypeOK
  <2>3. PendingInv'
    BY <1>1 DEF PublicInv, PendingInv
  <2> QED
    BY <1>1, <1>4, <2>1, <2>2, <2>3 DEF PublicInv
<1> QED
  BY <1>3, <1>4

\* The steps of an admitted request concern neither the key nor the admissions.
LEMMA ServingKeeps ==
  ASSUME PublicInv, NEW r \in PublicRequests,
         Die(r) \/ Evaluate(r) \/ Offer(r) \/ FailCommit(r) \/ FallBack(r) \/ Leave(r)
  PROVE  PublicInv'
<1>1. rateKey' = rateKey /\ redisUp' = redisUp /\ admitted' = admitted /\ redisUp' \in BOOLEAN
  BY DEF Die, Evaluate, Offer, FailCommit, FallBack, Leave, PublicInv, PublicTypeOK
<1>2. /\ Gone.pc = "gone" /\ At("planned").pc = "planned" /\ At("raised").pc = "raised"
      /\ Answered("ENGINE", TRUE).pc = "answered" /\ Answered("ENGINE", TRUE).stored
      /\ Answered("ENGINE", TRUE).answer = "ENGINE"
      /\ Answered("REGIONAL", FALSE).pc = "answered" /\ ~Answered("REGIONAL", FALSE).stored
      /\ Answered("REGIONAL", FALSE).answer = "REGIONAL"
  BY DEF Gone, At, Answered
<1>3. PICK v \in {Gone, At("planned"), At("raised"), Answered("ENGINE", TRUE),
                  Answered("REGIONAL", FALSE)} : visit' = [visit EXCEPT ![r] = v]
  BY DEF Die, Evaluate, Offer, FailCommit, FallBack, Leave
<1>4. v.pc # "counted" /\ (v.pc = "answered" => (v.stored <=> v.answer = "ENGINE"))
  BY <1>2, <1>3
<1>5. /\ StoredPlansWereOffered' /\ DOMAIN visit' = PublicRequests
      /\ Pending' = Pending \ {r}
  BY <1>3, <1>4, MovesOn
<1> QED
  BY <1>1, <1>5, NothingLetIn

\* Counting a request: the first of a key waits for the expiry, later ones are let in
\* while the count allows it.
LEMMA CountKeeps ==
  ASSUME PublicInv, NEW r \in PublicRequests, Count(r)
  PROVE  PublicInv'
<1>1. Limit \in Nat \ {0} /\ Window \in Nat \ {0}
  BY PublicAssumption
<1>2. PICK c \in 0..Limit + 1 : c = rateKey.count
  BY DEF PublicInv, PublicTypeOK
<1>3. PICK t \in 1..NoExpiry : t = rateKey.ttl
  BY DEF PublicInv, PublicTypeOK
<1>4. PICK d : d = Counted /\ d = (IF c > Limit THEN Limit + 1 ELSE c + 1)
  BY <1>2 DEF Counted
<1>5. d \in 1..Limit + 1 /\ d # 0
  BY <1>1, <1>4
<1>6. /\ rateKey' = [count |-> d, ttl |-> t] /\ rateKey'.count = d /\ rateKey'.ttl = t
      /\ redisUp' = redisUp /\ redisUp' \in BOOLEAN
  BY <1>3, <1>4 DEF Count, ExpiryAfterCount, PublicInv, PublicTypeOK
<1>7. rateKey' \in [count: 0..Limit + 1, ttl: 1..NoExpiry]
  BY <1>5, <1>6
<1>8. r \notin Pending
  BY DEF Count, Pending, Gone
<1>9. DOMAIN visit = PublicRequests /\ admitted \in [0..Window - 1 -> Nat]
  BY DEF PublicInv, PublicTypeOK
<1>10. PICK a \in Nat : a = Recent(admitted, Window)
  BY <1>1, <1>9, RecentAddsUp
<1>11. CASE d = 1
  <2>1. c = 0
    BY <1>1, <1>4, <1>11
  <2>2. t = NoExpiry /\ Pending = {}
    BY <1>2, <1>3, <2>1 DEF PublicInv, PublicTypeOK, PendingInv, Absent
  <2>3. visit' = [visit EXCEPT ![r] = At("counted")] /\ admitted' = admitted
    BY <1>4, <1>11 DEF Count
  <2>4. visit'[r] = At("counted") /\ \A q \in PublicRequests \ {r} : visit'[q] = visit[q]
    BY <1>9, <2>3
  <2>5. At("counted").pc = "counted"
    BY DEF At
  <2>6. DOMAIN visit' = PublicRequests
    BY <1>9, <2>3
  <2>7. Pending' = {r}
    BY <2>2, <2>4, <2>5 DEF Pending
  <2>8. StoredPlansWereOffered'
    BY <2>4, <2>5 DEF PublicInv, StoredPlansWereOffered
  <2>9. PublicTypeOK'
    BY <1>5, <1>6, <1>7, <2>3, <2>6 DEF PublicInv, PublicTypeOK
  <2>10. PendingInv'
    BY <1>5, <1>6, <2>2, <2>7 DEF PendingInv
  <2>11. ASSUME Production PROVE BudgetInv'
    <3>1. a <= Limit
      BY <1>2, <1>10, <2>1, <2>11 DEF PublicInv, BudgetInv
    <3>2. Spent(d) = 1
      BY <1>1, <1>11 DEF Spent
    <3>3. a + 1 <= Limit + Spent(d)
      BY <1>1, <3>1, <3>2
    <3> QED
      BY <1>5, <1>6, <1>10, <2>2, <2>3, <2>7, <3>3 DEF BudgetInv
  <2> QED
    BY <1>9, <2>3, <2>8, <2>9, <2>10, <2>11 DEF PublicInv
<1>12. CASE d # 1
  <2>1. c # 0 /\ c \in Nat
    BY <1>1, <1>4, <1>12
  <2>2. Pass(r, d <= Limit, "RATE_LIMITED")
    BY <1>4, <1>12 DEF Count, Admits
  <2>3. StoredPlansWereOffered' /\ DOMAIN visit' = PublicRequests /\ Pending' = Pending
    <3>1. (d <= Limit) \in BOOLEAN
      OBVIOUS
    <3>2. /\ StoredPlansWereOffered' /\ DOMAIN visit' = PublicRequests
          /\ Pending' = Pending \ {r}
      BY <2>2, <3>1, Judged
    <3> QED
      BY <1>8, <3>2
  <2>4. PendingInv'
    BY <1>2, <1>3, <1>5, <1>6, <2>3 DEF PublicInv, PendingInv
  <2>5. PICK p \in {0, 1} : p = IF Pending = {} THEN 0 ELSE 1
    OBVIOUS
  <2>6. PICK m \in Nat : m = Spent(c)
    BY <1>1, <2>1 DEF Spent
  <2>7. Production => /\ a + p <= Limit + m
                      /\ t # NoExpiry => Recent(admitted, Window - t) <= m
    BY <1>2, <1>3, <1>10, <2>1, <2>5, <2>6 DEF PublicInv, BudgetInv
  <2>8. t # NoExpiry => Window - t \in 0..Window
    BY <1>1, <1>3 DEF NoExpiry
  <2>9. CASE d <= Limit
    <3>1. admitted' = [admitted EXCEPT ![0] = @ + 1]
      BY <2>2, <2>9 DEF Pass
    <3>2. /\ admitted' \in [0..Window - 1 -> Nat]
          /\ Recent(admitted', Window) = a + 1
          /\ \A k \in 0..Window : Recent(admitted', k) <= Recent(admitted, k) + 1
          /\ \A k \in 0..Window : Recent(admitted, k) \in Nat /\ Recent(admitted', k) \in Nat
      BY <1>9, <1>10, <3>1, AdmittingAddsOne
    <3>3. Spent(d) = m + 1
      BY <1>1, <1>4, <1>5, <2>1, <2>6, <2>9 DEF Spent
    <3>4. ASSUME Production PROVE BudgetInv'
      <4>1. (a + 1) + p <= Limit + Spent(d)
        BY <1>1, <2>5, <2>7, <3>3, <3>4
      <4>2. ASSUME t # NoExpiry PROVE Recent(admitted', Window - t) <= Spent(d)
        <5>1. PICK k \in 0..Window : k = Window - t
          BY <2>8, <4>2
        <5>2. Recent(admitted, k) <= m /\ Recent(admitted', k) <= Recent(admitted, k) + 1
          BY <2>7, <3>2, <3>4, <4>2, <5>1
        <5>3. Recent(admitted, k) \in Nat /\ Recent(admitted', k) \in Nat
          BY <3>2
        <5>4. Recent(admitted', k) <= m + 1
          BY <5>2, <5>3
        <5> QED
          BY <3>3, <5>1, <5>4
      <4> QED
        BY <1>5, <1>6, <2>3, <2>5, <3>2, <4>1, <4>2 DEF BudgetInv
    <3>5. PublicTypeOK'
      BY <1>5, <1>6, <1>7, <2>3, <3>2 DEF PublicTypeOK
    <3> QED
      BY <2>3, <2>4, <3>2, <3>4, <3>5 DEF PublicInv
  <2>10. CASE ~(d <= Limit)
    <3>1. admitted' = admitted
      BY <2>2, <2>10 DEF Pass
    <3>2. Spent(d) = m
      BY <1>1, <1>4, <1>5, <2>1, <2>6, <2>10 DEF Spent
    <3>3. ASSUME Production PROVE BudgetInv'
      BY <1>5, <1>6, <1>10, <2>3, <2>5, <2>7, <3>1, <3>2, <3>3 DEF BudgetInv
    <3>4. PublicTypeOK'
      BY <1>5, <1>6, <1>7, <1>9, <2>3, <3>1 DEF PublicTypeOK
    <3> QED
      BY <1>9, <2>3, <2>4, <3>1, <3>3, <3>4 DEF PublicInv
  <2> QED
    BY <2>9, <2>10
<1> QED
  BY <1>11, <1>12

\* Setting the expiry starts the time of the key, with nothing younger than it.
LEMMA SetExpiryKeeps ==
  ASSUME PublicInv, NEW r \in PublicRequests, SetExpiry(r)
  PROVE  PublicInv'
<1>1. Limit \in Nat \ {0} /\ Window \in Nat \ {0}
  BY PublicAssumption
<1>2. CASE ~redisUp
  BY <1>2, UnavailableKeeps DEF SetExpiry
<1>3. CASE redisUp
  <2>1. PICK c \in 0..Limit + 1 : c = rateKey.count
    BY DEF PublicInv, PublicTypeOK
  <2>2. r \in Pending /\ Pending = {r} /\ c # 0
    BY <2>1 DEF SetExpiry, Pending, PublicInv, PendingInv
  <2>3. rateKey # Absent
    BY <2>1, <2>2 DEF Absent
  <2>4. rateKey' = [rateKey EXCEPT !.ttl = Window]
    BY <1>3, <2>3 DEF SetExpiry
  <2>5. /\ rateKey'.count = c /\ rateKey'.ttl = Window
        /\ rateKey' \in [count: 0..Limit + 1, ttl: 1..NoExpiry]
    BY <1>1, <2>1, <2>4 DEF PublicInv, PublicTypeOK, NoExpiry
  <2>6. Pass(r, TRUE, "RATE_LIMITED")
    <3>1. Admits(1)
      BY <1>1 DEF Admits
    <3> QED
      BY <1>3, <3>1 DEF SetExpiry, Pass
  <2>7. StoredPlansWereOffered' /\ DOMAIN visit' = PublicRequests /\ Pending' = {}
    BY <2>2, <2>6, Judged
  <2>8. admitted \in [0..Window - 1 -> Nat] /\ admitted' = [admitted EXCEPT ![0] = @ + 1]
    BY <2>6 DEF Pass, PublicInv
  <2>9. PICK a \in Nat : a = Recent(admitted, Window)
    BY <1>1, <2>8, RecentAddsUp
  <2>10. /\ admitted' \in [0..Window - 1 -> Nat]
         /\ Recent(admitted', Window) = a + 1 /\ Recent(admitted', 0) = 0
    BY <2>8, <2>9, AdmittingAddsOne
  <2>11. PublicTypeOK'
    BY <2>2, <2>5, <2>7, <2>10 DEF SetExpiry, PublicInv, PublicTypeOK
  <2>12. PendingInv'
    BY <2>7 DEF PendingInv
  <2>13. ASSUME Production PROVE BudgetInv'
    <3>1. a + 1 <= Limit + Spent(c)
      BY <2>1, <2>2, <2>9, <2>13 DEF PublicInv, BudgetInv
    <3>2. Spent(c) \in Nat /\ 0 <= Spent(c)
      BY <1>1, <2>1 DEF Spent
    <3>3. (a + 1) + 0 <= Limit + Spent(c) /\ Window - Window = 0
      BY <1>1, <3>1
    <3> QED
      BY <2>2, <2>5, <2>7, <2>10, <3>2, <3>3 DEF BudgetInv
  <2> QED
    BY <2>7, <2>10, <2>11, <2>12, <2>13 DEF PublicInv
<1> QED
  BY <1>2, <1>3

\* When a key goes, what was let in before its expiry was set is forgotten too.
LEMMA TickKeeps == PublicInv /\ Tick => PublicInv'
<1> SUFFICES ASSUME PublicInv, Tick PROVE PublicInv'
  OBVIOUS
<1>1. Limit \in Nat \ {0} /\ Window \in Nat \ {0} /\ Window - 1 \in 0..Window - 1
      /\ (Window - 1) + 1 = Window
  BY PublicAssumption
<1>2. PICK c \in 0..Limit + 1 : c = rateKey.count
  BY DEF PublicInv, PublicTypeOK
<1>3. PICK t \in 1..NoExpiry : t = rateKey.ttl
  BY DEF PublicInv, PublicTypeOK
<1>4. redisUp' = redisUp /\ visit' = visit
  BY DEF Tick
<1>5. PICK f : f = admitted /\ f \in [0..Window - 1 -> Nat]
  BY DEF PublicInv
<1>6. PICK g : g = admitted'
               /\ g = [age \in 0..Window - 1 |-> IF age = 0 THEN 0 ELSE f[age - 1]]
  BY <1>5 DEF Tick
<1>7. /\ g \in [0..Window - 1 -> Nat]
      /\ \A k \in 0..Window - 1 : Recent(g, k + 1) = Recent(f, k)
  BY <1>5, <1>6, RecentAges
<1>8. /\ \A k \in 0..Window : Recent(f, k) \in Nat
      /\ Recent(f, (Window - 1) + 1) = Recent(f, Window - 1) + f[Window - 1]
  BY <1>1, <1>5, RecentAddsUp
<1>9. Recent(g, Window) = Recent(f, Window - 1) /\ Recent(f, Window - 1) <= Recent(f, Window)
      /\ Recent(f, Window - 1) \in Nat /\ Recent(f, Window) \in Nat
  <2>1. Recent(f, Window) = Recent(f, Window - 1) + f[Window - 1]
    BY <1>1, <1>8
  <2>2. Recent(f, Window - 1) \in Nat /\ Recent(f, Window) \in Nat /\ f[Window - 1] \in Nat
    BY <1>1, <1>5, <1>8
  <2>3. PICK x \in Nat, y \in Nat : x = Recent(f, Window - 1) /\ y = f[Window - 1]
    BY <2>2
  <2>4. x <= x + y
    BY <2>3
  <2> QED
    BY <1>1, <1>7, <2>1, <2>2, <2>3, <2>4
<1>10. StoredPlansWereOffered' /\ Pending' = Pending /\ DOMAIN visit' = PublicRequests
  BY <1>4 DEF StoredPlansWereOffered, Pending, PublicInv, PublicTypeOK
<1>11. redisUp' \in BOOLEAN /\ DOMAIN admitted' = 0..Window - 1
       /\ admitted' \in [0..Window - 1 -> Nat]
  BY <1>4, <1>6, <1>7 DEF PublicInv, PublicTypeOK
<1>12. CASE t = NoExpiry
  <2>1. rateKey' = rateKey
    BY <1>3, <1>12 DEF Tick
  <2>2. PublicTypeOK' /\ PendingInv'
    BY <1>10, <1>11, <2>1 DEF PublicInv, PublicTypeOK, PendingInv
  <2>3. ASSUME Production PROVE BudgetInv'
    <3>1. PICK x \in Nat, y \in Nat : x = Recent(g, Window) /\ y = Recent(f, Window)
      BY <1>9
    <3>2. x <= y
      BY <1>9, <3>1
    <3>3. PICK p \in {0, 1} : p = IF Pending = {} THEN 0 ELSE 1
      OBVIOUS
    <3>4. PICK m \in Nat : m = Spent(c)
      BY <1>1, <1>2 DEF Spent
    <3>5. (c = 0 => y <= Limit) /\ (c # 0 => y + p <= Limit + m)
      BY <1>2, <1>5, <2>3, <3>1, <3>3, <3>4 DEF PublicInv, BudgetInv
    <3>6. (c = 0 => x <= Limit) /\ (c # 0 => x + p <= Limit + m)
      BY <1>1, <3>2, <3>5
    <3> QED
      BY <1>2, <1>3, <1>6, <1>10, <1>12, <2>1, <3>1, <3>3, <3>4, <3>6 DEF BudgetInv
  <2> QED
    BY <1>10, <1>11, <2>2, <2>3 DEF PublicInv
<1>13. CASE t # NoExpiry
  <2>1. Pending = {}
    BY <1>3, <1>13 DEF PublicInv, PendingInv
  <2>2. c # 0
    BY <1>2, <1>3, <1>13 DEF PublicInv, PublicTypeOK, Absent
  <2>3. PICK m \in Nat : m = Spent(c) /\ m <= Limit
    BY <1>1, <1>2 DEF Spent
  <2>4. ASSUME Production
        PROVE  /\ Recent(f, Window) + 0 <= Limit + m
               /\ Recent(f, Window - t) <= m
    BY <1>2, <1>3, <1>5, <1>13, <2>1, <2>2, <2>3, <2>4 DEF PublicInv, BudgetInv
  <2>5. CASE t = 1
    <3>1. rateKey' = Absent
      BY <1>3, <1>13, <2>5 DEF Tick
    <3>2. rateKey'.count = 0 /\ rateKey'.ttl = NoExpiry
          /\ rateKey' \in [count: 0..Limit + 1, ttl: 1..NoExpiry]
      BY <1>1, <3>1 DEF Absent, NoExpiry
    <3>3. PublicTypeOK' /\ PendingInv'
      <4>1. Absent' = Absent
        BY DEF Absent
      <4> QED
        BY <1>10, <1>11, <2>1, <3>1, <3>2, <4>1 DEF PublicTypeOK, PendingInv
    <3>4. ASSUME Production PROVE BudgetInv'
      <4>1. Recent(g, Window) <= m
        BY <1>9, <2>4, <2>5, <3>4
      <4>2. Recent(g, Window) <= Limit
        BY <1>1, <1>9, <2>3, <4>1
      <4> QED
        BY <1>6, <3>2, <4>2 DEF BudgetInv
    <3> QED
      BY <1>10, <1>11, <3>3, <3>4 DEF PublicInv
  <2>6. CASE t # 1
    <3>1. rateKey' = [rateKey EXCEPT !.ttl = t - 1]
      BY <1>3, <1>13, <2>6 DEF Tick
    <3>2. /\ rateKey'.count = c /\ rateKey'.ttl = t - 1
          /\ rateKey' \in [count: 0..Limit + 1, ttl: 1..NoExpiry]
      BY <1>1, <1>2, <1>3, <1>13, <2>6, <3>1 DEF PublicInv, PublicTypeOK, NoExpiry
    <3>3. PublicTypeOK' /\ PendingInv'
      BY <1>10, <1>11, <2>1, <2>2, <3>2 DEF PublicTypeOK, PendingInv
    <3>4. Window - t \in 0..Window - 1 /\ Window - (t - 1) = (Window - t) + 1
      BY <1>1, <1>3, <1>13 DEF NoExpiry
    <3>5. ASSUME Production PROVE BudgetInv'
      <4>1. PICK x \in Nat, y \in Nat : x = Recent(g, Window) /\ y = Recent(f, Window)
        BY <1>9
      <4>2. x + 0 <= Limit + m
        BY <1>1, <1>9, <2>4, <3>5, <4>1
      <4>3. Recent(g, Window - (t - 1)) = Recent(f, Window - t)
        BY <1>7, <3>4
      <4>4. Recent(g, Window - (t - 1)) <= m
        BY <2>4, <3>5, <4>3
      <4> QED
        BY <1>6, <1>10, <2>1, <2>2, <2>3, <3>2, <4>1, <4>2, <4>4 DEF BudgetInv
    <3> QED
      BY <1>10, <1>11, <3>3, <3>5 DEF PublicInv
  <2> QED
    BY <2>5, <2>6
<1> QED
  BY <1>12, <1>13

\* Redis comes and goes without the key.
LEMMA OutageKeeps == PublicInv /\ (Outage \/ UNCHANGED publicVars) => PublicInv'
<1> SUFFICES ASSUME PublicInv, Outage \/ UNCHANGED publicVars PROVE PublicInv'
  OBVIOUS
<1>1. rateKey' = rateKey /\ visit' = visit /\ admitted' = admitted /\ redisUp' \in BOOLEAN
  BY DEF Outage, publicVars, PublicInv, PublicTypeOK
<1>2. Pending' = Pending /\ StoredPlansWereOffered' /\ PublicTypeOK'
  BY <1>1 DEF Pending, PublicInv, StoredPlansWereOffered, PublicTypeOK
<1>3. PendingInv' /\ (Production => BudgetInv')
  BY <1>1, <1>2 DEF PublicInv, PendingInv, BudgetInv, Spent
<1> QED
  BY <1>1, <1>2, <1>3 DEF PublicInv

\* Every step keeps the budget.
LEMMA PublicStep == PublicInv /\ [PublicNext]_publicVars => PublicInv'
<1>1. ASSUME PublicInv, NEW r \in PublicRequests, CountUnavailable(r) PROVE PublicInv'
  BY <1>1, UnavailableKeeps DEF CountUnavailable
<1> QED
  BY <1>1, CountKeeps, SetExpiryKeeps, ServingKeeps, TickKeeps, OutageKeeps DEF PublicNext

\* Whatever fails between the two calls to Redis, for any limit and window, production
\* lets in at most twice the limit in any window of time, and exactly the plans of
\* the engine that were offered are stored.
THEOREM PublicAccessCorrect == PublicSpec => []PublicAccessIsSound
<1>1. PublicInv => PublicAccessIsSound
  <2> SUFFICES ASSUME PublicInv, Production PROVE Total(admitted) <= 2 * Limit
    BY DEF PublicInv, PublicAccessIsSound, AdmissionsAreBounded
  <2>1. Limit \in Nat \ {0} /\ Window \in Nat \ {0}
    BY PublicAssumption
  <2>2. PICK a \in Nat : a = Total(admitted) /\ a = Recent(admitted, Window)
    BY <2>1, RecentAddsUp DEF PublicInv
  <2>3. rateKey.count \in Nat
    BY <2>1 DEF PublicInv, PublicTypeOK
  <2>4. PICK m \in Nat : m = Spent(rateKey.count) /\ m <= Limit
    BY <2>1, <2>3 DEF Spent
  <2>5. PICK p \in {0, 1} : p = IF Pending = {} THEN 0 ELSE 1
    OBVIOUS
  <2>6. a <= Limit \/ a + p <= Limit + m
    BY <2>2, <2>4, <2>5 DEF PublicInv, BudgetInv
  <2> QED
    BY <2>1, <2>2, <2>4, <2>5, <2>6
<1> QED
  BY <1>1, PublicBegins, PublicStep, PTL DEF PublicSpec

-----------------------------------------------------------------------------
(***************************************************************************)
(* Proofs about RiskFeatures: the risk model is fed with one file per day, *)
(* fresh rows, windows that nest and zones that follow the slopes.         *)
(*                                                                         *)
(* The argument: a commit leaves a row of its own for each edge of its     *)
(* file and removes the others of that day, and it never takes away the    *)
(* last row of an edge, so that an edge taken for its recent row still has *)
(* one when it is predicted.  The windows are sums of up to three rows.    *)
(***************************************************************************)

\* The feature store on its own.
FeatureSpec == FeatureInit /\ [][FeatureNext]_featureVars

\* What an ingestion and a pass of the risk worker are.
IngestionType == [pc : {"writing"}, at : Nat] \union [pc : {"committed"}]
PassType == [pc : {"waiting"}] \union [pc : {"predicting"}, left : SUBSET FeatureEdges, cutoff : Int]
              \union [pc : {"ended"}]

\* The store holds what ingestions make of their edges, one row per edge and day.
StoreInv ==
  /\ ingestion \in [Ingestions -> IngestionType]
  /\ \A i \in Ingestions : ingestion[i].pc = "writing" => ingestion[i].at <= Len(FileEdges[i]) + 1
  /\ \A w \in weather : \E i \in Ingestions : \E e \in ToSet(FileEdges[i]) : w = Observed(i, e)
  /\ \A v, w \in weather : SameKey(v, w) => v = w

\* The edges that a pass still has to predict have rows it was to look at.
DuePassInv ==
  /\ riskPass \in [Passes -> PassType]
  /\ today \in Nat
  /\ \A p \in Passes : riskPass[p].pc = "predicting" =>
       \A e \in riskPass[p].left :
         \E w \in weather : w.edge = e /\ w.day >= riskPass[p].cutoff

TerrainInv ==
  /\ DOMAIN terrain \subseteq FeatureEdges
  /\ terrain = [edge \in DOMAIN terrain |-> ZoneBySlope(edge)]

PredictedInv ==
  \A q \in predictions :
    /\ q.edge \in FeatureEdges
    /\ q.from.day >= q.cutoff
    /\ q.vector.score = ZoneScore[ZoneBySlope(q.edge)]

FeatureInv == StoreInv /\ DuePassInv /\ TerrainInv /\ PredictedInv /\ FilesDoNotMix

\* What is known of the observation of an edge.
LEMMA ObservedFacts ==
  \A i \in Ingestions : \A e \in ToSet(FileEdges[i]) :
    /\ Observed(i, e).edge = e /\ Observed(i, e).by = i /\ Observed(i, e).day = FileDay[i]
    /\ FileDay[i] \in Nat /\ e \in FeatureEdges
BY FeatureAssumption DEF Observed, FeatureEdges

\* The edges of a file, row by row.
LEMMA FileRows ==
  \A i \in Ingestions :
    /\ Len(FileEdges[i]) \in Nat
    /\ ToSet(FileEdges[i]) = {FileEdges[i][n] : n \in 1..Len(FileEdges[i])}
<1> SUFFICES ASSUME NEW i \in Ingestions
             PROVE  /\ Len(FileEdges[i]) \in Nat
                    /\ ToSet(FileEdges[i]) = {FileEdges[i][n] : n \in 1..Len(FileEdges[i])}
  OBVIOUS
<1>1. PICK T : FileEdges[i] \in Seq(T)
  BY FeatureAssumption
<1> QED
  BY <1>1 DEF ToSet

\* The empty store satisfies it.
LEMMA FeatureInitHolds == FeatureInit => FeatureInv
<1> SUFFICES ASSUME FeatureInit PROVE FeatureInv
  OBVIOUS
<1> USE DEF FeatureInit
<1>1. StoreInv
  BY FileRows DEF StoreInv, IngestionType
<1>2. DuePassInv
  BY DEF DuePassInv, PassType
<1>3. TerrainInv /\ PredictedInv /\ FilesDoNotMix
  BY DEF TerrainInv, PredictedInv, FilesDoNotMix
<1> QED
  BY <1>1, <1>2, <1>3 DEF FeatureInv

\* The steps of an ingestion that store nothing.
LEMMA WritingKeepsFeatures ==
  ASSUME FeatureInv, NEW i \in Ingestions, Upsert(i) \/ FailIngestion(i)
  PROVE  FeatureInv'
<1>1. UNCHANGED <<weather, terrain, riskPass, today, predictions>>
  BY DEF Upsert, FailIngestion
<1>2. ingestion[i] \in IngestionType /\ ingestion[i].pc = "writing"
  BY DEF FeatureInv, StoreInv, Upsert, FailIngestion
<1>3. ingestion[i] \in [pc : {"writing"}, at : Nat]
  BY <1>2 DEF IngestionType
<1>4. \A n \in Nat : LET y == [ingestion[i] EXCEPT !.at = n]
                     IN y \in IngestionType /\ y.at = n
  BY <1>3 DEF IngestionType
<1>5. \E n \in Nat : /\ n <= Len(FileEdges[i]) + 1
                     /\ ingestion' = [ingestion EXCEPT ![i] = [ingestion[i] EXCEPT !.at = n]]
  <2>1. CASE Upsert(i)
    <3>1. /\ ingestion' = [ingestion EXCEPT ![i] =
                             [ingestion[i] EXCEPT !.at = ingestion[i].at + 1]]
          /\ ingestion[i].at <= Len(FileEdges[i])
      BY <2>1 DEF Upsert
    <3>2. ingestion[i].at + 1 \in Nat
      BY <1>3
    <3>3. ingestion[i].at + 1 <= Len(FileEdges[i]) + 1
      BY <1>3, <3>1, FileRows
    <3> WITNESS ingestion[i].at + 1 \in Nat
    <3> QED
      BY <3>1, <3>3
  <2>2. CASE FailIngestion(i)
    <3>1. ingestion' = [ingestion EXCEPT ![i] = [ingestion[i] EXCEPT !.at = 1]]
      BY <2>2 DEF FailIngestion
    <3>2. 1 \in Nat /\ 1 <= Len(FileEdges[i]) + 1
      BY FileRows
    <3> WITNESS 1 \in Nat
    <3> QED
      BY <3>1, <3>2
  <2> QED
    BY <2>1, <2>2
<1>6. /\ ingestion' \in [Ingestions -> IngestionType]
      /\ ingestion'[i].at <= Len(FileEdges[i]) + 1
      /\ \A j \in Ingestions : j # i => ingestion'[j] = ingestion[j]
  BY <1>4, <1>5 DEF FeatureInv, StoreInv
<1>7. StoreInv'
  BY <1>1, <1>6 DEF FeatureInv, StoreInv, SameKey
<1>8. DuePassInv' /\ TerrainInv' /\ PredictedInv' /\ FilesDoNotMix'
  BY <1>1 DEF FeatureInv, DuePassInv, TerrainInv, PredictedInv, FilesDoNotMix
<1> QED
  BY <1>7, <1>8 DEF FeatureInv

\* A commit stores a row for each edge of its file and replaces those of its day.
LEMMA IngestionCommitKeepsFeatures ==
  ASSUME FeatureInv, NEW i \in Ingestions, CommitIngestion(i)
  PROVE  FeatureInv'
<1>1. UNCHANGED <<terrain, riskPass, today, predictions>>
  BY DEF CommitIngestion
<1>2. /\ ingestion' = [ingestion EXCEPT ![i] = [pc |-> "committed"]]
      /\ weather' = {w \in weather : \A n \in InFlight(i) : ~SameKey(w, n)} \union InFlight(i)
      /\ ingestion[i].pc = "writing" /\ ingestion[i].at > Len(FileEdges[i])
  BY DEF CommitIngestion, MayPublish
<1>3. ingestion[i].at \in Nat
  BY <1>2 DEF FeatureInv, StoreInv, IngestionType
<1>4. \A e \in ToSet(FileEdges[i]) : Observed(i, e) \in InFlight(i)
  <2> SUFFICES ASSUME NEW e \in ToSet(FileEdges[i]) PROVE Observed(i, e) \in InFlight(i)
    OBVIOUS
  <2>1. PICK n \in 1..Len(FileEdges[i]) : e = FileEdges[i][n]
    BY FileRows
  <2>2. n \in 1..ingestion[i].at - 1
    BY <1>2, <1>3, FileRows
  <2> QED
    BY <1>2, <2>1, <2>2 DEF InFlight
<1>5. ASSUME NEW x \in InFlight(i)
      PROVE  \E e \in ToSet(FileEdges[i]) : x = Observed(i, e)
  <2>1. PICK n \in 1..ingestion[i].at - 1 : x = Observed(i, FileEdges[i][n])
    BY <1>2 DEF InFlight
  <2>2. n \in 1..Len(FileEdges[i])
    BY <1>2, <1>3, FileRows DEF FeatureInv, StoreInv
  <2> QED
    BY <2>1, <2>2, FileRows
<1>6. \A x \in InFlight(i) : x.by = i /\ x.day = FileDay[i]
  BY <1>5, ObservedFacts
<1>7. StoreInv'
  <2>1. ingestion' \in [Ingestions -> IngestionType]
    BY <1>2 DEF FeatureInv, StoreInv, IngestionType
  <2>2. ASSUME NEW j \in Ingestions, ingestion'[j].pc = "writing"
        PROVE  ingestion'[j].at <= Len(FileEdges[j]) + 1
    BY <1>2, <2>2 DEF FeatureInv, StoreInv
  <2>3. ASSUME NEW w \in weather'
        PROVE  \E j \in Ingestions : \E e \in ToSet(FileEdges[j]) : w = Observed(j, e)
    BY <1>2, <1>5, <2>3 DEF FeatureInv, StoreInv
  <2>4. ASSUME NEW v \in weather', NEW w \in weather', SameKey(v, w)
        PROVE  v = w
    <3>1. CASE v \in InFlight(i) /\ w \in InFlight(i)
      <4>1. PICK d \in ToSet(FileEdges[i]) : v = Observed(i, d)
        BY <1>5, <3>1
      <4>2. PICK e \in ToSet(FileEdges[i]) : w = Observed(i, e)
        BY <1>5, <3>1
      <4>3. v.edge = d /\ w.edge = e
        BY <4>1, <4>2, ObservedFacts
      <4> QED
        BY <2>4, <4>1, <4>2, <4>3 DEF SameKey
    <3>2. CASE v \notin InFlight(i) /\ w \notin InFlight(i)
      BY <1>2, <2>4, <3>2 DEF FeatureInv, StoreInv
    <3>3. SameKey(w, v)
      BY <2>4 DEF SameKey
    <3> QED
      BY <1>2, <2>4, <3>1, <3>2, <3>3
  <2> QED
    BY <2>1, <2>2, <2>3, <2>4 DEF StoreInv, SameKey
<1>8. DuePassInv'
  <2>1. ASSUME NEW w \in weather
        PROVE  \E v \in weather' : v.edge = w.edge /\ v.day = w.day
    BY <1>2 DEF SameKey
  <2> QED
    BY <1>1, <2>1 DEF FeatureInv, DuePassInv
<1>9. TerrainInv' /\ PredictedInv'
  BY <1>1 DEF FeatureInv, TerrainInv, PredictedInv
<1>10. FilesDoNotMix'
  <2> SUFFICES ASSUME NEW a \in Ingestions, NEW b \in Ingestions, a # b,
                      FileDay[a] = FileDay[b], NEW v \in weather', NEW w \in weather',
                      v.edge \in ToSet(FileEdges[a]), v.edge \in ToSet(FileEdges[b]),
                      w.edge \in ToSet(FileEdges[a]), w.edge \in ToSet(FileEdges[b]),
                      v.by = a, w.by = b
               PROVE  FALSE
    BY DEF FilesDoNotMix
  <2>1. ASSUME NEW x \in weather', x.by # i, NEW j \in Ingestions, x.by = j,
               x.edge \in ToSet(FileEdges[i])
        PROVE  FileDay[j] # FileDay[i]
    <3>1. x \in weather /\ \A n \in InFlight(i) : ~SameKey(x, n)
      BY <1>2, <1>6, <2>1
    <3>2. x.day = FileDay[j]
      <4>1. PICK k \in Ingestions : \E e \in ToSet(FileEdges[k]) : x = Observed(k, e)
        BY <3>1 DEF FeatureInv, StoreInv
      <4> QED
        BY <2>1, <4>1, ObservedFacts
    <3>3. /\ Observed(i, x.edge).edge = x.edge /\ Observed(i, x.edge).day = FileDay[i]
          /\ Observed(i, x.edge) \in InFlight(i)
      BY <1>4, <2>1, ObservedFacts
    <3> QED
      BY <3>1, <3>2, <3>3 DEF SameKey
  <2>2. CASE a = i
    BY <2>1, <2>2
  <2>3. CASE b = i
    BY <2>1, <2>3
  <2>4. CASE a # i /\ b # i
    <3>1. v \in weather /\ w \in weather
      BY <1>2, <1>6, <2>4
    <3> QED
      BY <3>1 DEF FeatureInv, FilesDoNotMix
  <2> QED
    BY <2>2, <2>3, <2>4
<1> QED
  BY <1>7, <1>8, <1>9, <1>10 DEF FeatureInv

\* The terrain of some edges is computed.
LEMMA TerrainKeepsFeatures == FeatureInv /\ ComputeTerrain => FeatureInv'
<1> SUFFICES ASSUME FeatureInv, ComputeTerrain PROVE FeatureInv'
  OBVIOUS
<1>1. UNCHANGED <<weather, ingestion, riskPass, today, predictions>>
  BY DEF ComputeTerrain
<1>2. TerrainInv'
  <2>1. PICK some \in SUBSET FeatureEdges :
          terrain' = [edge \in some \union DOMAIN terrain |-> ZoneBySlope(edge)]
    BY DEF ComputeTerrain
  <2>2. DOMAIN terrain \subseteq FeatureEdges
    BY DEF FeatureInv, TerrainInv
  <2> QED
    BY <2>1, <2>2 DEF TerrainInv
<1>3. StoreInv' /\ DuePassInv' /\ PredictedInv' /\ FilesDoNotMix'
  BY <1>1 DEF FeatureInv, StoreInv, DuePassInv, PredictedInv, FilesDoNotMix
<1> QED
  BY <1>2, <1>3 DEF FeatureInv

\* A pass that begins takes the edges with recent rows.
LEMMA BeginKeepsFeatures ==
  ASSUME FeatureInv, NEW p \in Passes, BeginPass(p)
  PROVE  FeatureInv'
<1>1. UNCHANGED <<weather, terrain, ingestion, today, predictions>>
  BY DEF BeginPass
<1>2. riskPass' = [riskPass EXCEPT ![p] =
        [pc |-> "predicting", left |-> RecentEdges, cutoff |-> today - FreshDays]]
  BY DEF BeginPass
<1>3. today \in Nat /\ FreshDays \in Nat /\ today - FreshDays \in Int
  BY FeatureAssumption DEF FeatureInv, DuePassInv
<1>4. RecentEdges \subseteq FeatureEdges
  <2>1. \A w \in weather : w.edge \in FeatureEdges
    BY ObservedFacts DEF FeatureInv, StoreInv
  <2> QED
    BY <2>1 DEF RecentEdges
<1>5. \A e \in RecentEdges : \E w \in weather : w.edge = e /\ w.day >= today - FreshDays
  BY DEF RecentEdges
<1> DEFINE y == [pc |-> "predicting", left |-> RecentEdges, cutoff |-> today - FreshDays]
<1>6. /\ y \in PassType /\ y.pc = "predicting" /\ y.left = RecentEdges
      /\ y.cutoff = today - FreshDays
  <2> HIDE DEF RecentEdges
  <2> QED
    BY <1>3, <1>4 DEF PassType
<1> HIDE DEF y
<1>7. riskPass' = [riskPass EXCEPT ![p] = y]
  BY <1>2 DEF y
<1>8. DuePassInv'
  <2>1. riskPass' \in [Passes -> PassType]
    BY <1>6, <1>7 DEF FeatureInv, DuePassInv
  <2>2. riskPass'[p] = y /\ \A r \in Passes : r # p => riskPass'[r] = riskPass[r]
    BY <1>7 DEF FeatureInv, DuePassInv
  <2>3. ASSUME NEW r \in Passes, riskPass'[r].pc = "predicting", NEW e \in riskPass'[r].left
        PROVE  \E w \in weather : w.edge = e /\ w.day >= riskPass'[r].cutoff
    <3>1. CASE r = p
      BY <1>5, <1>6, <2>2, <2>3, <3>1
    <3>2. CASE r # p
      BY <2>2, <2>3, <3>2 DEF FeatureInv, DuePassInv
    <3> QED
      BY <3>1, <3>2
  <2> QED
    BY <1>1, <1>3, <2>1, <2>3 DEF DuePassInv
<1>9. StoreInv' /\ TerrainInv' /\ PredictedInv' /\ FilesDoNotMix'
  BY <1>1 DEF FeatureInv, StoreInv, TerrainInv, PredictedInv, FilesDoNotMix
<1> QED
  BY <1>8, <1>9 DEF FeatureInv

\* A prediction is made from the latest row, which is no older than the one for which
\* the edge was taken.
LEMMA PredictKeepsFeatures ==
  ASSUME FeatureInv, NEW p \in Passes, Predict(p)
  PROVE  FeatureInv'
<1>1. UNCHANGED <<weather, terrain, ingestion, today>>
  BY DEF Predict
<1>2. PICK edge \in riskPass[p].left :
        /\ riskPass' = [riskPass EXCEPT ![p].left = @ \ {edge}]
        /\ predictions' = predictions \union
             (IF HasTerrain(edge)
              THEN {[pass |-> p, edge |-> edge, from |-> w, cutoff |-> riskPass[p].cutoff,
                    vector |-> FeatureVector(edge, w)] :
                      w \in LatestObservation(edge)}
              ELSE {})
  BY DEF Predict
<1>3. riskPass[p].pc = "predicting" /\ riskPass[p] \in PassType
  BY DEF Predict, FeatureInv, DuePassInv
<1>4. riskPass[p] \in [pc : {"predicting"}, left : SUBSET FeatureEdges, cutoff : Int]
  BY <1>3 DEF PassType
<1>5. edge \in FeatureEdges
  BY <1>4
<1>6. PICK w0 \in weather : w0.edge = edge /\ w0.day >= riskPass[p].cutoff
  BY <1>3 DEF FeatureInv, DuePassInv
<1>7. \A w \in weather : w.day \in Nat
  BY ObservedFacts DEF FeatureInv, StoreInv
<1>8. \A w \in LatestObservation(edge) : w.day >= riskPass[p].cutoff
  BY <1>4, <1>6, <1>7 DEF LatestObservation
<1>9. PredictedInv'
  <2> SUFFICES ASSUME NEW q \in predictions'
               PROVE  /\ q.edge \in FeatureEdges
                      /\ q.from.day >= q.cutoff
                      /\ q.vector.score = ZoneScore[ZoneBySlope(q.edge)]
    BY DEF PredictedInv
  <2>1. CASE q \in predictions
    BY <2>1 DEF FeatureInv, PredictedInv
  <2>2. CASE q \notin predictions
    <3>1. HasTerrain(edge)
      BY <1>2, <2>2
    <3>2. PICK w \in LatestObservation(edge) :
            q = [pass |-> p, edge |-> edge, from |-> w, cutoff |-> riskPass[p].cutoff,
                 vector |-> FeatureVector(edge, w)]
      BY <1>2, <2>2
    <3>3. terrain[edge] = ZoneBySlope(edge)
      <4>1. edge \in DOMAIN terrain
        BY <3>1 DEF HasTerrain
      <4> QED
        BY <1>5, <4>1 DEF FeatureInv, TerrainInv
    <3>4. q.edge = edge /\ q.from = w /\ q.cutoff = riskPass[p].cutoff
      BY <3>2
    <3>5. q.vector.score = ZoneScore[terrain[edge]]
      BY <3>2 DEF FeatureVector
    <3> QED
      BY <1>5, <1>8, <3>3, <3>4, <3>5
  <2> QED
    BY <2>1, <2>2
<1>10. DuePassInv'
  <2> DEFINE y == [riskPass[p] EXCEPT !.left = @ \ {edge}]
  <2>1. /\ y \in PassType /\ y.left = riskPass[p].left \ {edge}
        /\ y.cutoff = riskPass[p].cutoff
    BY <1>4 DEF PassType
  <2>2. riskPass' = [riskPass EXCEPT ![p] = y]
    BY <1>2
  <2> HIDE DEF y
  <2>3. riskPass' \in [Passes -> PassType]
    BY <2>1, <2>2 DEF FeatureInv, DuePassInv
  <2>4. riskPass'[p] = y /\ \A r \in Passes : r # p => riskPass'[r] = riskPass[r]
    BY <2>2 DEF FeatureInv, DuePassInv
  <2>5. ASSUME NEW r \in Passes, riskPass'[r].pc = "predicting", NEW e \in riskPass'[r].left
        PROVE  \E w \in weather : w.edge = e /\ w.day >= riskPass'[r].cutoff
    <3>1. CASE r = p
      BY <1>3, <2>1, <2>4, <2>5, <3>1 DEF FeatureInv, DuePassInv
    <3>2. CASE r # p
      BY <2>4, <2>5, <3>2 DEF FeatureInv, DuePassInv
    <3> QED
      BY <3>1, <3>2
  <2> QED
    BY <1>1, <2>3, <2>5 DEF FeatureInv, DuePassInv
<1>11. StoreInv' /\ TerrainInv' /\ FilesDoNotMix'
  BY <1>1 DEF FeatureInv, StoreInv, TerrainInv, FilesDoNotMix
<1> QED
  BY <1>9, <1>10, <1>11 DEF FeatureInv

\* A pass ends, or a day passes.
LEMMA IdleKeepsFeatures ==
  ASSUME FeatureInv,
         (\E p \in Passes : EndPass(p)) \/ NextDay \/ UNCHANGED featureVars
  PROVE  FeatureInv'
<1>1. UNCHANGED <<weather, terrain, ingestion, predictions>>
  BY DEF EndPass, NextDay, featureVars
<1>2. StoreInv' /\ TerrainInv' /\ PredictedInv' /\ FilesDoNotMix'
  BY <1>1 DEF FeatureInv, StoreInv, TerrainInv, PredictedInv, FilesDoNotMix
<1>3. CASE \E p \in Passes : EndPass(p)
  <2>1. PICK p \in Passes : EndPass(p)
    BY <1>3
  <2>2. riskPass' = [riskPass EXCEPT ![p] = [pc |-> "ended"]] /\ today' = today
    BY <2>1 DEF EndPass
  <2>3. [pc |-> "ended"] \in PassType
    BY DEF PassType
  <2>4. DuePassInv'
    BY <1>1, <2>2, <2>3 DEF FeatureInv, DuePassInv
  <2> QED
    BY <1>2, <2>4 DEF FeatureInv
<1>4. CASE NextDay \/ UNCHANGED featureVars
  <2>1. riskPass' = riskPass /\ today' \in Nat
    BY <1>4 DEF NextDay, featureVars, FeatureInv, DuePassInv
  <2>2. DuePassInv'
    BY <1>1, <2>1 DEF FeatureInv, DuePassInv
  <2> QED
    BY <1>2, <2>2 DEF FeatureInv
<1> QED
  BY <1>3, <1>4

\* Every step keeps the invariant.
LEMMA FeatureStepKeeps == FeatureInv /\ [FeatureNext]_featureVars => FeatureInv'
BY WritingKeepsFeatures, IngestionCommitKeepsFeatures, TerrainKeepsFeatures,
   BeginKeepsFeatures, PredictKeepsFeatures, IdleKeepsFeatures
   DEF FeatureNext

\* A sum over a sequence takes any row first.
LEMMA SequenceSum ==
  ASSUME NEW n, n \in Nat, NEW f, f \in [1..n -> Nat]
  PROVE  \E G : AnyFirst(G, f, 1..n) /\ G[{}] = 0 /\ SumFunction(f) = G[1..n]
<1>1. PICK S : S = 1..n
  OBVIOUS
<1>2. IsFiniteSet(S) /\ f \in [S -> Nat] /\ DOMAIN f = S
  <2>1. IsFiniteSet(S)
    BY <1>1, FS_Interval
  <2> QED
    BY <1>1, <2>1
<1> DEFINE G == CHOOSE g : SumRec(g, f, SUBSET S)
<1>3. SumRec(G, f, SUBSET S) /\ SumFunction(f) = G[S]
  <2>1. \E g : SumRec(g, f, SUBSET S)
    BY <1>2, SumExists
  <2>2. SumRec(G, f, SUBSET S)
    BY <2>1
  <2>3. SumFunction(f) = G[DOMAIN f]
    BY <1>2 DEF SumFunction, SumFunctionOnSet, FoldFunctionOnSet, MapThenFoldSet, SumRec
  <2> QED
    BY <1>2, <2>2, <2>3
<1> HIDE DEF G
<1>4. AnyFirst(G, f, S)
  BY <1>2, <1>3, AnyElementFirst
<1>5. G[{}] = 0
  BY <1>3 DEF SumRec
<1> QED
  BY <1>1, <1>3, <1>4, <1>5

\* Sums of one, two and three rows.
LEMMA ShortSums ==
  /\ \A f \in [1..1 -> Nat] : SumFunction(f) = f[1]
  /\ \A f \in [1..2 -> Nat] : SumFunction(f) = f[1] + f[2]
  /\ \A f \in [1..3 -> Nat] : SumFunction(f) = f[1] + f[2] + f[3]
<1>1. ASSUME NEW f \in [1..1 -> Nat] PROVE SumFunction(f) = f[1]
  <2>1. PICK G : AnyFirst(G, f, 1..1) /\ G[{}] = 0 /\ SumFunction(f) = G[1..1]
    BY SequenceSum
  <2>2. (1..1) \ {1} = {} /\ 1 \in 1..1
    OBVIOUS
  <2>3. G[1..1] = f[1] + G[(1..1) \ {1}]
    <3>1. ASSUME NEW S, AnyFirst(G, f, S), NEW x \in S PROVE G[S] = f[x] + G[S \ {x}]
      <4>1. S \in SUBSET S
        OBVIOUS
      <4> QED
        BY <3>1, <4>1 DEF AnyFirst
    <3> QED
      BY <2>1, <2>2, <3>1
  <2>4. G[(1..1) \ {1}] = 0
    BY <2>1, <2>2, Zenon
  <2>5. SumFunction(f) = f[1] + 0
    BY <2>1, <2>3, <2>4, Zenon
  <2>6. PICK x : x = f[1] /\ x \in Nat
    BY <2>2
  <2>7. x + 0 = x
    BY <2>6
  <2> QED
    BY <2>5, <2>6, <2>7, Zenon
<1>2. ASSUME NEW f \in [1..2 -> Nat] PROVE SumFunction(f) = f[1] + f[2]
  <2>1. PICK G : AnyFirst(G, f, 1..2) /\ G[{}] = 0 /\ SumFunction(f) = G[1..2]
    BY SequenceSum
  <2>2. (1..2) \ {2} = {1} /\ {1} \ {1} = {}
    OBVIOUS
  <2>3. G[1..2] = f[2] + G[(1..2) \ {2}]
    BY <2>1 DEF AnyFirst
  <2>4. G[{1}] = f[1] + G[{1} \ {1}]
    BY <2>1 DEF AnyFirst
  <2>5. G[{1}] = f[1] + 0 /\ G[1..2] = f[2] + G[{1}]
    BY <2>1, <2>2, <2>3, <2>4
  <2>6. f[1] \in Nat /\ f[2] \in Nat
    OBVIOUS
  <2> QED
    BY <2>1, <2>5, <2>6
<1>3. ASSUME NEW f \in [1..3 -> Nat] PROVE SumFunction(f) = f[1] + f[2] + f[3]
  <2>1. PICK G : AnyFirst(G, f, 1..3) /\ G[{}] = 0 /\ SumFunction(f) = G[1..3]
    BY SequenceSum
  <2>2. (1..3) \ {3} = {1, 2} /\ {1, 2} \ {2} = {1} /\ {1} \ {1} = {}
    OBVIOUS
  <2>3. G[1..3] = f[3] + G[(1..3) \ {3}]
    BY <2>1 DEF AnyFirst
  <2>4. G[{1, 2}] = f[2] + G[{1, 2} \ {2}]
    BY <2>1 DEF AnyFirst
  <2>5. G[{1}] = f[1] + G[{1} \ {1}]
    BY <2>1 DEF AnyFirst
  <2>6. /\ G[{1}] = f[1] + 0 /\ G[{1, 2}] = f[2] + G[{1}]
        /\ G[1..3] = f[3] + G[{1, 2}]
    BY <2>1, <2>2, <2>3, <2>4, <2>5
  <2>7. f[1] \in Nat /\ f[2] \in Nat /\ f[3] \in Nat
    OBVIOUS
  <2> QED
    BY <2>1, <2>6, <2>7
<1> QED
  BY <1>1, <1>2, <1>3

\* The windows of an observation nest, however few rows there are.
LEMMA WindowsOfRain ==
  ASSUME NEW rain, rain \in Seq(Nat), rain # << >>
  PROVE  /\ Last(rain) <= SumFunction(LastDays(rain, 2))
         /\ SumFunction(LastDays(rain, 2)) <= SumFunction(LastDays(rain, 3))
<1>1. PICK n \in Nat : n = Len(rain)
  OBVIOUS
<1>2. n >= 1 /\ rain \in [1..n -> Nat] /\ Last(rain) = rain[n]
  BY <1>1 DEF Last
<1>3. CASE n = 1
  <2>1. /\ LastDays(rain, 2) = [k \in 1..1 |-> rain[k]]
        /\ LastDays(rain, 3) = [k \in 1..1 |-> rain[k]]
    BY <1>1, <1>2, <1>3 DEF LastDays
  <2> QED
    BY <1>2, <1>3, <2>1, ShortSums
<1>4. CASE n = 2
  <2>1. /\ LastDays(rain, 2) = [k \in 1..2 |-> rain[k]]
        /\ LastDays(rain, 3) = [k \in 1..2 |-> rain[k]]
    BY <1>1, <1>2, <1>4 DEF LastDays
  <2>2. [k \in 1..2 |-> rain[k]] \in [1..2 -> Nat]
    BY <1>2, <1>4
  <2> QED
    BY <1>2, <1>4, <2>1, <2>2, ShortSums
<1>5. CASE n >= 3
  <2>1. LastDays(rain, 2) = SubSeq(rain, n - 1, n)
    <3>1. (IF n > 2 THEN n - 2 + 1 ELSE 1) = n - 1
      BY <1>5
    <3> QED
      BY <1>1, <3>1, Zenon DEF LastDays
  <2>2. LastDays(rain, 3) = SubSeq(rain, n - 2, n)
    <3>1. (IF n > 3 THEN n - 3 + 1 ELSE 1) = n - 2
      BY <1>5
    <3> QED
      BY <1>1, <3>1, Zenon DEF LastDays
  <2>3. rain[n - 2] \in Nat /\ rain[n - 1] \in Nat /\ rain[n] \in Nat
    BY <1>2, <1>5
  <2>4. SumFunction(LastDays(rain, 2)) = rain[n - 1] + rain[n]
    <3>1. LastDays(rain, 2) \in [1..2 -> Nat] /\ LastDays(rain, 2)[1] = rain[n - 1]
          /\ LastDays(rain, 2)[2] = rain[n]
      BY <1>2, <1>5, <2>1
    <3> QED
      BY <3>1, ShortSums
  <2>5. SumFunction(LastDays(rain, 3)) = rain[n - 2] + rain[n - 1] + rain[n]
    <3>1. LastDays(rain, 3) \in [1..3 -> Nat]
      <4>1. PICK m : m = n - 2 /\ m \in Int /\ m <= n /\ n - m + 1 = 3
        BY <1>5
      <4>2. \A k \in m..n : rain[k] \in Nat
        BY <1>2, <1>5, <4>1
      <4>3. SubSeq(rain, m, n) \in Seq(Nat) /\ Len(SubSeq(rain, m, n)) = 3
        BY <4>1, <4>2, SubSeqProperties
      <4>4. SubSeq(rain, m, n) \in [1..3 -> Nat]
        BY <4>3, LenProperties
      <4> QED
        BY <2>2, <4>1, <4>4
    <3>2. LastDays(rain, 3)[1] = rain[n - 2] /\ LastDays(rain, 3)[2] = rain[n - 1]
      BY <1>2, <1>5, <2>2
    <3>3. LastDays(rain, 3)[3] = rain[n]
      BY <1>2, <1>5, <2>2
    <3> QED
      BY <3>1, <3>2, <3>3, ShortSums
  <2>6. PICK a \in Nat, b \in Nat, c \in Nat :
          a = rain[n - 2] /\ b = rain[n - 1] /\ c = rain[n]
    BY <2>3
  <2>7. c <= b + c /\ b + c <= a + b + c
    OBVIOUS
  <2> QED
    BY <1>2, <2>4, <2>5, <2>6, <2>7
<1> QED
  BY <1>1, <1>2, <1>3, <1>4, <1>5

\* The first n samples have a highest one: take the least n for which they have none.
LEMMA HighestSample ==
  ASSUME NEW s, NEW len \in Nat, s \in [1..len -> Nat], len # 0
  PROVE  \E i \in 1..len : \A j \in 1..len : s[j] <= s[i]
<1> DEFINE Good(n) == \E i \in 1..n : \A j \in 1..n : s[j] <= s[i]
           Bad == {n \in 1..len : ~Good(n)}
<1>1. Bad = {}
  <2> SUFFICES ASSUME Bad # {} PROVE FALSE
    OBVIOUS
  <2>1. PICK n \in Bad : \A m \in Bad : n <= m
    <3>1. Bad \subseteq Nat
      OBVIOUS
    <3> HIDE DEF Bad
    <3> QED
      BY <3>1, LeastNat
  <2>2. CASE n = 1
    BY <2>1, <2>2
  <2>3. CASE n # 1
    <3>1. n \in 1..len /\ n - 1 \in 1..len /\ ~(n <= n - 1)
      BY <2>1, <2>3
    <3>2. Good(n - 1)
      BY <2>1, <3>1
    <3>3. PICK i \in 1..n - 1 : \A j \in 1..n - 1 : s[j] <= s[i]
      BY <3>2
    <3>4. s[i] \in Nat /\ s[n] \in Nat
      BY <3>1
    <3>5. ASSUME NEW j \in 1..n PROVE s[j] \in Nat /\ (j = n \/ s[j] <= s[i])
      <4>1. s[j] \in Nat
        BY <3>1
      <4>2. j = n \/ j \in 1..n - 1
        BY <3>1
      <4> QED
        BY <3>3, <4>1, <4>2
    <3>6. CASE s[n] <= s[i]
      <4>1. i \in 1..n /\ \A j \in 1..n : s[j] <= s[i]
        <5>1. i \in 1..n
          BY <3>1
        <5>2. ASSUME NEW j \in 1..n PROVE s[j] <= s[i]
          <6>1. j = n \/ s[j] <= s[i]
            BY <3>5
          <6>2. CASE j = n
            BY <3>6, <6>2
          <6> QED
            BY <6>1, <6>2
        <5> QED
          BY <5>1, <5>2
      <4> QED
        BY <2>1, <4>1
    <3>7. CASE s[i] <= s[n]
      <4>1. ASSUME NEW j \in 1..n PROVE s[j] <= s[n]
        <5>1. s[j] \in Nat /\ (j = n \/ s[j] <= s[i])
          BY <3>5
        <5>2. CASE j = n
          BY <3>4, <5>2
        <5>3. CASE s[j] <= s[i]
          <6>1. PICK x, y, z : x = s[j] /\ y = s[i] /\ z = s[n]
            OBVIOUS
          <6>2. x \in Nat /\ y \in Nat /\ z \in Nat /\ x <= y /\ y <= z
            BY <3>4, <3>7, <5>1, <5>3, <6>1
          <6>3. x <= z
            BY <6>2
          <6> QED
            BY <6>1, <6>3
        <5> QED
          BY <5>1, <5>2, <5>3
      <4>2. n \in 1..n
        BY <3>1
      <4> QED
        BY <2>1, <4>1, <4>2
    <3> QED
      BY <3>4, <3>6, <3>7
  <2> QED
    BY <2>2, <2>3
<1>2. len \in 1..len
  OBVIOUS
<1>3. Good(len)
  <2> HIDE DEF Good
  <2> QED
    BY <1>1, <1>2
<1> QED
  BY <1>3

\* How far an edge rises is a number.
LEMMA RiseIsNumber == \A e \in FeatureEdges : Rise(e) \in Int
<1> SUFFICES ASSUME NEW e \in FeatureEdges PROVE Rise(e) \in Int
  OBVIOUS
<1>1. PICK s : s = Elevations[e]
  OBVIOUS
<1>2. s \in Seq(Nat) /\ s # << >>
  BY <1>1, FeatureAssumption
<1>3. PICK n \in Nat : n = Len(s)
  BY <1>2
<1>4. s \in [1..n -> Nat] /\ n # 0
  BY <1>2, <1>3
<1>5. ToSet(s) = {s[i] : i \in 1..n}
  BY <1>4 DEF ToSet
<1>6. ToSet(s) \subseteq Nat /\ ToSet(s) # {}
  BY <1>4, <1>5
<1>7. \E x \in ToSet(s) : \A y \in ToSet(s) : x <= y
  BY <1>6, LeastNat
<1>8. \E x \in ToSet(s) : \A y \in ToSet(s) : x >= y
  <2>1. PICK i \in 1..n : \A j \in 1..n : s[j] <= s[i]
    BY <1>4, HighestSample
  <2>2. \A y \in ToSet(s) : s[i] >= y
    BY <1>4, <1>5, <2>1
  <2> QED
    BY <1>5, <2>2
<1>9. Max(ToSet(s)) \in ToSet(s) /\ Min(ToSet(s)) \in ToSet(s)
  BY <1>7, <1>8 DEF Max, Min
<1>10. \A x, y \in Nat : x - y \in Int
  OBVIOUS
<1> QED
  BY <1>1, <1>6, <1>9, <1>10 DEF Rise

\* The steeper of two edges reaches each threshold that the other one reaches.
LEMMA SteeperReaches ==
  ASSUME NEW d \in FeatureEdges, NEW e \in FeatureEdges, NEW t, t \in Nat,
         Rise(d) * EdgeLength[e] <= Rise(e) * EdgeLength[d], Reaches(d, t)
  PROVE  Reaches(e, t)
<1>1. PICK a \in Nat, b \in Nat : a = EdgeLength[d] /\ b = EdgeLength[e] /\ a > 0
  BY FeatureAssumption
<1>2. PICK x \in Int, y \in Int : x = Rise(d) /\ y = Rise(e)
  BY RiseIsNumber
<1>3. x * b <= y * a /\ t * a <= 100 * x
  BY <1>1, <1>2 DEF Reaches
<1>4. t * b <= 100 * y
  <2> SUFFICES ASSUME t * b >= 100 * y + 1 PROVE FALSE
    OBVIOUS
  <2>1. (t * b) * a >= (100 * y + 1) * a
    BY <1>1
  <2>2. (t * a) * b <= (100 * x) * b
    BY <1>1, <1>3
  <2>3. /\ (t * b) * a = (t * a) * b /\ (100 * y + 1) * a = 100 * (y * a) + a
        /\ (100 * x) * b = 100 * (x * b)
    BY <1>1
  <2> QED
    BY <1>1, <1>3, <2>1, <2>2, <2>3
<1> QED
  BY <1>1, <1>2, <1>4 DEF Reaches

\* There are three thresholds.
LEMMA ThreeThresholds == IsFiniteSet(SlopeThresholds) /\ Cardinality(SlopeThresholds) <= 3
<1>1. IsFiniteSet({15}) /\ Cardinality({15}) = 1
  BY FS_Singleton
<1>2. {15} \union {25} = {15, 25} /\ {15, 25} \union {35} = {15, 25, 35}
  OBVIOUS
<1>3. IsFiniteSet({15, 25}) /\ Cardinality({15, 25}) = 2
  BY <1>1, <1>2, FS_AddElement
<1>4. IsFiniteSet({15, 25, 35}) /\ Cardinality({15, 25, 35}) = 3
  BY <1>2, <1>3, FS_AddElement
<1> QED
  BY <1>4 DEF SlopeThresholds

\* It is in no lower zone.
LEMMA ZonesFollowSlopes ==
  ASSUME NEW d \in FeatureEdges, NEW e \in FeatureEdges,
         Rise(d) * EdgeLength[e] <= Rise(e) * EdgeLength[d]
  PROVE  ZoneScore[ZoneBySlope(d)] <= ZoneScore[ZoneBySlope(e)]
<1> DEFINE R(x) == {t \in SlopeThresholds : Reaches(x, t)}
<1>1. R(d) \subseteq R(e)
  BY SteeperReaches DEF SlopeThresholds
<1>2. IsFiniteSet(SlopeThresholds) /\ Cardinality(SlopeThresholds) <= 3
  BY ThreeThresholds
<1>3. \A x \in {d, e} : IsFiniteSet(R(x)) /\ Cardinality(R(x)) \in 0..3
  <2> SUFFICES ASSUME NEW x \in {d, e} PROVE IsFiniteSet(R(x)) /\ Cardinality(R(x)) \in 0..3
    OBVIOUS
  <2>1. R(x) \subseteq SlopeThresholds
    OBVIOUS
  <2> HIDE DEF R
  <2> QED
    BY <1>2, <2>1, FS_Subset, FS_CardinalityType
<1>4. Cardinality(R(d)) <= Cardinality(R(e))
  <2> HIDE DEF R
  <2> QED
    BY <1>1, <1>3, FS_Subset
<1>5. /\ ZoneBySlope(d) = Zones[1 + Cardinality(R(d))]
      /\ ZoneBySlope(e) = Zones[1 + Cardinality(R(e))]
  BY DEF ZoneBySlope
<1> HIDE DEF R
<1>6. PICK m \in 0..3, n \in 0..3 : m = Cardinality(R(d)) /\ n = Cardinality(R(e)) /\ m <= n
  BY <1>3, <1>4
<1>7. \A k \in 0..3 : ZoneScore[Zones[1 + k]] = 125 + 250 * k
  BY DEF ZoneScore, Zones
<1> QED
  BY <1>5, <1>6, <1>7

\* An edge is in one of the zones.
LEMMA ZoneIsAZone == \A e \in FeatureEdges : ZoneBySlope(e) \in ToSet(Zones)
<1> SUFFICES ASSUME NEW e \in FeatureEdges PROVE ZoneBySlope(e) \in ToSet(Zones)
  OBVIOUS
<1> DEFINE R == {t \in SlopeThresholds : Reaches(e, t)}
<1>1. IsFiniteSet(SlopeThresholds) /\ Cardinality(SlopeThresholds) <= 3
  BY ThreeThresholds
<1>2. R \subseteq SlopeThresholds /\ ZoneBySlope(e) = Zones[1 + Cardinality(R)]
  BY DEF ZoneBySlope
<1> HIDE DEF R
<1>3. Cardinality(R) \in 0..3
  BY <1>1, <1>2, FS_Subset, FS_CardinalityType
<1>4. \A k \in 0..3 : Zones[1 + k] \in ToSet(Zones)
  BY DEF Zones, ToSet
<1> QED
  BY <1>2, <1>3, <1>4

\* The model is fed with one file per day, rows no older than those its pass was to look
\* at, windows that nest, and a higher score for a steeper edge
\* (ingest_weather_features.py, feature_store_repository.py and feature_math.py).
THEOREM FeaturesCorrect == FeatureSpec => []FeaturesAreSound
<1>1. FeatureInv => FeaturesAreSound
  <2> SUFFICES ASSUME FeatureInv PROVE FeaturesAreSound
    OBVIOUS
  <2>1. FeatureTypeOK
    <3>1. weather \subseteq Observation
      BY DEF FeatureInv, StoreInv, Observation
    <3>2. DOMAIN terrain \subseteq FeatureEdges /\ terrain \in [DOMAIN terrain -> ToSet(Zones)]
      BY ZoneIsAZone DEF FeatureInv, TerrainInv
    <3>3. \A i \in Ingestions : ingestion[i].pc \in {"writing", "committed"}
      BY DEF FeatureInv, StoreInv, IngestionType
    <3>4. \A p \in Passes : riskPass[p].pc \in {"waiting", "predicting", "ended"}
      BY DEF FeatureInv, DuePassInv, PassType
    <3> QED
      BY <3>1, <3>2, <3>3, <3>4 DEF FeatureInv, StoreInv, FeatureTypeOK
  <2>2. PredictionsAreFresh
    BY DEF FeatureInv, PredictedInv, PredictionsAreFresh
  <2>3. WindowsNest
    <3> SUFFICES ASSUME NEW w \in weather PROVE w.r24 <= w.r48 /\ w.r48 <= w.r72
      BY DEF WindowsNest
    <3>1. PICK i \in Ingestions : \E e \in ToSet(FileEdges[i]) : w = Observed(i, e)
      BY DEF FeatureInv, StoreInv
    <3>2. /\ w.r24 = Last(FileRain[i]) /\ w.r48 = SumFunction(LastDays(FileRain[i], 2))
          /\ w.r72 = SumFunction(LastDays(FileRain[i], 3))
      BY <3>1 DEF Observed
    <3>3. FileRain[i] \in Seq(Nat) /\ FileRain[i] # << >>
      BY FeatureAssumption
    <3> QED
      BY <3>2, <3>3, WindowsOfRain
  <2>4. SteeperScoresHigher
    BY ZonesFollowSlopes DEF FeatureInv, PredictedInv, SteeperScoresHigher
  <2> QED
    BY <2>1, <2>2, <2>3, <2>4 DEF FeatureInv, FeaturesAreSound
<1> QED
  BY <1>1, FeatureInitHolds, FeatureStepKeeps, PTL DEF FeatureSpec
=============================================================================
