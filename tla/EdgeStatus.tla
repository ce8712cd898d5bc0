----------------------------- MODULE EdgeStatus -----------------------------
(***************************************************************************)
(* Road-status declarations: the append-only log edge_status_events, its   *)
(* projection edge_status_current and the counter                          *)
(* network_versions.status_version, written by DeclareEdgeStatusUseCase.   *)
(*                                                                         *)
(* Every transaction runs at READ COMMITTED on its own session, so it is a *)
(* sequence of separate statements between which others commit:            *)
(*   read      get_current_status picks the next version, without a lock;  *)
(*   baseline  the event is inserted, then the projection row is loaded    *)
(*             again: the unit of work later writes only the columns that  *)
(*             differ from THIS load;                                      *)
(*   bump      UPDATE network_versions takes the one row lock declarers    *)
(*             share and keeps it to the end of the transaction; the flush *)
(*             then writes the changed columns of the projection row;      *)
(*   commit or abort.                                                      *)
(* Declarers are the HTTP route (one edge); risk passes are runs of the    *)
(* risk refresh worker, which declares many edges in one transaction and   *)
(* writes an outbox event with each.                                       *)
(***************************************************************************)
EXTENDS Integers, FiniteSets

CONSTANTS
    Edge,        \* road edges, all seeded with an OPEN row by the import
    Declarer,    \* requests of POST /network/edges/{id}/status
    RiskPass,    \* passes of the risk refresh worker
    NoTxn, NoEdge

ASSUME TxnAssumption ==
    /\ IsFiniteSet(Edge)
    /\ Declarer \cap RiskPass = {}
    /\ NoTxn \notin Declarer \cup RiskPass
    /\ NoEdge \notin Edge

Txn == Declarer \cup RiskPass

AccessibilityStatus ==
    {"OPEN", "RESTRICTED", "BLOCKED", "PROVISIONAL_CAUTION", "UNKNOWN"}

\* The targets of status_for_probability, other than "no escalation".
RiskTarget == {"RESTRICTED", "BLOCKED"}

\* _STATUS_SEVERITY.get(status, -1)
Severity(s) ==
    CASE s = "OPEN" -> 0
      [] s = "RESTRICTED" -> 1
      [] s = "BLOCKED" -> 2
      [] OTHER -> -1

\* The source of a seeded row: the import writes no event for it.
Seed == <<NoTxn, NoEdge>>
\* uuid4 of the event transaction t writes for edge e.
EventId == Txn \X Edge

Row == [version: Nat, status: AccessibilityStatus, source: EventId \cup {Seed}]
SeedRow == [version |-> 1, status |-> "OPEN", source |-> Seed]

PC == {"idle", "pass", "assessed", "read", "baseline", "staged",
       "committed", "aborted"}

VARIABLES
    row,       \* edge_status_current, as committed
    global,    \* network_versions.status_version, as committed
    events,    \* edge_status_events: ids of the committed events
    outbox,    \* committed edge_status.updated outbox events
    lock,      \* holder of the row lock on network_versions
    pc,        \* progress of each transaction
    todo,      \* edges a risk pass has still to score
    cur,       \* edge being declared
    target,    \* status declared for the edge
    nextv,     \* version picked by the read
    base,      \* projection row the unit of work compares against
    written,   \* edges whose row the transaction has flushed
    draft,     \* the flushed, uncommitted rows
    gdraft,    \* status_version as the transaction sees it after its bumps
    stale,     \* history: edges committed by others since this one read them
    contended  \* history: edges on which a stale declaration has committed

tables  == <<row, global, events, outbox>>
session == <<todo, cur, target, nextv, base, written, draft, gdraft>>
history == <<stale, contended>>
vars    == <<tables, lock, pc, session, history>>

-----------------------------------------------------------------------------
Init ==
    /\ row = [e \in Edge |-> SeedRow]
    /\ global = 1
    /\ events = {}
    /\ outbox = {}
    /\ lock = NoTxn
    /\ pc = [t \in Txn |-> "idle"]
    /\ todo = [t \in Txn |-> {}]
    /\ cur = [t \in Txn |-> NoEdge]
    /\ target = [t \in Txn |-> [e \in Edge |-> "UNKNOWN"]]
    /\ nextv = [t \in Txn |-> 0]
    /\ base = [t \in Txn |-> SeedRow]
    /\ written = [t \in Txn |-> {}]
    /\ draft = [t \in Txn |-> [e \in Edge |-> SeedRow]]
    /\ gdraft = [t \in Txn |-> 0]
    /\ stale = [t \in Txn |-> {}]
    /\ contended = {}

\* What a statement of t sees: its own flushed row, else the committed one.
Visible(t, e) == IF e \in written[t] THEN draft[t][e] ELSE row[e]

\* The route hands (edge, status) to the use case, which reads the current row.
ReadForDeclare(t, e, s) ==
    /\ t \in Declarer
    /\ pc[t] = "idle"
    /\ cur' = [cur EXCEPT ![t] = e]
    /\ target' = [target EXCEPT ![t][e] = s]
    /\ nextv' = [nextv EXCEPT ![t] = Visible(t, e).version + 1]
    /\ pc' = [pc EXCEPT ![t] = "read"]
    /\ UNCHANGED <<tables, lock, todo, base, written, draft, gdraft, history>>

\* A risk pass selects the edges with recent weather.
StartPass(t, es) ==
    /\ t \in RiskPass
    /\ pc[t] = "idle"
    /\ todo' = [todo EXCEPT ![t] = es]
    /\ pc' = [pc EXCEPT ![t] = "pass"]
    /\ UNCHANGED <<tables, lock, cur, target, nextv, base, written, draft,
                   gdraft, history>>

\* Prediction failed or below the threshold, or the edge is already at least as
\* severe: the loop goes on to the next edge.
SkipEdge(t, e) ==
    /\ pc[t] = "pass"
    /\ e \in todo[t]
    /\ todo' = [todo EXCEPT ![t] = @ \ {e}]
    /\ UNCHANGED <<tables, lock, pc, cur, target, nextv, base, written, draft,
                   gdraft, history>>

\* Mutated form of AssessEdge: the severity comparison dropped.
AssessEdgeAlways(t, e, s) ==
    /\ pc[t] = "pass"
    /\ e \in todo[t]
    /\ todo' = [todo EXCEPT ![t] = @ \ {e}]
    /\ cur' = [cur EXCEPT ![t] = e]
    /\ target' = [target EXCEPT ![t][e] = s]
    /\ pc' = [pc EXCEPT ![t] = "assessed"]
    /\ UNCHANGED <<tables, lock, nextv, base, written, draft, gdraft, history>>

\* The pass reads the current status and finds the target more severe.
AssessEdge(t, e, s) ==
    /\ pc[t] = "pass"
    /\ e \in todo[t]
    /\ Severity(s) > Severity(Visible(t, e).status)
    /\ todo' = [todo EXCEPT ![t] = @ \ {e}]
    /\ cur' = [cur EXCEPT ![t] = e]
    /\ target' = [target EXCEPT ![t][e] = s]
    /\ pc' = [pc EXCEPT ![t] = "assessed"]
    /\ UNCHANGED <<tables, lock, nextv, base, written, draft, gdraft, history>>

\* The use case's own read, a second statement.
ReadForRisk(t) ==
    /\ pc[t] = "assessed"
    /\ nextv' = [nextv EXCEPT ![t] = Visible(t, cur[t]).version + 1]
    /\ pc' = [pc EXCEPT ![t] = "read"]
    /\ UNCHANGED <<tables, lock, todo, cur, target, base, written, draft,
                   gdraft, history>>

\* The event is inserted (invisible until commit) and the row loaded again.
LoadBaseline(t) ==
    /\ pc[t] = "read"
    /\ base' = [base EXCEPT ![t] = Visible(t, cur[t])]
    /\ pc' = [pc EXCEPT ![t] = "baseline"]
    /\ UNCHANGED <<tables, lock, todo, cur, target, nextv, written, draft,
                   gdraft, history>>

\* Mutated forms of Flushed and BumpAndFlush, for mutation runs only: the
\* version not advanced, the lock not awaited.
FlushedSameVersion(t) ==
    [version |-> Visible(t, cur[t]).version,
     status |-> target[t][cur[t]], source |-> <<t, cur[t]>>]

\* The row the UPDATE leaves: a column is in the SET list only when the new
\* value differs from the loaded one; the event id is always new.
Flushed(t) ==
    LET e == cur[t]
        now == Visible(t, e)
    IN  [version |-> IF nextv[t] = base[t].version THEN now.version ELSE nextv[t],
         status  |-> IF target[t][e] = base[t].status THEN now.status
                                                      ELSE target[t][e],
         source  |-> <<t, e>>]

BumpWithoutLock(t) ==
    /\ pc[t] = "baseline"
    /\ lock' = t
    /\ gdraft' = [gdraft EXCEPT ![t] = (IF written[t] # {} THEN @ ELSE global) + 1]
    /\ draft' = [draft EXCEPT ![t][cur[t]] = Flushed(t)]
    /\ written' = [written EXCEPT ![t] = @ \cup {cur[t]}]
    /\ pc' = [pc EXCEPT ![t] = IF t \in RiskPass THEN "pass" ELSE "staged"]
    /\ UNCHANGED <<tables, todo, cur, target, nextv, base, history>>
BumpSkipped(t) ==
    /\ pc[t] = "baseline"
    /\ lock \in {NoTxn, t}
    /\ lock' = t
    /\ gdraft' = [gdraft EXCEPT ![t] = global]
    /\ draft' = [draft EXCEPT ![t][cur[t]] = Flushed(t)]
    /\ written' = [written EXCEPT ![t] = @ \cup {cur[t]}]
    /\ pc' = [pc EXCEPT ![t] = IF t \in RiskPass THEN "pass" ELSE "staged"]
    /\ UNCHANGED <<tables, todo, cur, target, nextv, base, history>>

\* UPDATE network_versions SET status_version = status_version + 1, then flush.
BumpAndFlush(t) ==
    /\ pc[t] = "baseline"
    /\ lock \in {NoTxn, t}
    /\ lock' = t
    /\ gdraft' = [gdraft EXCEPT ![t] = (IF lock = t THEN @ ELSE global) + 1]
    /\ draft' = [draft EXCEPT ![t][cur[t]] = Flushed(t)]
    /\ written' = [written EXCEPT ![t] = @ \cup {cur[t]}]
    /\ pc' = [pc EXCEPT ![t] = IF t \in RiskPass THEN "pass" ELSE "staged"]
    /\ UNCHANGED <<tables, todo, cur, target, nextv, base, history>>

\* Transactions that have read e in this transaction and not yet ended.
Reading(u, e) ==
    /\ cur[u] = e
    /\ pc[u] \in {"assessed", "read", "baseline"}

Commit(t) ==
    /\ \/ pc[t] = "staged"
       \/ pc[t] = "pass" /\ todo[t] = {}
    /\ row' = [e \in Edge |-> IF e \in written[t] THEN draft[t][e] ELSE row[e]]
    /\ global' = IF written[t] = {} THEN global ELSE gdraft[t]
    /\ events' = events \cup ({t} \X written[t])
    /\ outbox' = IF t \in RiskPass
                 THEN outbox \cup
                        {[id |-> <<t, e>>, status |-> target[t][e]] : e \in written[t]}
                 ELSE outbox
    /\ lock' = IF lock = t THEN NoTxn ELSE lock
    /\ pc' = [pc EXCEPT ![t] = "committed"]
    /\ stale' = [u \in Txn |-> stale[u] \cup
                    {e \in written[t] : u # t /\ Reading(u, e)}]
    /\ contended' = contended \cup (written[t] \cap stale[t])
    /\ UNCHANGED session

\* Any statement may raise, or the process may die: the session rolls back.
Abort(t) ==
    /\ pc[t] \notin {"idle", "committed", "aborted"}
    /\ lock' = IF lock = t THEN NoTxn ELSE lock
    /\ pc' = [pc EXCEPT ![t] = "aborted"]
    /\ UNCHANGED <<tables, session, history>>

\* All requests served: nothing is left to do.
Served ==
    /\ \A t \in Txn : pc[t] \in {"committed", "aborted"}
    /\ UNCHANGED vars

Begin(t) ==
    \/ \E e \in Edge, s \in AccessibilityStatus : ReadForDeclare(t, e, s)
    \/ \E es \in SUBSET Edge : StartPass(t, es)

Advance(t) ==
    \/ \E e \in Edge : SkipEdge(t, e)
    \/ \E e \in Edge, s \in RiskTarget : AssessEdge(t, e, s)
    \/ ReadForRisk(t)
    \/ LoadBaseline(t)
    \/ BumpAndFlush(t)
    \/ Commit(t)

Next == (\E t \in Txn : Begin(t) \/ Advance(t) \/ Abort(t)) \/ Served

Spec == Init /\ [][Next]_vars

-----------------------------------------------------------------------------
TypeOK ==
    /\ row \in [Edge -> Row]
    /\ global \in Nat
    /\ events \subseteq EventId
    /\ outbox \subseteq [id: RiskPass \X Edge, status: RiskTarget]
    /\ lock \in Txn \cup {NoTxn}
    /\ pc \in [Txn -> PC]
    /\ todo \in [Txn -> SUBSET Edge]
    /\ cur \in [Txn -> Edge \cup {NoEdge}]
    /\ target \in [Txn -> [Edge -> AccessibilityStatus]]
    /\ nextv \in [Txn -> Nat]
    /\ base \in [Txn -> Row]
    /\ written \in [Txn -> SUBSET Edge]
    /\ draft \in [Txn -> [Edge -> Row]]
    /\ gdraft \in [Txn -> Nat]
    /\ stale \in [Txn -> SUBSET Edge]
    /\ contended \subseteq Edge

\* No declaration is lost from the network-wide counter: however transactions
\* interleave or fail, status_version is one more than the committed log events
\* (the atomic UPDATE ... + 1 under the row lock).
GlobalCountsEvents == global = 1 + Cardinality(events)

\* The versions that plans and readers rely on: well-typed rows, and a
\* network-wide counter that has missed no declaration.
VersionsAreSound == TypeOK /\ GlobalCountsEvents

EventsOf(e) == {x \in events : x[2] = e}

\* Where no declaration committed on a stale read, the projection can be rebuilt
\* from the log: its status is the one its source event declared and its version
\* counts the events of the edge.
SerialProjectionRebuildable ==
    \A e \in Edge \ contended :
        /\ row[e].version = 1 + Cardinality(EventsOf(e))
        /\ row[e].source = Seed => row[e].status = "OPEN" /\ EventsOf(e) = {}
        /\ row[e].source # Seed =>
               /\ row[e].source \in EventsOf(e)
               /\ row[e].status = target[row[e].source[1]][e]

\* Every committed escalation of the risk worker has its outbox event and every
\* outbox event has its log event: neither survives a failed pass alone.
OutboxMirrorsRiskLog ==
    {o.id : o \in outbox} = events \cap (RiskPass \X Edge)

\* A committed change of any road status moves the network-wide version that
\* route plans are checked against, in the same transaction.
ChangeMovesGlobal == [][row' # row => global' > global]_vars

\* What readers of the network rely on: the statuses and the version are a
\* StatusBoard, so that whoever finds the version it read before may keep the
\* statuses it read after it (network_versions.status_version).
Board == INSTANCE StatusBoard WITH
    Status <- AccessibilityStatus, Default <- "OPEN",
    status <- [e \in Edge |-> row[e].status], version <- global

ImplementsBoard == Board!Spec

\* A risk pass that met no concurrent declaration on an edge only raises the
\* severity the edge had.
SerialRiskOnlyEscalates ==
    [][\A t \in RiskPass : \A e \in Edge :
          /\ pc[t] # "committed" /\ pc'[t] = "committed"
          /\ e \in written[t] \ stale[t]
          => Severity(row'[e].status) > Severity(row[e].status)]_vars
=============================================================================
