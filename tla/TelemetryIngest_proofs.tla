----------------------- MODULE TelemetryIngest_proofs -----------------------
(***************************************************************************)
(* Proofs about TelemetryIngest for any devices, batches and fixes.        *)
(*                                                                         *)
(* The inductive invariant IInv says what the row locks keep: a ledger or  *)
(* a position read FOR UPDATE is still the stored one when its batch       *)
(* commits.  The rest of it is about the fold of one batch, whose running  *)
(* values are related to what was read and to the breadcrumbs kept so far. *)
(***************************************************************************)
EXTENDS TelemetryIngest, TLAPS

Open(b)   == pc[b] \notin {"idle", "done"}
Folded(b) == pc[b] \in {"folding", "locate", "write", "commit"}
Saved(b)  == pc[b] \in {"locate", "write", "commit"}

\* A batch that has read a ledger row holds it, unchanged, and whoever will write
\* the ledger holds its row.
LedgerLock(b) ==
    /\ Open(b) => device[b] \in Device
    /\ pc[b] = "position" \/ Folded(b) =>
          (known[b] # None => lock[device[b]] = b /\ ledger[device[b]] = known[b])
    /\ Saved(b) /\ last[b] # None => lock[device[b]] = b

\* A batch that has read a position holds it, unchanged, and finds the same one
\* again; whoever will write the position holds its row.
PositionLock(b) ==
    /\ Folded(b) /\ base[b] # None => lock[Vehicle] = b /\ position = base[b]
    /\ found[b] # None => position # None
    /\ pc[b] \in {"write", "commit"} /\ Moved(b) /\ base[b] # None => found[b] = base[b]
    /\ pc[b] = "write" => Moved(b)
    /\ pc[b] = "commit" /\ Moved(b) =>
          lock[Vehicle] = b /\ (found[b] = None => position = None)

\* Before the rows are read nothing is folded.
Fresh(b) ==
    /\ pc[b] \in {"idle", "ledger", "position"} => trail[b] = {}
    /\ pc[b] = "position" => last[b] = known[b]

\* The breadcrumbs of a batch are new, distinct, and the last of them is the mark
\* the ledger will get.
Fold(b) ==
    Folded(b) =>
        /\ \A c \in trail[b] :
              /\ c.device = device[b]
              /\ last[b] # None /\ c.seq <= last[b].seq
              /\ known[b] # None => c.seq > known[b].seq
        /\ \A c, e \in trail[b] : c # e => c.seq # e.seq
        /\ trail[b] = {} => last[b] = known[b]
        /\ trail[b] # {} => \E c \in trail[b] : c.seq = last[b].seq /\ c.at = last[b].at
        /\ known[b] # None => last[b] # None /\ last[b].seq >= known[b].seq

IsFixOf(place, crumbs_) ==
    \E c \in crumbs_ : /\ c.kind = "normal"
                       /\ c.device = place.device
                       /\ c.at = place.at
                       /\ place.rank = Rank[c.device]

Best(d) == \A e \in Device : Rank[d] <= Rank[e]

\* The candidate is the position read or a later fix of the batch, and none of a
\* best source in the batch is newer.
Candidate(b) ==
    Folded(b) =>
        /\ candidate[b] # None => candidate[b] = base[b] \/ IsFixOf(candidate[b], trail[b])
        /\ base[b] # None => candidate[b] # None /\ candidate[b].at >= base[b].at
        /\ \A c \in trail[b] :
              c.kind = "normal" /\ Best(c.device) =>
                  candidate[b] # None /\ candidate[b].at >= c.at

\* A position has the rank of some device, also one mixed of two.
IsRank(r) == \E d \in Device : r = Rank[d]

RankInv ==
    /\ position # None => IsRank(position.rank)
    /\ \A b \in Batch : candidate[b] # None => IsRank(candidate[b].rank)

BatchInv ==
    \A b \in Batch : LedgerLock(b) /\ PositionLock(b) /\ Fresh(b) /\ Fold(b) /\ Candidate(b)

IInv ==
    /\ TypeOK
    /\ BatchInv
    /\ RankInv
    /\ LedgerIsNewestCrumb
    /\ HistoryHasNoReplay
    /\ PositionIsAFix
    /\ BestSourceLeads

-----------------------------------------------------------------------------
\* None is no row and no batch.
LEMMA NoneIsNoRow == None \notin Mark /\ None \notin Place /\ None \notin Batch
  BY TelemetryAssumption DEF Mark, Place

\* The invariant holds before the first batch.
LEMMA InitEstablishes == Init => IInv
<1> SUFFICES ASSUME Init PROVE IInv
  OBVIOUS
<1>1. TypeOK
  <2>1. fixes \in [Batch -> Seq(Fix)]
    BY DEF Init
  <2>2. clock \in 0 .. MaxClock /\ now \in [Batch -> 0 .. MaxClock]
    BY TelemetryAssumption DEF Init
  <2> QED
    BY <2>1, <2>2 DEF Init, TypeOK
<1>2. BatchInv /\ RankInv
  BY DEF Init, BatchInv, LedgerLock, PositionLock, Fresh, Fold, Candidate, RankInv,
         Open, Folded, Saved
<1>3. LedgerIsNewestCrumb /\ HistoryHasNoReplay /\ PositionIsAFix /\ BestSourceLeads
  BY DEF Init, LedgerIsNewestCrumb, HistoryHasNoReplay, PositionIsAFix, BestSourceLeads
<1> QED
  BY <1>1, <1>2, <1>3 DEF IInv

\* The position written: the candidate, when the position found is still there.
LEMMA RewrittenIsAPlace ==
    ASSUME TypeOK, NEW b \in Batch, candidate[b] # None, found[b] # None => position # None
    PROVE  /\ Rewritten(b) \in Place
           /\ found[b] = None \/ position = found[b] => Rewritten(b) = candidate[b]
           /\ Rewritten(b).rank \in {position.rank, candidate[b].rank}
           /\ found[b] = None => Rewritten(b) = candidate[b]
<1>1. candidate[b] \in Place
  BY DEF TypeOK
<1>2. CASE found[b] = None
  BY <1>1, <1>2 DEF Rewritten
<1>3. CASE found[b] # None
  <2>1. position \in Place /\ found[b] \in Place
    BY <1>3 DEF TypeOK
  <2>2. Rewritten(b) = [at     |-> IF candidate[b].at = found[b].at THEN position.at ELSE candidate[b].at,
                        rank   |-> IF candidate[b].rank = found[b].rank THEN position.rank ELSE candidate[b].rank,
                        device |-> IF candidate[b].device = found[b].device THEN position.device ELSE candidate[b].device]
    BY <1>3 DEF Rewritten
  <2> QED
    BY <1>1, <1>3, <2>1, <2>2 DEF Place
<1> QED
  BY <1>2, <1>3

\* Every step of a batch keeps the types of the state.
LEMMA TypeStep ==
    ASSUME TypeOK, BatchInv, [Next]_vars
    PROVE  TypeOK'
<1> USE DEF TypeOK
<1>1. CASE Tick
  BY <1>1, TelemetryAssumption DEF Tick, tables, local, folding, history
<1>2. ASSUME NEW b \in Batch, NEW d \in Device, NEW p \in Payload, Start(b, d, p)
      PROVE  TypeOK'
  <2>1. fixes' \in [Batch -> Seq(Fix)]
    BY <1>2, TelemetryAssumption DEF Start
  <2> QED
    BY <1>2, <2>1 DEF Start, Goto, tables, history
<1>3. ASSUME NEW b \in Batch, ReadLedger(b)
      PROVE  TypeOK'
  <2>1. device[b] \in Device
    BY <1>3 DEF ReadLedger, BatchInv, LedgerLock, Open
  <2>2. lock' \in [Row -> Batch \cup {None}]
    BY <1>3 DEF ReadLedger, LockIfThere
  <2>3. fixes' \in [Batch -> Seq(Fix)]
    BY <1>3 DEF ReadLedger
  <2> QED
    BY <1>3, <2>1, <2>2, <2>3 DEF ReadLedger, Goto, tables, history
<1>4. ASSUME NEW b \in Batch, ReadPosition(b)
      PROVE  TypeOK'
  <2>1. lock' \in [Row -> Batch \cup {None}]
    BY <1>4 DEF ReadPosition, LockIfThere
  <2>2. fixes' \in [Batch -> Seq(Fix)]
    BY <1>4 DEF ReadPosition
  <2> QED
    BY <1>4, <2>1, <2>2 DEF ReadPosition, Goto, tables, history
<1>5. ASSUME NEW b \in Batch, Refuse(b)
      PROVE  TypeOK'
  <2>1. fixes' \in [Batch -> Seq(Fix)]
    BY <1>5 DEF Refuse, NextFix
  <2> QED
    BY <1>5, <2>1 DEF Refuse, tables, local, history
<1>6. ASSUME NEW b \in Batch, Accept(b)
      PROVE  TypeOK'
  <2> DEFINE f == Head(fixes[b])
  <2>1. /\ fixes' \in [Batch -> Seq(Fix)]
        /\ f \in Fix
    BY <1>6 DEF Accept, NextFix
  <2>2. f.seq \in Nat /\ f.at \in Nat /\ f.kind \in {"normal", "fast", "invalid"}
    BY <2>1 DEF Fix
  <2>3. f.kind # "invalid"
    BY <1>6 DEF Accept, Accepted, Quarantined
  <2>4. device[b] \in Device /\ Rank[device[b]] \in Nat
    BY <1>6, TelemetryAssumption DEF Accept, BatchInv, LedgerLock, Open
  <2>5. last' \in [Batch -> Mark \cup {None}]
    BY <1>6, <2>2 DEF Accept, Mark
  <2>6. trail' \in [Batch -> SUBSET Crumb]
    <3>1. [device |-> device[b], batch |-> b, seq |-> f.seq, at |-> f.at, kind |-> f.kind] \in Crumb
      BY <2>2, <2>3, <2>4 DEF Crumb
    <3> QED
      BY <1>6, <3>1 DEF Accept
  <2>7. candidate' \in [Batch -> Place \cup {None}]
    <3>1. [at |-> f.at, rank |-> Rank[device[b]], device |-> device[b]] \in Place
      BY <2>2, <2>4 DEF Place
    <3>2. candidate' = [candidate EXCEPT ![b] =
                            [at |-> f.at, rank |-> Rank[device[b]], device |-> device[b]]]
          \/ candidate' = candidate
      BY <1>6 DEF Accept
    <3> QED
      BY <3>1, <3>2
  <2> QED
    <3>1. UNCHANGED <<tables, lock, clock, pc, local, found, history>>
      BY <1>6 DEF Accept
    <3> QED
      BY <2>1, <2>5, <2>6, <2>7, <3>1 DEF tables, local, history
<1>7. ASSUME NEW b \in Batch, SaveLedger(b)
      PROVE  TypeOK'
  BY <1>7 DEF SaveLedger, LockToWrite, Goto, tables, local, folding, history
<1>8. ASSUME NEW b \in Batch, FindPosition(b)
      PROVE  TypeOK'
  BY <1>8 DEF FindPosition, Goto, tables, local, folding, history
<1>9. ASSUME NEW b \in Batch, WritePosition(b)
      PROVE  TypeOK'
  BY <1>9 DEF WritePosition, LockToWrite, Goto, tables, local, folding, history
<1>10. ASSUME NEW b \in Batch, KeepPosition(b)
       PROVE  TypeOK'
  BY <1>10 DEF KeepPosition, Goto, tables, local, folding, history
<1>11. ASSUME NEW b \in Batch, Commit(b)
       PROVE  TypeOK'
  <2>1. device[b] \in Device
    BY <1>11 DEF Commit, BatchInv, LedgerLock, Open
  <2>2. ledger' \in [Device -> Mark \cup {None}]
    <3>1. last[b] # None => Merged(ledger[device[b]], last[b]) \in Mark
      BY <2>1 DEF Merged, Mark
    <3> QED
      BY <1>11, <3>1 DEF Commit
  <2>3. position' \in Place \cup {None}
    <3>1. found[b] # None => position # None
      BY DEF BatchInv, PositionLock
    <3>2. CASE Moved(b)
      BY <1>11, <3>1, <3>2, RewrittenIsAPlace DEF Commit, Moved
    <3>3. CASE ~ Moved(b)
      BY <1>11, <3>3 DEF Commit
    <3> QED
      BY <3>2, <3>3
  <2>4. crumbs' \subseteq Crumb
    BY <1>11 DEF Commit
  <2>5. lock' \in [Row -> Batch \cup {None}]
    BY <1>11 DEF Commit, Unlocked
  <2>6. raced' \subseteq Device /\ overwritten' \in BOOLEAN
    BY <1>11, <2>1 DEF Commit
  <2>7. UNCHANGED <<clock, local, folding, found>> /\ pc' = [pc EXCEPT ![b] = "done"]
    BY <1>11 DEF Commit, Goto
  <2> QED
    BY <2>2, <2>3, <2>4, <2>5, <2>6, <2>7 DEF local, folding
<1>12. ASSUME NEW b \in Batch, RollBack(b)
       PROVE  TypeOK'
  BY <1>12 DEF RollBack, Unlocked, Goto, tables, local, folding, history
<1>13. CASE UNCHANGED vars
  BY <1>13 DEF vars, tables, local, folding, history
<1> QED
  BY <1>1, <1>2, <1>3, <1>4, <1>5, <1>6, <1>7, <1>8, <1>9, <1>10, <1>11, <1>12, <1>13
  DEF Next, Advance, Served, InsertConflict, Fail, BreakDeadlock

-----------------------------------------------------------------------------
\* The step of one batch leaves the others what they hold.
Own(b) ==
    \/ \E d \in Device, p \in Payload : Start(b, d, p)
    \/ ReadLedger(b) \/ ReadPosition(b) \/ Refuse(b) \/ Accept(b) \/ SaveLedger(b)
    \/ FindPosition(b) \/ WritePosition(b) \/ KeepPosition(b) \/ Commit(b) \/ RollBack(b)

Same(b) ==
    /\ pc'[b] = pc[b]
    /\ device'[b] = device[b] /\ now'[b] = now[b] /\ known'[b] = known[b] /\ base'[b] = base[b]
    /\ fixes'[b] = fixes[b] /\ last'[b] = last[b] /\ candidate'[b] = candidate[b]
    /\ trail'[b] = trail[b] /\ found'[b] = found[b]

\* Every step of the system is one of these.
LEMMA Steps ==
    ASSUME [Next]_vars
    PROVE  \/ \E b \in Batch : Own(b)
           \/ UNCHANGED <<tables, lock, pc, local, folding, found, history>>
  BY DEF Next, Tick, Advance, Served, InsertConflict, Fail, BreakDeadlock, Own, vars

\* A batch changes only its own progress ...
LEMMA LocalsOfOthers ==
    ASSUME TypeOK, NEW b \in Batch, Own(b), NEW x \in Batch, x # b
    PROVE  Same(x)
  BY DEF TypeOK, Own, Same, Start, ReadLedger, ReadPosition, Refuse, Accept, SaveLedger,
         FindPosition, WritePosition, KeepPosition, Commit, RollBack, NextFix, Goto,
         local, folding

\* ... and takes no lock another batch holds.
LEMMA LocksOfOthers ==
    ASSUME TypeOK, NEW b \in Batch, Own(b), NEW x \in Batch, x # b, NEW r \in Row, lock[r] = x
    PROVE  lock'[r] = x
  BY NoneIsNoRow
  DEF TypeOK, Own, Start, ReadLedger, ReadPosition, Refuse, Accept, SaveLedger,
      FindPosition, WritePosition, KeepPosition, Commit, RollBack, LockIfThere, LockToWrite,
      Unlocked

\* A stored row is written only by a commit that holds its lock.
LEMMA LedgerWrites ==
    ASSUME TypeOK, BatchInv, NEW b \in Batch, Own(b), NEW d \in Device, lock[d] # b
    PROVE  ledger'[d] = ledger[d]
  BY DEF TypeOK, BatchInv, LedgerLock, Open, Saved, Own, Start, ReadLedger, ReadPosition, Refuse,
         Accept, SaveLedger, FindPosition, WritePosition, KeepPosition, Commit, RollBack, tables

\* Only a batch that moved the position writes it, under its lock.
LEMMA PositionWrites ==
    ASSUME TypeOK, BatchInv, NEW b \in Batch, Own(b)
    PROVE  /\ lock[Vehicle] # b => position' = position
           /\ position # None => position' # None
<1>1. CASE Commit(b) /\ Moved(b)
  <2>1. pc[b] = "commit" /\ candidate[b] # None /\ position' = Rewritten(b)
    BY <1>1 DEF Commit, Moved
  <2>2. lock[Vehicle] = b /\ (found[b] # None => position # None)
    BY <1>1, <2>1 DEF BatchInv, PositionLock
  <2> QED
    BY <2>1, <2>2, RewrittenIsAPlace, NoneIsNoRow
<1>2. CASE ~ (Commit(b) /\ Moved(b))
  <2>1. position' = position
    BY <1>2 DEF Own, Start, ReadLedger, ReadPosition, Refuse, Accept, SaveLedger,
         FindPosition, WritePosition, KeepPosition, Commit, RollBack, tables
  <2> QED
    BY <2>1
<1> QED
  BY <1>1, <1>2

\* So what a batch knows stays true while others take their steps.
LEMMA OthersKeep ==
    ASSUME TypeOK, BatchInv, NEW b \in Batch, Own(b), NEW x \in Batch, x # b
    PROVE  LedgerLock(x)' /\ PositionLock(x)' /\ Fresh(x)' /\ Fold(x)' /\ Candidate(x)'
<1>1. Same(x)
  BY LocalsOfOthers
<1>2. \A r \in Row : lock[r] = x => lock'[r] = x
  BY LocksOfOthers
<1>3. LedgerLock(x) /\ PositionLock(x) /\ Fresh(x) /\ Fold(x) /\ Candidate(x)
  BY DEF BatchInv
<1>4. LedgerLock(x)'
  <2>1. \A d \in Device : lock[d] = x => ledger'[d] = ledger[d]
    BY LedgerWrites
  <2> QED
    BY <1>1, <1>2, <1>3, <2>1, NoneIsNoRow DEF LedgerLock, Same, Open, Folded, Saved, Row
<1>5. PositionLock(x)'
  <2>1. /\ lock[Vehicle] = x => position' = position
        /\ position # None => position' # None
    BY PositionWrites
  <2> QED
    BY <1>1, <1>2, <1>3, <2>1 DEF PositionLock, Same, Folded, Moved, Row
<1>6. Fresh(x)' /\ Fold(x)' /\ Candidate(x)'
  BY <1>1, <1>3 DEF Fresh, Fold, Candidate, Same, Folded, IsFixOf, Best
<1> QED
  BY <1>4, <1>5, <1>6

\* A batch keeps the locks it has until it ends.
LEMMA OwnLocksKept ==
    ASSUME TypeOK, NEW b \in Batch, Own(b), ~ Commit(b), ~ RollBack(b),
           NEW r \in Row, lock[r] = b
    PROVE  lock'[r] = b
  BY DEF TypeOK, Own, Start, ReadLedger, ReadPosition, Refuse, Accept, SaveLedger,
         FindPosition, WritePosition, KeepPosition, LockIfThere, LockToWrite

\* A row once read is held to the end, and a row to be written is held before.
LEMMA OwnLedger ==
    ASSUME TypeOK, BatchInv, NEW b \in Batch, Own(b)
    PROVE  LedgerLock(b)'
<1> USE DEF BatchInv, LedgerLock, Fresh, Open, Folded, Saved
<1>1. ASSUME NEW d \in Device, NEW p \in Payload, Start(b, d, p)
      PROVE  LedgerLock(b)'
  BY <1>1 DEF Start, Goto, TypeOK
<1>2. CASE ReadLedger(b)
  <2>1. /\ pc[b] = "ledger" /\ pc'[b] = "position" /\ device' = device /\ ledger' = ledger
        /\ known'[b] = ledger[device[b]]
    BY <1>2 DEF ReadLedger, Goto, tables, TypeOK
  <2>2. device[b] \in Device
    BY <2>1
  <2>3. ledger[device[b]] # None => lock'[device[b]] = b
    BY <1>2, <2>2 DEF ReadLedger, LockIfThere, TypeOK, Row
  <2> QED
    BY <2>1, <2>2, <2>3
<1>3. CASE ReadPosition(b)
  <2>1. /\ pc[b] = "position" /\ pc'[b] = "folding" /\ device' = device /\ ledger' = ledger
        /\ known' = known
    BY <1>3 DEF ReadPosition, Goto, tables, TypeOK
  <2>2. device[b] \in Device
    BY <2>1
  <2>3. lock[device[b]] = b => lock'[device[b]] = b
    BY <1>3, <2>1, <2>2, OwnLocksKept DEF Row, Commit, RollBack, ReadPosition, LockIfThere, TypeOK
  <2> QED
    BY <2>1, <2>2, <2>3
<1>4. CASE Refuse(b)
  BY <1>4 DEF Refuse, tables, local
<1>5. CASE Accept(b)
  <2>1. UNCHANGED <<ledger, lock, pc, device, known>> /\ pc[b] = "folding"
    BY <1>5 DEF Accept, tables, local
  <2> QED
    BY <2>1
<1>6. CASE SaveLedger(b)
  <2>1. /\ pc[b] = "folding" /\ pc'[b] = "locate" /\ device' = device /\ ledger' = ledger
        /\ known' = known /\ last' = last
    BY <1>6 DEF SaveLedger, Goto, tables, local, folding, TypeOK
  <2>2. device[b] \in Device
    BY <2>1
  <2>3. last[b] # None => lock'[device[b]] = b
    BY <1>6, <2>2 DEF SaveLedger, LockToWrite, TypeOK, Row
  <2>4. known[b] # None => last[b] # None
    BY <2>1 DEF Fold
  <2> QED
    BY <2>1, <2>2, <2>3, <2>4
<1>7. CASE FindPosition(b)
  BY <1>7 DEF FindPosition, Goto, tables, local, folding, TypeOK
<1>8. CASE WritePosition(b)
  <2>1. /\ pc[b] = "write" /\ pc'[b] = "commit" /\ device' = device /\ ledger' = ledger
        /\ known' = known /\ last' = last
    BY <1>8 DEF WritePosition, Goto, tables, local, folding, TypeOK
  <2>2. device[b] \in Device
    BY <2>1
  <2>3. lock[device[b]] = b => lock'[device[b]] = b
    BY <1>8, <2>2 DEF WritePosition, LockToWrite, TypeOK, Row
  <2> QED
    BY <2>1, <2>2, <2>3
<1>9. CASE KeepPosition(b)
  BY <1>9 DEF KeepPosition, Goto, tables, local, folding, TypeOK
<1>10. CASE Commit(b)
  <2>1. pc'[b] = "done"
    BY <1>10 DEF Commit, Goto, TypeOK
  <2> QED
    BY <2>1
<1>11. CASE RollBack(b)
  <2>1. pc'[b] = "done"
    BY <1>11 DEF RollBack, Goto, TypeOK
  <2> QED
    BY <2>1
<1> QED
  BY <1>1, <1>2, <1>3, <1>4, <1>5, <1>6, <1>7, <1>8, <1>9, <1>10, <1>11 DEF Own

\* What a batch knows of the position after its own step, ...
LEMMA OwnPosition ==
    ASSUME TypeOK, BatchInv, NEW b \in Batch, Own(b)
    PROVE  PositionLock(b)'
<1> USE DEF BatchInv, PositionLock, Folded, Moved
<1>1. ASSUME NEW d \in Device, NEW p \in Payload, Start(b, d, p)
      PROVE  PositionLock(b)'
  BY <1>1 DEF Start, Goto, tables, TypeOK
<1>2. CASE ReadLedger(b)
  BY <1>2 DEF ReadLedger, Goto, tables, TypeOK
<1>3. CASE ReadPosition(b)
  <2>1. /\ pc'[b] = "folding" /\ position' = position /\ found' = found /\ base'[b] = position
    BY <1>3 DEF ReadPosition, Goto, tables, TypeOK
  <2>2. position # None => lock'[Vehicle] = b
    BY <1>3 DEF ReadPosition, LockIfThere, TypeOK, Row
  <2> QED
    BY <2>1, <2>2
<1>4. CASE Refuse(b)
  BY <1>4 DEF Refuse, tables, local
<1>5. CASE Accept(b)
  <2>1. UNCHANGED <<position, lock, pc, base, found>> /\ pc[b] = "folding"
    BY <1>5 DEF Accept, tables, local
  <2> QED
    BY <2>1
<1>6. CASE SaveLedger(b)
  <2>1. /\ pc[b] = "folding" /\ pc'[b] = "locate" /\ position' = position /\ found' = found
        /\ base' = base
    BY <1>6 DEF SaveLedger, Goto, tables, local, TypeOK
  <2>2. device[b] \in Device
    BY <2>1 DEF LedgerLock, Open
  <2>3. lock[Vehicle] = b => lock'[Vehicle] = b
    BY <1>6, <2>2 DEF SaveLedger, LockToWrite, TypeOK, Row
  <2> QED
    BY <2>1, <2>3
<1>7. CASE FindPosition(b)
  <2>1. /\ pc[b] = "locate" /\ pc'[b] = "write" /\ position' = position /\ found'[b] = position
        /\ UNCHANGED <<lock, base, candidate>>
    BY <1>7 DEF FindPosition, Goto, tables, local, folding, TypeOK
  <2>2. Moved(b)
    BY <1>7 DEF FindPosition
  <2> QED
    BY <2>1, <2>2
<1>8. CASE WritePosition(b)
  <2>1. /\ pc[b] = "write" /\ pc'[b] = "commit" /\ position' = position
        /\ UNCHANGED <<found, base, candidate>>
        /\ found[b] = None => position = None
    BY <1>8 DEF WritePosition, Goto, tables, local, folding, TypeOK
  <2>2. lock'[Vehicle] = b
    BY <1>8 DEF WritePosition, LockToWrite, TypeOK, Row
  <2> QED
    BY <2>1, <2>2
<1>9. CASE KeepPosition(b)
  <2>1. /\ pc[b] = "locate" /\ pc'[b] = "commit" /\ position' = position
        /\ UNCHANGED <<lock, found, base, candidate>>
    BY <1>9 DEF KeepPosition, Goto, tables, local, folding, TypeOK
  <2>2. ~ Moved(b)
    BY <1>9 DEF KeepPosition
  <2> QED
    BY <2>1, <2>2
<1>10. CASE Commit(b)
  <2>1. pc'[b] = "done" /\ found' = found
    BY <1>10 DEF Commit, Goto, TypeOK
  <2>2. position # None => position' # None
    BY PositionWrites
  <2> QED
    BY <2>1, <2>2
<1>11. CASE RollBack(b)
  <2>1. pc'[b] = "done" /\ found' = found /\ position' = position
    BY <1>11 DEF RollBack, Goto, tables, TypeOK
  <2> QED
    BY <2>1
<1> QED
  BY <1>1, <1>2, <1>3, <1>4, <1>5, <1>6, <1>7, <1>8, <1>9, <1>10, <1>11 DEF Own

\* ... of its breadcrumbs before the fold, ...
LEMMA OwnFresh ==
    ASSUME TypeOK, BatchInv, NEW b \in Batch, Own(b)
    PROVE  Fresh(b)'
<1> USE DEF TypeOK, BatchInv, Fresh
<1>1. ASSUME NEW d \in Device, NEW p \in Payload, Start(b, d, p)
      PROVE  Fresh(b)'
  BY <1>1 DEF Start, Goto, tables, history
<1>2. CASE ReadLedger(b)
  BY <1>2 DEF ReadLedger, LockIfThere, Goto, tables, history
<1>3. CASE ReadPosition(b)
  BY <1>3 DEF ReadPosition, LockIfThere, Goto, tables, history
<1>4. CASE Refuse(b)
  BY <1>4 DEF Refuse, NextFix, tables, local, history
<1>5. CASE Accept(b)
  BY <1>5 DEF Accept, NextFix, tables, local, history
<1>6. CASE SaveLedger(b)
  BY <1>6 DEF SaveLedger, LockToWrite, Goto, tables, local, folding, history
<1>7. CASE FindPosition(b)
  BY <1>7 DEF FindPosition, Goto, tables, local, folding, history
<1>8. CASE WritePosition(b)
  BY <1>8 DEF WritePosition, LockToWrite, Goto, tables, local, folding, history
<1>9. CASE KeepPosition(b)
  BY <1>9 DEF KeepPosition, Goto, tables, local, folding, history
<1>10. CASE Commit(b)
  BY <1>10 DEF Commit, Unlocked, Goto, local, folding
<1>11. CASE RollBack(b)
  BY <1>11 DEF RollBack, Unlocked, Goto, tables, local, folding, history
<1> QED
  BY <1>1, <1>2, <1>3, <1>4, <1>5, <1>6, <1>7, <1>8, <1>9, <1>10, <1>11 DEF Own

\* What one accepted fix adds to the fold.
LEMMA AcceptedFix ==
    ASSUME TypeOK, BatchInv, NEW b \in Batch, Accept(b)
    PROVE  \E f \in Fix :
               /\ f.kind # "invalid"
               /\ last[b] # None => f.seq > last[b].seq
               /\ last'[b] = [seq |-> f.seq, at |-> f.at]
               /\ trail'[b] = trail[b] \cup
                     {[device |-> device[b], batch |-> b, seq |-> f.seq, at |-> f.at, kind |-> f.kind]}
               /\ IF f.kind = "normal" /\ Supersedes(b, f)
                  THEN candidate'[b] = [at |-> f.at, rank |-> Rank[device[b]], device |-> device[b]]
                  ELSE candidate'[b] = candidate[b]
               /\ UNCHANGED <<pc, device, known, base>>
<1> DEFINE f == Head(fixes[b])
<1>1. fixes[b] \in Seq(Fix) /\ fixes[b] # <<>>
  BY DEF Accept, TypeOK
<1>2. f \in Fix
  BY <1>1
<1>3. f.kind \in {"normal", "fast", "invalid"} /\ f.seq \in Nat
  BY <1>2 DEF Fix
<1>4. f.kind # "invalid" /\ (last[b] # None => ~ (f.seq <= last[b].seq))
  BY DEF Accept, Accepted, Quarantined, Duplicate
<1>5. last[b] # None => last[b].seq \in Nat
  BY DEF TypeOK, Mark
<1>6. /\ last'[b] = [seq |-> f.seq, at |-> f.at]
      /\ trail'[b] = trail[b] \cup
            {[device |-> device[b], batch |-> b, seq |-> f.seq, at |-> f.at, kind |-> f.kind]}
      /\ UNCHANGED <<pc, device, known, base>>
  BY DEF Accept, TypeOK, local
<1>7. IF f.kind = "normal" /\ Supersedes(b, f)
      THEN candidate'[b] = [at |-> f.at, rank |-> Rank[device[b]], device |-> device[b]]
      ELSE candidate'[b] = candidate[b]
  BY <1>3, <1>4 DEF Accept, Reliable, TypeOK
<1> HIDE DEF f
<1> WITNESS f \in Fix
<1> QED
  BY <1>3, <1>4, <1>5, <1>6, <1>7

\* ... of them in the fold ...
LEMMA OwnFold ==
    ASSUME TypeOK, BatchInv, NEW b \in Batch, Own(b)
    PROVE  Fold(b)'
<1>1. CASE Accept(b)
  <2>1. PICK f \in Fix :
            /\ last[b] # None => f.seq > last[b].seq
            /\ last'[b] = [seq |-> f.seq, at |-> f.at]
            /\ trail'[b] = trail[b] \cup
                  {[device |-> device[b], batch |-> b, seq |-> f.seq, at |-> f.at, kind |-> f.kind]}
            /\ UNCHANGED <<pc, device, known, base>>
    BY <1>1, AcceptedFix
  <2> DEFINE new == [device |-> device[b], batch |-> b, seq |-> f.seq, at |-> f.at, kind |-> f.kind]
  <2>2. f.seq \in Nat /\ f.at \in Nat /\ last'[b] # None
    BY <2>1, NoneIsNoRow DEF Fix, Mark
  <2>3. /\ last[b] # None => last[b] \in Mark /\ last[b].seq \in Nat
        /\ known[b] # None => known[b].seq \in Nat
        /\ \A c \in trail[b] : c.seq \in Nat
    BY DEF TypeOK, Mark, Crumb
  <2>4. Folded(b) /\ Fold(b)
    BY <1>1 DEF Accept, Folded, BatchInv
  <2>5. \A c \in trail[b] : c.seq < f.seq
    BY <2>1, <2>2, <2>3, <2>4 DEF Fold
  <2>6. known[b] # None => f.seq > known[b].seq
    BY <2>1, <2>2, <2>3, <2>4 DEF Fold
  <2>7. new.seq = f.seq /\ new.at = f.at /\ new.device = device[b]
    OBVIOUS
  <2>8. last'[b].seq = f.seq /\ last'[b].at = f.at
    BY <2>1
  <2>9. trail'[b] = trail[b] \cup {new}
    BY <2>1
  <2> HIDE DEF new
  <2>10. \A c \in trail'[b] :
            /\ c.device = device'[b]
            /\ last'[b] # None /\ c.seq <= last'[b].seq
            /\ known'[b] # None => c.seq > known'[b].seq
    BY <2>1, <2>2, <2>3, <2>4, <2>5, <2>6, <2>7, <2>8, <2>9 DEF Fold
  <2>11. \A c, e \in trail'[b] : c # e => c.seq # e.seq
    BY <2>2, <2>3, <2>4, <2>5, <2>7, <2>9 DEF Fold
  <2>12. /\ trail'[b] # {}
         /\ \E c \in trail'[b] : c.seq = last'[b].seq /\ c.at = last'[b].at
    BY <2>7, <2>8, <2>9
  <2>13. known'[b] # None => last'[b] # None /\ last'[b].seq >= known'[b].seq
    BY <2>1, <2>2, <2>3, <2>6, <2>8
  <2> QED
    BY <2>10, <2>11, <2>12, <2>13 DEF Fold
<1>2. CASE ReadPosition(b)
  <2>1. /\ pc[b] = "position" /\ trail'[b] = trail[b] /\ last'[b] = last[b] /\ known'[b] = known[b]
    BY <1>2 DEF ReadPosition, TypeOK
  <2>2. trail[b] = {} /\ last[b] = known[b]
    BY <2>1 DEF BatchInv, Fresh
  <2>3. known[b] # None => known[b].seq >= known[b].seq
    BY DEF TypeOK, Mark
  <2> QED
    BY <2>1, <2>2, <2>3 DEF Fold
<1>3. CASE UNCHANGED <<device, known, last, trail>> /\ Folded(b)
  BY <1>3 DEF BatchInv, Fold
<1>4. CASE ~ Folded(b)'
  BY <1>4 DEF Fold
<1> QED
  BY <1>1, <1>2, <1>3, <1>4
  DEF Own, TypeOK, Start, ReadLedger, Refuse, SaveLedger, FindPosition, WritePosition,
      KeepPosition, Commit, RollBack, Goto, local, folding, Folded

\* A fix of a best source is never older than the candidate it leaves.
LEMMA BestSupersedes ==
    ASSUME TypeOK, BatchInv, RankInv, NEW b \in Batch, device[b] \in Device, Best(device[b]),
           NEW f \in Fix, ~ Supersedes(b, f)
    PROVE  candidate[b] # None /\ candidate[b].at >= f.at
<1>1. candidate[b] # None
  BY DEF Supersedes
<1>2. Rank[device[b]] <= candidate[b].rank
  BY <1>1 DEF RankInv, IsRank, Best
<1>3. ~ (f.at > candidate[b].at)
  BY <1>1, <1>2 DEF Supersedes
<1>4. f.at \in Nat /\ candidate[b].at \in Nat
  BY <1>1 DEF Fix, TypeOK, Place
<1> QED
  BY <1>1, <1>3, <1>4

\* ... and of its candidate.
LEMMA OwnCandidate ==
    ASSUME TypeOK, BatchInv, RankInv, NEW b \in Batch, Own(b)
    PROVE  Candidate(b)'
<1>1. CASE Accept(b)
  <2>1. PICK f \in Fix :
            /\ f.kind # "invalid"
            /\ trail'[b] = trail[b] \cup
                  {[device |-> device[b], batch |-> b, seq |-> f.seq, at |-> f.at, kind |-> f.kind]}
            /\ IF f.kind = "normal" /\ Supersedes(b, f)
               THEN candidate'[b] = [at |-> f.at, rank |-> Rank[device[b]], device |-> device[b]]
               ELSE candidate'[b] = candidate[b]
            /\ UNCHANGED <<pc, device, known, base>>
    BY <1>1, AcceptedFix
  <2> DEFINE new == [device |-> device[b], batch |-> b, seq |-> f.seq, at |-> f.at, kind |-> f.kind]
  <2>2. /\ new.device = device[b] /\ new.seq = f.seq /\ new.at = f.at /\ new.kind = f.kind
        /\ trail'[b] = trail[b] \cup {new}
    BY <2>1
  <2>3. Folded(b) /\ Candidate(b) /\ device[b] \in Device
    BY <1>1 DEF Accept, Folded, BatchInv, LedgerLock, Open
  <2>4. /\ f.at \in Nat
        /\ candidate[b] # None => candidate[b].at \in Nat
        /\ base[b] # None => base[b].at \in Nat
        /\ \A c \in trail[b] : c.at \in Nat
    BY DEF TypeOK, Fix, Place, Crumb
  <2> HIDE DEF new
  <2>5. CASE f.kind = "normal" /\ Supersedes(b, f)
    <3>1. /\ candidate'[b].at = f.at /\ candidate'[b].rank = Rank[device[b]]
          /\ candidate'[b].device = device[b]
          /\ candidate'[b] \in Place
      <4>1. [at |-> f.at, rank |-> Rank[device[b]], device |-> device[b]] \in Place
        BY <2>3, <2>4, TelemetryAssumption DEF Place
      <4> QED
        BY <2>1, <2>5, <4>1
    <3>2. candidate'[b] # None
      BY <3>1, NoneIsNoRow
    <3>3. candidate[b] # None => f.at > candidate[b].at
      BY <2>5 DEF Supersedes
    <3>4. IsFixOf(candidate'[b], trail'[b])
      BY <2>2, <2>5, <3>1 DEF IsFixOf
    <3>5. base[b] # None => candidate'[b].at >= base[b].at
      BY <2>3, <2>4, <3>1, <3>3 DEF Candidate
    <3>6. \A c \in trail'[b] : c.kind = "normal" /\ Best(c.device) => candidate'[b].at >= c.at
      BY <2>2, <2>3, <2>4, <3>1, <3>3 DEF Candidate
    <3> QED
      BY <2>1, <3>2, <3>4, <3>5, <3>6 DEF Candidate
  <2>6. CASE ~ (f.kind = "normal" /\ Supersedes(b, f))
    <3>1. candidate'[b] = candidate[b]
      BY <2>1, <2>6
    <3>2. IsFixOf(candidate[b], trail[b]) => IsFixOf(candidate[b], trail'[b])
      BY <2>2 DEF IsFixOf
    <3>3. f.kind = "normal" /\ Best(device[b]) => candidate[b] # None /\ candidate[b].at >= f.at
      BY <2>3, <2>6, BestSupersedes
    <3>4. \A c \in trail'[b] :
              c.kind = "normal" /\ Best(c.device) => candidate[b] # None /\ candidate[b].at >= c.at
      BY <2>2, <2>3, <3>3 DEF Candidate
    <3> QED
      BY <2>1, <2>3, <3>1, <3>2, <3>4 DEF Candidate
  <2> QED
    BY <2>5, <2>6
<1>2. CASE ReadPosition(b)
  <2>1. pc[b] = "position" /\ trail'[b] = trail[b] /\ candidate'[b] = position /\ base'[b] = position
    BY <1>2 DEF ReadPosition, TypeOK
  <2>2. trail[b] = {}
    BY <2>1 DEF BatchInv, Fresh
  <2>3. position # None => position.at >= position.at
    BY DEF TypeOK, Place
  <2> QED
    BY <2>1, <2>2, <2>3 DEF Candidate
<1>3. CASE UNCHANGED <<base, candidate, trail>> /\ Folded(b)
  BY <1>3 DEF BatchInv, Candidate, IsFixOf, Best
<1>4. CASE ~ Folded(b)'
  BY <1>4 DEF Candidate
<1> QED
  BY <1>1, <1>2, <1>3, <1>4
  DEF Own, TypeOK, Start, ReadLedger, Refuse, SaveLedger, FindPosition, WritePosition,
      KeepPosition, Commit, RollBack, Goto, local, folding, Folded

\* The locks and what a batch has read and folded stay as the invariant says.
LEMMA BatchStep ==
    ASSUME TypeOK, BatchInv, RankInv, [Next]_vars
    PROVE  BatchInv'
<1>1. ASSUME NEW b \in Batch, Own(b)
      PROVE  BatchInv'
  BY <1>1, OthersKeep, OwnLedger, OwnPosition, OwnFresh, OwnFold, OwnCandidate DEF BatchInv
<1>2. CASE UNCHANGED <<tables, lock, pc, local, folding, found, history>>
  BY <1>2
  DEF BatchInv, LedgerLock, PositionLock, Fresh, Fold, Candidate, Open, Folded, Saved, Moved,
      IsFixOf, Best, tables, local, folding
<1> QED
  BY <1>1, <1>2, Steps

-----------------------------------------------------------------------------
\* What a commit stores, from what its batch knows.
LEMMA OnlyCommitStores ==
    ASSUME [Next]_vars, ~ \E b \in Batch : Commit(b)
    PROVE  UNCHANGED <<tables, history>>
  BY DEF Next, Tick, Advance, Served, InsertConflict, Fail, BreakDeadlock, Start, ReadLedger,
         ReadPosition, Refuse, Accept, SaveLedger, FindPosition, WritePosition, KeepPosition,
         RollBack, vars

\* The mark stored is that of the batch if it held the row; if it had found none,
\* the history tells whether there was one by then.
LEMMA CommitMarks ==
    ASSUME TypeOK, BatchInv, NEW b \in Batch, Commit(b)
    PROVE  /\ device[b] \in Device /\ Fold(b) /\ Folded(b)
           /\ crumbs' = crumbs \cup trail[b]
           /\ raced \subseteq raced'
           /\ \A d \in Device : d # device[b] => ledger'[d] = ledger[d]
           /\ last[b] = None => trail[b] = {} /\ ledger' = ledger
           /\ last[b] # None => ledger'[device[b]] = Merged(ledger[device[b]], last[b])
           /\ last[b] # None /\ known[b] # None => ledger[device[b]] = known[b]
           /\ last[b] # None /\ known[b] = None /\ ledger[device[b]] # None => device[b] \in raced'
<1>1. pc[b] = "commit"
  BY DEF Commit
<1>2. LedgerLock(b) /\ Fold(b) /\ Folded(b)
  BY <1>1 DEF BatchInv, Folded
<1>3. device[b] \in Device
  BY <1>1, <1>2 DEF LedgerLock, Open
<1>4. last[b] = None => trail[b] = {}
  BY <1>2 DEF Fold
<1>5. known[b] # None => ledger[device[b]] = known[b]
  BY <1>2 DEF LedgerLock
<1> QED
  BY <1>2, <1>3, <1>4, <1>5 DEF Commit, TypeOK

\* A commit moves the ledger to the last breadcrumb it adds.
LEMMA LedgerStep ==
    ASSUME TypeOK, BatchInv, LedgerIsNewestCrumb, [Next]_vars
    PROVE  LedgerIsNewestCrumb'
<1>1. CASE ~ \E b \in Batch : Commit(b)
  BY <1>1, OnlyCommitStores DEF tables, history, LedgerIsNewestCrumb
<1>2. ASSUME NEW b \in Batch, Commit(b)
      PROVE  LedgerIsNewestCrumb'
  <2> SUFFICES ASSUME NEW d \in Device
               PROVE  IF ledger'[d] = None THEN \A c \in crumbs' : c.device # d
                      ELSE /\ \A c \in crumbs' : c.device = d => c.seq <= ledger'[d].seq
                           /\ \E c \in crumbs' : /\ c.device = d
                                                 /\ c.seq = ledger'[d].seq
                                                 /\ d \notin raced' => c.at = ledger'[d].at
    BY DEF LedgerIsNewestCrumb
  <2>1. IF ledger[d] = None THEN \A c \in crumbs : c.device # d
        ELSE /\ \A c \in crumbs : c.device = d => c.seq <= ledger[d].seq
             /\ \E c \in crumbs : /\ c.device = d
                                  /\ c.seq = ledger[d].seq
                                  /\ d \notin raced => c.at = ledger[d].at
    <3> DEFINE own == {c \in crumbs : c.device = d}
    <3>1. IF ledger[d] = None THEN own = {}
          ELSE /\ \A c \in own : c.seq <= ledger[d].seq
               /\ \E c \in own : c.seq = ledger[d].seq /\ (d \notin raced => c.at = ledger[d].at)
      BY DEF LedgerIsNewestCrumb
    <3> QED
      BY <3>1
  <2>2. /\ crumbs' = crumbs \cup trail[b] /\ raced \subseteq raced'
        /\ Fold(b) /\ Folded(b)
    BY <1>2, CommitMarks
  <2>3. \A c \in trail[b] : c.device = device[b]
    BY <2>2 DEF Fold
  <2>4. CASE d # device[b] \/ last[b] = None
    <3>1. ledger'[d] = ledger[d]
      BY <1>2, <2>4, CommitMarks
    <3>2. \A c \in trail[b] : c.device # d
      BY <1>2, <2>3, <2>4, CommitMarks
    <3> QED
      BY <2>1, <2>2, <3>1, <3>2
  <2>5. CASE d = device[b] /\ last[b] # None
    <3> DEFINE old == ledger[d]
               new == last[b]
    <3>1. /\ ledger'[d] = Merged(old, new)
          /\ known[b] # None => old = known[b]
          /\ known[b] = None /\ old # None => d \in raced'
      BY <1>2, <2>5, CommitMarks
    <3>2. /\ new \in Mark /\ new.seq \in Nat
          /\ old # None => old \in Mark /\ old.seq \in Nat
          /\ \A c \in crumbs : c.seq \in Nat
          /\ \A c \in trail[b] : c.seq \in Nat
      BY <2>5 DEF TypeOK, Mark, Crumb
    <3>3. /\ ledger'[d].seq = IF old # None /\ old.seq > new.seq THEN old.seq ELSE new.seq
          /\ ledger'[d].at = new.at
          /\ ledger'[d] # None
      <4>1. ledger'[d] \in Mark
        BY <3>1, <3>2 DEF Merged, Mark
      <4> QED
        BY <3>1, <4>1, NoneIsNoRow DEF Merged
    <3>4. /\ \A c \in trail[b] : c.seq <= new.seq
          /\ trail[b] = {} => new = known[b]
          /\ trail[b] # {} => \E c \in trail[b] : c.seq = new.seq /\ c.at = new.at
          /\ known[b] # None => new.seq >= known[b].seq
      BY <2>2 DEF Fold
    <3> HIDE DEF old, new
    <3>5. \A c \in crumbs' : c.device = d => c.seq <= ledger'[d].seq
      <4>1. \A c \in crumbs : c.device = d => old # None /\ c.seq <= old.seq
        BY <2>1 DEF old
      <4> QED
        BY <2>2, <2>5, <3>2, <3>3, <3>4, <4>1 DEF new
    <3>6. CASE trail[b] = {}
      <4>1. old = new
        BY <2>5, <3>1, <3>4, <3>6 DEF new
      <4>2. ledger'[d].seq = old.seq /\ ledger'[d].at = old.at /\ old # None
        BY <2>5, <3>2, <3>3, <4>1 DEF new
      <4> QED
        BY <2>1, <2>2, <3>3, <3>5, <4>2 DEF old
    <3>7. CASE trail[b] # {} /\ ~ (old # None /\ old.seq > new.seq)
      <4>1. PICK c \in trail[b] : c.seq = new.seq /\ c.at = new.at
        BY <3>4, <3>7
      <4> QED
        BY <2>2, <2>3, <2>5, <3>3, <3>5, <3>7, <4>1
    <3>8. CASE old # None /\ old.seq > new.seq
      <4>1. d \in raced'
        <5>1. known[b] # None => new.seq >= old.seq
          BY <3>1, <3>4
        <5> QED
          BY <2>5, <3>1, <3>2, <3>8, <5>1 DEF new
      <4> QED
        BY <2>1, <2>2, <3>3, <3>5, <3>8, <4>1 DEF old
    <3> QED
      BY <3>6, <3>7, <3>8
  <2> QED
    BY <2>4, <2>5
<1> QED
  BY <1>1, <1>2

\* A batch that held the ledger row adds only numbers above it, and one that found
\* no row when there was still none adds the first.
LEMMA ReplayStep ==
    ASSUME TypeOK, BatchInv, LedgerIsNewestCrumb, HistoryHasNoReplay, [Next]_vars
    PROVE  HistoryHasNoReplay'
<1>1. CASE ~ \E b \in Batch : Commit(b)
  BY <1>1, OnlyCommitStores DEF tables, history, HistoryHasNoReplay
<1>2. ASSUME NEW b \in Batch, Commit(b)
      PROVE  HistoryHasNoReplay'
  <2> DEFINE d == device[b]
  <2>1. /\ d \in Device /\ Fold(b) /\ Folded(b)
        /\ crumbs' = crumbs \cup trail[b] /\ raced \subseteq raced'
        /\ last[b] = None => trail[b] = {}
        /\ last[b] # None /\ known[b] # None => ledger[d] = known[b]
        /\ last[b] # None /\ known[b] = None /\ ledger[d] # None => d \in raced'
    BY <1>2, CommitMarks
  <2>2. /\ \A c \in trail[b] : c.device = d /\ (known[b] # None => c.seq > known[b].seq)
        /\ \A c, e \in trail[b] : c # e => c.seq # e.seq
    BY <2>1 DEF Fold
  <2>3. IF ledger[d] = None THEN \A c \in crumbs : c.device # d
        ELSE \A c \in crumbs : c.device = d => c.seq <= ledger[d].seq
    BY <2>1 DEF LedgerIsNewestCrumb
  <2>4. /\ known[b] # None => known[b].seq \in Nat
        /\ \A c \in crumbs : c.seq \in Nat
        /\ \A c \in trail[b] : c.seq \in Nat
    BY DEF TypeOK, Mark, Crumb
  <2> HIDE DEF d
  <2>5. ASSUME NEW c \in crumbs, NEW e \in trail[b], c.device = d, d \notin raced'
        PROVE  c.seq # e.seq
    <3>1. last[b] # None
      BY <2>1
    <3>2. known[b] # None
      BY <2>1, <2>3, <2>5, <3>1
    <3>3. c.seq <= known[b].seq /\ e.seq > known[b].seq
      BY <2>1, <2>2, <2>3, <2>5, <3>1, <3>2
    <3> QED
      BY <2>4, <3>2, <3>3
  <2> SUFFICES ASSUME NEW c \in crumbs', NEW e \in crumbs', c # e, c.device = e.device,
                      c.device \notin raced'
               PROVE  c.seq # e.seq
    BY DEF HistoryHasNoReplay
  <2>6. CASE c \in crumbs /\ e \in crumbs
    BY <2>1, <2>6 DEF HistoryHasNoReplay
  <2>7. CASE c \in crumbs /\ e \in trail[b]
    BY <2>2, <2>5, <2>7
  <2>8. CASE c \in trail[b] /\ e \in crumbs
    BY <2>2, <2>5, <2>8
  <2>9. CASE c \in trail[b] /\ e \in trail[b]
    BY <2>2, <2>9
  <2> QED
    BY <2>1, <2>6, <2>7, <2>8, <2>9
<1> QED
  BY <1>1, <1>2

\* Positions and candidates keep the rank of a device.
LEMMA RankStep ==
    ASSUME TypeOK, BatchInv, RankInv, [Next]_vars
    PROVE  RankInv'
<1>1. ASSUME NEW b \in Batch, Own(b)
      PROVE  RankInv'
  <2>1. position' # None => IsRank(position'.rank)
    <3>1. CASE Commit(b) /\ Moved(b)
      <4>1. pc[b] = "commit" /\ candidate[b] # None /\ position' = Rewritten(b)
        BY <3>1 DEF Commit, Moved
      <4>2. found[b] # None => position # None
        BY DEF BatchInv, PositionLock
      <4>3. CASE position = None
        BY <4>1, <4>2, <4>3, RewrittenIsAPlace DEF RankInv
      <4>4. CASE position # None
        BY <4>1, <4>2, <4>4, RewrittenIsAPlace DEF RankInv
      <4> QED
        BY <4>3, <4>4
    <3>2. CASE ~ (Commit(b) /\ Moved(b))
      <4>1. position' = position
        BY <1>1, <3>2 DEF Own, Start, ReadLedger, ReadPosition, Refuse, Accept, SaveLedger,
             FindPosition, WritePosition, KeepPosition, Commit, RollBack, tables
      <4> QED
        BY <4>1 DEF RankInv, IsRank
    <3> QED
      BY <3>1, <3>2
  <2>2. \/ candidate'[b] = candidate[b]
        \/ candidate'[b] = position
        \/ candidate'[b].rank = Rank[device[b]] /\ device[b] \in Device
    <3>1. CASE Accept(b)
      <4>1. device[b] \in Device
        BY <3>1 DEF Accept, BatchInv, LedgerLock, Open
      <4>2. \E f \in Fix :
               \/ candidate'[b] = [at |-> f.at, rank |-> Rank[device[b]], device |-> device[b]]
               \/ candidate'[b] = candidate[b]
        BY <3>1, AcceptedFix
      <4> QED
        BY <4>1, <4>2
    <3>2. CASE ~ Accept(b)
      BY <1>1, <3>2
      DEF Own, TypeOK, Start, ReadLedger, ReadPosition, Refuse, SaveLedger, FindPosition,
          WritePosition, KeepPosition, Commit, RollBack, folding
    <3> QED
      BY <3>1, <3>2
  <2>3. \A x \in Batch : x # b => candidate'[x] = candidate[x]
    BY <1>1, LocalsOfOthers DEF Same
  <2> QED
    BY <2>1, <2>2, <2>3 DEF RankInv, IsRank
<1>2. CASE UNCHANGED <<tables, lock, pc, local, folding, found, history>>
  BY <1>2 DEF RankInv, IsRank, tables, folding
<1> QED
  BY <1>1, <1>2, Steps

\* While every batch that writes the position had read it, what a commit writes is
\* its own candidate, and what it leaves is no older than its candidate.
LEMMA CommitPosition ==
    ASSUME TypeOK, BatchInv, NEW b \in Batch, Commit(b), ~ overwritten'
    PROVE  /\ crumbs' = crumbs \cup trail[b] /\ ~ overwritten
           /\ Folded(b) /\ Candidate(b)
           /\ Moved(b) => /\ candidate[b] # None /\ position' = candidate[b]
                          /\ position = base[b]
                          /\ position # None => candidate[b].at > position.at
                          /\ IsFixOf(candidate[b], trail[b])
           /\ ~ Moved(b) => /\ position' = position
                            /\ candidate[b] # None =>
                                  position # None /\ candidate[b].at <= position.at
<1>1. /\ pc[b] = "commit" /\ crumbs' = crumbs \cup trail[b] /\ ~ overwritten
      /\ Moved(b) /\ base[b] = None => position = None
      /\ position' = IF Moved(b) THEN Rewritten(b) ELSE position
  BY DEF Commit
<1>2. Folded(b) /\ Candidate(b) /\ PositionLock(b)
  BY <1>1 DEF Folded, BatchInv
<1>3. ASSUME Moved(b)
      PROVE  /\ candidate[b] # None /\ position' = candidate[b]
             /\ position = base[b]
             /\ position # None => candidate[b].at > position.at
             /\ IsFixOf(candidate[b], trail[b])
  <2>1. candidate[b] # None /\ (base[b] # None => candidate[b].at > base[b].at)
    BY <1>3 DEF Moved
  <2>2. position = base[b]
    BY <1>1, <1>2, <1>3 DEF PositionLock
  <2>3. found[b] = None \/ position = found[b]
    BY <1>1, <1>2, <1>3, <2>2 DEF PositionLock
  <2>4. position' = candidate[b]
    <3>1. found[b] # None => position # None
      BY <1>2 DEF PositionLock
    <3> QED
      BY <1>1, <1>3, <2>1, <2>3, <3>1, RewrittenIsAPlace
  <2>5. candidate[b] # base[b]
    <3>1. base[b] # None => base[b].at \in Nat
      BY DEF TypeOK, Place
    <3> QED
      BY <2>1, <3>1
  <2> QED
    BY <1>2, <2>1, <2>2, <2>4, <2>5 DEF Candidate
<1>4. ASSUME ~ Moved(b), candidate[b] # None
      PROVE  position # None /\ candidate[b].at <= position.at
  <2>1. base[b] # None /\ ~ (candidate[b].at > base[b].at)
    BY <1>4 DEF Moved
  <2>2. position = base[b] /\ base[b] \in Place /\ candidate[b] \in Place
    BY <1>2, <1>4, <2>1 DEF PositionLock, TypeOK
  <2> QED
    BY <2>1, <2>2 DEF Place
<1> QED
  BY <1>1, <1>2, <1>3, <1>4

\* The position stays a fix of the history.
LEMMA PositionStep ==
    ASSUME TypeOK, BatchInv, PositionIsAFix, [Next]_vars
    PROVE  PositionIsAFix'
<1>1. CASE ~ \E b \in Batch : Commit(b)
  BY <1>1, OnlyCommitStores DEF tables, history, PositionIsAFix
<1>2. ASSUME NEW b \in Batch, Commit(b)
      PROVE  PositionIsAFix'
  <2> SUFFICES ASSUME position' # None, ~ overwritten'
               PROVE  IsFixOf(position', crumbs')
    BY DEF PositionIsAFix, IsFixOf
  <2>1. crumbs' = crumbs \cup trail[b] /\ ~ overwritten
    BY <1>2, CommitPosition
  <2>2. CASE Moved(b)
    <3>1. position' = candidate[b] /\ IsFixOf(candidate[b], trail[b])
      BY <1>2, <2>2, CommitPosition
    <3> QED
      BY <2>1, <3>1 DEF IsFixOf
  <2>3. CASE ~ Moved(b)
    <3>1. position' = position
      BY <1>2, <2>3, CommitPosition
    <3> QED
      BY <2>1, <3>1 DEF PositionIsAFix, IsFixOf
  <2> QED
    BY <2>2, <2>3
<1> QED
  BY <1>1, <1>2

\* A fix of a best source does not stay behind.
LEMMA BestStep ==
    ASSUME TypeOK, BatchInv, BestSourceLeads, [Next]_vars
    PROVE  BestSourceLeads'
<1>1. CASE ~ \E b \in Batch : Commit(b)
  BY <1>1, OnlyCommitStores DEF tables, history, BestSourceLeads
<1>2. ASSUME NEW b \in Batch, Commit(b)
      PROVE  BestSourceLeads'
  <2> SUFFICES ASSUME NEW c \in crumbs', c.kind = "normal", Best(c.device), ~ overwritten'
               PROVE  position' # None /\ position'.at >= c.at
    BY DEF BestSourceLeads, Best
  <2>1. /\ crumbs' = crumbs \cup trail[b] /\ ~ overwritten
        /\ Folded(b) /\ Candidate(b)
    BY <1>2, CommitPosition
  <2>2. c \in crumbs => position # None /\ position.at >= c.at
    BY <2>1 DEF BestSourceLeads, Best
  <2>3. c \in trail[b] => candidate[b] # None /\ candidate[b].at >= c.at
    BY <2>1 DEF Candidate
  <2>4. /\ c \in crumbs \/ c \in trail[b]
        /\ c.at \in Nat
        /\ position # None => position.at \in Nat
        /\ candidate[b] # None => candidate[b].at \in Nat
    BY <2>1 DEF TypeOK, Crumb, Place
  <2>5. CASE Moved(b)
    <3>1. /\ candidate[b] # None /\ position' = candidate[b]
          /\ position # None => candidate[b].at > position.at
      BY <1>2, <2>5, CommitPosition
    <3> QED
      BY <2>2, <2>3, <2>4, <3>1
  <2>6. CASE ~ Moved(b)
    <3>1. /\ position' = position
          /\ candidate[b] # None => position # None /\ candidate[b].at <= position.at
      BY <1>2, <2>6, CommitPosition
    <3> QED
      BY <2>2, <2>3, <2>4, <3>1
  <2> QED
    BY <2>5, <2>6
<1> QED
  BY <1>1, <1>2

\* In every reachable state the locks, the folds and the stored rows are as IInv says.
THEOREM Inductive == Spec => []IInv
<1>1. IInv /\ [Next]_vars => IInv'
  BY TypeStep, BatchStep, RankStep, LedgerStep, ReplayStep, PositionStep, BestStep DEF IInv
<1> QED
  BY InitEstablishes, <1>1, PTL DEF Spec

-----------------------------------------------------------------------------
\* However the batches of any number of devices overlap, fail or deadlock, the
\* ledger of a device is the newest of its breadcrumbs and no breadcrumb is stored
\* twice, apart from devices whose first two batches overlapped.
THEOREM HistoryCorrect == Spec => []HistoryIsSound
<1>1. IInv => HistoryIsSound
  BY DEF IInv, HistoryIsSound
<1> QED
  BY Inductive, <1>1, PTL

\* While no batch wrote a position it had not read, the position of a vehicle is one
\* normal fix of the history and as recent as any from a source of the best rank.
THEOREM PositionCorrect == Spec => []PositionIsSound
<1>1. IInv => PositionIsSound
  BY DEF IInv, PositionIsSound
<1> QED
  BY Inductive, <1>1, PTL
=============================================================================
