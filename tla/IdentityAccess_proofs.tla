------------------------- MODULE IdentityAccess_proofs -------------------------
(***************************************************************************)
(* Proofs about IdentityAccess for any users, sessions and requests.       *)
(*                                                                         *)
(* The inductive invariant IInv rests on what no step takes back: a        *)
(* revoked session stays revoked, a membership that has ended stays ended  *)
(* and a grant stays on record.  An ended session is therefore useless to  *)
(* a later request at its first read or at the read of its membership, and *)
(* the capabilities a request has read keep their origin.                  *)
(***************************************************************************)
EXTENDS IdentityAccess, TLAPS

\* A membership that was suspended or revoked.
Over(u, o) == membership[<<u, o>>] \in {"SUSPENDED", "REVOKED"}

\* Where a capability comes from: a role, or a grant on record.
Founded(c, u, o) ==
    \/ c \in Baseline(RoleAt(u, o))
    \/ \E q \in Request : grant[q] # None /\ grant[q].capability = c /\ grant[q].grantee \in {u, o}

CapabilitiesFounded(r) ==
    \A c \in work[r].capabilities : Founded(c, work[r].user, work[r].org)

SignInOf(x) ==
    /\ pc[x] \in {"idle", "done", "stated", "consumed", "exchanged", "choosing", "selected"}
    /\ pc[x] \notin {"idle", "done"} => work[x] \in SignInWork
    /\ pc[x] \in {"stated", "consumed"} => work[x].attempt \in Attempt
    /\ pc[x] # "done" => session[x] = None

Working(r) == pc[r] \notin {"idle", "done"}

\* A request that found its membership was not late, and the sessions that a
\* revocation knows of are those it will revoke and others revoked already.
RequestOf(r) ==
    /\ pc[r] \in {"idle", "done", "read", "touched", "member", "authenticated", "revoking", "dropping"}
    /\ pc[r] # "done" => grant[r] = None
    /\ Working(r) =>
          /\ work[r] \in RequestWork
          /\ Known(work[r].session)
          /\ \A s \in work[r].target \cup work[r].known : Known(s)
          /\ \A s \in work[r].known \ work[r].target : Revoked(s)
          /\ work[r].late => Over(work[r].user, work[r].org)
          /\ pc[r] \notin {"read", "touched"} => ~ work[r].late
          /\ CapabilitiesFounded(r)

WorkInv == (\A x \in SignIn : SignInOf(x)) /\ (\A r \in Request : RequestOf(r))

\* An ended session is revoked, or its membership is over.
BarredInv ==
    \A s \in barred : Known(s) /\ (Revoked(s) \/ Over(session[s].user, session[s].org))

IInv ==
    /\ TypeOK
    /\ WorkInv
    /\ BarredInv
    /\ GrantsAreGrounded
-----------------------------------------------------------------------------
\* None is no row and no transaction, and a sign-in is not a request.
LEMMA NoneIsNothing ==
    /\ None \notin MembershipStatus /\ None \notin SessionRow /\ None \notin Grant
    /\ None \notin SignInWork /\ None \notin RequestWork
    /\ None \notin Txn /\ None \notin Attempt
    /\ \A x \in SignIn : x \in Session /\ x \in Txn /\ x \notin Request
    /\ \A r \in Request : r \in Txn /\ r \notin SignIn
  BY IdentityAssumption, NoneIsNoRow DEF Txn, SignIn

\* The rows that a sign-in inserts and a revocation writes.
LEMMA SessionFields ==
    /\ \A u \in User, o \in Org : /\ NewSession(u, o) \in SessionRow
                                  /\ NewSession(u, o).user = u /\ NewSession(u, o).org = o
    /\ \A s \in Session : session[s] \in SessionRow =>
          /\ RevokedRow(s) \in SessionRow
          /\ RevokedRow(s).revoked = TRUE
          /\ RevokedRow(s).user = session[s].user /\ RevokedRow(s).org = session[s].org
          /\ session[s].user \in User /\ session[s].org \in Org
    /\ None \notin SessionRow
  BY NoneIsNothing DEF NewSession, RevokedRow, SessionRow

\* A role has capabilities only.
LEMMA Baselines ==
    ASSUME NEW u \in User, NEW o \in Org
    PROVE  Baseline(RoleAt(u, o)) \subseteq Capability
<1>1. RoleAt(u, o) \in Role
  BY IdentityAssumption DEF RoleAt
<1> QED
  BY <1>1 DEF Capability

\* The steps of the specification.
Ends(x) == x \in Txn /\ pc[x] \notin {"idle", "done"} /\ RollBack(x)

SignInStep(x) ==
    \/ \E a \in Attempt : BeginCallback(x, a)
    \/ \E u \in User, o \in Org : SelectOrg(x, u, o)
    \/ \E m \in Developer : OpenDevSession(x, m)
    \/ ConsumeState(x) \/ ExchangeCode(x) \/ ReadMemberships(x) \/ OfferChoice(x) \/ OpenSession(x)

RequestStep(r) ==
    \/ \E s \in Session : ReadSession(r, s)
    \/ TouchSession(r) \/ ReadMembership(r) \/ ReadGrants(r)
    \/ IssueToken(r) \/ Logout(r) \/ BeginLogoutAll(r)
    \/ \E s \in Session : BeginAdminRevoke(r, s)
    \/ \E u \in User, o \in Org : CreateMembership(r, u, o)
    \/ \E u \in User, o \in Org, s \in MembershipStatus : EndMembership(r, u, o, s)
    \/ \E g \in Grantee, c \in Delegable : CreateGrant(r, g, c)
    \/ \E q \in Request : RevokeGrant(r, q)
    \/ \E s \in Session : LockSession(r, s)
    \/ CommitRevocation(r)

\* Every step of the system is one of these.
LEMMA Steps ==
    ASSUME [Next]_vars
    PROVE  \/ \E x \in SignIn : SignInStep(x)
           \/ \E r \in Request : RequestStep(r)
           \/ \E x \in Txn : Ends(x)
           \/ UNCHANGED vars
<1>1. ASSUME NEW x \in SignIn, AdvanceSignIn(x) \/ Refuse(x)
      PROVE  SignInStep(x) \/ Ends(x)
  BY <1>1 DEF AdvanceSignIn, ExchangeRefused, NoActiveMembership, OpeningRefused, Refuse,
              SignInStep, Ends, Txn
<1>2. ASSUME NEW r \in Request, AdvanceRequest(r) \/ Refuse(r)
      PROVE  RequestStep(r) \/ Ends(r)
  <2>1. BreakDeadlock(r) => Ends(r)
    BY DEF BreakDeadlock, Deadlocked, Ends, Txn
  <2>2. Look(r) \/ MembershipRefused(r) \/ Refuse(r) => Ends(r)
    BY DEF Look, MembershipRefused, Refuse, Ends, Txn
  <2>3. Serve(r) => RequestStep(r) \/ Look(r)
    BY DEF Serve, RequestStep
  <2> QED
    BY <1>2, <2>1, <2>2, <2>3 DEF AdvanceRequest, RequestStep
<1>3. Begin => (\E x \in SignIn : SignInStep(x)) \/ \E r \in Request : RequestStep(r)
  BY DEF Begin, SignInStep, RequestStep
<1>4. Served => UNCHANGED vars
  BY DEF Served
<1> QED
  BY <1>1, <1>2, <1>3, <1>4, NoneIsNothing DEF Next

-----------------------------------------------------------------------------
\* A transaction's step leaves the others where they are.
LEMMA OthersUnmoved ==
    ASSUME TypeOK, NEW x \in Txn, SignInStep(x) \/ RequestStep(x) \/ Ends(x), NEW y \in Txn, y # x
    PROVE  pc'[y] = pc[y] /\ work'[y] = work[y]
<1>1. CASE SignInStep(x)
  BY <1>1 DEF TypeOK, SignInStep, BeginCallback, SelectOrg, OpenDevSession, ConsumeState,
     ExchangeCode, ReadMemberships, OfferChoice, OpenSession, Ended, Goto
<1>2. CASE RequestStep(x)
  BY <1>2 DEF TypeOK, RequestStep, ReadSession, TouchSession, ReadMembership, ReadGrants, IssueToken,
     Logout, BeginLogoutAll, BeginAdminRevoke, CreateMembership, EndMembership, CreateGrant,
     RevokeGrant, LockSession, CommitRevocation, Ended, Goto
<1>3. CASE Ends(x)
  BY <1>3 DEF TypeOK, Ends, RollBack, Ended, Goto
<1> QED
  BY <1>1, <1>2, <1>3

\* The types of the progress after a step that ends the transaction, ...
LEMMA EndedTypes ==
    ASSUME TypeOK, NEW x \in Txn, Ended(x)
    PROVE  /\ pc' \in [Txn -> Progress \cup {"idle", "done"}]
           /\ work' \in [Txn -> SignInWork \cup RequestWork \cup {None}]
           /\ \A y \in Txn : work'[y] = None <=> pc'[y] \in {"idle", "done"}
           /\ lock' \in [Session \cup Attempt -> Txn \cup {None}]
           /\ pc'[x] = "done"
  BY DEF TypeOK, Ended, Goto, Unlocked

\* ... one that goes on with a new record ...
LEMMA MoveTypes ==
    ASSUME TypeOK, NEW x \in Txn, NEW label \in Progress, Goto(x, label),
           NEW w \in SignInWork \cup RequestWork, work' = [work EXCEPT ![x] = w]
    PROVE  /\ pc' \in [Txn -> Progress \cup {"idle", "done"}]
           /\ work' \in [Txn -> SignInWork \cup RequestWork \cup {None}]
           /\ \A y \in Txn : work'[y] = None <=> pc'[y] \in {"idle", "done"}
           /\ pc'[x] = label /\ work'[x] = w
<1>1. label \notin {"idle", "done"}
  BY DEF Progress
<1>2. w # None
  BY NoneIsNothing
<1> QED
  BY <1>1, <1>2 DEF TypeOK, Goto

\* ... and one that goes on with the record it has.
LEMMA StayTypes ==
    ASSUME TypeOK, NEW x \in Txn, NEW label \in Progress, Goto(x, label),
           pc[x] \notin {"idle", "done"}, work' = work
    PROVE  /\ pc' \in [Txn -> Progress \cup {"idle", "done"}]
           /\ work' \in [Txn -> SignInWork \cup RequestWork \cup {None}]
           /\ \A y \in Txn : work'[y] = None <=> pc'[y] \in {"idle", "done"}
           /\ pc'[x] = label /\ work'[x] = work[x]
<1>1. label \notin {"idle", "done"}
  BY DEF Progress
<1> QED
  BY <1>1 DEF TypeOK, Goto

\* The tables and locks have their types; the rest of TypeOK is the lemmas above.
TablesOK ==
    /\ membership \in [User \X Org -> MembershipStatus \cup {None}]
    /\ session \in [Session -> SessionRow \cup {None}]
    /\ token \subseteq {s \in Session : session[s] # None}
    /\ grant \in [Request -> Grant \cup {None}]
    /\ auth \in [Attempt -> {"pending", "consumed"}]
    /\ spent \subseteq Attempt
    /\ selection \subseteq User
    /\ barred \subseteq Session

ProgressOK ==
    /\ pc \in [Txn -> Progress \cup {"idle", "done"}]
    /\ work \in [Txn -> SignInWork \cup RequestWork \cup {None}]
    /\ \A x \in Txn : work[x] = None <=> pc[x] \in {"idle", "done"}
    /\ lock \in [Session \cup Attempt -> Txn \cup {None}]

\* Types are kept by sign-ins, ...
LEMMA SignInTypes ==
    ASSUME TypeOK, WorkInv, NEW x \in SignIn, SignInStep(x)
    PROVE  TypeOK'
<1> USE NoneIsNothing
<1>0. /\ SignInOf(x) /\ x \in Txn /\ x \in Session
      /\ {"stated", "consumed", "exchanged", "choosing", "selected"} \subseteq Progress
  BY DEF WorkInv, Progress
<1>1. ASSUME NEW a \in Attempt, BeginCallback(x, a)
      PROVE  TypeOK'
  <2> DEFINE w == [attempt |-> a, user |-> Subject[a], orgs |-> {}]
  <2>1. w \in SignInWork
    BY IdentityAssumption DEF SignInWork
  <2>2. work' = [work EXCEPT ![x] = w] /\ Goto(x, "stated") /\ UNCHANGED <<tables, lock, barred>>
    BY <1>1 DEF BeginCallback
  <2> HIDE DEF w
  <2>3. ProgressOK'
    BY <1>0, <2>1, <2>2, MoveTypes DEF ProgressOK, TypeOK
  <2> QED
    BY <2>2, <2>3 DEF TablesOK, tables, TypeOK, ProgressOK
<1>2. ASSUME NEW u \in User, NEW o \in Org, SelectOrg(x, u, o)
      PROVE  TypeOK'
  <2> DEFINE w == [attempt |-> None, user |-> u, orgs |-> {o}]
  <2>1. w \in SignInWork
    BY DEF SignInWork
  <2>2. work' = [work EXCEPT ![x] = w] /\ Goto(x, "selected") /\ UNCHANGED <<tables, lock, barred>>
    BY <1>2 DEF SelectOrg
  <2> HIDE DEF w
  <2>3. ProgressOK'
    BY <1>0, <2>1, <2>2, MoveTypes DEF ProgressOK, TypeOK
  <2> QED
    BY <2>2, <2>3 DEF TablesOK, tables, TypeOK, ProgressOK
<1>3. ASSUME NEW m \in Developer, OpenDevSession(x, m)
      PROVE  TypeOK'
  <2>0. PICK u \in User, o \in Org : m = <<u, o>>
    BY IdentityAssumption
  <2>1. m \in User \X Org /\ m[1] \in User /\ m[2] \in Org
    BY <2>0
  <2>2. ProgressOK'
    BY <1>0, <1>3, EndedTypes DEF OpenDevSession, ProgressOK
  <2>3. TablesOK'
    BY <1>0, <1>3, <2>1, SessionFields DEF OpenDevSession, TablesOK, TypeOK, WithToken, MembershipStatus
  <2> QED
    BY <2>2, <2>3 DEF TypeOK, ProgressOK, TablesOK
<1>4. CASE ConsumeState(x)
  <2>1. ProgressOK'
    BY <1>0, <1>4, StayTypes DEF ConsumeState, ProgressOK, TypeOK
  <2> QED
    BY <1>4, <2>1 DEF ConsumeState, TablesOK, tables, TypeOK, ProgressOK
<1>5. CASE ExchangeCode(x)
  <2>1. ProgressOK'
    BY <1>0, <1>5, StayTypes DEF ExchangeCode, ProgressOK, TypeOK
  <2>2. work[x].attempt \in Attempt
    BY <1>0, <1>5 DEF ExchangeCode, SignInOf
  <2> QED
    BY <1>5, <2>1, <2>2 DEF ExchangeCode, TablesOK, TypeOK, ProgressOK
<1>6. CASE ReadMemberships(x)
  <2> DEFINE orgs == {o \in Org : Effective(work[x].user, o)}
             w == [work[x] EXCEPT !.orgs = orgs]
  <2>1. pc[x] = "exchanged" /\ UNCHANGED <<tables, lock, barred>>
    BY <1>6 DEF ReadMemberships
  <2>2. w \in SignInWork
    BY <1>0, <2>1 DEF SignInOf, SignInWork
  <2>3. PICK label \in {"selected", "choosing"} : Goto(x, label)
    BY <1>6 DEF ReadMemberships
  <2>4. work' = [work EXCEPT ![x] = w]
    BY <1>6 DEF ReadMemberships
  <2> HIDE DEF w
  <2>5. ProgressOK'
    BY <1>0, <2>1, <2>2, <2>3, <2>4, MoveTypes DEF ProgressOK, TypeOK
  <2> QED
    BY <2>1, <2>5 DEF TablesOK, tables, TypeOK, ProgressOK
<1>7. ASSUME pc[x] \in {"choosing", "selected"}
      PROVE  /\ work[x] \in SignInWork /\ work[x].user \in User /\ work[x].orgs \subseteq Org
             /\ AuthAfter(x) \in [Attempt -> {"pending", "consumed"}]
  <2>1. work[x] \in SignInWork
    BY <1>0, <1>7 DEF SignInOf
  <2>2. work[x].user \in User /\ work[x].orgs \subseteq Org /\ work[x].attempt \in Attempt \cup {None}
    BY <2>1 DEF SignInWork
  <2> QED
    BY <2>1, <2>2 DEF AuthAfter, TypeOK
<1>8. CASE OfferChoice(x)
  <2>1. ProgressOK'
    BY <1>0, <1>8, EndedTypes DEF OfferChoice, ProgressOK
  <2> QED
    BY <1>7, <1>8, <2>1 DEF OfferChoice, TablesOK, TypeOK, ProgressOK
<1>9. CASE OpenSession(x)
  <2>1. ProgressOK'
    BY <1>0, <1>9, EndedTypes DEF OpenSession, ProgressOK
  <2>2. TablesOK'
    BY <1>0, <1>7, <1>9, SessionFields DEF OpenSession, TablesOK, TypeOK, WithToken
  <2> QED
    BY <2>1, <2>2 DEF TypeOK, ProgressOK, TablesOK
<1> QED
  BY <1>1, <1>2, <1>3, <1>4, <1>5, <1>6, <1>8, <1>9 DEF SignInStep

\* What a request at work holds.
LEMMA RequestFields ==
    ASSUME WorkInv, NEW r \in Request, Working(r)
    PROVE  /\ RequestOf(r) /\ work[r] \in RequestWork
           /\ work[r].session \in Session /\ work[r].user \in User /\ work[r].org \in Org
           /\ work[r].capabilities \subseteq Capability
           /\ work[r].target \subseteq Session /\ work[r].known \subseteq Session
           /\ work[r].wanted \subseteq Session
           /\ session[work[r].session] # None
           /\ \A s \in work[r].target \cup work[r].known : session[s] # None
  BY DEF WorkInv, RequestOf, RequestWork, Known

\* The record a request goes on with.
LEMMA RequestMoves ==
    ASSUME TypeOK, WorkInv, NEW r \in Request
    PROVE  /\ \A s \in Session : ReadSession(r, s) =>
                 \E w \in RequestWork : work' = [work EXCEPT ![r] = w] /\ Goto(r, "read")
           /\ ReadGrants(r) =>
                 \E w \in RequestWork : work' = [work EXCEPT ![r] = w] /\ Goto(r, "authenticated")
           /\ BeginLogoutAll(r) =>
                 \E w \in RequestWork : work' = [work EXCEPT ![r] = w] /\ Goto(r, "revoking")
           /\ \A s \in Session : BeginAdminRevoke(r, s) =>
                 \E w \in RequestWork : work' = [work EXCEPT ![r] = w] /\ Goto(r, "dropping")
           /\ \A s \in Session : LockSession(r, s) =>
                 \E w \in RequestWork : work' = [work EXCEPT ![r] = w]
<1>1. ASSUME NEW s \in Session, ReadSession(r, s)
      PROVE  \E w \in RequestWork : work' = [work EXCEPT ![r] = w] /\ Goto(r, "read")
  <2> DEFINE w == [session |-> s, user |-> session[s].user, org |-> session[s].org,
                   late |-> s \in barred, capabilities |-> {},
                   target |-> {}, known |-> {}, wanted |-> {}]
  <2>1. session[s] \in SessionRow
    BY <1>1 DEF ReadSession, Known, TypeOK
  <2>2. w \in RequestWork
    BY <2>1, SessionFields DEF RequestWork
  <2>3. work' = [work EXCEPT ![r] = w] /\ Goto(r, "read")
    BY <1>1 DEF ReadSession
  <2> HIDE DEF w
  <2> QED
    BY <2>2, <2>3
<1>2. ASSUME ReadGrants(r)
      PROVE  \E w \in RequestWork : work' = [work EXCEPT ![r] = w] /\ Goto(r, "authenticated")
  <2> DEFINE caps == Baseline(RoleAt(work[r].user, work[r].org)) \cup Granted(work[r].user, work[r].org)
             w == [work[r] EXCEPT !.capabilities = caps]
  <2>1. Working(r)
    BY <1>2 DEF ReadGrants, Working
  <2>2. caps \subseteq Capability
    <3>1. \A q \in Request : grant[q] # None => grant[q].capability \in Delegable
      BY DEF TypeOK, Grant
    <3>2. Granted(work[r].user, work[r].org) \subseteq Delegable
      BY <3>1 DEF Granted
    <3>3. Delegable \subseteq Capability
      BY DEF Capability
    <3> QED
      BY <2>1, <3>2, <3>3, RequestFields, Baselines
  <2>3. w \in RequestWork
    <3> HIDE DEF caps
    <3> QED
      BY <2>1, <2>2, RequestFields DEF RequestWork
  <2>4. work' = [work EXCEPT ![r] = w] /\ Goto(r, "authenticated")
    BY <1>2 DEF ReadGrants
  <2> HIDE DEF w
  <2> QED
    BY <2>3, <2>4
<1>3. ASSUME BeginLogoutAll(r)
      PROVE  \E w \in RequestWork : work' = [work EXCEPT ![r] = w] /\ Goto(r, "revoking")
  <2> DEFINE T == Revocable(r)
             W == Revocable(r) \ {work[r].session}
             K == Sessions(work[r].user)
             w == [work[r] EXCEPT !.target = T, !.wanted = W, !.known = K]
  <2>1. Working(r) /\ Goto(r, "revoking")
    BY <1>3 DEF BeginLogoutAll, Authenticated, Working
  <2>2. T \in SUBSET Session /\ W \in SUBSET Session /\ K \in SUBSET Session
    BY DEF Revocable, Sessions
  <2>3. work' = [work EXCEPT ![r] = w]
    <3>1. work' = [work EXCEPT ![r].target = T, ![r].wanted = W, ![r].known = K]
      BY <1>3 DEF BeginLogoutAll
    <3>2. work \in [Txn -> SignInWork \cup RequestWork \cup {None}] /\ r \in Txn
      BY NoneIsNothing DEF TypeOK
    <3> HIDE DEF T, W, K
    <3> QED
      BY <3>1, <3>2
  <2> HIDE DEF T, W, K
  <2>4. w \in RequestWork
    BY <2>1, <2>2, RequestFields DEF RequestWork
  <2> HIDE DEF w
  <2> QED
    BY <2>1, <2>3, <2>4
<1>4. ASSUME NEW s \in Session, BeginAdminRevoke(r, s)
      PROVE  \E w \in RequestWork : work' = [work EXCEPT ![r] = w] /\ Goto(r, "dropping")
  <2> DEFINE W == {s} \ {work[r].session}
             w == [work[r] EXCEPT !.target = {s}, !.wanted = W, !.known = {s}]
  <2>1. Working(r) /\ Goto(r, "dropping")
    BY <1>4 DEF BeginAdminRevoke, Authenticated, Working
  <2>2. work' = [work EXCEPT ![r] = w]
    <3>1. work' = [work EXCEPT ![r].target = {s}, ![r].wanted = W, ![r].known = {s}]
      BY <1>4 DEF BeginAdminRevoke
    <3>2. work \in [Txn -> SignInWork \cup RequestWork \cup {None}] /\ r \in Txn
      BY NoneIsNothing DEF TypeOK
    <3> HIDE DEF W
    <3> QED
      BY <3>1, <3>2
  <2>3. w \in RequestWork
    BY <2>1, RequestFields DEF RequestWork
  <2> HIDE DEF w
  <2> QED
    BY <2>1, <2>2, <2>3
<1>5. ASSUME NEW s \in Session, LockSession(r, s)
      PROVE  \E w \in RequestWork : work' = [work EXCEPT ![r] = w]
  <2> DEFINE w == [work[r] EXCEPT !.wanted = work[r].wanted \ {s}]
  <2>1. Working(r)
    BY <1>5 DEF LockSession, Working
  <2>2. w \in RequestWork
    BY <2>1, RequestFields DEF RequestWork
  <2>3. work' = [work EXCEPT ![r] = w]
    BY <1>5 DEF LockSession
  <2> HIDE DEF w
  <2> QED
    BY <2>2, <2>3
<1> QED
  BY <1>1, <1>2, <1>3, <1>4, <1>5

-----------------------------------------------------------------------------
\* ... by requests ...
LEMMA RequestTypes ==
    ASSUME TypeOK, WorkInv, NEW r \in Request, RequestStep(r)
    PROVE  TypeOK'
<1> USE NoneIsNothing
<1>0. /\ r \in Txn
      /\ {"read", "touched", "member", "authenticated", "revoking", "dropping"} \subseteq Progress
  BY DEF Progress
<1>1. ASSUME NEW w \in RequestWork, work' = [work EXCEPT ![r] = w], NEW label \in Progress,
             Goto(r, label), UNCHANGED <<tables, lock, barred>>
      PROVE  TypeOK'
  <2>1. ProgressOK'
    BY <1>0, <1>1, MoveTypes DEF ProgressOK, TypeOK
  <2> QED
    BY <1>1, <2>1 DEF TablesOK, tables, TypeOK, ProgressOK
<1>2. ASSUME NEW s \in Session, ReadSession(r, s)
      PROVE  TypeOK'
  <2>1. UNCHANGED <<tables, lock, barred>>
    BY <1>2 DEF ReadSession
  <2> QED
    BY <1>0, <1>1, <1>2, <2>1, RequestMoves
<1>3. CASE ReadGrants(r)
  <2>1. UNCHANGED <<tables, lock, barred>>
    BY <1>3 DEF ReadGrants
  <2> QED
    BY <1>0, <1>1, <1>3, <2>1, RequestMoves
<1>4. CASE BeginLogoutAll(r)
  <2>1. UNCHANGED <<tables, lock, barred>>
    BY <1>4 DEF BeginLogoutAll
  <2> QED
    BY <1>0, <1>1, <1>4, <2>1, RequestMoves
<1>5. ASSUME NEW s \in Session, BeginAdminRevoke(r, s)
      PROVE  TypeOK'
  <2>1. UNCHANGED <<tables, lock, barred>>
    BY <1>5 DEF BeginAdminRevoke
  <2> QED
    BY <1>0, <1>1, <1>5, <2>1, RequestMoves
<1>6. ASSUME NEW s \in Session, LockSession(r, s)
      PROVE  TypeOK'
  <2>1. /\ pc[r] \in {"revoking", "dropping"} /\ UNCHANGED <<tables, pc, barred>>
        /\ lock' = [lock EXCEPT ![s] = r]
    BY <1>6 DEF LockSession
  <2>2. PICK w \in RequestWork : work' = [work EXCEPT ![r] = w]
    BY <1>6, RequestMoves
  <2>3. w # None
    OBVIOUS
  <2>4. ProgressOK'
    BY <1>0, <2>1, <2>2, <2>3 DEF ProgressOK, TypeOK
  <2> QED
    BY <2>1, <2>4 DEF TablesOK, tables, TypeOK, ProgressOK
<1>7. CASE TouchSession(r)
  <2>1. ProgressOK'
    BY <1>0, <1>7, StayTypes DEF TouchSession, ProgressOK, TypeOK
  <2> QED
    BY <1>7, <2>1 DEF TouchSession, TablesOK, tables, TypeOK, ProgressOK
<1>8. CASE ReadMembership(r)
  <2>1. ProgressOK'
    BY <1>0, <1>8, StayTypes DEF ReadMembership, ProgressOK, TypeOK
  <2> QED
    BY <1>8, <2>1 DEF ReadMembership, TablesOK, tables, TypeOK, ProgressOK
\* The steps that end the transaction.
<1>9. ASSUME Working(r), Ended(r), TablesOK'
      PROVE  TypeOK'
  <2>1. ProgressOK'
    BY <1>0, <1>9, EndedTypes DEF ProgressOK
  <2> QED
    BY <1>9, <2>1 DEF TypeOK, ProgressOK, TablesOK
<1>10. Authenticated(r) => Working(r)
  BY DEF Authenticated, Working
<1>11. CASE IssueToken(r)
  <2>1. Working(r) /\ Ended(r)
    BY <1>10, <1>11 DEF IssueToken
  <2>2. TablesOK'
    BY <1>11, <2>1, RequestFields DEF IssueToken, WithToken, TablesOK, TypeOK
  <2> QED
    BY <1>9, <2>1, <2>2
<1>12. CASE Logout(r)
  <2>1. Working(r) /\ Ended(r)
    BY <1>10, <1>12 DEF Logout
  <2>2. /\ work[r].session \in Session
        /\ RevokedRow(work[r].session) \in SessionRow
    BY <2>1, RequestFields, SessionFields DEF TypeOK
  <2>3. TablesOK'
    BY <1>12, <2>1, <2>2, RequestFields DEF Logout, TablesOK, TypeOK
  <2> QED
    BY <1>9, <2>1, <2>3
<1>13. CASE CommitRevocation(r)
  <2>1. Working(r) /\ Ended(r)
    BY <1>13 DEF CommitRevocation, Working
  <2>2. \A s \in work[r].target : s \in Session /\ RevokedRow(s) \in SessionRow
    BY <2>1, RequestFields, SessionFields DEF TypeOK
  <2>3. /\ session' \in [Session -> SessionRow \cup {None}]
        /\ \A s \in Session : session[s] # None => session'[s] # None
    BY <1>13, <2>2 DEF CommitRevocation, TypeOK
  <2>4. token' \subseteq token
    BY <1>13 DEF CommitRevocation
  <2>5. barred' \subseteq Session
    BY <1>13, <2>1, RequestFields DEF CommitRevocation, TypeOK
  <2>6. UNCHANGED <<membership, grant, auth, spent, selection>>
    BY <1>13 DEF CommitRevocation
  <2>7. TablesOK'
    BY <2>3, <2>4, <2>5, <2>6 DEF TablesOK, TypeOK
  <2> QED
    BY <1>9, <2>1, <2>7
<1>14. ASSUME NEW u \in User, NEW o \in Org, CreateMembership(r, u, o)
       PROVE  TypeOK'
  <2>1. Working(r) /\ Ended(r)
    BY <1>10, <1>14 DEF CreateMembership
  <2>2. TablesOK'
    BY <1>14 DEF CreateMembership, WithStatus, MembershipStatus, TablesOK, TypeOK
  <2> QED
    BY <1>9, <2>1, <2>2
<1>15. ASSUME NEW u \in User, NEW o \in Org, NEW s \in MembershipStatus, EndMembership(r, u, o, s)
       PROVE  TypeOK'
  <2>1. Working(r) /\ Ended(r)
    BY <1>10, <1>15 DEF EndMembership
  <2>2. TablesOK'
    BY <1>15 DEF EndMembership, WithStatus, Sessions, TablesOK, TypeOK
  <2> QED
    BY <1>9, <2>1, <2>2
<1>16. ASSUME NEW g \in Grantee, NEW c \in Delegable, CreateGrant(r, g, c)
       PROVE  TypeOK'
  <2>1. Working(r) /\ Ended(r)
    BY <1>10, <1>16 DEF CreateGrant
  <2>2. NewGrant(r, g, c) \in Grant
    BY <2>1, RequestFields DEF NewGrant, Grant
  <2>3. TablesOK'
    BY <1>16, <2>2 DEF CreateGrant, TablesOK, TypeOK
  <2> QED
    BY <1>9, <2>1, <2>3
<1>17. ASSUME NEW q \in Request, RevokeGrant(r, q)
       PROVE  TypeOK'
  <2>1. Working(r) /\ Ended(r)
    BY <1>10, <1>17 DEF RevokeGrant
  <2>2. grant[q] \in Grant
    BY <1>17 DEF RevokeGrant, TypeOK
  <2>3. RevokedGrant(q) \in Grant
    BY <2>2 DEF RevokedGrant, Grant
  <2>4. TablesOK'
    BY <1>17, <2>3 DEF RevokeGrant, TablesOK, TypeOK
  <2> QED
    BY <1>9, <2>1, <2>4
<1> QED
  BY <1>2, <1>3, <1>4, <1>5, <1>6, <1>7, <1>8, <1>11, <1>12, <1>13, <1>14, <1>15, <1>16, <1>17
     DEF RequestStep

\* ... and by roll backs.
LEMMA EndsTypes ==
    ASSUME TypeOK, NEW x \in Txn, Ends(x)
    PROVE  TypeOK'
<1>1. Ended(x) /\ UNCHANGED <<tables, barred>>
  BY DEF Ends, RollBack
<1>2. ProgressOK'
  BY <1>1, EndedTypes DEF ProgressOK
<1> QED
  BY <1>1, <1>2 DEF TypeOK, ProgressOK, tables

-----------------------------------------------------------------------------
\* What no step takes back.
SessionsKept ==
    \A s \in Session : session[s] # None =>
        /\ session'[s] # None
        /\ session'[s].user = session[s].user /\ session'[s].org = session[s].org
        /\ session[s].revoked => session'[s].revoked

MembershipsKept ==
    \A m \in User \X Org :
        membership[m] \in {"SUSPENDED", "REVOKED"} => membership'[m] \in {"SUSPENDED", "REVOKED"}

GrantsKept ==
    \A q \in Request : grant[q] # None =>
        /\ grant'[q] # None
        /\ grant'[q].grantor = grant[q].grantor /\ grant'[q].org = grant[q].org
        /\ grant'[q].grantee = grant[q].grantee /\ grant'[q].capability = grant[q].capability

\* A transaction creates no session and no grant but its own.
CreatesOnlyOwn(x) ==
    /\ \A s \in Session : session[s] = None /\ s # x => session'[s] = None
    /\ \A q \in Request : grant[q] = None /\ q # x => grant'[q] = None

\* A sign-in adds a session or a membership and takes nothing back.
LEMMA SignInKeeps ==
    ASSUME TypeOK, WorkInv, NEW x \in SignIn, SignInStep(x)
    PROVE  SessionsKept /\ MembershipsKept /\ GrantsKept /\ CreatesOnlyOwn(x)
<1>0. x \in Session /\ x \notin Request /\ SignInOf(x)
  BY NoneIsNothing DEF WorkInv
<1>1. grant' = grant
  BY DEF SignInStep, BeginCallback, SelectOrg, OpenDevSession, ConsumeState, ExchangeCode,
     ReadMemberships, OfferChoice, OpenSession, tables
<1>2. MembershipsKept
  <2>1. ASSUME NEW m \in Developer, OpenDevSession(x, m)
        PROVE  MembershipsKept
    <3>1. membership[m] \in {"ACTIVE", None}
      BY <2>1 DEF OpenDevSession
    <3>2. membership' = [membership EXCEPT ![m] = "ACTIVE"]
      BY <2>1 DEF OpenDevSession
    <3>3. None \notin {"SUSPENDED", "REVOKED"}
      BY NoneIsNothing DEF MembershipStatus
    <3> QED
      BY <3>1, <3>2, <3>3 DEF MembershipsKept, TypeOK
  <2>2. CASE ~ \E m \in Developer : OpenDevSession(x, m)
    BY <2>2 DEF SignInStep, BeginCallback, SelectOrg, ConsumeState, ExchangeCode,
       ReadMemberships, OfferChoice, OpenSession, tables, MembershipsKept
  <2> QED
    BY <2>1, <2>2
<1>3. \/ session' = session
      \/ session[x] = None /\ \E row \in SessionRow : session' = [session EXCEPT ![x] = row]
  <2>1. ASSUME NEW m \in Developer, OpenDevSession(x, m)
        PROVE  session[x] = None /\ \E row \in SessionRow : session' = [session EXCEPT ![x] = row]
    <3>1. PICK u \in User, o \in Org : m = <<u, o>>
      BY IdentityAssumption
    <3>2. NewSession(m[1], m[2]) \in SessionRow
      BY <3>1, SessionFields
    <3>3. session[x] = None
      BY <1>0, <2>1 DEF OpenDevSession, SignInOf
    <3> QED
      BY <2>1, <3>2, <3>3 DEF OpenDevSession
  <2>2. ASSUME OpenSession(x)
        PROVE  session[x] = None /\ \E row \in SessionRow : session' = [session EXCEPT ![x] = row]
    <3>1. pc[x] = "selected" /\ session[x] = None /\ work[x] \in SignInWork
      BY <1>0, <2>2 DEF OpenSession, SignInOf
    <3>2. work[x].user \in User /\ work[x].orgs \subseteq Org
      BY <3>1 DEF SignInWork
    <3>3. PICK o \in work[x].orgs : session' = [session EXCEPT ![x] = NewSession(work[x].user, o)]
      BY <2>2 DEF OpenSession
    <3>4. NewSession(work[x].user, o) \in SessionRow
      BY <3>2, <3>3, SessionFields
    <3> QED
      BY <3>1, <3>3, <3>4
  <2> QED
    BY <2>1, <2>2 DEF SignInStep, BeginCallback, SelectOrg, ConsumeState, ExchangeCode,
       ReadMemberships, OfferChoice, tables
<1>4. SessionsKept
  BY <1>0, <1>3 DEF SessionsKept, TypeOK
<1>5. CreatesOnlyOwn(x)
  BY <1>0, <1>1, <1>3 DEF CreatesOnlyOwn, TypeOK
<1> QED
  BY <1>1, <1>2, <1>4, <1>5 DEF GrantsKept

\* The rows that a request's step writes.
LEMMA RequestWrites ==
    ASSUME TypeOK, WorkInv, NEW r \in Request, RequestStep(r)
    PROVE  /\ SessionsKept /\ \A s \in Session : session[s] = None => session'[s] = None
           /\ MembershipsKept
           /\ GrantsKept /\ \A q \in Request : grant[q] = None /\ q # r => grant'[q] = None
<1>0. RequestOf(r)
  BY DEF WorkInv
<1> DEFINE Quiet == UNCHANGED <<membership, session, grant>>
           Fine == /\ SessionsKept /\ \A s \in Session : session[s] = None => session'[s] = None
                   /\ MembershipsKept
                   /\ GrantsKept /\ \A q \in Request : grant[q] = None /\ q # r => grant'[q] = None
<1>1. Quiet => Fine
  BY DEF SessionsKept, MembershipsKept, GrantsKept
<1>2. ASSUME NEW T \in SUBSET Session, \A s \in T : session[s] # None,
             session' = [s \in Session |-> IF s \in T THEN RevokedRow(s) ELSE session[s]],
             UNCHANGED <<membership, grant>>
      PROVE  Fine
  <2>1. \A s \in T : session[s] \in SessionRow
    BY <1>2 DEF TypeOK
  <2>2. \A s \in Session : session'[s] = IF s \in T THEN RevokedRow(s) ELSE session[s]
    BY <1>2
  <2>3. SessionsKept
    BY <2>1, <2>2, SessionFields DEF SessionsKept
  <2>4. \A s \in Session : session[s] = None => session'[s] = None
    BY <1>2, <2>2
  <2> QED
    BY <1>2, <2>3, <2>4 DEF MembershipsKept, GrantsKept
<1>3. ASSUME Logout(r)
      PROVE  Fine
  <2> DEFINE T == {work[r].session}
  <2>1. Working(r)
    BY <1>3 DEF Logout, Authenticated, Working
  <2>2. T \in SUBSET Session /\ \A s \in T : session[s] # None
    BY <2>1, RequestFields
  <2>3. session' = [s \in Session |-> IF s \in T THEN RevokedRow(s) ELSE session[s]]
    BY <1>3 DEF Logout, TypeOK
  <2>4. UNCHANGED <<membership, grant>>
    BY <1>3 DEF Logout
  <2> HIDE DEF T, Fine
  <2> QED
    BY <1>2, <2>2, <2>3, <2>4
<1>4. ASSUME CommitRevocation(r)
      PROVE  Fine
  <2> DEFINE T == work[r].target
  <2>1. Working(r)
    BY <1>4 DEF CommitRevocation, Working
  <2>2. T \in SUBSET Session /\ \A s \in T : session[s] # None
    BY <2>1, RequestFields
  <2>3. session' = [s \in Session |-> IF s \in T THEN RevokedRow(s) ELSE session[s]]
    BY <1>4 DEF CommitRevocation
  <2>4. UNCHANGED <<membership, grant>>
    BY <1>4 DEF CommitRevocation
  <2> HIDE DEF T, Fine
  <2> QED
    BY <1>2, <2>2, <2>3, <2>4
<1>5. ASSUME NEW u \in User, NEW o \in Org, CreateMembership(r, u, o)
      PROVE  Fine
  <2>1. /\ membership[<<u, o>>] = None /\ UNCHANGED <<session, grant>>
        /\ membership' = [membership EXCEPT ![<<u, o>>] = "ACTIVE"]
    BY <1>5 DEF CreateMembership, MayJoin, WithStatus
  <2>2. None \notin {"SUSPENDED", "REVOKED"}
    BY NoneIsNothing DEF MembershipStatus
  <2>3. MembershipsKept
    BY <2>1, <2>2 DEF MembershipsKept, TypeOK
  <2> QED
    BY <2>1, <2>3 DEF SessionsKept, GrantsKept
<1>6. ASSUME NEW u \in User, NEW o \in Org, NEW s \in MembershipStatus, EndMembership(r, u, o, s)
      PROVE  Fine
  <2>1. /\ s \in {"SUSPENDED", "REVOKED"} /\ UNCHANGED <<session, grant>>
        /\ membership' = [membership EXCEPT ![<<u, o>>] = s]
    BY <1>6 DEF EndMembership, WithStatus
  <2>2. MembershipsKept
    BY <2>1 DEF MembershipsKept, TypeOK
  <2> QED
    BY <2>1, <2>2 DEF SessionsKept, GrantsKept
<1>7. ASSUME NEW g \in Grantee, NEW c \in Delegable, CreateGrant(r, g, c)
      PROVE  Fine
  <2>1. grant[r] = None
    BY <1>0, <1>7 DEF CreateGrant, Authenticated, RequestOf
  <2>2. /\ grant' = [grant EXCEPT ![r] = NewGrant(r, g, c)] /\ UNCHANGED <<session, membership>>
    BY <1>7 DEF CreateGrant
  <2> QED
    BY <2>1, <2>2 DEF SessionsKept, MembershipsKept, GrantsKept, TypeOK
<1>8. ASSUME NEW q \in Request, RevokeGrant(r, q)
      PROVE  Fine
  <2>1. grant[q] \in Grant
    BY <1>8 DEF RevokeGrant, TypeOK
  <2>2. /\ RevokedGrant(q) # None
        /\ RevokedGrant(q).grantor = grant[q].grantor /\ RevokedGrant(q).org = grant[q].org
        /\ RevokedGrant(q).grantee = grant[q].grantee
        /\ RevokedGrant(q).capability = grant[q].capability
    <3>1. RevokedGrant(q) \in Grant
      BY <2>1 DEF RevokedGrant, Grant
    <3> QED
      BY <2>1, <3>1, NoneIsNothing DEF RevokedGrant, Grant
  <2>3. /\ grant' = [grant EXCEPT ![q] = RevokedGrant(q)] /\ UNCHANGED <<session, membership>>
        /\ grant[q] # None
    BY <1>8 DEF RevokeGrant
  <2> QED
    BY <2>2, <2>3 DEF SessionsKept, MembershipsKept, GrantsKept, TypeOK
<1>9. ASSUME \/ \E s \in Session : ReadSession(r, s)
             \/ TouchSession(r) \/ ReadMembership(r) \/ ReadGrants(r) \/ IssueToken(r)
             \/ BeginLogoutAll(r)
             \/ \E s \in Session : BeginAdminRevoke(r, s)
             \/ \E s \in Session : LockSession(r, s)
      PROVE  Quiet
  BY <1>9 DEF ReadSession, TouchSession, ReadMembership, ReadGrants, IssueToken, BeginLogoutAll,
     BeginAdminRevoke, LockSession, tables
<1> HIDE DEF Quiet, Fine
<1>10. Fine
  BY <1>1, <1>3, <1>4, <1>5, <1>6, <1>7, <1>8, <1>9 DEF RequestStep
<1> QED
  BY <1>10 DEF Fine

\* No request takes a row back, or creates one that is not its own; ...
LEMMA RequestKeeps ==
    ASSUME TypeOK, WorkInv, NEW r \in Request, RequestStep(r)
    PROVE  SessionsKept /\ MembershipsKept /\ GrantsKept /\ CreatesOnlyOwn(r)
  BY RequestWrites DEF CreatesOnlyOwn

\* ... nor does a roll back.
LEMMA EndsKeeps ==
    ASSUME NEW x \in Txn, Ends(x)
    PROVE  SessionsKept /\ MembershipsKept /\ GrantsKept /\ CreatesOnlyOwn(x)
  BY DEF Ends, RollBack, tables, SessionsKept, MembershipsKept, GrantsKept, CreatesOnlyOwn

-----------------------------------------------------------------------------
\* What a transaction knows of rows stays true.
\* A request goes on: what it has read of sessions, its membership and grants still holds.
LEMMA RequestStays ==
    ASSUME TypeOK, WorkInv, SessionsKept, MembershipsKept, GrantsKept,
           NEW r \in Request, Working(r), Working(r)',
           pc'[r] \in {"read", "touched", "member", "authenticated", "revoking", "dropping"},
           pc'[r] \notin {"read", "touched"} => ~ work[r].late,
           grant'[r] = None,
           work'[r] \in RequestWork,
           work'[r].session = work[r].session, work'[r].user = work[r].user,
           work'[r].org = work[r].org, work'[r].late = work[r].late,
           \A s \in work'[r].target \cup work'[r].known : Known(s),
           \A s \in work'[r].known \ work'[r].target : Revoked(s),
           \A c \in work'[r].capabilities : Founded(c, work[r].user, work[r].org)
    PROVE  RequestOf(r)'
<1>1. /\ work[r].session \in Session /\ work[r].user \in User /\ work[r].org \in Org
      /\ session[work[r].session] # None
      /\ work[r].late => Over(work[r].user, work[r].org)
  BY RequestFields DEF RequestOf
<1>2. work'[r].target \subseteq Session /\ work'[r].known \subseteq Session
  BY DEF RequestWork
<1>3. session'[work'[r].session] # None
  BY <1>1 DEF SessionsKept
<1>4. \A s \in work'[r].target \cup work'[r].known : session'[s] # None
  BY <1>2 DEF SessionsKept, Known
<1>5. \A s \in work'[r].known \ work'[r].target : session'[s].revoked
  BY <1>2 DEF SessionsKept, Known, Revoked
<1>6. work'[r].late => membership'[<<work'[r].user, work'[r].org>>] \in {"SUSPENDED", "REVOKED"}
  BY <1>1 DEF MembershipsKept, Over
<1>7. CapabilitiesFounded(r)'
  <2> SUFFICES ASSUME NEW c \in work'[r].capabilities
               PROVE  \/ c \in Baseline(RoleAt(work[r].user, work[r].org))
                      \/ \E q \in Request : /\ grant'[q] # None /\ grant'[q].capability = c
                                             /\ grant'[q].grantee \in {work[r].user, work[r].org}
    BY DEF CapabilitiesFounded, Founded, RoleAt
  <2>1. CASE c \in Baseline(RoleAt(work[r].user, work[r].org))
    BY <2>1
  <2>2. CASE c \notin Baseline(RoleAt(work[r].user, work[r].org))
    <3>1. PICK q \in Request : /\ grant[q] # None /\ grant[q].capability = c
                               /\ grant[q].grantee \in {work[r].user, work[r].org}
      BY <2>2 DEF Founded
    <3> QED
      BY <3>1 DEF GrantsKept
  <2> QED
    BY <2>1, <2>2
<1> QED
  BY <1>3, <1>4, <1>5, <1>6, <1>7 DEF RequestOf, Known, Revoked, Over

-----------------------------------------------------------------------------
\* The step of one transaction leaves what the others know true.
LEMMA OthersStay ==
    ASSUME TypeOK, WorkInv, NEW x \in Txn, SignInStep(x) \/ RequestStep(x) \/ Ends(x),
           SessionsKept, MembershipsKept, GrantsKept, CreatesOnlyOwn(x)
    PROVE  /\ \A y \in SignIn : y # x => SignInOf(y)'
           /\ \A r \in Request : r # x => RequestOf(r)'
<1>1. ASSUME NEW y \in SignIn, y # x
      PROVE  SignInOf(y)'
  <2>1. y \in Session /\ y \in Txn /\ SignInOf(y)
    BY NoneIsNothing DEF WorkInv
  <2>2. pc'[y] = pc[y] /\ work'[y] = work[y]
    BY <1>1, <2>1, OthersUnmoved
  <2>3. session[y] = None => session'[y] = None
    BY <1>1, <2>1 DEF CreatesOnlyOwn
  <2> QED
    BY <2>1, <2>2, <2>3 DEF SignInOf
<1>2. ASSUME NEW r \in Request, r # x
      PROVE  RequestOf(r)'
  <2>1. r \in Txn /\ RequestOf(r)
    BY NoneIsNothing DEF WorkInv
  <2>2. pc'[r] = pc[r] /\ work'[r] = work[r]
    BY <1>2, <2>1, OthersUnmoved
  <2>3. grant[r] = None => grant'[r] = None
    BY <1>2 DEF CreatesOnlyOwn
  <2>4. CASE pc[r] \in {"idle", "done"}
    BY <2>1, <2>2, <2>3, <2>4 DEF RequestOf, Working
  <2>5. CASE Working(r)
    <3>1. /\ pc[r] \in {"read", "touched", "member", "authenticated", "revoking", "dropping"}
          /\ grant'[r] = None
          /\ pc[r] \notin {"read", "touched"} => ~ work[r].late
          /\ work[r] \in RequestWork
          /\ \A s \in work[r].target \cup work[r].known : Known(s)
          /\ \A s \in work[r].known \ work[r].target : Revoked(s)
          /\ \A c \in work[r].capabilities : Founded(c, work[r].user, work[r].org)
      BY <2>1, <2>3, <2>5 DEF RequestOf, Working, CapabilitiesFounded
    <3>2. Working(r)'
      BY <2>2, <2>5 DEF Working
    <3> QED
      BY <2>2, <2>5, <3>1, <3>2, RequestStays
  <2> QED
    BY <2>4, <2>5 DEF Working
<1> QED
  BY <1>1, <1>2

\* A transaction that has ended knows nothing.
LEMMA EndsOwn ==
    ASSUME TypeOK, WorkInv, NEW x \in Txn, Ended(x)
    PROVE  /\ x \in SignIn => SignInOf(x)'
           /\ x \in Request => RequestOf(x)'
<1>1. pc'[x] = "done"
  BY EndedTypes
<1> QED
  BY <1>1 DEF SignInOf, RequestOf, Working

\* What a sign-in knows after its own step.
LEMMA SignInOwn ==
    ASSUME TypeOK, WorkInv, NEW x \in SignIn, SignInStep(x)
    PROVE  SignInOf(x)'
<1>0. x \in Txn /\ x \in Session /\ SignInOf(x) /\ None \notin SignInWork /\ None \notin Attempt
  BY NoneIsNothing DEF WorkInv
<1>1. ASSUME NEW a \in Attempt, BeginCallback(x, a)
      PROVE  SignInOf(x)'
  <2> DEFINE w == [attempt |-> a, user |-> Subject[a], orgs |-> {}]
  <2>1. w \in SignInWork /\ w.attempt \in Attempt
    BY IdentityAssumption DEF SignInWork
  <2>2. work'[x] = w /\ pc'[x] = "stated" /\ session'[x] = None
    BY <1>0, <1>1 DEF BeginCallback, SignInOf, tables, Goto, TypeOK
  <2> HIDE DEF w
  <2> QED
    BY <2>1, <2>2 DEF SignInOf
<1>2. ASSUME NEW u \in User, NEW o \in Org, SelectOrg(x, u, o)
      PROVE  SignInOf(x)'
  <2> DEFINE w == [attempt |-> None, user |-> u, orgs |-> {o}]
  <2>1. w \in SignInWork
    BY DEF SignInWork
  <2>2. work'[x] = w /\ pc'[x] = "selected" /\ session'[x] = None
    BY <1>0, <1>2 DEF SelectOrg, SignInOf, tables, Goto, TypeOK
  <2> HIDE DEF w
  <2> QED
    BY <2>1, <2>2 DEF SignInOf
<1>3. CASE ConsumeState(x)
  <2>1. /\ pc[x] = "stated" /\ pc'[x] = "consumed" /\ work'[x] = work[x]
        /\ session'[x] = session[x]
    BY <1>0, <1>3 DEF ConsumeState, tables, Goto, TypeOK
  <2> QED
    BY <1>0, <2>1 DEF SignInOf
<1>4. CASE ExchangeCode(x)
  <2>1. /\ pc[x] = "consumed" /\ pc'[x] = "exchanged" /\ work'[x] = work[x]
        /\ session'[x] = session[x]
    BY <1>0, <1>4 DEF ExchangeCode, Goto, TypeOK
  <2> QED
    BY <1>0, <2>1 DEF SignInOf
<1>5. CASE ReadMemberships(x)
  <2> DEFINE orgs == {o \in Org : Effective(work[x].user, o)}
             w == [work[x] EXCEPT !.orgs = orgs]
  <2>1. /\ pc[x] = "exchanged" /\ pc'[x] \in {"choosing", "selected"}
        /\ session'[x] = session[x] /\ work'[x] = w
    BY <1>0, <1>5 DEF ReadMemberships, tables, Goto, TypeOK
  <2>2. w \in SignInWork
    BY <1>0, <2>1 DEF SignInOf, SignInWork
  <2> HIDE DEF w
  <2> QED
    BY <1>0, <2>1, <2>2 DEF SignInOf
<1>6. ASSUME \/ \E m \in Developer : OpenDevSession(x, m)
             \/ OfferChoice(x) \/ OpenSession(x)
      PROVE  SignInOf(x)'
  <2>1. Ended(x)
    BY <1>6 DEF OpenDevSession, OfferChoice, OpenSession
  <2> QED
    BY <1>0, <2>1, EndsOwn
<1> QED
  BY <1>1, <1>2, <1>3, <1>4, <1>5, <1>6 DEF SignInStep

\* What a request knows after its own step: at its first read a late request finds its
\* session revoked or its membership over, and then it finds no membership.
LEMMA RequestOwn ==
    ASSUME TypeOK, WorkInv, BarredInv, NEW r \in Request, RequestStep(r)
    PROVE  RequestOf(r)'
<1>0. r \in Txn /\ RequestOf(r) /\ SessionsKept /\ MembershipsKept /\ GrantsKept
  BY NoneIsNothing, RequestKeeps DEF WorkInv
<1>a. Authenticated(r) => pc[r] = "authenticated" /\ Working(r)
  BY DEF Authenticated, Working
\* A request that goes on and has written nothing.
<1>b. ASSUME Working(r), grant' = grant, NEW label, pc'[r] = label,
             label \in {"read", "touched", "member", "authenticated", "revoking", "dropping"},
             label \notin {"read", "touched"} => ~ work[r].late,
             work'[r] \in RequestWork,
             work'[r].session = work[r].session, work'[r].user = work[r].user,
             work'[r].org = work[r].org, work'[r].late = work[r].late,
             \A s \in work'[r].target \cup work'[r].known : Known(s),
             \A s \in work'[r].known \ work'[r].target : Revoked(s),
             \A c \in work'[r].capabilities : Founded(c, work[r].user, work[r].org)
      PROVE  RequestOf(r)'
  <2>1. grant'[r] = None
    BY <1>0, <1>b DEF RequestOf, Working
  <2>2. Working(r)'
    BY <1>b DEF Working
  <2> QED
    BY <1>0, <1>b, <2>1, <2>2, RequestStays
<1>1. ASSUME NEW s \in Session, ReadSession(r, s)
      PROVE  RequestOf(r)'
  <2> DEFINE w == [session |-> s, user |-> session[s].user, org |-> session[s].org,
                   late |-> s \in barred, capabilities |-> {},
                   target |-> {}, known |-> {}, wanted |-> {}]
  <2>1. /\ pc[r] = "idle" /\ Known(s) /\ ~ Revoked(s) /\ pc'[r] = "read"
        /\ UNCHANGED <<session, membership, grant>>
        /\ work'[r] = w
    BY <1>0, <1>1 DEF ReadSession, Goto, TypeOK, tables
  <2>2. session[s] \in SessionRow
    BY <2>1 DEF Known, TypeOK
  <2>3. w \in RequestWork
    BY <2>2, SessionFields DEF RequestWork
  <2>4. /\ w.session = s /\ w.user = session[s].user /\ w.org = session[s].org
        /\ w.late = (s \in barred) /\ w.capabilities = {} /\ w.target = {} /\ w.known = {}
    OBVIOUS
  <2> HIDE DEF w
  <2>5. s \in barred => Over(session[s].user, session[s].org)
    BY <2>1 DEF BarredInv
  <2>6. grant[r] = None
    BY <1>0, <2>1 DEF RequestOf
  <2> QED
    BY <2>1, <2>3, <2>4, <2>5, <2>6 DEF RequestOf, Working, Known, Revoked, Over, CapabilitiesFounded
<1>2. ASSUME Working(r), work'[r] = work[r], grant' = grant,
             NEW label \in {"read", "touched", "member", "authenticated", "revoking", "dropping"},
             pc'[r] = label, label \notin {"read", "touched"} => ~ work[r].late
      PROVE  RequestOf(r)'
  <2>1. /\ work[r] \in RequestWork
        /\ \A s \in work[r].target \cup work[r].known : Known(s)
        /\ \A s \in work[r].known \ work[r].target : Revoked(s)
        /\ \A c \in work[r].capabilities : Founded(c, work[r].user, work[r].org)
    BY <1>0, <1>2 DEF RequestOf, CapabilitiesFounded
  <2> QED
    BY <1>b, <1>2, <2>1
<1>3. CASE TouchSession(r)
  <2>1. Working(r) /\ pc'[r] = "touched" /\ work'[r] = work[r] /\ grant' = grant
    BY <1>0, <1>3 DEF TouchSession, Working, tables, Goto, TypeOK
  <2> QED
    BY <1>2, <2>1
<1>4. CASE ReadMembership(r)
  <2>1. Working(r) /\ pc'[r] = "member" /\ work'[r] = work[r] /\ grant' = grant
    BY <1>0, <1>4 DEF ReadMembership, Working, tables, Goto, TypeOK
  <2>2. ~ Over(work[r].user, work[r].org)
    BY <1>4 DEF ReadMembership, Effective, Over
  <2>3. ~ work[r].late
    BY <1>0, <2>1, <2>2 DEF RequestOf
  <2> QED
    BY <1>2, <2>1, <2>3
<1>5. CASE ReadGrants(r)
  <2> DEFINE caps == Baseline(RoleAt(work[r].user, work[r].org)) \cup Granted(work[r].user, work[r].org)
             w == [work[r] EXCEPT !.capabilities = caps]
  <2>1. /\ Working(r) /\ pc[r] = "member" /\ pc'[r] = "authenticated" /\ grant' = grant
        /\ work'[r] = w
    BY <1>0, <1>5 DEF ReadGrants, Working, tables, Goto, TypeOK
  <2>2. work'[r] \in RequestWork
    <3>1. PICK v \in RequestWork : work' = [work EXCEPT ![r] = v]
      BY <1>5, RequestMoves
    <3> QED
      BY <1>0, <3>1 DEF TypeOK
  <2>3. \A c \in caps : Founded(c, work[r].user, work[r].org)
    BY DEF Founded, Granted
  <2>4. work[r] \in RequestWork /\ ~ work[r].late
        /\ (\A s \in work[r].target \cup work[r].known : Known(s))
        /\ \A s \in work[r].known \ work[r].target : Revoked(s)
    BY <1>0, <2>1 DEF RequestOf
  <2> HIDE DEF caps
  <2>5. /\ w.session = work[r].session /\ w.user = work[r].user /\ w.org = work[r].org
        /\ w.late = work[r].late /\ w.capabilities = caps
        /\ w.target = work[r].target /\ w.known = work[r].known
    BY <2>4 DEF RequestWork
  <2> HIDE DEF w
  <2> QED
    BY <1>b, <2>1, <2>2, <2>3, <2>4, <2>5
<1>6. CASE BeginLogoutAll(r)
  <2> DEFINE T == Revocable(r)
             W == Revocable(r) \ {work[r].session}
             K == Sessions(work[r].user)
             w == [work[r] EXCEPT !.target = T, !.wanted = W, !.known = K]
  <2>1. Working(r) /\ pc[r] = "authenticated" /\ pc'[r] = "revoking" /\ grant' = grant
    BY <1>0, <1>a, <1>6 DEF BeginLogoutAll, tables, Goto, TypeOK
  <2>2. work'[r] = w
    <3>1. work' = [work EXCEPT ![r].target = T, ![r].wanted = W, ![r].known = K]
      BY <1>6 DEF BeginLogoutAll
    <3> HIDE DEF T, W, K
    <3> QED
      BY <1>0, <3>1 DEF TypeOK
  <2>3. work'[r] \in RequestWork
    <3>1. PICK v \in RequestWork : work' = [work EXCEPT ![r] = v]
      BY <1>6, RequestMoves
    <3> QED
      BY <1>0, <3>1 DEF TypeOK
  <2>4. /\ \A s \in T \cup K : Known(s)
        /\ \A s \in K \ T : Revoked(s)
    BY DEF Revocable, Sessions, Known
  <2>5. /\ work[r] \in RequestWork /\ ~ work[r].late
        /\ \A c \in work[r].capabilities : Founded(c, work[r].user, work[r].org)
    BY <1>0, <2>1 DEF RequestOf, CapabilitiesFounded
  <2> HIDE DEF T, W, K
  <2>6. /\ w.session = work[r].session /\ w.user = work[r].user /\ w.org = work[r].org
        /\ w.late = work[r].late /\ w.capabilities = work[r].capabilities
        /\ w.target = T /\ w.known = K
    BY <2>5 DEF RequestWork
  <2> HIDE DEF w
  <2> QED
    BY <1>b, <2>1, <2>2, <2>3, <2>4, <2>5, <2>6
<1>7. ASSUME NEW s \in Session, BeginAdminRevoke(r, s)
      PROVE  RequestOf(r)'
  <2> DEFINE W == {s} \ {work[r].session}
             w == [work[r] EXCEPT !.target = {s}, !.wanted = W, !.known = {s}]
  <2>1. Working(r) /\ pc[r] = "authenticated" /\ pc'[r] = "dropping" /\ grant' = grant /\ Known(s)
    BY <1>0, <1>a, <1>7 DEF BeginAdminRevoke, tables, Goto, TypeOK
  <2>2. work'[r] = w
    <3>1. work' = [work EXCEPT ![r].target = {s}, ![r].wanted = W, ![r].known = {s}]
      BY <1>7 DEF BeginAdminRevoke
    <3> HIDE DEF W
    <3> QED
      BY <1>0, <3>1 DEF TypeOK
  <2>3. work'[r] \in RequestWork
    <3>1. PICK v \in RequestWork : work' = [work EXCEPT ![r] = v]
      BY <1>7, RequestMoves
    <3> QED
      BY <1>0, <3>1 DEF TypeOK
  <2>4. /\ work[r] \in RequestWork /\ ~ work[r].late
        /\ \A c \in work[r].capabilities : Founded(c, work[r].user, work[r].org)
    BY <1>0, <2>1 DEF RequestOf, CapabilitiesFounded
  <2> HIDE DEF W
  <2>5. /\ w.session = work[r].session /\ w.user = work[r].user /\ w.org = work[r].org
        /\ w.late = work[r].late /\ w.capabilities = work[r].capabilities
        /\ w.target = {s} /\ w.known = {s}
    BY <2>4 DEF RequestWork
  <2> HIDE DEF w
  <2> QED
    BY <1>b, <2>1, <2>2, <2>3, <2>4, <2>5
<1>8. ASSUME NEW s \in Session, LockSession(r, s)
      PROVE  RequestOf(r)'
  <2> DEFINE W == work[r].wanted \ {s}
             w == [work[r] EXCEPT !.wanted = W]
  <2>1. /\ Working(r) /\ pc[r] \in {"revoking", "dropping"} /\ pc'[r] = pc[r] /\ grant' = grant
        /\ work'[r] = w
    BY <1>0, <1>8 DEF LockSession, Working, tables, TypeOK
  <2>2. work'[r] \in RequestWork
    <3>1. PICK v \in RequestWork : work' = [work EXCEPT ![r] = v]
      BY <1>8, RequestMoves
    <3> QED
      BY <1>0, <3>1 DEF TypeOK
  <2>3. /\ work[r] \in RequestWork /\ ~ work[r].late
        /\ \A c \in work[r].capabilities : Founded(c, work[r].user, work[r].org)
        /\ \A t \in work[r].target \cup work[r].known : Known(t)
        /\ \A t \in work[r].known \ work[r].target : Revoked(t)
    BY <1>0, <2>1 DEF RequestOf, CapabilitiesFounded
  <2> HIDE DEF W
  <2>4. /\ w.session = work[r].session /\ w.user = work[r].user /\ w.org = work[r].org
        /\ w.late = work[r].late /\ w.capabilities = work[r].capabilities
        /\ w.target = work[r].target /\ w.known = work[r].known
    BY <2>3 DEF RequestWork
  <2> HIDE DEF w
  <2> QED
    BY <1>b, <2>1, <2>2, <2>3, <2>4
<1>9. ASSUME \/ IssueToken(r) \/ Logout(r) \/ CommitRevocation(r)
             \/ \E u \in User, o \in Org : CreateMembership(r, u, o)
             \/ \E u \in User, o \in Org, s \in MembershipStatus : EndMembership(r, u, o, s)
             \/ \E g \in Grantee, c \in Delegable : CreateGrant(r, g, c)
             \/ \E q \in Request : RevokeGrant(r, q)
      PROVE  RequestOf(r)'
  <2>1. Ended(r)
    BY <1>9 DEF IssueToken, Logout, CommitRevocation, CreateMembership, EndMembership, CreateGrant,
       RevokeGrant
  <2> QED
    BY <1>0, <2>1, EndsOwn
<1> QED
  BY <1>1, <1>3, <1>4, <1>5, <1>6, <1>7, <1>8, <1>9 DEF RequestStep

-----------------------------------------------------------------------------
\* A session that is ended now cannot be used, and one that was ended before still cannot.
LEMMA BarredStays ==
    ASSUME TypeOK, BarredInv, SessionsKept, MembershipsKept, NEW s \in barred
    PROVE  /\ s \in Session /\ session'[s] # None
           /\ \/ session'[s].revoked
              \/ membership'[<<session'[s].user, session'[s].org>>] \in {"SUSPENDED", "REVOKED"}
<1>1. s \in Session /\ session[s] # None /\ session[s] \in SessionRow
  BY DEF TypeOK, BarredInv, Known
<1>2. session[s].user \in User /\ session[s].org \in Org
  BY <1>1, SessionFields
<1>3. /\ session'[s] # None
      /\ session'[s].user = session[s].user /\ session'[s].org = session[s].org
      /\ session[s].revoked => session'[s].revoked
  BY <1>1 DEF SessionsKept
<1>4. session[s].revoked \/ membership[<<session[s].user, session[s].org>>] \in {"SUSPENDED", "REVOKED"}
  BY DEF BarredInv, Revoked, Over
<1> QED
  BY <1>1, <1>2, <1>3, <1>4 DEF MembershipsKept

\* Sessions are ended by a logout, a revocation or the end of a membership.
LEMMA BarredStep ==
    ASSUME TypeOK, WorkInv, BarredInv, SessionsKept, MembershipsKept, NEW x \in Txn,
           (x \in SignIn /\ SignInStep(x)) \/ (x \in Request /\ RequestStep(x)) \/ Ends(x)
    PROVE  BarredInv'
<1> DEFINE Unusable(s) ==
               /\ session'[s] # None
               /\ \/ session'[s].revoked
                  \/ membership'[<<session'[s].user, session'[s].org>>] \in {"SUSPENDED", "REVOKED"}
<1> SUFFICES ASSUME NEW s \in barred'
             PROVE  Unusable(s)
  BY DEF BarredInv, Known, Revoked, Over
<1>1. CASE s \in barred
  BY <1>1, BarredStays
<1>2. ASSUME s \notin barred
      PROVE  /\ x \in Request
             /\ \/ Logout(x) \/ CommitRevocation(x)
                \/ \E u \in User, o \in Org, t \in MembershipStatus : EndMembership(x, u, o, t)
  BY <1>2, NoneIsNothing DEF SignInStep, RequestStep, Ends, RollBack, BeginCallback, SelectOrg,
     OpenDevSession, ConsumeState, ExchangeCode, ReadMemberships, OfferChoice, OpenSession,
     ReadSession, TouchSession, ReadMembership, ReadGrants, IssueToken, BeginLogoutAll,
     BeginAdminRevoke, CreateMembership, CreateGrant, RevokeGrant, LockSession
<1>3. ASSUME s \notin barred, x \in Request, Logout(x)
      PROVE  Unusable(s)
  <2>1. s = work[x].session /\ Working(x)
    BY <1>3 DEF Logout, Authenticated, Working
  <2>2. s \in Session /\ session[s] \in SessionRow
    BY <1>3, <2>1, RequestFields DEF TypeOK
  <2>3. session' = [session EXCEPT ![s] = RevokedRow(s)]
    BY <1>3, <2>1 DEF Logout
  <2> QED
    BY <2>2, <2>3, SessionFields DEF TypeOK
<1>4. ASSUME s \notin barred, x \in Request, CommitRevocation(x)
      PROVE  Unusable(s)
  <2>1. s \in work[x].known /\ Working(x)
    BY <1>4 DEF CommitRevocation, Working
  <2>2. s \in Session /\ session[s] # None /\ session[s] \in SessionRow
    BY <1>4, <2>1, RequestFields DEF TypeOK
  <2>3. session'[s] = IF s \in work[x].target THEN RevokedRow(s) ELSE session[s]
    BY <1>4, <2>2 DEF CommitRevocation
  <2>4. s \notin work[x].target => session[s].revoked
    BY <1>4, <2>1 DEF WorkInv, RequestOf, Revoked
  <2> QED
    BY <2>2, <2>3, <2>4, SessionFields
<1>5. ASSUME s \notin barred, x \in Request, NEW u \in User, NEW o \in Org,
             NEW t \in MembershipStatus, EndMembership(x, u, o, t)
      PROVE  Unusable(s)
  <2>1. /\ t \in {"SUSPENDED", "REVOKED"} /\ session' = session
        /\ membership' = [membership EXCEPT ![<<u, o>>] = t]
        /\ s \in Session /\ session[s] # None /\ session[s].user = u /\ session[s].org = o
    BY <1>5 DEF EndMembership, WithStatus, Sessions
  <2> QED
    BY <2>1 DEF TypeOK
<1> QED
  BY <1>1, <1>2, <1>3, <1>4, <1>5

\* A new grant is of a capability of its grantor, and the grants before it stay on record.
LEMMA GroundedStep ==
    ASSUME TypeOK, WorkInv, GrantsAreGrounded, GrantsKept, NEW x \in Txn,
           (x \in SignIn /\ SignInStep(x)) \/ (x \in Request /\ RequestStep(x)) \/ Ends(x)
    PROVE  GrantsAreGrounded'
<1> DEFINE Grounded(r) ==
               \/ grant'[r].capability \in Baseline(RoleAt(grant'[r].grantor, grant'[r].org))
               \/ \E q \in Request \ {r} :
                      /\ grant'[q] # None
                      /\ grant'[q].capability = grant'[r].capability
                      /\ grant'[q].grantee \in {grant'[r].grantor, grant'[r].org}
<1> SUFFICES ASSUME NEW r \in Request, grant'[r] # None
             PROVE  Grounded(r)
  BY DEF GrantsAreGrounded, RoleAt
<1>1. CASE grant[r] # None
  <2>1. /\ grant'[r].grantor = grant[r].grantor /\ grant'[r].org = grant[r].org
        /\ grant'[r].capability = grant[r].capability
    BY <1>1 DEF GrantsKept
  <2>2. CASE grant[r].capability \in Baseline(RoleAt(grant[r].grantor, grant[r].org))
    BY <2>1, <2>2
  <2>3. CASE grant[r].capability \notin Baseline(RoleAt(grant[r].grantor, grant[r].org))
    <3>1. PICK q \in Request \ {r} :
              /\ grant[q] # None
              /\ grant[q].capability = grant[r].capability
              /\ grant[q].grantee \in {grant[r].grantor, grant[r].org}
      BY <1>1, <2>3 DEF GrantsAreGrounded
    <3>2. /\ grant'[q] # None /\ grant'[q].capability = grant[q].capability
          /\ grant'[q].grantee = grant[q].grantee
      BY <3>1 DEF GrantsKept
    <3> QED
      BY <2>1, <3>1, <3>2
  <2> QED
    BY <2>2, <2>3
<1>2. ASSUME grant[r] = None
      PROVE  x \in Request /\ \E g \in Grantee, c \in Delegable : CreateGrant(x, g, c)
  <2>1. ASSUME x \in Request, NEW q \in Request, RevokeGrant(x, q)
        PROVE  FALSE
    BY <1>2, <2>1 DEF RevokeGrant, TypeOK
  <2> QED
    BY <1>2, <2>1, NoneIsNothing DEF SignInStep, RequestStep, Ends, RollBack, BeginCallback, SelectOrg,
       OpenDevSession, ConsumeState, ExchangeCode, ReadMemberships, OfferChoice, OpenSession,
       ReadSession, TouchSession, ReadMembership, ReadGrants, IssueToken, Logout, BeginLogoutAll,
       BeginAdminRevoke, CreateMembership, EndMembership, LockSession, CommitRevocation, tables
<1>3. ASSUME grant[r] = None, x \in Request, NEW g \in Grantee, NEW c \in Delegable, CreateGrant(x, g, c)
      PROVE  Grounded(r)
  <2>1. /\ grant' = [grant EXCEPT ![x] = NewGrant(x, g, c)] /\ c \in work[x].capabilities
        /\ Working(x)
    BY <1>3 DEF CreateGrant, MayGrant, Can, Authenticated, Working
  <2>2. r = x /\ grant'[r] = NewGrant(r, g, c)
    BY <1>3, <2>1 DEF TypeOK
  <2>3. /\ grant'[r].grantor = work[r].user /\ grant'[r].org = work[r].org
        /\ grant'[r].capability = c
    BY <2>2 DEF NewGrant
  <2>4. Founded(c, work[r].user, work[r].org)
    BY <2>1, <2>2 DEF WorkInv, RequestOf, CapabilitiesFounded
  <2>5. CASE c \in Baseline(RoleAt(work[r].user, work[r].org))
    BY <2>3, <2>5
  <2>6. CASE c \notin Baseline(RoleAt(work[r].user, work[r].org))
    <3>1. PICK q \in Request : /\ grant[q] # None /\ grant[q].capability = c
                               /\ grant[q].grantee \in {work[r].user, work[r].org}
      BY <2>4, <2>6 DEF Founded
    <3>2. q # r /\ grant'[q] = grant[q]
      BY <1>3, <2>1, <2>2, <3>1 DEF TypeOK
    <3> QED
      BY <2>3, <3>1, <3>2
  <2> QED
    BY <2>5, <2>6
<1> QED
  BY <1>1, <1>2, <1>3

-----------------------------------------------------------------------------
\* The invariant holds before the first sign-in.
LEMMA InitInductive == ASSUME Init PROVE IInv
<1> USE NoneIsNothing DEF Init
<1>1. SignIn \subseteq Session /\ \A s \in Session \ SignIn : s \in DOMAIN SignedIn
  BY DEF SignIn
<1>2. \A s \in Session \ SignIn : /\ session[s] = [user |-> SignedIn[s][1], org |-> SignedIn[s][2],
                                                   revoked |-> FALSE]
                                  /\ session[s] \in SessionRow
  <2> SUFFICES ASSUME NEW s \in Session \ SignIn
               PROVE  /\ session[s] = [user |-> SignedIn[s][1], org |-> SignedIn[s][2], revoked |-> FALSE]
                      /\ session[s] \in SessionRow
    OBVIOUS
  <2>1. SignedIn[s] \in User \X Org
    BY <1>1, IdentityAssumption
  <2>2. PICK u \in User, o \in Org : SignedIn[s] = <<u, o>>
    BY <2>1
  <2>3. SignedIn[s][1] = u /\ SignedIn[s][2] = o
    BY <2>2
  <2>4. session[s] = [user |-> SignedIn[s][1], org |-> SignedIn[s][2], revoked |-> FALSE]
    OBVIOUS
  <2> HIDE DEF Init
  <2>5. [user |-> u, org |-> o, revoked |-> FALSE] \in SessionRow
    BY DEF SessionRow
  <2> QED
    BY <2>3, <2>4, <2>5
<1>3. session \in [Session -> SessionRow \cup {None}]
  <2>1. \A s \in SignIn : session[s] = None
    BY <1>1
  <2>2. session = [s \in Session |-> session[s]]
    OBVIOUS
  <2> QED
    BY <1>2, <2>1, <2>2
<1>4. token \subseteq {s \in Session : session[s] # None}
  <2>1. \A s \in DOMAIN SignedIn : s \in Session /\ s \notin SignIn
    BY IdentityAssumption DEF SignIn
  <2> QED
    BY <1>2, <2>1
<1>5. TypeOK
  BY <1>3, <1>4 DEF TypeOK, MembershipStatus
<1>6. WorkInv
  BY <1>1 DEF WorkInv, SignInOf, RequestOf, Working
<1> QED
  BY <1>5, <1>6 DEF IInv, BarredInv, GrantsAreGrounded

\* Every step of a request keeps the invariant.
LEMMA StepInductive == ASSUME IInv, [Next]_vars PROVE IInv'
<1> USE DEF IInv
<1>1. ASSUME NEW x \in SignIn, SignInStep(x)
      PROVE  IInv'
  <2>1. x \in Txn /\ x \notin Request
    BY NoneIsNothing
  <2>2. SessionsKept /\ MembershipsKept /\ GrantsKept /\ CreatesOnlyOwn(x)
    BY <1>1, SignInKeeps
  <2>3. TypeOK'
    BY <1>1, SignInTypes
  <2>4. SignInOf(x)'
    BY <1>1, SignInOwn
  <2>5. /\ \A y \in SignIn : y # x => SignInOf(y)'
        /\ \A r \in Request : r # x => RequestOf(r)'
    BY <1>1, <2>1, <2>2, OthersStay
  <2>6. WorkInv'
    BY <2>1, <2>4, <2>5 DEF WorkInv
  <2>7. BarredInv' /\ GrantsAreGrounded'
    BY <1>1, <2>1, <2>2, BarredStep, GroundedStep
  <2> QED
    BY <2>3, <2>6, <2>7
<1>2. ASSUME NEW r \in Request, RequestStep(r)
      PROVE  IInv'
  <2>1. r \in Txn /\ r \notin SignIn
    BY NoneIsNothing
  <2>2. SessionsKept /\ MembershipsKept /\ GrantsKept /\ CreatesOnlyOwn(r)
    BY <1>2, RequestKeeps
  <2>3. TypeOK'
    BY <1>2, RequestTypes
  <2>4. RequestOf(r)'
    BY <1>2, RequestOwn
  <2>5. /\ \A y \in SignIn : y # r => SignInOf(y)'
        /\ \A q \in Request : q # r => RequestOf(q)'
    BY <1>2, <2>1, <2>2, OthersStay
  <2>6. WorkInv'
    BY <2>1, <2>4, <2>5 DEF WorkInv
  <2>7. BarredInv' /\ GrantsAreGrounded'
    BY <1>2, <2>1, <2>2, BarredStep, GroundedStep
  <2> QED
    BY <2>3, <2>6, <2>7
<1>3. ASSUME NEW x \in Txn, Ends(x)
      PROVE  IInv'
  <2>1. SessionsKept /\ MembershipsKept /\ GrantsKept /\ CreatesOnlyOwn(x)
    BY <1>3, EndsKeeps
  <2>2. TypeOK'
    BY <1>3, EndsTypes
  <2>3. (x \in SignIn => SignInOf(x)') /\ (x \in Request => RequestOf(x)')
    BY <1>3, EndsOwn DEF Ends, RollBack
  <2>4. /\ \A y \in SignIn : y # x => SignInOf(y)'
        /\ \A r \in Request : r # x => RequestOf(r)'
    BY <1>3, <2>1, OthersStay
  <2>5. WorkInv'
    BY <2>3, <2>4 DEF WorkInv
  <2>6. BarredInv' /\ GrantsAreGrounded'
    BY <1>3, <2>1, BarredStep, GroundedStep
  <2> QED
    BY <2>2, <2>5, <2>6
<1>4. CASE UNCHANGED vars
  BY <1>4 DEF vars, tables, TypeOK, WorkInv, SignInOf, RequestOf, Working, Known, Revoked, Over,
     CapabilitiesFounded, Founded, BarredInv, GrantsAreGrounded
<1> QED
  BY <1>1, <1>2, <1>3, <1>4, Steps

\* Sign-ins, requests and ended sessions are as IInv describes them in every reachable state.
THEOREM Inductive == Spec => []IInv
<1>1. Init => IInv
  BY InitInductive
<1>2. IInv /\ [Next]_vars => IInv'
  BY StepInductive
<1> QED
  BY <1>1, <1>2, PTL DEF Spec

\* A request that begins after its session was ended by a logout, a logout-all,
\* an administrator or the end of the membership never becomes authenticated.
THEOREM EndedSessionsStayOut == Spec => []EndedSessionsAreRefused
<1>1. IInv => EndedSessionsAreRefused
  BY DEF IInv, WorkInv, RequestOf, Working, EndedSessionsAreRefused
<1> QED
  BY <1>1, Inductive, PTL

\* The tables keep their types, and every grant on record is of a capability that its
\* grantor had by role or by another grant on record.
THEOREM GrantsCorrect == Spec => []GrantsAreSound
<1>1. IInv => GrantsAreSound
  BY DEF IInv, GrantsAreSound
<1> QED
  BY <1>1, Inductive, PTL
=============================================================================
