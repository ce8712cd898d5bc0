---------------------------- MODULE IdentityAccess ----------------------------
(***************************************************************************)
(* Sign-in, sessions, memberships and grants.  Every request is one READ   *)
(* COMMITTED transaction that first resolves its principal: it reads the   *)
(* session, touches it (an UPDATE, so the session row stays locked until   *)
(* the transaction ends), then reads the membership and the grants, each   *)
(* in a statement of its own.                                              *)
(*                                                                         *)
(* The periods of validity of sessions, memberships and grants, inactive   *)
(* accounts and wrong CSRF tokens only refuse: Refuse covers them.  The    *)
(* identity provider is external.  The commit is the caller's, as in the   *)
(* integration tests; a route that only reads leaves nothing behind.       *)
(***************************************************************************)
EXTENDS Integers, FiniteSets

CONSTANTS
    User, Org,
    RoleOf,        \* role of each user's membership in each organization
    Member,        \* memberships at the start, pairs of user and organization
    Session,       \* sessions, also the names of the sign-ins that create them
    SignedIn,      \* sessions at the start: a function to their pairs of user and organization
    Developer,     \* pairs that sign in without the provider, in development and test only
    Attempt,       \* authorizations at the provider, each with its state and code
    Subject,       \* the user who authorizes
    Request,       \* authenticated requests, also the names of the grants they create
    Delegable,     \* bound: capabilities that are granted
    Grantee,       \* bound: users and organizations that receive them
    None

Role == {"REGIONAL_AUTHORITY", "STATE_AUTHORITY", "DISTRICT_VERIFIER", "EMERGENCY_COORDINATOR",
         "FIELD_OFFICER", "LOCAL_AUTHORITY", "ROAD_INSPECTION", "FLEET_MANAGER",
         "DELIVERY_COORDINATOR", "TRANSPORT_OPERATOR", "PLATFORM_ADMINISTRATOR"}

\* ROLE_CAPABILITY_MAP
Baseline(role) ==
    CASE role = "REGIONAL_AUTHORITY" ->
            {"VIEW_REPORT_SUMMARY", "VIEW_ROAD_STATUS", "VIEW_IMPACT", "VIEW_REGION", "EXPORT_DATA",
             "COORDINATE_RESPONSE", "VIEW_FLEET"}
      [] role = "STATE_AUTHORITY" ->
            {"VIEW_REPORT_SUMMARY", "VIEW_REPORT_DETAIL", "VIEW_ROAD_STATUS", "UPDATE_ROAD_STATUS",
             "VIEW_IMPACT", "VIEW_REGION", "OVERRIDE_VERIFICATION", "EXPORT_DATA", "COORDINATE_RESPONSE"}
      [] role = "DISTRICT_VERIFIER" ->
            {"VIEW_REPORT_SUMMARY", "VIEW_REPORT_DETAIL", "VIEW_REPORT_MEDIA", "VERIFY_REPORT",
             "VIEW_ROAD_STATUS", "UPDATE_ROAD_STATUS"}
      [] role = "EMERGENCY_COORDINATOR" ->
            {"VIEW_REPORT_SUMMARY", "VIEW_REPORT_DETAIL", "VIEW_REPORT_MEDIA", "RESPOND_EMERGENCY",
             "COORDINATE_RESPONSE", "VIEW_ROAD_STATUS", "UPDATE_ROAD_STATUS", "VIEW_FLEET", "VIEW_IMPACT"}
      [] role \in {"FIELD_OFFICER", "LOCAL_AUTHORITY"} ->
            {"SUBMIT_REPORT", "VIEW_REPORT_SUMMARY", "VIEW_ROAD_STATUS"}
      [] role = "ROAD_INSPECTION" ->
            {"SUBMIT_REPORT", "VIEW_REPORT_SUMMARY", "VIEW_REPORT_DETAIL", "VIEW_ROAD_STATUS",
             "UPDATE_ROAD_STATUS"}
      [] role = "FLEET_MANAGER" ->
            {"VIEW_FLEET", "COMPUTE_ROUTE", "DISPATCH_ROUTE", "VIEW_ROAD_STATUS", "VIEW_IMPACT",
             "VIEW_DRIVER_PII"}
      [] role = "DELIVERY_COORDINATOR" ->
            {"VIEW_FLEET", "COMPUTE_ROUTE", "VIEW_ROAD_STATUS", "VIEW_DRIVER_PII"}
      [] role = "TRANSPORT_OPERATOR" -> {"SUBMIT_GPS", "VIEW_ROAD_STATUS"}
      [] role = "PLATFORM_ADMINISTRATOR" ->
            {"VIEW_REPORT_SUMMARY", "VIEW_REPORT_DETAIL", "MANAGE_IDENTITY", "MANAGE_GRANTS",
             "VIEW_ROAD_STATUS", "UPDATE_ROAD_STATUS", "VIEW_REGION", "EXPORT_DATA", "VIEW_DRIVER_PII"}

ASSUME IdentityAssumption ==
    /\ RoleOf \in [User \X Org -> Role]
    /\ Member \subseteq User \X Org
    /\ DOMAIN SignedIn \subseteq Session
    /\ \A s \in DOMAIN SignedIn : SignedIn[s] \in Member
    /\ Developer \subseteq User \X Org
    /\ Subject \in [Attempt -> User]
    /\ Request \subseteq Nat
    /\ Grantee \subseteq User \cup Org
    /\ Session \cap Request = {}
    /\ None \notin Session \cup Request \cup User \cup Org \cup Attempt

SignIn == Session \ DOMAIN SignedIn
MembershipStatus == {"ACTIVE", "SUSPENDED", "REVOKED"}
SessionRow == [user: User, org: Org, revoked: BOOLEAN]
Grant == [grantor: User, org: Org, grantee: Grantee, capability: Delegable, active: BOOLEAN]

Capability == (UNION {Baseline(role) : role \in Role}) \cup Delegable

\* What a sign-in and what a request has read; a session chosen by select-org has
\* no attempt.
SignInWork == [attempt: Attempt \cup {None}, user: User, orgs: SUBSET Org]
RequestWork == [session: Session, user: User, org: Org, late: BOOLEAN,
                capabilities: SUBSET Capability,
                target: SUBSET Session, known: SUBSET Session, wanted: SUBSET Session]

ASSUME NoneIsNoRow ==
    None \notin MembershipStatus \cup SessionRow \cup Grant \cup SignInWork \cup RequestWork

VARIABLES
    membership,   \* status of each membership, None if there is none
    session,      \* sessions as committed, None before the sign-in
    token,        \* sessions with a CSRF token
    grant,        \* grants by the request that created them
    auth,         \* status of each auth_transaction
    spent,        \* authorization codes the provider has exchanged
    selection,    \* users who hold a selection token
    lock,         \* holder of each row lock
    pc, work,     \* progress of each transaction and what it has read
    barred        \* history: sessions that a logout or an administrator has ended

tables == <<membership, session, token, grant, auth, spent, selection>>
vars   == <<tables, lock, pc, work, barred>>

Txn == SignIn \cup Request

Init ==
    /\ membership = [m \in User \X Org |-> IF m \in Member THEN "ACTIVE" ELSE None]
    /\ session = [s \in Session |->
           IF s \in SignIn THEN None
           ELSE [user |-> SignedIn[s][1], org |-> SignedIn[s][2], revoked |-> FALSE]]
    /\ token = DOMAIN SignedIn
    /\ grant = [r \in Request |-> None]
    /\ auth = [a \in Attempt |-> "pending"]
    /\ spent = {}
    /\ selection = {}
    /\ lock = [x \in Session \cup Attempt |-> None]
    /\ pc = [x \in Txn |-> "idle"]
    /\ work = [x \in Txn |-> None]
    /\ barred = {}

Goto(x, label) == pc' = [pc EXCEPT ![x] = label]
Unlocked(x) == [y \in DOMAIN lock |-> IF lock[y] = x THEN None ELSE lock[y]]

\* The transaction has ended, by a commit or not.
Ended(x) ==
    /\ Goto(x, "done")
    /\ work' = [work EXCEPT ![x] = None]
    /\ lock' = Unlocked(x)

\* Mutated form of RollBack: the database session is never closed.
RollBackKeepsLocks(x) ==
    /\ Goto(x, "done")
    /\ work' = [work EXCEPT ![x] = None]
    /\ UNCHANGED <<tables, lock, barred>>

RollBack(x) == Ended(x) /\ UNCHANGED <<tables, barred>>

-----------------------------------------------------------------------------
\* Sign-in.

\* The callback finds the transaction of its state unconsumed; no lock.
BeginCallback(x, a) ==
    /\ pc[x] = "idle"
    /\ auth[a] = "pending"
    /\ work' = [work EXCEPT ![x] = [attempt |-> a, user |-> Subject[a], orgs |-> {}]]
    /\ Goto(x, "stated")
    /\ UNCHANGED <<tables, lock, barred>>

\* UPDATE auth_transactions SET consumed_at, whatever it holds by now.
ConsumeState(x) ==
    /\ pc[x] = "stated"
    /\ lock[work[x].attempt] = None
    /\ lock' = [lock EXCEPT ![work[x].attempt] = x]
    /\ Goto(x, "consumed")
    /\ UNCHANGED <<tables, work, barred>>

\* The provider exchanges a code once.
ExchangeCode(x) ==
    /\ pc[x] = "consumed"
    /\ work[x].attempt \notin spent
    /\ spent' = spent \cup {work[x].attempt}
    /\ Goto(x, "exchanged")
    /\ UNCHANGED <<membership, session, token, grant, auth, selection, lock, work, barred>>

ExchangeRefused(x) ==
    /\ pc[x] = "consumed"
    /\ work[x].attempt \in spent
    /\ RollBack(x)

Effective(u, o) == membership[<<u, o>>] = "ACTIVE"

\* The user row is written and the active memberships are read.
ReadMemberships(x) ==
    LET orgs == {o \in Org : Effective(work[x].user, o)} IN
    /\ pc[x] = "exchanged"
    /\ work' = [work EXCEPT ![x].orgs = orgs]
    /\ Goto(x, IF Cardinality(orgs) = 1 THEN "selected" ELSE "choosing")
    /\ UNCHANGED <<tables, lock, barred>>

NoActiveMembership(x) ==
    /\ pc[x] = "choosing"
    /\ work[x].orgs = {}
    /\ RollBack(x)

AuthAfter(x) == IF work[x].attempt = None THEN auth
                ELSE [auth EXCEPT ![work[x].attempt] = "consumed"]

\* Several memberships: the user is given a selection token and no session.
OfferChoice(x) ==
    /\ pc[x] = "choosing"
    /\ work[x].orgs # {}
    /\ auth' = AuthAfter(x)
    /\ selection' = selection \cup {work[x].user}
    /\ Ended(x)
    /\ UNCHANGED <<membership, session, token, grant, spent, barred>>

\* select-org: the token is signed, not stored, and may be used again.
SelectOrg(x, u, o) ==
    /\ pc[x] = "idle"
    /\ u \in selection
    /\ Effective(u, o)
    /\ work' = [work EXCEPT ![x] = [attempt |-> None, user |-> u, orgs |-> {o}]]
    /\ Goto(x, "selected")
    /\ UNCHANGED <<tables, lock, barred>>

\* The rows of create_session, and of create_csrf_token.
NewSession(u, o) == [user |-> u, org |-> o, revoked |-> FALSE]
WithToken(s) == token \cup {s}

\* The session and its CSRF token are inserted, its principal resolved, the whole committed.
OpenSession(x) ==
    /\ pc[x] = "selected"
    /\ \E o \in work[x].orgs :
           /\ Effective(work[x].user, o)
           /\ session' = [session EXCEPT ![x] = NewSession(work[x].user, o)]
    /\ token' = WithToken(x)
    /\ auth' = AuthAfter(x)
    /\ Ended(x)
    /\ UNCHANGED <<membership, grant, spent, selection, barred>>

OpeningRefused(x) ==
    /\ pc[x] = "selected"
    /\ \A o \in work[x].orgs : ~Effective(work[x].user, o)
    /\ RollBack(x)

\* dev-session: user, organization and membership are created where they are missing.
OpenDevSession(x, m) ==
    /\ pc[x] = "idle"
    /\ membership[m] \in {"ACTIVE", None}
    /\ membership' = [membership EXCEPT ![m] = "ACTIVE"]
    /\ session' = [session EXCEPT ![x] = NewSession(m[1], m[2])]
    /\ token' = WithToken(x)
    /\ Ended(x)
    /\ UNCHANGED <<grant, auth, spent, selection, barred>>

-----------------------------------------------------------------------------
\* The principal of a request.

Sessions(u) == {s \in Session : session[s] # None /\ session[s].user = u}

Revoked(s) == session[s].revoked

\* get_session_by_token_digest.
Known(s) == session[s] # None

\* The session of the cookie is read, without a lock.
ReadSession(r, s) ==
    /\ pc[r] = "idle"
    /\ \A q \in Request : q < r => pc[q] # "idle"
    /\ Known(s)
    /\ ~Revoked(s)
    /\ work' = [work EXCEPT ![r] = [session |-> s, user |-> session[s].user, org |-> session[s].org,
                                    late |-> s \in barred, capabilities |-> {},
                                    target |-> {}, known |-> {}, wanted |-> {}]]
    /\ Goto(r, "read")
    /\ UNCHANGED <<tables, lock, barred>>

\* UPDATE sessions SET last_seen_at.
TouchSession(r) ==
    /\ pc[r] = "read"
    /\ lock[work[r].session] = None
    /\ lock' = [lock EXCEPT ![work[r].session] = r]
    /\ Goto(r, "touched")
    /\ UNCHANGED <<tables, work, barred>>

ReadMembership(r) ==
    /\ pc[r] = "touched"
    /\ Effective(work[r].user, work[r].org)
    /\ Goto(r, "member")
    /\ UNCHANGED <<tables, lock, work, barred>>

MembershipRefused(r) ==
    /\ pc[r] = "touched"
    /\ ~Effective(work[r].user, work[r].org)
    /\ RollBack(r)

Granted(u, o) == {grant[q].capability : q \in {q \in Request :
                     grant[q] # None /\ grant[q].active /\ grant[q].grantee \in {u, o}}}

RoleAt(u, o) == RoleOf[<<u, o>>]

ReadGrants(r) ==
    /\ pc[r] = "member"
    /\ work' = [work EXCEPT ![r].capabilities =
           Baseline(RoleAt(work[r].user, work[r].org)) \cup Granted(work[r].user, work[r].org)]
    /\ Goto(r, "authenticated")
    /\ UNCHANGED <<tables, lock, barred>>

\* A period of validity is over, an account is inactive, the CSRF token wrong.
Refuse(x) ==
    /\ pc[x] \notin {"idle", "done"}
    /\ RollBack(x)

\* A route that only reads, and whose transaction, the touch included, is not committed.
Look(r) ==
    /\ pc[r] = "authenticated"
    /\ RollBack(r)

Authenticated(r) == pc[r] = "authenticated"
HasToken(r) == work[r].session \in token
Can(r, c) == c \in work[r].capabilities

-----------------------------------------------------------------------------
\* Sessions.

IssueToken(r) ==
    /\ Authenticated(r)
    /\ token' = WithToken(work[r].session)
    /\ Ended(r)
    /\ UNCHANGED <<membership, session, grant, auth, spent, selection, barred>>

\* revoke_session
RevokedRow(s) == [session[s] EXCEPT !.revoked = TRUE]

Logout(r) ==
    /\ Authenticated(r) /\ HasToken(r)
    /\ session' = [session EXCEPT ![work[r].session] = RevokedRow(work[r].session)]
    /\ token' = token \ {work[r].session}
    /\ barred' = barred \cup {work[r].session}
    /\ Ended(r)
    /\ UNCHANGED <<membership, grant, auth, spent, selection>>

\* Mutated form of Revocable: the sessions of the present organization only.
RevocableHere(r) ==
    {s \in Sessions(work[r].user) : ~Revoked(s) /\ session[s].org = work[r].org}

\* The rows the UPDATE of revoke_all_user_sessions finds.
Revocable(r) == {s \in Sessions(work[r].user) : ~Revoked(s)}

\* The statement of a logout-all starts.
BeginLogoutAll(r) ==
    /\ Authenticated(r) /\ HasToken(r)
    /\ work' = [work EXCEPT ![r].target = Revocable(r),
                            ![r].wanted = Revocable(r) \ {work[r].session},
                            ![r].known = Sessions(work[r].user)]
    /\ Goto(r, "revoking")
    /\ UNCHANGED <<tables, lock, barred>>

\* AdminRevokeSession
BeginAdminRevoke(r, s) ==
    /\ Authenticated(r) /\ HasToken(r)
    /\ Can(r, "MANAGE_IDENTITY")
    /\ Known(s)
    /\ work' = [work EXCEPT ![r].target = {s}, ![r].wanted = {s} \ {work[r].session},
                            ![r].known = {s}]
    /\ Goto(r, "dropping")
    /\ UNCHANGED <<tables, lock, barred>>

\* The UPDATE locks its rows one at a time, in any order.
LockSession(r, s) ==
    /\ pc[r] \in {"revoking", "dropping"}
    /\ s \in work[r].wanted
    /\ lock[s] = None
    /\ lock' = [lock EXCEPT ![s] = r]
    /\ work' = [work EXCEPT ![r].wanted = @ \ {s}]
    /\ UNCHANGED <<tables, pc, barred>>

\* Only the administrator's revocation deletes the tokens of the sessions.
CommitRevocation(r) ==
    /\ pc[r] \in {"revoking", "dropping"}
    /\ work[r].wanted = {}
    /\ session' = [s \in Session |->
           IF s \in work[r].target THEN RevokedRow(s) ELSE session[s]]
    /\ token' = IF pc[r] = "dropping" THEN token \ work[r].target ELSE token
    /\ barred' = barred \cup work[r].known
    /\ Ended(r)
    /\ UNCHANGED <<membership, grant, auth, spent, selection>>

-----------------------------------------------------------------------------
\* Memberships and grants.

\* update_membership_status
WithStatus(u, o, s) == [membership EXCEPT ![<<u, o>>] = s]

\* create_membership, which uq_memberships_user_org refuses a second time.
MayJoin(u, o) == membership[<<u, o>>] = None

CreateMembership(r, u, o) ==
    /\ Authenticated(r) /\ HasToken(r)
    /\ Can(r, "MANAGE_IDENTITY")
    /\ MayJoin(u, o)
    /\ membership' = WithStatus(u, o, "ACTIVE")
    /\ Ended(r)
    /\ UNCHANGED <<session, token, grant, auth, spent, selection, barred>>

\* SuspendMembership and RevokeMembership, whatever the status was.
EndMembership(r, u, o, s) ==
    /\ Authenticated(r) /\ HasToken(r)
    /\ Can(r, "MANAGE_IDENTITY")
    /\ membership[<<u, o>>] # None
    /\ s \in {"SUSPENDED", "REVOKED"}
    /\ membership' = WithStatus(u, o, s)
    /\ barred' = barred \cup {t \in Sessions(u) : session[t].org = o}
    /\ Ended(r)
    /\ UNCHANGED <<session, token, grant, auth, spent, selection>>

\* Mutated form of MayGrant: the authority of the grantor is not validated.
MayGrantAny(r, c) == TRUE

\* ValidateGrantAuthority
MayGrant(r, c) == Can(r, c)

\* create_grant and revoke_grant
NewGrant(r, g, c) == [grantor |-> work[r].user, org |-> work[r].org, grantee |-> g,
                      capability |-> c, active |-> TRUE]
RevokedGrant(q) == [grant[q] EXCEPT !.active = FALSE]

CreateGrant(r, g, c) ==
    /\ Authenticated(r) /\ HasToken(r)
    /\ MayGrant(r, c)
    /\ grant' = [grant EXCEPT ![r] = NewGrant(r, g, c)]
    /\ Ended(r)
    /\ UNCHANGED <<membership, session, token, auth, spent, selection, barred>>

\* By its grantor or an administrator; the grants built on it stay.
RevokeGrant(r, q) ==
    /\ Authenticated(r) /\ HasToken(r)
    /\ grant[q] # None
    /\ \/ grant[q].grantor = work[r].user
       \/ RoleAt(work[r].user, work[r].org) = "PLATFORM_ADMINISTRATOR"
    /\ grant' = [grant EXCEPT ![q] = RevokedGrant(q)]
    /\ Ended(r)
    /\ UNCHANGED <<membership, session, token, auth, spent, selection, barred>>

-----------------------------------------------------------------------------
\* Transactions each of which waits for another of them.
Deadlocked(R) ==
    \A r \in R : /\ pc[r] \in {"revoking", "dropping"}
                 /\ work[r].wanted # {}
                 /\ \A s \in work[r].wanted : lock[s] \in R \ {r}

\* PostgreSQL aborts one of them.
BreakDeadlock(r) ==
    /\ \E R \in SUBSET Request : r \in R /\ Deadlocked(R)
    /\ RollBack(r)

AdvanceSignIn(x) ==
    \/ ConsumeState(x) \/ ExchangeCode(x) \/ ExchangeRefused(x)
    \/ ReadMemberships(x) \/ NoActiveMembership(x) \/ OfferChoice(x)
    \/ OpenSession(x) \/ OpeningRefused(x)

Serve(r) ==
    \/ Look(r) \/ IssueToken(r) \/ Logout(r) \/ BeginLogoutAll(r)
    \/ \E s \in Session : BeginAdminRevoke(r, s)
    \/ \E u \in User, o \in Org :
           CreateMembership(r, u, o) \/ \E s \in MembershipStatus : EndMembership(r, u, o, s)
    \/ \E g \in Grantee, c \in Delegable : CreateGrant(r, g, c)
    \/ \E q \in Request : RevokeGrant(r, q)

AdvanceRequest(r) ==
    \/ TouchSession(r) \/ ReadMembership(r) \/ MembershipRefused(r) \/ ReadGrants(r)
    \/ Serve(r)
    \/ \E s \in Session : LockSession(r, s)
    \/ CommitRevocation(r)
    \/ BreakDeadlock(r)

Begin ==
    \/ \E x \in SignIn : \/ \E a \in Attempt : BeginCallback(x, a)
                         \/ \E u \in User, o \in Org : SelectOrg(x, u, o)
                         \/ \E m \in Developer : OpenDevSession(x, m)
    \/ \E r \in Request, s \in Session : ReadSession(r, s)

Served ==
    /\ \A x \in Txn : pc[x] \in {"idle", "done"}
    /\ UNCHANGED vars

Next ==
    \/ Begin
    \/ \E x \in SignIn : AdvanceSignIn(x) \/ Refuse(x)
    \/ \E r \in Request : AdvanceRequest(r) \/ Refuse(r)
    \/ Served

Spec == Init /\ [][Next]_vars

\* Users need not send requests; a request under way executes its next statement
\* when it can, and the database breaks deadlocks.
FairSpec ==
    /\ Spec
    /\ \A x \in SignIn : WF_vars(AdvanceSignIn(x))
    /\ \A r \in Request : WF_vars(AdvanceRequest(r))

-----------------------------------------------------------------------------
Progress == {"stated", "consumed", "exchanged", "choosing", "selected", "read", "touched",
             "member", "authenticated", "revoking", "dropping"}

TypeOK ==
    /\ membership \in [User \X Org -> MembershipStatus \cup {None}]
    /\ session \in [Session -> SessionRow \cup {None}]
    /\ token \subseteq {s \in Session : session[s] # None}
    /\ grant \in [Request -> Grant \cup {None}]
    /\ auth \in [Attempt -> {"pending", "consumed"}]
    /\ spent \subseteq Attempt
    /\ selection \subseteq User
    /\ lock \in [Session \cup Attempt -> Txn \cup {None}]
    /\ pc \in [Txn -> Progress \cup {"idle", "done"}]
    /\ work \in [Txn -> SignInWork \cup RequestWork \cup {None}]
    /\ \A x \in Txn : work[x] = None <=> pc[x] \in {"idle", "done"}
    /\ barred \subseteq Session

\* A request that comes in after its session was ended (by its logout, by a
\* logout-all that was served while the session existed, by an administrator or
\* by the end of the membership) gets no principal, however far the requests
\* that came in before it have got.
EndedSessionsAreRefused ==
    \A r \in Request :
        pc[r] \in {"authenticated", "revoking", "dropping"} => ~work[r].late

\* Whoever delegated a capability had it by the role of a membership or by an
\* earlier grant to the user or the organization, even if that has been revoked since.
GrantsAreGrounded ==
    \A r \in Request : grant[r] # None =>
        \/ grant[r].capability \in Baseline(RoleAt(grant[r].grantor, grant[r].org))
        \/ \E q \in Request \ {r} :
               /\ grant[q] # None
               /\ grant[q].capability = grant[r].capability
               /\ grant[q].grantee \in {grant[r].grantor, grant[r].org}

\* Sessions, memberships and grants have their types, and every grant its authority.
GrantsAreSound == TypeOK /\ GrantsAreGrounded

\* Two logout-alls lock each other's sessions, yet every request ends.
EveryRequestEnds == \A x \in Txn : pc[x] \in Progress ~> pc[x] = "done"
=============================================================================
