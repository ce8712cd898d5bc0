\* Three sessions, a callback delivered again, two requests in any interleaving.
SPECIFICATION FairSpec
CONSTANTS
    u1 = u1
    adm = adm
    o1 = o1
    o2 = o2
    s1 = s1
    s2 = s2
    s3 = s3
    l1 = l1
    l2 = l2
    a1 = a1
    User = {u1, adm}
    Org = {o1, o2}
    RoleOf <- Roles
    Member <- Members
    Session = {s1, s2, s3, l1, l2}
    SignedIn <- Seeded
    Developer <- Developers
    Attempt = {a1}
    Subject <- Authorizes
    Request = {1, 2}
    Delegable = {"MANAGE_IDENTITY", "DISPATCH_ROUTE"}
    Grantee = {u1, o2}
    None = None
INVARIANTS
    EndedSessionsAreRefused
    GrantsAreSound
PROPERTIES
    EveryRequestEnds
