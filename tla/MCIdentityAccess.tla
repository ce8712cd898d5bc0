--------------------------- MODULE MCIdentityAccess ---------------------------
(* Model values for TLC: a manager in two organizations and an administrator. *)
EXTENDS IdentityAccess, TLC

CONSTANTS u1, adm, o1, o2, s1, s2, s3, l1, l2, a1

Roles == <<u1, o1>> :> "FLEET_MANAGER" @@ <<u1, o2>> :> "TRANSPORT_OPERATOR"
         @@ <<adm, o1>> :> "PLATFORM_ADMINISTRATOR" @@ <<adm, o2>> :> "FIELD_OFFICER"
Members == {<<u1, o1>>, <<u1, o2>>, <<adm, o1>>}
Seeded == s1 :> <<u1, o1>> @@ s2 :> <<u1, o2>> @@ s3 :> <<adm, o1>>
Developers == {<<adm, o2>>}
Authorizes == a1 :> u1
=============================================================================
