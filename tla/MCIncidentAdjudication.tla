------------------------ MODULE MCIncidentAdjudication ------------------------
(***************************************************************************)
(* Model values for TLC: a reporter of the district and its verifier; and  *)
(* a start from the state three confirmations of one report lead to.       *)
(***************************************************************************)
EXTENDS IncidentAdjudication, TLC

CONSTANTS officer, verifier, district, highway, bypass

HomeOf == (officer :> district) @@ (verifier :> district)
ScopeOf == (officer :> {district}) @@ (verifier :> {district})

Observations == {[reporter |-> officer, severity |-> "LOW", edge |-> highway]}

\* Nothing, so that the report's own road is closed, or a lane of the other one.
Impacts == {[e \in Edge |-> "none"],
            [e \in Edge |-> IF e = bypass THEN "partial" ELSE "none"]}

\* Nothing happened yet, but that some requests were refused; or a report was
\* confirmed three times, with its own road twice and then with a lane of the other
\* one: three active incidents, for the next requests to merge.
Start(opened, refused) ==
    /\ report = [r \in Report |-> IF r # 1 \/ opened = {} THEN None ELSE
                    [state |-> "VERIFIED", reporter |-> officer, severity |-> "LOW",
                     edge |-> highway, cv |-> None, version |-> 4]]
    /\ incident = [i \in Request |-> IF i \notin opened THEN None ELSE
                      [lifecycle |-> "ACTIVE", severity |-> "LOW", version |-> 1]]
    /\ about = [i \in Request |-> IF i \in opened THEN {1} ELSE {}]
    /\ closes = [i \in Request |-> [e \in Edge |->
                    CASE i \in opened \ {3} /\ e = highway -> "full"
                      [] i \in opened \cap {3} /\ e = bypass -> "partial"
                      [] OTHER -> "none"]]
    /\ status = [e \in Edge |-> CASE opened = {} -> "OPEN"
                                  [] e = highway -> "BLOCKED"
                                  [] OTHER -> "RESTRICTED"]
    /\ decision = [q \in Request |-> IF q \notin opened THEN None ELSE
                      [report |-> 1, kind |-> "CONFIRM_INCIDENT", incident |-> q, match |-> None]]
    /\ merge = [q \in Request |-> None]
    /\ event = [q \in Request |-> IF q \notin opened THEN None ELSE
                    [type |-> "incident.created", incident |-> q]]
    /\ pc = [q \in Request |-> IF q \in opened \cup refused THEN "done" ELSE "idle"]
    /\ work = [q \in Request |-> None]
    /\ overwritten = {}
    /\ outrun = {}

MCSpec == (Start({}, {1, 2}) \/ Start({1, 2, 3}, {})) /\ [][Next]_vars
=============================================================================
