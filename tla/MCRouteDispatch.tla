--------------------------- MODULE MCRouteDispatch ---------------------------
(* Model values for TLC: a highway and a bypass; the second version has an   *)
(* expressway that took the index of the highway.                            *)
EXTENDS RouteDispatch, TLC

CONSTANTS highway, bypass, ferry, expressway

Networks == {1, 2}
EdgesOfVersion == (1 :> {highway, bypass, ferry}) @@ (2 :> {expressway})
IndexOf == (highway :> 1) @@ (bypass :> 2) @@ (ferry :> 3) @@ (expressway :> 1)
Paths == {{highway}, {bypass}, {ferry}, {expressway}}

=============================================================================
