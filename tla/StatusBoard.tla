----------------------------- MODULE StatusBoard -----------------------------
(***************************************************************************)
(* What the road network promises to those who read it: a status for each  *)
(* road and a version that moves whenever a status does.  A reader that    *)
(* finds the version it saw before may keep what it read of the statuses.  *)
(* The version is network_versions.status_version of one network version;  *)
(* how many statuses change at once, and by how much the version grows, is *)
(* left open.                                                              *)
(***************************************************************************)
EXTENDS Integers

CONSTANTS Edge, Status, Default

VARIABLES status, version

board == <<status, version>>

Init ==
    /\ status = [e \in Edge |-> Default]
    /\ version = 1

Declare ==
    /\ status' \in [Edge -> Status]
    /\ version' \in Nat /\ version' > version

Spec == Init /\ [][Declare]_board
=============================================================================
