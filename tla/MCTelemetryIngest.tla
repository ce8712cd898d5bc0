-------------------------- MODULE MCTelemetryIngest --------------------------
(* Model values for TLC: an OBD unit and a driver's phone on one vehicle. *)
EXTENDS TelemetryIngest, TLC

CONSTANTS obd, phone

RankOf == (obd :> 1) @@ (phone :> 3)

Reading(n, t, k) == [seq |-> n, at |-> t, kind |-> k]

\* Repeated numbers, an invalid fix, a fix that may be ahead of the clock, and a
\* fast one that may be far behind the device's last.
Payloads == {<<Reading(0, 1, "invalid"), Reading(1, 1, "normal")>>,
             <<Reading(1, 0, "normal"), Reading(2, 2, "normal")>>,
             <<Reading(3, 0, "fast")>>}

Symmetry == Permutations(Batch)
=============================================================================
