---------------------------- MODULE MCOfflineSync ----------------------------
(* Model values for TLC: tabs and requests are interchangeable. *)
EXTENDS OfflineSync, TLC

Symmetry == Permutations(Tab) \cup Permutations(Request)
=============================================================================
