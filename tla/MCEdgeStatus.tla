---------------------------- MODULE MCEdgeStatus ----------------------------
(* Model values for TLC: two operators, one risk pass, two road edges. *)
EXTENDS EdgeStatus, TLC

\* Requests of one kind are interchangeable, and so are the edges.
Symmetry == Permutations(Declarer) \cup Permutations(RiskPass) \cup Permutations(Edge)
=============================================================================
