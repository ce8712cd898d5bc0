------------------------- MODULE MCOutboxDispatcher -------------------------
(* Model values for TLC: all events concern one edge. *)
EXTENDS OutboxDispatcher, TLC

CONSTANTS evaluator, archive, w1, w2, e1

EdgeOfEvent == [e \in Event |-> e1]
SoleWorker == w1 :> evaluator
WorkerEach == (w1 :> evaluator) @@ (w2 :> archive)
TwoEvaluators == [w \in {w1, w2} |-> evaluator]
=============================================================================
