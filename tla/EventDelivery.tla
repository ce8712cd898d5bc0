---------------------------- MODULE EventDelivery ----------------------------
(***************************************************************************)
(* What the outbox promises to those who publish events and to those who   *)
(* consume them, without polls, locks, receipts or crashes: a published    *)
(* event is delivered to each consumer at most once, has its effects with  *)
(* the delivery to the evaluator and with nothing else, and is given up    *)
(* with the last failure allowed and no earlier.                           *)
(***************************************************************************)
EXTENDS Integers

CONSTANTS
    Event,      \* outbox events
    Consumer,   \* who they are delivered to
    Evaluator,  \* the consumer that acts on them
    Affecting,  \* the events it has something to do about
    MaxRetries  \* failures allowed

VARIABLES
    published,  \* the events there are
    delivered,  \* the events each consumer has had
    effects,    \* how often each event has had its effects
    failed,     \* attempts at each event that failed
    givenUp     \* events nobody tries any more

delivery == <<published, delivered, effects, failed, givenUp>>

Init ==
    /\ published = {}
    /\ delivered = [c \in Consumer |-> {}]
    /\ effects = [e \in Event |-> 0]
    /\ failed = [e \in Event |-> 0]
    /\ givenUp = {}

Publish(e) ==
    /\ e \notin published
    /\ published' = published \cup {e}
    /\ UNCHANGED <<delivered, effects, failed, givenUp>>

\* A consumer that has not had the event gets it; another consumer may still
\* get one that the evaluator has given up.
Deliver(c, e) ==
    /\ e \in published \ delivered[c]
    /\ c = Evaluator => e \notin givenUp
    /\ delivered' = [delivered EXCEPT ![c] = @ \cup {e}]
    /\ effects' = IF c = Evaluator /\ e \in Affecting
                  THEN [effects EXCEPT ![e] = @ + 1] ELSE effects
    /\ UNCHANGED <<published, failed, givenUp>>

\* The evaluator fails: the attempt counts, and the last one is the last.
Fail(e) ==
    /\ e \in published \ delivered[Evaluator]
    /\ e \notin givenUp
    /\ failed' = [failed EXCEPT ![e] = @ + 1]
    /\ givenUp' = IF failed[e] + 1 = MaxRetries THEN givenUp \cup {e} ELSE givenUp
    /\ UNCHANGED <<published, delivered, effects>>

Next == \E e \in Event : Publish(e) \/ Fail(e) \/ \E c \in Consumer : Deliver(c, e)

Spec == Init /\ [][Next]_delivery
=============================================================================
