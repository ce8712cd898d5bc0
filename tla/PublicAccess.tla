---------------------------- MODULE PublicAccess ----------------------------
(***************************************************************************)
(* The anonymous surface: a counter per client and route in Redis admits   *)
(* at most Limit requests per window, and an admitted route request is     *)
(* answered by the routing engine or, when the engine raises, by the       *)
(* regional service.  The module is about one client and one route: every  *)
(* such pair has a key of its own.                                         *)
(***************************************************************************)
EXTENDS Naturals, Functions

CONSTANTS
  PublicRequests,  \* requests in progress at one time
  Limit,           \* requests admitted per window
  Window,          \* length of a window, in ticks
  Production       \* whether the limiter fails closed

ASSUME PublicAssumption ==
  /\ Limit \in Nat \ {0} /\ Window \in Nat \ {0}
  /\ Production \in BOOLEAN

VARIABLES
  rateKey,    \* the key in Redis: the count, and the ticks to its expiry
  redisUp,    \* whether Redis answers
  visit,      \* the requests
  admitted    \* history: admissions of the last Window ticks, by age

publicVars == <<rateKey, redisUp, visit, admitted>>

NoExpiry == Window + 1
Absent == [count |-> 0, ttl |-> NoExpiry]
Gone == [pc |-> "gone"]
At(pc) == [pc |-> pc]
Answered(answer, stored) == [pc |-> "answered", answer |-> answer, stored |-> stored]

PublicInit ==
  /\ rateKey = Absent
  /\ redisUp = TRUE
  /\ visit = [r \in PublicRequests |-> Gone]
  /\ admitted = [age \in 0..Window - 1 |-> 0]

-----------------------------------------------------------------------------
(* The count after INCR; one more than the limit stands for every higher    *)
(* count.                                                                   *)
Counted == IF rateKey.count > Limit THEN Limit + 1 ELSE rateKey.count + 1

(* Mutated form of Admits: an off-by-one in the comparison.                 *)
AdmitsOneMore(count) == count <= Limit \/ rateKey.count = Limit

Admits(count) == count <= Limit

(* What becomes of a request the limiter has judged.                        *)
Pass(r, admit, refusal) ==
  /\ visit' = [visit EXCEPT ![r] = IF admit THEN At("admitted")
                                   ELSE Answered(refusal, FALSE)]
  /\ admitted' = IF admit THEN [admitted EXCEPT ![0] = @ + 1] ELSE admitted

(* Redis does not answer: production refuses, other environments admit.     *)
Unavailable(r) == Pass(r, ~Production, "UNAVAILABLE")

(* Mutated form of ExpiryAfterCount: every request renews the expiry.       *)
ExpiryAfterCountAlways == Window

(* Counting leaves the expiry of the key as it is.                          *)
ExpiryAfterCount == rateKey.ttl

(* A request arrives and increments the counter; the first one of a window  *)
(* goes on to set the expiry.                                               *)
Count(r) ==
  /\ visit[r] = Gone
  /\ redisUp
  /\ rateKey' = [count |-> Counted, ttl |-> ExpiryAfterCount]
  /\ IF Counted = 1
     THEN visit' = [visit EXCEPT ![r] = At("counted")] /\ UNCHANGED admitted
     ELSE Pass(r, Admits(Counted), "RATE_LIMITED")
  /\ UNCHANGED redisUp

CountUnavailable(r) ==
  /\ visit[r] = Gone
  /\ ~redisUp
  /\ Unavailable(r)
  /\ UNCHANGED <<rateKey, redisUp>>

(* The first request of a window sets the expiry of the key.                *)
SetExpiry(r) ==
  /\ visit[r].pc = "counted"
  /\ IF redisUp
     THEN /\ rateKey' = IF rateKey = Absent THEN Absent ELSE [rateKey EXCEPT !.ttl = Window]
          /\ Pass(r, Admits(1), "RATE_LIMITED")
     ELSE Unavailable(r) /\ UNCHANGED rateKey
  /\ UNCHANGED redisUp

(* The worker dies between the two calls.                                   *)
Die(r) ==
  /\ visit[r].pc = "counted"
  /\ visit' = [visit EXCEPT ![r] = Gone]
  /\ UNCHANGED <<rateKey, redisUp, admitted>>

(* The engine evaluates the route, which stores the plan in the session, or *)
(* raises.                                                                  *)
Evaluate(r) ==
  /\ visit[r].pc = "admitted"
  /\ \E outcome \in {"planned", "raised"} : visit' = [visit EXCEPT ![r] = At(outcome)]
  /\ UNCHANGED <<rateKey, redisUp, admitted>>

(* The plan is committed and returned.                                      *)
Offer(r) ==
  /\ visit[r].pc = "planned"
  /\ visit' = [visit EXCEPT ![r] = Answered("ENGINE", TRUE)]
  /\ UNCHANGED <<rateKey, redisUp, admitted>>

(* The commit fails, which the handler treats as the engine raising.        *)
FailCommit(r) ==
  /\ visit[r].pc = "planned"
  /\ visit' = [visit EXCEPT ![r] = At("raised")]
  /\ UNCHANGED <<rateKey, redisUp, admitted>>

(* The session is rolled back and the regional service asked; if it does    *)
(* not answer either, a straight line is returned as a feasible plan.       *)
FallBack(r) ==
  /\ visit[r].pc = "raised"
  /\ visit' = [visit EXCEPT ![r] = Answered("REGIONAL", FALSE)]
  /\ UNCHANGED <<rateKey, redisUp, admitted>>

Leave(r) ==
  /\ visit[r].pc = "answered"
  /\ visit' = [visit EXCEPT ![r] = Gone]
  /\ UNCHANGED <<rateKey, redisUp, admitted>>

(* Time passes: a key whose expiry is reached is deleted.                   *)
Tick ==
  /\ rateKey' = IF rateKey.ttl = NoExpiry THEN rateKey
                ELSE IF rateKey.ttl = 1 THEN Absent
                ELSE [rateKey EXCEPT !.ttl = @ - 1]
  /\ admitted' = [age \in 0..Window - 1 |-> IF age = 0 THEN 0 ELSE admitted[age - 1]]
  /\ UNCHANGED <<redisUp, visit>>

Outage ==
  /\ redisUp' = ~redisUp
  /\ UNCHANGED <<rateKey, visit, admitted>>

PublicNext ==
  \/ \E r \in PublicRequests :
       \/ Count(r) \/ CountUnavailable(r) \/ SetExpiry(r) \/ Die(r)
       \/ Evaluate(r) \/ Offer(r) \/ FailCommit(r) \/ FallBack(r) \/ Leave(r)
  \/ Tick \/ Outage

-----------------------------------------------------------------------------
(* The key, the requests and the admissions of the last window.             *)
PublicTypeOK ==
  /\ rateKey \in [count: 0..Limit + 1, ttl: 1..NoExpiry]
  /\ rateKey.count = 0 => rateKey = Absent
  /\ redisUp \in BOOLEAN
  /\ DOMAIN visit = PublicRequests
  /\ DOMAIN admitted = 0..Window - 1

Total(f) == FoldFunction(LAMBDA m, n : m + n, 0, f)

(* The limit bounds what the engine is asked: whichever calls to Redis fail *)
(* and whichever workers die, production admits at most twice the limit in  *)
(* any window of time, the last ones of one key and the first of the next.  *)
AdmissionsAreBounded ==
  Production => Total(admitted) <= 2 * Limit

(* The database keeps exactly the plans that citizens were given: a plan    *)
(* offered by the engine is stored and a regional one leaves nothing.       *)
StoredPlansWereOffered ==
  \A r \in PublicRequests :
    visit[r].pc = "answered" => (visit[r].stored <=> visit[r].answer = "ENGINE")

(* A client over the limit is let in again although it keeps asking, once   *)
(* its key has an expiry.                                                   *)
BlockedClientsRecover ==
  (rateKey.count > Limit /\ rateKey.ttl # NoExpiry) ~> rateKey.count <= Limit

(* What the public costs is bounded and what it gets is accounted for: no   *)
(* more evaluations than the limit allows, and a stored plan for each       *)
(* answer of the engine.                                                    *)
PublicAccessIsSound == PublicTypeOK /\ AdmissionsAreBounded /\ StoredPlansWereOffered
=============================================================================
