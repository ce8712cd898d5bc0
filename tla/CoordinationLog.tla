-------------------------- MODULE CoordinationLog --------------------------
(***************************************************************************)
(* The coordination module: a log of who acknowledged, escalated, assigned *)
(* or asked for the inspection of a subject.  A request is validated,      *)
(* judged against the history it reads, stamped and inserted, and visible  *)
(* to others once its route commits.  Nothing serialises the read of the   *)
(* history with the insert.                                                *)
(***************************************************************************)
EXTENDS Naturals, FiniteSets

CONSTANTS
  LogCalls,           \* requests to record an action
  Subjects,           \* incidents, facilities, alerts and trips
  InspectionSubjects, \* the incidents and facilities among them
  MaxActionsRead      \* rows of history one request reads

ASSUME LogAssumption ==
  /\ InspectionSubjects \subseteq Subjects
  /\ MaxActionsRead \in Nat \ {0}

VARIABLES
  actionLog,  \* committed rows of coordination_actions
  logCall,    \* the requests being served
  logClock,   \* the time
  logRaced    \* history: subjects two requests were judged for at once

logVars == <<actionLog, logCall, logClock, logRaced>>

Inspections == {"REQUEST_INSPECTION", "INSPECTION_COMPLETE"}
ActionType == {"ACKNOWLEDGE", "ESCALATE", "ASSIGN", "NOTE"} \union Inspections
TargetRequired == {"ESCALATE", "ASSIGN"}
TargetOptional == {"REQUEST_INSPECTION"}
NotesRequired == {"ESCALATE", "NOTE"}

(* A row of the log; created_at is the instant at which the use case builds *)
(* the record, after it has read the history.                               *)
Action == [by: LogCalls, subject: Subjects, action: ActionType, createdAt: Nat]

NoCall == [pc |-> "free"]
Request == [pc: {"judged"}, subject: Subjects, action: ActionType]

LogInit ==
  /\ actionLog = {}
  /\ logCall = [c \in LogCalls |-> NoCall]
  /\ logClock = 0
  /\ logRaced = {}

-----------------------------------------------------------------------------
(* Which combinations of subject, action, target and note are meaningful.   *)
Allowed(subject, action, hasTarget, hasNote) ==
  /\ action \in TargetRequired => hasTarget
  /\ hasTarget => action \in TargetRequired \union TargetOptional
  /\ action \in NotesRequired => hasNote
  /\ action \in Inspections => subject \in InspectionSubjects

(* The most recent rows of a subject, as many as one request reads.         *)
History(subject) ==
  LET past == {a \in actionLog : a.subject = subject}
      newer(a) == {b \in past : b.createdAt > a.createdAt}
  IN {a \in past : Cardinality(newer(a)) < MaxActionsRead}

(* The inspection status of a history: a request opens a cycle, and a       *)
(* completion closes one that is open.                                      *)
InspectionStatus(history) ==
  LET of(kind) == {a \in history : a.action = kind}
      answered(r) == \E d \in of("INSPECTION_COMPLETE") : d.createdAt > r.createdAt
      requests == of("REQUEST_INSPECTION")
  IN IF requests = {} THEN "NOT_REQUESTED"
     ELSE IF \A r \in requests : answered(r) THEN "COMPLETED" ELSE "REQUESTED"

(* Mutated form of MakesSense: a second request is accepted.                *)
MakesSenseTwice(action, status) ==
  action = "INSPECTION_COMPLETE" => status = "REQUESTED"

(* What an action may follow.                                               *)
MakesSense(action, status) ==
  /\ action = "INSPECTION_COMPLETE" => status = "REQUESTED"
  /\ action = "REQUEST_INSPECTION" => status # "REQUESTED"

-----------------------------------------------------------------------------
(* The use case validates the request, reads the history and judges the     *)
(* action against it; a refused request leaves no trace.                    *)
Judge(c) ==
  /\ logCall[c] = NoCall
  /\ \A a \in actionLog : a.by # c
  /\ \E subject \in Subjects, action \in ActionType, target, note \in BOOLEAN :
       /\ Allowed(subject, action, target, note)
       /\ MakesSense(action, InspectionStatus(History(subject)))
       /\ logCall' = [logCall EXCEPT ![c] =
                        [pc |-> "judged", subject |-> subject, action |-> action]]
       /\ logRaced' = IF \E d \in LogCalls \ {c} :
                           logCall[d].pc = "judged" /\ logCall[d].subject = subject
                      THEN logRaced \union {subject} ELSE logRaced
  /\ UNCHANGED <<actionLog, logClock>>

(* The record as the use case builds it.                                    *)
Stamped(c) ==
  [by |-> c, subject |-> logCall[c].subject, action |-> logCall[c].action,
   createdAt |-> logClock]

(* The record is stamped and inserted, and the route commits.  Nothing else *)
(* can see the row in between.                                              *)
Record(c) ==
  /\ logCall[c].pc = "judged"
  /\ actionLog' = actionLog \union {Stamped(c)}
  /\ logClock' = logClock + 1
  /\ logCall' = [logCall EXCEPT ![c] = NoCall]
  /\ UNCHANGED logRaced

(* The statement or the commit fails and the session rolls back.            *)
Fail(c) ==
  /\ logCall[c].pc = "judged"
  /\ logCall' = [logCall EXCEPT ![c] = NoCall]
  /\ UNCHANGED <<actionLog, logClock, logRaced>>

LogNext == \E c \in LogCalls : Judge(c) \/ Record(c) \/ Fail(c)

-----------------------------------------------------------------------------
(* The rows and the requests have their types.                              *)
LogTypeOK ==
  /\ \A a \in actionLog : a \in Action /\ a.createdAt < logClock
  /\ logCall \in [LogCalls -> {NoCall} \union Request]
  /\ logRaced \subseteq Subjects

Before(a, b) == a.subject = b.subject /\ a.createdAt < b.createdAt

(* A completed inspection was asked for: whatever requests overlap, every   *)
(* completion in the log follows a request of the same subject, because the *)
(* history it was judged by was committed before it was stamped.            *)
CompletionsHaveRequests ==
  \A d \in actionLog : d.action = "INSPECTION_COMPLETE" =>
    \E r \in actionLog : r.action = "REQUEST_INSPECTION" /\ Before(r, d)

(* Inspection cycles do not nest: unless two requests about the subject     *)
(* were judged at once, or its log is longer than what a request reads, two *)
(* inspection requests of a subject have a completion between them.         *)
InspectionsAlternate ==
  \A r, s \in actionLog :
    /\ r.action = "REQUEST_INSPECTION" /\ s.action = "REQUEST_INSPECTION"
    /\ Before(r, s)
    /\ r.subject \notin logRaced
    /\ Cardinality({a \in actionLog : a.subject = r.subject}) <= MaxActionsRead + 1
    => \E d \in actionLog : d.action = "INSPECTION_COMPLETE"
                            /\ Before(r, d) /\ Before(d, s)

(* Inspections of a subject are asked for, completed, and asked for again.  *)
InspectionsAreOrderly == LogTypeOK /\ CompletionsHaveRequests /\ InspectionsAlternate
=============================================================================
