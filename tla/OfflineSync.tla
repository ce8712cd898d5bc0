----------------------------- MODULE OfflineSync -----------------------------
(***************************************************************************)
(* The field client's offline queue and the report server behind it.       *)
(*                                                                         *)
(* The queue is an IndexedDB shared by the tabs of one signed-in officer:  *)
(* drafts, operations with a state machine, and photos.  Each tab runs     *)
(* sync passes: it lists what is due, uploads photos, marks the operations *)
(* SUBMITTING, sends one batch and applies the answer item by item.  The   *)
(* database is transactional per call; between the calls of a pass the     *)
(* other tabs and the officer change it.                                   *)
(*                                                                         *)
(* The server handles the items of a batch in order inside one             *)
(* transaction: cached result, existing report, insert.  An insert of a    *)
(* key that another transaction has inserted waits for its end.  A request *)
(* whose answer is lost may still be processed, at any later time.         *)
(*                                                                         *)
(* The tabs share one session cookie, whose session may end.  A pass       *)
(* starts only in a tab that has the server's word for who is signed in;   *)
(* a 401 takes it away until the officer signs in again.  Another person   *)
(* who signs in has another queue and is left out.                         *)
(***************************************************************************)
EXTENDS Integers, Sequences, FiniteSets

CONSTANTS
    Id,              \* operation ids, numbered in the order of createdAt
    MaxReports,      \* bound on the ids after which no new report is begun
    Tab,
    Request,         \* batches that can be under way at a time
    None,
    MaxEdit,         \* bound on the versions of a report
    ScanRetryLimit,  \* SCAN_RETRY_LIMIT (4)
    FaultLimit,      \* bound on lost answers, refused batches, failed uploads
    RoutesCommit     \* whether the caller of the use case commits

ASSUME OfflineAssumption ==
    /\ Id \subseteq Nat /\ IsFiniteSet(Id)
    /\ None \notin Id \cup Request \cup Nat
    /\ MaxReports \in Nat
    /\ MaxEdit \in Nat
    /\ ScanRetryLimit \in Nat \ {0}
    /\ FaultLimit \in Nat
    /\ Cardinality(Request) >= Cardinality(Tab) + FaultLimit
    /\ RoutesCommit \in BOOLEAN

OpState == {"QUEUED", "UPLOADING_MEDIA", "SUBMITTING", "SYNCED", "RETRY_WAIT",
            "NEEDS_LOGIN", "NEEDS_REVIEW", "FAILED_WITH_REASON"}

\* Mutated form of Allowed: no transition is refused.
AnyTransition(s) == OpState

\* ALLOWED
Allowed(s) ==
    CASE s = "QUEUED" ->
             {"UPLOADING_MEDIA", "SUBMITTING", "NEEDS_LOGIN", "FAILED_WITH_REASON"}
      [] s = "UPLOADING_MEDIA" ->
             {"SUBMITTING", "RETRY_WAIT", "NEEDS_LOGIN", "FAILED_WITH_REASON", "QUEUED"}
      [] s = "SUBMITTING" ->
             {"SYNCED", "RETRY_WAIT", "NEEDS_LOGIN", "NEEDS_REVIEW",
              "FAILED_WITH_REASON", "QUEUED"}
      [] s = "RETRY_WAIT" ->
             {"QUEUED", "UPLOADING_MEDIA", "SUBMITTING", "NEEDS_LOGIN",
              "FAILED_WITH_REASON"}
      [] s \in {"NEEDS_LOGIN", "NEEDS_REVIEW"} -> {"QUEUED", "FAILED_WITH_REASON"}
      [] s = "FAILED_WITH_REASON" -> {"QUEUED"}
      [] OTHER -> {}

Content == 0 .. MaxEdit
Op == [state: OpState, content: Content, textOnly: BOOLEAN,
       attempts: 0 .. ScanRetryLimit]
\* local_media: of draft (draftId) or operation (operationId) of this id, and
\* whether it has a serverMediaId.
Photo == [of: Id, queued: BOOLEAN, uploaded: BOOLEAN]
Item == [content: Content, photo: BOOLEAN, attempts: 0 .. ScanRetryLimit]
Report == [content: Content, photo: BOOLEAN]

\* What classifyFailure makes of the failure of a whole call.
CallFailure == {"RETRY_WAIT", "NEEDS_LOGIN", "FAILED_WITH_REASON"}
\* What the server says of an item.
Verdict == {"stored", "conflict", "rejected", "scan"}

ASSUME NoneIsNoRow == None \notin Op \cup Photo \cup Item \cup Report \cup Verdict \cup CallFailure

VARIABLES
    used,      \* operation ids given out
    drafts,    \* content of each draft
    ops,       \* operations
    photos,    \* photo taken for each report, by the id it was first added to
    delayed,   \* operations whose nextAttemptAt lies ahead
    autosave,  \* content the report wizard has still to save as a draft
    pc,        \* progress of each tab
    resume,    \* NEEDS_LOGIN operations a pass has still to queue again
    due,       \* operations it has still to prepare, as listed
    pending,   \* photos of the current one it uploads, as listed
    ready,     \* items it sends
    request,   \* the batch it waits for
    answer,    \* the answer it applies
    stage,     \* progress of each batch on the server
    todo,      \* items the server has still to handle
    drafted,   \* reports inserted, not committed
    verdicts,  \* answer so far
    reports,   \* committed reports of each operation id
    results,   \* ids with a committed sync_results row
    faults,
    touched,   \* history: ids on which the officer intervened
    signedIn,  \* whether the session of the cookie lives on the server
    login,     \* what each tab knows of it
    stale      \* batches sent with the cookie of a session that has ended

queue   == <<used, drafts, ops, photos, delayed, autosave>>
session == <<resume, due, pending, ready, request, answer>>
server  == <<stage, todo, drafted, verdicts>>
tables  == <<reports, results>>
access  == <<signedIn, login, stale>>
vars    == <<queue, pc, session, server, tables, faults, touched, access>>

-----------------------------------------------------------------------------
Nothing == [i \in Id |-> None]
Present(f) == {i \in Id : f[i] # None}
First(s) == CHOOSE i \in s : \A j \in s : i <= j

Init ==
    /\ used = {}
    /\ drafts = Nothing
    /\ ops = Nothing
    /\ photos = Nothing
    /\ delayed = {}
    /\ autosave = Nothing
    /\ pc = [t \in Tab |-> "idle"]
    /\ resume = [t \in Tab |-> {}]
    /\ due = [t \in Tab |-> Nothing]
    /\ pending = [t \in Tab |-> {}]
    /\ ready = [t \in Tab |-> Nothing]
    /\ request = [t \in Tab |-> None]
    /\ answer = [t \in Tab |-> Nothing]
    /\ stage = [r \in Request |-> "free"]
    /\ todo = [r \in Request |-> Nothing]
    /\ drafted = [r \in Request |-> Nothing]
    /\ verdicts = [r \in Request |-> Nothing]
    /\ reports = [i \in Id |-> <<>>]
    /\ results = {}
    /\ faults = 0
    /\ touched = {}
    /\ signedIn = TRUE
    /\ login = [t \in Tab |-> "verified"]
    /\ stale = {}

-----------------------------------------------------------------------------
\* The officer.

PhotosOf(i) == {k \in Present(photos) : photos[k].of = i /\ photos[k].queued}
DraftPhotosOf(i) == {k \in Present(photos) : photos[k].of = i /\ ~ photos[k].queued}

\* A report is begun, with or without a photo.
NewDraft(p) ==
    /\ used # Id
    /\ Cardinality(used) < MaxReports
    /\ LET i == First(Id \ used) IN
         /\ used' = used \cup {i}
         /\ drafts' = [drafts EXCEPT ![i] = 0]
         /\ photos' = IF p THEN [photos EXCEPT ![i] =
                                        [of |-> i, queued |-> FALSE, uploaded |-> FALSE]]
                           ELSE photos
    /\ UNCHANGED <<ops, delayed, autosave, pc, session, server, tables, faults, touched, access>>

EditDraft(i) ==
    /\ drafts[i] # None
    /\ drafts[i] < MaxEdit
    /\ drafts' = [drafts EXCEPT ![i] = @ + 1]
    /\ UNCHANGED <<used, ops, photos, delayed, autosave, pc, session, server, tables,
                   faults, touched, access>>

\* queueDraft puts the operation whatever is there; a change made in the last
\* 400 ms leaves the wizard's autosave timer running.
QueueDraft(i, unsaved) ==
    /\ drafts[i] # None
    /\ ops' = [ops EXCEPT ![i] = [state |-> "QUEUED", content |-> drafts[i],
                                  textOnly |-> FALSE, attempts |-> 0]]
    /\ drafts' = [drafts EXCEPT ![i] = None]
    /\ autosave' = [autosave EXCEPT ![i] = IF unsaved THEN drafts[i] ELSE None]
    /\ photos' = [k \in Id |-> IF k \in DraftPhotosOf(i)
                               THEN [photos[k] EXCEPT !.queued = TRUE] ELSE photos[k]]
    /\ delayed' = delayed \ {i}
    /\ touched' = IF ops[i] # None THEN touched \cup {i} ELSE touched
    /\ UNCHANGED <<used, pc, session, server, tables, faults, access>>

\* ... which then saves the draft again.
Autosave(i) ==
    /\ autosave[i] # None
    /\ drafts' = [drafts EXCEPT ![i] = autosave[i]]
    /\ autosave' = [autosave EXCEPT ![i] = None]
    /\ UNCHANGED <<used, ops, photos, delayed, pc, session, server, tables, faults, touched, access>>

InState(i, states) == ops[i] # None /\ ops[i].state \in states

\* "Send without photos"
SendTextOnly(i) ==
    /\ InState(i, {"RETRY_WAIT", "NEEDS_REVIEW", "FAILED_WITH_REASON"})
    /\ PhotosOf(i) # {}
    /\ ~ ops[i].textOnly
    /\ ops' = [ops EXCEPT ![i] = [@ EXCEPT !.state = "QUEUED", !.textOnly = TRUE,
                                           !.attempts = 0]]
    /\ delayed' = delayed \ {i}
    /\ touched' = touched \cup {i}
    /\ UNCHANGED <<used, drafts, photos, autosave, pc, session, server, tables, faults, access>>

\* "Edit report": a reviewed report gets a fresh id, a rejected one keeps its own.
ReopenAs(i, j) ==
    /\ IF InState(i, {"NEEDS_REVIEW"})
       THEN used # Id /\ j = First(Id \ used)
       ELSE InState(i, {"FAILED_WITH_REASON"}) /\ j = i
    /\ used' = used \cup {j}
    /\ drafts' = [drafts EXCEPT ![j] = ops[i].content]
    /\ photos' = [k \in Id |->
          IF k \in PhotosOf(i)
          THEN [of |-> j, queued |-> FALSE, uploaded |-> photos[k].uploaded /\ j = i]
          ELSE photos[k]]
    /\ ops' = [ops EXCEPT ![i] = None]
    /\ autosave' = [autosave EXCEPT ![i] = None]
    /\ touched' = touched \cup {i, j}
    /\ UNCHANGED <<delayed, pc, session, server, tables, faults, access>>

\* "Yes, discard this unsent report"
DiscardOperation(i) ==
    /\ InState(i, OpState \ {"SYNCED"})
    /\ ops' = [ops EXCEPT ![i] = None]
    /\ photos' = [k \in Id |-> IF k \in PhotosOf(i) THEN None ELSE photos[k]]
    /\ touched' = touched \cup {i}
    /\ UNCHANGED <<used, drafts, delayed, autosave, pc, session, server, tables, faults, access>>

Officer ==
    \/ \E p \in BOOLEAN : NewDraft(p)
    \/ \E i \in Id :
          \/ EditDraft(i)
          \/ \E unsaved \in BOOLEAN : QueueDraft(i, unsaved)
          \/ Autosave(i)
          \/ SendTextOnly(i)
          \/ \E j \in Id : ReopenAs(i, j)
          \/ DiscardOperation(i)

-----------------------------------------------------------------------------
\* A sync pass.

\* updateOperation: does nothing if the operation is gone, throws if the state
\* machine refuses.
Accepts(i, s) == ops[i] # None => s \in Allowed(ops[i].state) \cup {ops[i].state}

Updated(i, s, n) ==
    IF ops[i] = None THEN ops
    ELSE [ops EXCEPT ![i] = [@ EXCEPT !.state = s, !.attempts = n]]

Moved(i, s) == IF ops[i] = None THEN ops ELSE [ops EXCEPT ![i].state = s]

\* Nothing is sent for an identity that is only cached or gone.  A pass with
\* nothing to do changes nothing and is left out.
StartPass(t) ==
    /\ pc[t] = "idle"
    /\ login[t] = "verified"
    /\ \E i \in Id : InState(i, {"QUEUED", "UPLOADING_MEDIA", "SUBMITTING",
                                 "RETRY_WAIT", "NEEDS_LOGIN"})
    /\ resume' = [resume EXCEPT ![t] = {i \in Id : InState(i, {"NEEDS_LOGIN"})}]
    /\ pc' = [pc EXCEPT ![t] = "resuming"]
    /\ UNCHANGED <<queue, due, pending, ready, request, answer, server, tables, faults, touched, access>>

\* "sessions that ended earlier can resume"
Resume(t, i) ==
    /\ pc[t] = "resuming"
    /\ i \in resume[t]
    /\ Accepts(i, "QUEUED")
    /\ ops' = Moved(i, "QUEUED")
    /\ resume' = [resume EXCEPT ![t] = @ \ {i}]
    /\ UNCHANGED <<used, drafts, photos, delayed, autosave, pc, due, pending,
                   ready, request, answer, server, tables, faults, touched, access>>

\* Mutated form of TakeDue: what an interrupted pass left SUBMITTING is not due.
TakeDueQueued(t, force) ==
    /\ pc[t] = "resuming"
    /\ resume[t] = {}
    /\ due' = [due EXCEPT ![t] = [i \in Id |->
          IF \/ InState(i, {"QUEUED", "UPLOADING_MEDIA"})
             \/ InState(i, {"RETRY_WAIT"}) /\ (force \/ i \notin delayed)
          THEN ops[i] ELSE None]]
    /\ pc' = [pc EXCEPT ![t] = "preparing"]
    /\ UNCHANGED <<queue, resume, pending, ready, request, answer, server, tables, faults, touched, access>>

\* The operations that are due; "Sync now" ignores the delays.
TakeDue(t, force) ==
    /\ pc[t] = "resuming"
    /\ resume[t] = {}
    /\ due' = [due EXCEPT ![t] = [i \in Id |->
          IF \/ InState(i, {"QUEUED", "UPLOADING_MEDIA", "SUBMITTING"})
             \/ InState(i, {"RETRY_WAIT"}) /\ (force \/ i \notin delayed)
          THEN ops[i] ELSE None]]
    /\ pc' = [pc EXCEPT ![t] = "preparing"]
    /\ UNCHANGED <<queue, resume, pending, ready, request, answer, server, tables, faults, touched, access>>

Current(t) == First(Present(due[t]))

Pending(t) ==
    IF due[t][Current(t)].textOnly THEN {}
    ELSE {k \in PhotosOf(Current(t)) : ~ photos[k].uploaded}

\* The pass goes on with the record as updated, but with the payload it listed.
Refreshed(t, i) ==
    IF ops[i] = None THEN due[t][i] ELSE [ops'[i] EXCEPT !.content = due[t][i].content]

BeginUpload(t) ==
    /\ pc[t] = "preparing"
    /\ Present(due[t]) # {}
    /\ Pending(t) # {}
    /\ pending' = [pending EXCEPT ![t] = Pending(t)]
    /\ LET i == Current(t) IN
         /\ Accepts(i, "UPLOADING_MEDIA")
         /\ ops' = Moved(i, "UPLOADING_MEDIA")
         /\ due' = [due EXCEPT ![t][i] = Refreshed(t, i)]
    /\ pc' = [pc EXCEPT ![t] = "uploading"]
    /\ UNCHANGED <<used, drafts, photos, delayed, autosave, resume, ready, request,
                   answer, server, tables, faults, touched, access>>

\* Ticket, upload, confirmation; the record is put back as it was listed.
Upload(t) ==
    /\ pc[t] = "uploading"
    /\ signedIn
    /\ photos' = [k \in Id |-> IF k \in pending[t]
                               THEN [of |-> Current(t), queued |-> TRUE, uploaded |-> TRUE]
                               ELSE photos[k]]
    /\ pending' = [pending EXCEPT ![t] = {}]
    /\ pc' = [pc EXCEPT ![t] = "uploaded"]
    /\ UNCHANGED <<used, drafts, ops, delayed, autosave, resume, due, ready, request,
                   answer, server, tables, faults, touched, access>>

\* SUBMITTING, and the item built: confirmed photos only.
Mark(t) ==
    /\ \/ pc[t] = "preparing" /\ Present(due[t]) # {} /\ Pending(t) = {}
       \/ pc[t] = "uploaded"
    /\ LET i == Current(t) IN
         /\ Accepts(i, "SUBMITTING")
         /\ ops' = Moved(i, "SUBMITTING")
         /\ ready' = [ready EXCEPT ![t][i] =
               [content  |-> due[t][i].content,
                photo    |-> /\ ~ Refreshed(t, i).textOnly
                             /\ \E k \in PhotosOf(i) : photos[k].uploaded,
                attempts |-> Refreshed(t, i).attempts]]
         /\ due' = [due EXCEPT ![t][i] = None]
    /\ pc' = [pc EXCEPT ![t] = "preparing"]
    /\ UNCHANGED <<used, drafts, photos, delayed, autosave, resume, pending, request,
                   answer, server, tables, faults, touched, access>>

\* One batch with all that is ready.
Send(t) ==
    /\ pc[t] = "preparing"
    /\ Present(due[t]) = {}
    /\ Present(ready[t]) # {}
    /\ \E r \in Request :
         /\ stage[r] = "free"
         /\ stage' = [stage EXCEPT ![r] = "sent"]
         /\ todo' = [todo EXCEPT ![r] = ready[t]]
         /\ request' = [request EXCEPT ![t] = r]
         /\ stale' = IF signedIn THEN stale \ {r} ELSE stale \cup {r}
    /\ pc' = [pc EXCEPT ![t] = "waiting"]
    /\ UNCHANGED <<queue, resume, due, pending, ready, answer, drafted, verdicts,
                   tables, faults, touched, signedIn, login>>

\* A batch leaves the server: its slot is free again.
Freed(r) ==
    /\ stage' = [stage EXCEPT ![r] = "free"]
    /\ todo' = [todo EXCEPT ![r] = Nothing]
    /\ drafted' = [drafted EXCEPT ![r] = Nothing]
    /\ verdicts' = [verdicts EXCEPT ![r] = Nothing]

Receive(t) ==
    /\ pc[t] = "waiting"
    /\ stage[request[t]] = "answered"
    /\ answer' = [answer EXCEPT ![t] = verdicts[request[t]]]
    /\ request' = [request EXCEPT ![t] = None]
    /\ pc' = [pc EXCEPT ![t] = "applying"]
    /\ Freed(request[t])
    /\ UNCHANGED <<queue, resume, due, pending, ready, tables, faults, touched, access>>

\* Mutated form of Outcome: the answer of one item decides for all.
OutcomeOfBatch(t, i) == "SYNCED"

\* The state an item's answer leads to; a photo that the scan has not cleared is
\* retried SCAN_RETRY_LIMIT times.
Outcome(t, i) ==
    CASE answer[t][i] = "stored"   -> "SYNCED"
      [] answer[t][i] = "conflict" -> "NEEDS_REVIEW"
      [] answer[t][i] = "rejected" -> "FAILED_WITH_REASON"
      [] answer[t][i] = "scan"     ->
             IF ready[t][i].attempts + 1 >= ScanRetryLimit THEN "NEEDS_REVIEW"
                                                           ELSE "RETRY_WAIT"
      [] OTHER -> answer[t][i]

\* Attempts are counted up to the limit that matters.
OneMore(n) == IF n < ScanRetryLimit THEN n + 1 ELSE n

\* record(): the operation's state, attempts (of the record the pass holds), delay.
Record(i, s, attempts) ==
    /\ Accepts(i, s)
    /\ ops' = Updated(i, s, OneMore(attempts))
    /\ delayed' = IF ops[i] # None /\ s = "RETRY_WAIT" THEN delayed \cup {i}
                  ELSE delayed \ {i}

Apply(t) ==
    /\ pc[t] = "applying"
    /\ Present(ready[t]) # {}
    /\ LET i == First(Present(ready[t])) IN
         /\ IF Outcome(t, i) = "SYNCED"
            THEN /\ Accepts(i, "SYNCED")
                 /\ ops' = Moved(i, "SYNCED")
                 /\ delayed' = delayed \ {i}
            ELSE Record(i, Outcome(t, i), ready[t][i].attempts)
         /\ ready' = [ready EXCEPT ![t][i] = None]
         /\ answer' = [answer EXCEPT ![t][i] = None]
    /\ UNCHANGED <<used, drafts, photos, autosave, pc, resume, due, pending,
                   request, server, tables, faults, touched, access>>

EndPass(t) ==
    /\ \/ pc[t] = "preparing" /\ Present(due[t]) = {} /\ Present(ready[t]) = {}
       \/ pc[t] = "applying" /\ Present(ready[t]) = {}
    /\ pc' = [pc EXCEPT ![t] = "idle"]
    /\ UNCHANGED <<queue, session, server, tables, faults, touched, access>>

\* The state machine refuses the update the pass is about to make.
Refused(t) ==
    \/ /\ pc[t] = "resuming"
       /\ \E i \in resume[t] : ~ Accepts(i, "QUEUED")
    \/ /\ pc[t] = "preparing" /\ Present(due[t]) # {}
       /\ ~ Accepts(Current(t), IF Pending(t) = {} THEN "SUBMITTING" ELSE "UPLOADING_MEDIA")
    \/ pc[t] = "uploaded" /\ ~ Accepts(Current(t), "SUBMITTING")
    \/ /\ pc[t] = "applying" /\ Present(ready[t]) # {}
       /\ LET i == First(Present(ready[t])) IN ~ Accepts(i, Outcome(t, i))

\* What a pass holds in memory is gone.
Forget(t) ==
    /\ pc' = [pc EXCEPT ![t] = "idle"]
    /\ resume' = [resume EXCEPT ![t] = {}]
    /\ due' = [due EXCEPT ![t] = Nothing]
    /\ pending' = [pending EXCEPT ![t] = {}]
    /\ ready' = [ready EXCEPT ![t] = Nothing]
    /\ request' = [request EXCEPT ![t] = None]
    /\ answer' = [answer EXCEPT ![t] = Nothing]

\* ... it throws, and the exception ends the pass.
Throw(t) ==
    /\ Refused(t)
    /\ Forget(t)
    /\ UNCHANGED <<queue, server, tables, faults, touched, access>>

-----------------------------------------------------------------------------
\* Calls that fail, and the session.

\* A photo is not uploaded.
UploadFails(t, s) ==
    /\ pc[t] = "uploading"
    /\ LET i == Current(t) IN
       IF Accepts(i, s)
       THEN /\ Record(i, s, due[t][i].attempts)
            /\ due' = [due EXCEPT ![t][i] = None]
            /\ pending' = [pending EXCEPT ![t] = {}]
            /\ pc' = [pc EXCEPT ![t] = "preparing"]
            /\ UNCHANGED <<resume, ready, request, answer>>
       ELSE Forget(t) /\ UNCHANGED <<ops, delayed>>
    /\ UNCHANGED <<used, drafts, photos, autosave, server, tables, touched>>

\* Nothing of the batch is handled.
BatchFails(t, s) ==
    /\ pc[t] = "waiting"
    /\ stage[request[t]] = "sent"
    /\ answer' = [answer EXCEPT ![t] =
          [i \in Id |-> IF ready[t][i] = None THEN None ELSE s]]
    /\ request' = [request EXCEPT ![t] = None]
    /\ pc' = [pc EXCEPT ![t] = "applying"]
    /\ Freed(request[t])
    /\ UNCHANGED <<queue, resume, due, pending, ready, tables, touched>>

\* The session-expired event of a 401: what the tab knew is dropped and asked again.
Expire(t) ==
    /\ login' = [login EXCEPT ![t] = "unsure"]
    /\ UNCHANGED <<signedIn, stale>>

\* 401 for the ticket of a photo, or for the batch.
Unauthenticated(t) ==
    \/ ~ signedIn /\ UploadFails(t, "NEEDS_LOGIN") /\ Expire(t) /\ UNCHANGED faults
    \/ /\ request[t] \in stale
       /\ BatchFails(t, "NEEDS_LOGIN")
       /\ Expire(t)
       /\ UNCHANGED faults

\* /me answers, at once after a 401, every 15 s while the identity is a cached one.
CheckSession(t) ==
    /\ login[t] = "unsure"
    /\ login' = [login EXCEPT ![t] = IF signedIn THEN "verified" ELSE "expired"]
    /\ UNCHANGED <<queue, pc, session, server, tables, faults, touched, signedIn, stale>>

\* The officer signs in, or comes back to this tab having signed in in another.
SignIn(t) ==
    /\ login[t] = "expired"
    /\ login' = [login EXCEPT ![t] = "verified"]
    /\ signedIn' = TRUE
    /\ UNCHANGED <<queue, pc, session, server, tables, faults, touched, stale>>

-----------------------------------------------------------------------------
\* Faults: each is counted.

Fault == /\ faults < FaultLimit
         /\ faults' = faults + 1

\* No answer, a refusal, or one by the store of the photos.
FailUpload(t, s) ==
    /\ Fault
    /\ UploadFails(t, s)
    /\ UNCHANGED access

\* No answer or a 5xx: the batch may be handled later, or not at all.
LoseAnswer(t) ==
    /\ pc[t] = "waiting"
    /\ Fault
    /\ answer' = [answer EXCEPT ![t] =
          [i \in Id |-> IF ready[t][i] = None THEN None ELSE "RETRY_WAIT"]]
    /\ request' = [request EXCEPT ![t] = None]
    /\ pc' = [pc EXCEPT ![t] = "applying"]
    /\ UNCHANGED <<queue, resume, due, pending, ready, server, tables, touched, access>>

\* 403
RefuseBatch(t) ==
    /\ Fault
    /\ BatchFails(t, "FAILED_WITH_REASON")
    /\ UNCHANGED access

\* The tab is closed, and opened again.
CloseTab(t) ==
    /\ pc[t] # "idle"
    /\ Fault
    /\ Forget(t)
    /\ Expire(t)
    /\ UNCHANGED <<queue, server, tables, touched>>

\* /me is not answered: the tab goes on with the identity it has cached.
LoseContact(t) ==
    /\ login[t] = "verified"
    /\ Fault
    /\ Expire(t)
    /\ UNCHANGED <<queue, pc, session, server, tables, touched>>

\* The session ends; batches the server has not begun will be refused.
EndSession ==
    /\ signedIn
    /\ Fault
    /\ signedIn' = FALSE
    /\ stale' = stale \cup {r \in Request : stage[r] = "sent" /\ verdicts[r] = Nothing}
    /\ UNCHANGED <<queue, pc, session, server, tables, touched, login>>

-----------------------------------------------------------------------------
\* The server.

Awaited(r) == \E t \in Tab : request[t] = r

\* Nobody waits for the batch any more; it does not arrive, or the server fails.
Vanish(r) ==
    /\ stage[r] # "free"
    /\ ~ Awaited(r)
    /\ Freed(r)
    /\ UNCHANGED <<queue, pc, session, tables, faults, touched, access>>

Handling(r) == First(Present(todo[r]))

Answered(r, i, v) ==
    /\ verdicts' = [verdicts EXCEPT ![r][i] = v]
    /\ todo' = [todo EXCEPT ![r][i] = None]
    /\ stage' = [stage EXCEPT ![r] = "sent"]

\* get_sync_result
Cached(i) == i \in results

\* An answer given before is given again, whatever the payload.
Lookup(r) ==
    /\ stage[r] = "sent"
    /\ r \notin stale
    /\ Present(todo[r]) # {}
    /\ IF Cached(Handling(r))
       THEN Answered(r, Handling(r), "stored")
       ELSE stage' = [stage EXCEPT ![r] = "uncached"] /\ UNCHANGED <<todo, verdicts>>
    /\ UNCHANGED <<queue, pc, session, drafted, tables, faults, touched, access>>

\* find_by_client_operation_id
Reported(i) == reports[i] # <<>>

\* The same id with different data is a conflict.
Find(r) ==
    /\ stage[r] = "uncached"
    /\ LET i == Handling(r) IN
       IF Reported(i) /\ reports[i][1].content # todo[r][i].content
       THEN Answered(r, i, "conflict")
       ELSE /\ stage' = [stage EXCEPT ![r] = IF Reported(i) THEN "known" ELSE "new"]
            /\ UNCHANGED <<todo, verdicts>>
    /\ UNCHANGED <<queue, pc, session, drafted, tables, faults, touched, access>>

\* An invalid item, or a photo the scan refused.
RefuseItem(r, v) ==
    /\ stage[r] = "new"
    /\ LET i == Handling(r) IN
         /\ v = "rejected" \/ (v = "scan" /\ todo[r][i].photo)
         /\ Answered(r, i, v)
    /\ UNCHANGED <<queue, pc, session, drafted, tables, faults, touched, access>>

\* The row of a report and its link to the photo.
Inserted(item) == [content |-> item.content, photo |-> item.photo]

\* Mutated form of Insert: the unique keys are missing.
InsertAnyway(r) ==
    /\ stage[r] \in {"new", "known"}
    /\ LET i == Handling(r) IN
         /\ Answered(r, i, "stored")
         /\ drafted' = [drafted EXCEPT ![r][i] = Inserted(todo[r][i])]
    /\ UNCHANGED <<queue, pc, session, tables, faults, touched, access>>

\* Report and sync result are inserted; the unique keys make the insert wait for
\* a transaction that has inserted the same id, and fail when it commits.
Insert(r) ==
    /\ stage[r] \in {"new", "known"}
    /\ LET i == Handling(r) IN
         /\ \A q \in Request \ {r} : drafted[q][i] = None
         /\ IF Cached(i)
            THEN Answered(r, i, "rejected") /\ UNCHANGED drafted
            ELSE /\ Answered(r, i, "stored")
                 /\ drafted' = [drafted EXCEPT ![r][i] = Inserted(todo[r][i])]
    /\ UNCHANGED <<queue, pc, session, tables, faults, touched, access>>

\* The end of the request: commit or, without one, rollback.
Finish(r) ==
    /\ stage[r] = "sent"
    /\ Present(todo[r]) = {}
    /\ stage' = [stage EXCEPT ![r] = "answered"]
    /\ drafted' = [drafted EXCEPT ![r] = Nothing]
    /\ IF RoutesCommit
       THEN /\ reports' = [i \in Id |-> IF drafted[r][i] = None THEN reports[i]
                                        ELSE Append(reports[i], drafted[r][i])]
            /\ results' = results \cup Present(drafted[r])
       ELSE UNCHANGED tables
    /\ UNCHANGED <<queue, pc, session, todo, verdicts, faults, touched, access>>

\* Nobody waits for the answer.
Drop(r) ==
    /\ stage[r] = "answered"
    /\ ~ Awaited(r)
    /\ Freed(r)
    /\ UNCHANGED <<queue, pc, session, tables, faults, touched, access>>

-----------------------------------------------------------------------------
\* nextAttemptAt passes.
BackoffElapses(i) ==
    /\ i \in delayed
    /\ delayed' = delayed \ {i}
    /\ UNCHANGED <<used, drafts, ops, photos, autosave, pc, session, server, tables,
                   faults, touched, access>>

Pass(t) ==
    \/ StartPass(t)
    \/ \E i \in Id : Resume(t, i)
    \/ \E force \in BOOLEAN : TakeDue(t, force)
    \/ BeginUpload(t) \/ Upload(t) \/ Mark(t)
    \/ Send(t) \/ Receive(t) \/ Apply(t) \/ EndPass(t) \/ Throw(t)

Serve(r) ==
    \/ Lookup(r) \/ Find(r) \/ Insert(r) \/ Finish(r) \/ Drop(r)
    \/ \E v \in {"rejected", "scan"} : RefuseItem(r, v)

Trouble ==
    \/ \E t \in Tab :
          \/ \E s \in CallFailure : FailUpload(t, s)
          \/ RefuseBatch(t) \/ LoseAnswer(t) \/ CloseTab(t) \/ LoseContact(t)
    \/ EndSession
    \/ \E r \in Request : Vanish(r)

\* Nothing is under way and the officer does nothing.
Rest ==
    /\ \A t \in Tab : pc[t] = "idle"
    /\ UNCHANGED vars

Next ==
    \/ Officer
    \/ \E t \in Tab : Pass(t) \/ Unauthenticated(t) \/ CheckSession(t) \/ SignIn(t)
    \/ \E r \in Request : Serve(r)
    \/ \E i \in Id : BackoffElapses(i)
    \/ Trouble
    \/ Rest

Spec == Init /\ [][Next]_vars

\* Timers start passes every 15 s in a tab that is signed in, and a pass takes its
\* steps or is refused; a tab that is unsure asks again; the server handles what has
\* arrived; time passes.  The officer need not do anything: neither edit, nor sign
\* in after the session has ended.
FairSpec ==
    /\ Spec
    /\ \A t \in Tab : WF_vars(Pass(t) \/ Unauthenticated(t)) /\ WF_vars(CheckSession(t))
    /\ \A r \in Request : WF_vars(Serve(r))
    /\ \A i \in Id : WF_vars(BackoffElapses(i))

-----------------------------------------------------------------------------
TypeOK ==
    /\ used \subseteq Id
    /\ drafts \in [Id -> Content \cup {None}]
    /\ ops \in [Id -> Op \cup {None}]
    /\ photos \in [Id -> Photo \cup {None}]
    /\ delayed \subseteq Id
    /\ autosave \in [Id -> Content \cup {None}]
    /\ pc \in [Tab -> {"idle", "resuming", "preparing", "uploading", "uploaded",
                       "waiting", "applying"}]
    /\ resume \in [Tab -> SUBSET Id]
    /\ due \in [Tab -> [Id -> Op \cup {None}]]
    /\ pending \in [Tab -> SUBSET Id]
    /\ ready \in [Tab -> [Id -> Item \cup {None}]]
    /\ request \in [Tab -> Request \cup {None}]
    /\ answer \in [Tab -> [Id -> Verdict \cup CallFailure \cup {None}]]
    /\ stage \in [Request -> {"free", "sent", "uncached", "new", "known", "answered"}]
    /\ todo \in [Request -> [Id -> Item \cup {None}]]
    /\ drafted \in [Request -> [Id -> Report \cup {None}]]
    /\ verdicts \in [Request -> [Id -> Verdict \cup {None}]]
    /\ reports \in [Id -> Seq(Report)]
    /\ results \subseteq Id
    /\ faults \in 0 .. FaultLimit
    /\ touched \subseteq Id
    /\ signedIn \in BOOLEAN
    /\ login \in [Tab -> {"verified", "unsure", "expired"}]
    /\ stale \subseteq Request

\* However batches are lost, repeated, late or sent by two tabs at once, the
\* server keeps one report for an operation id.
OneReportPerOperation == \A i \in Id : Len(reports[i]) <= 1

\* SYNCED is shown for a report only when the server has committed exactly this
\* report, as long as the officer has not intervened.
SyncedIsStored ==
    \A i \in Id \ touched :
        InState(i, {"SYNCED"}) => /\ reports[i] # <<>>
                                  /\ reports[i][1].content = ops[i].content

\* "only fully confirmed uploads are attached": a report taken with a photo is
\* not stored without it, unless the officer chose so or withdrew it.
PhotoIsAttached ==
    \A i \in Id \ touched :
        PhotosOf(i) # {} /\ reports[i] # <<>> => reports[i][1].photo

\* No late answer of one tab takes back what another tab recorded as SYNCED.
SyncedIsFinal ==
    [][\A i \in Id \ touched' :
          InState(i, {"SYNCED"}) => ops'[i] # None /\ ops'[i].state = "SYNCED"]_vars

\* Retries never look like a conflict to the server: an operation the officer did
\* not touch needs review only for a photo that the scan does not clear.
RetriesDoNotConflict ==
    \A i \in Id \ touched :
        InState(i, {"NEEDS_REVIEW"}) =>
            ops[i].attempts = ScanRetryLimit /\ PhotosOf(i) # {}

Queued(i)  == InState(i, {"QUEUED", "UPLOADING_MEDIA", "SUBMITTING", "RETRY_WAIT",
                          "NEEDS_LOGIN"})
Settled(i) == ops[i] = None \/ InState(i, {"SYNCED", "NEEDS_REVIEW", "FAILED_WITH_REASON"})

\* Once the officer leaves the reports alone, none stays in the queue while there
\* is a session: it is synced, or a person has to decide about it.  After the
\* session has ended they wait, and go on when the officer signs in.
EverySubmissionSettles ==
    <>[][~ Officer]_vars => \A i \in Id : Queued(i) ~> (Settled(i) \/ ~ signedIn)

\* A report is stored once and whole: one row for an operation, with its photo,
\* however often it is sent, and the officer is not told of a conflict with it.
ReportsAreSound == TypeOK /\ OneReportPerOperation /\ PhotoIsAttached /\ RetriesDoNotConflict
=============================================================================
