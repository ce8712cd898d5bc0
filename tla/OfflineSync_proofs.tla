------------------------- MODULE OfflineSync_proofs -------------------------
(***************************************************************************)
(* Proofs about OfflineSync for any operation ids, tabs, batches, edits,   *)
(* retries and faults.                                                     *)
(*                                                                         *)
(* The inductive invariant IInv says that whatever the passes and the      *)
(* server hold about an operation on which the officer has not intervened  *)
(* agrees with its record in the queue: its content, and whether it has a  *)
(* photo.  What each pass and each batch knows follows its progress.       *)
(***************************************************************************)
EXTENDS OfflineSync, WellFoundedInduction, TLAPS

\* x is about an operation still in the queue, with its content, ...
UnderWay(i, x) == i \notin touched => ops[i] # None /\ x.content = ops[i].content

\* ... and says whether it has a photo.
Whole(i, x) == UnderWay(i, x) /\ (i \notin touched => (x.photo <=> PhotosOf(i) # {}))

\* A photo is of a report begun, and photos are dropped only by the officer.
QueueInv ==
    /\ \A k \in Id : photos[k] # None => k \in used
    /\ \A i \in Id \ touched : ops[i] # None => ~ ops[i].textOnly

\* A pass works on what is due, in order, and waits for a batch of its own with
\* the items it has ready.
PassOf(t) ==
    /\ pc[t] \in {"uploading", "uploaded"} => Present(due[t]) # {}
    /\ pc[t] = "waiting" <=> request[t] # None
    /\ request[t] # None =>
          /\ stage[request[t]] # "free"
          /\ \A u \in Tab \ {t} : request[u] # request[t]
          /\ \A i \in Id : ready[t][i] # None
                           => todo[request[t]][i] # None \/ verdicts[request[t]][i] # None
    /\ pc[t] = "applying" => \A i \in Id : ready[t][i] # None => answer[t][i] # None

PassInv == \A t \in Tab : PassOf(t)

\* What a pass has listed and what it has ready agree with the queue.
Listed(i, x) == UnderWay(i, x) /\ (i \notin touched => ~ x.textOnly)

ListedInv ==
    \A t \in Tab, i \in Id :
        /\ due[t][i] # None => Listed(i, due[t][i])
        /\ ready[t][i] # None => Whole(i, ready[t][i])

\* The photos of the operation a pass prepares are uploaded, but for those pending.
PendingOf(t) ==
    /\ \A k \in pending[t] :
          /\ k \in used
          /\ photos[k] # None => photos[k].of \in {Current(t)} \cup touched
          /\ Current(t) \notin touched => k \in PhotosOf(Current(t))
    /\ Current(t) \notin touched =>
          \A k \in PhotosOf(Current(t)) \ pending[t] : photos[k].uploaded

UploadedBy(t) ==
    Current(t) \notin touched => \A k \in PhotosOf(Current(t)) : photos[k].uploaded

UploadInv ==
    \A t \in Tab : /\ pc[t] = "uploading" => PendingOf(t)
                   /\ pc[t] = "uploaded" => UploadedBy(t)

\* What the server may say of an operation the officer left alone.
Fair(i, verdict) ==
    verdict # None /\ i \notin touched =>
        /\ ops[i] # None
        /\ verdict # "conflict"
        /\ verdict = "scan" => PhotosOf(i) # {}

\* A batch has items to handle until it is answered, ...
Progress(r) ==
    /\ stage[r] \in {"uncached", "new", "known"} => Present(todo[r]) # {}
    /\ stage[r] \in {"free", "answered"} => Present(todo[r]) = {}
    /\ stage[r] = "free" => Present(verdicts[r]) = {}
    /\ stage[r] \in {"free", "answered"} => Present(drafted[r]) = {}

\* ... at most one batch may commit a report of an id, and answers are true of the
\* queue and of what the batch has stored.
Row(r, i) ==
    /\ todo[r][i] # None => Whole(i, todo[r][i])
    /\ drafted[r][i] # None =>
          /\ Whole(i, drafted[r][i])
          /\ i \notin results
          /\ \A q \in Request \ {r} : drafted[q][i] = None
    /\ Fair(i, verdicts[r][i])
    /\ RoutesCommit /\ verdicts[r][i] = "stored" => drafted[r][i] # None \/ i \in results

BatchInv == \A r \in Request : Progress(r) /\ \A i \in Id : Row(r, i)

AnswerInv ==
    \A t \in Tab, i \in Id :
        /\ Fair(i, answer[t][i])
        /\ RoutesCommit /\ answer[t][i] = "stored" => i \in results

\* An id has a result when it has its report, which agrees with the queue, ...
StoredOf(i) ==
    /\ i \in results <=> reports[i] # <<>>
    /\ Len(reports[i]) <= 1
    /\ reports[i] # <<>> => Whole(i, reports[i][1])

TablesInv == \A i \in Id : StoredOf(i)

\* ... and what is SYNCED has one, if the routes commit.
SyncedInv ==
    RoutesCommit => \A i \in Id \ touched : InState(i, {"SYNCED"}) => i \in results

IInv ==
    /\ TypeOK
    /\ QueueInv
    /\ PassInv
    /\ ListedInv
    /\ UploadInv
    /\ BatchInv
    /\ AnswerInv
    /\ TablesInv
    /\ SyncedInv
    /\ RetriesDoNotConflict

-----------------------------------------------------------------------------
\* Of a set of numbers one is the least.
LEMMA LeastNumber ==
    ASSUME NEW S \in SUBSET Nat, S # {}
    PROVE  \E n \in S : \A m \in S : n <= m
<1> DEFINE less == OpToRel(<, Nat)
<1>1. IsWellFoundedOn(less, Nat)
  BY NatLessThanWellFounded
<1>2. PICK n \in S : \A m \in S : <<m, n>> \notin less
  <2> HIDE DEF less
  <2> QED
    BY <1>1, WFMin
<1>3. \A m \in S : ~ (m < n)
  BY <1>2 DEF OpToRel
<1> QED
  BY <1>3

\* The first of some ids is one of them.
LEMMA FirstIn ==
    ASSUME NEW s \in SUBSET Id, s # {}
    PROVE  First(s) \in s
<1>1. \E i \in s : \A j \in s : i <= j
  BY LeastNumber, OfflineAssumption
<1> QED
  BY <1>1 DEF First

\* The operation a pass prepares next is due, ...
LEMMA CurrentIsDue ==
    ASSUME NEW t \in Tab, Present(due[t]) # {}
    PROVE  Current(t) \in Id /\ due[t][Current(t)] # None
<1>1. Present(due[t]) \in SUBSET Id
  BY DEF Present
<1>2. Current(t) \in Present(due[t])
  BY <1>1, FirstIn DEF Current
<1> QED
  BY <1>2 DEF Present

\* ... the one whose answer it applies next was sent, ...
LEMMA FirstIsReady ==
    ASSUME NEW t \in Tab, Present(ready[t]) # {}
    PROVE  First(Present(ready[t])) \in Id /\ ready[t][First(Present(ready[t]))] # None
<1>1. Present(ready[t]) \in SUBSET Id
  BY DEF Present
<1>2. First(Present(ready[t])) \in Present(ready[t])
  BY <1>1, FirstIn
<1> QED
  BY <1>2 DEF Present

\* ... and the item the server handles next is in its batch.
LEMMA HandlingIsToDo ==
    ASSUME NEW r \in Request, Present(todo[r]) # {}
    PROVE  Handling(r) \in Id /\ todo[r][Handling(r)] # None
<1>1. Present(todo[r]) \in SUBSET Id
  BY DEF Present
<1>2. Handling(r) \in Present(todo[r])
  BY <1>1, FirstIn DEF Handling
<1> QED
  BY <1>2 DEF Present

\* None is no row, and no answer.
LEMMA NoneIsNothing ==
    /\ None \notin Op /\ None \notin Photo /\ None \notin Item /\ None \notin Report
    /\ None \notin Verdict /\ None \notin CallFailure /\ None \notin Request
    /\ None \notin Nat /\ None \notin Content
    /\ Id \subseteq Nat /\ ScanRetryLimit \in Nat \ {0} /\ MaxEdit \in Nat
  BY NoneIsNoRow, OfflineAssumption DEF Content

\* Attempts are counted up to the limit.
LEMMA OneMoreType ==
    ASSUME NEW n \in 0 .. ScanRetryLimit
    PROVE  /\ OneMore(n) \in 0 .. ScanRetryLimit
           /\ n + 1 >= ScanRetryLimit => OneMore(n) = ScanRetryLimit
  BY NoneIsNothing DEF OneMore

\* What an operation becomes when its state, its attempts or its text is written.
LEMMA OpFields ==
    ASSUME NEW x \in Op
    PROVE  /\ x # None /\ x.state \in OpState /\ x.content \in Content
           /\ x.textOnly \in BOOLEAN /\ x.attempts \in 0 .. ScanRetryLimit
  BY NoneIsNothing DEF Op

\* ... with another state, ...
LEMMA OpWithState ==
    ASSUME NEW x \in Op, NEW s \in OpState
    PROVE  LET y == [x EXCEPT !.state = s] IN
           /\ y \in Op /\ y.state = s /\ y.content = x.content
           /\ y.textOnly = x.textOnly /\ y.attempts = x.attempts
  BY DEF Op

\* ... with other attempts, ...
LEMMA OpWithAttempts ==
    ASSUME NEW x \in Op, NEW n \in 0 .. ScanRetryLimit
    PROVE  LET y == [x EXCEPT !.attempts = n] IN
           /\ y \in Op /\ y.state = x.state /\ y.content = x.content
           /\ y.textOnly = x.textOnly /\ y.attempts = n
  BY DEF Op

\* ... with another text.
LEMMA OpWithContent ==
    ASSUME NEW x \in Op, NEW c \in Content
    PROVE  LET y == [x EXCEPT !.content = c] IN
           /\ y \in Op /\ y.state = x.state /\ y.content = c
           /\ y.textOnly = x.textOnly /\ y.attempts = x.attempts
  BY DEF Op

\* An update by a pass keeps the text of every operation, and the others as they are.
SameText(i, x) == x # None /\ x.content = ops[i].content /\ x.textOnly = ops[i].textOnly

\* What the queue holds after a change of state, ...
LEMMA MovedOps ==
    ASSUME ops \in [Id -> Op \cup {None}], NEW i \in Id, NEW s \in OpState
    PROVE  /\ Moved(i, s) \in [Id -> Op \cup {None}]
           /\ \A j \in Id : j # i => Moved(i, s)[j] = ops[j]
           /\ ops[i] = None => Moved(i, s)[i] = None
           /\ ops[i] # None => /\ SameText(i, Moved(i, s)[i]) /\ Moved(i, s)[i].state = s
                               /\ Moved(i, s)[i].attempts = ops[i].attempts
<1>1. CASE ops[i] = None
  BY <1>1 DEF Moved
<1>2. CASE ops[i] # None
  <2> DEFINE y == [ops[i] EXCEPT !.state = s]
  <2>1. /\ y \in Op /\ y.state = s /\ y.content = ops[i].content
        /\ y.textOnly = ops[i].textOnly /\ y.attempts = ops[i].attempts
    BY <1>2, OpWithState
  <2>2. Moved(i, s) = [ops EXCEPT ![i] = y]
    BY <1>2 DEF Moved
  <2> HIDE DEF y
  <2>3. y # None
    BY <2>1, NoneIsNothing
  <2> QED
    BY <1>2, <2>1, <2>2, <2>3 DEF SameText
<1> QED
  BY <1>1, <1>2

\* ... and after one of state and attempts.
LEMMA UpdatedOps ==
    ASSUME ops \in [Id -> Op \cup {None}], NEW i \in Id, NEW s \in OpState,
           NEW n \in 0 .. ScanRetryLimit
    PROVE  /\ Updated(i, s, n) \in [Id -> Op \cup {None}]
           /\ \A j \in Id : j # i => Updated(i, s, n)[j] = ops[j]
           /\ ops[i] = None => Updated(i, s, n)[i] = None
           /\ ops[i] # None => /\ SameText(i, Updated(i, s, n)[i])
                               /\ Updated(i, s, n)[i].state = s
                               /\ Updated(i, s, n)[i].attempts = n
<1>1. CASE ops[i] = None
  BY <1>1 DEF Updated
<1>2. CASE ops[i] # None
  <2> DEFINE y == [ops[i] EXCEPT !.state = s]
             z == [y EXCEPT !.attempts = n]
  <2>1. /\ y \in Op /\ y.state = s /\ y.content = ops[i].content
        /\ y.textOnly = ops[i].textOnly
    BY <1>2, OpWithState
  <2>2. Updated(i, s, n) = [ops EXCEPT ![i] = z]
    BY <1>2 DEF Updated
  <2> HIDE DEF y
  <2>3. /\ z \in Op /\ z.state = s /\ z.content = ops[i].content
        /\ z.textOnly = ops[i].textOnly /\ z.attempts = n
    BY <2>1, OpWithAttempts
  <2> HIDE DEF z
  <2>4. z # None
    BY <2>3, NoneIsNothing
  <2> QED
    BY <1>2, <2>2, <2>3, <2>4 DEF SameText
<1> QED
  BY <1>1, <1>2

-----------------------------------------------------------------------------
\* A step is the officer's, of one tab, of the server on one batch, or of time.
ClientStep(t) ==
    \/ Pass(t)
    \/ \E s \in CallFailure : UploadFails(t, s) \/ BatchFails(t, s)
    \/ LoseAnswer(t) \/ CloseTab(t)

\* All but the session and the bounds.
offline == <<queue, pc, session, server, tables, touched>>

ServerStep(r) == Serve(r) \/ Vanish(r)

\* Every step is one of these.
LEMMA Steps ==
    ASSUME [Next]_vars
    PROVE  \/ Officer
           \/ \E t \in Tab : ClientStep(t)
           \/ \E r \in Request : ServerStep(r)
           \/ \E i \in Id : BackoffElapses(i)
           \/ UNCHANGED offline
<1>1. ASSUME NEW t \in Tab, Unauthenticated(t)
      PROVE  ClientStep(t)
  BY <1>1 DEF Unauthenticated, ClientStep, CallFailure
<1>2. ASSUME NEW t \in Tab, CheckSession(t) \/ SignIn(t) \/ LoseContact(t) \/ EndSession
      PROVE  UNCHANGED offline
  BY <1>2 DEF CheckSession, SignIn, LoseContact, EndSession, offline
<1>3. ASSUME NEW t \in Tab, RefuseBatch(t) \/ \E s \in CallFailure : FailUpload(t, s)
      PROVE  ClientStep(t)
  BY <1>3 DEF RefuseBatch, FailUpload, ClientStep, CallFailure
<1>4. EndSession => UNCHANGED offline
  BY DEF EndSession, offline
<1>5. Rest \/ UNCHANGED vars => UNCHANGED offline
  BY DEF Rest, vars, offline
<1>6. ASSUME NEW t \in Tab, Pass(t) \/ LoseAnswer(t) \/ CloseTab(t)
      PROVE  ClientStep(t)
  BY <1>6 DEF ClientStep
<1>7. ASSUME NEW r \in Request, Serve(r) \/ Vanish(r)
      PROVE  ServerStep(r)
  BY <1>7 DEF ServerStep
<1> QED
  BY <1>1, <1>2, <1>3, <1>4, <1>5, <1>6, <1>7 DEF Next, Trouble

\* What the officer, the server and the clock leave alone.
LEMMA OfficerFrame == Officer => UNCHANGED <<pc, session, server, tables>>
  BY DEF Officer, NewDraft, EditDraft, QueueDraft, Autosave, SendTextOnly, ReopenAs,
         DiscardOperation

\* The server changes nothing on the device, ...
LEMMA ServerFrame ==
    ASSUME NEW r \in Request, ServerStep(r)
    PROVE  UNCHANGED <<queue, pc, session, touched>>
  BY DEF ServerStep, Serve, Lookup, Find, Insert, Finish, Drop, RefuseItem, Vanish

\* ... and time only the delays.
LEMMA BackoffFrame ==
    ASSUME NEW i \in Id, BackoffElapses(i)
    PROVE  UNCHANGED <<used, drafts, ops, photos, autosave, pc, session, server, tables, touched>>
  BY DEF BackoffElapses

\* A step of a tab leaves the tables, the drafts and the other tabs alone, ...
LEMMA ClientFrame ==
    ASSUME NEW t \in Tab, ClientStep(t)
    PROVE  UNCHANGED <<used, drafts, autosave, tables, touched>>
<1> USE DEF queue, session, server, tables
<1>1. CASE \/ StartPass(t) \/ \E i \in Id : Resume(t, i)
           \/ \E force \in BOOLEAN : TakeDue(t, force)
           \/ BeginUpload(t) \/ Upload(t) \/ Mark(t)
  BY <1>1 DEF StartPass, Resume, TakeDue, BeginUpload, Upload, Mark
<1>2. CASE Send(t) \/ Receive(t) \/ Apply(t) \/ EndPass(t) \/ Throw(t)
  BY <1>2 DEF Send, Receive, Apply, EndPass, Throw
<1>3. CASE (\E s \in CallFailure : UploadFails(t, s) \/ BatchFails(t, s)) \/ LoseAnswer(t) \/ CloseTab(t)
  BY <1>3 DEF UploadFails, BatchFails, LoseAnswer, CloseTab
<1> QED
  BY <1>1, <1>2, <1>3 DEF ClientStep, Pass

\* ... and only these change the queue, ...
LEMMA QueueWriters ==
    ASSUME NEW t \in Tab, ClientStep(t)
    PROVE  \/ \E i \in Id : Resume(t, i)
           \/ BeginUpload(t) \/ Upload(t) \/ Mark(t) \/ Apply(t)
           \/ \E s \in CallFailure : UploadFails(t, s)
           \/ UNCHANGED queue
<1>1. CASE StartPass(t) \/ \E force \in BOOLEAN : TakeDue(t, force)
  BY <1>1 DEF StartPass, TakeDue
<1>2. CASE Send(t) \/ Receive(t) \/ EndPass(t) \/ Throw(t)
  BY <1>2 DEF Send, Receive, EndPass, Throw
<1>3. CASE (\E s \in CallFailure : BatchFails(t, s)) \/ LoseAnswer(t) \/ CloseTab(t)
  BY <1>3 DEF BatchFails, LoseAnswer, CloseTab
<1> QED
  BY <1>1, <1>2, <1>3 DEF ClientStep, Pass

\* ... and these the batches.
LEMMA BatchWriters ==
    ASSUME NEW t \in Tab, ClientStep(t)
    PROVE  \/ Send(t) \/ Receive(t)
           \/ \E s \in CallFailure : BatchFails(t, s)
           \/ UNCHANGED server
<1>1. CASE \/ StartPass(t) \/ \E i \in Id : Resume(t, i)
           \/ \E force \in BOOLEAN : TakeDue(t, force)
           \/ BeginUpload(t) \/ Upload(t) \/ Mark(t)
  BY <1>1 DEF StartPass, Resume, TakeDue, BeginUpload, Upload, Mark
<1>2. CASE Apply(t) \/ EndPass(t) \/ Throw(t)
  BY <1>2 DEF Apply, EndPass, Throw
<1>3. CASE (\E s \in CallFailure : UploadFails(t, s)) \/ LoseAnswer(t) \/ CloseTab(t)
  BY <1>3 DEF UploadFails, LoseAnswer, CloseTab
<1> QED
  BY <1>1, <1>2, <1>3 DEF ClientStep, Pass

-----------------------------------------------------------------------------
\* Type correctness, in five parts.
QueueOK ==
    /\ used \subseteq Id
    /\ drafts \in [Id -> Content \cup {None}]
    /\ ops \in [Id -> Op \cup {None}]
    /\ photos \in [Id -> Photo \cup {None}]
    /\ delayed \subseteq Id
    /\ autosave \in [Id -> Content \cup {None}]
    /\ touched \subseteq Id

SessionOK ==
    /\ pc \in [Tab -> {"idle", "resuming", "preparing", "uploading", "uploaded",
                       "waiting", "applying"}]
    /\ resume \in [Tab -> SUBSET Id]
    /\ due \in [Tab -> [Id -> Op \cup {None}]]
    /\ pending \in [Tab -> SUBSET Id]
    /\ ready \in [Tab -> [Id -> Item \cup {None}]]
    /\ request \in [Tab -> Request \cup {None}]
    /\ answer \in [Tab -> [Id -> Verdict \cup CallFailure \cup {None}]]

ServerOK ==
    /\ stage \in [Request -> {"free", "sent", "uncached", "new", "known", "answered"}]
    /\ todo \in [Request -> [Id -> Item \cup {None}]]
    /\ drafted \in [Request -> [Id -> Report \cup {None}]]
    /\ verdicts \in [Request -> [Id -> Verdict \cup {None}]]

TablesOK == reports \in [Id -> Seq(Report)] /\ results \subseteq Id

AccessOK ==
    /\ faults \in 0 .. FaultLimit
    /\ signedIn \in BOOLEAN
    /\ login \in [Tab -> {"verified", "unsure", "expired"}]
    /\ stale \subseteq Request

\* The type invariant is the five parts, ...
LEMMA TypeParts ==
    TypeOK <=> QueueOK /\ SessionOK /\ ServerOK /\ TablesOK /\ AccessOK
  BY DEF TypeOK, QueueOK, SessionOK, ServerOK, TablesOK, AccessOK

\* ... after a step too.
LEMMA TypePartsNext ==
    TypeOK' <=> QueueOK' /\ SessionOK' /\ ServerOK' /\ TablesOK' /\ AccessOK'
  BY DEF TypeOK, QueueOK, SessionOK, ServerOK, TablesOK, AccessOK

\* A photo that is queued with its report is the same photo.
LEMMA PhotoFields ==
    ASSUME NEW x \in Photo
    PROVE  /\ x # None /\ x.of \in Id /\ x.queued \in BOOLEAN /\ x.uploaded \in BOOLEAN
           /\ LET y == [x EXCEPT !.queued = TRUE] IN
              y \in Photo /\ y.of = x.of /\ y.queued = TRUE /\ y.uploaded = x.uploaded
  BY NoneIsNothing DEF Photo

\* The officer's steps on the queue.
LEMMA OfficerTypes ==
    ASSUME QueueOK, Officer
    PROVE  QueueOK'
<1> USE DEF QueueOK
<1>1. ASSUME NEW p \in BOOLEAN, NewDraft(p)
      PROVE  QueueOK'
  <2>1. First(Id \ used) \in Id
    BY <1>1, FirstIn DEF NewDraft
  <2>2. 0 \in Content
    BY NoneIsNothing DEF Content
  <2> DEFINE i == First(Id \ used)
             shot == [of |-> i, queued |-> FALSE, uploaded |-> FALSE]
  <2>3. shot \in Photo
    BY <2>1 DEF Photo
  <2>4. used' = used \cup {i} /\ drafts' = [drafts EXCEPT ![i] = 0]
        /\ photos' \in {photos, [photos EXCEPT ![i] = shot]}
        /\ UNCHANGED <<ops, delayed, autosave, touched>>
    BY <1>1 DEF NewDraft
  <2>5. i \in Id
    BY <2>1
  <2> HIDE DEF shot, i
  <2>6. photos' \in [Id -> Photo \cup {None}]
    BY <2>3, <2>4, <2>5
  <2> QED
    BY <2>2, <2>4, <2>5, <2>6
<1>2. ASSUME NEW i \in Id, EditDraft(i)
      PROVE  QueueOK'
  <2>1. drafts[i] + 1 \in Content
    BY <1>2, NoneIsNothing DEF EditDraft, Content
  <2> QED
    BY <1>2, <2>1 DEF EditDraft
<1>3. ASSUME NEW i \in Id, NEW unsaved \in BOOLEAN, QueueDraft(i, unsaved)
      PROVE  QueueOK'
  <2> DEFINE op == [state |-> "QUEUED", content |-> drafts[i], textOnly |-> FALSE, attempts |-> 0]
  <2>1. drafts[i] \in Content /\ 0 \in 0 .. ScanRetryLimit
    BY <1>3, NoneIsNothing DEF QueueDraft
  <2>2. op \in Op
    BY <2>1 DEF Op, OpState
  <2>3. ops' = [ops EXCEPT ![i] = op]
    BY <1>3 DEF QueueDraft
  <2> HIDE DEF op
  <2>4. photos' \in [Id -> Photo \cup {None}]
    <3>1. \A k \in DraftPhotosOf(i) : k \in Id /\ photos[k] \in Photo
      BY DEF DraftPhotosOf, Present
    <3>2. \A k \in DraftPhotosOf(i) : [photos[k] EXCEPT !.queued = TRUE] \in Photo
      BY <3>1, PhotoFields
    <3>3. photos' = [k \in Id |-> IF k \in DraftPhotosOf(i)
                                  THEN [photos[k] EXCEPT !.queued = TRUE] ELSE photos[k]]
      BY <1>3 DEF QueueDraft
    <3> QED
      BY <3>2, <3>3
  <2>5. drafts' \in [Id -> Content \cup {None}] /\ autosave' \in [Id -> Content \cup {None}]
    BY <1>3, <2>1 DEF QueueDraft
  <2>6. delayed' = delayed \ {i} /\ touched' \in {touched, touched \cup {i}} /\ used' = used
    BY <1>3 DEF QueueDraft
  <2> QED
    BY <2>2, <2>3, <2>4, <2>5, <2>6
<1>4. ASSUME NEW i \in Id, Autosave(i)
      PROVE  QueueOK'
  BY <1>4 DEF Autosave
<1>5. ASSUME NEW i \in Id, SendTextOnly(i)
      PROVE  QueueOK'
  <2> DEFINE queued == [ops[i] EXCEPT !.state = "QUEUED"]
             text   == [queued EXCEPT !.textOnly = TRUE]
             op     == [text EXCEPT !.attempts = 0]
  <2>1. ops[i] \in Op
    BY <1>5 DEF SendTextOnly, InState
  <2>2. ops' = [ops EXCEPT ![i] = op]
    BY <1>5 DEF SendTextOnly
  <2>3. queued \in Op
    BY <2>1, OpWithState DEF OpState
  <2> HIDE DEF queued
  <2>4. text \in Op
    BY <2>3 DEF Op
  <2> HIDE DEF text
  <2>5. op \in Op
    BY <2>4, OpWithAttempts, NoneIsNothing
  <2> HIDE DEF op
  <2> QED
    BY <1>5, <2>2, <2>5 DEF SendTextOnly
<1>6. ASSUME NEW i \in Id, NEW j \in Id, ReopenAs(i, j)
      PROVE  QueueOK'
  <2>1. ops[i] \in Op /\ ops[i].content \in Content
    BY <1>6, OpFields DEF ReopenAs, InState
  <2>2. photos' \in [Id -> Photo \cup {None}]
    <3>1. \A k \in PhotosOf(i) : k \in Id /\ photos[k] \in Photo
      BY DEF PhotosOf, Present
    <3>2. \A k \in PhotosOf(i) :
              [of |-> j, queued |-> FALSE, uploaded |-> photos[k].uploaded /\ j = i] \in Photo
      BY <3>1, PhotoFields DEF Photo
    <3>3. photos' = [k \in Id |-> IF k \in PhotosOf(i)
              THEN [of |-> j, queued |-> FALSE, uploaded |-> photos[k].uploaded /\ j = i]
              ELSE photos[k]]
      BY <1>6 DEF ReopenAs
    <3> QED
      BY <3>2, <3>3
  <2>3. /\ used' = used \cup {j} /\ drafts' = [drafts EXCEPT ![j] = ops[i].content]
        /\ ops' = [ops EXCEPT ![i] = None] /\ autosave' = [autosave EXCEPT ![i] = None]
        /\ touched' = touched \cup {i, j} /\ delayed' = delayed
    BY <1>6 DEF ReopenAs
  <2> QED
    BY <2>1, <2>2, <2>3
<1>7. ASSUME NEW i \in Id, DiscardOperation(i)
      PROVE  QueueOK'
  BY <1>7 DEF DiscardOperation
<1> QED
  BY <1>1, <1>2, <1>3, <1>4, <1>5, <1>6, <1>7 DEF Officer

-----------------------------------------------------------------------------
\* What an answer makes of an operation.
LEMMA Outcomes ==
    ASSUME TypeOK, PassInv, NEW t \in Tab, pc[t] = "applying", NEW i \in Id, ready[t][i] # None
    PROVE  /\ answer[t][i] \in Verdict \cup CallFailure
           /\ ready[t][i].attempts \in 0 .. ScanRetryLimit
           /\ Outcome(t, i) \in {"SYNCED", "NEEDS_REVIEW", "FAILED_WITH_REASON", "RETRY_WAIT",
                                 "NEEDS_LOGIN"}
           /\ Outcome(t, i) = "SYNCED" => answer[t][i] = "stored"
           /\ Outcome(t, i) = "NEEDS_REVIEW" =>
                 \/ answer[t][i] = "conflict"
                 \/ answer[t][i] = "scan" /\ ready[t][i].attempts + 1 >= ScanRetryLimit
<1>1. answer[t][i] \in Verdict \cup CallFailure
  BY DEF TypeOK, PassInv, PassOf
<1>2. ready[t][i] \in Item
  BY DEF TypeOK
<1>3. ready[t][i].attempts \in 0 .. ScanRetryLimit
  BY <1>2 DEF Item
<1> QED
  BY <1>1, <1>3 DEF Outcome, Verdict, CallFailure

\* What the answer of one item writes.
LEMMA Applying ==
    ASSUME TypeOK, PassInv, NEW t \in Tab, Apply(t)
    PROVE  \E i \in Id :
              /\ pc[t] = "applying" /\ ready[t][i] # None
              /\ Accepts(i, Outcome(t, i))
              /\ \/ Outcome(t, i) = "SYNCED" /\ ops' = Moved(i, "SYNCED")
                 \/ Outcome(t, i) # "SYNCED"
                    /\ ops' = Updated(i, Outcome(t, i), OneMore(ready[t][i].attempts))
              /\ delayed' \in {delayed \cup {i}, delayed \ {i}}
              /\ ready' = [ready EXCEPT ![t][i] = None]
              /\ answer' = [answer EXCEPT ![t][i] = None]
              /\ UNCHANGED photos
<1> DEFINE i == First(Present(ready[t]))
<1>1. pc[t] = "applying" /\ i \in Id /\ ready[t][i] # None
  BY FirstIsReady DEF Apply
<1>2. /\ IF Outcome(t, i) = "SYNCED"
         THEN /\ Accepts(i, "SYNCED")
              /\ ops' = Moved(i, "SYNCED")
              /\ delayed' = delayed \ {i}
         ELSE Record(i, Outcome(t, i), ready[t][i].attempts)
      /\ ready' = [ready EXCEPT ![t][i] = None]
      /\ answer' = [answer EXCEPT ![t][i] = None]
      /\ photos' = photos
  BY DEF Apply
<1> HIDE DEF i
<1> QED
  BY <1>1, <1>2 DEF Record

\* What a failed upload leaves.
LEMMA Failing ==
    ASSUME TypeOK, PassInv, NEW t \in Tab, NEW s \in CallFailure, UploadFails(t, s)
    PROVE  /\ pc[t] = "uploading" /\ Current(t) \in Id /\ due[t][Current(t)] \in Op
           /\ UNCHANGED photos
           /\ \/ /\ Accepts(Current(t), s)
                 /\ ops' = Updated(Current(t), s, OneMore(due[t][Current(t)].attempts))
                 /\ delayed' \in {delayed \cup {Current(t)}, delayed \ {Current(t)}}
              \/ UNCHANGED <<ops, delayed>>
<1>1. pc[t] = "uploading" /\ Present(due[t]) # {}
  BY DEF UploadFails, PassInv, PassOf
<1>2. Current(t) \in Id /\ due[t][Current(t)] \in Op
  BY <1>1, CurrentIsDue DEF TypeOK
<1> QED
  BY <1>1, <1>2 DEF UploadFails, Record

\* What a tab writes to the queue has its type.
LEMMA ClientQueueTypes ==
    ASSUME TypeOK, PassInv, NEW t \in Tab, ClientStep(t)
    PROVE  QueueOK'
<1> USE ClientFrame DEF QueueOK
<1>1. QueueOK
  BY DEF TypeOK
<1>2. ASSUME NEW i \in Id, Resume(t, i)
      PROVE  QueueOK'
  <2>1. ops' \in [Id -> Op \cup {None}]
    BY <1>1, <1>2, MovedOps DEF Resume, OpState
  <2> QED
    BY <1>1, <1>2, <2>1 DEF Resume
<1>3. ASSUME BeginUpload(t)
      PROVE  QueueOK'
  <2>1. Current(t) \in Id
    BY <1>3, CurrentIsDue DEF BeginUpload
  <2>2. ops' \in [Id -> Op \cup {None}]
    BY <1>1, <1>3, <2>1, MovedOps DEF BeginUpload, OpState
  <2> QED
    BY <1>1, <1>3, <2>2 DEF BeginUpload
<1>4. ASSUME Upload(t)
      PROVE  QueueOK'
  <2>1. Current(t) \in Id
    BY <1>4, CurrentIsDue DEF Upload, PassInv, PassOf
  <2> DEFINE shot == [of |-> Current(t), queued |-> TRUE, uploaded |-> TRUE]
  <2>2. shot \in Photo
    BY <2>1 DEF Photo
  <2>3. photos' = [k \in Id |-> IF k \in pending[t] THEN shot ELSE photos[k]]
    BY <1>4 DEF Upload
  <2> HIDE DEF shot
  <2> QED
    BY <1>1, <1>4, <2>2, <2>3 DEF Upload
<1>5. ASSUME Mark(t)
      PROVE  QueueOK'
  <2>1. Current(t) \in Id
    BY <1>5, CurrentIsDue DEF Mark, PassInv, PassOf
  <2>2. ops' \in [Id -> Op \cup {None}]
    BY <1>1, <1>5, <2>1, MovedOps DEF Mark, OpState
  <2> QED
    BY <1>1, <1>5, <2>2 DEF Mark
<1>6. ASSUME Apply(t)
      PROVE  QueueOK'
  <2>1. PICK i \in Id :
            /\ pc[t] = "applying" /\ ready[t][i] # None
            /\ \/ ops' = Moved(i, "SYNCED")
               \/ ops' = Updated(i, Outcome(t, i), OneMore(ready[t][i].attempts))
            /\ delayed' \in {delayed \cup {i}, delayed \ {i}}
            /\ UNCHANGED photos
    BY <1>6, Applying
  <2>2. /\ Outcome(t, i) \in OpState /\ "SYNCED" \in OpState
        /\ OneMore(ready[t][i].attempts) \in 0 .. ScanRetryLimit
    BY <2>1, Outcomes, OneMoreType DEF OpState
  <2>3. ops' \in [Id -> Op \cup {None}]
    BY <1>1, <2>1, <2>2, MovedOps, UpdatedOps
  <2> QED
    BY <1>1, <2>1, <2>3
<1>7. ASSUME NEW s \in CallFailure, UploadFails(t, s)
      PROVE  QueueOK'
  <2>1. Current(t) \in Id /\ due[t][Current(t)] \in Op
    BY <1>7, Failing
  <2>2. /\ s \in OpState
        /\ OneMore(due[t][Current(t)].attempts) \in 0 .. ScanRetryLimit
    BY <2>1, OpFields, OneMoreType DEF OpState, CallFailure
  <2>3. ops' \in [Id -> Op \cup {None}] /\ delayed' \subseteq Id /\ photos' = photos
    BY <1>1, <1>7, <2>1, <2>2, Failing, UpdatedOps
  <2> QED
    BY <1>1, <2>3
<1>8. ASSUME UNCHANGED queue
      PROVE  QueueOK'
  BY <1>1, <1>8 DEF queue
<1> QED
  BY <1>2, <1>3, <1>4, <1>5, <1>6, <1>7, <1>8, QueueWriters

\* The record a pass goes on with.
LEMMA RefreshedIsOp ==
    ASSUME TypeOK, NEW t \in Tab, NEW i \in Id, due[t][i] \in Op, NEW s \in OpState,
           ops' = Moved(i, s)
    PROVE  Refreshed(t, i) \in Op
<1>1. CASE ops[i] = None
  BY <1>1 DEF Refreshed
<1>2. CASE ops[i] # None
  <2>1. ops'[i] \in Op
    BY <1>2, MovedOps DEF TypeOK, SameText
  <2> QED
    BY <1>2, <2>1, OpFields, OpWithContent DEF Refreshed
<1> QED
  BY <1>1, <1>2

\* What a pass holds has its type.
LEMMA ClientSessionTypes ==
    ASSUME TypeOK, PassInv, NEW t \in Tab, ClientStep(t)
    PROVE  SessionOK'
<1> USE DEF SessionOK
<1>1. SessionOK
  BY DEF TypeOK
<1>2. CASE StartPass(t)
  BY <1>1, <1>2 DEF StartPass
<1>3. ASSUME NEW i \in Id, Resume(t, i)
      PROVE  SessionOK'
  BY <1>1, <1>3 DEF Resume
<1>4. ASSUME NEW force \in BOOLEAN, TakeDue(t, force)
      PROVE  SessionOK'
  <2> DEFINE list == [i \in Id |->
          IF \/ InState(i, {"QUEUED", "UPLOADING_MEDIA", "SUBMITTING"})
             \/ InState(i, {"RETRY_WAIT"}) /\ (force \/ i \notin delayed)
          THEN ops[i] ELSE None]
  <2>1. list \in [Id -> Op \cup {None}]
    BY DEF TypeOK
  <2>2. due' = [due EXCEPT ![t] = list]
    BY <1>4 DEF TakeDue
  <2> HIDE DEF list
  <2> QED
    BY <1>1, <1>4, <2>1, <2>2 DEF TakeDue
<1>5. CASE BeginUpload(t)
  <2>1. Current(t) \in Id /\ due[t][Current(t)] \in Op
    BY <1>1, <1>5, CurrentIsDue DEF BeginUpload
  <2>2. Refreshed(t, Current(t)) \in Op
    BY <1>5, <2>1, RefreshedIsOp DEF BeginUpload, OpState
  <2>3. Pending(t) \subseteq Id
    BY DEF Pending, PhotosOf, Present
  <2>4. /\ due' = [due EXCEPT ![t][Current(t)] = Refreshed(t, Current(t))]
        /\ pending' = [pending EXCEPT ![t] = Pending(t)]
        /\ pc' = [pc EXCEPT ![t] = "uploading"]
        /\ UNCHANGED <<resume, ready, request, answer>>
    BY <1>5 DEF BeginUpload
  <2> QED
    BY <1>1, <2>1, <2>2, <2>3, <2>4
<1>6. CASE Upload(t)
  BY <1>1, <1>6 DEF Upload
<1>7. CASE Mark(t)
  <2>1. Current(t) \in Id /\ due[t][Current(t)] \in Op
    BY <1>1, <1>7, CurrentIsDue DEF Mark, PassInv, PassOf
  <2> DEFINE item == [content  |-> due[t][Current(t)].content,
                      photo    |-> /\ ~ Refreshed(t, Current(t)).textOnly
                                   /\ \E k \in PhotosOf(Current(t)) : photos[k].uploaded,
                      attempts |-> Refreshed(t, Current(t)).attempts]
  <2>2. item \in Item
    <3>1. Refreshed(t, Current(t)).attempts \in 0 .. ScanRetryLimit
      BY <1>7, <2>1, RefreshedIsOp, OpFields DEF Mark, OpState
    <3>2. due[t][Current(t)].content \in Content
      BY <2>1, OpFields
    <3> QED
      BY <3>1, <3>2 DEF Item
  <2>3. /\ ready' = [ready EXCEPT ![t][Current(t)] = item]
        /\ due' = [due EXCEPT ![t][Current(t)] = None]
        /\ pc' = [pc EXCEPT ![t] = "preparing"]
        /\ UNCHANGED <<resume, pending, request, answer>>
    BY <1>7 DEF Mark
  <2> HIDE DEF item
  <2> QED
    BY <1>1, <2>1, <2>2, <2>3
<1>8. CASE Send(t)
  BY <1>1, <1>8 DEF Send
<1>9. CASE Receive(t)
  <2>1. request[t] \in Request
    BY <1>1, <1>9 DEF Receive, PassInv, PassOf
  <2>2. verdicts[request[t]] \in [Id -> Verdict \cup {None}]
    BY <2>1 DEF TypeOK
  <2> QED
    BY <1>1, <1>9, <2>2 DEF Receive
<1>10. CASE Apply(t)
  <2>1. PICK i \in Id : ready' = [ready EXCEPT ![t][i] = None] /\ answer' = [answer EXCEPT ![t][i] = None]
    BY <1>10, Applying
  <2>2. UNCHANGED <<pc, resume, due, pending, request>>
    BY <1>10 DEF Apply
  <2> QED
    BY <1>1, <2>1, <2>2
<1>11. CASE EndPass(t)
  BY <1>1, <1>11 DEF EndPass, session
<1>12. ASSUME Forget(t)
       PROVE  SessionOK'
  <2>1. Nothing \in [Id -> Op \cup {None}] /\ Nothing \in [Id -> Item \cup {None}]
        /\ Nothing \in [Id -> Verdict \cup CallFailure \cup {None}]
    BY DEF Nothing
  <2> QED
    BY <1>1, <1>12, <2>1 DEF Forget
<1>13. ASSUME NEW s \in CallFailure, UploadFails(t, s)
       PROVE  SessionOK'
  <2>1. CASE Forget(t)
    BY <1>12, <2>1
  <2>2. CASE /\ due' = [due EXCEPT ![t][Current(t)] = None]
             /\ pending' = [pending EXCEPT ![t] = {}]
             /\ pc' = [pc EXCEPT ![t] = "preparing"]
             /\ UNCHANGED <<resume, ready, request, answer>>
    BY <1>1, <2>2
  <2> QED
    BY <1>13, <2>1, <2>2 DEF UploadFails
<1>14. ASSUME NEW s \in CallFailure, BatchFails(t, s) \/ LoseAnswer(t)
       PROVE  SessionOK'
  <2>1. PICK f \in CallFailure :
            /\ answer' = [answer EXCEPT ![t] = [i \in Id |-> IF ready[t][i] = None THEN None ELSE f]]
            /\ request' = [request EXCEPT ![t] = None]
            /\ pc' = [pc EXCEPT ![t] = "applying"]
            /\ UNCHANGED <<resume, due, pending, ready>>
    BY <1>14 DEF BatchFails, LoseAnswer, CallFailure
  <2> QED
    BY <1>1, <2>1
<1>15. CASE Throw(t) \/ CloseTab(t)
  BY <1>12, <1>15 DEF Throw, CloseTab
<1> QED
  BY <1>2, <1>3, <1>4, <1>5, <1>6, <1>7, <1>8, <1>9, <1>10, <1>11, <1>13, <1>14, <1>15
  DEF ClientStep, Pass, CallFailure

-----------------------------------------------------------------------------
\* The batches on the server.
LEMMA FreedTypes ==
    ASSUME ServerOK, NEW r \in Request, Freed(r)
    PROVE  ServerOK'
<1>1. Nothing \in [Id -> Item \cup {None}] /\ Nothing \in [Id -> Report \cup {None}]
      /\ Nothing \in [Id -> Verdict \cup {None}]
  BY DEF Nothing
<1> QED
  BY <1>1 DEF Freed, ServerOK

\* An item answered leaves the batches with their types.
LEMMA AnsweredTypes ==
    ASSUME ServerOK, NEW r \in Request, NEW i \in Id, NEW v \in Verdict, Answered(r, i, v),
           drafted' \in [Request -> [Id -> Report \cup {None}]]
    PROVE  ServerOK'
  BY DEF Answered, ServerOK

\* The report stored for an item has its text and says the same of the photo.
LEMMA ReportOfItem ==
    ASSUME NEW x \in Item
    PROVE  /\ x # None /\ x.content \in Content /\ x.photo \in BOOLEAN
           /\ Inserted(x) \in Report /\ Inserted(x) # None
           /\ Inserted(x).content = x.content /\ Inserted(x).photo = x.photo
  BY NoneIsNothing DEF Item, Report, Inserted

\* The item the server handles next.
LEMMA ServerHandles ==
    ASSUME TypeOK, BatchInv, NEW r \in Request,
           stage[r] \in {"uncached", "new", "known"} \/ Present(todo[r]) # {}
    PROVE  /\ Handling(r) \in Id
           /\ todo[r][Handling(r)] \in Item
           /\ todo[r][Handling(r)] # None
<1>1. Present(todo[r]) # {}
  BY DEF BatchInv, Progress
<1>2. Handling(r) \in Id /\ todo[r][Handling(r)] # None
  BY <1>1, HandlingIsToDo
<1> QED
  BY <1>2 DEF TypeOK

\* A step of the server leaves the batches with their types, ...
LEMMA ServerTypes ==
    ASSUME TypeOK, BatchInv, NEW r \in Request, ServerStep(r)
    PROVE  ServerOK'
<1>1. ServerOK
  BY TypeParts
<1>2. CASE Lookup(r)
  <2>1. Handling(r) \in Id /\ drafted' = drafted
    BY <1>2, ServerHandles DEF Lookup
  <2>2. CASE Answered(r, Handling(r), "stored")
    BY <1>1, <2>1, <2>2, AnsweredTypes DEF ServerOK, Verdict
  <2>3. CASE stage' = [stage EXCEPT ![r] = "uncached"] /\ UNCHANGED <<todo, verdicts>>
    BY <1>1, <2>1, <2>3 DEF ServerOK
  <2> QED
    BY <1>2, <2>2, <2>3 DEF Lookup
<1>3. CASE Find(r)
  <2>1. Handling(r) \in Id /\ drafted' = drafted
    BY <1>3, ServerHandles DEF Find
  <2>2. CASE Answered(r, Handling(r), "conflict")
    BY <1>1, <2>1, <2>2, AnsweredTypes DEF ServerOK, Verdict
  <2>3. CASE UNCHANGED <<todo, verdicts>> /\ \E s \in {"known", "new"} : stage' = [stage EXCEPT ![r] = s]
    BY <1>1, <2>1, <2>3 DEF ServerOK
  <2> QED
    BY <1>3, <2>2, <2>3 DEF Find
<1>4. ASSUME NEW v \in {"rejected", "scan"}, RefuseItem(r, v)
      PROVE  ServerOK'
  <2>1. Handling(r) \in Id /\ drafted' = drafted /\ Answered(r, Handling(r), v)
    BY <1>4, ServerHandles DEF RefuseItem
  <2> QED
    BY <1>1, <2>1, AnsweredTypes DEF ServerOK, Verdict
<1>5. CASE Insert(r)
  <2>1. Handling(r) \in Id /\ Inserted(todo[r][Handling(r)]) \in Report
    BY <1>5, ServerHandles, ReportOfItem DEF Insert
  <2>2. drafted' \in [Request -> [Id -> Report \cup {None}]]
    <3> DEFINE row == Inserted(todo[r][Handling(r)])
    <3>1. drafted' \in {drafted, [drafted EXCEPT ![r][Handling(r)] = row]}
      BY <1>5 DEF Insert
    <3>2. row \in Report
      BY <2>1
    <3>3. Handling(r) \in Id /\ drafted \in [Request -> [Id -> Report \cup {None}]]
      BY <1>1, <2>1 DEF ServerOK
    <3> HIDE DEF row
    <3>4. CASE drafted' = [drafted EXCEPT ![r][Handling(r)] = row]
      BY <3>2, <3>3, <3>4
    <3> QED
      BY <3>1, <3>3, <3>4
  <2>3. \E v \in Verdict : Answered(r, Handling(r), v)
    BY <1>5 DEF Insert, Verdict
  <2> QED
    BY <1>1, <2>1, <2>2, <2>3, AnsweredTypes
<1>6. CASE Finish(r)
  <2>1. Nothing \in [Id -> Report \cup {None}]
    BY DEF Nothing
  <2> QED
    BY <1>1, <1>6, <2>1 DEF Finish, ServerOK
<1>7. CASE Drop(r) \/ Vanish(r)
  BY <1>1, <1>7, FreedTypes DEF Drop, Vanish
<1> QED
  BY <1>2, <1>3, <1>4, <1>5, <1>6, <1>7 DEF ServerStep, Serve

\* ... and so does what a tab sends or takes back.
LEMMA ClientServerTypes ==
    ASSUME TypeOK, PassInv, NEW t \in Tab, ClientStep(t)
    PROVE  ServerOK'
<1>1. ServerOK
  BY TypeParts
<1>2. CASE Send(t)
  <2>1. PICK r \in Request : /\ stage' = [stage EXCEPT ![r] = "sent"]
                             /\ todo' = [todo EXCEPT ![r] = ready[t]]
                             /\ UNCHANGED <<drafted, verdicts>>
    BY <1>2 DEF Send
  <2>2. ready[t] \in [Id -> Item \cup {None}]
    BY DEF TypeOK
  <2> QED
    BY <1>1, <2>1, <2>2 DEF ServerOK
<1>3. ASSUME Receive(t) \/ \E s \in CallFailure : BatchFails(t, s)
      PROVE  ServerOK'
  <2>1. request[t] \in Request /\ Freed(request[t])
    BY <1>3 DEF Receive, BatchFails, PassInv, PassOf, TypeOK
  <2> QED
    BY <1>1, <2>1, FreedTypes
<1>4. CASE UNCHANGED server
  BY <1>1, <1>4 DEF server, ServerOK
<1> QED
  BY <1>2, <1>3, <1>4, BatchWriters

\* The tables change when a batch commits.
LEMMA TablesWritten ==
    ASSUME TypeOK, NEW r \in Request, ServerStep(r)
    PROVE  \/ UNCHANGED tables
           \/ /\ Finish(r) /\ RoutesCommit
              /\ reports' = [i \in Id |-> IF drafted[r][i] = None THEN reports[i]
                                          ELSE Append(reports[i], drafted[r][i])]
              /\ results' = results \cup Present(drafted[r])
<1>1. CASE Lookup(r) \/ Find(r) \/ Insert(r) \/ \E v \in {"rejected", "scan"} : RefuseItem(r, v)
  BY <1>1 DEF Lookup, Find, Insert, RefuseItem
<1>2. CASE Drop(r) \/ Vanish(r)
  BY <1>2 DEF Drop, Vanish
<1>3. CASE Finish(r)
  BY <1>3 DEF Finish
<1> QED
  BY <1>1, <1>2, <1>3 DEF ServerStep, Serve

\* A commit leaves the tables with their types.
LEMMA TablesTypes ==
    ASSUME TypeOK, NEW r \in Request, ServerStep(r)
    PROVE  TablesOK'
<1>1. TablesOK
  BY TypeParts
<1>2. CASE UNCHANGED tables
  BY <1>1, <1>2 DEF tables, TablesOK
<1>3. CASE /\ reports' = [i \in Id |-> IF drafted[r][i] = None THEN reports[i]
                                       ELSE Append(reports[i], drafted[r][i])]
           /\ results' = results \cup Present(drafted[r])
  <2>1. \A i \in Id : drafted[r][i] # None => Append(reports[i], drafted[r][i]) \in Seq(Report)
    BY <1>1 DEF TablesOK, TypeOK
  <2>2. Present(drafted[r]) \subseteq Id
    BY DEF Present
  <2> QED
    BY <1>1, <1>3, <2>1, <2>2 DEF TablesOK
<1> QED
  BY <1>2, <1>3, TablesWritten

\* Faults are counted up to their limit, and of the session only the tabs' knowledge,
\* its end and the batches under way at that time are written.
LEMMA AccessTypes ==
    ASSUME AccessOK, [Next]_vars
    PROVE  AccessOK'
<1> USE DEF AccessOK
<1>1. ASSUME UNCHANGED <<faults, access>>
      PROVE  AccessOK'
  BY <1>1 DEF access
<1>2. CASE Officer
  BY <1>1, <1>2 DEF Officer, NewDraft, EditDraft, QueueDraft, Autosave, SendTextOnly, ReopenAs,
                    DiscardOperation
<1>3. ASSUME NEW t \in Tab, Pass(t)
      PROVE  AccessOK'
  <2>1. CASE \/ StartPass(t) \/ \E i \in Id : Resume(t, i)
             \/ \E force \in BOOLEAN : TakeDue(t, force)
             \/ BeginUpload(t) \/ Upload(t) \/ Mark(t)
    BY <1>1, <2>1 DEF StartPass, Resume, TakeDue, BeginUpload, Upload, Mark
  <2>2. CASE Receive(t) \/ Apply(t) \/ EndPass(t) \/ Throw(t)
    BY <1>1, <2>2 DEF Receive, Apply, EndPass, Throw
  <2>3. CASE Send(t)
    BY <2>3 DEF Send
  <2> QED
    BY <1>3, <2>1, <2>2, <2>3 DEF Pass
<1>4. ASSUME NEW t \in Tab, Unauthenticated(t)
      PROVE  AccessOK'
  BY <1>4 DEF Unauthenticated, Expire
<1>5. ASSUME NEW t \in Tab, CheckSession(t) \/ SignIn(t)
      PROVE  AccessOK'
  BY <1>5 DEF CheckSession, SignIn
<1>6. ASSUME NEW r \in Request, Serve(r) \/ Vanish(r)
      PROVE  AccessOK'
  BY <1>1, <1>6 DEF Serve, Lookup, Find, Insert, Finish, Drop, RefuseItem, Vanish
<1>7. ASSUME NEW i \in Id, BackoffElapses(i)
      PROVE  AccessOK'
  BY <1>1, <1>7 DEF BackoffElapses
<1>8. ASSUME NEW t \in Tab, \/ \E s \in CallFailure : FailUpload(t, s)
                            \/ RefuseBatch(t) \/ LoseAnswer(t)
      PROVE  AccessOK'
  BY <1>8, OfflineAssumption DEF FailUpload, RefuseBatch, LoseAnswer, Fault, access
<1>9. ASSUME NEW t \in Tab, CloseTab(t) \/ LoseContact(t)
      PROVE  AccessOK'
  BY <1>9, OfflineAssumption DEF CloseTab, LoseContact, Expire, Fault
<1>10. CASE EndSession
  <2>1. faults < FaultLimit /\ faults' = faults + 1 /\ signedIn' = FALSE /\ login' = login
    BY <1>10 DEF EndSession, Fault
  <2>2. \A r \in stale' : r \in stale \/ r \in Request
    BY <1>10, Zenon DEF EndSession
  <2>3. stale' \subseteq Request
    BY <2>2
  <2>4. faults' \in 0 .. FaultLimit
    BY <2>1, OfflineAssumption
  <2>5. signedIn' \in BOOLEAN
    BY <2>1, Zenon
  <2>6. login' \in [Tab -> {"verified", "unsure", "expired"}]
    BY <2>1
  <2> QED
    BY <2>3, <2>4, <2>5, <2>6
<1>11. CASE Rest \/ UNCHANGED vars
  BY <1>1, <1>11 DEF Rest, vars
<1> QED
  BY <1>2, <1>3, <1>4, <1>5, <1>6, <1>7, <1>8, <1>9, <1>10, <1>11 DEF Next, Trouble

\* Every step keeps the types of the state.
LEMMA TypeStep ==
    ASSUME TypeOK, PassInv, BatchInv, [Next]_vars
    PROVE  TypeOK'
<1>0. QueueOK /\ SessionOK /\ ServerOK /\ TablesOK /\ AccessOK'
  BY TypeParts, AccessTypes
<1>1. CASE Officer
  <2>1. QueueOK'
    BY <1>0, <1>1, OfficerTypes
  <2>2. SessionOK' /\ ServerOK' /\ TablesOK'
    BY <1>0, <1>1, OfficerFrame DEF SessionOK, ServerOK, TablesOK, session, server, tables
  <2> QED
    BY <1>0, <2>1, <2>2, TypePartsNext
<1>2. ASSUME NEW t \in Tab, ClientStep(t)
      PROVE  TypeOK'
  <2>1. TablesOK'
    BY <1>0, <1>2, ClientFrame DEF TablesOK, tables
  <2> QED
    BY <1>0, <1>2, <2>1, ClientQueueTypes, ClientSessionTypes, ClientServerTypes, TypePartsNext
<1>3. ASSUME NEW r \in Request, ServerStep(r)
      PROVE  TypeOK'
  <2>1. QueueOK' /\ SessionOK'
    BY <1>0, <1>3, ServerFrame DEF QueueOK, SessionOK, queue, session
  <2> QED
    BY <1>0, <1>3, <2>1, ServerTypes, TablesTypes, TypePartsNext
<1>4. ASSUME NEW i \in Id, BackoffElapses(i)
      PROVE  TypeOK'
  <2>1. QueueOK' /\ SessionOK' /\ ServerOK' /\ TablesOK'
    BY <1>0, <1>4 DEF BackoffElapses, QueueOK, SessionOK, ServerOK, TablesOK, session, server, tables
  <2> QED
    BY <1>0, <2>1, TypePartsNext
<1>5. CASE UNCHANGED offline
  <2>1. QueueOK' /\ SessionOK' /\ ServerOK' /\ TablesOK'
    BY <1>0, <1>5 DEF offline, QueueOK, SessionOK, ServerOK, TablesOK, queue, session, server, tables
  <2> QED
    BY <1>0, <2>1, TypePartsNext
<1> QED
  BY <1>1, <1>2, <1>3, <1>4, <1>5, Steps

-----------------------------------------------------------------------------
\* A step of a tab keeps the text of every operation and follows the state machine;
\* what it makes SYNCED or sends to review was answered so.
Written(t, i) ==
    /\ SameText(i, ops'[i])
    /\ \/ ops'[i] = ops[i]
       \/ /\ ops'[i].state \in Allowed(ops[i].state) \cup {ops[i].state}
          /\ ops'[i].state = "SYNCED" =>
                pc[t] = "applying" /\ ready[t][i] # None /\ answer[t][i] = "stored"
          /\ ops'[i].state = "NEEDS_REVIEW" =>
                /\ pc[t] = "applying" /\ ready[t][i] # None
                /\ \/ answer[t][i] = "conflict"
                   \/ answer[t][i] = "scan" /\ ops'[i].attempts = ScanRetryLimit

\* No tab begins an operation, and what it writes to one is as described.
LEMMA OpsWritten ==
    ASSUME TypeOK, PassInv, NEW t \in Tab, ClientStep(t), NEW i \in Id
    PROVE  /\ ops[i] = None => ops'[i] = None
           /\ ops[i] # None => Written(t, i)
<1>0. /\ ops \in [Id -> Op \cup {None}]
      /\ {"QUEUED", "UPLOADING_MEDIA", "SUBMITTING", "SYNCED"} \subseteq OpState
  BY DEF TypeOK, OpState
<1>1. ASSUME NEW j \in Id, NEW s \in {"QUEUED", "UPLOADING_MEDIA", "SUBMITTING"},
             Accepts(j, s), ops' = Moved(j, s)
      PROVE  (ops[i] = None => ops'[i] = None) /\ (ops[i] # None => Written(t, i))
  <2>1. CASE i = j
    BY <1>0, <1>1, <2>1, MovedOps DEF Written, Accepts
  <2>2. CASE i # j
    BY <1>0, <1>1, <2>2, MovedOps DEF Written, SameText
  <2> QED
    BY <2>1, <2>2
<1>3. ASSUME NEW j \in Id, Resume(t, j)
      PROVE  (ops[i] = None => ops'[i] = None) /\ (ops[i] # None => Written(t, i))
  BY <1>1, <1>3 DEF Resume
<1>4. ASSUME BeginUpload(t)
      PROVE  (ops[i] = None => ops'[i] = None) /\ (ops[i] # None => Written(t, i))
  <2>1. Current(t) \in Id
    BY <1>4, CurrentIsDue DEF BeginUpload
  <2> QED
    BY <1>1, <1>4, <2>1 DEF BeginUpload
<1>5. ASSUME Mark(t)
      PROVE  (ops[i] = None => ops'[i] = None) /\ (ops[i] # None => Written(t, i))
  <2>1. Current(t) \in Id
    BY <1>5, CurrentIsDue DEF Mark, PassInv, PassOf
  <2> QED
    BY <1>1, <1>5, <2>1 DEF Mark
<1>6. ASSUME Apply(t)
      PROVE  (ops[i] = None => ops'[i] = None) /\ (ops[i] # None => Written(t, i))
  <2>1. PICK j \in Id :
            /\ pc[t] = "applying" /\ ready[t][j] # None
            /\ Accepts(j, Outcome(t, j))
            /\ \/ Outcome(t, j) = "SYNCED" /\ ops' = Moved(j, "SYNCED")
               \/ Outcome(t, j) # "SYNCED"
                  /\ ops' = Updated(j, Outcome(t, j), OneMore(ready[t][j].attempts))
    BY <1>6, Applying
  <2> DEFINE s == Outcome(t, j)
             n == OneMore(ready[t][j].attempts)
  <2>2. /\ s \in OpState
        /\ s = "SYNCED" => answer[t][j] = "stored"
        /\ s = "NEEDS_REVIEW" => answer[t][j] = "conflict" \/ (answer[t][j] = "scan" /\ n = ScanRetryLimit)
        /\ n \in 0 .. ScanRetryLimit
    BY <2>1, Outcomes, OneMoreType DEF OpState
  <2>3. /\ Accepts(j, s)
        /\ \/ s = "SYNCED" /\ ops' = Moved(j, s)
           \/ s # "SYNCED" /\ ops' = Updated(j, s, n)
    BY <2>1
  <2> HIDE DEF s, n
  <2>4. CASE i # j
    BY <1>0, <2>2, <2>3, <2>4, MovedOps, UpdatedOps DEF Written, SameText
  <2>5. CASE i = j /\ ops[i] = None
    BY <1>0, <2>2, <2>3, <2>5, MovedOps, UpdatedOps
  <2>6. CASE i = j /\ ops[i] # None
    <3>1. SameText(i, ops'[i]) /\ ops'[i].state = s /\ (s # "SYNCED" => ops'[i].attempts = n)
      BY <1>0, <2>2, <2>3, <2>6, MovedOps, UpdatedOps
    <3>2. s \in Allowed(ops[i].state) \cup {ops[i].state}
      BY <2>3, <2>6 DEF Accepts
    <3> QED
      BY <2>1, <2>2, <2>6, <3>1, <3>2 DEF Written
  <2> QED
    BY <2>4, <2>5, <2>6
<1>7. ASSUME NEW f \in CallFailure, UploadFails(t, f)
      PROVE  (ops[i] = None => ops'[i] = None) /\ (ops[i] # None => Written(t, i))
  <2> DEFINE j == Current(t)
             n == OneMore(due[t][j].attempts)
  <2>1. /\ j \in Id /\ due[t][j] \in Op
        /\ (Accepts(j, f) /\ ops' = Updated(j, f, n)) \/ UNCHANGED ops
    BY <1>7, Failing
  <2>2. n \in 0 .. ScanRetryLimit /\ f \in OpState \ {"SYNCED", "NEEDS_REVIEW"}
    BY <2>1, OpFields, OneMoreType DEF CallFailure, OpState
  <2> HIDE DEF j, n
  <2>3. CASE UNCHANGED ops
    BY <2>3 DEF Written, SameText
  <2>4. CASE i # j /\ ops' = Updated(j, f, n)
    BY <1>0, <2>1, <2>2, <2>4, UpdatedOps DEF Written, SameText
  <2>5. CASE i = j /\ Accepts(j, f) /\ ops' = Updated(j, f, n)
    BY <1>0, <2>1, <2>2, <2>5, UpdatedOps DEF Written, Accepts
  <2> QED
    BY <2>1, <2>3, <2>4, <2>5
<1>8. ASSUME UNCHANGED ops
      PROVE  (ops[i] = None => ops'[i] = None) /\ (ops[i] # None => Written(t, i))
  BY <1>8 DEF Written, SameText
<1> QED
  BY <1>3, <1>4, <1>5, <1>6, <1>7, <1>8, QueueWriters DEF Upload, queue

-----------------------------------------------------------------------------
\* What a step leaves of an operation the officer has not intervened on: its text,
\* its photos, and that they are uploaded.
Undisturbed ==
    /\ touched \subseteq touched' /\ used \subseteq used'
    /\ \A i \in Id \ touched' : ops[i] # None =>
          /\ SameText(i, ops'[i])
          /\ PhotosOf(i)' = PhotosOf(i)
          /\ \A k \in PhotosOf(i) : photos[k].uploaded => photos'[k].uploaded

\* The officer disturbs only the operations on which he intervenes, ...
LEMMA OfficerUndisturbed ==
    ASSUME TypeOK, QueueInv, Officer
    PROVE  Undisturbed
<1>1. ASSUME NEW p \in BOOLEAN, NewDraft(p)
      PROVE  Undisturbed
  <2> DEFINE n == First(Id \ used)
             shot == [of |-> n, queued |-> FALSE, uploaded |-> FALSE]
  <2>1. n \in Id \ used
    <3>1. Id \ used \in SUBSET Id /\ Id \ used # {}
      BY <1>1 DEF NewDraft, TypeOK
    <3> QED
      BY <3>1, FirstIn
  <2>2. /\ photos' \in {photos, [photos EXCEPT ![n] = shot]}
        /\ used' = used \cup {n} /\ UNCHANGED <<ops, touched>>
    BY <1>1 DEF NewDraft
  <2>3. photos[n] = None /\ shot.queued = FALSE
    BY <2>1 DEF QueueInv
  <2> HIDE DEF n, shot
  <2>4. \A k \in Id : k # n => photos'[k] = photos[k]
    BY <2>1, <2>2 DEF TypeOK
  <2>5. photos'[n] \in {None, shot}
    BY <2>1, <2>2, <2>3 DEF TypeOK
  <2>6. \A i, k \in Id : k \in PhotosOf(i)' <=> k \in PhotosOf(i)
    BY <2>3, <2>4, <2>5 DEF PhotosOf, Present
  <2>7. \A i \in Id : PhotosOf(i)' = PhotosOf(i) /\ n \notin PhotosOf(i)
    BY <2>3, <2>6 DEF PhotosOf, Present
  <2> QED
    BY <2>2, <2>4, <2>7 DEF Undisturbed, SameText, PhotosOf, Present
<1>2. ASSUME NEW i \in Id, EditDraft(i) \/ Autosave(i)
      PROVE  Undisturbed
  BY <1>2 DEF EditDraft, Autosave, Undisturbed, SameText, PhotosOf, Present
<1>3. ASSUME NEW i \in Id, NEW unsaved \in BOOLEAN, QueueDraft(i, unsaved)
      PROVE  Undisturbed
  <2>1. /\ used' = used /\ touched \subseteq touched'
        /\ ops[i] # None => i \in touched'
    BY <1>3 DEF QueueDraft
  <2>2. \A j \in Id : j # i => ops'[j] = ops[j]
    BY <1>3 DEF QueueDraft, TypeOK
  <2>3. \A k \in Id : photos'[k] = IF k \in DraftPhotosOf(i)
                                   THEN [photos[k] EXCEPT !.queued = TRUE] ELSE photos[k]
    BY <1>3 DEF QueueDraft
  <2>4. \A k \in DraftPhotosOf(i) : /\ photos[k] # None /\ photos[k].of = i
                                    /\ photos'[k] # None /\ photos'[k].of = i
    <3>1. \A k \in DraftPhotosOf(i) : k \in Id /\ photos[k] \in Photo /\ photos[k].of = i
      BY DEF DraftPhotosOf, Present, TypeOK
    <3>2. ASSUME NEW k \in DraftPhotosOf(i)
          PROVE  photos'[k] \in Photo /\ photos'[k].of = i
      <4>1. photos'[k] = [photos[k] EXCEPT !.queued = TRUE]
        BY <2>3, <3>1
      <4> QED
        BY <3>1, <4>1, PhotoFields
    <3> QED
      BY <3>1, <3>2, PhotoFields
  <2>5. \A j, k \in Id : j # i => (k \in PhotosOf(j)' <=> k \in PhotosOf(j))
    BY <2>3, <2>4 DEF PhotosOf, Present
  <2>6. \A j \in Id : j # i => PhotosOf(j)' = PhotosOf(j)
    BY <2>5 DEF PhotosOf, Present
  <2>7. \A j \in Id : j # i => \A k \in PhotosOf(j) : photos'[k] = photos[k]
    BY <2>3, <2>4 DEF PhotosOf, Present
  <2> QED
    BY <2>1, <2>2, <2>6, <2>7 DEF Undisturbed, SameText
<1>4. ASSUME NEW i \in Id, SendTextOnly(i)
      PROVE  Undisturbed
  BY <1>4 DEF SendTextOnly, Undisturbed, SameText, PhotosOf, Present, TypeOK
<1>5. ASSUME NEW i \in Id, NEW n \in Id, ReopenAs(i, n)
      PROVE  Undisturbed
  <2>1. used \subseteq used' /\ touched' = touched \cup {i, n}
    BY <1>5 DEF ReopenAs
  <2>2. \A j \in Id : j # i => ops'[j] = ops[j]
    BY <1>5 DEF ReopenAs, TypeOK
  <2>3. \A k \in Id : photos'[k] = IF k \in PhotosOf(i)
              THEN [of |-> n, queued |-> FALSE, uploaded |-> photos[k].uploaded /\ n = i]
              ELSE photos[k]
    BY <1>5 DEF ReopenAs
  <2>4. \A k \in PhotosOf(i) : photos[k] # None /\ photos[k].of = i /\ ~ photos'[k].queued
    <3>1. \A k \in PhotosOf(i) : k \in Id /\ photos[k] # None /\ photos[k].of = i
      BY DEF PhotosOf, Present
    <3>2. ASSUME NEW k \in PhotosOf(i)
          PROVE  ~ photos'[k].queued
      <4>1. photos'[k] = [of |-> n, queued |-> FALSE, uploaded |-> photos[k].uploaded /\ n = i]
        BY <2>3, <3>1
      <4> QED
        BY <4>1
    <3> QED
      BY <3>1, <3>2
  <2>5. \A j, k \in Id : j # i => (k \in PhotosOf(j)' <=> k \in PhotosOf(j))
    BY <2>3, <2>4 DEF PhotosOf, Present
  <2>6. \A j \in Id : j # i => PhotosOf(j)' = PhotosOf(j)
    BY <2>5 DEF PhotosOf, Present
  <2>7. \A j \in Id : j # i => \A k \in PhotosOf(j) : photos'[k] = photos[k]
    BY <2>3, <2>4 DEF PhotosOf, Present
  <2> QED
    BY <2>1, <2>2, <2>6, <2>7 DEF Undisturbed, SameText
<1>6. ASSUME NEW i \in Id, DiscardOperation(i)
      PROVE  Undisturbed
  <2>1. used' = used /\ touched' = touched \cup {i}
    BY <1>6 DEF DiscardOperation
  <2>2. \A j \in Id : j # i => ops'[j] = ops[j]
    BY <1>6 DEF DiscardOperation, TypeOK
  <2>3. \A k \in Id : photos'[k] = IF k \in PhotosOf(i) THEN None ELSE photos[k]
    BY <1>6 DEF DiscardOperation
  <2>4. \A k \in PhotosOf(i) : photos[k].of = i
    BY DEF PhotosOf
  <2>5. \A j, k \in Id : j # i => (k \in PhotosOf(j)' <=> k \in PhotosOf(j))
    BY <2>3, <2>4 DEF PhotosOf, Present
  <2>6. \A j \in Id : j # i => PhotosOf(j)' = PhotosOf(j)
    BY <2>5 DEF PhotosOf, Present
  <2>7. \A j \in Id : j # i => \A k \in PhotosOf(j) : photos'[k] = photos[k]
    BY <2>3, <2>4 DEF PhotosOf, Present
  <2> QED
    BY <2>1, <2>2, <2>6, <2>7 DEF Undisturbed, SameText
<1> QED
  BY <1>1, <1>2, <1>3, <1>4, <1>5, <1>6 DEF Officer

\* Only an upload changes a photo.
LEMMA PhotosWritten ==
    ASSUME TypeOK, PassInv, NEW t \in Tab, ClientStep(t)
    PROVE  UNCHANGED photos \/ Upload(t)
<1>1. CASE \/ \E i \in Id : Resume(t, i)
           \/ BeginUpload(t) \/ Mark(t) \/ Apply(t)
           \/ \E s \in CallFailure : UploadFails(t, s)
  BY <1>1 DEF Resume, BeginUpload, Mark, Apply, UploadFails
<1>2. CASE UNCHANGED queue
  BY <1>2 DEF queue
<1> QED
  BY <1>1, <1>2, QueueWriters

\* An upload leaves every report its photos, and those it has uploaded are marked.
LEMMA UploadKeeps ==
    ASSUME TypeOK, PassInv, UploadInv, NEW t \in Tab, Upload(t), NEW i \in Id \ touched
    PROVE  /\ PhotosOf(i)' = PhotosOf(i)
           /\ \A k \in PhotosOf(i) : photos'[k].uploaded = (photos[k].uploaded \/ k \in pending[t])
<1> DEFINE c == Current(t)
           shot == [of |-> c, queued |-> TRUE, uploaded |-> TRUE]
<1>1. c \in Id /\ pending[t] \subseteq Id
  BY CurrentIsDue DEF Upload, PassInv, PassOf, TypeOK
<1>2. shot \in Photo /\ shot.of = c /\ shot.queued = TRUE /\ shot.uploaded = TRUE
  BY <1>1 DEF Photo
<1>3. \A k \in Id : photos'[k] = IF k \in pending[t] THEN shot ELSE photos[k]
  BY DEF Upload
<1>4. \A k \in pending[t] : /\ photos[k] # None => photos[k].of \in {c} \cup touched
                            /\ c \notin touched => k \in PhotosOf(c)
  BY DEF Upload, UploadInv, PendingOf
<1> HIDE DEF c, shot
<1>5. shot # None
  BY <1>2, NoneIsNothing
<1>6. \A k \in Id : k \in PhotosOf(i)' <=> k \in PhotosOf(i)
  <2>1. ASSUME NEW k \in Id, k \in pending[t], i = c
        PROVE  k \in PhotosOf(i)' /\ k \in PhotosOf(i)
    BY <1>2, <1>3, <1>4, <1>5, <2>1 DEF PhotosOf, Present
  <2>2. ASSUME NEW k \in Id, k \in pending[t], i # c
        PROVE  k \notin PhotosOf(i)' /\ k \notin PhotosOf(i)
    BY <1>2, <1>3, <1>4, <2>2 DEF PhotosOf, Present
  <2>3. ASSUME NEW k \in Id, k \notin pending[t]
        PROVE  k \in PhotosOf(i)' <=> k \in PhotosOf(i)
    BY <1>3, <2>3 DEF PhotosOf, Present
  <2> QED
    BY <2>1, <2>2, <2>3
<1>7. PhotosOf(i)' = PhotosOf(i)
  BY <1>6 DEF PhotosOf, Present
<1>8. ASSUME NEW k \in PhotosOf(i)
      PROVE  photos'[k].uploaded = (photos[k].uploaded \/ k \in pending[t])
  <2>1. k \in Id /\ photos[k] \in Photo
    BY DEF PhotosOf, Present, TypeOK
  <2>2. photos[k].uploaded \in BOOLEAN
    BY <2>1, PhotoFields
  <2> QED
    BY <1>2, <1>3, <2>1, <2>2
<1> QED
  BY <1>7, <1>8

\* ... and no other step disturbs any.
LEMMA UndisturbedStep ==
    ASSUME TypeOK, QueueInv, PassInv, UploadInv, [Next]_vars
    PROVE  Undisturbed
<1>1. CASE Officer
  BY <1>1, OfficerUndisturbed
<1>2. ASSUME NEW t \in Tab, ClientStep(t)
      PROVE  Undisturbed
  <2>1. UNCHANGED <<used, touched>>
    BY <1>2, ClientFrame
  <2>2. \A i \in Id : ops[i] # None => SameText(i, ops'[i])
    BY <1>2, OpsWritten DEF Written
  <2>3. ASSUME NEW i \in Id \ touched'
        PROVE  /\ PhotosOf(i)' = PhotosOf(i)
               /\ \A k \in PhotosOf(i) : photos[k].uploaded => photos'[k].uploaded
    <3>1. CASE UNCHANGED photos
      BY <3>1 DEF PhotosOf, Present
    <3>2. CASE Upload(t)
      BY <2>1, <3>2, UploadKeeps
    <3> QED
      BY <1>2, <3>1, <3>2, PhotosWritten
  <2> QED
    BY <2>1, <2>2, <2>3 DEF Undisturbed
<1>3. ASSUME UNCHANGED <<used, ops, photos, touched>>
      PROVE  Undisturbed
  BY <1>3 DEF Undisturbed, SameText, PhotosOf, Present
<1>4. ASSUME NEW r \in Request, ServerStep(r)
      PROVE  Undisturbed
  BY <1>3, <1>4, ServerFrame DEF queue
<1>5. ASSUME NEW i \in Id, BackoffElapses(i)
      PROVE  Undisturbed
  BY <1>3, <1>5, BackoffFrame
<1>6. CASE UNCHANGED offline
  BY <1>3, <1>6 DEF offline, queue
<1> QED
  BY <1>1, <1>2, <1>4, <1>5, <1>6, Steps

-----------------------------------------------------------------------------
\* What was true of a row stays true of it: the primed forms, of the same row.
UnderWayNext(i, x) == i \notin touched' => ops'[i] # None /\ x.content = ops'[i].content
WholeNext(i, x) ==
    UnderWayNext(i, x) /\ (i \notin touched' => (x.photo <=> PhotosOf(i)' # {}))
ListedNext(i, x) == UnderWayNext(i, x) /\ (i \notin touched' => ~ x.textOnly)
FairNext(i, verdict) ==
    verdict # None /\ i \notin touched' =>
        /\ ops'[i] # None
        /\ verdict # "conflict"
        /\ verdict = "scan" => PhotosOf(i)' # {}

\* Such a row agrees with the queue after a step that disturbs nothing.
LEMMA Stays ==
    ASSUME Undisturbed, NEW i \in Id
    PROVE  /\ \A x : UnderWay(i, x) => UnderWayNext(i, x)
           /\ \A x : Whole(i, x) => WholeNext(i, x)
           /\ \A x : Listed(i, x) => ListedNext(i, x)
           /\ \A v : Fair(i, v) => FairNext(i, v)
<1>1. i \notin touched' => i \notin touched
  BY DEF Undisturbed
<1>2. i \notin touched' /\ ops[i] # None =>
          ops'[i] # None /\ ops'[i].content = ops[i].content /\ PhotosOf(i)' = PhotosOf(i)
  BY DEF Undisturbed, SameText
<1>3. \A x : UnderWay(i, x) => UnderWayNext(i, x)
  BY <1>1, <1>2 DEF UnderWay, UnderWayNext
<1>4. \A x : Whole(i, x) => WholeNext(i, x)
  BY <1>1, <1>2, <1>3 DEF Whole, WholeNext, UnderWay
<1>5. \A x : Listed(i, x) => ListedNext(i, x)
  BY <1>1, <1>3 DEF Listed, ListedNext
<1>6. \A v : Fair(i, v) => FairNext(i, v)
  BY <1>1, <1>2 DEF Fair, FairNext
<1> QED
  BY <1>3, <1>4, <1>5, <1>6

-----------------------------------------------------------------------------
\* Only the officer begins operations, with photos until he decides otherwise.
LEMMA NewOps ==
    ASSUME TypeOK, PassInv, [Next]_vars, NEW i \in Id, ops[i] = None, ops'[i] # None
    PROVE  ops'[i].state = "QUEUED" /\ ~ ops'[i].textOnly
<1>1. ASSUME NEW t \in Tab, ClientStep(t)
      PROVE  FALSE
  BY <1>1, OpsWritten
<1>2. ops' # ops
  OBVIOUS
<1>3. ASSUME NEW j \in Id, NEW unsaved \in BOOLEAN, QueueDraft(j, unsaved)
      PROVE  ops'[i].state = "QUEUED" /\ ~ ops'[i].textOnly
  <2> DEFINE op == [state |-> "QUEUED", content |-> drafts[j], textOnly |-> FALSE, attempts |-> 0]
  <2>1. ops' = [ops EXCEPT ![j] = op]
    BY <1>3 DEF QueueDraft
  <2>2. op.state = "QUEUED" /\ ~ op.textOnly
    OBVIOUS
  <2> HIDE DEF op
  <2> QED
    BY <2>1, <2>2 DEF TypeOK
<1>4. ASSUME NEW j \in Id, SendTextOnly(j) \/ DiscardOperation(j) \/ \E n \in Id : ReopenAs(j, n)
      PROVE  FALSE
  BY <1>4 DEF SendTextOnly, DiscardOperation, ReopenAs, InState, TypeOK
<1>5. CASE Officer
  BY <1>2, <1>3, <1>4, <1>5 DEF Officer, NewDraft, EditDraft, Autosave
<1>6. ASSUME NEW r \in Request, ServerStep(r)
      PROVE  FALSE
  BY <1>2, <1>6, ServerFrame DEF queue
<1>7. ASSUME NEW j \in Id, BackoffElapses(j)
      PROVE  FALSE
  BY <1>2, <1>7, BackoffFrame
<1>8. CASE UNCHANGED offline
  BY <1>2, <1>8 DEF offline, queue
<1> QED
  BY <1>1, <1>5, <1>6, <1>7, <1>8, Steps

\* Photos are of reports begun.
LEMMA PhotosOfUsed ==
    ASSUME TypeOK, QueueInv, PassInv, UploadInv, [Next]_vars, NEW k \in Id, photos'[k] # None
    PROVE  k \in used'
<1>1. photos[k] # None => k \in used
  BY DEF QueueInv
<1>2. used \subseteq used'
  BY UndisturbedStep DEF Undisturbed
<1>3. CASE Officer
  <2>1. CASE \E p \in BOOLEAN : NewDraft(p)
    BY <1>1, <2>1 DEF NewDraft, TypeOK
  <2>2. CASE \E i \in Id, unsaved \in BOOLEAN : QueueDraft(i, unsaved)
    BY <1>1, <1>2, <2>2 DEF QueueDraft, DraftPhotosOf, Present
  <2>3. CASE \E i, j \in Id : ReopenAs(i, j)
    BY <1>1, <1>2, <2>3 DEF ReopenAs, PhotosOf, Present
  <2>4. CASE \E i \in Id : EditDraft(i) \/ Autosave(i) \/ SendTextOnly(i) \/ DiscardOperation(i)
    BY <1>1, <1>2, <2>4 DEF EditDraft, Autosave, SendTextOnly, DiscardOperation
  <2> QED
    BY <1>3, <2>1, <2>2, <2>3, <2>4 DEF Officer
<1>4. ASSUME NEW t \in Tab, ClientStep(t)
      PROVE  k \in used'
  <2>1. CASE UNCHANGED photos
    BY <1>1, <1>2, <2>1
  <2>2. CASE Upload(t)
    BY <1>1, <1>2, <2>2 DEF Upload, UploadInv, PendingOf
  <2> QED
    BY <1>4, <2>1, <2>2, PhotosWritten
<1>5. ASSUME UNCHANGED photos
      PROVE  k \in used'
  BY <1>1, <1>2, <1>5
<1>6. ASSUME NEW r \in Request, ServerStep(r)
      PROVE  UNCHANGED photos
  BY <1>6, ServerFrame DEF queue
<1>7. ASSUME NEW j \in Id, BackoffElapses(j)
      PROVE  UNCHANGED photos
  BY <1>7, BackoffFrame
<1>8. UNCHANGED offline => UNCHANGED photos
  BY DEF offline, queue
<1> QED
  BY <1>3, <1>4, <1>5, <1>6, <1>7, <1>8, Steps

\* The queue's photos are of reports begun, and without the officer none is text only.
LEMMA QueueStep ==
    ASSUME TypeOK, QueueInv, PassInv, UploadInv, [Next]_vars
    PROVE  QueueInv'
<1>1. \A k \in Id : photos'[k] # None => k \in used'
  BY PhotosOfUsed
<1>2. ASSUME NEW i \in Id \ touched', ops'[i] # None
      PROVE  ~ ops'[i].textOnly
  <2>1. CASE ops[i] = None
    BY <1>2, <2>1, NewOps
  <2>2. CASE ops[i] # None
    BY <1>2, <2>2, UndisturbedStep DEF Undisturbed, SameText, QueueInv
  <2> QED
    BY <2>1, <2>2
<1> QED
  BY <1>1, <1>2 DEF QueueInv

-----------------------------------------------------------------------------
\* What a pass lists it reads from the queue.
LEMMA ListWritten ==
    ASSUME TypeOK, PassInv, NEW t \in Tab, ClientStep(t), NEW u \in Tab, NEW i \in Id
    PROVE  /\ \/ due'[u][i] = None
              \/ due'[u][i] = due[u][i]
              \/ due'[u][i] = ops[i]
              \/ due[u][i] # None /\ due'[u][i] = Refreshed(u, i)
           /\ \/ ready'[u][i] = None
              \/ ready'[u][i] = ready[u][i]
              \/ /\ Mark(t) /\ due[t][i] # None
                 /\ ready'[u][i] = [content  |-> due[t][i].content,
                                    photo    |-> /\ ~ Refreshed(t, i).textOnly
                                                 /\ \E k \in PhotosOf(i) : photos[k].uploaded,
                                    attempts |-> Refreshed(t, i).attempts]
                 /\ i = Current(t)
<1> USE DEF TypeOK
<1>1. CASE StartPass(t) \/ (\E j \in Id : Resume(t, j)) \/ Upload(t)
  BY <1>1 DEF StartPass, Resume, Upload
<1>2. CASE \E force \in BOOLEAN : TakeDue(t, force)
  BY <1>2 DEF TakeDue
<1>3. CASE BeginUpload(t)
  <2>1. Current(t) \in Id /\ due[t][Current(t)] # None
    BY <1>3, CurrentIsDue DEF BeginUpload
  <2>2. due' = [due EXCEPT ![t][Current(t)] = Refreshed(t, Current(t))] /\ ready' = ready
    BY <1>3 DEF BeginUpload
  <2> QED
    BY <2>1, <2>2
<1>4. CASE Mark(t)
  <2> DEFINE c == Current(t)
             item(j) == [content  |-> due[t][j].content,
                         photo    |-> /\ ~ Refreshed(t, j).textOnly
                                      /\ \E k \in PhotosOf(j) : photos[k].uploaded,
                         attempts |-> Refreshed(t, j).attempts]
  <2>1. c \in Id /\ due[t][c] # None
    BY <1>4, CurrentIsDue DEF Mark, PassInv, PassOf
  <2>2. due' = [due EXCEPT ![t][c] = None] /\ ready' = [ready EXCEPT ![t][c] = item(c)]
    BY <1>4 DEF Mark
  <2> HIDE DEF item
  <2>3. due'[u][i] \in {None, due[u][i]}
    BY <2>1, <2>2
  <2>4. ready'[u][i] = ready[u][i] \/ (u = t /\ i = c /\ ready'[u][i] = item(i))
    BY <2>1, <2>2
  <2> QED
    BY <1>4, <2>1, <2>3, <2>4 DEF item
<1>5. CASE Send(t) \/ Receive(t) \/ EndPass(t)
  BY <1>5 DEF Send, Receive, EndPass, session
<1>6. CASE Apply(t)
  <2>1. due' = due /\ \E j \in Id : ready' = [ready EXCEPT ![t][j] = None]
    BY <1>6, Applying DEF Apply
  <2> QED
    BY <2>1
<1>7. ASSUME Forget(t)
      PROVE  due'[u][i] \in {None, due[u][i]} /\ ready'[u][i] \in {None, ready[u][i]}
  BY <1>7 DEF Forget, Nothing
<1>8. CASE \E s \in CallFailure : UploadFails(t, s)
  <2>1. CASE Forget(t)
    BY <1>7, <2>1
  <2>2. CASE due' = [due EXCEPT ![t][Current(t)] = None] /\ ready' = ready
    BY <2>2
  <2> QED
    BY <1>8, <2>1, <2>2 DEF UploadFails
<1>9. CASE (\E s \in CallFailure : BatchFails(t, s)) \/ LoseAnswer(t)
  BY <1>9 DEF BatchFails, LoseAnswer
<1>10. CASE Throw(t) \/ CloseTab(t)
  BY <1>7, <1>10 DEF Throw, CloseTab
<1> QED
  BY <1>1, <1>2, <1>3, <1>4, <1>5, <1>6, <1>8, <1>9, <1>10 DEF ClientStep, Pass

\* A record the pass goes on with has the text the queue has.
LEMMA RefreshedText ==
    ASSUME TypeOK, QueueInv, PassInv, ListedInv, Undisturbed, QueueInv', TypeOK',
           NEW t \in Tab, NEW i \in Id, due[t][i] # None
    PROVE  ListedNext(i, Refreshed(t, i)) /\ Refreshed(t, i).content = due[t][i].content
<1>1. Listed(i, due[t][i]) /\ due[t][i] \in Op
  BY DEF ListedInv, TypeOK
<1>2. ListedNext(i, due[t][i])
  BY <1>1, Stays
<1>3. CASE ops[i] = None
  BY <1>2, <1>3 DEF Refreshed
<1>4. CASE ops[i] # None /\ i \notin touched'
  <2>1. ops'[i] # None /\ ops'[i] \in Op
    BY <1>4 DEF Undisturbed, SameText, TypeOK
  <2>2. ~ ops'[i].textOnly
    BY <1>4, <2>1 DEF QueueInv
  <2> DEFINE x == [ops'[i] EXCEPT !.content = due[t][i].content]
  <2>3. x.content = due[t][i].content /\ x.textOnly = ops'[i].textOnly
    BY <1>1, <2>1, OpFields, OpWithContent
  <2>4. Refreshed(t, i) = x
    BY <1>4 DEF Refreshed
  <2> HIDE DEF x
  <2> QED
    BY <1>2, <2>2, <2>3, <2>4 DEF ListedNext, UnderWayNext
<1>5. CASE ops[i] # None /\ i \in touched'
  <2>1. Refreshed(t, i).content = due[t][i].content
    BY <1>1, <1>5 DEF Refreshed
  <2> QED
    BY <1>5, <2>1 DEF ListedNext, UnderWayNext
<1> QED
  BY <1>3, <1>5, <1>4

\* The item a pass has ready says whether there is a photo.
LEMMA MarkedWhole ==
    ASSUME TypeOK, QueueInv, PassInv, ListedInv, UploadInv, Undisturbed, QueueInv', TypeOK',
           NEW t \in Tab, Mark(t), NEW i \in Id, i = Current(t), due[t][i] # None, NEW x,
           x.content = due[t][i].content,
           x.photo <=> /\ ~ Refreshed(t, i).textOnly
                       /\ \E k \in PhotosOf(i) : photos[k].uploaded
    PROVE  WholeNext(i, x)
<1>1. ListedNext(i, Refreshed(t, i)) /\ Refreshed(t, i).content = due[t][i].content
  BY RefreshedText
<1>2. UnderWayNext(i, x)
  BY <1>1 DEF ListedNext, UnderWayNext
<1>3. ASSUME i \notin touched'
      PROVE  x.photo <=> PhotosOf(i)' # {}
  <2>1. i \notin touched /\ ops[i] # None /\ ~ due[t][i].textOnly
    BY <1>3 DEF ListedInv, Listed, UnderWay, Undisturbed
  <2>2. PhotosOf(i)' = PhotosOf(i)
    BY <1>3, <2>1 DEF Undisturbed
  <2>3. \A k \in PhotosOf(i) : photos[k].uploaded
    <3>1. CASE pc[t] = "uploaded"
      BY <2>1, <3>1 DEF UploadInv, UploadedBy
    <3>2. CASE Pending(t) = {}
      BY <2>1, <3>2 DEF Pending
    <3> QED
      BY <3>1, <3>2 DEF Mark
  <2>4. ~ Refreshed(t, i).textOnly
    BY <1>1, <1>3 DEF ListedNext
  <2> QED
    BY <2>2, <2>3, <2>4
<1> QED
  BY <1>2, <1>3 DEF WholeNext

\* What the passes have listed and have ready agrees with the queue.
LEMMA ListedStep ==
    ASSUME TypeOK, QueueInv, PassInv, ListedInv, UploadInv, [Next]_vars, TypeOK', QueueInv'
    PROVE  ListedInv'
<1>0. Undisturbed
  BY UndisturbedStep
<1>1. ASSUME UNCHANGED <<due, ready>>, NEW u \in Tab, NEW i \in Id
      PROVE  /\ due'[u][i] # None => ListedNext(i, due'[u][i])
             /\ ready'[u][i] # None => WholeNext(i, ready'[u][i])
  BY <1>0, <1>1, Stays DEF ListedInv
<1>2. ASSUME NEW t \in Tab, ClientStep(t), NEW u \in Tab, NEW i \in Id, due'[u][i] # None
      PROVE  ListedNext(i, due'[u][i])
  <2>1. CASE due'[u][i] = due[u][i]
    BY <1>0, <1>2, <2>1, Stays DEF ListedInv
  <2>2. CASE due'[u][i] = ops[i]
    BY <1>0, <1>2, <2>2 DEF ListedNext, UnderWayNext, Undisturbed, SameText, QueueInv
  <2>3. CASE due[u][i] # None /\ due'[u][i] = Refreshed(u, i)
    BY <1>0, <2>3, RefreshedText
  <2> QED
    BY <1>2, <2>1, <2>2, <2>3, ListWritten
<1>3. ASSUME NEW t \in Tab, ClientStep(t), NEW u \in Tab, NEW i \in Id, ready'[u][i] # None
      PROVE  WholeNext(i, ready'[u][i])
  <2> DEFINE p == /\ ~ Refreshed(t, i).textOnly
                  /\ \E k \in PhotosOf(i) : photos[k].uploaded
             item == [content  |-> due[t][i].content, photo |-> p,
                      attempts |-> Refreshed(t, i).attempts]
  <2>1. CASE ready'[u][i] = ready[u][i]
    BY <1>0, <1>3, <2>1, Stays DEF ListedInv
  <2>2. ASSUME Mark(t), due[t][i] # None, i = Current(t)
        PROVE  WholeNext(i, item)
    <3>1. item.content = due[t][i].content
      OBVIOUS
    <3>2. item.photo <=> p
      OBVIOUS
    <3> HIDE DEF item
    <3> QED
      BY <1>0, <2>2, <3>1, <3>2, MarkedWhole
  <2>3. ready'[u][i] \in {None, ready[u][i]}
        \/ (Mark(t) /\ due[t][i] # None /\ i = Current(t) /\ ready'[u][i] = item)
    BY <1>3, ListWritten
  <2> HIDE DEF item
  <2> QED
    BY <1>3, <2>1, <2>2, <2>3
<1>4. ASSUME NEW u \in Tab, NEW i \in Id
      PROVE  /\ due'[u][i] # None => ListedNext(i, due'[u][i])
             /\ ready'[u][i] # None => WholeNext(i, ready'[u][i])
  <2>1. ASSUME NEW t \in Tab, ClientStep(t)
        PROVE  /\ due'[u][i] # None => ListedNext(i, due'[u][i])
               /\ ready'[u][i] # None => WholeNext(i, ready'[u][i])
    BY <1>2, <1>3, <2>1
  <2>2. Officer => UNCHANGED <<due, ready>>
    BY OfficerFrame DEF session
  <2>3. ASSUME NEW r \in Request, ServerStep(r)
        PROVE  UNCHANGED <<due, ready>>
    BY <2>3, ServerFrame DEF session
  <2>4. ASSUME NEW j \in Id, BackoffElapses(j)
        PROVE  UNCHANGED <<due, ready>>
    BY <2>4, BackoffFrame DEF session
  <2>5. UNCHANGED offline => UNCHANGED <<due, ready>>
    BY DEF offline, session
  <2> QED
    BY <1>1, <2>1, <2>2, <2>3, <2>4, <2>5, Steps
<1> QED
  BY <1>4 DEF ListedInv, Listed, Whole, UnderWay, ListedNext, WholeNext, UnderWayNext

-----------------------------------------------------------------------------
\* A step of a tab leaves what the other tabs hold.
LEMMA OtherTabs ==
    ASSUME TypeOK, PassInv, NEW t \in Tab, ClientStep(t), NEW u \in Tab \ {t}
    PROVE  /\ pc'[u] = pc[u] /\ due'[u] = due[u] /\ pending'[u] = pending[u]
           /\ ready'[u] = ready[u] /\ request'[u] = request[u] /\ answer'[u] = answer[u]
<1> USE DEF TypeOK, session
<1>1. CASE \/ StartPass(t) \/ \E i \in Id : Resume(t, i)
           \/ \E force \in BOOLEAN : TakeDue(t, force)
           \/ BeginUpload(t) \/ Upload(t) \/ Mark(t)
  BY <1>1 DEF StartPass, Resume, TakeDue, BeginUpload, Upload, Mark
<1>2. CASE Send(t) \/ Receive(t) \/ Apply(t) \/ EndPass(t)
  BY <1>2 DEF Send, Receive, Apply, EndPass
<1>3. CASE Throw(t) \/ (\E s \in CallFailure : UploadFails(t, s) \/ BatchFails(t, s)) \/ LoseAnswer(t) \/ CloseTab(t)
  BY <1>3 DEF Throw, UploadFails, BatchFails, LoseAnswer, CloseTab, Forget
<1> QED
  BY <1>1, <1>2, <1>3 DEF ClientStep, Pass

\* A batch somebody waits for stays until the answer comes, and none of its items
\* gets lost.
Kept(r) ==
    /\ stage'[r] # "free"
    /\ \A i \in Id : todo[r][i] # None \/ verdicts[r][i] # None
                     => todo'[r][i] # None \/ verdicts'[r][i] # None

\* The server keeps it so, ...
LEMMA ServerKeeps ==
    ASSUME TypeOK, BatchInv, NEW q \in Request, ServerStep(q), NEW r \in Request,
           Awaited(r), stage[r] # "free"
    PROVE  Kept(r)
<1>0. /\ stage \in [Request -> {"free", "sent", "uncached", "new", "known", "answered"}]
      /\ todo \in [Request -> [Id -> Item \cup {None}]]
      /\ verdicts \in [Request -> [Id -> Verdict \cup {None}]]
  BY DEF TypeOK
<1>1. ASSUME NEW i \in Id, NEW v \in Verdict, Answered(q, i, v)
      PROVE  Kept(r)
  <2>1. v # None
    BY NoneIsNothing
  <2> QED
    BY <1>0, <1>1, <2>1 DEF Answered, Kept
<1>2. ASSUME NEW s \in {"uncached", "new", "known", "answered"}, stage' = [stage EXCEPT ![q] = s],
             UNCHANGED <<todo, verdicts>>
      PROVE  Kept(r)
  BY <1>0, <1>2 DEF Kept
<1>3. ASSUME q # r, Freed(q)
      PROVE  Kept(r)
  BY <1>0, <1>3 DEF Freed, Kept
<1>4. CASE Lookup(q)
  BY <1>1, <1>2, <1>4, ServerHandles DEF Lookup, Verdict
<1>5. CASE Find(q)
  BY <1>1, <1>2, <1>5, ServerHandles DEF Find, Verdict
<1>6. CASE \E v \in {"rejected", "scan"} : RefuseItem(q, v)
  BY <1>1, <1>6, ServerHandles DEF RefuseItem, Verdict
<1>7. CASE Insert(q)
  BY <1>1, <1>7, ServerHandles DEF Insert, Verdict
<1>8. CASE Finish(q)
  BY <1>2, <1>8 DEF Finish
<1>9. CASE Drop(q) \/ Vanish(q)
  BY <1>3, <1>9 DEF Drop, Vanish
<1> QED
  BY <1>4, <1>5, <1>6, <1>7, <1>8, <1>9 DEF ServerStep, Serve

\* ... and so do the other tabs.
LEMMA ClientKeeps ==
    ASSUME TypeOK, PassInv, NEW t \in Tab, ClientStep(t), NEW u \in Tab \ {t}, request[u] # None
    PROVE  Kept(request[u])
<1>1. /\ request[u] \in Request /\ stage[request[u]] # "free"
      /\ request[t] # request[u]
  BY DEF TypeOK, PassInv, PassOf
<1>2. CASE Send(t)
  <2>1. PICK q \in Request : /\ stage[q] = "free"
                             /\ stage' = [stage EXCEPT ![q] = "sent"]
                             /\ todo' = [todo EXCEPT ![q] = ready[t]]
                             /\ verdicts' = verdicts
    BY <1>2 DEF Send
  <2>2. q # request[u]
    BY <1>1, <2>1
  <2> QED
    BY <1>1, <2>1, <2>2 DEF Kept, TypeOK
<1>3. CASE Receive(t) \/ \E s \in CallFailure : BatchFails(t, s)
  <2>1. Freed(request[t])
    BY <1>3 DEF Receive, BatchFails
  <2> QED
    BY <1>1, <2>1 DEF Freed, Kept, TypeOK
<1>4. CASE UNCHANGED server
  BY <1>1, <1>4 DEF server, Kept
<1> QED
  BY <1>2, <1>3, <1>4, BatchWriters

\* What a pass knows after a step of another, ...
LEMMA PassKept ==
    ASSUME TypeOK, PassInv, NEW u \in Tab,
           pc'[u] = pc[u] /\ due'[u] = due[u] /\ ready'[u] = ready[u],
           request'[u] = request[u] /\ answer'[u] = answer[u],
           request[u] # None => /\ Kept(request[u])
                                /\ \A t \in Tab \ {u} : request'[t] # request[u]
    PROVE  PassOf(u)'
<1>1. Present(due[u])' = Present(due[u])
  BY DEF Present
<1>2. PassOf(u)
  BY DEF PassInv
<1> QED
  BY <1>1, <1>2 DEF PassOf, Kept

\* ... and after a step of its own.
LEMMA OwnPass ==
    ASSUME TypeOK, PassInv, BatchInv, NEW t \in Tab, ClientStep(t)
    PROVE  PassOf(t)'
<1>0. /\ PassOf(t)
      /\ pc \in [Tab -> {"idle", "resuming", "preparing", "uploading", "uploaded",
                         "waiting", "applying"}]
      /\ due \in [Tab -> [Id -> Op \cup {None}]]
      /\ ready \in [Tab -> [Id -> Item \cup {None}]]
      /\ request \in [Tab -> Request \cup {None}]
      /\ answer \in [Tab -> [Id -> Verdict \cup CallFailure \cup {None}]]
  BY DEF TypeOK, PassInv
<1>1. ASSUME pc[t] # "waiting", pc'[t] \in {"idle", "resuming", "preparing"},
             request'[t] \in {request[t], None}
      PROVE  PassOf(t)'
  BY <1>0, <1>1 DEF PassOf
<1>2. ASSUME pc'[t] = "idle", request'[t] = None
      PROVE  PassOf(t)'
  BY <1>2 DEF PassOf
<1>3. CASE StartPass(t) \/ (\E i \in Id : Resume(t, i)) \/ (\E force \in BOOLEAN : TakeDue(t, force))
  BY <1>0, <1>1, <1>3 DEF StartPass, Resume, TakeDue
<1>4. CASE BeginUpload(t)
  <2>1. Current(t) \in Id /\ due[t][Current(t)] \in Op
    BY <1>0, <1>4, CurrentIsDue DEF BeginUpload
  <2>2. /\ pc[t] = "preparing" /\ pc' = [pc EXCEPT ![t] = "uploading"] /\ request' = request
        /\ due' = [due EXCEPT ![t][Current(t)] = Refreshed(t, Current(t))]
    BY <1>4 DEF BeginUpload
  <2>3. Refreshed(t, Current(t)) # None
    BY <1>4, <2>1, RefreshedIsOp, NoneIsNothing DEF BeginUpload, OpState
  <2>4. Present(due'[t]) # {}
    BY <1>0, <2>1, <2>2, <2>3 DEF Present
  <2> QED
    BY <1>0, <2>2, <2>4 DEF PassOf
<1>5. CASE Upload(t)
  <2>1. /\ pc[t] = "uploading" /\ pc'[t] = "uploaded" /\ UNCHANGED <<request, due>>
    BY <1>0, <1>5 DEF Upload
  <2>2. Present(due'[t]) # {}
    BY <1>0, <2>1 DEF PassOf
  <2> QED
    BY <1>0, <2>1, <2>2 DEF PassOf
<1>6. CASE Mark(t)
  BY <1>0, <1>1, <1>6 DEF Mark
<1>7. CASE Send(t)
  <2>1. PICK r \in Request :
            /\ stage[r] = "free"
            /\ stage' = [stage EXCEPT ![r] = "sent"]
            /\ todo' = [todo EXCEPT ![r] = ready[t]]
            /\ request' = [request EXCEPT ![t] = r]
    BY <1>7 DEF Send
  <2>2. pc'[t] = "waiting" /\ ready' = ready
    BY <1>0, <1>7 DEF Send
  <2>3. request'[t] = r /\ r # None /\ stage'[r] # "free" /\ todo'[r] = ready[t]
    BY <1>0, <2>1, NoneIsNothing DEF TypeOK
  <2>4. \A u \in Tab \ {t} : request'[u] # r
    BY <1>0, <2>1, <2>3 DEF PassInv, PassOf
  <2> QED
    BY <2>2, <2>3, <2>4 DEF PassOf
<1>8. ASSUME pc'[t] = "applying", request'[t] = None, ready' = ready,
             \A i \in Id : ready[t][i] # None => answer'[t][i] # None
      PROVE  PassOf(t)'
  BY <1>8 DEF PassOf
<1>9. CASE Receive(t)
  <2>1. /\ pc[t] = "waiting" /\ pc'[t] = "applying" /\ request'[t] = None /\ ready' = ready
        /\ answer'[t] = verdicts[request[t]] /\ stage[request[t]] = "answered"
    BY <1>0, <1>9 DEF Receive
  <2>2. request[t] \in Request
    BY <1>0, <2>1 DEF PassOf
  <2>3. Present(todo[request[t]]) = {}
    BY <2>1, <2>2 DEF BatchInv, Progress
  <2>4. \A i \in Id : ready[t][i] # None => verdicts[request[t]][i] # None
    BY <1>0, <2>2, <2>3, NoneIsNothing DEF PassOf, Present
  <2> QED
    BY <1>8, <2>1, <2>4
<1>10. CASE Apply(t)
  <2>1. PICK j \in Id : /\ pc[t] = "applying"
                        /\ ready' = [ready EXCEPT ![t][j] = None]
                        /\ answer' = [answer EXCEPT ![t][j] = None]
    BY <1>10, Applying
  <2>2. pc' = pc /\ request' = request
    BY <1>10 DEF Apply
  <2>3. \A i \in Id : ready'[t][i] # None => answer'[t][i] # None
    BY <1>0, <2>1 DEF PassOf
  <2> QED
    BY <1>0, <2>1, <2>2, <2>3 DEF PassOf
<1>11. CASE EndPass(t)
  BY <1>0, <1>1, <1>11 DEF EndPass, session
<1>12. Forget(t) => PassOf(t)'
  BY <1>0, <1>2 DEF Forget
<1>13. ASSUME NEW s \in CallFailure, UploadFails(t, s)
       PROVE  PassOf(t)'
  <2>1. CASE Forget(t)
    BY <1>12, <2>1
  <2>2. CASE pc' = [pc EXCEPT ![t] = "preparing"] /\ request' = request
    BY <1>0, <1>1, <1>13, <2>2 DEF UploadFails
  <2> QED
    BY <1>13, <2>1, <2>2 DEF UploadFails
<1>14. CASE (\E s \in CallFailure : BatchFails(t, s)) \/ LoseAnswer(t)
  <2>1. PICK s \in CallFailure :
            /\ answer' = [answer EXCEPT ![t] = [i \in Id |-> IF ready[t][i] = None THEN None ELSE s]]
            /\ request' = [request EXCEPT ![t] = None]
            /\ pc' = [pc EXCEPT ![t] = "applying"]
            /\ ready' = ready
    BY <1>14 DEF BatchFails, LoseAnswer, CallFailure
  <2>2. s # None
    BY NoneIsNothing
  <2> QED
    BY <1>0, <1>8, <2>1, <2>2
<1>15. CASE Throw(t) \/ CloseTab(t)
  BY <1>12, <1>15 DEF Throw, CloseTab
<1> QED
  BY <1>3, <1>4, <1>5, <1>6, <1>7, <1>9, <1>10, <1>11, <1>12, <1>13, <1>14, <1>15
  DEF ClientStep, Pass

\* Every pass waits for a batch of its own.
LEMMA PassStep ==
    ASSUME TypeOK, PassInv, BatchInv, [Next]_vars
    PROVE  PassInv'
<1>1. ASSUME NEW t \in Tab, ClientStep(t), NEW u \in Tab
      PROVE  PassOf(u)'
  <2>1. CASE u = t
    BY <1>1, <2>1, OwnPass
  <2>2. CASE u # t
    <3>1. \A v \in Tab \ {t} : request'[v] = request[v]
      BY <1>1, OtherTabs
    <3>2. request[u] # None => request'[t] # request[u]
      BY <1>1, <2>2, <3>1, OwnPass, NoneIsNothing DEF PassOf
    <3>3. request[u] # None => \A v \in Tab \ {u} : request'[v] # request[u]
      BY <2>2, <3>1, <3>2 DEF PassInv, PassOf
    <3>4. request[u] # None => Kept(request[u])
      BY <1>1, <2>2, ClientKeeps
    <3> QED
      BY <1>1, <2>2, <3>3, <3>4, OtherTabs, PassKept
  <2> QED
    BY <2>1, <2>2
<1>2. ASSUME UNCHANGED <<pc, session>>, NEW u \in Tab,
             request[u] # None => Kept(request[u])
      PROVE  PassOf(u)'
  <2>1. /\ pc'[u] = pc[u] /\ due'[u] = due[u] /\ ready'[u] = ready[u]
        /\ request' = request /\ answer'[u] = answer[u]
    BY <1>2 DEF session
  <2>2. request[u] # None => \A v \in Tab \ {u} : request'[v] # request[u]
    BY <2>1 DEF PassInv, PassOf
  <2> QED
    BY <1>2, <2>1, <2>2, PassKept
<1>3. ASSUME NEW r \in Request, ServerStep(r), NEW u \in Tab
      PROVE  PassOf(u)'
  <2>1. request[u] # None => /\ request[u] \in Request /\ stage[request[u]] # "free"
                             /\ Awaited(request[u])
    BY DEF TypeOK, PassInv, PassOf, Awaited
  <2> QED
    BY <1>2, <1>3, <2>1, ServerKeeps, ServerFrame
<1>4. ASSUME UNCHANGED <<pc, session, server>>, NEW u \in Tab
      PROVE  PassOf(u)'
  <2>1. request[u] # None => stage[request[u]] # "free"
    BY DEF PassInv, PassOf
  <2>2. UNCHANGED <<stage, todo, verdicts>>
    BY <1>4 DEF server
  <2> QED
    BY <1>2, <1>4, <2>1, <2>2 DEF Kept
<1>5. Officer => UNCHANGED <<pc, session, server>>
  BY OfficerFrame
<1>6. \A i \in Id : BackoffElapses(i) => UNCHANGED <<pc, session, server>>
  BY BackoffFrame
<1>7. UNCHANGED offline => UNCHANGED <<pc, session, server>>
  BY DEF offline
<1> QED
  BY <1>1, <1>3, <1>4, <1>5, <1>6, <1>7, Steps DEF PassInv

-----------------------------------------------------------------------------
\* What the officer takes back or a tab uploads stays a photo of the same report, or
\* of one the officer has intervened on.
LEMMA OfWritten ==
    ASSUME TypeOK, QueueInv, PassInv, UploadInv, [Next]_vars, NEW c \in Id, NEW k \in used,
           photos[k] # None => photos[k].of \in {c} \cup touched, photos'[k] # None
    PROVE  photos'[k].of \in {c} \cup touched'
<1>0. k \in Id /\ touched \subseteq touched'
  BY UndisturbedStep DEF TypeOK, Undisturbed
<1>1. CASE UNCHANGED photos
  BY <1>0, <1>1
<1>2. ASSUME NEW p \in BOOLEAN, NewDraft(p)
      PROVE  photos'[k].of \in {c} \cup touched'
  <2> DEFINE n == First(Id \ used)
  <2>1. n \in Id \ used
    <3>1. Id \ used \in SUBSET Id /\ Id \ used # {}
      BY <1>2 DEF NewDraft, TypeOK
    <3> QED
      BY <3>1, FirstIn
  <2>2. photos' = photos \/ \E shot : photos' = [photos EXCEPT ![n] = shot]
    BY <1>2 DEF NewDraft
  <2> HIDE DEF n
  <2>3. photos'[k] = photos[k]
    BY <1>0, <2>1, <2>2 DEF TypeOK
  <2> QED
    BY <1>0, <2>3
<1>3. ASSUME NEW i \in Id, NEW unsaved \in BOOLEAN, QueueDraft(i, unsaved)
      PROVE  photos'[k].of \in {c} \cup touched'
  <2>1. photos'[k] = IF k \in DraftPhotosOf(i) THEN [photos[k] EXCEPT !.queued = TRUE] ELSE photos[k]
    BY <1>0, <1>3 DEF QueueDraft
  <2>2. k \in DraftPhotosOf(i) => photos[k] \in Photo
    BY <1>0 DEF DraftPhotosOf, Present, TypeOK
  <2>3. photos[k] # None /\ photos'[k].of = photos[k].of
    BY <2>1, <2>2, PhotoFields
  <2> QED
    BY <1>0, <2>3
<1>4. ASSUME NEW i \in Id, NEW n \in Id, ReopenAs(i, n)
      PROVE  photos'[k].of \in {c} \cup touched'
  <2>1. photos'[k] = IF k \in PhotosOf(i)
                     THEN [of |-> n, queued |-> FALSE, uploaded |-> photos[k].uploaded /\ n = i]
                     ELSE photos[k]
    BY <1>0, <1>4 DEF ReopenAs
  <2>2. n \in touched'
    BY <1>4 DEF ReopenAs
  <2> QED
    BY <1>0, <2>1, <2>2
<1>5. ASSUME NEW i \in Id, DiscardOperation(i)
      PROVE  photos'[k].of \in {c} \cup touched'
  BY <1>0, <1>5 DEF DiscardOperation
<1>6. CASE Officer
  BY <1>1, <1>2, <1>3, <1>4, <1>5, <1>6 DEF Officer, EditDraft, Autosave, SendTextOnly
<1>7. ASSUME NEW t \in Tab, Upload(t)
      PROVE  photos'[k].of \in {c} \cup touched'
  <2>1. photos'[k] = IF k \in pending[t] THEN [of |-> Current(t), queued |-> TRUE, uploaded |-> TRUE]
                     ELSE photos[k]
    BY <1>0, <1>7 DEF Upload
  <2>2. ASSUME k \in pending[t]
        PROVE  Current(t) \in {c} \cup touched
    <3>1. PendingOf(t)
      BY <1>7 DEF Upload, UploadInv
    <3>2. Current(t) \notin touched => photos[k] # None /\ photos[k].of = Current(t)
      BY <2>2, <3>1 DEF PendingOf, PhotosOf, Present
    <3> QED
      BY <3>2
  <2> QED
    BY <1>0, <2>1, <2>2
<1>8. ASSUME NEW t \in Tab, ClientStep(t)
      PROVE  photos'[k].of \in {c} \cup touched'
  BY <1>1, <1>7, <1>8, PhotosWritten
<1>9. \A r \in Request : ServerStep(r) => UNCHANGED photos
  BY ServerFrame DEF queue
<1>10. \A i \in Id : BackoffElapses(i) => UNCHANGED photos
  BY BackoffFrame
<1>11. UNCHANGED offline => UNCHANGED photos
  BY DEF offline, queue
<1> QED
  BY <1>1, <1>6, <1>8, <1>9, <1>10, <1>11, Steps

\* Only these steps of a tab make it wait for uploads.
LEMMA Uploading ==
    ASSUME TypeOK, PassInv, NEW t \in Tab, ClientStep(t)
    PROVE  BeginUpload(t) \/ Upload(t) \/ pc'[t] \notin {"uploading", "uploaded"}
<1> USE DEF TypeOK
<1>1. CASE StartPass(t) \/ (\E i \in Id : Resume(t, i)) \/ (\E force \in BOOLEAN : TakeDue(t, force))
           \/ Mark(t)
  BY <1>1 DEF StartPass, Resume, TakeDue, Mark
<1>2. CASE Send(t) \/ Receive(t) \/ Apply(t) \/ EndPass(t)
  BY <1>2 DEF Send, Receive, Apply, EndPass
<1>3. CASE Throw(t) \/ (\E s \in CallFailure : UploadFails(t, s) \/ BatchFails(t, s)) \/ LoseAnswer(t)
           \/ CloseTab(t)
  BY <1>3 DEF Throw, UploadFails, BatchFails, LoseAnswer, CloseTab, Forget
<1> QED
  BY <1>1, <1>2, <1>3 DEF ClientStep, Pass

\* While a pass keeps its list, what it knows of the photos stays true, ...
LEMMA UploadsKept ==
    ASSUME TypeOK, QueueInv, PassInv, ListedInv, UploadInv, [Next]_vars, NEW u \in Tab,
           pc'[u] = pc[u] /\ due'[u] = due[u] /\ pending'[u] = pending[u]
    PROVE  /\ pc'[u] = "uploading" => PendingOf(u)'
           /\ pc'[u] = "uploaded" => UploadedBy(u)'
<1>0. Current(u)' = Current(u)
  BY DEF Current, Present
<1> SUFFICES ASSUME pc[u] \in {"uploading", "uploaded"}
             PROVE  /\ pc[u] = "uploading" => PendingOf(u)'
                    /\ pc[u] = "uploaded" => UploadedBy(u)'
  OBVIOUS
<1>1. PICK c \in Id : c = Current(u) /\ due[u][c] # None
  BY CurrentIsDue DEF PassInv, PassOf
<1>2. touched \subseteq touched' /\ used \subseteq used'
  BY UndisturbedStep DEF Undisturbed
<1>3. ASSUME c \notin touched'
      PROVE  /\ PhotosOf(c)' = PhotosOf(c)
             /\ \A k \in PhotosOf(c) : photos[k].uploaded => photos'[k].uploaded
  <2>1. ops[c] # None
    BY <1>1, <1>2, <1>3 DEF ListedInv, Listed, UnderWay
  <2> QED
    BY <1>1, <1>3, <2>1, UndisturbedStep DEF Undisturbed
<1>4. ASSUME pc[u] = "uploading"
      PROVE  PendingOf(u)'
  <2>1. /\ \A k \in pending[u] :
              /\ k \in used
              /\ photos[k] # None => photos[k].of \in {c} \cup touched
              /\ c \notin touched => k \in PhotosOf(c)
        /\ c \notin touched => \A k \in PhotosOf(c) \ pending[u] : photos[k].uploaded
    BY <1>1, <1>4 DEF UploadInv, PendingOf
  <2>2. ASSUME NEW k \in pending[u]
        PROVE  /\ k \in used'
               /\ photos'[k] # None => photos'[k].of \in {c} \cup touched'
               /\ c \notin touched' => k \in PhotosOf(c)'
    BY <1>1, <1>2, <1>3, <2>1, OfWritten
  <2>3. c \notin touched' => \A k \in PhotosOf(c)' \ pending'[u] : photos'[k].uploaded
    BY <1>2, <1>3, <2>1
  <2> QED
    BY <1>0, <1>1, <2>2, <2>3 DEF PendingOf
<1>5. ASSUME pc[u] = "uploaded"
      PROVE  UploadedBy(u)'
  <2>1. c \notin touched => \A k \in PhotosOf(c) : photos[k].uploaded
    BY <1>1, <1>5 DEF UploadInv, UploadedBy
  <2>2. c \notin touched' => \A k \in PhotosOf(c)' : photos'[k].uploaded
    BY <1>2, <1>3, <2>1
  <2> QED
    BY <1>0, <1>1, <2>2 DEF UploadedBy
<1> QED
  BY <1>4, <1>5

\* ... it knows it when it begins an upload, ...
LEMMA UploadBegun ==
    ASSUME TypeOK, QueueInv, ListedInv, NEW t \in Tab, BeginUpload(t)
    PROVE  PendingOf(t)'
<1>1. PICK c \in Id : c = Current(t) /\ due[t][c] # None
  BY CurrentIsDue DEF BeginUpload
<1>2. /\ due' = [due EXCEPT ![t][c] = Refreshed(t, c)]
      /\ pending' = [pending EXCEPT ![t] = Pending(t)]
      /\ ops' = Moved(c, "UPLOADING_MEDIA")
      /\ UNCHANGED <<used, photos, touched>>
  BY <1>1 DEF BeginUpload
<1>3. Refreshed(t, c) # None
  BY <1>1, <1>2, RefreshedIsOp, NoneIsNothing DEF OpState, TypeOK
<1>4. \A i \in Id : due'[t][i] # None <=> due[t][i] # None
  BY <1>1, <1>2, <1>3 DEF TypeOK
<1>5. Present(due[t])' = Present(due[t])
  BY <1>4 DEF Present
<1>6. Current(t)' = c
  BY <1>1, <1>5 DEF Current
<1>7. PhotosOf(c)' = PhotosOf(c)
  BY <1>2 DEF PhotosOf, Present
<1>8. pending'[t] = Pending(t) /\ Pending(t) \subseteq PhotosOf(c)
  BY <1>1, <1>2 DEF Pending, TypeOK
<1>9. \A k \in PhotosOf(c) : k \in used /\ photos[k].of = c
  BY DEF PhotosOf, Present, QueueInv
<1>10. c \notin touched => \A k \in PhotosOf(c) \ Pending(t) : photos[k].uploaded
  <2>1. c \notin touched => ~ due[t][c].textOnly
    BY <1>1 DEF ListedInv, Listed
  <2> QED
    BY <1>1, <2>1 DEF Pending
<1> QED
  BY <1>2, <1>6, <1>7, <1>8, <1>9, <1>10 DEF PendingOf

\* ... and when it has uploaded, all are.
LEMMA UploadEnded ==
    ASSUME TypeOK, PassInv, UploadInv, NEW t \in Tab, Upload(t)
    PROVE  UploadedBy(t)'
<1>1. PICK c \in Id : c = Current(t)
  BY CurrentIsDue DEF Upload, PassInv, PassOf
<1>2. Current(t)' = c /\ touched' = touched
  BY <1>1 DEF Upload, Current, Present
<1>3. PendingOf(t)
  BY DEF Upload, UploadInv
<1>4. ASSUME c \notin touched
      PROVE  \A k \in PhotosOf(c)' : photos'[k].uploaded
  <2>1. /\ PhotosOf(c)' = PhotosOf(c)
        /\ \A k \in PhotosOf(c) : photos'[k].uploaded = (photos[k].uploaded \/ k \in pending[t])
    BY <1>4, UploadKeeps
  <2>2. \A k \in PhotosOf(c) \ pending[t] : photos[k].uploaded
    BY <1>1, <1>3, <1>4 DEF PendingOf
  <2> QED
    BY <2>1, <2>2
<1> QED
  BY <1>2, <1>4 DEF UploadedBy

\* What the passes know of the photos stays true.
LEMMA UploadStep ==
    ASSUME TypeOK, QueueInv, PassInv, ListedInv, UploadInv, [Next]_vars
    PROVE  UploadInv'
<1>1. ASSUME NEW t \in Tab, ClientStep(t), NEW u \in Tab
      PROVE  /\ pc'[u] = "uploading" => PendingOf(u)'
             /\ pc'[u] = "uploaded" => UploadedBy(u)'
  <2>1. CASE u # t
    BY <1>1, <2>1, OtherTabs, UploadsKept
  <2>2. ASSUME u = t, BeginUpload(t)
        PROVE  PendingOf(u)' /\ pc'[u] = "uploading"
    BY <2>2, UploadBegun DEF BeginUpload, TypeOK
  <2>3. ASSUME u = t, Upload(t)
        PROVE  UploadedBy(u)' /\ pc'[u] = "uploaded"
    BY <2>3, UploadEnded DEF Upload, TypeOK
  <2> QED
    BY <1>1, <2>1, <2>2, <2>3, Uploading
<1>2. ASSUME UNCHANGED <<pc, session>>, NEW u \in Tab
      PROVE  /\ pc'[u] = "uploading" => PendingOf(u)'
             /\ pc'[u] = "uploaded" => UploadedBy(u)'
  BY <1>2, UploadsKept DEF session
<1>3. Officer => UNCHANGED <<pc, session>>
  BY OfficerFrame
<1>4. \A r \in Request : ServerStep(r) => UNCHANGED <<pc, session>>
  BY ServerFrame
<1>5. \A i \in Id : BackoffElapses(i) => UNCHANGED <<pc, session>>
  BY BackoffFrame
<1>6. UNCHANGED offline => UNCHANGED <<pc, session>>
  BY DEF offline
<1> QED
  BY <1>1, <1>2, <1>3, <1>4, <1>5, <1>6, Steps DEF UploadInv

-----------------------------------------------------------------------------
\* The progress of the batches: of the one a step is about, and of the others.
LEMMA ProgressOthers ==
    ASSUME BatchInv, NEW q \in Request, stage'[q] = stage[q], todo'[q] = todo[q],
           drafted'[q] = drafted[q], verdicts'[q] = verdicts[q]
    PROVE  Progress(q)'
  BY DEF BatchInv, Progress, Present

\* A batch that leaves the server has nothing to handle, ...
LEMMA FreedProgress ==
    ASSUME TypeOK, BatchInv, NEW r \in Request, Freed(r), NEW q \in Request
    PROVE  Progress(q)'
<1>1. CASE q = r
  <2>1. todo'[r] = Nothing /\ drafted'[r] = Nothing /\ verdicts'[r] = Nothing /\ stage'[r] = "free"
    BY DEF Freed, TypeOK
  <2>2. Present(Nothing) = {}
    BY DEF Present, Nothing
  <2>3. Present(todo[r])' = {} /\ Present(drafted[r])' = {} /\ Present(verdicts[r])' = {}
    BY <2>1, <2>2 DEF Present
  <2> QED
    BY <1>1, <2>1, <2>3 DEF Progress
<1>2. CASE q # r
  BY <1>2, ProgressOthers DEF Freed, TypeOK
<1> QED
  BY <1>1, <1>2

\* ... one with an item answered goes on, ...
LEMMA AnsweredProgress ==
    ASSUME TypeOK, BatchInv, NEW r \in Request, NEW i \in Id, NEW v, Answered(r, i, v),
           \A q \in Request \ {r} : drafted'[q] = drafted[q], NEW q \in Request
    PROVE  Progress(q)'
<1>1. CASE q = r
  BY <1>1 DEF Answered, TypeOK, Progress
<1>2. CASE q # r
  BY <1>2, ProgressOthers DEF Answered, TypeOK
<1> QED
  BY <1>1, <1>2

\* ... and no step of the server leaves a batch without progress, ...
LEMMA ServerProgress ==
    ASSUME TypeOK, BatchInv, NEW r \in Request, ServerStep(r), NEW q \in Request
    PROVE  Progress(q)'
<1>1. ASSUME NEW s \in {"uncached", "new", "known"}, stage' = [stage EXCEPT ![r] = s],
             UNCHANGED <<todo, drafted, verdicts>>, Present(todo[r]) # {}
      PROVE  Progress(q)'
  <2>1. CASE q = r
    <3>1. stage'[r] = s /\ Present(todo[r])' # {}
      BY <1>1 DEF TypeOK, Present
    <3> QED
      BY <2>1, <3>1 DEF Progress
  <2>2. CASE q # r
    BY <1>1, <2>2, ProgressOthers DEF TypeOK
  <2> QED
    BY <2>1, <2>2
<1>2. CASE Lookup(r)
  BY <1>1, <1>2, ServerHandles, AnsweredProgress DEF Lookup
<1>3. CASE Find(r)
  <2>1. Present(todo[r]) # {}
    BY <1>3 DEF Find, BatchInv, Progress
  <2> QED
    BY <1>1, <1>3, <2>1, ServerHandles, AnsweredProgress DEF Find
<1>4. CASE \E v \in {"rejected", "scan"} : RefuseItem(r, v)
  BY <1>4, ServerHandles, AnsweredProgress DEF RefuseItem
<1>5. CASE Insert(r)
  <2>1. Handling(r) \in Id /\ \E v : Answered(r, Handling(r), v)
    BY <1>5, ServerHandles DEF Insert
  <2>2. \A p \in Request \ {r} : drafted'[p] = drafted[p]
    BY <1>5 DEF Insert, TypeOK
  <2> QED
    BY <2>1, <2>2, AnsweredProgress
<1>6. CASE Finish(r)
  <2>1. /\ stage' = [stage EXCEPT ![r] = "answered"]
        /\ drafted' = [drafted EXCEPT ![r] = Nothing]
        /\ UNCHANGED <<todo, verdicts>> /\ Present(todo[r]) = {}
    BY <1>6 DEF Finish
  <2>2. CASE q = r
    <3>1. stage'[r] = "answered" /\ drafted'[r] = Nothing /\ Present(todo[r])' = {}
      BY <2>1 DEF TypeOK, Present
    <3>2. Present(drafted[r])' = {}
      BY <3>1 DEF Present, Nothing
    <3> QED
      BY <2>2, <3>1, <3>2 DEF Progress
  <2>3. CASE q # r
    BY <2>1, <2>3, ProgressOthers DEF TypeOK
  <2> QED
    BY <2>2, <2>3
<1>7. CASE Drop(r) \/ Vanish(r)
  BY <1>7, FreedProgress DEF Drop, Vanish
<1> QED
  BY <1>2, <1>3, <1>4, <1>5, <1>6, <1>7 DEF ServerStep, Serve

\* ... nor does a tab.
LEMMA ClientProgress ==
    ASSUME TypeOK, PassInv, BatchInv, NEW t \in Tab, ClientStep(t), NEW q \in Request
    PROVE  Progress(q)'
<1>1. CASE Send(t)
  <2>1. PICK r \in Request : /\ stage' = [stage EXCEPT ![r] = "sent"]
                             /\ todo' = [todo EXCEPT ![r] = ready[t]]
                             /\ UNCHANGED <<drafted, verdicts>>
    BY <1>1 DEF Send
  <2>2. CASE q = r
    BY <2>1, <2>2 DEF Progress, TypeOK
  <2>3. CASE q # r
    BY <2>1, <2>3, ProgressOthers DEF TypeOK
  <2> QED
    BY <2>2, <2>3
<1>2. CASE Receive(t) \/ \E s \in CallFailure : BatchFails(t, s)
  <2>1. request[t] \in Request /\ Freed(request[t])
    BY <1>2 DEF Receive, BatchFails, PassInv, PassOf, TypeOK
  <2> QED
    BY <2>1, FreedProgress
<1>3. CASE UNCHANGED server
  BY <1>3, ProgressOthers DEF server
<1> QED
  BY <1>1, <1>2, <1>3, BatchWriters

-----------------------------------------------------------------------------
\* What a batch says of an id, after a step.
RowNext(r, i) ==
    /\ todo'[r][i] # None => WholeNext(i, todo'[r][i])
    /\ drafted'[r][i] # None =>
          /\ WholeNext(i, drafted'[r][i])
          /\ i \notin results'
          /\ \A q \in Request \ {r} : drafted'[q][i] = None
    /\ FairNext(i, verdicts'[r][i])
    /\ RoutesCommit /\ verdicts'[r][i] = "stored" => drafted'[r][i] # None \/ i \in results'

\* It stays true of a batch that loses items or reports, ...
LEMMA RowKept ==
    ASSUME TypeOK, BatchInv, Undisturbed, NEW r \in Request, NEW i \in Id, UNCHANGED results,
           todo'[r][i] \in {todo[r][i], None}, drafted'[r][i] = drafted[r][i],
           verdicts'[r][i] = verdicts[r][i],
           \A q \in Request : drafted'[q][i] \in {drafted[q][i], None}
    PROVE  RowNext(r, i)
<1>1. Row(r, i)
  BY DEF BatchInv
<1>2. /\ \A x : Whole(i, x) => WholeNext(i, x)
      /\ \A v : Fair(i, v) => FairNext(i, v)
  BY Stays
<1> QED
  BY <1>1, <1>2 DEF Row, RowNext

\* ... of one that leaves and of those that stay, ...
LEMMA FreedRows ==
    ASSUME TypeOK, BatchInv, Undisturbed, NEW r \in Request, Freed(r), UNCHANGED results,
           NEW q \in Request, NEW i \in Id
    PROVE  RowNext(q, i)
<1>1. \A p \in Request : drafted'[p][i] \in {drafted[p][i], None}
  BY DEF Freed, Nothing, TypeOK
<1>2. CASE q = r
  <2>1. todo'[r][i] = None /\ drafted'[r][i] = None /\ verdicts'[r][i] = None
    BY DEF Freed, Nothing, TypeOK
  <2> QED
    BY <1>2, <2>1, NoneIsNothing DEF RowNext, FairNext, Verdict
<1>3. CASE q # r
  BY <1>1, <1>3, RowKept DEF Freed, TypeOK
<1> QED
  BY <1>2, <1>3

\* ... and of one that answers an item truthfully.
LEMMA AnsweredRows ==
    ASSUME TypeOK, BatchInv, Undisturbed, NEW r \in Request, NEW j \in Id, NEW v,
           Answered(r, j, v), UNCHANGED <<drafted, results>>, FairNext(j, v),
           RoutesCommit /\ v = "stored" => j \in results,
           NEW q \in Request, NEW i \in Id
    PROVE  RowNext(q, i)
<1>1. CASE q = r /\ i = j
  <2>1. todo'[r][j] = None /\ verdicts'[r][j] = v
    BY DEF Answered, TypeOK
  <2>2. Row(r, j)
    BY DEF BatchInv
  <2>3. drafted'[r][j] # None => WholeNext(j, drafted'[r][j])
    BY <2>2, Stays DEF Row
  <2> QED
    BY <1>1, <2>1, <2>2, <2>3 DEF Row, RowNext
<1>2. CASE ~ (q = r /\ i = j)
  BY <1>2, RowKept DEF Answered, TypeOK
<1> QED
  BY <1>1, <1>2

\* An item that the server handles is about an operation in the queue.
LEMMA HandledWhole ==
    ASSUME TypeOK, BatchInv, NEW r \in Request,
           stage[r] \in {"uncached", "new", "known"} \/ Present(todo[r]) # {}
    PROVE  Whole(Handling(r), todo[r][Handling(r)])
  BY ServerHandles DEF BatchInv, Row

\* An answer from the cache is of a report that is stored.
LEMMA LookupRows ==
    ASSUME TypeOK, BatchInv, Undisturbed, NEW r \in Request, Lookup(r),
           NEW q \in Request, NEW i \in Id
    PROVE  RowNext(q, i)
<1> DEFINE j == Handling(r)
<1>1. j \in Id /\ Whole(j, todo[r][j]) /\ UNCHANGED <<drafted, results>>
  BY ServerHandles, HandledWhole DEF Lookup, tables
<1>2. CASE Cached(j) /\ Answered(r, j, "stored")
  <2>1. Fair(j, "stored")
    BY <1>1 DEF Fair, Whole, UnderWay
  <2> HIDE DEF j
  <2>2. FairNext(j, "stored")
    BY <1>1, <2>1, Stays
  <2> QED
    BY <1>1, <1>2, <2>2, AnsweredRows DEF Cached
<1>3. CASE UNCHANGED <<todo, verdicts>>
  BY <1>1, <1>3, RowKept
<1> QED
  BY <1>2, <1>3 DEF Lookup

\* A conflict is told only of what the officer has intervened on.
LEMMA FindRows ==
    ASSUME TypeOK, BatchInv, TablesInv, Undisturbed, NEW r \in Request, Find(r),
           NEW q \in Request, NEW i \in Id
    PROVE  RowNext(q, i)
<1> DEFINE j == Handling(r)
<1>1. j \in Id /\ Whole(j, todo[r][j]) /\ UNCHANGED <<drafted, results>>
  BY ServerHandles, HandledWhole DEF Find, tables
<1>2. CASE Reported(j) /\ reports[j][1].content # todo[r][j].content /\ Answered(r, j, "conflict")
  <2>1. Whole(j, reports[j][1])
    BY <1>1, <1>2 DEF TablesInv, StoredOf, Reported
  <2>2. Fair(j, "conflict")
    BY <1>1, <1>2, <2>1 DEF Fair, Whole, UnderWay
  <2> HIDE DEF j
  <2>3. FairNext(j, "conflict")
    BY <1>1, <2>2, Stays
  <2> QED
    BY <1>1, <1>2, <2>3, AnsweredRows
<1>3. CASE UNCHANGED <<todo, verdicts>>
  BY <1>1, <1>3, RowKept
<1> QED
  BY <1>2, <1>3 DEF Find

\* The scan refuses only photos that are there.
LEMMA RefuseRows ==
    ASSUME TypeOK, BatchInv, Undisturbed, NEW r \in Request, NEW v \in {"rejected", "scan"},
           RefuseItem(r, v), NEW q \in Request, NEW i \in Id
    PROVE  RowNext(q, i)
<1> DEFINE j == Handling(r)
<1>1. /\ j \in Id /\ Whole(j, todo[r][j]) /\ UNCHANGED <<drafted, results>>
      /\ Answered(r, j, v) /\ (v = "scan" => todo[r][j].photo)
  BY ServerHandles, HandledWhole DEF RefuseItem, tables
<1>2. Fair(j, v)
  BY <1>1 DEF Fair, Whole, UnderWay
<1> HIDE DEF j
<1>3. FairNext(j, v)
  BY <1>1, <1>2, Stays
<1> QED
  BY <1>1, <1>3, AnsweredRows

\* Only one batch has a report of an id to commit, and none that is stored.
LEMMA InsertRows ==
    ASSUME TypeOK, BatchInv, Undisturbed, NEW r \in Request, Insert(r),
           NEW q \in Request, NEW i \in Id
    PROVE  RowNext(q, i)
<1> DEFINE j == Handling(r)
<1>1. /\ j \in Id /\ todo[r][j] \in Item /\ Whole(j, todo[r][j]) /\ UNCHANGED results
      /\ \A p \in Request \ {r} : drafted[p][j] = None
  BY ServerHandles, HandledWhole DEF Insert, tables
<1>2. Fair(j, "stored") /\ Fair(j, "rejected")
  BY <1>1 DEF Fair, Whole, UnderWay
<1> DEFINE row == Inserted(todo[r][j])
<1>3. row # None /\ Whole(j, row)
  BY <1>1, ReportOfItem DEF Whole, UnderWay
<1>4. \/ Cached(j) /\ Answered(r, j, "rejected") /\ UNCHANGED drafted
      \/ ~ Cached(j) /\ Answered(r, j, "stored") /\ drafted' = [drafted EXCEPT ![r][j] = row]
  BY DEF Insert
<1> HIDE DEF j, row
<1>5. FairNext(j, "stored") /\ FairNext(j, "rejected") /\ WholeNext(j, row)
  BY <1>1, <1>2, <1>3, Stays
<1>6. CASE Cached(j) /\ Answered(r, j, "rejected") /\ UNCHANGED drafted
  BY <1>1, <1>5, <1>6, AnsweredRows
<1>7. CASE ~ Cached(j) /\ Answered(r, j, "stored") /\ drafted' = [drafted EXCEPT ![r][j] = row]
  <2>1. /\ todo'[r][j] = None /\ verdicts'[r][j] = "stored" /\ drafted'[r][j] = row
        /\ \A p \in Request \ {r} : drafted'[p] = drafted[p] /\ todo'[p] = todo[p]
                                    /\ verdicts'[p] = verdicts[p]
        /\ \A k \in Id \ {j} : drafted'[r][k] = drafted[r][k] /\ todo'[r][k] = todo[r][k]
                               /\ verdicts'[r][k] = verdicts[r][k]
    BY <1>1, <1>7 DEF Answered, TypeOK
  <2>2. CASE i = j /\ q = r
    <3>1. j \notin results'
      BY <1>1, <1>7 DEF Cached
    <3>2. \A p \in Request \ {r} : drafted'[p][j] = None
      BY <1>1, <2>1
    <3> QED
      BY <1>3, <1>5, <2>1, <2>2, <3>1, <3>2 DEF RowNext
  <2>3. CASE i = j /\ q # r
    <3>1. Row(q, j)
      BY <1>1 DEF BatchInv
    <3>2. drafted'[q][j] = None
      BY <1>1, <2>1, <2>3
    <3>3. todo'[q][j] # None => WholeNext(j, todo'[q][j])
      BY <1>1, <2>1, <2>3, <3>1, Stays DEF Row
    <3>4. FairNext(j, verdicts'[q][j])
      BY <1>1, <2>1, <2>3, <3>1, Stays DEF Row
    <3>5. RoutesCommit /\ verdicts'[q][j] = "stored" => j \in results'
      BY <1>1, <2>1, <2>3, <3>1 DEF Row
    <3> QED
      BY <2>3, <3>2, <3>3, <3>4, <3>5 DEF RowNext
  <2>4. CASE i # j
    <3>1. \A p \in Request : drafted'[p][i] = drafted[p][i] /\ todo'[p][i] = todo[p][i]
                             /\ verdicts'[p][i] = verdicts[p][i]
      BY <2>1, <2>4
    <3> QED
      BY <1>1, <3>1, RowKept
  <2> QED
    BY <2>2, <2>3, <2>4
<1> QED
  BY <1>4, <1>6, <1>7

\* What a batch commits it has answered, and no other batch has.
LEMMA FinishRows ==
    ASSUME TypeOK, BatchInv, Undisturbed, NEW r \in Request, Finish(r),
           NEW q \in Request, NEW i \in Id
    PROVE  RowNext(q, i)
<1>1. /\ drafted' = [drafted EXCEPT ![r] = Nothing] /\ UNCHANGED <<todo, verdicts>>
      /\ \/ results' = results /\ ~ RoutesCommit
         \/ results' = results \cup Present(drafted[r])
  BY DEF Finish, tables
<1>2. /\ drafted'[r][i] = None
      /\ \A p \in Request \ {r} : drafted'[p] = drafted[p]
  BY <1>1 DEF Nothing, TypeOK
<1>3. Row(q, i)
  BY DEF BatchInv
<1>4. /\ todo'[q][i] # None => WholeNext(i, todo'[q][i])
      /\ FairNext(i, verdicts'[q][i])
      /\ drafted[q][i] # None => WholeNext(i, drafted[q][i])
  BY <1>1, <1>3, Stays DEF Row
<1>5. CASE q = r
  BY <1>1, <1>2, <1>3, <1>4, <1>5 DEF Row, RowNext, Present
<1>6. CASE q # r
  <2>1. drafted'[q][i] = drafted[q][i]
    BY <1>2, <1>6
  <2>2. drafted[q][i] # None => i \notin results'
    BY <1>1, <1>3, <1>6 DEF Row, Present
  <2>3. drafted[q][i] # None => \A p \in Request \ {q} : drafted'[p][i] = None
    BY <1>2, <1>3, <1>6 DEF Row
  <2>4. RoutesCommit /\ verdicts'[q][i] = "stored" => drafted'[q][i] # None \/ i \in results'
    BY <1>1, <1>3, <2>1 DEF Row
  <2> QED
    BY <1>4, <2>1, <2>2, <2>3, <2>4 DEF RowNext
<1> QED
  BY <1>5, <1>6

\* A batch sent holds what the pass has ready.
LEMMA ClientRows ==
    ASSUME TypeOK, PassInv, BatchInv, ListedInv, Undisturbed, NEW t \in Tab, ClientStep(t),
           NEW q \in Request, NEW i \in Id
    PROVE  RowNext(q, i)
<1>1. results' = results
  BY ClientFrame DEF tables
<1>2. CASE Send(t)
  <2>1. PICK r \in Request : /\ stage[r] = "free"
                             /\ todo' = [todo EXCEPT ![r] = ready[t]]
                             /\ UNCHANGED <<drafted, verdicts>>
    BY <1>2 DEF Send
  <2>2. CASE q = r
    <3>1. verdicts'[r][i] = None /\ drafted'[r][i] = None
      BY <2>1 DEF BatchInv, Progress, Present
    <3>2. todo'[r][i] = ready[t][i]
      BY <2>1 DEF TypeOK
    <3>3. ready[t][i] # None => WholeNext(i, ready[t][i])
      BY Stays DEF ListedInv
    <3> QED
      BY <2>2, <3>1, <3>2, <3>3, NoneIsNothing DEF RowNext, FairNext, Verdict
  <2>3. CASE q # r
    BY <1>1, <2>1, <2>3, RowKept DEF TypeOK
  <2> QED
    BY <2>2, <2>3
<1>3. CASE Receive(t) \/ \E s \in CallFailure : BatchFails(t, s)
  <2>1. request[t] \in Request /\ Freed(request[t])
    BY <1>3 DEF Receive, BatchFails, PassInv, PassOf, TypeOK
  <2> QED
    BY <1>1, <2>1, FreedRows
<1>4. CASE UNCHANGED server
  BY <1>1, <1>4, RowKept DEF server
<1> QED
  BY <1>2, <1>3, <1>4, BatchWriters

\* What the batches say stays true.
LEMMA BatchStep ==
    ASSUME TypeOK, QueueInv, PassInv, ListedInv, UploadInv, BatchInv, TablesInv, [Next]_vars
    PROVE  BatchInv'
<1>0. Undisturbed
  BY UndisturbedStep
<1>1. ASSUME NEW q \in Request, Progress(q)', \A i \in Id : RowNext(q, i)
      PROVE  Progress(q)' /\ \A i \in Id : Row(q, i)'
  BY <1>1 DEF Row, RowNext, Whole, WholeNext, UnderWay, UnderWayNext, Fair, FairNext
<1>2. ASSUME NEW t \in Tab, ClientStep(t)
      PROVE  \A q \in Request : Progress(q)' /\ \A i \in Id : RowNext(q, i)
  BY <1>0, <1>2, ClientProgress, ClientRows
<1>3. ASSUME NEW r \in Request, ServerStep(r), NEW q \in Request
      PROVE  Progress(q)' /\ \A i \in Id : RowNext(q, i)
  <2>1. Progress(q)'
    BY <1>3, ServerProgress
  <2>2. CASE Lookup(r) \/ Find(r) \/ Insert(r) \/ Finish(r)
    BY <1>0, <2>1, <2>2, LookupRows, FindRows, InsertRows, FinishRows
  <2>3. CASE \E v \in {"rejected", "scan"} : RefuseItem(r, v)
    BY <1>0, <2>1, <2>3, RefuseRows
  <2>4. CASE Drop(r) \/ Vanish(r)
    BY <1>0, <2>1, <2>4, FreedRows DEF Drop, Vanish, tables
  <2> QED
    BY <1>3, <2>2, <2>3, <2>4 DEF ServerStep, Serve
<1>4. ASSUME UNCHANGED <<server, tables>>, NEW q \in Request
      PROVE  Progress(q)' /\ \A i \in Id : RowNext(q, i)
  <2>1. UNCHANGED <<stage, todo, drafted, verdicts, results>>
    BY <1>4 DEF server, tables
  <2> QED
    BY <1>0, <2>1, ProgressOthers, RowKept
<1>5. Officer => UNCHANGED <<server, tables>>
  BY OfficerFrame
<1>6. \A i \in Id : BackoffElapses(i) => UNCHANGED <<server, tables>>
  BY BackoffFrame
<1>7. UNCHANGED offline => UNCHANGED <<server, tables>>
  BY DEF offline
<1>8. \A q \in Request : Progress(q)' /\ \A i \in Id : RowNext(q, i)
  BY <1>2, <1>3, <1>4, <1>5, <1>6, <1>7, Steps
<1> QED
  BY <1>1, <1>8 DEF BatchInv

-----------------------------------------------------------------------------
\* The results only grow.
LEMMA ResultsGrow ==
    ASSUME TypeOK, [Next]_vars
    PROVE  results \subseteq results'
<1>1. Officer => UNCHANGED tables
  BY OfficerFrame
<1>2. \A t \in Tab : ClientStep(t) => UNCHANGED tables
  BY ClientFrame
<1>3. \A r \in Request : ServerStep(r) => results \subseteq results'
  BY TablesWritten DEF tables
<1>4. \A i \in Id : BackoffElapses(i) => UNCHANGED tables
  BY BackoffFrame
<1>5. UNCHANGED offline => UNCHANGED tables
  BY DEF offline
<1> QED
  BY <1>1, <1>2, <1>3, <1>4, <1>5, Steps DEF tables

\* The answer a pass applies is the server's, or what it makes of a failed call.
LEMMA AnswerWritten ==
    ASSUME TypeOK, PassInv, NEW t \in Tab, ClientStep(t), NEW i \in Id
    PROVE  \/ answer'[t][i] \in {None, answer[t][i]}
           \/ /\ request[t] \in Request /\ stage[request[t]] = "answered"
              /\ answer'[t][i] = verdicts[request[t]][i]
           \/ ready[t][i] # None /\ answer'[t][i] \in CallFailure
<1> USE DEF TypeOK
<1>1. CASE StartPass(t) \/ (\E j \in Id : Resume(t, j)) \/ (\E force \in BOOLEAN : TakeDue(t, force))
  BY <1>1 DEF StartPass, Resume, TakeDue
<1>2. CASE BeginUpload(t) \/ Upload(t) \/ Mark(t) \/ Send(t) \/ EndPass(t)
  BY <1>2 DEF BeginUpload, Upload, Mark, Send, EndPass, session
<1>3. CASE Receive(t)
  BY <1>3 DEF Receive, PassInv, PassOf
<1>4. CASE Apply(t)
  <2>1. PICK j \in Id : answer' = [answer EXCEPT ![t][j] = None]
    BY <1>4, Applying
  <2> QED
    BY <2>1
<1>5. Forget(t) => answer'[t][i] = None
  BY DEF Forget, Nothing
<1>6. CASE Throw(t) \/ CloseTab(t)
  BY <1>5, <1>6 DEF Throw, CloseTab
<1>7. CASE \E s \in CallFailure : UploadFails(t, s)
  BY <1>5, <1>7 DEF UploadFails
<1>8. CASE (\E s \in CallFailure : BatchFails(t, s)) \/ LoseAnswer(t)
  <2>1. PICK s \in CallFailure :
            answer' = [answer EXCEPT ![t] = [j \in Id |-> IF ready[t][j] = None THEN None ELSE s]]
    BY <1>8 DEF BatchFails, LoseAnswer, CallFailure
  <2> QED
    BY <2>1
<1> QED
  BY <1>1, <1>2, <1>3, <1>4, <1>6, <1>7, <1>8 DEF ClientStep, Pass

\* The answers the passes apply stay true.
LEMMA AnswerStep ==
    ASSUME TypeOK, QueueInv, PassInv, ListedInv, UploadInv, BatchInv, AnswerInv, [Next]_vars
    PROVE  AnswerInv'
<1>0. Undisturbed /\ results \subseteq results'
  BY UndisturbedStep, ResultsGrow
<1>1. ASSUME NEW u \in Tab, NEW i \in Id, answer'[u][i] = answer[u][i]
      PROVE  /\ FairNext(i, answer'[u][i])
             /\ RoutesCommit /\ answer'[u][i] = "stored" => i \in results'
  BY <1>0, <1>1, Stays DEF AnswerInv
<1>2. ASSUME NEW t \in Tab, ClientStep(t), NEW u \in Tab, NEW i \in Id
      PROVE  /\ FairNext(i, answer'[u][i])
             /\ RoutesCommit /\ answer'[u][i] = "stored" => i \in results'
  <2>1. CASE u # t
    BY <1>1, <1>2, <2>1, OtherTabs
  <2>2. CASE answer'[t][i] = None
    BY <2>1, <2>2, NoneIsNothing DEF FairNext, Verdict
  <2>3. CASE request[t] \in Request /\ stage[request[t]] = "answered"
             /\ answer'[t][i] = verdicts[request[t]][i]
    <3>1. Row(request[t], i) /\ Present(drafted[request[t]]) = {}
      BY <2>3 DEF BatchInv, Progress
    <3>2. FairNext(i, answer'[t][i])
      BY <1>0, <2>3, <3>1, Stays DEF Row
    <3>3. RoutesCommit /\ answer'[t][i] = "stored" => i \in results'
      BY <1>0, <2>3, <3>1 DEF Row, Present
    <3> QED
      BY <2>1, <3>2, <3>3
  <2>4. CASE ready[t][i] # None /\ answer'[t][i] \in CallFailure
    <3>1. WholeNext(i, ready[t][i])
      BY <1>0, <2>4, Stays DEF ListedInv
    <3> QED
      BY <2>1, <2>4, <3>1 DEF FairNext, WholeNext, UnderWayNext, CallFailure
  <2> QED
    BY <1>1, <1>2, <2>1, <2>2, <2>3, <2>4, AnswerWritten
<1>3. Officer => UNCHANGED answer
  BY OfficerFrame DEF session
<1>4. \A r \in Request : ServerStep(r) => UNCHANGED answer
  BY ServerFrame DEF session
<1>5. \A i \in Id : BackoffElapses(i) => UNCHANGED answer
  BY BackoffFrame DEF session
<1>6. UNCHANGED offline => UNCHANGED answer
  BY DEF offline, session
<1>7. ASSUME NEW u \in Tab, NEW i \in Id
      PROVE  /\ FairNext(i, answer'[u][i])
             /\ RoutesCommit /\ answer'[u][i] = "stored" => i \in results'
  BY <1>1, <1>2, <1>3, <1>4, <1>5, <1>6, Steps
<1> QED
  BY <1>7 DEF AnswerInv, Fair, FairNext

-----------------------------------------------------------------------------
\* The tables keep one report of an id.
LEMMA TablesStep ==
    ASSUME TypeOK, QueueInv, PassInv, UploadInv, BatchInv, TablesInv, [Next]_vars
    PROVE  TablesInv'
<1>0. Undisturbed
  BY UndisturbedStep
<1>1. ASSUME NEW i \in Id, reports'[i] = reports[i], i \in results' <=> i \in results
      PROVE  StoredOf(i)'
  <2>1. StoredOf(i)
    BY DEF TablesInv
  <2>2. reports'[i] # <<>> => WholeNext(i, reports'[i][1])
    BY <1>0, <1>1, <2>1, Stays DEF StoredOf
  <2> QED
    BY <1>1, <2>1, <2>2 DEF StoredOf, Whole, UnderWay, WholeNext, UnderWayNext
<1>2. ASSUME NEW r \in Request, NEW i \in Id, drafted[r][i] # None,
             reports'[i] = Append(reports[i], drafted[r][i]), i \in results'
      PROVE  StoredOf(i)'
  <2>1. Whole(i, drafted[r][i]) /\ i \notin results
    BY <1>2 DEF BatchInv, Row
  <2>2. reports[i] = <<>>
    BY <2>1 DEF TablesInv, StoredOf
  <2>3. reports'[i] = <<drafted[r][i]>>
    BY <1>2, <2>2
  <2>4. Len(reports'[i]) = 1 /\ reports'[i][1] = drafted[r][i] /\ reports'[i] # <<>>
    BY <2>3
  <2>5. WholeNext(i, drafted[r][i])
    BY <1>0, <2>1, Stays
  <2> QED
    BY <1>2, <2>4, <2>5 DEF StoredOf, Whole, UnderWay, WholeNext, UnderWayNext
<1>3. ASSUME NEW r \in Request, ServerStep(r), NEW i \in Id
      PROVE  StoredOf(i)'
  <2>1. CASE UNCHANGED tables
    BY <1>1, <2>1 DEF tables
  <2>2. CASE /\ reports' = [j \in Id |-> IF drafted[r][j] = None THEN reports[j]
                                         ELSE Append(reports[j], drafted[r][j])]
             /\ results' = results \cup Present(drafted[r])
    <3>1. CASE drafted[r][i] = None
      BY <1>1, <2>2, <3>1 DEF Present
    <3>2. CASE drafted[r][i] # None
      BY <1>2, <2>2, <3>2 DEF Present
    <3> QED
      BY <3>1, <3>2
  <2> QED
    BY <1>3, <2>1, <2>2, TablesWritten
<1>4. UNCHANGED tables => \A i \in Id : StoredOf(i)'
  BY <1>1 DEF tables
<1>5. Officer => UNCHANGED tables
  BY OfficerFrame
<1>6. \A t \in Tab : ClientStep(t) => UNCHANGED tables
  BY ClientFrame
<1>7. \A i \in Id : BackoffElapses(i) => UNCHANGED tables
  BY BackoffFrame
<1>8. UNCHANGED offline => UNCHANGED tables
  BY DEF offline
<1> QED
  BY <1>3, <1>4, <1>5, <1>6, <1>7, <1>8, Steps DEF TablesInv

-----------------------------------------------------------------------------
\* The officer changes the state of an operation only by intervening on it.
LEMMA OfficerOps ==
    ASSUME TypeOK, Officer, NEW i \in Id \ touched', ops[i] # None
    PROVE  ops'[i] = ops[i]
<1>1. CASE (\E p \in BOOLEAN : NewDraft(p)) \/ (\E j \in Id : EditDraft(j) \/ Autosave(j))
  BY <1>1 DEF NewDraft, EditDraft, Autosave
<1>2. CASE \E j \in Id, unsaved \in BOOLEAN : QueueDraft(j, unsaved)
  BY <1>2 DEF QueueDraft, TypeOK
<1>3. CASE \E j \in Id : SendTextOnly(j) \/ DiscardOperation(j) \/ \E n \in Id : ReopenAs(j, n)
  BY <1>3 DEF SendTextOnly, DiscardOperation, ReopenAs, TypeOK
<1> QED
  BY <1>1, <1>2, <1>3 DEF Officer

\* How the state of an operation changes that the officer leaves alone.
LEMMA StateWritten ==
    ASSUME TypeOK, PassInv, [Next]_vars, NEW i \in Id \ touched', ops'[i] # None
    PROVE  \/ ops[i] = None /\ ops'[i].state = "QUEUED"
           \/ ops[i] # None /\ ops'[i] = ops[i]
           \/ ops[i] # None /\ \E t \in Tab : Written(t, i)
<1>1. CASE ops[i] = None
  BY <1>1, NewOps
<1>2. CASE ops[i] # None
  <2>1. CASE Officer
    BY <1>2, <2>1, OfficerOps
  <2>2. ASSUME NEW t \in Tab, ClientStep(t)
        PROVE  Written(t, i)
    BY <1>2, <2>2, OpsWritten
  <2>3. \A r \in Request : ServerStep(r) => UNCHANGED ops
    BY ServerFrame DEF queue
  <2>4. \A j \in Id : BackoffElapses(j) => UNCHANGED ops
    BY BackoffFrame
  <2>5. UNCHANGED offline => UNCHANGED ops
    BY DEF offline, queue
  <2> QED
    BY <1>2, <2>1, <2>2, <2>3, <2>4, <2>5, Steps
<1> QED
  BY <1>1, <1>2

\* What becomes SYNCED was answered so, ...
LEMMA SyncedStep ==
    ASSUME TypeOK, QueueInv, PassInv, UploadInv, AnswerInv, SyncedInv, [Next]_vars
    PROVE  SyncedInv'
<1>0. results \subseteq results' /\ touched \subseteq touched'
  BY ResultsGrow, UndisturbedStep DEF Undisturbed
<1>1. ASSUME RoutesCommit, NEW i \in Id \ touched', ops'[i] # None, ops'[i].state = "SYNCED"
      PROVE  i \in results'
  <2>1. CASE ops'[i] = ops[i]
    BY <1>0, <1>1, <2>1 DEF SyncedInv, InState
  <2>2. ASSUME NEW t \in Tab, Written(t, i), ops'[i] # ops[i]
        PROVE  i \in results'
    BY <1>0, <1>1, <2>2 DEF Written, AnswerInv
  <2> QED
    BY <1>1, <2>1, <2>2, StateWritten
<1> QED
  BY <1>1 DEF SyncedInv, InState

\* ... and what needs review has a photo that the scan did not clear.
LEMMA RetriesStep ==
    ASSUME TypeOK, QueueInv, PassInv, UploadInv, AnswerInv, RetriesDoNotConflict, [Next]_vars
    PROVE  RetriesDoNotConflict'
<1>0. touched \subseteq touched'
  BY UndisturbedStep DEF Undisturbed
<1>1. ASSUME NEW i \in Id \ touched', ops[i] # None
      PROVE  PhotosOf(i)' = PhotosOf(i)
  BY <1>1, UndisturbedStep DEF Undisturbed
<1>2. ASSUME NEW i \in Id \ touched', ops'[i] # None, ops'[i].state = "NEEDS_REVIEW"
      PROVE  ops'[i].attempts = ScanRetryLimit /\ PhotosOf(i)' # {}
  <2>1. CASE ops[i] # None /\ ops'[i] = ops[i]
    BY <1>0, <1>1, <1>2, <2>1 DEF RetriesDoNotConflict, InState
  <2>2. ASSUME ops[i] # None, NEW t \in Tab, Written(t, i), ops'[i] # ops[i]
        PROVE  ops'[i].attempts = ScanRetryLimit /\ PhotosOf(i)' # {}
    <3>1. \/ answer[t][i] = "conflict"
          \/ answer[t][i] = "scan" /\ ops'[i].attempts = ScanRetryLimit
      BY <1>2, <2>2 DEF Written
    <3>2. Fair(i, answer[t][i]) /\ i \notin touched
      BY <1>0, <1>2 DEF AnswerInv
    <3>3. answer[t][i] # None
      BY <3>1, NoneIsNothing DEF Verdict
    <3> QED
      BY <1>1, <1>2, <2>2, <3>1, <3>2, <3>3 DEF Fair
  <2> QED
    BY <1>2, <2>1, <2>2, StateWritten
<1> QED
  BY <1>2 DEF RetriesDoNotConflict, InState

-----------------------------------------------------------------------------
\* The invariant holds on an empty device.
LEMMA InitHolds == Init => IInv
<1> SUFFICES ASSUME Init
             PROVE  IInv
  OBVIOUS
<1>1. Present(Nothing) = {}
  BY DEF Present, Nothing
<1>2. /\ Nothing \in [Id -> Content \cup {None}] /\ Nothing \in [Id -> Op \cup {None}]
      /\ Nothing \in [Id -> Photo \cup {None}] /\ Nothing \in [Id -> Item \cup {None}]
      /\ Nothing \in [Id -> Verdict \cup CallFailure \cup {None}]
      /\ Nothing \in [Id -> Report \cup {None}] /\ Nothing \in [Id -> Verdict \cup {None}]
  BY DEF Nothing
<1>3. TypeOK
  BY <1>2, OfflineAssumption DEF Init, TypeOK
<1>4. QueueInv
  BY DEF Init, QueueInv, Nothing
<1>5. PassInv
  BY DEF Init, PassInv, PassOf
<1>6. ListedInv
  BY DEF Init, ListedInv, Nothing
<1>7. UploadInv
  BY DEF Init, UploadInv
<1>8. BatchInv
  <2>1. ASSUME NEW r \in Request
        PROVE  Progress(r)
    <3>1. Present(todo[r]) = {} /\ Present(verdicts[r]) = {} /\ Present(drafted[r]) = {} /\ stage[r] = "free"
      BY <1>1 DEF Init
    <3> QED
      BY <3>1 DEF Progress
  <2>2. ASSUME NEW r \in Request, NEW i \in Id
        PROVE  Row(r, i)
    BY NoneIsNothing DEF Init, Row, Fair, Nothing, Verdict
  <2> QED
    BY <2>1, <2>2 DEF BatchInv
<1>9. AnswerInv
  BY NoneIsNothing DEF Init, AnswerInv, Fair, Nothing, Verdict
<1>10. TablesInv
  BY DEF Init, TablesInv, StoredOf
<1>11. SyncedInv /\ RetriesDoNotConflict
  BY DEF Init, SyncedInv, RetriesDoNotConflict, InState, Nothing
<1> QED
  BY <1>3, <1>4, <1>5, <1>6, <1>7, <1>8, <1>9, <1>10, <1>11 DEF IInv

\* Every step keeps the invariant.
LEMMA NextKeeps ==
    ASSUME IInv, [Next]_vars
    PROVE  IInv'
<1> USE DEF IInv
<1>1. TypeOK'
  BY TypeStep
<1>2. QueueInv' /\ PassInv' /\ UploadInv'
  BY QueueStep, PassStep, UploadStep
<1>3. ListedInv'
  BY <1>1, <1>2, ListedStep
<1>4. BatchInv' /\ AnswerInv' /\ TablesInv'
  BY BatchStep, AnswerStep, TablesStep
<1>5. SyncedInv' /\ RetriesDoNotConflict'
  BY SyncedStep, RetriesStep
<1> QED
  BY <1>1, <1>2, <1>3, <1>4, <1>5

\* The passes, the batches and the tables agree with the queue on every operation
\* the officer leaves alone.
THEOREM Inductive == Spec => []IInv
<1>1. IInv /\ [Next]_vars => IInv'
  BY NextKeeps
<1> QED
  BY InitHolds, <1>1, PTL DEF Spec

\* A report is stored once and with its photo, and no retry looks like a conflict.
THEOREM ReportsStored == Spec => []ReportsAreSound
<1>1. IInv => ReportsAreSound
  <2> SUFFICES ASSUME IInv
               PROVE  ReportsAreSound
    OBVIOUS
  <2> USE DEF IInv
  <2>1. OneReportPerOperation
    BY DEF TablesInv, StoredOf, OneReportPerOperation
  <2>2. PhotoIsAttached
    BY DEF TablesInv, StoredOf, Whole, PhotoIsAttached
  <2> QED
    BY <2>1, <2>2 DEF ReportsAreSound
<1> QED
  BY <1>1, Inductive, PTL

\* If the routes commit, SYNCED means stored, with the text in the queue.
THEOREM SyncedStored ==
    ASSUME RoutesCommit = TRUE
    PROVE  Spec => []SyncedIsStored
<1>1. IInv => SyncedIsStored
  BY DEF IInv, SyncedInv, TablesInv, StoredOf, Whole, UnderWay, SyncedIsStored, InState
<1> QED
  BY <1>1, Inductive, PTL

\* SYNCED stays, unless the officer intervenes.
THEOREM SyncedStays == Spec => SyncedIsFinal
<1>1. IInv /\ [Next]_vars =>
          [\A i \in Id \ touched' :
              InState(i, {"SYNCED"}) => ops'[i] # None /\ ops'[i].state = "SYNCED"]_vars
  <2> SUFFICES ASSUME IInv, [Next]_vars, NEW i \in Id \ touched', InState(i, {"SYNCED"})
               PROVE  ops'[i] # None /\ ops'[i].state = "SYNCED"
    OBVIOUS
  <2>1. ops[i] # None /\ ops[i].state = "SYNCED"
    BY DEF InState
  <2>2. TypeOK /\ PassInv /\ Undisturbed
    BY UndisturbedStep DEF IInv
  <2>3. ops'[i] # None
    BY <2>1, <2>2 DEF Undisturbed, SameText
  <2>4. CASE ops'[i] = ops[i]
    BY <2>1, <2>3, <2>4
  <2>5. ASSUME NEW t \in Tab, Written(t, i), ops'[i] # ops[i]
        PROVE  ops'[i].state = "SYNCED"
    BY <2>1, <2>5 DEF Written, Allowed
  <2> QED
    BY <2>1, <2>2, <2>3, <2>4, <2>5, StateWritten
<1> QED
  BY <1>1, Inductive, PTL DEF Spec, SyncedIsFinal
=============================================================================
