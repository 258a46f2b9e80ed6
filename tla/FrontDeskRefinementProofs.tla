---------------------- MODULE FrontDeskRefinementProofs ----------------------
(***************************************************************************)
(* FrontDesk implements both abstract specifications, and each delivery    *)
(* above the retry ceiling has been paid for by a fault.                   *)
(*                                                                         *)
(* DeliveryContract: pgmq, the api and the consumer loop together keep the *)
(* queue's promise.  A message leaves only when its triage is committed,   *)
(* when its request is gone, or into the archive.                          *)
(*                                                                         *)
(* PublicPage: whatever the api, the workers, the staff and the purge do   *)
(* to the rows, /t/<token> and the landing page change only as it allows,  *)
(* so a reply is shown by a logged decision only.                          *)
(***************************************************************************)
EXTENDS FrontDeskProofs, FiniteSets, FiniteSetTheorems

USE StoreAssumption, WorkerAssumption, PurgeAssumption

\* Nothing is left to do for a message of r.
WorkDone(r) == Triaged(r) \/ ~Exists(r)

Busy == WorkerSteps \ {"down", "idle"}

BusyWithSent == \A w \in Workers : wk[w].pc \in Busy => queue[wk[w].msg].at # "unsent"

AckingIsDone == \A w \in Workers : wk[w].pc = "acking" => wk[w].msg \in Requests /\ WorkDone(wk[w].msg)

\* No verdict comes before the message.
UnsentIsUntriaged == \A r \in Requests : queue[r].at = "unsent" => ~Triaged(r)

DeliveryIInv ==
    RowIInv /\ BusyWithSent /\ AckingIsDone /\ UnsentIsUntriaged /\ AckedOnlyWhenTriaged

LEMMA DeliveryInit == Init => BusyWithSent /\ AckingIsDone /\ UnsentIsUntriaged /\ AckedOnlyWhenTriaged
  <1> SUFFICES ASSUME Init
               PROVE  BusyWithSent /\ AckingIsDone /\ UnsentIsUntriaged /\ AckedOnlyWhenTriaged
    OBVIOUS
  <1>1. \A w \in Workers : wk[w].pc = "idle"
    BY DEF Init, WorkerInit, Fresh
  <1>2. \A r \in Requests : queue[r].at = "unsent" /\ drafts[r] = {}
    BY DEF Init, StoreInit, Malformed, WorkerAssumption
  <1> QED BY <1>1, <1>2 DEF BusyWithSent, AckingIsDone, UnsentIsUntriaged, AckedOnlyWhenTriaged,
                            Triaged, Busy

LEMMA SentStays ==
    ASSUME QueueTypeOK, [Next]_vars, NEW m \in Messages, queue[m].at # "unsent"
    PROVE  queue'[m].at # "unsent"
  <1>1. ASSUME m \in Requests, enqueueRequest(m) PROVE FALSE
    BY <1>1 DEF enqueueRequest, send
  <1> QED BY <1>1, SentEffect

\* Once the message of r is sent, work that is done stays done.
LEMMA DoneStays ==
    ASSUME RowIInv, [Next]_vars, NEW r \in Requests, queue[r].at # "unsent", WorkDone(r)
    PROVE  WorkDone(r)'
  <1>0. LockIInv /\ TypeIInv
    BY DEF RowIInv, LockIInv
  <1>1. CASE ~Exists(r)'
    BY <1>1 DEF WorkDone
  <1>2. CASE Exists(r)'
    <2>1. ~insertRequest(r)
      BY DEF insertRequest, RowIInv, RowOrder
    <2>2. Exists(r) /\ Triaged(r)
      BY <1>0, <1>2, <2>1, ExistsEffect DEF WorkDone
    <2>3. drafts[r] \subseteq drafts'[r]
      BY <1>0, <1>2, HistoryStep
    <2> QED BY <2>2, <2>3 DEF Triaged, WorkDone
  <1> QED BY <1>1, <1>2

LEMMA BusyWithSentStep ==
    ASSUME RowIInv, BusyWithSent, [Next]_vars
    PROVE  BusyWithSent'
  <1>0. WorkerTypeOK /\ WorkerHoldsRequests /\ QueueTypeOK
    BY DEF RowIInv, LockIInv, TypeIInv, TypeInv, TypeOK
  <1> SUFFICES ASSUME NEW w \in Workers, wk'[w].pc \in Busy
               PROVE  queue'[wk'[w].msg].at # "unsent"
    BY DEF BusyWithSent
  <1>1. ASSUME wk[w].pc \in Busy, wk'[w].msg = wk[w].msg
        PROVE  queue'[wk'[w].msg].at # "unsent"
    <2>1. wk[w].msg \in Messages
      BY <1>0, <1>1 DEF WorkerHoldsRequests, Busy
    <2>2. queue[wk[w].msg].at # "unsent"
      BY <1>1 DEF BusyWithSent
    <2> QED BY <1>0, <1>1, <2>1, <2>2, SentStays
  <1>2. ASSUME NEW m \in Messages, Receive(w, m) PROVE queue'[wk'[w].msg].at # "unsent"
    <2>1. wk'[w].msg = m
      BY <1>0, <1>2 DEF Receive, Fresh, WorkerTypeOK
    <2>2. queue'[m].at = "leased"
      BY <1>0, <1>2 DEF Receive, receive, QueueTypeOK
    <2> QED BY <2>1, <2>2
  <1>3. wk[w].pc \in WorkerSteps
    BY <1>0 DEF WorkerTypeOK, WorkerStates
  <1> QED BY <1>0, <1>1, <1>2, <1>3, WorkerMoves DEF Moves, Busy

\* A worker comes to its ack by committing a verdict on the message it holds.
LEMMA AckingEffect ==
    ASSUME WorkerTypeOK, [Next]_vars, NEW w \in Workers, wk'[w].pc = "acking"
    PROVE  \/ wk'[w] = wk[w]
           \/ InsertAndCommit(w) /\ wk'[w].msg = wk[w].msg
  <1>1. ASSUME NEW v \in Workers, CommitResult(v) PROVE v = w => InsertAndCommit(w) /\ wk'[w].msg = wk[w].msg
    BY <1>1 DEF CommitResult, Goto, WorkerTypeOK, WorkerStates
  <1>2. ASSUME NEW v \in Workers, v # w, NEW x, wk' = [wk EXCEPT ![v] = x] PROVE wk'[w] = wk[w]
    BY <1>2 DEF WorkerTypeOK
  <1>3. CASE UNCHANGED wk
    BY <1>3
  <1>4. ASSUME NEW v \in Workers, NEW m \in Messages, Receive(v, m) PROVE wk'[w] = wk[w]
    BY <1>4 DEF Receive, Fresh, WorkerTypeOK
  <1>5. ASSUME NEW v \in Workers, Done(v) \/ Crash(v) PROVE wk'[w] = wk[w]
    BY <1>5 DEF Done, Crash, Fresh, WorkerTypeOK
  <1>6. ASSUME NEW v \in Workers, NEW step, step # "acking", Goto(v, step) PROVE wk'[w] = wk[w]
    BY <1>6 DEF Goto, WorkerTypeOK, WorkerStates
  <1>7. ASSUME NEW v \in Workers, Claim(v) PROVE wk'[w] = wk[w]
    BY <1>7 DEF Claim, WorkerTypeOK, WorkerStates
  <1>8. ASSUME NEW v \in Workers, NEW step, step # "acking", NEW status, NEW version,
               wk' = [wk EXCEPT ![v].pc = step, ![v].status = status, ![v].version = version]
        PROVE  wk'[w] = wk[w]
    <2>1. CASE v = w
      <3>1. wk'[w] = [wk[w] EXCEPT !.pc = step, !.status = status, !.version = version]
        BY <1>8, <2>1 DEF WorkerTypeOK
      <3>2. wk[w] \in WorkerStates
        BY DEF WorkerTypeOK
      <3>3. wk'[w].pc = step
        BY <3>1, <3>2 DEF WorkerStates
      <3> QED BY <1>8, <3>3
    <2>2. CASE v # w
      BY <1>8, <2>2 DEF WorkerTypeOK
    <2> QED BY <2>1, <2>2
  <1>9. ASSUME NEW v \in Workers, CommitResult(v), v # w PROVE wk'[w] = wk[w]
    BY <1>9 DEF CommitResult, Goto, WorkerTypeOK
  <1>10. ASSUME NEW v \in Workers, Start(v) \/ RequestNotFound(v) PROVE wk'[w] = wk[w]
    BY <1>6, <1>10 DEF Start, RequestNotFound
  <1>11. ASSUME NEW v \in Workers,
                PipelineRaises(v) \/ DuplicateVersion(v) \/ Rollback(v) \/ CommitReplyLost(v)
         PROVE  wk'[w] = wk[w]
    BY <1>8, <1>11 DEF PipelineRaises, DuplicateVersion, Rollback, CommitReplyLost
  <1>12. ASSUME NEW v \in Workers, NEW verdict, _write_result(v, verdict) PROVE wk'[w] = wk[w]
    BY <1>8, <1>12 DEF _write_result
  <1>13. ASSUME NEW v \in Workers, RejectMalformed(v) \/ Ack(v) \/ NackOrDeadLetter(v)
         PROVE  wk'[w] = wk[w]
    BY <1>5, <1>13 DEF RejectMalformed, Ack, NackOrDeadLetter
  <1>14. CASE WorkerNext
    BY <1>1, <1>3, <1>4, <1>5, <1>7, <1>9, <1>10, <1>11, <1>12, <1>13, <1>14
    DEF WorkerNext, WorkerStep, WorkerTrouble, LeaseRunsOut
  <1>15. CASE \E v \in Workers, s \in Staff : ResolveDeadlock(v, s)
    BY <1>3, <1>11, <1>15 DEF ResolveDeadlock
  <1> QED BY <1>3, <1>14, <1>15 DEF Next, Purge, vars, workerVars

LEMMA AckingIsDoneStep ==
    ASSUME RowIInv, BusyWithSent, AckingIsDone, [Next]_vars
    PROVE  AckingIsDone'
  <1>0. LockIInv /\ StoreTypeOK /\ WorkerTypeOK
    BY DEF RowIInv, LockIInv, TypeIInv, TypeInv, TypeOK
  <1> SUFFICES ASSUME NEW w \in Workers, NEW r, r = wk'[w].msg, wk'[w].pc = "acking"
               PROVE  r \in Requests /\ WorkDone(r)'
    BY DEF AckingIsDone
  <1>1. CASE wk'[w] = wk[w]
    <2>1. r \in Requests /\ WorkDone(r) /\ queue[r].at # "unsent"
      BY <1>1 DEF AckingIsDone, BusyWithSent, Busy, WorkerSteps
    <2> QED BY <2>1, DoneStays
  <1>2. CASE InsertAndCommit(w) /\ r = wk[w].msg
    <2>1. r \in Requests /\ VerdictDraft(w) \in drafts'[r]
      BY <1>0, <1>2, CommitEffect
    <2>2. VerdictDraft(w).author \in TriageAuthors
      BY DEF VerdictDraft, TriageAuthors
    <2> QED BY <2>1, <2>2 DEF Triaged, WorkDone
  <1> QED BY <1>0, <1>1, <1>2, AckingEffect

LEMMA UnsentIsUntriagedStep ==
    ASSUME RowIInv, BusyWithSent, UnsentIsUntriaged, [Next]_vars
    PROVE  UnsentIsUntriaged'
  <1>0. LockIInv /\ TypeIInv /\ StoreTypeOK /\ WorkerTypeOK /\ QueueTypeOK
    BY DEF RowIInv, LockIInv, TypeIInv, TypeInv, TypeOK
  <1> SUFFICES ASSUME NEW r \in Requests, queue'[r].at = "unsent", NEW d \in drafts'[r]
               PROVE  d.author \notin TriageAuthors
    BY DEF UnsentIsUntriaged, Triaged
  <1>1. queue[r].at = "unsent"
    BY <1>0, SentStays DEF WorkerAssumption
  <1>2. CASE d \in drafts[r]
    BY <1>1, <1>2 DEF UnsentIsUntriaged, Triaged
  <1>3. ASSUME NEW w \in Workers, InsertAndCommit(w) PROVE d \in drafts[r]
    <2>1. wk[w].msg # r
      BY <1>1, <1>3 DEF InsertAndCommit, BusyWithSent, Busy, WorkerSteps
    <2>2. drafts'[r] = drafts[r]
      BY <1>0, <1>3, <2>1, CommitEffect
    <2> QED BY <2>2
  <1>4. ASSUME NEW s \in Staff, resolveAndRecord(s), d \notin drafts[r]
        PROVE  d.author \notin TriageAuthors
    <2>1. st[s].kind = "edit" /\ d = st[s].reply
      BY <1>0, <1>4, ResolveEffect DEF CommittedDrafts
    <2>2. HasInserted(s)
      BY <1>4, <2>1 DEF resolveAndRecord, ReadyToWrite, HasInserted
    <2>3. d.author = s
      <3>1. st[s].reply = EditedDraft(s)
        BY <2>2, <1>0 DEF LockIInv, InsertsAreOwn
      <3>2. EditedDraft(s).author = s
        BY DEF EditedDraft
      <3> QED BY <2>1, <3>1, <3>2
    <2> QED BY <2>3 DEF StoreAssumption, TriageAuthors
  <1>5. ASSUME NEW batch \in SUBSET Requests, DeleteRows(batch) PROVE d \in drafts[r]
    BY <1>5 DEF DeleteRows
  <1>6. ASSUME NEW q \in Requests, insertRequest(q) PROVE d \in drafts[r]
    BY <1>6 DEF insertRequest, InsertRow
  <1> QED BY <1>2, <1>3, <1>4, <1>5, <1>6, RowEffect

\* A message of a request is deleted by the ack of a worker that holds it.
LEMMA DeletedByAck ==
    ASSUME QueueTypeOK, [Next]_vars, NEW r \in Requests,
           queue[r].at # "deleted", queue'[r].at = "deleted"
    PROVE  \E w \in Workers : Ack(w) /\ wk[w].msg = r
  <1>1. ASSUME NEW m, send(m) \/ receive(m) \/ dead_letter(m) \/ nack(m) \/ VisibilityTimeout(m)
        PROVE  FALSE
    BY <1>1 DEF send, receive, dead_letter, nack, VisibilityTimeout, QueueTypeOK
  <1>2. ASSUME NEW m, ack(m) PROVE m = r
    BY <1>2 DEF ack, QueueTypeOK
  <1>3. ~UNCHANGED queue
    OBVIOUS
  <1>4. CASE WorkerNext
    BY <1>1, <1>2, <1>3, <1>4, WorkerQueueEffect
    DEF Receive, RejectMalformed, Ack, NackOrDeadLetter, LeaseRunsOut
  <1>5. ~IntakeNext
    BY <1>1, <1>3 DEF IntakeNext, insertRequest, enqueueRequest, reply201, intakeFails
  <1> QED BY <1>3, <1>4, <1>5 DEF Next, Purge, ResolveDeadlock, vars

LEMMA AckedOnlyStep ==
    ASSUME RowIInv, BusyWithSent, AckingIsDone, AckedOnlyWhenTriaged, [Next]_vars
    PROVE  AckedOnlyWhenTriaged'
  <1>0. QueueTypeOK
    BY DEF RowIInv, LockIInv, TypeIInv, TypeInv, TypeOK
  <1> SUFFICES ASSUME NEW r \in Requests, queue'[r].at = "deleted"
               PROVE  WorkDone(r)'
    BY DEF AckedOnlyWhenTriaged, WorkDone
  <1>1. CASE queue[r].at = "deleted"
    <2>1. WorkDone(r) /\ queue[r].at # "unsent"
      BY <1>1 DEF AckedOnlyWhenTriaged, WorkDone
    <2> QED BY <2>1, DoneStays
  <1>2. CASE queue[r].at # "deleted"
    <2>1. PICK w \in Workers : wk[w].pc = "acking" /\ wk[w].msg = r
      BY <1>0, <1>2, DeletedByAck DEF Ack
    <2>2. WorkDone(r) /\ queue[r].at # "unsent"
      BY <2>1 DEF AckingIsDone, BusyWithSent, Busy, WorkerSteps
    <2> QED BY <2>2, DoneStays
  <1> QED BY <1>1, <1>2

LEMMA DeliveryIInvAlways == Spec => []DeliveryIInv
  <1>1. Init => DeliveryIInv
    BY TypeIInvInit, LockInit, RowInit, DeliveryInit DEF LockIInv, RowIInv, DeliveryIInv
  <1>2. RowIInv /\ RowIInv' /\ DeliveryIInv /\ [Next]_vars => DeliveryIInv'
    BY BusyWithSentStep, AckingIsDoneStep, UnsentIsUntriagedStep, AckedOnlyStep DEF DeliveryIInv
  <1> QED BY <1>1, <1>2, RowIInvAlways, PTL DEF Spec

\* consumer.py:155: an ack never removes the only message of a request that is
\* still to be triaged, whoever else has it, crashes or purges meanwhile.
THEOREM AcksFollowTriage == Spec => []AckedOnlyWhenTriaged
  BY DeliveryIInvAlways, PTL DEF DeliveryIInv

-----------------------------------------------------------------------------
\* The four sets of DeliveryContract, as FrontDesk gives them.
Sent == {m \in Messages : queue[m].at # "unsent"}
Finished == {r \in Requests : queue[r].at # "unsent" /\ WorkDone(r)}
Aside == {m \in Messages : queue[m].at = "archived"}
Gone == {m \in Messages : queue[m].at \in {"deleted", "archived"}}

\* Where a message is, as far as the contract can tell.
SamePlace(m) ==
    \/ queue'[m].at = queue[m].at
    \/ InQueue(m) /\ InQueue(m)'

\* What any step does to the queue, as far as the contract can tell.
LEMMA PlaceEffect ==
    ASSUME QueueTypeOK, WorkerHoldsRequests, [Next]_vars
    PROVE  \/ \A m \in Messages : SamePlace(m)
           \/ \E r \in Requests : enqueueRequest(r)
           \/ \E w \in Workers : /\ Ack(w) /\ wk[w].pc = "acking" /\ UNCHANGED storeVars
           \/ \E m \in Messages : InQueue(m) /\ dead_letter(m) /\ UNCHANGED storeVars
  <1>1. ASSUME NEW n, receive(n) \/ nack(n) \/ VisibilityTimeout(n), NEW m \in Messages
        PROVE  SamePlace(m)
    BY <1>1 DEF receive, nack, VisibilityTimeout, SamePlace, InQueue, QueueTypeOK
  <1>2. ASSUME NEW n, dead_letter(n), ~InQueue(n), NEW m \in Messages PROVE SamePlace(m)
    BY <1>2 DEF dead_letter, SamePlace, QueueTypeOK
  <1>3. ASSUME UNCHANGED queue, NEW m \in Messages PROVE SamePlace(m)
    BY <1>3 DEF SamePlace
  <1>4. ASSUME NEW w \in Workers, RejectMalformed(w) \/ NackOrDeadLetter(w)
        PROVE  wk[w].msg \in Messages /\ UNCHANGED storeVars
    BY <1>4 DEF RejectMalformed, NackOrDeadLetter, WorkerHoldsRequests
  <1>5. CASE WorkerNext
    BY <1>1, <1>2, <1>3, <1>4, <1>5, WorkerQueueEffect
    DEF Receive, RejectMalformed, Ack, NackOrDeadLetter, LeaseRunsOut
  <1>6. CASE IntakeNext
    BY <1>3, <1>6 DEF IntakeNext, insertRequest, reply201, intakeFails
  <1> QED BY <1>3, <1>5, <1>6 DEF Next, Purge, ResolveDeadlock, vars
\* A step that moves no message and sends none: what is finished grows.
LEMMA SamePlaceMaps ==
    ASSUME DeliveryIInv, [Next]_vars, \A m \in Messages : SamePlace(m)
    PROVE  /\ UNCHANGED <<Sent, Aside, Gone>>
           /\ Finished' = Finished \cup Finished'
           /\ Finished' \subseteq Sent
  <1>1. \A m \in Messages : /\ queue'[m].at = "unsent" <=> queue[m].at = "unsent"
                            /\ queue'[m].at = "archived" <=> queue[m].at = "archived"
                            /\ queue'[m].at = "deleted" <=> queue[m].at = "deleted"
    BY DEF SamePlace, InQueue
  <1>2. UNCHANGED <<Sent, Aside, Gone>>
    BY <1>1 DEF Sent, Aside, Gone
  <1>3. Finished \subseteq Finished'
    <2> SUFFICES ASSUME NEW r \in Finished PROVE r \in Finished'
      OBVIOUS
    <2>1. r \in Requests /\ queue[r].at # "unsent" /\ WorkDone(r)
      BY DEF Finished
    <2>2. WorkDone(r)'
      BY <2>1, DoneStays DEF DeliveryIInv
    <2> QED BY <1>1, <2>1, <2>2 DEF Finished, WorkerAssumption
  <1>4. Finished' \subseteq Sent'
    BY DEF Finished, Sent, WorkerAssumption
  <1> QED BY <1>2, <1>3, <1>4

\* The api's send is a Send: nothing is finished by it.
LEMMA SendMaps ==
    ASSUME DeliveryIInv, [Next]_vars, NEW r \in Requests, enqueueRequest(r)
    PROVE  /\ Sent' = Sent \cup {r}
           /\ UNCHANGED <<Finished, Aside, Gone>>
  <1>0. QueueTypeOK /\ r \in Messages
    BY DEF DeliveryIInv, RowIInv, LockIInv, TypeIInv, TypeInv, TypeOK, WorkerAssumption
  <1>1. queue[r].at = "unsent" /\ queue'[r].at = "visible"
    BY <1>0 DEF enqueueRequest, send, QueueTypeOK
  <1>2. \A m \in Messages : m # r => queue'[m] = queue[m]
    BY <1>0 DEF enqueueRequest, send, QueueTypeOK
  <1>3. ~WorkDone(r)
    <2>1. Exists(r)
      BY DEF enqueueRequest, DeliveryIInv, RowIInv, RowOrder
    <2>2. ~Triaged(r)
      BY <1>1 DEF DeliveryIInv, UnsentIsUntriaged
    <2> QED BY <2>1, <2>2 DEF WorkDone
  <1>4. \A q \in Requests : WorkDone(q)' <=> WorkDone(q)
    BY DEF enqueueRequest, storeVars, WorkDone, Triaged, Exists
  <1>5. Sent' = Sent \cup {r} /\ UNCHANGED <<Aside, Gone>>
    BY <1>0, <1>1, <1>2 DEF Sent, Aside, Gone
  <1>6. Finished' = Finished
    BY <1>1, <1>2, <1>3, <1>4 DEF Finished, WorkerAssumption
  <1> QED BY <1>5, <1>6

\* An ack and an archive are a Leave of a message in the queue.
LEMMA LeaveMaps ==
    ASSUME DeliveryIInv, [Next]_vars, NEW m \in Messages, InQueue(m), UNCHANGED storeVars,
           \/ dead_letter(m)
           \/ ack(m) /\ m \in Requests /\ WorkDone(m)
    PROVE  /\ m \in Sent
           /\ Aside' \in {Aside, Aside \cup {m}}
           /\ m \in Finished \cup Aside'
           /\ Gone' = Gone \cup {m}
           /\ UNCHANGED <<Sent, Finished>>
  <1>0. QueueTypeOK
    BY DEF DeliveryIInv, RowIInv, LockIInv, TypeIInv, TypeInv, TypeOK
  <1>1. /\ queue[m].at \in {"visible", "leased"}
        /\ queue'[m].at = IF dead_letter(m) THEN "archived" ELSE "deleted"
        /\ \A n \in Messages : n # m => queue'[n] = queue[n]
    BY <1>0 DEF dead_letter, ack, InQueue, QueueTypeOK
  <1>2. \A q \in Requests : WorkDone(q)' <=> WorkDone(q)
    BY DEF storeVars, WorkDone, Triaged, Exists
  <1>3. m \in Sent /\ Gone' = Gone \cup {m} /\ UNCHANGED Sent
    BY <1>1 DEF Sent, Gone
  <1>4. UNCHANGED Finished
    BY <1>1, <1>2 DEF Finished, WorkerAssumption
  <1>5. CASE dead_letter(m)
    <2>1. Aside' = Aside \cup {m}
      BY <1>1, <1>5 DEF Aside
    <2> QED BY <1>3, <1>4, <2>1
  <1>6. CASE ~dead_letter(m)
    <2>1. Aside' = Aside
      BY <1>1, <1>6 DEF Aside
    <2>2. m \in Finished
      BY <1>1, <1>6 DEF Finished
    <2> QED BY <1>3, <1>4, <2>1, <2>2
  <1> QED BY <1>5, <1>6

LEMMA DeliveryStep ==
    ASSUME DeliveryIInv, [Next]_vars
    PROVE  Delivery!ContractNext \/ UNCHANGED Delivery!contractVars
  <1>0. QueueTypeOK /\ WorkerHoldsRequests
    BY DEF DeliveryIInv, RowIInv, LockIInv, TypeIInv, TypeInv, TypeOK
  <1>1. ASSUME \A m \in Messages : SamePlace(m) PROVE Delivery!ContractNext
    <2>1. PICK ms \in SUBSET Messages : ms = Finished'
      BY DEF Finished, WorkerAssumption
    <2>2. Delivery!Finish(ms)
      BY <1>1, <2>1, SamePlaceMaps DEF Delivery!Finish, Sent, Finished, Aside, Gone, WorkDone
    <2>3. \E x \in SUBSET Messages : Delivery!Finish(x)
      BY <2>2
    <2> QED BY <2>3 DEF Delivery!ContractNext
  <1>2. ASSUME NEW r \in Requests, enqueueRequest(r) PROVE Delivery!ContractNext
    <2>1. Delivery!Send(r)
      BY <1>2, SendMaps DEF Delivery!Send, Sent, Finished, Aside, Gone, WorkDone
    <2> QED BY <2>1 DEF Delivery!ContractNext, WorkerAssumption
  <1>3. ASSUME NEW m \in Messages, InQueue(m), UNCHANGED storeVars,
               \/ dead_letter(m)
               \/ ack(m) /\ m \in Requests /\ WorkDone(m)
        PROVE  Delivery!ContractNext
    <2>1. Delivery!Leave(m)
      BY <1>3, LeaveMaps DEF Delivery!Leave, Sent, Finished, Aside, Gone, WorkDone
    <2> QED BY <2>1 DEF Delivery!ContractNext
  <1>4. ASSUME NEW w \in Workers, Ack(w), wk[w].pc = "acking", UNCHANGED storeVars
        PROVE  Delivery!ContractNext
    <2>1. wk[w].msg \in Requests /\ WorkDone(wk[w].msg) /\ ack(wk[w].msg)
      BY <1>4 DEF DeliveryIInv, AckingIsDone, Ack
    <2>2. wk[w].msg \in Messages
      BY <2>1 DEF WorkerAssumption
    <2>3. CASE InQueue(wk[w].msg)
      BY <1>3, <1>4, <2>1, <2>2, <2>3
    <2>4. CASE ~InQueue(wk[w].msg)
      <3>1. \A m \in Messages : SamePlace(m)
        BY <1>0, <2>1, <2>4 DEF ack, SamePlace, QueueTypeOK
      <3> QED BY <1>1, <3>1
    <2> QED BY <2>3, <2>4
  <1> QED BY <1>0, <1>1, <1>2, <1>3, <1>4, PlaceEffect

\* queue/index.ts and queue/__init__.py: whatever dies, runs twice or is
\* purged, the desk over pgmq is an at-least-once queue.
THEOREM PgmqImplementsDelivery == Spec => PgmqDelivers
  <1>1. Init => Delivery!ContractInit
    <2> SUFFICES ASSUME Init PROVE Delivery!ContractInit
      OBVIOUS
    <2>1. \A m \in Messages : queue[m].at \in {"visible", "unsent"}
      BY DEF Init
    <2>2. \A r \in Requests : queue[r].at = "unsent"
      BY DEF Init, Malformed, WorkerAssumption
    <2> QED BY <2>1, <2>2 DEF Delivery!ContractInit
  <1>2. DeliveryIInv /\ [Next]_vars => [Delivery!ContractNext]_(Delivery!contractVars)
    BY DeliveryStep
  <1> QED BY <1>1, <1>2, DeliveryIInvAlways, PTL DEF Spec, PgmqDelivers, Delivery!ContractSpec

-----------------------------------------------------------------------------
Page == [r \in Requests |-> TrackingPage(r)]
Log == [r \in Requests |-> Decisions(r)]

Blank(kind) == [kind |-> kind, body |-> NoReply]

NeverSubmitted(r) == intake[r] = "none"

PageKinds == {"Received", "In review", "approved", "Reviewed"}

\* What any step does, as far as a page can tell.
LEMMA PageEffect ==
    ASSUME IntakeTypeOK, [Next]_vars
    PROVE  \/ /\ UNCHANGED <<req, audit>>
              /\ \A r \in Requests : NeverSubmitted(r)' = NeverSubmitted(r)
           \/ \E r \in Requests : insertRequest(r)
           \/ \E w \in Workers : InsertAndCommit(w) /\ UNCHANGED intake
           \/ \E s \in Staff : resolveAndRecord(s) /\ UNCHANGED intake
           \/ \E batch \in SUBSET {r \in DemoRequests : intake[r] \in {"accepted", "failed"}} :
                 purgeOrgRequests(batch) /\ UNCHANGED intake
  <1>1. CASE IntakeNext
    <2>1. ASSUME NEW q \in Requests, enqueueRequest(q) \/ reply201(q) \/ intakeFails(q)
          PROVE  /\ UNCHANGED <<req, audit>>
                 /\ \A r \in Requests : NeverSubmitted(r)' = NeverSubmitted(r)
      BY <2>1 DEF enqueueRequest, reply201, intakeFails, storeVars, IntakeTypeOK, NeverSubmitted
    <2> QED BY <1>1, <2>1 DEF IntakeNext
  <1>2. CASE WorkerNext /\ UNCHANGED intake
    BY <1>2, WorkerStoreEffect DEF storeVars, Claim, LockRow, ReleaseRowsOf, NeverSubmitted
  <1>3. CASE StaffNext /\ UNCHANGED intake
    BY <1>3 DEF StaffNext, StaffStep, loadRow, loadLatestVersion, readDraftToApprove,
                insertEditedDraft, actionFails, Abort, RollbackStaff, storeVars, NeverSubmitted
  <1>4. CASE Purge
    BY <1>4 DEF Purge
  <1>5. CASE \E w \in Workers, s \in Staff : ResolveDeadlock(w, s)
    BY <1>5 DEF ResolveDeadlock, Rollback, ReleaseRowsOf, RollbackStaff, NeverSubmitted
  <1>6. CASE UNCHANGED vars
    BY <1>6 DEF vars, storeVars, intakeVars, NeverSubmitted
  <1> QED BY <1>1, <1>2, <1>3, <1>4, <1>5, <1>6 DEF Next

LEMMA PageKept ==
    ASSUME NEW r \in Requests, req'[r] = req[r], NeverSubmitted(r)' = NeverSubmitted(r)
    PROVE  TrackingPage(r)' = TrackingPage(r)
  BY DEF TrackingPage, getTrackingView, Exists, NeverSubmitted

LEMMA LogKept ==
    ASSUME NEW r \in Requests, audit'[r] = audit[r]
    PROVE  Decisions(r)' = Decisions(r)
  BY DEF Decisions

\* A row that is there has a page of one of four kinds; only an approved one
\* has anything on it.
LEMMA PageOfRow ==
    ASSUME StoreTypeOK, NEW r \in Requests, Exists(r)
    PROVE  /\ TrackingPage(r).kind \in PageKinds
           /\ req[r].status = "received" => TrackingPage(r) = Blank("Received")
           /\ req[r].status \in {"triaging", "drafted", "needs_human"} =>
                  TrackingPage(r) = Blank("In review")
           /\ req[r].status = "rejected" => TrackingPage(r) = Blank("Reviewed")
           /\ req[r].status = "approved" =>
                  TrackingPage(r) = [kind |-> "approved", body |-> req[r].reply]
           /\ TrackingPage(r).kind = "Received" => req[r].status = "received"
  <1>1. req[r].status \in Statuses
    BY DEF StoreTypeOK, Rows
  <1>2. TrackingPage(r) = getTrackingView(r)
    BY DEF TrackingPage
  <1>3. ASSUME req[r].status = "approved"
        PROVE  TrackingPage(r) = [kind |-> "approved", body |-> req[r].reply]
    BY <1>2, <1>3 DEF getTrackingView
  <1>4. ASSUME req[r].status # "approved"
        PROVE  TrackingPage(r) = Blank(statusLabel(req[r].status))
    BY <1>2, <1>4 DEF getTrackingView, Blank
  <1>5. /\ statusLabel("received") = "Received" /\ statusLabel("rejected") = "Reviewed"
        /\ statusLabel("triaging") = "In review" /\ statusLabel("drafted") = "In review"
        /\ statusLabel("needs_human") = "In review"
    BY DEF statusLabel
  <1>6. req[r].status \in {"received", "triaging", "drafted", "needs_human", "approved", "rejected"}
    BY <1>1 DEF Statuses, Exists
  <1>7. \A kind : Blank(kind).kind = kind
    BY DEF Blank
  <1>8. /\ TrackingPage(r).kind \in PageKinds
        /\ TrackingPage(r).kind = "Received" => req[r].status = "received"
    <2>1. CASE req[r].status = "approved"
      <3>1. TrackingPage(r).kind = "approved"
        BY <1>3, <2>1
      <3> QED BY <3>1 DEF PageKinds
    <2>2. CASE req[r].status # "approved"
      <3>1. TrackingPage(r).kind = statusLabel(req[r].status)
        BY <1>4, <1>7, <2>2
      <3> QED BY <1>5, <1>6, <2>2, <3>1 DEF PageKinds
    <2> QED BY <2>1, <2>2
  <1> QED BY <1>3, <1>4, <1>5, <1>8

LEMMA SubmitPage ==
    ASSUME RowIInv, NEW r \in Requests, insertRequest(r)
    PROVE  /\ TrackingPage(r) = Blank("none") /\ TrackingPage(r)' = Blank("Received")
           /\ \A q \in Requests : q # r => TrackingPage(q)' = TrackingPage(q)
           /\ \A q \in Requests : Decisions(q)' = Decisions(q)
  <1>0. StoreTypeOK /\ IntakeTypeOK
    BY DEF RowIInv, LockIInv, TypeIInv, TypeInv, TypeOK
  <1>1. intake[r] = "none" /\ ~Exists(r)
    BY DEF insertRequest, RowIInv, RowOrder
  <1>2. TrackingPage(r) = Blank("none")
    BY <1>1 DEF TrackingPage, Blank
  <1>3. /\ req'[r].status = "received"
        /\ \A q \in Requests : q # r => req'[q] = req[q] /\ intake'[q] = intake[q]
        /\ audit' = audit
    BY <1>0 DEF insertRequest, InsertRow, NoRow, StoreTypeOK, IntakeTypeOK
  <1>4. TrackingPage(r)' = Blank("Received")
    BY <1>3 DEF TrackingPage, getTrackingView, statusLabel, Exists, Blank
  <1>5. \A q \in Requests : q # r => TrackingPage(q)' = TrackingPage(q)
    BY <1>3, PageKept DEF NeverSubmitted
  <1>6. \A q \in Requests : Decisions(q)' = Decisions(q)
    BY <1>3, LogKept
  <1> QED BY <1>2, <1>4, <1>5, <1>6

LEMMA VerdictPage ==
    ASSUME RowIInv, NEW w \in Workers, NEW r, r = wk[w].msg,
           InsertAndCommit(w), UNCHANGED intake
    PROVE  /\ r \in Requests /\ Exists(r) /\ TrackingPage(r)' = Blank("In review")
           /\ \A q \in Requests : q # r => TrackingPage(q)' = TrackingPage(q)
           /\ \A q \in Requests : Decisions(q)' = Decisions(q)
  <1>1. /\ r \in Requests /\ Exists(r) /\ req'[r].status \in {"drafted", "needs_human"}
        /\ audit' = audit
        /\ \A q \in Requests : q # r => req'[q] = req[q]
    BY CommitEffect DEF RowIInv
  <1>2. TrackingPage(r)' = Blank("In review")
    BY <1>1 DEF TrackingPage, getTrackingView, statusLabel, Exists, Blank
  <1>3. \A q \in Requests : q # r => TrackingPage(q)' = TrackingPage(q)
    BY <1>1, PageKept DEF NeverSubmitted
  <1>4. \A q \in Requests : Decisions(q)' = Decisions(q)
    BY <1>1, LogKept
  <1> QED BY <1>1, <1>2, <1>3, <1>4

\* The replies of a log one longer.
LEMMA RepliesOfAppend ==
    ASSUME NEW s \in Seq(Actions), NEW a \in Actions
    PROVE  [i \in 1..Len(Append(s, a)) |-> Append(s, a)[i].after.replyText]
           = Append([i \in 1..Len(s) |-> s[i].after.replyText], a.after.replyText)
  <1> DEFINE t == [i \in 1..Len(s) |-> s[i].after.replyText]
             u == [i \in 1..Len(Append(s, a)) |-> Append(s, a)[i].after.replyText]
             Texts == Drafts \cup {NoReply}
  <1>1. \A x \in Actions : x.after.replyText \in Texts
    BY DEF Actions, ActionSnapshots
  <1>2. Len(s) \in Nat /\ t \in Seq(Texts) /\ Len(t) = Len(s)
    BY <1>1
  <1>3. Len(Append(s, a)) = Len(s) + 1
    OBVIOUS
  <1>4. \A i \in 1..Len(s) + 1 : Append(s, a)[i] = IF i = Len(s) + 1 THEN a ELSE s[i]
    OBVIOUS
  <1>5. u = [i \in 1..Len(s) + 1 |-> IF i = Len(s) + 1 THEN a.after.replyText
                                     ELSE s[i].after.replyText]
    BY <1>3, <1>4
  <1>6. a.after.replyText \in Texts
    BY <1>1
  <1>7. Append(t, a.after.replyText) =
            [i \in 1..Len(s) + 1 |-> IF i = Len(s) + 1 THEN a.after.replyText ELSE t[i]]
    BY <1>2, <1>6
  <1>8. \A i \in 1..Len(s) + 1 : i # Len(s) + 1 => t[i] = s[i].after.replyText
    BY <1>2
  <1> QED BY <1>5, <1>7, <1>8

LEMMA DecisionPage ==
    ASSUME RowIInv, NEW s \in Staff, NEW r, r = st[s].req,
           resolveAndRecord(s), UNCHANGED intake
    PROVE  /\ r \in Requests /\ Exists(r)
           /\ \/ TrackingPage(r)' = Blank("Reviewed") /\ After(s).replyText = NoReply
              \/ /\ TrackingPage(r)' = [kind |-> "approved", body |-> After(s).replyText]
                 /\ After(s).replyText \in Drafts
           /\ Decisions(r)' = Append(Decisions(r), After(s).replyText)
           /\ \A q \in Requests : q # r => /\ TrackingPage(q)' = TrackingPage(q)
                                           /\ Decisions(q)' = Decisions(q)
  <1>0. TypeIInv /\ StoreTypeOK /\ StaffInv
    BY DEF RowIInv, LockIInv, TypeIInv, TypeInv, TypeOK, StaffInv
  <1>1. /\ r \in Requests /\ Exists(r) /\ audit'[r] = Append(audit[r], ActionRow(s))
        /\ \A q \in Requests : q # r => req'[q] = req[q] /\ audit'[q] = audit[q]
    BY <1>0, ResolveEffect DEF recordAction
  <1>2. req'[r] = ResolvedRow(s, req[r]) /\ req[r] \in Rows /\ ReadyToWrite(s)
    BY <1>0, <1>1 DEF resolveAndRecord, StoreTypeOK
  <1>3. ASSUME st[s].kind = "reject"
        PROVE  TrackingPage(r)' = Blank("Reviewed") /\ After(s).replyText = NoReply
    <2>1. req'[r].status = "rejected" /\ After(s).replyText = NoReply
      BY <1>2, <1>3 DEF ResolvedRow, After, Rows
    <2>2. TrackingPage(r)' = Blank("Reviewed")
      BY <2>1 DEF TrackingPage, getTrackingView, statusLabel, Exists, Blank
    <2> QED BY <2>1, <2>2
  <1>4. ASSUME st[s].kind # "reject"
        PROVE  /\ TrackingPage(r)' = [kind |-> "approved", body |-> After(s).replyText]
               /\ After(s).replyText \in Drafts
    <2>1. /\ req'[r].status = "approved" /\ req'[r].reply = st[s].reply
          /\ After(s).replyText = st[s].reply
      BY <1>2, <1>4 DEF ResolvedRow, After, Rows
    <2>2. st[s].reply \in Drafts
      BY <1>0, <1>2, <1>4 DEF ReadyToWrite, StaffInv, StaffHoldRequests
    <2>3. TrackingPage(r)' = [kind |-> "approved", body |-> st[s].reply]
      BY <2>1 DEF TrackingPage, getTrackingView, Exists
    <2> QED BY <2>1, <2>2, <2>3
  <1>5. Decisions(r)' = Append(Decisions(r), After(s).replyText)
    <2>1. audit[r] \in Seq(Actions) /\ ActionRow(s) \in Actions
      BY <1>0, <1>1, <1>2, ActionRowType DEF StoreTypeOK
    <2>2. ActionRow(s).after = After(s)
      BY DEF ActionRow
    <2>3. audit'[r] = Append(audit[r], ActionRow(s))
      BY <1>1
    <2>4. Decisions(r)' = [i \in 1..Len(audit'[r]) |-> audit'[r][i].after.replyText]
      BY DEF Decisions
    <2>5. [i \in 1..Len(Append(audit[r], ActionRow(s)))
             |-> Append(audit[r], ActionRow(s))[i].after.replyText]
          = Append(Decisions(r), ActionRow(s).after.replyText)
      BY <2>1, RepliesOfAppend DEF Decisions
    <2> QED BY <2>2, <2>3, <2>4, <2>5
  <1>6. \A q \in Requests : q # r => /\ TrackingPage(q)' = TrackingPage(q)
                                     /\ Decisions(q)' = Decisions(q)
    BY <1>1, PageKept, LogKept DEF NeverSubmitted
  <1> QED BY <1>1, <1>3, <1>4, <1>5, <1>6

LEMMA PurgePage ==
    ASSUME RowIInv, NEW batch \in SUBSET {r \in DemoRequests : intake[r] \in {"accepted", "failed"}},
           purgeOrgRequests(batch), UNCHANGED intake, NEW r \in Requests
    PROVE  /\ r \in batch => /\ Exists(r) /\ TrackingPage(r)' = Blank("gone")
                             /\ Decisions(r)' = << >>
           /\ r \notin batch => /\ TrackingPage(r)' = TrackingPage(r)
                                /\ Decisions(r)' = Decisions(r)
  <1>1. CASE r \in batch
    <2>1. Exists(r) /\ req'[r].status = "absent" /\ audit'[r] = << >> /\ intake'[r] # "none"
      BY <1>1 DEF purgeOrgRequests, DeleteRows, NoRow
    <2>2. TrackingPage(r)' = Blank("gone")
      BY <2>1 DEF TrackingPage, Exists, Blank
    <2>3. Decisions(r)' = << >>
      BY <2>1 DEF Decisions
    <2> QED BY <1>1, <2>1, <2>2, <2>3
  <1>2. CASE r \notin batch
    <2>1. req'[r] = req[r] /\ audit'[r] = audit[r]
      BY <1>2 DEF purgeOrgRequests, DeleteRows
    <2> QED BY <1>2, <2>1, PageKept, LogKept DEF NeverSubmitted
  <1> QED BY <1>1, <1>2

-----------------------------------------------------------------------------
\* The same facts, as steps of PublicPage.
LEMMA PageStep ==
    ASSUME RowIInv, [Next]_vars
    PROVE  Public!PageNext \/ UNCHANGED Public!pageVars
  <1>0. StoreTypeOK /\ IntakeTypeOK
    BY DEF RowIInv, LockIInv, TypeIInv, TypeInv, TypeOK
  <1>1. ASSUME UNCHANGED <<req, audit>>,
               \A r \in Requests : NeverSubmitted(r)' = NeverSubmitted(r)
        PROVE  UNCHANGED Public!pageVars
    <2>1. \A r \in Requests : /\ TrackingPage(r)' = TrackingPage(r)
                              /\ Decisions(r)' = Decisions(r)
      BY <1>1, PageKept, LogKept
    <2> QED BY <2>1 DEF Public!pageVars
  <1>2. ASSUME NEW r \in Requests, insertRequest(r) PROVE Public!PageNext
    <2>0. /\ TrackingPage(r) = Blank("none") /\ TrackingPage(r)' = Blank("Received")
          /\ \A q \in Requests : q # r => TrackingPage(q)' = TrackingPage(q)
          /\ \A q \in Requests : Decisions(q)' = Decisions(q)
      BY <1>2, SubmitPage
    <2>1. Public!Submit(r)
      <3>1. Page[r].kind = "none"
        BY <2>0 DEF Page, Blank
      <3>2. Page' = [Page EXCEPT ![r] = Blank("Received")]
        BY <2>0 DEF Page
      <3>3. UNCHANGED Log
        BY <2>0 DEF Log
      <3> QED BY <3>1, <3>2, <3>3 DEF Public!Submit, Public!Blank, Blank, Page, Log
    <2> QED BY <2>1 DEF Public!PageNext
  <1>3. ASSUME NEW w \in Workers, InsertAndCommit(w), UNCHANGED intake PROVE Public!PageNext
    <2>1. PICK r \in Requests : /\ Exists(r) /\ TrackingPage(r)' = Blank("In review")
                                /\ \A q \in Requests : q # r => TrackingPage(q)' = TrackingPage(q)
                                /\ \A q \in Requests : Decisions(q)' = Decisions(q)
      BY <1>3, VerdictPage
    <2>2. TrackingPage(r).kind \in PageKinds
      BY <1>0, <2>1, PageOfRow
    <2>3. CASE TrackingPage(r).kind = "Received"
      <3>1. Public!Triage(r)
        BY <2>1, <2>3 DEF Public!Triage, Public!Blank, Blank
      <3> QED BY <3>1 DEF Public!PageNext
    <2>4. CASE TrackingPage(r).kind # "Received"
      <3>1. Public!Retriage(r)
        BY <2>1, <2>2, <2>4 DEF Public!Retriage, Public!Online, Public!Blank, Blank, PageKinds
      <3> QED BY <3>1 DEF Public!PageNext
    <2> QED BY <2>3, <2>4
  <1>4. ASSUME NEW s \in Staff, resolveAndRecord(s), UNCHANGED intake PROVE Public!PageNext
    <2>1. PICK r \in Requests, text \in Drafts \cup {NoReply} :
             /\ Exists(r)
             /\ \/ TrackingPage(r)' = Blank("Reviewed") /\ text = NoReply
                \/ TrackingPage(r)' = [kind |-> "approved", body |-> text] /\ text \in Drafts
             /\ Decisions(r)' = Append(Decisions(r), text)
             /\ \A q \in Requests : q # r => /\ TrackingPage(q)' = TrackingPage(q)
                                             /\ Decisions(q)' = Decisions(q)
      BY <1>4, DecisionPage
    <2>2. TrackingPage(r).kind \in PageKinds
      BY <1>0, <2>1, PageOfRow
    <2>3. CASE TrackingPage(r)' = Blank("Reviewed") /\ text = NoReply
      <3>1. Public!Decline(r)
        BY <2>1, <2>2, <2>3 DEF Public!Decline, Public!Online, Public!Blank, Blank, PageKinds
      <3> QED BY <3>1 DEF Public!PageNext
    <2>4. CASE TrackingPage(r)' = [kind |-> "approved", body |-> text] /\ text \in Drafts
      <3>0. Public!Online(r)
        BY <2>2 DEF Public!Online, PageKinds
      <3>1. Page'[r].kind = "approved" /\ Page'[r].body = text /\ text \in Drafts
        BY <2>4 DEF Page
      <3>2. Page' = [Page EXCEPT ![r] = Page'[r]]
        BY <2>1 DEF Page
      <3>3. Log' = [Log EXCEPT ![r] = Append(@, text)]
        BY <2>1 DEF Log
      <3>4. Log' = [Log EXCEPT ![r] = Append(@, Page'[r].body)]
        BY <3>1, <3>3
      <3>5. Public!Answer(r)
        BY <3>0, <3>1, <3>2, <3>4 DEF Public!Answer, Page, Log
      <3> QED BY <3>5 DEF Public!PageNext
    <2> QED BY <2>1, <2>3, <2>4
  <1>5. ASSUME NEW batch \in SUBSET {r \in DemoRequests : intake[r] \in {"accepted", "failed"}},
               purgeOrgRequests(batch), UNCHANGED intake
        PROVE  Public!PageNext
    <2>1. PICK gone \in SUBSET Requests : gone = batch
      BY DEF PurgeAssumption
    <2>2. \A r \in Requests :
             /\ r \in gone => /\ Exists(r) /\ TrackingPage(r)' = Blank("gone")
                              /\ Decisions(r)' = << >>
             /\ r \notin gone => /\ TrackingPage(r)' = TrackingPage(r)
                                 /\ Decisions(r)' = Decisions(r)
      BY <1>5, <2>1, PurgePage
    <2>3. \A r \in gone : TrackingPage(r).kind \in PageKinds
      BY <1>0, <2>2, PageOfRow
    <2>4. Public!Remove(gone)
      BY <2>2, <2>3 DEF Public!Remove, Public!Online, Public!Blank, Blank, PageKinds
    <2> QED BY <2>4 DEF Public!PageNext
  <1> QED BY <1>0, <1>1, <1>2, <1>3, <1>4, <1>5, PageEffect

LEMMA PageStart ==
    ASSUME Init
    PROVE  Public!PageInit
  <1>1. \A r \in Requests : req[r].status = "absent" /\ intake[r] = "none" /\ audit[r] = << >>
    BY DEF Init, StoreInit, NoRow, IntakeInit
  <1>2. \A r \in Requests : TrackingPage(r) = Blank("none")
    BY <1>1 DEF TrackingPage, Exists, Blank
  <1>3. ASSUME NEW r \in Requests PROVE Decisions(r) = << >>
    <2>1. audit[r] = << >>
      BY <1>1
    <2> QED BY <2>1 DEF Decisions
  <1> QED BY <1>2, <1>3 DEF Public!PageInit, Public!Blank, Blank

\* staffQueue.ts:37-39: the tracking page shows a reply only by a logged
\* decision with that reply, whatever the workers, the staff and the purge do.
THEOREM TrackingPageKeepsPromise == Spec => PublicPageSpec
  <1>1. Init => Public!PageInit
    BY PageStart
  <1>2. RowIInv /\ [Next]_vars => [Public!PageNext]_(Public!pageVars)
    BY PageStep
  <1> QED BY <1>1, <1>2, RowIInvAlways, PTL DEF Spec, PublicPageSpec, Public!PageSpec

-----------------------------------------------------------------------------
\* How often a message can be delivered: an account of every message, of what
\* it has been read and of every later read somebody may still cause without a
\* new fault.

WithMessage == {"received", "claimed", "writing", "acking", "failed"}

One(b) == IF b THEN 1 ELSE 0

\* Workers that would put m back if their transaction failed now.
Slots(m) == {w \in Workers : wk[w].msg = m /\ wk[w].attempt < MaxDelivery}

\* Deliveries below the ceiling that are still to come.
Rest(n) == IF n < MaxDelivery THEN MaxDelivery - 1 - n ELSE 0

Held(m) == \E w \in Workers : HoldsLease(w, m)

\* A lease whose worker is dead; the crash has paid for its end.
Orphaned(m) == queue[m].at = "leased" /\ ~Held(m)

Readable(m) == queue[m].at \in {"unsent", "visible"}

Account(m) ==
    /\ IsFiniteSet(Slots(m))
    /\ queue[m].read_ct + One(Readable(m)) + One(Orphaned(m))
           + Cardinality(Slots(m)) + Rest(queue[m].read_ct) <= MaxDelivery + faults

Accounts == \A m \in Messages : Account(m)

IdleHoldsNothing == \A w \in Workers : wk[w].pc \in {"down", "idle"} => wk[w].msg = NoMessage

PaidIInv == TypeIInv /\ IdleHoldsNothing /\ Accounts

LEMMA PaidInit == Init => IdleHoldsNothing /\ Accounts
  <1> SUFFICES ASSUME Init PROVE IdleHoldsNothing /\ Accounts
    OBVIOUS
  <1>1. \A w \in Workers : wk[w].msg = NoMessage
    BY DEF Init, WorkerInit, Fresh
  <1>2. ASSUME NEW m \in Messages PROVE Account(m)
    <2>1. Slots(m) = {}
      BY <1>1 DEF Slots, WorkerAssumption
    <2>2. queue[m].read_ct = 0 /\ queue[m].at \in {"unsent", "visible"} /\ faults = 0
      BY DEF Init, WorkerInit
    <2>3. ~Orphaned(m)
      BY <2>2 DEF Orphaned
    <2>4. IsFiniteSet(Slots(m)) /\ Cardinality(Slots(m)) = 0
      BY <2>1, FS_EmptySet
    <2> QED BY <2>2, <2>3, <2>4 DEF Account, One, Readable, Rest, WorkerAssumption
  <1> QED BY <1>1, <1>2 DEF IdleHoldsNothing, Accounts

SameHolds == \A w \in Workers : wk'[w].msg = wk[w].msg /\ wk'[w].attempt = wk[w].attempt

\* What any step does to the leases, the queue and the number of faults.
LEMMA LeaseEffect ==
    ASSUME TypeIInv, [Next]_vars
    PROVE  \/ SameHolds /\ UNCHANGED queue /\ faults' \in {faults, faults + 1}
           \/ \E r \in Requests : enqueueRequest(r) /\ UNCHANGED <<wk, faults>>
           \/ \E w \in Workers, m \in Messages : Receive(w, m)
           \/ \E w \in Workers : RejectMalformed(w) \/ Ack(w) \/ NackOrDeadLetter(w)
           \/ \E w \in Workers : Crash(w)
           \/ \E m \in Messages : LeaseRunsOut(m)
  <1>0. WorkerTypeOK
    BY DEF TypeIInv, TypeInv, TypeOK
  <1>1. ASSUME NEW v \in Workers, NEW step, Goto(v, step) PROVE SameHolds
    BY <1>0, <1>1 DEF Goto, SameHolds, WorkerTypeOK, WorkerStates
  <1>2. ASSUME NEW v \in Workers, Claim(v) PROVE SameHolds
    BY <1>0, <1>2 DEF Claim, SameHolds, WorkerTypeOK, WorkerStates
  <1>3. ASSUME NEW v \in Workers, NEW step, NEW status, NEW version,
               wk' = [wk EXCEPT ![v].pc = step, ![v].status = status, ![v].version = version]
        PROVE  SameHolds
    <2> SUFFICES ASSUME NEW w \in Workers
                 PROVE  wk'[w].msg = wk[w].msg /\ wk'[w].attempt = wk[w].attempt
      BY DEF SameHolds
    <2>1. CASE v = w
      <3>1. wk'[w] = [wk[w] EXCEPT !.pc = step, !.status = status, !.version = version]
        BY <1>0, <1>3, <2>1 DEF WorkerTypeOK
      <3>2. wk[w] \in WorkerStates
        BY <1>0 DEF WorkerTypeOK
      <3> QED BY <3>1, <3>2 DEF WorkerStates
    <2>2. CASE v # w
      BY <1>0, <1>3, <2>2 DEF WorkerTypeOK
    <2> QED BY <2>1, <2>2
  <1>4. ASSUME UNCHANGED wk PROVE SameHolds
    BY <1>4 DEF SameHolds
  <1>5. ASSUME NEW v \in Workers, Start(v) \/ RequestNotFound(v) \/ CommitResult(v) PROVE SameHolds
    BY <1>1, <1>5 DEF Start, RequestNotFound, CommitResult
  <1>6. ASSUME NEW v \in Workers,
               PipelineRaises(v) \/ DuplicateVersion(v) \/ Rollback(v) \/ CommitReplyLost(v)
        PROVE  SameHolds
    BY <1>3, <1>6 DEF PipelineRaises, DuplicateVersion, Rollback, CommitReplyLost
  <1>7. ASSUME NEW v \in Workers, NEW verdict, _write_result(v, verdict) PROVE SameHolds
    BY <1>3, <1>7 DEF _write_result
  <1>8. CASE WorkerNext
    <2>1. ASSUME NEW v \in Workers,
                 Start(v) \/ RequestNotFound(v) \/ CommitResult(v) \/ Claim(v)
                 \/ PipelineRaises(v) \/ DuplicateVersion(v) \/ CommitReplyLost(v)
                 \/ (\E verdict \in {"drafted", "needs_human"} : _write_result(v, verdict))
          PROVE  SameHolds /\ UNCHANGED queue /\ faults' \in {faults, faults + 1}
      BY <1>2, <1>5, <1>6, <1>7, <2>1
      DEF Start, RequestNotFound, CommitResult, Claim, PipelineRaises, DuplicateVersion,
          CommitReplyLost, _write_result, InsertAndCommit, Fault
    <2> QED BY <1>8, <2>1 DEF WorkerNext, WorkerStep, WorkerTrouble
  <1>9. CASE IntakeNext /\ UNCHANGED <<wk, faults>>
    BY <1>4, <1>9 DEF IntakeNext, insertRequest, reply201, intakeFails
  <1>10. CASE \E v \in Workers, s \in Staff : ResolveDeadlock(v, s)
    BY <1>4, <1>6, <1>10 DEF ResolveDeadlock
  <1> QED BY <1>4, <1>8, <1>9, <1>10 DEF Next, Purge, vars, workerVars

\* The numbers the account of m is made of.
LEMMA AccountNumbers ==
    ASSUME TypeIInv, NEW m \in Messages, IsFiniteSet(Slots(m))
    PROVE  /\ queue[m].read_ct \in Nat /\ faults \in Nat /\ MaxDelivery \in Nat \ {0}
           /\ Cardinality(Slots(m)) \in Nat /\ queue[m].at \in MessagePlaces
  BY FS_CardinalityType DEF TypeIInv, TypeInv, TypeOK, QueueTypeOK, WorkerTypeOK, WorkerAssumption

\* Nothing that concerns m has happened.
LEMMA QuietAccount ==
    ASSUME TypeIInv, NEW m \in Messages, Account(m), queue'[m] = queue[m],
           faults' \in {faults, faults + 1},
           \A w \in Workers : (wk[w].msg = m \/ wk'[w].msg = m) =>
               wk'[w].msg = wk[w].msg /\ wk'[w].attempt = wk[w].attempt
    PROVE  Account(m)'
  <1>1. Slots(m)' = Slots(m)
    BY DEF Slots
  <1>2. Orphaned(m)' = Orphaned(m) /\ Readable(m)' = Readable(m)
    BY DEF Orphaned, Held, HoldsLease, Readable
  <1>3. IsFiniteSet(Slots(m))
    BY DEF Account
  <1> HIDE DEF Slots, Orphaned, Readable
  <1> QED BY <1>1, <1>2, <1>3, AccountNumbers DEF Account, One, Rest

LEMMA SendAccount ==
    ASSUME TypeIInv, NEW m \in Messages, Account(m), UNCHANGED <<wk, faults>>,
           queue[m].at = "unsent", queue'[m].at = "visible", queue'[m].read_ct = queue[m].read_ct
    PROVE  Account(m)'
  <1>1. Slots(m)' = Slots(m)
    BY DEF Slots
  <1>2. Orphaned(m)' = FALSE /\ Orphaned(m) = FALSE /\ Readable(m)' = TRUE /\ Readable(m) = TRUE
    BY DEF Orphaned, Readable
  <1>3. IsFiniteSet(Slots(m))
    BY DEF Account
  <1> QED BY <1>1, <1>2, <1>3, AccountNumbers DEF Account, One, Rest

\* A delivery below the ceiling was among the Rest; one above it takes the
\* place of the readable message.
LEMMA ReceiveAccount ==
    ASSUME TypeIInv, NEW m \in Messages, NEW w \in Workers, Account(m), Receive(w, m)
    PROVE  Account(m)'
  <1>0. WorkerTypeOK /\ QueueTypeOK /\ IsFiniteSet(Slots(m)) /\ UNCHANGED faults
    BY DEF TypeIInv, TypeInv, TypeOK, Account, Receive
  <1>1. queue[m].at = "visible" /\ queue'[m].at = "leased" /\ queue'[m].read_ct = queue[m].read_ct + 1
    BY <1>0 DEF Receive, receive, QueueTypeOK
  <1>2. /\ wk'[w].msg = m /\ wk'[w].attempt = queue[m].read_ct + 1
        /\ \A v \in Workers : v # w => wk'[v] = wk[v]
    BY <1>0 DEF Receive, Fresh, WorkerTypeOK
  <1>3. /\ Readable(m) = TRUE /\ Readable(m)' = FALSE
        /\ Orphaned(m) = FALSE /\ Orphaned(m)' = FALSE
    BY <1>1, <1>2 DEF Readable, Orphaned, Held, HoldsLease
  <1>4. CASE queue[m].read_ct + 1 < MaxDelivery
    <2>1. Slots(m)' = Slots(m) \cup {w}
      BY <1>2, <1>4 DEF Slots
    <2>2. IsFiniteSet(Slots(m)') /\ Cardinality(Slots(m)') <= Cardinality(Slots(m)) + 1
          /\ Cardinality(Slots(m)') \in Nat
      BY <1>0, <2>1, FS_AddElement, FS_CardinalityType
    <2> QED BY <1>0, <1>1, <1>3, <1>4, <2>2, AccountNumbers DEF Account, One, Rest
  <1>5. CASE ~(queue[m].read_ct + 1 < MaxDelivery)
    <2>1. Slots(m)' = Slots(m) \ {w}
      BY <1>2, <1>5 DEF Slots
    <2>2. IsFiniteSet(Slots(m)') /\ Cardinality(Slots(m)') <= Cardinality(Slots(m))
          /\ Cardinality(Slots(m)') \in Nat
      BY <1>0, <2>1, FS_Subset, FS_CardinalityType
    <2> QED BY <1>0, <1>1, <1>3, <1>5, <2>2, AccountNumbers DEF Account, One, Rest
  <1> QED BY <1>4, <1>5

\* Worker w is through with m, dead or done: its slot is free.
LEMMA SlotFreed ==
    ASSUME WorkerTypeOK, NEW m \in Messages, NEW w \in Workers, IsFiniteSet(Slots(m)),
           NEW step, wk' = [wk EXCEPT ![w] = Fresh(step)]
    PROVE  /\ Slots(m)' = Slots(m) \ {w}
           /\ IsFiniteSet(Slots(m)') /\ Cardinality(Slots(m)') \in Nat
           /\ Cardinality(Slots(m)') = IF w \in Slots(m) THEN Cardinality(Slots(m)) - 1
                                       ELSE Cardinality(Slots(m))
  <1>1. wk'[w].msg # m /\ \A v \in Workers : v # w => wk'[v] = wk[v]
    BY DEF WorkerTypeOK, Fresh, WorkerAssumption
  <1>2. Slots(m)' = Slots(m) \ {w}
    BY <1>1 DEF Slots
  <1> QED BY <1>2, FS_RemoveElement, FS_CardinalityType

\* ... and every other message's account is as it was.
LEMMA OthersQuiet ==
    ASSUME TypeIInv, NEW m \in Messages, NEW w \in Workers, Account(m), wk[w].msg # m,
           NEW step, wk' = [wk EXCEPT ![w] = Fresh(step)], queue'[m] = queue[m],
           faults' \in {faults, faults + 1}
    PROVE  Account(m)'
  <1>0. WorkerTypeOK
    BY DEF TypeIInv, TypeInv, TypeOK
  <1>1. wk'[w].msg # m /\ \A v \in Workers : v # w => wk'[v] = wk[v]
    BY <1>0 DEF WorkerTypeOK, Fresh, WorkerAssumption
  <1>2. \A v \in Workers : (wk[v].msg = m \/ wk'[v].msg = m) =>
            wk'[v].msg = wk[v].msg /\ wk'[v].attempt = wk[v].attempt
    BY <1>1
  <1> QED BY <1>2, QuietAccount

\* An ack or an archive takes m out of the queue; a nack, which a worker at the
\* ceiling does not make, uses up the slot of the worker.
LEMMA EndAccount ==
    ASSUME TypeIInv, NEW w \in Workers, NEW m \in Messages, wk[w].msg = m, Account(m),
           RejectMalformed(w) \/ Ack(w) \/ NackOrDeadLetter(w)
    PROVE  Account(m)'
  <1>0. WorkerTypeOK /\ QueueTypeOK /\ IsFiniteSet(Slots(m)) /\ UNCHANGED faults
    BY DEF TypeIInv, TypeInv, TypeOK, Account, RejectMalformed, Ack, NackOrDeadLetter
  <1>1. wk' = [wk EXCEPT ![w] = Fresh("idle")]
    BY DEF RejectMalformed, Ack, NackOrDeadLetter, Done
  <1>2. /\ queue'[m].read_ct = queue[m].read_ct
        /\ queue'[m].at # "leased"
        /\ Readable(m)' => Readable(m) \/ w \in Slots(m)
    <2>1. ack(m) \/ dead_letter(m) \/ (nack(m) /\ w \in Slots(m))
      <3>1. wk[w].attempt \in Nat
        BY <1>0 DEF WorkerTypeOK, WorkerStates
      <3>2. ~AtCeiling(w) => w \in Slots(m)
        BY <3>1 DEF AtCeiling, Slots, WorkerAssumption
      <3> QED BY <3>2 DEF RejectMalformed, Ack, NackOrDeadLetter
    <2> QED BY <1>0, <2>1 DEF ack, nack, dead_letter, InQueue, Readable, QueueTypeOK, MessagePlaces
  <1>3. Orphaned(m)' = FALSE
    BY <1>2 DEF Orphaned
  <1>4. /\ IsFiniteSet(Slots(m)') /\ Cardinality(Slots(m)') \in Nat
        /\ Cardinality(Slots(m)') = IF w \in Slots(m) THEN Cardinality(Slots(m)) - 1
                                    ELSE Cardinality(Slots(m))
    BY <1>0, <1>1, SlotFreed
  <1> DEFINE c == Cardinality(Slots(m))
             d == Cardinality(Slots(m)')
  <1>5. queue'[m].read_ct + One(Readable(m)') + 0 + d + Rest(queue[m].read_ct)
           <= MaxDelivery + faults
    <2>1. One(Readable(m)') + d <= One(Readable(m)) + c
      BY <1>0, <1>2, <1>4, AccountNumbers DEF One
    <2>2. queue[m].read_ct + One(Readable(m)) + One(Orphaned(m)) + c + Rest(queue[m].read_ct)
             <= MaxDelivery + faults
      BY DEF Account
    <2> HIDE DEF c, d
    <2>3. c \in Nat /\ d \in Nat /\ queue[m].read_ct \in Nat /\ faults \in Nat
          /\ MaxDelivery \in Nat
      BY <1>0, <1>4, AccountNumbers DEF c, d
    <2> QED BY <1>2, <2>1, <2>2, <2>3 DEF One, Rest
  <1>6. Rest(queue[m].read_ct)' = Rest(queue[m].read_ct)
    BY <1>2 DEF Rest
  <1> QED BY <1>0, <1>2, <1>3, <1>4, <1>5, <1>6 DEF Account, One

\* A crash may orphan the lease; it is a fault, and has paid for its end.
LEMMA CrashAccount ==
    ASSUME TypeIInv, NEW w \in Workers, NEW m \in Messages, wk[w].msg = m, Account(m), Crash(w)
    PROVE  Account(m)'
  <1>0. WorkerTypeOK /\ QueueTypeOK /\ IsFiniteSet(Slots(m)) /\ faults' = faults + 1
    BY DEF TypeIInv, TypeInv, TypeOK, Account, Crash, Fault
  <1>1. wk' = [wk EXCEPT ![w] = Fresh("down")] /\ UNCHANGED queue
    BY DEF Crash
  <1>2. /\ IsFiniteSet(Slots(m)') /\ Cardinality(Slots(m)') \in Nat
        /\ Cardinality(Slots(m)') <= Cardinality(Slots(m))
    <2>1. IsFiniteSet(Slots(m)') /\ Cardinality(Slots(m)') \in Nat
          /\ Slots(m)' = Slots(m) \ {w}
      BY <1>0, <1>1, SlotFreed
    <2> QED BY <1>0, <2>1, FS_Subset
  <1>3. Readable(m)' = Readable(m)
    BY <1>1 DEF Readable
  <1> QED BY <1>0, <1>1, <1>2, <1>3, AccountNumbers DEF Account, One, Rest

\* A lease ends for free only when it was orphaned.
LEMMA LeaseAccount ==
    ASSUME TypeIInv, NEW m \in Messages, Account(m), LeaseRunsOut(m)
    PROVE  Account(m)'
  <1>0. QueueTypeOK /\ IsFiniteSet(Slots(m)) /\ UNCHANGED wk
    BY DEF TypeIInv, TypeInv, TypeOK, Account, LeaseRunsOut
  <1>1. /\ queue[m].at = "leased" /\ queue'[m].at = "visible"
        /\ queue'[m].read_ct = queue[m].read_ct
    BY <1>0 DEF LeaseRunsOut, VisibilityTimeout, QueueTypeOK
  <1>2. Slots(m)' = Slots(m)
    BY <1>0 DEF Slots
  <1>3. /\ Readable(m) = FALSE /\ Readable(m)' = TRUE /\ Orphaned(m)' = FALSE
        /\ (Orphaned(m) /\ faults' = faults) \/ (~Orphaned(m) /\ faults' = faults + 1)
    BY <1>1 DEF Readable, Orphaned, Held, LeaseRunsOut, Fault
  <1> QED BY <1>0, <1>1, <1>2, <1>3, AccountNumbers DEF Account, One, Rest

LEMMA IdleHoldsNothingStep ==
    ASSUME TypeIInv, IdleHoldsNothing, [Next]_vars
    PROVE  IdleHoldsNothing'
  <1>0. WorkerTypeOK
    BY DEF TypeIInv, TypeInv, TypeOK
  <1>1. CASE UNCHANGED wk
    BY <1>1 DEF IdleHoldsNothing
  <1>2. ASSUME NEW v \in Workers, NEW step, wk' = [wk EXCEPT ![v] = Fresh(step)]
        PROVE  IdleHoldsNothing'
    BY <1>0, <1>2 DEF Fresh, IdleHoldsNothing, WorkerTypeOK
  <1>3. ASSUME NEW v \in Workers, Start(v) PROVE IdleHoldsNothing'
    BY <1>0, <1>3 DEF Start, Goto, IdleHoldsNothing, WorkerTypeOK, WorkerStates
  <1>4. ASSUME NEW v \in Workers, NEW step \in WithMessage, Goto(v, step)
        PROVE  IdleHoldsNothing'
    BY <1>0, <1>4 DEF WithMessage, Goto, IdleHoldsNothing, WorkerTypeOK, WorkerStates
  <1>5. ASSUME NEW v \in Workers, NEW m \in Messages, Receive(v, m) PROVE IdleHoldsNothing'
    BY <1>0, <1>5 DEF Receive, Fresh, IdleHoldsNothing, WorkerTypeOK
  <1>6. ASSUME NEW v \in Workers, Claim(v) PROVE IdleHoldsNothing'
    BY <1>0, <1>6 DEF Claim, IdleHoldsNothing, WorkerTypeOK, WorkerStates
  <1>7. ASSUME NEW v \in Workers, NEW step \in WithMessage, NEW status, NEW version,
               wk' = [wk EXCEPT ![v].pc = step, ![v].status = status, ![v].version = version]
        PROVE  IdleHoldsNothing'
    <2> SUFFICES ASSUME NEW w \in Workers, wk'[w].pc \in {"down", "idle"}
                 PROVE  wk'[w].msg = NoMessage
      BY DEF IdleHoldsNothing
    <2>1. CASE v = w
      <3>1. wk'[w] = [wk[w] EXCEPT !.pc = step, !.status = status, !.version = version]
        BY <1>0, <1>7, <2>1 DEF WorkerTypeOK
      <3>2. wk[w] \in WorkerStates
        BY <1>0 DEF WorkerTypeOK
      <3> QED BY <1>7, <3>1, <3>2 DEF WorkerStates, WithMessage
    <2>2. CASE v # w
      BY <1>0, <1>7, <2>2 DEF IdleHoldsNothing, WorkerTypeOK
    <2> QED BY <2>1, <2>2
  <1>8. ASSUME NEW v \in Workers,
               PipelineRaises(v) \/ DuplicateVersion(v) \/ Rollback(v) \/ CommitReplyLost(v)
        PROVE  IdleHoldsNothing'
    BY <1>7, <1>8 DEF WithMessage, PipelineRaises, DuplicateVersion, Rollback, CommitReplyLost
  <1>9. ASSUME NEW v \in Workers, NEW verdict, _write_result(v, verdict) PROVE IdleHoldsNothing'
    BY <1>7, <1>9 DEF WithMessage, _write_result
  <1>10. ASSUME NEW v \in Workers,
                RejectMalformed(v) \/ Ack(v) \/ NackOrDeadLetter(v) \/ Crash(v)
         PROVE  IdleHoldsNothing'
    BY <1>2, <1>10 DEF RejectMalformed, Ack, NackOrDeadLetter, Done, Crash
  <1>11. ASSUME NEW v \in Workers, RequestNotFound(v) \/ CommitResult(v) PROVE IdleHoldsNothing'
    BY <1>4, <1>11 DEF WithMessage, RequestNotFound, CommitResult
  <1>12. CASE WorkerNext
    BY <1>1, <1>3, <1>5, <1>6, <1>8, <1>9, <1>10, <1>11, <1>12
    DEF WorkerNext, WorkerStep, WorkerTrouble, LeaseRunsOut
  <1>13. CASE \E v \in Workers, s \in Staff : ResolveDeadlock(v, s)
    BY <1>1, <1>8, <1>13 DEF ResolveDeadlock
  <1> QED BY <1>1, <1>12, <1>13 DEF Next, Purge, vars, workerVars

LEMMA AccountStep ==
    ASSUME PaidIInv, [Next]_vars, NEW m \in Messages
    PROVE  Account(m)'
  <1>0. TypeIInv /\ WorkerTypeOK /\ QueueTypeOK /\ Account(m)
    BY DEF PaidIInv, Accounts, TypeIInv, TypeInv, TypeOK
  <1>1. CASE SameHolds /\ UNCHANGED queue /\ faults' \in {faults, faults + 1}
    BY <1>0, <1>1, QuietAccount DEF SameHolds
  <1>2. ASSUME NEW r \in Requests, enqueueRequest(r) /\ UNCHANGED <<wk, faults>>
        PROVE  Account(m)'
    <2>1. CASE m = r
      BY <1>0, <1>2, <2>1, SendAccount DEF enqueueRequest, send, QueueTypeOK
    <2>2. CASE m # r
      <3>1. queue'[m] = queue[m]
        BY <1>0, <1>2, <2>2 DEF enqueueRequest, send, QueueTypeOK
      <3> QED BY <1>0, <1>2, <3>1, QuietAccount
    <2> QED BY <2>1, <2>2
  <1>3. ASSUME NEW w \in Workers, NEW n \in Messages, Receive(w, n) PROVE Account(m)'
    <2>1. CASE m = n
      BY <1>0, <1>3, <2>1, ReceiveAccount
    <2>2. CASE m # n
      <3>1. queue'[m] = queue[m] /\ UNCHANGED faults
        BY <1>0, <1>3, <2>2 DEF Receive, receive, QueueTypeOK
      <3>2. wk[w].msg = NoMessage
        BY <1>3 DEF Receive, PaidIInv, IdleHoldsNothing
      <3>3. wk'[w].msg = n /\ \A v \in Workers : v # w => wk'[v] = wk[v]
        BY <1>0, <1>3 DEF Receive, Fresh, WorkerTypeOK
      <3>4. \A v \in Workers : (wk[v].msg = m \/ wk'[v].msg = m) =>
                wk'[v].msg = wk[v].msg /\ wk'[v].attempt = wk[v].attempt
        BY <2>2, <3>2, <3>3 DEF WorkerAssumption
      <3> QED BY <1>0, <3>1, <3>4, QuietAccount
    <2> QED BY <2>1, <2>2
  <1>4. ASSUME NEW w \in Workers, RejectMalformed(w) \/ Ack(w) \/ NackOrDeadLetter(w)
        PROVE  Account(m)'
    <2>1. CASE wk[w].msg = m
      BY <1>0, <1>4, <2>1, EndAccount
    <2>2. CASE wk[w].msg # m
      <3>1. queue'[m] = queue[m] /\ UNCHANGED faults
        BY <1>0, <1>4, <2>2
        DEF RejectMalformed, Ack, NackOrDeadLetter, ack, nack, dead_letter, QueueTypeOK
      <3>2. wk' = [wk EXCEPT ![w] = Fresh("idle")]
        BY <1>4 DEF RejectMalformed, Ack, NackOrDeadLetter, Done
      <3> QED BY <1>0, <2>2, <3>1, <3>2, OthersQuiet
    <2> QED BY <2>1, <2>2
  <1>5. ASSUME NEW w \in Workers, Crash(w) PROVE Account(m)'
    <2>1. CASE wk[w].msg = m
      BY <1>0, <1>5, <2>1, CrashAccount
    <2>2. CASE wk[w].msg # m
      <3>1. queue'[m] = queue[m] /\ faults' = faults + 1 /\ wk' = [wk EXCEPT ![w] = Fresh("down")]
        BY <1>5 DEF Crash, Fault
      <3> QED BY <1>0, <2>2, <3>1, OthersQuiet
    <2> QED BY <2>1, <2>2
  <1>6. ASSUME NEW n \in Messages, LeaseRunsOut(n) PROVE Account(m)'
    <2>1. CASE m = n
      BY <1>0, <1>6, <2>1, LeaseAccount
    <2>2. CASE m # n
      <3>1. queue'[m] = queue[m] /\ UNCHANGED wk
        BY <1>0, <1>6, <2>2 DEF LeaseRunsOut, VisibilityTimeout, QueueTypeOK
      <3>2. faults' \in {faults, faults + 1}
        BY <1>6 DEF LeaseRunsOut, Fault
      <3> QED BY <1>0, <3>1, <3>2, QuietAccount
    <2> QED BY <2>1, <2>2
  <1> QED BY <1>0, <1>1, <1>2, <1>3, <1>4, <1>5, <1>6, LeaseEffect

\* consumer.py:131: however many workers run, a message is delivered more often
\* than max_delivery_attempts only by one crash or early timeout each.
THEOREM ExtraDeliveriesArePaid == Spec => []ExtraDeliveriesArePaidByFaults
  <1>1. Init => PaidIInv
    BY TypeIInvInit, PaidInit DEF PaidIInv
  <1>2. PaidIInv /\ [Next]_vars => PaidIInv'
    BY TypeIInvStep, IdleHoldsNothingStep, AccountStep DEF PaidIInv, Accounts
  <1>3. PaidIInv => ExtraDeliveriesArePaidByFaults
    <2> SUFFICES ASSUME PaidIInv, NEW m \in Messages
                 PROVE  queue[m].read_ct <= MaxDelivery + faults
      BY DEF ExtraDeliveriesArePaidByFaults
    <2>1. TypeIInv /\ Account(m) /\ IsFiniteSet(Slots(m))
      BY DEF PaidIInv, Accounts, Account
    <2> QED BY <2>1, AccountNumbers DEF Account, One, Rest
  <1> QED BY <1>1, <1>2, <1>3, PTL DEF Spec
=============================================================================
