--------------------------- MODULE FrontDeskProofs ---------------------------
(***************************************************************************)
(* Theorems about FrontDesk for every set of requests, messages, workers   *)
(* and staff, and every retry ceiling and fault bound: types, the audit    *)
(* trail, dead letters, and then the tables under every interleaving of    *)
(* the api, the workers, the staff and the purge: who holds which lock,    *)
(* what a rollback leaves, which versions a request's drafts have.  Each   *)
(* inductive invariant of the tables contains the one before it.           *)
(***************************************************************************)
EXTENDS FrontDesk, TLAPS

USE StoreAssumption, WorkerAssumption, PurgeAssumption

\* max(version) exists: LatestVersion is a CHOOSE, which says nothing without it.
HasLatest(ds) == ds = {} \/ \E d \in ds : \A e \in ds : e.version <= d.version

HistoriesHaveLatest == \A r \in Requests : HasLatest(drafts[r])

TypeInv == TypeOK /\ HistoriesHaveLatest

-----------------------------------------------------------------------------
\* coalesce(max(version), 0) of a history that has a latest draft.
LEMMA LatestVersionIsMax ==
    ASSUME NEW r \in Requests, drafts[r] \subseteq Drafts, HasLatest(drafts[r])
    PROVE  /\ LatestVersion(r) \in Nat
           /\ \A d \in drafts[r] : d.version <= LatestVersion(r)
           /\ drafts[r] # {} => LatestVersion(r) \in Versions(drafts[r])
           /\ drafts[r] # {} => LatestDraft(r) \in drafts[r] /\ LatestDraft(r).version = LatestVersion(r)
  <1>1. CASE drafts[r] = {}
    BY <1>1 DEF LatestVersion
  <1>2. CASE drafts[r] # {}
    <2> DEFINE P(v) == v \in Versions(drafts[r]) /\ \A x \in Versions(drafts[r]) : x <= v
    <2>1. PICK d \in drafts[r] : \A e \in drafts[r] : e.version <= d.version
      BY <1>2 DEF HasLatest
    <2>2. P(d.version)
      BY <2>1 DEF Versions
    <2>3. P(LatestVersion(r))
      BY <1>2, <2>2 DEF LatestVersion
    <2>4. LatestVersion(r) \in Nat /\ \A e \in drafts[r] : e.version <= LatestVersion(r)
      BY <2>3 DEF Versions, Drafts
    <2>5. \E e \in drafts[r] : e.version = LatestVersion(r)
      BY <2>3 DEF Versions
    <2>6. LatestDraft(r) \in drafts[r] /\ LatestDraft(r).version = LatestVersion(r)
      BY <2>5 DEF LatestDraft
    <2> QED BY <2>3, <2>4, <2>6
  <1> QED BY <1>1, <1>2

\* Adding one draft to a history that has a latest draft.
LEMMA AddDraftHasLatest ==
    ASSUME NEW ds \in SUBSET Drafts, HasLatest(ds), NEW d \in Drafts
    PROVE  HasLatest(ds \cup {d})
  <1>1. CASE ds = {}
    BY <1>1 DEF HasLatest, Drafts
  <1>2. CASE ds # {}
    <2>1. PICK e \in ds : \A x \in ds : x.version <= e.version
      BY <1>2 DEF HasLatest
    <2>2. CASE d.version <= e.version
      BY <2>1, <2>2 DEF HasLatest
    <2>3. CASE e.version <= d.version
      BY <2>1, <2>3 DEF HasLatest, Drafts
    <2> QED BY <2>2, <2>3 DEF Drafts
  <1> QED BY <1>1, <1>2

LEMMA InitTypeInv == Init => TypeInv
  BY DEF Init, TypeInv, TypeOK, HistoriesHaveLatest, HasLatest, StoreInit, StoreTypeOK,
         IntakeInit, IntakeTypeOK, IntakeSteps, WorkerInit, WorkerTypeOK, WorkerStates,
         WorkerSteps, Fresh, StaffInit, StaffTypeOK, StaffStates, StaffSteps, NotActing,
         ActionKinds, QueueTypeOK, MessagePlaces, Rows, NoRow, Statuses

-----------------------------------------------------------------------------
\* Types of the parts the worker's and the staff's actions are made of.
LEMMA VerdictDraftType ==
    ASSUME NEW w \in Workers, wk \in [Workers -> WorkerStates], wk[w].version > 0
    PROVE  VerdictDraft(w) \in Drafts
  BY DEF VerdictDraft, Drafts, Authors, WorkerStates

LEMMA EditedDraftType ==
    ASSUME NEW s \in Staff, st \in [Staff -> StaffStates]
    PROVE  EditedDraft(s) \in Drafts
  BY DEF EditedDraft, Drafts, Authors, StaffStates

LEMMA ReleaseRowsType ==
    ASSUME NEW w \in Workers, StoreTypeOK, HistoriesHaveLatest, ReleaseRowsOf(w)
    PROVE  StoreTypeOK' /\ HistoriesHaveLatest'
  BY DEF StoreTypeOK, HistoriesHaveLatest, ReleaseRowsOf

LEMMA RollbackStaffType ==
    ASSUME NEW s \in Staff, StoreTypeOK, HistoriesHaveLatest, StaffTypeOK, RollbackStaff(s)
    PROVE  StoreTypeOK' /\ HistoriesHaveLatest' /\ StaffTypeOK'
  BY DEF StoreTypeOK, HistoriesHaveLatest, RollbackStaff, PendingWithout, StaffTypeOK,
         StaffStates, NotActing, StaffSteps, ActionKinds, Statuses

LEMMA IntakeTypeInv == TypeInv /\ IntakeNext /\ UNCHANGED <<wk, faults, st>> => TypeInv'
  <1> SUFFICES ASSUME TypeInv, IntakeNext, UNCHANGED <<wk, faults, st>> PROVE TypeInv'
    OBVIOUS
  <1>0. PICK r \in Requests :
           insertRequest(r) \/ enqueueRequest(r) \/ reply201(r) \/ intakeFails(r)
    BY DEF IntakeNext
  <1> USE DEF TypeInv, TypeOK, StoreTypeOK, QueueTypeOK, IntakeTypeOK, IntakeSteps,
              WorkerTypeOK, StaffTypeOK, HistoriesHaveLatest
  <1>1. CASE insertRequest(r)
    BY <1>1 DEF insertRequest, InsertRow, NoRow, Rows, Statuses
  <1>2. CASE enqueueRequest(r)
    BY <1>2 DEF enqueueRequest, send, MessagePlaces, storeVars
  <1>3. CASE reply201(r)
    BY <1>3 DEF reply201, storeVars
  <1>4. CASE intakeFails(r)
    BY <1>4 DEF intakeFails, storeVars
  <1> QED BY <1>0, <1>1, <1>2, <1>3, <1>4

\* What a step of the worker loop can do to the tables: nothing, lock a row,
\* give its locks back, or commit a verdict.
LEMMA WorkerStoreEffect ==
    ASSUME WorkerNext
    PROVE  \/ UNCHANGED storeVars
           \/ \E w \in Workers : Claim(w)
           \/ \E w \in Workers : ReleaseRowsOf(w)
           \/ \E w \in Workers : InsertAndCommit(w)
  BY DEF WorkerNext, WorkerStep, WorkerTrouble, Start, Receive, RejectMalformed,
         RequestNotFound, _write_result, CommitResult, CommitReplyLost, DuplicateVersion,
         PipelineRaises, Rollback, Ack, NackOrDeadLetter, Crash, LeaseRunsOut

\* What it can do to the queue.
LEMMA WorkerQueueEffect ==
    ASSUME WorkerNext
    PROVE  \/ UNCHANGED queue
           \/ \E w \in Workers, m \in Messages : Receive(w, m)
           \/ \E w \in Workers : RejectMalformed(w)
           \/ \E w \in Workers : Ack(w)
           \/ \E w \in Workers : NackOrDeadLetter(w)
           \/ \E m \in Messages : LeaseRunsOut(m)
  BY DEF WorkerNext, WorkerStep, WorkerTrouble, Start, Claim, RequestNotFound,
         _write_result, CommitResult, CommitReplyLost, InsertAndCommit, DuplicateVersion,
         PipelineRaises, Crash

LEMMA InsertAndCommitType ==
    ASSUME NEW w \in Workers, StoreTypeOK, HistoriesHaveLatest, WorkerTypeOK,
           wk[w].msg \in Requests, wk[w].version > 0, InsertAndCommit(w)
    PROVE  StoreTypeOK' /\ HistoriesHaveLatest'
  <1> DEFINE r == wk[w].msg
  <1>1. VerdictDraft(w) \in Drafts
    BY VerdictDraftType DEF WorkerTypeOK
  <1>2. /\ drafts' = [drafts EXCEPT ![r] = @ \cup {VerdictDraft(w)}]
        /\ req' = [req EXCEPT ![r].status = wk[w].status]
        /\ rowLock' = [rowLock EXCEPT ![r] = NoOne]
        /\ UNCHANGED <<audit, pending>>
        /\ r \in Requests
        /\ wk[w].status \in Statuses
    BY DEF InsertAndCommit, WorkerTypeOK, WorkerStates
  <1> HIDE DEF r
  <1>3. StoreTypeOK'
    BY <1>1, <1>2 DEF StoreTypeOK, Rows
  <1>4. HistoriesHaveLatest'
    <2>1. HasLatest(drafts[r] \cup {VerdictDraft(w)})
      BY <1>1, <1>2, AddDraftHasLatest DEF StoreTypeOK, HistoriesHaveLatest
    <2> QED BY <1>2, <2>1 DEF StoreTypeOK, HistoriesHaveLatest
  <1> QED BY <1>3, <1>4

\* The worker's own state; what it holds a row for is a request, and the draft
\* version it has chosen is at least 1.
WorkerHoldsRequests ==
    \A w \in Workers :
        /\ wk[w].pc \notin {"down", "idle"} => wk[w].msg \in Messages
        /\ wk[w].pc \in {"claimed", "writing", "acking", "failed"} => wk[w].msg \in Requests
        /\ wk[w].pc = "writing" => wk[w].version > 0 /\ wk[w].status \in {"drafted", "needs_human"}

WorkerInv == WorkerTypeOK /\ WorkerHoldsRequests

\* What the worker's steps do to its own state, action by action.
LEMMA ReceiveWorker ==
    ASSUME WorkerInv, QueueTypeOK, NEW w \in Workers, NEW m \in Messages, Receive(w, m)
    PROVE  WorkerInv'
  <1> DEFINE a == queue[m].read_ct + 1
             new == [Fresh("received") EXCEPT !.msg = m, !.attempt = a]
  <1>1. a \in Nat
    BY DEF QueueTypeOK
  <1>2. wk' = [wk EXCEPT ![w] = new] /\ UNCHANGED faults
    BY DEF Receive
  <1> HIDE DEF a
  <1>3. new \in WorkerStates
    <2>1. Fresh("received") \in WorkerStates
      BY DEF WorkerStates, WorkerSteps, Statuses, Fresh
    <2> QED BY <1>1, <2>1 DEF WorkerStates
  <1>4. new.pc = "received" /\ new.msg = m
    BY DEF Fresh
  <1> HIDE DEF new
  <1> QED BY <1>2, <1>3, <1>4 DEF WorkerInv, WorkerTypeOK, WorkerHoldsRequests

\* Three fields of a worker's record are overwritten.
LEMMA SetWorkerType ==
    ASSUME WorkerTypeOK, NEW w \in Workers, UNCHANGED faults,
           NEW step \in WorkerSteps, NEW status \in Statuses, NEW v \in Nat,
           wk' = [wk EXCEPT ![w].pc = step, ![w].status = status, ![w].version = v]
    PROVE  WorkerTypeOK'
  <1> DEFINE new == [wk[w] EXCEPT !.pc = step, !.status = status, !.version = v]
  <1>1. wk' = [wk EXCEPT ![w] = new]
    BY DEF WorkerTypeOK
  <1>2. new \in WorkerStates
    BY DEF WorkerTypeOK, WorkerStates
  <1> QED BY <1>1, <1>2 DEF WorkerTypeOK

LEMMA ClaimWorker ==
    ASSUME WorkerInv, NEW w \in Workers, Claim(w)
    PROVE  WorkerInv'
  <1> DEFINE new == [wk[w] EXCEPT !.pc = "claimed", !.status = "triaging"]
  <1>1. /\ wk' = [wk EXCEPT ![w] = new]
        /\ wk[w].msg \in Requests /\ UNCHANGED faults
    BY DEF Claim
  <1>2. new \in WorkerStates /\ new.pc = "claimed" /\ new.msg \in Requests
    BY <1>1 DEF WorkerInv, WorkerTypeOK, WorkerStates, WorkerSteps, Statuses
  <1> HIDE DEF new
  <1> QED BY <1>1, <1>2 DEF WorkerInv, WorkerTypeOK, WorkerHoldsRequests

LEMMA RollbackWorker ==
    ASSUME WorkerInv, NEW w \in Workers, Rollback(w), UNCHANGED faults,
           wk[w].pc \in {"claimed", "writing"}
    PROVE  WorkerInv'
  <1>1. wk' = [wk EXCEPT ![w].pc = "failed", ![w].status = "absent", ![w].version = 0]
    BY DEF Rollback
  <1>2. WorkerTypeOK'
    BY <1>1, SetWorkerType DEF WorkerInv, WorkerSteps, Statuses
  <1>3. WorkerHoldsRequests'
    BY <1>1 DEF WorkerInv, WorkerTypeOK, WorkerStates, WorkerHoldsRequests
  <1> QED BY <1>2, <1>3 DEF WorkerInv

LEMMA WriteResultWorker ==
    ASSUME StoreTypeOK, HistoriesHaveLatest, WorkerInv, NEW w \in Workers,
           NEW verdict \in {"drafted", "needs_human"}, _write_result(w, verdict)
    PROVE  WorkerInv'
  <1> DEFINE v == _next_draft_version(wk[w].msg)
  <1>1. wk[w].msg \in Requests
    BY DEF WorkerInv, WorkerHoldsRequests, _write_result
  <1>2. v \in Nat /\ v > 0
    <2>1. drafts[wk[w].msg] \subseteq Drafts /\ HasLatest(drafts[wk[w].msg])
      BY <1>1 DEF StoreTypeOK, HistoriesHaveLatest
    <2>2. LatestVersion(wk[w].msg) \in Nat
      BY <1>1, <2>1, LatestVersionIsMax
    <2> QED BY <2>2 DEF _next_draft_version
  <1>3. /\ wk' = [wk EXCEPT ![w].pc = "writing", ![w].status = verdict, ![w].version = v]
        /\ UNCHANGED faults
    BY DEF _write_result
  <1> HIDE DEF v
  <1>4. WorkerTypeOK'
    BY <1>2, <1>3, SetWorkerType DEF WorkerInv, WorkerSteps, Statuses
  <1>5. WorkerHoldsRequests'
    BY <1>1, <1>2, <1>3 DEF WorkerInv, WorkerTypeOK, WorkerStates, WorkerHoldsRequests
  <1> QED BY <1>4, <1>5 DEF WorkerInv

LEMMA WorkerInvStep ==
    ASSUME StoreTypeOK, HistoriesHaveLatest, QueueTypeOK, WorkerInv, WorkerNext
    PROVE  WorkerInv'
  <1> USE DEF WorkerInv, WorkerTypeOK, WorkerHoldsRequests
  <1>1. ASSUME NEW w \in Workers, Start(w) PROVE WorkerInv'
    BY <1>1 DEF Start, Goto, WorkerStates, WorkerSteps
  <1>3. ASSUME NEW w \in Workers, RejectMalformed(w) PROVE WorkerInv'
    BY <1>3 DEF RejectMalformed, Done, Fresh, WorkerStates, WorkerSteps, Statuses
  <1>4. ASSUME NEW w \in Workers, Claim(w) PROVE WorkerInv'
    BY <1>4, ClaimWorker
  <1>5. ASSUME NEW w \in Workers, RequestNotFound(w) PROVE WorkerInv'
    BY <1>5 DEF RequestNotFound, Goto, WorkerStates, WorkerSteps
  <1>8. ASSUME NEW w \in Workers, CommitResult(w) PROVE WorkerInv'
    BY <1>8 DEF CommitResult, InsertAndCommit, Goto, WorkerStates, WorkerSteps
  <1>9. ASSUME NEW w \in Workers, CommitReplyLost(w) PROVE WorkerInv'
    BY <1>9 DEF CommitReplyLost, InsertAndCommit, Fault, WorkerStates, WorkerSteps, Statuses
  <1>10. ASSUME NEW w \in Workers, Ack(w) \/ NackOrDeadLetter(w) PROVE WorkerInv'
    BY <1>10 DEF Ack, NackOrDeadLetter, Done, Fresh, WorkerStates, WorkerSteps, Statuses
  <1>11. ASSUME NEW w \in Workers, Crash(w) PROVE WorkerInv'
    BY <1>11 DEF Crash, Fault, Fresh, WorkerStates, WorkerSteps, Statuses
  <1>12. ASSUME NEW m \in Messages, LeaseRunsOut(m) PROVE WorkerInv'
    BY <1>12 DEF LeaseRunsOut, Fault
  <1>13. ASSUME NEW w \in Workers, PipelineRaises(w) \/ DuplicateVersion(w) PROVE WorkerInv'
    <2>1. Rollback(w) /\ UNCHANGED faults /\ wk[w].pc \in {"claimed", "writing"}
      BY <1>13 DEF PipelineRaises, DuplicateVersion
    <2> QED BY <2>1, RollbackWorker
  <1> HIDE DEF WorkerInv, WorkerTypeOK, WorkerHoldsRequests
  <1>14. ASSUME NEW w \in Workers, NEW m \in Messages, Receive(w, m) PROVE WorkerInv'
    BY <1>14, ReceiveWorker
  <1>15. ASSUME NEW w \in Workers, NEW verdict \in {"drafted", "needs_human"},
                _write_result(w, verdict)
         PROVE  WorkerInv'
    BY <1>15, WriteResultWorker
  <1> QED
    BY <1>1, <1>3, <1>4, <1>5, <1>8, <1>9, <1>10, <1>11, <1>12, <1>13, <1>14, <1>15
    DEF WorkerNext, WorkerStep, WorkerTrouble

LEMMA QueueStep ==
    ASSUME QueueTypeOK, WorkerInv, WorkerNext
    PROVE  QueueTypeOK'
  <1>1. ASSUME NEW m \in Messages, receive(m) PROVE QueueTypeOK'
    BY <1>1 DEF receive, QueueTypeOK, MessagePlaces
  <1>2. ASSUME NEW m \in Messages, ack(m) \/ nack(m) \/ dead_letter(m) PROVE QueueTypeOK'
    BY <1>2 DEF ack, nack, dead_letter, QueueTypeOK, MessagePlaces
  <1>3. ASSUME NEW m \in Messages, VisibilityTimeout(m) PROVE QueueTypeOK'
    BY <1>3 DEF VisibilityTimeout, QueueTypeOK, MessagePlaces
  <1>4. ASSUME NEW w \in Workers, RejectMalformed(w) \/ Ack(w) \/ NackOrDeadLetter(w)
        PROVE  QueueTypeOK'
    <2>1. wk[w].msg \in Messages
      BY <1>4 DEF RejectMalformed, Ack, NackOrDeadLetter, WorkerInv, WorkerHoldsRequests
    <2>2. ack(wk[w].msg) \/ nack(wk[w].msg) \/ dead_letter(wk[w].msg)
      BY <1>4 DEF RejectMalformed, Ack, NackOrDeadLetter
    <2> QED BY <1>2, <2>1, <2>2
  <1>5. ASSUME UNCHANGED queue PROVE QueueTypeOK'
    BY <1>5 DEF QueueTypeOK
  <1>6. ASSUME NEW w \in Workers, NEW m \in Messages, Receive(w, m) PROVE QueueTypeOK'
    BY <1>6, <1>1 DEF Receive
  <1>7. ASSUME NEW m \in Messages, LeaseRunsOut(m) PROVE QueueTypeOK'
    BY <1>7, <1>3 DEF LeaseRunsOut
  <1> QED BY <1>4, <1>5, <1>6, <1>7, WorkerQueueEffect

LEMMA StoreStepOfWorker ==
    ASSUME StoreTypeOK, HistoriesHaveLatest, WorkerInv, WorkerNext
    PROVE  StoreTypeOK' /\ HistoriesHaveLatest'
  <1>1. ASSUME UNCHANGED storeVars PROVE StoreTypeOK' /\ HistoriesHaveLatest'
    BY <1>1 DEF storeVars, StoreTypeOK, HistoriesHaveLatest
  <1>2. ASSUME NEW w \in Workers, Claim(w) PROVE StoreTypeOK' /\ HistoriesHaveLatest'
    BY <1>2 DEF Claim, LockRow, StoreTypeOK, HistoriesHaveLatest
  <1>3. ASSUME NEW w \in Workers, InsertAndCommit(w)
        PROVE  StoreTypeOK' /\ HistoriesHaveLatest'
    <2>1. wk[w].msg \in Requests /\ wk[w].version > 0
      BY <1>3 DEF InsertAndCommit, WorkerInv, WorkerHoldsRequests
    <2> QED BY <1>3, <2>1, InsertAndCommitType DEF WorkerInv
  <1> QED BY <1>1, <1>2, <1>3, ReleaseRowsType, WorkerStoreEffect

-----------------------------------------------------------------------------
\* A staff call past its first statement has a request; one that is ready to
\* publish has a reply.
StaffHoldRequests ==
    \A s \in Staff :
        /\ st[s].pc # "idle" => st[s].req \in Requests
        /\ st[s].pc = "ready" => st[s].kind # "reject" /\ st[s].reply \in Drafts

StaffInv == StaffTypeOK /\ StaffHoldRequests

LEMMA IdleStaff ==
    ASSUME StaffInv, NEW s \in Staff, st' = [st EXCEPT ![s] = NotActing]
    PROVE  StaffInv'
  <1>1. NotActing \in StaffStates
    BY DEF NotActing, StaffStates, StaffSteps, ActionKinds, Statuses
  <1>2. NotActing.pc = "idle"
    BY DEF NotActing
  <1> QED BY <1>1, <1>2 DEF StaffInv, StaffTypeOK, StaffHoldRequests

LEMMA StaffInvStep ==
    ASSUME StoreTypeOK, HistoriesHaveLatest, StaffInv, StaffNext
    PROVE  StaffInv'
  <1>1. ASSUME NEW s \in Staff, NEW r \in Requests, NEW kind \in ActionKinds,
               loadRow(s, r, kind)
        PROVE  StaffInv'
    <2> DEFINE new == [NotActing EXCEPT
                          !.pc = "statusRead", !.kind = kind, !.req = r,
                          !.status = req[r].status, !.replyText = req[r].reply]
    <2>1. st' = [st EXCEPT ![s] = new]
      BY <1>1 DEF loadRow
    <2>2. new \in StaffStates
      <3>1. NotActing \in StaffStates
        BY DEF NotActing, StaffStates, StaffSteps, ActionKinds, Statuses
      <3>2. req[r].status \in Statuses /\ req[r].reply \in Drafts \cup {NoReply}
        BY DEF StoreTypeOK, Rows
      <3> QED BY <3>1, <3>2 DEF StaffStates, StaffSteps
    <2>3. new.pc = "statusRead" /\ new.req = r
      BY DEF NotActing
    <2> HIDE DEF new
    <2> QED BY <2>1, <2>2, <2>3 DEF StaffInv, StaffTypeOK, StaffHoldRequests
  <1>2. ASSUME NEW s \in Staff, loadLatestVersion(s) PROVE StaffInv'
    <2> DEFINE v == LatestVersion(st[s].req)
               new == [st[s] EXCEPT !.pc = "stateRead", !.latest = v]
    <2>1. st[s].req \in Requests /\ st[s].pc = "statusRead"
      BY <1>2 DEF loadLatestVersion, StaffInv, StaffHoldRequests
    <2>2. drafts[st[s].req] \subseteq Drafts /\ HasLatest(drafts[st[s].req])
      BY <2>1 DEF StoreTypeOK, HistoriesHaveLatest
    <2>3. v \in Nat
      BY <2>1, <2>2, LatestVersionIsMax
    <2>4. st' = [st EXCEPT ![s] = new]
      BY <1>2 DEF loadLatestVersion, StaffInv, StaffTypeOK
    <2> HIDE DEF v
    <2>5. /\ new \in StaffStates /\ new.pc = "stateRead" /\ new.req = st[s].req
      BY <2>3 DEF StaffInv, StaffTypeOK, StaffStates, StaffSteps
    <2> HIDE DEF new
    <2> QED BY <2>1, <2>4, <2>5 DEF StaffInv, StaffTypeOK, StaffHoldRequests
  <1>3. ASSUME NEW s \in Staff, NEW d \in Drafts, st[s].pc = "stateRead", st[s].kind # "reject",
               st' = [st EXCEPT ![s].pc = "ready", ![s].reply = d]
        PROVE  StaffInv'
    <2> DEFINE new == [st[s] EXCEPT !.pc = "ready", !.reply = d]
    <2>1. st' = [st EXCEPT ![s] = new]
      BY <1>3 DEF StaffInv, StaffTypeOK
    <2>2. new \in StaffStates
      BY DEF StaffInv, StaffTypeOK, StaffStates, StaffSteps
    <2>3. new.pc = "ready" /\ new.req = st[s].req /\ new.kind = st[s].kind /\ new.reply = d
      BY DEF StaffInv, StaffTypeOK, StaffStates
    <2> HIDE DEF new
    <2> QED BY <1>3, <2>1, <2>2, <2>3 DEF StaffInv, StaffTypeOK, StaffHoldRequests
  <1>4. ASSUME NEW s \in Staff, readDraftToApprove(s) PROVE StaffInv'
    <2>1. st[s].req \in Requests
      BY <1>4 DEF readDraftToApprove, StaffInv, StaffHoldRequests
    <2>2. drafts[st[s].req] \subseteq Drafts /\ HasLatest(drafts[st[s].req])
      BY <2>1 DEF StoreTypeOK, HistoriesHaveLatest
    <2>3. LatestDraft(st[s].req) \in Drafts
      BY <1>4, <2>1, <2>2, LatestVersionIsMax DEF readDraftToApprove
    <2> QED BY <1>3, <1>4, <2>3 DEF readDraftToApprove
  <1>5. ASSUME NEW s \in Staff, insertEditedDraft(s) PROVE StaffInv'
    <2>1. EditedDraft(s) \in Drafts
      BY EditedDraftType DEF StaffInv, StaffTypeOK
    <2> QED BY <1>3, <1>5, <2>1 DEF insertEditedDraft
  <1>6. ASSUME NEW s \in Staff, resolveAndRecord(s) \/ RollbackStaff(s) PROVE StaffInv'
    BY <1>6, IdleStaff DEF resolveAndRecord, RollbackStaff
  <1> QED BY <1>1, <1>2, <1>4, <1>5, <1>6 DEF StaffNext, StaffStep, actionFails, Abort

\* The row that audits a call which is about to write.
LEMMA ActionRowType ==
    ASSUME NEW s \in Staff, StaffInv, ReadyToWrite(s)
    PROVE  ActionRow(s) \in Actions
  <1>1. st[s] \in StaffStates
    BY DEF StaffInv, StaffTypeOK
  <1>2. Before(s) \in ActionSnapshots
    BY <1>1 DEF Before, ActionSnapshots, StaffStates
  <1>3. After(s) \in ActionSnapshots
    <2>1. CASE st[s].kind = "reject"
      BY <1>1, <2>1 DEF After, ActionSnapshots, StaffStates, Statuses
    <2>2. CASE st[s].kind # "reject"
      <3>1. st[s].reply \in Drafts
        BY <2>2 DEF StaffInv, StaffHoldRequests, ReadyToWrite
      <3>2. st[s].reply.version \in Nat
        BY <3>1 DEF Drafts
      <3> QED BY <2>2, <3>1, <3>2 DEF After, ActionSnapshots, Statuses
    <2> QED BY <2>1, <2>2
  <1> QED BY <1>1, <1>2, <1>3 DEF ActionRow, Actions, StaffStates

LEMMA ResolveStore ==
    ASSUME NEW s \in Staff, StoreTypeOK, HistoriesHaveLatest, StaffInv, resolveAndRecord(s)
    PROVE  StoreTypeOK' /\ HistoriesHaveLatest'
  <1> DEFINE r == st[s].req
             row == ResolvedRow(s, req[r])
             log == recordAction(audit[r], ActionRow(s))
             ds == CommittedDrafts(s, drafts[r])
  <1>1. r \in Requests /\ ReadyToWrite(s)
    BY DEF resolveAndRecord, ReadyToWrite, StaffInv, StaffHoldRequests
  <1>2. st[s].kind # "reject" => st[s].reply \in Drafts
    BY <1>1 DEF StaffInv, StaffHoldRequests, ReadyToWrite
  <1>3. row \in Rows
    <2>1. After(s).status \in Statuses
      BY DEF After, Statuses
    <2>2. req[r] \in Rows
      BY <1>1 DEF StoreTypeOK
    <2> QED BY <1>2, <2>1, <2>2 DEF ResolvedRow, Rows
  <1>4. log \in Seq(Actions)
    BY <1>1, ActionRowType DEF recordAction, StoreTypeOK
  <1>5. ds \subseteq Drafts /\ HasLatest(ds)
    <2>1. drafts[r] \in SUBSET Drafts /\ HasLatest(drafts[r])
      BY <1>1 DEF StoreTypeOK, HistoriesHaveLatest
    <2> QED BY <1>2, <2>1, AddDraftHasLatest DEF CommittedDrafts
  <1>6. PendingWithout(s) \in [Requests -> SUBSET Drafts]
    BY DEF PendingWithout, StoreTypeOK
  <1>7. /\ req' = [req EXCEPT ![r] = row]
        /\ audit' = [audit EXCEPT ![r] = log]
        /\ drafts' = [drafts EXCEPT ![r] = ds]
        /\ pending' = PendingWithout(s)
        /\ UNCHANGED rowLock
    BY <1>1 DEF resolveAndRecord, StoreTypeOK
  <1> HIDE DEF r, row, log, ds
  <1>8. StoreTypeOK'
    BY <1>1, <1>3, <1>4, <1>5, <1>6, <1>7 DEF StoreTypeOK
  <1>9. HistoriesHaveLatest'
    BY <1>1, <1>5, <1>7 DEF StoreTypeOK, HistoriesHaveLatest
  <1> QED BY <1>8, <1>9

LEMMA StoreStepOfStaff ==
    ASSUME StoreTypeOK, HistoriesHaveLatest, StaffInv, StaffNext
    PROVE  StoreTypeOK' /\ HistoriesHaveLatest'
  <1>1. ASSUME NEW s \in Staff, insertEditedDraft(s)
        PROVE  StoreTypeOK' /\ HistoriesHaveLatest'
    <2>1. EditedDraft(s) \in Drafts
      BY EditedDraftType DEF StaffInv, StaffTypeOK
    <2> QED BY <1>1, <2>1 DEF insertEditedDraft, StoreTypeOK, HistoriesHaveLatest
  <1>2. ASSUME UNCHANGED storeVars PROVE StoreTypeOK' /\ HistoriesHaveLatest'
    BY <1>2 DEF storeVars, StoreTypeOK, HistoriesHaveLatest
  <1>3. ASSUME NEW s \in Staff, RollbackStaff(s)
        PROVE  StoreTypeOK' /\ HistoriesHaveLatest'
    BY <1>3, RollbackStaffType DEF StaffInv
  <1>4. PICK s \in Staff :
           \/ UNCHANGED storeVars
           \/ insertEditedDraft(s)
           \/ resolveAndRecord(s)
           \/ RollbackStaff(s)
    BY DEF StaffNext, StaffStep, loadRow, loadLatestVersion, readDraftToApprove, actionFails, Abort
  <1> QED BY <1>1, <1>2, <1>3, <1>4, ResolveStore

-----------------------------------------------------------------------------
\* The inductive invariant behind the type invariant: the types alone are not
\* inductive, since max(version) is a number only for a history that has a
\* latest draft, and the rows an action writes are those a process holds.
TypeIInv == TypeInv /\ WorkerHoldsRequests /\ StaffHoldRequests

LEMMA TypeIInvInit == Init => TypeIInv
  <1> SUFFICES ASSUME Init PROVE TypeIInv
    OBVIOUS
  <1>1. WorkerHoldsRequests
    BY DEF Init, WorkerInit, WorkerHoldsRequests, Fresh
  <1>2. StaffHoldRequests
    BY DEF Init, StaffInit, StaffHoldRequests, NotActing
  <1> QED BY <1>1, <1>2, InitTypeInv DEF TypeIInv

LEMMA TypeIInvStep == TypeIInv /\ [Next]_vars => TypeIInv'
  <1> SUFFICES ASSUME TypeIInv, [Next]_vars PROVE TypeIInv'
    OBVIOUS
  <1> USE DEF TypeIInv, TypeInv, TypeOK
  <1>0. WorkerInv /\ StaffInv
    BY DEF WorkerInv, StaffInv
  <1>1. CASE IntakeNext /\ UNCHANGED <<wk, faults, st>>
    BY <1>1, IntakeTypeInv DEF WorkerHoldsRequests, StaffHoldRequests
  <1>2. CASE WorkerNext /\ UNCHANGED <<intake, st>>
    BY <1>0, <1>2, WorkerInvStep, QueueStep, StoreStepOfWorker
    DEF WorkerInv, IntakeTypeOK, StaffTypeOK, StaffHoldRequests
  <1>3. CASE StaffNext /\ UNCHANGED <<queue, intake, wk, faults>>
    BY <1>0, <1>3, StaffInvStep, StoreStepOfStaff
    DEF StaffInv, IntakeTypeOK, QueueTypeOK, WorkerTypeOK, WorkerHoldsRequests
  <1>4. CASE Purge
    <2>1. PICK batch \in SUBSET DemoRequests : DeleteRows(batch)
      BY <1>4 DEF Purge, purgeOrgRequests
    <2>2. NoRow \in Rows
      BY DEF NoRow, Rows, Statuses
    <2>3. StoreTypeOK'
      BY <2>1, <2>2 DEF DeleteRows, StoreTypeOK
    <2>4. HistoriesHaveLatest'
      BY <2>1 DEF DeleteRows, HistoriesHaveLatest, HasLatest
    <2> QED BY <1>4, <2>3, <2>4
        DEF Purge, QueueTypeOK, IntakeTypeOK, WorkerTypeOK, StaffTypeOK,
            WorkerHoldsRequests, StaffHoldRequests
  <1>5. ASSUME NEW w \in Workers, NEW s \in Staff, ResolveDeadlock(w, s) PROVE TypeIInv'
    <2>1. CASE Rollback(w) /\ UNCHANGED st
      <3>1. WorkerInv'
        BY <1>0, <1>5, <2>1, RollbackWorker DEF ResolveDeadlock, Deadlocked
      <3>2. StoreTypeOK' /\ HistoriesHaveLatest'
        BY <2>1, ReleaseRowsType DEF Rollback
      <3> QED BY <1>5, <2>1, <3>1, <3>2
          DEF ResolveDeadlock, WorkerInv, QueueTypeOK, IntakeTypeOK, StaffTypeOK, StaffHoldRequests
    <2>2. CASE RollbackStaff(s) /\ UNCHANGED wk
      <3>1. StaffInv'
        BY <1>0, <2>2, IdleStaff DEF RollbackStaff
      <3>2. StoreTypeOK' /\ HistoriesHaveLatest'
        BY <2>2, RollbackStaffType
      <3> QED BY <1>5, <2>2, <3>1, <3>2
          DEF ResolveDeadlock, StaffInv, QueueTypeOK, IntakeTypeOK, WorkerTypeOK, WorkerHoldsRequests
    <2> QED BY <1>5, <2>1, <2>2 DEF ResolveDeadlock
  <1>6. CASE UNCHANGED vars
    BY <1>6 DEF vars, storeVars, intakeVars, workerVars, staffVars, StoreTypeOK, QueueTypeOK,
                IntakeTypeOK, WorkerTypeOK, StaffTypeOK, HistoriesHaveLatest,
                WorkerHoldsRequests, StaffHoldRequests
  <1> QED BY <1>1, <1>2, <1>3, <1>4, <1>5, <1>6 DEF Next

\* Every variable keeps its type, whatever interleaves with whatever.
THEOREM TypeCorrect == Spec => []TypeOK
  <1>1. Init => TypeIInv
    BY TypeIInvInit
  <1>2. TypeIInv /\ [Next]_vars => TypeIInv'
    BY TypeIInvStep
  <1>3. TypeIInv => TypeOK
    BY DEF TypeIInv, TypeInv
  <1> QED BY <1>1, <1>2, <1>3, PTL DEF Spec

-----------------------------------------------------------------------------
\* An audit row that has just been added is the newest one.
LEMMA NewestOfAppend ==
    ASSUME NEW log \in Seq(Actions), NEW row \in Actions
    PROVE  /\ Append(log, row) # <<>>
           /\ Newest(Append(log, row)) = row
           /\ Len(Append(log, row)) = Len(log) + 1
           /\ \A i \in 1..Len(log) : Append(log, row)[i] = log[i]
  BY DEF Newest

\* What any step does to the rows: nothing that commits, a new row, a
\* triage verdict, a decision of a member of staff, or a purge.
LEMMA RowEffect ==
    ASSUME [Next]_vars
    PROVE  \/ UNCHANGED <<req, drafts, audit>>
           \/ \E r \in Requests : insertRequest(r)
           \/ \E w \in Workers : InsertAndCommit(w)
           \/ \E s \in Staff : resolveAndRecord(s)
           \/ \E batch \in SUBSET Requests : DeleteRows(batch)
  <1>1. CASE IntakeNext
    BY <1>1 DEF IntakeNext, enqueueRequest, reply201, intakeFails, storeVars
  <1>2. CASE WorkerNext
    BY <1>2, WorkerStoreEffect DEF storeVars, Claim, LockRow, ReleaseRowsOf
  <1>3. CASE StaffNext
    BY <1>3 DEF StaffNext, StaffStep, loadRow, loadLatestVersion, readDraftToApprove,
                insertEditedDraft, actionFails, Abort, RollbackStaff, storeVars
  <1>4. CASE Purge
    BY <1>4 DEF Purge, purgeOrgRequests
  <1>5. CASE \E w \in Workers, s \in Staff : ResolveDeadlock(w, s)
    BY <1>5 DEF ResolveDeadlock, Rollback, ReleaseRowsOf, RollbackStaff
  <1>6. CASE UNCHANGED vars
    BY <1>6 DEF vars, storeVars
  <1> QED BY <1>1, <1>2, <1>3, <1>4, <1>5, <1>6 DEF Next

LEMMA ResolutionIsAuditedInit == Init => ResolutionIsAudited
  BY DEF Init, StoreInit, NoRow, ResolutionIsAudited, RESOLVED_STATUSES

LEMMA ResolutionIsAuditedStep ==
    TypeIInv /\ ResolutionIsAudited /\ [Next]_vars => ResolutionIsAudited'
  <1> SUFFICES ASSUME TypeIInv, ResolutionIsAudited, [Next]_vars
               PROVE  ResolutionIsAudited'
    OBVIOUS
  <1>0. StoreTypeOK /\ WorkerInv /\ StaffInv
    BY DEF TypeIInv, TypeInv, TypeOK, WorkerInv, StaffInv
  <1>1. CASE UNCHANGED <<req, drafts, audit>>
    BY <1>1 DEF ResolutionIsAudited
  <1>2. ASSUME NEW r \in Requests, insertRequest(r) PROVE ResolutionIsAudited'
    BY <1>0, <1>2 DEF insertRequest, InsertRow, NoRow, StoreTypeOK, ResolutionIsAudited,
                      RESOLVED_STATUSES
  <1>3. ASSUME NEW w \in Workers, InsertAndCommit(w) PROVE ResolutionIsAudited'
    <2>1. wk[w].msg \in Requests /\ wk[w].status \notin RESOLVED_STATUSES
      BY <1>0, <1>3 DEF InsertAndCommit, WorkerInv, WorkerHoldsRequests, RESOLVED_STATUSES
    <2>2. \A r \in Requests : \/ req'[r].status \notin RESOLVED_STATUSES
                              \/ req'[r] = req[r]
      BY <1>0, <1>3, <2>1 DEF InsertAndCommit, StoreTypeOK, Rows
    <2>3. audit' = audit
      BY <1>3 DEF InsertAndCommit
    <2> QED BY <2>2, <2>3 DEF ResolutionIsAudited
  <1>4. ASSUME NEW s \in Staff, resolveAndRecord(s) PROVE ResolutionIsAudited'
    <2> DEFINE r == st[s].req
    <2>1. r \in Requests /\ ReadyToWrite(s)
      BY <1>0, <1>4 DEF resolveAndRecord, ReadyToWrite, StaffInv, StaffHoldRequests
    <2>2. ActionRow(s) \in Actions /\ audit[r] \in Seq(Actions)
      BY <1>0, <2>1, ActionRowType DEF StoreTypeOK
    <2>3. audit'[r] # <<>> /\ Newest(audit'[r]).after = After(s)
      <3>1. audit'[r] = Append(audit[r], ActionRow(s))
        BY <1>0, <1>4, <2>1 DEF resolveAndRecord, recordAction, StoreTypeOK
      <3> QED BY <2>2, <3>1, NewestOfAppend DEF ActionRow
    <2>4. /\ req'[r].status = After(s).status
          /\ req'[r].status = "approved" => req'[r].reply = After(s).replyText
      <3>1. req'[r] = ResolvedRow(s, req[r]) /\ req[r] \in Rows
        BY <1>0, <1>4, <2>1 DEF resolveAndRecord, StoreTypeOK
      <3>2. CASE st[s].kind = "reject"
        BY <3>1, <3>2 DEF ResolvedRow, After, Rows
      <3>3. CASE st[s].kind # "reject"
        BY <3>1, <3>3 DEF ResolvedRow, After, Rows
      <3> QED BY <3>2, <3>3
    <2>5. \A q \in Requests : q # r => req'[q] = req[q] /\ audit'[q] = audit[q]
      BY <1>0, <1>4, <2>1 DEF resolveAndRecord, StoreTypeOK
    <2> HIDE DEF r
    <2> QED BY <2>1, <2>3, <2>4, <2>5 DEF ResolutionIsAudited
  <1>5. ASSUME NEW batch \in SUBSET Requests, DeleteRows(batch) PROVE ResolutionIsAudited'
    BY <1>5 DEF DeleteRows, NoRow, ResolutionIsAudited, RESOLVED_STATUSES
  <1> QED BY <1>1, <1>2, <1>3, <1>4, <1>5, RowEffect

\* F12 for any number of staff, workers and requests: what a request shows is
\* what its newest audit row says, even when late writers overwrite each other.
THEOREM ResolutionAudited == Spec => []ResolutionIsAudited
  <1> DEFINE IInv == TypeIInv /\ ResolutionIsAudited
  <1>1. Init => IInv
    BY TypeIInvInit, ResolutionIsAuditedInit
  <1>2. IInv /\ [Next]_vars => IInv'
    BY TypeIInvStep, ResolutionIsAuditedStep
  <1>3. IInv => ResolutionIsAudited
    OBVIOUS
  <1> QED BY <1>1, <1>2, <1>3, PTL DEF Spec

-----------------------------------------------------------------------------
LEMMA HistoryStep ==
    ASSUME TypeIInv, [Next]_vars, NEW r \in Requests, Exists(r)'
    PROVE  /\ drafts[r] \subseteq drafts'[r]
           /\ Len(audit[r]) <= Len(audit'[r])
           /\ \A i \in 1..Len(audit[r]) : audit'[r][i] = audit[r][i]
  <1> DEFINE Kept == /\ drafts[r] \subseteq drafts'[r]
                     /\ Len(audit[r]) <= Len(audit'[r])
                     /\ \A i \in 1..Len(audit[r]) : audit'[r][i] = audit[r][i]
  <1>0. StoreTypeOK /\ WorkerInv /\ StaffInv
    BY DEF TypeIInv, TypeInv, TypeOK, WorkerInv, StaffInv
  <1>1. audit[r] \in Seq(Actions) /\ Len(audit[r]) \in Nat
    BY <1>0 DEF StoreTypeOK
  <1>2. CASE drafts'[r] = drafts[r] /\ audit'[r] = audit[r]
    BY <1>1, <1>2
  <1>3. ASSUME NEW q \in Requests, insertRequest(q) PROVE Kept
    BY <1>2, <1>3 DEF insertRequest, InsertRow
  <1>4. ASSUME NEW w \in Workers, InsertAndCommit(w) PROVE Kept
    <2>1. drafts[r] \subseteq drafts'[r] /\ audit' = audit
      BY <1>0, <1>4 DEF InsertAndCommit, StoreTypeOK
    <2> QED BY <1>1, <2>1
  <1>5. ASSUME NEW s \in Staff, resolveAndRecord(s) PROVE Kept
    <2>1. ReadyToWrite(s) /\ ActionRow(s) \in Actions
      BY <1>0, <1>5, ActionRowType DEF resolveAndRecord
    <2>2. drafts[r] \subseteq drafts'[r]
      BY <1>0, <1>5 DEF resolveAndRecord, CommittedDrafts, StoreTypeOK
    <2>3. audit'[r] = audit[r] \/ audit'[r] = Append(audit[r], ActionRow(s))
      BY <1>0, <1>5 DEF resolveAndRecord, recordAction, StoreTypeOK
    <2> QED BY <1>1, <2>1, <2>2, <2>3, NewestOfAppend
  <1>6. ASSUME NEW batch \in SUBSET Requests, DeleteRows(batch) PROVE Kept
    <2>1. r \notin batch
      BY <1>6 DEF DeleteRows, Exists, NoRow
    <2> QED BY <1>2, <1>6, <2>1 DEF DeleteRows
  <1> QED BY <1>2, <1>3, <1>4, <1>5, <1>6, RowEffect

\* ADR-0018 for any number of actors: no step rewrites or drops a draft or an
\* audit row of a request that stays.
THEOREM HistoryAppendOnly == Spec => HistoryIsAppendOnly
  <1>1. Init => TypeIInv
    BY TypeIInvInit
  <1>2. TypeIInv /\ [Next]_vars => TypeIInv'
    BY TypeIInvStep
  <1>3. TypeIInv /\ [Next]_vars =>
           [\A r \in Requests :
               Exists(r)' =>
                  /\ drafts[r] \subseteq drafts'[r]
                  /\ Len(audit[r]) <= Len(audit'[r])
                  /\ \A i \in 1..Len(audit[r]) : audit'[r][i] = audit[r][i]]_vars
    BY HistoryStep
  <1> QED BY <1>1, <1>2, <1>3, PTL DEF Spec, HistoryIsAppendOnly

-----------------------------------------------------------------------------
\* The attempt a worker knows is a read count its message has had.
AttemptsAreReadCounts ==
    \A w \in Workers : wk[w].pc \notin {"down", "idle"} => wk[w].attempt <= queue[wk[w].msg].read_ct

CeilingIInv == TypeIInv /\ AttemptsAreReadCounts /\ DeadLetteredOnlyAtCeiling

LEMMA CeilingInit == Init => AttemptsAreReadCounts /\ DeadLetteredOnlyAtCeiling
  <1> SUFFICES ASSUME Init PROVE AttemptsAreReadCounts /\ DeadLetteredOnlyAtCeiling
    OBVIOUS
  <1>1. AttemptsAreReadCounts
    BY DEF Init, WorkerInit, Fresh, AttemptsAreReadCounts
  <1>2. DeadLetteredOnlyAtCeiling
    <2>1. \A r \in Requests : queue[r].at = "unsent"
      BY DEF Init, Malformed
    <2> QED BY <2>1 DEF DeadLetteredOnlyAtCeiling
  <1> QED BY <1>1, <1>2

\* No step lowers a read count.
LEMMA ReadCountsGrow ==
    ASSUME TypeIInv, [Next]_vars, NEW m \in Messages
    PROVE  queue'[m].read_ct >= queue[m].read_ct
  <1>0. QueueTypeOK /\ queue[m].read_ct \in Nat
    BY DEF TypeIInv, TypeInv, TypeOK, QueueTypeOK
  <1>1. CASE UNCHANGED queue
    BY <1>0, <1>1
  <1>2. ASSUME NEW n \in Messages, receive(n) PROVE queue'[m].read_ct >= queue[m].read_ct
    BY <1>0, <1>2 DEF receive, QueueTypeOK
  <1>3. ASSUME NEW n, send(n) \/ ack(n) \/ nack(n) \/ dead_letter(n) \/ VisibilityTimeout(n)
        PROVE  queue'[m].read_ct >= queue[m].read_ct
    BY <1>0, <1>3 DEF send, ack, nack, dead_letter, VisibilityTimeout, QueueTypeOK
  <1>4. CASE WorkerNext
    BY <1>1, <1>2, <1>3, <1>4, WorkerQueueEffect
    DEF Receive, RejectMalformed, Ack, NackOrDeadLetter, LeaseRunsOut
  <1>5. CASE IntakeNext
    BY <1>1, <1>3, <1>5 DEF IntakeNext, insertRequest, enqueueRequest, reply201, intakeFails
  <1> QED BY <1>1, <1>4, <1>5 DEF Next, Purge, ResolveDeadlock, vars

\* What any step does to worker w: nothing, a new delivery, the end of the one
\* it has, or a step with the same message and attempt.
Moves(w) ==
    \/ wk'[w] = wk[w]
    \/ \E m \in Messages : Receive(w, m)
    \/ wk'[w].pc \in {"down", "idle"}
    \/ /\ wk[w].pc \notin {"down", "idle"}
       /\ wk'[w].msg = wk[w].msg
       /\ wk'[w].attempt = wk[w].attempt

LEMMA WorkerMoves ==
    ASSUME WorkerTypeOK, [Next]_vars, NEW w \in Workers
    PROVE  Moves(w)
  <1>1. CASE UNCHANGED wk
    BY <1>1 DEF Moves
  <1>2. ASSUME NEW v \in Workers, NEW m \in Messages, Receive(v, m) PROVE Moves(w)
    <2>1. CASE v = w
      BY <1>2, <2>1 DEF Moves
    <2>2. CASE v # w
      BY <1>2, <2>2 DEF Moves, Receive, WorkerTypeOK
    <2> QED BY <2>1, <2>2
  <1>3. ASSUME NEW v \in Workers, Start(v) \/ Done(v) PROVE Moves(w)
    BY <1>3 DEF Start, Goto, Done, Fresh, Moves, WorkerTypeOK, WorkerStates
  <1>4. ASSUME NEW v \in Workers, Crash(v) PROVE Moves(w)
    BY <1>4 DEF Crash, Fresh, Moves, WorkerTypeOK, WorkerStates
  <1>5. ASSUME NEW v \in Workers, wk[v].pc \notin {"down", "idle"}, NEW step, Goto(v, step)
        PROVE  Moves(w)
    BY <1>5 DEF Goto, Moves, WorkerTypeOK, WorkerStates
  <1>6. ASSUME NEW v \in Workers, Claim(v) PROVE Moves(w)
    BY <1>6 DEF Claim, Moves, WorkerTypeOK, WorkerStates
  <1>7. ASSUME NEW v \in Workers, wk[v].pc \notin {"down", "idle"},
               NEW step, NEW status, NEW version,
               wk' = [wk EXCEPT ![v].pc = step, ![v].status = status, ![v].version = version]
        PROVE  Moves(w)
    <2>1. CASE v = w
      <3>1. wk'[w] = [wk[w] EXCEPT !.pc = step, !.status = status, !.version = version]
        BY <1>7, <2>1 DEF WorkerTypeOK
      <3>2. wk[w] \in WorkerStates
        BY DEF WorkerTypeOK
      <3> QED BY <1>7, <2>1, <3>1, <3>2 DEF Moves, WorkerStates
    <2>2. CASE v # w
      BY <1>7, <2>2 DEF Moves, WorkerTypeOK
    <2> QED BY <2>1, <2>2
  <1>8. ASSUME NEW v \in Workers, Rollback(v), wk[v].pc \in {"claimed", "writing"}
        PROVE  Moves(w)
    BY <1>7, <1>8 DEF Rollback
  <1>9. ASSUME NEW v \in Workers, CommitReplyLost(v) PROVE Moves(w)
    BY <1>7, <1>9 DEF CommitReplyLost, InsertAndCommit
  <1>10. ASSUME NEW v \in Workers, NEW verdict, _write_result(v, verdict) PROVE Moves(w)
    BY <1>7, <1>10 DEF _write_result
  <1>11. ASSUME NEW v \in Workers, RequestNotFound(v) PROVE Moves(w)
    BY <1>5, <1>11 DEF RequestNotFound
  <1>12. ASSUME NEW v \in Workers, CommitResult(v) PROVE Moves(w)
    BY <1>5, <1>12 DEF CommitResult, InsertAndCommit
  <1>13. ASSUME NEW v \in Workers, RejectMalformed(v) \/ Ack(v) \/ NackOrDeadLetter(v)
         PROVE  Moves(w)
    BY <1>3, <1>13 DEF RejectMalformed, Ack, NackOrDeadLetter
  <1>14. CASE WorkerNext
    BY <1>1, <1>2, <1>3, <1>4, <1>6, <1>8, <1>9, <1>10, <1>11, <1>12, <1>13, <1>14
    DEF WorkerNext, WorkerStep, WorkerTrouble, PipelineRaises, DuplicateVersion, LeaseRunsOut
  <1>15. CASE \E v \in Workers, s \in Staff : ResolveDeadlock(v, s)
    BY <1>1, <1>8, <1>15 DEF ResolveDeadlock, Deadlocked
  <1> QED BY <1>1, <1>14, <1>15 DEF Next, Purge, vars, workerVars

\* A request's message is archived by a worker that has failed at the ceiling.
LEMMA ArchivedByFailure ==
    ASSUME QueueTypeOK, WorkerInv, [Next]_vars, NEW r \in Requests,
           queue[r].at # "archived", queue'[r].at = "archived"
    PROVE  \E w \in Workers : wk[w].pc = "failed" /\ AtCeiling(w) /\ wk[w].msg = r
  <1>1. ASSUME NEW m, send(m) \/ receive(m) \/ ack(m) \/ nack(m) \/ VisibilityTimeout(m)
        PROVE  FALSE
    BY <1>1 DEF send, receive, ack, nack, VisibilityTimeout, QueueTypeOK
  <1>2. ASSUME NEW m, dead_letter(m) PROVE m = r
    BY <1>2 DEF dead_letter, QueueTypeOK
  <1>3. ~UNCHANGED queue
    OBVIOUS
  <1>4. ASSUME NEW w \in Workers, RejectMalformed(w) PROVE FALSE
    BY <1>2, <1>4 DEF RejectMalformed, Malformed
  <1>5. ASSUME NEW w \in Workers, NackOrDeadLetter(w)
        PROVE  wk[w].pc = "failed" /\ AtCeiling(w) /\ wk[w].msg = r
    BY <1>1, <1>2, <1>5 DEF NackOrDeadLetter
  <1>6. CASE WorkerNext
    BY <1>1, <1>3, <1>4, <1>5, <1>6, WorkerQueueEffect DEF Receive, Ack, LeaseRunsOut
  <1>7. ~IntakeNext
    BY <1>1, <1>3 DEF IntakeNext, insertRequest, enqueueRequest, reply201, intakeFails
  <1> QED BY <1>3, <1>6, <1>7 DEF Next, Purge, ResolveDeadlock, vars

LEMMA CeilingStep == CeilingIInv /\ [Next]_vars => CeilingIInv'
  <1> SUFFICES ASSUME CeilingIInv, [Next]_vars PROVE CeilingIInv'
    OBVIOUS
  <1>0. TypeIInv /\ TypeIInv' /\ QueueTypeOK /\ WorkerInv
    BY TypeIInvStep DEF CeilingIInv, TypeIInv, TypeInv, TypeOK, WorkerInv
  <1>1. \A m \in Messages : /\ queue[m].read_ct \in Nat /\ queue'[m].read_ct \in Nat
                            /\ queue'[m].read_ct >= queue[m].read_ct
    BY <1>0, ReadCountsGrow DEF TypeIInv, TypeInv, TypeOK, QueueTypeOK
  <1>2. AttemptsAreReadCounts'
    <2> SUFFICES ASSUME NEW w \in Workers, wk'[w].pc \notin {"down", "idle"}
                 PROVE  wk'[w].attempt <= queue'[wk'[w].msg].read_ct
      BY DEF AttemptsAreReadCounts
    <2>1. ASSUME wk'[w].msg = wk[w].msg, wk'[w].attempt = wk[w].attempt,
                 wk[w].pc \notin {"down", "idle"}
          PROVE  wk'[w].attempt <= queue'[wk'[w].msg].read_ct
      <3>1. wk[w].msg \in Messages /\ wk[w].attempt \in Nat
        BY <1>0, <2>1 DEF WorkerInv, WorkerTypeOK, WorkerStates, WorkerHoldsRequests
      <3>2. wk[w].attempt <= queue[wk[w].msg].read_ct
        BY <2>1 DEF CeilingIInv, AttemptsAreReadCounts
      <3> QED BY <1>1, <2>1, <3>1, <3>2
    <2>2. ASSUME NEW m \in Messages, Receive(w, m)
          PROVE  wk'[w].attempt <= queue'[wk'[w].msg].read_ct
      <3>1. queue'[m].read_ct = queue[m].read_ct + 1
        BY <1>0, <2>2 DEF Receive, receive, QueueTypeOK
      <3>2. wk'[w].msg = m /\ wk'[w].attempt = queue[m].read_ct + 1
        BY <1>0, <2>2 DEF Receive, Fresh, WorkerInv, WorkerTypeOK
      <3> QED BY <1>1, <3>1, <3>2
    <2>3. Moves(w)
      BY <1>0, WorkerMoves DEF WorkerInv
    <2> QED BY <2>1, <2>2, <2>3 DEF Moves
  <1>3. DeadLetteredOnlyAtCeiling'
    <2> SUFFICES ASSUME NEW r \in Requests, queue'[r].at = "archived"
                 PROVE  queue'[r].read_ct >= MaxDelivery
      BY DEF DeadLetteredOnlyAtCeiling
    <2>1. CASE queue[r].at = "archived"
      BY <1>1, <2>1 DEF CeilingIInv, DeadLetteredOnlyAtCeiling
    <2>2. CASE queue[r].at # "archived"
      <3>1. PICK w \in Workers : wk[w].pc = "failed" /\ AtCeiling(w) /\ wk[w].msg = r
        BY <1>0, <2>2, ArchivedByFailure
      <3>2. wk[w].attempt \in Nat /\ wk[w].attempt <= queue[r].read_ct
        BY <1>0, <3>1 DEF CeilingIInv, AttemptsAreReadCounts, WorkerInv, WorkerTypeOK, WorkerStates
      <3>3. wk[w].attempt >= MaxDelivery
        BY <3>1 DEF AtCeiling
      <3> QED BY <1>1, <3>2, <3>3
    <2> QED BY <2>1, <2>2
  <1> QED BY <1>0, <1>2, <1>3 DEF CeilingIInv

\* For every ceiling and every number of workers and faults: no request is given
\* up before its message has been delivered max_delivery_attempts times.
THEOREM DeadLetteredAtCeiling == Spec => []DeadLetteredOnlyAtCeiling
  <1>1. Init => CeilingIInv
    BY TypeIInvInit, CeilingInit DEF CeilingIInv
  <1>2. CeilingIInv /\ [Next]_vars => CeilingIInv'
    BY CeilingStep
  <1>3. CeilingIInv => DeadLetteredOnlyAtCeiling
    BY DEF CeilingIInv
  <1> QED BY <1>1, <1>2, <1>3, PTL DEF Spec

-----------------------------------------------------------------------------
InTransaction == {"claimed", "writing"}

WorkerLocks == \A r \in Requests, w \in Workers : (rowLock[r] = w) <=> HoldsRow(w, r)

\* A locked row is there.
LockedExist == \A r \in Requests : rowLock[r] # NoOne => Exists(r)

PendingIsOwned ==
    \A r \in Requests :
        pending[r] = {st[s].reply : s \in {x \in Staff : HasInserted(x) /\ st[x].req = r}}

\* Two staff never insert the same row: a draft names its author.
InsertsAreOwn == \A s \in Staff : HasInserted(s) => st[s].reply = EditedDraft(s)

LockIInv == TypeIInv /\ WorkerLocks /\ LockedExist /\ PendingIsOwned /\ InsertsAreOwn

LEMMA LockInit == Init => WorkerLocks /\ LockedExist /\ PendingIsOwned /\ InsertsAreOwn
  <1> SUFFICES ASSUME Init PROVE WorkerLocks /\ LockedExist /\ PendingIsOwned /\ InsertsAreOwn
    OBVIOUS
  <1>1. \A s \in Staff : ~HasInserted(s)
    BY DEF Init, StaffInit, NotActing, HasInserted
  <1>2. \A w \in Workers : wk[w].pc = "idle"
    BY DEF Init, WorkerInit, Fresh
  <1>3. \A r \in Requests : rowLock[r] = NoOne /\ pending[r] = {}
    BY DEF Init, StoreInit
  <1>4. WorkerLocks
    BY <1>2, <1>3 DEF WorkerLocks, HoldsRow
  <1> QED BY <1>1, <1>3, <1>4 DEF LockedExist, PendingIsOwned, InsertsAreOwn

-----------------------------------------------------------------------------
\* What a step of worker w does to the locks, as far as w itself goes.
OnlyWorker(w) == \A v \in Workers : v # w => wk'[v] = wk[v]

LEMMA LocksReleased ==
    ASSUME NEW w \in Workers, WorkerLocks, ReleaseRowsOf(w), OnlyWorker(w),
           wk'[w].pc \notin InTransaction
    PROVE  WorkerLocks'
  <1> SUFFICES ASSUME NEW r \in Requests, NEW v \in Workers
               PROVE  (rowLock'[r] = v) <=> HoldsRow(v, r)'
    BY DEF WorkerLocks
  <1>1. rowLock'[r] = IF rowLock[r] = w THEN NoOne ELSE rowLock[r]
    BY DEF ReleaseRowsOf
  <1>2. CASE v = w
    BY <1>1, <1>2 DEF HoldsRow, InTransaction
  <1>3. CASE v # w
    BY <1>1, <1>3 DEF HoldsRow, OnlyWorker, WorkerLocks
  <1> QED BY <1>2, <1>3

LEMMA LocksKept ==
    ASSUME NEW w \in Workers, WorkerLocks, UNCHANGED rowLock, OnlyWorker(w),
           wk'[w].pc \in InTransaction <=> wk[w].pc \in InTransaction,
           wk[w].pc \in InTransaction => wk'[w].msg = wk[w].msg
    PROVE  WorkerLocks'
  BY DEF WorkerLocks, HoldsRow, OnlyWorker, InTransaction

LEMMA LocksOfCommit ==
    ASSUME NEW w \in Workers, StoreTypeOK, WorkerLocks, InsertAndCommit(w), OnlyWorker(w),
           wk[w].msg \in Requests, wk'[w].pc \notin InTransaction
    PROVE  WorkerLocks'
  <1> SUFFICES ASSUME NEW r \in Requests, NEW v \in Workers
               PROVE  (rowLock'[r] = v) <=> HoldsRow(v, r)'
    BY DEF WorkerLocks
  <1>1. rowLock' = [rowLock EXCEPT ![wk[w].msg] = NoOne]
    BY DEF InsertAndCommit
  <1>2. rowLock[wk[w].msg] = w
    BY DEF WorkerLocks, HoldsRow, InsertAndCommit
  <1>3. CASE v = w
    <2>1. rowLock[r] = w => r = wk[w].msg
      BY DEF WorkerLocks, HoldsRow
    <2> QED BY <1>1, <1>3, <2>1 DEF HoldsRow, InTransaction, StoreTypeOK
  <1>4. CASE v # w
    <2>1. rowLock'[r] = v <=> rowLock[r] = v
      BY <1>1, <1>2, <1>4 DEF StoreTypeOK
    <2> QED BY <1>4, <2>1 DEF HoldsRow, OnlyWorker, WorkerLocks
  <1> QED BY <1>3, <1>4

LEMMA LocksOfClaim ==
    ASSUME NEW w \in Workers, TypeIInv, WorkerLocks, LockedExist, Claim(w)
    PROVE  WorkerLocks' /\ LockedExist'
  <1> DEFINE q == wk[w].msg
  <1>1. /\ q \in Requests /\ Exists(q) /\ rowLock[q] = NoOne
        /\ rowLock' = [rowLock EXCEPT ![q] = w]
        /\ UNCHANGED req
        /\ wk[w].pc = "received"
        /\ wk' = [wk EXCEPT ![w].pc = "claimed", ![w].status = "triaging"]
    BY DEF Claim, LockRow
  <1>2. /\ wk'[w].pc = "claimed" /\ wk'[w].msg = q
        /\ \A v \in Workers : v # w => wk'[v] = wk[v]
    BY <1>1 DEF TypeIInv, TypeInv, TypeOK, WorkerTypeOK, WorkerStates
  <1>3. /\ rowLock'[q] = w
        /\ \A r \in Requests : r # q => rowLock'[r] = rowLock[r]
    BY <1>1 DEF TypeIInv, TypeInv, TypeOK, StoreTypeOK
  <1> HIDE DEF q
  <1>4. WorkerLocks'
    <2> SUFFICES ASSUME NEW r \in Requests, NEW v \in Workers
                 PROVE  (rowLock'[r] = v) <=> HoldsRow(v, r)'
      BY DEF WorkerLocks
    <2>1. CASE v = w
      <3>1. ~HoldsRow(w, r)
        BY <1>1 DEF HoldsRow
      <3>2. HoldsRow(w, r)' <=> r = q
        BY <1>2 DEF HoldsRow
      <3>3. rowLock'[r] = w <=> r = q
        BY <1>3, <3>1 DEF WorkerLocks
      <3> QED BY <2>1, <3>2, <3>3
    <2>2. CASE v # w
      <3>1. HoldsRow(v, r)' <=> HoldsRow(v, r)
        BY <1>2, <2>2 DEF HoldsRow
      <3>2. rowLock'[r] = v <=> rowLock[r] = v
        BY <1>1, <1>3, <2>2 DEF StoreAssumption
      <3> QED BY <3>1, <3>2 DEF WorkerLocks
    <2> QED BY <2>1, <2>2
  <1>5. LockedExist'
    BY <1>1, <1>3 DEF LockedExist, Exists
  <1> QED BY <1>4, <1>5

\* A step of the worker loop, and a rollback by the deadlock detector.
LEMMA LocksOfWorker ==
    ASSUME TypeIInv, WorkerLocks, LockedExist, WorkerNext
    PROVE  WorkerLocks' /\ LockedExist'
  <1>0. StoreTypeOK /\ WorkerTypeOK /\ WorkerHoldsRequests
    BY DEF TypeIInv, TypeInv, TypeOK
  <1> USE DEF InTransaction
  <1>1. ASSUME UNCHANGED <<rowLock, req>> PROVE LockedExist'
    BY <1>1 DEF LockedExist, Exists
  <1>2. ASSUME NEW w \in Workers, Claim(w) PROVE WorkerLocks' /\ LockedExist'
    BY <1>2, LocksOfClaim
  <1>3. ASSUME NEW w \in Workers, ReleaseRowsOf(w), OnlyWorker(w), wk'[w].pc \notin InTransaction
        PROVE  WorkerLocks' /\ LockedExist'
    BY <1>3, LocksReleased DEF LockedExist, ReleaseRowsOf, Exists
  <1>4. ASSUME NEW w \in Workers, Rollback(w) PROVE WorkerLocks' /\ LockedExist'
    <2>1. OnlyWorker(w) /\ wk'[w].pc = "failed"
      BY <1>0, <1>4 DEF Rollback, OnlyWorker, WorkerTypeOK, WorkerStates
    <2> QED BY <1>3, <1>4, <2>1 DEF Rollback
  <1>5. ASSUME NEW w \in Workers, Crash(w) PROVE WorkerLocks' /\ LockedExist'
    <2>1. OnlyWorker(w) /\ wk'[w].pc = "down"
      BY <1>0, <1>5 DEF Crash, OnlyWorker, WorkerTypeOK, Fresh
    <2> QED BY <1>3, <1>5, <2>1 DEF Crash
  <1>6. ASSUME NEW w \in Workers, CommitResult(w) \/ CommitReplyLost(w)
        PROVE  WorkerLocks' /\ LockedExist'
    <2>1. /\ OnlyWorker(w) /\ wk'[w].pc \in {"acking", "failed"}
          /\ InsertAndCommit(w) /\ wk[w].msg \in Requests
          /\ wk[w].status \in {"drafted", "needs_human"}
      BY <1>0, <1>6 DEF CommitResult, CommitReplyLost, InsertAndCommit, Goto, OnlyWorker,
                        WorkerTypeOK, WorkerStates, WorkerHoldsRequests
    <2>2. LockedExist'
      <3>1. /\ rowLock' = [rowLock EXCEPT ![wk[w].msg] = NoOne]
            /\ req' = [req EXCEPT ![wk[w].msg].status = wk[w].status]
        BY <2>1 DEF InsertAndCommit
      <3> QED BY <1>0, <2>1, <3>1 DEF LockedExist, Exists, StoreTypeOK, Rows
    <2> QED BY <1>0, <2>1, <2>2, LocksOfCommit
  <1>7. ASSUME NEW w \in Workers,
               Start(w) \/ RejectMalformed(w) \/ RequestNotFound(w) \/ Ack(w) \/ NackOrDeadLetter(w)
        PROVE  WorkerLocks' /\ LockedExist'
    <2>1. /\ OnlyWorker(w) /\ UNCHANGED storeVars
          /\ wk[w].pc \notin InTransaction /\ wk'[w].pc \notin InTransaction
      BY <1>0, <1>7 DEF Start, RejectMalformed, RequestNotFound, Ack, NackOrDeadLetter, Done, Goto,
                        Fresh, OnlyWorker, WorkerTypeOK, WorkerStates
    <2> QED BY <1>1, <2>1, LocksKept DEF storeVars
  <1>8. ASSUME NEW w \in Workers, NEW m \in Messages, Receive(w, m)
        PROVE  WorkerLocks' /\ LockedExist'
    <2>1. /\ OnlyWorker(w) /\ UNCHANGED storeVars
          /\ wk[w].pc \notin InTransaction /\ wk'[w].pc \notin InTransaction
      BY <1>0, <1>8 DEF Receive, Fresh, OnlyWorker, WorkerTypeOK, WorkerStates
    <2> QED BY <1>1, <2>1, LocksKept DEF storeVars
  <1>9. ASSUME NEW w \in Workers, NEW verdict, _write_result(w, verdict)
        PROVE  WorkerLocks' /\ LockedExist'
    <2>1. /\ OnlyWorker(w) /\ UNCHANGED storeVars
          /\ wk[w].pc \in InTransaction /\ wk'[w].pc \in InTransaction /\ wk'[w].msg = wk[w].msg
      BY <1>0, <1>9 DEF _write_result, OnlyWorker, WorkerTypeOK, WorkerStates
    <2> QED BY <1>1, <2>1, LocksKept DEF storeVars
  <1>10. ASSUME NEW m \in Messages, LeaseRunsOut(m) PROVE WorkerLocks' /\ LockedExist'
    BY <1>10, <1>1 DEF LeaseRunsOut, WorkerLocks, HoldsRow, storeVars
  <1> QED BY <1>2, <1>4, <1>5, <1>6, <1>7, <1>8, <1>9, <1>10
          DEF WorkerNext, WorkerStep, WorkerTrouble, PipelineRaises, DuplicateVersion

LEMMA LocksOfRollback ==
    ASSUME TypeIInv, WorkerLocks, LockedExist, NEW w \in Workers, Rollback(w)
    PROVE  WorkerLocks' /\ LockedExist'
  <1>1. OnlyWorker(w) /\ wk'[w].pc = "failed"
    BY DEF Rollback, OnlyWorker, TypeIInv, TypeInv, TypeOK, WorkerTypeOK, WorkerStates
  <1> QED BY <1>1, LocksReleased DEF Rollback, InTransaction, LockedExist, ReleaseRowsOf, Exists

-----------------------------------------------------------------------------
\* The staff's uncommitted drafts.
OnlyStaff(s) == \A x \in Staff : x # s => st'[x] = st[x]

PendingParts == PendingIsOwned /\ InsertsAreOwn

LEMMA PendingSame ==
    ASSUME NEW s \in Staff, PendingParts, UNCHANGED pending, OnlyStaff(s),
           ~HasInserted(s), ~HasInserted(s)'
    PROVE  PendingParts'
  <1>1. \A x \in Staff : /\ HasInserted(x)' <=> HasInserted(x)
                         /\ HasInserted(x) => st'[x] = st[x]
    BY DEF OnlyStaff, HasInserted
  <1>2. InsertsAreOwn'
    BY <1>1 DEF PendingParts, InsertsAreOwn, EditedDraft
  <1>3. PendingIsOwned'
    <2> SUFFICES ASSUME NEW r \in Requests
                 PROVE  pending'[r] = {st'[x].reply : x \in {y \in Staff : HasInserted(y)' /\ st'[y].req = r}}
      BY DEF PendingIsOwned
    <2>1. pending[r] = {st[x].reply : x \in {y \in Staff : HasInserted(y) /\ st[y].req = r}}
      BY DEF PendingParts, PendingIsOwned
    <2>2. \A x \in Staff : (HasInserted(x)' /\ st'[x].req = r) <=> (HasInserted(x) /\ st[x].req = r)
      BY <1>1
    <2>3. \A x \in Staff : HasInserted(x) => st'[x].reply = st[x].reply
      BY <1>1
    <2> QED BY <2>1, <2>2, <2>3
  <1> QED BY <1>2, <1>3 DEF PendingParts

LEMMA PendingEnds ==
    ASSUME NEW s \in Staff, StoreTypeOK, PendingParts,
           pending' = PendingWithout(s), OnlyStaff(s), ~HasInserted(s)'
    PROVE  PendingParts'
  <1>1. \A x \in Staff : /\ HasInserted(x)' <=> HasInserted(x) /\ x # s
                         /\ x # s => st'[x] = st[x]
    BY DEF OnlyStaff, HasInserted
  <1>2. InsertsAreOwn'
    BY <1>1 DEF PendingParts, InsertsAreOwn, EditedDraft
  <1>3. \A x \in Staff : x # s /\ HasInserted(x) /\ HasInserted(s) => st[x].reply # st[s].reply
    <2>1. ASSUME NEW x \in Staff, HasInserted(x) PROVE st[x].reply.author = x
      <3>1. st[x].reply = EditedDraft(x)
        BY <2>1 DEF PendingParts, InsertsAreOwn
      <3> QED BY <3>1 DEF EditedDraft
    <2> QED BY <2>1
  <1>4. PendingIsOwned'
    <2> SUFFICES ASSUME NEW r \in Requests
                 PROVE  pending'[r] = {st'[x].reply : x \in {y \in Staff : HasInserted(y)' /\ st'[y].req = r}}
      BY DEF PendingIsOwned
    <2>1. pending[r] = {st[x].reply : x \in {y \in Staff : HasInserted(y) /\ st[y].req = r}}
      BY DEF PendingParts, PendingIsOwned
    <2>2. pending'[r] = IF HasInserted(s) /\ r = st[s].req THEN pending[r] \ {st[s].reply} ELSE pending[r]
      BY DEF PendingWithout
    <2>3. \A x \in Staff : (HasInserted(x)' /\ st'[x].req = r) <=> (HasInserted(x) /\ x # s /\ st[x].req = r)
      BY <1>1
    <2>4. \A x \in Staff : x # s => st'[x].reply = st[x].reply
      BY <1>1
    <2> QED BY <1>3, <2>1, <2>2, <2>3, <2>4
  <1> QED BY <1>2, <1>4 DEF PendingParts

LEMMA PendingInserted ==
    ASSUME NEW s \in Staff, StoreTypeOK, StaffInv, PendingParts, insertEditedDraft(s)
    PROVE  PendingParts'
  <1> DEFINE d == EditedDraft(s)
             q == st[s].req
  <1>1. /\ q \in Requests /\ st[s].pc = "stateRead" /\ st[s].kind = "edit"
        /\ pending' = [pending EXCEPT ![q] = @ \cup {d}]
        /\ st' = [st EXCEPT ![s].pc = "ready", ![s].reply = d]
    BY DEF insertEditedDraft, StaffInv, StaffHoldRequests
  <1>2. /\ OnlyStaff(s) /\ ~HasInserted(s) /\ HasInserted(s)'
        /\ st'[s].reply = d /\ st'[s].req = q /\ EditedDraft(s)' = d
    BY <1>1 DEF OnlyStaff, HasInserted, EditedDraft, StaffInv, StaffTypeOK, StaffStates
  <1>3. /\ pending'[q] = pending[q] \cup {d}
        /\ \A r \in Requests : r # q => pending'[r] = pending[r]
    BY <1>1 DEF StoreTypeOK
  <1> HIDE DEF d, q
  <1>4. \A x \in Staff : /\ HasInserted(x)' <=> HasInserted(x) \/ x = s
                         /\ x # s => st'[x] = st[x]
    BY <1>2 DEF OnlyStaff, HasInserted
  <1>5. InsertsAreOwn'
    BY <1>2, <1>4 DEF PendingParts, InsertsAreOwn, EditedDraft
  <1>6. PendingIsOwned'
    <2> SUFFICES ASSUME NEW r \in Requests
                 PROVE  pending'[r] = {st'[x].reply : x \in {y \in Staff : HasInserted(y)' /\ st'[y].req = r}}
      BY DEF PendingIsOwned
    <2>1. pending[r] = {st[x].reply : x \in {y \in Staff : HasInserted(y) /\ st[y].req = r}}
      BY DEF PendingParts, PendingIsOwned
    <2>2. \A x \in Staff : x # s => /\ st'[x].reply = st[x].reply
                                    /\ (HasInserted(x)' /\ st'[x].req = r) <=> (HasInserted(x) /\ st[x].req = r)
      BY <1>4
    <2>3. CASE r = q
      BY <1>2, <1>3, <2>1, <2>2, <2>3
    <2>4. CASE r # q
      BY <1>2, <1>3, <2>1, <2>2, <2>4
    <2> QED BY <2>3, <2>4
  <1> QED BY <1>5, <1>6 DEF PendingParts

LEMMA PendingStep ==
    ASSUME TypeIInv, PendingParts, StaffNext
    PROVE  PendingParts'
  <1>0. StoreTypeOK /\ StaffTypeOK /\ StaffInv
    BY DEF TypeIInv, TypeInv, TypeOK, StaffInv
  <1>1. ASSUME NEW s \in Staff, RollbackStaff(s) \/ resolveAndRecord(s) PROVE PendingParts'
    <2>1. pending' = PendingWithout(s) /\ OnlyStaff(s) /\ ~HasInserted(s)'
      BY <1>0, <1>1 DEF RollbackStaff, resolveAndRecord, OnlyStaff, HasInserted, NotActing, StaffTypeOK
    <2> QED BY <1>0, <2>1, PendingEnds
  <1>2. ASSUME NEW s \in Staff, insertEditedDraft(s) PROVE PendingParts'
    BY <1>0, <1>2, PendingInserted
  <1>3. ASSUME NEW s \in Staff, NEW r \in Requests, NEW kind \in ActionKinds, loadRow(s, r, kind)
        PROVE  PendingParts'
    <2>1. UNCHANGED pending /\ OnlyStaff(s) /\ ~HasInserted(s) /\ ~HasInserted(s)'
      BY <1>0, <1>3 DEF loadRow, NotActing, OnlyStaff, HasInserted, StaffTypeOK, StaffStates, storeVars
    <2> QED BY <2>1, PendingSame
  <1>4. ASSUME NEW s \in Staff, loadLatestVersion(s) \/ readDraftToApprove(s)
        PROVE  PendingParts'
    <2>1. UNCHANGED pending /\ OnlyStaff(s) /\ ~HasInserted(s) /\ ~HasInserted(s)'
      BY <1>0, <1>4 DEF loadLatestVersion, readDraftToApprove, OnlyStaff, HasInserted,
                        StaffTypeOK, StaffStates, storeVars
    <2> QED BY <2>1, PendingSame
  <1> QED BY <1>1, <1>2, <1>3, <1>4 DEF StaffNext, StaffStep, actionFails, Abort

\* A step of anybody else leaves the uncommitted drafts alone.
LEMMA PendingUnchanged ==
    ASSUME PendingParts, UNCHANGED <<pending, st>>
    PROVE  PendingParts'
  BY DEF PendingParts, PendingIsOwned, InsertsAreOwn, HasInserted, EditedDraft

LEMMA WorkerKeepsPending == WorkerNext => UNCHANGED pending
  BY WorkerStoreEffect DEF storeVars, Claim, LockRow, ReleaseRowsOf, InsertAndCommit

LEMMA LocksUnchanged ==
    ASSUME WorkerLocks, UNCHANGED <<rowLock, wk>>
    PROVE  WorkerLocks'
  BY DEF WorkerLocks, HoldsRow

LEMMA LockStep == LockIInv /\ [Next]_vars => LockIInv'
  <1> SUFFICES ASSUME LockIInv, [Next]_vars PROVE LockIInv'
    OBVIOUS
  <1>0. /\ TypeIInv /\ TypeIInv' /\ WorkerLocks /\ LockedExist /\ PendingParts
        /\ StoreTypeOK /\ StaffInv
    BY TypeIInvStep DEF LockIInv, PendingParts, TypeIInv, TypeInv, TypeOK, StaffInv
  <1>1. SUFFICES WorkerLocks' /\ LockedExist' /\ PendingParts'
    BY <1>0 DEF LockIInv, PendingParts
  <1>2. CASE IntakeNext /\ UNCHANGED <<wk, faults, st>>
    <2>1. UNCHANGED <<rowLock, pending>>
      BY <1>2 DEF IntakeNext, insertRequest, InsertRow, enqueueRequest, reply201, intakeFails, storeVars
    <2>2. \A r \in Requests : Exists(r) => Exists(r)'
      <3>1. ASSUME NEW q \in Requests, insertRequest(q), NEW r \in Requests, Exists(r)
            PROVE  Exists(r)'
        <4>1. req' = [req EXCEPT ![q] = [NoRow EXCEPT !.status = "received"]]
          BY <3>1 DEF insertRequest, InsertRow
        <4>2. [NoRow EXCEPT !.status = "received"].status = "received"
          BY DEF NoRow
        <4> QED BY <1>0, <3>1, <4>1, <4>2 DEF Exists, StoreTypeOK
      <3>2. UNCHANGED req \/ \E q \in Requests : insertRequest(q)
        BY <1>2 DEF IntakeNext, enqueueRequest, reply201, intakeFails, storeVars
      <3> QED BY <3>1, <3>2 DEF Exists
    <2> QED BY <1>0, <1>2, <2>1, <2>2, LocksUnchanged, PendingUnchanged DEF LockedExist
  <1>3. CASE WorkerNext /\ UNCHANGED <<intake, st>>
    BY <1>0, <1>3, LocksOfWorker, WorkerKeepsPending, PendingUnchanged
  <1>4. CASE StaffNext /\ UNCHANGED <<queue, intake, wk, faults>>
    <2>1. UNCHANGED rowLock
      BY <1>4 DEF StaffNext, StaffStep, loadRow, loadLatestVersion, readDraftToApprove,
                  insertEditedDraft, resolveAndRecord, actionFails, Abort, RollbackStaff, storeVars
    <2>2. \A r \in Requests : Exists(r) => Exists(r)'
      <3>1. ASSUME NEW s \in Staff, resolveAndRecord(s), NEW r \in Requests, Exists(r)
            PROVE  Exists(r)'
        <4>1. req' = [req EXCEPT ![st[s].req] = ResolvedRow(s, req[st[s].req])]
          BY <1>0, <3>1 DEF resolveAndRecord
        <4>2. ResolvedRow(s, req[r]).status \in {"approved", "rejected"}
          <5>1. req[r] \in Rows
            BY <1>0 DEF StoreTypeOK
          <5> QED BY <5>1 DEF ResolvedRow, After, Rows
        <4> QED BY <1>0, <3>1, <4>1, <4>2 DEF Exists, StoreTypeOK
      <3>2. UNCHANGED req \/ \E s \in Staff : resolveAndRecord(s)
        BY <1>4 DEF StaffNext, StaffStep, loadRow, loadLatestVersion, readDraftToApprove,
                    insertEditedDraft, actionFails, Abort, RollbackStaff, storeVars
      <3> QED BY <3>1, <3>2 DEF Exists
    <2> QED BY <1>0, <1>4, <2>1, <2>2, LocksUnchanged, PendingStep DEF LockedExist
  <1>5. CASE Purge
    <2>1. PICK batch \in SUBSET Requests : DeleteRows(batch)
      BY <1>5 DEF Purge, purgeOrgRequests
    <2>2. \A r \in Requests : rowLock[r] # NoOne => Exists(r)'
      BY <1>0, <2>1 DEF DeleteRows, RowFree, LockedExist, Exists
    <2> QED BY <1>0, <1>5, <2>1, <2>2, LocksUnchanged, PendingUnchanged
            DEF DeleteRows, Purge, LockedExist
  <1>6. ASSUME NEW w \in Workers, NEW s \in Staff, ResolveDeadlock(w, s)
        PROVE  WorkerLocks' /\ LockedExist' /\ PendingParts'
    <2>1. CASE Rollback(w) /\ UNCHANGED st
      BY <1>0, <2>1, LocksOfRollback, PendingUnchanged DEF Rollback, ReleaseRowsOf
    <2>2. CASE RollbackStaff(s) /\ UNCHANGED wk
      <3>1. pending' = PendingWithout(s) /\ OnlyStaff(s) /\ ~HasInserted(s)'
        BY <1>0, <2>2 DEF RollbackStaff, OnlyStaff, HasInserted, NotActing, StaffInv, StaffTypeOK
      <3>2. UNCHANGED <<rowLock, req>>
        BY <2>2 DEF RollbackStaff
      <3> QED BY <1>0, <2>2, <3>1, <3>2, PendingEnds, LocksUnchanged DEF LockedExist, Exists
    <2> QED BY <1>6, <2>1, <2>2 DEF ResolveDeadlock
  <1>7. CASE UNCHANGED vars
    BY <1>0, <1>7, LocksUnchanged, PendingUnchanged
    DEF vars, storeVars, workerVars, staffVars, LockedExist, Exists
  <1> QED BY <1>2, <1>3, <1>4, <1>5, <1>6, <1>7 DEF Next

LEMMA LockIInvAlways == Spec => []LockIInv
  BY TypeIInvInit, LockInit, LockStep, PTL DEF Spec, LockIInv

\* No crash, rollback, deadlock victim or commit leaves a lock or an invisible
\* draft behind, whoever else is at work (pipeline.py:6-19, staffActions.ts:116).
THEOREM LocksBelong == Spec => []LocksBelongToOpenTransactions
  <1>1. LockIInv => LocksBelongToOpenTransactions
    BY DEF LockIInv, WorkerLocks, PendingIsOwned, LocksBelongToOpenTransactions
  <1> QED BY <1>1, LockIInvAlways, PTL

-----------------------------------------------------------------------------
\* The order of intake, seen from the row and from the queue.
RowOrder ==
    \A r \in Requests :
        /\ intake[r] = "none" => ~Exists(r) /\ queue[r].at = "unsent"
        /\ intake[r] \in {"inserted", "queued"} => Exists(r)
        /\ intake[r] \in {"queued", "accepted"} => queue[r].at # "unsent"
        /\ intake[r] # "none" /\ r \notin DemoRequests => Exists(r)

RowIInv == LockIInv /\ RowOrder /\ NoOrphans /\ NoHalfDoneTriage

LEMMA RowInit == Init => RowOrder /\ NoOrphans /\ NoHalfDoneTriage
  <1> SUFFICES ASSUME Init PROVE RowOrder /\ NoOrphans /\ NoHalfDoneTriage
    OBVIOUS
  <1>1. \A r \in Requests : /\ intake[r] = "none" /\ ~Exists(r) /\ req[r].status = "absent"
                            /\ drafts[r] = {} /\ audit[r] = <<>> /\ pending[r] = {}
    BY DEF Init, IntakeInit, StoreInit, NoRow, Exists
  <1>2. \A r \in Requests : queue[r].at = "unsent"
    BY DEF Init, Malformed, WorkerAssumption
  <1> QED BY <1>1, <1>2 DEF RowOrder, NoOrphans, NoHalfDoneTriage

\* What a decision of a member of staff is made of.
LEMMA ResolveEffect ==
    ASSUME TypeIInv, NEW s \in Staff, resolveAndRecord(s)
    PROVE  LET q == st[s].req IN
           /\ q \in Requests /\ Exists(q)
           /\ req'[q].status \in {"approved", "rejected"}
           /\ drafts'[q] = CommittedDrafts(s, drafts[q])
           /\ audit'[q] = recordAction(audit[q], ActionRow(s))
           /\ \A r \in Requests : r # q => /\ req'[r] = req[r] /\ drafts'[r] = drafts[r]
                                           /\ audit'[r] = audit[r]
  <1>0. StoreTypeOK /\ StaffInv
    BY DEF TypeIInv, TypeInv, TypeOK, StaffInv
  <1>1. st[s].req \in Requests
    BY <1>0 DEF resolveAndRecord, ReadyToWrite, StaffInv, StaffHoldRequests
  <1>2. ResolvedRow(s, req[st[s].req]).status \in {"approved", "rejected"}
    <2>1. req[st[s].req] \in Rows
      BY <1>0, <1>1 DEF StoreTypeOK
    <2> QED BY <2>1 DEF ResolvedRow, After, Rows
  <1> QED BY <1>0, <1>1, <1>2 DEF resolveAndRecord, StoreTypeOK

\* ... and a verdict of a worker.
LEMMA CommitEffect ==
    ASSUME LockIInv, NEW w \in Workers, InsertAndCommit(w)
    PROVE  LET q == wk[w].msg IN
           /\ q \in Requests /\ Exists(q)
           /\ wk[w].status \in {"drafted", "needs_human"} /\ wk[w].version > 0
           /\ req'[q].status = wk[w].status
           /\ drafts'[q] = drafts[q] \cup {VerdictDraft(w)}
           /\ UNCHANGED <<audit, pending>>
           /\ \A r \in Requests : r # q => req'[r] = req[r] /\ drafts'[r] = drafts[r]
  <1>0. StoreTypeOK /\ WorkerTypeOK /\ WorkerHoldsRequests
    BY DEF LockIInv, TypeIInv, TypeInv, TypeOK
  <1>1. /\ wk[w].msg \in Requests /\ wk[w].pc = "writing"
        /\ wk[w].status \in {"drafted", "needs_human"} /\ wk[w].version > 0
    BY <1>0 DEF InsertAndCommit, WorkerHoldsRequests
  <1>2. rowLock[wk[w].msg] = w
    BY <1>1 DEF LockIInv, WorkerLocks, HoldsRow
  <1>3. Exists(wk[w].msg)
    BY <1>1, <1>2 DEF LockIInv, LockedExist, StoreAssumption
  <1>4. /\ drafts' = [drafts EXCEPT ![wk[w].msg] = @ \cup {VerdictDraft(w)}]
        /\ req' = [req EXCEPT ![wk[w].msg].status = wk[w].status]
        /\ UNCHANGED <<audit, pending>>
    BY DEF InsertAndCommit
  <1> QED BY <1>0, <1>1, <1>3, <1>4 DEF StoreTypeOK, Rows

\* A row appears by an insert of the api and disappears by the purge.
LEMMA ExistsEffect ==
    ASSUME LockIInv, [Next]_vars, NEW r \in Requests
    PROVE  /\ ~Exists(r) /\ Exists(r)' => insertRequest(r)
           /\ Exists(r) /\ ~Exists(r)' =>
                 /\ r \in DemoRequests /\ intake[r] \in {"accepted", "failed"}
                 /\ Purge
  <1>0. TypeIInv /\ StoreTypeOK
    BY DEF LockIInv, TypeIInv, TypeInv, TypeOK
  <1>1. CASE UNCHANGED <<req, drafts, audit>>
    BY <1>1 DEF Exists
  <1>2. ASSUME NEW q \in Requests, insertRequest(q)
        PROVE  Exists(r)' <=> Exists(r) \/ q = r
    BY <1>0, <1>2 DEF insertRequest, InsertRow, NoRow, StoreTypeOK, Exists
  <1>3. ASSUME NEW w \in Workers, InsertAndCommit(w) PROVE Exists(r)' <=> Exists(r)
    BY <1>3, CommitEffect DEF Exists
  <1>4. ASSUME NEW s \in Staff, resolveAndRecord(s) PROVE Exists(r)' <=> Exists(r)
    BY <1>0, <1>4, ResolveEffect DEF Exists
  <1>5. CASE Purge
    <2>1. PICK batch \in SUBSET {q \in DemoRequests : intake[q] \in {"accepted", "failed"}} :
             DeleteRows(batch)
      BY <1>5 DEF Purge, purgeOrgRequests
    <2>2. Exists(r)' <=> Exists(r) /\ r \notin batch
      BY <2>1 DEF DeleteRows, NoRow, Exists
    <2> QED BY <1>5, <2>1, <2>2
  <1>6. CASE IntakeNext
    BY <1>2, <1>6 DEF IntakeNext, enqueueRequest, reply201, intakeFails, storeVars, Exists
  <1>7. CASE WorkerNext
    BY <1>3, <1>7, WorkerStoreEffect DEF storeVars, Claim, LockRow, ReleaseRowsOf, Exists
  <1>8. CASE StaffNext
    BY <1>4, <1>8 DEF StaffNext, StaffStep, loadRow, loadLatestVersion, readDraftToApprove,
                insertEditedDraft, actionFails, Abort, RollbackStaff, storeVars, Exists
  <1>9. CASE \E w \in Workers, s \in Staff : ResolveDeadlock(w, s)
    BY <1>9 DEF ResolveDeadlock, Rollback, ReleaseRowsOf, RollbackStaff, Exists
  <1>10. CASE UNCHANGED vars
    BY <1>10 DEF vars, storeVars, Exists
  <1> QED BY <1>5, <1>6, <1>7, <1>8, <1>9, <1>10 DEF Next

\* A message is sent once, by the api, and never becomes unsent again.
LEMMA SentEffect ==
    ASSUME QueueTypeOK, [Next]_vars, NEW m \in Messages
    PROVE  \/ queue'[m].at = "unsent" <=> queue[m].at = "unsent"
           \/ m \in Requests /\ enqueueRequest(m)
  <1>1. ASSUME NEW n, receive(n) \/ ack(n) \/ nack(n) \/ dead_letter(n) \/ VisibilityTimeout(n)
        PROVE  queue'[m].at = "unsent" <=> queue[m].at = "unsent"
    BY <1>1 DEF receive, ack, nack, dead_letter, VisibilityTimeout, InQueue, QueueTypeOK
  <1>2. CASE UNCHANGED queue
    BY <1>2
  <1>3. CASE WorkerNext
    BY <1>1, <1>2, <1>3, WorkerQueueEffect
    DEF Receive, RejectMalformed, Ack, NackOrDeadLetter, LeaseRunsOut
  <1>4. CASE IntakeNext
    <2>1. ASSUME NEW q \in Requests, enqueueRequest(q), q # m
          PROVE  queue'[m].at = "unsent" <=> queue[m].at = "unsent"
      BY <2>1 DEF enqueueRequest, send, QueueTypeOK
    <2> QED BY <1>2, <1>4, <2>1 DEF IntakeNext, insertRequest, reply201, intakeFails
  <1> QED BY <1>2, <1>3, <1>4 DEF Next, Purge, ResolveDeadlock, vars

LEMMA IntakeEffect ==
    ASSUME IntakeTypeOK, [Next]_vars, NEW r \in Requests
    PROVE  \/ intake'[r] = intake[r]
           \/ insertRequest(r) \/ enqueueRequest(r) \/ reply201(r) \/ intakeFails(r)
  BY DEF Next, IntakeNext, insertRequest, enqueueRequest, reply201, intakeFails, Purge,
         ResolveDeadlock, IntakeTypeOK, vars, intakeVars

LEMMA RowOrderStep ==
    ASSUME LockIInv, RowOrder, [Next]_vars
    PROVE  RowOrder'
  <1>0. IntakeTypeOK /\ QueueTypeOK /\ StoreTypeOK
    BY DEF LockIInv, TypeIInv, TypeInv, TypeOK
  <1> SUFFICES ASSUME NEW r \in Requests
               PROVE  /\ intake'[r] = "none" => ~Exists(r)' /\ queue'[r].at = "unsent"
                      /\ intake'[r] \in {"inserted", "queued"} => Exists(r)'
                      /\ intake'[r] \in {"queued", "accepted"} => queue'[r].at # "unsent"
                      /\ intake'[r] # "none" /\ r \notin DemoRequests => Exists(r)'
    BY DEF RowOrder
  <1>1. /\ intake[r] = "none" => ~Exists(r) /\ queue[r].at = "unsent"
        /\ intake[r] \in {"inserted", "queued"} => Exists(r)
        /\ intake[r] \in {"queued", "accepted"} => queue[r].at # "unsent"
        /\ intake[r] # "none" /\ r \notin DemoRequests => Exists(r)
        /\ intake[r] \in IntakeSteps
    BY <1>0 DEF RowOrder, IntakeTypeOK
  <1>2. r \in Messages
    BY DEF WorkerAssumption
  <1>3. CASE insertRequest(r)
    BY <1>0, <1>1, <1>3 DEF insertRequest, InsertRow, NoRow, Exists, IntakeTypeOK, StoreTypeOK
  <1>4. CASE enqueueRequest(r)
    BY <1>0, <1>1, <1>2, <1>4 DEF enqueueRequest, send, storeVars, Exists, IntakeTypeOK, QueueTypeOK
  <1>5. CASE reply201(r) \/ intakeFails(r)
    BY <1>0, <1>1, <1>5 DEF reply201, intakeFails, storeVars, Exists, IntakeTypeOK
  <1>6. CASE intake'[r] = intake[r] /\ ~insertRequest(r) /\ ~enqueueRequest(r)
    <2>1. queue'[r].at = "unsent" <=> queue[r].at = "unsent"
      BY <1>0, <1>2, <1>6, SentEffect
    <2>2. Exists(r)' => Exists(r)
      BY <1>6, ExistsEffect
    <2>3. Exists(r) /\ ~Exists(r)' => r \in DemoRequests /\ intake[r] \in {"accepted", "failed"}
      BY ExistsEffect
    <2> QED BY <1>1, <1>6, <2>1, <2>2, <2>3
  <1> QED BY <1>0, <1>3, <1>4, <1>5, <1>6, IntakeEffect

LEMMA NoOrphansStep ==
    ASSUME LockIInv, NoOrphans, [Next]_vars
    PROVE  NoOrphans'
  <1>0. TypeIInv /\ StoreTypeOK /\ StaffInv
    BY DEF LockIInv, TypeIInv, TypeInv, TypeOK, StaffInv
  <1> SUFFICES ASSUME NEW r \in Requests, ~Exists(r)'
               PROVE  drafts'[r] = {} /\ audit'[r] = <<>> /\ pending'[r] = {}
    BY DEF NoOrphans
  <1>1. CASE Exists(r)
    <2>1. PICK batch \in SUBSET Requests : DeleteRows(batch)
      BY <1>1, ExistsEffect DEF Purge, purgeOrgRequests
    <2>2. r \in batch
      BY <1>1, <2>1 DEF DeleteRows, Exists
    <2> QED BY <2>1, <2>2 DEF DeleteRows, RowFree
  <1>2. CASE ~Exists(r)
    <2>1. drafts[r] = {} /\ audit[r] = <<>> /\ pending[r] = {}
      BY <1>2 DEF NoOrphans
    <2>2. drafts'[r] = {} /\ audit'[r] = <<>>
      <3>1. ASSUME NEW q \in Requests, insertRequest(q) PROVE UNCHANGED <<drafts, audit>>
        BY <3>1 DEF insertRequest, InsertRow
      <3>2. ASSUME NEW w \in Workers, InsertAndCommit(w)
            PROVE  drafts'[r] = drafts[r] /\ audit' = audit
        BY <1>2, <3>2, CommitEffect
      <3>3. ASSUME NEW s \in Staff, resolveAndRecord(s)
            PROVE  drafts'[r] = drafts[r] /\ audit'[r] = audit[r]
        BY <1>0, <1>2, <3>3, ResolveEffect
      <3>4. ASSUME NEW batch \in SUBSET Requests, DeleteRows(batch)
            PROVE  drafts'[r] = {} /\ audit'[r] = <<>>
        BY <2>1, <3>4 DEF DeleteRows
      <3> QED BY <2>1, <3>1, <3>2, <3>3, <3>4, RowEffect
    <2>3. pending'[r] = {}
      <3>1. CASE UNCHANGED pending
        BY <2>1, <3>1
      <3>2. ASSUME NEW s \in Staff, pending' = PendingWithout(s) PROVE pending'[r] = {}
        BY <2>1, <3>2 DEF PendingWithout
      <3>3. ASSUME NEW s \in Staff, insertEditedDraft(s) PROVE pending'[r] = {}
        <4>1. st[s].req # r
          BY <1>2, <3>3 DEF insertEditedDraft
        <4> QED BY <1>0, <2>1, <3>3, <4>1 DEF insertEditedDraft, StoreTypeOK
      <3>4. CASE IntakeNext
        BY <3>1, <3>4 DEF IntakeNext, insertRequest, InsertRow, enqueueRequest, reply201,
                          intakeFails, storeVars
      <3>5. CASE WorkerNext
        BY <3>1, <3>5, WorkerKeepsPending
      <3>6. CASE StaffNext
        BY <3>1, <3>2, <3>3, <3>6
        DEF StaffNext, StaffStep, loadRow, loadLatestVersion, readDraftToApprove,
            resolveAndRecord, actionFails, Abort, RollbackStaff, storeVars
      <3>7. CASE Purge
        BY <3>1, <3>7 DEF Purge, purgeOrgRequests, DeleteRows
      <3>8. CASE \E w \in Workers, s \in Staff : ResolveDeadlock(w, s)
        BY <3>1, <3>2, <3>8 DEF ResolveDeadlock, Rollback, ReleaseRowsOf, RollbackStaff
      <3>9. CASE UNCHANGED vars
        BY <3>1, <3>9 DEF vars, storeVars
      <3> QED BY <3>4, <3>5, <3>6, <3>7, <3>8, <3>9 DEF Next
    <2> QED BY <2>2, <2>3
  <1> QED BY <1>1, <1>2

LEMMA NoHalfDoneStep ==
    ASSUME LockIInv, RowOrder, NoOrphans, NoHalfDoneTriage, [Next]_vars
    PROVE  NoHalfDoneTriage'
  <1>0. TypeIInv /\ StoreTypeOK
    BY DEF LockIInv, TypeIInv, TypeInv, TypeOK
  <1> SUFFICES ASSUME NEW r \in Requests
               PROVE  /\ req'[r].status # "triaging"
                      /\ req'[r].status = "received" => drafts'[r] = {} /\ audit'[r] = <<>>
    BY DEF NoHalfDoneTriage
  <1>1. CASE req'[r] = req[r] /\ drafts'[r] = drafts[r] /\ audit'[r] = audit[r]
    BY <1>1 DEF NoHalfDoneTriage
  <1>2. ASSUME NEW q \in Requests, insertRequest(q)
        PROVE  /\ req'[r].status # "triaging"
               /\ req'[r].status = "received" => drafts'[r] = {} /\ audit'[r] = <<>>
    <2>1. CASE q = r
      <3>1. drafts[r] = {} /\ audit[r] = <<>>
        BY <1>2, <2>1 DEF insertRequest, RowOrder, NoOrphans
      <3> QED BY <1>0, <1>2, <2>1, <3>1 DEF insertRequest, InsertRow, NoRow, StoreTypeOK
    <2>2. CASE q # r
      BY <1>0, <1>1, <1>2, <2>2 DEF insertRequest, InsertRow, StoreTypeOK
    <2> QED BY <2>1, <2>2
  <1>3. ASSUME NEW w \in Workers, InsertAndCommit(w)
        PROVE  /\ req'[r].status # "triaging"
               /\ req'[r].status = "received" => drafts'[r] = {} /\ audit'[r] = <<>>
    BY <1>1, <1>3, CommitEffect
  <1>4. ASSUME NEW s \in Staff, resolveAndRecord(s)
        PROVE  /\ req'[r].status # "triaging"
               /\ req'[r].status = "received" => drafts'[r] = {} /\ audit'[r] = <<>>
    BY <1>0, <1>1, <1>4, ResolveEffect
  <1>5. ASSUME NEW batch \in SUBSET Requests, DeleteRows(batch)
        PROVE  /\ req'[r].status # "triaging"
               /\ req'[r].status = "received" => drafts'[r] = {} /\ audit'[r] = <<>>
    <2>1. r \in batch => req'[r].status = "absent"
      BY <1>5 DEF DeleteRows, NoRow
    <2> QED BY <1>1, <1>5, <2>1 DEF DeleteRows
  <1> QED BY <1>1, <1>2, <1>3, <1>4, <1>5, RowEffect

LEMMA RowIInvAlways == Spec => []RowIInv
  <1>1. Init => RowIInv
    BY TypeIInvInit, LockInit, RowInit DEF LockIInv, RowIInv
  <1>2. RowIInv /\ [Next]_vars => RowIInv'
    BY LockStep, RowOrderStep, NoOrphansStep, NoHalfDoneStep DEF RowIInv
  <1> QED BY <1>1, <1>2, PTL DEF Spec

\* purge.ts:18-26: the purge races every writer and leaves no draft, no audit
\* row and no uncommitted draft of a request it has deleted.
THEOREM PurgeLeavesNoOrphans == Spec => []NoOrphans
  BY RowIInvAlways, PTL DEF RowIInv

\* pipeline.py:6-8: a triage that ends before its commit is never seen.
THEOREM TriageIsAllOrNothing == Spec => []NoHalfDoneTriage
  BY RowIInvAlways, PTL DEF RowIInv

\* requests.ts:93-122: row, then message, then 201, whatever fails in between.
THEOREM IntakeIsDurable == Spec => []IntakeIsDurableInOrder
  <1>1. RowIInv => IntakeIsDurableInOrder
    <2> SUFFICES ASSUME RowIInv, NEW r \in Requests
                 PROVE  /\ queue[r].at # "unsent" =>
                              Exists(r) \/ (r \in DemoRequests /\ intake[r] \in {"accepted", "failed"})
                        /\ intake[r] = "accepted" => queue[r].at # "unsent"
      BY DEF IntakeIsDurableInOrder
    <2>1. intake[r] \in IntakeSteps
      BY DEF RowIInv, LockIInv, TypeIInv, TypeInv, TypeOK, IntakeTypeOK
    <2> QED BY <2>1 DEF RowIInv, RowOrder, IntakeSteps
  <1> QED BY <1>1, RowIInvAlways, PTL

-----------------------------------------------------------------------------
\* Version numbers.  A writer that has read max(version) knows that all versions
\* up to it exist, and goes on knowing it while the request exists: nothing is
\* deleted but with the request.
UpTo(r, n) == \A v \in 1..n : v \in Versions(drafts[r])

WritersKnowVersions ==
    /\ \A s \in Staff :
          st[s].pc \in {"stateRead", "ready"} /\ Exists(st[s].req) =>
              UpTo(st[s].req, st[s].latest)
    /\ \A w \in Workers :
          wk[w].pc = "writing" => UpTo(wk[w].msg, wk[w].version - 1)

\* What is inserted and not committed has a version of its own.
PendingIsNew ==
    \A r \in Requests : \A d \in pending[r] :
        /\ d.version \notin Versions(drafts[r])
        /\ \A e \in pending[r] : e.version = d.version => e = d

\* A purged request is never inserted again under a staff call.
StaffSeesSubmitted == \A s \in Staff : st[s].pc # "idle" => intake[st[s].req] # "none"

VersionIInv ==
    /\ RowIInv
    /\ StaffSeesSubmitted /\ PendingIsNew /\ WritersKnowVersions
    /\ DraftVersionsUniqueAndContiguous

LEMMA VersionInit ==
    Init => /\ StaffSeesSubmitted /\ PendingIsNew /\ WritersKnowVersions
            /\ DraftVersionsUniqueAndContiguous
  <1> SUFFICES ASSUME Init
               PROVE  /\ StaffSeesSubmitted /\ PendingIsNew /\ WritersKnowVersions
                      /\ DraftVersionsUniqueAndContiguous
    OBVIOUS
  <1>1. /\ \A s \in Staff : st[s].pc = "idle"
        /\ \A w \in Workers : wk[w].pc = "idle"
        /\ \A r \in Requests : drafts[r] = {} /\ pending[r] = {}
    BY DEF Init, StaffInit, NotActing, WorkerInit, Fresh, StoreInit
  <1> QED BY <1>1 DEF StaffSeesSubmitted, PendingIsNew, WritersKnowVersions,
                      DraftVersionsUniqueAndContiguous

\* What any step does to staff call s.
LEMMA StaffMoves ==
    ASSUME StaffTypeOK, [Next]_vars, NEW s \in Staff
    PROVE  \/ st'[s] = st[s]
           \/ \E r \in Requests, kind \in ActionKinds : loadRow(s, r, kind)
           \/ loadLatestVersion(s) \/ readDraftToApprove(s) \/ insertEditedDraft(s)
           \/ st'[s].pc = "idle"
  <1>1. CASE StaffNext
    <2>1. PICK x \in Staff :
             \/ \E r \in Requests, kind \in ActionKinds : loadRow(x, r, kind)
             \/ StaffStep(x) \/ Abort(x)
      BY <1>1 DEF StaffNext
    <2>2. CASE x = s
      BY <2>1, <2>2 DEF StaffStep, resolveAndRecord, actionFails, Abort, RollbackStaff,
                        NotActing, StaffTypeOK
    <2>3. CASE x # s
      BY <2>1, <2>3 DEF StaffStep, loadRow, loadLatestVersion, readDraftToApprove,
         insertEditedDraft, resolveAndRecord, actionFails, Abort, RollbackStaff, StaffTypeOK
    <2> QED BY <2>2, <2>3
  <1>2. ASSUME NEW w \in Workers, NEW x \in Staff, ResolveDeadlock(w, x)
        PROVE  st'[s] = st[s] \/ st'[s].pc = "idle"
    <2>1. st' = st \/ st' = [st EXCEPT ![x] = NotActing]
      BY <1>2 DEF ResolveDeadlock, RollbackStaff
    <2> QED BY <2>1 DEF StaffTypeOK, NotActing
  <1> QED BY <1>1, <1>2 DEF Next, Purge, vars, staffVars

\* ... and to a worker that has chosen its version.
LEMMA WritingEffect ==
    ASSUME WorkerTypeOK, [Next]_vars, NEW w \in Workers, wk'[w].pc = "writing"
    PROVE  \/ wk'[w] = wk[w]
           \/ \E verdict \in {"drafted", "needs_human"} : _write_result(w, verdict)
  <1>1. CASE UNCHANGED wk
    BY <1>1
  <1>2. ASSUME NEW v \in Workers, v # w, OnlyWorker(v) PROVE wk'[w] = wk[w]
    BY <1>2 DEF OnlyWorker
  <1>3. ASSUME NEW v \in Workers, Rollback(v) PROVE wk'[w] = wk[w]
    <2>1. OnlyWorker(v) /\ wk'[v].pc = "failed"
      BY <1>3 DEF Rollback, OnlyWorker, WorkerTypeOK, WorkerStates
    <2> QED BY <1>2, <2>1
  <1>4. ASSUME NEW v \in Workers,
               \/ Start(v) \/ RejectMalformed(v) \/ RequestNotFound(v) \/ Claim(v)
               \/ CommitResult(v) \/ CommitReplyLost(v) \/ Ack(v) \/ NackOrDeadLetter(v) \/ Crash(v)
        PROVE  wk'[w] = wk[w]
    <2>1. OnlyWorker(v) /\ wk'[v].pc # "writing"
      BY <1>4 DEF Start, RejectMalformed, RequestNotFound, Claim, CommitResult, CommitReplyLost,
                  InsertAndCommit, Ack, NackOrDeadLetter, Crash, Goto, Done, Fresh, OnlyWorker,
                  WorkerTypeOK, WorkerStates
    <2> QED BY <1>2, <2>1
  <1>5. ASSUME NEW v \in Workers, NEW m \in Messages, Receive(v, m) PROVE wk'[w] = wk[w]
    <2>1. OnlyWorker(v) /\ wk'[v].pc # "writing"
      BY <1>5 DEF Receive, Fresh, OnlyWorker, WorkerTypeOK
    <2> QED BY <1>2, <2>1
  <1>6. ASSUME NEW v \in Workers, NEW verdict \in {"drafted", "needs_human"}, _write_result(v, verdict)
        PROVE  wk'[w] = wk[w] \/ _write_result(w, verdict)
    <2>1. OnlyWorker(v)
      BY <1>6 DEF _write_result, OnlyWorker, WorkerTypeOK
    <2> QED BY <1>2, <1>6, <2>1
  <1>7. CASE WorkerNext
    BY <1>1, <1>3, <1>4, <1>5, <1>6, <1>7
    DEF WorkerNext, WorkerStep, WorkerTrouble, PipelineRaises, DuplicateVersion, LeaseRunsOut
  <1>8. CASE \E v \in Workers, x \in Staff : ResolveDeadlock(v, x)
    BY <1>1, <1>3, <1>8 DEF ResolveDeadlock
  <1> QED BY <1>1, <1>7, <1>8 DEF Next, Purge, vars, workerVars

\* max(version) of a contiguous history.
LEMMA LatestUpTo ==
    ASSUME TypeIInv, DraftVersionsUniqueAndContiguous, NEW r \in Requests
    PROVE  LatestVersion(r) \in Nat /\ UpTo(r, LatestVersion(r))
  <1>1. drafts[r] \subseteq Drafts /\ HasLatest(drafts[r])
    BY DEF TypeIInv, TypeInv, TypeOK, StoreTypeOK, HistoriesHaveLatest
  <1>2. CASE drafts[r] = {}
    BY <1>2 DEF LatestVersion, UpTo
  <1>3. CASE drafts[r] # {}
    <2>1. LatestDraft(r) \in drafts[r] /\ LatestDraft(r).version = LatestVersion(r)
      BY <1>1, <1>3, LatestVersionIsMax
    <2> QED BY <1>1, <2>1, LatestVersionIsMax DEF DraftVersionsUniqueAndContiguous, UpTo
  <1> QED BY <1>2, <1>3

LEMMA UpToPersists ==
    ASSUME TypeIInv, [Next]_vars, NEW r \in Requests, Exists(r)', NEW n, UpTo(r, n)
    PROVE  UpTo(r, n)'
  BY HistoryStep DEF UpTo, Versions

LEMMA StaffSeesStep ==
    ASSUME VersionIInv, [Next]_vars
    PROVE  StaffSeesSubmitted'
  <1>0. StaffTypeOK /\ StaffHoldRequests /\ IntakeTypeOK /\ RowOrder
    BY DEF VersionIInv, RowIInv, LockIInv, TypeIInv, TypeInv, TypeOK
  <1> SUFFICES ASSUME NEW s \in Staff, st'[s].pc # "idle"
               PROVE  intake'[st'[s].req] # "none"
    BY DEF StaffSeesSubmitted
  <1>1. ASSUME NEW r \in Requests, intake[r] # "none" PROVE intake'[r] # "none"
    BY <1>0, <1>1, IntakeEffect DEF insertRequest, enqueueRequest, reply201, intakeFails, IntakeTypeOK
  <1>2. CASE st[s].pc # "idle" /\ st'[s].req = st[s].req
    BY <1>0, <1>1, <1>2 DEF VersionIInv, StaffSeesSubmitted, StaffHoldRequests
  <1>3. ASSUME NEW r \in Requests, NEW kind \in ActionKinds, loadRow(s, r, kind)
        PROVE  intake'[st'[s].req] # "none"
    <2>1. st'[s].req = r /\ Exists(r)
      BY <1>0, <1>3 DEF loadRow, NotActing, StaffTypeOK
    <2>2. intake[r] # "none"
      BY <1>0, <2>1 DEF RowOrder
    <2> QED BY <1>1, <2>1, <2>2
  <1>4. ASSUME loadLatestVersion(s) \/ readDraftToApprove(s) \/ insertEditedDraft(s)
        PROVE  st[s].pc # "idle" /\ st'[s].req = st[s].req
    BY <1>0, <1>4 DEF loadLatestVersion, readDraftToApprove, insertEditedDraft, StaffTypeOK, StaffStates
  <1> QED BY <1>0, <1>2, <1>3, <1>4, StaffMoves

LEMMA WritersKnowStep ==
    ASSUME VersionIInv, [Next]_vars
    PROVE  WritersKnowVersions'
  <1>0. /\ TypeIInv /\ LockIInv /\ LockIInv' /\ RowOrder
        /\ StaffTypeOK /\ StaffHoldRequests /\ WorkerTypeOK /\ WorkerHoldsRequests
    BY LockStep DEF VersionIInv, RowIInv, LockIInv, TypeIInv, TypeInv, TypeOK
  <1>1. ASSUME NEW s \in Staff, st'[s].pc \in {"stateRead", "ready"},
               req'[st'[s].req].status # "absent"
        PROVE  \A v \in 1..st'[s].latest : v \in Versions(drafts'[st'[s].req])
    <2>1. ASSUME NEW q \in Requests, q = st[s].req, loadLatestVersion(s)
          PROVE  \A v \in 1..st'[s].latest : v \in Versions(drafts'[st'[s].req])
      <3>1. st'[s].req = q /\ st'[s].latest = LatestVersion(q) /\ drafts' = drafts
        BY <1>0, <2>1 DEF loadLatestVersion, StaffTypeOK, StaffStates, storeVars
      <3>2. UpTo(q, LatestVersion(q))
        BY <1>0, LatestUpTo DEF VersionIInv
      <3> QED BY <3>1, <3>2 DEF UpTo
    <2>2. ASSUME NEW q \in Requests, q = st[s].req, NEW n, n = st[s].latest,
                 st[s].pc \in {"stateRead", "ready"}, st'[s].req = q, st'[s].latest = n
          PROVE  \A v \in 1..st'[s].latest : v \in Versions(drafts'[st'[s].req])
      <3>1. intake[q] # "none"
        BY <2>2 DEF VersionIInv, StaffSeesSubmitted
      <3>2. Exists(q)'
        BY <1>1, <2>2 DEF Exists
      <3>3. Exists(q)
        BY <1>0, <3>1, <3>2, ExistsEffect DEF insertRequest
      <3>4. UpTo(q, n)
        BY <2>2, <3>3 DEF VersionIInv, WritersKnowVersions
      <3>5. UpTo(q, n)'
        BY <1>0, <3>2, <3>4, UpToPersists
      <3> QED BY <2>2, <3>5 DEF UpTo
    <2>3. ASSUME NEW r \in Requests, NEW kind \in ActionKinds, loadRow(s, r, kind) PROVE FALSE
      BY <1>0, <1>1, <2>3 DEF loadRow, NotActing, StaffTypeOK
    <2>4. ASSUME readDraftToApprove(s) \/ insertEditedDraft(s)
          PROVE  /\ st[s].pc \in {"stateRead", "ready"}
                 /\ st'[s].req = st[s].req /\ st'[s].latest = st[s].latest
      BY <1>0, <2>4 DEF readDraftToApprove, insertEditedDraft, StaffTypeOK, StaffStates
    <2>5. CASE loadLatestVersion(s)
      <3>1. st[s].req \in Requests
        BY <1>0, <2>5 DEF loadLatestVersion, StaffHoldRequests
      <3> QED BY <2>1, <2>5, <3>1
    <2>6. CASE ~loadLatestVersion(s)
      <3>1. /\ st[s].pc \in {"stateRead", "ready"}
            /\ st'[s].req = st[s].req /\ st'[s].latest = st[s].latest
        BY <1>0, <1>1, <2>3, <2>4, <2>6, StaffMoves
      <3>2. st[s].req \in Requests
        BY <1>0, <3>1 DEF StaffHoldRequests
      <3> QED BY <2>2, <3>1, <3>2
    <2> QED BY <2>5, <2>6
  <1>2. ASSUME NEW w \in Workers, wk'[w].pc = "writing"
        PROVE  \A v \in 1..(wk'[w].version - 1) : v \in Versions(drafts'[wk'[w].msg])
    <2>1. ASSUME NEW q \in Requests, q = wk[w].msg, NEW n, n = wk[w].version, wk'[w] = wk[w]
          PROVE  \A v \in 1..(wk'[w].version - 1) : v \in Versions(drafts'[wk'[w].msg])
      <3>1. rowLock'[q] = w
        BY <1>0, <1>2, <2>1 DEF LockIInv, WorkerLocks, HoldsRow
      <3>2. Exists(q)'
        BY <1>0, <3>1 DEF LockIInv, LockedExist, StoreAssumption
      <3>3. UpTo(q, n - 1)
        BY <1>2, <2>1 DEF VersionIInv, WritersKnowVersions
      <3>4. UpTo(q, n - 1)'
        BY <1>0, <3>2, <3>3, UpToPersists
      <3> QED BY <2>1, <3>4 DEF UpTo
    <2>2. ASSUME NEW q \in Requests, q = wk[w].msg,
                 NEW verdict \in {"drafted", "needs_human"}, _write_result(w, verdict)
          PROVE  \A v \in 1..(wk'[w].version - 1) : v \in Versions(drafts'[wk'[w].msg])
      <3>1. /\ wk'[w].msg = q /\ wk'[w].version = LatestVersion(q) + 1 /\ drafts' = drafts
        BY <1>0, <2>2 DEF _write_result, _next_draft_version, storeVars, WorkerTypeOK, WorkerStates
      <3>2. LatestVersion(q) \in Nat /\ UpTo(q, LatestVersion(q))
        BY <1>0, LatestUpTo DEF VersionIInv
      <3> QED BY <3>1, <3>2 DEF UpTo
    <2>3. CASE wk'[w] = wk[w]
      <3>1. wk[w].msg \in Requests
        BY <1>0, <1>2, <2>3 DEF WorkerHoldsRequests
      <3> QED BY <2>1, <2>3, <3>1
    <2>4. ASSUME NEW verdict \in {"drafted", "needs_human"}, _write_result(w, verdict)
          PROVE  \A v \in 1..(wk'[w].version - 1) : v \in Versions(drafts'[wk'[w].msg])
      <3>1. wk[w].msg \in Requests
        BY <1>0, <2>4 DEF _write_result, WorkerHoldsRequests
      <3> QED BY <2>2, <2>4, <3>1
    <2> QED BY <1>0, <1>2, <2>3, <2>4, WritingEffect
  <1> QED BY <1>1, <1>2 DEF WritersKnowVersions, UpTo, Exists

\* What any step does to the drafts, committed and uncommitted.
LEMMA DraftEffect ==
    ASSUME [Next]_vars
    PROVE  \/ UNCHANGED <<drafts, pending>>
           \/ \E w \in Workers : InsertAndCommit(w)
           \/ \E s \in Staff : insertEditedDraft(s) \/ resolveAndRecord(s) \/ RollbackStaff(s)
           \/ \E batch \in SUBSET Requests : DeleteRows(batch)
  <1>1. CASE IntakeNext
    BY <1>1 DEF IntakeNext, insertRequest, InsertRow, enqueueRequest, reply201, intakeFails, storeVars
  <1>2. CASE WorkerNext
    BY <1>2, WorkerStoreEffect DEF storeVars, Claim, LockRow, ReleaseRowsOf
  <1>3. CASE StaffNext
    BY <1>3 DEF StaffNext, StaffStep, loadRow, loadLatestVersion, readDraftToApprove,
                actionFails, Abort, storeVars
  <1>4. CASE Purge
    BY <1>4 DEF Purge, purgeOrgRequests
  <1>5. CASE \E w \in Workers, s \in Staff : ResolveDeadlock(w, s)
    BY <1>5 DEF ResolveDeadlock, Rollback, ReleaseRowsOf
  <1>6. CASE UNCHANGED vars
    BY <1>6 DEF vars, storeVars
  <1> QED BY <1>1, <1>2, <1>3, <1>4, <1>5, <1>6 DEF Next

\* The draft an edit commits is one of the uncommitted ones.
LEMMA EditIsPending ==
    ASSUME LockIInv, NEW s \in Staff, resolveAndRecord(s), st[s].kind = "edit"
    PROVE  /\ st[s].req \in Requests /\ st[s].reply \in pending[st[s].req]
           /\ st[s].reply \in Drafts
           /\ st[s].reply.version = st[s].latest + 1
           /\ pending'[st[s].req] = pending[st[s].req] \ {st[s].reply}
           /\ \A r \in Requests : pending'[r] \subseteq pending[r]
  <1>1. HasInserted(s) /\ st[s].req \in Requests /\ st[s].reply \in Drafts
    BY DEF resolveAndRecord, ReadyToWrite, HasInserted, LockIInv, TypeIInv, StaffHoldRequests
  <1>2. st[s].reply = EditedDraft(s)
    BY <1>1 DEF LockIInv, InsertsAreOwn
  <1>3. st[s].reply \in pending[st[s].req]
    BY <1>1 DEF LockIInv, PendingIsOwned
  <1>4. st[s].reply.version = st[s].latest + 1
    BY <1>2 DEF EditedDraft
  <1>5. \A r \in Requests : pending'[r] = IF r = st[s].req THEN pending[r] \ {st[s].reply} ELSE pending[r]
    BY <1>1 DEF resolveAndRecord, PendingWithout
  <1> QED BY <1>1, <1>3, <1>4, <1>5

LEMMA PendingIsNewStep ==
    ASSUME VersionIInv, [Next]_vars
    PROVE  PendingIsNew'
  <1>0. TypeIInv /\ LockIInv /\ StoreTypeOK /\ StaffInv /\ WorkerTypeOK
    BY DEF VersionIInv, RowIInv, LockIInv, TypeIInv, TypeInv, TypeOK, StaffInv
  <1> SUFFICES ASSUME NEW r \in Requests, NEW d \in pending'[r]
               PROVE  /\ d.version \notin Versions(drafts'[r])
                      /\ \A e \in pending'[r] : e.version = d.version => e = d
    BY DEF PendingIsNew
  <1> DEFINE Goal == /\ d.version \notin Versions(drafts'[r])
                     /\ \A e \in pending'[r] : e.version = d.version => e = d
  <1>1. ASSUME pending'[r] \subseteq pending[r], drafts'[r] \subseteq drafts[r] PROVE Goal
    BY <1>1 DEF VersionIInv, PendingIsNew, Versions
  <1>2. ASSUME NEW w \in Workers, InsertAndCommit(w) PROVE Goal
    <2>1. pending' = pending /\ wk[w].msg \in Requests
      BY <1>0, <1>2, CommitEffect
    <2>2. CASE r = wk[w].msg
      <3>1. drafts'[r] = drafts[r] \cup {VerdictDraft(w)}
        BY <1>0, <1>2, <2>2, CommitEffect
      <3>2. d.version # wk[w].version
        BY <1>2, <2>1, <2>2 DEF InsertAndCommit, VersionFree, Versions
      <3>3. VerdictDraft(w).version = wk[w].version
        BY DEF VerdictDraft
      <3> QED BY <2>1, <3>1, <3>2, <3>3 DEF VersionIInv, PendingIsNew, Versions
    <2>3. CASE r # wk[w].msg
      <3>1. drafts'[r] = drafts[r]
        BY <1>0, <1>2, <2>3, CommitEffect
      <3> QED BY <1>1, <2>1, <3>1
    <2> QED BY <2>2, <2>3
  <1>3. ASSUME NEW s \in Staff, insertEditedDraft(s) PROVE Goal
    <2>1. /\ st[s].req \in Requests /\ drafts' = drafts
          /\ VersionFree(st[s].req, EditedDraft(s).version)
          /\ pending' = [pending EXCEPT ![st[s].req] = @ \cup {EditedDraft(s)}]
      BY <1>0, <1>3 DEF insertEditedDraft, StaffInv, StaffHoldRequests
    <2>2. CASE r = st[s].req
      <3>1. pending'[r] = pending[r] \cup {EditedDraft(s)}
        BY <1>0, <2>1, <2>2 DEF StoreTypeOK
      <3>2. \A e \in pending[r] : e.version # EditedDraft(s).version
        BY <2>1, <2>2 DEF VersionFree, Versions
      <3>3. EditedDraft(s).version \notin Versions(drafts[r])
        BY <2>1, <2>2 DEF VersionFree
      <3> QED BY <2>1, <3>1, <3>2, <3>3 DEF VersionIInv, PendingIsNew
    <2>3. CASE r # st[s].req
      BY <1>0, <1>1, <2>1, <2>3 DEF StoreTypeOK
    <2> QED BY <2>2, <2>3
  <1>4. ASSUME NEW s \in Staff, resolveAndRecord(s) PROVE Goal
    <2>1. CASE st[s].kind = "edit"
      <3>1. /\ st[s].req \in Requests /\ st[s].reply \in pending[st[s].req]
            /\ pending'[st[s].req] = pending[st[s].req] \ {st[s].reply}
            /\ pending'[r] \subseteq pending[r]
        BY <1>0, <1>4, <2>1, EditIsPending
      <3>2. CASE r = st[s].req
        <4>1. drafts'[r] = drafts[r] \cup {st[s].reply}
          BY <1>0, <1>4, <2>1, <3>2, ResolveEffect DEF CommittedDrafts
        <4>2. d \in pending[r] /\ d # st[s].reply
          BY <3>1, <3>2
        <4>3. d.version # st[s].reply.version
          BY <3>1, <3>2, <4>2 DEF VersionIInv, PendingIsNew
        <4> QED BY <3>1, <4>1, <4>2, <4>3 DEF VersionIInv, PendingIsNew, Versions
      <3>3. CASE r # st[s].req
        <4>1. drafts'[r] = drafts[r]
          BY <1>0, <1>4, <3>3, ResolveEffect
        <4> QED BY <1>1, <3>1, <4>1
      <3> QED BY <3>2, <3>3
    <2>2. CASE st[s].kind # "edit"
      <3>1. drafts'[r] = drafts[r]
        BY <1>0, <1>4, <2>2, ResolveEffect DEF CommittedDrafts
      <3>2. pending'[r] \subseteq pending[r]
        BY <1>4 DEF resolveAndRecord, PendingWithout
      <3> QED BY <1>1, <3>1, <3>2
    <2> QED BY <2>1, <2>2
  <1>5. ASSUME NEW s \in Staff, RollbackStaff(s) PROVE Goal
    BY <1>1, <1>5 DEF RollbackStaff, PendingWithout
  <1>6. ASSUME NEW batch \in SUBSET Requests, DeleteRows(batch) PROVE Goal
    BY <1>1, <1>6 DEF DeleteRows
  <1> QED BY <1>1, <1>2, <1>3, <1>4, <1>5, <1>6, DraftEffect

\* One more draft, whose version is free and follows on.
LEMMA AddDraftVersions ==
    ASSUME NEW ds \in SUBSET Drafts, NEW d \in Drafts,
           \A x, y \in ds : x.version = y.version => x = y,
           \A x \in ds : \A v \in 1..x.version : v \in Versions(ds),
           d.version \notin Versions(ds),
           \A v \in 1..(d.version - 1) : v \in Versions(ds)
    PROVE  /\ \A x, y \in ds \cup {d} : x.version = y.version => x = y
           /\ \A x \in ds \cup {d} : \A v \in 1..x.version : v \in Versions(ds \cup {d})
  <1>1. \A x \in ds : x.version # d.version
    BY DEF Versions
  <1>2. \A x, y \in ds \cup {d} : x.version = y.version => x = y
    BY <1>1
  <1>3. \A v : v \in Versions(ds) => v \in Versions(ds \cup {d})
    BY DEF Versions
  <1>4. d.version \in Nat /\ d.version \in Versions(ds \cup {d})
    BY DEF Versions, Drafts
  <1>5. ASSUME NEW x \in ds \cup {d}, NEW v \in 1..x.version
        PROVE  v \in Versions(ds \cup {d})
    <2>1. CASE x \in ds
      BY <1>3, <1>5, <2>1
    <2>2. CASE x = d
      <3>1. v = d.version \/ v \in 1..(d.version - 1)
        BY <1>4, <2>2
      <3> QED BY <1>3, <1>4, <3>1
    <2> QED BY <2>1, <2>2
  <1> QED BY <1>2, <1>5

LEMMA VersionsStep ==
    ASSUME VersionIInv, [Next]_vars
    PROVE  DraftVersionsUniqueAndContiguous'
  <1>0. /\ TypeIInv /\ LockIInv /\ StoreTypeOK /\ StaffInv
        /\ wk \in [Workers -> WorkerStates]
    BY DEF VersionIInv, RowIInv, LockIInv, TypeIInv, TypeInv, TypeOK, StaffInv, WorkerTypeOK
  <1> SUFFICES ASSUME NEW r \in Requests
               PROVE  /\ \A d, e \in drafts'[r] : d.version = e.version => d = e
                      /\ \A d \in drafts'[r] : \A v \in 1..d.version : v \in Versions(drafts'[r])
    BY DEF DraftVersionsUniqueAndContiguous, Versions
  <1> DEFINE Goal == /\ \A d, e \in drafts'[r] : d.version = e.version => d = e
                     /\ \A d \in drafts'[r] : \A v \in 1..d.version : v \in Versions(drafts'[r])
  <1>1. /\ \A d, e \in drafts[r] : d.version = e.version => d = e
        /\ \A d \in drafts[r] : \A v \in 1..d.version : v \in Versions(drafts[r])
        /\ drafts[r] \in SUBSET Drafts
    BY <1>0 DEF VersionIInv, DraftVersionsUniqueAndContiguous, StoreTypeOK
  <1>2. CASE drafts'[r] = drafts[r]
    BY <1>1, <1>2
  <1>3. ASSUME NEW d \in Drafts, drafts'[r] = drafts[r] \cup {d}, d.version \notin Versions(drafts[r]),
               UpTo(r, d.version - 1)
        PROVE  Goal
    BY <1>1, <1>3, AddDraftVersions DEF UpTo
  <1>4. ASSUME NEW w \in Workers, InsertAndCommit(w) PROVE Goal
    <2>1. CASE r = wk[w].msg
      <3>1. drafts'[r] = drafts[r] \cup {VerdictDraft(w)} /\ wk[w].version > 0
        BY <1>0, <1>4, <2>1, CommitEffect
      <3>2. VerdictDraft(w) \in Drafts /\ VerdictDraft(w).version = wk[w].version
        BY <1>0, <3>1, VerdictDraftType DEF VerdictDraft
      <3>3. wk[w].version \notin Versions(drafts[r])
        BY <1>4, <2>1 DEF InsertAndCommit, VersionFree
      <3>4. UpTo(r, wk[w].version - 1)
        BY <1>4, <2>1 DEF InsertAndCommit, VersionIInv, WritersKnowVersions
      <3> QED BY <1>3, <3>1, <3>2, <3>3, <3>4
    <2>2. CASE r # wk[w].msg
      BY <1>0, <1>2, <1>4, <2>2, CommitEffect
    <2> QED BY <2>1, <2>2
  <1>5. ASSUME NEW s \in Staff, resolveAndRecord(s) PROVE Goal
    <2>1. CASE st[s].kind = "edit" /\ r = st[s].req
      <3>1. /\ st[s].reply \in pending[r] /\ st[s].reply \in Drafts
            /\ st[s].reply.version = st[s].latest + 1
        BY <1>0, <1>5, <2>1, EditIsPending
      <3>2. drafts'[r] = drafts[r] \cup {st[s].reply}
        BY <1>0, <1>5, <2>1, ResolveEffect DEF CommittedDrafts
      <3>3. st[s].reply.version \notin Versions(drafts[r])
        BY <3>1 DEF VersionIInv, PendingIsNew
      <3>4. UpTo(r, st[s].latest)
        BY <1>5, <2>1 DEF resolveAndRecord, ReadyToWrite, VersionIInv, WritersKnowVersions
      <3>5. st[s].latest \in Nat
        BY <1>0 DEF StaffInv, StaffTypeOK, StaffStates
      <3>6. st[s].reply.version - 1 = st[s].latest
        BY <3>1, <3>5
      <3> QED BY <1>3, <3>1, <3>2, <3>3, <3>4, <3>6
    <2>2. CASE ~(st[s].kind = "edit" /\ r = st[s].req)
      BY <1>0, <1>2, <1>5, <2>2, ResolveEffect DEF CommittedDrafts
    <2> QED BY <2>1, <2>2
  <1>6. ASSUME NEW s \in Staff, insertEditedDraft(s) \/ RollbackStaff(s) PROVE Goal
    BY <1>2, <1>6 DEF insertEditedDraft, RollbackStaff
  <1>7. ASSUME NEW batch \in SUBSET Requests, DeleteRows(batch) PROVE Goal
    <2>1. drafts'[r] = {} \/ drafts'[r] = drafts[r]
      BY <1>7 DEF DeleteRows
    <2> QED BY <1>2, <2>1
  <1> QED BY <1>2, <1>4, <1>5, <1>6, <1>7, DraftEffect

LEMMA VersionIInvStep == VersionIInv /\ [Next]_vars => VersionIInv'
  BY LockStep, RowOrderStep, NoOrphansStep, NoHalfDoneStep, StaffSeesStep, WritersKnowStep,
     PendingIsNewStep, VersionsStep DEF VersionIInv, RowIInv

LEMMA VersionIInvAlways == Spec => []VersionIInv
  <1>1. Init => VersionIInv
    BY TypeIInvInit, LockInit, RowInit, VersionInit DEF LockIInv, RowIInv, VersionIInv
  <1> QED BY <1>1, VersionIInvStep, PTL DEF Spec

\* drafts.ts:40-62: max + 1 without a lock, by any number of workers and staff,
\* and still no version twice and none skipped: the unique index refuses the
\* second writer, and nobody commits a version before those below it.
THEOREM DraftVersionsContiguous == Spec => []DraftVersionsUniqueAndContiguous
  BY VersionIInvAlways, PTL DEF VersionIInv

-----------------------------------------------------------------------------
\* The verdict and the current draft.
LEMMA LatestDraftAfter ==
    ASSUME NEW r \in Requests, drafts'[r] \subseteq Drafts, NEW d \in drafts'[r],
           \A x \in drafts'[r] : x = d \/ x.version < d.version
    PROVE  LatestDraft(r)' = d
  <1>1. drafts'[r] # {} /\ d.version \in Versions(drafts'[r]) /\ d.version \in Nat
    BY DEF Versions, Drafts
  <1>2. \A v \in Versions(drafts'[r]) : v \in Nat /\ v <= d.version
    BY <1>1 DEF Versions, Drafts
  <1>3. LatestVersion(r)' = d.version
    <2> DEFINE P(v) == v \in Versions(drafts'[r]) /\ \A x \in Versions(drafts'[r]) : x <= v
    <2>1. P(d.version)
      BY <1>1, <1>2
    <2>2. ASSUME NEW v, P(v) PROVE v = d.version
      BY <1>1, <1>2, <2>2
    <2>3. LatestVersion(r)' = CHOOSE v : P(v)
      BY <1>1 DEF LatestVersion
    <2> HIDE DEF P
    <2> QED BY <2>1, <2>2, <2>3
  <1>4. \A x \in drafts'[r] : x.version = d.version => x = d
    BY <1>1
  <1> QED BY <1>3, <1>4 DEF LatestDraft

LEMMA VerdictStep ==
    ASSUME VersionIInv, VerdictMatchesCurrentDraft, [Next]_vars
    PROVE  VerdictMatchesCurrentDraft'
  <1>0. /\ TypeIInv /\ TypeIInv' /\ LockIInv /\ StoreTypeOK /\ StoreTypeOK'
        /\ wk \in [Workers -> WorkerStates]
    BY TypeIInvStep DEF VersionIInv, RowIInv, LockIInv, TypeIInv, TypeInv, TypeOK, WorkerTypeOK
  <1> SUFFICES ASSUME NEW r \in Requests
               PROVE  /\ req'[r].status = "drafted" => LatestDraft(r)'.author = "llm"
                      /\ req'[r].status = "needs_human" => LatestDraft(r)'.author = "fallback"
    BY DEF VerdictMatchesCurrentDraft
  <1> DEFINE Goal == /\ req'[r].status = "drafted" => LatestDraft(r)'.author = "llm"
                     /\ req'[r].status = "needs_human" => LatestDraft(r)'.author = "fallback"
  <1>1. CASE req'[r] = req[r] /\ drafts'[r] = drafts[r]
    <2>1. LatestDraft(r)' = LatestDraft(r)
      BY <1>1 DEF LatestDraft, LatestVersion
    <2> QED BY <1>1, <2>1 DEF VerdictMatchesCurrentDraft
  <1>2. CASE req'[r].status \notin {"drafted", "needs_human"}
    BY <1>2
  <1>3. ASSUME NEW q \in Requests, insertRequest(q) PROVE Goal
    <2>1. q # r => req'[r] = req[r]
      BY <1>0, <1>3 DEF insertRequest, InsertRow, StoreTypeOK
    <2>2. q = r => req'[r].status = "received"
      BY <1>0, <1>3 DEF insertRequest, InsertRow, NoRow, StoreTypeOK
    <2>3. drafts' = drafts
      BY <1>3 DEF insertRequest, InsertRow
    <2> QED BY <1>1, <1>2, <2>1, <2>2, <2>3
  <1>4. ASSUME NEW w \in Workers, InsertAndCommit(w) PROVE Goal
    <2>1. CASE r = wk[w].msg
      <3>1. /\ drafts'[r] = drafts[r] \cup {VerdictDraft(w)} /\ wk[w].version > 0
            /\ wk[w].status \in {"drafted", "needs_human"} /\ req'[r].status = wk[w].status
        BY <1>0, <1>4, <2>1, CommitEffect
      <3>2. VerdictDraft(w) \in Drafts /\ VerdictDraft(w).version = wk[w].version
        BY <1>0, <3>1, VerdictDraftType DEF VerdictDraft
      <3>3. wk[w].version \notin Versions(drafts[r])
        BY <1>4, <2>1 DEF InsertAndCommit, VersionFree
      <3>4. ASSUME NEW x \in drafts[r] PROVE x.version < VerdictDraft(w).version
        <4>1. x.version \in Nat \ {0} /\ wk[w].version \in Nat
          BY <1>0 DEF StoreTypeOK, Drafts, WorkerStates
        <4>2. \A v \in 1..x.version : v \in Versions(drafts[r])
          BY DEF VersionIInv, DraftVersionsUniqueAndContiguous
        <4> QED BY <3>1, <3>2, <3>3, <4>1, <4>2
      <3>5. LatestDraft(r)' = VerdictDraft(w)
        <4>1. drafts'[r] \subseteq Drafts
          BY <1>0 DEF StoreTypeOK
        <4>2. \A x \in drafts'[r] : x = VerdictDraft(w) \/ x.version < VerdictDraft(w).version
          BY <3>1, <3>4
        <4> QED BY <3>1, <4>1, <4>2, LatestDraftAfter
      <3>6. VerdictDraft(w).author = IF wk[w].status = "drafted" THEN "llm" ELSE "fallback"
        BY DEF VerdictDraft
      <3> QED BY <3>1, <3>5, <3>6
    <2>2. CASE r # wk[w].msg
      BY <1>0, <1>1, <1>4, <2>2, CommitEffect
    <2> QED BY <2>1, <2>2
  <1>5. ASSUME NEW s \in Staff, resolveAndRecord(s) PROVE Goal
    <2>1. CASE r = st[s].req
      BY <1>0, <1>2, <1>5, <2>1, ResolveEffect
    <2>2. CASE r # st[s].req
      BY <1>0, <1>1, <1>5, <2>2, ResolveEffect
    <2> QED BY <2>1, <2>2
  <1>6. ASSUME NEW batch \in SUBSET Requests, DeleteRows(batch) PROVE Goal
    <2>1. r \in batch => req'[r].status = "absent"
      BY <1>6 DEF DeleteRows, NoRow
    <2> QED BY <1>1, <1>2, <1>6, <2>1 DEF DeleteRows
  <1>7. CASE UNCHANGED <<req, drafts, audit>>
    BY <1>1, <1>7
  <1> QED BY <1>3, <1>4, <1>5, <1>6, <1>7, RowEffect

\* pipeline.py:10-19: two workers with the same message and staff in between,
\* and a request that is shown as drafted still has the model's reply on top.
THEOREM VerdictMatches == Spec => []VerdictMatchesCurrentDraft
  <1>1. Init => VerdictMatchesCurrentDraft
    <2>1. ASSUME Init, NEW r \in Requests PROVE req[r].status = "absent"
      BY <2>1 DEF Init, StoreInit, NoRow
    <2> QED BY <2>1 DEF VerdictMatchesCurrentDraft
  <1>2. VersionIInv /\ VerdictMatchesCurrentDraft /\ [Next]_vars => VerdictMatchesCurrentDraft'
    BY VerdictStep
  <1> QED BY <1>1, <1>2, VersionIInvAlways, PTL DEF Spec

-----------------------------------------------------------------------------
\* What an approval is about to publish is a committed draft, no older than the
\* version its audit row will name as the one before.
ApprovesADraft ==
    \A s \in Staff :
        st[s].pc = "ready" /\ st[s].kind = "approve" /\ Exists(st[s].req) =>
            /\ st[s].reply \in drafts[st[s].req]
            /\ st[s].latest <= st[s].reply.version

LEMMA ApprovesStep ==
    ASSUME VersionIInv, ApprovesADraft, [Next]_vars
    PROVE  ApprovesADraft'
  <1>0. /\ TypeIInv /\ LockIInv /\ StoreTypeOK /\ HistoriesHaveLatest
        /\ StaffTypeOK /\ StaffHoldRequests
    BY DEF VersionIInv, RowIInv, LockIInv, TypeIInv, TypeInv, TypeOK
  <1> SUFFICES ASSUME NEW s \in Staff, st'[s].pc = "ready", st'[s].kind = "approve",
                      req'[st'[s].req].status # "absent"
               PROVE  /\ st'[s].reply \in drafts'[st'[s].req]
                      /\ st'[s].latest <= st'[s].reply.version
    BY DEF ApprovesADraft, Exists
  <1>1. ASSUME NEW q \in Requests, q = st[s].req, st'[s] = st[s]
        PROVE  /\ st'[s].reply \in drafts'[st'[s].req]
               /\ st'[s].latest <= st'[s].reply.version
    <2>1. intake[q] # "none" /\ Exists(q)'
      BY <1>1 DEF VersionIInv, StaffSeesSubmitted, Exists
    <2>2. Exists(q)
      BY <1>0, <2>1, ExistsEffect DEF insertRequest
    <2>3. drafts[q] \subseteq drafts'[q]
      BY <1>0, <2>1, HistoryStep
    <2> QED BY <1>1, <2>2, <2>3 DEF ApprovesADraft
  <1>2. ASSUME NEW q \in Requests, q = st[s].req, readDraftToApprove(s)
        PROVE  /\ st'[s].reply \in drafts'[st'[s].req]
               /\ st'[s].latest <= st'[s].reply.version
    <2>1. /\ st'[s].req = q /\ st'[s].latest = st[s].latest /\ st'[s].reply = LatestDraft(q)
          /\ drafts[q] # {} /\ drafts' = drafts /\ req' = req /\ st[s].pc = "stateRead"
      BY <1>0, <1>2 DEF readDraftToApprove, storeVars, StaffTypeOK, StaffStates
    <2>2. /\ LatestDraft(q) \in drafts[q] /\ LatestDraft(q).version = LatestVersion(q)
          /\ \A d \in drafts[q] : d.version <= LatestVersion(q)
          /\ LatestVersion(q) \in Nat
      BY <1>0, <2>1, LatestVersionIsMax DEF StoreTypeOK, HistoriesHaveLatest
    <2>3. st[s].latest \in Nat
      BY <1>0 DEF StaffTypeOK, StaffStates
    <2>4. UpTo(q, st[s].latest)
      BY <1>2, <2>1 DEF VersionIInv, WritersKnowVersions, Exists
    <2>5. st[s].latest <= LatestVersion(q)
      <3>1. CASE st[s].latest = 0
        BY <2>2, <3>1
      <3>2. CASE st[s].latest # 0
        <4>1. st[s].latest \in Versions(drafts[q])
          BY <2>3, <2>4, <3>2 DEF UpTo
        <4> QED BY <2>2, <4>1 DEF Versions
      <3> QED BY <3>1, <3>2
    <2> QED BY <2>1, <2>2, <2>5
  <1>3. CASE st'[s] = st[s]
    <2>1. st[s].req \in Requests
      BY <1>0, <1>3 DEF StaffHoldRequests
    <2> QED BY <1>1, <1>3, <2>1
  <1>4. CASE readDraftToApprove(s)
    <2>1. st[s].req \in Requests
      BY <1>0, <1>4 DEF readDraftToApprove, StaffHoldRequests
    <2> QED BY <1>2, <1>4, <2>1
  <1>5. ASSUME NEW r \in Requests, NEW kind \in ActionKinds, loadRow(s, r, kind) PROVE FALSE
    BY <1>0, <1>5 DEF loadRow, NotActing, StaffTypeOK
  <1>6. ~loadLatestVersion(s) /\ ~insertEditedDraft(s)
    BY <1>0 DEF loadLatestVersion, insertEditedDraft, StaffTypeOK, StaffStates
  <1> QED BY <1>0, <1>3, <1>4, <1>5, <1>6, StaffMoves

\* The audit row of one decision, against the drafts it leaves.
LEMMA NewRowRefersToDrafts ==
    ASSUME VersionIInv, ApprovesADraft, NEW s \in Staff, resolveAndRecord(s),
           NEW ds, ds = drafts'[st[s].req]
    PROVE  LET a == ActionRow(s) IN
           /\ a.before.draftVersion <= a.after.draftVersion
           /\ a.after.draftVersion # 0 => a.after.draftVersion \in Versions(ds)
           /\ a.kind # "reject" => a.after.replyText \in ds
  <1> DEFINE q == st[s].req
  <1>0. /\ TypeIInv /\ LockIInv /\ StaffTypeOK /\ StaffHoldRequests /\ st[s].latest \in Nat
        /\ st[s].kind \in ActionKinds
    BY DEF VersionIInv, RowIInv, LockIInv, TypeIInv, TypeInv, TypeOK, StaffTypeOK, StaffStates
  <1>1. /\ ActionRow(s).before.draftVersion = st[s].latest
        /\ ActionRow(s).after = After(s) /\ ActionRow(s).kind = st[s].kind
    BY DEF ActionRow, Before
  <1>2. Exists(q) /\ q \in Requests /\ ds = CommittedDrafts(s, drafts[q])
    BY <1>0, ResolveEffect
  <1>3. st[s].pc \in {"stateRead", "ready"}
    BY DEF resolveAndRecord, ReadyToWrite
  <1>4. UpTo(q, st[s].latest)
    BY <1>2, <1>3 DEF VersionIInv, WritersKnowVersions
  <1>5. CASE st[s].kind = "reject"
    <2>1. After(s).draftVersion = st[s].latest /\ ds = drafts[q]
      BY <1>2, <1>5 DEF After, CommittedDrafts
    <2>2. st[s].latest # 0 => st[s].latest \in Versions(drafts[q])
      BY <1>0, <1>4 DEF UpTo
    <2> QED BY <1>0, <1>1, <1>5, <2>1, <2>2
  <1>6. CASE st[s].kind # "reject"
    <2>1. After(s).draftVersion = st[s].reply.version /\ After(s).replyText = st[s].reply
      BY <1>6 DEF After
    <2>2. st[s].reply \in ds /\ st[s].latest <= st[s].reply.version
      <3>1. CASE st[s].kind = "edit"
        <4>1. st[s].reply \in ds
          BY <1>2, <3>1 DEF CommittedDrafts
        <4> QED BY <1>0, <3>1, <4>1, EditIsPending
      <3>2. CASE st[s].kind = "approve"
        <4>1. st[s].pc = "ready" /\ ds = drafts[q]
          BY <1>2, <3>2 DEF resolveAndRecord, ReadyToWrite, CommittedDrafts
        <4> QED BY <1>2, <3>2, <4>1 DEF ApprovesADraft
      <3> QED BY <1>0, <1>6, <3>1, <3>2 DEF ActionKinds
    <2>3. st[s].reply.version \in Versions(ds)
      BY <2>2 DEF Versions
    <2> QED BY <1>1, <2>1, <2>2, <2>3
  <1> QED BY <1>5, <1>6

LEMMA AuditStep ==
    ASSUME VersionIInv, ApprovesADraft, AuditCrossReferencesDrafts, [Next]_vars
    PROVE  AuditCrossReferencesDrafts'
  <1>0. TypeIInv /\ LockIInv /\ StoreTypeOK /\ RowIInv' /\ NoOrphans /\ StaffInv
    BY VersionIInvStep DEF VersionIInv, RowIInv, LockIInv, TypeIInv, TypeInv, TypeOK, StaffInv
  <1> DEFINE Refers(a, ds) == /\ a.before.draftVersion <= a.after.draftVersion
                              /\ a.after.draftVersion # 0 => a.after.draftVersion \in Versions(ds)
                              /\ a.kind # "reject" => a.after.replyText \in ds
  <1> SUFFICES ASSUME NEW r \in Requests, NEW i \in 1..Len(audit'[r])
               PROVE  Refers(audit'[r][i], drafts'[r])
    BY DEF AuditCrossReferencesDrafts
  <1>1. ASSUME NEW j \in 1..Len(audit[r]) PROVE Refers(audit[r][j], drafts[r])
    BY DEF AuditCrossReferencesDrafts
  <1>2. ASSUME NEW a, NEW ds, NEW es, ds \subseteq es, Refers(a, ds) PROVE Refers(a, es)
    BY <1>2 DEF Versions
  <1> HIDE DEF Refers
  <1>3. Exists(r)'
    <2>1. audit'[r] # <<>>
      OBVIOUS
    <2> QED BY <1>0, <2>1 DEF RowIInv, NoOrphans
  <1>4. drafts[r] \subseteq drafts'[r]
    BY <1>0, <1>3, HistoryStep
  <1>5. CASE audit'[r] = audit[r]
    BY <1>1, <1>2, <1>4, <1>5
  <1>6. ASSUME NEW s \in Staff, resolveAndRecord(s), st[s].req = r
        PROVE  Refers(audit'[r][i], drafts'[r])
    <2>1. audit'[r] = Append(audit[r], ActionRow(s)) /\ ReadyToWrite(s)
      BY <1>0, <1>6, ResolveEffect DEF recordAction, resolveAndRecord
    <2>2. audit[r] \in Seq(Actions) /\ ActionRow(s) \in Actions
      BY <1>0, <2>1, ActionRowType DEF StoreTypeOK
    <2>3. Refers(ActionRow(s), drafts'[r])
      BY <1>6, NewRowRefersToDrafts DEF Refers
    <2>4. CASE i \in 1..Len(audit[r])
      <3>1. audit'[r][i] = audit[r][i]
        BY <2>1, <2>2, <2>4, NewestOfAppend
      <3> QED BY <1>1, <1>2, <1>4, <2>4, <3>1
    <2>5. CASE i \notin 1..Len(audit[r])
      <3>1. i = Len(audit[r]) + 1
        BY <2>1, <2>2, <2>5
      <3>2. audit'[r][i] = ActionRow(s)
        BY <2>1, <2>2, <3>1
      <3> QED BY <2>3, <3>2
    <2> QED BY <2>4, <2>5
  <1>7. ASSUME NEW s \in Staff, resolveAndRecord(s), st[s].req # r PROVE audit'[r] = audit[r]
    BY <1>0, <1>7, ResolveEffect
  <1>8. ASSUME NEW batch \in SUBSET Requests, DeleteRows(batch) PROVE audit'[r] = audit[r]
    BY <1>3, <1>8 DEF DeleteRows, NoRow, Exists
  <1> QED BY <1>5, <1>6, <1>7, <1>8, RowEffect DEF insertRequest, InsertRow, InsertAndCommit

\* staffActions.ts:26-29: whatever two members of staff and a worker do to one
\* request at once, every audit row names a draft that exists and was not older
\* than what the actor had seen.
THEOREM AuditNamesDrafts == Spec => []AuditCrossReferencesDrafts
  <1>1. Init => ApprovesADraft /\ AuditCrossReferencesDrafts
    BY DEF Init, StaffInit, NotActing, StoreInit, ApprovesADraft, AuditCrossReferencesDrafts
  <1>2. VersionIInv /\ ApprovesADraft /\ AuditCrossReferencesDrafts /\ [Next]_vars
            => ApprovesADraft' /\ AuditCrossReferencesDrafts'
    BY ApprovesStep, AuditStep
  <1> QED BY <1>1, <1>2, VersionIInvAlways, PTL DEF Spec
=============================================================================
