------------------------------ MODULE FrontDesk ------------------------------
(***************************************************************************)
(* The life of a request: the api's intake, the triage workers, the staff  *)
(* and the demo purge, all working on the same rows and the same queue at  *)
(* the same time.                                                          *)
(***************************************************************************)
EXTENDS Intake, TriageWorker, StaffActions, DemoPurge

vars == <<storeVars, queue, intakeVars, workerVars, staffVars>>

\* A message that is not of the contract is left from an older release.
Init ==
    /\ StoreInit
    /\ IntakeInit
    /\ WorkerInit
    /\ StaffInit
    /\ queue = [m \in Messages |->
                   [at |-> IF m \in Malformed THEN "visible" ELSE "unsent",
                    read_ct |-> 0]]

\* The retention period is a day: the intake of a stale request is long over.
Purge ==
    /\ \E batch \in SUBSET {r \in DemoRequests : intake[r] \in {"accepted", "failed"}} :
          purgeOrgRequests(batch)
    /\ UNCHANGED <<queue, intake, wk, faults, st>>

\* Worker w holds row r and waits for staff s to end the transaction that has
\* inserted the draft version w wants; s waits, or is about to, for row r.
Deadlocked(w, s) ==
    /\ wk[w].pc = "writing"
    /\ HasInserted(s)
    /\ st[s].req = wk[w].msg
    /\ st[s].reply.version = wk[w].version

\* Postgres' deadlock detector aborts one of the two.
ResolveDeadlock(w, s) ==
    /\ Deadlocked(w, s)
    /\ \/ Rollback(w) /\ UNCHANGED st
       \/ RollbackStaff(s) /\ UNCHANGED wk
    /\ UNCHANGED <<queue, intake, faults>>

Next ==
    \/ IntakeNext /\ UNCHANGED <<wk, faults, st>>
    \/ WorkerNext /\ UNCHANGED <<intake, st>>
    \/ StaffNext /\ UNCHANGED <<queue, intake, wk, faults>>
    \/ Purge
    \/ \E w \in Workers, s \in Staff : ResolveDeadlock(w, s)

Spec == Init /\ [][Next]_vars

-----------------------------------------------------------------------------
\* Fairness.  The api handler, the workers, the queue's clock and a staff call
\* that has started keep going; people, failures and the purge owe nothing.
\* An insert that waits on a unique index is retried every time the
\* transaction it waits for ends: strong fairness for the two such inserts.
worker_step(w) == WorkerStep(w) /\ UNCHANGED <<intake, st>>

staff_step(s) == StaffStep(s) /\ UNCHANGED <<queue, intake, wk, faults>>

intake_step(r) ==
    (enqueueRequest(r) \/ reply201(r) \/ intakeFails(r)) /\ UNCHANGED <<wk, faults, st>>

Fairness ==
    /\ \A r \in Requests : WF_vars(intake_step(r))
    /\ \A w \in Workers :
          /\ WF_vars(worker_step(w))
          /\ SF_vars(CommitResult(w) /\ UNCHANGED <<intake, st>>)
    /\ \A m \in Messages : WF_vars(LeaseRunsOut(m) /\ UNCHANGED <<faults, intake, st>>)
    /\ \A s \in Staff :
          /\ WF_vars(staff_step(s))
          /\ SF_vars(insertEditedDraft(s) /\ UNCHANGED <<queue, intake, wk, faults>>)
    /\ WF_vars(\E w \in Workers, s \in Staff : ResolveDeadlock(w, s))

FairSpec == Spec /\ Fairness

-----------------------------------------------------------------------------
TypeOK ==
    /\ StoreTypeOK
    /\ QueueTypeOK
    /\ IntakeTypeOK
    /\ WorkerTypeOK
    /\ StaffTypeOK

\* statusLabel: what a visitor is told of a request that is not approved.
statusLabel(status) ==
    CASE status = "received" -> "Received"
      [] status \in {"triaging", "drafted", "needs_human"} -> "In review"
      [] status = "rejected" -> "Reviewed"

\* getTrackingView: reply_text is shown for status 'approved' and never otherwise.
getTrackingView(r) ==
    IF req[r].status = "approved"
    THEN [kind |-> "approved", body |-> req[r].reply]
    ELSE [kind |-> statusLabel(req[r].status), body |-> NoReply]

\* /t/[token]: a 404 when there is no row.
TrackingPage(r) ==
    IF Exists(r) THEN getTrackingView(r)
    ELSE [kind |-> IF intake[r] = "none" THEN "none" ELSE "gone", body |-> NoReply]

\* The reply each audit row says was published; NoReply for a rejection.
Decisions(r) == [i \in 1..Len(audit[r]) |-> audit[r][i].after.replyText]

Public == INSTANCE PublicPage WITH
    Bodies <- Drafts, NoBody <- NoReply,
    page <- [r \in Requests |-> TrackingPage(r)],
    decisions <- [r \in Requests |-> Decisions(r)]

TriageAuthors == {"llm", "fallback"}

\* The worker's verdict on r is committed.
Triaged(r) == \E d \in drafts[r] : d.author \in TriageAuthors

Delivery == INSTANCE DeliveryContract WITH
    sent <- {m \in Messages : queue[m].at # "unsent"},
    finished <- {r \in Requests : queue[r].at # "unsent" /\ (Triaged(r) \/ ~Exists(r))},
    aside <- {m \in Messages : queue[m].at = "archived"},
    gone <- {m \in Messages : queue[m].at \in {"deleted", "archived"}}

HoldsRow(w, r) == wk[w].pc \in {"claimed", "writing"} /\ wk[w].msg = r

\* Row locks and uncommitted drafts belong to a transaction that is open: no
\* crash, rollback or commit path leaves one behind to block the request.
LocksBelongToOpenTransactions ==
    \A r \in Requests :
        /\ \A w \in Workers : (rowLock[r] = w) <=> HoldsRow(w, r)
        /\ pending[r] = {st[s].reply : s \in {x \in Staff : HasInserted(x) /\ st[x].req = r}}

\* drafts.ts:40-62: two writers compute max + 1 without a lock, and still no
\* version is used twice and none is skipped.
DraftVersionsUniqueAndContiguous ==
    \A r \in Requests :
        /\ \A d, e \in drafts[r] : d.version = e.version => d = e
        /\ \A d \in drafts[r] : \A v \in 1..d.version : v \in Versions(drafts[r])

Newest(s) == s[Len(s)]

\* F12: a request is approved or rejected exactly as its newest audit row says,
\* and the reply the requester is shown is the one that row records.
ResolutionIsAudited ==
    \A r \in Requests :
        req[r].status \in RESOLVED_STATUSES =>
            /\ audit[r] # <<>>
            /\ Newest(audit[r]).after.status = req[r].status
            /\ req[r].status = "approved" => Newest(audit[r]).after.replyText = req[r].reply

\* staffActions.ts:26-29: the draft version an audit row names exists, is not
\* older than the one the actor had seen, and is the text that was published.
AuditCrossReferencesDrafts ==
    \A r \in Requests : \A i \in 1..Len(audit[r]) :
        LET a == audit[r][i] IN
        /\ a.before.draftVersion <= a.after.draftVersion
        /\ a.after.draftVersion # 0 => a.after.draftVersion \in Versions(drafts[r])
        /\ a.kind # "reject" => a.after.replyText \in drafts[r]

\* pipeline.py:10-19: what staff see as drafted has the model's reply as its
\* current draft, and needs_human the text that says why.
VerdictMatchesCurrentDraft ==
    \A r \in Requests :
        /\ req[r].status = "drafted" => LatestDraft(r).author = "llm"
        /\ req[r].status = "needs_human" => LatestDraft(r).author = "fallback"

\* A transaction that is rolled back, however it ends, leaves no trace: no
\* committed row is ever seen at 'triaging', and a request nobody has finished
\* working on is as the api wrote it.
NoHalfDoneTriage ==
    \A r \in Requests :
        /\ req[r].status # "triaging"
        /\ req[r].status = "received" => drafts[r] = {} /\ audit[r] = <<>>

\* consumer.py:155: a message is deleted only when its verdict is committed, or
\* the request has been purged since.
AckedOnlyWhenTriaged ==
    \A r \in Requests : queue[r].at = "deleted" => Triaged(r) \/ ~Exists(r)

\* consumer.py:131-152: no request is dead-lettered before the ceiling.
DeadLetteredOnlyAtCeiling ==
    \A r \in Requests : queue[r].at = "archived" => queue[r].read_ct >= MaxDelivery

\* The ceiling the code does enforce: each delivery above max_delivery_attempts
\* has been paid for by a crash or a timeout that ran out under a live worker.
ExtraDeliveriesArePaidByFaults ==
    \A m \in Messages : queue[m].read_ct <= MaxDelivery + faults

\* purge.ts:18-26: the cascade, and the foreign keys that fail every late
\* insert, leave nothing of a purged request behind.
NoOrphans ==
    \A r \in Requests :
        ~Exists(r) => drafts[r] = {} /\ audit[r] = <<>> /\ pending[r] = {}

\* requests.ts:93-122: a message is sent only after its row has committed, so
\* that whoever receives it finds the row (the purge takes the row of a demo org
\* once its intake is over), and the caller is told 201 only after the message
\* is durable.
IntakeIsDurableInOrder ==
    \A r \in Requests :
        /\ queue[r].at # "unsent" =>
              Exists(r) \/ (r \in DemoRequests /\ intake[r] \in {"accepted", "failed"})
        /\ intake[r] = "accepted" => queue[r].at # "unsent"

\* F12, ADR-0018: drafts and actions are append-only but for the purge.
HistoryIsAppendOnly ==
    [][\A r \in Requests :
          Exists(r)' =>
              /\ drafts[r] \subseteq drafts'[r]
              /\ Len(audit[r]) <= Len(audit'[r])
              /\ \A i \in 1..Len(audit[r]) : audit'[r][i] = audit[r][i]]_vars

\* A request the caller was given 201 for is triaged, dead-lettered or purged,
\* whatever crashes, timeouts, lock waits and deadlocks it meets.
AcceptedIsSettled ==
    \A r \in Requests :
        intake[r] = "accepted" ~> \/ Triaged(r)
                                  \/ queue[r].at = "archived"
                                  \/ ~Exists(r)

\* No staff call waits for ever, on a row lock, an index or a deadlock.
StaffCallsEnd == \A s \in Staff : st[s].pc # "idle" ~> st[s].pc = "idle"

\* staffQueue.ts:37-39 and PublicPage: all the machinery above implements a page
\* that shows a reply only by a logged decision of a member of staff.
PublicPageSpec == Public!PageSpec

\* queue/index.ts Queue and DeliveryContract: whatever dies or is delivered
\* twice, pgmq and the consumer loop lose no message.
PgmqDelivers == Delivery!ContractSpec

-----------------------------------------------------------------------------
\* What comments in the repository say of the program, and the program does not
\* do.  Each is refuted by a run of its own.

\* staffActions.ts:103-104: approve, edit and reject are terminal.
ResolvedIsTerminal ==
    [][\A r \in Requests :
          req[r].status \in RESOLVED_STATUSES /\ Exists(r)' =>
              req'[r].status = req[r].status]_vars

\* staffActions.ts:110-112: a rejected request is not approved over.
RejectedIsNotApprovedOver ==
    [][\A r \in Requests :
          req[r].status = "rejected" => req'[r].status # "approved"]_vars
=============================================================================
