---------------------------- MODULE TriageWorker ----------------------------
(***************************************************************************)
(* The worker's triage loop: consumer.py process_one and the transaction   *)
(* it runs (pipeline.py run_triage_pipeline).  A worker is one process; a  *)
(* rolling update runs two.                                                *)
(*                                                                         *)
(*   "down"      not running                                               *)
(*   "idle"      about to receive                                          *)
(*   "received"  holds a message, no transaction work done                 *)
(*   "claimed"   has updated the row to 'triaging': holds the row lock     *)
(*   "writing"   has written the verdict to the row and chosen the draft's *)
(*               version; the draft is not inserted yet                    *)
(*   "acking"    the transaction has committed, the ack is not sent        *)
(*   "failed"    the transaction raised, or its commit was never confirmed *)
(*                                                                         *)
(* status is the row's status inside the open transaction; nobody else     *)
(* sees it before CommitResult.                                            *)
(***************************************************************************)
EXTENDS RequestStore, Pgmq

CONSTANTS
    MaxDelivery,  \* max_delivery_attempts
    MaxFaults,    \* bound: crashes, lost commit replies, early timeouts
    NoMessage

ASSUME WorkerAssumption ==
    /\ MaxDelivery \in Nat \ {0}
    /\ MaxFaults \in Nat
    /\ Requests \subseteq Messages
    /\ NoMessage \notin Messages

VARIABLES
    wk,      \* per worker: pc, message, delivery attempt, open transaction
    faults   \* how many of the MaxFaults have happened

workerVars == <<wk, faults>>

\* Messages that are not of the committed contract; none names a request.
Malformed == Messages \ Requests

WorkerSteps == {"down", "idle", "received", "claimed", "writing", "acking",
                "failed"}

WorkerStates == [pc : WorkerSteps, msg : Messages \cup {NoMessage},
                 attempt : Nat, status : Statuses, version : Nat]

Fresh(step) == [pc |-> step, msg |-> NoMessage, attempt |-> 0,
                status |-> "absent", version |-> 0]

WorkerInit ==
    /\ wk = [w \in Workers |-> Fresh("idle")]
    /\ faults = 0

WorkerTypeOK ==
    /\ wk \in [Workers -> WorkerStates]
    /\ faults \in 0..MaxFaults

Goto(w, step) == wk' = [wk EXCEPT ![w].pc = step]

Done(w) == wk' = [wk EXCEPT ![w] = Fresh("idle")]

Fault == faults < MaxFaults /\ faults' = faults + 1

\* A worker of whatever age is busy with the latest read of m.
HoldsLease(w, m) ==
    /\ wk[w].msg = m
    /\ wk[w].attempt = queue[m].read_ct

-----------------------------------------------------------------------------
Start(w) ==
    /\ wk[w].pc = "down"
    /\ Goto(w, "idle")
    /\ UNCHANGED <<faults, queue, storeVars>>

Receive(w, m) ==
    /\ wk[w].pc = "idle"
    /\ receive(m)
    /\ wk' = [wk EXCEPT ![w] = [Fresh("received") EXCEPT
                                   !.msg = m, !.attempt = queue[m].read_ct + 1]]
    /\ UNCHANGED <<faults, storeVars>>

\* validate_triage_message raises: dead-letter at once, never retry.
RejectMalformed(w) ==
    /\ wk[w].pc = "received"
    /\ wk[w].msg \in Malformed
    /\ dead_letter(wk[w].msg)
    /\ Done(w)
    /\ UNCHANGED <<faults, storeVars>>

\* begin; update requests set status = 'triaging': no look at the old status.
Claim(w) ==
    LET r == wk[w].msg IN
    /\ wk[w].pc = "received"
    /\ r \in Requests
    /\ Exists(r)
    /\ LockRow(r, w)
    /\ wk' = [wk EXCEPT ![w].pc = "claimed", ![w].status = "triaging"]
    /\ UNCHANGED <<faults, queue>>

\* The update matches no row and run_triage_pipeline raises RequestNotFound.
RequestNotFound(w) ==
    /\ wk[w].pc = "received"
    /\ wk[w].msg \in Requests
    /\ ~Exists(wk[w].msg)
    /\ Goto(w, "failed")
    /\ UNCHANGED <<faults, queue, storeVars>>

Rollback(w) ==
    /\ ReleaseRowsOf(w)
    /\ wk' = [wk EXCEPT ![w].pc = "failed", ![w].status = "absent",
                        ![w].version = 0]

\* Anything the pipeline calls raises: the model, the embedder, Postgres.
PipelineRaises(w) ==
    /\ wk[w].pc = "claimed"
    /\ Rollback(w)
    /\ UNCHANGED <<faults, queue>>

\* Mutant: max(version) without the + 1.
_next_draft_version_NoIncrement(r) == LatestVersion(r)

_next_draft_version(r) == LatestVersion(r) + 1

\* The verdict: 'drafted' with the model's reply, or 'needs_human' when no
\* chunk was retrieved or the citations did not validate.
_write_result(w, verdict) ==
    /\ wk[w].pc = "claimed"
    /\ wk' = [wk EXCEPT ![w].pc = "writing", ![w].status = verdict,
                        ![w].version = _next_draft_version(wk[w].msg)]
    /\ UNCHANGED <<faults, queue, storeVars>>

\* Mutant: the uncited text of the model is kept when it did not validate.
VerdictDraft_KeepsModelText(w) == [version |-> wk[w].version, author |-> "llm"]

VerdictDraft(w) ==
    [version |-> wk[w].version,
     author |-> IF wk[w].status = "drafted" THEN "llm" ELSE "fallback"]

\* insert into drafts; commit.  The insert waits for an open transaction that
\* has inserted the same version.
InsertAndCommit(w) ==
    LET r == wk[w].msg IN
    /\ wk[w].pc = "writing"
    /\ VersionFree(r, wk[w].version)
    /\ drafts' = [drafts EXCEPT ![r] = @ \cup {VerdictDraft(w)}]
    /\ req' = [req EXCEPT ![r].status = wk[w].status]
    /\ rowLock' = [rowLock EXCEPT ![r] = NoOne]
    /\ UNCHANGED <<audit, pending, queue>>

CommitResult(w) ==
    /\ InsertAndCommit(w)
    /\ Goto(w, "acking")
    /\ UNCHANGED faults

\* The server commits and the connection dies before it says so: asyncpg
\* raises and the consumer takes the message for a failed one.
CommitReplyLost(w) ==
    /\ InsertAndCommit(w)
    /\ Fault
    /\ wk' = [wk EXCEPT ![w].pc = "failed", ![w].status = "absent",
                        ![w].version = 0]

\* drafts_org_id_request_id_version_unique
DuplicateVersion(w) ==
    /\ wk[w].pc = "writing"
    /\ wk[w].version \in Versions(drafts[wk[w].msg])
    /\ Rollback(w)
    /\ UNCHANGED <<faults, queue>>

Ack(w) ==
    /\ wk[w].pc = "acking"
    /\ ack(wk[w].msg)
    /\ Done(w)
    /\ UNCHANGED <<faults, storeVars>>

\* Mutant: one delivery short of the ceiling.
AtCeiling_OneEarly(w) == wk[w].attempt + 1 >= MaxDelivery

\* Mutant: > for >=.
AtCeiling_OneLate(w) == wk[w].attempt > MaxDelivery

AtCeiling(w) == wk[w].attempt >= MaxDelivery

NackOrDeadLetter(w) ==
    /\ wk[w].pc = "failed"
    /\ IF AtCeiling(w)
       THEN dead_letter(wk[w].msg)
       ELSE nack(wk[w].msg)
    /\ Done(w)
    /\ UNCHANGED <<faults, storeVars>>

\* The process dies, or the other loop's failure cancels this one: the open
\* transaction is rolled back and the queue is told nothing.  A graceful stop
\* (SIGTERM, acted on between messages) is this step from "idle".
Crash(w) ==
    /\ wk[w].pc # "down"
    /\ Fault
    /\ wk' = [wk EXCEPT ![w] = Fresh("down")]
    /\ ReleaseRowsOf(w)
    /\ UNCHANGED queue

\* The visibility timeout of m runs out.  It is a fault when a worker is still
\* busy with that read: the pipeline took longer than the timeout.
LeaseRunsOut(m) ==
    /\ VisibilityTimeout(m)
    /\ IF \E w \in Workers : HoldsLease(w, m) THEN Fault ELSE UNCHANGED faults
    /\ UNCHANGED <<wk, storeVars>>

WorkerStep(w) ==
    \/ Start(w)
    \/ \E m \in Messages : Receive(w, m)
    \/ RejectMalformed(w)
    \/ Claim(w) \/ RequestNotFound(w)
    \/ \E verdict \in {"drafted", "needs_human"} : _write_result(w, verdict)
    \/ CommitResult(w) \/ DuplicateVersion(w)
    \/ Ack(w) \/ NackOrDeadLetter(w)

WorkerTrouble(w) == PipelineRaises(w) \/ CommitReplyLost(w) \/ Crash(w)

WorkerNext ==
    \/ \E w \in Workers : WorkerStep(w) \/ WorkerTrouble(w)
    \/ \E m \in Messages : LeaseRunsOut(m)
=============================================================================
