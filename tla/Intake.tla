------------------------------- MODULE Intake -------------------------------
(***************************************************************************)
(* POST /api/v1/orgs/:slug/requests after its input has been accepted: the *)
(* row is inserted and committed, then the triage message is sent, then    *)
(* the caller gets 201 with the tracking url.  The two writes are not one  *)
(* transaction, so the handler can die, or the send can fail, in between.  *)
(* Refused calls (400, 401, 403, 404) change no state and take no step.    *)
(***************************************************************************)
EXTENDS RequestStore, Pgmq

VARIABLE intake

intakeVars == <<intake>>

IntakeSteps == {"none", "inserted", "queued", "accepted", "failed"}

IntakeInit == intake = [r \in Requests |-> "none"]

IntakeTypeOK == intake \in [Requests -> IntakeSteps]

\* The forOrg() transaction that inserts the row, committed.
insertRequest(r) ==
    /\ intake[r] = "none"
    /\ intake' = [intake EXCEPT ![r] = "inserted"]
    /\ InsertRow(r)
    /\ UNCHANGED queue

\* Mutant: the message is sent before the row is inserted.
enqueueRequest_First(r) ==
    /\ intake[r] = "none"
    /\ intake' = [intake EXCEPT ![r] = "inserted"]
    /\ send(r)
    /\ UNCHANGED storeVars

enqueueRequest(r) ==
    /\ intake[r] = "inserted"
    /\ intake' = [intake EXCEPT ![r] = "queued"]
    /\ send(r)
    /\ UNCHANGED storeVars

reply201(r) ==
    /\ intake[r] = "queued"
    /\ intake' = [intake EXCEPT ![r] = "accepted"]
    /\ UNCHANGED <<storeVars, queue>>

\* queue.send throws, or the api process dies before it replies.
intakeFails(r) ==
    /\ intake[r] \in {"inserted", "queued"}
    /\ intake' = [intake EXCEPT ![r] = "failed"]
    /\ UNCHANGED <<storeVars, queue>>

IntakeNext ==
    \E r \in Requests :
        insertRequest(r) \/ enqueueRequest(r) \/ reply201(r) \/ intakeFails(r)
=============================================================================
