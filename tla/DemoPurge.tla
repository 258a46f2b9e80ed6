------------------------------ MODULE DemoPurge ------------------------------
(***************************************************************************)
(* The nightly retention job (db/src/purge.ts): for every demo org, select *)
(* a batch of requests older than the cutoff and delete it, one            *)
(* transaction per batch.  It looks at the age of a request and at nothing *)
(* else: a request may be in the queue, being triaged or being answered.   *)
(***************************************************************************)
EXTENDS RequestStore

CONSTANT DemoRequests   \* the requests of orgs with is_demo

ASSUME PurgeAssumption == DemoRequests \subseteq Requests

\* One batch.  Which of the rows are past the cutoff is not the job's choice.
purgeOrgRequests(batch) ==
    /\ batch # {}
    /\ \A r \in batch : Exists(r)
    /\ DeleteRows(batch)
=============================================================================
