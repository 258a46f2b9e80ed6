---------------------------- MODULE RequestStore ----------------------------
(***************************************************************************)
(* The three Postgres tables a request lives in, and the part of Postgres  *)
(* the application relies on to keep them consistent.                      *)
(*                                                                         *)
(*   req[r]      the committed row of requests for r (status, reply_text); *)
(*               status "absent" is no row                                 *)
(*   drafts[r]   the committed rows of drafts for r                        *)
(*   audit[r]    the committed rows of actions for r, in commit order      *)
(*   rowLock[r]  the worker whose open transaction has updated row r, or   *)
(*               NoOne: every other UPDATE or DELETE of the row waits      *)
(*   pending[r]  the drafts inserted by open staff transactions: invisible *)
(*               to everyone else, but a second insert of the same version *)
(*               waits for the first transaction to end (unique index),    *)
(*               and a DELETE of the parent row waits for its key-share    *)
(*               lock (foreign key)                                        *)
(*                                                                         *)
(* Isolation is READ COMMITTED, the default both pools run with: a SELECT  *)
(* sees what is committed when that statement starts and takes no lock.    *)
(***************************************************************************)
EXTENDS Naturals, Sequences

CONSTANTS
    Requests,   \* ids of requests
    Workers,    \* worker processes (two overlap during a rolling update)
    Staff,      \* concurrent staff server actions
    NoOne,      \* rowLock of a row nobody has locked
    NoReply     \* reply_text IS NULL

\* Who wrote a draft: the model's reply, the pipeline's "needs a human" text,
\* or a member of staff (drafts.model = "staff").
Authors == {"llm", "fallback"} \cup Staff

\* A row of drafts. A body is known by who wrote it as which version.
Drafts == [version : Nat \ {0}, author : Authors]

\* db/src/schema/enums.ts requestStatus, and "absent" for no row.
Statuses == {"absent", "received", "triaging", "drafted", "needs_human",
             "approved", "rejected"}

RESOLVED_STATUSES == {"approved", "rejected"}

\* resolved_at is set wherever status becomes resolved and is never read.
Rows == [status : Statuses, reply : Drafts \cup {NoReply}]

\* staffActions.ts ActionSnapshot; draftVersion 0 is null (no draft yet).
ActionSnapshots == [status : Statuses, replyText : Drafts \cup {NoReply},
                    draftVersion : Nat]

ActionKinds == {"approve", "edit", "reject"}

Actions == [actor : Staff, kind : ActionKinds,
            before : ActionSnapshots, after : ActionSnapshots]

ASSUME StoreAssumption ==
    /\ NoOne \notin Workers
    /\ NoReply \notin Drafts
    /\ {"llm", "fallback"} \cap Staff = {}

VARIABLES req, drafts, audit, rowLock, pending

storeVars == <<req, drafts, audit, rowLock, pending>>

NoRow == [status |-> "absent", reply |-> NoReply]

StoreInit ==
    /\ req = [r \in Requests |-> NoRow]
    /\ drafts = [r \in Requests |-> {}]
    /\ audit = [r \in Requests |-> <<>>]
    /\ rowLock = [r \in Requests |-> NoOne]
    /\ pending = [r \in Requests |-> {}]

StoreTypeOK ==
    /\ req \in [Requests -> Rows]
    /\ drafts \in [Requests -> SUBSET Drafts]
    /\ audit \in [Requests -> Seq(Actions)]
    /\ rowLock \in [Requests -> Workers \cup {NoOne}]
    /\ pending \in [Requests -> SUBSET Drafts]

-----------------------------------------------------------------------------
Exists(r) == req[r].status # "absent"

Versions(ds) == {d.version : d \in ds}

\* coalesce(max(version), 0)
LatestVersion(r) ==
    IF drafts[r] = {} THEN 0
    ELSE CHOOSE v \in Versions(drafts[r]) : \A x \in Versions(drafts[r]) : x <= v

\* Mutant: the unique constraint is dropped.
VersionFree_NoConstraint(r, v) == TRUE

\* unique(org_id, request_id, version): an insert of v goes through now.  It
\* fails for a committed v and waits for an uncommitted one.
VersionFree(r, v) == v \notin Versions(drafts[r]) \cup Versions(pending[r])

\* order by version desc limit 1
LatestDraft(r) == CHOOSE d \in drafts[r] : d.version = LatestVersion(r)

\* INSERT INTO requests: column defaults.
InsertRow(r) ==
    /\ req' = [req EXCEPT ![r] = [NoRow EXCEPT !.status = "received"]]
    /\ UNCHANGED <<drafts, audit, rowLock, pending>>

\* Mutant: 'triaging' is committed in a transaction of its own.
LockRow_Commits(r, w) ==
    /\ req' = [req EXCEPT ![r].status = "triaging"]
    /\ rowLock' = [rowLock EXCEPT ![r] = w]
    /\ UNCHANGED <<drafts, audit, pending>>

\* UPDATE requests in the transaction of w, which stays open.
LockRow(r, w) ==
    /\ rowLock[r] = NoOne
    /\ rowLock' = [rowLock EXCEPT ![r] = w]
    /\ UNCHANGED <<req, drafts, audit, pending>>

\* Mutant: a connection that is lost keeps its locks.
ReleaseRowsOf_Nothing(w) == UNCHANGED storeVars

\* ROLLBACK of the transactions in which worker w holds row locks.
ReleaseRowsOf(w) ==
    /\ rowLock' = [r \in Requests |-> IF rowLock[r] = w THEN NoOne ELSE rowLock[r]]
    /\ UNCHANGED <<req, drafts, audit, pending>>

\* Mutant: the delete does not wait for the foreign key's share lock.
RowFree_IgnoresKeyShare(r) == rowLock[r] = NoOne

RowFree(r) == rowLock[r] = NoOne /\ pending[r] = {}

\* DELETE FROM requests; drafts and actions follow by ON DELETE CASCADE. It
\* waits for every open transaction that has locked one of the rows.
DeleteRows(S) ==
    /\ \A r \in S : RowFree(r)
    /\ req' = [r \in Requests |-> IF r \in S THEN NoRow ELSE req[r]]
    /\ drafts' = [r \in Requests |-> IF r \in S THEN {} ELSE drafts[r]]
    /\ audit' = [r \in Requests |-> IF r \in S THEN <<>> ELSE audit[r]]
    /\ UNCHANGED <<rowLock, pending>>
=============================================================================
