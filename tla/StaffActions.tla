---------------------------- MODULE StaffActions ----------------------------
(***************************************************************************)
(* The staff server actions of the web app: approve, edit-then-approve and *)
(* reject.  Each is one READ COMMITTED transaction of several statements   *)
(* that reads the row, checks the status it read, and writes without       *)
(* looking again.  A member of Staff is one call in progress:              *)
(*                                                                         *)
(*   "idle"        no transaction                                          *)
(*   "statusRead"  has read the row and found it not resolved              *)
(*   "stateRead"   has read the latest draft version too                   *)
(*   "ready"       approve: has read the draft to publish                  *)
(*                 edit: has inserted its draft, uncommitted               *)
(*                                                                         *)
(* The last UPDATE, the audit row and the commit are one step: between     *)
(* them the transaction holds the row lock and waits for nobody.           *)
(***************************************************************************)
EXTENDS RequestStore

VARIABLE st

staffVars == <<st>>

StaffSteps == {"idle", "statusRead", "stateRead", "ready"}

StaffStates ==
    [pc : StaffSteps, kind : ActionKinds, req : Requests \cup {NoOne},
     status : Statuses, replyText : Drafts \cup {NoReply},
     latest : Nat, reply : Drafts \cup {NoReply}]

NotActing == [pc |-> "idle", kind |-> "approve", req |-> NoOne,
              status |-> "absent", replyText |-> NoReply,
              latest |-> 0, reply |-> NoReply]

StaffInit == st = [s \in Staff |-> NotActing]

StaffTypeOK == st \in [Staff -> StaffStates]

HasInserted(s) == st[s].pc = "ready" /\ st[s].kind = "edit"

\* pending once the transaction of s has ended.
PendingWithout(s) ==
    [r \in Requests |-> IF HasInserted(s) /\ r = st[s].req
                        THEN pending[r] \ {st[s].reply} ELSE pending[r]]

-----------------------------------------------------------------------------
\* loadCurrentState, first statement, and assertNotResolved.  A missing or a
\* resolved request ends the call with nothing written.
loadRow(s, r, kind) ==
    /\ st[s].pc = "idle"
    /\ Exists(r)
    /\ req[r].status \notin RESOLVED_STATUSES
    /\ st' = [st EXCEPT ![s] = [NotActing EXCEPT
                 !.pc = "statusRead", !.kind = kind, !.req = r,
                 !.status = req[r].status, !.replyText = req[r].reply]]
    /\ UNCHANGED storeVars

\* loadCurrentState, second statement.
loadLatestVersion(s) ==
    /\ st[s].pc = "statusRead"
    /\ st' = [st EXCEPT ![s].pc = "stateRead",
                        ![s].latest = LatestVersion(st[s].req)]
    /\ UNCHANGED storeVars

\* approve reads the latest draft again, this time with its body.
readDraftToApprove(s) ==
    /\ st[s].pc = "stateRead"
    /\ st[s].kind = "approve"
    /\ drafts[st[s].req] # {}
    /\ st' = [st EXCEPT ![s].pc = "ready", ![s].reply = LatestDraft(st[s].req)]
    /\ UNCHANGED storeVars

EditedDraft(s) == [version |-> st[s].latest + 1, author |-> s]

\* edit inserts version latest + 1.  It waits for another open insert of that
\* version, and fails (see Abort) when the version is committed already or
\* the request is gone.
insertEditedDraft(s) ==
    LET r == st[s].req
        d == EditedDraft(s)
    IN
    /\ st[s].pc = "stateRead"
    /\ st[s].kind = "edit"
    /\ Exists(r)
    /\ VersionFree(r, d.version)
    /\ pending' = [pending EXCEPT ![r] = @ \cup {d}]
    /\ st' = [st EXCEPT ![s].pc = "ready", ![s].reply = d]
    /\ UNCHANGED <<req, drafts, audit, rowLock>>

Before(s) == [status |-> st[s].status, replyText |-> st[s].replyText,
              draftVersion |-> st[s].latest]

After(s) ==
    IF st[s].kind = "reject"
    THEN [status |-> "rejected", replyText |-> NoReply,
          draftVersion |-> st[s].latest]
    ELSE [status |-> "approved", replyText |-> st[s].reply,
          draftVersion |-> st[s].reply.version]

ActionRow(s) == [actor |-> s, kind |-> st[s].kind,
                 before |-> Before(s), after |-> After(s)]

\* Mutant: one audit row per request.
recordAction_KeepsLast(log, row) == <<row>>

\* Mutant: an edit is not recorded.
recordAction_NotForEdit(log, row) ==
    IF row.kind = "edit" THEN log ELSE Append(log, row)

recordAction(log, row) == Append(log, row)

\* Mutant: edit changes reply_text and adds no draft.
CommittedDrafts_NoEdit(s, ds) == ds

CommittedDrafts(s, ds) == IF st[s].kind = "edit" THEN ds \cup {st[s].reply} ELSE ds

\* Mutant: coalesce(reply_text, new reply).
ResolvedRow_KeepsFirstReply(s, row) ==
    [row EXCEPT !.status = After(s).status,
                !.reply = IF st[s].kind = "reject" \/ @ # NoReply THEN @ ELSE st[s].reply]

\* reject leaves reply_text as it is.
ResolvedRow(s, row) ==
    [row EXCEPT !.status = After(s).status,
                !.reply = IF st[s].kind = "reject" THEN @ ELSE st[s].reply]

ReadyToWrite(s) ==
    \/ st[s].pc = "ready"
    \/ st[s].pc = "stateRead" /\ st[s].kind = "reject"

\* update requests (waits for the row lock); insert into actions; commit.
resolveAndRecord(s) ==
    LET r == st[s].req IN
    /\ ReadyToWrite(s)
    /\ Exists(r)
    /\ rowLock[r] = NoOne
    /\ req' = [req EXCEPT ![r] = ResolvedRow(s, @)]
    /\ audit' = [audit EXCEPT ![r] = recordAction(@, ActionRow(s))]
    /\ drafts' = [drafts EXCEPT ![r] = CommittedDrafts(s, @)]
    /\ pending' = PendingWithout(s)
    /\ st' = [st EXCEPT ![s] = NotActing]
    /\ UNCHANGED rowLock

\* Mutant: the insert survives the rollback.
RollbackStaff_KeepsInsert(s) ==
    /\ st' = [st EXCEPT ![s] = NotActing]
    /\ UNCHANGED storeVars

RollbackStaff(s) ==
    /\ st' = [st EXCEPT ![s] = NotActing]
    /\ pending' = PendingWithout(s)
    /\ UNCHANGED <<req, drafts, audit, rowLock>>

\* Mutant: the insert of a version that is taken waits instead of failing.
InsertRefused_NoViolation(s) == ~Exists(st[s].req)

\* Unique violation, or foreign key violation when the request was purged.
InsertRefused(s) ==
    \/ ~Exists(st[s].req)
    \/ EditedDraft(s).version \in Versions(drafts[st[s].req])

\* A statement of s cannot succeed any more: no draft to approve, the version
\* is taken, or the request was purged (foreign key).
CannotFinish(s) ==
    \/ st[s].pc = "stateRead" /\ st[s].kind = "approve" /\ drafts[st[s].req] = {}
    \/ st[s].pc = "stateRead" /\ st[s].kind = "edit" /\ InsertRefused(s)
    \/ ReadyToWrite(s) /\ ~Exists(st[s].req)

actionFails(s) ==
    /\ CannotFinish(s)
    /\ RollbackStaff(s)

\* The web process dies or loses its connection in mid-transaction.
Abort(s) ==
    /\ st[s].pc # "idle"
    /\ RollbackStaff(s)

\* One call already in progress goes on.
StaffStep(s) ==
    \/ loadLatestVersion(s) \/ readDraftToApprove(s) \/ insertEditedDraft(s)
    \/ resolveAndRecord(s) \/ actionFails(s)

StaffNext ==
    \E s \in Staff :
        \/ \E r \in Requests, kind \in ActionKinds : loadRow(s, r, kind)
        \/ StaffStep(s)
        \/ Abort(s)
=============================================================================
