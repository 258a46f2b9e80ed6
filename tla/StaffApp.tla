------------------------------ MODULE StaffApp ------------------------------
(***************************************************************************)
(* The staff side of the web app on top of FrontDesk: who may call an      *)
(* action, and what the request page and the eval export read while the    *)
(* rows change underneath them.                                            *)
(*                                                                         *)
(* Staff are the server actions the app can have in progress at once, each *)
(* made by the member Caller names: a member has as many as they have tabs *)
(* and POSTs under way, and nothing keeps those apart.                     *)
(*                                                                         *)
(*   members  the members with a session and a row in org_members          *)
(*   grace    history: the calls in progress when their member was removed *)
(*   late     history: rows s has written since its member was removed     *)
(*   started  every transaction of an action that wrote a row or may yet   *)
(*            do so, in the order of created_at: now() is the time the     *)
(*            transaction began, not the time it committed                 *)
(*   view     one reader: a request page before a member of staff, or the  *)
(*            eval export.  Each reads with one SELECT per table, and READ *)
(*            COMMITTED gives every SELECT a snapshot of its own; "acting" *)
(*            is a page whose form has been submitted.                     *)
(*                                                                         *)
(* Readers write nothing and never meet, so one of them is every one.      *)
(***************************************************************************)
EXTENDS FrontDesk, SequencesExt, Subsequences

CONSTANTS
    Members,
    Caller,  \* per element of Staff: the member who makes the call
    MaxCalls \* bound: calls in progress and rows they have written

ASSUME CallerAssumption ==
    /\ Caller \in [Staff -> Members]
    /\ MaxCalls \in Nat

VARIABLES members, grace, late, started, view

appVars == <<members, grace, late, started, view>>

Kinds == {"none", "detail", "export"}

\* What a reader keeps of a row of actions.
Listed(a) == [kind |-> a.kind, named |-> a.before.draftVersion, status |-> a.after.status]

NoView == [kind |-> "none", by |-> NoOne, req |-> NoOne, done |-> 0,
           status |-> "absent", versions |-> {}, actions |-> <<>>,
           acting |-> FALSE]

\* An action's row in created_at order; row 0 is a transaction still open.
Open(s) == [by |-> s, req |-> NoOne, row |-> 0]

InCall(s) == \E i \in DOMAIN started : started[i] = Open(s)

AppInit ==
    /\ Init
    /\ members = Members
    /\ grace = {}
    /\ late = [s \in Staff |-> 0]
    /\ started = <<>>
    /\ view = NoView

-----------------------------------------------------------------------------
\* Membership

\* Mutant: the membership of a session is cached.
MembershipOf_Cached(s) == TRUE

\* resolveAuthState: looked up again for every page and for every action.
MembershipOf(s) == Caller[s] \in members

\* Somebody deletes the org_members row; the session stays.
removeMember(m) ==
    /\ m \in members
    /\ members' = members \ {m}
    /\ grace' = grace \cup {s \in Staff : Caller[s] = m /\ InCall(s)}
    /\ UNCHANGED <<vars, late, started, view>>

\* Mutant: the history is read before the row.
SelectOrder_ActionsFirst(kind) ==
    IF kind = "detail" THEN <<"actions", "requests", "drafts">> ELSE <<"actions", "drafts">>

\* Mutant: the export reads the drafts first.
SelectOrder_DraftsFirst(kind) ==
    IF kind = "detail" THEN <<"requests", "drafts", "actions">> ELSE <<"drafts", "actions">>

\* The SELECTs of getRequestDetail and of exportCandidates.  The export's first
\* joins actions with requests.
SelectOrder(kind) ==
    IF kind = "detail" THEN <<"requests", "drafts", "actions">> ELSE <<"actions", "drafts">>

\* What a reader has read in full.
Shown(kind) == view.kind = kind /\ view.done = Len(SelectOrder(kind))

\* The page's forms are hidden once the request it has read is resolved.
OffersActions == view.status \notin RESOLVED_STATUSES

\* The page's draft is the newest of the versions it has read.
ShowsDraft == view.versions # {}

ShowsInHistory(status) == \E i \in DOMAIN view.actions : view.actions[i].status = status

\* The first statement of an action, and the BEGIN of its transaction.  It is a
\* form on the page the caller has before them, or a POST that needs no page; s
\* is any call that is not in progress, of a member who may have others that are.
requireMembershipForAction(s) ==
    /\ MembershipOf(s)
    /\ ~InCall(s)
    /\ Len(started) < MaxCalls
    /\ started' = Append(started, Open(s))
    /\ \/ view' = view
       \/ /\ view.by = s /\ Shown("detail") /\ OffersActions
          /\ view' = [view EXCEPT !.acting = TRUE]
    /\ UNCHANGED <<vars, members, grace, late>>

\* "Request not found", or it is resolved already, or the connection is lost.
refused(s) ==
    /\ InCall(s)
    /\ st[s].pc = "idle"
    /\ started' = Kept(started, {i \in DOMAIN started : started[i] # Open(s)})
    /\ view' = IF view.acting /\ view.by = s THEN NoView ELSE view
    /\ UNCHANGED <<vars, members, grace, late>>

Ends(s) == st[s].pc # "idle" /\ st'[s].pc = "idle"

Writes(s) == Ends(s) /\ Len(audit'[st[s].req]) > Len(audit[st[s].req])

\* An entry of started after a step of FrontDesk: a commit gives it a row.
Now(e) ==
    IF e.row = 0 /\ Writes(e.by)
    THEN [by |-> e.by, req |-> st[e.by].req, row |-> Len(audit'[st[e.by].req])]
    ELSE e

\* A rollback and a purge leave nothing.
Remains(e) == IF e.row = 0 THEN ~Ends(e.by) ELSE req'[e.req].status # "absent"

\* What is left keeps the place its transaction began at.
StartedNext ==
    LET now == [i \in DOMAIN started |-> Now(started[i])]
    IN  Kept(now, {i \in DOMAIN now : Remains(now[i])})

\* Any step of the system below.  A call whose membership has been checked is
\* the only one that goes on to read the row; redirect("/app") or the error
\* page takes the place of the page it was made from.
System ==
    /\ Next
    /\ \A s \in Staff : st[s].pc = "idle" /\ st'[s].pc # "idle" => InCall(s)
    /\ started' = StartedNext
    /\ late' = [s \in Staff |-> IF Caller[s] \notin members /\ Writes(s) THEN late[s] + 1 ELSE late[s]]
    /\ view' = IF view.acting /\ Ends(view.by) THEN NoView ELSE view
    /\ UNCHANGED <<members, grace>>

-----------------------------------------------------------------------------
\* Readers

\* RequestDetailPage: a member asks for /app/[id].
openDetail(s, r) ==
    /\ view = NoView
    /\ MembershipOf(s)
    /\ view' = [NoView EXCEPT !.kind = "detail", !.by = s, !.req = r]
    /\ UNCHANGED <<vars, members, grace, late, started>>

\* pnpm eval:export, run by an operator.
openExport(r) ==
    /\ view = NoView
    /\ view' = [NoView EXCEPT !.kind = "export", !.req = r]
    /\ UNCHANGED <<vars, members, grace, late, started>>

closeView ==
    /\ view.kind # "none"
    /\ ~view.acting
    /\ view' = NoView
    /\ UNCHANGED <<vars, members, grace, late, started>>

RowsOf(r) == {i \in DOMAIN started : started[i].row > 0 /\ started[i].req = r}

\* created_at desc
NewestFirst(r) == Reverse(Kept(started, RowsOf(r)))

EXPORTED_KINDS == {"edit", "reject"}

Exported(rows) == {i \in DOMAIN rows : rows[i].kind \in EXPORTED_KINDS}

ActionsRead(r) ==
    LET newest == NewestFirst(r)
        rows == [i \in DOMAIN newest |-> Listed(audit[r][newest[i].row])]
    IN  IF view.kind = "detail" THEN rows
        ELSE Kept(Reverse(rows), Exported(Reverse(rows)))

\* One SELECT.  A page whose row is gone is a 404; an export without rows has
\* no drafts to look for, and an empty result either way.
select ==
    LET r == view.req
        table == SelectOrder(view.kind)[view.done + 1]
    IN
    /\ view.kind # "none"
    /\ view.done < Len(SelectOrder(view.kind))
    /\ view' = CASE table = "requests" /\ ~Exists(r) -> NoView
                 [] table = "requests" /\ Exists(r) ->
                      [view EXCEPT !.done = @ + 1, !.status = req[r].status]
                 [] table = "drafts" ->
                      [view EXCEPT !.done = @ + 1, !.versions = Versions(drafts[r])]
                 [] table = "actions" ->
                      [view EXCEPT !.done = @ + 1, !.actions = ActionsRead(r)]
    /\ UNCHANGED <<vars, members, grace, late, started>>

AppNext ==
    \/ System
    \/ \E m \in Members : removeMember(m)
    \/ \E s \in Staff : requireMembershipForAction(s) \/ refused(s)
    \/ \E s \in Staff, r \in Requests : openDetail(s, r)
    \/ \E r \in Requests : openExport(r)
    \/ closeView
    \/ select

AppSpec == AppInit /\ [][AppNext]_<<vars, appVars>>

-----------------------------------------------------------------------------
\* The request was purged while the reader read: no drafts were found any more.
PurgedMeanwhile == view.versions = {} /\ ~Exists(view.req)

\* [id]/page.tsx:165-168: where the page hides the action forms its history says
\* why, and where it shows a verdict of the pipeline there is a draft to act on,
\* although row, drafts and actions are read at three different moments.  Only a
\* purge between the SELECTs takes the history, or the drafts, from the page.
PageIsBacked ==
    Shown("detail") =>
        /\ ~OffersActions =>
              \/ ShowsInHistory(view.status)
              \/ view.actions = <<>> /\ ~Exists(view.req)
        /\ view.status \in {"drafted", "needs_human"} => ShowsDraft \/ PurgedMeanwhile

\* eval-export.ts:77-80: "the model draft is the drafts row at that version".
\* An example is written with the draft its action names, or, when a purge comes
\* between the two SELECTs, the examples of that request all go without
\* (model_reply null); never one with and one without.
ExportFindsDrafts ==
    Shown("export") =>
        \/ \A i \in DOMAIN view.actions :
              view.actions[i].named # 0 => view.actions[i].named \in view.versions
        \/ PurgedMeanwhile

\* auth-guard.ts:11-22: a removal takes effect on the very next request: what a
\* removed member still writes is by calls that were in progress, each once.
RemovedFinishesItsCalls ==
    \A s \in Staff : late[s] <= IF s \in grace THEN 1 ELSE 0

-----------------------------------------------------------------------------
\* What comments say and the program does not do.

\* eval-export.ts:44,78-79: before.draftVersion is the version the member of
\* staff was looking at.
RecordsWhatWasSeen ==
    [][\A s \in Staff :
          LET r == st[s].req IN
          Writes(s) /\ view.acting /\ view.by = s /\ view.req = r /\ st[s].kind \in EXPORTED_KINDS =>
              view.versions = 1..Newest(audit'[r]).before.draftVersion]_<<vars, appVars>>

\* requestDetail.ts:63: the history lists the newest action first.
NewestIsListedFirst ==
    \A r \in Requests :
        NewestFirst(r) # <<>> => NewestFirst(r)[1].row = Len(audit[r])
=============================================================================
