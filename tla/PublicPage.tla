----------------------------- MODULE PublicPage -----------------------------
(***************************************************************************)
(* What anybody may see of a request on /t/<token>, with no queue, worker, *)
(* lock or transaction in sight.  A page shows a reply only by a decision  *)
(* that is logged, with that reply, in the same step; triage takes it from *)
(* "Received" to "In review" and never shows anything else; a purged page  *)
(* never comes back.                                                       *)
(*                                                                         *)
(* Retriage is the one step nobody would ask for: a page that shows a      *)
(* decision goes back to "In review" without a decision.  The program can  *)
(* do it, so the promise has to include it.                                *)
(***************************************************************************)
EXTENDS Naturals, Sequences

CONSTANTS Requests, Bodies, NoBody

VARIABLES page, decisions

pageVars == <<page, decisions>>

Blank(kind) == [kind |-> kind, body |-> NoBody]

PageInit ==
    /\ page = [r \in Requests |-> Blank("none")]
    /\ decisions = [r \in Requests |-> <<>>]

Online(r) == page[r].kind \in {"Received", "In review", "approved", "Reviewed"}

Submit(r) ==
    /\ page[r].kind = "none"
    /\ page' = [page EXCEPT ![r] = Blank("Received")]
    /\ UNCHANGED decisions

Triage(r) ==
    /\ page[r].kind = "Received"
    /\ page' = [page EXCEPT ![r] = Blank("In review")]
    /\ UNCHANGED decisions

Retriage(r) ==
    /\ Online(r) /\ page[r].kind # "Received"
    /\ page' = [page EXCEPT ![r] = Blank("In review")]
    /\ UNCHANGED decisions

Answer(r) ==
    /\ Online(r)
    /\ page'[r].kind = "approved"
    /\ page'[r].body \in Bodies
    /\ page' = [page EXCEPT ![r] = page'[r]]
    /\ decisions' = [decisions EXCEPT ![r] = Append(@, page'[r].body)]

Decline(r) ==
    /\ Online(r)
    /\ page' = [page EXCEPT ![r] = Blank("Reviewed")]
    /\ decisions' = [decisions EXCEPT ![r] = Append(@, NoBody)]

Remove(batch) ==
    /\ \A r \in batch : Online(r)
    /\ page' = [r \in Requests |-> IF r \in batch THEN Blank("gone") ELSE page[r]]
    /\ decisions' = [r \in Requests |-> IF r \in batch THEN <<>> ELSE decisions[r]]

PageNext ==
    \/ \E r \in Requests : Submit(r) \/ Triage(r) \/ Retriage(r) \/ Answer(r) \/ Decline(r)
    \/ \E batch \in SUBSET Requests : Remove(batch)

PageSpec == PageInit /\ [][PageNext]_pageVars
=============================================================================
