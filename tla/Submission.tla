----------------------------- MODULE Submission -----------------------------
(***************************************************************************)
(* A request on its way in: the public form and its server action, or an   *)
(* API client, and the admission of POST /api/v1/orgs/:slug/requests up to *)
(* the row it inserts.  A client wants one request answered and tries      *)
(* again when it is shown an error; slug is the org it addresses.          *)
(*                                                                         *)
(*   "form"      nothing sent, or an error is shown                        *)
(*   "posted"    the api has the call                                      *)
(*   "admitted"  it is one that org may be sent                            *)
(*   "inserted"  its row is committed                                      *)
(*   "queued"    its message is sent                                       *)
(*   "tracking"  201: the client is on /t/<token>                          *)
(*                                                                         *)
(* A client that is shown an error because the connection broke does not   *)
(* stop the api's handler of that call: behind has those handlers, which   *)
(* may go on, at their own pace, to the row the client has given up.       *)
(***************************************************************************)
EXTENDS DemoTables

CONSTANTS
    Visitors,       \* people with the public form
    ApiClients,     \* programs with an API key
    KeyOrg          \* KeyOrg[c]: the org the key of c belongs to

Clients == Visitors \cup ApiClients

ASSUME ClientsAssumption ==
    /\ Visitors \cap ApiClients = {}
    /\ KeyOrg \in [ApiClients -> Orgs]

VARIABLES
    client,     \* client[c]: [pc, slug, org, rows]; rows counts the rows inserted for c
    turnstile,  \* turnstile[c]: the form's token is "none", "solved" or "spent"
    revoked,    \* clients whose key has been revoked
    behind      \* handlers without a client: [by, nr, pc, org]

submissionVars == <<client, turnstile, revoked, behind>>

SubmissionInit ==
    /\ client = [c \in Clients |-> [pc |-> "form", slug |-> DemoOrg, org |-> DemoOrg, rows |-> 0]]
    /\ turnstile = [c \in Visitors |-> "none"]
    /\ revoked = {} /\ behind = {}

\* The widget is solved for the next submission; after an error that takes a new
\* page, as Cloudflare accepts a token once.
solveTurnstile(c) ==
    /\ client[c].pc = "form"
    /\ turnstile[c] # "solved"
    /\ turnstile' = [turnstile EXCEPT ![c] = "solved"]
    /\ UNCHANGED <<tables, client, revoked, behind>>

\* Mutant: the button stays enabled while a submission is pending.
NotPending_Always(c) == client[c].pc # "tracking"

\* PublicForm: disabled={pending}.
NotPending(c) == client[c].pc = "form"

\* PublicFormPage: a 404 for a slug without an org.
FormIsServed(slug) == HasOrg(slug)

\* Without a token the action answers by itself.
submitPublicRequest(c, slug) ==
    /\ NotPending(c)
    /\ FormIsServed(slug)
    /\ turnstile[c] # "none"
    /\ client' = [client EXCEPT ![c].pc = "posted", ![c].slug = slug]
    /\ UNCHANGED <<tables, turnstile, revoked, behind>>

postWithKey(c, slug) ==
    /\ client[c].pc = "form"
    /\ client' = [client EXCEPT ![c].pc = "posted", ![c].slug = slug]
    /\ UNCHANGED <<tables, turnstile, revoked, behind>>

\* A refusal, or a failure, the client is shown as an error.
showError(c) == client' = [client EXCEPT ![c].pc = "form"]

admit(c, org) == client' = [client EXCEPT ![c].pc = "admitted", ![c].org = org]

\* Handlers that hold the token of c's form unverified.
Unverified(c) == {h \in behind : h.by = c /\ h.pc = "posted"}

\* verifyTurnstile spends the token; it may say no to a good one.  Whoever else
\* has been posted with it is refused.
verifyForm(c) ==
    /\ client[c].pc = "posted"
    /\ turnstile' = [turnstile EXCEPT ![c] = "spent"]
    /\ behind' = behind \ Unverified(c)
    /\ \/ turnstile[c] = "solved" /\ HasOrg(client[c].slug) /\ admit(c, client[c].slug)
       \/ showError(c)
    /\ UNCHANGED <<tables, revoked>>

\* The key resolves, and to the org of the slug.
KeyOpens(c, slug) == c \notin revoked /\ HasOrg(slug) /\ KeyOrg[c] = slug

verifyKey(c) ==
    /\ client[c].pc = "posted"
    /\ IF KeyOpens(c, client[c].slug) THEN admit(c, KeyOrg[c]) ELSE showError(c)
    /\ UNCHANGED <<tables, turnstile, revoked, behind>>

revokeKey(c) ==
    /\ c \notin revoked
    /\ revoked' = revoked \cup {c}
    /\ UNCHANGED <<tables, client, turnstile, behind>>

\* FrontDesk's Intake models this and what follows with the queue and triage.
insertSubmission(c) ==
    /\ client[c].pc = "admitted"
    /\ requests' = Append(requests, [id |-> <<c, client[c].rows + 1>>,
                                     org |-> client[c].org, by |-> c])
    /\ client' = [client EXCEPT ![c].pc = "inserted", ![c].rows = @ + 1]
    /\ UNCHANGED <<settings, owners, documents, drafts, actions, turnstile, revoked, behind>>

enqueueSubmission(c) ==
    /\ client[c].pc = "inserted"
    /\ client' = [client EXCEPT ![c].pc = "queued"]
    /\ UNCHANGED <<tables, turnstile, revoked, behind>>

\* redirect(trackingUrl)
redirect(c) ==
    /\ client[c].pc = "queued"
    /\ client' = [client EXCEPT ![c].pc = "tracking"]
    /\ UNCHANGED <<tables, turnstile, revoked, behind>>

\* The handler of c's call can still come to a row.
MayGoOn(c) ==
    \/ client[c].pc = "admitted"
    \/ client[c].pc = "posted" /\ (c \in Visitors => turnstile[c] = "solved")

\* The api dies, the send fails or the connection is lost: "Something went wrong.
\* Please try again."  The handler is left behind, the nr-th to be so (one that
\* has died takes no step any more).
callFails(c, nr) ==
    /\ client[c].pc \in {"posted", "admitted", "inserted", "queued"}
    /\ showError(c)
    /\ behind' = IF MayGoOn(c)
                 THEN behind \cup {[by |-> c, nr |-> nr, pc |-> client[c].pc,
                                    org |-> client[c].slug]}
                 ELSE behind
    /\ UNCHANGED <<tables, turnstile, revoked>>

\* The same checks and the same insert, with nobody to answer.
verifyBehind(h) ==
    LET admitted == [h EXCEPT !.pc = "admitted"] IN
    /\ h.pc = "posted"
    /\ \/ /\ h.by \in Visitors
          /\ turnstile' = [turnstile EXCEPT ![h.by] = "spent"]
          /\ \E left \in {{}, IF HasOrg(h.org) THEN {admitted} ELSE {}} :
                behind' = (behind \ Unverified(h.by)) \cup left
       \/ /\ h.by \in ApiClients
          /\ behind' = (behind \ {h}) \cup (IF KeyOpens(h.by, h.org) THEN {admitted} ELSE {})
          /\ UNCHANGED turnstile
    /\ UNCHANGED <<tables, client, revoked>>

insertBehind(h) ==
    /\ h.pc = "admitted"
    /\ requests' = Append(requests, [id |-> <<h.by, client[h.by].rows + 1>>,
                                     org |-> h.org, by |-> h.by])
    /\ client' = [client EXCEPT ![h.by].rows = @ + 1]
    /\ behind' = behind \ {h}
    /\ UNCHANGED <<settings, owners, documents, drafts, actions, turnstile, revoked>>

VisitorStep(c) ==
    solveTurnstile(c) \/ (\E slug \in Orgs : submitPublicRequest(c, slug)) \/ verifyForm(c)

ApiClientStep(c) ==
    (\E slug \in Orgs : postWithKey(c, slug)) \/ verifyKey(c) \/ revokeKey(c)

ClientStep(c) ==
    \/ c \in Visitors /\ VisitorStep(c)
    \/ c \in ApiClients /\ ApiClientStep(c)
    \/ insertSubmission(c) \/ enqueueSubmission(c) \/ redirect(c)
    \/ \E h \in behind : h.by = c /\ (verifyBehind(h) \/ insertBehind(h))
=============================================================================
