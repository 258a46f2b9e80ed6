-------------------------------- MODULE Seed --------------------------------
(***************************************************************************)
(* pnpm seed (db/src/seed.ts): a script of statements, each committed by   *)
(* itself.  It may die between any two, be run again, and run twice at     *)
(* once; whatever is there already is left as it is.                       *)
(***************************************************************************)
EXTENDS DemoTables

CONSTANTS
    Seeders,        \* runs of the seed
    DEMO_REQUESTS,  \* the seeded requests, in order
    Approved,       \* those seeded as approved
    SEED_OWNER_EMAIL, \* per run: the address it is configured with
    WithAt          \* the addresses that have an "@"

ASSUME SeedAssumption == DEMO_REQUESTS \in Seq(Range(DEMO_REQUESTS))

\* The statement s is about to issue, for ORGS[org] and the item-th of its
\* documents or of DEMO_REQUESTS; or "done", or "failed".
VARIABLE seeder

\* Mutant: both orgs' owners get the one configured address.
ownerEmailFor_Shared(s, o) == [inbox |-> SEED_OWNER_EMAIL[s], plus |-> "none"]

\* Plus-addressing: an address of its own for every org.  Without an "@" there
\* is no place for the plus, and every org gets the configured address.
ownerEmailFor(s, o) ==
    [inbox |-> SEED_OWNER_EMAIL[s],
     plus |-> IF SEED_OWNER_EMAIL[s] \in WithAt THEN o ELSE "none"]

Statement(at, i, k) == [at |-> at, org |-> i, item |-> k]

\* for (const org of ORGS)
NextOrg(i) == IF i < Len(ORGS) THEN Statement("org", i + 1, 0) ELSE Statement("done", 0, 0)

\* for (const seed of DEMO_REQUESTS), if (org.isDemo)
NextRequest(i, k) ==
    IF ORGS[i] = DemoOrg /\ k < Len(DEMO_REQUESTS) THEN Statement("request", i, k + 1)
    ELSE NextOrg(i)

\* for (const filename of files)
NextDocument(i, k) ==
    IF k < Len(Files[ORGS[i]]) THEN Statement("document", i, k + 1) ELSE NextRequest(i, 0)

SeedInit == seeder = [s \in Seeders |-> Statement("org", 1, 0)]

Running(s) == seeder[s].at \notin {"done", "failed"}

At(s, at) == seeder[s].at = at

OrgAt(s) == ORGS[seeder[s].org]

Item(s) == DEMO_REQUESTS[seeder[s].item]

GoTo(s, statement) == seeder' = [seeder EXCEPT ![s] = statement]

\* A new org has the key already: no backfill.
upsertOrg(s) ==
    /\ At(s, "org")
    /\ settings' = IF HasOrg(OrgAt(s)) THEN settings
                   ELSE [settings EXCEPT ![OrgAt(s)] = "seed"]
    /\ GoTo(s, Statement(IF HasOrg(OrgAt(s)) THEN "settings" ELSE "owner", seeder[s].org, 0))
    /\ UNCHANGED <<owners, documents, requests, drafts, actions>>

\* Mutant: the key is set whether it is there or not.
LacksKey_Always(o) == TRUE

LacksKey(o) == settings[o] = "old"

backfillSettingsKey(s) ==
    /\ At(s, "settings")
    /\ settings' = IF LacksKey(OrgAt(s)) THEN [settings EXCEPT ![OrgAt(s)] = "seed"]
                   ELSE settings
    /\ GoTo(s, Statement("owner", seeder[s].org, 0))
    /\ UNCHANGED <<owners, documents, requests, drafts, actions>>

upsertOwner(s) ==
    LET email == ownerEmailFor(s, OrgAt(s)) IN
    /\ At(s, "owner")
    /\ owners' = IF \E m \in owners : m.email = email THEN owners
                 ELSE owners \cup {[email |-> email, org |-> OrgAt(s)]}
    /\ GoTo(s, NextDocument(seeder[s].org, 0))
    /\ UNCHANGED <<settings, documents, requests, drafts, actions>>

upsertDocument(s) ==
    /\ At(s, "document")
    /\ documents' = documents \cup {[org |-> OrgAt(s), file |-> Files[OrgAt(s)][seeder[s].item]]}
    /\ GoTo(s, NextDocument(seeder[s].org, seeder[s].item))
    /\ UNCHANGED <<settings, owners, requests, drafts, actions>>

insertRequest(s) ==
    LET q == Item(s) IN
    /\ At(s, "request")
    /\ \/ /\ q \notin Ids
          /\ requests' = Append(requests, [id |-> q, org |-> DemoOrg, by |-> s])
          /\ GoTo(s, [seeder[s] EXCEPT !.at = "draft"])
       \/ /\ q \in Ids
          /\ GoTo(s, NextRequest(seeder[s].org, seeder[s].item))
          /\ UNCHANGED requests
    /\ UNCHANGED <<settings, owners, documents, drafts, actions>>

\* Mutant: the approved requests' actions are left out.
AfterDraft_NoAction(s) == NextRequest(seeder[s].org, seeder[s].item)

AfterDraft(s) ==
    IF Item(s) \in Approved THEN [seeder[s] EXCEPT !.at = "action"]
    ELSE NextRequest(seeder[s].org, seeder[s].item)

\* The row s has inserted is still there.  One that was purged meanwhile, even
\* if another run has seeded it again, violates the foreign key.
Inserted(s) == \E i \in DOMAIN requests : requests[i].id = Item(s) /\ requests[i].by = s

insertDraft(s) ==
    /\ At(s, "draft")
    /\ Inserted(s)
    /\ drafts' = drafts \cup {Item(s)}
    /\ GoTo(s, AfterDraft(s))
    /\ UNCHANGED <<settings, owners, documents, requests, actions>>

insertAction(s) ==
    /\ At(s, "action")
    /\ Inserted(s)
    /\ actions' = actions \cup {Item(s)}
    /\ GoTo(s, NextRequest(seeder[s].org, seeder[s].item))
    /\ UNCHANGED <<settings, owners, documents, requests, drafts>>

ForeignKeyFails(s) ==
    /\ At(s, "draft") \/ At(s, "action")
    /\ ~Inserted(s)
    /\ GoTo(s, Statement("failed", 0, 0))
    /\ UNCHANGED tables

\* The process dies or loses the database.
SeedDies(s) ==
    /\ Running(s)
    /\ GoTo(s, Statement("failed", 0, 0))
    /\ UNCHANGED tables

SeedStep(s) ==
    \/ upsertOrg(s) \/ backfillSettingsKey(s) \/ upsertOwner(s) \/ upsertDocument(s)
    \/ insertRequest(s) \/ insertDraft(s) \/ insertAction(s) \/ ForeignKeyFails(s)

\* Somebody runs it again.
SeedAgain(s) ==
    /\ ~Running(s)
    /\ GoTo(s, Statement("org", 1, 0))
    /\ UNCHANGED tables
=============================================================================
