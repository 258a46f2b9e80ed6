# Frontdesk intake: TLA+ models, checks and proofs

Frontdesk takes requests from a public form or an API, has an LLM pipeline
triage them and draft a reply, lets staff approve, edit or reject the draft, and
shows an approved reply on public pages. This directory holds a TLA+
specification of the parts that share state, the TLC runs that check it on small
instances, and TLAPS proofs of its main properties for all instances.

Paths below are relative to the repository root.

## 1. Inventory

| Part | State it keeps | Operations | Talks to |
|---|---|---|---|
| api intake (`api/src/routes/requests.ts`), public form (`web/src/lib/actions.ts`) | a `requests` row, a queue message | `POST /orgs/:slug/requests`, the form's server action | Postgres, queue, Turnstile |
| triage queue (`worker/.../queue/pgmq.py`, `api/src/queue/pgmq.ts`) | messages with a read count and a visibility time | send, receive, ack, nack, dead_letter | api sends, worker receives |
| SQS adapters (`sqs.py`, `sqs.ts`) | a cache of bodies by receipt handle | the same operations on SQS | AWS |
| triage worker (`consumer.py`, `pipeline.py`) | one open transaction per message | receive, claim, classify / retrieve / draft, write result, ack / nack / dead-letter | queue, Postgres, LLM |
| spend control (`spend.py`) | none: sums over today's `drafts` | choose the provider | Postgres |
| triage algorithms (`triage/*.py`, `ingestion/chunker.py`) | none | parse and route, fuse rankings, confidence, citation check, chunking | - |
| staff actions (`web/src/lib/staffActions.ts`) | one transaction per call | approve, edit-then-approve, reject | Postgres |
| staff list, request page (`staffQueue.ts`, `requestDetail.ts`, `app/app/`) | none | reads | Postgres |
| membership (`auth-guard.ts`) | `org_members` | a check before every page and action | Postgres |
| tracking and landing pages (`tracking.ts`, `demoQueue.ts`) | none | reads anybody may make | Postgres |
| demo purge (`db/src/purge.ts`) | none | delete batches of old demo requests | Postgres |
| seed (`db/src/seed.ts`) | orgs, owners, documents, demo requests | a script of statements, repeatable | Postgres |
| evaluation export (`db/src/eval-export.ts`) | none | reads | Postgres |
| document ingestion (`ingestion/pipeline.py`, `seed-ingest.ts`) | `documents`, `chunks`, the ingest queue | enqueue at api start, extract, chunk, embed, replace chunks | Postgres, queue |
| settings, logging, probes, embedder, deployment | - | - | - |

What is hard here, and where: the list `hazards` in `PROJECT.json` has every one
with its line. In short:

- **Four writers on one row.** Api, worker, staff and purge write `requests`,
  `drafts` and `actions` under READ COMMITTED. Staff actions read, check and
  write in separate statements; two writers compute `max(version) + 1`.
- **At-least-once delivery.** A worker can die between any two steps, its commit
  reply can be lost, and its lease can run out while it is still working, so a
  second worker has the same message. With SQS the receipt handle in hand may be
  stale, `dead_letter` is two calls, and the body for its copy lives in a cache.
- **Locks in opposite order.** The worker locks the row and then inserts a draft;
  edit-then-approve inserts a draft and then locks the row.
- **Deletion under way.** The purge deletes rows that may be queued, in triage or
  being answered; two purges may overlap.
- **Writes that are not one transaction.** The intake's row and message; every
  statement of the seed.
- **Readers that take several statements.** The request page and the export read
  row, drafts and actions one after another; membership is read before the action.
- **Checks before the fact.** Budgets are sums over committed drafts, while other
  workers' runs are open and rolled-back ones have cost tokens too; the org's
  settings are read once and used through the run.
- **Replacing chunks.** Each api start enqueues every pending document again, so
  two workers can be replacing the chunks of one document, each blind to the
  other's uncommitted rows.

What makes each part correct:

- intake: the message is never sent before its row is committed, 201 never before
  both are durable; a client gets one request, in the org it addressed;
- queues: no message is lost, whichever adapter; each delivery above the ceiling and each second
  outcome has a failure behind it (but for the SQS messages that kill their reader, section 3);
- worker: nothing half-done is ever visible; a message leaves the queue only with
  its verdict committed or at the ceiling; every accepted request gets there;
- spend: what an org and all of them cost is bounded, and no run is downgraded
  for another org's budget;
- staff: a resolution is what the newest audit row says; history only grows;
  every call ends; a removed member finishes the calls in progress, each once, and begins no other;
- readers: what a page or an export shows fits together; the list never hides
  what needs a person behind what does not;
- tables: versions are unique and gapless; no lock outlives its transaction;
- purge: nothing of a deleted request stays or comes back; nothing overdue is left;
- seed: a run that ends has delivered, as far as the owner's address allows; an operator's edits survive it;
- public pages: a reply is shown only by a logged decision of a person;
- ingestion: a reader finds none or one whole generation of a document's chunks;
  a message is deleted only when its document is settled; every document that was
  pending when the api started is settled or dead-lettered.

## 2. Modules

Five specifications share no row with one another except through what one
abstracts of another, so each is checked on its own.

| Module | Models |
|---|---|
| **`FrontDesk`** | the life of a request: the composition of the next six, deadlock resolution, fairness, its properties, and the refinement mappings to `PublicPage` and `DeliveryContract` |
| `RequestStore` | the tables `requests`, `drafts`, `actions`, the unique index on versions, cascading foreign keys, the worker's row lock, uncommitted staff inserts |
| `Pgmq` | the triage queue behind `PgmqQueue` / `PostgresQueue` |
| `Intake` | the accepted path of `POST .../requests`, and its failure after either write |
| `TriageWorker` | `process_one` and the transaction of `run_triage_pipeline`, any number of workers |
| `StaffActions` | approve, edit-then-approve, reject, one statement per step |
| `DemoPurge` | one batch of `purgeOrgRequests` |
| **`StaffApp`** | extends `FrontDesk` with membership, the request page and the evaluation export as readers of one SELECT a step, and the display order of the history |
| **`StaffQueue`** | the staff list: filters, rank and limit over live rows; extends `TriagePipeline` |
| `TriagePipeline` | what happens inside a triage run: spend checks, classification, routing, drafting with its retry; the purge as far as it takes tokens with it |
| **`DemoOrg`** | all that fills and empties the demo org: composes `Seed`, `PurgeJob` and `Submission` over `DemoTables`, with an operator who edits settings |
| `Seed` | `seedDatabase`, statement by statement |
| `PurgeJob` | the batch loop of the purge, with its counts and its warning |
| `Submission` | the public form and its server action, API keys, admission, retries, handlers whose client has given up |
| `DemoTables` | the rows those three share |
| `Subsequences` | what a WHERE leaves of rows in an order; used by `DemoTables`, `PurgeJob` and `StaffApp` |
| **`SqsQueue`** | the SQS adapter under the consumer loop |
| **`Ingestion`** | the api's start (`ensureQueue`, `enqueuePendingIngestMessages`), `process_one_ingest` and the transaction of `run_ingestion_pipeline`; uses `Pgmq` |
| `PublicPage` | abstract: what a requester is promised of a page anybody may read |
| `DeliveryContract` | abstract: what api and worker may rely on in a queue |
| `MC*` | small sets for TLC |
| `FrontDeskProofs`, `FrontDeskRefinementProofs`, `StaffAppProofs`, `SqsQueueProofs`, `IngestionProofs`, `StaffQueueProofs`, `DemoOrgProofs`, `SubsequenceProofs` | theorems and their proofs |

`PublicPage` is implemented by `/t/<token>`; the landing page's list goes by the same rule for each of its
rows, and which rows are on it is not modelled. `DeliveryContract` is implemented twice, by `FrontDesk`
over pgmq and by `SqsQueue`.

### How state and actions correspond to the code

`FrontDesk`:

- `req[r]`, `drafts[r]`, `audit[r]` are the *committed* rows. A worker's open
  transaction keeps its own view in `wk[w]` (`status`, `version`) and holds
  `rowLock[r]` from its first UPDATE (`consumer.py:124`) to the end. A staff edit's
  inserted but uncommitted draft is in `pending[r]`: it blocks an insert of the
  same version (unique index) and a delete of the request (foreign key share
  lock), and nobody can read it.
- A draft body is identified with its author and version. Category, urgency,
  summary, lane, citations, confidence and tokens have no effect on this control and
  are left to `TriagePipeline`; `resolved_at` is left out, as nothing reads it.
- Worker: `Receive` is `queue.receive`; `Claim` the UPDATE to `triaging`; then the
  pipeline either raises (`PipelineRaises`) or reaches `_write_result` with either
  verdict: its UPDATE and the read of `max(version)`. `InsertAndCommit` is the INSERT
  and COMMIT (no other process can act usefully between them: the row is
  locked and the version taken). `CommitReplyLost` is a commit whose confirmation
  never arrives, which `except Exception` takes for a failure.
  `NackOrDeadLetter`, `Ack`, `RejectMalformed`, `RequestNotFound` and
  `DuplicateVersion` are the other ends of `process_one`.
- `Crash` also stands for a cancelled task group (`__main__.py:45-50`) and for
  a graceful SIGTERM, which is a stop from "idle".
- Staff: `loadRow` and `loadLatestVersion` are the two SELECTs of
  `loadCurrentState`; `readDraftToApprove` is approve's third SELECT;
  `insertEditedDraft` edit's INSERT; `resolveAndRecord` the UPDATE, `recordAction` and
  COMMIT. The last three statements are one step since the transaction holds the
  row lock between them and waits for nobody. Calls that end before they write (a
  missing or resolved request) change nothing here; `StaffApp` has them (`refused`).
- `ResolveDeadlock` is Postgres' detector. The worker holds the row and waits to
  insert version N; the edit has inserted version N and waits for the row.
  Either may be the victim.
- Purge: SELECT and DELETE of a batch are one step that waits for every
  lock on its rows. Which rows are older than the cutoff is left open, except that
  their intake is over (the retention period is a day by default).
- Malformed messages are `Messages \ Requests`; they are in the queue at the start.
- The refinement mappings: a page is what `getTrackingView` makes of the row;
  `decisions` are the replies the audit rows record. For the delivery contract a
  message is *finished* when the verdict is committed or its request is gone, *aside* when
  archived, *gone* when deleted or archived.

`StaffApp` takes every step of `FrontDesk` as `System` and adds what the web app knows. Its `Staff` are
calls, and `Caller[s]` the member who makes call `s`: nothing in `auth-guard.ts` keeps two tabs of a member apart.
`grace` is the calls in progress when their member was removed, `late[s]` the rows `s` has written since;
`started` has an entry for each transaction of an action in the order they began, which
is the order of `created_at` (its default is `now()`, the start of the transaction), and
`select` is one SELECT of a reader, in the order `SelectOrder` gives. `view.acting` marks
a page whose form has been submitted.

`TriagePipeline`, `StaffQueue`: a completion is one token and all live models cost the same, so
tokens and dollars are one unit. `recorded[r][p]` is the tokens in today's committed drafts of a request, by
provider, so that the sums of `spend.py` are sums over an org's requests and shrink when the purge
takes a request with its drafts (`purge`). Four history variables say what is in no table: `billed`, what the live
provider charges; `lost`, those of its tokens that no draft of today will record (a run that failed, or that
ended after midnight); `purged`, those whose draft is gone; `had`, every value the settings of an org
have had. `global_ceiling_exceeded` is one turn of the loop over the orgs, each turn a transaction. A run
failing anywhere is `RunFails`; the UTC day's end is `Midnight`. An org without categories, which is what the
column's default makes of it, gets "other" or whatever label the model gives. approved and rejected are one
status, "resolved".

`DemoOrg`: each statement of the seed is an autocommit transaction, and `seeder[s]` is the one it
is about to issue, with the places its loops are at (`NextOrg`, `NextDocument` and `NextRequest`
go on to the next). Each run is configured with its own `SEED_OWNER_EMAIL`, in `WithAt` or not: `ownerEmailFor` can
make an address for each org only of one with an "@". `PurgeJob` counts what its own DELETE has removed. `Submission` follows a client from the form to the tracking
page; when the connection breaks the client is shown an error while the api's handler goes on, in `behind`, and may
insert its row after the client has tried again. `awake` is the cast of processes of a behaviour.

`SqsQueue`: a handle is `[msg, n]`, the n-th receive. `Answers` says what SQS does with
a handle: it obeys the newest one and may obey, ignore or refuse an older one. `received` is the cache. An
exception in a queue call is caught nowhere, so the process ends (`Dies`) and a new one starts with an empty cache.
`Poison` is the messages that end it by themselves: `receive` throws at a body that is not JSON (`Unreadable`)
and has cached nothing by then, and `copyToDlq` takes the None it has cached for JSON null (`NullBodies`) for
no body. Either comes back with its visibility timeout, without bound.

`Ingestion`:

- `doc[d]` and `chunks[d]` are committed rows; a chunk is its `ord` and the
  delivery that wrote it. `doc[d].raw` stands for the content, by the number of chunks it
  yields (0: no text, or an unsupported mime; both mark the document failed).
- `StartDelete` takes the rows the DELETE sees; `DeleteOldChunks` is its end, after
  waiting for whoever else is deleting them. `InsertChunks` is all the INSERTs
  of a delivery: they go in in order of `ord`, so that the first collides or waits
  for all. `OrdsInDoubt` is the wait, `OrdsTaken` the unique violation. The update of
  the document and the commit are `CommitIndexed`, `CommitFailed` or, with its confirmation
  lost, `CommitReplyLost`. `DocumentNotFound` and everything else that raises is
  `PipelineRaises`; no code deletes a document.
- A message is `<<document, start>>`: each start of the api (`boot[k]`) sends at most one
  per document. `ready` is whether the queue exists; a worker that reads too early
  dies (`ReceiveFails`) and is started again.

External code (Postgres' locks and detector, SQS, Turnstile, the model) is modelled from how
the code uses it and marked `external` in the map.

## 3. Runs

`CHECK_DEADLOCK FALSE` everywhere: once every request is settled, no fault is left and
nobody acts, the system really has nothing to do.

| Run (module) | Instance | Distinct states | Shows |
|---|---|---|---|
| `worker_recovery` (`MCFrontDesk`) | 1 request, 2 workers, 1 staff, ceiling 2, 2 faults | 1.9 M | types; locks belong to open transactions; the status matches the newest draft; nothing half-done is visible; ack and dead letter are justified; each delivery above the ceiling is paid for by a fault |
| `staff_race` (`MCFrontDesk`) | 1 request (not of the demo org) and a malformed message, 1 worker, 2 staff, ceiling 2, no fault | 161 k | draft versions; resolution = newest audit row; audit row = draft; append-only history; the row is there before its message and both before the 201 |
| `lifecycle` (`MCFrontDesk`) | 1 demo request, 2 workers, 1 staff, ceiling 2, 1 fault, `FairSpec` | 217 k | no orphans; `FrontDesk` implements `PublicPage` and `DeliveryContract`; `AcceptedIsSettled`, `StaffCallsEnd` |
| `ingestion` (`MCIngestion`) | 1 document of 0 or 2 chunks, 2 starts, 2 workers, a stray message, ceiling 2, 1 fault | 326 k | chunks are one generation; ack only when settled; `PendingIsSettled` |
| `delivery` (`MCSqsQueue`) | any 2 of: a good message, a malformed one, a JSON `null`, a body that is not JSON; 2 consumers, ceiling 3, 2 faults | 422 k | `SqsQueue` implements `DeliveryContract`; extra receives and outcomes are paid for by faults; a removal evicts, and nothing is evicted that a call still needs; `SentIsSettled`. The last and the receives except messages that kill their reader |
| `staff_app` (`MCStaffApp`) | 1 demo request, 1 worker, 1 member with 2 calls at once, ceiling 1, no fault | 2.4 M | what a page offers is backed by rows; the export finds the drafts its actions name, or the request was purged in between; a removed member finishes the calls in progress and begins no other |
| `demo_org` (`MCDemoOrg`) | 2 orgs, casts out of 2 seeds (one address without "@"), 2 purges with batches of 2, a visitor, an API client; 2 faults | 3.6 M | a half-seeded org has a fault behind it; a seed that ends has delivered; a purge that ends without its warning leaves nothing overdue; one request per client but for failed calls; an operator's edits survive |
| `triage` (`MCStaffQueue`) | 2 workers, 2 requests, 2 orgs, 3 runs, 3 values of the settings, 1 fault, queue limit 1 | 2.0 M | spend is bounded, per org and in all; a downgrade is deserved; a run routes by settings of one time; what needs a person is shown |

Four more runs refute what a comment in the repository says; each is a finding in
`PROJECT.json` with the quotation.

| Run | The comment | What happens instead |
|---|---|---|
| `resolved_reopened` | approve, edit and reject are terminal | a (re)delivered message is triaged whatever the status is |
| `rejected_published` | a rejected request is not approved over | two overlapping calls both pass the check |
| `decided_unseen` | `before.draftVersion` is the version the staff member was looking at | it is read when the action runs; a triage can commit in between, and the export pairs the edit with a draft nobody saw |
| `history_misleads` | the history is newest first | `created_at` is the start of the transaction: of two overlapping actions the one that took effect last can be listed second |

Divergences seen while modelling, without a run of their own:

- `staffActions.ts:152`: the `before` snapshot of the later of two overlapping calls is
  gone by the time it is recorded. `staffActions.ts:23-25` says `replyText` is null on every
  before side; not after a reopened request is acted on again.
- `pipeline.py:6-8`, `drafts.ts:58-59`: a failure is said to leave the request at `triaging`;
  that is rolled back too, and nobody ever sees the status.
- `queue/__init__.py:33-35`: the delivery ceiling is said to hold across crashes; it is not
  consulted when the worker dies (`consumer.py:131`).
- `drafts.ts:54-57`: reply and current draft "cannot disagree"; an approve publishes the draft it
  read, not the newest (`staffActions.ts:162`).
- `tracking.ts:40-42` says nothing deletes a `requests` row; the purge does.
- `purge.ts:126`: a short batch is not the last one when two purges overlap. The CronJob
  forbids overlap (`deploy/chart/templates/db-purge-cronjob.yaml:19`); a manual run does not.
- `seed.ts:281`: after a death between two statements, the org is there without all its rows.
- `seed-ingest.ts:16-18` says a duplicate message is not a correctness problem: true of
  the document, as `ingestion` shows, but one of two overlapping duplicates fails on the unique
  index and is retried, or dead-lettered at the ceiling, although its document is indexed.
- `requestDetail.ts:138-145`: a re-ingestion replaces the chunks a draft cites, and the page drops
  those citations silently.
- `app/app/page.tsx:35-38`: an unknown filter is said to match nothing; it is passed on as undefined,
  which is the whole queue. A lane retired from the settings cannot be filtered for at all.
- `staffQueue.ts`: resolved rows share the last rank with open normal ones, so that more than 50
  newer resolved rows hide an open drafted one.
- `contracts.py:51-53` and `consumer.py:107-117` say that a message that fails validation is dead-lettered and not
  retried. Over SQS two kinds of it are retried for ever. A body of JSON `null` is cached as None, which
  `dead_letter` takes for no body and throws (`sqs.py:87-91`); a body that is not JSON makes `receive` throw
  before validation sees it (`sqs.py:62-64`). Either ends the process, the other loop of its task group
  included (`__main__.py:45-50`), and the message comes back with every visibility timeout. pgmq's column is
  jsonb and returns any value, so neither happens there. `delivery` has both kinds; its properties
  except them by the name `Poison`, and say that all other messages are settled beside them.
- `sqs.ts:104-105` calls the cache of bodies short-lived: a nacked body stays as long as the process does. A
  message leaves at most `max_delivery_attempts - 1` of them (`CacheHoldsWhatIsNeeded`).
- `eval-export.ts:77-80` takes the draft at the version to be there: when the purge commits between its two SELECTs
  (85-119) the examples of the request are written with a null `model_reply`. `ExportFindsDrafts`
  says that this is the only way to miss a draft.
- `seed.ts:14-17` says that every org has a distinct, valid address: with a `SEED_OWNER_EMAIL` without "@"
  (line 20) both have the same one, `ON CONFLICT` drops the second owner, and the seed ends as if nothing
  were missing. `SeedDelivers` says what is left then: one org with an owner.
- `spend.py:44-47` sums drafts that are there: with a retention of less than a day the purge lowers today's sum
  (`purge.ts:108`), so that the demo org is let through again.
- `orgs.ts:15`: `{}` is the default of `settings`. An org without categories takes whatever label the model returns
  (`classify.py:113`), or "other", and a category is then no member of any settings.
  `RoutedBySettingsOfOneTime` says so.
- `draft.py:1` says citations are mandatory; a reply that cites nothing passes.
- ADR-0023's layer 2 says a runaway demo org stops; its runs are downgraded.

### Bounds, and why they are enough

- `MaxFaults` counts what goes wrong: in `FrontDesk` crashes, lost commit replies and leases that
  run out under a live worker, in the other modules the deaths and failures their comments
  list. Two faults allow one inside the recovery of another.
- `MaxDelivery` 2 is the smallest ceiling with both a nack and a dead letter. `delivery` has 3, so
  that a message can be nacked with a handle that is already stale, and `MaxReceives` 5, which is what
  two faults above a ceiling of 3 pay for; with the check of the ceiling one late TLC has it exceeded.
  `MaxSent` 2: messages share only the processes and their caches, so that any two of the four
  kinds together show what one does to another.
- Two workers are needed for one message to be held twice; two staff for
  overlapping calls. Symmetric values are declared as `SYMMETRY` in safety runs only.
- The requests of `FrontDesk` are independent but for the batch of the purge, so one is enough;
  `demo_org` has the batches, of two rows, so that one can come out full, short or empty.
- Documents are independent, so `ingestion` has one; two chunks tell a whole generation
  from a part; two starts make the duplicate, two workers the overlap.
- Draft versions are bounded by deliveries and staff calls; staff stop when the
  request is resolved, and only a redelivery reopens it, so the state space is
  finite without a bound on the drafts. Aborted staff calls change nothing else.
- `staff_app`: a reader writes nothing, so one reader that is a page or the export in turn sees all that several do.
  Two calls of one member, at most `MaxCalls` 2 in a behaviour, are enough for one to be in progress when the other ends and
  the member is removed; the ceiling is 1, as `staff_race` has the redeliveries.
- `demo_org`: `Casts` is the sets of processes that run together, every pair of the six and the two
  triples {both purges, API client} and {two seeds, purge}: each hazard is between two of them or
  needs the overlap of both purges, or of both seeds, with a third.
- `triage`: budgets of 2 and 3 and a global ceiling of 3 against three runs that cost up to 3 each. Without their
  checks those runs break the bound of either org and that of all, so that each can fail; with them each
  limit is met, passed and missed. A limit of one row is already enough for the list to hide another. One
  fault is a failed run, midnight, a purge or an edit of the settings. A purge raises the bound by what it
  takes; that a run beyond it is let through takes three requests, and is left to the theorem.

### Fairness

`FrontDesk!FairSpec` assumes that a started handler goes on: weak fairness of each api handler,
worker loop (its process is restarted by Kubernetes, `Start`), started staff
call, of the queue's clock, and of Postgres' deadlock detector (it runs after
`deadlock_timeout`). Strong fairness only for the two INSERTs that can wait on a unique
index: Postgres wakes the waiter each time the transaction it waits for ends.
People, failures, aborts and the purge have no fairness: nothing has to happen.
`Ingestion!FairSpec`: weak fairness of the worker loop, the queue's clock and a start of
the api that has begun; that the api is started at all is not assumed.
`SqsQueue!FairSpec`: weak fairness of the consumer loop, restart included, and of the clock that
makes a message visible again; and strong fairness of receiving a message that does not kill its reader. SQS
samples its servers and keeps no order, so that a message that can be received over and over is, and one that
kills every process it meets does not hold back the others for ever.

## 4. Proofs

Every safety property of a passing run has a theorem. Each holds for every value of the constants
that satisfies the named assumptions of the modules it extends: that sets are disjoint or contained
where the code has them so, and that bounds are positive numbers. Those that say more:
`PipelineAssumption` and `QueueAssumption` take workers, orgs and requests to be finitely many (sums and
places are counted); `CallerAssumption` gives every call a member; `TablesAssumption` and `SeedAssumption`
take the seed's lists to be lists; `IdsAssumption` says that the random id of a client's request is not
one of a seeded request.

| Module | Theorem | Statement |
|---|---|---|
| `FrontDeskProofs` | `TypeCorrect` | `Spec => []TypeOK` |
| | `ResolutionAudited` | `Spec => []ResolutionIsAudited` |
| | `HistoryAppendOnly` | `Spec => HistoryIsAppendOnly` |
| | `DeadLetteredAtCeiling` | `Spec => []DeadLetteredOnlyAtCeiling` |
| | `LocksBelong` | `Spec => []LocksBelongToOpenTransactions` |
| | `PurgeLeavesNoOrphans` | `Spec => []NoOrphans` |
| | `TriageIsAllOrNothing` | `Spec => []NoHalfDoneTriage` |
| | `IntakeIsDurable` | `Spec => []IntakeIsDurableInOrder` |
| | `DraftVersionsContiguous` | `Spec => []DraftVersionsUniqueAndContiguous` |
| | `VerdictMatches` | `Spec => []VerdictMatchesCurrentDraft` |
| | `AuditNamesDrafts` | `Spec => []AuditCrossReferencesDrafts` |
| `FrontDeskRefinementProofs` | `AcksFollowTriage` | `Spec => []AckedOnlyWhenTriaged` |
| | `PgmqImplementsDelivery` | `Spec => PgmqDelivers` |
| | `TrackingPageKeepsPromise` | `Spec => PublicPageSpec` |
| | `ExtraDeliveriesArePaid` | `Spec => []ExtraDeliveriesArePaidByFaults` |
| `StaffAppProofs` | `RemovedMembersStop` | `AppSpec => []RemovedFinishesItsCalls` |
| | `PagesAreBacked` | `AppSpec => []PageIsBacked` |
| | `ExportsFindDrafts` | `AppSpec => []ExportFindsDrafts` |
| `SqsQueueProofs` | `TypeCorrect` | `Spec => []TypeOK` |
| | `RemovalAlwaysEvicts` | `Spec => []RemovalEvicts` |
| | `CacheHolds` | `Spec => []CacheHoldsWhatIsNeeded` |
| | `SqsImplementsDelivery` | `Spec => SqsDelivers` |
| | `ReceivesArePaid` | `Spec => []ReceivesArePaidByFaults` |
| | `ExtraOutcomesArePaid` | `Spec => []ExtraOutcomesArePaidByFaults` |
| `IngestionProofs` | `TypeCorrect` | `Spec => []TypeOK` |
| | `OneGeneration` | `Spec => []ChunksAreOneGeneration` |
| | `AckedSettled` | `Spec => []AckedOnlyWhenSettled` |
| `StaffQueueProofs` | `PersonShown` | `Spec => []PersonNeededIsShown` |
| | `RoutedAtOneTime` | `Spec => []RoutedBySettingsOfOneTime` |
| | `SpendBounded` | `Spec => []SpendIsBounded` |
| | `Downgraded` | `Spec => []DowngradeIsDeserved` |
| `DemoOrgProofs` | `OperatorKeeps` | `Spec => OperatorKeepsSettings` |
| | `OneRequestEach` | `Spec => []OneRequestPerClient` |
| | `NothingOverdue` | `Spec => []OverdueIsPurged` |
| | `HalfSeededIsPaid` | `Spec => []HalfSeededIsPaidByFaults` |
| | `SeedHasDelivered` | `Spec => []SeedDelivers` |

### The arguments

**Types.** `FrontDesk`'s `TypeOK` is not inductive. `LatestVersion` is a maximum, which exists only
for a history that has one (`HistoriesHaveLatest`: Z3 has no induction over finite sets, so
the invariant says it), and an action writes the row its process holds, so that
has to be a request (`WorkerHoldsRequests`, `StaffHoldRequests`). Together these are
`TypeIInv`; there is a lemma for each operation's effect on each group of
variables, and `TypeIInvStep` assembles them.

**Audit.** `ResolutionAudited` follows from `TypeIInv` and `RowEffect`, which says in which five ways
a step can change committed rows. The point: only
`resolveAndRecord` writes a resolved status, in the same transaction as the audit row; a
triage verdict is never a resolved status. `HistoryAppendOnly` uses the same lemma.
`DeadLetteredAtCeiling` adds `AttemptsAreReadCounts`, that a worker's attempt
is at most its message's read count, which only `receive` changes, upwards.

**Tables.** The invariants of the store grow out of each other:
`LockIInv` = `TypeIInv` with the worker's locks (`WorkerLocks`), that what is locked or written by an
open edit exists (`LockedExist`), and whose writes those are (`PendingIsOwned`, `InsertsAreOwn`);
`RowIInv` adds the order in which a row gets its drafts and audit rows, `NoOrphans` and
`NoHalfDoneTriage`. A delete is what makes the locks necessary: every step that writes to a
request does so under a lock the purge waits for.
`VersionIInv` adds what open transactions know of versions (`WritersKnowVersions`,
`PendingIsNew`, `StaffSeesSubmitted`): a writer's `max(version) + 1` may be out of date, but then
its version is taken and the unique index stops it, so that what commits is always the next one.

**Acks and deliveries.** `DeliveryIInv` = `RowIInv` with what each worker's program counter says of its
message; `DoneStays` is that a finished message stays finished, by whoever holds it. From it follow
`AcksFollowTriage` and the refinement: each step of `FrontDesk` maps to a step of
`DeliveryContract` or a stutter.

**Accounts.** How often a message is delivered cannot be shown action by action: a crash costs the
budget of a later delivery. The invariant is an account per message: its read count, plus what
may still be received, plus the deliveries in hands that are below the ceiling, is at most the
ceiling plus the faults so far. Each step moves an amount from one term to another; only a fault
raises the sum, and it raises the right-hand side too. `SqsQueue` has two such accounts
(`PaidIInv`), one for receives and one for completions and dead-letter copies, over `HandIInv`: a
nacker is below the ceiling, an idle consumer holds nothing, a handle in hand is cached by its process. The
account of receives is one of messages that can be put aside: of a JSON `null` or a body that is not JSON
the theorem says nothing, since the code reads them for ever.

**SQS.** `Inv` says that whoever holds a message has a handle of it, that what is cached was received and that
handles are owned by one process; `RemovalEvicts` is a part of it. `CacheIInv` adds that what is cached beside the
handle in hand was nacked, and so below the ceiling, which is the rest of `CacheHolds`. `Inv` is enough for the refinement
whatever `Answers` lets SQS do with a stale handle.

**Public pages.** That a reply is shown only by a logged decision is an action property of the
abstract module; `RowIInv` and `RowEffect` give it for the tracking page.

**Ingestion.** `OneGeneration` needs two facts about open transactions that the statement does not
mention: whoever has inserted has deleted every chunk that is committed
(`InsertersHaveDeleted`), and no two have inserted for one document
(`OneInserterPerDocument`). The unique index gives both at the INSERT, and they hold until
the commit because only an inserter commits chunks. With a transaction's document known
(`TransactionsHaveDocuments`) that is the inductive invariant `IInv`. `AckedSettled` adds that a
worker about to ack has committed (`AckingIsSettled`) and that nothing takes a document
back to pending.

**Staff list.** `PersonShown` is a fact of the order and the limit, in every state of the table. The order is
strict and total, so the *place* of a row (how many come before it) is different for each; an
injection of a finite set into as many numbers is onto, so every place below the count is taken and
a list that leaves a row out has exactly `QUEUE_LIMIT` (`FullList`). What comes before a row that
needs a person needs one too (`PersonsComeFirst`).

**Routing.** `RoutingIInv` adds to the types that an open run has a request that is there and settings its org
has had, as a whole, and, once past classification, a category those settings take (`RunsKnowSettings`); an edit
in between adds to what the org has had (`HadType`) and changes only what later runs read.

**Spend.** `SpendIInv` is an account for each org and one for all of them. `Accounted` is exact: what an org is
charged is recorded in drafts, or spent by a run of today that has not ended, or lost, or purged, and
nothing is in two of these. What is recorded plus a full run for each worker whose check has passed
stays below the threshold plus a full run for every worker (`OrgChecked`): a check adds its run to the
left only when the sum it has read is below the threshold, and a commit moves the cost of a
run from held to recorded. `AllChecked` is the same for the global ceiling, whose sum is read org
by org: a run that is still summing counts as cleared only while what it has seen and what it has yet to
see are below the ceiling, so that a commit behind its back takes it out. A purge of j tokens does the
opposite and brings a run back that was above by less than j; hence the invariant says it for every j, with
a ceiling of j more, and the step of a purge takes it from j to 0. `SeenIsThere` and `UsedUp` make a
downgrade deserved: what a run has seen and has yet to see is there or purged, since nothing else takes a draft of today away.
There is no induction for sums over sets, so a sum is the number of its units
(`Units(f, S)`, pairs of an element and a number up to its value): the lemmas of finite cardinality
then say what one step of one process changes.

**Staff app.** A step of the app is a step of the desk or leaves the desk alone, so that the desk's
invariants hold here too (`DeskIInv`). `CallIInv`: whoever is in a transaction has an open entry in
`started`, and a call of a removed member that has an open entry was in progress at the removal and has not written
since (`RemovedHaveWritten`): the check lets no new one begin, and a write closes the entry. That is
`RemovedMembersStop`. `ListIInv`: `started` names each committed audit row of a request and
nothing else, so that a history is the audit rows in some order. `ViewIInv` is what a reader
knows between two SELECTs. What it has read is borne out by the tables as they are *now*: a resolved status
by an audit row, a verdict by a draft, a named version by the draft of that version
(`DraftVersionsUniqueAndContiguous` and `AuditCrossReferencesDrafts`). That stays true until it reads
them because a request's drafts and audit rows only grow while it exists. When it is purged in between the reader
finds none of them, and a purged request never returns (`NeverAgain`): the only other case the two
properties allow. The order of the SELECTs matters: each reads what the one before it relies on.

**Demo org.** `OperatorKeeps`: by `SettingsEffect` no statement of the seed writes over an operator's value.
`OneRequestEach` needs what holds between admission and insert: what was admitted is for
the org addressed and, with a key, the key's (`AdmittedToOwnOrg`), and the rows of a client, with those
its abandoned handlers may still insert, are paid for by failed calls but for the one of the call in progress (`RowsArePaid`).
`RowsIInv` adds that ids are unique. On it rest two more. `PurgeIInv` is what a run of the purge knows
(`RunKnows`): what was overdue at its start and is not deleted yet is still in the table, and a batch that came
out short is all of it. That is a fact of LIMIT (`FirstRanks`: the rows up to the n-th place are n, or
all), and overlapping runs do not disturb it as rows that are gone are not overdue. `SeededIInv` says
that a seed records an action only after the draft, so that only a seed that dies leaves
a request half done; one death leaves at most one, a purge none, which gives `HalfSeededIsPaid`.
`DeliveryIInv` says, for each place in the script, what is in the tables when a seed has come there, whoever put it
there (`SeedersReached`); nothing takes settings, owners or documents away, and an insert that finds its row
taken has found it there. `OwnersAreOwn`: an address belongs to one org, and is one that some run
has made for that org. For a run whose address has an "@" a conflict can then only be with the same org's owner; for one without it
the address is somebody's, and of one org only.

**Subsequences.** `SubsequenceProofs` has the facts about `Kept` that the last two rest on: its type
and length, that it has nothing but what it keeps (`KeptFrom`), all of it (`KeptAll`), in
the order it had (`KeptInOrder`).

### Only model-checked

- Liveness: `AcceptedIsSettled`, `StaffCallsEnd`, `PendingIsSettled`, `SentIsSettled`. Fairness and
  ENABLED are out of the prover's reach.
- The four refutations (`expect: violation`) are counterexamples, which need no proof.

## 5. Not modelled

- The chunker: pure text processing; `Ingestion` has its result as a number of chunks.
- Settings, logging, health probes: no state of their own.
- The embedder and PDF extraction: numeric and third-party.
- Deployment, infrastructure, migrations: configuration and scripts; migrations end before any
  process here starts.

What the models abstract: a model's reply is a choice among what the parser makes of it; whether
chunks are found above the floor and which citations are valid are choices; ranking, confidence
and the wording of a draft are left out; every live model costs the same per token. Row level
security is a filter by org on every statement, so `FrontDesk` is one org. A session is a member's;
how it is established is Auth.js'. Rendering is what data a page shows. Scoring of an evaluation is
offline. `PROJECT.json` lists every component with its status and reason.

## 6. Plan

Done: every module of section 2. What is left, in order of importance:

1. `Chunker` and the pure parts of triage (rank fusion, confidence) as operators, against reference
   definitions over bounded inputs.
2. Two orgs in `FrontDesk`, with the org filter of each statement.
3. Citations of a draft against a re-ingestion: the composition of `FrontDesk` and `Ingestion`.
4. Sessions: sign-in, expiry and the removal of a member as one component.
5. Proofs: the ingest queue as a third implementation of `DeliveryContract` (`Ingestion` uses `Pgmq` as
   `FrontDesk` does), and an account of its deliveries like those of the other two queues.
