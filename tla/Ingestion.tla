----------------------------- MODULE Ingestion -----------------------------
(***************************************************************************)
(* Ingestion of documents: every api start enqueues what is still pending, *)
(* workers replace the document's chunks in one transaction per delivery.  *)
(* Nothing keeps a document from being queued twice, nor two workers from  *)
(* ingesting it at the same time.                                          *)
(*                                                                         *)
(* Isolation is READ COMMITTED.  The DELETE of the old chunks works on the *)
(* rows committed when it starts and waits for whoever is deleting them;   *)
(* an INSERT waits for whoever has an uncommitted row of the same ord, or  *)
(* has deleted one, and fails on a committed one it has not deleted.       *)
(***************************************************************************)
EXTENDS Integers, FiniteSets, Pgmq

CONSTANTS
    Documents,    \* ids of documents; all seeded before the first start
    Orgs,         \* each org is the set of its documents
    Contents,     \* what raw may be: the number of chunks it gives, and 0 for
                  \* no text or an unsupported mime
    Ingesters,    \* worker processes
    Starts,       \* starts of the api, one after another or side by side
    MaxDelivery,  \* max_delivery_attempts
    MaxFaults,    \* bound: crashes, lost commit replies, early timeouts, failed sends
    NoMessage

\* A message names its document; the start that sent it tells copies apart.
IngestMessages == Documents \X Starts

\* Messages that are not of the committed contract.
Malformed == Messages \ IngestMessages

ASSUME IngestionAssumption ==
    /\ UNION Orgs = Documents
    /\ Contents \subseteq Nat
    /\ MaxDelivery \in Nat \ {0}
    /\ MaxFaults \in Nat
    /\ IngestMessages \subseteq Messages
    /\ NoMessage \notin Messages

VARIABLES
    doc,     \* committed rows of documents: raw, status, chunk_count
    chunks,  \* committed rows of chunks, per document
    boot,    \* per api start: pc, orgs not read yet, documents to enqueue
    ready,   \* the ingest queue exists
    iw,      \* per worker: pc, message, delivery attempt, chunks it deletes
    faults

vars == <<queue, doc, chunks, boot, ready, iw, faults>>

DocumentStatuses == {"pending", "indexed", "failed"}

\* chunk_markdown of the text; nothing writes raw after the seed.
Size(d) == doc[d].raw

\* by: the delivery whose transaction inserted the row.
Chunks == [ord : Nat, by : Messages \X Nat]

Generation(d, by) == {[ord |-> i, by |-> by] : i \in 0..(Size(d) - 1)}

BootSteps == {"off", "enqueueing", "listening", "failed"}

\* "replacing"  the DELETE has started    "inserting"  it is done
\* "inserted"   the new rows are in, not committed
IngestSteps == {"down", "idle", "received", "replacing", "inserting", "inserted",
                "acking", "failed"}

Fresh(step) == [pc |-> step, msg |-> NoMessage, attempt |-> 0, old |-> {}]

\* The queue is there with an older release's messages in it, or not at all.
Init ==
    /\ ready \in BOOLEAN
    /\ queue = [m \in Messages |->
                   [at |-> IF ready /\ m \in Malformed THEN "visible" ELSE "unsent",
                    read_ct |-> 0]]
    /\ doc \in [Documents -> [raw : Contents, status : {"pending"}, chunk_count : {0}]]
    /\ chunks = [d \in Documents |-> {}]
    /\ boot = [k \in Starts |-> [pc |-> "off", orgs |-> {}, todo |-> {}]]
    /\ iw = [w \in Ingesters |-> Fresh("idle")]
    /\ faults = 0

Fault == faults < MaxFaults /\ faults' = faults + 1

-----------------------------------------------------------------------------
\* The api's start, server.ts main.

\* ensureQueue for both queues: pgmq.create does nothing to one that exists.
ensureQueue(k) ==
    /\ boot[k].pc = "off"
    /\ ready' = TRUE
    /\ boot' = [boot EXCEPT ![k].pc = "enqueueing", ![k].orgs = Orgs]
    /\ UNCHANGED <<queue, doc, chunks, iw, faults>>

\* select id from documents where status = 'pending', one org at a time
readPending(k, org) ==
    /\ boot[k].pc = "enqueueing"
    /\ boot[k].todo = {}
    /\ org \in boot[k].orgs
    /\ boot' = [boot EXCEPT ![k].orgs = @ \ {org},
                            ![k].todo = {d \in org : doc[d].status = "pending"}]
    /\ UNCHANGED <<queue, doc, chunks, ready, iw, faults>>

enqueue(k, d) ==
    /\ d \in boot[k].todo
    /\ send(<<d, k>>)
    /\ boot' = [boot EXCEPT ![k].todo = @ \ {d}]
    /\ UNCHANGED <<doc, chunks, ready, iw, faults>>

listen(k) ==
    /\ boot[k].pc = "enqueueing"
    /\ boot[k].orgs = {} /\ boot[k].todo = {}
    /\ boot' = [boot EXCEPT ![k].pc = "listening"]
    /\ UNCHANGED <<queue, doc, chunks, ready, iw, faults>>

\* Mutant: the failed send is swallowed and the rest of the list is skipped.
AfterFailedSend_Listens(k) == [pc |-> "listening", orgs |-> {}, todo |-> {}]

\* main().catch: the process never listens, and is started again as another.
AfterFailedSend(k) == [pc |-> "failed", orgs |-> {}, todo |-> {}]

sendFails(k) ==
    /\ boot[k].todo # {}
    /\ Fault
    /\ boot' = [boot EXCEPT ![k] = AfterFailedSend(k)]
    /\ UNCHANGED <<queue, doc, chunks, ready, iw>>

-----------------------------------------------------------------------------
\* The worker's ingest loop, consumer.py process_one_ingest.
Goto(w, step) == iw' = [iw EXCEPT ![w].pc = step]

Done(w) == iw' = [iw EXCEPT ![w] = Fresh("idle")]

\* The document of the message w holds.
DocOf(w) == iw[w].msg[1]

\* w is in its transaction on d, at one of these steps.
At(w, steps, d) == iw[w].pc \in steps /\ iw[w].msg \in IngestMessages /\ DocOf(w) = d

Start(w) ==
    /\ iw[w].pc = "down"
    /\ Goto(w, "idle")
    /\ UNCHANGED <<queue, doc, chunks, boot, ready, faults>>

\* pgmq.read of a queue that does not exist raises outside any try.
ReceiveFails(w) ==
    /\ iw[w].pc = "idle"
    /\ ~ready
    /\ Goto(w, "down")
    /\ UNCHANGED <<queue, doc, chunks, boot, ready, faults>>

Receive(w, m) ==
    /\ iw[w].pc = "idle"
    /\ receive(m)
    /\ iw' = [iw EXCEPT ![w] = [pc |-> "received", msg |-> m, old |-> {},
                                attempt |-> queue[m].read_ct + 1]]
    /\ UNCHANGED <<doc, chunks, boot, ready, faults>>

\* validate_ingest_message raises: dead-letter, do not retry.
RejectMalformed(w) ==
    /\ iw[w].pc = "received"
    /\ iw[w].msg \in Malformed
    /\ dead_letter(iw[w].msg)
    /\ Done(w)
    /\ UNCHANGED <<doc, chunks, boot, ready, faults>>

\* A permanent failure is an outcome: committed, then acknowledged.
MarkFailedAndCommit(w) ==
    /\ iw[w].pc = "received"
    /\ iw[w].msg \in IngestMessages
    /\ Size(DocOf(w)) = 0
    /\ doc' = [doc EXCEPT ![DocOf(w)].status = "failed", ![DocOf(w)].chunk_count = 0]
    /\ UNCHANGED <<queue, chunks, boot, ready>>

CommitFailed(w) ==
    /\ MarkFailedAndCommit(w)
    /\ Goto(w, "acking")
    /\ UNCHANGED faults

\* delete from chunks where document_id = d: the rows it will work on.
StartDelete(w) ==
    /\ iw[w].pc = "received"
    /\ iw[w].msg \in IngestMessages
    /\ Size(DocOf(w)) > 0
    /\ iw' = [iw EXCEPT ![w].pc = "replacing", ![w].old = chunks[DocOf(w)]]
    /\ UNCHANGED <<queue, doc, chunks, boot, ready, faults>>

\* Rows of d deleted by a transaction that is still open.
DeletedBy(v, d) == IF At(v, {"inserting", "inserted"}, d) THEN iw[v].old ELSE {}

\* The DELETE has waited for the others and skips what they have replaced.
DeleteOldChunks(w) ==
    LET d == DocOf(w) IN
    /\ iw[w].pc = "replacing"
    /\ \A v \in Ingesters \ {w} : DeletedBy(v, d) \cap iw[w].old = {}
    /\ iw' = [iw EXCEPT ![w].pc = "inserting", ![w].old = @ \cap chunks[d]]
    /\ UNCHANGED <<queue, doc, chunks, boot, ready, faults>>

\* Some other open transaction has an ord of d in doubt.
OrdsInDoubt(w, d) ==
    \E v \in Ingesters \ {w} : At(v, {"inserted"}, d) \/ DeletedBy(v, d) \cap chunks[d] # {}

\* Mutant: chunks has no unique constraint.
OrdsTaken_NoConstraint(w, d) == FALSE

\* unique(document_id, ord): a generation has all ords, so any row collides.
OrdsTaken(w, d) == chunks[d] \ iw[w].old # {}

\* The rows go in in order of ord, so that the first decides for all.
InsertChunks(w) ==
    LET d == DocOf(w) IN
    /\ iw[w].pc = "inserting"
    /\ ~OrdsInDoubt(w, d)
    /\ Goto(w, IF OrdsTaken(w, d) THEN "failed" ELSE "inserted")
    /\ UNCHANGED <<queue, doc, chunks, boot, ready, faults>>

\* Mutant: chunk_count is added to, not set.
ChunkCount_Adds(d) == doc[d].chunk_count + Size(d)

ChunkCount(d) == Size(d)

\* update documents; commit
IndexAndCommit(w) ==
    LET d == DocOf(w) IN
    /\ iw[w].pc = "inserted"
    /\ chunks' = [chunks EXCEPT ![d] =
                     (@ \ iw[w].old) \cup Generation(d, <<iw[w].msg, iw[w].attempt>>)]
    /\ doc' = [doc EXCEPT ![d].status = "indexed", ![d].chunk_count = ChunkCount(d)]
    /\ UNCHANGED <<queue, boot, ready>>

CommitIndexed(w) ==
    /\ IndexAndCommit(w)
    /\ Goto(w, "acking")
    /\ UNCHANGED faults

\* The commit succeeds and its confirmation never arrives: asyncpg raises.
CommitReplyLost(w) ==
    /\ MarkFailedAndCommit(w) \/ IndexAndCommit(w)
    /\ Fault
    /\ Goto(w, "failed")

\* DocumentNotFound, undecodable text, an unreadable PDF, the embedder, Postgres.
PipelineRaises(w) ==
    /\ \/ iw[w].pc = "received" /\ iw[w].msg \in IngestMessages
       \/ iw[w].pc \in {"replacing", "inserting", "inserted"}
    /\ Goto(w, "failed")
    /\ UNCHANGED <<queue, doc, chunks, boot, ready, faults>>

Ack(w) ==
    /\ iw[w].pc = "acking"
    /\ ack(iw[w].msg)
    /\ Done(w)
    /\ UNCHANGED <<doc, chunks, boot, ready, faults>>

NackOrDeadLetter(w) ==
    /\ iw[w].pc = "failed"
    /\ IF iw[w].attempt >= MaxDelivery
       THEN dead_letter(iw[w].msg)
       ELSE nack(iw[w].msg)
    /\ Done(w)
    /\ UNCHANGED <<doc, chunks, boot, ready, faults>>

\* The process dies (or stops between messages): Postgres rolls back.
Crash(w) ==
    /\ iw[w].pc # "down"
    /\ Fault
    /\ iw' = [iw EXCEPT ![w] = Fresh("down")]
    /\ UNCHANGED <<queue, doc, chunks, boot, ready>>

HoldsLease(w, m) == iw[w].msg = m /\ iw[w].attempt = queue[m].read_ct

\* A fault when a worker is still busy with that read.
LeaseRunsOut(m) ==
    /\ VisibilityTimeout(m)
    /\ IF \E w \in Ingesters : HoldsLease(w, m) THEN Fault ELSE UNCHANGED faults
    /\ UNCHANGED <<doc, chunks, boot, ready, iw>>

BootStep(k) ==
    \/ ensureQueue(k)
    \/ \E org \in Orgs : readPending(k, org)
    \/ \E d \in Documents : enqueue(k, d)
    \/ listen(k)

IngestStep(w) ==
    \/ Start(w) \/ ReceiveFails(w)
    \/ \E m \in Messages : Receive(w, m)
    \/ RejectMalformed(w)
    \/ CommitFailed(w)
    \/ StartDelete(w) \/ DeleteOldChunks(w) \/ InsertChunks(w) \/ CommitIndexed(w)
    \/ Ack(w) \/ NackOrDeadLetter(w)

IngestTrouble(w) == PipelineRaises(w) \/ CommitReplyLost(w) \/ Crash(w)

Next ==
    \/ \E k \in Starts : BootStep(k) \/ sendFails(k)
    \/ \E w \in Ingesters : IngestStep(w) \/ IngestTrouble(w)
    \/ \E m \in Messages : LeaseRunsOut(m)

Spec == Init /\ [][Next]_vars

\* The worker's loop and the queue's clock keep going, and a start that has
\* begun ends; that there is one is up to the deployment.
FairSpec ==
    /\ Spec
    /\ \A k \in Starts : WF_vars(boot[k].pc = "enqueueing" /\ BootStep(k))
    /\ \A w \in Ingesters : WF_vars(IngestStep(w))
    /\ \A m \in Messages : WF_vars(LeaseRunsOut(m) /\ UNCHANGED faults)

-----------------------------------------------------------------------------
TypeOK ==
    /\ QueueTypeOK
    /\ doc \in [Documents -> [raw : Contents, status : DocumentStatuses, chunk_count : Nat]]
    /\ \A d \in Documents : doc[d].chunk_count <= Size(d)
    /\ chunks \in [Documents -> SUBSET Chunks]
    /\ boot \in [Starts -> [pc : BootSteps, orgs : SUBSET Orgs, todo : SUBSET Documents]]
    /\ ready \in BOOLEAN
    /\ iw \in [Ingesters -> [pc : IngestSteps, msg : Messages \cup {NoMessage},
                             attempt : Nat, old : SUBSET Chunks]]
    /\ faults \in 0..MaxFaults

\* pipeline.py:1-6 and 99-101: a reader finds a document with no chunks until it
\* is indexed, and from then on one whole generation that matches chunk_count,
\* whatever deliveries overlap, fail or are repeated.
ChunksAreOneGeneration ==
    \A d \in Documents :
        CASE doc[d].status = "indexed" ->
                /\ doc[d].chunk_count = Size(d) /\ Size(d) > 0
                /\ \E c \in chunks[d] : chunks[d] = Generation(d, c.by)
          [] doc[d].status = "failed" -> Size(d) = 0 /\ chunks[d] = {}
          [] OTHER -> chunks[d] = {}

\* consumer.py:252: an ingest message is deleted only when its document is
\* indexed or marked failed, by this delivery or another.
AckedOnlyWhenSettled ==
    \A d \in Documents, k \in Starts :
        queue[<<d, k>>].at = "deleted" => doc[d].status # "pending"

\* seed-ingest.ts:5-18: when the api listens, each document that was seeded gets
\* indexed, marked failed, or a message of its own in the dead-letter archive.
PendingIsSettled ==
    \A k \in Starts, d \in Documents :
        boot[k].pc = "listening" ~>
            \/ doc[d].status # "pending"
            \/ \E j \in Starts : queue[<<d, j>>].at = "archived"
=============================================================================
