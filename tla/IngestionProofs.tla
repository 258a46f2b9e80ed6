-------------------------- MODULE IngestionProofs --------------------------
(***************************************************************************)
(* What ingestion promises a reader of chunks, for any number of           *)
(* documents, workers, api starts and faults.                              *)
(***************************************************************************)
EXTENDS Ingestion, TLAPS

USE IngestionAssumption DEF IngestionAssumption

InTransaction == {"replacing", "inserting", "inserted"}

\* A transaction works on the document its message names, one with content.
TransactionsHaveDocuments ==
    \A w \in Ingesters :
        iw[w].pc \in InTransaction =>
            iw[w].msg \in IngestMessages /\ Size(DocOf(w)) > 0

\* Whoever has inserted has deleted every committed chunk of the document.
InsertersHaveDeleted ==
    \A w \in Ingesters : iw[w].pc = "inserted" => chunks[DocOf(w)] \subseteq iw[w].old

\* The unique index lets one transaction at a time insert for a document.
OneInserterPerDocument ==
    \A v, w \in Ingesters :
        v # w /\ iw[v].pc = "inserted" /\ iw[w].pc = "inserted" => DocOf(v) # DocOf(w)

TInv == TypeOK /\ TransactionsHaveDocuments

IInv ==
    /\ TInv
    /\ InsertersHaveDeleted
    /\ OneInserterPerDocument
    /\ ChunksAreOneGeneration

\* The message of a transaction names a document.
LEMMA DocOfIsDocument ==
    ASSUME NEW w \in Ingesters, iw[w].msg \in IngestMessages
    PROVE  DocOf(w) \in Documents
BY DEF DocOf, IngestMessages

\* The rows a delivery inserts are rows of chunks.
LEMMA GenerationIsChunks ==
    ASSUME NEW d \in Documents, NEW by \in Messages \X Nat, doc[d].raw \in Nat
    PROVE  Generation(d, by) \subseteq Chunks
BY DEF Generation, Chunks, Size

\* The queue operations keep the type of the queue.
LEMMA QueueStepType ==
    ASSUME NEW m \in Messages, QueueTypeOK,
           send(m) \/ receive(m) \/ ack(m) \/ nack(m) \/ dead_letter(m)
             \/ VisibilityTimeout(m) \/ UNCHANGED queue
    PROVE  QueueTypeOK'
BY DEF QueueTypeOK, send, receive, ack, nack, dead_letter, VisibilityTimeout,
       MessagePlaces

LEMMA InitIInv == Init => IInv
  <1> SUFFICES ASSUME Init PROVE IInv
    OBVIOUS
  <1>1. TypeOK
    <2>1. QueueTypeOK
      BY DEF Init, QueueTypeOK, MessagePlaces
    <2>2. /\ doc \in [Documents -> [raw : Contents, status : DocumentStatuses, chunk_count : Nat]]
          /\ \A d \in Documents : doc[d].chunk_count <= Size(d)
      <3>1. doc \in [Documents -> [raw : Contents, status : {"pending"}, chunk_count : {0}]]
        BY DEF Init
      <3>2. \A d \in Documents : doc[d].raw \in Nat /\ doc[d].chunk_count = 0
        BY <3>1
      <3>3. \A d \in Documents : doc[d].chunk_count <= Size(d)
        BY <3>2 DEF Size
      <3>4. doc \in [Documents -> [raw : Contents, status : DocumentStatuses, chunk_count : Nat]]
        BY <3>1 DEF DocumentStatuses
      <3> QED BY <3>3, <3>4
    <2>3. boot \in [Starts -> [pc : BootSteps, orgs : SUBSET Orgs, todo : SUBSET Documents]]
      BY DEF Init, BootSteps
    <2>4. iw \in [Ingesters -> [pc : IngestSteps, msg : Messages \cup {NoMessage},
                                attempt : Nat, old : SUBSET Chunks]]
      BY DEF Init, Fresh, IngestSteps
    <2> QED BY <2>1, <2>2, <2>3, <2>4 DEF Init, TypeOK
  <1>2. TransactionsHaveDocuments /\ InsertersHaveDeleted /\ OneInserterPerDocument
    BY DEF Init, Fresh, InTransaction, TransactionsHaveDocuments, InsertersHaveDeleted,
           OneInserterPerDocument
  <1>3. ChunksAreOneGeneration
    BY DEF Init, ChunksAreOneGeneration
  <1> QED BY <1>1, <1>2, <1>3 DEF IInv, TInv

-----------------------------------------------------------------------------
\* The rows of documents and chunks, as far as types go.
RowsTypeOK ==
    /\ doc \in [Documents -> [raw : Contents, status : DocumentStatuses, chunk_count : Nat]]
    /\ \A d \in Documents : doc[d].chunk_count <= Size(d)
    /\ chunks \in [Documents -> SUBSET Chunks]

BootTypeOK ==
    boot \in [Starts -> [pc : BootSteps, orgs : SUBSET Orgs, todo : SUBSET Documents]]

IngesterStates == [pc : IngestSteps, msg : Messages \cup {NoMessage},
                   attempt : Nat, old : SUBSET Chunks]

\* What an action does to rows: nothing, or what one of the two commits does.
CommitStep(w) == MarkFailedAndCommit(w) \/ IndexAndCommit(w)

\* Committed rows change only in a commit.
LEMMA RowEffect ==
    ASSUME [Next]_vars
    PROVE  \/ UNCHANGED <<doc, chunks>>
           \/ \E w \in Ingesters :
                 CommitStep(w) /\ (Goto(w, "acking") \/ Goto(w, "failed"))
  <1>1. CASE UNCHANGED vars
    BY <1>1 DEF vars
  <1>2. CASE \E k \in Starts : BootStep(k) \/ sendFails(k)
    BY <1>2 DEF BootStep, ensureQueue, readPending, enqueue, listen, sendFails
  <1>3. ASSUME NEW w \in Ingesters, IngestStep(w) PROVE
           UNCHANGED <<doc, chunks>> \/ (CommitStep(w) /\ Goto(w, "acking"))
    <2>1. CASE Start(w) \/ ReceiveFails(w) \/ \E m \in Messages : Receive(w, m)
      BY <2>1 DEF Start, ReceiveFails, Receive
    <2>2. CASE RejectMalformed(w) \/ Ack(w) \/ NackOrDeadLetter(w)
      BY <2>2 DEF RejectMalformed, Ack, NackOrDeadLetter
    <2>3. CASE StartDelete(w) \/ DeleteOldChunks(w) \/ InsertChunks(w)
      BY <2>3 DEF StartDelete, DeleteOldChunks, InsertChunks
    <2>4. CASE CommitFailed(w) \/ CommitIndexed(w)
      BY <2>4 DEF CommitFailed, CommitIndexed, CommitStep
    <2> QED BY <1>3, <2>1, <2>2, <2>3, <2>4 DEF IngestStep
  <1>4. ASSUME NEW w \in Ingesters, IngestTrouble(w) PROVE
           UNCHANGED <<doc, chunks>> \/ (CommitStep(w) /\ Goto(w, "failed"))
    <2>1. CASE PipelineRaises(w) \/ Crash(w)
      BY <2>1 DEF PipelineRaises, Crash
    <2>2. CASE CommitReplyLost(w)
      BY <2>2 DEF CommitReplyLost, CommitStep
    <2> QED BY <1>4, <2>1, <2>2 DEF IngestTrouble
  <1>5. CASE \E m \in Messages : LeaseRunsOut(m)
    BY <1>5 DEF LeaseRunsOut
  <1> QED BY <1>1, <1>2, <1>3, <1>4, <1>5 DEF Next

\* An update of a document's status and count that keeps the count below raw.
LEMMA CountedRow ==
    ASSUME doc \in [Documents -> [raw : Contents, status : DocumentStatuses, chunk_count : Nat]],
           \A d \in Documents : doc[d].chunk_count <= doc[d].raw,
           NEW e, NEW s \in {"indexed", "failed"}, NEW n, n = 0 \/ n = doc[e].raw,
           doc' = [doc EXCEPT ![e].status = s, ![e].chunk_count = n]
    PROVE  /\ doc' \in [Documents -> [raw : Contents, status : DocumentStatuses, chunk_count : Nat]]
           /\ \A d \in Documents : doc'[d].chunk_count <= doc'[d].raw /\ doc'[d].raw = doc[d].raw
  <1> DEFINE row == [doc[e] EXCEPT !.status = s, !.chunk_count = n]
  <1>1. doc' = [doc EXCEPT ![e] = row]
    OBVIOUS
  <1>2. ASSUME e \in Documents PROVE
          /\ row \in [raw : Contents, status : DocumentStatuses, chunk_count : Nat]
          /\ row.chunk_count <= row.raw /\ row.raw = doc[e].raw
    <2>1. doc[e] \in [raw : Contents, status : DocumentStatuses, chunk_count : Nat]
      BY <1>2
    <2>2. doc[e].raw \in Contents /\ doc[e].raw \in Nat
      BY <2>1
    <2>3. n \in Nat /\ s \in DocumentStatuses
      BY <2>2 DEF DocumentStatuses
    <2>4. row \in [raw : Contents, status : DocumentStatuses, chunk_count : Nat]
      BY <2>1, <2>3
    <2>5. row.raw = doc[e].raw /\ row.chunk_count = n
      BY <2>1
    <2> HIDE DEF row
    <2> QED BY <2>2, <2>4, <2>5
  <1> HIDE DEF row
  <1>3. doc' \in [Documents -> [raw : Contents, status : DocumentStatuses, chunk_count : Nat]]
    <2> DEFINE Row == [raw : Contents, status : DocumentStatuses, chunk_count : Nat]
    <2>1. ASSUME e \in Documents PROVE row \in Row
      BY <1>2, <2>1
    <2>2. doc \in [Documents -> Row]
      OBVIOUS
    <2>3. doc' \in [Documents -> Row]
      <3> HIDE DEF Row
      <3> QED BY <1>1, <2>1, <2>2
    <2> QED BY <2>3
  <1>4. ASSUME NEW d \in Documents
        PROVE  doc'[d].chunk_count <= doc'[d].raw /\ doc'[d].raw = doc[d].raw
    BY <1>1, <1>2
  <1> QED BY <1>3, <1>4

\* The rows keep their type in a commit, and raw stays what it was.
LEMMA CommitRowsType ==
    ASSUME RowsTypeOK, TransactionsHaveDocuments, iw \in [Ingesters -> IngesterStates],
           NEW w \in Ingesters, CommitStep(w)
    PROVE  RowsTypeOK' /\ \A d \in Documents : Size(d)' = Size(d)
  <1>1. CASE MarkFailedAndCommit(w)
    <2>1. /\ doc' \in [Documents -> [raw : Contents, status : DocumentStatuses, chunk_count : Nat]]
          /\ \A d \in Documents : doc'[d].chunk_count <= doc'[d].raw /\ doc'[d].raw = doc[d].raw
      BY <1>1, CountedRow DEF MarkFailedAndCommit, RowsTypeOK, Size
    <2>2. chunks' = chunks
      BY <1>1 DEF MarkFailedAndCommit
    <2> QED BY <2>1, <2>2 DEF RowsTypeOK, Size
  <1>2. CASE IndexAndCommit(w)
    <2>1. iw[w].msg \in IngestMessages /\ iw[w].attempt \in Nat /\ iw[w].msg \in Messages
      BY <1>2 DEF IndexAndCommit, TransactionsHaveDocuments, InTransaction, IngesterStates
    <2>2. DocOf(w) \in Documents
      BY <2>1, DocOfIsDocument
    <2>3. Generation(DocOf(w), <<iw[w].msg, iw[w].attempt>>) \subseteq Chunks
      BY <2>1, <2>2, GenerationIsChunks DEF RowsTypeOK
    <2>4. chunks' \in [Documents -> SUBSET Chunks]
      BY <1>2, <2>3 DEF IndexAndCommit, RowsTypeOK
    <2>5. /\ doc' \in [Documents -> [raw : Contents, status : DocumentStatuses, chunk_count : Nat]]
          /\ \A d \in Documents : doc'[d].chunk_count <= doc'[d].raw /\ doc'[d].raw = doc[d].raw
      BY <1>2, <2>2, CountedRow DEF IndexAndCommit, RowsTypeOK, Size, ChunkCount
    <2> QED BY <2>4, <2>5 DEF RowsTypeOK, Size
  <1> QED BY <1>1, <1>2 DEF CommitStep

\* Every step keeps the type of the rows and every document's raw.
LEMMA RowsStep ==
    ASSUME TInv, [Next]_vars
    PROVE  RowsTypeOK' /\ \A d \in Documents : Size(d)' = Size(d)
  <1>1. RowsTypeOK /\ TransactionsHaveDocuments /\ iw \in [Ingesters -> IngesterStates]
    BY DEF TInv, TypeOK, RowsTypeOK, IngesterStates
  <1>2. CASE UNCHANGED <<doc, chunks>>
    BY <1>1, <1>2 DEF RowsTypeOK, Size
  <1>3. ASSUME NEW w \in Ingesters, CommitStep(w)
        PROVE  RowsTypeOK' /\ \A d \in Documents : Size(d)' = Size(d)
    BY <1>1, <1>3, CommitRowsType
  <1> QED BY <1>2, <1>3, RowEffect

-----------------------------------------------------------------------------
\* A worker's state after one of its own steps: a move, a reset or a message.
LEMMA GotoEffect ==
    ASSUME iw \in [Ingesters -> IngesterStates], NEW w \in Ingesters,
           NEW step \in IngestSteps, Goto(w, step)
    PROVE  /\ iw' \in [Ingesters -> IngesterStates]
           /\ iw'[w].pc = step /\ iw'[w].msg = iw[w].msg /\ iw'[w].old = iw[w].old
           /\ \A v \in Ingesters \ {w} : iw'[v] = iw[v]
BY DEF Goto, IngesterStates

LEMMA FreshEffect ==
    ASSUME iw \in [Ingesters -> IngesterStates], NEW w \in Ingesters,
           NEW step \in {"idle", "down"}, iw' = [iw EXCEPT ![w] = Fresh(step)]
    PROVE  /\ iw' \in [Ingesters -> IngesterStates]
           /\ iw'[w].pc = step
           /\ \A v \in Ingesters \ {w} : iw'[v] = iw[v]
BY DEF Fresh, IngesterStates, IngestSteps

LEMMA ReceiveEffect ==
    ASSUME TypeOK, NEW w \in Ingesters, NEW m \in Messages, Receive(w, m)
    PROVE  /\ iw' \in [Ingesters -> IngesterStates]
           /\ iw'[w].pc = "received"
           /\ \A v \in Ingesters \ {w} : iw'[v] = iw[v]
  <1> DEFINE new == [pc |-> "received", msg |-> m, old |-> {}, attempt |-> queue[m].read_ct + 1]
  <1>1. queue[m].read_ct + 1 \in Nat
    BY DEF TypeOK, QueueTypeOK
  <1>2. new \in IngesterStates /\ new.pc = "received"
    BY <1>1 DEF IngesterStates, IngestSteps
  <1>3. iw' = [iw EXCEPT ![w] = new] /\ iw \in [Ingesters -> IngesterStates]
    BY DEF Receive, TypeOK, IngesterStates
  <1> HIDE DEF new
  <1> QED BY <1>2, <1>3

\* What a transaction's three inner steps do to their worker.
LEMMA TransactionEffect ==
    ASSUME TypeOK, NEW w \in Ingesters,
           StartDelete(w) \/ DeleteOldChunks(w) \/ InsertChunks(w)
    PROVE  /\ iw' \in [Ingesters -> IngesterStates]
           /\ iw'[w].msg = iw[w].msg
           /\ \A v \in Ingesters \ {w} : iw'[v] = iw[v]
           /\ StartDelete(w) => iw'[w].pc = "replacing"
           /\ DeleteOldChunks(w) => iw'[w].pc = "inserting"
           /\ InsertChunks(w) => /\ iw'[w].pc \in {"inserted", "failed"}
                                 /\ iw'[w].pc = "inserted" => ~OrdsTaken(w, DocOf(w))
                                 /\ iw'[w].old = iw[w].old
  <1>0. iw \in [Ingesters -> IngesterStates] /\ chunks \in [Documents -> SUBSET Chunks]
    BY DEF TypeOK, IngesterStates
  <1>1. CASE StartDelete(w)
    <2> DEFINE new == [iw[w] EXCEPT !.pc = "replacing", !.old = chunks[DocOf(w)]]
    <2>1. iw' = [iw EXCEPT ![w] = new]
      BY <1>1 DEF StartDelete
    <2>2. chunks[DocOf(w)] \in SUBSET Chunks
      BY <1>0, <1>1, DocOfIsDocument DEF StartDelete
    <2>3. new \in IngesterStates /\ new.msg = iw[w].msg /\ new.pc = "replacing"
      BY <1>0, <2>2 DEF IngesterStates, IngestSteps
    <2>4. iw[w].pc = "received"
      BY <1>1 DEF StartDelete
    <2> HIDE DEF new
    <2> QED BY <1>0, <2>1, <2>3, <2>4 DEF DeleteOldChunks, InsertChunks
  <1>2. CASE DeleteOldChunks(w)
    <2> DEFINE new == [iw[w] EXCEPT !.pc = "inserting", !.old = @ \cap chunks[DocOf(w)]]
    <2>1. iw' = [iw EXCEPT ![w] = new]
      BY <1>2 DEF DeleteOldChunks
    <2>2. new \in IngesterStates /\ new.msg = iw[w].msg /\ new.pc = "inserting"
      BY <1>0 DEF IngesterStates, IngestSteps
    <2>3. iw[w].pc = "replacing"
      BY <1>2 DEF DeleteOldChunks
    <2> HIDE DEF new
    <2> QED BY <1>0, <2>1, <2>2, <2>3 DEF StartDelete, InsertChunks
  <1>3. CASE InsertChunks(w)
    <2>1. PICK step \in {"failed", "inserted"} :
            /\ Goto(w, step)
            /\ step = "inserted" => ~OrdsTaken(w, DocOf(w))
      BY <1>3 DEF InsertChunks
    <2>2. iw[w].pc = "inserting"
      BY <1>3 DEF InsertChunks
    <2>3. step \in IngestSteps
      BY <2>1 DEF IngestSteps
    <2> QED BY <1>0, <2>1, <2>2, <2>3, GotoEffect DEF StartDelete, DeleteOldChunks
  <1> QED BY <1>1, <1>2, <1>3

\* Each step sets the state of at most one worker, and keeps its type.
LEMMA WorkerEffect ==
    ASSUME TypeOK, [Next]_vars
    PROVE  \/ UNCHANGED iw
           \/ \E w \in Ingesters :
                 /\ iw' \in [Ingesters -> IngesterStates]
                 /\ \A v \in Ingesters \ {w} : iw'[v] = iw[v]
                 /\ \/ iw'[w].pc \notin InTransaction
                    \/ StartDelete(w) \/ DeleteOldChunks(w) \/ InsertChunks(w)
                 /\ iw'[w].pc = "acking" => CommitStep(w) /\ Goto(w, "acking")
  <1> DEFINE Own(w) ==
        /\ iw' \in [Ingesters -> IngesterStates]
        /\ \A v \in Ingesters \ {w} : iw'[v] = iw[v]
        /\ \/ iw'[w].pc \notin InTransaction
           \/ StartDelete(w) \/ DeleteOldChunks(w) \/ InsertChunks(w)
        /\ iw'[w].pc = "acking" => CommitStep(w) /\ Goto(w, "acking")
  <1>0. iw \in [Ingesters -> IngesterStates]
    BY DEF TypeOK, IngesterStates
  <1>1. CASE UNCHANGED vars
    BY <1>1 DEF vars
  <1>2. CASE \E k \in Starts : BootStep(k) \/ sendFails(k)
    BY <1>2 DEF BootStep, ensureQueue, readPending, enqueue, listen, sendFails
  <1>3. CASE \E m \in Messages : LeaseRunsOut(m)
    BY <1>3 DEF LeaseRunsOut
  <1>4. ASSUME NEW w \in Ingesters, IngestStep(w) \/ IngestTrouble(w) PROVE Own(w)
    <2>1. ASSUME NEW step \in {"idle", "down", "failed"}, Goto(w, step) PROVE Own(w)
      BY <1>0, <2>1, GotoEffect DEF IngestSteps, InTransaction
    <2>2. ASSUME NEW step \in {"idle", "down"}, iw' = [iw EXCEPT ![w] = Fresh(step)]
          PROVE  Own(w)
      BY <1>0, <2>2, FreshEffect DEF InTransaction
    <2>3. CASE \E m \in Messages : Receive(w, m)
      BY <2>3, ReceiveEffect DEF InTransaction
    <2>4. CASE StartDelete(w) \/ DeleteOldChunks(w) \/ InsertChunks(w)
      BY <2>4, TransactionEffect
    <2>5. CASE Start(w) \/ ReceiveFails(w)
      BY <2>1, <2>5 DEF Start, ReceiveFails
    <2>9. CASE CommitFailed(w) \/ CommitIndexed(w)
      <3>1. CommitStep(w) /\ Goto(w, "acking")
        BY <2>9 DEF CommitFailed, CommitIndexed, CommitStep
      <3> QED BY <1>0, <3>1, GotoEffect DEF IngestSteps, InTransaction
    <2>6. CASE PipelineRaises(w) \/ CommitReplyLost(w)
      BY <2>1, <2>6 DEF PipelineRaises, CommitReplyLost
    <2>7. CASE RejectMalformed(w) \/ Ack(w) \/ NackOrDeadLetter(w)
      BY <2>2, <2>7 DEF RejectMalformed, Ack, NackOrDeadLetter, Done
    <2>8. CASE Crash(w)
      BY <2>2, <2>8 DEF Crash
    <2> QED BY <1>4, <2>3, <2>4, <2>5, <2>6, <2>7, <2>8, <2>9
           DEF IngestStep, IngestTrouble
  <1> QED BY <1>1, <1>2, <1>3, <1>4 DEF Next

\* The three inner steps leave the rows alone.
LEMMA TransactionKeepsRows ==
    ASSUME NEW w, StartDelete(w) \/ DeleteOldChunks(w) \/ InsertChunks(w)
    PROVE  UNCHANGED <<queue, doc, chunks, boot, ready, faults>>
  <1>1. CASE StartDelete(w)
    BY <1>1 DEF StartDelete
  <1>2. CASE DeleteOldChunks(w)
    BY <1>2 DEF DeleteOldChunks
  <1>3. CASE InsertChunks(w)
    BY <1>3 DEF InsertChunks
  <1> QED BY <1>1, <1>2, <1>3

\* A step keeps every open transaction on a document with content.
LEMMA TransactionsStep ==
    ASSUME TInv, [Next]_vars
    PROVE  TransactionsHaveDocuments'
  <1> SUFFICES ASSUME NEW w \in Ingesters, iw'[w].pc \in InTransaction
               PROVE  iw'[w].msg \in IngestMessages /\ (Size(DocOf(w)) > 0)'
    BY DEF TransactionsHaveDocuments
  <1>1. iw[w].msg \in IngestMessages /\ iw'[w].msg = iw[w].msg /\ Size(DocOf(w)) > 0
    <2>1. CASE iw'[w] = iw[w]
      BY <2>1 DEF TInv, TransactionsHaveDocuments
    <2>2. CASE StartDelete(w)
      BY <2>2, TransactionEffect DEF StartDelete, TInv
    <2>3. CASE DeleteOldChunks(w) \/ InsertChunks(w)
      <3>1. iw[w].pc \in InTransaction
        BY <2>3 DEF DeleteOldChunks, InsertChunks, InTransaction
      <3> QED BY <2>3, <3>1, TransactionEffect DEF TInv, TransactionsHaveDocuments
    <2> QED BY <2>1, <2>2, <2>3, WorkerEffect DEF TInv
  <1>2. DocOf(w) \in Documents /\ DocOf(w)' = DocOf(w)
    BY <1>1, DocOfIsDocument DEF DocOf
  <1>3. Size(DocOf(w))' = Size(DocOf(w))
    BY <1>2, RowsStep DEF Size
  <1> QED BY <1>1, <1>3

-----------------------------------------------------------------------------
LEMMA BootStepType ==
    ASSUME TypeOK, [Next]_vars
    PROVE  BootTypeOK' /\ ready' \in BOOLEAN /\ faults' \in 0..MaxFaults
  <1>1. BootTypeOK /\ ready \in BOOLEAN /\ faults \in 0..MaxFaults
    BY DEF TypeOK, BootTypeOK
  <1>2. CASE UNCHANGED vars
    BY <1>1, <1>2 DEF vars, BootTypeOK
  <1>3. ASSUME NEW k \in Starts, BootStep(k)
        PROVE  BootTypeOK' /\ ready' \in BOOLEAN /\ faults' = faults
    <2>1. CASE ensureQueue(k)
      BY <1>1, <2>1 DEF ensureQueue, BootTypeOK, BootSteps
    <2>2. CASE \E org \in Orgs : readPending(k, org)
      <3>1. PICK org \in Orgs : readPending(k, org)
        BY <2>2
      <3> DEFINE due == {d \in org : doc[d].status = "pending"}
      <3>2. due \in SUBSET Documents
        OBVIOUS
      <3>3. boot' = [boot EXCEPT ![k].orgs = @ \ {org}, ![k].todo = due]
        BY <3>1 DEF readPending
      <3>4. UNCHANGED <<ready, faults>>
        BY <3>1 DEF readPending
      <3> HIDE DEF due
      <3> QED BY <1>1, <3>2, <3>3, <3>4 DEF BootTypeOK
    <2>3. CASE \E d \in Documents : enqueue(k, d)
      BY <1>1, <2>3 DEF enqueue, BootTypeOK
    <2>4. CASE listen(k)
      BY <1>1, <2>4 DEF listen, BootTypeOK, BootSteps
    <2> QED BY <1>3, <2>1, <2>2, <2>3, <2>4 DEF BootStep
  <1>4. ASSUME NEW k \in Starts, sendFails(k)
        PROVE  BootTypeOK' /\ ready' \in BOOLEAN /\ faults' \in 0..MaxFaults
    BY <1>1, <1>4 DEF sendFails, AfterFailedSend, Fault, BootTypeOK, BootSteps
  <1>5. ASSUME NEW w \in Ingesters, IngestStep(w)
        PROVE  UNCHANGED <<boot, ready, faults>>
    <2>1. CASE Start(w) \/ ReceiveFails(w) \/ \E m \in Messages : Receive(w, m)
      BY <2>1 DEF Start, ReceiveFails, Receive
    <2>2. CASE RejectMalformed(w) \/ Ack(w) \/ NackOrDeadLetter(w)
      BY <2>2 DEF RejectMalformed, Ack, NackOrDeadLetter
    <2>3. CASE CommitFailed(w) \/ CommitIndexed(w)
      BY <2>3 DEF CommitFailed, CommitIndexed, MarkFailedAndCommit, IndexAndCommit
    <2> QED BY <1>5, <2>1, <2>2, <2>3, TransactionKeepsRows DEF IngestStep
  <1>6. ASSUME NEW w \in Ingesters, IngestTrouble(w)
        PROVE  UNCHANGED <<boot, ready>> /\ faults' \in 0..MaxFaults
    BY <1>1, <1>6 DEF IngestTrouble, PipelineRaises, CommitReplyLost, Crash, Fault,
       MarkFailedAndCommit, IndexAndCommit
  <1>7. CASE \E m \in Messages : LeaseRunsOut(m)
    <2>1. UNCHANGED <<boot, ready>> /\ faults' \in 0..MaxFaults
      BY <1>1, <1>7 DEF LeaseRunsOut, Fault
    <2> QED BY <1>1, <2>1 DEF BootTypeOK
  <1> QED BY <1>1, <1>2, <1>3, <1>4, <1>5, <1>6, <1>7 DEF Next, BootTypeOK

LEMMA QueueStep ==
    ASSUME TypeOK, [Next]_vars
    PROVE  QueueTypeOK'
  <1>1. QueueTypeOK /\ iw \in [Ingesters -> IngesterStates]
    BY DEF TypeOK, IngesterStates
  <1>2. CASE UNCHANGED queue
    BY <1>1, <1>2 DEF QueueTypeOK
  <1>3. ASSUME NEW k \in Starts, NEW d \in Documents, enqueue(k, d) PROVE QueueTypeOK'
    <2>1. <<d, k>> \in Messages /\ send(<<d, k>>)
      BY <1>3 DEF enqueue, IngestMessages
    <2> QED BY <1>1, <2>1, QueueStepType
  <1>4. ASSUME NEW m \in Messages,
               LeaseRunsOut(m) \/ \E w \in Ingesters : Receive(w, m)
        PROVE  QueueTypeOK'
    BY <1>1, <1>4, QueueStepType DEF LeaseRunsOut, Receive
  <1>5. ASSUME NEW w \in Ingesters, RejectMalformed(w) \/ Ack(w) \/ NackOrDeadLetter(w)
        PROVE  QueueTypeOK'
    \* A message that is none is in no queue.
    <2>1. PICK m : m = iw[w].msg /\ (ack(m) \/ nack(m) \/ dead_letter(m))
      BY <1>5 DEF RejectMalformed, Ack, NackOrDeadLetter
    <2>2. CASE m \in Messages
      BY <1>1, <2>1, <2>2, QueueStepType
    <2>3. CASE m \notin Messages
      BY <1>1, <2>1, <2>3 DEF ack, nack, dead_letter, QueueTypeOK
    <2> QED BY <2>2, <2>3
  <1>6. \/ UNCHANGED queue
        \/ \E k \in Starts, d \in Documents : enqueue(k, d)
        \/ \E m \in Messages : LeaseRunsOut(m) \/ \E w \in Ingesters : Receive(w, m)
        \/ \E w \in Ingesters : RejectMalformed(w) \/ Ack(w) \/ NackOrDeadLetter(w)
    <2>1. CASE UNCHANGED vars
      BY <2>1 DEF vars
    <2>2. CASE \E k \in Starts : BootStep(k) \/ sendFails(k)
      BY <2>2 DEF BootStep, ensureQueue, readPending, listen, sendFails
    <2>3. ASSUME NEW w \in Ingesters,
             \/ Start(w) \/ ReceiveFails(w) \/ CommitFailed(w) \/ CommitIndexed(w)
             \/ IngestTrouble(w)
          PROVE  UNCHANGED queue
      BY <2>3 DEF Start, ReceiveFails, CommitFailed, CommitIndexed, IngestTrouble,
         PipelineRaises, CommitReplyLost, Crash, MarkFailedAndCommit, IndexAndCommit
    <2> QED BY <2>1, <2>2, <2>3, TransactionKeepsRows DEF Next, IngestStep
  <1> QED BY <1>2, <1>3, <1>4, <1>5, <1>6

LEMMA TInvStep ==
    ASSUME TInv, [Next]_vars
    PROVE  TInv'
  <1>1. iw' \in [Ingesters -> IngesterStates]
    BY WorkerEffect DEF TInv, TypeOK, IngesterStates
  <1>2. QueueTypeOK' /\ RowsTypeOK' /\ BootTypeOK' /\ ready' \in BOOLEAN /\ faults' \in 0..MaxFaults
    BY QueueStep, RowsStep, BootStepType DEF TInv
  <1>3. TypeOK'
    BY <1>1, <1>2 DEF TypeOK, RowsTypeOK, BootTypeOK, IngesterStates
  <1> QED BY <1>3, TransactionsStep DEF TInv

\* ingestion keeps every variable within its type, whatever the instance.
THEOREM TypeCorrect == Spec => []TypeOK
  <1>1. Init => TInv
    BY InitIInv DEF IInv
  <1>2. TInv /\ [Next]_vars => TInv'
    BY TInvStep
  <1>3. TInv => TypeOK
    BY DEF TInv
  <1> QED BY <1>1, <1>2, <1>3, PTL DEF Spec

-----------------------------------------------------------------------------
\* A worker that has inserted and stays so commits nothing and deletes nothing
\* more; whoever becomes one passed the unique index alone.
LEMMA InserterIsOldOrPassed ==
    ASSUME IInv, [Next]_vars, NEW w \in Ingesters, iw'[w].pc = "inserted"
    PROVE  \/ iw'[w] = iw[w]
           \/ /\ InsertChunks(w) /\ UNCHANGED chunks
              /\ iw'[w].old = iw[w].old /\ iw'[w].msg = iw[w].msg
              /\ ~OrdsTaken(w, DocOf(w))
              /\ \A v \in Ingesters \ {w} : iw'[v] = iw[v]
  <1>1. CASE StartDelete(w) \/ DeleteOldChunks(w) \/ InsertChunks(w)
    BY <1>1, TransactionEffect, TransactionKeepsRows DEF IInv, TInv
  <1> QED BY <1>1, WorkerEffect DEF IInv, TInv, InTransaction

\* A commit on d moves its own worker out of "inserted".
LEMMA CommitterLeaves ==
    ASSUME IInv, NEW v \in Ingesters, CommitStep(v),
           Goto(v, "acking") \/ Goto(v, "failed"),
           NEW w \in Ingesters, iw'[w].pc = "inserted"
    PROVE  w # v /\ chunks'[DocOf(w)] = chunks[DocOf(w)]
  <1>1. iw \in [Ingesters -> IngesterStates]
    BY DEF IInv, TInv, TypeOK, IngesterStates
  <1>2. iw'[v].pc \in {"acking", "failed"} /\ \A u \in Ingesters \ {v} : iw'[u] = iw[u]
    BY <1>1, GotoEffect DEF IngestSteps
  <1>3. w # v /\ iw[w].pc = "inserted"
    BY <1>2
  <1>4. CASE MarkFailedAndCommit(v)
    BY <1>3, <1>4 DEF MarkFailedAndCommit
  <1>5. CASE IndexAndCommit(v)
    <2>1. DocOf(w) # DocOf(v)
      BY <1>3, <1>5 DEF IndexAndCommit, IInv, OneInserterPerDocument
    <2>2. DocOf(w) \in Documents
      BY <1>3, DocOfIsDocument DEF IInv, TInv, TransactionsHaveDocuments, InTransaction
    <2>3. chunks \in [Documents -> SUBSET Chunks]
      BY DEF IInv, TInv, TypeOK
    <2> QED BY <1>3, <1>5, <2>1, <2>2, <2>3 DEF IndexAndCommit
  <1> QED BY <1>4, <1>5 DEF CommitStep

LEMMA InsertersHaveDeletedStep ==
    ASSUME IInv, [Next]_vars
    PROVE  InsertersHaveDeleted'
  <1> SUFFICES ASSUME NEW w \in Ingesters, iw'[w].pc = "inserted"
               PROVE  (chunks[DocOf(w)] \subseteq iw[w].old)'
    BY DEF InsertersHaveDeleted
  <1>1. CASE iw'[w] = iw[w]
    <2>1. chunks[DocOf(w)] \subseteq iw[w].old /\ DocOf(w)' = DocOf(w)
      BY <1>1 DEF IInv, InsertersHaveDeleted, DocOf
    <2>2. chunks'[DocOf(w)] = chunks[DocOf(w)]
      BY RowEffect, CommitterLeaves
    <2> QED BY <1>1, <2>1, <2>2
  <1>2. CASE ~OrdsTaken(w, DocOf(w)) /\ UNCHANGED chunks
             /\ iw'[w].old = iw[w].old /\ iw'[w].msg = iw[w].msg
    BY <1>2 DEF OrdsTaken, DocOf
  <1> QED BY <1>1, <1>2, InserterIsOldOrPassed

\* An insert goes through only when nobody else's rows are in doubt.
LEMMA OneInserterStep ==
    ASSUME IInv, [Next]_vars
    PROVE  OneInserterPerDocument'
  <1>1. ASSUME NEW v \in Ingesters, NEW w \in Ingesters, v # w, iw'[v] = iw[v],
               iw'[v].pc = "inserted", iw'[w].pc = "inserted", InsertChunks(w),
               iw'[w].msg = iw[w].msg
        PROVE  (DocOf(v) # DocOf(w))'
    <2>1. iw[v].msg \in IngestMessages
      BY <1>1 DEF IInv, TInv, TransactionsHaveDocuments, InTransaction
    <2>2. ~At(v, {"inserted"}, DocOf(w))
      BY <1>1 DEF InsertChunks, OrdsInDoubt
    <2>3. DocOf(v) # DocOf(w)
      BY <1>1, <2>1, <2>2 DEF At
    <2> QED BY <1>1, <2>3 DEF DocOf
  <1>2. ASSUME NEW v \in Ingesters, NEW w \in Ingesters, v # w,
               iw'[v].pc = "inserted", iw'[w].pc = "inserted"
        PROVE  (DocOf(v) # DocOf(w))'
    <2>1. CASE iw'[v] = iw[v] /\ iw'[w] = iw[w]
      BY <1>2, <2>1 DEF IInv, OneInserterPerDocument, DocOf
    <2>2. CASE iw'[w] # iw[w]
      BY <1>1, <1>2, <2>2, InserterIsOldOrPassed
    <2>3. CASE iw'[v] # iw[v]
      BY <1>1, <1>2, <2>3, InserterIsOldOrPassed
    <2> QED BY <2>1, <2>2, <2>3
  <1> QED BY <1>2 DEF OneInserterPerDocument

\* A commit replaces all there was by one generation, or finds nothing to do.
LEMMA GenerationStep ==
    ASSUME IInv, [Next]_vars
    PROVE  ChunksAreOneGeneration'
  <1> SUFFICES ASSUME NEW d \in Documents
      PROVE  (CASE doc[d].status = "indexed" ->
                     /\ doc[d].chunk_count = Size(d) /\ Size(d) > 0
                     /\ \E c \in chunks[d] : chunks[d] = Generation(d, c.by)
               [] doc[d].status = "failed" -> Size(d) = 0 /\ chunks[d] = {}
               [] OTHER -> chunks[d] = {})'
    BY DEF ChunksAreOneGeneration
  <1>1. CASE doc'[d] = doc[d] /\ chunks'[d] = chunks[d]
    BY <1>1 DEF IInv, ChunksAreOneGeneration, Size, Generation
  <1>2. ASSUME NEW w \in Ingesters, MarkFailedAndCommit(w), DocOf(w) = d
        PROVE  doc'[d].status = "failed" /\ Size(d)' = 0 /\ chunks'[d] = {}
    <2>1. Size(d) = 0 /\ chunks' = chunks /\ doc'[d].status = "failed"
      BY <1>2 DEF MarkFailedAndCommit, IInv, TInv, TypeOK
    <2>2. doc[d].status \in DocumentStatuses
      BY DEF IInv, TInv, TypeOK
    <2>3. chunks[d] = {}
      BY <2>1, <2>2 DEF IInv, ChunksAreOneGeneration, DocumentStatuses
    <2> QED BY <2>1, <2>3, RowsStep DEF IInv
  <1>3. ASSUME NEW w \in Ingesters, IndexAndCommit(w), DocOf(w) = d
        PROVE  /\ doc'[d].status = "indexed"
               /\ (doc[d].chunk_count = Size(d) /\ Size(d) > 0)'
               /\ (\E c \in chunks[d] : chunks[d] = Generation(d, c.by))'
    <2> DEFINE by == <<iw[w].msg, iw[w].attempt>>
    <2>1. Size(d) > 0 /\ chunks[d] \subseteq iw[w].old /\ Size(d) \in Nat
      BY <1>3 DEF IndexAndCommit, IInv, TInv, TypeOK, TransactionsHaveDocuments,
                  InTransaction, InsertersHaveDeleted, Size
    <2>2. Size(d)' = Size(d)
      BY RowsStep DEF IInv
    <2>3. chunks'[d] = Generation(d, by)
      BY <1>3, <2>1 DEF IndexAndCommit, IInv, TInv, TypeOK
    <2>4. doc'[d].status = "indexed" /\ doc'[d].chunk_count = Size(d)
      BY <1>3 DEF IndexAndCommit, IInv, TInv, TypeOK, ChunkCount
    <2>5. [ord |-> 0, by |-> by] \in Generation(d, by)
      BY <2>1 DEF Generation
    <2>6. \A b : {[ord |-> i, by |-> b] : i \in 0..(Size(d)' - 1)} =
               {[ord |-> i, by |-> b] : i \in 0..(Size(d) - 1)}
      BY <2>2
    <2> QED BY <2>1, <2>2, <2>3, <2>4, <2>5, <2>6 DEF Generation
  <1>4. ASSUME NEW w \in Ingesters, CommitStep(w), DocOf(w) # d
        PROVE  doc'[d] = doc[d] /\ chunks'[d] = chunks[d]
    BY <1>4 DEF CommitStep, MarkFailedAndCommit, IndexAndCommit, IInv, TInv, TypeOK
  <1> QED BY <1>1, <1>2, <1>3, <1>4, RowEffect DEF CommitStep

\* A reader of any document's chunks, at any moment of any interleaving of
\* deliveries, sees none or one whole generation, and failed has none.
THEOREM OneGeneration == Spec => []ChunksAreOneGeneration
  <1>1. IInv /\ [Next]_vars => IInv'
    BY TInvStep, InsertersHaveDeletedStep, OneInserterStep, GenerationStep DEF IInv
  <1>2. IInv => ChunksAreOneGeneration
    BY DEF IInv
  <1> QED BY InitIInv, <1>1, <1>2, PTL DEF Spec

-----------------------------------------------------------------------------
\* The worker that is about to acknowledge has seen its commit succeed.
AckingIsSettled ==
    \A w \in Ingesters :
        iw[w].pc = "acking" =>
            iw[w].msg \in IngestMessages /\ doc[DocOf(w)].status # "pending"

AckInv == TInv /\ AckingIsSettled /\ AckedOnlyWhenSettled

\* Nothing takes a document back to pending.
LEMMA SettledStays ==
    ASSUME TInv, [Next]_vars, NEW d \in Documents, doc[d].status # "pending"
    PROVE  doc'[d].status # "pending"
  <1>1. doc \in [Documents -> [raw : Contents, status : DocumentStatuses, chunk_count : Nat]]
    BY DEF TInv, TypeOK
  <1>2. ASSUME NEW w \in Ingesters, CommitStep(w) PROVE doc'[d].status # "pending"
    BY <1>1, <1>2 DEF CommitStep, MarkFailedAndCommit, IndexAndCommit
  <1> QED BY <1>1, <1>2, RowEffect

\* A worker enters "acking" by a commit of its own.
LEMMA AckingStep ==
    ASSUME AckInv, [Next]_vars
    PROVE  AckingIsSettled'
  <1> SUFFICES ASSUME NEW w \in Ingesters, iw'[w].pc = "acking"
               PROVE  iw'[w].msg \in IngestMessages /\ (doc[DocOf(w)].status # "pending")'
    BY DEF AckingIsSettled
  <1>0. /\ iw \in [Ingesters -> IngesterStates]
        /\ doc \in [Documents -> [raw : Contents, status : DocumentStatuses, chunk_count : Nat]]
    BY DEF AckInv, TInv, TypeOK, IngesterStates
  <1>1. CASE iw'[w] = iw[w]
    <2>1. iw[w].msg \in IngestMessages /\ doc[DocOf(w)].status # "pending"
      BY <1>1 DEF AckInv, AckingIsSettled
    <2>2. DocOf(w) \in Documents /\ DocOf(w)' = DocOf(w)
      BY <1>1, <2>1, DocOfIsDocument DEF DocOf
    <2> QED BY <1>1, <2>1, <2>2, SettledStays DEF AckInv
  <1>2. CASE CommitStep(w) /\ Goto(w, "acking")
    <2>1. iw[w].msg \in IngestMessages /\ iw'[w].msg = iw[w].msg
      BY <1>0, <1>2, GotoEffect DEF CommitStep, MarkFailedAndCommit, IndexAndCommit,
         AckInv, TInv, TransactionsHaveDocuments, InTransaction, IngestSteps
    <2>2. DocOf(w) \in Documents /\ DocOf(w)' = DocOf(w)
      BY <2>1, DocOfIsDocument DEF DocOf
    <2>3. doc'[DocOf(w)].status # "pending"
      BY <1>0, <1>2, <2>2 DEF CommitStep, MarkFailedAndCommit, IndexAndCommit
    <2> QED BY <2>1, <2>2, <2>3
  <1>3. iw'[w] = iw[w] \/ (CommitStep(w) /\ Goto(w, "acking"))
    BY WorkerEffect DEF AckInv, TInv
  <1> QED BY <1>1, <1>2, <1>3

\* A message is deleted only by a worker that is acknowledging it.
LEMMA DeletedByAck ==
    ASSUME TypeOK, [Next]_vars, NEW m \in Messages,
           queue'[m].at = "deleted", queue[m].at # "deleted"
    PROVE  \E w \in Ingesters : Ack(w) /\ iw[w].msg = m
  <1>1. QueueTypeOK
    BY DEF TypeOK
  <1>2. ~UNCHANGED queue
    OBVIOUS
  <1>3. ASSUME NEW n, send(n) \/ receive(n) \/ nack(n) \/ dead_letter(n) \/ VisibilityTimeout(n)
        PROVE  FALSE
    BY <1>1, <1>3 DEF QueueTypeOK, send, receive, nack, dead_letter, VisibilityTimeout
  <1>4. ASSUME NEW w \in Ingesters, Ack(w) PROVE iw[w].msg = m
    BY <1>1, <1>4 DEF QueueTypeOK, Ack, ack
  <1>5. \E w \in Ingesters : Ack(w)
    <2>1. CASE UNCHANGED vars
      BY <1>2, <2>1 DEF vars
    <2>2. CASE \E k \in Starts : BootStep(k) \/ sendFails(k)
      BY <1>2, <1>3, <2>2 DEF BootStep, ensureQueue, readPending, enqueue, listen, sendFails
    <2>3. CASE \E n \in Messages : LeaseRunsOut(n)
      BY <1>3, <2>3 DEF LeaseRunsOut
    <2>4. ASSUME NEW w \in Ingesters, IngestTrouble(w) PROVE FALSE
      BY <1>2, <2>4 DEF IngestTrouble, PipelineRaises, CommitReplyLost, Crash,
         MarkFailedAndCommit, IndexAndCommit
    <2>5. ASSUME NEW w \in Ingesters, IngestStep(w) PROVE Ack(w)
      <3>1. CASE Start(w) \/ ReceiveFails(w) \/ CommitFailed(w) \/ CommitIndexed(w)
        BY <1>2, <3>1 DEF Start, ReceiveFails, CommitFailed, CommitIndexed,
           MarkFailedAndCommit, IndexAndCommit
      <3>2. CASE RejectMalformed(w) \/ NackOrDeadLetter(w) \/ \E n \in Messages : Receive(w, n)
        BY <1>3, <3>2 DEF RejectMalformed, NackOrDeadLetter, Receive
      <3>3. CASE StartDelete(w) \/ DeleteOldChunks(w) \/ InsertChunks(w)
        BY <1>2, <3>3, TransactionKeepsRows
      <3> QED BY <2>5, <3>1, <3>2, <3>3 DEF IngestStep
    <2> QED BY <2>1, <2>2, <2>3, <2>4, <2>5 DEF Next
  <1> QED BY <1>4, <1>5

\* No document is left pending by a message that was taken for done.
THEOREM AckedSettled == Spec => []AckedOnlyWhenSettled
  <1>1. Init => AckInv
    <2>1. Init => AckingIsSettled /\ AckedOnlyWhenSettled
      BY DEF Init, Fresh, AckingIsSettled, AckedOnlyWhenSettled, IngestMessages
    <2> QED BY <2>1, InitIInv DEF IInv, AckInv
  <1>2. ASSUME AckInv, [Next]_vars PROVE AckedOnlyWhenSettled'
    <2> SUFFICES ASSUME NEW d \in Documents, NEW k \in Starts,
                        queue'[<<d, k>>].at = "deleted"
                 PROVE  doc'[d].status # "pending"
      BY DEF AckedOnlyWhenSettled
    <2>1. <<d, k>> \in Messages
      BY DEF IngestMessages
    <2>2. CASE queue[<<d, k>>].at = "deleted"
      BY <1>2, <2>2, SettledStays DEF AckInv, AckedOnlyWhenSettled
    <2>3. CASE queue[<<d, k>>].at # "deleted"
      <3>1. PICK w \in Ingesters : Ack(w) /\ iw[w].msg = <<d, k>>
        BY <1>2, <2>1, <2>3, DeletedByAck DEF AckInv, TInv
      <3>2. DocOf(w) = d /\ doc[DocOf(w)].status # "pending"
        BY <1>2, <3>1 DEF Ack, AckInv, AckingIsSettled, DocOf
      <3> QED BY <1>2, <3>2, SettledStays DEF AckInv
    <2> QED BY <2>2, <2>3
  <1>3. AckInv /\ [Next]_vars => AckInv'
    BY <1>2, TInvStep, AckingStep DEF AckInv
  <1>4. AckInv => AckedOnlyWhenSettled
    BY DEF AckInv
  <1> QED BY <1>1, <1>3, <1>4, PTL DEF Spec
=============================================================================
