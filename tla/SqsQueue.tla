------------------------------- MODULE SqsQueue -------------------------------
(***************************************************************************)
(* The SQS adapter of the queue interface (the worker's                    *)
(* frontdesk_worker/queue/sqs.py; api/src/queue/sqs.ts is its mirror, of   *)
(* which the api calls send) under the worker's consumer loop.  Three      *)
(* things differ from pgmq:                                                *)
(*                                                                         *)
(*   - ack, nack and deadLetter take the receipt handle of one receive,    *)
(*     not the message; SQS promises to obey only the newest handle;       *)
(*   - deadLetter is two calls, a SendMessage to the dead-letter queue and *)
(*     a DeleteMessage, and either can fail;                               *)
(*   - the body for that copy comes from a cache in the adapter instance,  *)
(*     which dies with the process.                                        *)
(*                                                                         *)
(* A consumer is one worker process with its adapter instance: "copying"   *)
(* and "removing" are the two calls of dead_letter.                        *)
(*                                                                         *)
(* Two kinds of malformed message never get that far.  A body that is not  *)
(* JSON makes receive() throw; a body of JSON null is cached as None,      *)
(* which dead_letter takes for no cached body.  Either way the process     *)
(* ends, and the message comes back when its visibility timeout is over.   *)
(***************************************************************************)
EXTENDS Naturals, FiniteSets

CONSTANTS
    Messages,
    Malformed,     \* those that fail contract validation
    NullBodies,    \* of these, those whose body is JSON null
    Unreadable,    \* and those whose body is not JSON
    Consumers,
    MaxDelivery,   \* max_delivery_attempts
    MaxFaults,     \* bound: crashes, failed calls, lost replies, early timeouts
    MaxReceives,   \* bound: receives of one message
    MaxSent,       \* bound: messages sent in one behaviour
    NoHandle

ASSUME SqsAssumption ==
    /\ Malformed \subseteq Messages
    /\ NullBodies \subseteq Malformed /\ Unreadable \subseteq Malformed
    /\ NullBodies \cap Unreadable = {}
    /\ MaxDelivery \in Nat \ {0}
    /\ MaxFaults \in Nat
    /\ MaxReceives \in Nat \ {0}
    /\ MaxSent \in Nat \ {0}
    /\ NoHandle \notin [msg : Messages, n : Nat]

VARIABLES
    sqs,       \* per message: where it is and how often it was received
    dlq,       \* per message: its copies in the dead-letter queue
    consumer,  \* per consumer: step, handle in hand, cached bodies
    finished,  \* messages whose work has been committed
    faults

vars == <<sqs, dlq, consumer, finished, faults>>

\* The messages the adapter can not put aside.
Poison == NullBodies \cup Unreadable

\* A new handle for every receive: the n-th of message msg.
Handles == [msg : Messages, n : Nat]

Places == {"unsent", "visible", "hidden", "deleted"}

ConsumerSteps == {"down", "idle", "working", "acking", "nacking", "copying",
                  "removing"}

ConsumerStates == [pc : ConsumerSteps, handle : Handles \cup {NoHandle},
                   received : SUBSET Handles]

\* A new process has a new adapter instance, with an empty cache.
NewInstance(step) == [pc |-> step, handle |-> NoHandle, received |-> {}]

TypeOK ==
    /\ sqs \in [Messages -> [at : Places, receives : Nat]]
    /\ dlq \in [Messages -> Nat]
    /\ consumer \in [Consumers -> ConsumerStates]
    /\ finished \subseteq Messages
    /\ faults \in 0..MaxFaults

Init ==
    /\ sqs = [m \in Messages |-> [at |-> "unsent", receives |-> 0]]
    /\ dlq = [m \in Messages |-> 0]
    /\ consumer = [c \in Consumers |-> NewInstance("idle")]
    /\ finished = {}
    /\ faults = 0

Fault ==
    /\ faults < MaxFaults
    /\ faults' = faults + 1

Sent == {m \in Messages : sqs[m].at # "unsent"}

Goto(c, step) == consumer' = [consumer EXCEPT ![c].pc = step]

-----------------------------------------------------------------------------
\* What SQS does with a handle.  The newest one of a message is obeyed.  An
\* older one may be obeyed (LocalStack does), ignored or refused.
Latest(h) == sqs[h.msg].receives = h.n

Answers(h) == IF Latest(h) THEN {"obeyed"} ELSE {"obeyed", "ignored", "refused"}

DeleteMessage(h, answer) ==
    sqs' = IF answer = "obeyed" THEN [sqs EXCEPT ![h.msg].at = "deleted"] ELSE sqs

\* With a timeout of 0.
ChangeMessageVisibility(h, answer) ==
    sqs' = IF answer = "obeyed" THEN [sqs EXCEPT ![h.msg].at = "visible"] ELSE sqs

\* A message that is not in flight has no visibility to change.
NackAnswers(h) ==
    IF sqs[h.msg].at = "hidden" THEN Answers(h) ELSE {"ignored", "refused"}

\* The visibility timeout of the newest receive runs out.  It is a fault when
\* its consumer is still busy with it.
VisibilityTimeout(m) ==
    /\ sqs[m].at = "hidden"
    /\ sqs' = [sqs EXCEPT ![m].at = "visible"]
    /\ IF \E c \in Consumers :
              consumer[c].handle = [msg |-> m, n |-> sqs[m].receives]
       THEN Fault ELSE UNCHANGED faults
    /\ UNCHANGED <<dlq, consumer, finished>>

-----------------------------------------------------------------------------
send(m) ==
    /\ sqs[m].at = "unsent"
    /\ Cardinality(Sent) < MaxSent
    /\ sqs' = [sqs EXCEPT ![m].at = "visible"]
    /\ UNCHANGED <<dlq, consumer, finished, faults>>

Start(c) ==
    /\ consumer[c].pc = "down"
    /\ consumer' = [consumer EXCEPT ![c] = NewInstance("idle")]
    /\ UNCHANGED <<sqs, dlq, finished, faults>>

\* Mutant: the body is cached under the message, not under the handle.
Cached_ByMessage(cache, h) == cache \cup {h.msg}

Cached(cache, h) == cache \cup {h}

\* Mutant: a cached body counts as a message in flight.
Receivable_WhenCacheEmpty(c, m) ==
    consumer[c].pc = "idle" /\ sqs[m].at = "visible" /\ consumer[c].received = {}

Receivable(c, m) == consumer[c].pc = "idle" /\ sqs[m].at = "visible"

\* An exception in a queue call is caught nowhere: the process ends.
Dies(c) == consumer' = [consumer EXCEPT ![c] = NewInstance("down")]

\* ReceiveMessage; the adapter caches the body under the new handle.
receive(c, m) ==
    LET h == [msg |-> m, n |-> sqs[m].receives + 1] IN
    /\ m \notin Unreadable
    /\ Receivable(c, m)
    /\ sqs[m].receives < MaxReceives
    /\ sqs' = [sqs EXCEPT ![m] = [at |-> "hidden", receives |-> h.n]]
    /\ consumer' = [consumer EXCEPT ![c] = [pc |-> "working", handle |-> h,
                                           received |-> Cached(@.received, h)]]
    /\ UNCHANGED <<dlq, finished, faults>>

\* json.loads throws before anything is cached.  No handle comes of it, so the
\* count stops at MaxReceives and the receives do not.
receiveThrows(c, m) ==
    /\ m \in Unreadable
    /\ Receivable(c, m)
    /\ sqs' = [sqs EXCEPT ![m] = [at |-> "hidden", receives |->
                  IF @.receives < MaxReceives THEN @.receives + 1 ELSE @.receives]]
    /\ Dies(c)
    /\ UNCHANGED <<dlq, finished, faults>>

\* process_one: a message of the wrong shape is dead-lettered at once.
RejectMalformed(c) ==
    /\ consumer[c].pc = "working"
    /\ consumer[c].handle.msg \in Malformed
    /\ Goto(c, "copying")
    /\ UNCHANGED <<sqs, dlq, finished, faults>>

Succeeds(c) ==
    /\ consumer[c].pc = "working"
    /\ consumer[c].handle.msg \notin Malformed
    /\ Goto(c, "acking")
    /\ finished' = finished \cup {consumer[c].handle.msg}
    /\ UNCHANGED <<sqs, dlq, faults>>

\* Mutant: > for >=.
AfterFailure_OneLate(h) == IF h.n > MaxDelivery THEN "copying" ELSE "nacking"

\* delivery_attempt is ApproximateReceiveCount, taken to be exact.
AfterFailure(h) == IF h.n >= MaxDelivery THEN "copying" ELSE "nacking"

Fails(c) ==
    /\ consumer[c].pc = "working"
    /\ consumer[c].handle.msg \notin Malformed
    /\ Goto(c, AfterFailure(consumer[c].handle))
    /\ UNCHANGED <<sqs, dlq, finished, faults>>

\* The transaction has committed and its confirmation is lost.
FailsAfterCommit(c) ==
    /\ consumer[c].pc = "working"
    /\ consumer[c].handle.msg \notin Malformed
    /\ Goto(c, AfterFailure(consumer[c].handle))
    /\ finished' = finished \cup {consumer[c].handle.msg}
    /\ Fault
    /\ UNCHANGED <<sqs, dlq>>

\* The call has returned; its handle is let go, with or without its body.
Idle(c, cache) ==
    consumer' = [consumer EXCEPT
        ![c] = [pc |-> "idle", handle |-> NoHandle, received |-> cache]]

\* Mutant: nothing is ever evicted.
Evicted_Nothing(cache, h) == cache

Evicted(cache, h) == cache \ {h}

ack(c) ==
    LET h == consumer[c].handle IN
    /\ consumer[c].pc = "acking"
    /\ \E answer \in Answers(h) :
          /\ DeleteMessage(h, answer)
          /\ IF answer = "refused" THEN Dies(c)
             ELSE Idle(c, Evicted(consumer[c].received, h))
    /\ UNCHANGED <<dlq, finished, faults>>

\* The body stays cached.
nack(c) ==
    LET h == consumer[c].handle IN
    /\ consumer[c].pc = "nacking"
    /\ \E answer \in NackAnswers(h) :
          /\ ChangeMessageVisibility(h, answer)
          /\ IF answer = "refused" THEN Dies(c) ELSE Idle(c, consumer[c].received)
    /\ UNCHANGED <<dlq, finished, faults>>

\* Mutant: the original is deleted before the copy is sent.
copyToDlq_AfterDelete(c) ==
    /\ consumer[c].pc = "copying"
    /\ DeleteMessage(consumer[c].handle, "obeyed")
    /\ Goto(c, "removing")
    /\ UNCHANGED <<dlq, finished, faults>>

\* Mutant: the body is evicted before the two calls, not after them.
copyToDlq_EvictsFirst(c) ==
    LET h == consumer[c].handle IN
    /\ consumer[c].pc = "copying"
    /\ dlq' = [dlq EXCEPT ![h.msg] = @ + 1]
    /\ consumer' = [consumer EXCEPT ![c].pc = "removing",
                                    ![c].received = Evicted(@, h)]
    /\ UNCHANGED <<sqs, finished, faults>>

\* self._received.get(h) is not None
HasBody(c, h) == h \in consumer[c].received /\ h.msg \notin NullBodies

\* dead_letter, first call.  Without a body it throws.
copyToDlq(c) ==
    LET h == consumer[c].handle IN
    /\ consumer[c].pc = "copying"
    /\ IF HasBody(c, h)
       THEN dlq' = [dlq EXCEPT ![h.msg] = @ + 1] /\ Goto(c, "removing")
       ELSE Dies(c) /\ UNCHANGED dlq
    /\ UNCHANGED <<sqs, finished, faults>>

\* Mutant: the original stays.
removeOriginal_Forgotten(c) ==
    /\ consumer[c].pc = "removing"
    /\ Idle(c, Evicted(consumer[c].received, consumer[c].handle))
    /\ UNCHANGED <<sqs, dlq, finished, faults>>

\* dead_letter, second call.
removeOriginal(c) ==
    LET h == consumer[c].handle IN
    /\ consumer[c].pc = "removing"
    /\ \E answer \in Answers(h) :
          /\ DeleteMessage(h, answer)
          /\ IF answer = "refused" THEN Dies(c)
             ELSE Idle(c, Evicted(consumer[c].received, h))
    /\ UNCHANGED <<dlq, finished, faults>>

\* A call to SQS fails, or it succeeds and its reply is lost: either way it
\* throws, and the process ends.
CallFails(c) ==
    LET h == consumer[c].handle IN
    /\ \/ /\ consumer[c].pc \in {"acking", "removing"}
          /\ \E answer \in Answers(h) : DeleteMessage(h, answer)
          /\ UNCHANGED dlq
       \/ /\ consumer[c].pc = "nacking"
          /\ \E answer \in NackAnswers(h) : ChangeMessageVisibility(h, answer)
          /\ UNCHANGED dlq
       \/ /\ consumer[c].pc = "copying"
          /\ HasBody(c, h)
          /\ dlq' = [dlq EXCEPT ![h.msg] = @ + 1]
          /\ UNCHANGED sqs
    /\ Fault
    /\ Dies(c)
    /\ UNCHANGED finished

Crash(c) ==
    /\ consumer[c].pc # "down"
    /\ Fault
    /\ Dies(c)
    /\ UNCHANGED <<sqs, dlq, finished>>

ConsumerStep(c) ==
    \/ Start(c)
    \/ \E m \in Messages : receive(c, m) \/ receiveThrows(c, m)
    \/ RejectMalformed(c) \/ Succeeds(c) \/ Fails(c)
    \/ ack(c) \/ nack(c) \/ copyToDlq(c) \/ removeOriginal(c)

Next ==
    \/ \E m \in Messages : send(m) \/ VisibilityTimeout(m)
    \/ \E c \in Consumers :
          ConsumerStep(c) \/ FailsAfterCommit(c) \/ CallFails(c) \/ Crash(c)

Spec == Init /\ [][Next]_vars

\* Somebody receives m.
Received(m) == \E c \in Consumers : receive(c, m)

\* The consumer loop runs on and is restarted; the clock of SQS goes on.  A
\* message that can be received again and again is received some time: SQS
\* samples its servers, and has no order by which one message, such as one that
\* kills each process that meets it, would keep the others back.
FairSpec ==
    /\ Spec
    /\ \A c \in Consumers : WF_vars(ConsumerStep(c))
    /\ \A m \in Messages : WF_vars(VisibilityTimeout(m))
    /\ \A m \in Messages \ Poison : SF_vars(Received(m))

-----------------------------------------------------------------------------
Contract == INSTANCE DeliveryContract WITH
    sent <- Sent,
    aside <- {m \in Messages : dlq[m] > 0},
    gone <- {m \in Messages : sqs[m].at = "deleted"}

\* sqs.py:92: whatever fails between the two calls of dead_letter, and whatever
\* SQS does with a stale handle, a message is not lost.
SqsDelivers == Contract!ContractSpec

\* How often the fate of m was decided: finished, or put aside (each copy).
Outcomes(m) == dlq[m] + (IF m \in finished THEN 1 ELSE 0)

\* sqs.py:70-96: a second outcome (a duplicate in the dead-letter queue, or a
\* dead letter of what was finished) takes a crash, a failed call or a timeout.
ExtraOutcomesArePaidByFaults == \A m \in Messages : Outcomes(m) <= 1 + faults

\* The ceiling of process_one over receive counts: a message that can be put
\* aside is received once more than max_delivery_attempts only when a fault has
\* happened.  One that can not is received for ever, with no fault at all.
ReceivesArePaidByFaults ==
    \A m \in Messages \ Poison : sqs[m].receives <= MaxDelivery + faults

\* sqs.ts:30-37, 104-105: eviction is the job of ack and deadLetter.  Of a
\* message that has left the queue at least one receive is cached nowhere: the
\* one that removed it.
RemovalEvicts ==
    \A m \in Messages :
        sqs[m].at = "deleted" =>
            \E n \in 1..sqs[m].receives : \A c \in Consumers :
                [msg |-> m, n |-> n] \notin consumer[c].received

\* sqs.ts:104-105: "the cache is per-instance and short-lived".  The body of the
\* message in hand is there as long as a call may need it; what stays behind was
\* nacked below the ceiling, so that no message ever leaves MaxDelivery bodies.
CacheHoldsWhatIsNeeded ==
    \A c \in Consumers :
        /\ consumer[c].handle \in consumer[c].received \cup {NoHandle}
        /\ \A h \in consumer[c].received \ {consumer[c].handle} : h.n < MaxDelivery

\* Every message that was sent and can be finished or put aside is so in the
\* end, also while others kill the processes they meet.
SentIsSettled ==
    \A m \in Messages \ Poison :
        m \in Sent ~> m \in finished \/ dlq[m] > 0
=============================================================================
