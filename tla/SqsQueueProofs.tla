--------------------------- MODULE SqsQueueProofs ---------------------------
(***************************************************************************)
(* Theorems about SqsQueue for every set of messages and consumers, every  *)
(* ceiling and every number of faults.                                     *)
(***************************************************************************)
EXTENDS SqsQueue, TLAPS, FiniteSetTheorems

USE SqsAssumption DEF SqsAssumption

Busy == {"working", "acking", "nacking", "copying", "removing"}

\* A consumer that is busy holds the handle of a receive that has happened.
HoldersHaveHandles ==
    \A c \in Consumers :
        consumer[c].pc \in Busy =>
            /\ consumer[c].handle \in Handles
            /\ consumer[c].handle.n \in 1..sqs[consumer[c].handle.msg].receives
            /\ sqs[consumer[c].handle.msg].at # "unsent"

\* Every cached handle is that of a receive that has happened.
CachedWereReceived ==
    \A c \in Consumers : \A h \in consumer[c].received : h.n \in 1..sqs[h.msg].receives

\* One receive, one consumer.
HandlesAreOwned ==
    \A c, d \in Consumers :
        c # d =>
            /\ consumer[c].received \cap consumer[d].received = {}
            /\ consumer[c].pc \in Busy => consumer[c].handle \notin consumer[d].received

\* What acknowledges has finished, what removes has copied.
RemovedAreSettled ==
    /\ \A c \in Consumers :
          /\ consumer[c].pc = "acking" => consumer[c].handle.msg \in finished
          /\ consumer[c].pc = "removing" => dlq[consumer[c].handle.msg] > 0
    /\ \A m \in Messages : sqs[m].at = "deleted" => m \in finished \/ dlq[m] > 0

Inv ==
    /\ TypeOK
    /\ HoldersHaveHandles /\ CachedWereReceived /\ HandlesAreOwned
    /\ RemovalEvicts
    /\ RemovedAreSettled

-----------------------------------------------------------------------------
\* What every step but a receive does to the consumers: caches only shrink, and
\* nobody becomes busy or changes the handle in hand.
Quiet ==
    \A c \in Consumers :
        /\ consumer'[c].received \subseteq consumer[c].received
        /\ consumer'[c].pc \in Busy =>
              consumer[c].pc \in Busy /\ consumer'[c].handle = consumer[c].handle

\* ... and to SQS: no handle is forgotten, and nothing unsent again.
NotReceived ==
    \A m \in Messages :
        /\ 1..sqs[m].receives \subseteq 1..sqs'[m].receives
        /\ sqs[m].at # "unsent" => sqs'[m].at # "unsent"

LEMMA DeleteMessageEffect ==
    ASSUME TypeOK, NEW h \in Handles, NEW answer, DeleteMessage(h, answer), sqs[h.msg].at # "unsent"
    PROVE  /\ sqs' \in [Messages -> [at : Places, receives : Nat]]
           /\ NotReceived
           /\ \A m \in Messages :
                 sqs'[m].at = "deleted" => sqs[m].at = "deleted" \/ m = h.msg
  BY DEF TypeOK, DeleteMessage, NotReceived, Places, Handles

LEMMA VisibilityEffect ==
    ASSUME TypeOK, NEW h \in Handles, NEW answer \in NackAnswers(h), ChangeMessageVisibility(h, answer)
    PROVE  /\ sqs' \in [Messages -> [at : Places, receives : Nat]]
           /\ NotReceived
           /\ \A m \in Messages : sqs'[m].at = "deleted" => sqs[m].at = "deleted"
  BY DEF TypeOK, ChangeMessageVisibility, NackAnswers, Answers, NotReceived, Places, Handles

LEMMA DiesEffect ==
    ASSUME TypeOK, NEW c \in Consumers, Dies(c)
    PROVE  /\ consumer' \in [Consumers -> ConsumerStates]
           /\ Quiet
           /\ consumer'[c].received = {} /\ consumer'[c].pc = "down"
           /\ \A d \in Consumers : d # c => consumer'[d] = consumer[d]
  BY DEF TypeOK, Dies, NewInstance, ConsumerStates, ConsumerSteps, Quiet, Busy

LEMMA IdleEffect ==
    ASSUME TypeOK, NEW c \in Consumers, NEW cache, cache \subseteq consumer[c].received, Idle(c, cache)
    PROVE  /\ consumer' \in [Consumers -> ConsumerStates]
           /\ Quiet
           /\ consumer'[c].received = cache /\ consumer'[c].pc = "idle"
           /\ \A d \in Consumers : d # c => consumer'[d] = consumer[d]
  <1>1. cache \in SUBSET Handles
    BY DEF TypeOK, ConsumerStates
  <1> QED BY <1>1 DEF TypeOK, Idle, ConsumerStates, ConsumerSteps, Quiet, Busy

LEMMA GotoEffect ==
    ASSUME TypeOK, NEW c \in Consumers, consumer[c].pc \in Busy, NEW step \in Busy, Goto(c, step)
    PROVE  /\ consumer' \in [Consumers -> ConsumerStates]
           /\ Quiet
           /\ consumer'[c].handle = consumer[c].handle /\ consumer'[c].pc = step
           /\ \A d \in Consumers : d # c => consumer'[d] = consumer[d]
  BY DEF TypeOK, Goto, ConsumerStates, ConsumerSteps, Quiet, Busy

-----------------------------------------------------------------------------
\* Of message m at least one receive is cached nowhere.
EvictedOnce(m) ==
    \E n \in 1..sqs[m].receives : \A c \in Consumers :
        [msg |-> m, n |-> n] \notin consumer[c].received

LEMMA QuietKeepsHandles ==
    ASSUME TypeOK, TypeOK', Quiet, NotReceived,
           HoldersHaveHandles, CachedWereReceived, HandlesAreOwned
    PROVE  HoldersHaveHandles' /\ CachedWereReceived' /\ HandlesAreOwned'
  <1>1. HoldersHaveHandles'
    <2> SUFFICES ASSUME NEW c \in Consumers, consumer'[c].pc \in Busy
                 PROVE  /\ consumer'[c].handle \in Handles
                        /\ consumer'[c].handle.n \in 1..sqs'[consumer'[c].handle.msg].receives
                        /\ sqs'[consumer'[c].handle.msg].at # "unsent"
      BY DEF HoldersHaveHandles, Busy
    <2>1. consumer[c].pc \in Busy /\ consumer'[c].handle = consumer[c].handle
      BY DEF Quiet
    <2>2. consumer[c].handle \in Handles /\ consumer[c].handle.msg \in Messages
      BY <2>1 DEF HoldersHaveHandles, Handles
    <2> QED BY <2>1, <2>2 DEF HoldersHaveHandles, NotReceived
  <1>2. CachedWereReceived'
    <2> SUFFICES ASSUME NEW c \in Consumers, NEW h \in consumer'[c].received
                 PROVE  h.n \in 1..sqs'[h.msg].receives
      BY DEF CachedWereReceived
    <2>1. h \in consumer[c].received
      BY DEF Quiet
    <2>2. h.msg \in Messages
      BY <2>1 DEF TypeOK, ConsumerStates, Handles
    <2> QED BY <2>1, <2>2 DEF CachedWereReceived, NotReceived
  <1>3. HandlesAreOwned'
    BY DEF HandlesAreOwned, Quiet, Busy
  <1> QED BY <1>1, <1>2, <1>3

LEMMA EvictionPersists ==
    ASSUME Quiet, NotReceived, NEW m \in Messages, EvictedOnce(m)
    PROVE  EvictedOnce(m)'
  BY DEF Quiet, NotReceived, EvictedOnce

\* A quiet step that deletes only a message whose handle h has been dropped.
LEMMA QuietKeepsEvictions ==
    ASSUME TypeOK, Quiet, NotReceived, HandlesAreOwned, RemovalEvicts,
           NEW h \in Handles, h.n \in 1..sqs[h.msg].receives,
           \A c \in Consumers : h \notin consumer'[c].received,
           \A m \in Messages : sqs'[m].at = "deleted" => sqs[m].at = "deleted" \/ m = h.msg
    PROVE  RemovalEvicts'
  <1> SUFFICES ASSUME NEW m \in Messages, sqs'[m].at = "deleted"
               PROVE  EvictedOnce(m)'
    BY DEF RemovalEvicts, EvictedOnce
  <1>1. CASE sqs[m].at = "deleted"
    <2>1. EvictedOnce(m)
      BY <1>1 DEF RemovalEvicts, EvictedOnce
    <2> QED BY <2>1, EvictionPersists
  <1>2. CASE m = h.msg
    <2>1. h = [msg |-> m, n |-> h.n]
      BY <1>2 DEF Handles
    <2>2. h.n \in 1..sqs'[m].receives
      BY <1>2 DEF NotReceived
    <2> QED BY <1>2, <2>1, <2>2 DEF EvictedOnce
  <1> QED BY <1>1, <1>2

\* A quiet step that deletes nothing.
LEMMA QuietKeepsEvictions2 ==
    ASSUME Quiet, NotReceived, RemovalEvicts,
           \A m \in Messages : sqs'[m].at = "deleted" => sqs[m].at = "deleted"
    PROVE  RemovalEvicts'
  <1> SUFFICES ASSUME NEW m \in Messages, sqs'[m].at = "deleted"
               PROVE  EvictedOnce(m)'
    BY DEF RemovalEvicts, EvictedOnce
  <1>1. EvictedOnce(m)
    BY DEF RemovalEvicts, EvictedOnce
  <1> QED BY <1>1, EvictionPersists

LEMMA ReceiveKeepsInv ==
    ASSUME Inv, NEW c \in Consumers, NEW m \in Messages, receive(c, m)
    PROVE  Inv'
  <1> DEFINE h == [msg |-> m, n |-> sqs[m].receives + 1]
  <1>1. /\ h \in Handles /\ h.msg = m /\ h.n = sqs[m].receives + 1
        /\ sqs[m].receives \in Nat
    BY DEF Inv, TypeOK, Handles
  <1>2. /\ consumer[c].pc = "idle"
        /\ sqs' = [sqs EXCEPT ![m] = [at |-> "hidden", receives |-> h.n]]
        /\ consumer' = [consumer EXCEPT ![c] = [pc |-> "working", handle |-> h,
                            received |-> consumer[c].received \cup {h}]]
        /\ UNCHANGED <<dlq, finished, faults>>
    BY DEF receive, Receivable, Cached
  <1> HIDE DEF h
  <1>3. /\ \A k \in Messages : k # m => sqs'[k] = sqs[k]
        /\ sqs'[m].at = "hidden" /\ sqs'[m].receives = h.n
        /\ sqs' \in [Messages -> [at : Places, receives : Nat]]
    BY <1>1, <1>2 DEF Inv, TypeOK, Places
  <1>4. /\ \A d \in Consumers : d # c => consumer'[d] = consumer[d]
        /\ consumer'[c].pc = "working" /\ consumer'[c].handle = h
        /\ consumer'[c].received = consumer[c].received \cup {h}
        /\ consumer' \in [Consumers -> ConsumerStates]
    <2>1. consumer[c].received \cup {h} \in SUBSET Handles
      BY <1>1 DEF Inv, TypeOK, ConsumerStates
    <2> QED BY <1>1, <1>2, <2>1 DEF Inv, TypeOK, ConsumerStates, ConsumerSteps
  <1>5. TypeOK'
    BY <1>2, <1>3, <1>4 DEF Inv, TypeOK
  <1>6. \A k \in Messages : sqs[k].receives \in Nat /\ sqs'[k].receives \in Nat
                            /\ sqs[k].receives <= sqs'[k].receives
    BY <1>1, <1>3 DEF Inv, TypeOK
  <1>7. \A d \in Consumers : h \notin consumer[d].received
    BY <1>1 DEF Inv, CachedWereReceived
  <1>8. \A d \in Consumers : consumer[d].pc \in Busy => consumer[d].handle # h
    BY <1>1 DEF Inv, HoldersHaveHandles
  <1>9. HoldersHaveHandles'
    <2> SUFFICES ASSUME NEW d \in Consumers, consumer'[d].pc \in Busy
                 PROVE  /\ consumer'[d].handle \in Handles
                        /\ consumer'[d].handle.n \in 1..sqs'[consumer'[d].handle.msg].receives
                        /\ sqs'[consumer'[d].handle.msg].at # "unsent"
      BY DEF HoldersHaveHandles, Busy
    <2>1. CASE d = c
      BY <2>1, <1>1, <1>3, <1>4
    <2>2. CASE d # c
      <3>1. /\ consumer'[d] = consumer[d] /\ consumer[d].handle \in Handles
            /\ consumer[d].handle.n \in 1..sqs[consumer[d].handle.msg].receives
            /\ sqs[consumer[d].handle.msg].at # "unsent"
        BY <2>2, <1>4 DEF Inv, HoldersHaveHandles
      <3>2. consumer[d].handle.msg \in Messages
        BY <3>1 DEF Handles
      <3>3. consumer[d].handle.n \in 1..sqs'[consumer[d].handle.msg].receives
        BY <3>1, <3>2, <1>6
      <3> QED BY <3>1, <3>2, <3>3, <1>3
    <2> QED BY <2>1, <2>2
  <1>10. CachedWereReceived'
    <2> SUFFICES ASSUME NEW d \in Consumers, NEW g \in consumer'[d].received
                 PROVE  g.n \in 1..sqs'[g.msg].receives
      BY DEF CachedWereReceived
    <2>1. CASE g = h
      BY <2>1, <1>1, <1>3
    <2>2. CASE g # h
      <3>1. g \in consumer[d].received
        BY <2>2, <1>4
      <3>2. g.msg \in Messages /\ g.n \in 1..sqs[g.msg].receives
        BY <3>1 DEF Inv, TypeOK, ConsumerStates, Handles, CachedWereReceived
      <3> QED BY <3>2, <1>6
    <2> QED BY <2>1, <2>2
  <1>11. HandlesAreOwned'
    <2> SUFFICES ASSUME NEW d \in Consumers, NEW e \in Consumers, d # e
                 PROVE  /\ consumer'[d].received \cap consumer'[e].received = {}
                        /\ consumer'[d].pc \in Busy =>
                              consumer'[d].handle \notin consumer'[e].received
      BY DEF HandlesAreOwned, Busy
    <2>1. CASE d = c
      BY <2>1, <1>4, <1>7 DEF Inv, HandlesAreOwned
    <2>2. CASE e = c
      BY <2>2, <1>4, <1>7, <1>8 DEF Inv, HandlesAreOwned
    <2>3. CASE d # c /\ e # c
      BY <2>3, <1>4 DEF Inv, HandlesAreOwned
    <2> QED BY <2>1, <2>2, <2>3
  <1>12. RemovalEvicts'
    <2> SUFFICES ASSUME NEW k \in Messages, sqs'[k].at = "deleted"
                 PROVE  EvictedOnce(k)'
      BY DEF RemovalEvicts, EvictedOnce
    <2>1. k # m /\ sqs'[k] = sqs[k]
      BY <1>3
    <2>2. PICK n \in 1..sqs[k].receives :
             \A d \in Consumers : [msg |-> k, n |-> n] \notin consumer[d].received
      BY <2>1 DEF Inv, RemovalEvicts
    <2>3. [msg |-> k, n |-> n] # h
      BY <2>1, <1>1
    <2>4. \A d \in Consumers : [msg |-> k, n |-> n] \notin consumer'[d].received
      BY <2>2, <2>3, <1>4
    <2> QED BY <2>1, <2>2, <2>4 DEF EvictedOnce
  <1>13. RemovedAreSettled'
    <2>1. \A d \in Consumers :
             /\ consumer'[d].pc = "acking" => consumer'[d].handle.msg \in finished'
             /\ consumer'[d].pc = "removing" => dlq'[consumer'[d].handle.msg] > 0
      BY <1>2, <1>4 DEF Inv, RemovedAreSettled
    <2>2. \A k \in Messages : sqs'[k].at = "deleted" => k \in finished' \/ dlq'[k] > 0
      BY <1>2, <1>3 DEF Inv, RemovedAreSettled
    <2> QED BY <2>1, <2>2 DEF RemovedAreSettled
  <1> QED BY <1>5, <1>9, <1>10, <1>11, <1>12, <1>13 DEF Inv

-----------------------------------------------------------------------------
\* A receive that throws: the process ends with its cache, and no handle comes
\* of what has been counted.
LEMMA ReceiveThrowsOnSqs ==
    ASSUME TypeOK, NEW c \in Consumers, NEW m \in Messages, receiveThrows(c, m)
    PROVE  /\ sqs' \in [Messages -> [at : Places, receives : Nat]]
           /\ NotReceived
           /\ sqs[m].at = "visible" /\ sqs'[m].at = "hidden"
           /\ \A k \in Messages : k # m => sqs'[k] = sqs[k]
           /\ UNCHANGED <<dlq, finished, faults>>
  <1>0. sqs[m].receives \in Nat
    BY DEF TypeOK
  <1>1. PICK n \in Nat : /\ sqs' = [sqs EXCEPT ![m] = [at |-> "hidden", receives |-> n]]
                         /\ sqs[m].receives <= n
    <2> DEFINE n == IF sqs[m].receives < MaxReceives THEN sqs[m].receives + 1
                    ELSE sqs[m].receives
    <2>1. n \in Nat /\ sqs[m].receives <= n
      BY <1>0
    <2>2. sqs' = [sqs EXCEPT ![m] = [at |-> "hidden", receives |-> n]]
      BY DEF receiveThrows
    <2> QED BY <2>1, <2>2
  <1>2. sqs[m].at = "visible" /\ UNCHANGED <<dlq, finished, faults>>
    BY DEF receiveThrows, Receivable
  <1>3. /\ sqs' \in [Messages -> [at : Places, receives : Nat]]
        /\ sqs'[m].at = "hidden" /\ sqs'[m].receives = n
        /\ \A k \in Messages : k # m => sqs'[k] = sqs[k]
    BY <1>1 DEF TypeOK, Places
  <1> QED BY <1>0, <1>1, <1>2, <1>3 DEF NotReceived

-----------------------------------------------------------------------------
\* What a step that leaves the consumers, or SQS, alone has to show.
LEMMA QuietKeepsInv ==
    ASSUME Inv, TypeOK', Quiet, NotReceived, RemovalEvicts', RemovedAreSettled'
    PROVE  Inv'
  BY QuietKeepsHandles DEF Inv

LEMMA SameSqs ==
    ASSUME Inv, UNCHANGED sqs, Quiet
    PROVE  NotReceived /\ RemovalEvicts'
  <1>1. NotReceived
    BY DEF NotReceived
  <1> QED BY <1>1, QuietKeepsEvictions2 DEF Inv

LEMMA HandleInHand ==
    ASSUME Inv, NEW c \in Consumers, consumer[c].pc \in Busy
    PROVE  LET h == consumer[c].handle IN
           /\ h \in Handles /\ h.msg \in Messages
           /\ h.n \in 1..sqs[h.msg].receives
           /\ sqs[h.msg].at # "unsent"
           /\ \A d \in Consumers : d # c => h \notin consumer[d].received
  BY DEF Inv, HoldersHaveHandles, HandlesAreOwned, Handles

\* dead_letter, ack and nack end in Dies or Idle.
LEMMA SettledByOthers ==
    ASSUME Inv, NEW c \in Consumers, consumer'[c].pc \in {"down", "idle"},
           \A d \in Consumers : d # c => consumer'[d] = consumer[d],
           finished \subseteq finished', \A m \in Messages : dlq[m] > 0 => dlq'[m] > 0
    PROVE  \A d \in Consumers :
              /\ consumer'[d].pc = "acking" => consumer'[d].handle.msg \in finished'
              /\ consumer'[d].pc = "removing" => dlq'[consumer'[d].handle.msg] > 0
  <1> SUFFICES ASSUME NEW d \in Consumers, consumer'[d].pc \in {"acking", "removing"}
               PROVE  /\ consumer'[d].pc = "acking" => consumer'[d].handle.msg \in finished'
                      /\ consumer'[d].pc = "removing" => dlq'[consumer'[d].handle.msg] > 0
    OBVIOUS
  <1>1. d # c /\ consumer'[d] = consumer[d] /\ consumer[d].pc \in Busy
    BY DEF Busy
  <1>2. consumer[d].handle.msg \in Messages
    BY <1>1, HandleInHand
  <1> QED BY <1>1, <1>2 DEF Inv, RemovedAreSettled

LEMMA SendKeepsInv ==
    ASSUME Inv, NEW m \in Messages, send(m)
    PROVE  Inv'
  <1>1. TypeOK'
    BY DEF Inv, TypeOK, send, Places
  <1>2. Quiet
    BY DEF send, Quiet
  <1>3. NotReceived
    BY DEF Inv, TypeOK, send, NotReceived
  <1>4. \A k \in Messages : sqs'[k].at = "deleted" => sqs[k].at = "deleted"
    BY DEF Inv, TypeOK, send
  <1>5. RemovalEvicts'
    BY <1>2, <1>3, <1>4, QuietKeepsEvictions2 DEF Inv
  <1>6. RemovedAreSettled'
    BY <1>4 DEF send, Inv, RemovedAreSettled
  <1> QED BY <1>1, <1>2, <1>3, <1>5, <1>6, QuietKeepsInv

LEMMA TimeoutKeepsInv ==
    ASSUME Inv, NEW m \in Messages, VisibilityTimeout(m)
    PROVE  Inv'
  <1>1. TypeOK'
    <2>1. faults' \in 0..MaxFaults
      BY DEF Inv, TypeOK, VisibilityTimeout, Fault
    <2> QED BY <2>1 DEF Inv, TypeOK, VisibilityTimeout, Places
  <1>2. Quiet
    BY DEF VisibilityTimeout, Quiet
  <1>3. NotReceived
    BY DEF Inv, TypeOK, VisibilityTimeout, NotReceived
  <1>4. \A k \in Messages : sqs'[k].at = "deleted" => sqs[k].at = "deleted"
    BY DEF Inv, TypeOK, VisibilityTimeout
  <1>5. RemovalEvicts'
    BY <1>2, <1>3, <1>4, QuietKeepsEvictions2 DEF Inv
  <1>6. RemovedAreSettled'
    BY <1>4 DEF VisibilityTimeout, Inv, RemovedAreSettled
  <1> QED BY <1>1, <1>2, <1>3, <1>5, <1>6, QuietKeepsInv

\* Start and Crash: a new instance, and nothing else.
LEMMA NewInstanceKeepsInv ==
    ASSUME Inv, NEW c \in Consumers, Start(c) \/ Crash(c)
    PROVE  Inv'
  <1>1. /\ consumer' \in [Consumers -> ConsumerStates]
        /\ consumer'[c].pc \in {"down", "idle"}
        /\ consumer'[c].received = {}
        /\ \A d \in Consumers : d # c => consumer'[d] = consumer[d]
        /\ UNCHANGED <<sqs, dlq, finished>>
    BY DEF Start, Crash, Dies, NewInstance, Inv, TypeOK, ConsumerStates, ConsumerSteps
  <1>2. TypeOK'
    <2>1. faults' \in 0..MaxFaults
      BY DEF Inv, TypeOK, Start, Crash, Fault
    <2> QED BY <1>1, <2>1 DEF Inv, TypeOK
  <1>3. Quiet
    BY <1>1 DEF Quiet, Busy
  <1>4. NotReceived /\ RemovalEvicts'
    BY <1>1, <1>3, SameSqs
  <1>5. RemovedAreSettled'
    BY <1>1, SettledByOthers DEF Inv, RemovedAreSettled
  <1> QED BY <1>2, <1>3, <1>4, <1>5, QuietKeepsInv

\* The steps of process_one before it calls the queue.
LEMMA WorkKeepsInv ==
    ASSUME Inv, NEW c \in Consumers,
           RejectMalformed(c) \/ Succeeds(c) \/ Fails(c) \/ FailsAfterCommit(c)
    PROVE  Inv'
  <1>1. PICK step \in {"acking", "nacking", "copying"} :
           /\ consumer[c].pc = "working" /\ Goto(c, step)
           /\ UNCHANGED <<sqs, dlq>>
           /\ finished' \in {finished, finished \cup {consumer[c].handle.msg}}
           /\ step = "acking" => consumer[c].handle.msg \in finished'
           /\ faults' \in 0..MaxFaults
    BY DEF RejectMalformed, Succeeds, Fails, FailsAfterCommit, AfterFailure, Fault, Inv, TypeOK
  <1>2. /\ consumer' \in [Consumers -> ConsumerStates]
        /\ Quiet
        /\ consumer'[c].handle = consumer[c].handle /\ consumer'[c].pc = step
        /\ \A d \in Consumers : d # c => consumer'[d] = consumer[d]
    BY <1>1, GotoEffect DEF Inv, Busy
  <1>3. consumer[c].handle.msg \in Messages
    BY <1>1, HandleInHand DEF Busy
  <1>4. TypeOK'
    BY <1>1, <1>2, <1>3 DEF Inv, TypeOK
  <1>5. NotReceived /\ RemovalEvicts'
    BY <1>1, <1>2, SameSqs
  <1>6. RemovedAreSettled'
    <2>1. finished \subseteq finished'
      BY <1>1
    <2>2. \A d \in Consumers :
             /\ consumer'[d].pc = "acking" => consumer'[d].handle.msg \in finished'
             /\ consumer'[d].pc = "removing" => dlq'[consumer'[d].handle.msg] > 0
      BY <1>1, <1>2, <2>1 DEF Inv, RemovedAreSettled
    <2> QED BY <1>1, <2>1, <2>2 DEF Inv, RemovedAreSettled
  <1> QED BY <1>2, <1>4, <1>5, <1>6, QuietKeepsInv

\* A process that ends, whatever happened to the message in the queue, once the
\* message is settled if it was deleted.
LEMMA CallThatKillsKeepsInv ==
    ASSUME Inv, NEW c \in Consumers, consumer[c].pc \in Busy, Dies(c),
           sqs' \in [Messages -> [at : Places, receives : Nat]], NotReceived,
           dlq' \in [Messages -> Nat], \A m \in Messages : dlq[m] <= dlq'[m],
           UNCHANGED finished, faults' \in 0..MaxFaults,
           \A m \in Messages : sqs'[m].at = "deleted" =>
              \/ sqs[m].at = "deleted"
              \/ m = consumer[c].handle.msg /\ (m \in finished \/ dlq[m] > 0)
    PROVE  Inv'
  <1>1. /\ consumer' \in [Consumers -> ConsumerStates]
        /\ Quiet
        /\ consumer'[c].received = {} /\ consumer'[c].pc = "down"
        /\ \A d \in Consumers : d # c => consumer'[d] = consumer[d]
    BY DiesEffect DEF Inv
  <1>2. TypeOK'
    BY <1>1 DEF Inv, TypeOK
  <1>3. RemovalEvicts'
    <2>1. \A d \in Consumers : consumer[c].handle \notin consumer'[d].received
      BY <1>1, HandleInHand
    <2> QED BY <1>1, <2>1, HandleInHand, QuietKeepsEvictions DEF Inv
  <1>4. \A m \in Messages : dlq[m] > 0 => dlq'[m] > 0
    BY DEF Inv, TypeOK
  <1>5. RemovedAreSettled'
    <2>1. \A m \in Messages : sqs'[m].at = "deleted" => m \in finished' \/ dlq'[m] > 0
      BY <1>4 DEF Inv, RemovedAreSettled
    <2> QED BY <1>1, <1>4, <2>1, SettledByOthers DEF RemovedAreSettled
  <1> QED BY <1>1, <1>2, <1>3, <1>5, QuietKeepsInv

\* ack and the second call of dead_letter: a DeleteMessage that returns.
LEMMA RemovalKeepsInv ==
    ASSUME Inv, NEW c \in Consumers, ack(c) \/ removeOriginal(c)
    PROVE  Inv'
  <1> DEFINE h == consumer[c].handle
  <1>1. /\ consumer[c].pc \in {"acking", "removing"}
        /\ UNCHANGED <<dlq, finished, faults>>
    BY DEF ack, removeOriginal
  <1>2. PICK answer \in {"obeyed", "ignored", "refused"} :
           /\ DeleteMessage(h, answer)
           /\ IF answer = "refused" THEN Dies(c)
              ELSE Idle(c, consumer[c].received \ {h})
    BY DEF ack, removeOriginal, Answers, Evicted
  <1>3. /\ h \in Handles /\ h.msg \in Messages /\ h.n \in 1..sqs[h.msg].receives
        /\ sqs[h.msg].at # "unsent"
        /\ \A d \in Consumers : d # c => h \notin consumer[d].received
    BY <1>1, HandleInHand DEF Busy
  <1>4. h.msg \in finished \/ dlq[h.msg] > 0
    BY <1>1 DEF Inv, RemovedAreSettled
  <1>5. /\ sqs' \in [Messages -> [at : Places, receives : Nat]]
        /\ NotReceived
        /\ \A m \in Messages : sqs'[m].at = "deleted" => sqs[m].at = "deleted" \/ m = h.msg
    BY <1>2, <1>3, DeleteMessageEffect DEF Inv
  <1>6. /\ consumer' \in [Consumers -> ConsumerStates]
        /\ Quiet
        /\ consumer'[c].pc \in {"down", "idle"}
        /\ h \notin consumer'[c].received
        /\ \A d \in Consumers : d # c => consumer'[d] = consumer[d]
    <2>1. CASE answer = "refused"
      BY <1>2, <2>1, DiesEffect DEF Inv
    <2>2. CASE answer # "refused"
      BY <1>2, <2>2, IdleEffect DEF Inv
    <2> QED BY <2>1, <2>2
  <1>7. TypeOK'
    BY <1>1, <1>5, <1>6 DEF Inv, TypeOK
  <1>8. RemovalEvicts'
    <2>1. \A d \in Consumers : h \notin consumer'[d].received
      BY <1>3, <1>6
    <2> HIDE DEF h
    <2> QED BY <1>3, <1>5, <1>6, <2>1, QuietKeepsEvictions DEF Inv
  <1>9. RemovedAreSettled'
    <2>1. \A m \in Messages : sqs'[m].at = "deleted" => m \in finished' \/ dlq'[m] > 0
      BY <1>1, <1>4, <1>5 DEF Inv, RemovedAreSettled
    <2> QED BY <1>1, <1>6, <2>1, SettledByOthers DEF RemovedAreSettled
  <1> QED BY <1>5, <1>6, <1>7, <1>8, <1>9, QuietKeepsInv

LEMMA NackKeepsInv ==
    ASSUME Inv, NEW c \in Consumers, nack(c)
    PROVE  Inv'
  <1> DEFINE h == consumer[c].handle
  <1>1. consumer[c].pc = "nacking" /\ UNCHANGED <<dlq, finished, faults>>
    BY DEF nack
  <1>2. PICK answer \in NackAnswers(h) :
           /\ ChangeMessageVisibility(h, answer)
           /\ IF answer = "refused" THEN Dies(c) ELSE Idle(c, consumer[c].received)
    BY DEF nack
  <1>3. h \in Handles
    BY <1>1, HandleInHand DEF Busy
  <1>4. /\ sqs' \in [Messages -> [at : Places, receives : Nat]]
        /\ NotReceived
        /\ \A m \in Messages : sqs'[m].at = "deleted" => sqs[m].at = "deleted"
    BY <1>2, <1>3, VisibilityEffect DEF Inv
  <1>5. /\ consumer' \in [Consumers -> ConsumerStates]
        /\ Quiet
        /\ consumer'[c].pc \in {"down", "idle"}
        /\ \A d \in Consumers : d # c => consumer'[d] = consumer[d]
    <2>1. CASE answer = "refused"
      BY <1>2, <2>1, DiesEffect DEF Inv
    <2>2. CASE answer # "refused"
      BY <1>2, <2>2, IdleEffect DEF Inv
    <2> QED BY <2>1, <2>2
  <1>6. TypeOK'
    BY <1>1, <1>4, <1>5 DEF Inv, TypeOK
  <1>7. RemovalEvicts'
    BY <1>4, <1>5, QuietKeepsEvictions2 DEF Inv
  <1>8. RemovedAreSettled'
    <2>1. \A m \in Messages : sqs'[m].at = "deleted" => m \in finished' \/ dlq'[m] > 0
      BY <1>1, <1>4 DEF Inv, RemovedAreSettled
    <2> QED BY <1>1, <1>5, <2>1, SettledByOthers DEF RemovedAreSettled
  <1> QED BY <1>4, <1>5, <1>6, <1>7, <1>8, QuietKeepsInv

LEMMA CopyKeepsInv ==
    ASSUME Inv, NEW c \in Consumers, copyToDlq(c)
    PROVE  Inv'
  <1> DEFINE h == consumer[c].handle
  <1>1. consumer[c].pc = "copying" /\ UNCHANGED <<sqs, finished, faults>>
    BY DEF copyToDlq
  <1>2. h \in Handles /\ h.msg \in Messages
    BY <1>1, HandleInHand DEF Busy
  <1>3. CASE HasBody(c, h)
    <2>1. dlq' = [dlq EXCEPT ![h.msg] = @ + 1] /\ Goto(c, "removing")
      BY <1>3 DEF copyToDlq
    <2>2. /\ dlq' \in [Messages -> Nat] /\ dlq'[h.msg] > 0
          /\ \A m \in Messages : dlq[m] > 0 => dlq'[m] > 0
      BY <1>2, <2>1 DEF Inv, TypeOK
    <2>3. /\ consumer' \in [Consumers -> ConsumerStates]
          /\ Quiet
          /\ consumer'[c].handle = h /\ consumer'[c].pc = "removing"
          /\ \A d \in Consumers : d # c => consumer'[d] = consumer[d]
      BY <1>1, <2>1, GotoEffect DEF Inv, Busy
    <2>4. TypeOK'
      BY <1>1, <2>2, <2>3 DEF Inv, TypeOK
    <2>5. NotReceived /\ RemovalEvicts'
      BY <1>1, <2>3, SameSqs
    <2>6. RemovedAreSettled'
      <3>1. ASSUME NEW d \in Consumers, d # c, consumer'[d].pc \in {"acking", "removing"}
            PROVE  /\ consumer'[d].pc = "acking" => consumer'[d].handle.msg \in finished'
                   /\ consumer'[d].pc = "removing" => dlq'[consumer'[d].handle.msg] > 0
        <4>1. consumer'[d] = consumer[d] /\ consumer[d].handle.msg \in Messages
          BY <2>3, <3>1, HandleInHand DEF Busy
        <4> QED BY <1>1, <2>2, <4>1 DEF Inv, RemovedAreSettled
      <3>2. \A d \in Consumers :
               /\ consumer'[d].pc = "acking" => consumer'[d].handle.msg \in finished'
               /\ consumer'[d].pc = "removing" => dlq'[consumer'[d].handle.msg] > 0
        BY <2>2, <2>3, <3>1
      <3> QED BY <1>1, <2>2, <3>2 DEF Inv, RemovedAreSettled
    <2> QED BY <2>3, <2>4, <2>5, <2>6, QuietKeepsInv
  <1>4. CASE ~HasBody(c, h)
    <2>1. Dies(c) /\ UNCHANGED dlq
      BY <1>4 DEF copyToDlq
    <2>2. NotReceived
      BY <1>1 DEF NotReceived
    <2> QED BY <1>1, <2>1, <2>2, CallThatKillsKeepsInv DEF Inv, TypeOK, Busy
  <1> QED BY <1>3, <1>4

LEMMA CallFailsKeepsInv ==
    ASSUME Inv, NEW c \in Consumers, CallFails(c)
    PROVE  Inv'
  <1> DEFINE h == consumer[c].handle
  <1>1. /\ consumer[c].pc \in {"acking", "removing", "nacking", "copying"}
        /\ Dies(c) /\ UNCHANGED finished /\ faults' \in 0..MaxFaults
    BY DEF CallFails, Fault, Inv, TypeOK
  <1>2. /\ h \in Handles /\ h.msg \in Messages /\ sqs[h.msg].at # "unsent"
    BY <1>1, HandleInHand DEF Busy
  <1>3. CASE consumer[c].pc \in {"acking", "removing"}
    <2>1. PICK answer \in Answers(h) : DeleteMessage(h, answer) /\ UNCHANGED dlq
      BY <1>3 DEF CallFails
    <2>2. h.msg \in finished \/ dlq[h.msg] > 0
      BY <1>3 DEF Inv, RemovedAreSettled
    <2>3. /\ sqs' \in [Messages -> [at : Places, receives : Nat]]
          /\ NotReceived
          /\ \A m \in Messages : sqs'[m].at = "deleted" => sqs[m].at = "deleted" \/ m = h.msg
      BY <1>2, <2>1, DeleteMessageEffect DEF Inv
    <2>4. dlq' \in [Messages -> Nat] /\ \A m \in Messages : dlq[m] <= dlq'[m]
      BY <2>1 DEF Inv, TypeOK
    <2> QED BY <1>1, <2>2, <2>3, <2>4, CallThatKillsKeepsInv DEF Busy
  <1>4. CASE consumer[c].pc = "nacking"
    <2>1. PICK answer \in NackAnswers(h) : ChangeMessageVisibility(h, answer) /\ UNCHANGED dlq
      BY <1>4 DEF CallFails
    <2>2. /\ sqs' \in [Messages -> [at : Places, receives : Nat]]
          /\ NotReceived
          /\ \A m \in Messages : sqs'[m].at = "deleted" => sqs[m].at = "deleted"
      BY <1>2, <2>1, VisibilityEffect DEF Inv
    <2>3. dlq' \in [Messages -> Nat] /\ \A m \in Messages : dlq[m] <= dlq'[m]
      BY <2>1 DEF Inv, TypeOK
    <2> QED BY <1>1, <2>2, <2>3, CallThatKillsKeepsInv DEF Busy
  <1>5. CASE consumer[c].pc = "copying"
    <2>1. dlq' = [dlq EXCEPT ![h.msg] = @ + 1] /\ UNCHANGED sqs
      BY <1>5 DEF CallFails
    <2>2. NotReceived /\ sqs' \in [Messages -> [at : Places, receives : Nat]]
      BY <2>1 DEF NotReceived, Inv, TypeOK
    <2>3. dlq' \in [Messages -> Nat] /\ \A m \in Messages : dlq[m] <= dlq'[m]
      BY <1>2, <2>1 DEF Inv, TypeOK
    <2> QED BY <1>1, <2>1, <2>2, <2>3, CallThatKillsKeepsInv DEF Busy
  <1> QED BY <1>1, <1>3, <1>4, <1>5

LEMMA ReceiveThrowsKeepsInv ==
    ASSUME Inv, NEW c \in Consumers, NEW m \in Messages, receiveThrows(c, m)
    PROVE  Inv'
  <1>0. TypeOK /\ Dies(c)
    BY DEF Inv, receiveThrows
  <1>1. /\ sqs' \in [Messages -> [at : Places, receives : Nat]]
        /\ NotReceived
        /\ sqs'[m].at = "hidden"
        /\ \A k \in Messages : k # m => sqs'[k] = sqs[k]
        /\ UNCHANGED <<dlq, finished, faults>>
    BY <1>0, ReceiveThrowsOnSqs
  <1>2. /\ consumer' \in [Consumers -> ConsumerStates]
        /\ Quiet
        /\ consumer'[c].pc = "down"
        /\ \A d \in Consumers : d # c => consumer'[d] = consumer[d]
    BY <1>0, DiesEffect
  <1>3. TypeOK'
    BY <1>0, <1>1, <1>2 DEF TypeOK
  <1>4. \A k \in Messages : sqs'[k].at = "deleted" => sqs[k].at = "deleted"
    BY <1>1
  <1>5. RemovalEvicts'
    BY <1>1, <1>2, <1>4, QuietKeepsEvictions2 DEF Inv
  <1>6. RemovedAreSettled'
    <2>1. \A k \in Messages : sqs'[k].at = "deleted" => k \in finished' \/ dlq'[k] > 0
      BY <1>1, <1>4 DEF Inv, RemovedAreSettled
    <2> QED BY <1>1, <1>2, <2>1, SettledByOthers DEF RemovedAreSettled
  <1> QED BY <1>1, <1>2, <1>3, <1>5, <1>6, QuietKeepsInv

-----------------------------------------------------------------------------
THEOREM InitInv == Init => Inv
  <1> SUFFICES ASSUME Init PROVE Inv
    OBVIOUS
  <1>1. TypeOK
    BY DEF Init, TypeOK, NewInstance, ConsumerStates, ConsumerSteps, Places
  <1>2. HoldersHaveHandles /\ CachedWereReceived /\ HandlesAreOwned
    BY DEF Init, NewInstance, HoldersHaveHandles, CachedWereReceived, HandlesAreOwned, Busy
  <1>3. RemovalEvicts /\ RemovedAreSettled
    BY DEF Init, NewInstance, RemovalEvicts, RemovedAreSettled
  <1> QED BY <1>1, <1>2, <1>3 DEF Inv

THEOREM StepInv == Inv /\ [Next]_vars => Inv'
  <1> SUFFICES ASSUME Inv, [Next]_vars PROVE Inv'
    OBVIOUS
  <1>1. CASE \E m \in Messages : send(m) \/ VisibilityTimeout(m)
    BY <1>1, SendKeepsInv, TimeoutKeepsInv
  <1>2. ASSUME NEW c \in Consumers,
               ConsumerStep(c) \/ FailsAfterCommit(c) \/ CallFails(c) \/ Crash(c)
        PROVE  Inv'
    BY <1>2, NewInstanceKeepsInv, ReceiveKeepsInv, ReceiveThrowsKeepsInv, WorkKeepsInv, RemovalKeepsInv, NackKeepsInv,
       CopyKeepsInv, CallFailsKeepsInv DEF ConsumerStep
  <1>3. CASE UNCHANGED vars
    BY <1>3 DEF vars, Inv, TypeOK, HoldersHaveHandles, CachedWereReceived, HandlesAreOwned,
       RemovalEvicts, RemovedAreSettled
  <1> QED BY <1>1, <1>2, <1>3 DEF Next

THEOREM InvAlways == Spec => []Inv
  BY InitInv, StepInv, PTL DEF Spec

\* Every state of the adapter under any interleaving of consumers, failed calls
\* and timeouts has its type.
THEOREM TypeCorrect == Spec => []TypeOK
  BY InvAlways, PTL DEF Inv

\* sqs.ts:30-37: a message that has left the queue has been evicted at least
\* once, by the call that removed it.
THEOREM RemovalAlwaysEvicts == Spec => []RemovalEvicts
  BY InvAlways, PTL DEF Inv

-----------------------------------------------------------------------------
\* The refinement: each step of the adapter is a step of the contract or none.
Aside == {m \in Messages : dlq[m] > 0}
Gone == {m \in Messages : sqs[m].at = "deleted"}

LEMMA SameForTheContract ==
    ASSUME Sent' = Sent, finished' = finished, Aside' = Aside, Gone' = Gone
    PROVE  UNCHANGED Contract!contractVars
  BY DEF Contract!contractVars, Aside, Gone

\* A delete that SQS obeys is a message that leaves; any other is nothing.
LEMMA DeleteIsLeave ==
    ASSUME Inv, NEW c \in Consumers, consumer[c].pc \in {"acking", "removing"},
           NEW answer, DeleteMessage(consumer[c].handle, answer), UNCHANGED <<dlq, finished>>
    PROVE  Contract!ContractNext \/ UNCHANGED Contract!contractVars
  <1> DEFINE h == consumer[c].handle
  <1>1. h.msg \in Messages /\ sqs[h.msg].at # "unsent"
    BY HandleInHand DEF Busy
  <1>2. h.msg \in Sent /\ (h.msg \in finished \/ h.msg \in Aside)
    BY <1>1 DEF Inv, RemovedAreSettled, Sent, Aside
  <1>3. Aside' = Aside
    BY DEF Aside
  <1>4. CASE answer = "obeyed"
    <2>1. /\ sqs'[h.msg].at = "deleted"
          /\ \A m \in Messages : m # h.msg => sqs'[m].at = sqs[m].at
      BY <1>1, <1>4 DEF DeleteMessage, Inv, TypeOK
    <2>2. Sent' = Sent
      BY <1>1, <2>1 DEF Sent
    <2>3. Gone' = Gone \cup {h.msg}
      BY <1>1, <2>1 DEF Gone
    <2>4. Contract!Leave(h.msg)
      BY <1>2, <1>3, <2>2, <2>3 DEF Contract!Leave, Aside, Gone
    <2>5. \E m \in Messages : Contract!Leave(m)
      BY <1>1, <2>4 DEF Contract!Leave
    <2> QED BY <2>5 DEF Contract!ContractNext
  <1>5. CASE answer # "obeyed"
    <2>1. sqs' = sqs
      BY <1>5 DEF DeleteMessage
    <2> QED BY <1>3, <2>1, SameForTheContract DEF Sent, Gone
  <1> QED BY <1>4, <1>5

\* The first call of dead_letter puts the message aside.
LEMMA CopyIsPutAside ==
    ASSUME Inv, NEW c \in Consumers, consumer[c].pc = "copying",
           dlq' = [dlq EXCEPT ![consumer[c].handle.msg] = @ + 1], UNCHANGED <<sqs, finished>>
    PROVE  Contract!ContractNext
  <1> DEFINE h == consumer[c].handle
  <1>1. h.msg \in Messages /\ sqs[h.msg].at # "unsent"
    BY HandleInHand DEF Busy
  <1>2. dlq'[h.msg] > 0 /\ \A m \in Messages : m # h.msg => dlq'[m] = dlq[m]
    BY <1>1 DEF Inv, TypeOK
  <1>3. Aside' = Aside \cup {h.msg}
    BY <1>1, <1>2 DEF Aside
  <1>4. Sent' = Sent /\ Gone' = Gone /\ h.msg \in Sent
    BY <1>1 DEF Sent, Gone
  <1>5. Contract!PutAside(h.msg)
    BY <1>3, <1>4 DEF Contract!PutAside, Aside, Gone
  <1>6. \E m \in Messages : Contract!PutAside(m)
    BY <1>1, <1>5 DEF Contract!PutAside
  <1> QED BY <1>6 DEF Contract!ContractNext

\* A message that becomes visible, or hidden, is in the queue before and after.
LEMMA MoveIsNothing ==
    ASSUME Inv, NEW m \in Messages, sqs[m].at \notin {"unsent", "deleted"},
           sqs'[m].at \notin {"unsent", "deleted"},
           \A k \in Messages : k # m => sqs'[k].at = sqs[k].at,
           UNCHANGED <<dlq, finished>>
    PROVE  UNCHANGED Contract!contractVars
  BY SameForTheContract DEF Sent, Aside, Gone

LEMMA NackIsNothing ==
    ASSUME Inv, NEW h \in Handles, NEW answer \in NackAnswers(h),
           ChangeMessageVisibility(h, answer), UNCHANGED <<dlq, finished>>
    PROVE  UNCHANGED Contract!contractVars
  <1>1. CASE answer = "obeyed"
    <2>1. sqs[h.msg].at = "hidden"
      BY <1>1 DEF NackAnswers
    <2>2. /\ h.msg \in Messages /\ sqs'[h.msg].at = "visible"
          /\ \A k \in Messages : k # h.msg => sqs'[k].at = sqs[k].at
      BY <1>1 DEF ChangeMessageVisibility, Inv, TypeOK, Handles
    <2> QED BY <2>1, <2>2, MoveIsNothing
  <1>2. CASE answer # "obeyed"
    <2>1. sqs' = sqs
      BY <1>2 DEF ChangeMessageVisibility
    <2> QED BY <2>1, SameForTheContract DEF Sent, Aside, Gone
  <1> QED BY <1>1, <1>2

LEMMA QueueStepsMap ==
    ASSUME Inv, NEW m \in Messages, send(m) \/ VisibilityTimeout(m)
    PROVE  Contract!ContractNext \/ UNCHANGED Contract!contractVars
  <1>1. CASE send(m)
    <2>1. /\ sqs[m].at = "unsent" /\ sqs'[m].at = "visible"
          /\ \A k \in Messages : k # m => sqs'[k].at = sqs[k].at
          /\ UNCHANGED <<dlq, finished>>
      BY <1>1 DEF send, Inv, TypeOK
    <2>2. Sent' = Sent \cup {m} /\ Aside' = Aside /\ Gone' = Gone
      BY <2>1 DEF Sent, Aside, Gone
    <2>3. Contract!Send(m)
      BY <2>1, <2>2 DEF Contract!Send, Aside, Gone
    <2> QED BY <2>3 DEF Contract!ContractNext
  <1>2. CASE VisibilityTimeout(m)
    <2>1. /\ sqs[m].at = "hidden" /\ sqs'[m].at = "visible"
          /\ \A k \in Messages : k # m => sqs'[k].at = sqs[k].at
          /\ UNCHANGED <<dlq, finished>>
      BY <1>2 DEF VisibilityTimeout, Inv, TypeOK
    <2> QED BY <2>1, MoveIsNothing
  <1> QED BY <1>1, <1>2

LEMMA ConsumerStepsMap ==
    ASSUME Inv, NEW c \in Consumers,
           ConsumerStep(c) \/ FailsAfterCommit(c) \/ CallFails(c) \/ Crash(c)
    PROVE  Contract!ContractNext \/ UNCHANGED Contract!contractVars
  <1> DEFINE h == consumer[c].handle
  <1>1. CASE Start(c) \/ Crash(c) \/ RejectMalformed(c) \/ Fails(c)
    <2>1. UNCHANGED <<sqs, dlq, finished>>
      BY <1>1 DEF Start, Crash, RejectMalformed, Fails
    <2> QED BY <2>1, SameForTheContract DEF Sent, Aside, Gone
  <1>2. ASSUME NEW m \in Messages, receive(c, m)
        PROVE  UNCHANGED Contract!contractVars
    <2>1. /\ sqs[m].at = "visible" /\ sqs'[m].at = "hidden"
          /\ \A k \in Messages : k # m => sqs'[k].at = sqs[k].at
          /\ UNCHANGED <<dlq, finished>>
      BY <1>2 DEF receive, Receivable, Inv, TypeOK
    <2> QED BY <2>1, MoveIsNothing
  <1>8. ASSUME NEW m \in Messages, receiveThrows(c, m)
        PROVE  UNCHANGED Contract!contractVars
    BY <1>8, ReceiveThrowsOnSqs, MoveIsNothing DEF Inv
  <1>3. CASE Succeeds(c) \/ FailsAfterCommit(c)
    <2>1. /\ consumer[c].pc = "working" /\ finished' = finished \cup {h.msg}
          /\ UNCHANGED <<sqs, dlq>>
      BY <1>3 DEF Succeeds, FailsAfterCommit
    <2>2. h.msg \in Sent
      BY <2>1, HandleInHand DEF Sent, Busy
    <2>3. Sent' = Sent /\ Aside' = Aside /\ Gone' = Gone
      BY <2>1 DEF Sent, Aside, Gone
    <2>4. Contract!Finish({h.msg})
      BY <2>1, <2>2, <2>3 DEF Contract!Finish, Aside, Gone
    <2> QED BY <2>2, <2>4 DEF Contract!ContractNext, Sent
  <1>4. CASE ack(c) \/ removeOriginal(c)
    <2>1. /\ consumer[c].pc \in {"acking", "removing"} /\ UNCHANGED <<dlq, finished>>
          /\ \E answer \in Answers(h) : DeleteMessage(h, answer)
      BY <1>4 DEF ack, removeOriginal
    <2> QED BY <2>1, DeleteIsLeave
  <1>5. CASE nack(c)
    <2>1. /\ consumer[c].pc = "nacking" /\ UNCHANGED <<dlq, finished>>
          /\ \E answer \in NackAnswers(h) : ChangeMessageVisibility(h, answer)
      BY <1>5 DEF nack
    <2> QED BY <2>1, NackIsNothing, HandleInHand DEF Busy
  <1>6. CASE copyToDlq(c)
    <2>1. /\ consumer[c].pc = "copying" /\ UNCHANGED <<sqs, finished>>
          /\ dlq' = [dlq EXCEPT ![h.msg] = @ + 1] \/ dlq' = dlq
      BY <1>6 DEF copyToDlq
    <2> QED BY <2>1, CopyIsPutAside, SameForTheContract DEF Sent, Aside, Gone
  <1>7. CASE CallFails(c)
    <2>1. CASE consumer[c].pc \in {"acking", "removing"}
      <3>1. /\ UNCHANGED <<dlq, finished>>
            /\ \E answer \in Answers(h) : DeleteMessage(h, answer)
        BY <1>7, <2>1 DEF CallFails
      <3> QED BY <2>1, <3>1, DeleteIsLeave
    <2>2. CASE consumer[c].pc = "nacking"
      <3>1. /\ UNCHANGED <<dlq, finished>>
            /\ \E answer \in NackAnswers(h) : ChangeMessageVisibility(h, answer)
        BY <1>7, <2>2 DEF CallFails
      <3> QED BY <2>2, <3>1, NackIsNothing, HandleInHand DEF Busy
    <2>3. CASE consumer[c].pc = "copying"
      <3>1. dlq' = [dlq EXCEPT ![h.msg] = @ + 1] /\ UNCHANGED <<sqs, finished>>
        BY <1>7, <2>3 DEF CallFails
      <3> QED BY <2>3, <3>1, CopyIsPutAside
    <2> QED BY <1>7, <2>1, <2>2, <2>3 DEF CallFails
  <1> QED BY <1>1, <1>2, <1>3, <1>4, <1>5, <1>6, <1>7, <1>8 DEF ConsumerStep

\* The SQS adapter under the worker's loop implements at-least-once delivery: a
\* message leaves the queue only finished or with a copy in the dead-letter
\* queue, whatever SQS does with old handles (sqs.py:70-96).
THEOREM SqsImplementsDelivery == Spec => SqsDelivers
  <1>1. Init => Contract!ContractInit
    BY DEF Init, Contract!ContractInit, Sent
  <1>2. Inv /\ [Next]_vars => [Contract!ContractNext]_(Contract!contractVars)
    <2> SUFFICES ASSUME Inv, [Next]_vars
                 PROVE  Contract!ContractNext \/ UNCHANGED Contract!contractVars
      OBVIOUS
    <2>1. CASE UNCHANGED vars
      BY <2>1, SameForTheContract DEF vars, Sent, Aside, Gone
    <2> QED BY <2>1, QueueStepsMap, ConsumerStepsMap DEF Next
  <1> QED BY <1>1, <1>2, InvAlways, PTL DEF Spec, SqsDelivers, Contract!ContractSpec

-----------------------------------------------------------------------------
\* What a consumer has in hand: a handle whose body is cached while it is busy,
\* none otherwise; and it puts a message back below the ceiling only.
IdleHoldsNothing == \A c \in Consumers : consumer[c].pc \notin Busy => consumer[c].handle = NoHandle

HandleIsCached ==
    \A c \in Consumers : consumer[c].pc \in Busy => consumer[c].handle \in consumer[c].received

NackersBelowCeiling ==
    \A c \in Consumers : consumer[c].pc = "nacking" => consumer[c].handle.n < MaxDelivery

HandIInv == Inv /\ IdleHoldsNothing /\ HandleIsCached /\ NackersBelowCeiling

\* c has let its handle go.
LetsGo(c) == consumer'[c].pc \notin Busy /\ consumer'[c].handle = NoHandle

\* c goes on with the handle it has.
GoesOn(c) ==
    /\ consumer[c].pc \in Busy /\ consumer'[c].pc \in Busy
    /\ consumer'[c].handle = consumer[c].handle
    /\ consumer'[c].received = consumer[c].received
    /\ consumer'[c].pc = "nacking" => consumer[c].handle.n < MaxDelivery

Others(c) == \A d \in Consumers : d # c => consumer'[d] = consumer[d]

LEMMA DiesLetsGo ==
    ASSUME TypeOK, NEW c \in Consumers, Dies(c)
    PROVE  LetsGo(c) /\ Others(c)
  BY DEF TypeOK, Dies, NewInstance, LetsGo, Others, Busy

LEMMA IdleLetsGo ==
    ASSUME TypeOK, NEW c \in Consumers, NEW cache, Idle(c, cache)
    PROVE  LetsGo(c) /\ Others(c)
  BY DEF TypeOK, Idle, LetsGo, Others, Busy

LEMMA GotoGoesOn ==
    ASSUME TypeOK, NEW c \in Consumers, consumer[c].pc \in Busy, NEW step \in Busy \ {"nacking"},
           Goto(c, step)
    PROVE  GoesOn(c) /\ Others(c)
  BY DEF TypeOK, ConsumerStates, Goto, GoesOn, Others, Busy

LEMMA FailureGoesOn ==
    ASSUME Inv, NEW c \in Consumers, consumer[c].pc = "working",
           Goto(c, AfterFailure(consumer[c].handle))
    PROVE  GoesOn(c) /\ Others(c)
  <1>1. consumer[c].handle \in Handles
    BY HandleInHand DEF Busy
  <1>2. consumer[c].handle.n \in Nat
    BY <1>1 DEF Handles
  <1> QED BY <1>1, <1>2 DEF Inv, TypeOK, ConsumerStates, Goto, GoesOn, Others, Busy, AfterFailure

\* What a step does to what c holds.
LEMMA HandEffect ==
    ASSUME Inv, NEW c \in Consumers,
           \/ Start(c) \/ RejectMalformed(c) \/ Succeeds(c) \/ Fails(c) \/ FailsAfterCommit(c)
           \/ ack(c) \/ nack(c) \/ copyToDlq(c) \/ removeOriginal(c)
           \/ CallFails(c) \/ Crash(c)
           \/ \E m \in Messages : receiveThrows(c, m)
    PROVE  (LetsGo(c) \/ GoesOn(c)) /\ Others(c)
  <1>0. TypeOK
    BY DEF Inv
  <1>1. CASE Start(c)
    BY <1>0, <1>1 DEF Start, TypeOK, NewInstance, LetsGo, Others, Busy
  <1>2. CASE RejectMalformed(c) \/ Succeeds(c)
    BY <1>0, <1>2, GotoGoesOn DEF RejectMalformed, Succeeds, Busy
  <1>3. CASE Fails(c) \/ FailsAfterCommit(c)
    BY <1>3, FailureGoesOn DEF Fails, FailsAfterCommit
  <1>4. CASE ack(c) \/ nack(c) \/ removeOriginal(c)
    BY <1>0, <1>4, DiesLetsGo, IdleLetsGo DEF ack, nack, removeOriginal
  <1>5. CASE copyToDlq(c)
    BY <1>0, <1>5, DiesLetsGo, GotoGoesOn DEF copyToDlq, Busy
  <1>6. CASE CallFails(c) \/ Crash(c) \/ \E m \in Messages : receiveThrows(c, m)
    BY <1>0, <1>6, DiesLetsGo DEF CallFails, Crash, receiveThrows
  <1> QED BY <1>1, <1>2, <1>3, <1>4, <1>5, <1>6

LEMMA ReceiveEffect ==
    ASSUME Inv, NEW c \in Consumers, NEW m \in Messages, receive(c, m)
    PROVE  /\ consumer[c].pc = "idle" /\ consumer'[c].pc = "working"
           /\ consumer'[c].handle = [msg |-> m, n |-> sqs[m].receives + 1]
           /\ consumer'[c].handle.msg = m /\ consumer'[c].handle.n = sqs[m].receives + 1
           /\ consumer'[c].handle \in consumer'[c].received
           /\ Others(c)
  BY DEF Inv, TypeOK, receive, Receivable, Cached, Others

LEMMA ReceiveOnSqs ==
    ASSUME Inv, NEW c \in Consumers, NEW m \in Messages, receive(c, m)
    PROVE  /\ sqs[m].at = "visible"
           /\ sqs'[m].at = "hidden" /\ sqs'[m].receives = sqs[m].receives + 1
           /\ \A k \in Messages : k # m => sqs'[k] = sqs[k]
           /\ UNCHANGED <<dlq, finished, faults>>
  BY DEF Inv, TypeOK, receive, Receivable

LEMMA HandStep == HandIInv /\ [Next]_vars => HandIInv'
  <1> SUFFICES ASSUME HandIInv, [Next]_vars PROVE HandIInv'
    OBVIOUS
  <1>0. Inv /\ Inv'
    BY StepInv DEF HandIInv
  <1> USE DEF IdleHoldsNothing, HandleIsCached, NackersBelowCeiling
  <1>1. ASSUME UNCHANGED consumer PROVE HandIInv'
    BY <1>0, <1>1 DEF HandIInv
  <1>2. ASSUME NEW c \in Consumers, NEW m \in Messages, receive(c, m) PROVE HandIInv'
    <2>1. /\ consumer'[c].pc = "working" /\ consumer'[c].handle \in consumer'[c].received
          /\ \A d \in Consumers : d # c => consumer'[d] = consumer[d]
      BY <1>0, <1>2, ReceiveEffect DEF Others
    <2> QED BY <1>0, <2>1 DEF HandIInv, Busy
  <1>3. ASSUME NEW c \in Consumers, LetsGo(c) \/ GoesOn(c), Others(c) PROVE HandIInv'
    BY <1>0, <1>3 DEF HandIInv, Others, LetsGo, GoesOn, Busy
  <1>4. ASSUME NEW m \in Messages, send(m) \/ VisibilityTimeout(m) PROVE UNCHANGED consumer
    BY <1>4 DEF send, VisibilityTimeout
  <1> QED BY <1>0, <1>1, <1>2, <1>3, <1>4, HandEffect DEF Next, ConsumerStep, vars

-----------------------------------------------------------------------------
\* What is cached and not in hand was nacked.
RestWasNacked ==
    \A c \in Consumers :
        \A h \in consumer[c].received \ {consumer[c].handle} : h.n < MaxDelivery

CacheIInv == HandIInv /\ RestWasNacked

\* c keeps no body of the message it lets go, unless it puts that back.
Keeps(c) ==
    \A h \in consumer'[c].received :
        h \in consumer[c].received /\ (h = consumer[c].handle => h.n < MaxDelivery)

LEMMA LettingGoKeeps ==
    ASSUME HandIInv, NEW c \in Consumers,
           \/ Start(c) \/ ack(c) \/ nack(c) \/ removeOriginal(c) \/ Dies(c)
    PROVE  Keeps(c)
  <1>0. TypeOK
    BY DEF HandIInv, Inv
  <1>1. CASE Start(c) \/ Dies(c)
    <2>1. consumer'[c].received = {}
      BY <1>0, <1>1 DEF Start, Dies, NewInstance, TypeOK
    <2> QED BY <2>1 DEF Keeps
  <1>2. CASE ack(c) \/ removeOriginal(c)
    <2>1. Dies(c) \/ Idle(c, consumer[c].received \ {consumer[c].handle})
      BY <1>2 DEF ack, removeOriginal, Evicted
    <2>2. CASE Idle(c, consumer[c].received \ {consumer[c].handle})
      <3>1. consumer'[c].received = consumer[c].received \ {consumer[c].handle}
        BY <1>0, <2>2, IdleEffect
      <3> QED BY <3>1 DEF Keeps
    <2> QED BY <1>1, <2>1, <2>2
  <1>3. CASE nack(c)
    <2>1. /\ consumer[c].handle.n < MaxDelivery
          /\ Dies(c) \/ Idle(c, consumer[c].received)
      BY <1>3 DEF nack, HandIInv, NackersBelowCeiling
    <2>2. CASE Idle(c, consumer[c].received)
      <3>1. consumer'[c].received = consumer[c].received
        BY <1>0, <2>2, IdleEffect
      <3> QED BY <2>1, <3>1 DEF Keeps
    <2> QED BY <1>1, <2>1, <2>2
  <1> QED BY <1>1, <1>2, <1>3

LEMMA CacheStep == CacheIInv /\ [Next]_vars => CacheIInv'
  <1> SUFFICES ASSUME CacheIInv, [Next]_vars PROVE CacheIInv'
    OBVIOUS
  <1>0. HandIInv /\ HandIInv' /\ Inv /\ RestWasNacked /\ NoHandle \notin Handles
    BY HandStep DEF CacheIInv, HandIInv, Handles
  <1>1. ASSUME UNCHANGED consumer PROVE RestWasNacked'
    BY <1>0, <1>1 DEF RestWasNacked
  <1>2. ASSUME NEW c \in Consumers, NEW m \in Messages, receive(c, m) PROVE RestWasNacked'
    <2>1. /\ consumer[c].handle = NoHandle
          /\ consumer'[c].received \subseteq consumer[c].received \cup {consumer'[c].handle}
          /\ \A d \in Consumers : d # c => consumer'[d] = consumer[d]
      BY <1>0, <1>2 DEF HandIInv, Inv, TypeOK, IdleHoldsNothing, Busy, receive, Receivable, Cached
    <2>2. NoHandle \notin consumer[c].received
      BY <1>0 DEF Inv, TypeOK, ConsumerStates
    <2> QED BY <1>0, <2>1, <2>2 DEF RestWasNacked
  <1>3. ASSUME NEW c \in Consumers, Keeps(c), Others(c) PROVE RestWasNacked'
    BY <1>0, <1>3 DEF RestWasNacked, Keeps, Others
  <1>4. ASSUME NEW c \in Consumers, GoesOn(c), Others(c) PROVE RestWasNacked'
    BY <1>0, <1>4 DEF RestWasNacked, GoesOn, Others
  <1>5. ASSUME NEW m \in Messages, send(m) \/ VisibilityTimeout(m) PROVE UNCHANGED consumer
    BY <1>5 DEF send, VisibilityTimeout
  <1>6. ASSUME NEW c \in Consumers,
               \/ Start(c) \/ ack(c) \/ nack(c) \/ removeOriginal(c) \/ CallFails(c) \/ Crash(c)
               \/ \E m \in Messages : receiveThrows(c, m)
        PROVE  Keeps(c) /\ Others(c)
    BY <1>0, <1>6, HandEffect, LettingGoKeeps DEF CallFails, Crash, receiveThrows
  <1>7. ASSUME NEW c \in Consumers, copyToDlq(c)
        PROVE  (Keeps(c) \/ GoesOn(c)) /\ Others(c)
    <2>1. CASE HasBody(c, consumer[c].handle)
      BY <1>0, <1>7, <2>1, GotoGoesOn DEF copyToDlq, Inv, Busy
    <2>2. CASE ~HasBody(c, consumer[c].handle)
      BY <1>0, <1>7, <2>2, HandEffect, LettingGoKeeps DEF copyToDlq
    <2> QED BY <2>1, <2>2
  <1>8. ASSUME NEW c \in Consumers,
               RejectMalformed(c) \/ Succeeds(c) \/ Fails(c) \/ FailsAfterCommit(c)
        PROVE  GoesOn(c) /\ Others(c)
    BY <1>0, <1>8, GotoGoesOn, FailureGoesOn
    DEF RejectMalformed, Succeeds, Fails, FailsAfterCommit, Inv, Busy
  <1> QED BY <1>0, <1>1, <1>2, <1>3, <1>4, <1>5, <1>6, <1>7, <1>8
          DEF CacheIInv, Next, ConsumerStep, vars

-----------------------------------------------------------------------------
One(b) == IF b THEN 1 ELSE 0

HasLatest(c, m) == consumer[c].handle = [msg |-> m, n |-> sqs[m].receives]

\* m can be received once more at no cost: it is visible, still to be sent, or
\* hidden for nobody, as the fault that took its consumer away has been counted.
Loose(m) ==
    \/ sqs[m].at \in {"unsent", "visible"}
    \/ sqs[m].at = "hidden" /\ \A c \in Consumers : ~HasLatest(c, m)

\* A step of c that does not let the newest handle of m go.
LEMMA LooseKept ==
    ASSUME NEW c \in Consumers, NEW m \in Messages, Others(c), sqs'[m] = sqs[m],
           HasLatest(c, m) => consumer'[c].handle = consumer[c].handle
    PROVE  Loose(m)' => Loose(m)
  BY DEF Loose, HasLatest, Others

LEMMA DeleteKeepsLoose ==
    ASSUME HandIInv, NEW c \in Consumers, NEW m \in Messages, Others(c),
           consumer[c].pc \in Busy,
           \E answer \in Answers(consumer[c].handle) : DeleteMessage(consumer[c].handle, answer)
    PROVE  Loose(m)' => Loose(m)
  <1> DEFINE h == consumer[c].handle
  <1>0. /\ h \in Handles /\ h.msg \in Messages /\ h = [msg |-> h.msg, n |-> h.n]
        /\ sqs \in [Messages -> [at : Places, receives : Nat]]
    BY HandleInHand DEF HandIInv, Inv, TypeOK, Handles
  <1>1. PICK answer \in Answers(h) : DeleteMessage(h, answer)
    OBVIOUS
  <1> HIDE DEF h
  <1>2. CASE answer = "obeyed" /\ h.msg = m
    BY <1>0, <1>1, <1>2 DEF DeleteMessage, Loose
  <1>3. CASE answer = "obeyed" /\ h.msg # m
    <2>1. ~HasLatest(c, m)
      BY <1>3 DEF HasLatest, h
    <2>2. sqs'[m] = sqs[m]
      BY <1>0, <1>1, <1>3 DEF DeleteMessage
    <2> QED BY <2>1, <2>2, LooseKept
  <1>4. CASE answer # "obeyed"
    <2>1. ~HasLatest(c, m)
      BY <1>0, <1>1, <1>4 DEF Answers, Latest, HasLatest, h
    <2> QED BY <1>1, <1>4, <2>1, LooseKept DEF DeleteMessage
  <1> QED BY <1>2, <1>3, <1>4

LEMMA ReceiveLoose ==
    ASSUME HandIInv, NEW m \in Messages, NEW c \in Consumers, receive(c, m)
    PROVE  Loose(m) /\ ~Loose(m)' /\ UNCHANGED faults
  <1>1. /\ sqs'[m].at = "hidden" /\ sqs'[m].receives = sqs[m].receives + 1
        /\ consumer'[c].handle = [msg |-> m, n |-> sqs[m].receives + 1]
        /\ sqs[m].at = "visible" /\ UNCHANGED faults
    BY ReceiveEffect, ReceiveOnSqs DEF HandIInv
  <1>2. HasLatest(c, m)'
    BY <1>1 DEF HasLatest
  <1> QED BY <1>1, <1>2 DEF Loose

\* c meets a body of JSON null, and its process ends.
GivesUp(c) ==
    /\ copyToDlq(c)
    /\ consumer[c].handle.msg \in NullBodies

\* What a step does to m being loose.
LEMMA LooseEffect ==
    ASSUME HandIInv, [Next]_vars, NEW m \in Messages
    PROVE  \/ faults' = faults + 1
           \/ UNCHANGED faults /\ \E c \in Consumers : receive(c, m) /\ Loose(m) /\ ~Loose(m)'
           \/ UNCHANGED faults /\ \E c \in Consumers :
                                     (nack(c) \/ GivesUp(c)) /\ consumer[c].handle.msg = m
           \/ UNCHANGED faults /\ (Loose(m)' => Loose(m))
  <1>0. /\ Inv /\ TypeOK /\ IdleHoldsNothing /\ HandleIsCached
        /\ sqs \in [Messages -> [at : Places, receives : Nat]]
        /\ NoHandle \notin Handles
        /\ [msg |-> m, n |-> sqs[m].receives] \in Handles
    BY DEF HandIInv, Inv, TypeOK, Handles
  <1>1. ASSUME NEW k \in Messages, send(k)
        PROVE  UNCHANGED faults /\ (Loose(m)' => Loose(m))
    BY <1>0, <1>1 DEF send, Loose, HasLatest
  <1>2. ASSUME NEW k \in Messages, VisibilityTimeout(k)
        PROVE  faults' = faults + 1 \/ (UNCHANGED faults /\ (Loose(m)' => Loose(m)))
    BY <1>0, <1>2 DEF VisibilityTimeout, Fault, Loose, HasLatest
  <1>3. ASSUME NEW c \in Consumers, NEW k \in Messages, receive(c, k), k # m
        PROVE  UNCHANGED faults /\ (Loose(m)' => Loose(m))
    <2>1. consumer[c].pc = "idle" /\ Others(c)
      BY <1>0, <1>3, ReceiveEffect
    <2>0. sqs'[m] = sqs[m] /\ UNCHANGED faults
      BY <1>0, <1>3, ReceiveOnSqs
    <2>2. consumer[c].handle = NoHandle
      BY <1>0, <2>1 DEF IdleHoldsNothing, Busy
    <2>3. ~HasLatest(c, m)
      BY <1>0, <2>2 DEF HasLatest
    <2> QED BY <2>0, <2>1, <2>3, LooseKept
  <1>4. ASSUME NEW c \in Consumers, receive(c, m)
        PROVE  UNCHANGED faults /\ Loose(m) /\ ~Loose(m)'
    BY <1>4, ReceiveLoose
  <1>5. ASSUME NEW c \in Consumers, Start(c)
        PROVE  UNCHANGED faults /\ (Loose(m)' => Loose(m))
    <2>1. consumer[c].handle = NoHandle
      BY <1>0, <1>5 DEF Start, IdleHoldsNothing, Busy
    <2>2. Others(c) /\ UNCHANGED <<sqs, faults>>
      BY <1>0, <1>5, HandEffect DEF Start
    <2> QED BY <1>0, <2>1, <2>2, LooseKept DEF HasLatest
  <1>12. ASSUME NEW c \in Consumers, NEW k \in Messages, receiveThrows(c, k)
         PROVE  UNCHANGED faults /\ (Loose(m)' => Loose(m))
    <2>1. Others(c) /\ UNCHANGED faults
      BY <1>0, <1>12, HandEffect DEF receiveThrows
    <2>2. consumer[c].handle = NoHandle
      BY <1>0, <1>12 DEF receiveThrows, Receivable, IdleHoldsNothing, Busy
    <2>3. k = m => Loose(m)
      BY <1>12 DEF receiveThrows, Receivable, Loose
    <2>4. k # m => sqs'[m] = sqs[m]
      BY <1>0, <1>12, ReceiveThrowsOnSqs
    <2> QED BY <1>0, <2>1, <2>2, <2>3, <2>4, LooseKept DEF HasLatest
  <1>13. ASSUME NEW c \in Consumers, GivesUp(c), consumer[c].handle.msg # m
         PROVE  UNCHANGED faults /\ (Loose(m)' => Loose(m))
    <2>1. Others(c) /\ UNCHANGED <<sqs, faults>>
      BY <1>0, <1>13, HandEffect DEF GivesUp, copyToDlq
    <2>2. ~HasLatest(c, m)
      BY <1>13 DEF HasLatest
    <2> QED BY <2>1, <2>2, LooseKept
  <1>14. ASSUME NEW c \in Consumers, GivesUp(c)
         PROVE  UNCHANGED faults
    BY <1>14 DEF GivesUp, copyToDlq
  <1>6. ASSUME NEW c \in Consumers,
               \/ RejectMalformed(c) \/ Succeeds(c) \/ Fails(c)
               \/ copyToDlq(c) /\ ~GivesUp(c)
        PROVE  UNCHANGED faults /\ (Loose(m)' => Loose(m))
    <2>1. Others(c) /\ UNCHANGED <<sqs, faults>>
      BY <1>0, <1>6, HandEffect DEF RejectMalformed, Succeeds, Fails, copyToDlq
    <2>2. consumer[c].pc \in Busy
      BY <1>6 DEF RejectMalformed, Succeeds, Fails, copyToDlq, Busy
    <2>3. \E step : Goto(c, step)
      BY <1>0, <1>6, <2>2 DEF RejectMalformed, Succeeds, Fails, copyToDlq, GivesUp, HasBody,
                              HandleIsCached
    <2>4. consumer'[c].handle = consumer[c].handle
      BY <1>0, <2>3 DEF Goto, TypeOK, ConsumerStates
    <2> QED BY <2>1, <2>4, LooseKept
  <1>7. ASSUME NEW c \in Consumers, ack(c) \/ removeOriginal(c)
        PROVE  UNCHANGED faults /\ (Loose(m)' => Loose(m))
    <2>1. Others(c)
      BY <1>0, <1>7, HandEffect
    <2>2. /\ UNCHANGED faults /\ consumer[c].pc \in Busy
          /\ \E answer \in Answers(consumer[c].handle) : DeleteMessage(consumer[c].handle, answer)
      BY <1>7 DEF ack, removeOriginal, Busy
    <2> QED BY <2>1, <2>2, DeleteKeepsLoose
  <1>8. ASSUME NEW c \in Consumers, nack(c), consumer[c].handle.msg # m
        PROVE  UNCHANGED faults /\ (Loose(m)' => Loose(m))
    <2>1. Others(c) /\ UNCHANGED faults
      BY <1>0, <1>8, HandEffect DEF nack
    <2>2. sqs'[m] = sqs[m]
      BY <1>0, <1>8 DEF nack, ChangeMessageVisibility
    <2>3. ~HasLatest(c, m)
      BY <1>8 DEF HasLatest
    <2> QED BY <2>1, <2>2, <2>3, LooseKept
  <1>9. ASSUME NEW c \in Consumers, nack(c)
        PROVE  UNCHANGED faults
    BY <1>9 DEF nack
  <1>10. ASSUME NEW c \in Consumers, FailsAfterCommit(c) \/ CallFails(c) \/ Crash(c)
         PROVE  faults' = faults + 1
    BY <1>10 DEF FailsAfterCommit, CallFails, Crash, Fault
  <1>11. CASE UNCHANGED vars
    BY <1>11 DEF vars, Loose, HasLatest
  <1> QED
    BY <1>1, <1>2, <1>3, <1>4, <1>5, <1>6, <1>7, <1>8, <1>9, <1>10, <1>11, <1>12, <1>13, <1>14
    DEF Next, ConsumerStep

-----------------------------------------------------------------------------
\* Consumers that hold m below the ceiling: each can put it back once.
Slots(m) ==
    {c \in Consumers : consumer[c].pc \in Busy /\ consumer[c].handle.msg = m
                           /\ consumer[c].handle.n < MaxDelivery}

\* Receives below the ceiling that are still to come.
Rest(n) == IF n < MaxDelivery THEN MaxDelivery - 1 - n ELSE 0

ReceiveAccount(m) ==
    /\ IsFiniteSet(Slots(m))
    /\ sqs[m].receives + Rest(sqs[m].receives) + One(Loose(m)) + Cardinality(Slots(m))
           <= MaxDelivery + faults

\* Consumers whose hold of m can still end in an outcome.
Undecided(m) ==
    {c \in Consumers : consumer[c].pc \in {"working", "nacking", "copying"}
                           /\ consumer[c].handle.msg = m}

OutcomeAccount(m) ==
    /\ IsFiniteSet(Undecided(m))
    /\ Outcomes(m) + One(Loose(m)) + Cardinality(Undecided(m)) <= 1 + faults

PaidIInv ==
    /\ HandIInv
    /\ \A m \in Messages \ Poison : ReceiveAccount(m)
    /\ \A m \in Messages : OutcomeAccount(m)

\* Only a receive changes how often a message was received.
LEMMA ReceivesKept ==
    ASSUME Inv, NEW m \in Messages,
           \/ \E k \in Messages : send(k) \/ VisibilityTimeout(k)
           \/ \E c \in Consumers :
                 \/ Start(c) \/ RejectMalformed(c) \/ Succeeds(c) \/ Fails(c) \/ FailsAfterCommit(c)
                 \/ ack(c) \/ nack(c) \/ copyToDlq(c) \/ removeOriginal(c)
                 \/ CallFails(c) \/ Crash(c)
           \/ UNCHANGED vars
    PROVE  sqs'[m].receives = sqs[m].receives
  <1>0. sqs \in [Messages -> [at : Places, receives : Nat]]
    BY DEF Inv, TypeOK
  <1>1. ASSUME NEW h, NEW answer, DeleteMessage(h, answer) \/ ChangeMessageVisibility(h, answer)
        PROVE  sqs'[m].receives = sqs[m].receives
    BY <1>0, <1>1 DEF DeleteMessage, ChangeMessageVisibility
  <1>2. ASSUME NEW k \in Messages, send(k) \/ VisibilityTimeout(k)
        PROVE  sqs'[m].receives = sqs[m].receives
    BY <1>0, <1>2 DEF send, VisibilityTimeout
  <1>3. ASSUME NEW c \in Consumers,
               \/ Start(c) \/ RejectMalformed(c) \/ Succeeds(c) \/ Fails(c) \/ FailsAfterCommit(c)
               \/ copyToDlq(c) \/ Crash(c)
        PROVE  sqs'[m].receives = sqs[m].receives
    BY <1>3 DEF Start, RejectMalformed, Succeeds, Fails, FailsAfterCommit, copyToDlq, Crash
  <1>4. ASSUME NEW c \in Consumers, ack(c) \/ nack(c) \/ removeOriginal(c) \/ CallFails(c)
        PROVE  sqs'[m].receives = sqs[m].receives
    BY <1>1, <1>4 DEF ack, nack, removeOriginal, CallFails
  <1> QED BY <1>2, <1>3, <1>4 DEF vars

\* A consumer with an idle process before and a handle of m after has received m.
LEMMA ReceiveHolders ==
    ASSUME HandIInv, NEW m \in Messages, NEW k \in Messages, NEW c \in Consumers, receive(c, k)
    PROVE  /\ k # m => Slots(m)' = Slots(m) /\ Undecided(m)' = Undecided(m)
           /\ k = m => /\ Undecided(m)' \subseteq Undecided(m) \cup {c}
                       /\ Slots(m)' \subseteq IF sqs[m].receives + 1 < MaxDelivery
                                              THEN Slots(m) \cup {c} ELSE Slots(m)
  <1>1. /\ consumer[c].pc = "idle" /\ consumer'[c].pc = "working"
        /\ consumer'[c].handle.msg = k /\ consumer'[c].handle.n = sqs[k].receives + 1
        /\ Others(c)
    BY ReceiveEffect DEF HandIInv
  <1> QED BY <1>1 DEF Slots, Undecided, Others, Busy

LEMMA StepHolders ==
    ASSUME HandIInv, NEW m \in Messages, NEW c \in Consumers, LetsGo(c) \/ GoesOn(c), Others(c)
    PROVE  Slots(m)' \subseteq Slots(m)
  BY DEF Slots, LetsGo, GoesOn, Others

\* Only a receive of m adds a holder of m, and a nack of m takes one away.
LEMMA HoldersEffect ==
    ASSUME HandIInv, [Next]_vars, NEW m \in Messages \ Poison
    PROVE  \/ /\ Slots(m)' \subseteq Slots(m)
              /\ sqs'[m].receives = sqs[m].receives
              /\ \A c \in Consumers : ~receive(c, m)
           \/ \E c \in Consumers :
                 /\ receive(c, m)
                 /\ sqs'[m].receives = sqs[m].receives + 1
                 /\ Slots(m)' \subseteq IF sqs[m].receives + 1 < MaxDelivery
                                        THEN Slots(m) \cup {c} ELSE Slots(m)
  <1>0. Inv
    BY DEF HandIInv
  <1>1. CASE \E c \in Consumers : receive(c, m)
    BY <1>0, <1>1, ReceiveOnSqs, ReceiveHolders
  <1>2. ASSUME NEW c \in Consumers, NEW k \in Messages, receive(c, k), k # m
        PROVE  Slots(m)' \subseteq Slots(m) /\ sqs'[m].receives = sqs[m].receives
    <2>1. sqs'[m] = sqs[m]
      BY <1>0, <1>2, ReceiveOnSqs
    <2>2. Slots(m)' = Slots(m)
      BY <1>2, ReceiveHolders
    <2> QED BY <2>1, <2>2
  <1>3. ASSUME NEW k \in Messages, send(k) \/ VisibilityTimeout(k)
        PROVE  Slots(m)' \subseteq Slots(m) /\ sqs'[m].receives = sqs[m].receives
    BY <1>0, <1>3, ReceivesKept DEF send, VisibilityTimeout, Slots
  <1>4. ASSUME NEW c \in Consumers,
               \/ Start(c) \/ RejectMalformed(c) \/ Succeeds(c) \/ Fails(c) \/ FailsAfterCommit(c)
               \/ ack(c) \/ nack(c) \/ copyToDlq(c) \/ removeOriginal(c)
               \/ CallFails(c) \/ Crash(c)
        PROVE  Slots(m)' \subseteq Slots(m) /\ sqs'[m].receives = sqs[m].receives
    <2>1. sqs'[m].receives = sqs[m].receives
      BY <1>0, <1>4, ReceivesKept
    <2>2. (LetsGo(c) \/ GoesOn(c)) /\ Others(c)
      BY <1>0, <1>4, HandEffect
    <2> QED BY <2>1, <2>2, StepHolders
  <1>5. ASSUME UNCHANGED vars
        PROVE  Slots(m)' \subseteq Slots(m) /\ sqs'[m].receives = sqs[m].receives
    BY <1>5 DEF vars, Slots
  <1>6. ASSUME NEW c \in Consumers, NEW k \in Messages, receiveThrows(c, k)
        PROVE  Slots(m)' \subseteq Slots(m) /\ sqs'[m].receives = sqs[m].receives
    <2>1. sqs'[m] = sqs[m]
      BY <1>0, <1>6, ReceiveThrowsOnSqs DEF Inv, receiveThrows, Poison
    <2>2. (LetsGo(c) \/ GoesOn(c)) /\ Others(c)
      BY <1>0, <1>6, HandEffect
    <2> QED BY <2>1, <2>2, StepHolders
  <1> QED BY <1>1, <1>2, <1>3, <1>4, <1>5, <1>6 DEF Next, ConsumerStep

\* A nack gives a slot up.
LEMMA NackGivesSlot ==
    ASSUME HandIInv, NEW m \in Messages, NEW c \in Consumers, nack(c), consumer[c].handle.msg = m
    PROVE  /\ c \in Slots(m) /\ Slots(m)' \subseteq Slots(m) \ {c}
           /\ c \in Undecided(m) /\ Undecided(m)' \subseteq Undecided(m) \ {c}
           /\ Outcomes(m)' = Outcomes(m)
  <1>1. consumer[c].pc = "nacking" /\ UNCHANGED <<dlq, finished>>
    BY DEF nack
  <1>2. Others(c) /\ consumer'[c].pc \in {"down", "idle"}
    BY <1>1 DEF HandIInv, Inv, TypeOK, nack, Dies, NewInstance, Idle, Others
  <1>3. consumer[c].handle.n < MaxDelivery
    BY <1>1 DEF HandIInv, NackersBelowCeiling
  <1> QED BY <1>1, <1>2, <1>3 DEF Slots, Undecided, Others, Outcomes, Busy

\* What gives a message up has held it, and has decided nothing.
LEMMA GivingUp ==
    ASSUME HandIInv, NEW m \in Messages, NEW c \in Consumers, GivesUp(c),
           consumer[c].handle.msg = m
    PROVE  /\ m \in Poison
           /\ c \in Undecided(m) /\ Undecided(m)' \subseteq Undecided(m) \ {c}
  <1>1. consumer[c].pc = "copying" /\ m \in Poison /\ Dies(c)
    BY DEF GivesUp, copyToDlq, HasBody, Poison
  <1>2. Others(c) /\ consumer'[c].pc = "down"
    BY <1>1 DEF HandIInv, Inv, TypeOK, Dies, NewInstance, Others
  <1> QED BY <1>1, <1>2 DEF Undecided, Others

LEMMA ReceiveAccountStep ==
    ASSUME HandIInv, [Next]_vars, NEW m \in Messages \ Poison, ReceiveAccount(m)
    PROVE  ReceiveAccount(m)'
  <1>0. /\ sqs[m].receives \in Nat /\ faults \in Nat /\ MaxDelivery \in Nat \ {0}
        /\ IsFiniteSet(Slots(m)) /\ Cardinality(Slots(m)) \in Nat
        /\ faults' \in {faults, faults + 1}
    <2>1. faults' \in {faults, faults + 1}
      BY LooseEffect
    <2> QED BY <2>1, FS_CardinalityType DEF ReceiveAccount, HandIInv, Inv, TypeOK
  <1> USE DEF One, Rest
  <1>1. CASE /\ Slots(m)' \subseteq Slots(m) /\ sqs'[m].receives = sqs[m].receives
             /\ \A c \in Consumers : ~receive(c, m)
    <2>1. IsFiniteSet(Slots(m)') /\ Cardinality(Slots(m)') <= Cardinality(Slots(m))
          /\ Cardinality(Slots(m)') \in Nat
      BY <1>0, <1>1, FS_Subset, FS_CardinalityType
    <2>2. CASE faults' = faults + 1
      BY <1>0, <1>1, <2>1, <2>2 DEF ReceiveAccount
    <2>3. CASE UNCHANGED faults /\ (Loose(m)' => Loose(m))
      BY <1>0, <1>1, <2>1, <2>3 DEF ReceiveAccount
    <2>4. ASSUME NEW c \in Consumers, nack(c), consumer[c].handle.msg = m, UNCHANGED faults
          PROVE  ReceiveAccount(m)'
      <3>1. c \in Slots(m) /\ Slots(m)' \subseteq Slots(m) \ {c}
        BY <2>4, NackGivesSlot
      <3>2. IsFiniteSet(Slots(m) \ {c}) /\ Cardinality(Slots(m) \ {c}) = Cardinality(Slots(m)) - 1
        BY <1>0, <3>1, FS_RemoveElement
      <3>3. Cardinality(Slots(m)') <= Cardinality(Slots(m)) - 1
        BY <3>1, <3>2, FS_Subset
      <3> QED BY <1>0, <1>1, <2>1, <2>4, <3>3 DEF ReceiveAccount
    <2> QED BY <1>1, <2>2, <2>3, <2>4, LooseEffect, GivingUp
  <1>2. ASSUME NEW c \in Consumers, receive(c, m),
               sqs'[m].receives = sqs[m].receives + 1,
               Slots(m)' \subseteq IF sqs[m].receives + 1 < MaxDelivery
                                   THEN Slots(m) \cup {c} ELSE Slots(m)
        PROVE  ReceiveAccount(m)'
    <2>1. Loose(m) /\ ~Loose(m)' /\ UNCHANGED faults
      BY <1>2, ReceiveLoose
    <2>2. CASE sqs[m].receives + 1 < MaxDelivery
      <3>1. /\ IsFiniteSet(Slots(m) \cup {c})
            /\ Cardinality(Slots(m) \cup {c}) <= Cardinality(Slots(m)) + 1
        <4>1. Cardinality(Slots(m) \cup {c}) =
                 IF c \in Slots(m) THEN Cardinality(Slots(m)) ELSE Cardinality(Slots(m)) + 1
          BY <1>0, FS_AddElement
        <4> QED BY <1>0, <4>1, FS_AddElement
      <3>2. Slots(m)' \in SUBSET (Slots(m) \cup {c})
        BY <1>2, <2>2
      <3>3. /\ IsFiniteSet(Slots(m)') /\ Cardinality(Slots(m)') <= Cardinality(Slots(m)) + 1
            /\ Cardinality(Slots(m)') \in Nat
        BY <1>0, <3>1, <3>2, FS_Subset, FS_CardinalityType
      <3> QED BY <1>0, <1>2, <2>1, <2>2, <3>3 DEF ReceiveAccount
    <2>3. CASE ~(sqs[m].receives + 1 < MaxDelivery)
      <3>1. Slots(m)' \in SUBSET Slots(m)
        BY <1>2, <2>3
      <3>2. /\ IsFiniteSet(Slots(m)') /\ Cardinality(Slots(m)') <= Cardinality(Slots(m))
            /\ Cardinality(Slots(m)') \in Nat
        BY <1>0, <3>1, FS_Subset, FS_CardinalityType
      <3> QED BY <1>0, <1>2, <2>1, <2>3, <3>2 DEF ReceiveAccount
    <2> QED BY <2>2, <2>3
  <1> QED BY <1>1, <1>2, HoldersEffect

-----------------------------------------------------------------------------
LEMMA OutcomesGrow ==
    ASSUME Inv, NEW m \in Messages, NEW k \in Messages,
           \/ finished' = finished \cup {k} /\ UNCHANGED dlq
           \/ dlq' = [dlq EXCEPT ![k] = @ + 1] /\ UNCHANGED finished
    PROVE  /\ Outcomes(m)' \in {Outcomes(m), Outcomes(m) + 1}
           /\ k # m => Outcomes(m)' = Outcomes(m)
  <1>0. dlq \in [Messages -> Nat]
    BY DEF Inv, TypeOK
  <1>1. CASE finished' = finished \cup {k} /\ UNCHANGED dlq
    <2>1. m \in finished => m \in finished'
      BY <1>1
    <2>2. k # m => (m \in finished' <=> m \in finished)
      BY <1>1
    <2>3. dlq'[m] = dlq[m] /\ dlq[m] \in Nat
      BY <1>0, <1>1
    <2> QED BY <2>1, <2>2, <2>3 DEF Outcomes
  <1>2. CASE dlq' = [dlq EXCEPT ![k] = @ + 1] /\ UNCHANGED finished
    <2>1. dlq[m] \in Nat /\ dlq'[m] = IF k = m THEN dlq[m] + 1 ELSE dlq[m]
      BY <1>0, <1>2
    <2> QED BY <1>2, <2>1 DEF Outcomes
  <1> QED BY <1>1, <1>2

LEMMA UndecidedKept ==
    ASSUME NEW c \in Consumers, NEW m \in Messages, Others(c),
           \/ consumer'[c].pc \notin {"working", "nacking", "copying"}
           \/ /\ consumer[c].pc \in {"working", "nacking", "copying"}
              /\ consumer'[c].handle = consumer[c].handle
    PROVE  /\ Undecided(m)' \subseteq Undecided(m)
           /\ (/\ consumer[c].handle.msg = m
               /\ consumer[c].pc \in {"working", "nacking", "copying"}
               /\ consumer'[c].pc \notin {"working", "nacking", "copying"}) =>
                  c \in Undecided(m) /\ Undecided(m)' \subseteq Undecided(m) \ {c}
  <1>1. ASSUME NEW d \in Undecided(m)' PROVE d \in Undecided(m)
    <2>1. CASE d = c
      BY <1>1, <2>1 DEF Undecided
    <2>2. CASE d # c
      BY <1>1, <2>2 DEF Undecided, Others
    <2> QED BY <2>1, <2>2
  <1>2. ASSUME consumer'[c].pc \notin {"working", "nacking", "copying"}
        PROVE  c \notin Undecided(m)'
    BY <1>2 DEF Undecided
  <1>3. ASSUME consumer[c].handle.msg = m, consumer[c].pc \in {"working", "nacking", "copying"}
        PROVE  c \in Undecided(m)
    BY <1>3 DEF Undecided
  <1>4. Undecided(m)' \subseteq Undecided(m)
    BY <1>1
  <1>5. ASSUME c \notin Undecided(m)' PROVE Undecided(m)' \subseteq Undecided(m) \ {c}
    BY <1>4, <1>5
  <1> QED BY <1>2, <1>3, <1>4, <1>5

\* Nothing of m is decided, and nobody takes it up.
Undisturbed(m) ==
    /\ Undecided(m)' \subseteq Undecided(m) /\ Outcomes(m)' = Outcomes(m)
    /\ \A c \in Consumers : ~receive(c, m)

\* A consumer that had m in hand has decided it.
Decided(m) ==
    /\ \E c \in Undecided(m) : Undecided(m)' \subseteq Undecided(m) \ {c}
    /\ Outcomes(m)' \in {Outcomes(m), Outcomes(m) + 1}

\* Success, the copy to the dead-letter queue, and a copy whose reply is lost.
LEMMA DecidingStep ==
    ASSUME HandIInv, NEW m \in Messages, NEW c \in Consumers,
           consumer[c].pc \in {"working", "copying"},
           consumer'[c].pc \notin {"working", "nacking", "copying"}, Others(c),
           \/ finished' = finished \cup {consumer[c].handle.msg} /\ UNCHANGED dlq
           \/ dlq' = [dlq EXCEPT ![consumer[c].handle.msg] = @ + 1] /\ UNCHANGED finished
    PROVE  \/ Decided(m)
           \/ Undecided(m)' \subseteq Undecided(m) /\ Outcomes(m)' = Outcomes(m)
  <1> DEFINE k == consumer[c].handle.msg
  <1>1. Inv /\ k \in Messages
    BY HandleInHand DEF HandIInv, Busy
  <1>2. /\ Outcomes(m)' \in {Outcomes(m), Outcomes(m) + 1}
        /\ k # m => Outcomes(m)' = Outcomes(m)
    BY <1>1, OutcomesGrow
  <1> QED BY <1>2, UndecidedKept DEF Decided

LEMMA OutcomeEffect ==
    ASSUME HandIInv, [Next]_vars, NEW m \in Messages
    PROVE  \/ Undisturbed(m)
           \/ Decided(m) /\ (faults' = faults + 1 \/ (UNCHANGED faults /\ (Loose(m)' => Loose(m))))
           \/ /\ faults' = faults + 1 /\ (Loose(m)' => Loose(m))
              /\ Undecided(m)' \subseteq Undecided(m)
              /\ Outcomes(m)' \in {Outcomes(m), Outcomes(m) + 1}
           \/ \E c \in Consumers : receive(c, m)
  <1> DEFINE Idly == Undecided(m)' \subseteq Undecided(m) /\ Outcomes(m)' = Outcomes(m)
  <1>0. /\ Inv /\ HandleIsCached
        /\ consumer \in [Consumers -> ConsumerStates]
    BY DEF HandIInv, Inv, TypeOK
  <1>1. ASSUME NEW k \in Messages, send(k) \/ VisibilityTimeout(k) PROVE Idly
    BY <1>1 DEF send, VisibilityTimeout, Undecided, Outcomes
  <1>2. ASSUME NEW c \in Consumers, NEW k \in Messages, receive(c, k), k # m PROVE Idly
    <2>1. Undecided(m)' = Undecided(m)
      BY <1>2, ReceiveHolders
    <2>2. UNCHANGED <<dlq, finished>>
      BY <1>0, <1>2, ReceiveOnSqs
    <2> QED BY <2>1, <2>2 DEF Outcomes
  <1>3. ASSUME NEW c \in Consumers, RejectMalformed(c) \/ Fails(c) PROVE Idly
    <2>1. /\ consumer[c].pc = "working" /\ Others(c) /\ UNCHANGED <<dlq, finished>>
          /\ \E step : Goto(c, step)
      BY <1>0, <1>3, HandEffect DEF RejectMalformed, Fails
    <2>2. consumer'[c].handle = consumer[c].handle
      BY <1>0, <2>1 DEF Goto, ConsumerStates
    <2> QED BY <2>1, <2>2, UndecidedKept DEF Outcomes
  <1>4. ASSUME NEW c \in Consumers,
               \/ Start(c) \/ ack(c) \/ nack(c) \/ removeOriginal(c) \/ Crash(c) \/ GivesUp(c)
               \/ CallFails(c) /\ consumer[c].pc # "copying"
               \/ \E k \in Messages : receiveThrows(c, k)
        PROVE  Idly
    <2>1. Others(c) /\ UNCHANGED <<dlq, finished>>
      BY <1>0, <1>4, HandEffect DEF Start, ack, nack, removeOriginal, Crash, CallFails,
                                    GivesUp, copyToDlq, HasBody, receiveThrows
    <2>2. consumer'[c].pc \in {"down", "idle"}
      BY <1>0, <1>4 DEF Start, ack, nack, removeOriginal, Crash, CallFails, Dies, Idle,
                        NewInstance, GivesUp, copyToDlq, HasBody, receiveThrows
    <2> QED BY <2>1, <2>2, UndecidedKept DEF Outcomes
  <1>5. ASSUME NEW c \in Consumers, CallFails(c), consumer[c].pc = "copying"
        PROVE  Idly \/ (Decided(m) /\ faults' = faults + 1)
    <2>1. /\ Others(c) /\ UNCHANGED finished /\ faults' = faults + 1
          /\ dlq' = [dlq EXCEPT ![consumer[c].handle.msg] = @ + 1]
      BY <1>0, <1>5, HandEffect DEF CallFails, Fault
    <2>2. consumer'[c].pc = "down"
      BY <1>0, <1>5 DEF CallFails, Dies, NewInstance
    <2> QED BY <1>5, <2>1, <2>2, DecidingStep
  <1>6. ASSUME NEW c \in Consumers, Succeeds(c) \/ (copyToDlq(c) /\ ~GivesUp(c))
        PROVE  Idly \/ (Decided(m) /\ UNCHANGED faults /\ (Loose(m)' => Loose(m)))
    <2>1. /\ consumer[c].pc \in {"working", "copying"} /\ Others(c) /\ UNCHANGED <<sqs, faults>>
      BY <1>0, <1>6, HandEffect DEF Succeeds, copyToDlq
    <2>2. \/ finished' = finished \cup {consumer[c].handle.msg} /\ UNCHANGED dlq
          \/ dlq' = [dlq EXCEPT ![consumer[c].handle.msg] = @ + 1] /\ UNCHANGED finished
      BY <1>0, <1>6, <2>1 DEF Succeeds, copyToDlq, GivesUp, HasBody, HandleIsCached, Busy
    <2>3. Goto(c, "acking") \/ Goto(c, "removing")
      BY <1>0, <1>6, <2>1 DEF Succeeds, copyToDlq, GivesUp, HasBody, HandleIsCached, Busy
    <2>4. consumer'[c].pc \in {"acking", "removing"} /\ consumer'[c].handle = consumer[c].handle
      BY <1>0, <2>3 DEF Goto, ConsumerStates
    <2>5. Loose(m)' => Loose(m)
      BY <2>1, <2>4, LooseKept
    <2> QED BY <2>1, <2>2, <2>4, <2>5, DecidingStep
  <1>7. ASSUME NEW c \in Consumers, FailsAfterCommit(c)
        PROVE  /\ faults' = faults + 1 /\ (Loose(m)' => Loose(m))
               /\ Undecided(m)' \subseteq Undecided(m)
               /\ Outcomes(m)' \in {Outcomes(m), Outcomes(m) + 1}
    <2>1. /\ consumer[c].pc = "working" /\ Others(c) /\ UNCHANGED <<sqs, dlq>>
          /\ faults' = faults + 1 /\ finished' = finished \cup {consumer[c].handle.msg}
          /\ \E step : Goto(c, step)
      BY <1>0, <1>7, HandEffect DEF FailsAfterCommit, Fault
    <2>2. consumer'[c].handle = consumer[c].handle
      BY <1>0, <2>1 DEF Goto, ConsumerStates
    <2>3. consumer[c].handle.msg \in Messages
      BY <1>0, <2>1, HandleInHand DEF Busy
    <2>4. Undecided(m)' \subseteq Undecided(m)
      BY <2>1, <2>2, UndecidedKept
    <2>5. Loose(m)' => Loose(m)
      BY <2>1, <2>2, LooseKept
    <2>6. Outcomes(m)' \in {Outcomes(m), Outcomes(m) + 1}
      BY <1>0, <2>1, <2>3, OutcomesGrow
    <2> QED BY <2>1, <2>4, <2>5, <2>6
  <1>8. ASSUME UNCHANGED vars PROVE Idly
    BY <1>8 DEF vars, Undecided, Outcomes
  <1> HIDE DEF Idly
  <1>9. ASSUME Idly PROVE Undisturbed(m) \/ \E c \in Consumers : receive(c, m)
    BY <1>9 DEF Undisturbed, Idly
  <1> QED
    BY <1>1, <1>2, <1>3, <1>4, <1>5, <1>6, <1>7, <1>8, <1>9 DEF Next, ConsumerStep

LEMMA OutcomeAccountStep ==
    ASSUME HandIInv, [Next]_vars, NEW m \in Messages, OutcomeAccount(m)
    PROVE  OutcomeAccount(m)'
  <1> DEFINE U == Undecided(m)
  <1>0. /\ Outcomes(m) \in Nat /\ faults \in Nat
        /\ IsFiniteSet(U) /\ Cardinality(U) \in Nat
    BY FS_CardinalityType DEF OutcomeAccount, Outcomes, HandIInv, Inv, TypeOK
  <1>1. ASSUME U' \subseteq U
        PROVE  IsFiniteSet(U') /\ Cardinality(U') \in Nat /\ Cardinality(U') <= Cardinality(U)
    BY <1>0, <1>1, FS_Subset, FS_CardinalityType
  <1>2. ASSUME NEW c \in U, U' \subseteq U \ {c}
        PROVE  /\ IsFiniteSet(U') /\ Cardinality(U') \in Nat
               /\ Cardinality(U') <= Cardinality(U) - 1
    <2>1. IsFiniteSet(U \ {c}) /\ Cardinality(U \ {c}) = Cardinality(U) - 1
      BY <1>0, FS_RemoveElement
    <2> QED BY <1>2, <2>1, FS_Subset, FS_CardinalityType
  <1>3. ASSUME NEW c \in Consumers, U' \subseteq U \cup {c}
        PROVE  /\ IsFiniteSet(U') /\ Cardinality(U') \in Nat
               /\ Cardinality(U') <= Cardinality(U) + 1
    <2>1. /\ IsFiniteSet(U \cup {c}) /\ Cardinality(U \cup {c}) \in Nat
          /\ Cardinality(U \cup {c}) = IF c \in U THEN Cardinality(U) ELSE Cardinality(U) + 1
      BY <1>0, FS_AddElement, FS_CardinalityType
    <2>2. Cardinality(U \cup {c}) <= Cardinality(U) + 1
      BY <1>0, <2>1
    <2>3. /\ IsFiniteSet(U') /\ Cardinality(U') \in Nat
          /\ Cardinality(U') <= Cardinality(U \cup {c})
      BY <1>3, <2>1, FS_Subset, FS_CardinalityType
    <2> QED BY <1>0, <2>1, <2>2, <2>3
  <1> HIDE DEF U
  <1>4. Outcomes(m) + One(Loose(m)) + Cardinality(U) <= 1 + faults
    BY DEF OutcomeAccount, U
  <1>5. ASSUME IsFiniteSet(U'),
               Outcomes(m)' + One(Loose(m)') + Cardinality(U') <= 1 + faults'
        PROVE  OutcomeAccount(m)'
    BY <1>5 DEF OutcomeAccount, U, One
  <1> USE DEF One
  <1>6. CASE Undisturbed(m)
    <2>1. U' \subseteq U /\ Outcomes(m)' = Outcomes(m) /\ \A c \in Consumers : ~receive(c, m)
      BY <1>6 DEF Undisturbed, U
    <2>2. CASE faults' = faults + 1
      BY <1>0, <1>1, <1>4, <1>5, <2>1, <2>2
    <2>3. CASE UNCHANGED faults /\ (Loose(m)' => Loose(m))
      BY <1>0, <1>1, <1>4, <1>5, <2>1, <2>3
    <2>4. ASSUME NEW c \in Consumers, nack(c), consumer[c].handle.msg = m, UNCHANGED faults
          PROVE  OutcomeAccount(m)'
      <3>1. c \in U /\ U' \subseteq U \ {c}
        BY <2>4, NackGivesSlot DEF U
      <3> QED BY <1>0, <1>2, <1>4, <1>5, <2>1, <2>4, <3>1
    <2>5. ASSUME NEW c \in Consumers, GivesUp(c), consumer[c].handle.msg = m, UNCHANGED faults
          PROVE  OutcomeAccount(m)'
      <3>1. c \in U /\ U' \subseteq U \ {c}
        BY <2>5, GivingUp DEF U
      <3> QED BY <1>0, <1>2, <1>4, <1>5, <2>1, <2>5, <3>1
    <2> QED BY <2>1, <2>2, <2>3, <2>4, <2>5, LooseEffect
  <1>7. CASE Decided(m) /\ (faults' = faults + 1 \/ (UNCHANGED faults /\ (Loose(m)' => Loose(m))))
    <2>1. PICK c \in U : U' \subseteq U \ {c}
      BY <1>7 DEF Decided, U
    <2>2. Outcomes(m)' \in {Outcomes(m), Outcomes(m) + 1}
      BY <1>7 DEF Decided
    <2> QED BY <1>0, <1>2, <1>4, <1>5, <1>7, <2>1, <2>2
  <1>8. CASE /\ faults' = faults + 1 /\ (Loose(m)' => Loose(m))
             /\ Undecided(m)' \subseteq Undecided(m)
             /\ Outcomes(m)' \in {Outcomes(m), Outcomes(m) + 1}
    <2>1. U' \subseteq U
      BY <1>8 DEF U
    <2> QED BY <1>0, <1>1, <1>4, <1>5, <1>8, <2>1
  <1>9. ASSUME NEW c \in Consumers, receive(c, m) PROVE OutcomeAccount(m)'
    <2>1. U' \subseteq U \cup {c}
      BY <1>9, ReceiveHolders DEF U
    <2>2. Outcomes(m)' = Outcomes(m)
      BY <1>9, ReceiveOnSqs DEF HandIInv, Outcomes
    <2>3. Loose(m) /\ ~Loose(m)' /\ UNCHANGED faults
      BY <1>9, ReceiveLoose
    <2> QED BY <1>0, <1>3, <1>4, <1>5, <2>1, <2>2, <2>3
  <1> QED BY <1>6, <1>7, <1>8, <1>9, OutcomeEffect

LEMMA HandInit == Init => CacheIInv
  <1> SUFFICES ASSUME Init PROVE CacheIInv
    OBVIOUS
  <1>1. \A c \in Consumers : /\ consumer[c].pc = "idle" /\ consumer[c].handle = NoHandle
                             /\ consumer[c].received = {}
    BY DEF Init, NewInstance
  <1>2. HandIInv
    BY <1>1, InitInv DEF HandIInv, IdleHoldsNothing, HandleIsCached, NackersBelowCeiling, Busy
  <1> QED BY <1>1, <1>2 DEF CacheIInv, RestWasNacked

\* sqs.ts:104-105: what a call may need is cached, and what stays in a cache was
\* nacked below the ceiling, whatever SQS does with old handles.
THEOREM CacheHolds == Spec => []CacheHoldsWhatIsNeeded
  <1>1. CacheIInv => CacheHoldsWhatIsNeeded
    <2> SUFFICES ASSUME CacheIInv, NEW c \in Consumers
                 PROVE  /\ consumer[c].handle \in consumer[c].received \cup {NoHandle}
                        /\ \A h \in consumer[c].received \ {consumer[c].handle} : h.n < MaxDelivery
      BY DEF CacheHoldsWhatIsNeeded
    <2> QED BY DEF CacheIInv, RestWasNacked, HandIInv, IdleHoldsNothing, HandleIsCached
  <1> QED BY <1>1, HandInit, CacheStep, PTL DEF Spec

LEMMA PaidInit == Init => PaidIInv
  <1> SUFFICES ASSUME Init PROVE PaidIInv
    OBVIOUS
  <1>1. \A c \in Consumers : consumer[c].pc = "idle" /\ consumer[c].handle = NoHandle
    BY DEF Init, NewInstance
  <1>2. HandIInv
    BY HandInit DEF CacheIInv
  <1>3. ASSUME NEW m \in Messages PROVE ReceiveAccount(m) /\ OutcomeAccount(m)
    <2>1. Slots(m) = {} /\ Undecided(m) = {}
      BY <1>1 DEF Slots, Undecided, Busy
    <2>2. /\ IsFiniteSet(Slots(m)) /\ Cardinality(Slots(m)) = 0
          /\ IsFiniteSet(Undecided(m)) /\ Cardinality(Undecided(m)) = 0
      BY <2>1, FS_EmptySet
    <2>3. sqs[m].receives = 0 /\ dlq[m] = 0 /\ finished = {} /\ faults = 0
      BY DEF Init
    <2> QED BY <2>2, <2>3 DEF ReceiveAccount, OutcomeAccount, Outcomes, Rest, One
  <1> QED BY <1>2, <1>3 DEF PaidIInv

LEMMA PaidStep == PaidIInv /\ [Next]_vars => PaidIInv'
  BY HandStep, ReceiveAccountStep, OutcomeAccountStep DEF PaidIInv

\* The retry ceiling over receive counts (consumer.py, process_one): each
\* receive of a message above it has been paid for by a fault, for any number of
\* consumers and whatever SQS does with old handles.
THEOREM ReceivesArePaid == Spec => []ReceivesArePaidByFaults
  <1>1. PaidIInv => ReceivesArePaidByFaults
    <2> SUFFICES ASSUME PaidIInv, NEW m \in Messages \ Poison
                 PROVE  sqs[m].receives <= MaxDelivery + faults
      BY DEF ReceivesArePaidByFaults
    <2>1. ReceiveAccount(m) /\ sqs[m].receives \in Nat /\ faults \in Nat
      BY DEF PaidIInv, HandIInv, Inv, TypeOK
    <2>2. Cardinality(Slots(m)) \in Nat
      BY <2>1, FS_CardinalityType DEF ReceiveAccount
    <2> QED BY <2>1, <2>2 DEF ReceiveAccount, Rest, One
  <1> QED BY <1>1, PaidInit, PaidStep, PTL DEF Spec

\* sqs.py:70-96: a message is finished and put aside once between them; each
\* further copy or completion has been paid for by a fault.
THEOREM ExtraOutcomesArePaid == Spec => []ExtraOutcomesArePaidByFaults
  <1>1. PaidIInv => ExtraOutcomesArePaidByFaults
    <2> SUFFICES ASSUME PaidIInv, NEW m \in Messages
                 PROVE  Outcomes(m) <= 1 + faults
      BY DEF ExtraOutcomesArePaidByFaults
    <2>1. OutcomeAccount(m) /\ Outcomes(m) \in Nat /\ faults \in Nat
      BY DEF PaidIInv, HandIInv, Inv, TypeOK, Outcomes
    <2>2. Cardinality(Undecided(m)) \in Nat
      BY <2>1, FS_CardinalityType DEF OutcomeAccount
    <2> QED BY <2>1, <2>2 DEF OutcomeAccount, One
  <1> QED BY <1>1, PaidInit, PaidStep, PTL DEF Spec
=============================================================================
