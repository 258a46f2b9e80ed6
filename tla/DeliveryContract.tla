--------------------------- MODULE DeliveryContract ---------------------------
(***************************************************************************)
(* What the api and the workers may rely on in a queue, whichever adapter  *)
(* is behind it (api/src/queue/index.ts Queue, worker queue/__init__.py):  *)
(* at-least-once delivery.  A message that has been sent leaves the queue  *)
(* only once a consumer has finished it or a copy of it has been put       *)
(* aside, and nobody ever gets a message that was not sent.  A message may *)
(* be finished more than once, and be put aside although it was finished.  *)
(***************************************************************************)
CONSTANT Messages

VARIABLES
    sent,      \* messages that send() has resolved for
    finished,  \* messages some consumer has done the work of
    aside,     \* messages of which the dead-letter place has a copy
    gone       \* messages that have left the queue

contractVars == <<sent, finished, aside, gone>>

ContractInit ==
    /\ sent \subseteq Messages
    /\ finished = {} /\ aside = {} /\ gone = {}

Send(m) ==
    /\ sent' = sent \cup {m}
    /\ UNCHANGED <<finished, aside, gone>>

\* The work of several messages can become void at once (a purge).
Finish(ms) ==
    /\ ms \subseteq sent
    /\ finished' = finished \cup ms
    /\ UNCHANGED <<sent, aside, gone>>

PutAside(m) ==
    /\ m \in sent
    /\ aside' = aside \cup {m}
    /\ UNCHANGED <<sent, finished, gone>>

\* A copy may be made in the same step (pgmq.archive) or before it (SQS).
Leave(m) ==
    /\ m \in sent
    /\ aside' \in {aside, aside \cup {m}}
    /\ m \in finished \cup aside'
    /\ gone' = gone \cup {m}
    /\ UNCHANGED <<sent, finished>>

ContractNext ==
    \/ \E m \in Messages : Send(m) \/ PutAside(m) \/ Leave(m)
    \/ \E ms \in SUBSET Messages : Finish(ms)

ContractSpec == ContractInit /\ [][ContractNext]_contractVars
=============================================================================
