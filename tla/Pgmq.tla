-------------------------------- MODULE Pgmq --------------------------------
(***************************************************************************)
(* The triage queue as the worker and the api see it through the pgmq      *)
(* adapters (PgmqQueue, PostgresQueue).  A message is a row with a read    *)
(* count and a visibility time; here the time is only whether the message  *)
(* can be read now:                                                        *)
(*                                                                         *)
(*   "unsent"    not in the queue yet                                      *)
(*   "visible"   a read may return it                                      *)
(*   "leased"    read, and its visibility timeout has not run out          *)
(*   "deleted"   acknowledged                                              *)
(*   "archived"  dead-lettered                                             *)
(*                                                                         *)
(* delete, set_vt and archive take the message id and nothing else: they   *)
(* act on the message whoever holds its lease, and do nothing to one that  *)
(* has left the queue.                                                     *)
(***************************************************************************)
EXTENDS Naturals

CONSTANT Messages

VARIABLE queue

MessagePlaces == {"unsent", "visible", "leased", "deleted", "archived"}

InQueue(m) == queue[m].at \in {"visible", "leased"}

QueueTypeOK == queue \in [Messages -> [at : MessagePlaces, read_ct : Nat]]

send(m) ==
    /\ queue[m].at = "unsent"
    /\ queue' = [queue EXCEPT ![m].at = "visible"]

\* pgmq.read: hides the message for the visibility timeout and counts.
receive(m) ==
    /\ queue[m].at = "visible"
    /\ queue' = [queue EXCEPT ![m] = [at |-> "leased", read_ct |-> @.read_ct + 1]]

\* pgmq.delete
ack(m) == queue' = [queue EXCEPT ![m].at = IF InQueue(m) THEN "deleted" ELSE @]

\* Mutant: a failed message is acknowledged.
nack_Acks(m) == ack(m)

\* pgmq.set_vt(.., 0)
nack(m) == queue' = [queue EXCEPT ![m].at = IF InQueue(m) THEN "visible" ELSE @]

\* Mutant: pgmq.delete for pgmq.archive.
dead_letter_Deletes(m) == ack(m)

\* pgmq.archive
dead_letter(m) ==
    queue' = [queue EXCEPT ![m].at = IF InQueue(m) THEN "archived" ELSE @]

\* The visibility timeout of a read runs out.
VisibilityTimeout(m) ==
    /\ queue[m].at = "leased"
    /\ queue' = [queue EXCEPT ![m].at = "visible"]
=============================================================================
