------------------------------ MODULE PurgeJob ------------------------------
(***************************************************************************)
(* The retention job statement by statement (db/src/purge.ts): until a     *)
(* batch comes out short, select the oldest overdue requests and delete    *)
(* them.  FrontDesk's Purge is one such batch; here two runs may overlap,  *)
(* and each counts only what its own DELETE has removed.                   *)
(*                                                                         *)
(* stale is what is older than the cutoff of the run, batch what it has    *)
(* selected (selectedCount of them); a row that is deleted leaves both, as *)
(* its uuid never returns.  warned says the run has logged "selected more  *)
(* rows than were deleted".                                                *)
(***************************************************************************)
EXTENDS DemoTables

CONSTANTS Jobs, BatchSize

ASSUME BatchAssumption == BatchSize \in Nat \ {0}

VARIABLE job

NewRun(pc, ids) ==
    [pc |-> pc, stale |-> ids, batch |-> {}, selectedCount |-> 0, warned |-> FALSE]

JobInit == job = [j \in Jobs |-> NewRun("idle", {})]

Working(j) == job[j].pc \in {"select", "delete"}

DemoRows == {i \in DOMAIN requests : requests[i].org = DemoOrg}

\* What is older than the request at place n + 1.
Overdue(n) == {requests[i].id : i \in DemoRows \cap (1..n)}

\* Cutoffs only grow: whatever an earlier run found overdue still is.
startPurge(j) ==
    /\ ~Working(j)
    /\ \E n \in 0..Len(requests) :
          /\ \A i \in Jobs : job[i].stale \subseteq Overdue(n)
          /\ job' = [job EXCEPT ![j] = NewRun("select", Overdue(n))]
    /\ UNCHANGED tables

StaleRows(j) == {i \in DemoRows : requests[i].id \in job[j].stale}

\* order by created_at limit batchSize
OldestStale(j) ==
    {requests[i].id : i \in {i \in StaleRows(j) : Rank(StaleRows(j), i) <= BatchSize}}

selectStale(j) ==
    /\ job[j].pc = "select"
    /\ job' = [job EXCEPT ![j].batch = OldestStale(j),
                          ![j].selectedCount = Cardinality(OldestStale(j)),
                          ![j].pc = IF OldestStale(j) = {} THEN "done" ELSE "delete"]
    /\ UNCHANGED tables

\* Mutant: a full batch is taken for the last one.
LastBatch_WhenFull(deleted) == Cardinality(deleted) <= BatchSize

\* deletedCount < batchSize
LastBatch(deleted) == Cardinality(deleted) < BatchSize

deleteBatch(j) ==
    LET deleted == job[j].batch IN
    /\ job[j].pc = "delete"
    /\ DeleteRequests(deleted)
    /\ job' = [i \in Jobs |->
          IF i = j
          THEN [pc |-> IF LastBatch(deleted) THEN "done" ELSE "select",
                stale |-> job[j].stale \ deleted,
                batch |-> {},
                selectedCount |-> 0,
                warned |-> job[j].warned \/ Cardinality(deleted) # job[j].selectedCount]
          ELSE [job[i] EXCEPT !.stale = @ \ deleted, !.batch = @ \ deleted]]

purgeDies(j) ==
    /\ Working(j)
    /\ job' = [job EXCEPT ![j].pc = "failed", ![j].batch = {}]
    /\ UNCHANGED tables

PurgeStep(j) == startPurge(j) \/ selectStale(j) \/ deleteBatch(j) \/ purgeDies(j)
=============================================================================
