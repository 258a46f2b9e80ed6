----------------------------- MODULE StaffQueue -----------------------------
(***************************************************************************)
(* The staff's list at /app (web/src/lib/staffQueue.ts and app/app/page):  *)
(* the filters the org's settings offer, the triage rank, and the limit,   *)
(* over rows that are submitted, triaged again and resolved meanwhile.     *)
(***************************************************************************)
EXTENDS TriagePipeline

CONSTANTS
    QUEUE_LIMIT,
    Lanes           \* lanes a query string may name

ASSUME QueueAssumption ==
    /\ QUEUE_LIMIT \in Nat \ {0}
    /\ Requests \subseteq Nat \ {0} /\ IsFiniteSet(Requests)

\* Mutant: urgency counts whatever the status.
TRIAGE_RANK_AnyHigh(row) ==
    CASE row.status = "needs_human" -> 0
      [] row.status # "needs_human" /\ row.urgency = "high" -> 1
      [] row.status # "needs_human" /\ row.urgency # "high" -> 2

TRIAGE_RANK(row) ==
    CASE row.status = "resolved" -> 2
      [] row.status = "needs_human" -> 0
      [] row.status \notin {"resolved", "needs_human"} ->
             IF row.urgency = "high" THEN 1 ELSE 2

\* order by TRIAGE_RANK, created_at desc
Before(q, r) ==
    \/ TRIAGE_RANK(rows[q]) < TRIAGE_RANK(rows[r])
    \/ TRIAGE_RANK(rows[q]) = TRIAGE_RANK(rows[r]) /\ q > r

\* No lane, no condition.
getStaffQueue(o, lanes) ==
    LET match == {r \in Requests :
                     /\ rows[r].org = o
                     /\ Exists(r)
                     /\ lanes = {} \/ rows[r].lane \in lanes}
    IN  {r \in match : Cardinality({q \in match : Before(q, r)}) < QUEUE_LIMIT}

getStaffQueueFilterOptions(o) ==
    {settings[o].lanes[c] : c \in DOMAIN settings[o].lanes}

\* /app?lane=...: a lane that is not offered is dropped from the query, and
\* when none is left the list is the whole queue.
StaffQueuePage(o, requested) ==
    getStaffQueue(o, requested \cap getStaffQueueFilterOptions(o))

-----------------------------------------------------------------------------
submit(r, o) ==
    /\ rows[r].status = "absent"
    /\ \A q \in Requests : q < r => rows[q].status # "absent"
    /\ rows' = [rows EXCEPT ![r].status = "received", ![r].org = o]
    /\ UNCHANGED <<settings, recorded, run, runs, faults, spendHistory, had>>

\* approve, edit or reject; the row lock of a run makes them wait.
resolve(r) ==
    /\ rows[r].status \in {"drafted", "needs_human"}
    /\ ~Busy(r)
    /\ rows' = [rows EXCEPT ![r].status = "resolved"]
    /\ UNCHANGED <<settings, recorded, run, runs, faults, spendHistory, had>>

operatorEdits(o, s) ==
    /\ settings[o] # s
    /\ faults < MaxFaults
    /\ faults' = faults + 1
    /\ settings' = [settings EXCEPT ![o] = s]
    /\ had' = [had EXCEPT ![o] = @ \cup {s}]
    /\ UNCHANGED <<rows, recorded, run, runs, spendHistory>>

Next ==
    \/ \E w \in Workers : PipelineStep(w)
    \/ Midnight
    \/ \E r \in Requests : purge(r)
    \/ \E r \in Requests, o \in Orgs : submit(r, o)
    \/ \E r \in Requests : resolve(r)
    \/ \E o \in Orgs, s \in SettingsValues : operatorEdits(o, s)

Spec == PipelineInit /\ [][Next]_pipelineVars

-----------------------------------------------------------------------------
\* What must be looked at by a person before the rest (staffQueue.ts:25-34).
NeedsPerson(r) ==
    \/ rows[r].status = "needs_human"
    \/ rows[r].status \notin {"resolved", "absent", "purged"} /\ rows[r].urgency = "high"

\* ADR-0037: whatever is resolved, triaged again or submitted meanwhile, such a
\* request is on every list of its lane and on the unfiltered one, unless that
\* list is full of such requests.
PersonNeededIsShown ==
    \A o \in Orgs, requested \in SUBSET Lanes :
        LET shown == StaffQueuePage(o, requested)
            lanes == requested \cap getStaffQueueFilterOptions(o)
        IN  \A r \in Requests :
                rows[r].org = o /\ NeedsPerson(r) /\ (lanes = {} \/ rows[r].lane \in lanes) =>
                    \/ r \in shown
                    \/ Cardinality(shown) = QUEUE_LIMIT /\ \A q \in shown : NeedsPerson(q)
=============================================================================
