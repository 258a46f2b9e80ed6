------------------------------ MODULE DemoOrg ------------------------------
(***************************************************************************)
(* Everything that fills and empties the demo org at once: runs of the     *)
(* seed, the forms and the API of its visitors, the retention job, and an  *)
(* operator who edits an org's settings.                                   *)
(***************************************************************************)
EXTENDS Seed, PurgeJob, Submission

CONSTANTS
    MaxFaults,      \* bound on deaths, failed sends and lost replies
    Casts           \* bound: the sets of processes that meet in one behaviour

\* A form's ids and tokens are random, the seed's are written down.
ASSUME IdsAssumption ==
    /\ Range(DEMO_REQUESTS) \cap (Clients \X Nat) = {}
    /\ Seeders \cap Clients = {}

VARIABLES
    faults,
    awake           \* the processes that take part

demoVars == <<tables, seeder, job, submissionVars, faults, awake>>

\* The orgs are new, or were seeded before categoryDescriptions existed.
Init ==
    /\ \E s \in {"absent", "old"} : settings = [o \in Orgs |-> s]
    /\ owners = {} /\ documents = {} /\ requests = <<>>
    /\ drafts = {} /\ actions = {}
    /\ SeedInit /\ JobInit /\ SubmissionInit
    /\ faults = 0
    /\ awake \in Casts

Fault == faults < MaxFaults /\ faults' = faults + 1

operatorEdits(o) ==
    /\ HasOrg(o)
    /\ settings' = [settings EXCEPT ![o] = "operator"]
    /\ UNCHANGED <<owners, documents, requests, drafts, actions>>

Next ==
    /\ UNCHANGED awake
    /\ \/ /\ \E s \in Seeders \cap awake :
                \/ (SeedStep(s) \/ SeedAgain(s)) /\ UNCHANGED faults
                \/ SeedDies(s) /\ Fault
          /\ UNCHANGED <<job, submissionVars>>
       \/ /\ \E j \in Jobs \cap awake :
                \/ (startPurge(j) \/ selectStale(j) \/ deleteBatch(j)) /\ UNCHANGED faults
                \/ purgeDies(j) /\ Fault
          /\ UNCHANGED <<seeder, submissionVars>>
       \/ /\ \E c \in Clients \cap awake :
                \/ ClientStep(c) /\ UNCHANGED faults
                \/ callFails(c, faults) /\ Fault
          /\ UNCHANGED <<seeder, job>>
       \/ (\E o \in Orgs : operatorEdits(o)) /\ UNCHANGED <<seeder, job, submissionVars, faults>>

Spec == Init /\ [][Next]_demoVars

-----------------------------------------------------------------------------
Complete(q) == q \in drafts /\ (q \in Approved => q \in actions)

InProgress(q) ==
    \E s \in Seeders : (At(s, "draft") \/ At(s, "action")) /\ Item(s) = q /\ Inserted(s)

HalfSeeded == {q \in Range(DEMO_REQUESTS) : q \in Ids /\ ~Complete(q) /\ ~InProgress(q)}

\* seed.ts:281: "already seeded, including its draft (and action, if approved)".
\* Reruns, concurrent runs and purges keep it true; every exception is a run
\* that died between two statements, and no later run repairs it.
HalfSeededIsPaidByFaults == Cardinality(HalfSeeded) <= faults

\* The orgs with an owner at the address run s is configured with.
OrgsOwnedBy(s) == {m.org : m \in {n \in owners : n.email.inbox = SEED_OWNER_EMAIL[s]}}

\* seed.ts:324: a run that ends normally, whatever it found and whoever ran
\* beside it, leaves every org with its settings and documents, and with an owner
\* of its own; but a run whose SEED_OWNER_EMAIL has no "@" leaves one org with
\* that owner and says nothing of the others (seed.ts:20, 204-212).
SeedDelivers ==
    \A s \in Seeders : At(s, "done") =>
        /\ \A o \in Orgs :
              /\ settings[o] # "absent" /\ settings[o] # "old"
              /\ \A f \in Range(Files[o]) : [org |-> o, file |-> f] \in documents
        /\ IF SEED_OWNER_EMAIL[s] \in WithAt THEN OrgsOwnedBy(s) = Orgs
           ELSE \E o \in Orgs : OrgsOwnedBy(s) = {o}

\* seed.ts:184-188: an operator who has edited the descriptions keeps theirs.
OperatorKeepsSettings ==
    [][\A o \in Orgs : settings[o] = "operator" => settings'[o] = "operator"]_demoVars

\* purge.ts:117-133: the loop may end on a short batch: a run that ends without
\* the warning leaves nothing of what was overdue when it started.  (One that
\* warns may: an overlapping run that has deleted part of its batch ends it
\* early, with newer overdue requests the other run's cutoff spared.)
OverdueIsPurged ==
    \A j \in Jobs : job[j].pc = "done" /\ ~job[j].warned => job[j].stale = {}

\* A client that stops at the first tracking page has one request, in the org
\* it addressed and its key belongs to; a second one is paid for by a failure
\* the client was told to retry, also when the handlers of the calls it has given
\* up go on.
OneRequestPerClient ==
    \A c \in Clients :
        /\ client[c].rows <= 1 + faults
        /\ client[c].pc \in {"admitted", "inserted", "queued", "tracking"} =>
              /\ client[c].org = client[c].slug
              /\ c \in ApiClients => KeyOrg[c] = client[c].org
        /\ \A h \in behind :
              h.by = c /\ h.pc = "admitted" /\ c \in ApiClients => KeyOrg[c] = h.org
=============================================================================
