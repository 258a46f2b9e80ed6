--------------------------- MODULE TriagePipeline ---------------------------
(***************************************************************************)
(* What the triage transaction does between taking the row and writing its *)
(* verdict (pipeline.py), and the spend controls it goes through           *)
(* (spend.py): choose a provider, classify and route, retrieve, draft.     *)
(* TriageWorker has all of it as one choice of a verdict; here runs of     *)
(* several workers meet in the tokens they spend.                          *)
(*                                                                         *)
(*   "budget"    about to sum the org's tokens of today                    *)
(*   "ceiling"   summing the spend of all orgs, a transaction for each     *)
(*   "classify", "retrieve", "draft", "write"                              *)
(*                                                                         *)
(* A completion is one token, whichever call it answers: a run needs three *)
(* at most, and tokens - 1 is the number of draft attempts.  approved and  *)
(* rejected are one status here, "resolved".                               *)
(***************************************************************************)
EXTENDS Naturals, FiniteSets

CONSTANTS
    Workers,
    Requests,           \* 1..n, in the order they are submitted
    Orgs,
    SettingsValues,     \* what may be in orgs.settings: [categories, lanes, otherwise],
                        \* otherwise being the first lane, or "unassigned"
    SeedSettings,       \* what the seed puts there
    Labels,             \* what a model may call a category of an org that has none
    DemoOrgs,           \* orgs whose old requests are purged
    DailyTokenBudget,   \* orgs.daily_token_budget
    SpendCeiling,       \* global_daily_spend_ceiling_usd, in tokens
    LLM_PROVIDER,       \* "live", or "fake": the killswitch
    MAX_ATTEMPTS,       \* of a draft
    MaxRuns,            \* bound on deliveries
    MaxFaults           \* bound on failed runs, midnights, purges, edits of settings

ASSUME PipelineAssumption ==
    /\ IsFiniteSet(Workers) /\ IsFiniteSet(Orgs)
    /\ SeedSettings \in SettingsValues
    /\ DailyTokenBudget \in [Orgs -> Nat \ {0}]
    /\ SpendCeiling \in Nat \ {0}
    /\ MAX_ATTEMPTS \in Nat \ {0}
    /\ LLM_PROVIDER \in {"live", "fake"}

VARIABLES
    rows,       \* requests: [org, status, category, lane, urgency]
    settings,   \* orgs.settings
    recorded,   \* recorded[r][p]: tokens in today's drafts of r by provider p
    run,        \* run[w]: the transaction w has open
    runs, faults,
    billed,     \* history: tokens of today the live provider charges o for
    lost,       \* history: those of them that no draft of today will record
    purged,     \* history: purged[o][p]: tokens of today whose draft is purged
    had         \* history: every value orgs.settings of o has had

spendHistory == <<billed, lost, purged>>

pipelineVars == <<rows, settings, recorded, run, runs, faults, spendHistory, had>>

RunCost == 1 + MAX_ATTEMPTS

NoTokens == [p \in {"live", "fake"} |-> 0]

NoRow == [org |-> "none", status |-> "absent", category |-> "none", lane |-> "none",
          urgency |-> "none"]

NoSettings == [categories |-> {}, lanes |-> <<>>, otherwise |-> "unassigned"]

IdleRun ==
    [pc |-> "idle", req |-> 0, settings |-> NoSettings, provider |-> "none", todo |-> {}, seen |-> 0,
     tokens |-> 0, category |-> "none", urgency |-> "none", verdict |-> "none", today |-> TRUE]

PipelineInit ==
    /\ rows = [r \in Requests |-> NoRow]
    /\ settings = [o \in Orgs |-> SeedSettings]
    /\ recorded = [r \in Requests |-> NoTokens]
    /\ run = [w \in Workers |-> IdleRun]
    /\ runs = 0 /\ faults = 0
    /\ billed = [o \in Orgs |-> 0]
    /\ lost = [o \in Orgs |-> 0]
    /\ purged = [o \in Orgs |-> NoTokens]
    /\ had = [o \in Orgs |-> {SeedSettings}]

At(w, step) == run[w].pc = step

Org(w) == rows[run[w].req].org

Exists(r) == rows[r].status \notin {"absent", "purged"}

Busy(r) == \E w \in Workers : ~At(w, "idle") /\ run[w].req = r

-----------------------------------------------------------------------------
\* A delivery: the row is taken, whatever its status; request and org are read.
begin(w, r) ==
    /\ At(w, "idle")
    /\ Exists(r)
    /\ ~Busy(r)
    /\ runs < MaxRuns
    /\ runs' = runs + 1
    /\ run' = [run EXCEPT ![w] = [IdleRun EXCEPT
                   !.pc = IF LLM_PROVIDER = "fake" THEN "classify" ELSE "budget",
                   !.provider = LLM_PROVIDER,
                   !.req = r,
                   !.settings = settings[rows[r].org]]]
    /\ UNCHANGED <<rows, settings, recorded, faults, spendHistory, had>>

\* The sum of f over S, counted one unit at a time.
Units(f, S) == UNION {{x} \X (1..f[x]) : x \in S}

Total(f, S) == Cardinality(Units(f, S))

\* The tokens in today's drafts of o by provider p.
Recorded(o, p) ==
    Total([r \in Requests |-> IF rows[r].org = o THEN recorded[r][p] ELSE 0], Requests)

\* Mutant: the sum is not restricted to the org.
get_org_tokens_today_AllOrgs(o) ==
    Total([r \in Requests |-> recorded[r]["live"] + recorded[r]["fake"]], Requests)

get_org_tokens_today(o) == Recorded(o, "live") + Recorded(o, "fake")

over(used, threshold) == used >= threshold

org_budget_exceeded(w) ==
    /\ At(w, "budget")
    /\ run' = [run EXCEPT ![w] =
                  IF over(get_org_tokens_today(Org(w)), DailyTokenBudget[Org(w)])
                  THEN [run[w] EXCEPT !.pc = "classify", !.provider = "fake"]
                  ELSE [run[w] EXCEPT !.pc = "ceiling", !.todo = Orgs]]
    /\ UNCHANGED <<rows, settings, recorded, runs, faults, spendHistory, had>>

\* One turn of the loop over the orgs.  A fake draft's model has no price.
global_ceiling_exceeded(w, o) ==
    LET seen == run[w].seen + Recorded(o, "live")
        todo == run[w].todo \ {o}
    IN
    /\ At(w, "ceiling")
    /\ o \in run[w].todo
    /\ run' = [run EXCEPT ![w] = [run[w] EXCEPT
                  !.todo = todo,
                  !.seen = IF todo = {} THEN 0 ELSE seen,
                  !.pc = IF todo = {} THEN "classify" ELSE "ceiling",
                  !.provider = IF todo = {} /\ over(seen, SpendCeiling) THEN "fake" ELSE @]]
    /\ UNCHANGED <<rows, settings, recorded, runs, faults, spendHistory, had>>

\* n more tokens of w's org that the live provider charges for.  The draft of
\* a run that began yesterday is dated yesterday.
Charged(w, n) ==
    /\ billed' = [billed EXCEPT ![Org(w)] = @ + n]
    /\ lost' = [lost EXCEPT ![Org(w)] = @ + IF run[w].today THEN 0 ELSE n]

\* provider.complete
Charge(w) == Charged(w, IF run[w].provider = "live" THEN 1 ELSE 0)

\* _parse: a category of the org's, for a reply that does not parse too; where
\* the org has none, whatever the model says, or "other".
CategoriesFor(w) ==
    IF run[w].settings.categories # {}
    THEN run[w].settings.categories
    ELSE {"other"} \cup IF run[w].provider = "live" THEN Labels ELSE {}

\* A reply that does not parse, as the fake one, has urgency normal.
classify(w) ==
    /\ At(w, "classify")
    /\ \E c \in CategoriesFor(w), u \in {"normal", "high"} :
          /\ run[w].provider = "fake" => u = "normal"
          /\ run' = [run EXCEPT ![w] = [run[w] EXCEPT !.pc = "retrieve", !.tokens = 1,
                                                      !.category = c, !.urgency = u]]
    /\ Charge(w)
    /\ UNCHANGED <<rows, settings, recorded, runs, faults, purged, had>>

LaneOf(s, category) ==
    IF category \in DOMAIN s.lanes THEN s.lanes[category] ELSE s.otherwise

\* Mutant: the lanes are read when the verdict is written.
SettingsOf_Current(w) == settings[Org(w)]

\* The org's settings were read once, at the start.
SettingsOf(w) == run[w].settings

Verdict(w, verdict) == [run[w] EXCEPT !.pc = "write", !.verdict = verdict]

retrieve(w) ==
    /\ At(w, "retrieve")
    /\ \/ run' = [run EXCEPT ![w].pc = "draft"]
       \/ run' = [run EXCEPT ![w] = Verdict(w, "needs_human")]
    /\ UNCHANGED <<rows, settings, recorded, runs, faults, spendHistory, had>>

\* The citations are valid, or one regeneration, or a person.  A fake reply
\* cites nothing, which is valid.
draft(w) ==
    /\ At(w, "draft")
    /\ \/ run' = [run EXCEPT ![w] = [Verdict(w, "drafted") EXCEPT !.tokens = @ + 1]]
       \/ /\ run[w].provider = "live"
          /\ run' = [run EXCEPT ![w] =
                        IF run[w].tokens = MAX_ATTEMPTS
                        THEN [Verdict(w, "needs_human") EXCEPT !.tokens = @ + 1]
                        ELSE [run[w] EXCEPT !.tokens = @ + 1]]
    /\ Charge(w)
    /\ UNCHANGED <<rows, settings, recorded, runs, faults, purged, had>>

\* Mutant: only the last call's tokens.
TokensOf_LastCall(w) == 1

\* "the *sum* of every LLM call this run made"
TokensOf(w) == run[w].tokens

\* created_at is the start of the transaction.
_write_result(w) ==
    /\ At(w, "write")
    /\ rows' = [rows EXCEPT ![run[w].req] =
                   [org |-> Org(w), status |-> run[w].verdict, category |-> run[w].category,
                    urgency |-> run[w].urgency,
                    lane |-> LaneOf(SettingsOf(w), run[w].category)]]
    /\ recorded' = IF run[w].today
                   THEN [recorded EXCEPT ![run[w].req][run[w].provider] = @ + TokensOf(w)]
                   ELSE recorded
    /\ run' = [run EXCEPT ![w] = IdleRun]
    /\ UNCHANGED <<settings, runs, faults, spendHistory, had>>

\* What w has been charged for today and no draft records yet.
Unrecorded(w) == IF run[w].provider = "live" /\ run[w].today THEN run[w].tokens ELSE 0

\* The model raises, perhaps after it has charged, or the worker dies: the
\* transaction is rolled back, and with it the record of what it has cost.
RunFails(w) ==
    /\ ~At(w, "idle")
    /\ faults < MaxFaults
    /\ faults' = faults + 1
    /\ \E n \in 0..1 :
          /\ n = 1 => run[w].provider = "live" /\ (At(w, "classify") \/ At(w, "draft"))
          /\ billed' = [billed EXCEPT ![Org(w)] = @ + n]
          /\ lost' = [lost EXCEPT ![Org(w)] = @ + n + Unrecorded(w)]
    /\ run' = [run EXCEPT ![w] = IdleRun]
    /\ UNCHANGED <<rows, settings, recorded, runs, purged, had>>

\* The UTC day ends.  A fault, to bound it.
Midnight ==
    /\ faults < MaxFaults
    /\ faults' = faults + 1
    /\ recorded' = [r \in Requests |-> NoTokens]
    /\ billed' = [o \in Orgs |-> 0]
    /\ lost' = [o \in Orgs |-> 0]
    /\ purged' = [o \in Orgs |-> NoTokens]
    /\ run' = [w \in Workers |-> [run[w] EXCEPT !.today = At(w, "idle")]]
    /\ UNCHANGED <<rows, settings, runs, had>>

\* The retention goes by the age of the request: the drafts that go with it may
\* be of today, and leave the sums.  The DELETE waits for the lock of a run.
purge(r) ==
    LET o == rows[r].org IN
    /\ Exists(r)
    /\ o \in DemoOrgs
    /\ ~Busy(r)
    /\ faults < MaxFaults
    /\ faults' = faults + 1
    /\ rows' = [rows EXCEPT ![r] = [NoRow EXCEPT !.status = "purged"]]
    /\ recorded' = [recorded EXCEPT ![r] = NoTokens]
    /\ purged' = [purged EXCEPT ![o] =
          [p \in {"live", "fake"} |-> purged[o][p] + recorded[r][p]]]
    /\ UNCHANGED <<settings, run, runs, billed, lost, had>>

PipelineStep(w) ==
    \/ \E r \in Requests : begin(w, r)
    \/ org_budget_exceeded(w)
    \/ \E o \in Orgs : global_ceiling_exceeded(w, o)
    \/ classify(w) \/ retrieve(w) \/ draft(w) \/ _write_result(w)
    \/ RunFails(w)

-----------------------------------------------------------------------------
SumOver(f) == Total(f, Orgs)

Live == [o \in Orgs |-> Recorded(o, "live")]

PurgedLive == [o \in Orgs |-> purged[o]["live"]]

\* ADR-0023 5: what an org, and all of them, can cost in a day above the
\* thresholds of layers 2 and 3: one run of every worker, which had its check
\* before the others had committed, and what no draft of today shows, because
\* its run was rolled back or had begun the day before, or its draft is purged.
SpendIsBounded ==
    /\ \A o \in Orgs :
          billed[o] < DailyTokenBudget[o] + RunCost * Cardinality(Workers)
                      + lost[o] + purged[o]["live"]
    /\ SumOver(billed) < SpendCeiling + RunCost * Cardinality(Workers)
                         + SumOver(lost) + SumOver(PurgedLive)

\* "other orgs are unaffected": a run is downgraded for what its own org or all
\* of them have used today, purged since or not, never because another org has
\* used up its budget.
DowngradeIsDeserved ==
    \A w \in Workers :
        run[w].provider = "fake" /\ LLM_PROVIDER # "fake" /\ run[w].today =>
            \/ Recorded(Org(w), "live") + Recorded(Org(w), "fake")
               + purged[Org(w)]["live"] + purged[Org(w)]["fake"] >= DailyTokenBudget[Org(w)]
            \/ SumOver(Live) + SumOver(PurgedLive) >= SpendCeiling

\* F4, F5: whatever an operator edits meanwhile, a request's category and lane
\* come from one value that its org's settings have had, taken as a whole; an
\* org without categories takes any.
RoutedBySettingsOfOneTime ==
    \A r \in Requests :
        rows[r].category # "none" =>
            \E s \in had[rows[r].org] :
                /\ s.categories = {} \/ rows[r].category \in s.categories
                /\ rows[r].lane = LaneOf(s, rows[r].category)
=============================================================================
