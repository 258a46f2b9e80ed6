-------------------------- MODULE StaffQueueProofs --------------------------
(***************************************************************************)
(* The staff's list for any number of requests, lanes and any limit, the   *)
(* routing of a request for any number of workers and edits, and the bound *)
(* on what all runs together spend in a day.                               *)
(***************************************************************************)
EXTENDS StaffQueue, TLAPS, FiniteSetTheorems

USE PipelineAssumption, QueueAssumption

LEMMA RankType == \A row : TRIAGE_RANK(row) \in 0..2
  BY DEF TRIAGE_RANK

\* The list's order is strict and total.
LEMMA BeforeIsAnOrder ==
    /\ \A q \in Requests : ~Before(q, q)
    /\ \A p, q, r \in Requests : Before(p, q) /\ Before(q, r) => Before(p, r)
    /\ \A q, r \in Requests : q = r \/ Before(q, r) \/ Before(r, q)
  BY RankType DEF Before

\* How many rows of a list come before r.
Place(list, r) == Cardinality({q \in list : Before(q, r)})

LEMMA PlaceType ==
    ASSUME NEW list \in SUBSET Requests, NEW r
    PROVE  Place(list, r) \in Nat
  BY FS_Subset, FS_CardinalityType DEF Place

LEMMA PlaceGrows ==
    ASSUME NEW list \in SUBSET Requests, NEW q \in list, NEW r \in list, Before(q, r)
    PROVE  Place(list, q) < Place(list, r)
  <1> DEFINE A == {p \in list : Before(p, q)}
             B == {p \in list : Before(p, r)}
  <1>1. A \subseteq B /\ q \in B /\ q \notin A
    BY BeforeIsAnOrder
  <1>2. IsFiniteSet(B)
    BY FS_Subset
  <1>3. IsFiniteSet(A) /\ Cardinality(A) <= Cardinality(B) /\ Cardinality(A) # Cardinality(B)
    BY <1>1, <1>2, FS_Subset
  <1>4. Cardinality(A) \in Nat /\ Cardinality(B) \in Nat
    BY <1>2, <1>3, FS_CardinalityType
  <1> QED BY <1>3, <1>4 DEF Place

LEMMA PlaceIsBelowCount ==
    ASSUME NEW list \in SUBSET Requests, NEW r \in list
    PROVE  Place(list, r) < Cardinality(list)
  <1> DEFINE A == {q \in list : Before(q, r)}
  <1>1. IsFiniteSet(list)
    BY FS_Subset
  <1>2. A \subseteq list \ {r}
    BY BeforeIsAnOrder
  <1>3. /\ IsFiniteSet(list \ {r}) /\ Cardinality(list \ {r}) = Cardinality(list) - 1
    BY <1>1, FS_RemoveElement
  <1>4. IsFiniteSet(A) /\ Cardinality(A) <= Cardinality(list \ {r})
    BY <1>2, <1>3, FS_Subset
  <1>5. Cardinality(A) \in Nat /\ Cardinality(list) \in Nat
    BY <1>1, <1>4, FS_CardinalityType
  <1> QED BY <1>3, <1>4, <1>5 DEF Place

LEMMA IntervalCount ==
    ASSUME NEW n \in Nat
    PROVE  IsFiniteSet(0..(n - 1)) /\ Cardinality(0..(n - 1)) = n
  <1>1. n - 1 \in Int /\ 0 \in Int
    OBVIOUS
  <1>2. /\ IsFiniteSet(0..(n - 1))
        /\ Cardinality(0..(n - 1)) = IF 0 > n - 1 THEN 0 ELSE (n - 1) - 0 + 1
    BY <1>1, FS_Interval
  <1> QED BY <1>2

\* Places are 0, 1, 2, ... without a gap: each number below the count is one.
LEMMA EveryPlaceIsTaken ==
    ASSUME NEW list \in SUBSET Requests, NEW n \in Nat, n < Cardinality(list)
    PROVE  \E r \in list : Place(list, r) = n
  <1> DEFINE count == Cardinality(list)
             f == [r \in list |-> Place(list, r)]
             T == 0..(count - 1)
  <1>1. IsFiniteSet(list) /\ count \in Nat
    BY FS_Subset, FS_CardinalityType
  <1>2. IsFiniteSet(T) /\ Cardinality(T) = count
    BY <1>1, IntervalCount
  <1>3. \A r \in list : Place(list, r) \in T
    BY <1>1, PlaceType, PlaceIsBelowCount
  <1>4. \A q, r \in list : Place(list, q) = Place(list, r) => q = r
    BY BeforeIsAnOrder, PlaceGrows, PlaceType
  <1>5. f \in Injection(list, T)
    BY <1>3, <1>4 DEF Injection, IsInjective
  <1>6. f \in Surjection(list, T)
    BY <1>2, <1>5, FS_Injection
  <1>7. n \in T
    BY <1>1
  <1>8. PICK r \in list : f[r] = n
    BY <1>6, <1>7 DEF Surjection
  <1> QED BY <1>8

\* A list that leaves a row out is full.
LEMMA FullList ==
    ASSUME NEW list \in SUBSET Requests, NEW r \in list, Place(list, r) >= QUEUE_LIMIT
    PROVE  Cardinality({q \in list : Place(list, q) < QUEUE_LIMIT}) = QUEUE_LIMIT
  <1> DEFINE shown == {q \in list : Place(list, q) < QUEUE_LIMIT}
             f == [q \in shown |-> Place(list, q)]
             T == 0..(QUEUE_LIMIT - 1)
  <1>1. IsFiniteSet(T) /\ Cardinality(T) = QUEUE_LIMIT
    BY IntervalCount
  <1>2. \A q \in shown : Place(list, q) \in T
    BY PlaceType
  <1>3. \A p, q \in shown : Place(list, p) = Place(list, q) => p = q
    BY BeforeIsAnOrder, PlaceGrows, PlaceType
  <1>4. f \in Injection(shown, T)
    BY <1>2, <1>3 DEF Injection, IsInjective
  <1>5. \A n \in T : \E q \in shown : f[q] = n
    <2> TAKE n \in T
    <2>1. IsFiniteSet(list) /\ Cardinality(list) \in Nat
      BY FS_Subset, FS_CardinalityType
    <2>2. n < Cardinality(list)
      BY <2>1, PlaceIsBelowCount, PlaceType
    <2>3. PICK q \in list : Place(list, q) = n
      BY <2>2, EveryPlaceIsTaken
    <2> QED BY <2>3
  <1>6. f \in Surjection(shown, T)
    BY <1>2, <1>5 DEF Surjection
  <1> QED BY <1>1, <1>4, <1>6, FS_Injection

-----------------------------------------------------------------------------
\* Whatever comes before a row that needs a person needs one too.
LEMMA PersonsComeFirst ==
    ASSUME NEW q \in Requests, NEW r \in Requests, Exists(q),
           NeedsPerson(r), Before(q, r)
    PROVE  NeedsPerson(q)
  <1>1. TRIAGE_RANK(rows[r]) <= 1
    BY DEF NeedsPerson, TRIAGE_RANK
  <1>2. TRIAGE_RANK(rows[q]) <= 1
    BY <1>1, RankType DEF Before
  <1> QED BY <1>2 DEF NeedsPerson, TRIAGE_RANK, Exists

LEMMA ListShowsNeeded ==
    ASSUME NEW o, NEW lanes, NEW r \in Requests, rows[r].org = o, NeedsPerson(r),
           lanes = {} \/ rows[r].lane \in lanes, r \notin getStaffQueue(o, lanes)
    PROVE  /\ Cardinality(getStaffQueue(o, lanes)) = QUEUE_LIMIT
           /\ \A q \in getStaffQueue(o, lanes) : NeedsPerson(q)
  <1> DEFINE match == {q \in Requests : /\ rows[q].org = o
                                        /\ Exists(q)
                                        /\ lanes = {} \/ rows[q].lane \in lanes}
  <1>1. getStaffQueue(o, lanes) = {q \in match : Place(match, q) < QUEUE_LIMIT}
    BY DEF getStaffQueue, Place
  <1>2. r \in match
    BY DEF NeedsPerson, Exists
  <1>3. Place(match, r) >= QUEUE_LIMIT
    BY <1>1, <1>2, PlaceType
  <1>4. Cardinality(getStaffQueue(o, lanes)) = QUEUE_LIMIT
    BY <1>1, <1>2, <1>3, FullList
  <1>5. ASSUME NEW q \in match, Place(match, q) < QUEUE_LIMIT
        PROVE  NeedsPerson(q)
    <2>1. Before(q, r)
      BY <1>2, <1>3, <1>5, BeforeIsAnOrder, PlaceGrows, PlaceType
    <2> QED BY <2>1, PersonsComeFirst
  <1> QED BY <1>1, <1>4, <1>5

\* ADR-0037: on whatever list it belongs to, a row that needs a person is shown
\* or makes way to others that do, in every state of the table.
THEOREM PersonShown == Spec => []PersonNeededIsShown
  <1>1. PersonNeededIsShown
    BY ListShowsNeeded DEF PersonNeededIsShown, StaffQueuePage
  <1> QED BY <1>1, PTL

-----------------------------------------------------------------------------
\* Totals: what a sum over a finite set is, without a step along the set.
LEMMA UnitsOfOne ==
    ASSUME NEW x, NEW n \in Nat
    PROVE  IsFiniteSet({x} \X (1..n)) /\ Cardinality({x} \X (1..n)) = n
  <1>1. IsFiniteSet(1..n) /\ Cardinality(1..n) = n
    BY FS_Interval
  <1>2. IsFiniteSet({x}) /\ Cardinality({x}) = 1
    BY FS_Singleton
  <1>3. /\ IsFiniteSet({x} \X (1..n))
        /\ Cardinality({x} \X (1..n)) = Cardinality({x}) * Cardinality(1..n)
    BY <1>1, <1>2, FS_Product
  <1>4. Cardinality({x} \X (1..n)) = 1 * n
    BY <1>1, <1>2, <1>3
  <1> QED BY <1>3, <1>4

LEMMA UnitsEmpty == ASSUME NEW f PROVE Units(f, {}) = {} /\ Total(f, {}) = 0
  <1>1. Units(f, {}) = {}
    BY DEF Units
  <1> QED BY <1>1, FS_EmptySet DEF Total

LEMMA UnitsAdd ==
    ASSUME NEW f, NEW S, NEW x
    PROVE  Units(f, S \cup {x}) = Units(f, S) \cup ({x} \X (1..f[x]))
  BY DEF Units

LEMMA UnitsFinite ==
    ASSUME NEW S, IsFiniteSet(S), NEW f, \A x \in S : f[x] \in Nat
    PROVE  IsFiniteSet(Units(f, S)) /\ Total(f, S) \in Nat
  <1> DEFINE g == [x \in S |-> {x} \X (1..f[x])]
             T == {{x} \X (1..f[x]) : x \in S}
  <1>1. g \in Surjection(S, T)
    <2>1. g \in [S -> T]
      OBVIOUS
    <2>2. \A t \in T : \E x \in S : g[x] = t
      OBVIOUS
    <2> QED BY <2>1, <2>2 DEF Surjection
  <1>2. IsFiniteSet(T)
    <2> HIDE DEF g, T
    <2> QED BY <1>1, FS_Surjection
  <1>3. \A t \in T : IsFiniteSet(t)
    <2>1. \A x \in S : IsFiniteSet({x} \X (1..f[x]))
      BY UnitsOfOne
    <2> QED BY <2>1
  <1>4. IsFiniteSet(UNION T)
    <2> HIDE DEF T
    <2> QED BY <1>2, <1>3, FS_UNION
  <1>5. IsFiniteSet(Units(f, S))
    BY <1>4 DEF Units
  <1> QED BY <1>5, FS_CardinalityType DEF Total

LEMMA TotalAdd ==
    ASSUME NEW S, IsFiniteSet(S), NEW x, x \notin S, NEW f, \A y \in S \cup {x} : f[y] \in Nat
    PROVE  Total(f, S \cup {x}) = Total(f, S) + f[x]
  <1> DEFINE A == Units(f, S)
             B == {x} \X (1..f[x])
  <1>1. IsFiniteSet(A) /\ Cardinality(A) \in Nat
    BY UnitsFinite DEF Total
  <1>2. IsFiniteSet(B) /\ Cardinality(B) = f[x]
    BY UnitsOfOne
  <1>3. A \cap B = {}
    BY DEF Units
  <1>4. Cardinality(A \cap B) = 0
    BY <1>3, FS_EmptySet
  <1>5. Units(f, S \cup {x}) = A \cup B
    BY UnitsAdd
  <1> HIDE DEF A, B
  <1>6. Cardinality(A \cup B) = Cardinality(A) + Cardinality(B) - Cardinality(A \cap B)
    BY <1>1, <1>2, FS_Union
  <1>7. Cardinality(A \cup B) = Cardinality(A) + f[x]
    BY <1>1, <1>2, <1>4, <1>6
  <1> QED BY <1>5, <1>7 DEF Total, A

LEMMA TotalOfOne ==
    ASSUME NEW S, IsFiniteSet(S), NEW x \in S, NEW f, \A y \in S : f[y] \in Nat
    PROVE  /\ Total(f, S) = Total(f, S \ {x}) + f[x]
           /\ Total(f, S \ {x}) \in Nat
  <1>1. IsFiniteSet(S \ {x}) /\ x \notin S \ {x} /\ S = (S \ {x}) \cup {x}
    BY FS_RemoveElement
  <1> QED BY <1>1, TotalAdd, UnitsFinite

\* f and g differ in x alone.
LEMMA TotalChange ==
    ASSUME NEW S, IsFiniteSet(S), NEW x \in S, NEW f, NEW g,
           \A y \in S : f[y] \in Nat /\ g[y] \in Nat,
           \A y \in S : y # x => f[y] = g[y]
    PROVE  Total(f, S) + g[x] = Total(g, S) + f[x]
  <1>1. Units(f, S \ {x}) = Units(g, S \ {x})
    BY DEF Units
  <1>2. /\ Total(f, S) = Total(f, S \ {x}) + f[x] /\ Total(f, S \ {x}) \in Nat
        /\ Total(g, S) = Total(g, S \ {x}) + g[x]
    BY TotalOfOne
  <1> QED BY <1>1, <1>2 DEF Total

LEMMA TotalSame ==
    ASSUME NEW S, NEW f, NEW g, \A y \in S : f[y] = g[y]
    PROVE  Total(f, S) = Total(g, S)
  BY DEF Total, Units

LEMMA TotalGrows ==
    ASSUME NEW S, IsFiniteSet(S), NEW f, NEW g,
           \A y \in S : f[y] \in Nat /\ g[y] \in Nat /\ f[y] <= g[y]
    PROVE  Total(f, S) <= Total(g, S)
  <1>1. Units(f, S) \subseteq Units(g, S)
    <2>1. \A y \in S : 1..f[y] \subseteq 1..g[y]
      OBVIOUS
    <2> QED BY <2>1 DEF Units
  <1>2. IsFiniteSet(Units(g, S))
    BY UnitsFinite
  <1> QED BY <1>1, <1>2, FS_Subset DEF Total

LEMMA TotalOfZeros ==
    ASSUME NEW S, NEW f, \A y \in S : f[y] = 0
    PROVE  Total(f, S) = 0
  <1>1. Units(f, S) = {}
    <2>1. \A y \in S : 1..f[y] = {}
      OBVIOUS
    <2> QED BY <2>1 DEF Units
  <1> QED BY <1>1, FS_EmptySet DEF Total

LEMMA TotalOfConstant ==
    ASSUME NEW S, IsFiniteSet(S), NEW k \in Nat, NEW T \in SUBSET S, NEW f,
           \A y \in S : f[y] = IF y \in T THEN k ELSE 0
    PROVE  Total(f, S) = Cardinality(T) * k
  <1>1. Units(f, S) = T \X (1..k)
    <2>1. \A y \in T : 1..f[y] = 1..k
      OBVIOUS
    <2>2. \A y \in S : y \notin T => 1..f[y] = {}
      OBVIOUS
    <2>3. Units(f, S) \subseteq T \X (1..k)
      BY <2>1, <2>2 DEF Units
    <2>4. T \X (1..k) \subseteq Units(f, S)
      BY <2>1 DEF Units
    <2> QED BY <2>3, <2>4
  <1>2. IsFiniteSet(T) /\ IsFiniteSet(1..k) /\ Cardinality(1..k) = k
    BY FS_Subset, FS_Interval
  <1> QED BY <1>1, <1>2, FS_Product DEF Total

\* Where f is, g is not.
LEMMA TotalOfBoth ==
    ASSUME NEW S, IsFiniteSet(S), NEW f, NEW g, NEW h,
           \A y \in S : f[y] \in Nat /\ g[y] \in Nat /\ h[y] \in Nat,
           \A y \in S : \/ f[y] = 0 /\ h[y] = g[y]
                        \/ g[y] = 0 /\ h[y] = f[y]
    PROVE  Total(h, S) = Total(f, S) + Total(g, S)
  <1> DEFINE A == Units(f, S)
             B == Units(g, S)
  <1>1. /\ IsFiniteSet(A) /\ Cardinality(A) \in Nat
        /\ IsFiniteSet(B) /\ Cardinality(B) \in Nat
    BY UnitsFinite DEF Total
  <1>0. 1..0 = {}
    OBVIOUS
  <1>2. A \cap B = {}
    BY <1>0 DEF Units
  <1>3. Units(h, S) = A \cup B
    BY <1>0 DEF Units
  <1>4. Cardinality(A \cap B) = 0
    BY <1>2, FS_EmptySet
  <1> HIDE DEF A, B
  <1>5. Cardinality(A \cup B) = Cardinality(A) + Cardinality(B) - Cardinality(A \cap B)
    BY <1>1, FS_Union
  <1>6. Cardinality(A \cup B) = Cardinality(A) + Cardinality(B)
    BY <1>1, <1>4, <1>5
  <1> QED BY <1>3, <1>6 DEF Total, A, B

-----------------------------------------------------------------------------
Steps == {"idle", "budget", "ceiling", "classify", "retrieve", "draft", "write"}

Categories == {"none", "other"} \cup Labels \cup UNION {s.categories : s \in SettingsValues}

LanesGiven == {LaneOf(s, c) : s \in SettingsValues, c \in Categories} \cup {"none"}

Verdicts == {"none", "drafted", "needs_human"}

RowRecords ==
    [org : Orgs \cup {"none"}, status : Verdicts \cup {"absent", "purged", "received", "resolved"},
     category : Categories, lane : LanesGiven, urgency : {"none", "normal", "high"}]

RowType == rows \in [Requests -> RowRecords]

RunRecords ==
    [pc : Steps, req : Requests \cup {0}, settings : SettingsValues \cup {NoSettings},
     provider : {"none", "live", "fake"}, todo : SUBSET Orgs, seen : Nat,
     tokens : Nat, category : Categories, urgency : {"none", "normal", "high"},
     verdict : Verdicts, today : BOOLEAN]

RunType == run \in [Workers -> RunRecords]

PipelineTypeOK ==
    /\ RowType /\ RunType
    /\ settings \in [Orgs -> SettingsValues]
    /\ recorded \in [Requests -> [{"live", "fake"} -> Nat]]

HadType ==
    /\ had \in [Orgs -> SUBSET SettingsValues]
    /\ \A o \in Orgs : settings[o] \in had[o]

\* What is not there, or no longer, has neither a verdict nor drafts.
SubmittedHasOrg ==
    \A r \in Requests :
        /\ Exists(r) => rows[r].org \in Orgs
        /\ ~Exists(r) => rows[r].category = "none" /\ recorded[r] = NoTokens

\* What settings s can classify as.
Takes(s, category) == s.categories = {} \/ category \in s.categories

\* An open run has a request that is there and settings its org has had; past
\* the classification, a category of those.
RunsKnowSettings ==
    \A w \in Workers :
        /\ ~At(w, "idle") => /\ run[w].req \in Requests
                             /\ Exists(run[w].req)
                             /\ run[w].settings \in had[rows[run[w].req].org]
        /\ run[w].pc \in {"retrieve", "draft", "write"} =>
               Takes(run[w].settings, run[w].category)

RoutingIInv ==
    /\ PipelineTypeOK /\ HadType /\ SubmittedHasOrg /\ RunsKnowSettings
    /\ RoutedBySettingsOfOneTime

LEMMA RoutingInit == PipelineInit => RoutingIInv
  <1> SUFFICES ASSUME PipelineInit PROVE RoutingIInv
    OBVIOUS
  <1>1. RowType
    BY DEF PipelineInit, RowType, RowRecords, NoRow, Categories, LanesGiven, Verdicts
  <1>2. IdleRun \in RunRecords
    BY DEF IdleRun, RunRecords, Steps, Categories, Verdicts
  <1>3. RunType
    BY <1>2 DEF PipelineInit, RunType
  <1>4. NoTokens \in [{"live", "fake"} -> Nat]
    BY DEF NoTokens
  <1>5. recorded \in [Requests -> [{"live", "fake"} -> Nat]]
    BY <1>4 DEF PipelineInit
  <1>6. settings \in [Orgs -> SettingsValues] /\ HadType
    BY DEF PipelineInit, HadType
  <1>7. SubmittedHasOrg /\ RunsKnowSettings /\ RoutedBySettingsOfOneTime
    BY DEF PipelineInit, SubmittedHasOrg, RunsKnowSettings, RoutedBySettingsOfOneTime, NoRow,
           IdleRun, At, Exists
  <1> QED BY <1>1, <1>3, <1>5, <1>6, <1>7 DEF RoutingIInv, PipelineTypeOK

\* A step of w that leaves the table as it is.
LEMMA RunFrame ==
    ASSUME RoutingIInv, NEW w \in Workers, UNCHANGED <<rows, settings, recorded, had>>,
           run' \in [Workers -> RunRecords],
           \A v \in Workers : v # w => run'[v] = run[v],
           run'[w].pc # "idle" => /\ run'[w].req \in Requests
                                  /\ Exists(run'[w].req)
                                  /\ run'[w].settings \in had[rows[run'[w].req].org],
           run'[w].pc \in {"retrieve", "draft", "write"} =>
               Takes(run'[w].settings, run'[w].category)
    PROVE  RoutingIInv'
  <1>1. PipelineTypeOK' /\ HadType'
    BY DEF RoutingIInv, PipelineTypeOK, RowType, RunType, HadType
  <1>2. RunsKnowSettings'
    BY DEF RoutingIInv, RunsKnowSettings, At, Exists, Takes
  <1>3. SubmittedHasOrg' /\ RoutedBySettingsOfOneTime'
    BY DEF RoutingIInv, SubmittedHasOrg, RoutedBySettingsOfOneTime, Exists
  <1> QED BY <1>1, <1>2, <1>3 DEF RoutingIInv

\* What the steps of a run know of it.
LEMMA OpenRun ==
    ASSUME RoutingIInv, NEW w \in Workers
    PROVE  /\ run \in [Workers -> RunRecords] /\ run[w] \in RunRecords
           /\ run[w].pc # "idle" => /\ run[w].req \in Requests
                                    /\ Exists(run[w].req)
                                    /\ rows[run[w].req].org \in Orgs
                                    /\ run[w].settings \in had[rows[run[w].req].org]
                                    /\ run[w].settings \in SettingsValues
           /\ run[w].pc \in {"retrieve", "draft", "write"} =>
                  Takes(run[w].settings, run[w].category)
           /\ recorded \in [Requests -> [{"live", "fake"} -> Nat]]
  <1>1. /\ run \in [Workers -> RunRecords] /\ run[w] \in RunRecords
        /\ recorded \in [Requests -> [{"live", "fake"} -> Nat]]
    BY DEF RoutingIInv, PipelineTypeOK, RunType
  <1>2. /\ run[w].pc # "idle" => /\ run[w].req \in Requests
                                 /\ Exists(run[w].req)
                                 /\ run[w].settings \in had[rows[run[w].req].org]
        /\ run[w].pc \in {"retrieve", "draft", "write"} =>
               Takes(run[w].settings, run[w].category)
    BY DEF RoutingIInv, RunsKnowSettings, At
  <1>3. run[w].pc # "idle" => rows[run[w].req].org \in Orgs
    BY <1>2 DEF RoutingIInv, SubmittedHasOrg
  <1>4. run[w].pc # "idle" => run[w].settings \in SettingsValues
    BY <1>2, <1>3 DEF RoutingIInv, HadType
  <1> QED BY <1>1, <1>2, <1>3, <1>4

LEMMA BeginKeeps ==
    ASSUME RoutingIInv, NEW w \in Workers, NEW r \in Requests, begin(w, r)
    PROVE  RoutingIInv'
  <1> DEFINE n == [IdleRun EXCEPT
                      !.pc = IF LLM_PROVIDER = "fake" THEN "classify" ELSE "budget",
                      !.provider = LLM_PROVIDER,
                      !.req = r,
                      !.settings = settings[rows[r].org]]
  <1>1. /\ rows[r].org \in Orgs /\ settings[rows[r].org] \in SettingsValues
        /\ Exists(r) /\ settings[rows[r].org] \in had[rows[r].org]
    BY DEF begin, RoutingIInv, SubmittedHasOrg, PipelineTypeOK, HadType
  <1>2. n \in RunRecords
    BY <1>1 DEF IdleRun, Steps, Categories, RunRecords, Verdicts
  <1>3. /\ n.pc \in {"classify", "budget"} /\ n.req = r
        /\ n.settings = settings[rows[r].org]
    BY DEF IdleRun
  <1>4. run' = [run EXCEPT ![w] = n] /\ UNCHANGED <<rows, settings, recorded, had>>
    BY DEF begin
  <1> HIDE DEF n
  <1>5. /\ run' \in [Workers -> RunRecords] /\ run'[w] = n
        /\ \A v \in Workers : v # w => run'[v] = run[v]
    BY <1>2, <1>4, OpenRun
  <1> QED BY <1>1, <1>3, <1>4, <1>5, OpenRun, RunFrame

\* A run that goes on with its request, under the settings it has read.
LEMMA RunGoesOn ==
    ASSUME RoutingIInv, NEW w \in Workers, run[w].pc # "idle",
           UNCHANGED <<rows, settings, recorded, had>>,
           NEW n \in RunRecords, run' = [run EXCEPT ![w] = n],
           n.req = run[w].req, n.settings = run[w].settings,
           n.pc \in {"retrieve", "draft", "write"} => Takes(run[w].settings, n.category)
    PROVE  RoutingIInv'
  <1>1. /\ run' \in [Workers -> RunRecords] /\ run'[w] = n
        /\ \A v \in Workers : v # w => run'[v] = run[v]
    BY OpenRun
  <1> QED BY <1>1, OpenRun, RunFrame

LEMMA RecordedType ==
    ASSUME RoutingIInv, NEW o, NEW p \in {"live", "fake"}
    PROVE  Recorded(o, p) \in Nat
  <1> DEFINE f == [r \in Requests |-> IF rows[r].org = o THEN recorded[r][p] ELSE 0]
  <1>1. \A r \in Requests : f[r] \in Nat
    BY DEF RoutingIInv, PipelineTypeOK
  <1> HIDE DEF f
  <1>2. Total(f, Requests) \in Nat
    BY <1>1, UnitsFinite
  <1> QED BY <1>2 DEF Recorded, f

\* Records of runs that a step of the pipeline makes.
LEMMA ChecksKeepType ==
    ASSUME NEW m \in RunRecords, NEW n, NEW todo \in SUBSET Orgs, NEW kept \in Nat,
           NEW step \in {"classify", "ceiling"}, NEW p \in {"none", "live", "fake"},
           n = [m EXCEPT !.todo = todo, !.seen = kept, !.pc = step, !.provider = p]
    PROVE  n \in RunRecords /\ n.pc = step /\ n.req = m.req /\ n.settings = m.settings
  BY DEF RunRecords, Steps

LEMMA BudgetKeepsType ==
    ASSUME NEW m \in RunRecords, NEW n,
           \/ n = [m EXCEPT !.pc = "classify", !.provider = "fake"]
           \/ n = [m EXCEPT !.pc = "ceiling", !.todo = Orgs]
    PROVE  /\ n \in RunRecords /\ n.pc \in {"classify", "ceiling"}
           /\ n.req = m.req /\ n.settings = m.settings
  <1>1. CASE n = [m EXCEPT !.pc = "classify", !.provider = "fake"]
    BY <1>1 DEF RunRecords, Steps
  <1>2. CASE n = [m EXCEPT !.pc = "ceiling", !.todo = Orgs]
    BY <1>2 DEF RunRecords, Steps
  <1> QED BY <1>1, <1>2

\* Choosing a provider.
LEMMA SpendKeeps ==
    ASSUME RoutingIInv, NEW w \in Workers,
           org_budget_exceeded(w) \/ \E o \in Orgs : global_ceiling_exceeded(w, o)
    PROVE  RoutingIInv'
  <1>1. CASE org_budget_exceeded(w)
    <2> DEFINE n == IF over(get_org_tokens_today(Org(w)), DailyTokenBudget[Org(w)])
                    THEN [run[w] EXCEPT !.pc = "classify", !.provider = "fake"]
                    ELSE [run[w] EXCEPT !.pc = "ceiling", !.todo = Orgs]
    <2>1. run' = [run EXCEPT ![w] = n]
      BY <1>1, OpenRun DEF org_budget_exceeded
    <2>2. /\ run[w].pc # "idle" /\ UNCHANGED <<rows, settings, recorded, had>>
      BY <1>1 DEF org_budget_exceeded, At
    <2>3. /\ n \in RunRecords /\ n.pc \in {"classify", "ceiling"}
          /\ n.req = run[w].req /\ n.settings = run[w].settings
      <3>1. run[w] \in RunRecords
        BY OpenRun
      <3>2. \/ n = [run[w] EXCEPT !.pc = "classify", !.provider = "fake"]
            \/ n = [run[w] EXCEPT !.pc = "ceiling", !.todo = Orgs]
        OBVIOUS
      <3> HIDE DEF n
      <3> QED BY <3>1, <3>2, BudgetKeepsType
    <2> HIDE DEF n
    <2> QED BY <2>1, <2>2, <2>3, RunGoesOn
  <1>2. ASSUME NEW o \in Orgs, global_ceiling_exceeded(w, o)
        PROVE  RoutingIInv'
    <2> DEFINE todo == run[w].todo \ {o}
               seen == run[w].seen + Recorded(o, "live")
               kept == IF todo = {} THEN 0 ELSE seen
               step == IF todo = {} THEN "classify" ELSE "ceiling"
               p == IF todo = {} /\ over(seen, SpendCeiling) THEN "fake" ELSE run[w].provider
               n == [run[w] EXCEPT !.todo = todo, !.seen = kept, !.pc = step, !.provider = p]
    <2>1. run' = [run EXCEPT ![w] = n]
      BY <1>2 DEF global_ceiling_exceeded
    <2>2. /\ run[w].pc # "idle" /\ UNCHANGED <<rows, settings, recorded, had>>
      BY <1>2 DEF global_ceiling_exceeded, At
    <2>3. /\ todo \in SUBSET Orgs /\ kept \in Nat /\ step \in {"classify", "ceiling"}
          /\ p \in {"none", "live", "fake"}
      BY OpenRun, RecordedType DEF RunRecords
    <2> HIDE DEF todo, kept, step, p
    <2>4. /\ n \in RunRecords /\ n.pc \in {"classify", "ceiling"}
          /\ n.req = run[w].req /\ n.settings = run[w].settings
      <3>1. run[w] \in RunRecords
        BY OpenRun
      <3>2. n = [run[w] EXCEPT !.todo = todo, !.seen = kept, !.pc = step, !.provider = p]
        OBVIOUS
      <3> HIDE DEF n
      <3> QED BY <2>3, <3>1, <3>2, ChecksKeepType
    <2> HIDE DEF n
    <2> QED BY <2>1, <2>2, <2>4, RunGoesOn
  <1> QED BY <1>1, <1>2

LEMMA CategoryType ==
    ASSUME NEW s \in SettingsValues, NEW c \in Categories
    PROVE  LaneOf(s, c) \in LanesGiven
  BY DEF LanesGiven

\* Classification takes a category of the settings the run has read.
LEMMA ClassifyKeeps ==
    ASSUME RoutingIInv, NEW w \in Workers, classify(w)
    PROVE  RoutingIInv'
  <1>1. PICK c \in CategoriesFor(w), u \in {"normal", "high"} :
            run' = [run EXCEPT ![w] = [run[w] EXCEPT !.pc = "retrieve", !.tokens = 1,
                                                     !.category = c, !.urgency = u]]
    BY OpenRun DEF classify
  <1>2. run[w].pc = "classify" /\ UNCHANGED <<rows, settings, recorded, had>>
    BY DEF classify, At
  <1>3. c \in Categories /\ Takes(run[w].settings, c)
    BY <1>2, OpenRun DEF CategoriesFor, Categories, Takes
  <1> DEFINE n == [run[w] EXCEPT !.pc = "retrieve", !.tokens = 1, !.category = c, !.urgency = u]
  <1>4. run' = [run EXCEPT ![w] = n]
    BY <1>1
  <1>5. n \in RunRecords /\ n.category = c /\ n.req = run[w].req /\ n.settings = run[w].settings
    <2>1. run[w] \in RunRecords
      BY OpenRun
    <2>2. n = [run[w] EXCEPT !.pc = "retrieve", !.tokens = 1, !.category = c, !.urgency = u]
      OBVIOUS
    <2>3. u \in {"normal", "high"}
      OBVIOUS
    <2> HIDE DEF n
    <2> QED BY <1>3, <2>3, <2>1, <2>2 DEF RunRecords, Steps
  <1> HIDE DEF n
  <1> QED BY <1>2, <1>3, <1>4, <1>5, RunGoesOn

LEMMA OneMoreToken ==
    ASSUME NEW n \in RunRecords
    PROVE  [n EXCEPT !.tokens = @ + 1] \in RunRecords
  BY DEF RunRecords

LEMMA DraftKeeps ==
    ASSUME RoutingIInv, NEW w \in Workers, retrieve(w) \/ draft(w)
    PROVE  RoutingIInv'
  <1> DEFINE drafting == [run[w] EXCEPT !.pc = "draft"]
             handed == Verdict(w, "needs_human")
             drafted == [Verdict(w, "drafted") EXCEPT !.tokens = @ + 1]
             given_up == [Verdict(w, "needs_human") EXCEPT !.tokens = @ + 1]
             again == [run[w] EXCEPT !.tokens = @ + 1]
  <1>1. /\ run[w].pc \in {"retrieve", "draft"} /\ UNCHANGED <<rows, settings, recorded, had>>
    BY DEF retrieve, draft, At
  <1>2. ASSUME NEW n \in {drafting, handed, drafted, given_up, again},
               run' = [run EXCEPT ![w] = n]
        PROVE  RoutingIInv'
    <2>1. run[w] \in RunRecords
      BY OpenRun
    <2>2. n \in RunRecords
      <3>1. drafting \in RunRecords
        BY <2>1 DEF RunRecords, Steps
      <3>2. again \in RunRecords
        BY <2>1 DEF RunRecords, Steps
      <3>3. handed \in RunRecords
        BY <2>1 DEF Verdict, Verdicts, RunRecords, Steps
      <3>4. drafted \in RunRecords /\ given_up \in RunRecords
        <4>1. Verdict(w, "drafted") \in RunRecords /\ Verdict(w, "needs_human") \in RunRecords
          BY <2>1 DEF Verdict, Verdicts, RunRecords, Steps
        <4> QED BY <4>1, OneMoreToken
      <3> QED BY <1>2, <3>1, <3>2, <3>3, <3>4
    <2>3. /\ n.category = run[w].category
          /\ n.req = run[w].req /\ n.settings = run[w].settings
      BY <1>2, <2>1 DEF Verdict, RunRecords
    <2> QED BY <1>1, <1>2, <2>2, <2>3, OpenRun, RunGoesOn
  <1>3. \E n \in {drafting, handed, drafted, given_up, again} : run' = [run EXCEPT ![w] = n]
    <2>1. CASE retrieve(w)
      <3>1. run' = [run EXCEPT ![w] = drafting] \/ run' = [run EXCEPT ![w] = handed]
        BY <2>1, OpenRun DEF retrieve
      <3> QED BY <3>1
    <2>2. CASE draft(w)
      <3>1. CASE run' = [run EXCEPT ![w] = [Verdict(w, "drafted") EXCEPT !.tokens = @ + 1]]
        BY <3>1
      <3>2. CASE run' = [run EXCEPT ![w] = IF run[w].tokens = MAX_ATTEMPTS
                                           THEN given_up ELSE again]
        BY <3>2
      <3> QED BY <2>2, <3>1, <3>2 DEF draft
    <2> QED BY <2>1, <2>2
  <1> HIDE DEF drafting, handed, drafted, given_up, again
  <1> QED BY <1>2, <1>3

LEMMA IdleIsARun == IdleRun \in RunRecords
  BY DEF IdleRun, RunRecords, Steps, Categories, Verdicts

LEMMA FailKeeps ==
    ASSUME RoutingIInv, NEW w \in Workers, RunFails(w)
    PROVE  RoutingIInv'
  <1>1. run' = [run EXCEPT ![w] = IdleRun] /\ UNCHANGED <<rows, settings, recorded, had>>
    BY DEF RunFails
  <1>2. /\ run' \in [Workers -> RunRecords] /\ run'[w] = IdleRun
        /\ \A v \in Workers : v # w => run'[v] = run[v]
    BY <1>1, OpenRun, IdleIsARun
  <1>3. IdleRun.pc = "idle"
    BY DEF IdleRun
  <1> QED BY <1>1, <1>2, <1>3, OpenRun, RunFrame

\* The verdict's category and lane come from the settings the run has read.
LEMMA WriteKeeps ==
    ASSUME RoutingIInv, NEW w \in Workers, _write_result(w)
    PROVE  RoutingIInv'
  <1> DEFINE s == run[w].settings
             c == run[w].category
             q == run[w].req
             row == [org |-> rows[q].org, status |-> run[w].verdict, category |-> c,
                     urgency |-> run[w].urgency, lane |-> LaneOf(s, c)]
  <1>1. /\ q \in Requests /\ rows[q].org \in Orgs /\ Exists(q) /\ s \in SettingsValues
        /\ s \in had[rows[q].org] /\ Takes(s, c) /\ c \in Categories
    BY OpenRun DEF _write_result, At, RunRecords
  <1>2. LaneOf(s, c) \in LanesGiven
    BY <1>1, CategoryType
  <1>3. /\ rows' = [rows EXCEPT ![q] = row] /\ run' = [run EXCEPT ![w] = IdleRun]
        /\ UNCHANGED <<settings, had>>
    BY DEF _write_result, Org, SettingsOf
  <1>4. row \in RowRecords /\ row.org = rows[q].org /\ row.status \in Verdicts
    BY <1>1, <1>2, OpenRun DEF RunRecords, RowRecords
  <1>5. /\ RowType' /\ rows'[q] = row
        /\ \A r \in Requests : r # q => rows'[r] = rows[r]
    BY <1>1, <1>3, <1>4 DEF RoutingIInv, PipelineTypeOK, RowType
  <1>6. RunType' /\ \A v \in Workers : run'[v] = IF v = w THEN IdleRun ELSE run[v]
    BY <1>3, OpenRun, IdleIsARun DEF RunType
  <1>7. /\ recorded' \in [Requests -> [{"live", "fake"} -> Nat]]
        /\ \A r \in Requests : r # q => recorded'[r] = recorded[r]
    <2>1. TokensOf(w) \in Nat
      BY OpenRun DEF TokensOf, RunRecords
    <2>2. CASE UNCHANGED recorded
      BY <2>2, OpenRun
    <2>3. CASE recorded' = [recorded EXCEPT ![q][run[w].provider] = @ + TokensOf(w)]
      <3> DEFINE p == run[w].provider
                 sum == recorded[q][p] + TokensOf(w)
                 day == [recorded[q] EXCEPT ![p] = sum]
      <3>1. recorded[q] \in [{"live", "fake"} -> Nat]
        BY <1>1, OpenRun
      <3>2. recorded' = [recorded EXCEPT ![q] = day]
        BY <2>3
      <3>3. day \in [{"live", "fake"} -> Nat]
        <4>1. CASE p \in {"live", "fake"}
          <5>1. sum \in Nat
            BY <2>1, <3>1, <4>1
          <5> HIDE DEF sum
          <5> QED BY <3>1, <5>1
        <4>2. CASE p \notin {"live", "fake"}
          BY <3>1, <4>2
        <4> QED BY <4>1, <4>2
      <3> HIDE DEF day, q
      <3> QED BY <1>1, <3>1, <3>2, <3>3, OpenRun
    <2> QED BY <2>2, <2>3 DEF _write_result
  <1>8. /\ rows'[q].status \notin {"absent", "purged"}
        /\ \A r \in Requests : rows'[r].org = rows[r].org
    BY <1>4, <1>5 DEF Verdicts
  <1>9. SubmittedHasOrg'
    <2> HIDE DEF row, q, s, c
    <2>1. rows'[q].org \in Orgs
      BY <1>1, <1>8
    <2> QED BY <1>5, <1>7, <1>8, <2>1 DEF RoutingIInv, SubmittedHasOrg, Exists
  <1>10. RunsKnowSettings'
    <2>1. IdleRun.pc = "idle"
      BY DEF IdleRun
    <2> HIDE DEF row, q, s, c
    <2>2. \A r \in Requests : Exists(r) => rows'[r].status \notin {"absent", "purged"}
      BY <1>5, <1>8 DEF Exists
    <2>3. ASSUME NEW v \in Workers, v # w, run[v].pc # "idle"
          PROVE  /\ run[v].req \in Requests /\ rows'[run[v].req].status \notin {"absent", "purged"}
                 /\ run[v].settings \in had[rows'[run[v].req].org]
      BY <1>8, <2>2, <2>3, OpenRun
    <2> QED BY <1>3, <1>6, <2>1, <2>3, OpenRun DEF RunsKnowSettings, At, Exists
  <1>11. RoutedBySettingsOfOneTime'
    <2>1. row.category = c /\ row.lane = LaneOf(s, c)
      OBVIOUS
    <2> HIDE DEF row, q, s, c
    <2> QED BY <1>1, <1>3, <1>4, <1>5, <2>1 DEF RoutingIInv, RoutedBySettingsOfOneTime, Takes
  <1>12. HadType'
    BY <1>3 DEF RoutingIInv, HadType
  <1> QED BY <1>3, <1>5, <1>6, <1>7, <1>9, <1>10, <1>11, <1>12 DEF RoutingIInv, PipelineTypeOK

LEMMA MidnightKeeps ==
    ASSUME RoutingIInv, Midnight
    PROVE  RoutingIInv'
  <1>1. /\ UNCHANGED <<rows, settings, had>>
        /\ run' = [w \in Workers |-> [run[w] EXCEPT !.today = At(w, "idle")]]
    BY DEF Midnight
  <1>2. ASSUME NEW w \in Workers
        PROVE  /\ run'[w] \in RunRecords /\ run'[w].pc = run[w].pc /\ run'[w].req = run[w].req
               /\ run'[w].settings = run[w].settings /\ run'[w].category = run[w].category
    <2>1. run[w] \in RunRecords /\ At(w, "idle") \in BOOLEAN
      BY OpenRun DEF At
    <2>2. run'[w] = [run[w] EXCEPT !.today = At(w, "idle")]
      BY <1>1
    <2> QED BY <2>1, <2>2 DEF RunRecords
  <1>3. RunType'
    BY <1>1, <1>2 DEF RunType
  <1>4. /\ recorded' \in [Requests -> [{"live", "fake"} -> Nat]]
        /\ \A r \in Requests : recorded'[r] = NoTokens
    BY DEF Midnight, NoTokens
  <1>5. RunsKnowSettings'
    BY <1>1, <1>2 DEF RoutingIInv, RunsKnowSettings, At, Exists, Takes
  <1>6. SubmittedHasOrg' /\ HadType' /\ RoutedBySettingsOfOneTime'
    BY <1>1, <1>4 DEF RoutingIInv, SubmittedHasOrg, Exists, HadType, RoutedBySettingsOfOneTime
  <1> QED BY <1>1, <1>3, <1>4, <1>5, <1>6 DEF RoutingIInv, PipelineTypeOK, RowType

\* What happens to a row that no run has taken: it is submitted, resolved or
\* purged.
LEMMA RowKeeps ==
    ASSUME RoutingIInv, NEW r \in Requests, ~Exists(r) \/ ~Busy(r), NEW row \in RowRecords,
           rows' = [rows EXCEPT ![r] = row], UNCHANGED <<settings, run, had>>,
           recorded' \in [Requests -> [{"live", "fake"} -> Nat]],
           \A q \in Requests : q # r => recorded'[q] = recorded[q],
           \/ /\ row.status \notin {"absent", "purged"} /\ row.org \in Orgs
              /\ \/ row.category = "none"
                 \/ /\ row.category = rows[r].category /\ row.lane = rows[r].lane
                    /\ row.org = rows[r].org
           \/ row.status = "purged" /\ row.category = "none" /\ recorded'[r] = NoTokens
    PROVE  RoutingIInv'
  <1>1. /\ RowType' /\ rows'[r] = row
        /\ \A q \in Requests : q # r => rows'[q] = rows[q]
    BY DEF RoutingIInv, PipelineTypeOK, RowType
  <1>2. ASSUME NEW q \in Requests, q # r
        PROVE  Exists(q)' <=> Exists(q)
    BY <1>1, <1>2 DEF Exists
  <1>3. Exists(r)' <=> row.status \notin {"absent", "purged"}
    BY <1>1 DEF Exists
  <1>4. SubmittedHasOrg'
    <2>1. ASSUME NEW q \in Requests, q # r
          PROVE  /\ Exists(q)' => rows'[q].org \in Orgs
                 /\ ~Exists(q)' => rows'[q].category = "none" /\ recorded'[q] = NoTokens
      BY <1>1, <1>2, <2>1 DEF RoutingIInv, SubmittedHasOrg
    <2>2. /\ Exists(r)' => rows'[r].org \in Orgs
          /\ ~Exists(r)' => rows'[r].category = "none" /\ recorded'[r] = NoTokens
      BY <1>1, <1>3
    <2> QED BY <2>1, <2>2 DEF SubmittedHasOrg, NoTokens
  <1>5. RoutedBySettingsOfOneTime'
    BY <1>1 DEF RoutingIInv, RoutedBySettingsOfOneTime
  <1>6. ASSUME NEW w \in Workers, run[w].pc # "idle"
        PROVE  /\ run[w].req \in Requests /\ rows'[run[w].req] = rows[run[w].req]
               /\ rows[run[w].req].status \notin {"absent", "purged"}
               /\ run[w].settings \in had[rows[run[w].req].org]
    BY <1>1, <1>6, OpenRun DEF At, Busy, Exists
  <1>7. RunsKnowSettings'
    BY <1>6, OpenRun DEF RunsKnowSettings, At, Exists
  <1>8. HadType'
    BY DEF RoutingIInv, HadType
  <1> QED BY <1>1, <1>4, <1>5, <1>7, <1>8 DEF RoutingIInv, PipelineTypeOK, RunType

LEMMA SubmitKeeps ==
    ASSUME RoutingIInv, NEW r \in Requests, NEW o \in Orgs, submit(r, o)
    PROVE  RoutingIInv'
  <1> DEFINE row == [rows[r] EXCEPT !.status = "received", !.org = o]
  <1>1. rows' = [rows EXCEPT ![r] = row] /\ UNCHANGED <<settings, recorded, run, had>>
    BY DEF submit, RoutingIInv, PipelineTypeOK, RowType, RowRecords
  <1>2. /\ row \in RowRecords /\ row.org = o /\ row.status = "received"
        /\ row.category = rows[r].category
    BY DEF RoutingIInv, PipelineTypeOK, RowType, RowRecords
  <1>3. ~Exists(r) /\ rows[r].category = "none"
    BY DEF submit, RoutingIInv, SubmittedHasOrg, Exists
  <1> HIDE DEF row
  <1> QED BY <1>1, <1>2, <1>3, RowKeeps DEF RoutingIInv, PipelineTypeOK

LEMMA ResolveKeeps ==
    ASSUME RoutingIInv, NEW r \in Requests, resolve(r)
    PROVE  RoutingIInv'
  <1> DEFINE row == [rows[r] EXCEPT !.status = "resolved"]
  <1>1. rows' = [rows EXCEPT ![r] = row] /\ UNCHANGED <<settings, recorded, run, had>>
    BY DEF resolve
  <1>2. rows[r].org \in Orgs /\ ~Busy(r)
    BY DEF resolve, RoutingIInv, SubmittedHasOrg, Exists
  <1>3. /\ row \in RowRecords /\ row.org = rows[r].org /\ row.status = "resolved"
        /\ row.category = rows[r].category /\ row.lane = rows[r].lane
    BY DEF RoutingIInv, PipelineTypeOK, RowType, RowRecords
  <1> HIDE DEF row
  <1> QED BY <1>1, <1>2, <1>3, RowKeeps DEF RoutingIInv, PipelineTypeOK

\* With the row go its verdict and its drafts.
LEMMA PurgeKeeps ==
    ASSUME RoutingIInv, NEW r \in Requests, purge(r)
    PROVE  RoutingIInv'
  <1> DEFINE row == [NoRow EXCEPT !.status = "purged"]
  <1>1. /\ rows' = [rows EXCEPT ![r] = row] /\ UNCHANGED <<settings, run, had>>
        /\ recorded' = [recorded EXCEPT ![r] = NoTokens] /\ ~Busy(r)
    BY DEF purge
  <1>2. row \in RowRecords /\ row.status = "purged" /\ row.category = "none"
    BY DEF NoRow, RowRecords, Categories, LanesGiven
  <1>3. /\ recorded' \in [Requests -> [{"live", "fake"} -> Nat]] /\ recorded'[r] = NoTokens
        /\ \A q \in Requests : q # r => recorded'[q] = recorded[q]
    BY <1>1 DEF RoutingIInv, PipelineTypeOK, NoTokens
  <1> HIDE DEF row
  <1> QED BY <1>1, <1>2, <1>3, RowKeeps

\* An edit changes what later runs read, and nothing a run has read.
LEMMA EditKeeps ==
    ASSUME RoutingIInv, NEW o \in Orgs, NEW s \in SettingsValues, operatorEdits(o, s)
    PROVE  RoutingIInv'
  <1>1. settings' \in [Orgs -> SettingsValues] /\ UNCHANGED <<rows, recorded, run>>
    BY DEF operatorEdits, RoutingIInv, PipelineTypeOK
  <1>2. HadType' /\ \A p \in Orgs : had[p] \subseteq had'[p]
    BY DEF operatorEdits, RoutingIInv, PipelineTypeOK, HadType
  <1>3. RunsKnowSettings'
    BY <1>1, <1>2, OpenRun DEF RunsKnowSettings, At, Exists, Takes
  <1>4. RoutedBySettingsOfOneTime'
    <2>1. ASSUME NEW r \in Requests, rows[r].category # "none"
          PROVE  rows[r].org \in Orgs
      BY <2>1 DEF RoutingIInv, SubmittedHasOrg
    <2> QED BY <1>1, <1>2, <2>1 DEF RoutingIInv, RoutedBySettingsOfOneTime
  <1> QED BY <1>1, <1>2, <1>3, <1>4 DEF RoutingIInv, PipelineTypeOK, RowType, RunType,
                                       SubmittedHasOrg, Exists

LEMMA RoutingStep == RoutingIInv /\ [Next]_pipelineVars => RoutingIInv'
  <1> SUFFICES ASSUME RoutingIInv, [Next]_pipelineVars PROVE RoutingIInv'
    OBVIOUS
  <1>1. ASSUME NEW w \in Workers, PipelineStep(w) PROVE RoutingIInv'
    BY <1>1, BeginKeeps, SpendKeeps, ClassifyKeeps, DraftKeeps, WriteKeeps, FailKeeps
    DEF PipelineStep
  <1>2. CASE UNCHANGED pipelineVars
    BY <1>2 DEF pipelineVars, RoutingIInv, PipelineTypeOK, RowType, RunType, HadType,
                SubmittedHasOrg, RunsKnowSettings, RoutedBySettingsOfOneTime, At, Exists, Takes
  <1> QED BY <1>1, <1>2, MidnightKeeps, PurgeKeeps, SubmitKeeps, ResolveKeeps, EditKeeps DEF Next

\* F4, F5: whatever an operator edits while any number of runs are open, a
\* request's category and lane come from one value its org's settings have had.
THEOREM RoutedAtOneTime == Spec => []RoutedBySettingsOfOneTime
  <1>1. RoutingIInv => RoutedBySettingsOfOneTime
    BY DEF RoutingIInv
  <1> QED BY <1>1, RoutingInit, RoutingStep, PTL DEF Spec

-----------------------------------------------------------------------------
\* What is recorded of each org: a row of this is Recorded.
Sums == [o \in Orgs |-> [p \in {"live", "fake"} |-> Recorded(o, p)]]

\* What a run has spent today that no draft records yet; the runs that have
\* passed a layer of checks today.
SpentBy(m) == IF m.provider = "live" /\ m.today THEN m.tokens ELSE 0

PassedBudget(m) == m.pc \notin {"idle", "budget"} /\ m.provider = "live" /\ m.today

HeldBy(m) == IF PassedBudget(m) THEN RunCost ELSE 0

Of(o, w) == run[w].provider = "live" /\ Org(w) = o

Spent(o) == [w \in Workers |-> IF Of(o, w) THEN SpentBy(run[w]) ELSE 0]

Held(o) == [w \in Workers |-> IF Of(o, w) THEN HeldBy(run[w]) ELSE 0]

\* A run that is still summing counts as long as what it has seen and what it
\* has yet to see are below the ceiling, or above it by less than j: a purge of
\* j tokens brings them below.
Cleared(w, j) ==
    /\ PassedBudget(run[w])
    /\ At(w, "ceiling") => run[w].seen + Total(Live, run[w].todo) < SpendCeiling + j

HeldByAll(j) == [w \in Workers |-> IF Cleared(w, j) THEN RunCost ELSE 0]

SpendType ==
    /\ billed \in [Orgs -> Nat] /\ lost \in [Orgs -> Nat]
    /\ purged \in [Orgs -> [{"live", "fake"} -> Nat]]

Spends(m) ==
    /\ m.pc = "idle" => m.provider = "none"
    /\ m.pc # "idle" => m.provider \in {"live", "fake"}
    /\ m.pc \in {"budget", "ceiling"} => m.provider = "live"
    /\ m.pc \in {"idle", "budget", "ceiling", "classify"} => m.tokens = 0
    /\ m.pc \in {"retrieve", "draft"} => m.tokens \in 1..MAX_ATTEMPTS
    /\ m.pc = "budget" => m.seen = 0
    /\ m.tokens <= RunCost

RunsSpend == \A w \in Workers : Spends(run[w])

\* What an org is charged today is recorded today, or held by a run of today, or
\* lost, or purged: nothing twice and nothing else.
Accounted ==
    \A o \in Orgs :
        billed[o] = Sums[o]["live"] + Total(Spent(o), Workers) + lost[o] + purged[o]["live"]

OrgChecked ==
    \A o \in Orgs :
        Sums[o]["live"] + Total(Held(o), Workers)
            < DailyTokenBudget[o] + RunCost * Cardinality(Workers)

AllChecked ==
    \A j \in Nat :
        SumOver(Live) + Total(HeldByAll(j), Workers)
            < SpendCeiling + j + RunCost * Cardinality(Workers)

\* What a run has seen and has yet to see is there, or has been purged.
SeenIsThere ==
    \A w \in Workers :
        At(w, "ceiling") /\ run[w].today =>
            run[w].seen + Total(Live, run[w].todo) <= SumOver(Live) + SumOver(PurgedLive)

\* DowngradeIsDeserved, where it must hold.
OwnDowngrades ==
    \A w \in Workers :
        run[w].provider = "fake" /\ LLM_PROVIDER # "fake" /\ run[w].today =>
            /\ Org(w) \in Orgs
            /\ \/ Sums[Org(w)]["live"] + Sums[Org(w)]["fake"]
                  + purged[Org(w)]["live"] + purged[Org(w)]["fake"] >= DailyTokenBudget[Org(w)]
               \/ SumOver(Live) + SumOver(PurgedLive) >= SpendCeiling

SpendIInv ==
    /\ SpendType /\ RunsSpend /\ Accounted /\ OrgChecked /\ AllChecked
    /\ SeenIsThere /\ OwnDowngrades

LEMMA CostType == RunCost \in Nat /\ RunCost > 1
  BY DEF RunCost

LEMMA SumsType == RoutingIInv => Sums \in [Orgs -> [{"live", "fake"} -> Nat]]
  BY RecordedType DEF Sums

LEMMA SumsTypeNext == (RoutingIInv => Sums \in [Orgs -> [{"live", "fake"} -> Nat]])'
  BY SumsType, PTL

LEMMA LiveIsSums == \A o \in Orgs : Live[o] = Sums[o]["live"]
  BY DEF Live, Sums

LEMMA LiveIsSumsNext == (\A o \in Orgs : Live[o] = Sums[o]["live"])'
  BY LiveIsSums, PTL

LEMMA SumsStay ==
    ASSUME UNCHANGED <<rows, recorded>>
    PROVE  Sums' = Sums /\ Live' = Live
  BY DEF Sums, Live, Recorded, Total, Units

LEMMA OneRequestChanges ==
    ASSUME NEW f, NEW g, NEW r \in Requests,
           \A x \in Requests : f[x] \in Nat /\ g[x] \in Nat,
           \A x \in Requests : x # r => f[x] = g[x]
    PROVE  Total(f, Requests) + g[r] = Total(g, Requests) + f[r]
  BY TotalChange

\* Only the drafts of r change, or its org: b of them are o's, for a before.
LEMMA SumsChange ==
    ASSUME RoutingIInv, RoutingIInv', NEW r \in Requests,
           \A x \in Requests : x # r => rows'[x].org = rows[x].org /\ recorded'[x] = recorded[x],
           NEW o \in Orgs, NEW p \in {"live", "fake"},
           NEW a \in Nat, a = IF rows[r].org = o THEN recorded[r][p] ELSE 0,
           NEW b \in Nat, b = IF rows'[r].org = o THEN recorded'[r][p] ELSE 0
    PROVE  Sums'[o][p] + a = Sums[o][p] + b
  <1> DEFINE f == [x \in Requests |-> IF rows[x].org = o THEN recorded[x][p] ELSE 0]
             g == [x \in Requests |-> IF rows'[x].org = o THEN recorded'[x][p] ELSE 0]
  <1>1. \A x \in Requests : f[x] \in Nat /\ g[x] \in Nat
    <2>1. /\ recorded \in [Requests -> [{"live", "fake"} -> Nat]]
          /\ recorded' \in [Requests -> [{"live", "fake"} -> Nat]]
      BY DEF RoutingIInv, PipelineTypeOK
    <2>2. \A x \in Requests : recorded[x][p] \in Nat /\ recorded'[x][p] \in Nat
      BY <2>1
    <2> QED BY <2>2
  <1>2. \A x \in Requests : x # r => f[x] = g[x]
    OBVIOUS
  <1>3. f[r] = a /\ g[r] = b
    OBVIOUS
  <1>4. Sums[o][p] = Total(f, Requests) /\ Sums'[o][p] = Total(g, Requests)
    BY DEF Sums, Recorded, Total, Units
  <1> HIDE DEF f, g
  <1>5. Total(f, Requests) + g[r] = Total(g, Requests) + f[r]
    BY <1>1, <1>2, OneRequestChanges
  <1> QED BY <1>3, <1>4, <1>5

LEMMA RunNumbers ==
    ASSUME RoutingIInv, RunsSpend, NEW w \in Workers
    PROVE  /\ run[w].tokens \in Nat /\ run[w].tokens <= RunCost /\ run[w].seen \in Nat
           /\ SpentBy(run[w]) \in Nat /\ HeldBy(run[w]) \in Nat
           /\ SpentBy(run[w]) <= HeldBy(run[w]) /\ HeldBy(run[w]) <= RunCost
  <1>1. run[w] \in RunRecords
    BY OpenRun
  <1>2. /\ run[w].tokens \in Nat /\ run[w].seen \in Nat /\ run[w].today \in BOOLEAN
    BY <1>1 DEF RunRecords
  <1>3. run[w].tokens <= RunCost
    BY DEF RunsSpend, Spends
  <1>4. run[w].pc \in {"idle", "budget"} => run[w].tokens = 0
    BY DEF RunsSpend, Spends
  <1> QED BY <1>2, <1>3, <1>4, CostType DEF SpentBy, HeldBy, PassedBudget

NumbersOK ==
    /\ \A o \in Orgs :
          /\ \A w \in Workers : /\ Spent(o)[w] \in Nat /\ Held(o)[w] \in Nat
                                /\ Held(o)[w] <= RunCost
          /\ Total(Spent(o), Workers) \in Nat /\ Total(Held(o), Workers) \in Nat
    /\ \A j \in Nat :
          /\ \A w \in Workers : HeldByAll(j)[w] \in Nat /\ HeldByAll(j)[w] <= RunCost
          /\ Total(HeldByAll(j), Workers) \in Nat

LEMMA NumbersType == RoutingIInv /\ RunsSpend => NumbersOK
  <1> SUFFICES ASSUME RoutingIInv, RunsSpend PROVE NumbersOK
    OBVIOUS
  <1>1. ASSUME NEW o \in Orgs
        PROVE  /\ \A w \in Workers : /\ Spent(o)[w] \in Nat /\ Held(o)[w] \in Nat
                                      /\ Held(o)[w] <= RunCost
               /\ Total(Spent(o), Workers) \in Nat /\ Total(Held(o), Workers) \in Nat
    <2>1. \A w \in Workers : /\ Spent(o)[w] \in Nat /\ Held(o)[w] \in Nat
                             /\ Held(o)[w] <= RunCost
      BY RunNumbers, CostType DEF Spent, Held
    <2> QED BY <2>1, UnitsFinite
  <1>2. ASSUME NEW j \in Nat
        PROVE  /\ \A w \in Workers : HeldByAll(j)[w] \in Nat /\ HeldByAll(j)[w] <= RunCost
               /\ Total(HeldByAll(j), Workers) \in Nat
    <2>1. \A w \in Workers : HeldByAll(j)[w] \in Nat /\ HeldByAll(j)[w] <= RunCost
      BY CostType DEF HeldByAll
    <2> QED BY <2>1, UnitsFinite
  <1> QED BY <1>1, <1>2 DEF NumbersOK

LEMMA NumbersTypeNext == (RoutingIInv /\ RunsSpend => NumbersOK)'
  BY NumbersType, PTL

LEMMA LiveType ==
    ASSUME RoutingIInv
    PROVE  /\ \A o \in Orgs : Live[o] = Sums[o]["live"] /\ Live[o] \in Nat
           /\ SumOver(Live) \in Nat
           /\ \A S \in SUBSET Orgs : Total(Live, S) \in Nat
  <1>1. \A o \in Orgs : Live[o] = Sums[o]["live"] /\ Live[o] \in Nat
    BY SumsType, LiveIsSums
  <1>2. \A S \in SUBSET Orgs : Total(Live, S) \in Nat
    BY <1>1, FS_Subset, UnitsFinite
  <1> QED BY <1>1, <1>2 DEF SumOver

LEMMA PurgedType ==
    ASSUME SpendType
    PROVE  /\ \A o \in Orgs : PurgedLive[o] = purged[o]["live"] /\ PurgedLive[o] \in Nat
           /\ SumOver(PurgedLive) \in Nat
  <1>1. \A o \in Orgs : PurgedLive[o] = purged[o]["live"] /\ PurgedLive[o] \in Nat
    BY DEF SpendType, PurgedLive
  <1> QED BY <1>1, UnitsFinite DEF SumOver

\* What no run holds cannot exceed what all of them would.
LEMMA HeldIsBounded ==
    ASSUME NEW f, \A w \in Workers : f[w] \in Nat /\ f[w] <= RunCost
    PROVE  Total(f, Workers) <= RunCost * Cardinality(Workers)
  <1> DEFINE g == [w \in Workers |-> RunCost]
  <1>1. Total(f, Workers) <= Total(g, Workers)
    BY CostType, TotalGrows
  <1>2. Total(g, Workers) = Cardinality(Workers) * RunCost
    <2>1. \A w \in Workers : g[w] = IF w \in Workers THEN RunCost ELSE 0
      OBVIOUS
    <2> HIDE DEF g
    <2> QED BY <2>1, CostType, TotalOfConstant
  <1>3. Cardinality(Workers) \in Nat
    BY FS_CardinalityType
  <1> QED BY <1>1, <1>2, <1>3, CostType

\* The request of an open run stays with its org.
RowsStay ==
    \A v \in Workers : run[v].pc # "idle" => rows'[run[v].req].org = rows[run[v].req].org

\* Runs a step leaves alone.
LEMMA OthersKeep ==
    ASSUME RoutingIInv, RunsSpend, RowsStay, NEW v \in Workers, run'[v] = run[v]
    PROVE  /\ run[v].pc # "idle" => Org(v)' = Org(v)
           /\ \A o \in Orgs : /\ Of(o, v)' <=> Of(o, v)
                              /\ Spent(o)'[v] = Spent(o)[v] /\ Held(o)'[v] = Held(o)[v]
  <1>1. run[v].pc # "idle" => Org(v)' = Org(v)
    BY DEF RowsStay, Org
  <1>2. run[v].provider = "live" => run[v].pc # "idle"
    BY DEF RunsSpend, Spends, At
  <1>3. ASSUME NEW o \in Orgs PROVE Of(o, v)' <=> Of(o, v)
    BY <1>1, <1>2 DEF Of
  <1>4. SpentBy(run[v])' = SpentBy(run[v]) /\ HeldBy(run[v])' = HeldBy(run[v])
    BY DEF SpentBy, HeldBy, PassedBudget
  <1> QED BY <1>1, <1>3, <1>4 DEF Spent, Held

\* A step of the run of w, which is about a request of q.
StepOf(w, q) ==
    /\ RowsStay
    /\ \A v \in Workers : v # w => run'[v] = run[v]
    /\ run[w].provider = "live" => Org(w) = q
    /\ run'[w].provider = "live" => Org(w)' = q
    /\ \A o \in Orgs :
          /\ o # q => /\ Sums'[o] = Sums[o]
                      /\ billed'[o] = billed[o] /\ lost'[o] = lost[o]
          /\ Sums'[o]["live"] >= Sums[o]["live"]
          /\ Sums'[o]["fake"] >= Sums[o]["fake"]
    /\ UNCHANGED purged

\* It leaves the account of q balanced.
Balanced(w, q) ==
    billed'[q] + Sums[q]["live"] + SpentBy(run[w]) + lost[q]
        = billed[q] + Sums'[q]["live"] + SpentBy(run'[w]) + lost'[q]

\* The part of w in the numbers of an org.
LEMMA OwnShare ==
    ASSUME NEW w \in Workers, NEW q, NEW o, StepOf(w, q)
    PROVE  /\ o = q => /\ Spent(o)[w] = SpentBy(run[w]) /\ Held(o)[w] = HeldBy(run[w])
                       /\ Spent(o)'[w] = SpentBy(run'[w]) /\ Held(o)'[w] = HeldBy(run'[w])
           /\ o # q => /\ Spent(o)[w] = 0 /\ Held(o)[w] = 0
                       /\ Spent(o)'[w] = 0 /\ Held(o)'[w] = 0
  BY DEF Spent, Held, Of, SpentBy, HeldBy, PassedBudget, StepOf

LEMMA AccountedStep ==
    ASSUME RoutingIInv, RoutingIInv', SpendIInv, RunsSpend', SpendType',
           NEW w \in Workers, NEW q \in Orgs, StepOf(w, q), Balanced(w, q)
    PROVE  Accounted'
  <1> SUFFICES ASSUME NEW o \in Orgs
               PROVE  billed'[o] = Sums'[o]["live"] + Total(Spent(o)', Workers) + lost'[o]
                                       + purged'[o]["live"]
    BY DEF Accounted, Total, Units
  <1> DEFINE b == Total(Spent(o), Workers)
             d == Total(Spent(o)', Workers)
             sw == Spent(o)[w]
             sx == Spent(o)'[w]
             gone == purged[o]["live"]
  <1>1. RunsSpend
    BY DEF SpendIInv
  <1>2. (\A v \in Workers : Spent(o)[v] \in Nat) /\ b \in Nat
    BY <1>1, NumbersType DEF NumbersOK
  <1>3. (\A v \in Workers : Spent(o)'[v] \in Nat) /\ d \in Nat
    <2>1. NumbersOK'
      BY NumbersTypeNext
    <2> QED BY <2>1 DEF NumbersOK, Total, Units
  <1>4. \A v \in Workers : v # w => Spent(o)'[v] = Spent(o)[v]
    BY <1>1, OthersKeep DEF StepOf
  <1>5. d + sw = b + sx
    BY <1>2, <1>3, <1>4, TotalChange
  <1>6. /\ billed[o] \in Nat /\ billed'[o] \in Nat /\ lost[o] \in Nat /\ lost'[o] \in Nat
        /\ gone \in Nat /\ purged'[o]["live"] = gone
    BY DEF SpendIInv, SpendType, StepOf
  <1>7. Sums[o]["live"] \in Nat /\ Sums'[o]["live"] \in Nat
    BY SumsType, SumsTypeNext
  <1>8. sw \in Nat /\ sx \in Nat
    BY <1>2, <1>3
  <1>9. billed'[o] + Sums[o]["live"] + sw + lost[o] = billed[o] + Sums'[o]["live"] + sx + lost'[o]
    <2>1. CASE o = q
      BY <2>1, OwnShare DEF Balanced
    <2>2. CASE o # q
      <3>1. sw = 0 /\ sx = 0
        BY <2>2, OwnShare
      <3>2. billed'[o] = billed[o] /\ lost'[o] = lost[o] /\ Sums'[o]["live"] = Sums[o]["live"]
        BY <2>2 DEF StepOf
      <3> HIDE DEF sw, sx
      <3> QED BY <3>1, <3>2, <1>6, <1>7
    <2> QED BY <2>1, <2>2
  <1>10. billed[o] = Sums[o]["live"] + b + lost[o] + gone
    BY DEF SpendIInv, Accounted
  <1> HIDE DEF b, d, sw, sx, gone
  <1>11. billed'[o] = Sums'[o]["live"] + d + lost'[o] + gone
    BY <1>2, <1>3, <1>5, <1>6, <1>7, <1>8, <1>9, <1>10
  <1> QED BY <1>6, <1>11 DEF d

LEMMA OrgCheckedStep ==
    ASSUME RoutingIInv, RoutingIInv', SpendIInv, RunsSpend',
           NEW w \in Workers, NEW q \in Orgs, StepOf(w, q),
           \/ Sums'[q]["live"] + HeldBy(run'[w]) <= Sums[q]["live"] + HeldBy(run[w])
           \/ Sums'[q]["live"] < DailyTokenBudget[q]
    PROVE  OrgChecked'
  <1> SUFFICES ASSUME NEW o \in Orgs
               PROVE  Sums'[o]["live"] + Total(Held(o)', Workers)
                          < DailyTokenBudget[o] + RunCost * Cardinality(Workers)
    BY DEF OrgChecked, Total, Units
  <1> DEFINE a == Total(Held(o), Workers)
             c == Total(Held(o)', Workers)
             all == RunCost * Cardinality(Workers)
  <1>1. RunsSpend
    BY DEF SpendIInv
  <1>2. /\ \A v \in Workers : Held(o)[v] \in Nat
        /\ a \in Nat
    BY <1>1, NumbersType DEF NumbersOK
  <1>3. /\ \A v \in Workers : Held(o)'[v] \in Nat /\ Held(o)'[v] <= RunCost
        /\ c \in Nat
    <2>1. NumbersOK'
      BY NumbersTypeNext
    <2> QED BY <2>1 DEF NumbersOK, Total, Units
  <1>4. \A v \in Workers : v # w => Held(o)'[v] = Held(o)[v]
    BY <1>1, OthersKeep DEF StepOf
  <1>5. c + Held(o)[w] = a + Held(o)'[w]
    BY <1>2, <1>3, <1>4, TotalChange
  <1>6. /\ Sums[o]["live"] \in Nat /\ Sums'[o]["live"] \in Nat
        /\ DailyTokenBudget[o] \in Nat /\ all \in Nat
    <2>1. Sums[o]["live"] \in Nat /\ Sums'[o]["live"] \in Nat
      BY SumsType, SumsTypeNext
    <2>2. all \in Nat
      BY FS_CardinalityType, CostType
    <2> HIDE DEF all
    <2> QED BY <2>1, <2>2
  <1>7. Sums[o]["live"] + a < DailyTokenBudget[o] + all
    BY DEF SpendIInv, OrgChecked
  <1>8. Held(o)[w] \in Nat /\ Held(o)'[w] \in Nat
    BY <1>2, <1>3
  <1>9. ASSUME Sums'[o]["live"] + Held(o)'[w] <= Sums[o]["live"] + Held(o)[w]
        PROVE  Sums'[o]["live"] + c < DailyTokenBudget[o] + all
    <2> HIDE DEF a, c, all
    <2> QED BY <1>2, <1>3, <1>5, <1>6, <1>7, <1>8, <1>9
  <1>10. ASSUME Sums'[o]["live"] < DailyTokenBudget[o]
         PROVE  Sums'[o]["live"] + c < DailyTokenBudget[o] + all
    <2>1. c <= all
      BY <1>3, HeldIsBounded
    <2> HIDE DEF a, c, all
    <2> QED BY <1>3, <1>6, <1>10, <2>1
  <1>11. CASE o # q
    <2>1. Held(o)[w] = 0 /\ Held(o)'[w] = 0
      BY <1>11, OwnShare
    <2>2. Sums'[o]["live"] = Sums[o]["live"]
      BY <1>11 DEF StepOf
    <2> QED BY <1>6, <1>9, <2>1, <2>2
  <1>12. CASE o = q
    <2>1. Held(o)[w] = HeldBy(run[w]) /\ Held(o)'[w] = HeldBy(run'[w])
      BY <1>12, OwnShare
    <2> QED BY <1>9, <1>10, <1>12, <2>1
  <1> QED BY <1>11, <1>12

\* A draft of q more, or none: what is recorded of others is unchanged.
LEMMA LiveGrows ==
    ASSUME RoutingIInv, RoutingIInv', NEW w, NEW q \in Orgs, StepOf(w, q),
           NEW S \in SUBSET Orgs
    PROVE  /\ Total(Live, S) \in Nat /\ Total(Live', S) \in Nat
           /\ Total(Live, S) <= Total(Live', S)
           /\ q \in S => Total(Live', S) + Live[q] = Total(Live, S) + Live'[q]
           /\ q \notin S => Total(Live', S) = Total(Live, S)
  <1>1. \A o \in Orgs : Live[o] \in Nat /\ Live'[o] \in Nat /\ Live[o] <= Live'[o]
    BY SumsType, SumsTypeNext, LiveIsSums, LiveIsSumsNext DEF StepOf
  <1>2. \A o \in Orgs : o # q => Live'[o] = Live[o]
    BY LiveIsSums, LiveIsSumsNext DEF StepOf
  <1>3. IsFiniteSet(S)
    BY FS_Subset
  <1>4. Total(Live, S) \in Nat /\ Total(Live', S) \in Nat
    BY <1>1, <1>3, UnitsFinite
  <1>5. Total(Live, S) <= Total(Live', S)
    BY <1>1, <1>3, TotalGrows
  <1>6. ASSUME q \in S PROVE Total(Live', S) + Live[q] = Total(Live, S) + Live'[q]
    <2>1. Total(Live, S) + Live'[q] = Total(Live', S) + Live[q]
      BY <1>1, <1>2, <1>3, <1>6, TotalChange
    <2> QED BY <2>1
  <1>7. ASSUME q \notin S PROVE Total(Live', S) = Total(Live, S)
    BY <1>2, <1>7, TotalSame
  <1> QED BY <1>4, <1>5, <1>6, <1>7

\* A run that is not cleared is not cleared by what others record.
LEMMA ClearedShrinks ==
    ASSUME RoutingIInv, RoutingIInv', SpendIInv, NEW w, NEW q \in Orgs, StepOf(w, q),
           NEW v \in Workers, run'[v] = run[v], NEW j \in Nat, Cleared(v, j)'
    PROVE  Cleared(v, j)
  <1>1. PassedBudget(run[v])
    BY DEF Cleared, PassedBudget
  <1>2. ASSUME run[v].pc = "ceiling"
        PROVE  run[v].seen + Total(Live, run[v].todo) < SpendCeiling + j
    <2>1. run[v].seen \in Nat /\ run[v].todo \in SUBSET Orgs
      BY OpenRun DEF RunRecords
    <2>2. run[v].seen + Total(Live', run[v].todo) < SpendCeiling + j
      BY <1>2 DEF Cleared, At, Total, Units
    <2> QED BY <2>1, <2>2, LiveGrows
  <1> QED BY <1>1, <1>2 DEF Cleared, At

\* What is held past the ceiling, when the part of w alone may grow.
LEMMA HeldGrowsBy ==
    ASSUME NEW f, NEW g, NEW w \in Workers,
           \A v \in Workers : f[v] \in Nat /\ g[v] \in Nat,
           \A v \in Workers : v # w => g[v] <= f[v]
    PROVE  Total(g, Workers) + f[w] <= Total(f, Workers) + g[w]
  <1> DEFINE h == [v \in Workers |-> IF v = w THEN g[w] ELSE f[v]]
  <1>1. h[w] = g[w] /\ \A v \in Workers : h[v] \in Nat /\ g[v] <= h[v]
    OBVIOUS
  <1>2. \A v \in Workers : v # w => f[v] = h[v]
    OBVIOUS
  <1> HIDE DEF h
  <1>3. Total(g, Workers) <= Total(h, Workers)
    BY <1>1, TotalGrows
  <1>4. Total(f, Workers) + h[w] = Total(h, Workers) + f[w]
    BY <1>1, <1>2, TotalChange
  <1>5. /\ Total(f, Workers) \in Nat /\ Total(g, Workers) \in Nat /\ Total(h, Workers) \in Nat
    BY <1>1, UnitsFinite
  <1> QED BY <1>1, <1>3, <1>4, <1>5

LEMMA AllCheckedStep ==
    ASSUME RoutingIInv, RoutingIInv', SpendIInv, RunsSpend',
           NEW w \in Workers, NEW q \in Orgs, StepOf(w, q),
           \A j \in Nat :
               \/ Sums'[q]["live"] + HeldByAll(j)'[w] <= Sums[q]["live"] + HeldByAll(j)[w]
               \/ SumOver(Live') < SpendCeiling + j
    PROVE  AllChecked'
  <1> SUFFICES ASSUME NEW j \in Nat
               PROVE  SumOver(Live') + Total(HeldByAll(j)', Workers)
                          < SpendCeiling + j + RunCost * Cardinality(Workers)
    BY DEF AllChecked, SumOver, Total, Units
  <1> DEFINE a == Total(HeldByAll(j), Workers)
             c == Total(HeldByAll(j)', Workers)
             x == HeldByAll(j)[w]
             y == HeldByAll(j)'[w]
             all == RunCost * Cardinality(Workers)
  <1>1. (\A v \in Workers : HeldByAll(j)[v] \in Nat) /\ a \in Nat
    BY NumbersType DEF NumbersOK, SpendIInv
  <1>2. /\ \A v \in Workers : HeldByAll(j)'[v] \in Nat /\ HeldByAll(j)'[v] <= RunCost
        /\ c \in Nat
    <2>1. NumbersOK'
      BY NumbersTypeNext
    <2> QED BY <2>1 DEF NumbersOK, Total, Units
  <1>3. \A v \in Workers : v # w => HeldByAll(j)'[v] <= HeldByAll(j)[v]
    <2> SUFFICES ASSUME NEW v \in Workers, v # w
                 PROVE  HeldByAll(j)'[v] <= HeldByAll(j)[v]
      OBVIOUS
    <2>1. run'[v] = run[v]
      BY DEF StepOf
    <2>2. Cleared(v, j)' => Cleared(v, j)
      BY <2>1, ClearedShrinks
    <2> QED BY <2>2, CostType DEF HeldByAll
  <1>4. c + x <= a + y
    BY <1>1, <1>2, <1>3, HeldGrowsBy
  <1>5. /\ SumOver(Live) \in Nat /\ SumOver(Live') \in Nat
        /\ SumOver(Live') + Live[q] = SumOver(Live) + Live'[q]
    BY LiveGrows DEF SumOver
  <1>6. /\ Live[q] = Sums[q]["live"] /\ Live'[q] = Sums'[q]["live"]
        /\ Live[q] \in Nat /\ Live'[q] \in Nat
    BY SumsType, SumsTypeNext, LiveIsSums, LiveIsSumsNext
  <1>7. SumOver(Live) + a < SpendCeiling + j + all /\ all \in Nat
    <2>1. SumOver(Live) + a < SpendCeiling + j + all
      BY DEF SpendIInv, AllChecked
    <2> QED BY <2>1, FS_CardinalityType, CostType
  <1>8. CASE Sums'[q]["live"] + y <= Sums[q]["live"] + x
    <2>1. x \in Nat /\ y \in Nat
      BY <1>1, <1>2
    <2>2. Live'[q] + y <= Live[q] + x
      BY <1>6, <1>8
    <2> HIDE DEF a, c, x, y, all
    <2>3. SumOver(Live') + c < SpendCeiling + j + all
      BY <1>1, <1>2, <1>4, <1>5, <1>6, <1>7, <2>1, <2>2
    <2> QED BY <2>3 DEF c, all
  <1>9. CASE SumOver(Live') < SpendCeiling + j
    <2>1. c <= all
      BY <1>2, HeldIsBounded
    <2> HIDE DEF a, c, x, y, all
    <2>2. SumOver(Live') + c < SpendCeiling + j + all
      BY <1>2, <1>5, <1>7, <1>9, <2>1
    <2> QED BY <2>2 DEF c, all
  <1> QED BY <1>8, <1>9

LEMMA SeenStep ==
    ASSUME RoutingIInv, RoutingIInv', SpendIInv, NEW w \in Workers, NEW q \in Orgs, StepOf(w, q),
           run'[w].pc = "ceiling" /\ run'[w].today =>
               run'[w].seen + Total(Live', run'[w].todo) <= SumOver(Live') + SumOver(PurgedLive)
    PROVE  SeenIsThere'
  <1>1. PurgedLive' = PurgedLive
    BY DEF PurgedLive, StepOf
  <1>2. ASSUME NEW v \in Workers, run'[v].pc = "ceiling", run'[v].today
        PROVE  run'[v].seen + Total(Live', run'[v].todo) <= SumOver(Live') + SumOver(PurgedLive)
    <2>1. CASE v = w
      BY <1>2, <2>1
    <2>2. CASE v # w
      <3>1. run'[v] = run[v]
        BY <2>2 DEF StepOf
      <3>2. run[v].seen \in Nat /\ run[v].todo \in SUBSET Orgs
        BY OpenRun DEF RunRecords
      <3>3. /\ run[v].seen + Total(Live, run[v].todo) <= SumOver(Live) + SumOver(PurgedLive)
            /\ SumOver(PurgedLive) \in Nat
        BY <1>2, <3>1, PurgedType DEF SpendIInv, SeenIsThere, At
      <3>4. /\ Total(Live, run[v].todo) \in Nat /\ Total(Live', run[v].todo) \in Nat
            /\ SumOver(Live) \in Nat /\ SumOver(Live') \in Nat
            /\ SumOver(Live') + Live[q] = SumOver(Live) + Live'[q]
            /\ Live[q] \in Nat /\ Live'[q] \in Nat /\ Live[q] <= Live'[q]
            /\ \/ Total(Live', run[v].todo) + Live[q] = Total(Live, run[v].todo) + Live'[q]
               \/ Total(Live', run[v].todo) = Total(Live, run[v].todo)
        <4>1. Live[q] \in Nat /\ Live'[q] \in Nat /\ Live[q] <= Live'[q]
          BY SumsType, SumsTypeNext, LiveIsSums, LiveIsSumsNext DEF StepOf
        <4> QED BY <3>2, <4>1, LiveGrows DEF SumOver
      <3>5. run[v].seen + Total(Live', run[v].todo) <= SumOver(Live') + SumOver(PurgedLive)
        BY <3>2, <3>3, <3>4
      <3> QED BY <3>1, <3>5
    <2> QED BY <2>1, <2>2
  <1> QED BY <1>1, <1>2 DEF SeenIsThere, At, SumOver, Total, Units

\* What an org, and all of them, have used today, purged since or not.
UsedUp(o) ==
    \/ Sums[o]["live"] + Sums[o]["fake"] + purged[o]["live"] + purged[o]["fake"]
           >= DailyTokenBudget[o]
    \/ SumOver(Live) + SumOver(PurgedLive) >= SpendCeiling

LEMMA UsedUpStays ==
    ASSUME RoutingIInv, RoutingIInv', SpendIInv, NEW w, NEW q \in Orgs, StepOf(w, q),
           NEW o \in Orgs, UsedUp(o)
    PROVE  \/ Sums'[o]["live"] + Sums'[o]["fake"] + purged'[o]["live"] + purged'[o]["fake"]
                  >= DailyTokenBudget[o]
           \/ SumOver(Live') + SumOver(PurgedLive') >= SpendCeiling
  <1>1. /\ Sums[o]["live"] \in Nat /\ Sums'[o]["live"] \in Nat
        /\ Sums[o]["fake"] \in Nat /\ Sums'[o]["fake"] \in Nat
        /\ Sums'[o]["live"] >= Sums[o]["live"] /\ Sums'[o]["fake"] >= Sums[o]["fake"]
        /\ DailyTokenBudget[o] \in Nat
    BY SumsType, SumsTypeNext DEF StepOf
  <1>2. SumOver(Live) \in Nat /\ SumOver(Live') \in Nat /\ SumOver(Live) <= SumOver(Live')
    BY LiveGrows DEF SumOver
  <1>3. /\ purged' = purged /\ purged[o]["live"] \in Nat /\ purged[o]["fake"] \in Nat
        /\ SumOver(PurgedLive) \in Nat
    BY PurgedType DEF StepOf, SpendIInv, SpendType
  <1>4. PurgedLive' = PurgedLive
    BY <1>3 DEF PurgedLive
  <1> QED BY <1>1, <1>2, <1>3, <1>4 DEF UsedUp

LEMMA DowngradeStep ==
    ASSUME RoutingIInv, RoutingIInv', SpendIInv, RunsSpend',
           NEW w \in Workers, NEW q \in Orgs, StepOf(w, q),
           run'[w].provider = "fake" /\ LLM_PROVIDER # "fake" /\ run'[w].today =>
               /\ Org(w)' = Org(w) /\ Org(w) \in Orgs
               /\ \/ run[w].provider = "fake" /\ run[w].today
                  \/ UsedUp(Org(w))
    PROVE  OwnDowngrades'
  <1>1. ASSUME NEW v \in Workers, run'[v].provider = "fake", LLM_PROVIDER # "fake", run'[v].today
        PROVE  Org(v)' = Org(v) /\ Org(v) \in Orgs /\ UsedUp(Org(v))
    <2>1. CASE /\ run[v].provider = "fake" /\ run[v].today
               /\ Org(v)' = Org(v) /\ Org(v) \in Orgs
      BY <1>1, <2>1 DEF SpendIInv, OwnDowngrades, UsedUp
    <2>2. CASE v # w
      <3>1. run'[v] = run[v]
        BY <2>2 DEF StepOf
      <3>2. run[v].pc # "idle"
        BY <1>1, <3>1 DEF SpendIInv, RunsSpend, Spends, At
      <3>3. Org(v)' = Org(v) /\ Org(v) \in Orgs
        BY <3>1, <3>2, OthersKeep, OpenRun DEF SpendIInv, StepOf, Org
      <3> QED BY <1>1, <2>1, <3>1, <3>3
    <2>3. CASE v = w
      BY <1>1, <2>1, <2>3
    <2> QED BY <2>2, <2>3
  <1> SUFFICES ASSUME NEW v \in Workers, run'[v].provider = "fake", LLM_PROVIDER # "fake",
                      run'[v].today
               PROVE  /\ Org(v)' \in Orgs
                      /\ \/ Sums'[Org(v)']["live"] + Sums'[Org(v)']["fake"]
                            + purged'[Org(v)']["live"] + purged'[Org(v)']["fake"]
                                >= DailyTokenBudget[Org(v)']
                         \/ SumOver(Live') + SumOver(PurgedLive') >= SpendCeiling
    BY DEF OwnDowngrades, SumOver, Total, Units, Org
  <1>2. PICK o \in Orgs : o = Org(v) /\ UsedUp(o)
    BY <1>1
  <1>3. Org(v)' = o
    BY <1>1, <1>2
  <1> QED BY <1>2, <1>3, UsedUpStays

LEMMA RunsSpendStep ==
    ASSUME RunsSpend, NEW w \in Workers, NEW q, StepOf(w, q), Spends(run'[w])
    PROVE  RunsSpend'
  <1>1. ASSUME NEW v \in Workers PROVE Spends(run'[v])
    BY DEF StepOf, RunsSpend
  <1> QED BY <1>1 DEF RunsSpend, Spends

\* A step of an open run that changes the run alone: it spends nothing, and a
\* run that it lets pass a check has passed it.
LEMMA ChecksKeep ==
    ASSUME RoutingIInv, RoutingIInv', SpendIInv, NEW w \in Workers, run[w].pc # "idle",
           UNCHANGED <<rows, recorded, billed, lost, purged>>,
           NEW n, run' = [run EXCEPT ![w] = n],
           n.req = run[w].req, n.today = run[w].today, n.tokens = run[w].tokens,
           n.pc # "idle", Spends(n), run[w].tokens > 0 => n.provider = run[w].provider,
           n.provider = "live" => run[w].provider = "live",
           HeldBy(n) > HeldBy(run[w]) => Sums[Org(w)]["live"] < DailyTokenBudget[Org(w)],
           \A j \in Nat : Cleared(w, j)' => Cleared(w, j) \/ SumOver(Live) < SpendCeiling + j,
           n.pc = "ceiling" /\ n.today =>
               n.seen + Total(Live, n.todo) <= SumOver(Live) + SumOver(PurgedLive),
           n.provider = "fake" =>
               run[w].provider = "fake" \/ ~n.today \/ UsedUp(Org(w))
    PROVE  SpendIInv'
  <1> DEFINE q == Org(w)
  <1>1. /\ run'[w] = n /\ \A v \in Workers : v # w => run'[v] = run[v]
    BY OpenRun
  <1>2. q \in Orgs
    BY OpenRun DEF Org
  <1>3. Org(w)' = q
    BY <1>1 DEF Org
  <1> HIDE DEF q
  <1>4. Sums' = Sums /\ Live' = Live
    BY SumsStay
  <1>5. /\ Sums[q]["live"] \in Nat /\ \A o \in Orgs : /\ Sums[o]["live"] \in Nat
                                                  /\ Sums[o]["fake"] \in Nat
    BY <1>2, SumsType
  <1>6. StepOf(w, q)
    <2>1. RowsStay
      BY DEF RowsStay
    <2> QED BY <1>1, <1>3, <1>4, <1>5, <2>1 DEF StepOf, q
  <1>7. RunsSpend'
    BY <1>1, <1>6, RunsSpendStep DEF SpendIInv
  <1>8. SpendType'
    BY DEF SpendIInv, SpendType
  <1>9. Accounted'
    <2>1. SpentBy(n) = SpentBy(run[w])
      <3>1. run[w].tokens \in Nat
        BY OpenRun DEF RunRecords
      <3> QED BY <3>1 DEF SpentBy
    <2>2. Balanced(w, q)
      BY <1>1, <1>4, <2>1 DEF Balanced
    <2> QED BY <1>2, <1>6, <1>7, <1>8, <2>2, AccountedStep
  <1>10. OrgChecked'
    <2>1. HeldBy(n) \in Nat /\ HeldBy(run[w]) \in Nat
      BY CostType DEF HeldBy
    <2>2. \/ Sums'[q]["live"] + HeldBy(run'[w]) <= Sums[q]["live"] + HeldBy(run[w])
          \/ Sums'[q]["live"] < DailyTokenBudget[q]
      BY <1>1, <1>4, <1>5, <2>1 DEF q
    <2> QED BY <1>2, <1>6, <1>7, <2>2, OrgCheckedStep
  <1>11. AllChecked'
    <2>1. ASSUME NEW j \in Nat
          PROVE  \/ Sums'[q]["live"] + HeldByAll(j)'[w] <= Sums[q]["live"] + HeldByAll(j)[w]
                 \/ SumOver(Live') < SpendCeiling + j
      <3>1. CASE SumOver(Live) < SpendCeiling + j
        BY <1>4, <3>1
      <3>2. CASE Cleared(w, j)' => Cleared(w, j)
        BY <1>4, <1>5, <3>2, CostType DEF HeldByAll
      <3> QED BY <3>1, <3>2
    <2> QED BY <1>2, <1>6, <1>7, <2>1, AllCheckedStep
  <1>12. SeenIsThere'
    BY <1>1, <1>2, <1>4, <1>6, SeenStep
  <1>13. OwnDowngrades'
    <2>1. run[w].today \in BOOLEAN
      BY OpenRun DEF RunRecords
    <2>2. run'[w].provider = "fake" /\ LLM_PROVIDER # "fake" /\ run'[w].today =>
               /\ Org(w)' = Org(w) /\ Org(w) \in Orgs
               /\ \/ run[w].provider = "fake" /\ run[w].today
                  \/ UsedUp(Org(w))
      BY <1>1, <1>2, <1>3, <2>1 DEF q
    <2> QED BY <1>2, <1>6, <1>7, <2>2, DowngradeStep
  <1> QED BY <1>7, <1>8, <1>9, <1>10, <1>11, <1>12, <1>13 DEF SpendIInv

LEMMA BudgetSpends ==
    ASSUME RoutingIInv, RoutingIInv', SpendIInv, NEW w \in Workers, org_budget_exceeded(w)
    PROVE  SpendIInv'
  <1> DEFINE spent == over(get_org_tokens_today(Org(w)), DailyTokenBudget[Org(w)])
             n == IF spent
                  THEN [run[w] EXCEPT !.pc = "classify", !.provider = "fake"]
                  ELSE [run[w] EXCEPT !.pc = "ceiling", !.todo = Orgs]
  <1>1. /\ run' = [run EXCEPT ![w] = n] /\ run[w].pc = "budget"
        /\ UNCHANGED <<rows, recorded, billed, lost, purged>>
    BY DEF org_budget_exceeded, At, spendHistory
  <1>2. run[w] \in RunRecords
    BY OpenRun
  <1>3. /\ run[w].provider = "live" /\ run[w].tokens = 0 /\ run[w].seen = 0
    BY <1>1 DEF SpendIInv, RunsSpend, Spends
  <1>4. Org(w) \in Orgs
    BY <1>1, OpenRun DEF Org
  <1>5. /\ Sums[Org(w)]["live"] \in Nat /\ Sums[Org(w)]["fake"] \in Nat
        /\ DailyTokenBudget[Org(w)] \in Nat
    BY <1>4, SumsType
  <1>6. CASE spent
    <2>1. n = [run[w] EXCEPT !.pc = "classify", !.provider = "fake"]
      BY <1>6
    <2> HIDE DEF n
    <2>2. /\ n.req = run[w].req /\ n.today = run[w].today /\ n.tokens = run[w].tokens
          /\ n.pc = "classify" /\ n.provider = "fake"
      BY <1>2, <2>1 DEF RunRecords
    <2>3. Spends(n) /\ HeldBy(n) = 0
      BY <1>3, <2>2, CostType DEF Spends, HeldBy, PassedBudget
    <2>4. HeldBy(run[w]) = 0
      BY <1>1 DEF HeldBy, PassedBudget
    <2>5. \A j \in Nat : ~Cleared(w, j)'
      <3>1. run'[w] = n
        BY <1>1, OpenRun
      <3> QED BY <3>1, <2>2 DEF Cleared, PassedBudget
    <2>6. UsedUp(Org(w))
      <3>1. Sums[Org(w)]["live"] + Sums[Org(w)]["fake"] >= DailyTokenBudget[Org(w)]
        BY <1>4, <1>5, <1>6 DEF over, get_org_tokens_today, Sums
      <3>2. purged[Org(w)]["live"] \in Nat /\ purged[Org(w)]["fake"] \in Nat
        BY <1>4 DEF SpendIInv, SpendType
      <3> QED BY <1>5, <3>1, <3>2 DEF UsedUp
    <2>7. /\ run[w].pc # "idle" /\ (run[w].tokens > 0 => n.provider = run[w].provider)
          /\ (HeldBy(n) > HeldBy(run[w]) => Sums[Org(w)]["live"] < DailyTokenBudget[Org(w)])
          /\ n.pc # "idle" /\ (n.provider = "live" => run[w].provider = "live")
          /\ (n.pc = "ceiling" /\ n.today =>
                  n.seen + Total(Live, n.todo) <= SumOver(Live) + SumOver(PurgedLive))
      BY <1>1, <1>3, <2>2, <2>3, <2>4
    <2> HIDE DEF spent
    <2> QED BY <1>1, <2>2, <2>3, <2>5, <2>6, <2>7, ChecksKeep
  <1>7. CASE ~spent
    <2>1. n = [run[w] EXCEPT !.pc = "ceiling", !.todo = Orgs]
      BY <1>7
    <2> HIDE DEF n
    <2>2. /\ n.req = run[w].req /\ n.today = run[w].today /\ n.tokens = run[w].tokens
          /\ n.pc = "ceiling" /\ n.provider = "live" /\ n.seen = 0 /\ n.todo = Orgs
      BY <1>2, <1>3, <2>1 DEF RunRecords
    <2>3. Spends(n)
      BY <1>3, <2>2, CostType DEF Spends
    <2>4. Sums[Org(w)]["live"] < DailyTokenBudget[Org(w)]
      BY <1>4, <1>5, <1>7 DEF over, get_org_tokens_today, Sums
    <2>5. /\ n.seen + Total(Live, n.todo) = SumOver(Live) /\ SumOver(Live) \in Nat
          /\ SumOver(PurgedLive) \in Nat
      BY <2>2, LiveType, PurgedType DEF SumOver, SpendIInv
    <2>6. ASSUME NEW j \in Nat PROVE Cleared(w, j)' => SumOver(Live) < SpendCeiling + j
      <3>1. run'[w] = n
        BY <1>1, OpenRun
      <3>2. Total(Live', n.todo) = Total(Live, n.todo)
        BY <1>1, SumsStay
      <3>3. Cleared(w, j)' => n.seen + Total(Live', n.todo) < SpendCeiling + j
        BY <3>1, <2>2 DEF Cleared, At, Total, Units
      <3> QED BY <2>5, <3>2, <3>3
    <2>7. /\ run[w].pc # "idle" /\ (run[w].tokens > 0 => n.provider = run[w].provider)
          /\ n.pc # "idle" /\ (n.provider = "live" => run[w].provider = "live")
          /\ (n.pc = "ceiling" /\ n.today =>
                  n.seen + Total(Live, n.todo) <= SumOver(Live) + SumOver(PurgedLive))
          /\ n.provider # "fake"
      BY <1>1, <1>3, <2>2, <2>5
    <2> HIDE DEF spent
    <2> QED BY <1>1, <2>2, <2>3, <2>4, <2>6, <2>7, ChecksKeep
  <1> HIDE DEF n, spent
  <1> QED BY <1>6, <1>7

LEMMA CeilingSpends ==
    ASSUME RoutingIInv, RoutingIInv', SpendIInv, NEW w \in Workers, NEW o \in Orgs,
           global_ceiling_exceeded(w, o)
    PROVE  SpendIInv'
  <1> DEFINE todo == run[w].todo \ {o}
             seen == run[w].seen + Recorded(o, "live")
             kept == IF todo = {} THEN 0 ELSE seen
             step == IF todo = {} THEN "classify" ELSE "ceiling"
             p == IF todo = {} /\ over(seen, SpendCeiling) THEN "fake" ELSE run[w].provider
             n == [run[w] EXCEPT !.todo = todo, !.seen = kept, !.pc = step, !.provider = p]
  <1>1. /\ run' = [run EXCEPT ![w] = n] /\ run[w].pc = "ceiling" /\ o \in run[w].todo
        /\ UNCHANGED <<rows, recorded, billed, lost, purged>>
    BY DEF global_ceiling_exceeded, At, spendHistory
  <1>2. run[w] \in RunRecords
    BY OpenRun
  <1>3. /\ run[w].provider = "live" /\ run[w].tokens = 0
        /\ run[w].seen \in Nat /\ run[w].todo \in SUBSET Orgs
    BY <1>1, <1>2 DEF SpendIInv, RunsSpend, Spends, RunRecords
  <1>4. /\ Total(Live, run[w].todo) = Total(Live, todo) + Recorded(o, "live")
        /\ Total(Live, todo) \in Nat /\ Recorded(o, "live") \in Nat
    <2>1. IsFiniteSet(run[w].todo)
      BY <1>3, FS_Subset
    <2>2. \A x \in run[w].todo : Live[x] \in Nat
      BY <1>3, LiveType
    <2>3. /\ Total(Live, run[w].todo) = Total(Live, run[w].todo \ {o}) + Live[o]
          /\ Total(Live, run[w].todo \ {o}) \in Nat
      BY <1>1, <2>1, <2>2, TotalOfOne
    <2> QED BY <2>3, RecordedType DEF Live
  <1>5. todo = {} => Total(Live, todo) = 0
    BY UnitsEmpty
  <1>6. seen \in Nat /\ seen + Total(Live, todo) = run[w].seen + Total(Live, run[w].todo)
    BY <1>3, <1>4
  <1>7. /\ n.req = run[w].req /\ n.today = run[w].today /\ n.tokens = run[w].tokens
        /\ n.pc = step /\ n.provider = p /\ n.seen = kept /\ n.todo = todo
    BY <1>2 DEF RunRecords
  <1>8. n.today \in BOOLEAN
    BY <1>2, <1>7 DEF RunRecords
  <1>9. /\ p \in {"live", "fake"} /\ step \in {"classify", "ceiling"}
        /\ step = "ceiling" => p = "live" /\ kept = seen
        /\ step = "classify" => todo = {} /\ p = IF over(seen, SpendCeiling)
                                                 THEN "fake" ELSE "live"
    BY <1>3
  <1>10. run'[w] = n
    BY <1>1, OpenRun
  <1>11. Live' = Live
    BY <1>1, SumsStay
  <1>12. SumOver(Live) \in Nat /\ SumOver(PurgedLive) \in Nat
    BY LiveType, PurgedType DEF SpendIInv
  <1> HIDE DEF n, p, step, kept, seen, todo
  <1>13. Spends(n)
    BY <1>3, <1>7, <1>9, CostType DEF Spends
  <1>14. HeldBy(n) <= HeldBy(run[w]) /\ HeldBy(n) \in Nat /\ HeldBy(run[w]) \in Nat
    BY <1>1, <1>3, <1>7, CostType DEF HeldBy, PassedBudget
  <1>15. ASSUME NEW j \in Nat PROVE Cleared(w, j)' => Cleared(w, j)
    <2> SUFFICES ASSUME Cleared(w, j)' PROVE Cleared(w, j)
      OBVIOUS
    <2>1. n.provider = "live" /\ n.today
      BY <1>10 DEF Cleared, PassedBudget
    <2>2. PassedBudget(run[w])
      BY <1>1, <1>3, <1>7, <2>1 DEF PassedBudget
    <2>3. seen + Total(Live, todo) < SpendCeiling + j
      <3>1. CASE step = "ceiling"
        <4>1. n.seen + Total(Live', n.todo) < SpendCeiling + j
          BY <1>7, <1>10, <3>1 DEF Cleared, At, Total, Units
        <4> QED BY <1>7, <1>9, <1>11, <3>1, <4>1
      <3>2. CASE step = "classify"
        <4>1. ~over(seen, SpendCeiling)
          BY <1>7, <1>9, <2>1, <3>2
        <4>2. Total(Live, todo) = 0
          BY <1>5, <1>9, <3>2
        <4> QED BY <1>6, <4>1, <4>2 DEF over
      <3> QED BY <1>9, <3>1, <3>2
    <2> QED BY <1>6, <2>2, <2>3 DEF Cleared
  <1>16. n.pc = "ceiling" /\ n.today =>
             n.seen + Total(Live, n.todo) <= SumOver(Live) + SumOver(PurgedLive)
    <2> SUFFICES ASSUME n.pc = "ceiling", n.today
                 PROVE  n.seen + Total(Live, n.todo) <= SumOver(Live) + SumOver(PurgedLive)
      OBVIOUS
    <2>1. run[w].seen + Total(Live, run[w].todo) <= SumOver(Live) + SumOver(PurgedLive)
      BY <1>1, <1>7 DEF SpendIInv, SeenIsThere, At
    <2> QED BY <1>6, <1>7, <1>9, <2>1
  <1>17. n.provider = "fake" => run[w].provider = "fake" \/ ~n.today \/ UsedUp(Org(w))
    <2> SUFFICES ASSUME n.provider = "fake", n.today
                 PROVE  SumOver(Live) + SumOver(PurgedLive) >= SpendCeiling
      BY <1>8 DEF UsedUp
    <2>1. run[w].seen + Total(Live, run[w].todo) <= SumOver(Live) + SumOver(PurgedLive)
      BY <1>1, <1>7 DEF SpendIInv, SeenIsThere, At
    <2>2. todo = {} /\ over(seen, SpendCeiling)
      BY <1>7, <1>9
    <2>3. seen <= SumOver(Live) + SumOver(PurgedLive) /\ seen >= SpendCeiling
      BY <1>5, <1>6, <2>1, <2>2 DEF over
    <2> QED BY <1>6, <1>12, <2>3
  <1>18. n.pc # "idle" /\ (n.provider = "live" => run[w].provider = "live")
    BY <1>3, <1>7, <1>9
  <1>19. /\ run[w].pc # "idle" /\ (run[w].tokens > 0 => n.provider = run[w].provider)
         /\ (HeldBy(n) > HeldBy(run[w]) => Sums[Org(w)]["live"] < DailyTokenBudget[Org(w)])
    BY <1>1, <1>3, <1>14
  <1> QED BY <1>1, <1>7, <1>13, <1>15, <1>16, <1>17, <1>18, <1>19, ChecksKeep

\* A step of w after which its run owes no check.
LEMMA SpendStep ==
    ASSUME RoutingIInv, RoutingIInv', SpendIInv, SpendType',
           NEW w \in Workers, NEW q \in Orgs, StepOf(w, q), Spends(run'[w]), Balanced(w, q),
           run'[w].pc # "ceiling",
           Sums'[q]["live"] + HeldBy(run'[w]) <= Sums[q]["live"] + HeldBy(run[w]),
           run[w].pc # "ceiling" \/ (HeldBy(run'[w]) = 0 /\ UNCHANGED Sums),
           run'[w].provider = "fake" /\ LLM_PROVIDER # "fake" =>
               /\ run[w].provider = "fake" /\ run'[w].today = run[w].today
               /\ Org(w)' = Org(w) /\ Org(w) \in Orgs
    PROVE  SpendIInv'
  <1>1. RunsSpend'
    BY RunsSpendStep DEF SpendIInv
  <1>2. Accounted'
    BY <1>1, AccountedStep
  <1>3. OrgChecked'
    BY <1>1, OrgCheckedStep
  <1>4. AllChecked'
    <2>1. /\ HeldBy(run[w]) \in Nat /\ HeldBy(run'[w]) \in Nat
          /\ Sums[q]["live"] \in Nat /\ Sums'[q]["live"] \in Nat
      BY CostType, SumsType, SumsTypeNext DEF HeldBy
    <2>2. ASSUME NEW j \in Nat
          PROVE  Sums'[q]["live"] + HeldByAll(j)'[w] <= Sums[q]["live"] + HeldByAll(j)[w]
      <3>1. HeldByAll(j)'[w] = HeldBy(run'[w])
        BY DEF HeldByAll, Cleared, HeldBy, At
      <3>2. /\ HeldByAll(j)[w] \in Nat
            /\ run[w].pc # "ceiling" => HeldByAll(j)[w] = HeldBy(run[w])
        BY CostType DEF HeldByAll, Cleared, HeldBy, At
      <3>3. CASE run[w].pc # "ceiling"
        BY <3>1, <3>2, <3>3
      <3>4. CASE HeldBy(run'[w]) = 0 /\ UNCHANGED Sums
        BY <2>1, <3>1, <3>2, <3>4
      <3> QED BY <3>3, <3>4
    <2> QED BY <1>1, <2>2, AllCheckedStep
  <1>5. SeenIsThere'
    BY SeenStep
  <1>6. OwnDowngrades'
    BY <1>1, DowngradeStep
  <1> QED BY <1>1, <1>2, <1>3, <1>4, <1>5, <1>6 DEF SpendIInv

LEMMA BeginSpends ==
    ASSUME RoutingIInv, RoutingIInv', SpendIInv, NEW w \in Workers, NEW r \in Requests, begin(w, r)
    PROVE  SpendIInv'
  <1> DEFINE n == [IdleRun EXCEPT
                      !.pc = IF LLM_PROVIDER = "fake" THEN "classify" ELSE "budget",
                      !.provider = LLM_PROVIDER,
                      !.req = r,
                      !.settings = settings[rows[r].org]]
             q == rows[r].org
  <1>1. /\ q \in Orgs /\ run[w].pc = "idle"
        /\ run' = [run EXCEPT ![w] = n] /\ UNCHANGED <<rows, recorded, billed, lost, purged>>
    BY DEF begin, RoutingIInv, SubmittedHasOrg, At, spendHistory
  <1>2. /\ n.pc = (IF LLM_PROVIDER = "fake" THEN "classify" ELSE "budget") /\ n.req = r
        /\ n.provider = LLM_PROVIDER /\ n.tokens = 0 /\ n.seen = 0 /\ n.today = TRUE
    BY DEF IdleRun
  <1> HIDE DEF n, q
  <1>3. /\ run'[w] = n /\ \A v \in Workers : v # w => run'[v] = run[v]
    BY <1>1, OpenRun
  <1>4. run[w].provider = "none"
    BY <1>1 DEF SpendIInv, RunsSpend, Spends
  <1>5. Sums' = Sums /\ Sums[q]["live"] \in Nat
    BY <1>1, SumsStay, SumsType
  <1>6. StepOf(w, q)
    <2>1. RowsStay
      BY <1>1 DEF RowsStay
    <2>2. \A o \in Orgs : Sums[o]["live"] \in Nat /\ Sums[o]["fake"] \in Nat
      BY SumsType
    <2>3. Org(w)' = q
      BY <1>1, <1>2, <1>3 DEF Org, q
    <2> QED BY <1>1, <1>3, <1>4, <1>5, <2>1, <2>2, <2>3 DEF StepOf
  <1>7. Spends(n)
    BY <1>2, CostType DEF Spends
  <1>8. /\ HeldBy(n) = 0 /\ SpentBy(n) = 0 /\ HeldBy(run[w]) = 0 /\ SpentBy(run[w]) = 0
    BY <1>2, <1>4 DEF HeldBy, PassedBudget, SpentBy
  <1>9. SpendType'
    BY <1>1 DEF SpendIInv, SpendType
  <1>10. Balanced(w, q)
    BY <1>1, <1>3, <1>5, <1>8 DEF Balanced
  <1>11. Sums'[q]["live"] + HeldBy(run'[w]) <= Sums[q]["live"] + HeldBy(run[w])
    BY <1>3, <1>5, <1>8
  <1>12. /\ run'[w].pc # "ceiling" /\ run[w].pc # "ceiling"
         /\ ~(run'[w].provider = "fake" /\ LLM_PROVIDER # "fake")
    BY <1>1, <1>2, <1>3
  <1> QED BY <1>1, <1>3, <1>6, <1>7, <1>9, <1>10, <1>11, <1>12, SpendStep

\* One completion more.
LEMMA ChargeSpends ==
    ASSUME RoutingIInv, RoutingIInv', SpendIInv, NEW w \in Workers,
           run[w].pc \in {"classify", "draft"}, UNCHANGED <<rows, recorded, purged>>, Charge(w),
           NEW n, run' = [run EXCEPT ![w] = n], Spends(n), n.pc \in {"retrieve", "draft", "write"},
           n.req = run[w].req, n.today = run[w].today, n.provider = run[w].provider,
           n.tokens = run[w].tokens + 1
    PROVE  SpendIInv'
  <1> DEFINE q == Org(w)
             k == IF run[w].provider = "live" THEN 1 ELSE 0
             l == IF run[w].today THEN 0 ELSE k
  <1>1. /\ run'[w] = n /\ \A v \in Workers : v # w => run'[v] = run[v]
    BY OpenRun
  <1>2. q \in Orgs
    BY OpenRun DEF Org
  <1>3. Org(w)' = q
    BY <1>1 DEF Org
  <1>4. run[w].tokens \in Nat /\ run[w].today \in BOOLEAN
    BY OpenRun DEF RunRecords
  <1>5. /\ billed \in [Orgs -> Nat] /\ lost \in [Orgs -> Nat]
        /\ billed' = [billed EXCEPT ![q] = @ + k] /\ lost' = [lost EXCEPT ![q] = @ + l]
    BY DEF Charge, Charged, SpendIInv, SpendType
  <1>6. k \in Nat /\ l \in Nat
    OBVIOUS
  <1>7. SpentBy(n) + l = SpentBy(run[w]) + k /\ SpentBy(n) \in Nat /\ SpentBy(run[w]) \in Nat
    BY <1>4 DEF SpentBy
  <1> HIDE DEF q, k, l
  <1>8. /\ billed' \in [Orgs -> Nat] /\ billed'[q] = billed[q] + k
        /\ lost' \in [Orgs -> Nat] /\ lost'[q] = lost[q] + l
        /\ \A o \in Orgs : o # q => billed'[o] = billed[o] /\ lost'[o] = lost[o]
    BY <1>2, <1>5, <1>6
  <1>9. Sums' = Sums /\ \A o \in Orgs : Sums[o]["live"] \in Nat /\ Sums[o]["fake"] \in Nat
    BY SumsStay, SumsType
  <1>10. StepOf(w, q)
    <2>1. RowsStay
      BY DEF RowsStay
    <2> QED BY <1>1, <1>3, <1>8, <1>9, <2>1 DEF StepOf, q
  <1>11. SpendType'
    BY <1>8 DEF SpendIInv, SpendType
  <1>12. Balanced(w, q)
    <2>1. /\ billed[q] \in Nat /\ lost[q] \in Nat /\ Sums[q]["live"] \in Nat
      BY <1>2, <1>5, <1>9
    <2> QED BY <1>1, <1>6, <1>7, <1>8, <1>9, <2>1 DEF Balanced
  <1>13. HeldBy(n) = HeldBy(run[w]) /\ HeldBy(n) \in Nat
    BY CostType DEF HeldBy, PassedBudget
  <1>14. Sums'[q]["live"] + HeldBy(run'[w]) <= Sums[q]["live"] + HeldBy(run[w])
    BY <1>1, <1>2, <1>9, <1>13
  <1>15. run'[w].pc # "ceiling" /\ run[w].pc # "ceiling"
    BY <1>1
  <1>16. run'[w].provider = "fake" =>
             /\ run[w].provider = "fake" /\ run'[w].today = run[w].today
             /\ Org(w)' = Org(w) /\ Org(w) \in Orgs
    BY <1>1, <1>2, <1>3 DEF q
  <1> QED BY <1>1, <1>2, <1>10, <1>11, <1>12, <1>14, <1>15, <1>16, SpendStep

LEMMA ClassifySpends ==
    ASSUME RoutingIInv, RoutingIInv', SpendIInv, NEW w \in Workers, classify(w)
    PROVE  SpendIInv'
  <1>1. PICK c \in CategoriesFor(w), u \in {"normal", "high"} :
            run' = [run EXCEPT ![w] = [run[w] EXCEPT !.pc = "retrieve", !.tokens = 1,
                                                     !.category = c, !.urgency = u]]
    BY OpenRun DEF classify
  <1> DEFINE n == [run[w] EXCEPT !.pc = "retrieve", !.tokens = 1, !.category = c, !.urgency = u]
  <1>2. run' = [run EXCEPT ![w] = n]
    BY <1>1
  <1>3. /\ run[w].pc = "classify" /\ UNCHANGED <<rows, recorded, purged>> /\ Charge(w)
    BY DEF classify, At
  <1>4. /\ n.pc = "retrieve" /\ n.tokens = 1 /\ n.req = run[w].req /\ n.today = run[w].today
        /\ n.provider = run[w].provider /\ n.seen = run[w].seen
    BY OpenRun DEF RunRecords
  <1>5. /\ run[w].tokens = 0 /\ n.tokens = run[w].tokens + 1
        /\ run[w].provider \in {"live", "fake"}
    BY <1>3, <1>4 DEF SpendIInv, RunsSpend, Spends
  <1> HIDE DEF n
  <1>6. Spends(n)
    BY <1>4, <1>5, CostType DEF Spends
  <1>7. run[w].pc \in {"classify", "draft"} /\ n.pc \in {"retrieve", "draft", "write"}
    BY <1>3, <1>4
  <1> QED BY <1>2, <1>3, <1>4, <1>5, <1>6, <1>7, ChargeSpends

LEMMA RetrieveSpends ==
    ASSUME RoutingIInv, RoutingIInv', SpendIInv, NEW w \in Workers, retrieve(w)
    PROVE  SpendIInv'
  <1> DEFINE drafting == [run[w] EXCEPT !.pc = "draft"]
             handed == Verdict(w, "needs_human")
  <1>1. /\ run[w].pc = "retrieve" /\ UNCHANGED <<rows, recorded, billed, lost, purged>>
    BY DEF retrieve, At, spendHistory
  <1>2. PICK n \in {drafting, handed} : run' = [run EXCEPT ![w] = n]
    <2>1. run' = [run EXCEPT ![w] = drafting] \/ run' = [run EXCEPT ![w] = handed]
      BY OpenRun DEF retrieve
    <2> QED BY <2>1
  <1>3. /\ n.pc \in {"draft", "write"} /\ n.tokens = run[w].tokens /\ n.req = run[w].req
        /\ n.today = run[w].today /\ n.provider = run[w].provider /\ n.seen = run[w].seen
    BY OpenRun DEF RunRecords, Verdict
  <1> HIDE DEF drafting, handed
  <1>4. /\ run[w].tokens \in 1..MAX_ATTEMPTS /\ run[w].provider \in {"live", "fake"}
        /\ run[w].tokens <= RunCost
    BY <1>1 DEF SpendIInv, RunsSpend, Spends
  <1>5. Spends(n)
    BY <1>3, <1>4 DEF Spends
  <1>6. HeldBy(n) = HeldBy(run[w]) /\ HeldBy(n) \in Nat
    BY <1>1, <1>3, CostType DEF HeldBy, PassedBudget
  <1>7. ASSUME NEW j \in Nat PROVE Cleared(w, j)' => Cleared(w, j)
    <2>1. run'[w] = n
      BY <1>2, OpenRun
    <2> QED BY <1>1, <1>3, <2>1 DEF Cleared, PassedBudget, At
  <1>8. /\ run[w].pc # "idle" /\ n.pc # "idle" /\ n.pc # "ceiling"
        /\ ~(HeldBy(n) > HeldBy(run[w]))
    BY <1>1, <1>3, <1>6
  <1> QED BY <1>1, <1>2, <1>3, <1>5, <1>7, <1>8, ChecksKeep

LEMMA DraftSpends ==
    ASSUME RoutingIInv, RoutingIInv', SpendIInv, NEW w \in Workers, draft(w)
    PROVE  SpendIInv'
  <1> DEFINE drafted == [Verdict(w, "drafted") EXCEPT !.tokens = @ + 1]
             given_up == [Verdict(w, "needs_human") EXCEPT !.tokens = @ + 1]
             again == [run[w] EXCEPT !.tokens = @ + 1]
  <1>1. /\ run[w].pc = "draft" /\ UNCHANGED <<rows, recorded, purged>> /\ Charge(w)
    BY DEF draft, At
  <1>2. PICK n \in {drafted, given_up, again} :
            run' = [run EXCEPT ![w] = n] /\ (n = again => run[w].tokens # MAX_ATTEMPTS)
    <2>1. CASE run' = [run EXCEPT ![w] = [Verdict(w, "drafted") EXCEPT !.tokens = @ + 1]]
      <3>1. run' = [run EXCEPT ![w] = drafted]
        BY <2>1
      <3>2. drafted # again
        <4>1. drafted.pc = "write" /\ again.pc = "draft"
          BY <1>1, OpenRun DEF Verdict, RunRecords
        <4> QED BY <4>1
      <3> QED BY <3>1, <3>2
    <2>2. CASE run' = [run EXCEPT ![w] = IF run[w].tokens = MAX_ATTEMPTS
                                         THEN given_up ELSE again]
      <3>1. CASE run[w].tokens = MAX_ATTEMPTS
        <4>1. given_up # again
          <5>1. given_up.pc = "write" /\ again.pc = "draft"
            BY <1>1, OpenRun DEF Verdict, RunRecords
          <5> QED BY <5>1
        <4>2. run' = [run EXCEPT ![w] = given_up]
          BY <2>2, <3>1
        <4> QED BY <4>1, <4>2
      <3>2. CASE run[w].tokens # MAX_ATTEMPTS
        <4>1. run' = [run EXCEPT ![w] = again]
          BY <2>2, <3>2
        <4> QED BY <3>2, <4>1
      <3> QED BY <3>1, <3>2
    <2> QED BY <2>1, <2>2 DEF draft
  <1>3. /\ n.pc \in {"draft", "write"} /\ (n.pc = "draft" => n = again)
        /\ n.tokens = run[w].tokens + 1 /\ n.req = run[w].req
        /\ n.today = run[w].today /\ n.provider = run[w].provider /\ n.seen = run[w].seen
    <2>1. /\ drafted.pc = "write" /\ drafted.tokens = run[w].tokens + 1
          /\ drafted.req = run[w].req /\ drafted.today = run[w].today
          /\ drafted.provider = run[w].provider /\ drafted.seen = run[w].seen
      BY OpenRun DEF RunRecords, Verdict
    <2>2. /\ given_up.pc = "write" /\ given_up.tokens = run[w].tokens + 1
          /\ given_up.req = run[w].req /\ given_up.today = run[w].today
          /\ given_up.provider = run[w].provider /\ given_up.seen = run[w].seen
      BY OpenRun DEF RunRecords, Verdict
    <2>3. /\ again.pc = "draft" /\ again.tokens = run[w].tokens + 1
          /\ again.req = run[w].req /\ again.today = run[w].today
          /\ again.provider = run[w].provider /\ again.seen = run[w].seen
      BY <1>1, OpenRun DEF RunRecords
    <2> HIDE DEF drafted, given_up, again
    <2> QED BY <2>1, <2>2, <2>3
  <1> HIDE DEF drafted, given_up, again
  <1>4. run[w].tokens \in 1..MAX_ATTEMPTS /\ run[w].provider \in {"live", "fake"}
    BY <1>1 DEF SpendIInv, RunsSpend, Spends
  <1>5. Spends(n)
    BY <1>2, <1>3, <1>4 DEF Spends, RunCost
  <1> QED BY <1>1, <1>2, <1>3, <1>5, ChargeSpends

LEMMA IdleSpendsNothing ==
    /\ Spends(IdleRun) /\ HeldBy(IdleRun) = 0 /\ SpentBy(IdleRun) = 0
    /\ IdleRun.pc = "idle" /\ IdleRun.provider = "none"
  BY CostType DEF IdleRun, Spends, HeldBy, PassedBudget, SpentBy

\* The draft records what the run has spent.
LEMMA WriteSpends ==
    ASSUME RoutingIInv, RoutingIInv', SpendIInv, NEW w \in Workers, _write_result(w)
    PROVE  SpendIInv'
  <1> DEFINE q == Org(w)
             r == run[w].req
             p == run[w].provider
             t == run[w].tokens
             k == IF run[w].today THEN t ELSE 0
  <1>1. /\ run[w].pc = "write" /\ UNCHANGED <<billed, lost, purged>>
        /\ run' = [run EXCEPT ![w] = IdleRun]
    BY DEF _write_result, At, spendHistory
  <1>2. /\ run'[w] = IdleRun /\ \A v \in Workers : v # w => run'[v] = run[v]
    BY <1>1, OpenRun
  <1>3. q \in Orgs /\ r \in Requests /\ q = rows[r].org
    BY <1>1, OpenRun DEF Org
  <1>4. /\ t \in Nat /\ k \in Nat /\ run[w].today \in BOOLEAN /\ p \in {"live", "fake"}
    BY <1>1, OpenRun DEF RunRecords, SpendIInv, RunsSpend, Spends
  <1>5. \A x \in Requests : rows'[x].org = rows[x].org
    <2> DEFINE row == [org |-> Org(w), status |-> run[w].verdict, category |-> run[w].category,
                       urgency |-> run[w].urgency,
                       lane |-> LaneOf(SettingsOf(w), run[w].category)]
    <2>1. rows' = [rows EXCEPT ![r] = row] /\ row.org = rows[r].org
      BY DEF _write_result, Org
    <2> HIDE DEF row
    <2> QED BY <2>1 DEF RoutingIInv, PipelineTypeOK, RowType
  <1>6. /\ \A x \in Requests : x # r => recorded'[x] = recorded[x]
        /\ \A z \in {"live", "fake"} :
              recorded'[r][z] = recorded[r][z] + IF z = p THEN k ELSE 0
    <2>1. recorded[r] \in [{"live", "fake"} -> Nat]
      BY <1>3, OpenRun
    <2>2. CASE run[w].today
      <3> DEFINE sum == recorded[r][p] + t
                 day == [recorded[r] EXCEPT ![p] = sum]
      <3>1. recorded' = [recorded EXCEPT ![r] = day]
        <4>1. recorded' = [recorded EXCEPT ![run[w].req][run[w].provider] = @ + TokensOf(w)]
          BY <2>2 DEF _write_result
        <4> QED BY <4>1 DEF TokensOf
      <3>2. \A z \in {"live", "fake"} : day[z] = IF z = p THEN sum ELSE recorded[r][z]
        BY <1>4, <2>1
      <3>3. \A x \in Requests : recorded'[x] = IF x = r THEN day ELSE recorded[x]
        <4> HIDE DEF day
        <4> QED BY <3>1, OpenRun
      <3>4. \A z \in {"live", "fake"} : recorded[r][z] \in Nat
        BY <2>1
      <3> HIDE DEF day
      <3>5. \A z \in {"live", "fake"} : recorded'[r][z] = IF z = p THEN sum ELSE recorded[r][z]
        BY <1>3, <3>2, <3>3
      <3> HIDE DEF r, p
      <3> QED BY <1>4, <2>2, <3>3, <3>4, <3>5
    <2>3. CASE ~run[w].today
      <3>1. recorded' = recorded /\ k = 0
        BY <2>3 DEF _write_result
      <3>2. \A z \in {"live", "fake"} : recorded[r][z] \in Nat
        BY <2>1
      <3> HIDE DEF r, p, k
      <3> QED BY <3>1, <3>2
    <2> QED BY <2>2, <2>3
  <1> HIDE DEF q, r, p, t, k
  <1>7. ASSUME NEW o \in Orgs, NEW z \in {"live", "fake"}
        PROVE  /\ Sums[o][z] \in Nat
               /\ Sums'[o][z] = Sums[o][z] + IF o = q /\ z = p THEN k ELSE 0
    <2> DEFINE a == IF rows[r].org = o THEN recorded[r][z] ELSE 0
               b == IF rows'[r].org = o THEN recorded'[r][z] ELSE 0
    <2>1. a \in Nat /\ b \in Nat /\ b = a + IF o = q /\ z = p THEN k ELSE 0
      <3>1. recorded[r][z] \in Nat
        BY <1>3, OpenRun
      <3> QED BY <1>3, <1>4, <1>5, <1>6, <3>1
    <2>2. Sums'[o][z] + a = Sums[o][z] + b
      BY <1>3, <1>5, <1>6, <2>1, SumsChange
    <2>3. Sums[o][z] \in Nat /\ Sums'[o][z] \in Nat
      BY SumsType, SumsTypeNext
    <2> HIDE DEF a, b
    <2> QED BY <1>4, <2>1, <2>2, <2>3
  <1>8. /\ \A o \in Orgs : o # q => Sums'[o] = Sums[o]
        /\ \A o \in Orgs : /\ Sums'[o]["live"] >= Sums[o]["live"]
                           /\ Sums'[o]["fake"] >= Sums[o]["fake"]
    <2>1. ASSUME NEW o \in Orgs, o # q PROVE Sums'[o] = Sums[o]
      <3>1. Sums[o] \in [{"live", "fake"} -> Nat] /\ Sums'[o] \in [{"live", "fake"} -> Nat]
        BY SumsType, SumsTypeNext
      <3>2. \A z \in {"live", "fake"} : Sums'[o][z] = Sums[o][z]
        BY <1>7, <2>1
      <3> QED BY <3>1, <3>2
    <2>2. ASSUME NEW o \in Orgs, NEW z \in {"live", "fake"} PROVE Sums'[o][z] >= Sums[o][z]
      BY <1>4, <1>7
    <2> QED BY <2>1, <2>2
  <1>9. StepOf(w, q)
    <2>1. RowsStay
      BY <1>5, OpenRun DEF RowsStay
    <2> QED BY <1>1, <1>2, <1>8, <2>1, IdleSpendsNothing DEF StepOf, q
  <1>10. Sums'[q]["live"] = Sums[q]["live"] + SpentBy(run[w])
    <2>1. SpentBy(run[w]) = IF p = "live" THEN k ELSE 0
      BY DEF SpentBy, p, k, t
    <2> QED BY <1>3, <1>7, <2>1
  <1>11. /\ billed[q] \in Nat /\ lost[q] \in Nat
         /\ Sums[q]["live"] \in Nat /\ Sums'[q]["live"] \in Nat
         /\ SpentBy(run[w]) \in Nat /\ HeldBy(run[w]) \in Nat
         /\ SpentBy(run[w]) <= HeldBy(run[w])
    <2>1. Sums[q]["live"] \in Nat /\ Sums'[q]["live"] \in Nat
      BY <1>3, SumsType, SumsTypeNext
    <2> QED BY <1>3, <2>1, RunNumbers DEF SpendIInv, SpendType
  <1>12. Balanced(w, q)
    BY <1>1, <1>2, <1>10, <1>11, IdleSpendsNothing DEF Balanced
  <1>13. Sums'[q]["live"] + HeldBy(run'[w]) <= Sums[q]["live"] + HeldBy(run[w])
    BY <1>2, <1>10, <1>11, IdleSpendsNothing
  <1>14. SpendType'
    BY <1>1 DEF SpendIInv, SpendType
  <1> QED BY <1>1, <1>2, <1>3, <1>9, <1>12, <1>13, <1>14, IdleSpendsNothing, SpendStep

\* What a failed run has spent today is lost.
LEMMA FailSpends ==
    ASSUME RoutingIInv, RoutingIInv', SpendIInv, NEW w \in Workers, RunFails(w)
    PROVE  SpendIInv'
  <1> DEFINE q == Org(w)
             gone == SpentBy(run[w])
  <1>1. /\ run[w].pc # "idle" /\ UNCHANGED <<rows, recorded, purged>>
        /\ run' = [run EXCEPT ![w] = IdleRun]
    BY DEF RunFails, At
  <1>2. PICK n \in 0..1 : /\ billed' = [billed EXCEPT ![q] = @ + n]
                          /\ lost' = [lost EXCEPT ![q] = @ + n + gone]
    BY DEF RunFails, Unrecorded, SpentBy
  <1>3. /\ run'[w] = IdleRun /\ \A v \in Workers : v # w => run'[v] = run[v]
    BY <1>1, OpenRun
  <1>4. q \in Orgs
    BY <1>1, OpenRun DEF Org
  <1>5. gone \in Nat /\ HeldBy(run[w]) \in Nat /\ n \in Nat
    BY RunNumbers DEF SpendIInv
  <1>6. billed \in [Orgs -> Nat] /\ lost \in [Orgs -> Nat]
    BY DEF SpendIInv, SpendType
  <1> HIDE DEF q, gone
  <1>7. /\ billed' \in [Orgs -> Nat] /\ billed'[q] = billed[q] + n
        /\ lost' \in [Orgs -> Nat] /\ lost'[q] = lost[q] + n + gone
        /\ \A o \in Orgs : o # q => billed'[o] = billed[o] /\ lost'[o] = lost[o]
    BY <1>2, <1>4, <1>5, <1>6
  <1>8. Sums' = Sums /\ \A o \in Orgs : Sums[o]["live"] \in Nat /\ Sums[o]["fake"] \in Nat
    BY <1>1, SumsStay, SumsType
  <1>9. StepOf(w, q)
    <2>1. RowsStay
      BY <1>1 DEF RowsStay
    <2> QED BY <1>1, <1>3, <1>7, <1>8, <2>1, IdleSpendsNothing DEF StepOf, q
  <1>10. Balanced(w, q)
    <2>1. billed[q] \in Nat /\ lost[q] \in Nat /\ Sums[q]["live"] \in Nat
      BY <1>4, <1>6, <1>8
    <2>2. SpentBy(run[w]) = gone /\ SpentBy(run'[w]) = 0
      BY <1>3, IdleSpendsNothing DEF gone
    <2> QED BY <1>5, <1>7, <1>8, <2>1, <2>2 DEF Balanced
  <1>11. Sums'[q]["live"] + HeldBy(run'[w]) <= Sums[q]["live"] + HeldBy(run[w])
    BY <1>3, <1>4, <1>5, <1>8, IdleSpendsNothing
  <1>12. SpendType'
    BY <1>1, <1>7 DEF SpendIInv, SpendType
  <1> QED BY <1>1, <1>3, <1>4, <1>8, <1>9, <1>10, <1>11, <1>12, IdleSpendsNothing, SpendStep

\* Midnight: what was recorded, charged, lost or purged is of another day, and
\* so is every open run.
LEMMA MidnightSpends ==
    ASSUME RoutingIInv, RoutingIInv', SpendIInv, Midnight
    PROVE  SpendIInv'
  <1>1. /\ recorded' = [r \in Requests |-> NoTokens]
        /\ billed' = [o \in Orgs |-> 0] /\ lost' = [o \in Orgs |-> 0]
        /\ purged' = [o \in Orgs |-> NoTokens]
        /\ run' = [w \in Workers |-> [run[w] EXCEPT !.today = At(w, "idle")]]
    BY DEF Midnight
  <1>2. ASSUME NEW w \in Workers
        PROVE  /\ run'[w].pc = run[w].pc
               /\ run'[w].provider = run[w].provider /\ run'[w].tokens = run[w].tokens
               /\ run'[w].seen = run[w].seen
               /\ run'[w].today = (run[w].pc = "idle")
    <2>1. run[w] \in RunRecords
      BY OpenRun
    <2>2. run'[w] = [run[w] EXCEPT !.today = At(w, "idle")]
      BY <1>1
    <2> QED BY <2>1, <2>2 DEF RunRecords, At
  <1>3. RunsSpend'
    BY <1>2 DEF SpendIInv, RunsSpend, Spends
  <1>4. \A w \in Workers : ~(run'[w].provider # "none" /\ run'[w].today)
    BY <1>2 DEF SpendIInv, RunsSpend, Spends
  <1>5. /\ SpendType'
        /\ \A o \in Orgs : billed'[o] = 0 /\ lost'[o] = 0 /\ purged'[o]["live"] = 0
    BY <1>1 DEF SpendType, NoTokens
  <1>6. \A o \in Orgs : Sums'[o]["live"] = 0
    <2> SUFFICES ASSUME NEW o \in Orgs PROVE Sums'[o]["live"] = 0
      OBVIOUS
    <2> DEFINE g == [x \in Requests |-> IF rows'[x].org = o THEN recorded'[x]["live"] ELSE 0]
    <2>1. \A x \in Requests : g[x] = 0
      BY <1>1 DEF NoTokens
    <2>2. Sums'[o]["live"] = Total(g, Requests)
      BY DEF Sums, Recorded, Total, Units
    <2> HIDE DEF g
    <2> QED BY <2>1, <2>2, TotalOfZeros
  <1>7. RunCost * Cardinality(Workers) \in Nat
    BY FS_CardinalityType, CostType
  <1>8. Accounted'
    <2> SUFFICES ASSUME NEW o \in Orgs
                 PROVE  billed'[o] = Sums'[o]["live"] + Total(Spent(o)', Workers) + lost'[o]
                                         + purged'[o]["live"]
      BY DEF Accounted, Total, Units
    <2>1. \A w \in Workers : Spent(o)'[w] = 0
      BY <1>4 DEF Spent, SpentBy, Of
    <2>2. Total(Spent(o)', Workers) = 0
      BY <2>1, TotalOfZeros
    <2> QED BY <1>5, <1>6, <2>2
  <1>9. OrgChecked'
    <2> SUFFICES ASSUME NEW o \in Orgs
                 PROVE  Sums'[o]["live"] + Total(Held(o)', Workers)
                            < DailyTokenBudget[o] + RunCost * Cardinality(Workers)
      BY DEF OrgChecked, Total, Units
    <2>1. \A w \in Workers : Held(o)'[w] = 0
      BY <1>4 DEF Held, HeldBy, PassedBudget, Of
    <2>2. Total(Held(o)', Workers) = 0
      BY <2>1, TotalOfZeros
    <2> QED BY <1>6, <1>7, <2>2
  <1>10. Total(Live', Orgs) = 0
    <2>1. \A o \in Orgs : Live'[o] = 0
      BY <1>6, LiveIsSumsNext
    <2> QED BY <2>1, TotalOfZeros
  <1>11. AllChecked'
    <2> SUFFICES ASSUME NEW j \in Nat
                 PROVE  Total(Live', Orgs) + Total(HeldByAll(j)', Workers)
                            < SpendCeiling + j + RunCost * Cardinality(Workers)
      BY DEF AllChecked, SumOver, Total, Units
    <2>1. \A w \in Workers : HeldByAll(j)'[w] = 0
      BY <1>4 DEF HeldByAll, Cleared, PassedBudget
    <2>2. Total(HeldByAll(j)', Workers) = 0
      BY <2>1, TotalOfZeros
    <2> QED BY <1>7, <1>10, <2>2
  <1>12. SeenIsThere'
    BY <1>2 DEF SeenIsThere, At
  <1>13. OwnDowngrades'
    BY <1>4 DEF OwnDowngrades
  <1> QED BY <1>3, <1>5, <1>8, <1>9, <1>11, <1>12, <1>13 DEF SpendIInv

\* What the steps that leave the runs alone keep.
LEMMA RunsKeep ==
    ASSUME RoutingIInv, SpendIInv, RowsStay, UNCHANGED run
    PROVE  /\ RunsSpend'
           /\ \A o \in Orgs : /\ Total(Spent(o)', Workers) = Total(Spent(o), Workers)
                              /\ Total(Held(o)', Workers) = Total(Held(o), Workers)
           /\ \A v \in Workers : run[v].pc # "idle" => Org(v)' = Org(v)
  <1>1. RunsSpend
    BY DEF SpendIInv
  <1>2. ASSUME NEW v \in Workers
        PROVE  /\ run[v].pc # "idle" => Org(v)' = Org(v)
               /\ \A o \in Orgs : /\ Spent(o)'[v] = Spent(o)[v] /\ Held(o)'[v] = Held(o)[v]
    BY <1>1, OthersKeep
  <1>3. RunsSpend'
    BY <1>1 DEF RunsSpend, Spends
  <1>4. ASSUME NEW o \in Orgs
        PROVE  /\ Total(Spent(o)', Workers) = Total(Spent(o), Workers)
               /\ Total(Held(o)', Workers) = Total(Held(o), Workers)
    BY <1>2, TotalSame
  <1> QED BY <1>2, <1>3, <1>4

\* submit, resolve, an edit of settings: no run and no number changes.
LEMMA SpendFrame ==
    ASSUME RoutingIInv, RoutingIInv', SpendIInv, RowsStay, UNCHANGED <<run, billed, lost, purged>>,
           \A x \in Requests, o \in Orgs, p \in {"live", "fake"} :
               (IF rows'[x].org = o THEN recorded'[x][p] ELSE 0)
                   = (IF rows[x].org = o THEN recorded[x][p] ELSE 0)
    PROVE  SpendIInv'
  <1>1. Sums' = Sums
    <2>1. ASSUME NEW o \in Orgs, NEW p \in {"live", "fake"} PROVE Sums'[o][p] = Sums[o][p]
      <3> DEFINE f == [x \in Requests |-> IF rows[x].org = o THEN recorded[x][p] ELSE 0]
                 g == [x \in Requests |-> IF rows'[x].org = o THEN recorded'[x][p] ELSE 0]
      <3>1. \A x \in Requests : f[x] = g[x]
        OBVIOUS
      <3>2. Sums[o][p] = Total(f, Requests) /\ Sums'[o][p] = Total(g, Requests)
        BY DEF Sums, Recorded, Total, Units
      <3> HIDE DEF f, g
      <3> QED BY <3>1, <3>2, TotalSame
    <2>2. ASSUME NEW o \in Orgs PROVE Sums'[o] = Sums[o]
      <3>1. Sums[o] \in [{"live", "fake"} -> Nat] /\ Sums'[o] \in [{"live", "fake"} -> Nat]
        BY SumsType, SumsTypeNext
      <3> QED BY <2>1, <3>1
    <2> QED BY <2>2, SumsType, SumsTypeNext
  <1>2. Live' = Live /\ PurgedLive' = PurgedLive
    <2>1. Live = [o \in Orgs |-> Sums[o]["live"]] /\ Live' = [o \in Orgs |-> Sums'[o]["live"]]
      BY DEF Live, Sums
    <2> QED BY <1>1, <2>1 DEF PurgedLive
  <1>3. SpendType' /\ RunsSpend'
    BY RunsKeep DEF SpendIInv, SpendType
  <1>4. Accounted'
    <2> SUFFICES ASSUME NEW o \in Orgs
                 PROVE  billed[o] = Sums'[o]["live"] + Total(Spent(o)', Workers) + lost[o]
                                        + purged[o]["live"]
      BY DEF Accounted, Total, Units
    <2> QED BY <1>1, RunsKeep DEF SpendIInv, Accounted
  <1>5. OrgChecked'
    <2> SUFFICES ASSUME NEW o \in Orgs
                 PROVE  Sums'[o]["live"] + Total(Held(o)', Workers)
                            < DailyTokenBudget[o] + RunCost * Cardinality(Workers)
      BY DEF OrgChecked, Total, Units
    <2> QED BY <1>1, RunsKeep DEF SpendIInv, OrgChecked
  <1>6. AllChecked'
    <2> SUFFICES ASSUME NEW j \in Nat
                 PROVE  SumOver(Live') + Total(HeldByAll(j)', Workers)
                            < SpendCeiling + j + RunCost * Cardinality(Workers)
      BY DEF AllChecked, SumOver, Total, Units
    <2>1. HeldByAll(j)' = HeldByAll(j)
      BY <1>2 DEF HeldByAll, Cleared, PassedBudget, At, Total, Units
    <2> QED BY <1>2, <2>1 DEF SpendIInv, AllChecked
  <1>7. SeenIsThere'
    <2> SUFFICES ASSUME NEW v \in Workers, run[v].pc = "ceiling", run[v].today
                 PROVE  run[v].seen + Total(Live', run[v].todo)
                            <= SumOver(Live') + SumOver(PurgedLive')
      BY DEF SeenIsThere, At, SumOver, Total, Units
    <2> QED BY <1>2 DEF SpendIInv, SeenIsThere, At
  <1>8. OwnDowngrades'
    <2> SUFFICES ASSUME NEW v \in Workers, run[v].provider = "fake", LLM_PROVIDER # "fake",
                        run[v].today
                 PROVE  /\ Org(v)' \in Orgs
                        /\ \/ Sums'[Org(v)']["live"] + Sums'[Org(v)']["fake"]
                              + purged[Org(v)']["live"] + purged[Org(v)']["fake"]
                                  >= DailyTokenBudget[Org(v)']
                           \/ SumOver(Live') + SumOver(PurgedLive') >= SpendCeiling
      BY DEF OwnDowngrades, SumOver, Total, Units, Org
    <2>1. run[v].pc # "idle"
      BY DEF SpendIInv, RunsSpend, Spends
    <2>2. Org(v)' = Org(v)
      BY <2>1, RunsKeep
    <2> QED BY <1>1, <1>2, <2>2 DEF SpendIInv, OwnDowngrades
  <1> QED BY <1>3, <1>4, <1>5, <1>6, <1>7, <1>8 DEF SpendIInv

\* A purge takes k tokens of q from what is recorded to what is purged, and
\* brings the runs that are still summing that much closer to passing.
LEMMA PurgeSpends ==
    ASSUME RoutingIInv, RoutingIInv', SpendIInv, NEW r \in Requests, purge(r)
    PROVE  SpendIInv'
  <1> DEFINE q == rows[r].org
             k == recorded[r]["live"]
             l == recorded[r]["fake"]
  <1>1. /\ Exists(r) /\ ~Busy(r) /\ UNCHANGED <<run, billed, lost>>
        /\ rows' = [rows EXCEPT ![r] = [NoRow EXCEPT !.status = "purged"]]
        /\ recorded' = [recorded EXCEPT ![r] = NoTokens]
        /\ purged' = [purged EXCEPT ![q] = [p \in {"live", "fake"} |-> purged[q][p] + recorded[r][p]]]
    BY DEF purge
  <1>2. q \in Orgs /\ k \in Nat /\ l \in Nat /\ \A p \in {"live", "fake"} : recorded[r][p] \in Nat
    BY <1>1, OpenRun DEF RoutingIInv, PipelineTypeOK, SubmittedHasOrg
  <1>3. \A x \in Requests : x # r => rows'[x] = rows[x] /\ recorded'[x] = recorded[x]
    BY <1>1 DEF RoutingIInv, PipelineTypeOK, RowType
  <1>4. RowsStay
    BY <1>1, <1>3, OpenRun DEF RowsStay, Busy, At
  <1>5. \A p \in {"live", "fake"} : recorded'[r][p] = 0
    <2>1. recorded \in [Requests -> [{"live", "fake"} -> Nat]]
      BY DEF RoutingIInv, PipelineTypeOK
    <2>2. recorded'[r] = NoTokens
      BY <1>1, <2>1
    <2> QED BY <2>2 DEF NoTokens
  <1> HIDE DEF q
  <1>6. ASSUME NEW o \in Orgs, NEW p \in {"live", "fake"}
        PROVE  /\ Sums[o][p] \in Nat /\ Sums'[o][p] \in Nat
               /\ Sums'[o][p] + (IF o = q THEN recorded[r][p] ELSE 0) = Sums[o][p]
    <2> DEFINE a == IF rows[r].org = o THEN recorded[r][p] ELSE 0
               b == IF rows'[r].org = o THEN recorded'[r][p] ELSE 0
    <2>1. a \in Nat /\ b \in Nat /\ b = 0 /\ a = IF o = q THEN recorded[r][p] ELSE 0
      BY <1>2, <1>5 DEF q
    <2>2. Sums'[o][p] + a = Sums[o][p] + b
      BY <1>3, <2>1, SumsChange
    <2>3. Sums[o][p] \in Nat /\ Sums'[o][p] \in Nat
      BY SumsType, SumsTypeNext
    <2> HIDE DEF a, b
    <2> QED BY <2>1, <2>2, <2>3
  <1>7. /\ SpendType'
        /\ \A o \in Orgs, p \in {"live", "fake"} :
              /\ purged[o][p] \in Nat
              /\ purged'[o][p] = purged[o][p] + IF o = q THEN recorded[r][p] ELSE 0
    <2> DEFINE more == [p \in {"live", "fake"} |-> purged[q][p] + recorded[r][p]]
    <2>1. \A o \in Orgs, p \in {"live", "fake"} : purged[o][p] \in Nat
      BY DEF SpendIInv, SpendType
    <2>2. more \in [{"live", "fake"} -> Nat]
      BY <1>2, <2>1
    <2>3. \A p \in {"live", "fake"} : more[p] = purged[q][p] + recorded[r][p]
      OBVIOUS
    <2> HIDE DEF more
    <2>4. purged' = [purged EXCEPT ![q] = more]
      BY <1>1 DEF more
    <2>5. \A o \in Orgs : purged'[o] = IF o = q THEN more ELSE purged[o]
      BY <2>4 DEF SpendIInv, SpendType
    <2>6. SpendType'
      BY <1>1, <1>2, <2>2, <2>4 DEF SpendIInv, SpendType
    <2>7. \A o \in Orgs, p \in {"live", "fake"} :
             purged'[o][p] = purged[o][p] + IF o = q THEN recorded[r][p] ELSE 0
      BY <1>2, <2>1, <2>3, <2>5
    <2> QED BY <2>1, <2>6, <2>7
  <1>8. /\ RunsSpend' /\ \A v \in Workers : run[v].pc # "idle" => Org(v)' = Org(v)
        /\ \A o \in Orgs : /\ Total(Spent(o)', Workers) = Total(Spent(o), Workers)
                           /\ Total(Held(o)', Workers) = Total(Held(o), Workers)
    BY <1>1, <1>4, RunsKeep
  <1>9. \A o \in Orgs : /\ Total(Spent(o), Workers) \in Nat /\ Total(Held(o), Workers) \in Nat
                        /\ billed[o] \in Nat /\ lost[o] \in Nat /\ DailyTokenBudget[o] \in Nat
    BY NumbersType DEF SpendIInv, SpendType, NumbersOK
  <1>10. Accounted'
    <2> SUFFICES ASSUME NEW o \in Orgs
                 PROVE  billed[o] = Sums'[o]["live"] + Total(Spent(o)', Workers) + lost[o]
                                        + purged'[o]["live"]
      BY <1>1 DEF Accounted, Total, Units
    <2>1. billed[o] = Sums[o]["live"] + Total(Spent(o), Workers) + lost[o] + purged[o]["live"]
      BY DEF SpendIInv, Accounted
    <2>2. Total(Spent(o)', Workers) = Total(Spent(o), Workers) /\ Total(Spent(o), Workers) \in Nat
      BY <1>8, <1>9
    <2>3. /\ Sums[o]["live"] \in Nat /\ Sums'[o]["live"] \in Nat /\ purged[o]["live"] \in Nat
          /\ Sums'[o]["live"] + (IF o = q THEN k ELSE 0) = Sums[o]["live"]
          /\ purged'[o]["live"] = purged[o]["live"] + IF o = q THEN k ELSE 0
      BY <1>6, <1>7
    <2> HIDE DEF k
    <2> QED BY <1>2, <1>9, <2>1, <2>2, <2>3
  <1>11. OrgChecked'
    <2> SUFFICES ASSUME NEW o \in Orgs
                 PROVE  Sums'[o]["live"] + Total(Held(o)', Workers)
                            < DailyTokenBudget[o] + RunCost * Cardinality(Workers)
      BY DEF OrgChecked, Total, Units
    <2>1. /\ Sums[o]["live"] + Total(Held(o), Workers)
                 < DailyTokenBudget[o] + RunCost * Cardinality(Workers)
          /\ RunCost * Cardinality(Workers) \in Nat
      BY FS_CardinalityType, CostType DEF SpendIInv, OrgChecked
    <2>2. /\ Sums[o]["live"] \in Nat /\ Sums'[o]["live"] \in Nat
          /\ Sums'[o]["live"] + (IF o = q THEN k ELSE 0) = Sums[o]["live"]
      BY <1>6
    <2>3. Total(Held(o)', Workers) = Total(Held(o), Workers)
      BY <1>8
    <2> HIDE DEF k
    <2> QED BY <1>2, <1>9, <2>1, <2>2, <2>3
  <1>12. ASSUME NEW S \in SUBSET Orgs
         PROVE  /\ Total(Live, S) \in Nat /\ Total(Live', S) \in Nat
                /\ Total(Live, S) = Total(Live', S) + IF q \in S THEN k ELSE 0
    <2>1. \A o \in Orgs : /\ Live[o] \in Nat /\ Live'[o] \in Nat
                          /\ Live'[o] + (IF o = q THEN k ELSE 0) = Live[o]
      BY <1>6, LiveIsSums, LiveIsSumsNext
    <2>2. IsFiniteSet(S)
      BY FS_Subset
    <2>3. Total(Live, S) \in Nat /\ Total(Live', S) \in Nat
      BY <2>1, <2>2, UnitsFinite
    <2>4. CASE q \in S
      <3>1. \A o \in S : o # q => Live[o] = Live'[o]
        BY <2>1
      <3>2. Total(Live, S) + Live'[q] = Total(Live', S) + Live[q]
        BY <2>1, <2>2, <2>4, <3>1, TotalChange
      <3> HIDE DEF k
      <3> QED BY <1>2, <2>1, <2>3, <2>4, <3>2
    <2>5. CASE q \notin S
      <3>1. \A o \in S : Live[o] = Live'[o]
        BY <2>1, <2>5
      <3>2. Total(Live, S) = Total(Live', S)
        BY <3>1, TotalSame
      <3> QED BY <2>3, <2>5, <3>2
    <2> QED BY <2>3, <2>4, <2>5
  <1>13. SumOver(PurgedLive') = SumOver(PurgedLive) + k /\ SumOver(PurgedLive) \in Nat
    <2>1. \A o \in Orgs : /\ PurgedLive[o] \in Nat /\ PurgedLive'[o] \in Nat
                          /\ PurgedLive'[o] = PurgedLive[o] + IF o = q THEN k ELSE 0
      BY <1>2, <1>7 DEF PurgedLive
    <2>2. \A o \in Orgs : o # q => PurgedLive[o] = PurgedLive'[o]
      BY <2>1
    <2>3. Total(PurgedLive, Orgs) + PurgedLive'[q] = Total(PurgedLive', Orgs) + PurgedLive[q]
      BY <1>2, <2>1, <2>2, TotalChange
    <2>4. Total(PurgedLive, Orgs) \in Nat /\ Total(PurgedLive', Orgs) \in Nat
      BY <2>1, UnitsFinite
    <2> HIDE DEF k
    <2> QED BY <1>2, <2>1, <2>3, <2>4 DEF SumOver
  <1>14. /\ SumOver(Live) = SumOver(Live') + k
         /\ SumOver(Live) \in Nat /\ SumOver(Live') \in Nat
    BY <1>2, <1>12 DEF SumOver
  <1>15. ASSUME NEW v \in Workers
         PROVE  /\ run[v].seen \in Nat /\ Total(Live, run[v].todo) \in Nat
                /\ Total(Live', run[v].todo) \in Nat
                /\ Total(Live', run[v].todo) <= Total(Live, run[v].todo)
                /\ Total(Live, run[v].todo) <= Total(Live', run[v].todo) + k
    <2>1. run[v].seen \in Nat /\ run[v].todo \in SUBSET Orgs
      BY OpenRun DEF RunRecords
    <2>2. /\ Total(Live, run[v].todo) \in Nat /\ Total(Live', run[v].todo) \in Nat
          /\ Total(Live, run[v].todo) = Total(Live', run[v].todo) + IF q \in run[v].todo THEN k ELSE 0
      BY <1>12, <2>1
    <2> HIDE DEF k
    <2> QED BY <1>2, <2>1, <2>2
  <1>16. AllChecked'
    <2> SUFFICES ASSUME NEW j \in Nat
                 PROVE  SumOver(Live') + Total(HeldByAll(j)', Workers)
                            < SpendCeiling + j + RunCost * Cardinality(Workers)
      BY DEF AllChecked, SumOver, Total, Units
    <2> DEFINE i == j + k
               all == RunCost * Cardinality(Workers)
    <2>1. i \in Nat
      BY <1>2
    <2>2. \A w \in Workers : Cleared(w, j)' => Cleared(w, i)
      <3> SUFFICES ASSUME NEW w \in Workers, Cleared(w, j)'
                   PROVE  Cleared(w, i)
        OBVIOUS
      <3>1. PassedBudget(run[w])
        BY <1>1 DEF Cleared, PassedBudget
      <3>2. ASSUME run[w].pc = "ceiling"
            PROVE  run[w].seen + Total(Live, run[w].todo) < SpendCeiling + i
        <4>1. run[w].seen + Total(Live', run[w].todo) < SpendCeiling + j
          BY <1>1, <3>2 DEF Cleared, At, Total, Units
        <4>2. SpendCeiling \in Nat
          OBVIOUS
        <4> HIDE DEF k
        <4> QED BY <1>2, <1>15, <4>1, <4>2
      <3> QED BY <3>1, <3>2 DEF Cleared, At
    <2> HIDE DEF i
    <2>3. \A w \in Workers : /\ HeldByAll(i)[w] \in Nat /\ HeldByAll(j)'[w] \in Nat
                             /\ HeldByAll(j)'[w] <= HeldByAll(i)[w]
      BY <2>2, CostType DEF HeldByAll
    <2>4. Total(HeldByAll(j)', Workers) <= Total(HeldByAll(i), Workers)
      BY <2>3, TotalGrows
    <2>5. Total(HeldByAll(j)', Workers) \in Nat /\ Total(HeldByAll(i), Workers) \in Nat
      BY <2>3, UnitsFinite
    <2>6. SumOver(Live) + Total(HeldByAll(i), Workers) < SpendCeiling + i + all
      BY <2>1 DEF SpendIInv, AllChecked
    <2>7. all \in Nat
      BY FS_CardinalityType, CostType
    <2>8. i = j + k
      BY DEF i
    <2> HIDE DEF k, all
    <2>9. SumOver(Live') + Total(HeldByAll(j)', Workers) < SpendCeiling + j + all
      BY <1>2, <1>14, <2>4, <2>5, <2>6, <2>7, <2>8
    <2> QED BY <2>9 DEF all
  <1>17. SeenIsThere'
    <2> SUFFICES ASSUME NEW v \in Workers, run[v].pc = "ceiling", run[v].today
                 PROVE  run[v].seen + Total(Live', run[v].todo)
                            <= SumOver(Live') + SumOver(PurgedLive')
      BY <1>1 DEF SeenIsThere, At, SumOver, Total, Units
    <2>1. run[v].seen + Total(Live, run[v].todo) <= SumOver(Live) + SumOver(PurgedLive)
      BY DEF SpendIInv, SeenIsThere, At
    <2> HIDE DEF k
    <2> QED BY <1>2, <1>13, <1>14, <1>15, <2>1
  <1>18. OwnDowngrades'
    <2> SUFFICES ASSUME NEW v \in Workers, run[v].provider = "fake", LLM_PROVIDER # "fake",
                        run[v].today
                 PROVE  /\ Org(v)' \in Orgs
                        /\ \/ Sums'[Org(v)']["live"] + Sums'[Org(v)']["fake"]
                              + purged'[Org(v)']["live"] + purged'[Org(v)']["fake"]
                                  >= DailyTokenBudget[Org(v)']
                           \/ SumOver(Live') + SumOver(PurgedLive') >= SpendCeiling
      BY <1>1 DEF OwnDowngrades, SumOver, Total, Units, Org
    <2>1. run[v].pc # "idle"
      BY DEF SpendIInv, RunsSpend, Spends
    <2>2. PICK o \in Orgs : o = Org(v) /\ UsedUp(o)
      BY DEF SpendIInv, OwnDowngrades, UsedUp
    <2>3. Org(v)' = o
      BY <1>8, <2>1, <2>2
    <2>4. /\ Sums[o]["live"] \in Nat /\ Sums'[o]["live"] \in Nat
          /\ Sums[o]["fake"] \in Nat /\ Sums'[o]["fake"] \in Nat
          /\ purged[o]["live"] \in Nat /\ purged[o]["fake"] \in Nat
          /\ Sums'[o]["live"] + (IF o = q THEN k ELSE 0) = Sums[o]["live"]
          /\ Sums'[o]["fake"] + (IF o = q THEN l ELSE 0) = Sums[o]["fake"]
          /\ purged'[o]["live"] = purged[o]["live"] + IF o = q THEN k ELSE 0
          /\ purged'[o]["fake"] = purged[o]["fake"] + IF o = q THEN l ELSE 0
      BY <1>6, <1>7
    <2> HIDE DEF k, l
    <2>5. \/ Sums'[o]["live"] + Sums'[o]["fake"] + purged'[o]["live"] + purged'[o]["fake"]
                 >= DailyTokenBudget[o]
          \/ SumOver(Live') + SumOver(PurgedLive') >= SpendCeiling
      BY <1>2, <1>9, <1>13, <1>14, <2>2, <2>4 DEF UsedUp
    <2> QED BY <2>3, <2>5
  <1> QED BY <1>7, <1>8, <1>10, <1>11, <1>16, <1>17, <1>18 DEF SpendIInv

LEMMA SpendInit == PipelineInit => SpendIInv
  <1> SUFFICES ASSUME PipelineInit PROVE SpendIInv
    OBVIOUS
  <1>1. \A w \in Workers : run[w] = IdleRun
    BY DEF PipelineInit
  <1>2. \A o \in Orgs, p \in {"live", "fake"} : Sums[o][p] = 0
    <2> SUFFICES ASSUME NEW o \in Orgs, NEW p \in {"live", "fake"} PROVE Sums[o][p] = 0
      OBVIOUS
    <2> DEFINE f == [x \in Requests |-> IF rows[x].org = o THEN recorded[x][p] ELSE 0]
    <2>1. \A x \in Requests : f[x] = 0
      BY DEF PipelineInit, NoTokens
    <2>2. Sums[o][p] = Total(f, Requests)
      BY DEF Sums, Recorded
    <2> HIDE DEF f
    <2> QED BY <2>1, <2>2, TotalOfZeros
  <1>3. \A o \in Orgs : billed[o] = 0 /\ lost[o] = 0 /\ purged[o]["live"] = 0
    BY DEF PipelineInit, NoTokens
  <1>4. SpendType
    BY DEF PipelineInit, SpendType, NoTokens
  <1>5. RunsSpend
    BY <1>1, IdleSpendsNothing DEF RunsSpend
  <1>6. \A w \in Workers : /\ \A o \in Orgs : Spent(o)[w] = 0 /\ Held(o)[w] = 0
                           /\ \A j \in Nat : HeldByAll(j)[w] = 0
    BY <1>1, IdleSpendsNothing DEF Spent, Held, HeldByAll, Cleared, Of, PassedBudget
  <1>7. /\ \A o \in Orgs : Total(Spent(o), Workers) = 0 /\ Total(Held(o), Workers) = 0
        /\ \A j \in Nat : Total(HeldByAll(j), Workers) = 0
    BY <1>6, TotalOfZeros
  <1>8. RunCost * Cardinality(Workers) \in Nat
    BY FS_CardinalityType, CostType
  <1>9. Accounted
    BY <1>2, <1>3, <1>7 DEF Accounted
  <1>10. OrgChecked
    BY <1>2, <1>7, <1>8 DEF OrgChecked
  <1>11. SumOver(Live) = 0
    <2>1. \A o \in Orgs : Live[o] = 0
      BY <1>2, LiveIsSums
    <2> QED BY <2>1, TotalOfZeros DEF SumOver
  <1>12. AllChecked
    BY <1>7, <1>8, <1>11 DEF AllChecked
  <1>13. SeenIsThere /\ OwnDowngrades
    BY <1>1, IdleSpendsNothing DEF SeenIsThere, OwnDowngrades, At
  <1> QED BY <1>4, <1>5, <1>9, <1>10, <1>12, <1>13 DEF SpendIInv

LEMMA SpendNext ==
    ASSUME RoutingIInv, RoutingIInv', SpendIInv, [Next]_pipelineVars
    PROVE  SpendIInv'
  <1>1. ASSUME NEW w \in Workers, PipelineStep(w) PROVE SpendIInv'
    BY <1>1, BeginSpends, BudgetSpends, CeilingSpends, ClassifySpends, RetrieveSpends,
       DraftSpends, WriteSpends, FailSpends
    DEF PipelineStep
  <1>2. ASSUME NEW r \in Requests, NEW o \in Orgs, submit(r, o) PROVE SpendIInv'
    <2>1. /\ ~Exists(r) /\ UNCHANGED <<recorded, run, billed, lost, purged>>
          /\ \A x \in Requests : x # r => rows'[x] = rows[x]
      BY <1>2 DEF submit, Exists, spendHistory, RoutingIInv, PipelineTypeOK, RowType
    <2>2. RowsStay
      BY <2>1, OpenRun DEF RowsStay
    <2>3. recorded[r] = NoTokens
      BY <2>1 DEF RoutingIInv, SubmittedHasOrg
    <2> QED BY <2>1, <2>2, <2>3, SpendFrame DEF NoTokens
  <1>3. ASSUME NEW r \in Requests, resolve(r) PROVE SpendIInv'
    <2>1. /\ UNCHANGED <<recorded, run, billed, lost, purged>>
          /\ \A x \in Requests : rows'[x].org = rows[x].org
      BY <1>3 DEF resolve, spendHistory, RoutingIInv, PipelineTypeOK, RowType, RowRecords
    <2>2. RowsStay
      BY <2>1, OpenRun DEF RowsStay
    <2> QED BY <2>1, <2>2, SpendFrame
  <1>4. ASSUME UNCHANGED <<rows, recorded, run, billed, lost, purged>> PROVE SpendIInv'
    <2>1. RowsStay
      BY <1>4 DEF RowsStay
    <2> QED BY <1>4, <2>1, SpendFrame
  <1>5. ASSUME NEW o \in Orgs, NEW s \in SettingsValues, operatorEdits(o, s) PROVE SpendIInv'
    BY <1>4, <1>5 DEF operatorEdits, spendHistory
  <1>6. CASE UNCHANGED pipelineVars
    BY <1>4, <1>6 DEF pipelineVars, spendHistory
  <1> QED BY <1>1, <1>2, <1>3, <1>5, <1>6, MidnightSpends, PurgeSpends DEF Next

-----------------------------------------------------------------------------
\* What the live runs of some orgs have spent today.
SpentOn(S) ==
    [w \in Workers |-> IF run[w].provider = "live" /\ Org(w) \in S THEN SpentBy(run[w]) ELSE 0]

\* Accounted for several orgs at once.
AccountedFor(S) ==
    Total(billed, S) = Total(Live, S) + Total(SpentOn(S), Workers) + Total(lost, S)
                           + Total(PurgedLive, S)

LEMMA OneOrgMore ==
    ASSUME RoutingIInv, SpendIInv, NEW S \in SUBSET Orgs, NEW o \in Orgs, o \notin S,
           AccountedFor(S)
    PROVE  AccountedFor(S \cup {o})
  <1> DEFINE T == S \cup {o}
  <1>1. IsFiniteSet(S)
    BY FS_Subset
  <1>2. \A x \in Orgs : /\ billed[x] \in Nat /\ lost[x] \in Nat
                        /\ Live[x] \in Nat /\ Live[x] = Sums[x]["live"]
                        /\ PurgedLive[x] \in Nat /\ PurgedLive[x] = purged[x]["live"]
    BY LiveType, PurgedType DEF SpendIInv, SpendType
  <1>3. /\ Total(billed, T) = Total(billed, S) + billed[o]
        /\ Total(lost, T) = Total(lost, S) + lost[o]
        /\ Total(Live, T) = Total(Live, S) + Live[o]
        /\ Total(PurgedLive, T) = Total(PurgedLive, S) + PurgedLive[o]
    BY <1>1, <1>2, TotalAdd
  <1>4. Total(SpentOn(T), Workers) = Total(SpentOn(S), Workers) + Total(Spent(o), Workers)
    <2>1. \A w \in Workers : /\ SpentOn(S)[w] \in Nat /\ Spent(o)[w] \in Nat
                             /\ SpentOn(T)[w] \in Nat
                             /\ \/ SpentOn(S)[w] = 0 /\ SpentOn(T)[w] = Spent(o)[w]
                                \/ Spent(o)[w] = 0 /\ SpentOn(T)[w] = SpentOn(S)[w]
      BY RunNumbers DEF SpentOn, Spent, Of, SpendIInv
    <2> QED BY <2>1, TotalOfBoth
  <1>5. /\ Total(billed, S) \in Nat /\ Total(lost, S) \in Nat /\ Total(Live, S) \in Nat
        /\ Total(PurgedLive, S) \in Nat
    BY <1>1, <1>2, UnitsFinite
  <1>6. Total(SpentOn(S), Workers) \in Nat /\ Total(Spent(o), Workers) \in Nat
    <2>1. \A w \in Workers : SpentOn(S)[w] \in Nat
      BY RunNumbers DEF SpentOn, SpendIInv
    <2> QED BY <2>1, UnitsFinite, NumbersType DEF NumbersOK, SpendIInv
  <1>7. billed[o] = Live[o] + Total(Spent(o), Workers) + lost[o] + PurgedLive[o]
    BY <1>2 DEF SpendIInv, Accounted
  <1>8. Total(billed, S) = Total(Live, S) + Total(SpentOn(S), Workers) + Total(lost, S)
                               + Total(PurgedLive, S)
    BY DEF AccountedFor
  <1>9. /\ billed[o] \in Nat /\ lost[o] \in Nat /\ Live[o] \in Nat /\ PurgedLive[o] \in Nat
    BY <1>2
  <1> HIDE DEF T
  <1>10. Total(billed, T) = Total(Live, T) + Total(SpentOn(T), Workers) + Total(lost, T)
                                + Total(PurgedLive, T)
    BY <1>3, <1>4, <1>5, <1>6, <1>7, <1>8, <1>9
  <1> QED BY <1>10 DEF AccountedFor, T

\* Were there orgs that are not accounted for together, take as few as can be.
LEMMA AllAccounted ==
    ASSUME RoutingIInv, SpendIInv
    PROVE  AccountedFor(Orgs)
  <1> DEFINE Bad == {S \in SUBSET Orgs : ~AccountedFor(S)}
             R == StrictSubsetOrdering(Orgs)
  <1>1. AccountedFor({})
    <2>1. /\ Total(billed, {}) = 0 /\ Total(Live, {}) = 0 /\ Total(lost, {}) = 0
          /\ Total(PurgedLive, {}) = 0
      BY UnitsEmpty
    <2>2. Total(SpentOn({}), Workers) = 0
      <3>1. \A w \in Workers : SpentOn({})[w] = 0
        BY DEF SpentOn
      <3> QED BY <3>1, TotalOfZeros
    <2> QED BY <2>1, <2>2 DEF AccountedFor
  <1>2. Bad = {}
    <2> SUFFICES ASSUME Bad # {} PROVE FALSE
      OBVIOUS
    <2>1. FiniteSubsetsOf(Orgs) = SUBSET Orgs
      BY FS_FiniteSubsetsOfFinite
    <2>2. IsWellFoundedOn(R, SUBSET Orgs)
      BY <2>1, FS_StrictSubsetOrderingWellFounded
    <2>3. Bad \subseteq SUBSET Orgs
      OBVIOUS
    <2>4. \E S \in Bad : \A U \in Bad : ~(<<U, S>> \in R)
      <3> HIDE DEF R, Bad
      <3> QED BY <2>2, <2>3, WFMin
    <2>5. PICK S \in Bad : \A U \in Bad : ~(<<U, S>> \in R)
      BY <2>4
    <2>6. S \in SUBSET Orgs /\ S # {} /\ ~AccountedFor(S)
      BY <1>1
    <2>7. PICK o \in S : TRUE
      BY <2>6
    <2>8. <<S \ {o}, S>> \in R
      BY <2>6 DEF StrictSubsetOrdering
    <2>9. S \ {o} \notin Bad
      BY <2>5, <2>8
    <2>10. AccountedFor(S \ {o})
      BY <2>6, <2>9
    <2>11. AccountedFor((S \ {o}) \cup {o})
      BY <2>6, <2>10, OneOrgMore
    <2>12. (S \ {o}) \cup {o} = S
      OBVIOUS
    <2> QED BY <2>6, <2>11, <2>12
  <1> QED BY <1>2

LEMMA BoundFollows ==
    ASSUME RoutingIInv, SpendIInv
    PROVE  SpendIsBounded
  <1> DEFINE all == RunCost * Cardinality(Workers)
  <1>1. all \in Nat
    BY FS_CardinalityType, CostType
  <1>2. RunsSpend
    BY DEF SpendIInv
  <1>3. ASSUME NEW o \in Orgs
        PROVE  billed[o] < DailyTokenBudget[o] + all + lost[o] + purged[o]["live"]
    <2> DEFINE s == Total(Spent(o), Workers)
               h == Total(Held(o), Workers)
    <2>1. s \in Nat /\ h \in Nat
      BY <1>2, NumbersType DEF NumbersOK
    <2>2. s <= h
      <3>1. \A w \in Workers : /\ Spent(o)[w] \in Nat /\ Held(o)[w] \in Nat
                               /\ Spent(o)[w] <= Held(o)[w]
        BY <1>2, RunNumbers DEF Spent, Held
      <3> QED BY <3>1, TotalGrows
    <2>3. billed[o] = Sums[o]["live"] + s + lost[o] + purged[o]["live"]
      BY DEF SpendIInv, Accounted
    <2>4. Sums[o]["live"] + h < DailyTokenBudget[o] + all
      BY DEF SpendIInv, OrgChecked
    <2>5. /\ billed[o] \in Nat /\ Sums[o]["live"] \in Nat /\ DailyTokenBudget[o] \in Nat
          /\ lost[o] \in Nat /\ purged[o]["live"] \in Nat
      BY LiveType DEF SpendIInv, SpendType
    <2> HIDE DEF s, h, all
    <2> QED BY <1>1, <2>1, <2>2, <2>3, <2>4, <2>5
  <1>4. SumOver(billed) < SpendCeiling + all + SumOver(lost) + SumOver(PurgedLive)
    <2> DEFINE s == Total(SpentOn(Orgs), Workers)
               h == Total(HeldByAll(0), Workers)
    <2>1. \A w \in Workers : SpentOn(Orgs)[w] \in Nat /\ SpentOn(Orgs)[w] <= HeldByAll(0)[w]
                             /\ HeldByAll(0)[w] \in Nat
      <3> SUFFICES ASSUME NEW w \in Workers
                   PROVE  SpentOn(Orgs)[w] \in Nat /\ SpentOn(Orgs)[w] <= HeldByAll(0)[w]
                          /\ HeldByAll(0)[w] \in Nat
        OBVIOUS
      <3>1. SpentBy(run[w]) \in Nat /\ SpentBy(run[w]) <= RunCost /\ HeldByAll(0)[w] \in Nat
        BY <1>2, RunNumbers, CostType DEF HeldByAll
      <3>2. SpentBy(run[w]) # 0 => HeldByAll(0)[w] = RunCost
        <4>1. SpentBy(run[w]) # 0 => Cleared(w, 0)
          BY <1>2 DEF SpentBy, RunsSpend, Spends, Cleared, PassedBudget, At
        <4> QED BY <4>1 DEF HeldByAll
      <3> QED BY <3>1, <3>2 DEF SpentOn
    <2>2. s \in Nat /\ h \in Nat /\ s <= h
      BY <2>1, UnitsFinite, TotalGrows
    <2>3. SumOver(billed) = SumOver(Live) + s + SumOver(lost) + SumOver(PurgedLive)
      BY AllAccounted DEF AccountedFor, SumOver
    <2>4. SumOver(Live) + h < SpendCeiling + all
      BY DEF SpendIInv, AllChecked
    <2>5. /\ SumOver(billed) \in Nat /\ SumOver(lost) \in Nat /\ SumOver(Live) \in Nat
          /\ SumOver(PurgedLive) \in Nat
      <3>1. \A o \in Orgs : billed[o] \in Nat /\ lost[o] \in Nat
        BY DEF SpendIInv, SpendType
      <3>2. SumOver(billed) \in Nat /\ SumOver(lost) \in Nat
        BY <3>1, UnitsFinite DEF SumOver
      <3> QED BY <3>2, LiveType, PurgedType DEF SpendIInv
    <2> HIDE DEF s, h, all
    <2> QED BY <1>1, <2>2, <2>3, <2>4, <2>5
  <1> QED BY <1>3, <1>4 DEF SpendIsBounded

\* ADR-0023 5: what an org, and all of them, are charged in a day is bounded by
\* the thresholds of layers 2 and 3, a run of every worker, and what no draft of
\* today shows, being lost or purged: for any number of workers, orgs, requests
\* and attempts.
THEOREM SpendBounded == Spec => []SpendIsBounded
  <1>1. RoutingIInv /\ SpendIInv => SpendIsBounded
    BY BoundFollows
  <1>2. RoutingIInv /\ RoutingIInv' /\ SpendIInv /\ [Next]_pipelineVars => SpendIInv'
    BY SpendNext
  <1> QED BY <1>1, <1>2, RoutingInit, RoutingStep, SpendInit, PTL DEF Spec

\* A run of today is on the killswitch's provider for what its own org or all of
\* them have used, purged since or not, never for what another org has.
THEOREM Downgraded == Spec => []DowngradeIsDeserved
  <1>1. SpendIInv => DowngradeIsDeserved
    BY DEF SpendIInv, OwnDowngrades, DowngradeIsDeserved, Sums
  <1>2. RoutingIInv /\ RoutingIInv' /\ SpendIInv /\ [Next]_pipelineVars => SpendIInv'
    BY SpendNext
  <1> QED BY <1>1, <1>2, RoutingInit, RoutingStep, SpendInit, PTL DEF Spec
=============================================================================
