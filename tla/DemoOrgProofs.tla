---------------------------- MODULE DemoOrgProofs ----------------------------
(***************************************************************************)
(* Theorems about the demo org for any number of seeds, purges, visitors   *)
(* and API clients at once.                                                *)
(***************************************************************************)
EXTENDS DemoOrg, SubsequenceProofs, FiniteSetTheorems, TLAPS

SettingsKnown == settings \in [Orgs -> {"absent", "old", "seed", "operator"}]

\* A call touches the requests alone, and those only where it inserts.
LEMMA ClientTouches ==
    ASSUME NEW c \in Clients, ClientStep(c) \/ callFails(c, faults)
    PROVE  /\ UNCHANGED <<settings, owners, documents, drafts, actions>>
           /\ \/ UNCHANGED requests
              \/ insertSubmission(c)
              \/ \E h \in behind : h.by = c /\ insertBehind(h)
  <1>1. CASE VisitorStep(c) \/ ApiClientStep(c)
    BY <1>1 DEF VisitorStep, ApiClientStep, solveTurnstile, submitPublicRequest, verifyForm,
                postWithKey, verifyKey, revokeKey, tables
  <1>2. CASE insertSubmission(c) \/ enqueueSubmission(c) \/ redirect(c) \/ callFails(c, faults)
    BY <1>2 DEF insertSubmission, enqueueSubmission, redirect, callFails, tables
  <1>3. ASSUME NEW h \in behind, verifyBehind(h) PROVE UNCHANGED tables
    BY <1>3 DEF verifyBehind
  <1>4. ASSUME NEW h \in behind, insertBehind(h)
        PROVE  UNCHANGED <<settings, owners, documents, drafts, actions>>
    BY <1>4 DEF insertBehind
  <1> QED BY <1>1, <1>2, <1>3, <1>4 DEF ClientStep, tables

\* What a step does to the settings: a new row or the backfill puts the seed's
\* value where there is none, or an operator edits.
LEMMA SettingsEffect ==
    ASSUME [Next]_demoVars
    PROVE  \/ UNCHANGED settings
           \/ \E o : settings[o] # "operator" /\ settings' = [settings EXCEPT ![o] = "seed"]
           \/ \E o \in Orgs : settings' = [settings EXCEPT ![o] = "operator"]
  <1>1. ASSUME NEW s \in Seeders, SeedStep(s) \/ SeedAgain(s) \/ SeedDies(s)
        PROVE  \/ UNCHANGED settings
               \/ \E o : settings[o] # "operator" /\ settings' = [settings EXCEPT ![o] = "seed"]
    <2>1. CASE upsertOrg(s)
      BY <2>1 DEF upsertOrg, HasOrg
    <2>2. CASE backfillSettingsKey(s)
      BY <2>2 DEF backfillSettingsKey, LacksKey
    <2> QED
      BY <1>1, <2>1, <2>2 DEF SeedStep, SeedAgain, SeedDies, upsertOwner, upsertDocument,
                              insertRequest, insertDraft, insertAction, ForeignKeyFails, tables
  <1>2. ASSUME NEW j \in Jobs, startPurge(j) \/ selectStale(j) \/ deleteBatch(j) \/ purgeDies(j)
        PROVE  UNCHANGED settings
    BY <1>2 DEF startPurge, selectStale, deleteBatch, purgeDies, DeleteRequests, tables
  <1>3. ASSUME NEW c \in Clients, ClientStep(c) \/ callFails(c, faults)
        PROVE  UNCHANGED settings
    BY <1>3, ClientTouches
  <1>4. ASSUME NEW o \in Orgs, operatorEdits(o)
        PROVE  settings' = [settings EXCEPT ![o] = "operator"]
    BY <1>4 DEF operatorEdits
  <1>5. CASE UNCHANGED demoVars
    BY <1>5 DEF demoVars, tables
  <1> QED BY <1>1, <1>2, <1>3, <1>4, <1>5 DEF Next

\* seed.ts:184-188: an operator who has edited the descriptions keeps theirs,
\* however many seeds run again or at once.
THEOREM OperatorKeeps == Spec => OperatorKeepsSettings
  <1>1. Init => SettingsKnown
    BY DEF Init, SettingsKnown
  <1>2. SettingsKnown /\ [Next]_demoVars => SettingsKnown'
    BY SettingsEffect DEF SettingsKnown
  <1>3. SettingsKnown /\ [Next]_demoVars =>
            \A o \in Orgs : settings[o] = "operator" => settings'[o] = "operator"
    BY SettingsEffect DEF SettingsKnown
  <1> QED BY <1>1, <1>2, <1>3, PTL DEF Spec, OperatorKeepsSettings

-----------------------------------------------------------------------------
ClientSteps == {"form", "posted", "admitted", "inserted", "queued", "tracking"}

ClientRecord == [pc : ClientSteps, slug : Orgs, org : Orgs, rows : Nat]

Handlers == [by : Clients, nr : Nat, pc : {"posted", "admitted"}, org : Orgs]

ClientTypeOK ==
    /\ client \in [Clients -> ClientRecord]
    /\ behind \subseteq Handlers /\ IsFiniteSet(behind)
    /\ faults \in Nat

\* A row is among those counted, and its client still waits for the answer.
Counted(pc) == IF pc \in {"inserted", "queued", "tracking"} THEN 1 ELSE 0

BehindOf(c) == {h \in behind : h.by = c}

\* Each row but the one its client waits for has failed, and so has each call
\* whose handler may still insert one.
RowsArePaid ==
    \A c \in Clients :
        client[c].rows + Cardinality(BehindOf(c)) <= faults + Counted(client[c].pc)

\* What was admitted is for the org addressed, and the key's.
AdmittedToOwnOrg ==
    /\ \A c \in Clients :
          client[c].pc \in {"admitted", "inserted", "queued", "tracking"} =>
              /\ client[c].org = client[c].slug
              /\ c \in ApiClients => KeyOrg[c] = client[c].org
    /\ \A h \in behind : h.pc = "admitted" /\ h.by \in ApiClients => KeyOrg[h.by] = h.org

ClientIInv == ClientTypeOK /\ RowsArePaid /\ AdmittedToOwnOrg

LEMMA ClientInit == Init => ClientIInv
  <1> SUFFICES ASSUME Init PROVE ClientIInv
    OBVIOUS
  <1>1. /\ client = [c \in Clients |-> [pc |-> "form", slug |-> DemoOrg, org |-> DemoOrg, rows |-> 0]]
        /\ behind = {} /\ faults = 0
    BY DEF Init, SubmissionInit
  <1>2. ClientTypeOK /\ AdmittedToOwnOrg
    BY <1>1, TablesAssumption, FS_EmptySet
    DEF ClientTypeOK, AdmittedToOwnOrg, ClientRecord, ClientSteps
  <1>3. RowsArePaid
    <2>1. \A c : BehindOf(c) = {}
      BY <1>1 DEF BehindOf
    <2>2. Cardinality({}) = 0
      BY FS_EmptySet
    <2> QED BY <1>1, <2>1, <2>2 DEF RowsArePaid, Counted
  <1> QED BY <1>2, <1>3 DEF ClientIInv

LEMMA BehindIsFinite ==
    ASSUME ClientTypeOK, NEW c
    PROVE  IsFiniteSet(BehindOf(c)) /\ Cardinality(BehindOf(c)) \in Nat
  <1>1. IsFiniteSet(BehindOf(c))
    BY FS_Subset DEF ClientTypeOK, BehindOf
  <1> QED BY <1>1, FS_CardinalityType

\* A step of c leaves every other client, and its handlers, as they were.
LEMMA ClientFrame ==
    ASSUME ClientIInv, NEW c \in Clients, NEW n \in ClientRecord,
           client' = [client EXCEPT ![c] = n], faults' \in {faults, faults + 1},
           behind' \subseteq Handlers, IsFiniteSet(behind'),
           \A d \in Clients : d # c => BehindOf(d)' = BehindOf(d),
           n.rows + Cardinality(BehindOf(c)') <= faults' + Counted(n.pc),
           n.pc \in {"admitted", "inserted", "queued", "tracking"} =>
               n.org = n.slug /\ (c \in ApiClients => KeyOrg[c] = n.org),
           \A h \in behind' : h.pc = "admitted" /\ h.by \in ApiClients => KeyOrg[h.by] = h.org
    PROVE  ClientIInv'
  <1>1. /\ client'[c] = n /\ client' \in [Clients -> ClientRecord]
        /\ \A d \in Clients : d # c => client'[d] = client[d]
        /\ faults \in Nat /\ faults' \in Nat /\ faults <= faults'
    BY DEF ClientIInv, ClientTypeOK
  <1>2. ClientTypeOK'
    BY <1>1 DEF ClientTypeOK
  <1>3. ASSUME NEW d \in Clients, d # c
        PROVE  client'[d].rows + Cardinality(BehindOf(d)') <= faults' + Counted(client'[d].pc)
    <2>1. client'[d] = client[d] /\ BehindOf(d)' = BehindOf(d)
      BY <1>1, <1>3
    <2>2. client[d].rows + Cardinality(BehindOf(d)) <= faults + Counted(client[d].pc)
      BY DEF ClientIInv, RowsArePaid
    <2>3. client[d].rows \in Nat /\ Cardinality(BehindOf(d)) \in Nat /\ Counted(client[d].pc) \in Nat
      BY BehindIsFinite DEF ClientIInv, ClientTypeOK, ClientRecord, Counted
    <2> QED BY <1>1, <2>1, <2>2, <2>3
  <1>4. RowsArePaid'
    <2>1. \A d \in Clients :
              client'[d].rows + Cardinality(BehindOf(d)') <= faults' + Counted(client'[d].pc)
      BY <1>1, <1>3
    <2> QED BY <2>1 DEF RowsArePaid, Counted
  <1>5. AdmittedToOwnOrg'
    BY <1>1 DEF ClientIInv, AdmittedToOwnOrg
  <1> QED BY <1>2, <1>4, <1>5 DEF ClientIInv

\* Where a client goes on, and at most loses handlers.
LEMMA ClientMoves ==
    ASSUME ClientIInv, NEW c \in Clients, NEW n \in ClientRecord,
           client' = [client EXCEPT ![c] = n], UNCHANGED faults,
           behind' \in {behind, behind \ Unverified(c)},
           n.rows + Counted(client[c].pc) <= client[c].rows + Counted(n.pc),
           n.pc \in {"admitted", "inserted", "queued", "tracking"} =>
               n.org = n.slug /\ (c \in ApiClients => KeyOrg[c] = n.org)
    PROVE  ClientIInv'
  <1>0. ClientTypeOK /\ RowsArePaid /\ AdmittedToOwnOrg
    BY DEF ClientIInv
  <1>1. behind' \subseteq behind /\ \A d \in Clients : d # c => BehindOf(d)' = BehindOf(d)
    BY DEF BehindOf, Unverified
  <1>2. behind' \subseteq Handlers /\ IsFiniteSet(behind')
    BY <1>0, <1>1, FS_Subset DEF ClientTypeOK
  <1>3. BehindOf(c)' \subseteq BehindOf(c)
    BY <1>1 DEF BehindOf
  <1>4. /\ IsFiniteSet(BehindOf(c)') /\ Cardinality(BehindOf(c)') \in Nat
        /\ Cardinality(BehindOf(c)') <= Cardinality(BehindOf(c)) /\ Cardinality(BehindOf(c)) \in Nat
    BY <1>0, <1>3, BehindIsFinite, FS_Subset, FS_CardinalityType
  <1>5. /\ client[c].rows \in Nat /\ n.rows \in Nat /\ faults \in Nat
        /\ Counted(client[c].pc) \in Nat /\ Counted(n.pc) \in Nat
        /\ client[c].rows + Cardinality(BehindOf(c)) <= faults + Counted(client[c].pc)
    BY <1>0 DEF ClientTypeOK, ClientRecord, RowsArePaid, Counted
  <1>6. n.rows + Cardinality(BehindOf(c)') <= faults' + Counted(n.pc)
    BY <1>4, <1>5
  <1>7. \A h \in behind' : h.pc = "admitted" /\ h.by \in ApiClients => KeyOrg[h.by] = h.org
    BY <1>0, <1>1 DEF AdmittedToOwnOrg
  <1> QED BY <1>1, <1>2, <1>6, <1>7, ClientFrame

\* The steps of a client that do not fail.
LEMMA ClientStepKeeps ==
    ASSUME ClientIInv, NEW c \in Clients, UNCHANGED faults,
           \/ c \in Visitors /\ VisitorStep(c)
           \/ c \in ApiClients /\ ApiClientStep(c)
           \/ insertSubmission(c) \/ enqueueSubmission(c) \/ redirect(c)
    PROVE  ClientIInv'
  <1>0. /\ client \in [Clients -> ClientRecord] /\ client[c] \in ClientRecord
        /\ client[c].slug \in Orgs /\ client[c].org \in Orgs /\ client[c].rows \in Nat
        /\ client[c].pc \in {"admitted", "inserted", "queued", "tracking"} =>
               client[c].org = client[c].slug /\ (c \in ApiClients => KeyOrg[c] = client[c].org)
    BY DEF ClientIInv, ClientTypeOK, AdmittedToOwnOrg, ClientRecord
  <1>1. ASSUME UNCHANGED <<client, behind>> PROVE ClientIInv'
    BY <1>1 DEF ClientIInv, ClientTypeOK, RowsArePaid, AdmittedToOwnOrg, BehindOf, Counted
  <1>2. CASE solveTurnstile(c) \/ revokeKey(c)
    BY <1>1, <1>2 DEF solveTurnstile, revokeKey
  <1> DEFINE Now(pc, slug, org, rows) == [pc |-> pc, slug |-> slug, org |-> org, rows |-> rows]
  <1>3. ASSUME NEW slug \in Orgs, submitPublicRequest(c, slug) \/ postWithKey(c, slug)
        PROVE  ClientIInv'
    <2> DEFINE new == Now("posted", slug, client[c].org, client[c].rows)
    <2>1. client' = [client EXCEPT ![c] = new]
      BY <1>0, <1>3 DEF submitPublicRequest, postWithKey, ClientRecord
    <2>2. client[c].pc = "form" /\ behind' = behind
      BY <1>3 DEF submitPublicRequest, postWithKey, NotPending
    <2>3. new \in ClientRecord /\ new.pc = "posted" /\ new.rows = client[c].rows
      BY <1>0 DEF ClientRecord, ClientSteps
    <2> HIDE DEF new
    <2>4. new.rows + Counted(client[c].pc) <= client[c].rows + Counted(new.pc)
      BY <1>0, <2>2, <2>3 DEF Counted
    <2> QED BY <2>1, <2>2, <2>3, <2>4, ClientMoves
  <1>4. ASSUME showError(c), client[c].pc = "posted", behind' \in {behind, behind \ Unverified(c)}
        PROVE  ClientIInv'
    <2> DEFINE new == Now("form", client[c].slug, client[c].org, client[c].rows)
    <2>1. client' = [client EXCEPT ![c] = new]
      <3>1. client' = [client EXCEPT ![c] = [client[c] EXCEPT !.pc = "form"]]
        BY <1>0, <1>4 DEF showError
      <3>2. [client[c] EXCEPT !.pc = "form"] = new
        BY <1>0 DEF ClientRecord
      <3> QED BY <3>1, <3>2
    <2>3. new \in ClientRecord /\ new.pc = "form" /\ new.rows = client[c].rows
      BY <1>0 DEF ClientRecord, ClientSteps
    <2> HIDE DEF new
    <2>4. new.rows + Counted(client[c].pc) <= client[c].rows + Counted(new.pc)
      BY <1>0, <1>4, <2>3 DEF Counted
    <2> QED BY <1>4, <2>1, <2>3, <2>4, ClientMoves
  <1>5. ASSUME NEW org \in Orgs, admit(c, org), client[c].pc = "posted", org = client[c].slug,
               c \in ApiClients => KeyOrg[c] = org, behind' \in {behind, behind \ Unverified(c)}
        PROVE  ClientIInv'
    <2> DEFINE new == [client[c] EXCEPT !.pc = "admitted", !.org = org]
    <2>1. client' = [client EXCEPT ![c] = new]
      BY <1>0, <1>5 DEF admit
    <2>3. /\ new \in ClientRecord /\ new.pc = "admitted" /\ new.rows = client[c].rows
          /\ new.org = org /\ new.slug = client[c].slug
      BY <1>0 DEF ClientRecord, ClientSteps
    <2> HIDE DEF new
    <2>4. new.rows + Counted(client[c].pc) <= client[c].rows + Counted(new.pc)
      BY <1>0, <1>5, <2>3 DEF Counted
    <2> QED BY <1>5, <2>1, <2>3, <2>4, ClientMoves
  <1>6. CASE c \in Visitors /\ verifyForm(c)
    BY <1>0, <1>4, <1>5, <1>6, ClientsAssumption DEF verifyForm
  <1>7. CASE verifyKey(c)
    BY <1>0, <1>4, <1>5, <1>7 DEF verifyKey, KeyOpens
  <1>8. CASE insertSubmission(c)
    <2> DEFINE new == [client[c] EXCEPT !.pc = "inserted", !.rows = client[c].rows + 1]
    <2>1. client' = [client EXCEPT ![c] = new]
      BY <1>0, <1>8 DEF insertSubmission
    <2>2. client[c].pc = "admitted" /\ behind' = behind
      BY <1>8 DEF insertSubmission
    <2>3. /\ new \in ClientRecord /\ new.pc = "inserted" /\ new.rows = client[c].rows + 1
          /\ new.org = client[c].org /\ new.slug = client[c].slug
      <3>1. PICK rows \in Nat : rows = client[c].rows + 1
        BY <1>0
      <3>2. new = [client[c] EXCEPT !.pc = "inserted", !.rows = rows]
        BY <3>1
      <3> HIDE DEF new
      <3>3. /\ new \in ClientRecord /\ new.pc = "inserted" /\ new.rows = rows
            /\ new.org = client[c].org /\ new.slug = client[c].slug
        BY <1>0, <3>2 DEF ClientRecord, ClientSteps
      <3> QED BY <3>1, <3>3
    <2> HIDE DEF new
    <2>4. new.rows + Counted(client[c].pc) <= client[c].rows + Counted(new.pc)
      BY <1>0, <2>2, <2>3 DEF Counted
    <2> QED BY <1>0, <2>1, <2>2, <2>3, <2>4, ClientMoves
  <1>9. ASSUME NEW from \in {"inserted", "queued"}, NEW to \in {"queued", "tracking"},
               client[c].pc = from, client' = [client EXCEPT ![c].pc = to], UNCHANGED behind
        PROVE  ClientIInv'
    <2> DEFINE new == Now(to, client[c].slug, client[c].org, client[c].rows)
    <2>1. client' = [client EXCEPT ![c] = new]
      <3>1. client' = [client EXCEPT ![c] = [client[c] EXCEPT !.pc = to]]
        BY <1>0, <1>9
      <3>2. [client[c] EXCEPT !.pc = to] = new
        BY <1>0 DEF ClientRecord
      <3> QED BY <3>1, <3>2
    <2>3. /\ new \in ClientRecord /\ new.pc = to /\ new.rows = client[c].rows
          /\ new.org = client[c].org /\ new.slug = client[c].slug
      BY <1>0 DEF ClientRecord, ClientSteps
    <2> HIDE DEF new
    <2>4. new.rows + Counted(client[c].pc) <= client[c].rows + Counted(new.pc)
      BY <1>0, <1>9, <2>3 DEF Counted
    <2>5. new.org = new.slug /\ (c \in ApiClients => KeyOrg[c] = new.org)
      BY <1>0, <1>9, <2>3
    <2>6. behind' = behind /\ new \in ClientRecord
      BY <1>9, <2>3
    <2> QED BY <2>1, <2>4, <2>5, <2>6, ClientMoves
  <1>10. CASE enqueueSubmission(c) \/ redirect(c)
    BY <1>9, <1>10 DEF enqueueSubmission, redirect
  <1> QED BY <1>2, <1>3, <1>6, <1>7, <1>8, <1>10 DEF VisitorStep, ApiClientStep

\* A failure the client is told to retry pays for the row it may leave, or for
\* the one its handler may still insert.
LEMMA ClientFailureKeeps ==
    ASSUME ClientIInv, NEW c \in Clients, callFails(c, faults), Fault
    PROVE  ClientIInv'
  <1>0. /\ client \in [Clients -> ClientRecord] /\ client[c] \in ClientRecord
        /\ client[c].rows \in Nat /\ client[c].slug \in Orgs /\ ClientTypeOK
        /\ faults \in Nat /\ faults' = faults + 1
        /\ client[c].rows + Cardinality(BehindOf(c)) <= faults + Counted(client[c].pc)
        /\ IsFiniteSet(BehindOf(c)) /\ Cardinality(BehindOf(c)) \in Nat
        /\ \A h \in behind : h.pc = "admitted" /\ h.by \in ApiClients => KeyOrg[h.by] = h.org
    BY BehindIsFinite
    DEF ClientIInv, ClientTypeOK, RowsArePaid, AdmittedToOwnOrg, Fault, ClientRecord
  <1> DEFINE new == [pc |-> "form", slug |-> client[c].slug, org |-> client[c].org,
                     rows |-> client[c].rows]
             left == [by |-> c, nr |-> faults, pc |-> client[c].pc, org |-> client[c].slug]
  <1>1. client' = [client EXCEPT ![c] = new]
    <2>1. client' = [client EXCEPT ![c] = [client[c] EXCEPT !.pc = "form"]]
      BY <1>0 DEF callFails, showError
    <2>2. [client[c] EXCEPT !.pc = "form"] = new
      BY <1>0 DEF ClientRecord
    <2> QED BY <2>1, <2>2
  <1>2. new \in ClientRecord /\ new.pc = "form" /\ new.rows = client[c].rows
    BY <1>0 DEF ClientRecord, ClientSteps
  <1> HIDE DEF new
  <1>3. CASE behind' = behind
    <2>1. \A d : BehindOf(d)' = BehindOf(d)
      BY <1>3 DEF BehindOf
    <2>2. new.rows + Cardinality(BehindOf(c)') <= faults' + Counted(new.pc)
      BY <1>0, <1>2, <2>1 DEF Counted
    <2> QED BY <1>0, <1>1, <1>2, <1>3, <2>1, <2>2, ClientFrame DEF ClientTypeOK
  <1>4. CASE MayGoOn(c) /\ behind' = behind \cup {left}
    <2>1. client[c].pc \in {"posted", "admitted"}
      BY <1>4 DEF MayGoOn
    <2>2. left \in Handlers /\ left.by = c /\ left.pc = client[c].pc /\ left.org = client[c].slug
      BY <1>0, <2>1 DEF Handlers
    <2> HIDE DEF left
    <2>3. behind' \subseteq Handlers /\ IsFiniteSet(behind')
      BY <1>0, <1>4, <2>2, FS_AddElement DEF ClientTypeOK
    <2>4. \A d \in Clients : d # c => BehindOf(d)' = BehindOf(d)
      BY <1>4, <2>2 DEF BehindOf
    <2>5. BehindOf(c)' = BehindOf(c) \cup {left}
      BY <1>4, <2>2 DEF BehindOf
    <2>6. Cardinality(BehindOf(c)') \in Nat /\ Cardinality(BehindOf(c)') <= Cardinality(BehindOf(c)) + 1
      <3>1. Cardinality(BehindOf(c)') \in {Cardinality(BehindOf(c)), Cardinality(BehindOf(c)) + 1}
        BY <1>0, <2>5, FS_AddElement
      <3> QED BY <1>0, <3>1
    <2>7. new.rows + Cardinality(BehindOf(c)') <= faults' + Counted(new.pc)
      BY <1>0, <1>2, <2>1, <2>6 DEF Counted
    <2>8. left.pc = "admitted" /\ c \in ApiClients => KeyOrg[c] = left.org
      BY <2>2 DEF ClientIInv, AdmittedToOwnOrg
    <2>9. \A h \in behind' : h.pc = "admitted" /\ h.by \in ApiClients => KeyOrg[h.by] = h.org
      BY <1>0, <1>4, <2>2, <2>8
    <2> QED BY <1>0, <1>1, <1>2, <2>3, <2>4, <2>7, <2>9, ClientFrame
  <1> QED BY <1>3, <1>4 DEF callFails

\* A handler without a client verifies or inserts what that client posted.
LEMMA BehindStepKeeps ==
    ASSUME ClientIInv, NEW h \in behind, verifyBehind(h) \/ insertBehind(h), UNCHANGED faults
    PROVE  ClientIInv'
  <1> DEFINE c == h.by
  <1>0. /\ c \in Clients /\ h \in Handlers /\ h.org \in Orgs /\ h.nr \in Nat /\ ClientTypeOK
        /\ client \in [Clients -> ClientRecord] /\ client[c] \in ClientRecord
        /\ client[c].rows \in Nat /\ faults \in Nat
        /\ client[c].rows + Cardinality(BehindOf(c)) <= faults + Counted(client[c].pc)
        /\ \A g \in behind : g.pc = "admitted" /\ g.by \in ApiClients => KeyOrg[g.by] = g.org
        /\ client[c].pc \in {"admitted", "inserted", "queued", "tracking"} =>
               client[c].org = client[c].slug /\ (c \in ApiClients => KeyOrg[c] = client[c].org)
    BY DEF ClientIInv, ClientTypeOK, RowsArePaid, AdmittedToOwnOrg, Handlers, ClientRecord
  <1>1. /\ IsFiniteSet(BehindOf(c)) /\ Cardinality(BehindOf(c)) \in Nat /\ h \in BehindOf(c)
        /\ IsFiniteSet(BehindOf(c) \ {h})
        /\ Cardinality(BehindOf(c) \ {h}) = Cardinality(BehindOf(c)) - 1
    <2>1. IsFiniteSet(BehindOf(c)) /\ Cardinality(BehindOf(c)) \in Nat /\ h \in BehindOf(c)
      BY <1>0, BehindIsFinite DEF BehindOf
    <2> QED BY <2>1, FS_RemoveElement
  <1>2. CASE verifyBehind(h)
    <2> DEFINE admitted == [by |-> c, nr |-> h.nr, pc |-> "admitted", org |-> h.org]
    <2>1. h.pc = "posted" /\ [h EXCEPT !.pc = "admitted"] = admitted
      BY <1>0, <1>2 DEF verifyBehind, Handlers
    <2>2. admitted \in Handlers /\ admitted.by = c /\ admitted.org = h.org
      BY <1>0 DEF Handlers
    <2> HIDE DEF admitted
    <2>3. PICK gone \in {{h}, Unverified(c)}, left \in {{}, {admitted}} :
              /\ behind' = (behind \ gone) \cup left
              /\ left = {admitted} /\ c \in ApiClients => KeyOrg[c] = h.org
      <3>1. CASE c \in Visitors
        BY <1>2, <2>1, <3>1, ClientsAssumption DEF verifyBehind
      <3>2. CASE c \in ApiClients
        BY <1>2, <2>1, <3>2, ClientsAssumption DEF verifyBehind, KeyOpens
      <3> QED BY <1>0, <3>1, <3>2 DEF Clients
    <2>4. h \in gone /\ \A g \in gone : g.by = c
      BY <2>1, <2>3 DEF Unverified
    <2>5. behind' \subseteq behind \cup {admitted}
      BY <2>3
    <2>6. behind' \subseteq Handlers /\ IsFiniteSet(behind')
      BY <1>0, <2>2, <2>5, FS_AddElement, FS_Subset DEF ClientTypeOK
    <2>7. \A d \in Clients : d # c => BehindOf(d)' = BehindOf(d)
      BY <2>2, <2>3, <2>4 DEF BehindOf
    <2>8. BehindOf(c)' \subseteq (BehindOf(c) \ {h}) \cup {admitted}
      BY <2>3, <2>4 DEF BehindOf
    <2>9. /\ IsFiniteSet((BehindOf(c) \ {h}) \cup {admitted})
          /\ Cardinality((BehindOf(c) \ {h}) \cup {admitted}) <= Cardinality(BehindOf(c))
      <3> DEFINE B == BehindOf(c) \ {h}
      <3>1. IsFiniteSet(B) /\ Cardinality(B) = Cardinality(BehindOf(c)) - 1
        BY <1>1
      <3> HIDE DEF B
      <3>2. /\ IsFiniteSet(B \cup {admitted})
            /\ Cardinality(B \cup {admitted}) \in {Cardinality(B), Cardinality(B) + 1}
        BY <3>1, FS_AddElement
      <3>3. Cardinality(B \cup {admitted}) <= Cardinality(BehindOf(c))
        BY <1>1, <3>1, <3>2
      <3> QED BY <3>2, <3>3 DEF B
    <2>10. Cardinality(BehindOf(c)') \in Nat /\ Cardinality(BehindOf(c)') <= Cardinality(BehindOf(c))
      <3>1. /\ Cardinality(BehindOf(c)') <= Cardinality((BehindOf(c) \ {h}) \cup {admitted})
            /\ IsFiniteSet(BehindOf(c)')
        BY <2>8, <2>9, FS_Subset
      <3>2. Cardinality(BehindOf(c)') \in Nat /\ Cardinality((BehindOf(c) \ {h}) \cup {admitted}) \in Nat
        BY <2>9, <3>1, FS_CardinalityType
      <3> QED BY <1>1, <2>9, <3>1, <3>2
    <2>11. client' = [client EXCEPT ![c] = client[c]]
      BY <1>0, <1>2 DEF verifyBehind
    <2>12. client[c].rows + Cardinality(BehindOf(c)') <= faults' + Counted(client[c].pc)
      BY <1>0, <1>1, <2>10 DEF Counted
    <2>13. \A g \in behind' : g.pc = "admitted" /\ g.by \in ApiClients => KeyOrg[g.by] = g.org
      BY <1>0, <2>2, <2>3
    <2> QED BY <1>0, <2>6, <2>7, <2>11, <2>12, <2>13, ClientFrame
  <1>3. CASE insertBehind(h)
    <2> DEFINE new == [pc |-> client[c].pc, slug |-> client[c].slug, org |-> client[c].org,
                       rows |-> client[c].rows + 1]
    <2>1. client' = [client EXCEPT ![c] = new] /\ behind' = behind \ {h}
      <3>1. /\ client' = [client EXCEPT ![c] = [client[c] EXCEPT !.rows = client[c].rows + 1]]
            /\ behind' = behind \ {h}
        BY <1>0, <1>3 DEF insertBehind
      <3>2. [client[c] EXCEPT !.rows = client[c].rows + 1] = new
        BY <1>0 DEF ClientRecord
      <3> QED BY <3>1, <3>2
    <2>2. /\ new \in ClientRecord /\ new.pc = client[c].pc /\ new.rows = client[c].rows + 1
          /\ new.org = client[c].org /\ new.slug = client[c].slug
      BY <1>0 DEF ClientRecord
    <2> HIDE DEF new
    <2>3. behind' \subseteq Handlers /\ IsFiniteSet(behind')
      BY <1>0, <2>1, FS_Subset DEF ClientTypeOK
    <2>4. /\ \A d \in Clients : d # c => BehindOf(d)' = BehindOf(d)
          /\ BehindOf(c)' = BehindOf(c) \ {h}
      BY <2>1 DEF BehindOf
    <2>5. new.rows + Cardinality(BehindOf(c)') <= faults' + Counted(new.pc)
      BY <1>0, <1>1, <2>2, <2>4 DEF Counted
    <2> QED BY <1>0, <2>1, <2>2, <2>3, <2>4, <2>5, ClientFrame
  <1> QED BY <1>2, <1>3

LEMMA ClientIInvStep == ClientIInv /\ [Next]_demoVars => ClientIInv'
  <1> SUFFICES ASSUME ClientIInv, [Next]_demoVars PROVE ClientIInv'
    OBVIOUS
  <1>1. ASSUME UNCHANGED <<client, behind>>, faults' \in {faults, faults + 1} PROVE ClientIInv'
    <2>1. \A d : BehindOf(d)' = BehindOf(d)
      BY <1>1 DEF BehindOf
    <2>2. ASSUME NEW c \in Clients
          PROVE  client[c].rows + Cardinality(BehindOf(c)) <= faults' + Counted(client[c].pc)
      <3>1. client[c].rows \in Nat /\ Cardinality(BehindOf(c)) \in Nat /\ Counted(client[c].pc) \in Nat
        BY BehindIsFinite DEF ClientIInv, ClientTypeOK, ClientRecord, Counted
      <3>2. client[c].rows + Cardinality(BehindOf(c)) <= faults + Counted(client[c].pc)
        BY DEF ClientIInv, RowsArePaid
      <3>3. faults \in Nat
        BY DEF ClientIInv, ClientTypeOK
      <3> QED BY <1>1, <3>1, <3>2, <3>3
    <2>3. RowsArePaid'
      BY <1>1, <2>1, <2>2 DEF RowsArePaid, Counted
    <2> QED BY <1>1, <2>3 DEF ClientIInv, ClientTypeOK, AdmittedToOwnOrg
  <1>2. ASSUME NEW c \in Clients, ClientStep(c), UNCHANGED faults
        PROVE  ClientIInv'
    BY <1>2, ClientStepKeeps, BehindStepKeeps DEF ClientStep
  <1>3. ASSUME NEW c \in Clients, callFails(c, faults), Fault
        PROVE  ClientIInv'
    BY <1>3, ClientFailureKeeps
  <1> QED BY <1>1, <1>2, <1>3 DEF Next, Fault, demoVars, submissionVars

\* A client that stops at its first tracking page has one request, in the org
\* it addressed and its key belongs to, for any number of clients, orgs,
\* concurrent seeds and purges; a further one was paid for by a failed call.
THEOREM OneRequestEach == Spec => []OneRequestPerClient
  <1>1. ClientIInv => OneRequestPerClient
    <2> SUFFICES ASSUME ClientIInv, NEW c \in Clients PROVE client[c].rows <= 1 + faults
      BY DEF ClientIInv, AdmittedToOwnOrg, OneRequestPerClient
    <2>1. client[c].rows \in Nat /\ Cardinality(BehindOf(c)) \in Nat /\ faults \in Nat
      BY BehindIsFinite DEF ClientIInv, ClientTypeOK, ClientRecord
    <2> QED BY <2>1 DEF ClientIInv, RowsArePaid, Counted
  <1> QED BY <1>1, ClientInit, ClientIInvStep, PTL DEF Spec

-----------------------------------------------------------------------------
RowIds == Range(DEMO_REQUESTS) \cup (Clients \X Nat)

Row == [id : RowIds, org : Orgs, by : Seeders \cup Clients]

SeedSteps == {"org", "settings", "owner", "document", "request", "draft", "action"}

\* A seed is at a statement of one of its loops; where that is about one of
\* DEMO_REQUESTS, the org is the demo org.
SeedPlace(p) ==
    /\ p \in [at : SeedSteps \cup {"done", "failed"}, org : Nat, item : Nat]
    /\ p.at \in SeedSteps => p.org \in DOMAIN ORGS
    /\ p.at = "document" => p.item \in DOMAIN Files[ORGS[p.org]]
    /\ p.at \in {"request", "draft", "action"} =>
           p.item \in DOMAIN DEMO_REQUESTS /\ ORGS[p.org] = DemoOrg

SeedersType ==
    /\ seeder \in [Seeders -> [at : SeedSteps \cup {"done", "failed"}, org : Nat, item : Nat]]
    /\ \A s \in Seeders : SeedPlace(seeder[s])

Runs == [pc : {"idle", "select", "delete", "done", "failed"}, stale : SUBSET RowIds,
         batch : SUBSET RowIds, selectedCount : Nat, warned : BOOLEAN]

RowsType == requests \in Seq(Row)

JobsType == job \in [Jobs -> Runs]

\* No two rows have one id: the seed looks, and a client's ids are numbered.
IdsAreUnique ==
    \A i, k \in DOMAIN requests : requests[i].id = requests[k].id => i = k

ClientIdsAreCounted ==
    \A i \in DOMAIN requests, c \in Clients, n \in Nat :
        requests[i].id = <<c, n>> => n <= client[c].rows

RowsIInv == ClientIInv /\ SeedersType /\ RowsType /\ IdsAreUnique /\ ClientIdsAreCounted

-----------------------------------------------------------------------------
\* The loops of the seed stay within their bounds.
LEMMA NextOrgPlace ==
    ASSUME NEW i \in DOMAIN ORGS
    PROVE  SeedPlace(NextOrg(i))
  <1>1. Len(ORGS) \in Nat /\ DOMAIN ORGS = 1..Len(ORGS)
    BY TablesAssumption
  <1> QED BY <1>1 DEF NextOrg, Statement, SeedPlace, SeedSteps

LEMMA NextRequestPlace ==
    ASSUME NEW i \in DOMAIN ORGS, NEW k \in Nat
    PROVE  SeedPlace(NextRequest(i, k))
  <1>1. Len(DEMO_REQUESTS) \in Nat /\ DOMAIN DEMO_REQUESTS = 1..Len(DEMO_REQUESTS)
    BY SeedAssumption
  <1>2. i \in Nat
    BY TablesAssumption
  <1>3. CASE ORGS[i] = DemoOrg /\ k < Len(DEMO_REQUESTS)
    <2> DEFINE p == [at |-> "request", org |-> i, item |-> k + 1]
    <2>1. NextRequest(i, k) = p
      BY <1>3 DEF NextRequest, Statement
    <2>2. k + 1 \in DOMAIN DEMO_REQUESTS /\ k + 1 \in Nat
      BY <1>1, <1>3
    <2>3. SeedPlace(p)
      BY <1>2, <1>3, <2>2 DEF SeedPlace, SeedSteps
    <2> QED BY <2>1, <2>3
  <1> QED BY <1>3, NextOrgPlace DEF NextRequest

LEMMA NextDocumentPlace ==
    ASSUME NEW i \in DOMAIN ORGS, NEW k \in Nat
    PROVE  SeedPlace(NextDocument(i, k))
  <1>1. ORGS[i] \in Orgs /\ i \in Nat
    BY TablesAssumption DEF Orgs, Range
  <1>2. Len(Files[ORGS[i]]) \in Nat /\ DOMAIN Files[ORGS[i]] = 1..Len(Files[ORGS[i]])
    BY <1>1, TablesAssumption
  <1>3. CASE k < Len(Files[ORGS[i]])
    <2> DEFINE p == [at |-> "document", org |-> i, item |-> k + 1]
    <2>1. NextDocument(i, k) = p
      BY <1>3 DEF NextDocument, Statement
    <2>2. k + 1 \in DOMAIN Files[ORGS[i]] /\ k + 1 \in Nat
      BY <1>2, <1>3
    <2>3. SeedPlace(p)
      BY <1>1, <1>3, <2>2 DEF SeedPlace, SeedSteps
    <2> QED BY <2>1, <2>3
  <1> QED BY <1>3, NextRequestPlace DEF NextDocument

\* Any step of a seed leaves it at a place of its loops.
LEMMA SeedersStep ==
    ASSUME SeedersType, NEW s \in Seeders, NEW p, SeedPlace(p), GoTo(s, p)
    PROVE  SeedersType'
  <1>1. p \in [at : SeedSteps \cup {"done", "failed"}, org : Nat, item : Nat]
    BY DEF SeedPlace
  <1>2. seeder' = [seeder EXCEPT ![s] = p]
    BY DEF GoTo
  <1>3. /\ seeder' \in [Seeders -> [at : SeedSteps \cup {"done", "failed"}, org : Nat, item : Nat]]
        /\ \A t \in Seeders : seeder'[t] = IF t = s THEN p ELSE seeder[t]
    BY <1>1, <1>2 DEF SeedersType
  <1>4. \A t \in Seeders : SeedPlace(seeder[t])
    BY DEF SeedersType
  <1>5. \A t \in Seeders : SeedPlace(seeder'[t])
    BY <1>3, <1>4
  <1> QED BY <1>3, <1>5 DEF SeedersType, SeedPlace

\* The place a step of s goes to.
LEMMA SeedGoes ==
    ASSUME SeedersType, NEW s \in Seeders, SeedStep(s) \/ SeedAgain(s) \/ SeedDies(s)
    PROVE  \E p : SeedPlace(p) /\ GoTo(s, p)
  <1> DEFINE here == seeder[s]
  <1>0. SeedPlace(here)
    BY DEF SeedersType
  <1>1. CASE SeedAgain(s)
    <2>1. 1 \in DOMAIN ORGS
      BY TablesAssumption DEF Orgs, Range
    <2>2. SeedPlace(Statement("org", 1, 0))
      BY <2>1 DEF SeedPlace, SeedSteps, Statement
    <2> QED BY <1>1, <2>2 DEF SeedAgain
  <1>2. CASE SeedDies(s) \/ ForeignKeyFails(s)
    <2>1. SeedPlace(Statement("failed", 0, 0))
      BY DEF SeedPlace, SeedSteps, Statement
    <2> QED BY <1>2, <2>1 DEF SeedDies, ForeignKeyFails
  <1>3. CASE upsertOrg(s) \/ backfillSettingsKey(s)
    <2>1. here.org \in DOMAIN ORGS /\ here.org \in Nat
      BY <1>0, <1>3 DEF SeedPlace, SeedSteps, upsertOrg, backfillSettingsKey, At
    <2>2. \A at \in {"settings", "owner"} : SeedPlace(Statement(at, here.org, 0))
      BY <2>1 DEF SeedPlace, SeedSteps, Statement
    <2> QED BY <1>3, <2>2 DEF upsertOrg, backfillSettingsKey
  <1>4. CASE upsertOwner(s) \/ upsertDocument(s)
    <2>1. here.org \in DOMAIN ORGS /\ here.item \in Nat
      BY <1>0, <1>4 DEF SeedPlace, SeedSteps, upsertOwner, upsertDocument, At
    <2>2. SeedPlace(NextDocument(here.org, here.item)) /\ SeedPlace(NextDocument(here.org, 0))
      BY <2>1, NextDocumentPlace
    <2> QED BY <1>4, <2>2 DEF upsertOwner, upsertDocument
  <1>5. CASE insertRequest(s) \/ insertDraft(s) \/ insertAction(s)
    <2>1. /\ here \in [at : SeedSteps \cup {"done", "failed"}, org : Nat, item : Nat]
          /\ here.org \in DOMAIN ORGS /\ here.item \in Nat
          /\ here.item \in DOMAIN DEMO_REQUESTS /\ ORGS[here.org] = DemoOrg
      BY <1>0, <1>5 DEF SeedPlace, SeedSteps, insertRequest, insertDraft, insertAction, At
    <2>2. SeedPlace(NextRequest(here.org, here.item))
      BY <2>1, NextRequestPlace
    <2>3. \A at \in {"draft", "action"} : SeedPlace([here EXCEPT !.at = at])
      BY <2>1 DEF SeedPlace, SeedSteps
    <2> QED BY <1>5, <2>2, <2>3 DEF insertRequest, insertDraft, insertAction, AfterDraft
  <1> QED BY <1>1, <1>2, <1>3, <1>4, <1>5 DEF SeedStep

-----------------------------------------------------------------------------
\* A seed at its requests has one of them before it.
LEMMA ItemIsSeeded ==
    ASSUME SeedersType, NEW s \in Seeders, At(s, "request") \/ At(s, "draft") \/ At(s, "action")
    PROVE  Item(s) \in Range(DEMO_REQUESTS)
  BY DEF SeedersType, SeedPlace, At, Item, Range

-----------------------------------------------------------------------------
\* The rows a DELETE leaves.
RowsAfter(ids) == {i \in DOMAIN requests : requests[i].id \notin ids}

LEMMA DeletedRows ==
    ASSUME RowsType, NEW ids, requests' = Kept(requests, RowsAfter(ids))
    PROVE  /\ RowsType'
           /\ \A k \in DOMAIN requests' : \E i \in RowsAfter(ids) : requests'[k] = requests[i]
           /\ \A i \in RowsAfter(ids) : \E k \in DOMAIN requests' : requests'[k] = requests[i]
           /\ IdsAreUnique => IdsAreUnique'
  <1> DEFINE I == RowsAfter(ids)
  <1>1. requests \in Seq(Row) /\ I \subseteq DOMAIN requests
    BY DEF RowsType, RowsAfter
  <1> HIDE DEF I
  <1>2. requests' \in Seq(Row)
    BY <1>1, KeptType DEF I
  <1>3. \A k \in DOMAIN requests' : Kth(I, k) \in I /\ requests'[k] = requests[Kth(I, k)]
    BY <1>1, KeptFrom DEF I
  <1>4. \A i \in I : \E k \in DOMAIN requests' : requests'[k] = requests[i]
    BY <1>1, KeptAll DEF I
  <1>5. ASSUME IdsAreUnique, NEW k \in DOMAIN requests', NEW l \in DOMAIN requests',
               requests'[k].id = requests'[l].id
        PROVE  k = l
    <2>1. Kth(I, k) = Kth(I, l)
      BY <1>1, <1>3, <1>5 DEF IdsAreUnique
    <2>2. Kth(I, k) \in Nat
      BY <1>1, <1>3
    <2>3. k \in Nat /\ l \in Nat
      BY <1>2
    <2>4. k < l => Kth(I, k) < Kth(I, l)
      BY <1>1, KeptInOrder DEF I
    <2>5. l < k => Kth(I, l) < Kth(I, k)
      BY <1>1, KeptInOrder DEF I
    <2> QED BY <2>1, <2>2, <2>3, <2>4, <2>5
  <1> QED BY <1>2, <1>3, <1>4, <1>5 DEF I, RowsType, IdsAreUnique

LEMMA AppendedRows ==
    ASSUME RowsType, NEW row \in Row, requests' = Append(requests, row)
    PROVE  /\ RowsType'
           /\ DOMAIN requests' = 1..(Len(requests) + 1)
           /\ DOMAIN requests = 1..Len(requests) /\ Len(requests) \in Nat
           /\ \A i \in DOMAIN requests : i \in DOMAIN requests' /\ requests'[i] = requests[i]
           /\ requests'[Len(requests) + 1] = row
           /\ IdsAreUnique /\ row.id \notin Ids => IdsAreUnique'
  <1>1. requests \in Seq(Row)
    BY DEF RowsType
  <1>2. requests' \in Seq(Row) /\ Len(requests') = Len(requests) + 1
    BY <1>1
  <1>3. DOMAIN requests' = 1..(Len(requests) + 1) /\ DOMAIN requests = 1..Len(requests)
        /\ Len(requests) \in Nat
    BY <1>1, <1>2
  <1>4. /\ \A i \in 1..Len(requests) : requests'[i] = requests[i]
        /\ requests'[Len(requests) + 1] = row
    BY <1>1
  <1>5. ASSUME IdsAreUnique, row.id \notin Ids, NEW i \in DOMAIN requests',
               NEW k \in DOMAIN requests', requests'[i].id = requests'[k].id
        PROVE  i = k
    <2>1. \A j \in DOMAIN requests : requests[j].id # row.id
      BY <1>5 DEF Ids
    <2>2. CASE i \in DOMAIN requests /\ k \in DOMAIN requests
      BY <1>3, <1>4, <1>5, <2>2 DEF IdsAreUnique
    <2>3. i \in DOMAIN requests \/ i = Len(requests) + 1
      BY <1>3
    <2>4. k \in DOMAIN requests \/ k = Len(requests) + 1
      BY <1>3
    <2> QED BY <1>3, <1>4, <1>5, <2>1, <2>2, <2>3, <2>4
  <1> QED BY <1>2, <1>3, <1>4, <1>5 DEF RowsType, IdsAreUnique

\* What a step does to the requests.
SeedsRow(s) ==
    /\ insertRequest(s) /\ At(s, "request") /\ Item(s) \notin Ids
    /\ requests' = Append(requests, [id |-> Item(s), org |-> DemoOrg, by |-> s])
    /\ UNCHANGED <<drafts, actions, client>>

PostsRow(c, org) ==
    /\ requests' = Append(requests, [id |-> <<c, client[c].rows + 1>>, org |-> org, by |-> c])
    /\ client'[c].rows = client[c].rows + 1
    /\ UNCHANGED <<drafts, actions, seeder, job>>

RowsEffect ==
    \/ UNCHANGED requests
    \/ \E s \in Seeders : SeedsRow(s) /\ UNCHANGED job
    \/ \E c \in Clients, org \in Orgs : PostsRow(c, org)
    \/ \E j \in Jobs : deleteBatch(j) /\ UNCHANGED <<seeder, client>>

\* A call, or the handler of one that was given up, posts for its client.
LEMMA InsertsPost ==
    ASSUME ClientIInv, NEW c \in Clients, UNCHANGED <<seeder, job>>,
           insertSubmission(c) \/ \E h \in behind : h.by = c /\ insertBehind(h)
    PROVE  \E org \in Orgs : PostsRow(c, org)
  <1>0. client \in [Clients -> ClientRecord] /\ client[c] \in ClientRecord
        /\ behind \subseteq Handlers
    BY DEF ClientIInv, ClientTypeOK
  <1>1. CASE insertSubmission(c)
    <2>1. client[c].org \in Orgs
      BY <1>0 DEF ClientRecord
    <2>2. client'[c].rows = client[c].rows + 1
      BY <1>0, <1>1 DEF insertSubmission, ClientRecord
    <2> QED BY <1>1, <2>1, <2>2 DEF insertSubmission, PostsRow
  <1>2. ASSUME NEW h \in behind, h.by = c, insertBehind(h) PROVE \E org \in Orgs : PostsRow(c, org)
    <2>1. h.org \in Orgs
      BY <1>0 DEF Handlers
    <2>2. client'[c].rows = client[c].rows + 1
      BY <1>0, <1>2 DEF insertBehind, ClientRecord
    <2> QED BY <1>2, <2>1, <2>2 DEF insertBehind, PostsRow
  <1> QED BY <1>1, <1>2

LEMMA RowsEffectStep ==
    ASSUME ClientIInv, [Next]_demoVars
    PROVE  RowsEffect
  <1>1. ASSUME NEW s \in Seeders, SeedStep(s) \/ SeedAgain(s) \/ SeedDies(s),
               UNCHANGED <<job, submissionVars>>
        PROVE  RowsEffect
    <2>1. CASE insertRequest(s)
      BY <1>1, <2>1 DEF insertRequest, RowsEffect, SeedsRow, submissionVars
    <2> QED BY <1>1, <2>1 DEF SeedStep, SeedAgain, SeedDies, upsertOrg, backfillSettingsKey,
              upsertOwner, upsertDocument, insertDraft, insertAction, ForeignKeyFails, tables,
              RowsEffect
  <1>2. ASSUME NEW j \in Jobs, PurgeStep(j), UNCHANGED <<seeder, submissionVars>>
        PROVE  RowsEffect
    BY <1>2 DEF PurgeStep, startPurge, selectStale, purgeDies, tables, submissionVars, RowsEffect
  <1>3. ASSUME NEW c \in Clients, ClientStep(c) \/ callFails(c, faults), UNCHANGED <<seeder, job>>
        PROVE  RowsEffect
    BY <1>3, ClientTouches, InsertsPost DEF RowsEffect
  <1>4. ASSUME NEW o \in Orgs, operatorEdits(o) PROVE RowsEffect
    BY <1>4 DEF operatorEdits, RowsEffect
  <1>5. CASE UNCHANGED demoVars
    BY <1>5 DEF demoVars, tables, RowsEffect
  <1> QED BY <1>1, <1>2, <1>3, <1>4, <1>5 DEF Next, PurgeStep

\* A client's count only grows, and by one when it posts.
LEMMA ClientRowsGrow ==
    ASSUME ClientIInv, [Next]_demoVars, NEW c \in Clients
    PROVE  client'[c].rows \in Nat /\ client[c].rows <= client'[c].rows
  <1> DEFINE Grown == client'[c].rows \in Nat /\ client[c].rows <= client'[c].rows
  <1>0. /\ client \in [Clients -> ClientRecord] /\ behind \subseteq Handlers
        /\ client[c] \in ClientRecord /\ client[c].rows \in Nat
    BY DEF ClientIInv, ClientTypeOK, ClientRecord
  <1>1. ASSUME NEW d \in Clients, insertSubmission(d) PROVE Grown
    <2>1. client' = [client EXCEPT ![d] = [client[d] EXCEPT !.pc = "inserted", !.rows = client[d].rows + 1]]
      BY <1>0, <1>1 DEF insertSubmission
    <2>2. client[d] \in ClientRecord
      BY <1>0, <1>1
    <2>3. client'[c].rows = IF c = d THEN client[c].rows + 1 ELSE client[c].rows
      BY <1>0, <2>1, <2>2 DEF ClientRecord
    <2> QED BY <1>0, <2>3
  <1>2. ASSUME NEW h \in behind, insertBehind(h) PROVE Grown
    <2>1. h.by \in Clients /\ client[h.by] \in ClientRecord
      BY <1>0 DEF Handlers
    <2>2. client' = [client EXCEPT ![h.by] = [client[h.by] EXCEPT !.rows = client[h.by].rows + 1]]
      BY <1>0, <1>2, <2>1 DEF insertBehind
    <2>3. client'[c].rows = IF c = h.by THEN client[c].rows + 1 ELSE client[c].rows
      BY <1>0, <2>1, <2>2 DEF ClientRecord
    <2> QED BY <1>0, <2>3
  <1>3. ASSUME UNCHANGED client PROVE Grown
    BY <1>0, <1>3
  <1>4. ASSUME NEW h \in behind, verifyBehind(h) PROVE Grown
    BY <1>3, <1>4 DEF verifyBehind
  <1>5. ASSUME NEW d \in Clients,
               VisitorStep(d) \/ ApiClientStep(d) \/ enqueueSubmission(d) \/ redirect(d)
                   \/ callFails(d, faults)
        PROVE  Grown
    <2>0. client[d] \in ClientRecord
      BY <1>0, <1>5
    <2>2. CASE \E slug : submitPublicRequest(d, slug) \/ postWithKey(d, slug)
      BY <1>0, <2>0, <2>2 DEF submitPublicRequest, postWithKey, ClientRecord
    <2>3. CASE verifyForm(d) \/ verifyKey(d) \/ callFails(d, faults)
      <3>1. showError(d) \/ \E org : admit(d, org)
        BY <2>3 DEF verifyForm, verifyKey, callFails
      <3> QED BY <1>0, <2>0, <3>1 DEF showError, admit, ClientRecord
    <2>4. CASE enqueueSubmission(d) \/ redirect(d)
      BY <1>0, <2>0, <2>4 DEF enqueueSubmission, redirect, ClientRecord
    <2>5. CASE solveTurnstile(d) \/ revokeKey(d)
      BY <1>3, <2>5 DEF solveTurnstile, revokeKey
    <2> QED BY <1>5, <2>2, <2>3, <2>4, <2>5 DEF VisitorStep, ApiClientStep
  <1> QED BY <1>1, <1>2, <1>3, <1>4, <1>5 DEF Next, ClientStep, demoVars, submissionVars

-----------------------------------------------------------------------------
LEMMA RowsInit == Init => RowsIInv
  <1> SUFFICES ASSUME Init PROVE RowsIInv
    OBVIOUS
  <1>1. requests = <<>>
    BY DEF Init
  <1>2. RowsType /\ IdsAreUnique /\ ClientIdsAreCounted
    <2>1. requests \in Seq(Row) /\ DOMAIN requests = {}
      BY <1>1
    <2> QED BY <2>1 DEF RowsType, IdsAreUnique, ClientIdsAreCounted
  <1>3. SeedersType
    <2>1. 1 \in DOMAIN ORGS
      BY TablesAssumption DEF Orgs, Range
    <2> DEFINE p == [at |-> "org", org |-> 1, item |-> 0]
    <2>2. SeedPlace(p)
      BY <2>1 DEF SeedPlace, SeedSteps
    <2>3. p \in [at : SeedSteps \cup {"done", "failed"}, org : Nat, item : Nat]
      BY DEF SeedSteps
    <2>4. seeder = [s \in Seeders |-> p]
      BY DEF Init, SeedInit, Statement
    <2> HIDE DEF p
    <2> QED BY <2>2, <2>3, <2>4 DEF SeedersType
  <1> QED BY <1>2, <1>3, ClientInit DEF RowsIInv

\* Where the seeds are after any step.
LEMMA SeedersStays ==
    ASSUME SeedersType, [Next]_demoVars
    PROVE  SeedersType'
  <1>1. ASSUME UNCHANGED seeder PROVE SeedersType'
    BY <1>1 DEF SeedersType, SeedPlace
  <1>2. ASSUME NEW s \in Seeders, SeedStep(s) \/ SeedAgain(s) \/ SeedDies(s)
        PROVE  SeedersType'
    BY <1>2, SeedGoes, SeedersStep
  <1> QED BY <1>1, <1>2 DEF Next, demoVars

\* The row of a seed has an id of its own, and no client's.
LEMMA SeededRow ==
    ASSUME SeedersType, NEW s \in Seeders, SeedsRow(s)
    PROVE  /\ [id |-> Item(s), org |-> DemoOrg, by |-> s] \in Row
           /\ Item(s) \in Range(DEMO_REQUESTS)
  <1>1. Item(s) \in Range(DEMO_REQUESTS)
    BY ItemIsSeeded DEF SeedsRow
  <1> QED BY <1>1, TablesAssumption DEF Row, RowIds

LEMMA PostedRow ==
    ASSUME RowsIInv, NEW c \in Clients, NEW org \in Orgs, PostsRow(c, org)
    PROVE  /\ [id |-> <<c, client[c].rows + 1>>, org |-> org, by |-> c] \in Row
           /\ <<c, client[c].rows + 1>> \notin Ids
           /\ client'[c].rows = client[c].rows + 1 /\ client[c].rows \in Nat
  <1>1. client[c].rows \in Nat
    BY DEF RowsIInv, ClientIInv, ClientTypeOK, ClientRecord
  <1>2. <<c, client[c].rows + 1>> \in Clients \X Nat
    BY <1>1
  <1>3. \A i \in DOMAIN requests : requests[i].id # <<c, client[c].rows + 1>>
    <2> SUFFICES ASSUME NEW i \in DOMAIN requests, requests[i].id = <<c, client[c].rows + 1>>
                 PROVE  FALSE
      OBVIOUS
    <2>1. client[c].rows + 1 <= client[c].rows
      BY <1>1 DEF RowsIInv, ClientIdsAreCounted
    <2> QED BY <1>1, <2>1
  <1> QED BY <1>1, <1>2, <1>3 DEF Row, RowIds, Ids, PostsRow

LEMMA RowsIInvStep == RowsIInv /\ [Next]_demoVars => RowsIInv'
  <1> SUFFICES ASSUME RowsIInv, [Next]_demoVars PROVE RowsIInv'
    OBVIOUS
  <1>0. ClientIInv /\ SeedersType /\ RowsType /\ IdsAreUnique /\ ClientIdsAreCounted
    BY DEF RowsIInv
  <1>1. ClientIInv' /\ SeedersType'
    BY <1>0, ClientIInvStep, SeedersStays
  <1>2. \A c \in Clients : /\ client[c].rows \in Nat /\ client'[c].rows \in Nat
                           /\ client[c].rows <= client'[c].rows
    <2>1. \A c \in Clients : client[c].rows \in Nat
      BY <1>0 DEF ClientIInv, ClientTypeOK, ClientRecord
    <2> QED BY <1>0, <2>1, ClientRowsGrow
  <1>3. ASSUME NEW c \in Clients, NEW n \in Nat, NEW i \in DOMAIN requests,
               requests[i].id = <<c, n>>
        PROVE  n <= client'[c].rows
    <2>1. n <= client[c].rows
      BY <1>0, <1>3 DEF ClientIdsAreCounted
    <2> QED BY <1>2, <2>1
  <1>4. CASE UNCHANGED requests
    <2>1. RowsType' /\ IdsAreUnique'
      BY <1>0, <1>4 DEF RowsType, IdsAreUnique
    <2>2. ClientIdsAreCounted'
      BY <1>3, <1>4 DEF ClientIdsAreCounted
    <2> QED BY <1>1, <2>1, <2>2 DEF RowsIInv
  <1>5. ASSUME NEW s \in Seeders, SeedsRow(s) PROVE RowsIInv'
    <2> DEFINE row == [id |-> Item(s), org |-> DemoOrg, by |-> s]
    <2>1. row \in Row /\ row.id = Item(s) /\ Item(s) \in Range(DEMO_REQUESTS)
      BY <1>0, <1>5, SeededRow
    <2>2. requests' = Append(requests, row) /\ Item(s) \notin Ids
      BY <1>5 DEF SeedsRow
    <2> HIDE DEF row
    <2>3. /\ RowsType' /\ IdsAreUnique'
          /\ DOMAIN requests' = 1..(Len(requests) + 1)
          /\ DOMAIN requests = 1..Len(requests) /\ Len(requests) \in Nat
          /\ \A i \in DOMAIN requests : i \in DOMAIN requests' /\ requests'[i] = requests[i]
          /\ requests'[Len(requests) + 1] = row
      BY <1>0, <2>1, <2>2, AppendedRows
    <2>4. ASSUME NEW i \in DOMAIN requests', NEW c \in Clients, NEW n \in Nat,
                 requests'[i].id = <<c, n>>
          PROVE  n <= client'[c].rows
      <3>1. row.id # <<c, n>>
        BY <2>1, IdsAssumption
      <3>2. i \in DOMAIN requests
        BY <2>3, <2>4, <3>1
      <3> QED BY <1>3, <2>3, <2>4, <3>2
    <2>5. ClientIdsAreCounted'
      BY <2>4 DEF ClientIdsAreCounted
    <2> QED BY <1>1, <2>3, <2>5 DEF RowsIInv
  <1>6. ASSUME NEW d \in Clients, NEW org \in Orgs, PostsRow(d, org) PROVE RowsIInv'
    <2> DEFINE row == [id |-> <<d, client[d].rows + 1>>, org |-> org, by |-> d]
    <2>1. /\ row \in Row /\ row.id = <<d, client[d].rows + 1>> /\ row.id \notin Ids
          /\ client'[d].rows = client[d].rows + 1
      BY <1>6, PostedRow
    <2>2. requests' = Append(requests, row)
      BY <1>6 DEF PostsRow
    <2> HIDE DEF row
    <2>3. /\ RowsType' /\ IdsAreUnique'
          /\ DOMAIN requests' = 1..(Len(requests) + 1)
          /\ DOMAIN requests = 1..Len(requests) /\ Len(requests) \in Nat
          /\ \A i \in DOMAIN requests : i \in DOMAIN requests' /\ requests'[i] = requests[i]
          /\ requests'[Len(requests) + 1] = row
      BY <1>0, <2>1, <2>2, AppendedRows
    <2>4. ASSUME NEW i \in DOMAIN requests', NEW c \in Clients, NEW n \in Nat,
                 requests'[i].id = <<c, n>>
          PROVE  n <= client'[c].rows
      <3>1. CASE i \in DOMAIN requests
        BY <1>3, <2>3, <2>4, <3>1
      <3>2. CASE i = Len(requests) + 1
        <4>1. c = d /\ n = client[d].rows + 1
          BY <2>1, <2>3, <2>4, <3>2
        <4> QED BY <1>2, <2>1, <4>1
      <3> QED BY <2>3, <3>1, <3>2
    <2>5. ClientIdsAreCounted'
      BY <2>4 DEF ClientIdsAreCounted
    <2> QED BY <1>1, <2>3, <2>5 DEF RowsIInv
  <1>7. ASSUME NEW j \in Jobs, deleteBatch(j) PROVE RowsIInv'
    <2> DEFINE ids == job[j].batch
    <2>1. requests' = Kept(requests, RowsAfter(ids))
      BY <1>7 DEF deleteBatch, DeleteRequests, RowsAfter
    <2> HIDE DEF ids
    <2>2. /\ RowsType' /\ IdsAreUnique'
          /\ \A k \in DOMAIN requests' : \E i \in RowsAfter(ids) : requests'[k] = requests[i]
      BY <1>0, <2>1, DeletedRows
    <2>3. RowsAfter(ids) \subseteq DOMAIN requests
      BY DEF RowsAfter
    <2>4. ClientIdsAreCounted'
      BY <1>3, <2>2, <2>3 DEF ClientIdsAreCounted
    <2> QED BY <1>1, <2>2, <2>4 DEF RowsIInv
  <1> QED BY <1>0, <1>4, <1>5, <1>6, <1>7, RowsEffectStep DEF RowsEffect

-----------------------------------------------------------------------------
\* What LIMIT takes: everything, when it takes fewer than it may.
LEMMA OldestStaleTakes ==
    ASSUME RowsIInv, NEW j \in Jobs, job[j].stale \subseteq {requests[i].id : i \in DemoRows}
    PROVE  /\ OldestStale(j) \subseteq job[j].stale
           /\ Cardinality(OldestStale(j)) \in Nat
           /\ Cardinality(OldestStale(j)) < BatchSize => OldestStale(j) = job[j].stale
  <1> DEFINE rows == StaleRows(j)
             first == {i \in rows : Rank(rows, i) <= BatchSize}
             f == [i \in first |-> requests[i].id]
  <1>0. requests \in Seq(Row) /\ rows \subseteq DOMAIN requests
    BY DEF RowsIInv, RowsType, StaleRows, DemoRows
  <1>1. OldestStale(j) = {requests[i].id : i \in first}
    BY DEF OldestStale
  <1>2. \A i \in rows : requests[i].id \in job[j].stale
    BY DEF StaleRows
  <1>3. \A q \in job[j].stale : \E i \in rows : requests[i].id = q
    BY DEF StaleRows
  <1>4. \A i, k \in rows : requests[i].id = requests[k].id => i = k
    BY <1>0 DEF RowsIInv, IdsAreUnique
  <1> HIDE DEF rows
  <1>5. Places(rows)
    BY <1>0, SequencePlaces
  <1>6. BatchSize \in Nat
    BY BatchAssumption
  <1>7. /\ IsFiniteSet(first) /\ Cardinality(first) \in Nat
        /\ Cardinality(first) < BatchSize => first = rows
    BY <1>5, <1>6, FirstRanks
  <1>8. first \subseteq rows
    OBVIOUS
  <1> HIDE DEF first
  <1>9. f \in Bijection(first, OldestStale(j))
    <2>1. \A i \in first : f[i] \in OldestStale(j)
      BY <1>1
    <2>2. \A i, k \in first : f[i] = f[k] => i = k
      BY <1>4, <1>8
    <2>3. \A q \in OldestStale(j) : \E i \in first : f[i] = q
      BY <1>1
    <2> HIDE DEF OldestStale
    <2> QED BY <2>1, <2>2, <2>3 DEF Bijection, Injection, Surjection, IsInjective
  <1>10. Cardinality(first) = Cardinality(OldestStale(j))
    <2> HIDE DEF f
    <2>1. ExistsBijection(first, OldestStale(j))
      BY <1>9 DEF ExistsBijection
    <2> QED BY <1>7, <2>1, FS_Bijection
  <1>11. OldestStale(j) \subseteq job[j].stale
    BY <1>1, <1>2, <1>8
  <1>12. first = rows => OldestStale(j) = job[j].stale
    BY <1>1, <1>2, <1>3
  <1> QED BY <1>7, <1>10, <1>11, <1>12

-----------------------------------------------------------------------------
\* What a run knows of the rows: what is overdue and not yet deleted is in the
\* table, and a batch that came out short is all of it.
RunKnows(j) ==
    /\ job[j].stale \subseteq {requests[i].id : i \in DemoRows}
    /\ job[j].batch \subseteq job[j].stale
    /\ job[j].pc = "delete" /\ job[j].selectedCount < BatchSize => job[j].batch = job[j].stale
    /\ job[j].pc = "done" /\ ~job[j].warned => job[j].stale = {}

PurgeIInv == RowsIInv /\ JobsType /\ \A j \in Jobs : RunKnows(j)

LEMMA PurgeInit == Init => PurgeIInv
  <1> SUFFICES ASSUME Init PROVE PurgeIInv
    OBVIOUS
  <1>1. job = [j \in Jobs |-> NewRun("idle", {})]
    BY DEF Init, JobInit
  <1>2. NewRun("idle", {}) \in Runs
    BY DEF NewRun, Runs
  <1>3. JobsType
    BY <1>1, <1>2 DEF JobsType
  <1>4. ASSUME NEW j \in Jobs PROVE RunKnows(j)
    BY <1>1 DEF RunKnows, NewRun
  <1> QED BY <1>3, <1>4, RowsInit DEF PurgeIInv

\* Rows that are added take nothing from what a run knows.
LEMMA RunKnowsMore ==
    ASSUME NEW j \in Jobs, RunKnows(j), job'[j] = job[j],
           \A i \in DOMAIN requests : i \in DOMAIN requests' /\ requests'[i] = requests[i]
    PROVE  RunKnows(j)'
  <1>1. {requests[i].id : i \in DemoRows} \subseteq {requests'[i].id : i \in DemoRows'}
    BY DEF DemoRows
  <1> QED BY <1>1 DEF RunKnows

LEMMA RunKnowsStays ==
    ASSUME PurgeIInv, NEW j \in Jobs, job'[j] = job[j], RowsEffect,
           ~\E i \in Jobs : deleteBatch(i)
    PROVE  RunKnows(j)'
  <1>0. RunKnows(j) /\ RowsType /\ RowsIInv /\ SeedersType
    BY DEF PurgeIInv, RowsIInv
  <1>1. CASE UNCHANGED requests
    BY <1>0, <1>1, RunKnowsMore
  <1>2. ASSUME NEW s \in Seeders, SeedsRow(s) PROVE RunKnows(j)'
    <2>1. [id |-> Item(s), org |-> DemoOrg, by |-> s] \in Row
      BY <1>0, <1>2, SeededRow
    <2>2. \A i \in DOMAIN requests : i \in DOMAIN requests' /\ requests'[i] = requests[i]
      BY <1>0, <1>2, <2>1, AppendedRows DEF SeedsRow
    <2> QED BY <1>0, <2>2, RunKnowsMore
  <1>3. ASSUME NEW c \in Clients, NEW org \in Orgs, PostsRow(c, org) PROVE RunKnows(j)'
    <2>1. [id |-> <<c, client[c].rows + 1>>, org |-> org, by |-> c] \in Row
      BY <1>0, <1>3, PostedRow
    <2>2. \A i \in DOMAIN requests : i \in DOMAIN requests' /\ requests'[i] = requests[i]
      BY <1>0, <1>3, <2>1, AppendedRows DEF PostsRow
    <2> QED BY <1>0, <2>2, RunKnowsMore
  <1> QED BY <1>1, <1>2, <1>3 DEF RowsEffect

\* One statement of a run changes the run alone.
LEMMA JobFrame ==
    ASSUME PurgeIInv, NEW j \in Jobs, NEW n \in Runs, job' = [job EXCEPT ![j] = n],
           UNCHANGED requests,
           n.stale \subseteq {requests[i].id : i \in DemoRows},
           n.batch \subseteq n.stale,
           n.pc = "delete" /\ n.selectedCount < BatchSize => n.batch = n.stale,
           n.pc = "done" /\ ~n.warned => n.stale = {}
    PROVE  JobsType' /\ \A i \in Jobs : RunKnows(i)'
  <1>0. job \in [Jobs -> Runs] /\ \A i \in Jobs : RunKnows(i)
    BY DEF PurgeIInv, JobsType
  <1>1. JobsType'
    BY <1>0 DEF JobsType
  <1>2. /\ job'[j] = n
        /\ \A i \in Jobs : i # j => job'[i] = job[i]
    BY <1>0
  <1>3. DemoRows' = DemoRows
    BY DEF DemoRows
  <1>4. RunKnows(j)'
    BY <1>2, <1>3 DEF RunKnows
  <1>5. ASSUME NEW i \in Jobs, i # j PROVE RunKnows(i)'
    BY <1>0, <1>2, <1>3, <1>5 DEF RunKnows
  <1> QED BY <1>1, <1>4, <1>5

LEMMA JobSteps ==
    ASSUME PurgeIInv, NEW j \in Jobs, startPurge(j) \/ selectStale(j) \/ purgeDies(j)
    PROVE  JobsType' /\ \A i \in Jobs : RunKnows(i)'
  <1>0. /\ job \in [Jobs -> Runs] /\ job[j] \in Runs /\ RunKnows(j)
        /\ RowsIInv /\ RowsType /\ requests \in Seq(Row)
    BY DEF PurgeIInv, JobsType, RowsIInv, RowsType
  <1>1. CASE startPurge(j)
    <2>1. PICK n \in 0..Len(requests) : job' = [job EXCEPT ![j] = NewRun("select", Overdue(n))]
      BY <1>1 DEF startPurge
    <2>2. Overdue(n) \subseteq {requests[i].id : i \in DemoRows} /\ DemoRows \subseteq DOMAIN requests
      BY DEF Overdue, DemoRows
    <2>3. Overdue(n) \subseteq RowIds
      <3>1. \A i \in DOMAIN requests : requests[i].id \in RowIds
        <4>1. \A i \in DOMAIN requests : requests[i] \in Row
          BY <1>0
        <4> QED BY <4>1 DEF Row
      <3> QED BY <2>2, <3>1
    <2>4. NewRun("select", Overdue(n)) \in Runs
      BY <2>3 DEF NewRun, Runs
    <2>5. UNCHANGED requests
      BY <1>1 DEF startPurge, tables
    <2> DEFINE new == NewRun("select", Overdue(n))
    <2>6. new.stale = Overdue(n) /\ new.batch = {} /\ new.pc = "select"
      BY DEF NewRun
    <2> HIDE DEF new
    <2> QED BY <2>1, <2>2, <2>4, <2>5, <2>6, JobFrame DEF new
  <1>2. CASE selectStale(j)
    <2> DEFINE old == OldestStale(j)
               new == [job[j] EXCEPT !.batch = old, !.selectedCount = Cardinality(old),
                                     !.pc = IF old = {} THEN "done" ELSE "delete"]
    <2>1. /\ old \subseteq job[j].stale /\ Cardinality(old) \in Nat
          /\ Cardinality(old) < BatchSize => old = job[j].stale
      BY <1>0, OldestStaleTakes DEF RunKnows
    <2>2. job' = [job EXCEPT ![j] = new] /\ UNCHANGED requests
      BY <1>0, <1>2 DEF selectStale, tables
    <2> HIDE DEF old
    <2>3. /\ new \in Runs /\ new.stale = job[j].stale /\ new.batch = old
          /\ new.selectedCount = Cardinality(old)
          /\ new.pc = IF old = {} THEN "done" ELSE "delete"
      BY <1>0, <2>1 DEF Runs
    <2>4. old = {} => job[j].stale = {}
      <3>1. Cardinality({}) = 0 /\ 0 < BatchSize
        BY FS_EmptySet, BatchAssumption
      <3> QED BY <2>1, <3>1
    <2>5. job[j].stale \subseteq {requests[i].id : i \in DemoRows}
      BY <1>0 DEF RunKnows
    <2> HIDE DEF new
    <2> QED BY <2>1, <2>2, <2>3, <2>4, <2>5, JobFrame
  <1>3. CASE purgeDies(j)
    <2> DEFINE new == [job[j] EXCEPT !.pc = "failed", !.batch = {}]
    <2>1. job' = [job EXCEPT ![j] = new] /\ UNCHANGED requests
      BY <1>0, <1>3 DEF purgeDies, tables
    <2>2. new \in Runs /\ new.stale = job[j].stale /\ new.batch = {} /\ new.pc = "failed"
      BY <1>0 DEF Runs
    <2>3. job[j].stale \subseteq {requests[i].id : i \in DemoRows}
      BY <1>0 DEF RunKnows
    <2> HIDE DEF new
    <2> QED BY <2>1, <2>2, <2>3, JobFrame
  <1> QED BY <1>1, <1>2, <1>3

LEMMA RunWithout ==
    ASSUME NEW run \in Runs, NEW ids
    PROVE  LET n == [run EXCEPT !.stale = run.stale \ ids, !.batch = run.batch \ ids]
           IN  /\ n \in Runs
               /\ n.stale = run.stale \ ids /\ n.batch = run.batch \ ids
               /\ n.pc = run.pc /\ n.selectedCount = run.selectedCount /\ n.warned = run.warned
  <1>1. /\ run.stale \ ids \in SUBSET RowIds /\ run.batch \ ids \in SUBSET RowIds
    BY DEF Runs
  <1> QED BY <1>1 DEF Runs

\* A DELETE takes what it deletes from what every run has before it.
LEMMA DeleteStep ==
    ASSUME PurgeIInv, NEW j \in Jobs, deleteBatch(j)
    PROVE  JobsType' /\ \A i \in Jobs : RunKnows(i)'
  <1> DEFINE deleted == job[j].batch
             known == {requests[i].id : i \in DemoRows}
  <1>0. /\ job \in [Jobs -> Runs] /\ RowsType /\ requests \in Seq(Row)
        /\ \A i \in Jobs : job[i] \in Runs /\ RunKnows(i)
    BY DEF PurgeIInv, JobsType, RowsIInv, RowsType
  <1>1. /\ job' = [i \in Jobs |->
              IF i = j
              THEN [pc |-> IF LastBatch(deleted) THEN "done" ELSE "select",
                    stale |-> job[j].stale \ deleted,
                    batch |-> {},
                    selectedCount |-> 0,
                    warned |-> job[j].warned \/ Cardinality(deleted) # job[j].selectedCount]
              ELSE [job[i] EXCEPT !.stale = job[i].stale \ deleted,
                                  !.batch = job[i].batch \ deleted]]
        /\ job[j].pc = "delete"
        /\ requests' = Kept(requests, RowsAfter(deleted))
    BY <1>0 DEF deleteBatch, DeleteRequests, RowsAfter, Runs
  <1> HIDE DEF deleted
  <1>2. \A i \in RowsAfter(deleted) : \E k \in DOMAIN requests' : requests'[k] = requests[i]
    BY <1>0, <1>1, DeletedRows
  <1>3. known \ deleted \subseteq {requests'[k].id : k \in DemoRows'}
    <2> SUFFICES ASSUME NEW i \in DemoRows, requests[i].id \notin deleted
                 PROVE  requests[i].id \in {requests'[k].id : k \in DemoRows'}
      OBVIOUS
    <2>1. i \in RowsAfter(deleted) /\ requests[i].org = DemoOrg
      BY DEF DemoRows, RowsAfter
    <2>2. PICK k \in DOMAIN requests' : requests'[k] = requests[i]
      BY <1>2, <2>1
    <2>3. k \in DemoRows'
      BY <2>1, <2>2 DEF DemoRows
    <2> QED BY <2>2, <2>3
  <1> HIDE DEF known
  <1>4. \A i \in Jobs : job[i].stale \subseteq known
    BY <1>0 DEF RunKnows, known
  <1>5. ASSUME NEW i \in Jobs, i # j
        PROVE  job'[i] \in Runs /\ RunKnows(i)'
    <2>1. job'[i] = [job[i] EXCEPT !.stale = job[i].stale \ deleted,
                                   !.batch = job[i].batch \ deleted]
      BY <1>1, <1>5
    <2>2. /\ job'[i] \in Runs
          /\ job'[i].stale = job[i].stale \ deleted
          /\ job'[i].batch = job[i].batch \ deleted
          /\ job'[i].pc = job[i].pc /\ job'[i].selectedCount = job[i].selectedCount
          /\ job'[i].warned = job[i].warned
      <3>1. job[i] \in Runs
        BY <1>0
      <3> DEFINE n == [job[i] EXCEPT !.stale = job[i].stale \ deleted,
                                     !.batch = job[i].batch \ deleted]
      <3>2. /\ n \in Runs
            /\ n.stale = job[i].stale \ deleted /\ n.batch = job[i].batch \ deleted
            /\ n.pc = job[i].pc /\ n.selectedCount = job[i].selectedCount
            /\ n.warned = job[i].warned
        BY <3>1, RunWithout
      <3>3. job'[i] = n
        BY <2>1
      <3> HIDE DEF n
      <3> QED BY <3>2, <3>3
    <2>3. RunKnows(i)
      BY <1>0
    <2> QED BY <1>3, <1>4, <2>2, <2>3 DEF RunKnows
  <1>6. job'[j] \in Runs /\ RunKnows(j)'
    <2> DEFINE last == LastBatch(deleted)
               warned == job[j].warned \/ Cardinality(deleted) # job[j].selectedCount
    <2>1. job'[j] = [pc |-> IF last THEN "done" ELSE "select",
                     stale |-> job[j].stale \ deleted, batch |-> {},
                     selectedCount |-> 0, warned |-> warned]
      BY <1>1
    <2>2. job[j] \in Runs
      BY <1>0
    <2>3. job[j].stale \in SUBSET RowIds /\ warned \in BOOLEAN
      BY <2>2 DEF Runs
    <2>4. last /\ ~warned => deleted = job[j].stale
      <3>1. RunKnows(j)
        BY <1>0
      <3> QED BY <1>1, <3>1 DEF RunKnows, LastBatch, deleted
    <2> HIDE DEF last, warned
    <2>5. job'[j] \in Runs
      BY <2>1, <2>3 DEF Runs
    <2>6. RunKnows(j)'
      BY <1>3, <1>4, <2>1, <2>4 DEF RunKnows
    <2> QED BY <2>5, <2>6
  <1>7. job' \in [Jobs -> Runs]
    <2>1. DOMAIN job' = Jobs /\ job' = [i \in Jobs |-> job'[i]]
      BY <1>1
    <2>2. \A i \in Jobs : job'[i] \in Runs
      BY <1>5, <1>6
    <2> QED BY <2>1, <2>2
  <1> QED BY <1>5, <1>6, <1>7 DEF JobsType

LEMMA PurgeStepKeeps == PurgeIInv /\ [Next]_demoVars => PurgeIInv'
  <1> SUFFICES ASSUME PurgeIInv, [Next]_demoVars PROVE PurgeIInv'
    OBVIOUS
  <1>1. RowsIInv'
    BY RowsIInvStep DEF PurgeIInv
  <1>2. RowsEffect
    BY RowsEffectStep DEF PurgeIInv, RowsIInv
  <1>3. ASSUME UNCHANGED job PROVE PurgeIInv'
    <2>1. JobsType'
      BY <1>3 DEF PurgeIInv, JobsType
    <2>2. \A i \in Jobs : RunKnows(i)'
      <3>1. CASE \E i \in Jobs : deleteBatch(i)
        BY <3>1, DeleteStep
      <3>2. CASE ~\E i \in Jobs : deleteBatch(i)
        BY <1>2, <1>3, <3>2, RunKnowsStays
      <3> QED BY <3>1, <3>2
    <2> QED BY <1>1, <2>1, <2>2 DEF PurgeIInv
  <1>4. ASSUME NEW j \in Jobs, PurgeStep(j) PROVE PurgeIInv'
    <2>1. JobsType' /\ \A i \in Jobs : RunKnows(i)'
      BY <1>4, JobSteps, DeleteStep DEF PurgeStep
    <2> QED BY <1>1, <2>1 DEF PurgeIInv
  <1> QED BY <1>3, <1>4 DEF Next, PurgeStep, demoVars

\* purge.ts:117-133: for any number of overlapping runs and any batch size, a
\* run that ends without the warning leaves nothing of what was overdue when
\* it started.
THEOREM NothingOverdue == Spec => []OverdueIsPurged
  <1>1. PurgeIInv => OverdueIsPurged
    BY DEF PurgeIInv, RunKnows, OverdueIsPurged
  <1> QED BY <1>1, PurgeInit, PurgeStepKeeps, PTL DEF Spec

-----------------------------------------------------------------------------
\* s is between the two ends of a seeded request, which it inserted itself.
Finishing(s) == (At(s, "draft") \/ At(s, "action")) /\ Inserted(s)

\* A seed records an action only after the draft, and both go with the row.
ActionsFollowDrafts ==
    \A s \in Seeders : At(s, "action") /\ Inserted(s) => Item(s) \in drafts

Half(q) == q \in Ids /\ ~Complete(q) /\ ~InProgress(q)

SeededIInv == RowsIInv /\ ActionsFollowDrafts

LEMMA HalfSeededIs == HalfSeeded = {q \in Range(DEMO_REQUESTS) : Half(q)}
  BY DEF HalfSeeded, Half

LEMMA InProgressIs ==
    ASSUME NEW q
    PROVE  InProgress(q) <=> \E s \in Seeders : Item(s) = q /\ Finishing(s)
  BY DEF InProgress, Finishing

\* Steps that leave every row, draft and action where it is, but for a seed
\* that was not finishing a request.
LEMMA HalfWithoutRows ==
    ASSUME UNCHANGED <<requests, drafts, actions>>,
           \A s \in Seeders : Finishing(s) => seeder'[s] = seeder[s],
           NEW q, Half(q)'
    PROVE  Half(q)
  <1>1. q \in Ids /\ ~Complete(q)
    BY DEF Half, Ids, Complete
  <1>2. ASSUME NEW s \in Seeders, Item(s) = q, Finishing(s) PROVE FALSE
    <2>1. seeder'[s] = seeder[s]
      BY <1>2
    <2>2. Item(s)' = q /\ Finishing(s)'
      BY <1>2, <2>1 DEF Item, Finishing, At, Inserted
    <2>3. InProgress(q)'
      BY <2>2 DEF InProgress, Finishing
    <2> QED BY <2>3 DEF Half
  <1> QED BY <1>1, <1>2, InProgressIs DEF Half

\* A row is added that is not q's, and nobody who is finishing a request moves.
LEMMA HalfWithAnother ==
    ASSUME RowsType, NEW row \in Row, requests' = Append(requests, row),
           UNCHANGED <<drafts, actions>>,
           \A s \in Seeders : Finishing(s) => seeder'[s] = seeder[s],
           NEW q, q # row.id, Half(q)'
    PROVE  Half(q)
  <1>0. /\ DOMAIN requests' = 1..(Len(requests) + 1)
        /\ DOMAIN requests = 1..Len(requests) /\ Len(requests) \in Nat
        /\ \A i \in DOMAIN requests : i \in DOMAIN requests' /\ requests'[i] = requests[i]
        /\ requests'[Len(requests) + 1] = row
    BY AppendedRows
  <1>1. q \in Ids /\ ~Complete(q)
    <2>1. q \in Ids'
      BY DEF Half
    <2>2. PICK i \in DOMAIN requests' : requests'[i].id = q
      BY <2>1 DEF Ids
    <2>3. i \in DOMAIN requests
      BY <1>0, <2>2
    <2>4. q \in Ids
      BY <1>0, <2>2, <2>3 DEF Ids
    <2> QED BY <2>4 DEF Half, Complete
  <1>2. ASSUME NEW s \in Seeders, Item(s) = q, Finishing(s) PROVE FALSE
    <2>1. seeder'[s] = seeder[s]
      BY <1>2
    <2>2. Inserted(s)'
      BY <1>0, <1>2, <2>1 DEF Finishing, Inserted, Item
    <2>3. Item(s)' = q /\ Finishing(s)'
      BY <1>2, <2>1, <2>2 DEF Item, Finishing, At
    <2>4. InProgress(q)'
      BY <2>3 DEF InProgress, Finishing
    <2> QED BY <2>4 DEF Half
  <1> QED BY <1>1, <1>2, InProgressIs DEF Half

\* A seed that finishes p touches no other request.
LEMMA HalfOfOthers ==
    ASSUME UNCHANGED requests, NEW p, NEW s \in Seeders, Item(s) = p,
           \A t \in Seeders \ {s} : seeder'[t] = seeder[t],
           drafts' \in {drafts, drafts \cup {p}}, actions' \in {actions, actions \cup {p}},
           NEW q, q # p, Half(q)'
    PROVE  Half(q)
  <1>1. q \in Ids /\ ~Complete(q)
    BY DEF Half, Ids, Complete
  <1>2. ASSUME NEW t \in Seeders, Item(t) = q, Finishing(t) PROVE FALSE
    <2>1. seeder'[t] = seeder[t]
      BY <1>2
    <2>2. Item(t)' = q /\ Finishing(t)'
      BY <1>2, <2>1 DEF Item, Finishing, At, Inserted
    <2>3. InProgress(q)'
      BY <2>2 DEF InProgress, Finishing
    <2> QED BY <2>3 DEF Half
  <1> QED BY <1>1, <1>2, InProgressIs DEF Half

\* A purge takes the whole of a request or nothing of it.
LEMMA HalfAfterDelete ==
    ASSUME RowsType, NEW ids, requests' = Kept(requests, RowsAfter(ids)),
           drafts' = drafts \ ids, actions' = actions \ ids, UNCHANGED seeder,
           NEW q, Half(q)'
    PROVE  Half(q)
  <1>0. /\ \A k \in DOMAIN requests' : \E i \in RowsAfter(ids) : requests'[k] = requests[i]
        /\ \A i \in RowsAfter(ids) : \E k \in DOMAIN requests' : requests'[k] = requests[i]
    BY DeletedRows
  <1>1. PICK i \in RowsAfter(ids) : requests[i].id = q
    BY <1>0 DEF Half, Ids
  <1>2. q \in Ids /\ q \notin ids
    BY <1>1 DEF Ids, RowsAfter
  <1>3. ~Complete(q)
    BY <1>2 DEF Half, Complete
  <1>4. ASSUME NEW s \in Seeders, Item(s) = q, Finishing(s) PROVE FALSE
    <2>1. PICK k \in DOMAIN requests : requests[k].id = q /\ requests[k].by = s
      BY <1>4 DEF Finishing, Inserted
    <2>2. k \in RowsAfter(ids)
      BY <1>2, <2>1 DEF RowsAfter
    <2>3. PICK l \in DOMAIN requests' : requests'[l] = requests[k]
      BY <1>0, <2>2
    <2>4. Item(s)' = q /\ Finishing(s)'
      BY <1>4, <2>1, <2>3 DEF Item, Finishing, At, Inserted
    <2>5. InProgress(q)'
      BY <2>4 DEF InProgress, Finishing
    <2> QED BY <2>5 DEF Half
  <1> QED BY <1>2, <1>3, <1>4, InProgressIs DEF Half

-----------------------------------------------------------------------------
\* The loops go on to anything but the middle of a request.
LEMMA LoopsGoOn ==
    ASSUME NEW i, NEW k
    PROVE  /\ NextOrg(i).at \in {"org", "done"}
           /\ NextRequest(i, k).at \in {"request", "org", "done"}
           /\ NextDocument(i, k).at \in {"document", "request", "org", "done"}
  <1>1. NextOrg(i).at \in {"org", "done"}
    BY DEF NextOrg, Statement
  <1>2. \A l : NextRequest(i, l).at \in {"request", "org", "done"}
    BY <1>1 DEF NextRequest, Statement
  <1>3. NextDocument(i, k).at \in {"document", "request", "org", "done"}
    BY <1>2 DEF NextDocument, Statement
  <1> QED BY <1>1, <1>2, <1>3

LEMMA SeederMoved ==
    ASSUME SeedersType, NEW s \in Seeders, NEW p, GoTo(s, p)
    PROVE  /\ seeder'[s] = p
           /\ \A t \in Seeders : t # s => seeder'[t] = seeder[t]
  BY DEF SeedersType, GoTo

\* The statements of s that are not in the middle of a request.
OtherStatement(s) ==
    \/ upsertOrg(s) \/ backfillSettingsKey(s) \/ upsertOwner(s) \/ upsertDocument(s)
    \/ insertRequest(s) /\ UNCHANGED requests
    \/ ForeignKeyFails(s) \/ SeedAgain(s)

LEMMA OtherStatementEffect ==
    ASSUME SeedersType, NEW s \in Seeders, OtherStatement(s)
    PROVE  /\ UNCHANGED <<requests, drafts, actions>>
           /\ ~Finishing(s)
           /\ \A t \in Seeders \ {s} : seeder'[t] = seeder[t]
           /\ insertRequest(s) \/ seeder'[s].at \notin {"draft", "action"}
  <1>0. \A p : GoTo(s, p) => /\ seeder'[s] = p
                             /\ \A t \in Seeders : t # s => seeder'[t] = seeder[t]
    BY SeederMoved
  <1>1. CASE upsertOrg(s) \/ backfillSettingsKey(s)
    BY <1>0, <1>1 DEF upsertOrg, backfillSettingsKey, At, Finishing, Statement
  <1>2. CASE upsertOwner(s) \/ upsertDocument(s)
    BY <1>0, <1>2, LoopsGoOn DEF upsertOwner, upsertDocument, At, Finishing
  <1>3. CASE insertRequest(s) /\ UNCHANGED requests
    BY <1>0, <1>3 DEF insertRequest, At, Finishing
  <1>4. CASE ForeignKeyFails(s) \/ SeedAgain(s)
    BY <1>0, <1>4 DEF ForeignKeyFails, SeedAgain, Running, At, Finishing, Statement, tables
  <1> QED BY <1>1, <1>2, <1>3, <1>4 DEF OtherStatement

\* What insertRequest does: a row and the middle of its request, or neither.
LEMMA InsertEffect ==
    ASSUME RowsIInv, NEW s \in Seeders, insertRequest(s)
    PROVE  /\ At(s, "request") /\ ~Finishing(s) /\ UNCHANGED <<drafts, actions>>
           /\ \A t \in Seeders : t # s => seeder'[t] = seeder[t]
           /\ \/ /\ UNCHANGED requests
                 /\ seeder'[s].at \notin {"draft", "action"}
              \/ /\ requests' = Append(requests, [id |-> Item(s), org |-> DemoOrg, by |-> s])
                 /\ Item(s) \notin Ids
                 /\ [id |-> Item(s), org |-> DemoOrg, by |-> s] \in Row
                 /\ seeder'[s].at = "draft" /\ Item(s)' = Item(s)
  <1>0. SeedersType /\ seeder[s] \in [at : SeedSteps \cup {"done", "failed"}, org : Nat, item : Nat]
    BY DEF RowsIInv, SeedersType
  <1>1. At(s, "request") /\ ~Finishing(s) /\ UNCHANGED <<drafts, actions>>
    BY DEF insertRequest, At, Finishing
  <1>2. \A p : GoTo(s, p) => /\ seeder'[s] = p
                             /\ \A t \in Seeders : t # s => seeder'[t] = seeder[t]
    BY <1>0, SeederMoved
  <1>3. Item(s) \in Range(DEMO_REQUESTS)
    BY <1>0, <1>1, ItemIsSeeded
  <1>4. [id |-> Item(s), org |-> DemoOrg, by |-> s] \in Row
    BY <1>3, TablesAssumption DEF Row, RowIds
  <1>5. CASE Item(s) \in Ids
    BY <1>1, <1>2, <1>5, LoopsGoOn DEF insertRequest
  <1>6. CASE Item(s) \notin Ids
    <2>1. /\ requests' = Append(requests, [id |-> Item(s), org |-> DemoOrg, by |-> s])
          /\ GoTo(s, [seeder[s] EXCEPT !.at = "draft"])
      BY <1>6 DEF insertRequest
    <2>2. seeder'[s] = [seeder[s] EXCEPT !.at = "draft"]
      BY <1>2, <2>1
    <2>3. seeder'[s].at = "draft" /\ seeder'[s].item = seeder[s].item
      BY <1>0, <2>2
    <2>4. Item(s)' = Item(s)
      BY <2>3 DEF Item
    <2> QED BY <1>1, <1>2, <1>4, <1>6, <2>1, <2>3, <2>4
  <1> QED BY <1>5, <1>6

\* A row that is added by s completes nobody else's request.
LEMMA InsertedByOthers ==
    ASSUME RowsType, NEW row \in Row, requests' = Append(requests, row),
           NEW t \in Seeders, row.by # t, seeder'[t] = seeder[t], Inserted(t)'
    PROVE  Inserted(t)
  <1>0. /\ DOMAIN requests' = 1..(Len(requests) + 1)
        /\ DOMAIN requests = 1..Len(requests) /\ Len(requests) \in Nat
        /\ \A i \in DOMAIN requests : i \in DOMAIN requests' /\ requests'[i] = requests[i]
        /\ requests'[Len(requests) + 1] = row
    BY AppendedRows
  <1>1. PICK i \in DOMAIN requests' : requests'[i].id = Item(t)' /\ requests'[i].by = t
    BY DEF Inserted
  <1>2. i \in DOMAIN requests /\ Item(t)' = Item(t)
    BY <1>0, <1>1 DEF Item
  <1> QED BY <1>0, <1>1, <1>2 DEF Inserted

-----------------------------------------------------------------------------
LEMMA ActionsFollowStep == SeededIInv /\ [Next]_demoVars => ActionsFollowDrafts'
  <1> SUFFICES ASSUME SeededIInv, [Next]_demoVars,
                      NEW t \in Seeders, At(t, "action")', Inserted(t)'
               PROVE  Item(t)' \in drafts'
    BY DEF ActionsFollowDrafts
  <1>0. /\ RowsIInv /\ RowsType /\ SeedersType
        /\ At(t, "action") /\ Inserted(t) => Item(t) \in drafts
    BY DEF SeededIInv, RowsIInv, ActionsFollowDrafts
  <1>1. ASSUME seeder'[t] = seeder[t], Inserted(t), drafts \subseteq drafts'
        PROVE  Item(t)' \in drafts'
    BY <1>0, <1>1 DEF At, Item
  <1>2. ASSUME UNCHANGED <<requests, seeder, drafts>> PROVE Item(t)' \in drafts'
    BY <1>1, <1>2 DEF Inserted, Item
  <1>3. ASSUME NEW s \in Seeders, OtherStatement(s) \/ insertRequest(s) PROVE Item(t)' \in drafts'
    <2>1. CASE insertRequest(s)
      <3>1. t # s
        BY <1>0, <2>1, InsertEffect DEF At
      <3>2. seeder'[t] = seeder[t] /\ drafts' = drafts
        BY <1>0, <2>1, <3>1, InsertEffect
      <3>3. CASE UNCHANGED requests
        BY <1>1, <3>2, <3>3 DEF Inserted, Item
      <3>4. CASE requests' = Append(requests, [id |-> Item(s), org |-> DemoOrg, by |-> s])
        <4> DEFINE row == [id |-> Item(s), org |-> DemoOrg, by |-> s]
        <4>1. row \in Row /\ row.by # t
          BY <1>0, <2>1, <3>1, ItemIsSeeded, TablesAssumption DEF Row, RowIds, insertRequest
        <4>2. requests' = Append(requests, row)
          BY <3>4
        <4> HIDE DEF row
        <4>3. Inserted(t)
          BY <1>0, <3>2, <4>1, <4>2, InsertedByOthers
        <4> QED BY <1>1, <3>2, <4>3
      <3> QED BY <1>0, <2>1, <3>3, <3>4, InsertEffect
    <2>2. CASE OtherStatement(s) /\ ~insertRequest(s)
      <3>1. t # s
        BY <1>0, <2>2, OtherStatementEffect DEF At
      <3>2. seeder'[t] = seeder[t] /\ UNCHANGED <<requests, drafts>>
        BY <1>0, <2>2, <3>1, OtherStatementEffect
      <3> QED BY <1>1, <3>2 DEF Inserted, Item
    <2> QED BY <1>3, <2>1, <2>2
  <1>4. ASSUME NEW s \in Seeders, insertDraft(s) \/ insertAction(s) \/ SeedDies(s)
        PROVE  Item(t)' \in drafts'
    <2>0. drafts \subseteq drafts' /\ UNCHANGED requests
      BY <1>4 DEF insertDraft, insertAction, SeedDies, tables
    <2>1. CASE t # s
      <3>1. seeder'[t] = seeder[t]
        BY <1>0, <1>4, <2>1, SeederMoved DEF insertDraft, insertAction, SeedDies
      <3> QED BY <1>1, <2>0, <3>1 DEF Inserted, Item
    <2>2. CASE t = s /\ insertDraft(s)
      <3>1. seeder'[s] = AfterDraft(s)
        BY <1>0, <2>2, SeederMoved DEF insertDraft
      <3>2. seeder'[s] = [seeder[s] EXCEPT !.at = "action"]
        BY <2>2, <3>1, LoopsGoOn DEF AfterDraft, At
      <3>3. seeder[s] \in [at : SeedSteps \cup {"done", "failed"}, org : Nat, item : Nat]
        BY <1>0 DEF SeedersType
      <3>4. Item(s)' = Item(s)
        BY <3>2, <3>3 DEF Item
      <3> QED BY <2>2, <3>4 DEF insertDraft
    <2>3. CASE t = s /\ insertAction(s)
      <3>1. seeder'[s] = NextRequest(seeder[s].org, seeder[s].item)
        BY <1>0, <2>3, SeederMoved DEF insertAction
      <3> QED BY <2>3, <3>1, LoopsGoOn DEF At
    <2>4. CASE t = s /\ SeedDies(s)
      <3>1. seeder'[s] = Statement("failed", 0, 0)
        BY <1>0, <2>4, SeederMoved DEF SeedDies
      <3> QED BY <2>4, <3>1 DEF At, Statement
    <2> QED BY <1>4, <2>1, <2>2, <2>3, <2>4
  <1>5. ASSUME NEW c \in Clients, NEW org \in Orgs, PostsRow(c, org) PROVE Item(t)' \in drafts'
    <2> DEFINE row == [id |-> <<c, client[c].rows + 1>>, org |-> org, by |-> c]
    <2>1. row \in Row /\ row.by # t /\ requests' = Append(requests, row)
      <3>1. row \in Row
        BY <1>0, <1>5, PostedRow
      <3>2. c # t
        BY IdsAssumption
      <3> QED BY <1>5, <3>1, <3>2 DEF PostsRow
    <2> HIDE DEF row
    <2>2. seeder'[t] = seeder[t] /\ drafts' = drafts
      BY <1>5 DEF PostsRow
    <2>3. Inserted(t)
      BY <1>0, <2>1, <2>2, InsertedByOthers
    <2> QED BY <1>1, <2>2, <2>3
  <1>6. ASSUME NEW j \in Jobs, deleteBatch(j), UNCHANGED seeder PROVE Item(t)' \in drafts'
    <2> DEFINE ids == job[j].batch
    <2>1. requests' = Kept(requests, RowsAfter(ids)) /\ drafts' = drafts \ ids
      BY <1>6 DEF deleteBatch, DeleteRequests, RowsAfter
    <2> HIDE DEF ids
    <2>2. \A k \in DOMAIN requests' : \E i \in RowsAfter(ids) : requests'[k] = requests[i]
      BY <1>0, <2>1, DeletedRows
    <2>3. PICK i \in RowsAfter(ids) : requests[i].id = Item(t)' /\ requests[i].by = t
      BY <2>2 DEF Inserted
    <2>4. Item(t)' = Item(t) /\ At(t, "action")
      BY <1>6 DEF Item, At
    <2>5. Inserted(t) /\ Item(t) \notin ids
      BY <2>3, <2>4 DEF RowsAfter, Inserted
    <2> QED BY <1>0, <2>1, <2>4, <2>5
  <1>7. ASSUME NEW s \in Seeders, SeedStep(s) \/ SeedAgain(s) \/ SeedDies(s)
        PROVE  Item(t)' \in drafts'
    BY <1>3, <1>4, <1>7 DEF SeedStep, OtherStatement
  <1>8. ASSUME NEW j \in Jobs, PurgeStep(j), UNCHANGED seeder PROVE Item(t)' \in drafts'
    BY <1>2, <1>6, <1>8 DEF PurgeStep, startPurge, selectStale, purgeDies, tables
  <1>9. ASSUME NEW c \in Clients, ClientStep(c) \/ callFails(c, faults), UNCHANGED <<seeder, job>>
        PROVE  Item(t)' \in drafts'
    BY <1>0, <1>2, <1>5, <1>9, ClientTouches, InsertsPost DEF RowsIInv
  <1>10. ASSUME NEW o \in Orgs, operatorEdits(o), UNCHANGED seeder PROVE Item(t)' \in drafts'
    BY <1>2, <1>10 DEF operatorEdits
  <1>11. CASE UNCHANGED demoVars
    BY <1>2, <1>11 DEF demoVars, tables
  <1> QED BY <1>7, <1>8, <1>9, <1>10, <1>11 DEF Next, PurgeStep

-----------------------------------------------------------------------------
\* No step but a death leaves a seeded request half done.
LEMMA HalfStep ==
    ASSUME SeededIInv, [Next]_demoVars,
           NEW q \in Range(DEMO_REQUESTS), Half(q)', ~Half(q)
    PROVE  \E s \in Seeders : Item(s) = q /\ SeedDies(s) /\ Fault
  <1>0. RowsIInv /\ RowsType /\ SeedersType /\ ActionsFollowDrafts
    BY DEF SeededIInv, RowsIInv
  <1>1. ASSUME UNCHANGED <<requests, drafts, actions, seeder>> PROVE FALSE
    <2>1. Half(q)
      BY <1>1, HalfWithoutRows
    <2> QED BY <2>1
  <1>2. ASSUME NEW s \in Seeders, OtherStatement(s) \/ insertRequest(s) PROVE FALSE
    <2>1. CASE OtherStatement(s)
      <3>1. /\ UNCHANGED <<requests, drafts, actions>>
            /\ \A t \in Seeders : Finishing(t) => seeder'[t] = seeder[t]
        BY <1>0, <2>1, OtherStatementEffect
      <3>3. Half(q)
        BY <3>1, HalfWithoutRows
      <3> QED BY <3>3
    <2>2. CASE insertRequest(s) /\ ~OtherStatement(s)
      <3> DEFINE row == [id |-> Item(s), org |-> DemoOrg, by |-> s]
      <3>1. /\ UNCHANGED <<drafts, actions>>
            /\ \A t \in Seeders : Finishing(t) => seeder'[t] = seeder[t]
            /\ requests' = Append(requests, row) /\ row \in Row
            /\ seeder'[s].at = "draft" /\ Item(s)' = Item(s)
        BY <1>0, <2>2, InsertEffect DEF OtherStatement
      <3>2. CASE q = Item(s)
        <4>1. requests'[Len(requests) + 1] = row /\ Len(requests) + 1 \in DOMAIN requests'
          BY <1>0, <3>1, AppendedRows
        <4>2. Inserted(s)'
          BY <3>1, <4>1 DEF Inserted
        <4>3. InProgress(q)'
          BY <3>1, <3>2, <4>2 DEF InProgress, At
        <4> QED BY <4>3 DEF Half
      <3>3. CASE q # Item(s)
        <4>1. row.id = Item(s)
          OBVIOUS
        <4> HIDE DEF row
        <4>2. Half(q)
          BY <1>0, <3>1, <3>3, <4>1, HalfWithAnother
        <4> QED BY <4>2
      <3> QED BY <3>2, <3>3
    <2> QED BY <1>2, <2>1, <2>2
  <1>3. ASSUME NEW s \in Seeders, insertDraft(s) \/ insertAction(s) PROVE FALSE
    <2>1. /\ UNCHANGED requests /\ Inserted(s)
          /\ drafts' \in {drafts, drafts \cup {Item(s)}}
          /\ actions' \in {actions, actions \cup {Item(s)}}
      BY <1>3 DEF insertDraft, insertAction
    <2>2. \A t \in Seeders \ {s} : seeder'[t] = seeder[t]
      BY <1>0, <1>3, SeederMoved DEF insertDraft, insertAction
    <2>3. q = Item(s)
      <3>1. q # Item(s) => Half(q)
        BY <2>1, <2>2, HalfOfOthers
      <3> QED BY <3>1
    <2>4. CASE insertDraft(s)
      <3>1. q \in drafts' /\ UNCHANGED actions
        BY <2>3, <2>4 DEF insertDraft
      <3>2. q \in Approved /\ ~Complete(q)'
        BY <3>1 DEF Half, Complete
      <3>3. seeder'[s] = [seeder[s] EXCEPT !.at = "action"]
        BY <1>0, <2>3, <2>4, <3>2, SeederMoved DEF insertDraft, AfterDraft
      <3>4. seeder[s] \in [at : SeedSteps \cup {"done", "failed"}, org : Nat, item : Nat]
        BY <1>0 DEF SeedersType
      <3>5. Item(s)' = Item(s) /\ seeder'[s].at = "action"
        BY <3>3, <3>4 DEF Item
      <3>6. Inserted(s)'
        BY <2>1, <3>5 DEF Inserted
      <3>7. InProgress(q)'
        BY <2>3, <3>5, <3>6 DEF InProgress, At
      <3> QED BY <3>7 DEF Half
    <2>5. CASE insertAction(s)
      <3>1. q \in drafts
        BY <1>0, <2>1, <2>3, <2>5 DEF insertAction, ActionsFollowDrafts
      <3>2. q \in drafts' /\ q \in actions'
        BY <2>3, <2>5, <3>1 DEF insertAction
      <3> QED BY <3>2 DEF Half, Complete
    <2> QED BY <1>3, <2>4, <2>5
  <1>4. ASSUME NEW s \in Seeders, SeedDies(s), Fault
        PROVE  \E t \in Seeders : Item(t) = q /\ SeedDies(t) /\ Fault
    <2>1. UNCHANGED <<requests, drafts, actions>>
      BY <1>4 DEF SeedDies, tables
    <2>2. \A t \in Seeders \ {s} : seeder'[t] = seeder[t]
      BY <1>0, <1>4, SeederMoved DEF SeedDies
    <2>3. q # Item(s) => Half(q)
      BY <2>1, <2>2, HalfOfOthers
    <2> QED BY <1>4, <2>3
  <1>5. ASSUME NEW c \in Clients, NEW org \in Orgs, PostsRow(c, org) PROVE FALSE
    <2> DEFINE row == [id |-> <<c, client[c].rows + 1>>, org |-> org, by |-> c]
    <2>1. /\ row \in Row /\ requests' = Append(requests, row)
          /\ UNCHANGED <<drafts, actions>> /\ \A s \in Seeders : Finishing(s) => seeder'[s] = seeder[s]
      BY <1>0, <1>5, PostedRow DEF PostsRow
    <2>2. q # row.id
      <3>0. client[c].rows \in Nat
        BY <1>0, <1>5, PostedRow
      <3>1. client[c].rows + 1 \in Nat
        BY <3>0
      <3> QED BY <3>1, IdsAssumption
    <2> HIDE DEF row
    <2>4. Half(q)
      BY <1>0, <2>1, <2>2, HalfWithAnother
    <2> QED BY <2>4
  <1>6. ASSUME NEW j \in Jobs, deleteBatch(j), UNCHANGED seeder PROVE FALSE
    <2> DEFINE ids == job[j].batch
    <2>1. requests' = Kept(requests, RowsAfter(ids)) /\ drafts' = drafts \ ids /\ actions' = actions \ ids
      BY <1>6 DEF deleteBatch, DeleteRequests, RowsAfter
    <2> HIDE DEF ids
    <2>2. Half(q)
      BY <1>0, <1>6, <2>1, HalfAfterDelete
    <2> QED BY <2>2
  <1>7. ASSUME NEW s \in Seeders, SeedStep(s) \/ SeedAgain(s) PROVE FALSE
    BY <1>2, <1>3, <1>7 DEF SeedStep, OtherStatement
  <1>8. ASSUME NEW j \in Jobs, PurgeStep(j), UNCHANGED seeder PROVE FALSE
    BY <1>1, <1>6, <1>8 DEF PurgeStep, startPurge, selectStale, purgeDies, tables
  <1>9. ASSUME NEW c \in Clients, ClientStep(c) \/ callFails(c, faults), UNCHANGED <<seeder, job>>
        PROVE  FALSE
    BY <1>0, <1>1, <1>5, <1>9, ClientTouches, InsertsPost DEF RowsIInv
  <1>10. ASSUME NEW o \in Orgs, operatorEdits(o), UNCHANGED seeder PROVE FALSE
    BY <1>1, <1>10 DEF operatorEdits
  <1>11. CASE UNCHANGED demoVars
    BY <1>1, <1>11 DEF demoVars, tables
  <1> QED BY <1>4, <1>7, <1>8, <1>9, <1>10, <1>11 DEF Next, PurgeStep

LEMMA SeededRequestsAreFinite ==
    IsFiniteSet(Range(DEMO_REQUESTS))
  <1> DEFINE n == Len(DEMO_REQUESTS)
  <1>1. n \in Nat /\ DOMAIN DEMO_REQUESTS = 1..n
    BY SeedAssumption
  <1>2. IsFiniteSet(1..n)
    BY <1>1, FS_Interval
  <1>3. DEMO_REQUESTS \in Surjection(1..n, Range(DEMO_REQUESTS))
    BY <1>1, SeedAssumption DEF Surjection, Range
  <1> HIDE DEF n
  <1> QED BY <1>2, <1>3, FS_Surjection

HalfSeededIInv == SeededIInv /\ HalfSeededIsPaidByFaults

LEMMA HalfSeededStep == HalfSeededIInv /\ [Next]_demoVars => HalfSeededIInv'
  <1> SUFFICES ASSUME HalfSeededIInv, [Next]_demoVars PROVE HalfSeededIInv'
    OBVIOUS
  <1>0. /\ SeededIInv /\ Cardinality(HalfSeeded) <= faults /\ faults \in Nat
        /\ HalfSeeded \subseteq Range(DEMO_REQUESTS) /\ IsFiniteSet(HalfSeeded)
        /\ Cardinality(HalfSeeded) \in Nat
    <2>1. /\ SeededIInv /\ Cardinality(HalfSeeded) <= faults /\ faults \in Nat
          /\ HalfSeeded \subseteq Range(DEMO_REQUESTS)
      BY DEF HalfSeededIInv, HalfSeededIsPaidByFaults, SeededIInv, RowsIInv, ClientIInv,
             ClientTypeOK, HalfSeeded
    <2>2. IsFiniteSet(HalfSeeded)
      BY <2>1, SeededRequestsAreFinite, FS_Subset
    <2> QED BY <2>1, <2>2, FS_CardinalityType
  <1>1. SeededIInv'
    BY <1>0, RowsIInvStep, ActionsFollowStep DEF SeededIInv
  <1>2. faults' \in {faults, faults + 1}
    BY DEF Next, Fault, demoVars
  <1>3. HalfSeeded' = {q \in Range(DEMO_REQUESTS) : Half(q)'}
    BY DEF HalfSeeded, Half
  <1>4. HalfSeeded = {q \in Range(DEMO_REQUESTS) : Half(q)}
    BY HalfSeededIs
  <1>5. CASE HalfSeeded' \subseteq HalfSeeded
    <2>1. Cardinality(HalfSeeded') <= Cardinality(HalfSeeded) /\ Cardinality(HalfSeeded') \in Nat
      BY <1>0, <1>5, FS_Subset, FS_CardinalityType
    <2>2. Cardinality(HalfSeeded') <= faults'
      BY <1>0, <1>2, <2>1
    <2> QED BY <1>1, <2>2 DEF HalfSeededIInv, HalfSeededIsPaidByFaults
  <1>6. CASE ~(HalfSeeded' \subseteq HalfSeeded)
    <2>1. PICK p \in Range(DEMO_REQUESTS) : Half(p)' /\ ~Half(p)
      BY <1>3, <1>4, <1>6
    <2>2. PICK s \in Seeders : Item(s) = p /\ SeedDies(s) /\ Fault
      BY <1>0, <2>1, HalfStep
    <2>3. HalfSeeded' \subseteq HalfSeeded \cup {p}
      <3> SUFFICES ASSUME NEW q \in Range(DEMO_REQUESTS), Half(q)', ~Half(q), q # p
                   PROVE  FALSE
        BY <1>3, <1>4
      <3>1. SeedersType /\ UNCHANGED <<requests, drafts, actions>>
        BY <1>0, <2>2 DEF SeededIInv, RowsIInv, SeedDies, tables
      <3>2. \A t \in Seeders \ {s} : seeder'[t] = seeder[t]
        BY <2>2, <3>1, SeederMoved DEF SeedDies
      <3>3. Half(q)
        BY <2>2, <3>1, <3>2, HalfOfOthers
      <3> QED BY <3>3
    <2>4. /\ IsFiniteSet(HalfSeeded \cup {p})
          /\ Cardinality(HalfSeeded \cup {p}) \in {Cardinality(HalfSeeded), Cardinality(HalfSeeded) + 1}
      <3>1. /\ IsFiniteSet(HalfSeeded \cup {p})
            /\ Cardinality(HalfSeeded \cup {p}) =
                 IF p \in HalfSeeded THEN Cardinality(HalfSeeded) ELSE Cardinality(HalfSeeded) + 1
        BY <1>0, FS_AddElement
      <3> QED BY <3>1
    <2>5. /\ Cardinality(HalfSeeded') <= Cardinality(HalfSeeded \cup {p})
          /\ Cardinality(HalfSeeded') \in Nat
      BY <2>3, <2>4, FS_Subset, FS_CardinalityType
    <2>6. faults' = faults + 1
      BY <2>2 DEF Fault
    <2>7. Cardinality(HalfSeeded') <= faults'
      BY <1>0, <2>4, <2>5, <2>6
    <2> QED BY <1>1, <2>7 DEF HalfSeededIInv, HalfSeededIsPaidByFaults
  <1> QED BY <1>5, <1>6

\* seed.ts:281: whatever is there of a seeded request is complete, however many
\* seeds, purges and clients there are; every exception is a seed that died.
THEOREM HalfSeededIsPaid == Spec => []HalfSeededIsPaidByFaults
  <1>1. Init => HalfSeededIInv
    <2> SUFFICES ASSUME Init PROVE HalfSeededIInv
      OBVIOUS
    <2>1. requests = <<>> /\ faults = 0 /\ drafts = {}
      BY DEF Init
    <2>2. Ids = {}
      BY <2>1 DEF Ids
    <2>3. HalfSeeded = {}
      BY <2>2 DEF HalfSeeded
    <2>4. \A s \in Seeders : ~At(s, "action")
      BY DEF Init, SeedInit, At, Statement
    <2>5. Cardinality(HalfSeeded) <= faults
      BY <2>1, <2>3, FS_EmptySet
    <2> QED BY <2>4, <2>5, RowsInit
            DEF HalfSeededIInv, SeededIInv, ActionsFollowDrafts, HalfSeededIsPaidByFaults
  <1>2. HalfSeededIInv => HalfSeededIsPaidByFaults
    BY DEF HalfSeededIInv
  <1> QED BY <1>1, <1>2, HalfSeededStep, PTL DEF Spec

-----------------------------------------------------------------------------
SettingsIn(o) == settings[o] # "absent" /\ settings[o] # "old"

\* The address run s gives the owner of o is somebody's: o's, if it has an "@".
OwnerIn(s, o) == \E m \in owners : m.email = ownerEmailFor(s, o)

FilesIn(o, k) ==
    \A l \in DOMAIN Files[o] : l <= k => [org |-> o, file |-> Files[o][l]] \in documents

Delivered(s, o) == SettingsIn(o) /\ OwnerIn(s, o) /\ FilesIn(o, Len(Files[o]))

DeliveredBefore(s, i) == \A k \in DOMAIN ORGS : k < i => Delivered(s, ORGS[k])

\* What is in the tables when a seed has come to p, whoever put it there.
Reached(s, p) ==
    /\ DeliveredBefore(s, p.org)
    /\ p.at = "done" => \A i \in DOMAIN ORGS : Delivered(s, ORGS[i])
    /\ p.at = "settings" => HasOrg(ORGS[p.org])
    /\ p.at \in {"owner", "document", "request", "draft", "action"} => SettingsIn(ORGS[p.org])
    /\ p.at \in {"document", "request", "draft", "action"} => OwnerIn(s, ORGS[p.org])
    /\ p.at = "document" => FilesIn(ORGS[p.org], p.item - 1)
    /\ p.at \in {"request", "draft", "action"} =>
           FilesIn(ORGS[p.org], Len(Files[ORGS[p.org]]))

\* An address is one owner's, and one a run gives the owner of that org.
OwnersAreOwn ==
    /\ \A m \in owners : m.org \in Orgs /\ \E s \in Seeders : m.email = ownerEmailFor(s, m.org)
    /\ \A m, n \in owners : m.email = n.email => m = n

SeedersReached == \A s \in Seeders : \A p : p = seeder[s] => Reached(s, p)

DeliveryIInv == SeedersType /\ SettingsKnown /\ OwnersAreOwn /\ SeedersReached

\* Where the loops go on to has been reached when what is before it has.
LoopsReach ==
    \A s \in Seeders, i \in DOMAIN ORGS :
        /\ DeliveredBefore(s, i) /\ Delivered(s, ORGS[i]) =>
               Reached(s, NextOrg(i)) /\ \A k \in Nat : Reached(s, NextRequest(i, k))
        /\ \A k \in Nat :
               DeliveredBefore(s, i) /\ SettingsIn(ORGS[i]) /\ OwnerIn(s, ORGS[i]) /\ FilesIn(ORGS[i], k) =>
                   Reached(s, NextDocument(i, k))

LEMMA LoopsReachAlways == LoopsReach
  <1> SUFFICES ASSUME NEW s \in Seeders, NEW i \in DOMAIN ORGS, DeliveredBefore(s, i)
               PROVE  /\ Delivered(s, ORGS[i]) =>
                             Reached(s, NextOrg(i)) /\ \A k \in Nat : Reached(s, NextRequest(i, k))
                      /\ \A k \in Nat :
                             SettingsIn(ORGS[i]) /\ OwnerIn(s, ORGS[i]) /\ FilesIn(ORGS[i], k) =>
                                 Reached(s, NextDocument(i, k))
    BY DEF LoopsReach
  <1>0. /\ Len(ORGS) \in Nat /\ DOMAIN ORGS = 1..Len(ORGS) /\ i \in Nat
        /\ ORGS[i] \in Orgs
        /\ Len(Files[ORGS[i]]) \in Nat /\ DOMAIN Files[ORGS[i]] = 1..Len(Files[ORGS[i]])
    BY TablesAssumption DEF Orgs, Range
  <1>1. ASSUME Delivered(s, ORGS[i]) PROVE Reached(s, NextOrg(i))
    <2>1. \A k \in DOMAIN ORGS : k <= i => Delivered(s, ORGS[k])
      BY <1>0, <1>1 DEF DeliveredBefore
    <2>2. CASE i < Len(ORGS)
      <3>1. NextOrg(i) = [at |-> "org", org |-> i + 1, item |-> 0]
        BY <2>2 DEF NextOrg, Statement
      <3>2. DeliveredBefore(s, i + 1)
        BY <1>0, <2>1 DEF DeliveredBefore
      <3> QED BY <3>1, <3>2 DEF Reached
    <2>3. CASE ~(i < Len(ORGS))
      <3>1. NextOrg(i) = [at |-> "done", org |-> 0, item |-> 0]
        BY <2>3 DEF NextOrg, Statement
      <3>2. \A k \in DOMAIN ORGS : Delivered(s, ORGS[k]) /\ ~(k < 0)
        BY <1>0, <2>1, <2>3
      <3> QED BY <3>1, <3>2 DEF Reached, DeliveredBefore
    <2> QED BY <2>2, <2>3
  <1>2. ASSUME Delivered(s, ORGS[i]), NEW k \in Nat PROVE Reached(s, NextRequest(i, k))
    <2>1. CASE NextRequest(i, k) = [at |-> "request", org |-> i, item |-> k + 1]
      BY <1>2, <2>1 DEF Reached, Delivered
    <2>2. CASE NextRequest(i, k) = NextOrg(i)
      BY <1>1, <1>2, <2>2
    <2> QED BY <2>1, <2>2 DEF NextRequest, Statement
  <1>3. ASSUME NEW k \in Nat, SettingsIn(ORGS[i]), OwnerIn(s, ORGS[i]), FilesIn(ORGS[i], k)
        PROVE  Reached(s, NextDocument(i, k))
    <2>1. CASE k < Len(Files[ORGS[i]])
      <3>1. NextDocument(i, k) = [at |-> "document", org |-> i, item |-> k + 1]
        BY <2>1 DEF NextDocument, Statement
      <3>2. (k + 1) - 1 = k
        OBVIOUS
      <3> QED BY <1>3, <3>1, <3>2 DEF Reached
    <2>2. CASE ~(k < Len(Files[ORGS[i]]))
      <3>1. FilesIn(ORGS[i], Len(Files[ORGS[i]]))
        BY <1>0, <1>3, <2>2 DEF FilesIn
      <3>2. Reached(s, NextRequest(i, 0))
        BY <1>2, <1>3, <3>1 DEF Delivered
      <3> QED BY <2>2, <3>2 DEF NextDocument
    <2> QED BY <2>1, <2>2
  <1> QED BY <1>1, <1>2, <1>3

LEMMA LoopsReachNext == LoopsReach'
  BY LoopsReachAlways, PTL

\* Nothing takes an org, an owner or a document away.
Grows ==
    /\ \A o \in Orgs : /\ HasOrg(o) => HasOrg(o)'
                       /\ SettingsIn(o) => SettingsIn(o)'
    /\ owners \subseteq owners'
    /\ documents \subseteq documents'

LEMMA TablesGrow ==
    ASSUME SettingsKnown, [Next]_demoVars
    PROVE  Grows
  <1>1. \A o \in Orgs : (HasOrg(o) => HasOrg(o)') /\ (SettingsIn(o) => SettingsIn(o)')
    BY SettingsEffect DEF SettingsKnown, HasOrg, SettingsIn
  <1>2. owners \subseteq owners' /\ documents \subseteq documents'
    <2>1. ASSUME NEW s \in Seeders, SeedStep(s) \/ SeedAgain(s) \/ SeedDies(s)
          PROVE  owners \subseteq owners' /\ documents \subseteq documents'
      BY <2>1 DEF SeedStep, SeedAgain, SeedDies, upsertOrg, backfillSettingsKey, upsertOwner,
                  upsertDocument, insertRequest, insertDraft, insertAction, ForeignKeyFails, tables
    <2>2. ASSUME NEW j \in Jobs, PurgeStep(j) PROVE UNCHANGED <<owners, documents>>
      BY <2>2 DEF PurgeStep, startPurge, selectStale, deleteBatch, purgeDies, DeleteRequests, tables
    <2>3. ASSUME NEW c \in Clients, ClientStep(c) \/ callFails(c, faults) PROVE UNCHANGED <<owners, documents>>
      BY <2>3, ClientTouches
    <2>4. ASSUME NEW o \in Orgs, operatorEdits(o) PROVE UNCHANGED <<owners, documents>>
      BY <2>4 DEF operatorEdits
    <2> QED BY <2>1, <2>2, <2>3, <2>4 DEF Next, PurgeStep, demoVars, tables
  <1> QED BY <1>1, <1>2 DEF Grows

LEMMA DeliveredStays ==
    ASSUME Grows, NEW s, NEW o \in Orgs
    PROVE  /\ OwnerIn(s, o) => OwnerIn(s, o)'
           /\ \A k : FilesIn(o, k) => FilesIn(o, k)'
           /\ Delivered(s, o) => Delivered(s, o)'
  <1>1. OwnerIn(s, o) => OwnerIn(s, o)'
    BY DEF Grows, OwnerIn, ownerEmailFor
  <1>2. \A k : FilesIn(o, k) => FilesIn(o, k)'
    BY DEF Grows, FilesIn
  <1> QED BY <1>1, <1>2 DEF Grows, Delivered

LEMMA ReachedStays ==
    ASSUME Grows, NEW s, NEW p, SeedPlace(p), Reached(s, p)
    PROVE  Reached(s, p)'
  <1>1. \A i \in DOMAIN ORGS : ORGS[i] \in Orgs
    BY TablesAssumption
  <1>2. \A i \in DOMAIN ORGS : Delivered(s, ORGS[i]) => Delivered(s, ORGS[i])'
    BY <1>1, DeliveredStays
  <1>3. DeliveredBefore(s, p.org)'
    BY <1>2 DEF Reached, DeliveredBefore
  <1>4. p.at = "done" => \A i \in DOMAIN ORGS : Delivered(s, ORGS[i])'
    BY <1>2 DEF Reached
  <1>5. CASE p.at \notin SeedSteps
    BY <1>3, <1>4, <1>5 DEF Reached, SeedSteps
  <1>6. CASE p.at \in SeedSteps
    <2>1. ORGS[p.org] \in Orgs
      BY <1>1, <1>6 DEF SeedPlace
    <2>2. /\ OwnerIn(s, ORGS[p.org]) => OwnerIn(s, ORGS[p.org])'
          /\ \A k : FilesIn(ORGS[p.org], k) => FilesIn(ORGS[p.org], k)'
          /\ HasOrg(ORGS[p.org]) => HasOrg(ORGS[p.org])'
          /\ SettingsIn(ORGS[p.org]) => SettingsIn(ORGS[p.org])'
      BY <2>1, DeliveredStays DEF Grows
    <2> QED BY <1>3, <1>4, <2>2 DEF Reached
  <1> QED BY <1>5, <1>6

-----------------------------------------------------------------------------
\* Where a seed goes next has been reached.
LEMMA NextIsReached ==
    ASSUME DeliveryIInv, [Next]_demoVars, NEW s \in Seeders,
           SeedStep(s) \/ SeedAgain(s) \/ SeedDies(s)
    PROVE  \A p : p = seeder'[s] => Reached(s, p)'
  <1> PICK here : here = seeder[s]
    OBVIOUS
  <1> DEFINE i == here.org
             o == ORGS[here.org]
  <1>0. /\ SeedersType /\ SettingsKnown /\ SeedPlace(here) /\ Reached(s, here)
        /\ here \in [at : SeedSteps \cup {"done", "failed"}, org : Nat, item : Nat]
    BY DEF DeliveryIInv, SeedersType, SeedersReached, SeedPlace
  <1>1. Grows
    BY <1>0, TablesGrow
  <1>2. Reached(s, here)'
    BY <1>0, <1>1, ReachedStays
  <1>3. \A p : GoTo(s, p) => seeder'[s] = p
    BY <1>0, SeederMoved
  <1>4. here.at \in SeedSteps => i \in DOMAIN ORGS /\ o \in Orgs /\ DeliveredBefore(s, i)'
    BY <1>0, <1>2, TablesAssumption DEF SeedPlace, Reached
  <1>5. ASSUME NEW p, seeder'[s] = p, Reached(s, p)'
        PROVE  \A q : q = seeder'[s] => Reached(s, q)'
    BY <1>5
  <1>6. CASE SeedAgain(s) \/ SeedDies(s) \/ ForeignKeyFails(s)
    <2>1. PICK at \in {"org", "failed"}, k \in {0, 1} :
              seeder'[s] = [at |-> at, org |-> k, item |-> 0]
      BY <1>3, <1>6 DEF SeedAgain, SeedDies, ForeignKeyFails, Statement
    <2> DEFINE p == [at |-> at, org |-> k, item |-> 0]
    <2>2. DeliveredBefore(s, k)'
      <3>1. \A j \in DOMAIN ORGS : ~(j < k)
        BY TablesAssumption
      <3> QED BY <3>1 DEF DeliveredBefore
    <2>3. Reached(s, p)'
      BY <2>2 DEF Reached
    <2> HIDE DEF p
    <2>4. seeder'[s] = p
      BY <2>1 DEF p
    <2> QED BY <1>5, <2>3, <2>4
  <1>7. CASE upsertOrg(s)
    <2>1. here.at = "org" /\ i \in DOMAIN ORGS /\ o \in Orgs /\ DeliveredBefore(s, i)'
      BY <1>4, <1>7 DEF upsertOrg, At, SeedSteps
    <2>2. CASE HasOrg(o)
      <3> DEFINE p == [at |-> "settings", org |-> i, item |-> 0]
      <3>1. seeder'[s] = p
        BY <1>3, <1>7, <2>2 DEF upsertOrg, OrgAt, Statement
      <3>2. HasOrg(o)'
        BY <1>1, <2>1, <2>2 DEF Grows
      <3>3. Reached(s, p)'
        BY <2>1, <3>2 DEF Reached
      <3> HIDE DEF p
      <3> QED BY <1>5, <3>1, <3>3
    <2>3. CASE ~HasOrg(o)
      <3> DEFINE p == [at |-> "owner", org |-> i, item |-> 0]
      <3>1. seeder'[s] = p
        BY <1>3, <1>7, <2>3 DEF upsertOrg, OrgAt, Statement
      <3>2. SettingsIn(o)'
        BY <1>0, <1>7, <2>1, <2>3 DEF upsertOrg, OrgAt, SettingsKnown, SettingsIn
      <3>3. Reached(s, p)'
        BY <2>1, <3>2 DEF Reached
      <3> HIDE DEF p
      <3> QED BY <1>5, <3>1, <3>3
    <2> QED BY <2>2, <2>3
  <1>8. CASE backfillSettingsKey(s)
    <2>1. here.at = "settings" /\ i \in DOMAIN ORGS /\ o \in Orgs /\ DeliveredBefore(s, i)' /\ HasOrg(o)
      BY <1>0, <1>4, <1>8 DEF backfillSettingsKey, At, SeedSteps, Reached
    <2> DEFINE p == [at |-> "owner", org |-> i, item |-> 0]
    <2>2. seeder'[s] = p
      BY <1>3, <1>8 DEF backfillSettingsKey, Statement
    <2>3. SettingsIn(o)'
      BY <1>0, <1>8, <2>1 DEF backfillSettingsKey, OrgAt, SettingsKnown, SettingsIn, HasOrg, LacksKey
    <2>4. Reached(s, p)'
      BY <2>1, <2>3 DEF Reached
    <2> HIDE DEF p
    <2> QED BY <1>5, <2>2, <2>4
  <1>9. CASE upsertOwner(s)
    <2>1. /\ here.at = "owner" /\ i \in DOMAIN ORGS /\ o \in Orgs /\ DeliveredBefore(s, i)'
          /\ SettingsIn(o)'
      BY <1>2, <1>4, <1>9 DEF upsertOwner, At, SeedSteps, Reached
    <2>2. seeder'[s] = NextDocument(i, 0)
      BY <1>3, <1>9 DEF upsertOwner
    <2>3. OwnerIn(s, o)'
      <3>1. CASE \E m \in owners : m.email = ownerEmailFor(s, o)
        BY <1>1, <3>1 DEF OwnerIn, Grows, ownerEmailFor
      <3>2. CASE ~\E m \in owners : m.email = ownerEmailFor(s, o)
        <4>1. [email |-> ownerEmailFor(s, o), org |-> o] \in owners'
          BY <1>9, <3>2 DEF upsertOwner, OrgAt
        <4> QED BY <4>1 DEF OwnerIn, ownerEmailFor
      <3> QED BY <3>1, <3>2
    <2>4. FilesIn(o, 0)'
      <3>1. \A l \in DOMAIN Files[o] : ~(l <= 0)
        <4>1. DOMAIN Files[o] = 1..Len(Files[o])
          BY <2>1, TablesAssumption
        <4> QED BY <4>1
      <3> QED BY <3>1 DEF FilesIn
    <2>5. Reached(s, NextDocument(i, 0))'
      BY <2>1, <2>3, <2>4, LoopsReachNext DEF LoopsReach
    <2> QED BY <1>5, <2>2, <2>5
  <1>10. CASE upsertDocument(s)
    <2>1. /\ here.at = "document" /\ i \in DOMAIN ORGS /\ o \in Orgs /\ DeliveredBefore(s, i)'
          /\ SettingsIn(o)' /\ OwnerIn(s, o)' /\ FilesIn(o, here.item - 1)'
          /\ here.item \in Nat /\ here.item \in DOMAIN Files[o]
      BY <1>0, <1>2, <1>4, <1>10 DEF upsertDocument, At, SeedSteps, Reached, SeedPlace
    <2>2. seeder'[s] = NextDocument(i, here.item)
      BY <1>3, <1>10 DEF upsertDocument
    <2>3. FilesIn(o, here.item)'
      <3>1. [org |-> o, file |-> Files[o][here.item]] \in documents'
        BY <1>10 DEF upsertDocument, OrgAt
      <3>2. \A l \in DOMAIN Files[o] : l <= here.item => l <= here.item - 1 \/ l = here.item
        <4>1. DOMAIN Files[o] = 1..Len(Files[o])
          BY <2>1, TablesAssumption
        <4> QED BY <2>1, <4>1
      <3> QED BY <2>1, <3>1, <3>2 DEF FilesIn
    <2>4. Reached(s, NextDocument(i, here.item))'
      BY <2>1, <2>3, LoopsReachNext DEF LoopsReach
    <2> QED BY <1>5, <2>2, <2>4
  <1>11. CASE insertRequest(s) \/ insertDraft(s) \/ insertAction(s)
    <2>1. /\ here.at \in {"request", "draft", "action"} /\ i \in DOMAIN ORGS /\ o \in Orgs
          /\ DeliveredBefore(s, i)' /\ Delivered(s, o)' /\ here.item \in Nat
      BY <1>0, <1>2, <1>4, <1>11
      DEF insertRequest, insertDraft, insertAction, At, SeedSteps, Reached, Delivered
    <2>2. CASE seeder'[s] = NextRequest(i, here.item)
      <3>1. Reached(s, NextRequest(i, here.item))'
        BY <2>1, LoopsReachNext DEF LoopsReach
      <3> QED BY <1>5, <2>2, <3>1
    <2>3. ASSUME NEW at \in {"draft", "action"}, seeder'[s] = [here EXCEPT !.at = at]
          PROVE  \A q : q = seeder'[s] => Reached(s, q)'
      <3> DEFINE p == [at |-> at, org |-> i, item |-> here.item]
      <3>1. seeder'[s] = p
        BY <1>0, <2>3
      <3>2. Reached(s, p)'
        BY <2>1 DEF Reached, Delivered
      <3> HIDE DEF p
      <3> QED BY <1>5, <3>1, <3>2
    <2> QED BY <1>3, <1>11, <2>2, <2>3 DEF insertRequest, insertDraft, insertAction, AfterDraft
  <1> QED BY <1>6, <1>7, <1>8, <1>9, <1>10, <1>11 DEF SeedStep

-----------------------------------------------------------------------------
LEMMA OwnersStayOwn ==
    ASSUME DeliveryIInv, [Next]_demoVars
    PROVE  OwnersAreOwn'
  <1>0. SeedersType /\ OwnersAreOwn
    BY DEF DeliveryIInv
  <1>1. ASSUME UNCHANGED owners PROVE OwnersAreOwn'
    BY <1>0, <1>1 DEF OwnersAreOwn, ownerEmailFor
  <1>2. ASSUME NEW s \in Seeders, upsertOwner(s) PROVE OwnersAreOwn'
    <2>1. OrgAt(s) \in Orgs
      BY <1>0, <1>2, TablesAssumption DEF SeedersType, SeedPlace, SeedSteps, upsertOwner, At, OrgAt
    <2> DEFINE new == [email |-> ownerEmailFor(s, OrgAt(s)), org |-> OrgAt(s)]
    <2>2. new.org = OrgAt(s) /\ new.email = ownerEmailFor(s, new.org)
      OBVIOUS
    <2>3. \/ UNCHANGED owners
          \/ owners' = owners \cup {new} /\ ~\E m \in owners : m.email = new.email
      BY <1>2, <2>2 DEF upsertOwner
    <2> HIDE DEF new
    <2>4. ASSUME owners' = owners \cup {new}, ~\E m \in owners : m.email = new.email
          PROVE  OwnersAreOwn'
      <3>1. \A m \in owners' : m.org \in Orgs /\ \E t \in Seeders : m.email = ownerEmailFor(t, m.org)
        BY <1>0, <2>1, <2>2, <2>4 DEF OwnersAreOwn
      <3>2. \A m, n \in owners' : m.email = n.email => m = n
        BY <1>0, <2>4 DEF OwnersAreOwn
      <3> QED BY <3>1, <3>2 DEF OwnersAreOwn, ownerEmailFor
    <2> QED BY <1>1, <2>3, <2>4
  <1>3. ASSUME NEW s \in Seeders, SeedStep(s) \/ SeedAgain(s) \/ SeedDies(s) PROVE OwnersAreOwn'
    BY <1>1, <1>2, <1>3 DEF SeedStep, SeedAgain, SeedDies, upsertOrg, backfillSettingsKey,
              upsertDocument, insertRequest, insertDraft, insertAction, ForeignKeyFails, tables
  <1>4. ASSUME NEW j \in Jobs, PurgeStep(j) PROVE OwnersAreOwn'
    BY <1>1, <1>4 DEF PurgeStep, startPurge, selectStale, deleteBatch, purgeDies, DeleteRequests, tables
  <1>5. ASSUME NEW c \in Clients, ClientStep(c) \/ callFails(c, faults) PROVE OwnersAreOwn'
    BY <1>1, <1>5, ClientTouches
  <1>6. ASSUME NEW o \in Orgs, operatorEdits(o) PROVE OwnersAreOwn'
    BY <1>1, <1>6 DEF operatorEdits
  <1>7. CASE UNCHANGED demoVars
    BY <1>1, <1>7 DEF demoVars, tables
  <1> QED BY <1>3, <1>4, <1>5, <1>6, <1>7 DEF Next, PurgeStep

LEMMA DeliveryStep == DeliveryIInv /\ [Next]_demoVars => DeliveryIInv'
  <1> SUFFICES ASSUME DeliveryIInv, [Next]_demoVars PROVE DeliveryIInv'
    OBVIOUS
  <1>0. SeedersType /\ SettingsKnown
    BY DEF DeliveryIInv
  <1>1. SeedersType' /\ SettingsKnown' /\ OwnersAreOwn'
    BY <1>0, SeedersStays, SettingsEffect, OwnersStayOwn DEF SettingsKnown
  <1>2. ASSUME NEW s \in Seeders, seeder'[s] = seeder[s]
        PROVE  \A p : p = seeder'[s] => Reached(s, p)'
    <2> SUFFICES ASSUME NEW p, p = seeder[s] PROVE Reached(s, p)'
      BY <1>2
    <2>1. SeedPlace(p) /\ Reached(s, p)
      BY DEF DeliveryIInv, SeedersReached, SeedersType
    <2> QED BY <1>0, <2>1, TablesGrow, ReachedStays
  <1>3. ASSUME UNCHANGED seeder PROVE SeedersReached'
    BY <1>2, <1>3 DEF SeedersReached
  <1>4. ASSUME NEW s \in Seeders, SeedStep(s) \/ SeedAgain(s) \/ SeedDies(s) PROVE SeedersReached'
    <2>1. \A p : p = seeder'[s] => Reached(s, p)'
      BY <1>4, NextIsReached
    <2>2. \A t \in Seeders : t # s => seeder'[t] = seeder[t]
      BY <1>0, <1>4, SeedGoes, SeederMoved
    <2>3. ASSUME NEW t \in Seeders PROVE \A p : p = seeder'[t] => Reached(t, p)'
      BY <1>2, <2>1, <2>2
    <2> QED BY <2>3 DEF SeedersReached
  <1> QED BY <1>1, <1>3, <1>4 DEF DeliveryIInv, Next, demoVars

\* seed.ts:324: a seed that ends normally has given every org its settings,
\* its documents and an owner of its own (one org an owner, where the address
\* has no "@"), whatever it found and whoever ran or purged beside it.
THEOREM SeedHasDelivered == Spec => []SeedDelivers
  <1>1. Init => DeliveryIInv
    <2> SUFFICES ASSUME Init PROVE DeliveryIInv
      OBVIOUS
    <2>1. SeedersType
      BY RowsInit DEF RowsIInv
    <2>2. SettingsKnown /\ OwnersAreOwn
      BY DEF Init, SettingsKnown, OwnersAreOwn
    <2> DEFINE p == [at |-> "org", org |-> 1, item |-> 0]
    <2>3. \A j \in DOMAIN ORGS : ~(j < 1)
      BY TablesAssumption
    <2>4. \A s \in Seeders : Reached(s, p)
      BY <2>3 DEF Reached, DeliveredBefore
    <2>5. \A s \in Seeders : seeder[s] = p
      BY DEF Init, SeedInit, Statement
    <2> HIDE DEF p
    <2>6. SeedersReached
      BY <2>4, <2>5 DEF SeedersReached
    <2> QED BY <2>1, <2>2, <2>6 DEF DeliveryIInv
  <1>2. DeliveryIInv => SeedDelivers
    <2> SUFFICES ASSUME DeliveryIInv, NEW s \in Seeders, At(s, "done")
                 PROVE  /\ \A o \in Orgs :
                              /\ SettingsIn(o)
                              /\ \A f \in Range(Files[o]) : [org |-> o, file |-> f] \in documents
                        /\ IF SEED_OWNER_EMAIL[s] \in WithAt THEN OrgsOwnedBy(s) = Orgs
                           ELSE \E o \in Orgs : OrgsOwnedBy(s) = {o}
      BY DEF SeedDelivers, SettingsIn
    <2>1. ASSUME NEW o \in Orgs PROVE Delivered(s, o)
      <3>1. PICK i \in DOMAIN ORGS : ORGS[i] = o
        BY DEF Orgs, Range
      <3>2. Reached(s, seeder[s])
        BY DEF DeliveryIInv, SeedersReached
      <3> QED BY <3>1, <3>2 DEF Reached, At
    <2>2. ASSUME NEW o \in Orgs, NEW f \in Range(Files[o])
          PROVE  [org |-> o, file |-> f] \in documents
      <3>1. DOMAIN Files[o] = 1..Len(Files[o])
        BY TablesAssumption
      <3> QED BY <2>1, <3>1 DEF Delivered, FilesIn, Range
    <2>3. /\ \A m \in owners : m.org \in Orgs /\ \E t \in Seeders : m.email = ownerEmailFor(t, m.org)
          /\ \A m, n \in owners : m.email = n.email => m = n
      BY DEF DeliveryIInv, OwnersAreOwn
    <2>4. \A m \in owners : m.email.inbox = SEED_OWNER_EMAIL[s] => m.email = ownerEmailFor(s, m.org)
      <3> SUFFICES ASSUME NEW m \in owners, m.email.inbox = SEED_OWNER_EMAIL[s]
                   PROVE  m.email = ownerEmailFor(s, m.org)
        OBVIOUS
      <3>1. PICK t \in Seeders : m.email = ownerEmailFor(t, m.org)
        BY <2>3
      <3>2. SEED_OWNER_EMAIL[t] = SEED_OWNER_EMAIL[s]
        BY <3>1 DEF ownerEmailFor
      <3> QED BY <3>1, <3>2 DEF ownerEmailFor
    <2>5. \A o \in Orgs : \E m \in owners : m.email = ownerEmailFor(s, o)
      BY <2>1 DEF Delivered, OwnerIn
    <2>6. CASE SEED_OWNER_EMAIL[s] \in WithAt
      <3>1. ASSUME NEW o \in Orgs PROVE o \in OrgsOwnedBy(s)
        <4>1. PICK m \in owners : m.email = ownerEmailFor(s, o)
          BY <2>5
        <4>2. m.email.inbox = SEED_OWNER_EMAIL[s] /\ m.email.plus = o
          BY <2>6, <4>1 DEF ownerEmailFor
        <4>3. m.email = ownerEmailFor(s, m.org)
          BY <2>4, <4>2
        <4>4. m.email.plus = m.org
          BY <2>6, <4>3 DEF ownerEmailFor
        <4> QED BY <4>2, <4>4 DEF OrgsOwnedBy
      <3>2. OrgsOwnedBy(s) \subseteq Orgs
        BY <2>3 DEF OrgsOwnedBy
      <3>3. OrgsOwnedBy(s) = Orgs
        BY <3>1, <3>2
      <3> QED BY <2>1, <2>2, <2>6, <3>3 DEF Delivered
    <2>7. CASE SEED_OWNER_EMAIL[s] \notin WithAt
      <3>1. PICK m \in owners : m.email = ownerEmailFor(s, DemoOrg)
        BY <2>5, TablesAssumption
      <3>2. m.email.inbox = SEED_OWNER_EMAIL[s] /\ m.org \in Orgs
        BY <2>3, <3>1 DEF ownerEmailFor
      <3>3. \A n \in owners : n.email.inbox = SEED_OWNER_EMAIL[s] => n.email = m.email
        BY <2>4, <2>7, <3>1 DEF ownerEmailFor
      <3>4. \A n \in owners : n.email.inbox = SEED_OWNER_EMAIL[s] => n = m
        BY <2>3, <3>3
      <3>5. OrgsOwnedBy(s) = {m.org}
        BY <3>2, <3>4 DEF OrgsOwnedBy
      <3> QED BY <2>1, <2>2, <2>7, <3>2, <3>5 DEF Delivered
    <2> QED BY <2>6, <2>7
  <1> QED BY <1>1, <1>2, DeliveryStep, PTL DEF Spec
=============================================================================
