----------------------------- MODULE DemoTables -----------------------------
(***************************************************************************)
(* The rows the seed, the public forms and the retention job of the demo   *)
(* work on.  Every statement here is a transaction of its own but for the  *)
(* purge's, and an INSERT with ON CONFLICT DO NOTHING is atomic.           *)
(*                                                                         *)
(*   settings[o]  orgs.settings: "absent" is no row, "old" lacks the key   *)
(*                categoryDescriptions, "seed" and "operator" say whose    *)
(*                value the key has                                        *)
(*   owners       org_members rows, [email, org]; email is unique          *)
(*   documents    documents rows, [org, file]                              *)
(*   requests     the requests rows, oldest first (created_at); by is who  *)
(*                inserted it                                              *)
(*   drafts       ids of requests that have their draft                    *)
(*   actions      ids of requests that have their action                   *)
(***************************************************************************)
EXTENDS Naturals, Sequences, Functions, Subsequences

CONSTANTS
    ORGS,           \* the orgs of seed.ts, in order
    DemoOrg,        \* the one with isDemo
    Files           \* Files[o]: its documents, in order

Orgs == Range(ORGS)

ASSUME TablesAssumption ==
    /\ ORGS \in Seq(Orgs) /\ DemoOrg \in Orgs
    /\ \A o \in Orgs : Files[o] \in Seq(Range(Files[o]))

VARIABLES settings, owners, documents, requests, drafts, actions

tables == <<settings, owners, documents, requests, drafts, actions>>

HasOrg(o) == settings[o] # "absent"

Ids == {requests[i].id : i \in DOMAIN requests}

\* Deleting requests deletes their drafts and actions.
DeleteRequests(ids) ==
    /\ requests' = Kept(requests, {i \in DOMAIN requests : requests[i].id \notin ids})
    /\ drafts' = drafts \ ids
    /\ actions' = actions \ ids
    /\ UNCHANGED <<settings, owners, documents>>
=============================================================================
