---------------------------- MODULE MCStaffQueue ----------------------------
(* StaffQueue with small sets for TLC. *)
EXTENDS StaffQueue, TLC

CONSTANTS w1, w2, dental, legal, billing, visits, praise, desk, triage

TwoWorkers == {w1, w2}
TwoOrgs == {dental, legal}
TwoRequests == 1..2
SomeLanes == {desk, triage}

\* An operator replaces the categories; the new one has no lane of its own.
Seeded == [categories |-> {visits}, lanes |-> (visits :> triage), otherwise |-> triage]
Edited == [categories |-> {billing}, lanes |-> (visits :> desk), otherwise |-> desk]
\* The column's default.
Empty == [categories |-> {}, lanes |-> <<>>, otherwise |-> "unassigned"]
ThreeSettings == {Seeded, Edited, Empty}
OneLabel == {praise}

OneDemoOrg == {dental}
Budgets == (dental :> 2) @@ (legal :> 3)
Symmetry == Permutations(TwoWorkers)
=============================================================================
