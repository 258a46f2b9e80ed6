----------------------------- MODULE MCDemoOrg -----------------------------
(* DemoOrg with small sets for TLC. *)
EXTENDS DemoOrg, TLC

CONSTANTS dental, legal, s1, s2, j1, j2, visitor, api, q1, q2,
          mailbox, nobody

BothOrgs == <<dental, legal>>
OneFileEach == [o \in {dental, legal} |-> <<"faq">>]
TwoRequests == <<q1, q2>>
FirstApproved == {q1}
ItsOrg == [c \in {api} |-> dental]
TwoSeeders == {s1, s2}
TwoJobs == {j1, j2}
OneVisitor == {visitor}
OneApiClient == {api}

\* s1 is configured with an address, s2 with a word.
Addresses == [s \in {s1, s2} |-> IF s = s1 THEN mailbox ELSE nobody]
Mailboxes == {mailbox}

\* Every two processes, and two that clash with a third that gives them rows.
PairsAndPurges ==
    {{s1, s2}, {j1, visitor}, {j1, api}, {visitor, api}}
        \cup {{s, x} : s \in {s1, s2}, x \in {j1, visitor, api}}
        \cup {{j1, j2, api}, {s1, s2, j1}}

Symmetry == Permutations({j1, j2})
=============================================================================
