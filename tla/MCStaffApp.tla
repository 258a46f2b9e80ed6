----------------------------- MODULE MCStaffApp -----------------------------
(* StaffApp with small sets for TLC: two calls of one member, or of two. *)
EXTENDS StaffApp

CONSTANTS r1, w1, alice, bob, tab1, tab2

OneRequest == {r1}
OneWorker == {w1}
OneCall == {tab1}
TwoCalls == {tab1, tab2}
OneMember == {alice}
TwoMembers == {alice, bob}
ByAlice == [s \in Staff |-> alice]
ByBoth == [s \in Staff |-> IF s = tab1 THEN alice ELSE bob]
Tabs == Permutations(Staff)
=============================================================================
