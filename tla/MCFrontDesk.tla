---------------------------- MODULE MCFrontDesk ----------------------------
(* FrontDesk with small sets for TLC. *)
EXTENDS FrontDesk, TLC, FiniteSets

CONSTANTS r1, junk, w1, w2, alice, bob

OneRequest == {r1}
NoRequests == {}
OneMessage == {r1}
OneAndJunk == {r1, junk}
OneWorker == {w1}
TwoWorkers == {w1, w2}
OneStaff == {alice}
TwoStaff == {alice, bob}

\* Workers and staff are interchangeable.
Symmetry == Permutations(Workers) \cup Permutations(Staff)
=============================================================================
