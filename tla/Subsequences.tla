---------------------------- MODULE Subsequences ----------------------------
(***************************************************************************)
(* What a WHERE leaves of rows in an order: the elements of a sequence at  *)
(* some of its places, in the order they have there.                       *)
(***************************************************************************)
EXTENDS Naturals, FiniteSets

\* How many of the places in I are not after i.
Rank(I, i) == Cardinality({j \in I : j <= i})

\* The k-th of the places in I.
Kth(I, k) == CHOOSE i \in I : Rank(I, i) = k

Kept(s, I) == [k \in 1..Cardinality(I) |-> s[Kth(I, k)]]
=============================================================================
