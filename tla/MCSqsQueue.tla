----------------------------- MODULE MCSqsQueue -----------------------------
(* SqsQueue with small sets for TLC. *)
EXTENDS SqsQueue

CONSTANTS m1, junk, null, garbled, c1, c2

Mail == {m1, junk, null, garbled}
Junk == {junk, null, garbled}
Nulls == {null}
Garbled == {garbled}
TwoConsumers == {c1, c2}
=============================================================================
