---------------------------- MODULE MCIngestion ----------------------------
(* Ingestion with small sets for TLC. *)
EXTENDS Ingestion

CONSTANTS guide, junk, w1, w2, k1, k2

MCDocuments == {guide}
MCOrgs == {{guide}}
MCContents == {0, 2}
MCIngesters == {w1, w2}
MCStarts == {k1, k2}
MCMessages == (MCDocuments \X MCStarts) \cup {<<junk, k1>>}
=============================================================================
