------------------------------ MODULE MCAudit ------------------------------
(* GoldAudit for TLC.                                                      *)
EXTENDS GoldAudit

Interchangeable == Permutations(Item) \cup Permutations(Reviewer)
    \cup Permutations(Stamp)
=============================================================================
