----------------------------- MODULE MCReviewWriters -----------------------------
(* Instances of ReviewWriters for TLC.                                       *)
EXTENDS ReviewWriters, TLC

Interchangeable == Permutations(Reviews) \cup Permutations(Refreshes)
==================================================================================
