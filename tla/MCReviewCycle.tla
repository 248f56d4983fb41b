----------------------------- MODULE MCReviewCycle -----------------------------
(***************************************************************************)
(* ReviewCycle on a small instance.                                        *)
(***************************************************************************)
EXTENDS ReviewCycle, TLC

Interchangeable == Permutations(Reviewers) \cup Permutations(Requests) \cup Permutations(Texts)

=============================================================================
