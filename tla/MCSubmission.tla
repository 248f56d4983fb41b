----------------------------- MODULE MCSubmission -----------------------------
(***************************************************************************)
(* Submission on a small instance.                                         *)
(***************************************************************************)
EXTENDS Submission, TLC

SubmissionSymmetry == Permutations(Requests) \cup Permutations(Numbers)

=============================================================================
