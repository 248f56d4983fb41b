------------------------------- MODULE MCOutreach -------------------------------
(***************************************************************************)
(* Outreach on a small instance.                                           *)
(***************************************************************************)
EXTENDS Outreach, TLC

OutreachSymmetry ==
  Permutations(Addresses) \cup Permutations(Pages) \cup Permutations(Templates)

=============================================================================
