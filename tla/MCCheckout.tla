------------------------------ MODULE MCCheckout ------------------------------
(***************************************************************************)
(* Checkout on a small instance.                                           *)
(***************************************************************************)
EXTENDS Checkout, TLC

\* Authors, author requests and organizer requests are interchangeable.
Interchangeable == Permutations(Users) \cup Permutations(Calls) \cup Permutations(Openers)

=============================================================================
