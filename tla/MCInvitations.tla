----------------------------- MODULE MCInvitations -----------------------------
(***************************************************************************)
(* Invitations on a small instance.                                        *)
(***************************************************************************)
EXTENDS Invitations, TLC

CONSTANTS invitee, author

\* An author, and then one address twice.
SmallBatch == <<author, invitee, invitee>>

RequestSymmetry == Permutations(Requests)

=============================================================================
