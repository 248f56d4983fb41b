------------------------------- MODULE MCDigests -------------------------------
(***************************************************************************)
(* Digests on a small instance.                                            *)
(***************************************************************************)
EXTENDS Digests

=============================================================================
