------------------------------- MODULE MCRefunds ------------------------------
(***************************************************************************)
(* Refunds on a small instance.                                            *)
(***************************************************************************)
EXTENDS Refunds

=============================================================================
