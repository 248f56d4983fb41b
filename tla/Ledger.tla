-------------------------------- MODULE Ledger --------------------------------
(***************************************************************************)
(* What billing promises about money, without registrations, locks or      *)
(* messages: a movement of money happens at the gateway once, it may be     *)
(* booked after it has happened, and what is booked stays booked.          *)
(* docs/SYSTEM_DESIGN.md calls this money that is append-only, idempotent   *)
(* and reconciled; Checkout and Refunds are shown to implement it.         *)
(***************************************************************************)
CONSTANT Movements   \* charges and refunds

VARIABLES
  happened,   \* movements the gateway has carried out
  booked      \* movements that count in the registration's balance

ledgerVars == <<happened, booked>>

LedgerInit == happened = {} /\ booked = {}

Happen(m) ==
  /\ m \in Movements \ happened
  /\ happened' = happened \cup {m}
  /\ UNCHANGED booked

Book(m) ==
  /\ m \in happened \ booked
  /\ booked' = booked \cup {m}
  /\ UNCHANGED happened

LedgerNext == \E m \in Movements : Happen(m) \/ Book(m)

LedgerSpec == LedgerInit /\ [][LedgerNext]_ledgerVars

=============================================================================
