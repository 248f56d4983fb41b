------------------------------ MODULE PaidState ------------------------------
(***************************************************************************)
(* The pure part of apps/api/src/billing: what a registration and its      *)
(* payment rows look like, how the settled balance is computed from the    *)
(* rows, and which status follows from that balance (paid-state.ts).       *)
(*                                                                         *)
(* Amounts are whole units of money; one unit stands for at least the 100  *)
(* minor units below which no order is created.  A table of payments is a  *)
(* sequence in creation order, so the index of a row is its identity and   *)
(* its createdAt.                                                          *)
(***************************************************************************)
EXTENDS Integers, Sequences, FiniteSets, FiniteSetsExt

Audience == {"REGULAR", "STUDENT"}

\* A registration row that does not exist yet has the status "ABSENT".
RegistrationStatus ==
  {"ABSENT", "PENDING", "AWAITING_VERIFICATION", "ADDITIONAL_PAYMENT_REQUIRED",
   "PAID", "CANCELLED", "REFUNDED", "DISCARDED_NONPAYMENT"}

Terminal == {"CANCELLED", "DISCARDED_NONPAYMENT", "REFUNDED"}

PaymentKind == {"INITIAL", "ADDITIONAL", "REFUND"}

PaymentStatus ==
  {"CREATED", "AUTHORIZED", "CAPTURED", "FAILED", "REFUNDED", "PARTIALLY_REFUNDED"}

(***************************************************************************)
(* One row of the payments table.                                          *)
(*   order   the gateway order id has been stored on the row               *)
(*   fresh   created less than a minute ago                                *)
(*   parent  refunds: the captured row the money is taken from, else 0     *)
(*   ref     refunds: the gateway's refund id once it is known, else 0     *)
(***************************************************************************)
PaymentRow ==
  [kind   : PaymentKind,
   status : PaymentStatus,
   amount : Nat,
   order  : BOOLEAN,
   fresh  : BOOLEAN,
   parent : Nat,
   ref    : Nat]

SettledStatus == {"CAPTURED", "REFUNDED", "PARTIALLY_REFUNDED"}

CapturedRows(rows) ==
  {i \in DOMAIN rows : rows[i].kind # "REFUND" /\ rows[i].status = "CAPTURED"}

RefundedRows(rows) ==
  {i \in DOMAIN rows : /\ rows[i].kind = "REFUND"
                       /\ rows[i].status \in {"REFUNDED", "PARTIALLY_REFUNDED"}}

TotalOf(rows, S) == MapThenSumSet(LAMBDA i : rows[i].amount, S)

\* computePaidState: what was captured less what was really given back.
Net(rows) == TotalOf(rows, CapturedRows(rows)) - TotalOf(rows, RefundedRows(rows))

\* The test that review and refund make before a registration counts as paid.
IsSettled(due, net) == due > 0 /\ net >= due

\* Faulty variant: any capture of a live registration counts as payment in full.
AnyCaptureSettles(reg, net) ==
  CASE reg.status \in Terminal -> reg.status
    [] OTHER -> IF reg.audience = "STUDENT" THEN "AWAITING_VERIFICATION" ELSE "PAID"

\* Faulty variant: the exact amount is not enough.
ExactIsShort(reg, net) ==
  IF reg.status \in Terminal \/ net <= reg.due THEN reg.status ELSE "PAID"

\* deriveRegistrationStatusAfterCapture
StatusAfterCapture(reg, net) ==
  CASE reg.status \in Terminal -> reg.status
    [] reg.status \notin Terminal /\ net < reg.due -> reg.status
    [] OTHER -> IF /\ reg.audience = "STUDENT"
                   /\ reg.status # "ADDITIONAL_PAYMENT_REQUIRED"
                THEN "AWAITING_VERIFICATION"
                ELSE "PAID"

\* Faulty variant: only a refund of everything changes the status.
PartialRefundIgnored(reg, net) ==
  IF reg.status \in Terminal \/ net > 0 THEN reg.status ELSE "REFUNDED"

\* deriveRegistrationStatusAfterRefund
StatusAfterRefund(reg, net) ==
  CASE reg.status \in Terminal -> reg.status
    [] reg.status \notin Terminal /\ IsSettled(reg.due, net) ->
         IF reg.audience = "STUDENT" /\ reg.status = "AWAITING_VERIFICATION"
         THEN "AWAITING_VERIFICATION"
         ELSE "PAID"
    [] OTHER -> IF reg.status = "ADDITIONAL_PAYMENT_REQUIRED" \/ net > 0
                THEN "ADDITIONAL_PAYMENT_REQUIRED"
                ELSE "REFUNDED"

\* The newest row that is still CREATED, as a set of at most one index.
NewestCreated(rows) ==
  {i \in DOMAIN rows : /\ rows[i].status = "CREATED"
                       /\ \A j \in DOMAIN rows : rows[j].status = "CREATED" => j <= i}

=============================================================================
