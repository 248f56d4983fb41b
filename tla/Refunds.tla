-------------------------------- MODULE Refunds -------------------------------
(***************************************************************************)
(* Giving money back.  An organizer's refund is committed as intents,      *)
(* allocated to the captured rows, before the gateway is called; each      *)
(* intent is then sent, and sent again by reconciliation, under a key the  *)
(* gateway treats as the same request.  The gateway accepts a refund,      *)
(* settles it later, and reports every state any number of times and in    *)
(* any order: in the answer to the request, by webhook, or when asked.      *)
(* A refund made at the gateway's own dashboard is reported in the same    *)
(* way and has no intent.                                                  *)
(*                                                                         *)
(* The specification starts with a price that is locked and two orders in  *)
(* the payer's hands, the first of them superseded, and keeps every step   *)
(* of Checkout that such a registration can still meet and that touches    *)
(* its money, its proof or its paper.                                      *)
(***************************************************************************)
EXTENDS Checkout

CONSTANTS
  MaxRefunds,          \* bound on the refunds the gateway carries out
  DashboardAmounts     \* amounts refunded at the gateway's dashboard

ASSUME RefundBounds == MaxRefunds \in Nat /\ DashboardAmounts \in SUBSET (Nat \ {0})
ASSUME TwoOrdersFit == MaxRows >= 2

VARIABLES
  gw,       \* the gateway's refunds: the charge, the amount, the intent, the status
  events    \* what has been reported about them: pairs of a refund and a status

refundVars == <<paper, reg, pays, ver, now, call, opener, current, wd, paid, gw, events>>

GatewayRefund ==
  [cap : Nat, amount : Nat, intent : Nat, status : {"pending", "processed", "failed"}]

\* An author's two checkouts: the first order was answered late, after the second
\* request had superseded it.
TwoOrders(fee) ==
  LET order == [NewRow("INITIAL", fee, 0) EXCEPT !.order = TRUE, !.fresh = FALSE]
  IN  <<[order EXCEPT !.status = "FAILED"], order>>

RefundInit ==
  /\ paper = [status |-> "DECISION_MADE", notified |-> TRUE, scan |-> FALSE]
  /\ \E u \in Users, a \in Audience :
       /\ reg = [status |-> "PENDING", audience |-> a, due |-> Fee(a), locked |-> TRUE,
                 user |-> u, deadline |-> Deadline, grace |-> NoGrace]
       /\ pays = TwoOrders(Fee(a))
       /\ ver = IF a = "STUDENT" THEN [status |-> "PENDING", clean |-> TRUE, by |-> u]
                                 ELSE [status |-> "NONE", clean |-> FALSE, by |-> NoUser]
  /\ now = 0
  /\ call = [c \in Calls |-> IdleCall]
  /\ opener = [o \in Openers |-> IdleOpener]
  /\ current = {}
  /\ wd = IdleWd
  /\ paid = {}
  /\ gw = <<>>
  /\ events = {}

-----------------------------------------------------------------------------
(* The organizer's request.                                                *)

ReservedFrom(i) ==
  {j \in DOMAIN pays : pays[j].kind = "REFUND" /\ pays[j].status # "FAILED" /\ pays[j].parent = i}

\* Faulty variant: refunds whose outcome is not known are not counted.
AvailableUnlessReturned(i) ==
  IF i \in CapturedRows(pays)
  THEN pays[i].amount - TotalOf(pays, {j \in RefundedRows(pays) : pays[j].parent = i}) ELSE 0

\* What can still be refunded of row i; an uncertain refund counts as spent.
Available(i) ==
  IF i \in CapturedRows(pays)
  THEN Max({0, pays[i].amount - TotalOf(pays, ReservedFrom(i))}) ELSE 0

AvailableBefore(i) == MapThenSumSet(Available, 1..(i - 1))

\* The oldest captures give first: row i gives what its elders left to give.
Share(i, amount) == Max({0, Min({Available(i), amount - AvailableBefore(i)})})

\* The intents of a refund, in the order of the captures they take from.
Intents(amount) ==
  LET givers == {i \in CapturedRows(pays) : Share(i, amount) > 0}
      nth(k) == CHOOSE i \in givers : Cardinality({j \in givers : j <= i}) = k
  IN  [k \in 1..Cardinality(givers) |-> NewRow("REFUND", Share(nth(k), amount), nth(k))]

\* refund: the version an organizer saw must still be the registration's, and a
\* repeated request finds its intents instead of making new ones.
RequestRefund(amount) ==
  /\ amount \in 1..AvailableBefore(Len(pays) + 1)
  /\ Len(pays) < MaxRows
  /\ LET intents == Intents(amount)
     IN  /\ Len(pays) + Len(intents) <= MaxRows
         /\ pays' = pays \o intents
  /\ VersionIncremented
  /\ UNCHANGED <<paper, reg, ver, now, call, opener, wd, paid, gw, events>>

-----------------------------------------------------------------------------
(* The gateway; external.                                                  *)

Taken(i) ==
  MapThenSumSet(LAMBDA r : gw[r].amount,
                {r \in DOMAIN gw : gw[r].cap = i /\ gw[r].status # "failed"})

Accept(cap, amount, intent) ==
  /\ Len(gw) < MaxRefunds
  /\ cap \in paid /\ Taken(cap) + amount <= pays[cap].amount
  /\ gw' = Append(gw, [cap |-> cap, amount |-> amount, intent |-> intent, status |-> "pending"])
  /\ events' = events \cup {<<Len(gw) + 1, "pending">>}
  /\ UNCHANGED checkoutVars

\* executeRefundIntent, from the request or from reconciliation.  Whether the
\* intent was open was read before, so the request may be sent whatever the row
\* has become; the idempotency key makes the gateway carry it out once.
SendIntent(i) ==
  /\ pays[i].kind = "REFUND" /\ pays[i].ref = 0
  /\ \A r \in DOMAIN gw : gw[r].intent # i
  /\ Accept(pays[i].parent, pays[i].amount, i)

DashboardRefund(cap, amount) == Accept(cap, amount, 0)

GatewaySettles(r, status) ==
  /\ gw[r].status = "pending"
  /\ gw' = [gw EXCEPT ![r].status = status]
  /\ events' = events \cup {<<r, status>>}
  /\ UNCHANGED checkoutVars

-----------------------------------------------------------------------------
(* processRefundEntity.                                                    *)

\* Faulty variant: the row is looked for by the intent alone.
RowOfIntent(r) == {gw[r].intent} \ {0}

\* The row of a reported refund: by the gateway's id, else by the intent's.
RowOf(r) ==
  LET known == {i \in DOMAIN pays : pays[i].ref = r}
  IN  IF known # {} THEN known ELSE {gw[r].intent} \ {0}

\* Faulty variants: the gateway's word is stored; an accepted refund counts as
\* paid; a failed one stays open.
GatewayWord(status) == status
AcceptedIsPaid(status) == IF status = "failed" THEN "FAILED" ELSE "REFUNDED"
FailedStaysOpen(status) == IF status = "processed" THEN "REFUNDED" ELSE "CREATED"

StatusOfEvent(status) ==
  CASE status = "processed" -> "REFUNDED"
    [] status = "failed"    -> "FAILED"
    [] status = "pending"   -> "CREATED"

\* Faulty variant: only failures are protected from old reports.
OutdatedFailure(i, status) == pays[i].status = "FAILED" /\ status = "pending"

\* Processed is terminal, and an older pending report cannot undo a failure.
Outdated(i, status) ==
  pays[i].status = "REFUNDED" \/ (pays[i].status = "FAILED" /\ status = "pending")

Booked(r, status) ==
  IF RowOf(r) = {}
  THEN Append(pays, [NewRow("REFUND", gw[r].amount, gw[r].cap) EXCEPT
                       !.status = StatusOfEvent(status), !.ref = r])
  ELSE [i \in DOMAIN pays |->
          IF i \in RowOf(r)
          THEN [pays[i] EXCEPT !.status = StatusOfEvent(status), !.ref = r, !.parent = gw[r].cap]
          ELSE pays[i]]

ApplyRefundEvent(r, status) ==
  /\ <<r, status>> \in events
  /\ gw[r].cap \in CapturedRows(pays)
  /\ \A i \in RowOf(r) : ~Outdated(i, status)
  /\ RowOf(r) # {} \/ Len(pays) < MaxRows
  /\ pays' = Booked(r, status)
  /\ IF status = "processed"
     THEN /\ reg' = [reg EXCEPT !.status = StatusAfterRefund(reg, Net(Booked(r, status)))]
          /\ VersionIncremented
     ELSE UNCHANGED <<reg, current>>
  /\ UNCHANGED <<paper, ver, now, call, opener, wd, paid, gw, events>>

-----------------------------------------------------------------------------
Settle == \E r \in DOMAIN gw, s \in {"processed", "failed"} : GatewaySettles(r, s)

RefundStep ==
  \/ \E amount \in 1..(2 * Max({StudentFee, RegularFee})) : RequestRefund(amount)
  \/ \E i \in DOMAIN pays : SendIntent(i)
  \/ \E i \in DOMAIN pays, amount \in DashboardAmounts : DashboardRefund(i, amount)
  \/ Settle
  \/ \E e \in events : ApplyRefundEvent(e[1], e[2])

CheckoutStep ==
  /\ \/ \E c \in Calls : CallNext(c)
     \/ \E i \in DOMAIN pays : RowNext(i)
     \/ \E u \in Users : UploadProof(u)
     \/ ScanProof \/ ApproveProof \/ ClarifyProof \/ RejectProof
     \/ WithdrawRead \/ WithdrawCommit \/ WithdrawRollback
  /\ UNCHANGED <<gw, events>>

RefundNext == RefundStep \/ CheckoutStep

RefundSpec == RefundInit /\ [][RefundNext]_refundVars

\* Reconciliation sends what is open and asks for what was sent; the gateway
\* settles what it accepted.
SendOpen == \E i \in DOMAIN pays : pays[i].status = "CREATED" /\ SendIntent(i)
AskAgain == \E r \in DOMAIN gw : ApplyRefundEvent(r, gw[r].status)

FairRefundSpec ==
  RefundSpec /\ WF_refundVars(SendOpen) /\ WF_refundVars(Settle) /\ WF_refundVars(AskAgain)

-----------------------------------------------------------------------------
(* Properties.                                                             *)

\* The tables and the gateway keep their shape; each intent that was sent is a
\* row of this registration.
RefundTypeOK ==
  /\ TypeOK
  /\ gw \in Seq(GatewayRefund)
  /\ \A r \in DOMAIN gw : gw[r].cap \in DOMAIN pays /\ gw[r].intent \in 0..Len(pays)
  /\ events \in SUBSET ((DOMAIN gw) \X {"pending", "processed", "failed"})

\* The balance counts every booked movement once and nothing else: no report of
\* a refund, however often and in whatever order it arrives, from whichever of
\* the three sources, is counted twice or before the gateway has paid it
\* (processRefundEntity finds the row by two different ids).
BooksBalance ==
  LET returned == {pays[i].ref : i \in RefundedRows(pays)}
  IN  /\ returned \subseteq {r \in DOMAIN gw : gw[r].status = "processed"}
      /\ Net(pays) = TotalOf(pays, CapturedRows(pays))
                       - MapThenSumSet(LAMBDA r : gw[r].amount, returned)
      /\ CapturedRows(pays) \subseteq paid

\* A refund that was booked as paid stays booked, for the same amount and charge:
\* neither a late report nor a superseding checkout takes it back.
ProcessedIsFinal ==
  [][\A i \in RefundedRows(pays) : 
        [pays'[i] EXCEPT !.fresh = FALSE] = [pays[i] EXCEPT !.fresh = FALSE]]_refundVars

\* Refunds never promise more than was captured, row by row, counting the ones
\* whose outcome is not known yet (the allocation in refund).
RefundsWithinCapture ==
  \A i \in DOMAIN pays : pays[i].kind # "REFUND" =>
     TotalOf(pays, ReservedFrom(i)) <= pays[i].amount

\* Every intent ends as paid or failed although calls and webhooks are lost
\* (reconciliation sends and asks again).
IntentIsSettled ==
  \A i \in (Len(TwoOrders(RegularFee)) + 1)..MaxRows :
    (i \in DOMAIN pays /\ pays[i].kind = "REFUND" /\ pays[i].status = "CREATED")
      ~> (i \in DOMAIN pays /\ pays[i].status \in {"REFUNDED", "FAILED"})

\* "Reserve pending refunds too; uncertain outcomes cannot be refunded again":
\* an intent the gateway is still working on is never given up.
UncertainStaysReserved ==
  [][\A r \in DOMAIN gw : gw[r].status = "pending" =>
       \A i \in DOMAIN pays : gw[r].intent = i /\ pays[i].status = "CREATED" =>
          pays'[i].status = "CREATED"]_refundVars

\* "Captures retain cancelled/discarded/refunded states": recording money that
\* arrives late leaves a closed registration as it is.
ClosedStatusRetained ==
  [][reg.status \in Terminal /\ CapturedRows(pays) # CapturedRows(pays') =>
       reg'.status = reg.status]_refundVars

-----------------------------------------------------------------------------
Booking == INSTANCE Ledger WITH
  Movements <- {"charge", "refund"} \X (1..(MaxRows + MaxRefunds)),
  happened  <- ({"charge"} \X paid) \cup
               ({"refund"} \X {r \in DOMAIN gw : gw[r].status = "processed"}),
  booked    <- ({"charge"} \X CapturedRows(pays)) \cup
               ({"refund"} \X {pays[i].ref : i \in RefundedRows(pays)})

\* Billing with refunds implements the ledger: each step books at most one
\* movement, one that has happened, and no step takes one back.
ImplementsLedger == Booking!LedgerSpec

=============================================================================
