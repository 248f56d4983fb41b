------------------------------- MODULE Checkout -------------------------------
(***************************************************************************)
(* One accepted paper, its registration and the payment of its fee:        *)
(* opening the registration, saving the billing details, reserving an      *)
(* order at the gateway, recording a capture, reviewing a student's proof, *)
(* moving the deadline, withdrawing the paper.                             *)
(*                                                                         *)
(* Every withTenantContext call of the code is one database transaction    *)
(* and one step here; a handler that makes several of them, or talks to    *)
(* the gateway between two of them, has a phase and keeps what it read.    *)
(* Transactions run at READ COMMITTED, so a handler that reads a row       *)
(* without FOR UPDATE and writes it afterwards is two steps even inside    *)
(* one transaction (withdrawal).                                           *)
(*                                                                         *)
(* The specification starts after the ACCEPT decision of the paper's last  *)
(* review cycle has been committed: no further cycle is opened after it,   *)
(* so the decision itself does not change any more.                        *)
(***************************************************************************)
EXTENDS PaidState

CONSTANTS
  Users,         \* authors of the paper
  Calls,         \* payment requests in flight
  Openers,       \* organizer requests that open and release the acceptance
  NoUser,
  StudentFee,
  RegularFee,
  Deadline,      \* the conference's registration deadline
  GraceDays,     \* additional time to pay the difference after a rejected proof
  MaxTime,       \* bound on the clock
  MaxRows        \* bound on the payments table

ASSUME FeesArePayable  == StudentFee \in Nat \ {0} /\ RegularFee \in Nat \ {0}
ASSUME TimesAreNat     == Deadline \in Nat /\ GraceDays \in Nat /\ MaxTime \in Nat
ASSUME RowsAreBounded  == MaxRows \in Nat
ASSUME NoUserIsNoUser  == NoUser \notin Users
ASSUME RequestsDiffer  == Calls \cap Openers = {}

VARIABLES
  paper,    \* status, whether the acceptance is released, an unscanned camera-ready
  reg,      \* the registration row
  pays,     \* the payments table
  ver,      \* the newest student verification with its document
  now,      \* the clock
  call,     \* phase and reads of each payment request
  opener,   \* phase and reads of each organizer request
  current,  \* the requests holding a version that still is the registration's
  wd,       \* the withdrawal transaction
  paid      \* at the gateway: rows whose order has been paid and captured

checkoutVars == <<paper, reg, pays, ver, now, call, opener, current, wd, paid>>

NoGrace == -1
Fee(audience) == IF audience = "STUDENT" THEN StudentFee ELSE RegularFee

Active == {"DECISION_MADE", "CAMERA_READY"}
Payable == {"PENDING", "ADDITIONAL_PAYMENT_REQUIRED"}
Unpaid == Payable \cup {"AWAITING_VERIFICATION"}

IdleCall   == [pc |-> "idle", user |-> NoUser, quote |-> 0, row |-> 0]
IdleOpener == [pc |-> "idle", locked |-> FALSE]
IdleWd     == [pc |-> "idle", seen |-> "ABSENT"]

Init ==
  /\ paper = [status |-> "DECISION_MADE", notified |-> FALSE, scan |-> FALSE]
  /\ reg = [status |-> "ABSENT", audience |-> "REGULAR", due |-> 0, locked |-> FALSE,
            user |-> NoUser, deadline |-> Deadline, grace |-> NoGrace]
  /\ pays = <<>>
  /\ ver = [status |-> "NONE", clean |-> FALSE, by |-> NoUser]
  /\ now = 0
  /\ call = [c \in Calls |-> IdleCall]
  /\ opener = [o \in Openers |-> IdleOpener]
  /\ current = {}
  /\ wd = IdleWd
  /\ paid = {}

-----------------------------------------------------------------------------
(* registration.version is only ever incremented and compared for equality *)
(* with the value a request read, so the model keeps the answer.           *)

VersionRead(r) == current' = current \cup {r}
VersionDropped(r) == current' = current \ {r}
VersionIncremented == current' = {}

-----------------------------------------------------------------------------
(* Opening the registration: makeDecision and notifyDecisions.             *)

\* Only the first read of openRegistration; nothing is locked.
OpenRead(o) ==
  /\ opener[o].pc = "idle"
  /\ opener' = [opener EXCEPT ![o] =
       [pc     |-> CASE reg.status = "ABSENT"    -> "create"
                     [] reg.status = "CANCELLED" -> "count"
                     [] OTHER                    -> "release",
        locked |-> reg.status = "CANCELLED" /\ reg.locked]]
  /\ IF reg.status = "CANCELLED" THEN VersionRead(o) ELSE UNCHANGED current
  /\ UNCHANGED <<paper, reg, pays, ver, now, call, wd, paid>>

\* The unique key (conferenceId, paperId) makes the slower of two creations fail.
OpenCreate(o) ==
  /\ opener[o].pc = "create"
  /\ IF reg.status = "ABSENT"
     THEN /\ reg' = [reg EXCEPT !.status = "PENDING"]
          /\ opener' = [opener EXCEPT ![o].pc = "release"]
     ELSE /\ opener' = [opener EXCEPT ![o] = IdleOpener]
          /\ UNCHANGED reg
  /\ UNCHANGED <<paper, pays, ver, now, call, current, wd, paid>>

\* Faulty variant: a locked price without money does not prevent reopening.
NoMoneyTaken(o) == \A i \in DOMAIN pays : pays[i].status \notin SettledStatus

\* The price as it was read, the payments as they are counted now.
Untouched(o) ==
  ~opener[o].locked /\ \A i \in DOMAIN pays : pays[i].status \notin SettledStatus

\* A cancelled registration that saw money or a locked price is not reopened.
OpenCount(o) ==
  /\ opener[o].pc = "count"
  /\ IF Untouched(o)
     THEN opener' = [opener EXCEPT ![o].pc = "reopen"] /\ UNCHANGED current
     ELSE opener' = [opener EXCEPT ![o] = IdleOpener] /\ VersionDropped(o)
  /\ UNCHANGED <<paper, reg, pays, ver, now, call, wd, paid>>

\* updateMany where the status and the version are still the ones read.
ReopenMatches(o) == reg.status = "CANCELLED" /\ o \in current

Reopen(o) ==
  /\ opener[o].pc = "reopen"
  /\ opener' = [opener EXCEPT ![o].pc = "release"]
  /\ IF ReopenMatches(o)
     THEN /\ reg' = [reg EXCEPT !.status = "PENDING", !.deadline = Deadline]
          /\ VersionIncremented
     ELSE UNCHANGED reg /\ VersionDropped(o)
  /\ UNCHANGED <<paper, pays, ver, now, call, wd, paid>>

\* notifyDecisionAuthors refuses a withdrawn paper, after the steps above.
Release(o) ==
  /\ opener[o].pc = "release"
  /\ opener' = [opener EXCEPT ![o] = IdleOpener]
  /\ paper' = [paper EXCEPT !.notified = @ \/ paper.status \in Active]
  /\ UNCHANGED <<reg, pays, ver, now, call, current, wd, paid>>

\* The request fails, the process stops, or notify = false.
OpenerStops(o) ==
  /\ opener[o].pc # "idle"
  /\ opener' = [opener EXCEPT ![o] = IdleOpener]
  /\ VersionDropped(o)
  /\ UNCHANGED <<paper, reg, pays, ver, now, call, wd, paid>>

-----------------------------------------------------------------------------
(* Author requests.                                                        *)

\* Each begins with assertPaperAccepted in a transaction of its own, whose
\* answer may be arbitrarily old when it is used: the paper was released, and
\* was active then.  Both were true when the acceptance was released.
AcceptanceWasReleased == paper.notified /\ reg.status # "ABSENT"

\* createRegistration: the category is free until a checkout locks the price.
SaveDetails(audience) ==
  /\ AcceptanceWasReleased
  /\ reg.status = "PENDING" /\ ~reg.locked
  /\ reg' = [reg EXCEPT !.audience = audience]
  /\ VersionIncremented
  /\ UNCHANGED <<paper, pays, ver, now, call, opener, wd, paid>>

\* createRegistration on an older checkout: only invoice fields left empty.
FillMissingDetails ==
  /\ AcceptanceWasReleased
  /\ reg.status \in Payable /\ (reg.status # "PENDING" \/ reg.locked)
  /\ VersionIncremented
  /\ UNCHANGED <<paper, reg, pays, ver, now, call, opener, wd, paid>>

\* completeDocUpload: the new document replaces the one under review.  That
\* nobody else had registered was read before, without a lock.
UploadProof(u) ==
  /\ AcceptanceWasReleased
  /\ reg.audience = "STUDENT"
  /\ reg.status \in {"PENDING", "AWAITING_VERIFICATION"}
  /\ ver' = [status |-> "PENDING", clean |-> FALSE, by |-> u]
  /\ UNCHANGED <<paper, reg, pays, now, call, opener, current, wd, paid>>

\* initiatePayment, before the row lock: the registration and the quote.
ReadForPayment(c, u) ==
  /\ call[c].pc = "idle"
  /\ AcceptanceWasReleased
  /\ call' = [call EXCEPT ![c] =
       [pc    |-> "read",
        user  |-> u,
        quote |-> IF ~reg.locked /\ reg.status = "PENDING" THEN Fee(reg.audience) ELSE 0,
        row   |-> 0]]
  /\ VersionRead(c)
  /\ UNCHANGED <<paper, reg, pays, ver, now, opener, wd, paid>>

PaymentWindowOpen ==
  now <= (IF reg.grace # NoGrace THEN reg.grace ELSE reg.deadline)

ProofUsable(u) ==
  ver.status \in {"PENDING", "APPROVED"} /\ ver.clean /\ ver.by = u

ReserveKind ==
  IF reg.status = "ADDITIONAL_PAYMENT_REQUIRED" THEN "ADDITIONAL" ELSE "INITIAL"

ReserveAmount(c) ==
  IF ReserveKind = "ADDITIONAL" THEN reg.due - Net(pays)
  ELSE IF call[c].quote # 0 THEN call[c].quote ELSE reg.due

\* An open order is reused and a fresh reservation is waited for: no new row.
CheckoutBusy == \E i \in NewestCreated(pays) : pays[i].order \/ pays[i].fresh

\* Faulty variants: nothing is superseded; the row is deleted; every row is.
NothingSuperseded(rows) == rows
NewestDeleted(rows) == IF NewestCreated(rows) = {} THEN rows ELSE Tail(rows)
AllSuperseded(rows) == [i \in DOMAIN rows |-> [rows[i] EXCEPT !.status = "FAILED"]]

SupersedeNewest(rows) ==
  [i \in DOMAIN rows |->
     IF i \in NewestCreated(rows) THEN [rows[i] EXCEPT !.status = "FAILED"] ELSE rows[i]]

NewRow(kind, amount, parent) ==
  [kind |-> kind, status |-> "CREATED", amount |-> amount, order |-> FALSE,
   fresh |-> TRUE, parent |-> parent, ref |-> 0]

\* Faulty variant: the version read with the quote is not compared.
MayReserveStale(c) ==
  /\ reg.status \in Payable
  /\ PaymentWindowOpen
  /\ reg.user \in {NoUser, call[c].user}
  /\ reg.audience = "STUDENT" /\ ReserveKind = "INITIAL" => ProofUsable(call[c].user)
  /\ ~CheckoutBusy
  /\ ReserveAmount(c) \in Nat \ {0}

MayReserve(c) ==
  /\ reg.status \in Payable
  /\ PaymentWindowOpen
  /\ reg.user \in {NoUser, call[c].user}
  /\ reg.audience = "STUDENT" /\ ReserveKind = "INITIAL" => ProofUsable(call[c].user)
  /\ ~CheckoutBusy
  /\ c \in current
  /\ ReserveAmount(c) \in Nat \ {0}

\* The transaction of initiatePayment, under the registration's row lock.
Reserve(c) ==
  /\ call[c].pc = "read"
  /\ MayReserve(c)
  /\ Len(pays) < MaxRows
  /\ pays' = Append(SupersedeNewest(pays), NewRow(ReserveKind, ReserveAmount(c), 0))
  /\ reg' = [reg EXCEPT
       !.user   = call[c].user,
       !.due    = IF call[c].quote # 0 THEN call[c].quote ELSE @,
       !.locked = @ \/ call[c].quote # 0]
  /\ call' = [call EXCEPT ![c] = [IdleCall EXCEPT !.pc = "reserved", !.row = Len(pays) + 1]]
  /\ VersionIncremented
  /\ UNCHANGED <<paper, ver, now, opener, wd, paid>>

\* createOrder answered: the order id is stored whatever the row has become.
AttachOrder(c) ==
  /\ call[c].pc = "reserved"
  /\ pays' = [pays EXCEPT ![call[c].row].order = TRUE]
  /\ call' = [call EXCEPT ![c] = IdleCall]
  /\ UNCHANGED <<paper, reg, ver, now, opener, current, wd, paid>>

\* createOrder failed or timed out.
OrderFails(c) ==
  /\ call[c].pc = "reserved"
  /\ pays' = [pays EXCEPT ![call[c].row].status = "FAILED"]
  /\ call' = [call EXCEPT ![c] = IdleCall]
  /\ UNCHANGED <<paper, reg, ver, now, opener, current, wd, paid>>

\* A request is refused, or the API process stops between two transactions.
CallStops(c) ==
  /\ call[c].pc # "idle"
  /\ call' = [call EXCEPT ![c] = IdleCall]
  /\ VersionDropped(c)
  /\ UNCHANGED <<paper, reg, pays, ver, now, opener, wd, paid>>

\* A reservation passes the minute during which later requests wait for it.
Age(i) ==
  /\ pays[i].fresh
  /\ pays' = [pays EXCEPT ![i].fresh = FALSE]
  /\ UNCHANGED <<paper, reg, ver, now, call, opener, current, wd, paid>>

-----------------------------------------------------------------------------
(* The gateway and the capture.                                            *)

\* The payer completes an order whose id was handed out; external.
PayOrder(i) ==
  /\ pays[i].kind # "REFUND" /\ pays[i].order
  /\ i \notin paid
  /\ paid' = paid \cup {i}
  /\ UNCHANGED <<paper, reg, pays, ver, now, call, opener, current, wd>>

\* Faulty variant: only the acceptance is looked at, not the paper.
AcceptedOnce == paper.notified

Eligible == paper.notified /\ paper.status \in Active

\* Faulty variant: a proof that was uploaded is taken for a verified one.
UploadedIsVerified(r, rows) ==
  LET next == IF Eligible THEN StatusAfterCapture(r, Net(rows)) ELSE "CANCELLED"
  IN  IF next = "AWAITING_VERIFICATION" /\ ver.status # "REJECTED" THEN "PAID" ELSE next

StatusOnCapture(r, rows) ==
  LET next == IF Eligible THEN StatusAfterCapture(r, Net(rows)) ELSE "CANCELLED"
  IN  IF next = "AWAITING_VERIFICATION" /\ ver.status = "APPROVED" THEN "PAID" ELSE next

\* The registration after a capture, before its status is derived.
LockPrice(r, kind) ==
  [r EXCEPT !.due    = IF kind = "INITIAL" /\ ~r.locked THEN Fee(r.audience) ELSE @,
            !.locked = @ \/ kind = "INITIAL"]

\* The transaction of processCapture holds the paper's and the registration's lock.
Capturable(i) == i \in paid /\ pays[i].status \notin SettledStatus /\ wd.pc = "idle"

\* processCapture, whoever reports it: a webhook, which may be repeated, the
\* browser's callback, or reconciliation.
Capture(i) ==
  /\ Capturable(i)
  /\ LET rows == [pays EXCEPT ![i].status = "CAPTURED"]
         r    == LockPrice(reg, pays[i].kind)
     IN  /\ pays' = rows
         /\ reg' = [r EXCEPT !.status = StatusOnCapture(r, rows)]
  /\ VersionIncremented
  /\ UNCHANGED <<paper, ver, now, call, opener, wd, paid>>

\* Faulty variant: reconciliation of the registrations that still want money.
ReconcilePayable(i) == reg.status \in Payable /\ pays[i].status = "CREATED" /\ Capture(i)

\* runReconciliation asks the gateway about the rows that are still CREATED.
Reconcile(i) == pays[i].status = "CREATED" /\ ~pays[i].fresh /\ Capture(i)

-----------------------------------------------------------------------------
(* Organizer and background steps.                                         *)

\* The virus scan accepts the document; until then it cannot be approved.
ScanProof ==
  /\ ver.status # "NONE" /\ ~ver.clean
  /\ ver' = [ver EXCEPT !.clean = TRUE]
  /\ UNCHANGED <<paper, reg, pays, now, call, opener, current, wd, paid>>

Reviewable ==
  /\ ver.status \in {"PENDING", "CLARIFICATION_REQUESTED"}
  /\ reg.status \notin Terminal

ApproveProof ==
  /\ Reviewable /\ ver.clean
  /\ ver' = [ver EXCEPT !.status = "APPROVED"]
  /\ reg' = [reg EXCEPT !.status = IF IsSettled(reg.due, Net(pays)) THEN "PAID" ELSE @]
  /\ VersionIncremented
  /\ UNCHANGED <<paper, pays, now, call, opener, wd, paid>>

ClarifyProof ==
  /\ Reviewable
  /\ ver' = [ver EXCEPT !.status = "CLARIFICATION_REQUESTED"]
  /\ UNCHANGED <<paper, reg, pays, now, call, opener, current, wd, paid>>

\* Faulty variant: the difference is asked for whatever was paid.
AlwaysDemoted ==
  IF ~reg.locked
  THEN [reg EXCEPT !.audience = "REGULAR"]
  ELSE [reg EXCEPT !.due = RegularFee, !.status = "ADDITIONAL_PAYMENT_REQUIRED",
                   !.grace = reg.deadline + GraceDays]

\* Before the price is locked the author becomes a regular one; afterwards
\* the regular fee is owed and the difference may be paid during the grace.
Demoted ==
  IF ~reg.locked
  THEN [reg EXCEPT !.audience = "REGULAR"]
  ELSE [reg EXCEPT
         !.due    = RegularFee,
         !.status = IF Net(pays) >= RegularFee THEN "PAID" ELSE "ADDITIONAL_PAYMENT_REQUIRED",
         !.grace  = reg.deadline + GraceDays]

RejectProof ==
  /\ Reviewable
  /\ ver' = [ver EXCEPT !.status = "REJECTED"]
  /\ reg' = Demoted
  /\ VersionIncremented
  /\ UNCHANGED <<paper, pays, now, call, opener, wd, paid>>

\* extendDeadline compares the version in a read that takes no lock, so the
\* row it then updates may be any later one: the comparison does not guard.
ExtendDeadline(d) ==
  /\ reg.status # "ABSENT"
  /\ reg' = [reg EXCEPT !.deadline = d, !.grace = NoGrace]
  /\ VersionIncremented
  /\ UNCHANGED <<paper, pays, ver, now, call, opener, wd, paid>>

\* withdraw: the update of the paper takes its row lock; it is visible, with
\* what follows from the registration as read, when the transaction commits.
WithdrawRead ==
  /\ wd.pc = "idle"
  /\ paper.status \in Active
  /\ wd' = [pc |-> "read", seen |-> reg.status]
  /\ UNCHANGED <<paper, reg, pays, ver, now, call, opener, current, paid>>

WithdrawCommit ==
  /\ wd.pc = "read"
  /\ wd' = IdleWd
  /\ paper' = [paper EXCEPT !.status = "WITHDRAWN"]
  /\ IF wd.seen \in Unpaid
     THEN reg' = [reg EXCEPT !.status = "CANCELLED"] /\ VersionIncremented
     ELSE UNCHANGED <<reg, current>>
  /\ UNCHANGED <<pays, ver, now, call, opener, paid>>

\* The transaction fails or its connection is lost: nothing was written.
WithdrawRollback ==
  /\ wd.pc = "read"
  /\ wd' = IdleWd
  /\ UNCHANGED <<paper, reg, pays, ver, now, call, opener, current, paid>>

\* An accepted paper receives a camera-ready file, to be scanned later.
UploadCameraReady ==
  /\ paper.notified /\ paper.status \in Active /\ ~paper.scan
  /\ paper' = [paper EXCEPT !.scan = TRUE]
  /\ UNCHANGED <<reg, pays, ver, now, call, opener, current, wd, paid>>

\* applyScanResult sets the status without looking at the one it replaces.
ScanCameraReady ==
  /\ paper.scan /\ wd.pc = "idle"
  /\ paper' = [paper EXCEPT !.status = "CAMERA_READY", !.scan = FALSE]
  /\ UNCHANGED <<reg, pays, ver, now, call, opener, current, wd, paid>>

Tick ==
  /\ now < MaxTime
  /\ now' = now + 1
  /\ UNCHANGED <<paper, reg, pays, ver, call, opener, current, wd, paid>>

-----------------------------------------------------------------------------
OpenerNext(o) ==
  OpenRead(o) \/ OpenCreate(o) \/ OpenCount(o) \/ Reopen(o) \/ Release(o) \/ OpenerStops(o)

AuthorNext ==
  \/ \E a \in Audience : SaveDetails(a)
  \/ FillMissingDetails
  \/ \E u \in Users : UploadProof(u)
  \/ UploadCameraReady

CallNext(c) ==
  \/ \E u \in Users : ReadForPayment(c, u)
  \/ Reserve(c) \/ AttachOrder(c) \/ OrderFails(c) \/ CallStops(c)

RowNext(i) == Age(i) \/ PayOrder(i) \/ Capture(i)

OrganizerNext ==
  \/ ScanProof \/ ApproveProof \/ ClarifyProof \/ RejectProof
  \/ \E d \in 0..MaxTime : ExtendDeadline(d)
  \/ WithdrawRead \/ WithdrawCommit \/ WithdrawRollback
  \/ ScanCameraReady
  \/ Tick

CheckoutNext ==
  \/ \E o \in Openers : OpenerNext(o)
  \/ \E c \in Calls : CallNext(c)
  \/ \E i \in DOMAIN pays : RowNext(i)
  \/ AuthorNext
  \/ OrganizerNext

CheckoutSpec == Init /\ [][CheckoutNext]_checkoutVars

(***************************************************************************)
(* Time passes, the database ends every transaction, and the reconciliation *)
(* job comes round: a request that waits for a row lock is granted it even *)
(* if other transactions take the lock again and again, hence SF.          *)
(***************************************************************************)
ReconcileNext == \E i \in DOMAIN pays : Reconcile(i)
TimePasses == \E i \in DOMAIN pays : Age(i)

FairCheckoutSpec ==
  /\ CheckoutSpec
  /\ WF_checkoutVars(WithdrawCommit \/ WithdrawRollback)
  /\ WF_checkoutVars(TimePasses)
  /\ SF_checkoutVars(ReconcileNext)

-----------------------------------------------------------------------------
(* Properties.                                                             *)

Paper ==
  [status : Active \cup {"WITHDRAWN", "WITHDRAWN_NONPAYMENT"}, notified : BOOLEAN, scan : BOOLEAN]
Registration ==
  [status : RegistrationStatus, audience : Audience, due : Nat, locked : BOOLEAN,
   user : Users \cup {NoUser}, deadline : Nat, grace : Nat \cup {NoGrace}]
Verification ==
  [status : {"NONE", "PENDING", "CLARIFICATION_REQUESTED", "APPROVED", "REJECTED"},
   clean : BOOLEAN, by : Users \cup {NoUser}]
CallPhase ==
  [pc : {"idle", "read", "reserved"}, user : Users \cup {NoUser},
   quote : {0, StudentFee, RegularFee}, row : Nat]
OpenerPhase ==
  [pc : {"idle", "create", "count", "reopen", "release"}, locked : BOOLEAN]

\* Every variable keeps the shape its table or handler has in the code.
TypeOK ==
  /\ paper \in Paper
  /\ reg \in Registration
  /\ pays \in Seq(PaymentRow)
  /\ ver \in Verification
  /\ now \in Nat
  /\ call \in [Calls -> CallPhase]
  /\ \A c \in Calls : call[c].pc = "reserved" => call[c].row \in DOMAIN pays
  /\ opener \in [Openers -> OpenerPhase]
  /\ current \in SUBSET (Calls \cup Openers)
  /\ wd \in [pc : {"idle", "read"}, seen : RegistrationStatus]
  /\ paid \in SUBSET (DOMAIN pays)

\* Whoever counts as registered has paid what is owed, through every order of
\* captures, verdicts on the student proof and changes of the amount due
\* (paid-state.ts computes the balance; capture, review and refund write PAID).
PaidIsSettled ==
  reg.status \in {"PAID", "AWAITING_VERIFICATION"} => IsSettled(reg.due, Net(pays))

\* The other direction: a registration that still asks for money is short of it.
\* No order of capture, review and reservation leaves a settled one unrecognised
\* (processCapture and review derive the status in the transaction that moves the
\* balance or the amount due).
SettledIsRecognised ==
  reg.status \in Payable /\ reg.locked => Net(pays) < reg.due

\* A quote is computed before the row lock from a category that can change
\* meanwhile; what initiatePayment charges is nevertheless the fee of the
\* category that the registration has from then on.
QuoteHonoured ==
  /\ reg.locked => reg.due \in {Fee(reg.audience), RegularFee}
  /\ \A i \in DOMAIN pays :
       /\ reg.locked
       /\ pays[i].kind = "INITIAL" => pays[i].amount = Fee(reg.audience)

\* A student is admitted for the student fee only with an approved proof,
\* however upload, payment and review are interleaved (processCapture looks up
\* the verification, review writes PAID).
StudentsVerified ==
  reg.status = "PAID" /\ reg.audience = "STUDENT" =>
     ver.status = "APPROVED" \/ reg.due = RegularFee

\* At most one reservation is open: concurrent clicks on pay share a checkout.
OneOpenCheckout ==
  \A i, j \in DOMAIN pays :
     pays[i].status = "CREATED" /\ pays[j].status = "CREATED" => i = j

\* openRegistration reads, counts and updates in three transactions; it never
\* brings back a registration for which money was taken or a price was locked,
\* and nothing else brings back a closed one.
ReopenOnlyUntouched ==
  [][reg.status \in Terminal /\ reg'.status \notin Terminal =>
       /\ reg.status = "CANCELLED" /\ ~reg.locked
       /\ \A i \in DOMAIN pays : pays[i].status \notin SettledStatus]_checkoutVars

\* A paper that is not in the programme does not become registered: neither a
\* late capture nor an approval nor a reopened registration makes it PAID.
WithdrawnNeverAdmitted ==
  [][paper.status \notin Active /\ reg.status # "PAID" => reg'.status # "PAID"]_checkoutVars

\* "A paid one is left for a manual refund": withdrawing a paper whose
\* registration is paid does not cancel the registration.
WithdrawalLeavesPaid ==
  [][reg.status = "PAID" /\ paper.status \in Active /\ paper'.status = "WITHDRAWN" =>
       reg'.status = "PAID"]_checkoutVars

\* A charge whose webhook and browser callback are both lost is still found by
\* runReconciliation, as long as its row is open when the money is taken.
OpenChargeIsRecorded ==
  \A i \in 1..MaxRows :
    (i \in paid /\ pays[i].status = "CREATED") ~> (i \in DOMAIN pays /\ pays[i].status = "CAPTURED")

-----------------------------------------------------------------------------
Charges == INSTANCE Ledger WITH
  Movements <- 1..MaxRows,
  happened  <- paid,
  booked    <- CapturedRows(pays)

\* A checkout implements the ledger: whoever reports a charge and however often,
\* it is booked at most once, only after the payer was charged, and for good.
BooksEachChargeOnce == Charges!LedgerSpec

=============================================================================
