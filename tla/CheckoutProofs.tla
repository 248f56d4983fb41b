---------------------------- MODULE CheckoutProofs ----------------------------
(***************************************************************************)
(* Theorems about Checkout, for any number of authors, payment requests    *)
(* and organizer requests, any fees and any bounds.                        *)
(*                                                                         *)
(* The safety properties are not inductive.  The quote is right because a  *)
(* version that is still current vouches for what was read with it         *)
(* (CurrentReads), and because status, lock and amount due move together   *)
(* (PriceFollowsStatus); with both, IInv is inductive.  That every step    *)
(* implements the ledger needs, on top of it, that an order is handed out  *)
(* only by the request that reserved its row (OrdersFollowCalls).          *)
(*                                                                         *)
(* The status agrees with the balance (BalanceAgrees) because every step   *)
(* that moves money derives the status from the rows it leaves; how a step *)
(* moves the balance is said by the lemmas of PaidStateProofs.  A paper    *)
(* that was withdrawn stays out since its registration awaits nothing      *)
(* (WithdrawalsClose).                                                     *)
(***************************************************************************)
EXTENDS Checkout, PaidStateProofs

-----------------------------------------------------------------------------
(* Updates of one row.                                                     *)

\* An update of a payment row that the code makes leaves a payment row.
LEMMA PaymentRowUpdates ==
  ASSUME NEW row \in PaymentRow
  PROVE  /\ \A s \in PaymentStatus : [row EXCEPT !.status = s] \in PaymentRow
         /\ \A b \in BOOLEAN : [row EXCEPT !.order = b] \in PaymentRow
         /\ \A b \in BOOLEAN : [row EXCEPT !.fresh = b] \in PaymentRow
  BY DEF PaymentRow

\* An update of the registration that the code makes leaves a registration.
LEMMA RegistrationUpdates ==
  ASSUME NEW r \in Registration
  PROVE  /\ \A s \in RegistrationStatus : [r EXCEPT !.status = s] \in Registration
         /\ \A a \in Audience : [r EXCEPT !.audience = a] \in Registration
         /\ \A d \in Nat, g \in Nat \cup {NoGrace} :
              [r EXCEPT !.deadline = d, !.grace = g] \in Registration
         /\ \A s \in RegistrationStatus, d \in Nat :
              [r EXCEPT !.status = s, !.deadline = d] \in Registration
         /\ \A n \in Nat, s \in RegistrationStatus, g \in Nat \cup {NoGrace} :
              [r EXCEPT !.due = n, !.status = s, !.grace = g] \in Registration
         /\ \A u \in Users \cup {NoUser}, n \in Nat, b \in BOOLEAN :
              [r EXCEPT !.user = u, !.due = n, !.locked = b] \in Registration
         /\ \A n \in Nat, b \in BOOLEAN :
              [r EXCEPT !.due = n, !.locked = b] \in Registration
<1>1. \A s \in RegistrationStatus : [r EXCEPT !.status = s] \in Registration
  BY DEF Registration
<1>2. \A a \in Audience : [r EXCEPT !.audience = a] \in Registration
  BY DEF Registration
<1>3. \A d \in Nat, g \in Nat \cup {NoGrace} :
              [r EXCEPT !.deadline = d, !.grace = g] \in Registration
  BY DEF Registration
<1>4. \A s \in RegistrationStatus, d \in Nat :
              [r EXCEPT !.status = s, !.deadline = d] \in Registration
  BY DEF Registration
<1>5. \A n \in Nat, s \in RegistrationStatus, g \in Nat \cup {NoGrace} :
              [r EXCEPT !.due = n, !.status = s, !.grace = g] \in Registration
  BY DEF Registration
<1>6. \A u \in Users \cup {NoUser}, n \in Nat, b \in BOOLEAN :
              [r EXCEPT !.user = u, !.due = n, !.locked = b] \in Registration
  BY DEF Registration
<1>7. \A n \in Nat, b \in BOOLEAN :
              [r EXCEPT !.due = n, !.locked = b] \in Registration
  BY DEF Registration
<1>8. QED
  BY <1>1, <1>2, <1>3, <1>4, <1>5, <1>6, <1>7

\* The table stays a table of the same rows when one of them is replaced.
LEMMA RowReplaced ==
  ASSUME NEW rows \in Seq(PaymentRow), NEW i \in DOMAIN rows, NEW row \in PaymentRow
  PROVE  /\ [rows EXCEPT ![i] = row] \in Seq(PaymentRow)
         /\ Len([rows EXCEPT ![i] = row]) = Len(rows)
         /\ DOMAIN [rows EXCEPT ![i] = row] = DOMAIN rows
  OBVIOUS

\* The table keeps its rows when one of their columns is updated by id.
LEMMA ColumnUpdated ==
  ASSUME NEW rows \in Seq(PaymentRow), NEW i \in DOMAIN rows
  PROVE  /\ \A s \in PaymentStatus :
              /\ [rows EXCEPT ![i].status = s] \in Seq(PaymentRow)
              /\ DOMAIN [rows EXCEPT ![i].status = s] = DOMAIN rows
         /\ \A b \in BOOLEAN :
              /\ [rows EXCEPT ![i].order = b] \in Seq(PaymentRow)
              /\ DOMAIN [rows EXCEPT ![i].order = b] = DOMAIN rows
         /\ \A b \in BOOLEAN :
              /\ [rows EXCEPT ![i].fresh = b] \in Seq(PaymentRow)
              /\ DOMAIN [rows EXCEPT ![i].fresh = b] = DOMAIN rows
<1>1. rows[i] \in PaymentRow
  OBVIOUS
<1>2. QED
  BY <1>1, PaymentRowUpdates, RowReplaced

\* Superseding a reservation keeps the rows of the table.
LEMMA SupersededRows ==
  ASSUME NEW rows \in Seq(PaymentRow)
  PROVE  /\ SupersedeNewest(rows) \in Seq(PaymentRow)
         /\ Len(SupersedeNewest(rows)) = Len(rows)
<1>1. ASSUME NEW i \in 1..Len(rows)
      PROVE  [rows[i] EXCEPT !.status = "FAILED"] \in PaymentRow
  <2>1. rows[i] \in PaymentRow
    OBVIOUS
  <2>2. QED
    BY <2>1, PaymentRowUpdates DEF PaymentStatus
<1>2. \A i \in 1..Len(rows) : SupersedeNewest(rows)[i] \in PaymentRow
  BY <1>1 DEF SupersedeNewest
<1>3. DOMAIN SupersedeNewest(rows) = 1..Len(rows)
  BY DEF SupersedeNewest
<1>4. QED
  BY <1>2, <1>3 DEF SupersedeNewest

\* The fee of a category is one of the two fees.
LEMMA FeeType ==
  ASSUME NEW a
  PROVE  Fee(a) \in {StudentFee, RegularFee} /\ Fee(a) \in Nat \ {0}
  BY FeesArePayable DEF Fee

\* A rejected proof leaves a registration.
LEMMA DemotedType ==
  ASSUME TypeOK
  PROVE  Demoted \in Registration
<1>1. reg \in Registration /\ RegularFee \in Nat
  BY FeesArePayable DEF TypeOK
<1>2. reg.deadline + GraceDays \in Nat
  BY <1>1, TimesAreNat DEF Registration
<1>3. (IF Net(pays) >= RegularFee THEN "PAID" ELSE "ADDITIONAL_PAYMENT_REQUIRED")
        \in RegistrationStatus
  BY DEF RegistrationStatus
<1>4. QED
  BY <1>1, <1>2, <1>3, RegistrationUpdates DEF Demoted, Audience

\* What a capture derives is a registration.
LEMMA CapturedType ==
  ASSUME TypeOK, NEW kind, NEW rows
  PROVE  LET r == LockPrice(reg, kind)
         IN  /\ r \in Registration
             /\ [r EXCEPT !.status = StatusOnCapture(r, rows)] \in Registration
<1> DEFINE r == LockPrice(reg, kind)
<1>1. r \in Registration
  <2>1. reg.due \in Nat /\ reg.locked \in BOOLEAN /\ reg \in Registration
    BY DEF TypeOK, Registration
  <2>2. QED
    BY <2>1, FeeType, RegistrationUpdates DEF LockPrice
<1>2. r.status \in RegistrationStatus
  BY <1>1 DEF Registration
<1>3. StatusOnCapture(r, rows) \in RegistrationStatus
  BY <1>2 DEF StatusOnCapture, StatusAfterCapture, RegistrationStatus
<1>4. QED
  BY <1>1, <1>3, RegistrationUpdates

\* The row a reservation appends is a payment row.
LEMMA ReservedRowType ==
  ASSUME NEW c, MayReserve(c)
  PROVE  NewRow(ReserveKind, ReserveAmount(c), 0) \in PaymentRow
<1>1. ReserveAmount(c) \in Nat
  BY DEF MayReserve
<1>2. ReserveKind \in PaymentKind
  BY DEF ReserveKind, PaymentKind
<1>3. QED
  BY <1>1, <1>2 DEF NewRow, PaymentRow, PaymentStatus

\* Phases of the requests.
LEMMA RequestUpdates ==
  ASSUME TypeOK
  PROVE  /\ \A c \in Calls, p \in CallPhase : [call EXCEPT ![c] = p] \in [Calls -> CallPhase]
         /\ \A o \in Openers, p \in OpenerPhase :
              [opener EXCEPT ![o] = p] \in [Openers -> OpenerPhase]
         /\ \A o \in Openers, pc \in {"release", "reopen"} :
              [opener EXCEPT ![o].pc = pc] \in [Openers -> OpenerPhase]
         /\ IdleCall \in CallPhase
         /\ IdleOpener \in OpenerPhase
<1>1. call \in [Calls -> CallPhase] /\ opener \in [Openers -> OpenerPhase]
  BY DEF TypeOK
<1>2. IdleCall \in CallPhase /\ IdleOpener \in OpenerPhase
  BY DEF IdleCall, CallPhase, IdleOpener, OpenerPhase
<1>3. ASSUME NEW o \in Openers, NEW pc \in {"release", "reopen"}
      PROVE  [opener EXCEPT ![o].pc = pc] \in [Openers -> OpenerPhase]
  BY <1>1, <1>3 DEF OpenerPhase
<1>4. QED
  BY <1>1, <1>2, <1>3

-----------------------------------------------------------------------------
(* Type correctness.                                                       *)

\* Every step keeps the shape of the tables and of the requests.
LEMMA TypeStep == TypeOK /\ [CheckoutNext]_checkoutVars => TypeOK'
<1> SUFFICES ASSUME TypeOK, CheckoutNext PROVE TypeOK'
  BY DEF TypeOK, checkoutVars
<1>a. /\ paper \in Paper /\ reg \in Registration /\ pays \in Seq(PaymentRow)
      /\ ver \in Verification /\ now \in Nat /\ wd \in [pc : {"idle", "read"}, seen : RegistrationStatus]
  BY DEF TypeOK
<1>1. ASSUME NEW o \in Openers, OpenRead(o) PROVE TypeOK'
  <2>1. reg.locked \in BOOLEAN
    BY <1>a DEF Registration
  <2>2. [pc |-> CASE reg.status = "ABSENT"    -> "create"
                  [] reg.status = "CANCELLED" -> "count"
                  [] OTHER                    -> "release",
         locked |-> reg.status = "CANCELLED" /\ reg.locked] \in OpenerPhase
    BY <2>1 DEF OpenerPhase
  <2>3. opener' \in [Openers -> OpenerPhase]
    BY <1>1, <2>2, RequestUpdates DEF OpenRead
  <2>4. QED
    BY <1>1, <2>3 DEF TypeOK, OpenRead, VersionRead
<1>2. ASSUME NEW o \in Openers, OpenCreate(o) PROVE TypeOK'
  <2>1. reg' \in Registration
    BY <1>2, <1>a, RegistrationUpdates DEF OpenCreate, RegistrationStatus
  <2>2. opener' \in [Openers -> OpenerPhase]
    BY ZenonT(60), <1>2, RequestUpdates DEF OpenCreate
  <2>3. QED
    BY <1>2, <2>1, <2>2 DEF TypeOK, OpenCreate
<1>3. ASSUME NEW o \in Openers, OpenCount(o) PROVE TypeOK'
  <2>1. opener' \in [Openers -> OpenerPhase]
    BY ZenonT(60), <1>3, RequestUpdates DEF OpenCount
  <2>2. QED
    BY <1>3, <2>1 DEF TypeOK, OpenCount, VersionDropped
<1>4. ASSUME NEW o \in Openers, Reopen(o) PROVE TypeOK'
  <2>1. reg' \in Registration
    <3>1. [reg EXCEPT !.status = "PENDING", !.deadline = Deadline] \in Registration
      BY <1>a, TimesAreNat, RegistrationUpdates DEF RegistrationStatus
    <3>2. QED
      BY <1>4, <1>a, <3>1 DEF Reopen
  <2>2. opener' \in [Openers -> OpenerPhase]
    BY <1>4, RequestUpdates DEF Reopen
  <2>3. QED
    BY <1>4, <2>1, <2>2 DEF TypeOK, Reopen, VersionIncremented, VersionDropped
<1>5. ASSUME NEW o \in Openers, Release(o) PROVE TypeOK'
  <2>1. opener' \in [Openers -> OpenerPhase]
    BY <1>5, RequestUpdates DEF Release
  <2>2. paper' \in Paper
    BY <1>5, <1>a DEF Release, Paper
  <2>3. QED
    BY <1>5, <2>1, <2>2 DEF TypeOK, Release
<1>6. ASSUME NEW o \in Openers, OpenerStops(o) PROVE TypeOK'
  <2>1. opener' \in [Openers -> OpenerPhase]
    BY <1>6, RequestUpdates DEF OpenerStops
  <2>2. QED
    BY <1>6, <2>1 DEF TypeOK, OpenerStops, VersionDropped
<1>7. ASSUME NEW a \in Audience, SaveDetails(a) PROVE TypeOK'
  <2>1. reg' \in Registration
    BY <1>7, <1>a, RegistrationUpdates DEF SaveDetails
  <2>2. QED
    BY <1>7, <2>1 DEF TypeOK, SaveDetails, VersionIncremented
<1>8. ASSUME FillMissingDetails PROVE TypeOK'
  BY <1>8 DEF TypeOK, FillMissingDetails, VersionIncremented
<1>9. ASSUME NEW u \in Users, UploadProof(u) PROVE TypeOK'
  BY <1>9 DEF TypeOK, UploadProof, Verification
<1>10. ASSUME UploadCameraReady PROVE TypeOK'
  <2>1. paper' \in Paper
    BY <1>10, <1>a DEF UploadCameraReady, Paper
  <2>2. QED
    BY <1>10, <2>1 DEF TypeOK, UploadCameraReady
<1>11. ASSUME NEW c \in Calls, NEW u \in Users, ReadForPayment(c, u) PROVE TypeOK'
  <2>1. [pc    |-> "read",
         user  |-> u,
         quote |-> IF ~reg.locked /\ reg.status = "PENDING" THEN Fee(reg.audience) ELSE 0,
         row   |-> 0] \in CallPhase
    BY FeeType DEF CallPhase
  <2>2. call' \in [Calls -> CallPhase]
    BY <1>11, <2>1, RequestUpdates DEF ReadForPayment
  <2>3. \A d \in Calls : call'[d].pc = "reserved" => call[d].pc = "reserved" /\ call'[d] = call[d]
    BY <1>11 DEF ReadForPayment, TypeOK
  <2>4. QED
    BY <1>11, <2>2, <2>3 DEF TypeOK, ReadForPayment, VersionRead
<1>12. ASSUME NEW c \in Calls, Reserve(c) PROVE TypeOK'
  <2> DEFINE row == NewRow(ReserveKind, ReserveAmount(c), 0)
  <2>1. row \in PaymentRow
    BY <1>12, ReservedRowType DEF Reserve
  <2>2. /\ SupersedeNewest(pays) \in Seq(PaymentRow)
        /\ Len(SupersedeNewest(pays)) = Len(pays)
    BY <1>a, SupersededRows
  <2>3. pays' = Append(SupersedeNewest(pays), row)
    BY <1>12 DEF Reserve
  <2>4. pays' \in Seq(PaymentRow) /\ Len(pays') = Len(pays) + 1
    <3> HIDE DEF row
    <3>1. QED
      BY <2>1, <2>2, <2>3
  <2>5. DOMAIN pays' = 1..(Len(pays) + 1) /\ DOMAIN pays = 1..Len(pays) /\ Len(pays) \in Nat
    BY <2>4, <1>a
  <2>6. call[c].user \in Users \cup {NoUser} /\ call[c].quote \in Nat
    BY FeesArePayable DEF TypeOK, CallPhase
  <2>7. reg' \in Registration
    <3>1. reg.due \in Nat /\ reg.locked \in BOOLEAN
      BY <1>a DEF Registration
    <3>2. QED
      BY <1>12, <1>a, <2>6, <3>1, RegistrationUpdates DEF Reserve
  <2>8. [IdleCall EXCEPT !.pc = "reserved", !.row = Len(pays) + 1] \in CallPhase
    <3>1. IdleCall \in CallPhase /\ Len(pays) + 1 \in Nat
      BY <2>5, RequestUpdates
    <3>2. QED
      BY <3>1 DEF CallPhase
  <2>9. call' \in [Calls -> CallPhase]
    BY <1>12, <2>8, RequestUpdates DEF Reserve
  <2>10. call'[c].row = Len(pays) + 1
    BY <1>12 DEF Reserve, IdleCall, TypeOK
  <2>11. \A d \in Calls \ {c} : call'[d] = call[d]
    BY <1>12 DEF Reserve, TypeOK
  <2>12. \A d \in Calls : call'[d].pc = "reserved" => call'[d].row \in DOMAIN pays'
    BY <2>5, <2>10, <2>11 DEF TypeOK
  <2>13. paid' \in SUBSET (DOMAIN pays')
    BY <1>12, <2>5 DEF Reserve, TypeOK
  <2>14. QED
    BY <1>12, <2>4, <2>7, <2>9, <2>12, <2>13 DEF TypeOK, Reserve, VersionIncremented
<1>13. ASSUME NEW c \in Calls, AttachOrder(c) PROVE TypeOK'
  <2>1. call[c].row \in DOMAIN pays
    BY <1>13 DEF TypeOK, AttachOrder
  <2>2. pays' \in Seq(PaymentRow) /\ DOMAIN pays' = DOMAIN pays
    BY <1>13, <1>a, <2>1, ColumnUpdated DEF AttachOrder
  <2>3. call' \in [Calls -> CallPhase]
    BY <1>13, RequestUpdates DEF AttachOrder
  <2>4. \A d \in Calls : call'[d].pc = "reserved" => call'[d] = call[d]
    BY <1>13 DEF AttachOrder, IdleCall, TypeOK
  <2>5. QED
    BY <1>13, <2>2, <2>3, <2>4 DEF TypeOK, AttachOrder
<1>14. ASSUME NEW c \in Calls, OrderFails(c) PROVE TypeOK'
  <2>1. call[c].row \in DOMAIN pays
    BY <1>14 DEF TypeOK, OrderFails
  <2>2. pays' \in Seq(PaymentRow) /\ DOMAIN pays' = DOMAIN pays
    BY <1>14, <1>a, <2>1, ColumnUpdated DEF OrderFails, PaymentStatus
  <2>3. call' \in [Calls -> CallPhase]
    BY <1>14, RequestUpdates DEF OrderFails
  <2>4. \A d \in Calls : call'[d].pc = "reserved" => call'[d] = call[d]
    BY <1>14 DEF OrderFails, IdleCall, TypeOK
  <2>5. QED
    BY <1>14, <2>2, <2>3, <2>4 DEF TypeOK, OrderFails
<1>15. ASSUME NEW c \in Calls, CallStops(c) PROVE TypeOK'
  <2>1. call' \in [Calls -> CallPhase]
    BY <1>15, RequestUpdates DEF CallStops
  <2>2. \A d \in Calls : call'[d].pc = "reserved" => call'[d] = call[d]
    BY <1>15 DEF CallStops, IdleCall, TypeOK
  <2>3. QED
    BY <1>15, <2>1, <2>2 DEF TypeOK, CallStops, VersionDropped
<1>16. ASSUME NEW i \in DOMAIN pays, Age(i) PROVE TypeOK'
  <2>1. pays' \in Seq(PaymentRow) /\ DOMAIN pays' = DOMAIN pays
    BY <1>16, <1>a, ColumnUpdated DEF Age
  <2>2. QED
    BY <1>16, <2>1 DEF TypeOK, Age
<1>17. ASSUME NEW i \in DOMAIN pays, PayOrder(i) PROVE TypeOK'
  BY <1>17 DEF TypeOK, PayOrder
<1>18. ASSUME NEW i \in DOMAIN pays, Capture(i) PROVE TypeOK'
  <2>1. pays' \in Seq(PaymentRow) /\ DOMAIN pays' = DOMAIN pays
    BY <1>18, <1>a, ColumnUpdated DEF Capture, PaymentStatus
  <2>2. reg' \in Registration
    BY <1>18, CapturedType DEF Capture
  <2>3. QED
    BY <1>18, <2>1, <2>2 DEF TypeOK, Capture, VersionIncremented
<1>19. ASSUME ScanProof PROVE TypeOK'
  <2>1. ver' \in Verification
    BY <1>19, <1>a DEF ScanProof, Verification
  <2>2. QED
    BY <1>19, <2>1 DEF TypeOK, ScanProof
<1>20. ASSUME ApproveProof PROVE TypeOK'
  <2>1. ver' \in Verification
    BY <1>20, <1>a DEF ApproveProof, Verification
  <2>2. (IF IsSettled(reg.due, Net(pays)) THEN "PAID" ELSE reg.status) \in RegistrationStatus
    BY <1>a DEF Registration, RegistrationStatus
  <2>3. reg' \in Registration
    BY <1>20, <1>a, <2>2, RegistrationUpdates DEF ApproveProof
  <2>4. QED
    BY <1>20, <2>1, <2>3 DEF TypeOK, ApproveProof, VersionIncremented
<1>21. ASSUME ClarifyProof PROVE TypeOK'
  <2>1. ver' \in Verification
    BY <1>21, <1>a DEF ClarifyProof, Verification
  <2>2. QED
    BY <1>21, <2>1 DEF TypeOK, ClarifyProof
<1>22. ASSUME RejectProof PROVE TypeOK'
  <2>1. ver' \in Verification
    BY <1>22, <1>a DEF RejectProof, Verification
  <2>2. QED
    BY <1>22, <2>1, DemotedType DEF TypeOK, RejectProof, VersionIncremented
<1>23. ASSUME NEW d \in 0..MaxTime, ExtendDeadline(d) PROVE TypeOK'
  <2>1. d \in Nat
    BY TimesAreNat
  <2>2. reg' \in Registration
    BY <1>23, <1>a, <2>1, RegistrationUpdates DEF ExtendDeadline
  <2>3. QED
    BY <1>23, <2>2 DEF TypeOK, ExtendDeadline, VersionIncremented
<1>24. ASSUME WithdrawRead PROVE TypeOK'
  <2>1. reg.status \in RegistrationStatus
    BY <1>a DEF Registration
  <2>2. QED
    BY <1>24, <2>1 DEF TypeOK, WithdrawRead
<1>25. ASSUME WithdrawCommit PROVE TypeOK'
  <2>1. reg' \in Registration
    BY <1>25, <1>a, RegistrationUpdates DEF WithdrawCommit, RegistrationStatus
  <2>2. paper' \in Paper
    BY <1>25, <1>a DEF WithdrawCommit, Paper
  <2>3. IdleWd \in [pc : {"idle", "read"}, seen : RegistrationStatus]
    BY DEF IdleWd, RegistrationStatus
  <2>4. QED
    BY <1>25, <2>1, <2>2, <2>3 DEF TypeOK, WithdrawCommit, VersionIncremented
<1>26. ASSUME WithdrawRollback PROVE TypeOK'
  BY <1>26 DEF TypeOK, WithdrawRollback, IdleWd, RegistrationStatus
<1>27. ASSUME ScanCameraReady PROVE TypeOK'
  <2>1. paper' \in Paper
    BY <1>27, <1>a DEF ScanCameraReady, Paper, Active
  <2>2. QED
    BY <1>27, <2>1 DEF TypeOK, ScanCameraReady
<1>28. ASSUME Tick PROVE TypeOK'
  BY <1>28 DEF TypeOK, Tick
<1>29. QED
  BY <1>1, <1>2, <1>3, <1>4, <1>5, <1>6, <1>7, <1>8, <1>9, <1>10, <1>11, <1>12, <1>13, <1>14, <1>15, <1>16, <1>17, <1>18, <1>19, <1>20, <1>21, <1>22, <1>23, <1>24, <1>25, <1>26, <1>27, <1>28 DEF CheckoutNext, OpenerNext, AuthorNext, CallNext, RowNext, OrganizerNext

\* A registration that does not exist, no payment and no request.
LEMMA TypeInit == Init => TypeOK
  BY TimesAreNat DEF Init, TypeOK, Paper, Registration, Verification, CallPhase, OpenerPhase,
     IdleCall, IdleOpener, IdleWd, Active, Audience, RegistrationStatus

\* The tables and requests of Checkout keep their shape in every behaviour: no
\* request of registrations, payments, review or withdrawal writes a row or keeps
\* a read that another of them could not have produced.
THEOREM TypeCorrect == CheckoutSpec => []TypeOK
  BY TypeInit, TypeStep, PTL DEF CheckoutSpec

-----------------------------------------------------------------------------
(* What the steps do to the payments table.                                *)

\* An update by id changes one column of one row.
LEMMA OtherColumnsKept ==
  ASSUME NEW rows \in Seq(PaymentRow), NEW i \in DOMAIN rows, NEW v
  PROVE  /\ LET new == [rows EXCEPT ![i].status = v]
            IN  \A j \in DOMAIN rows :
                  /\ new[j].kind = rows[j].kind /\ new[j].amount = rows[j].amount
                  /\ new[j].status = IF j = i THEN v ELSE rows[j].status
                  /\ new[j].order = rows[j].order
                  /\ new[j].parent = rows[j].parent /\ new[j].ref = rows[j].ref
         /\ LET new == [rows EXCEPT ![i].order = v]
            IN  \A j \in DOMAIN rows :
                  /\ new[j].kind = rows[j].kind /\ new[j].amount = rows[j].amount
                  /\ new[j].status = rows[j].status
                  /\ new[j].order = IF j = i THEN v ELSE rows[j].order
                  /\ new[j].parent = rows[j].parent /\ new[j].ref = rows[j].ref
         /\ LET new == [rows EXCEPT ![i].fresh = v]
            IN  \A j \in DOMAIN rows :
                  /\ new[j].kind = rows[j].kind /\ new[j].amount = rows[j].amount
                  /\ new[j].status = rows[j].status
                  /\ new[j].order = rows[j].order
                  /\ new[j].parent = rows[j].parent /\ new[j].ref = rows[j].ref
<1>1. \A j \in DOMAIN rows : rows[j] \in PaymentRow
  OBVIOUS
<1>2. QED
  BY <1>1 DEF PaymentRow

\* A reservation appends one row and changes no other but the status of the
\* newest open one.
LEMMA ReservedRows ==
  ASSUME TypeOK, NEW c \in Calls, Reserve(c)
  PROVE  LET n == Len(pays) + 1
         IN  /\ n \notin DOMAIN pays /\ DOMAIN pays' = DOMAIN pays \cup {n}
             /\ Len(pays') = n
             /\ \A j \in DOMAIN pays :
                  /\ pays'[j].kind = pays[j].kind
                  /\ pays'[j].amount = pays[j].amount
                  /\ pays'[j].order = pays[j].order
                  /\ pays'[j].parent = pays[j].parent /\ pays'[j].ref = pays[j].ref
                  /\ pays'[j].status = IF j \in NewestCreated(pays) THEN "FAILED"
                                       ELSE pays[j].status
             /\ pays'[n] = NewRow(ReserveKind, ReserveAmount(c), 0)
<1> DEFINE n == Len(pays) + 1
           old == SupersedeNewest(pays)
           row == NewRow(ReserveKind, ReserveAmount(c), 0)
<1>1. pays \in Seq(PaymentRow) /\ \A j \in DOMAIN pays : pays[j] \in PaymentRow
  BY DEF TypeOK
<1>2. old \in Seq(PaymentRow) /\ Len(old) = Len(pays)
  BY <1>1, SupersededRows
<1>3. row \in PaymentRow
  BY ReservedRowType DEF Reserve
<1>4. pays' = Append(old, row)
  BY DEF Reserve
<1>5. ASSUME NEW j \in DOMAIN pays
      PROVE  /\ old[j].kind = pays[j].kind
             /\ old[j].amount = pays[j].amount
             /\ old[j].order = pays[j].order
             /\ old[j].parent = pays[j].parent /\ old[j].ref = pays[j].ref
             /\ old[j].status = IF j \in NewestCreated(pays) THEN "FAILED" ELSE pays[j].status
  <2>1. old[j] = IF j \in NewestCreated(pays) THEN [pays[j] EXCEPT !.status = "FAILED"] ELSE pays[j]
    BY DEF SupersedeNewest
  <2>2. QED
    BY <1>1, <2>1 DEF PaymentRow
<1> HIDE DEF old, row
<1>6. /\ n \notin DOMAIN pays /\ DOMAIN pays' = DOMAIN pays \cup {n} /\ Len(pays') = n
      /\ \A j \in DOMAIN pays : pays'[j] = old[j]
      /\ pays'[n] = row
  BY <1>1, <1>2, <1>3, <1>4
<1>7. QED
  BY <1>5, <1>6 DEF row

-----------------------------------------------------------------------------
(* The inductive invariant.                                                *)

\* There are no payments before the price is locked, and a payable
\* registration owes the fee that its status says.
PriceFollowsStatus ==
  /\ ~reg.locked => DOMAIN pays = {}
  /\ reg.locked => reg.status # "ABSENT"
  /\ reg.status = "PENDING" /\ reg.locked => reg.due = Fee(reg.audience)
  /\ reg.status = "ADDITIONAL_PAYMENT_REQUIRED" => reg.locked /\ reg.due = RegularFee

\* What a request read before a lock is still true while its version is current.
CurrentReads ==
  /\ \A c \in Calls : c \in current /\ call[c].pc = "read" =>
       /\ reg.status # "ABSENT"
       /\ call[c].quote = IF ~reg.locked /\ reg.status = "PENDING" THEN Fee(reg.audience) ELSE 0
  /\ \A o \in Openers :
       /\ o \in current /\ opener[o].pc \in {"count", "reopen"} => opener[o].locked = reg.locked
       /\ opener[o].pc = "reopen" => ~opener[o].locked

IInv ==
  /\ TypeOK
  /\ PriceFollowsStatus
  /\ CurrentReads
  /\ QuoteHonoured
  /\ StudentsVerified
  /\ OneOpenCheckout

\* What a reservation charges, given that the version is still the one read.
LEMMA ReservedPrice ==
  ASSUME IInv, NEW c \in Calls, Reserve(c)
  PROVE  /\ reg'.locked /\ reg'.status = reg.status /\ reg'.audience = reg.audience
         /\ reg.locked => reg'.due = reg.due
         /\ reg.status = "PENDING" => reg'.due = Fee(reg.audience)
         /\ reg'.due \in {Fee(reg.audience), RegularFee}
         /\ ReserveKind = "INITIAL" => ReserveAmount(c) = Fee(reg.audience)
<1>1. /\ call[c].pc = "read" /\ c \in current /\ reg.status \in Payable
      /\ reg' = [reg EXCEPT !.user   = call[c].user,
                            !.due    = IF call[c].quote # 0 THEN call[c].quote ELSE @,
                            !.locked = @ \/ call[c].quote # 0]
  BY DEF Reserve, MayReserve
<1>2. call[c].quote = IF ~reg.locked /\ reg.status = "PENDING" THEN Fee(reg.audience) ELSE 0
  BY <1>1 DEF IInv, CurrentReads
<1>3. reg \in Registration /\ reg.locked \in BOOLEAN
  BY DEF IInv, TypeOK, Registration
<1>4. /\ reg'.status = reg.status /\ reg'.audience = reg.audience
      /\ reg'.due = (IF call[c].quote # 0 THEN call[c].quote ELSE reg.due)
      /\ reg'.locked = (reg.locked \/ call[c].quote # 0)
  BY <1>1, <1>3 DEF Registration
<1>5. Fee(reg.audience) # 0
  BY FeeType
<1>6. CASE reg.status = "PENDING"
  BY <1>2, <1>3, <1>4, <1>5, <1>6 DEF ReserveKind, ReserveAmount, IInv, PriceFollowsStatus
<1>7. CASE reg.status = "ADDITIONAL_PAYMENT_REQUIRED"
  BY <1>2, <1>3, <1>4, <1>7 DEF ReserveKind, IInv, PriceFollowsStatus
<1>8. QED
  BY <1>1, <1>6, <1>7 DEF Payable

\* What a capture does to the registration: the price was locked before.
LEMMA CapturedRegistration ==
  ASSUME IInv, NEW i \in DOMAIN pays, Capture(i)
  PROVE  /\ reg.locked
         /\ \E s \in RegistrationStatus :
              /\ reg' = [reg EXCEPT !.status = s]
              /\ s \in {reg.status, "CANCELLED", "AWAITING_VERIFICATION", "PAID"}
              /\ reg.status \in Terminal => s \in Terminal
              /\ s = "PAID" /\ reg.audience = "STUDENT" =>
                   \/ ver.status = "APPROVED"
                   \/ reg.status \in {"PAID", "ADDITIONAL_PAYMENT_REQUIRED"}
<1> DEFINE r == LockPrice(reg, pays[i].kind)
           rows == [pays EXCEPT ![i].status = "CAPTURED"]
           s == StatusOnCapture(r, rows)
<1>1. reg.locked /\ reg \in Registration /\ reg.status \in RegistrationStatus /\ reg.locked \in BOOLEAN
  BY DEF IInv, PriceFollowsStatus, TypeOK, Registration
<1>2. r = reg
  BY <1>1 DEF LockPrice, Registration
<1>3. reg' = [reg EXCEPT !.status = s]
  BY <1>2 DEF Capture
<1>4. /\ s \in RegistrationStatus
      /\ s \in {reg.status, "CANCELLED", "AWAITING_VERIFICATION", "PAID"}
      /\ reg.status \in Terminal => s \in Terminal
      /\ s = "PAID" /\ reg.audience = "STUDENT" =>
           \/ ver.status = "APPROVED"
           \/ reg.status \in {"PAID", "ADDITIONAL_PAYMENT_REQUIRED"}
  BY <1>1, <1>2 DEF StatusOnCapture, StatusAfterCapture, RegistrationStatus, Terminal
<1>5. QED
  BY <1>1, <1>3, <1>4

\* The price stays the one that was quoted.
LEMMA PriceStep == IInv /\ CheckoutNext => PriceFollowsStatus' /\ QuoteHonoured'
<1> SUFFICES ASSUME IInv, CheckoutNext PROVE PriceFollowsStatus' /\ QuoteHonoured'
  OBVIOUS
<1> DEFINE RowsKept ==
      /\ DOMAIN pays' = DOMAIN pays
      /\ \A j \in DOMAIN pays : pays'[j].kind = pays[j].kind /\ pays'[j].amount = pays[j].amount
<1>a. /\ PriceFollowsStatus /\ QuoteHonoured
      /\ reg \in Registration /\ reg.locked \in BOOLEAN
      /\ pays \in Seq(PaymentRow)
  BY DEF IInv, TypeOK, Registration
<1>1. ASSUME UNCHANGED reg, RowsKept PROVE PriceFollowsStatus' /\ QuoteHonoured'
  BY <1>a, <1>1 DEF PriceFollowsStatus, QuoteHonoured, Fee
<1>2. ASSUME UNCHANGED <<reg, pays>> PROVE PriceFollowsStatus' /\ QuoteHonoured'
  BY <1>1, <1>2
<1>3. ASSUME NEW o \in Openers, OpenCreate(o) PROVE PriceFollowsStatus' /\ QuoteHonoured'
  BY <1>a, <1>3 DEF OpenCreate, PriceFollowsStatus, QuoteHonoured, Registration, Fee
<1>4. ASSUME NEW o \in Openers, Reopen(o) PROVE PriceFollowsStatus' /\ QuoteHonoured'
  <2>1. CASE ReopenMatches(o)
    <3>1. ~reg.locked
      BY <1>4, <2>1 DEF Reopen, ReopenMatches, IInv, CurrentReads
    <3>2. reg' = [reg EXCEPT !.status = "PENDING", !.deadline = Deadline] /\ UNCHANGED pays
      BY <1>4, <2>1 DEF Reopen
    <3>3. QED
      BY <1>a, <3>1, <3>2 DEF PriceFollowsStatus, QuoteHonoured, Registration
  <2>2. CASE ~ReopenMatches(o)
    BY <1>2, <1>4, <2>2 DEF Reopen
  <2>3. QED
    BY <2>1, <2>2
<1>5. ASSUME NEW a \in Audience, SaveDetails(a) PROVE PriceFollowsStatus' /\ QuoteHonoured'
  BY <1>a, <1>5 DEF SaveDetails, PriceFollowsStatus, QuoteHonoured, Registration
<1>6. ASSUME NEW c \in Calls, Reserve(c) PROVE PriceFollowsStatus' /\ QuoteHonoured'
  <2>1. /\ reg'.locked /\ reg'.status = reg.status /\ reg'.audience = reg.audience
        /\ reg.locked => reg'.due = reg.due
        /\ reg.status = "PENDING" => reg'.due = Fee(reg.audience)
        /\ reg'.due \in {Fee(reg.audience), RegularFee}
        /\ ReserveKind = "INITIAL" => ReserveAmount(c) = Fee(reg.audience)
    BY <1>6, ReservedPrice
  <2>2. reg.status \in Payable
    BY <1>6 DEF Reserve, MayReserve
  <2>3. PriceFollowsStatus'
    BY <1>a, <2>1, <2>2 DEF PriceFollowsStatus, Payable, Fee
  <2>4. ASSUME NEW j \in DOMAIN pays'
        PROVE  pays'[j].kind = "INITIAL" => pays'[j].amount = Fee(reg'.audience)
    <3>1. CASE j \in DOMAIN pays
      BY <1>6, <1>a, <2>1, <3>1, ReservedRows DEF QuoteHonoured, IInv
    <3>2. CASE j = Len(pays) + 1
      <4>1. pays'[j] = NewRow(ReserveKind, ReserveAmount(c), 0)
        BY <1>6, <3>2, ReservedRows DEF IInv
      <4>2. QED
        BY <2>1, <4>1 DEF NewRow
    <3>3. QED
      BY <1>6, <3>1, <3>2, ReservedRows DEF IInv
  <2>5. QED
    BY <2>1, <2>3, <2>4 DEF QuoteHonoured, Fee
<1>7. ASSUME NEW c \in Calls, AttachOrder(c) \/ OrderFails(c)
      PROVE  PriceFollowsStatus' /\ QuoteHonoured'
  <2>1. call[c].row \in DOMAIN pays
    BY <1>7 DEF IInv, TypeOK, AttachOrder, OrderFails
  <2>2. \/ pays' = [pays EXCEPT ![call[c].row].order = TRUE]
        \/ pays' = [pays EXCEPT ![call[c].row].status = "FAILED"]
    BY <1>7 DEF AttachOrder, OrderFails
  <2>3. RowsKept
    <3>1. CASE pays' = [pays EXCEPT ![call[c].row].order = TRUE]
      BY <1>a, <2>1, <3>1, ColumnUpdated, OtherColumnsKept
    <3>2. CASE pays' = [pays EXCEPT ![call[c].row].status = "FAILED"]
      BY <1>a, <2>1, <3>2, ColumnUpdated, OtherColumnsKept DEF PaymentStatus
    <3>3. QED
      BY <2>2, <3>1, <3>2
  <2>4. QED
    BY <1>1, <1>7, <2>3 DEF AttachOrder, OrderFails
<1>8. ASSUME NEW i \in DOMAIN pays, Age(i) PROVE PriceFollowsStatus' /\ QuoteHonoured'
  <2>1. RowsKept
    BY <1>8, <1>a, ColumnUpdated, OtherColumnsKept DEF Age
  <2>2. QED
    BY <1>1, <1>8, <2>1 DEF Age
<1>9. ASSUME NEW i \in DOMAIN pays, Capture(i) PROVE PriceFollowsStatus' /\ QuoteHonoured'
  <2>1. RowsKept
    <3>1. pays' = [pays EXCEPT ![i].status = "CAPTURED"]
      BY <1>9 DEF Capture
    <3>2. QED
      BY <1>a, <3>1, ColumnUpdated, OtherColumnsKept DEF PaymentStatus
  <2>2. PICK s \in RegistrationStatus :
          /\ reg' = [reg EXCEPT !.status = s]
          /\ s \in {reg.status, "CANCELLED", "AWAITING_VERIFICATION", "PAID"}
    BY <1>9, CapturedRegistration
  <2>3. /\ reg'.due = reg.due /\ reg'.locked = reg.locked /\ reg'.audience = reg.audience
        /\ reg'.status \in {reg.status, "CANCELLED", "AWAITING_VERIFICATION", "PAID"}
    BY <1>a, <2>2 DEF Registration
  <2>4. QED
    BY <1>a, <2>1, <2>3 DEF PriceFollowsStatus, QuoteHonoured, Fee
<1>10. ASSUME ApproveProof PROVE PriceFollowsStatus' /\ QuoteHonoured'
  <2>1. /\ reg'.due = reg.due /\ reg'.locked = reg.locked /\ reg'.audience = reg.audience
        /\ reg'.status \in {reg.status, "PAID"} /\ UNCHANGED pays
    BY <1>10, <1>a DEF ApproveProof, Registration
  <2>2. QED
    BY <1>a, <2>1 DEF PriceFollowsStatus, QuoteHonoured, Fee
<1>11. ASSUME RejectProof PROVE PriceFollowsStatus' /\ QuoteHonoured'
  <2>1. UNCHANGED pays /\ reg' = Demoted
    BY <1>11 DEF RejectProof
  <2>2. CASE ~reg.locked
    BY <1>a, <2>1, <2>2 DEF Demoted, PriceFollowsStatus, QuoteHonoured, Registration
  <2>3. CASE reg.locked
    <3>1. /\ reg'.due = RegularFee /\ reg'.locked = reg.locked /\ reg'.audience = reg.audience
          /\ reg'.status \in {"PAID", "ADDITIONAL_PAYMENT_REQUIRED"}
      BY <1>a, <2>1, <2>3 DEF Demoted, Registration
    <3>2. QED
      BY <1>a, <2>1, <2>3, <3>1 DEF PriceFollowsStatus, QuoteHonoured, Fee
  <2>4. QED
    BY <2>2, <2>3
<1>12. ASSUME NEW d \in 0..MaxTime, ExtendDeadline(d) PROVE PriceFollowsStatus' /\ QuoteHonoured'
  <2>1. /\ reg'.due = reg.due /\ reg'.locked = reg.locked /\ reg'.audience = reg.audience
        /\ reg'.status = reg.status /\ UNCHANGED pays
    BY <1>12, <1>a DEF ExtendDeadline, Registration
  <2>2. QED
    BY <1>a, <2>1 DEF PriceFollowsStatus, QuoteHonoured, Fee
<1>13. ASSUME WithdrawCommit PROVE PriceFollowsStatus' /\ QuoteHonoured'
  <2>1. /\ reg'.due = reg.due /\ reg'.locked = reg.locked /\ reg'.audience = reg.audience
        /\ reg'.status \in {reg.status, "CANCELLED"} /\ UNCHANGED pays
    BY <1>13, <1>a DEF WithdrawCommit, Registration
  <2>2. QED
    BY <1>a, <2>1 DEF PriceFollowsStatus, QuoteHonoured, Fee
<1>14. QED
  BY <1>2, <1>3, <1>4, <1>5, <1>6, <1>7, <1>8, <1>9, <1>10, <1>11, <1>12, <1>13
  DEF CheckoutNext, OpenerNext, AuthorNext, CallNext, RowNext, OrganizerNext,
      OpenRead, OpenCount, Release, OpenerStops, FillMissingDetails, UploadProof,
      UploadCameraReady, ReadForPayment, CallStops, PayOrder, ScanProof, ClarifyProof,
      WithdrawRead, WithdrawRollback, ScanCameraReady, Tick

\* A version that is still current vouches for what was read with it.
LEMMA ReadsStep == IInv /\ CheckoutNext => CurrentReads'
<1> SUFFICES ASSUME IInv, CheckoutNext PROVE CurrentReads'
  OBVIOUS
<1>a. /\ CurrentReads
      /\ reg \in Registration /\ reg.locked \in BOOLEAN
      /\ call \in [Calls -> CallPhase] /\ opener \in [Openers -> OpenerPhase]
  BY DEF IInv, TypeOK, Registration
<1>1. ASSUME VersionIncremented, UNCHANGED opener PROVE CurrentReads'
  BY <1>a, <1>1 DEF CurrentReads, VersionIncremented
<1>2. ASSUME UNCHANGED <<reg, call, opener, current>> PROVE CurrentReads'
  BY <1>a, <1>2 DEF CurrentReads, Fee
<1>3. ASSUME NEW o \in Openers, OpenRead(o) PROVE CurrentReads'
  <2>1. /\ current' = IF reg.status = "CANCELLED" THEN current \cup {o} ELSE current
        /\ opener'[o].pc \notin {"count", "reopen"} \/ reg.status = "CANCELLED"
        /\ opener'[o].pc # "reopen"
        /\ reg.status = "CANCELLED" => opener'[o].locked = reg.locked
        /\ \A p \in Openers \ {o} : opener'[p] = opener[p]
        /\ UNCHANGED <<reg, call>>
    BY <1>3, <1>a DEF OpenRead, VersionRead
  <2>2. QED
    BY <1>a, <2>1, RequestsDiffer DEF CurrentReads, Fee
<1>4. ASSUME NEW o \in Openers, OpenCreate(o) PROVE CurrentReads'
  <2>1. /\ opener'[o].pc \in {"release", "idle"}
        /\ \A p \in Openers \ {o} : opener'[p] = opener[p]
        /\ UNCHANGED <<call, current>>
        /\ reg' = reg \/ reg.status = "ABSENT"
        /\ reg'.locked = reg.locked
    BY <1>4, <1>a DEF OpenCreate, OpenerPhase, IdleOpener, Registration
  <2>2. QED
    BY <1>a, <2>1 DEF CurrentReads, Fee
<1>5. ASSUME NEW o \in Openers, OpenCount(o) PROVE CurrentReads'
  <2>1. \A p \in Openers \ {o} : opener'[p] = opener[p]
    BY <1>5, <1>a DEF OpenCount
  <2>2. opener[o].pc = "count" /\ current' \subseteq current /\ UNCHANGED <<reg, call>>
    BY <1>5 DEF OpenCount, VersionDropped
  <2>3. \/ opener'[o].pc = "idle"
        \/ /\ opener'[o].pc = "reopen" /\ opener'[o].locked = opener[o].locked
           /\ ~opener[o].locked
    BY <1>5, <1>a DEF OpenCount, Untouched, IdleOpener, OpenerPhase
  <2>4. QED
    BY <1>a, <2>1, <2>2, <2>3 DEF CurrentReads, Fee
<1>6. ASSUME NEW o \in Openers, Reopen(o) PROVE CurrentReads'
  <2>1. /\ opener'[o].pc = "release"
        /\ \A p \in Openers \ {o} : opener'[p] = opener[p]
        /\ UNCHANGED call
    BY <1>6, <1>a DEF Reopen, OpenerPhase
  <2>2. current' = {} \/ (current' \subseteq current /\ UNCHANGED reg)
    BY <1>6 DEF Reopen, VersionIncremented, VersionDropped
  <2>3. QED
    BY <1>a, <2>1, <2>2 DEF CurrentReads, Fee
<1>7. ASSUME NEW o \in Openers, Release(o) \/ OpenerStops(o) PROVE CurrentReads'
  <2>1. /\ opener'[o].pc = "idle"
        /\ \A p \in Openers \ {o} : opener'[p] = opener[p]
        /\ UNCHANGED <<reg, call>> /\ current' \subseteq current
    BY <1>7, <1>a DEF Release, OpenerStops, VersionDropped, IdleOpener
  <2>2. QED
    BY <1>a, <2>1 DEF CurrentReads, Fee
<1>8. ASSUME NEW c \in Calls, NEW u \in Users, ReadForPayment(c, u) PROVE CurrentReads'
  <2>1. /\ reg.status # "ABSENT"
        /\ call'[c].quote = IF ~reg.locked /\ reg.status = "PENDING" THEN Fee(reg.audience) ELSE 0
        /\ \A d \in Calls \ {c} : call'[d] = call[d]
        /\ current' = current \cup {c}
        /\ UNCHANGED <<reg, opener>>
    BY <1>8, <1>a DEF ReadForPayment, AcceptanceWasReleased, VersionRead
  <2>2. QED
    BY <1>a, <2>1, RequestsDiffer DEF CurrentReads, Fee
<1>9. ASSUME NEW c \in Calls, AttachOrder(c) \/ OrderFails(c) \/ CallStops(c) PROVE CurrentReads'
  <2>1. /\ call'[c].pc = "idle"
        /\ \A d \in Calls \ {c} : call'[d] = call[d]
        /\ current' \subseteq current
        /\ UNCHANGED <<reg, opener>>
    BY <1>9, <1>a DEF AttachOrder, OrderFails, CallStops, VersionDropped, IdleCall
  <2>2. QED
    BY <1>a, <2>1 DEF CurrentReads, Fee
<1>10. ASSUME NEW c \in Calls, Reserve(c) PROVE CurrentReads'
  BY <1>1, <1>10 DEF Reserve
<1>11. ASSUME NEW i \in DOMAIN pays, Age(i) \/ PayOrder(i) \/ Capture(i) PROVE CurrentReads'
  BY <1>1, <1>2, <1>11 DEF Age, PayOrder, Capture
<1>12. ASSUME AuthorNext PROVE CurrentReads'
  BY <1>1, <1>2, <1>12
  DEF AuthorNext, SaveDetails, FillMissingDetails, UploadProof, UploadCameraReady
<1>13. ASSUME OrganizerNext PROVE CurrentReads'
  <2>1. CASE WithdrawCommit
    BY <1>1, <1>2, <2>1 DEF WithdrawCommit
  <2>2. CASE ApproveProof \/ RejectProof
    BY <1>1, <2>2 DEF ApproveProof, RejectProof
  <2>3. ASSUME NEW d \in 0..MaxTime, ExtendDeadline(d) PROVE CurrentReads'
    BY <1>1, <2>3 DEF ExtendDeadline
  <2>4. CASE ScanProof \/ ClarifyProof \/ WithdrawRead \/ WithdrawRollback \/ ScanCameraReady \/ Tick
    BY <1>2, <2>4 DEF ScanProof, ClarifyProof, WithdrawRead, WithdrawRollback, ScanCameraReady, Tick
  <2>5. QED
    BY <1>13, <2>1, <2>2, <2>3, <2>4 DEF OrganizerNext
<1>14. QED
  BY <1>3, <1>4, <1>5, <1>6, <1>7, <1>8, <1>9, <1>10, <1>11, <1>12, <1>13
  DEF CheckoutNext, OpenerNext, CallNext, RowNext

\* Neither a capture nor a verdict nor a new document admits an unproven student.
LEMMA StudentStep == IInv /\ CheckoutNext => StudentsVerified'
<1> SUFFICES ASSUME IInv, CheckoutNext PROVE StudentsVerified'
  OBVIOUS
<1>a. /\ StudentsVerified /\ PriceFollowsStatus
      /\ reg \in Registration /\ reg.locked \in BOOLEAN /\ ver \in Verification
  BY DEF IInv, TypeOK, Registration
<1>1. ASSUME UNCHANGED <<reg, ver>> PROVE StudentsVerified'
  BY <1>a, <1>1 DEF StudentsVerified
<1>2. ASSUME reg'.status # "PAID" PROVE StudentsVerified'
  BY <1>2 DEF StudentsVerified
<1>3. ASSUME NEW o \in Openers, OpenCreate(o) \/ Reopen(o) PROVE StudentsVerified'
  BY <1>a, <1>1, <1>2, <1>3 DEF OpenCreate, Reopen, Registration
<1>4. ASSUME NEW a \in Audience, SaveDetails(a) PROVE StudentsVerified'
  BY <1>a, <1>2, <1>4 DEF SaveDetails, Registration
<1>5. ASSUME NEW u \in Users, UploadProof(u) PROVE StudentsVerified'
  BY <1>2, <1>5 DEF UploadProof
<1>6. ASSUME NEW c \in Calls, Reserve(c) PROVE StudentsVerified'
  <2>1. reg'.status = reg.status
    BY <1>6, ReservedPrice
  <2>2. reg.status \in Payable
    BY <1>6 DEF Reserve, MayReserve
  <2>3. QED
    BY <1>2, <2>1, <2>2 DEF Payable
<1>7. ASSUME NEW i \in DOMAIN pays, Capture(i) PROVE StudentsVerified'
  <2>1. PICK s \in RegistrationStatus :
          /\ reg' = [reg EXCEPT !.status = s]
          /\ s = "PAID" /\ reg.audience = "STUDENT" =>
               \/ ver.status = "APPROVED"
               \/ reg.status \in {"PAID", "ADDITIONAL_PAYMENT_REQUIRED"}
    BY <1>7, CapturedRegistration
  <2>2. /\ reg'.status = s /\ reg'.audience = reg.audience /\ reg'.due = reg.due
        /\ UNCHANGED ver
    BY <1>7, <1>a, <2>1 DEF Capture, Registration
  <2>3. QED
    BY <1>a, <2>1, <2>2 DEF StudentsVerified, PriceFollowsStatus
<1>8. ASSUME ScanProof PROVE StudentsVerified'
  BY <1>a, <1>8 DEF ScanProof, StudentsVerified, Verification
<1>9. ASSUME ApproveProof PROVE StudentsVerified'
  BY <1>a, <1>9 DEF ApproveProof, StudentsVerified, Verification
<1>10. ASSUME ClarifyProof PROVE StudentsVerified'
  BY <1>a, <1>10 DEF ClarifyProof, Reviewable, StudentsVerified, Verification
<1>11. ASSUME RejectProof PROVE StudentsVerified'
  <2>1. reg' = Demoted
    BY <1>11 DEF RejectProof
  <2>2. reg'.audience = "REGULAR" \/ reg'.due = RegularFee
    BY <1>a, <2>1 DEF Demoted, Registration
  <2>3. QED
    BY <2>2 DEF StudentsVerified
<1>12. ASSUME NEW d \in 0..MaxTime, ExtendDeadline(d) PROVE StudentsVerified'
  BY <1>a, <1>12 DEF ExtendDeadline, StudentsVerified, Registration
<1>13. ASSUME WithdrawCommit PROVE StudentsVerified'
  BY <1>a, <1>1, <1>2, <1>13 DEF WithdrawCommit, Registration
<1>14. QED
  BY <1>1, <1>3, <1>4, <1>5, <1>6, <1>7, <1>8, <1>9, <1>10, <1>11, <1>12, <1>13
  DEF CheckoutNext, OpenerNext, AuthorNext, CallNext, RowNext, OrganizerNext,
      OpenRead, OpenCount, Release, OpenerStops, FillMissingDetails, UploadCameraReady,
      ReadForPayment, AttachOrder, OrderFails, CallStops, Age, PayOrder,
      WithdrawRead, WithdrawRollback, ScanCameraReady, Tick

\* Concurrent payment requests leave one open reservation.
LEMMA OpenRowStep == IInv /\ CheckoutNext => OneOpenCheckout'
<1> SUFFICES ASSUME IInv, CheckoutNext PROVE OneOpenCheckout'
  OBVIOUS
<1> DEFINE NoneOpened ==
      /\ DOMAIN pays' = DOMAIN pays
      /\ \A j \in DOMAIN pays : pays'[j].status = "CREATED" => pays[j].status = "CREATED"
<1>a. OneOpenCheckout /\ pays \in Seq(PaymentRow)
  BY DEF IInv, TypeOK
<1>1. ASSUME NoneOpened PROVE OneOpenCheckout'
  BY <1>a, <1>1 DEF OneOpenCheckout
<1>2. ASSUME NEW c \in Calls, Reserve(c) PROVE OneOpenCheckout'
  <2>1. /\ DOMAIN pays' = DOMAIN pays \cup {Len(pays) + 1}
        /\ \A j \in DOMAIN pays : pays'[j].status = IF j \in NewestCreated(pays) THEN "FAILED"
                                                    ELSE pays[j].status
    BY <1>2, ReservedRows DEF IInv
  <2>2. \A j \in DOMAIN pays : pays[j].status = "CREATED" => j \in NewestCreated(pays)
    BY <1>a DEF OneOpenCheckout, NewestCreated
  <2>3. \A j \in DOMAIN pays : pays'[j].status # "CREATED"
    BY <2>1, <2>2
  <2>4. QED
    BY <2>1, <2>3 DEF OneOpenCheckout
<1>3. ASSUME NEW c \in Calls, AttachOrder(c) \/ OrderFails(c) PROVE OneOpenCheckout'
  <2>1. call[c].row \in DOMAIN pays
    BY <1>3 DEF IInv, TypeOK, AttachOrder, OrderFails
  <2>2. CASE pays' = [pays EXCEPT ![call[c].row].order = TRUE]
    BY <1>1, <1>a, <2>1, <2>2, ColumnUpdated, OtherColumnsKept
  <2>3. CASE pays' = [pays EXCEPT ![call[c].row].status = "FAILED"]
    BY <1>1, <1>a, <2>1, <2>3, ColumnUpdated, OtherColumnsKept DEF PaymentStatus
  <2>4. QED
    BY <1>3, <2>2, <2>3 DEF AttachOrder, OrderFails
<1>4. ASSUME NEW i \in DOMAIN pays, Age(i) \/ Capture(i) PROVE OneOpenCheckout'
  <2>1. CASE pays' = [pays EXCEPT ![i].fresh = FALSE]
    BY <1>1, <1>a, <2>1, ColumnUpdated, OtherColumnsKept
  <2>2. CASE pays' = [pays EXCEPT ![i].status = "CAPTURED"]
    BY <1>1, <1>a, <2>2, ColumnUpdated, OtherColumnsKept DEF PaymentStatus
  <2>3. QED
    BY <1>4, <2>1, <2>2 DEF Age, Capture
<1>5. ASSUME UNCHANGED pays PROVE OneOpenCheckout'
  BY <1>1, <1>5
<1>6. ASSUME NEW o \in Openers, OpenerNext(o) PROVE OneOpenCheckout'
  BY <1>5, <1>6
  DEF OpenerNext, OpenRead, OpenCreate, OpenCount, Reopen, Release, OpenerStops
<1>7. ASSUME NEW c \in Calls, CallNext(c) PROVE OneOpenCheckout'
  BY <1>2, <1>3, <1>5, <1>7 DEF CallNext, ReadForPayment, CallStops
<1>8. ASSUME NEW i \in DOMAIN pays, RowNext(i) PROVE OneOpenCheckout'
  BY <1>4, <1>5, <1>8 DEF RowNext, PayOrder
<1>9. CASE AuthorNext
  BY <1>5, <1>9 DEF AuthorNext, SaveDetails, FillMissingDetails, UploadProof, UploadCameraReady
<1>10. CASE OrganizerNext
  <2>1. ASSUME NEW d \in 0..MaxTime, ExtendDeadline(d) PROVE UNCHANGED pays
    BY <2>1 DEF ExtendDeadline
  <2>2. CASE ScanProof \/ ApproveProof \/ ClarifyProof \/ RejectProof
    BY <1>5, <2>2 DEF ScanProof, ApproveProof, ClarifyProof, RejectProof
  <2>3. CASE WithdrawRead \/ WithdrawCommit \/ WithdrawRollback \/ ScanCameraReady \/ Tick
    BY <1>5, <2>3 DEF WithdrawRead, WithdrawCommit, WithdrawRollback, ScanCameraReady, Tick
  <2>4. QED
    BY <1>5, <1>10, <2>1, <2>2, <2>3 DEF OrganizerNext
<1>11. QED
  BY <1>6, <1>7, <1>8, <1>9, <1>10 DEF CheckoutNext

-----------------------------------------------------------------------------
(* Theorems.                                                               *)

\* The invariant holds before anything has happened.
LEMMA InvInit == Init => IInv
<1> SUFFICES ASSUME Init PROVE IInv
  OBVIOUS
<1>1. TypeOK
  BY TypeInit
<1>2. /\ reg.status = "ABSENT" /\ ~reg.locked /\ pays = <<>> /\ current = {}
      /\ \A o \in Openers : opener[o].pc = "idle"
  BY DEF Init, IdleOpener
<1>3. DOMAIN pays = {}
  BY <1>2
<1>4. QED
  BY <1>1, <1>2, <1>3
  DEF IInv, PriceFollowsStatus, CurrentReads, QuoteHonoured, StudentsVerified, OneOpenCheckout

\* Every step preserves the invariant.
LEMMA InvStep == IInv /\ [CheckoutNext]_checkoutVars => IInv'
<1> SUFFICES ASSUME IInv, [CheckoutNext]_checkoutVars PROVE IInv'
  OBVIOUS
<1>1. CASE CheckoutNext
  <2>1. TypeOK'
    BY <1>1, TypeStep DEF IInv
  <2>2. QED
    BY <1>1, <2>1, PriceStep, ReadsStep, StudentStep, OpenRowStep DEF IInv
<1>2. CASE UNCHANGED checkoutVars
  <2>1. TypeOK'
    BY <1>2, TypeStep DEF IInv
  <2>2. UNCHANGED <<reg, pays, ver, call, opener, current>>
    BY <1>2 DEF checkoutVars
  <2>3. QED
    BY <2>1, <2>2
    DEF IInv, PriceFollowsStatus, CurrentReads, QuoteHonoured, StudentsVerified, OneOpenCheckout, Fee
<1>3. QED
  BY <1>1, <1>2

\* In every reachable state of openRegistration, initiatePayment, processCapture,
\* review and withdraw the invariant holds: price, status and lock agree, and what
\* was read before a lock is still true wherever the version check would pass.
THEOREM Invariance == CheckoutSpec => []IInv
  BY InvInit, InvStep, PTL DEF CheckoutSpec

\* The amount of every order initiatePayment creates is the fee of the category
\* the registration has from then on, although it was quoted before the row lock.
THEOREM QuoteIsHonoured == CheckoutSpec => []QuoteHonoured
<1>1. IInv => QuoteHonoured
  BY DEF IInv
<1>2. QED
  BY <1>1, Invariance, PTL

\* A student is admitted for the student fee only with an approved proof, in
\* whatever order captures, uploads and verdicts (review) are committed.
THEOREM StudentsAreVerified == CheckoutSpec => []StudentsVerified
<1>1. IInv => StudentsVerified
  BY DEF IInv
<1>2. QED
  BY <1>1, Invariance, PTL

\* However many requests run initiatePayment, at most one reservation is open.
THEOREM CheckoutIsShared == CheckoutSpec => []OneOpenCheckout
<1>1. IInv => OneOpenCheckout
  BY DEF IInv
<1>2. QED
  BY <1>1, Invariance, PTL

\* A registration for which money was taken or a price was locked is closed for
\* good: no step but Reopen leaves a closed status, and Reopen's version was read
\* together with an unlocked price.
THEOREM OnlyUntouchedReopens == CheckoutSpec => ReopenOnlyUntouched
<1> DEFINE A == reg.status \in Terminal /\ reg'.status \notin Terminal =>
                  /\ reg.status = "CANCELLED" /\ ~reg.locked
                  /\ \A i \in DOMAIN pays : pays[i].status \notin SettledStatus
<1>1. ASSUME IInv, CheckoutNext PROVE A
  <2>a. reg \in Registration /\ PriceFollowsStatus /\ CurrentReads
    BY <1>1 DEF IInv, TypeOK
  <2>1. ASSUME reg'.status = reg.status PROVE A
    BY <2>1
  <2>2. ASSUME UNCHANGED reg PROVE A
    BY <2>2
  <2>3. ASSUME reg.status \notin Terminal PROVE A
    BY <2>3
  <2>4. ASSUME reg'.status \in Terminal PROVE A
    BY <2>4
  <2>5. ASSUME NEW o \in Openers, OpenerNext(o) PROVE A
    <3>1. CASE OpenCreate(o)
      BY <2>2, <2>3, <3>1 DEF OpenCreate, Terminal
    <3>2. CASE Reopen(o) /\ ReopenMatches(o)
      <4>1. reg.status = "CANCELLED" /\ ~reg.locked
        BY <2>a, <3>2 DEF Reopen, ReopenMatches, CurrentReads
      <4>2. QED
        BY <2>a, <4>1 DEF PriceFollowsStatus
    <3>3. CASE Reopen(o) /\ ~ReopenMatches(o)
      BY <2>2, <3>3 DEF Reopen
    <3>4. CASE OpenRead(o) \/ OpenCount(o) \/ Release(o) \/ OpenerStops(o)
      BY <2>2, <3>4 DEF OpenRead, OpenCount, Release, OpenerStops
    <3>5. QED
      BY <2>5, <3>1, <3>2, <3>3, <3>4 DEF OpenerNext
  <2>6. ASSUME NEW c \in Calls, CallNext(c) PROVE A
    <3>1. CASE Reserve(c)
      BY <1>1, <2>1, <3>1, ReservedPrice
    <3>2. QED
      BY <2>2, <2>6, <3>1 DEF CallNext, ReadForPayment, AttachOrder, OrderFails, CallStops
  <2>7. ASSUME NEW i \in DOMAIN pays, RowNext(i) PROVE A
    <3>1. CASE Capture(i)
      <4>1. PICK s \in RegistrationStatus :
              /\ reg' = [reg EXCEPT !.status = s]
              /\ reg.status \in Terminal => s \in Terminal
        BY <1>1, <3>1, CapturedRegistration
      <4>2. reg'.status = s
        BY <2>a, <4>1 DEF Registration
      <4>3. QED
        BY <2>3, <2>4, <4>1, <4>2
    <3>2. QED
      BY <2>2, <2>7, <3>1 DEF RowNext, Age, PayOrder
  <2>8. CASE AuthorNext
    <3>1. ASSUME NEW a \in Audience, SaveDetails(a) PROVE A
      BY <2>3, <3>1 DEF SaveDetails, Terminal
    <3>2. QED
      BY <2>2, <2>8, <3>1 DEF AuthorNext, FillMissingDetails, UploadProof, UploadCameraReady
  <2>9. CASE OrganizerNext
    <3>1. CASE ApproveProof \/ RejectProof
      BY <2>3, <3>1 DEF ApproveProof, RejectProof, Reviewable
    <3>2. ASSUME NEW d \in 0..MaxTime, ExtendDeadline(d) PROVE A
      <4>1. reg'.status = reg.status
        BY <2>a, <3>2 DEF ExtendDeadline, Registration
      <4>2. QED
        BY <2>1, <4>1
    <3>3. CASE WithdrawCommit
      <4>1. UNCHANGED reg \/ reg'.status = "CANCELLED"
        BY <2>a, <3>3 DEF WithdrawCommit, Registration
      <4>2. QED
        BY <2>2, <2>4, <4>1 DEF Terminal
    <3>4. CASE ScanProof \/ ClarifyProof \/ WithdrawRead \/ WithdrawRollback \/ ScanCameraReady \/ Tick
      BY <2>2, <3>4 DEF ScanProof, ClarifyProof, WithdrawRead, WithdrawRollback, ScanCameraReady, Tick
    <3>5. QED
      BY <2>9, <3>1, <3>2, <3>3, <3>4 DEF OrganizerNext
  <2>10. QED
    BY <1>1, <2>5, <2>6, <2>7, <2>8, <2>9 DEF CheckoutNext
<1>2. IInv /\ [CheckoutNext]_checkoutVars => [A]_checkoutVars
  BY <1>1
<1>3. QED
  BY <1>2, Invariance, PTL DEF CheckoutSpec, ReopenOnlyUntouched

-----------------------------------------------------------------------------
(* A checkout implements the ledger.                                       *)

\* A row is charged only after its order was handed out, and while the request
\* that reserved it still waits for the gateway no order has been handed out.
OrdersFollowCalls ==
  /\ DOMAIN pays \subseteq 1..MaxRows
  /\ \A c \in Calls : call[c].pc = "reserved" => ~pays[call[c].row].order
  /\ \A c, d \in Calls :
       call[c].pc = "reserved" /\ call[d].pc = "reserved" /\ call[c].row = call[d].row => c = d
  /\ \A i \in paid : pays[i].order
  /\ CapturedRows(pays) \subseteq paid

\* The requests and the orders keep in step.
LEMMA OrdersStep == TypeOK /\ OrdersFollowCalls /\ [CheckoutNext]_checkoutVars => OrdersFollowCalls'
<1> SUFFICES ASSUME TypeOK, OrdersFollowCalls, [CheckoutNext]_checkoutVars PROVE OrdersFollowCalls'
  OBVIOUS
<1>a. /\ pays \in Seq(PaymentRow) /\ call \in [Calls -> CallPhase]
      /\ \A c \in Calls : call[c].pc = "reserved" => call[c].row \in DOMAIN pays
      /\ paid \subseteq DOMAIN pays
  BY DEF TypeOK
<1>1. ASSUME UNCHANGED <<pays, call, paid>> PROVE OrdersFollowCalls'
  BY <1>1 DEF OrdersFollowCalls, CapturedRows
<1>2. ASSUME NEW c \in Calls, NEW u \in Users, ReadForPayment(c, u) PROVE OrdersFollowCalls'
  <2>1. /\ call'[c].pc = "read" /\ \A d \in Calls \ {c} : call'[d] = call[d]
        /\ UNCHANGED <<pays, paid>>
    BY <1>2, <1>a DEF ReadForPayment
  <2>2. QED
    BY <1>a, <2>1 DEF OrdersFollowCalls, CapturedRows
<1>3. ASSUME NEW c \in Calls, CallStops(c) PROVE OrdersFollowCalls'
  <2>1. /\ call'[c].pc = "idle" /\ \A d \in Calls \ {c} : call'[d] = call[d]
        /\ UNCHANGED <<pays, paid>>
    BY <1>3, <1>a DEF CallStops, IdleCall
  <2>2. QED
    BY <1>a, <2>1 DEF OrdersFollowCalls, CapturedRows
<1>4. ASSUME NEW c \in Calls, Reserve(c) PROVE OrdersFollowCalls'
  <2> DEFINE n == Len(pays) + 1
  <2>1. /\ call'[c].pc = "reserved" /\ call'[c].row = n
        /\ \A d \in Calls \ {c} : call'[d] = call[d]
        /\ UNCHANGED paid /\ Len(pays) < MaxRows
    BY <1>4, <1>a DEF Reserve, IdleCall
  <2>2. /\ n \notin DOMAIN pays /\ DOMAIN pays' = DOMAIN pays \cup {n}
        /\ \A j \in DOMAIN pays : /\ pays'[j].kind = pays[j].kind
                                  /\ pays'[j].order = pays[j].order
                                  /\ pays'[j].status \in {"FAILED", pays[j].status}
    BY <1>4, ReservedRows
  <2>3. ~pays'[n].order /\ pays'[n].status = "CREATED"
    <3>1. pays'[n] = NewRow(ReserveKind, ReserveAmount(c), 0)
      BY <1>4, ReservedRows
    <3>2. QED
      BY <3>1 DEF NewRow
  <2>4. n \in 1..MaxRows
    BY <1>a, <2>1, RowsAreBounded
  <2> HIDE DEF n
  <2>5. DOMAIN pays' \subseteq 1..MaxRows
    BY <2>2, <2>4 DEF OrdersFollowCalls
  <2>6. CapturedRows(pays)' \subseteq paid'
    BY <2>1, <2>2, <2>3 DEF CapturedRows, OrdersFollowCalls
  <2>7. QED
    BY <1>a, <2>1, <2>2, <2>3, <2>5, <2>6 DEF OrdersFollowCalls
<1>5. ASSUME NEW c \in Calls, AttachOrder(c) PROVE OrdersFollowCalls'
  <2> DEFINE k == call[c].row
  <2>1. /\ call[c].pc = "reserved" /\ k \in DOMAIN pays /\ call'[c].pc = "idle"
        /\ \A d \in Calls \ {c} : call'[d] = call[d]
        /\ UNCHANGED paid
        /\ pays' = [pays EXCEPT ![k].order = TRUE]
    BY <1>5, <1>a DEF AttachOrder, IdleCall
  <2> HIDE DEF k
  <2>2. /\ DOMAIN pays' = DOMAIN pays
        /\ \A j \in DOMAIN pays : /\ pays'[j].kind = pays[j].kind
                                  /\ pays'[j].status = pays[j].status
                                  /\ pays'[j].order = IF j = k THEN TRUE ELSE pays[j].order
    BY <1>a, <2>1, ColumnUpdated, OtherColumnsKept
  <2>3. CapturedRows(pays)' \subseteq paid'
    BY <2>1, <2>2 DEF CapturedRows, OrdersFollowCalls
  <2>4. \A d \in Calls : call'[d].pc = "reserved" =>
          call'[d] = call[d] /\ call[d].row # k /\ call[d].row \in DOMAIN pays
    BY <1>a, <2>1 DEF OrdersFollowCalls, k
  <2>5. \A d \in Calls : call'[d].pc = "reserved" => ~pays'[call'[d].row].order
    <3>1. SUFFICES ASSUME NEW d \in Calls, call'[d].pc = "reserved"
                   PROVE  ~pays'[call'[d].row].order
      OBVIOUS
    <3>2. /\ call'[d] = call[d] /\ call[d].row \in DOMAIN pays \ {k}
          /\ call[d].pc = "reserved"
      BY <2>4, <3>1
    <3>3. pays'[call[d].row].order = pays[call[d].row].order
      BY <2>2, <3>2
    <3>4. ~pays[call[d].row].order
      BY <3>2 DEF OrdersFollowCalls
    <3>5. QED
      BY <3>2, <3>3, <3>4
  <2>6. \A i \in paid' : pays'[i].order
    BY <1>a, <2>1, <2>2 DEF OrdersFollowCalls
  <2>7. QED
    BY <2>2, <2>3, <2>4, <2>5, <2>6 DEF OrdersFollowCalls
<1>6. ASSUME NEW c \in Calls, OrderFails(c) PROVE OrdersFollowCalls'
  <2>1. /\ call[c].row \in DOMAIN pays /\ call'[c].pc = "idle"
        /\ \A d \in Calls \ {c} : call'[d] = call[d]
        /\ UNCHANGED paid
        /\ pays' = [pays EXCEPT ![call[c].row].status = "FAILED"]
    BY <1>6, <1>a DEF OrderFails, IdleCall
  <2>2. /\ DOMAIN pays' = DOMAIN pays
        /\ \A j \in DOMAIN pays : /\ pays'[j].kind = pays[j].kind
                                  /\ pays'[j].order = pays[j].order
                                  /\ pays'[j].status \in {"FAILED", pays[j].status}
    BY <1>a, <2>1, ColumnUpdated, OtherColumnsKept DEF PaymentStatus
  <2>3. CapturedRows(pays)' \subseteq paid'
    BY <2>1, <2>2 DEF CapturedRows, OrdersFollowCalls
  <2>4. \A d \in Calls : call'[d].pc = "reserved" =>
          call'[d] = call[d] /\ call[d].row \in DOMAIN pays
    BY <1>a, <2>1
  <2>5. \A d \in Calls : call'[d].pc = "reserved" => ~pays'[call'[d].row].order
    BY <2>2, <2>4 DEF OrdersFollowCalls
  <2>6. \A i \in paid' : pays'[i].order
    BY <1>a, <2>1, <2>2 DEF OrdersFollowCalls
  <2>7. QED
    BY <2>2, <2>3, <2>4, <2>5, <2>6 DEF OrdersFollowCalls
<1>7. ASSUME NEW i \in DOMAIN pays, Age(i) PROVE OrdersFollowCalls'
  <2>1. UNCHANGED <<call, paid>> /\ pays' = [pays EXCEPT ![i].fresh = FALSE]
    BY <1>7 DEF Age
  <2>2. /\ DOMAIN pays' = DOMAIN pays
        /\ \A j \in DOMAIN pays : /\ pays'[j].kind = pays[j].kind
                                  /\ pays'[j].order = pays[j].order
                                  /\ pays'[j].status = pays[j].status
    BY <1>a, <2>1, ColumnUpdated, OtherColumnsKept
  <2>3. QED
    BY <1>a, <2>1, <2>2 DEF OrdersFollowCalls, CapturedRows
<1>8. ASSUME NEW i \in DOMAIN pays, PayOrder(i) PROVE OrdersFollowCalls'
  BY <1>8 DEF PayOrder, OrdersFollowCalls, CapturedRows
<1>9. ASSUME NEW i \in DOMAIN pays, Capture(i) PROVE OrdersFollowCalls'
  <2>1. UNCHANGED <<call, paid>> /\ pays' = [pays EXCEPT ![i].status = "CAPTURED"] /\ i \in paid
    BY <1>9 DEF Capture, Capturable
  <2>2. /\ DOMAIN pays' = DOMAIN pays
        /\ \A j \in DOMAIN pays : /\ pays'[j].kind = pays[j].kind
                                  /\ pays'[j].order = pays[j].order
                                  /\ j # i => pays'[j].status = pays[j].status
    BY <1>a, <2>1, ColumnUpdated, OtherColumnsKept DEF PaymentStatus
  <2>3. CapturedRows(pays)' \subseteq paid'
    BY <2>1, <2>2 DEF CapturedRows, OrdersFollowCalls
  <2>4. QED
    BY <1>a, <2>1, <2>2, <2>3 DEF OrdersFollowCalls
<1>10. CASE UNCHANGED checkoutVars
  BY <1>1, <1>10 DEF checkoutVars
<1>11. ASSUME NEW o \in Openers, OpenerNext(o) PROVE OrdersFollowCalls'
  BY <1>1, <1>11
  DEF OpenerNext, OpenRead, OpenCreate, OpenCount, Reopen, Release, OpenerStops
<1>12. CASE AuthorNext
  BY <1>1, <1>12 DEF AuthorNext, SaveDetails, FillMissingDetails, UploadProof, UploadCameraReady
<1>13. CASE OrganizerNext
  <2>1. ASSUME NEW d \in 0..MaxTime, ExtendDeadline(d) PROVE UNCHANGED <<pays, call, paid>>
    BY <2>1 DEF ExtendDeadline
  <2>2. CASE ScanProof \/ ApproveProof \/ ClarifyProof \/ RejectProof
    BY <1>1, <2>2 DEF ScanProof, ApproveProof, ClarifyProof, RejectProof
  <2>3. CASE WithdrawRead \/ WithdrawCommit \/ WithdrawRollback \/ ScanCameraReady \/ Tick
    BY <1>1, <2>3 DEF WithdrawRead, WithdrawCommit, WithdrawRollback, ScanCameraReady, Tick
  <2>4. QED
    BY <1>1, <1>13, <2>1, <2>2, <2>3 DEF OrganizerNext
<1>14. QED
  BY <1>2, <1>3, <1>4, <1>5, <1>6, <1>7, <1>8, <1>9, <1>10, <1>11, <1>12, <1>13
  DEF CheckoutNext, CallNext, RowNext

\* Every step of a checkout is a step of the ledger or none: paying an order is a
\* charge that happens, a capture books it, and nothing else touches either side.
LEMMA LedgerStep ==
  TypeOK /\ OrdersFollowCalls /\ [CheckoutNext]_checkoutVars
    => [Charges!LedgerNext]_(Charges!ledgerVars)
<1> SUFFICES ASSUME TypeOK, OrdersFollowCalls, [CheckoutNext]_checkoutVars
             PROVE  [Charges!LedgerNext]_(Charges!ledgerVars)
  OBVIOUS
<1> DEFINE B == CapturedRows(pays)
<1>a. /\ pays \in Seq(PaymentRow) /\ paid \subseteq DOMAIN pays
      /\ \A c \in Calls : call[c].pc = "reserved" => call[c].row \in DOMAIN pays
  BY DEF TypeOK
<1>1. ASSUME UNCHANGED paid, B' = B PROVE [Charges!LedgerNext]_(Charges!ledgerVars)
  BY <1>1 DEF Charges!ledgerVars
<1>2. ASSUME UNCHANGED <<pays, paid>> PROVE [Charges!LedgerNext]_(Charges!ledgerVars)
  BY <1>1, <1>2 DEF CapturedRows
<1>3. ASSUME UNCHANGED paid, DOMAIN pays \subseteq DOMAIN pays',
             \A j \in DOMAIN pays : /\ pays'[j].kind = pays[j].kind
                                    /\ pays[j].status = "CAPTURED" => pays'[j].status = "CAPTURED"
                                    /\ pays'[j].status = "CAPTURED" => pays[j].status = "CAPTURED",
             \A j \in DOMAIN pays' \ DOMAIN pays : pays'[j].status # "CAPTURED"
      PROVE  [Charges!LedgerNext]_(Charges!ledgerVars)
  <2>1. B \subseteq B'
    BY <1>3 DEF CapturedRows
  <2>2. B' \subseteq B
    BY <1>3 DEF CapturedRows
  <2>3. QED
    BY <1>1, <1>3, <2>1, <2>2
<1>4. ASSUME NEW c \in Calls, Reserve(c) PROVE [Charges!LedgerNext]_(Charges!ledgerVars)
  <2> DEFINE n == Len(pays) + 1
  <2>1. /\ DOMAIN pays' = DOMAIN pays \cup {n}
        /\ \A j \in DOMAIN pays :
             /\ pays'[j].kind = pays[j].kind
             /\ pays'[j].status = IF j \in NewestCreated(pays) THEN "FAILED" ELSE pays[j].status
        /\ pays'[n] = NewRow(ReserveKind, ReserveAmount(c), 0)
    BY <1>4, ReservedRows
  <2>2. pays'[n].status = "CREATED"
    BY <2>1 DEF NewRow
  <2>3. \A j \in DOMAIN pays : pays'[j].status = "CAPTURED" <=> pays[j].status = "CAPTURED"
    BY <2>1 DEF NewestCreated
  <2>4. UNCHANGED paid
    BY <1>4 DEF Reserve
  <2> HIDE DEF n
  <2>5. QED
    BY <1>3, <2>1, <2>2, <2>3, <2>4
<1>5. ASSUME NEW c \in Calls, AttachOrder(c) PROVE [Charges!LedgerNext]_(Charges!ledgerVars)
  <2>1. /\ call[c].row \in DOMAIN pays /\ UNCHANGED paid
        /\ pays' = [pays EXCEPT ![call[c].row].order = TRUE]
    BY <1>5, <1>a DEF AttachOrder
  <2>2. QED
    BY <1>3, <1>a, <2>1, ColumnUpdated, OtherColumnsKept
<1>6. ASSUME NEW c \in Calls, OrderFails(c) PROVE [Charges!LedgerNext]_(Charges!ledgerVars)
  <2> DEFINE k == call[c].row
  <2>1. /\ call[c].pc = "reserved" /\ k \in DOMAIN pays /\ UNCHANGED paid
        /\ pays' = [pays EXCEPT ![k].status = "FAILED"]
    BY <1>6, <1>a DEF OrderFails
  <2>2. k \notin CapturedRows(pays)
    BY <2>1 DEF OrdersFollowCalls
  <2> HIDE DEF k
  <2>3. /\ DOMAIN pays' = DOMAIN pays
        /\ \A j \in DOMAIN pays : /\ pays'[j].kind = pays[j].kind
                                  /\ pays'[j].status = IF j = k THEN "FAILED" ELSE pays[j].status
    BY <1>a, <2>1, ColumnUpdated, OtherColumnsKept DEF PaymentStatus
  <2>4. B' = B
    BY <2>2, <2>3 DEF CapturedRows
  <2>5. QED
    BY <1>1, <2>1, <2>4
<1>7. ASSUME NEW i \in DOMAIN pays, Age(i) PROVE [Charges!LedgerNext]_(Charges!ledgerVars)
  <2>1. UNCHANGED paid /\ pays' = [pays EXCEPT ![i].fresh = FALSE]
    BY <1>7 DEF Age
  <2>2. QED
    BY <1>3, <1>a, <2>1, ColumnUpdated, OtherColumnsKept
<1>8. ASSUME NEW i \in DOMAIN pays, PayOrder(i) PROVE [Charges!LedgerNext]_(Charges!ledgerVars)
  <2>1. /\ i \in 1..MaxRows /\ i \notin paid /\ paid' = paid \cup {i} /\ UNCHANGED pays
    BY <1>8 DEF PayOrder, OrdersFollowCalls
  <2>2. B' = B
    BY <2>1 DEF CapturedRows
  <2>3. Charges!Happen(i)
    BY <2>1, <2>2 DEF Charges!Happen
  <2>4. QED
    BY <2>1, <2>3 DEF Charges!LedgerNext
<1>9. ASSUME NEW i \in DOMAIN pays, Capture(i) PROVE [Charges!LedgerNext]_(Charges!ledgerVars)
  <2>1. /\ UNCHANGED paid /\ pays' = [pays EXCEPT ![i].status = "CAPTURED"]
        /\ i \in paid /\ pays[i].status # "CAPTURED"
    BY <1>9 DEF Capture, Capturable, SettledStatus
  <2>2. /\ DOMAIN pays' = DOMAIN pays
        /\ \A j \in DOMAIN pays :
             /\ pays'[j].kind = pays[j].kind
             /\ pays'[j].status = IF j = i THEN "CAPTURED" ELSE pays[j].status
    BY <1>a, <2>1, ColumnUpdated, OtherColumnsKept DEF PaymentStatus
  <2>3. i \in paid \ B /\ i \in 1..MaxRows
    BY <2>1 DEF CapturedRows, OrdersFollowCalls
  <2>4. CASE pays[i].kind = "REFUND"
    <3>1. B' = B
      BY <2>1, <2>2, <2>4 DEF CapturedRows
    <3>2. QED
      BY <1>1, <2>1, <3>1
  <2>5. CASE pays[i].kind # "REFUND"
    <3>1. B' = B \cup {i}
      BY <2>1, <2>2, <2>5 DEF CapturedRows
    <3>2. Charges!Book(i)
      BY <2>1, <2>3, <3>1 DEF Charges!Book
    <3>3. QED
      BY <2>3, <3>2 DEF Charges!LedgerNext
  <2>6. QED
    BY <2>4, <2>5
<1>10. CASE UNCHANGED checkoutVars
  BY <1>2, <1>10 DEF checkoutVars
<1>11. ASSUME NEW o \in Openers, OpenerNext(o) PROVE [Charges!LedgerNext]_(Charges!ledgerVars)
  BY <1>2, <1>11
  DEF OpenerNext, OpenRead, OpenCreate, OpenCount, Reopen, Release, OpenerStops
<1>12. CASE AuthorNext
  BY <1>2, <1>12 DEF AuthorNext, SaveDetails, FillMissingDetails, UploadProof, UploadCameraReady
<1>13. CASE OrganizerNext
  <2>1. ASSUME NEW d \in 0..MaxTime, ExtendDeadline(d) PROVE UNCHANGED <<pays, paid>>
    BY <2>1 DEF ExtendDeadline
  <2>2. CASE ScanProof \/ ApproveProof \/ ClarifyProof \/ RejectProof
    BY <1>2, <2>2 DEF ScanProof, ApproveProof, ClarifyProof, RejectProof
  <2>3. CASE WithdrawRead \/ WithdrawCommit \/ WithdrawRollback \/ ScanCameraReady \/ Tick
    BY <1>2, <2>3 DEF WithdrawRead, WithdrawCommit, WithdrawRollback, ScanCameraReady, Tick
  <2>4. QED
    BY <1>2, <1>13, <2>1, <2>2, <2>3 DEF OrganizerNext
<1>14. ASSUME NEW c \in Calls, CallNext(c) PROVE [Charges!LedgerNext]_(Charges!ledgerVars)
  BY <1>2, <1>4, <1>5, <1>6, <1>14 DEF CallNext, ReadForPayment, CallStops
<1>15. ASSUME NEW i \in DOMAIN pays, RowNext(i) PROVE [Charges!LedgerNext]_(Charges!ledgerVars)
  BY <1>7, <1>8, <1>9, <1>15 DEF RowNext
<1>16. QED
  BY <1>10, <1>11, <1>12, <1>13, <1>14, <1>15 DEF CheckoutNext

\* Whoever calls processCapture and however often, a charge is booked at most once,
\* only after the payer was charged, and for good: Checkout implements Ledger.
THEOREM ChargesAreBookedOnce == CheckoutSpec => BooksEachChargeOnce
<1>1. Init => OrdersFollowCalls
  BY DEF Init, IdleCall, OrdersFollowCalls, CapturedRows
<1>2. Init => Charges!LedgerInit
  BY DEF Init, Charges!LedgerInit, CapturedRows
<1>3. QED
  BY <1>1, <1>2, TypeCorrect, OrdersStep, LedgerStep, PTL
  DEF CheckoutSpec, BooksEachChargeOnce, Charges!LedgerSpec

-----------------------------------------------------------------------------
(* The status agrees with the balance.                                     *)

\* What PaidIsSettled and SettledIsRecognised say of a registration and a balance.
Recognises(r, net) ==
  /\ r.status \in {"PAID", "AWAITING_VERIFICATION"} => IsSettled(r.due, net)
  /\ r.status \in Payable /\ r.locked => net < r.due

\* The two invariants are this relation between the registration and its payments.
LEMMA RecognisesNow ==
  /\ (PaidIsSettled /\ SettledIsRecognised) <=> Recognises(reg, Net(pays))
  /\ (PaidIsSettled /\ SettledIsRecognised)' <=> Recognises(reg', Net(pays'))
  BY DEF PaidIsSettled, SettledIsRecognised, Recognises

\* The status that a capture derives agrees with the larger balance.
LEMMA CaptureRecognises ==
  ASSUME NEW r \in Registration, r.locked, r.due > 0, NEW rows, NEW before \in Int,
         Net(rows) \in Int, before <= Net(rows), Recognises(r, before)
  PROVE  Recognises([r EXCEPT !.status = StatusOnCapture(r, rows)], Net(rows))
<1> DEFINE s == StatusOnCapture(r, rows)
           new == [r EXCEPT !.status = s]
<1>1. /\ r.due \in Nat /\ r.status \in RegistrationStatus
      /\ new.status = s /\ new.due = r.due /\ new.locked = r.locked
  BY DEF Registration
<1> HIDE DEF new
<1>2. CASE ~Eligible \/ r.status \in Terminal
  <2>1. s \in Terminal
    BY <1>2 DEF StatusOnCapture, StatusAfterCapture, Terminal
  <2>2. QED
    BY <1>1, <2>1 DEF Recognises, Terminal, Payable
<1>3. CASE Eligible /\ r.status \notin Terminal /\ Net(rows) < r.due
  <2>1. r.status # "AWAITING_VERIFICATION"
    BY <1>1, <1>3 DEF Recognises, IsSettled
  <2>2. s = r.status
    BY <1>3, <2>1 DEF StatusOnCapture, StatusAfterCapture
  <2>3. QED
    BY <1>1, <1>3, <2>1, <2>2 DEF Recognises, IsSettled
<1>4. CASE Eligible /\ r.status \notin Terminal /\ ~(Net(rows) < r.due)
  <2>1. s \in {"PAID", "AWAITING_VERIFICATION"}
    BY <1>4 DEF StatusOnCapture, StatusAfterCapture
  <2>2. IsSettled(r.due, Net(rows))
    BY <1>1, <1>4 DEF IsSettled
  <2>3. QED
    BY <1>1, <2>1, <2>2 DEF Recognises, Payable
<1>5. QED
  BY <1>2, <1>3, <1>4 DEF new

\* An approved proof makes a settled registration a paid one.
LEMMA ApprovalRecognises ==
  ASSUME NEW r \in Registration, NEW net, Recognises(r, net)
  PROVE  Recognises([r EXCEPT !.status = IF IsSettled(r.due, net) THEN "PAID" ELSE @], net)
  BY DEF Recognises, Registration, Payable

\* A rejected proof asks for the regular fee, or finds it paid.
LEMMA RejectionRecognises ==
  ASSUME TypeOK, Recognises(reg, Net(pays)), Net(pays) \in Int
  PROVE  Recognises(Demoted, Net(pays))
<1>1. reg \in Registration /\ reg.locked \in BOOLEAN /\ RegularFee \in Nat \ {0}
  BY FeesArePayable DEF TypeOK, Registration
<1>2. CASE ~reg.locked
  BY <1>1, <1>2 DEF Demoted, Recognises, Registration
<1>3. CASE reg.locked
  <2>1. /\ Demoted.due = RegularFee
        /\ Demoted.status = IF Net(pays) >= RegularFee THEN "PAID"
                            ELSE "ADDITIONAL_PAYMENT_REQUIRED"
    BY <1>1, <1>3 DEF Demoted, Registration
  <2>2. QED
    BY <1>1, <2>1 DEF Recognises, IsSettled, Payable
<1>4. QED
  BY <1>2, <1>3


\* A checkout has no refunds yet, and its status agrees with its balance.
BalanceAgrees ==
  /\ \A i \in DOMAIN pays : pays[i].kind # "REFUND"
  /\ PaidIsSettled
  /\ SettledIsRecognised

\* A reservation leaves every row that counts, and adds one that does not.
LEMMA ReservationKeepsNet ==
  ASSUME TypeOK, NEW c \in Calls, Reserve(c)
  PROVE  /\ CapturedRows(pays') = CapturedRows(pays)
         /\ RefundedRows(pays') = RefundedRows(pays)
         /\ Net(pays') = Net(pays)
<1> DEFINE n == Len(pays) + 1
<1>1. /\ n \notin DOMAIN pays /\ DOMAIN pays' = DOMAIN pays \cup {n}
      /\ \A j \in DOMAIN pays :
           /\ pays'[j].kind = pays[j].kind
           /\ pays'[j].amount = pays[j].amount
           /\ pays'[j].status = IF j \in NewestCreated(pays) THEN "FAILED" ELSE pays[j].status
      /\ pays'[n].status = "CREATED"
  <2>1. /\ n \notin DOMAIN pays /\ DOMAIN pays' = DOMAIN pays \cup {n}
        /\ \A j \in DOMAIN pays :
             /\ pays'[j].kind = pays[j].kind
             /\ pays'[j].amount = pays[j].amount
             /\ pays'[j].status = IF j \in NewestCreated(pays) THEN "FAILED" ELSE pays[j].status
        /\ pays'[n] = NewRow(ReserveKind, ReserveAmount(c), 0)
    BY ReservedRows
  <2>2. pays'[n].status = "CREATED"
    BY <2>1 DEF NewRow
  <2> HIDE DEF n
  <2>3. QED
    BY <2>1, <2>2
<1>2. \A j \in DOMAIN pays : j \in NewestCreated(pays) => pays[j].status = "CREATED"
  BY DEF NewestCreated
<1> HIDE DEF n
<1>3. CapturedRows(pays') = CapturedRows(pays)
  BY <1>1, <1>2 DEF CapturedRows
<1>4. RefundedRows(pays') = RefundedRows(pays)
  BY <1>1, <1>2 DEF RefundedRows
<1>5. pays \in Seq(PaymentRow)
  BY DEF TypeOK
<1>6. \A i \in CapturedRows(pays) \cup RefundedRows(pays) : pays'[i].amount = pays[i].amount
  BY <1>1, <1>5, CountedRows
<1>7. QED
  BY <1>3, <1>4, <1>5, <1>6, NetKept

\* An update by id of a column that no total looks at, or of the status of a row
\* that does not count before or after it, keeps the balance.
LEMMA UpdateKeepsNet ==
  ASSUME NEW rows \in Seq(PaymentRow), NEW k \in DOMAIN rows, NEW new,
         DOMAIN new = DOMAIN rows,
         \A j \in DOMAIN rows : new[j].kind = rows[j].kind /\ new[j].amount = rows[j].amount,
         \A j \in DOMAIN rows \ {k} : new[j].status = rows[j].status,
         \/ new[k].status = rows[k].status
         \/ rows[k].status \notin SettledStatus /\ new[k].status \notin SettledStatus
  PROVE  /\ CapturedRows(new) = CapturedRows(rows)
         /\ RefundedRows(new) = RefundedRows(rows)
         /\ Net(new) = Net(rows)
<1>1. CapturedRows(new) = CapturedRows(rows)
  BY DEF CapturedRows, SettledStatus
<1>2. RefundedRows(new) = RefundedRows(rows)
  BY DEF RefundedRows, SettledStatus
<1>3. \A i \in CapturedRows(rows) \cup RefundedRows(rows) : new[i].amount = rows[i].amount
  BY CountedRows
<1>4. QED
  BY <1>1, <1>2, <1>3, NetKept

\* A capture adds the charge to the balance, once: its row did not count before.
LEMMA CaptureRaisesNet ==
  ASSUME TypeOK, NEW i \in DOMAIN pays, Capture(i), pays[i].kind # "REFUND"
  PROVE  /\ CapturedRows(pays') = CapturedRows(pays) \cup {i}
         /\ RefundedRows(pays') = RefundedRows(pays)
         /\ Net(pays') = Net(pays) + pays[i].amount /\ pays[i].amount \in Nat
<1>1. pays \in Seq(PaymentRow) /\ pays[i].status \notin SettledStatus
  BY DEF TypeOK, Capture, Capturable
<1>2. pays' = [pays EXCEPT ![i].status = "CAPTURED"]
  BY DEF Capture
<1>3. /\ DOMAIN pays' = DOMAIN pays
      /\ \A j \in DOMAIN pays :
           /\ pays'[j].kind = pays[j].kind /\ pays'[j].amount = pays[j].amount
           /\ pays'[j].status = IF j = i THEN "CAPTURED" ELSE pays[j].status
  BY <1>1, <1>2, ColumnUpdated, OtherColumnsKept DEF PaymentStatus
<1>4. CapturedRows(pays') = CapturedRows(pays) \cup {i} /\ i \notin CapturedRows(pays)
  BY <1>1, <1>3 DEF CapturedRows, SettledStatus
<1>5. RefundedRows(pays') = RefundedRows(pays)
  BY <1>3 DEF RefundedRows
<1>6. \A j \in CapturedRows(pays) \cup RefundedRows(pays) \cup {i} :
        pays'[j].amount = pays[j].amount
  BY <1>1, <1>3, CountedRows
<1>7. QED
  BY <1>1, <1>4, <1>5, <1>6, NetCaptures

\* No step leaves a registration that counts as paid and is not, or one that asks
\* for money it has.
LEMMA BalanceStep ==
  IInv /\ OrdersFollowCalls /\ BalanceAgrees /\ [CheckoutNext]_checkoutVars => BalanceAgrees'
<1> SUFFICES ASSUME IInv, OrdersFollowCalls, BalanceAgrees, [CheckoutNext]_checkoutVars
             PROVE  BalanceAgrees'
  OBVIOUS
<1> DEFINE NoRefunds == \A i \in DOMAIN pays : pays[i].kind # "REFUND"
<1>a. /\ pays \in Seq(PaymentRow) /\ paid \subseteq DOMAIN pays
      /\ \A c \in Calls : call[c].pc = "reserved" => call[c].row \in DOMAIN pays
      /\ reg \in Registration /\ reg.locked \in BOOLEAN /\ reg.due \in Nat
      /\ NoRefunds /\ Recognises(reg, Net(pays)) /\ Net(pays) \in Int
  BY RecognisesNow, NetType DEF IInv, TypeOK, Registration, BalanceAgrees
<1>b. reg.locked => reg.due > 0
  BY <1>a, FeeType, FeesArePayable DEF IInv, QuoteHonoured
<1>c. ~reg.locked => Net(pays) = 0
  <2>1. SUFFICES ASSUME ~reg.locked PROVE Net(pays) = 0
    OBVIOUS
  <2>2. CapturedRows(pays) = {} /\ RefundedRows(pays) = {}
    BY <2>1 DEF IInv, PriceFollowsStatus, CapturedRows, RefundedRows
  <2>3. TotalOf(pays, {}) = 0
    BY FS_EmptySet, TotalValue
  <2>4. QED
    BY <2>2, <2>3 DEF Net
<1>1. ASSUME NoRefunds', Recognises(reg', Net(pays')) PROVE BalanceAgrees'
  BY <1>1, RecognisesNow DEF BalanceAgrees
<1>2. ASSUME UNCHANGED pays, Recognises(reg', Net(pays)) PROVE BalanceAgrees'
  <2>1. NoRefunds' /\ Net(pays') = Net(pays)
    BY <1>a, <1>2
  <2>2. QED
    BY <1>1, <1>2, <2>1
<1>3. ASSUME UNCHANGED pays, reg'.status \in {reg.status, "CANCELLED"}, reg'.due = reg.due,
             reg'.locked = reg.locked
      PROVE  BalanceAgrees'
  <2>1. Recognises(reg', Net(pays))
    BY <1>a, <1>3 DEF Recognises, Payable
  <2>2. QED
    BY <1>2, <1>3, <2>1
<1>4. ASSUME UNCHANGED <<pays, reg>> PROVE BalanceAgrees'
  BY <1>3, <1>4
<1>5. ASSUME UNCHANGED reg, NoRefunds', Net(pays') = Net(pays) PROVE BalanceAgrees'
  BY <1>1, <1>5, <1>a
<1> HIDE DEF NoRefunds
<1>6. ASSUME UNCHANGED pays, ~reg.locked, reg'.status = "PENDING", reg'.locked = reg.locked
      PROVE  BalanceAgrees'
  <2>1. Recognises(reg', Net(pays))
    BY <1>6 DEF Recognises
  <2>2. QED
    BY <1>2, <1>6, <2>1
<1>7. ASSUME NEW o \in Openers, OpenerNext(o) PROVE BalanceAgrees'
  <2>1. CASE OpenCreate(o)
    <3>1. CASE reg.status = "ABSENT"
      <4>1. ~reg.locked
        BY <3>1 DEF IInv, PriceFollowsStatus
      <4>2. reg'.status = "PENDING" /\ reg'.locked = reg.locked /\ UNCHANGED pays
        BY <1>a, <2>1, <3>1 DEF OpenCreate, Registration
      <4>3. QED
        BY <1>6, <4>1, <4>2
    <3>2. QED
      BY <1>4, <2>1, <3>1 DEF OpenCreate
  <2>2. CASE Reopen(o) /\ ReopenMatches(o)
    <3>1. ~reg.locked
      BY <2>2 DEF Reopen, ReopenMatches, IInv, CurrentReads
    <3>2. reg'.status = "PENDING" /\ reg'.locked = reg.locked /\ UNCHANGED pays
      BY <1>a, <2>2 DEF Reopen, Registration
    <3>3. QED
      BY <1>6, <3>1, <3>2
  <2>3. QED
    BY <1>4, <1>7, <2>1, <2>2 DEF OpenerNext, OpenRead, OpenCount, Reopen, Release, OpenerStops
<1>8. ASSUME NEW c \in Calls, Reserve(c) PROVE BalanceAgrees'
  <2>1. Net(pays') = Net(pays)
    BY <1>8, ReservationKeepsNet DEF IInv
  <2>2. NoRefunds'
    <3>1. \A j \in DOMAIN pays : pays'[j].kind = pays[j].kind
      BY <1>8, ReservedRows DEF IInv
    <3>2. pays'[Len(pays) + 1].kind # "REFUND" /\ DOMAIN pays' = DOMAIN pays \cup {Len(pays) + 1}
      <4>1. /\ DOMAIN pays' = DOMAIN pays \cup {Len(pays) + 1}
            /\ pays'[Len(pays) + 1] = NewRow(ReserveKind, ReserveAmount(c), 0)
        BY <1>8, ReservedRows DEF IInv
      <4>2. pays'[Len(pays) + 1].kind = ReserveKind
        BY <4>1 DEF NewRow
      <4>3. QED
        BY <4>1, <4>2 DEF ReserveKind
    <3>3. QED
      BY <1>a, <3>1, <3>2 DEF NoRefunds
  <2>3. /\ reg'.locked /\ reg'.status = reg.status
        /\ reg.locked => reg'.due = reg.due
        /\ reg'.due \in {Fee(reg.audience), RegularFee}
    BY <1>8, ReservedPrice
  <2>4. reg.status \in Payable
    BY <1>8 DEF Reserve, MayReserve
  <2>5. CASE reg.locked
    <3>1. Recognises(reg', Net(pays))
      BY <1>a, <2>3, <2>5 DEF Recognises
    <3>2. QED
      BY <1>1, <2>1, <2>2, <3>1
  <2>6. CASE ~reg.locked
    <3>1. Net(pays) = 0 /\ reg'.due > 0
      BY <1>c, <2>3, <2>6, FeeType, FeesArePayable
    <3>2. Recognises(reg', Net(pays))
      BY <2>3, <2>4, <3>1 DEF Recognises, Payable
    <3>3. QED
      BY <1>1, <2>1, <2>2, <3>2
  <2>7. QED
    BY <1>a, <2>5, <2>6
<1>9. ASSUME NEW k \in DOMAIN pays, UNCHANGED reg, DOMAIN pays' = DOMAIN pays,
             \A j \in DOMAIN pays : pays'[j].kind = pays[j].kind /\ pays'[j].amount = pays[j].amount,
             \A j \in DOMAIN pays \ {k} : pays'[j].status = pays[j].status,
             \/ pays'[k].status = pays[k].status
             \/ pays[k].status \notin SettledStatus /\ pays'[k].status \notin SettledStatus
      PROVE  BalanceAgrees'
  <2>1. Net(pays') = Net(pays)
    BY <1>a, <1>9, UpdateKeepsNet
  <2>2. NoRefunds'
    BY <1>a, <1>9 DEF NoRefunds
  <2>3. QED
    BY <1>5, <1>9, <2>1, <2>2
<1>10. ASSUME NEW c \in Calls, AttachOrder(c) PROVE BalanceAgrees'
  <2>1. call[c].row \in DOMAIN pays /\ pays' = [pays EXCEPT ![call[c].row].order = TRUE]
    BY <1>10, <1>a DEF AttachOrder
  <2>2. /\ DOMAIN pays' = DOMAIN pays
        /\ \A j \in DOMAIN pays : /\ pays'[j].kind = pays[j].kind
                                  /\ pays'[j].amount = pays[j].amount
                                  /\ pays'[j].status = pays[j].status
    BY <1>a, <2>1, ColumnUpdated, OtherColumnsKept
  <2>3. UNCHANGED reg
    BY <1>10 DEF AttachOrder
  <2>4. QED
    BY <1>9, <2>1, <2>2, <2>3
<1>11. ASSUME NEW c \in Calls, OrderFails(c) PROVE BalanceAgrees'
  <2> DEFINE k == call[c].row
  <2>1. k \in DOMAIN pays /\ pays' = [pays EXCEPT ![k].status = "FAILED"] /\ UNCHANGED reg
    BY <1>11, <1>a DEF OrderFails
  <2>2. k \notin CapturedRows(pays)
    BY <1>11 DEF OrderFails, OrdersFollowCalls
  <2> HIDE DEF k
  <2>3. /\ DOMAIN pays' = DOMAIN pays
        /\ \A j \in DOMAIN pays : /\ pays'[j].kind = pays[j].kind
                                  /\ pays'[j].amount = pays[j].amount
                                  /\ pays'[j].status = IF j = k THEN "FAILED" ELSE pays[j].status
    BY <1>a, <2>1, ColumnUpdated, OtherColumnsKept DEF PaymentStatus
  <2>4. CapturedRows(pays') = CapturedRows(pays) /\ RefundedRows(pays') = RefundedRows(pays)
    <3>1. CapturedRows(pays') = CapturedRows(pays)
      BY <2>2, <2>3 DEF CapturedRows
    <3>2. RefundedRows(pays') = RefundedRows(pays)
      BY <1>a, <2>3 DEF RefundedRows, NoRefunds
    <3>3. QED
      BY <3>1, <3>2
  <2>5. Net(pays') = Net(pays)
    <3>1. \A j \in CapturedRows(pays) \cup RefundedRows(pays) : pays'[j].amount = pays[j].amount
      BY <1>a, <2>3, CountedRows
    <3>2. QED
      BY <1>a, <2>4, <3>1, NetKept
  <2>6. NoRefunds'
    BY <1>a, <2>3 DEF NoRefunds
  <2>7. QED
    BY <1>5, <2>1, <2>5, <2>6
<1>12. ASSUME NEW i \in DOMAIN pays, Age(i) PROVE BalanceAgrees'
  <2>1. UNCHANGED reg /\ pays' = [pays EXCEPT ![i].fresh = FALSE]
    BY <1>12 DEF Age
  <2>2. /\ DOMAIN pays' = DOMAIN pays
        /\ \A j \in DOMAIN pays : /\ pays'[j].kind = pays[j].kind
                                  /\ pays'[j].amount = pays[j].amount
                                  /\ pays'[j].status = pays[j].status
    BY <1>a, <2>1, ColumnUpdated, OtherColumnsKept
  <2>3. QED
    BY <1>9, <2>1, <2>2
<1>13. ASSUME NEW i \in DOMAIN pays, Capture(i) PROVE BalanceAgrees'
  <2>1. reg.locked
    BY <1>13, CapturedRegistration
  <2>2. Net(pays') = Net(pays) + pays[i].amount /\ pays[i].amount \in Nat
    BY <1>13, <1>a, CaptureRaisesNet DEF IInv, NoRefunds
  <2>3. Net(pays) <= Net(pays') /\ Net(pays') \in Int
    BY <1>a, <2>2
  <2>4. reg' = [reg EXCEPT !.status = StatusOnCapture(reg, pays')]
    <3>1. LockPrice(reg, pays[i].kind) = reg
      BY <1>a, <2>1 DEF LockPrice, Registration
    <3>2. QED
      BY <1>13, <3>1 DEF Capture
  <2>5. Recognises(reg', Net(pays'))
    BY <1>a, <1>b, <2>1, <2>3, <2>4, CaptureRecognises
  <2>6. NoRefunds'
    <3>1. pays' = [pays EXCEPT ![i].status = "CAPTURED"]
      BY <1>13 DEF Capture
    <3>2. DOMAIN pays' = DOMAIN pays /\ \A j \in DOMAIN pays : pays'[j].kind = pays[j].kind
      BY <1>a, <3>1, ColumnUpdated, OtherColumnsKept DEF PaymentStatus
    <3>3. QED
      BY <1>a, <3>2 DEF NoRefunds
  <2>7. QED
    BY <1>1, <2>5, <2>6
<1>14. CASE AuthorNext
  <2>1. ASSUME NEW a \in Audience, SaveDetails(a) PROVE BalanceAgrees'
    <3>1. /\ reg'.status = reg.status /\ reg'.due = reg.due /\ reg'.locked = reg.locked
          /\ UNCHANGED pays
      BY <1>a, <2>1 DEF SaveDetails, Registration
    <3>2. QED
      BY <1>3, <3>1
  <2>2. QED
    BY <1>4, <1>14, <2>1 DEF AuthorNext, FillMissingDetails, UploadProof, UploadCameraReady
<1>15. CASE OrganizerNext
  <2>1. CASE ApproveProof
    <3>1. UNCHANGED pays
            /\ reg' = [reg EXCEPT !.status = IF IsSettled(reg.due, Net(pays)) THEN "PAID" ELSE @]
      BY <2>1 DEF ApproveProof
    <3>2. QED
      BY <1>2, <1>a, <3>1, ApprovalRecognises
  <2>2. CASE RejectProof
    <3>1. UNCHANGED pays /\ reg' = Demoted
      BY <2>2 DEF RejectProof
    <3>2. Recognises(Demoted, Net(pays))
      BY <1>a, RejectionRecognises DEF IInv
    <3>3. QED
      BY <1>2, <3>1, <3>2
  <2>3. ASSUME NEW d \in 0..MaxTime, ExtendDeadline(d) PROVE BalanceAgrees'
    <3>1. /\ reg'.status = reg.status /\ reg'.due = reg.due /\ reg'.locked = reg.locked
          /\ UNCHANGED pays
      BY <1>a, <2>3 DEF ExtendDeadline, Registration
    <3>2. QED
      BY <1>3, <3>1
  <2>4. CASE WithdrawCommit
    <3>1. /\ reg'.status \in {reg.status, "CANCELLED"} /\ reg'.due = reg.due
          /\ reg'.locked = reg.locked /\ UNCHANGED pays
      BY <1>a, <2>4 DEF WithdrawCommit, Registration
    <3>2. QED
      BY <1>3, <3>1
  <2>5. CASE ScanProof \/ ClarifyProof \/ WithdrawRead \/ WithdrawRollback \/ ScanCameraReady \/ Tick
    BY <1>4, <2>5 DEF ScanProof, ClarifyProof, WithdrawRead, WithdrawRollback, ScanCameraReady, Tick
  <2>6. QED
    BY <1>15, <2>1, <2>2, <2>3, <2>4, <2>5 DEF OrganizerNext
<1>16. CASE UNCHANGED checkoutVars
  BY <1>4, <1>16 DEF checkoutVars
<1>17. ASSUME NEW c \in Calls, CallNext(c) PROVE BalanceAgrees'
  BY <1>4, <1>8, <1>10, <1>11, <1>17 DEF CallNext, ReadForPayment, CallStops
<1>18. ASSUME NEW i \in DOMAIN pays, RowNext(i) PROVE BalanceAgrees'
  BY <1>4, <1>12, <1>13, <1>18 DEF RowNext, PayOrder
<1>19. QED
  BY <1>7, <1>14, <1>15, <1>16, <1>17, <1>18 DEF CheckoutNext

\* There is nothing to pay and nothing paid before the registration is opened.
LEMMA BalanceInit == Init => OrdersFollowCalls /\ BalanceAgrees
<1> SUFFICES ASSUME Init PROVE OrdersFollowCalls /\ BalanceAgrees
  OBVIOUS
<1>1. OrdersFollowCalls
  BY DEF Init, IdleCall, OrdersFollowCalls, CapturedRows
<1>2. reg.status = "ABSENT" /\ DOMAIN pays = {}
  BY DEF Init
<1>3. QED
  BY <1>1, <1>2 DEF BalanceAgrees, PaidIsSettled, SettledIsRecognised, Payable

\* In every reachable state of a checkout the requests keep in step with the orders,
\* and the status of the registration agrees with its balance.
THEOREM BalanceInvariance == CheckoutSpec => [](OrdersFollowCalls /\ BalanceAgrees)
  BY TypeCorrect, Invariance, BalanceInit, OrdersStep, BalanceStep, PTL DEF CheckoutSpec

\* Whoever counts as registered has paid what is owed, through every order of
\* captures, verdicts and changes of the amount due (processCapture, review).
THEOREM PaidRegistrationsAreSettled == CheckoutSpec => []PaidIsSettled
<1>1. BalanceAgrees => PaidIsSettled
  BY DEF BalanceAgrees
<1>2. QED
  BY <1>1, BalanceInvariance, PTL

\* A registration that still asks for money is short of it: no interleaving leaves
\* a balance that settles the fee unrecognised (processCapture, review).
THEOREM SettledRegistrationsAreRecognised == CheckoutSpec => []SettledIsRecognised
<1>1. BalanceAgrees => SettledIsRecognised
  BY DEF BalanceAgrees
<1>2. QED
  BY <1>1, BalanceInvariance, PTL


-----------------------------------------------------------------------------
(* A withdrawn paper is not admitted.                                      *)

\* While a paper is withdrawn, or is being withdrawn on the strength of a status
\* that needs no cancelling, no proof is awaited; and a registration that has not
\* been paid has been asked for its first fee only.
WithdrawalsClose ==
  /\ paper.status \notin Active => reg.status # "AWAITING_VERIFICATION"
  /\ wd.pc = "read" /\ wd.seen \notin Unpaid => reg.status # "AWAITING_VERIFICATION"
  /\ reg.status = "PENDING" => \A i \in DOMAIN pays : pays[i].kind = "INITIAL"

\* A pending registration has taken no money that counts, whatever its fee.
LEMMA PendingHasNoMoney ==
  ASSUME IInv, BalanceAgrees, WithdrawalsClose, reg.status = "PENDING"
  PROVE  Net(pays) = 0
<1>1. pays \in Seq(PaymentRow) /\ reg.locked \in BOOLEAN /\ reg.due \in Nat
  BY DEF IInv, TypeOK, Registration
<1>2. RefundedRows(pays) = {} /\ TotalOf(pays, {}) = 0
  BY FS_EmptySet, TotalValue DEF BalanceAgrees, RefundedRows
<1>3. CapturedRows(pays) = {}
  <2>1. SUFFICES ASSUME NEW i \in CapturedRows(pays) PROVE FALSE
    OBVIOUS
  <2>2. i \in DOMAIN pays /\ reg.locked
    BY DEF CapturedRows, IInv, PriceFollowsStatus
  <2>3. pays[i].amount = reg.due
    BY <2>2 DEF IInv, QuoteHonoured, PriceFollowsStatus, WithdrawalsClose
  <2>4. Net(pays) < reg.due
    BY <2>2 DEF BalanceAgrees, SettledIsRecognised, Payable
  <2>5. TotalOf(pays, CapturedRows(pays)) = pays[i].amount + TotalOf(pays, CapturedRows(pays) \ {i})
    <3>1. IsFiniteSet(CapturedRows(pays)) /\ \A j \in CapturedRows(pays) : pays[j].amount \in Nat
      BY <1>1, CountedRows
    <3>2. QED
      BY <3>1, TotalSplits
  <2>6. TotalOf(pays, CapturedRows(pays) \ {i}) \in Nat
    <3>1. CapturedRows(pays) \ {i} \in SUBSET DOMAIN pays
      BY <1>1, CountedRows
    <3>2. /\ IsFiniteSet(CapturedRows(pays) \ {i})
          /\ \A j \in CapturedRows(pays) \ {i} : pays[j].amount \in Nat
      BY <1>1, <3>1, CountedRows
    <3>3. QED
      BY <3>2, TotalValue
  <2>7. QED
    BY <1>1, <1>2, <2>3, <2>4, <2>5, <2>6 DEF Net
<1>4. QED
  BY <1>2, <1>3 DEF Net

\* A verdict on a proof settles nothing while none is awaited.
LEMMA VerdictNeedsAwaited ==
  ASSUME IInv, BalanceAgrees, WithdrawalsClose, reg.status # "AWAITING_VERIFICATION",
         reg.status \notin Terminal, reg.status # "PAID"
  PROVE  /\ ~IsSettled(reg.due, Net(pays))
         /\ reg.locked => Net(pays) < RegularFee
<1>1. /\ pays \in Seq(PaymentRow) /\ reg.locked \in BOOLEAN /\ reg.due \in Nat
      /\ reg.status \in RegistrationStatus /\ Net(pays) \in Int
  BY NetType DEF IInv, TypeOK, Registration
<1>2. CASE reg.status = "ABSENT"
  <2>1. ~reg.locked /\ CapturedRows(pays) = {} /\ RefundedRows(pays) = {}
    BY <1>2 DEF IInv, PriceFollowsStatus, CapturedRows, RefundedRows
  <2>2. TotalOf(pays, {}) = 0
    BY FS_EmptySet, TotalValue
  <2>3. QED
    BY <1>1, <2>1, <2>2 DEF IsSettled, Net
<1>3. CASE reg.status = "PENDING"
  <2>1. Net(pays) = 0
    BY <1>3, PendingHasNoMoney
  <2>2. QED
    BY <1>1, <2>1, FeesArePayable DEF IsSettled
<1>4. CASE reg.status = "ADDITIONAL_PAYMENT_REQUIRED"
  <2>1. reg.locked /\ reg.due = RegularFee /\ Net(pays) < reg.due
    BY <1>4 DEF IInv, PriceFollowsStatus, BalanceAgrees, SettledIsRecognised, Payable
  <2>2. QED
    BY <1>1, <2>1 DEF IsSettled
<1>5. QED
  BY <1>1, <1>2, <1>3, <1>4 DEF RegistrationStatus, Terminal

\* Captures and withdrawals take the paper's lock, so that neither sees the other
\* half done.
LEMMA WithdrawalsStep ==
  IInv /\ BalanceAgrees /\ WithdrawalsClose /\ [CheckoutNext]_checkoutVars => WithdrawalsClose'
<1> SUFFICES ASSUME IInv, BalanceAgrees, WithdrawalsClose, [CheckoutNext]_checkoutVars
             PROVE  WithdrawalsClose'
  OBVIOUS
<1>a. /\ pays \in Seq(PaymentRow) /\ reg \in Registration /\ reg.locked \in BOOLEAN
      /\ \A c \in Calls : call[c].pc = "reserved" => call[c].row \in DOMAIN pays
      /\ paper \in Paper
  BY DEF IInv, TypeOK, Registration
<1>1. ASSUME UNCHANGED <<paper, wd>>, reg'.status = reg.status, DOMAIN pays' = DOMAIN pays,
             \A j \in DOMAIN pays : pays'[j].kind = pays[j].kind
      PROVE  WithdrawalsClose'
  BY <1>1 DEF WithdrawalsClose
<1>2. ASSUME UNCHANGED <<paper, wd, reg, pays>> PROVE WithdrawalsClose'
  BY <1>1, <1>2
<1>3. ASSUME UNCHANGED <<paper, wd>>, reg'.status \notin {"PENDING", "AWAITING_VERIFICATION"}
      PROVE  WithdrawalsClose'
  BY <1>3 DEF WithdrawalsClose
<1>4. ASSUME UNCHANGED <<paper, wd, pays>>, reg'.status # "AWAITING_VERIFICATION", ~reg.locked
      PROVE  WithdrawalsClose'
  <2>1. DOMAIN pays' = {}
    BY <1>4 DEF IInv, PriceFollowsStatus
  <2>2. QED
    BY <1>4, <2>1 DEF WithdrawalsClose
<1>5. ASSUME NEW o \in Openers, OpenerNext(o) PROVE WithdrawalsClose'
  <2>1. CASE OpenCreate(o)
    <3>1. CASE reg.status = "ABSENT"
      <4>1. reg'.status = "PENDING" /\ UNCHANGED <<paper, wd, pays>> /\ ~reg.locked
        BY <1>a, <2>1, <3>1 DEF OpenCreate, Registration, IInv, PriceFollowsStatus
      <4>2. QED
        BY <1>4, <4>1
    <3>2. QED
      BY <1>2, <2>1, <3>1 DEF OpenCreate
  <2>2. CASE Reopen(o) /\ ReopenMatches(o)
    <3>1. ~reg.locked
      BY <2>2 DEF Reopen, ReopenMatches, IInv, CurrentReads
    <3>2. reg'.status = "PENDING" /\ UNCHANGED <<paper, wd, pays>>
      BY <1>a, <2>2 DEF Reopen, Registration
    <3>3. QED
      BY <1>4, <3>1, <3>2
  <2>3. CASE Release(o)
    <3>1. paper'.status = paper.status /\ UNCHANGED <<reg, wd, pays>>
      BY <1>a, <2>3 DEF Release, Paper
    <3>2. QED
      BY <3>1 DEF WithdrawalsClose
  <2>4. QED
    BY <1>2, <1>5, <2>1, <2>2, <2>3 DEF OpenerNext, OpenRead, OpenCount, Reopen, OpenerStops
<1>6. ASSUME NEW c \in Calls, Reserve(c) PROVE WithdrawalsClose'
  <2>1. reg'.status = reg.status /\ reg.status \in Payable /\ UNCHANGED <<paper, wd>>
    BY <1>6, ReservedPrice DEF Reserve, MayReserve
  <2>2. CASE reg.status = "PENDING"
    <3>1. \A j \in DOMAIN pays : pays'[j].kind = pays[j].kind
      BY <1>6, ReservedRows DEF IInv
    <3>2. /\ DOMAIN pays' = DOMAIN pays \cup {Len(pays) + 1}
          /\ pays'[Len(pays) + 1] = NewRow(ReserveKind, ReserveAmount(c), 0)
      BY <1>6, ReservedRows DEF IInv
    <3>3. pays'[Len(pays) + 1].kind = "INITIAL"
      BY <2>2, <3>2 DEF NewRow, ReserveKind
    <3>4. QED
      BY <2>1, <2>2, <3>1, <3>2, <3>3 DEF WithdrawalsClose
  <2>3. CASE reg.status # "PENDING"
    BY <1>3, <2>1, <2>3 DEF Payable
  <2>4. QED
    BY <2>2, <2>3
<1>7. ASSUME NEW c \in Calls, AttachOrder(c) \/ OrderFails(c) PROVE WithdrawalsClose'
  <2>1. call[c].row \in DOMAIN pays /\ UNCHANGED <<paper, wd, reg>>
    BY <1>7, <1>a DEF AttachOrder, OrderFails
  <2>2. \/ pays' = [pays EXCEPT ![call[c].row].order = TRUE]
        \/ pays' = [pays EXCEPT ![call[c].row].status = "FAILED"]
    BY <1>7 DEF AttachOrder, OrderFails
  <2>3. DOMAIN pays' = DOMAIN pays /\ \A j \in DOMAIN pays : pays'[j].kind = pays[j].kind
    <3>1. CASE pays' = [pays EXCEPT ![call[c].row].order = TRUE]
      BY <1>a, <2>1, <3>1, ColumnUpdated, OtherColumnsKept
    <3>2. CASE pays' = [pays EXCEPT ![call[c].row].status = "FAILED"]
      BY <1>a, <2>1, <3>2, ColumnUpdated, OtherColumnsKept DEF PaymentStatus
    <3>3. QED
      BY <2>2, <3>1, <3>2
  <2>4. QED
    BY <1>1, <2>1, <2>3
<1>8. ASSUME NEW i \in DOMAIN pays, Age(i) PROVE WithdrawalsClose'
  <2>1. pays' = [pays EXCEPT ![i].fresh = FALSE] /\ UNCHANGED <<paper, wd, reg>>
    BY <1>8 DEF Age
  <2>2. DOMAIN pays' = DOMAIN pays /\ \A j \in DOMAIN pays : pays'[j].kind = pays[j].kind
    BY <1>a, <2>1, ColumnUpdated, OtherColumnsKept
  <2>3. QED
    BY <1>1, <2>1, <2>2
<1>9. ASSUME NEW i \in DOMAIN pays, Capture(i) PROVE WithdrawalsClose'
  <2>1. /\ pays' = [pays EXCEPT ![i].status = "CAPTURED"]
        /\ wd.pc = "idle" /\ UNCHANGED <<paper, wd>>
    BY <1>9 DEF Capture, Capturable
  <2>2. DOMAIN pays' = DOMAIN pays /\ \A j \in DOMAIN pays : pays'[j].kind = pays[j].kind
    BY <1>a, <2>1, ColumnUpdated, OtherColumnsKept DEF PaymentStatus
  <2>3. reg.locked
    BY <1>9, CapturedRegistration
  <2>4. reg' = [reg EXCEPT !.status = StatusOnCapture(reg, pays')]
    <3>1. LockPrice(reg, pays[i].kind) = reg
      BY <1>a, <2>3 DEF LockPrice, Registration
    <3>2. QED
      BY <1>9, <3>1 DEF Capture
  <2>5. reg'.status = StatusOnCapture(reg, pays')
    BY <1>a, <2>4 DEF Registration
  <2>6. reg'.status = "PENDING" => reg.status = "PENDING"
    BY <2>5 DEF StatusOnCapture, StatusAfterCapture
  <2>7. paper.status \notin Active => reg'.status = "CANCELLED"
    BY <2>5 DEF StatusOnCapture, Eligible
  <2>8. QED
    BY <2>1, <2>2, <2>6, <2>7 DEF WithdrawalsClose
<1>10. CASE AuthorNext
  <2>1. ASSUME NEW a \in Audience, SaveDetails(a) PROVE WithdrawalsClose'
    <3>1. reg'.status = reg.status /\ UNCHANGED <<paper, wd, pays>>
      BY <1>a, <2>1 DEF SaveDetails, Registration
    <3>2. QED
      BY <1>1, <3>1
  <2>2. CASE UploadCameraReady
    <3>1. paper'.status = paper.status /\ UNCHANGED <<reg, wd, pays>>
      BY <1>a, <2>2 DEF UploadCameraReady, Paper
    <3>2. QED
      BY <3>1 DEF WithdrawalsClose
  <2>3. QED
    BY <1>2, <1>10, <2>1, <2>2 DEF AuthorNext, FillMissingDetails, UploadProof
<1>11. CASE OrganizerNext
  <2>1. CASE ApproveProof
    <3>1. reg'.status \in {reg.status, "PAID"} /\ UNCHANGED <<paper, wd, pays>>
      BY <1>a, <2>1 DEF ApproveProof, Registration
    <3>2. QED
      BY <1>1, <1>3, <3>1
  <2>2. CASE RejectProof
    <3>1. UNCHANGED <<paper, wd, pays>> /\ reg' = Demoted
      BY <2>2 DEF RejectProof
    <3>2. reg'.status \in {reg.status, "PAID", "ADDITIONAL_PAYMENT_REQUIRED"}
      BY <1>a, <3>1 DEF Demoted, Registration
    <3>3. QED
      BY <1>1, <1>3, <3>1, <3>2
  <2>3. ASSUME NEW d \in 0..MaxTime, ExtendDeadline(d) PROVE WithdrawalsClose'
    <3>1. reg'.status = reg.status /\ UNCHANGED <<paper, wd, pays>>
      BY <1>a, <2>3 DEF ExtendDeadline, Registration
    <3>2. QED
      BY <1>1, <3>1
  <2>4. CASE WithdrawRead
    <3>1. wd'.seen = reg.status /\ UNCHANGED <<paper, reg, pays>>
      BY <2>4 DEF WithdrawRead
    <3>2. QED
      BY <3>1 DEF WithdrawalsClose, Unpaid
  <2>5. CASE WithdrawCommit
    <3>1. wd'.pc = "idle" /\ wd.pc = "read" /\ UNCHANGED pays
      BY <2>5 DEF WithdrawCommit, IdleWd
    <3>2. CASE wd.seen \in Unpaid
      <4>1. reg'.status = "CANCELLED"
        BY <1>a, <2>5, <3>2 DEF WithdrawCommit, Registration
      <4>2. QED
        BY <3>1, <4>1 DEF WithdrawalsClose
    <3>3. CASE wd.seen \notin Unpaid
      <4>1. UNCHANGED reg
        BY <2>5, <3>3 DEF WithdrawCommit
      <4>2. QED
        BY <3>1, <3>3, <4>1 DEF WithdrawalsClose
    <3>4. QED
      BY <3>2, <3>3
  <2>6. CASE WithdrawRollback
    <3>1. wd'.pc = "idle" /\ UNCHANGED <<paper, reg, pays>>
      BY <2>6 DEF WithdrawRollback, IdleWd
    <3>2. QED
      BY <3>1 DEF WithdrawalsClose
  <2>7. CASE ScanCameraReady
    <3>1. paper'.status \in Active /\ UNCHANGED <<reg, wd, pays>>
      BY <1>a, <2>7 DEF ScanCameraReady, Paper, Active
    <3>2. QED
      BY <3>1 DEF WithdrawalsClose
  <2>8. CASE ScanProof \/ ClarifyProof \/ Tick
    BY <1>2, <2>8 DEF ScanProof, ClarifyProof, Tick
  <2>9. QED
    BY <1>11, <2>1, <2>2, <2>3, <2>4, <2>5, <2>6, <2>7, <2>8 DEF OrganizerNext
<1>12. CASE UNCHANGED checkoutVars
  BY <1>2, <1>12 DEF checkoutVars
<1>13. ASSUME NEW c \in Calls, CallNext(c) PROVE WithdrawalsClose'
  BY <1>2, <1>6, <1>7, <1>13 DEF CallNext, ReadForPayment, CallStops
<1>14. ASSUME NEW i \in DOMAIN pays, RowNext(i) PROVE WithdrawalsClose'
  BY <1>2, <1>8, <1>9, <1>14 DEF RowNext, PayOrder
<1>15. QED
  BY <1>5, <1>10, <1>11, <1>12, <1>13, <1>14 DEF CheckoutNext

\* A paper that is out of the programme does not become registered: a late capture
\* cancels, and a verdict finds nothing to settle (processCapture, review, withdraw).
THEOREM WithdrawnPapersStayOut == CheckoutSpec => WithdrawnNeverAdmitted
<1> DEFINE Out == paper.status \notin Active /\ reg.status # "PAID" => reg'.status # "PAID"
<1>1. ASSUME IInv, BalanceAgrees, WithdrawalsClose, CheckoutNext PROVE Out
  <2> SUFFICES ASSUME paper.status \notin Active, reg.status # "PAID" PROVE reg'.status # "PAID"
    OBVIOUS
  <2>a. reg \in Registration /\ reg.status # "AWAITING_VERIFICATION" /\ reg.locked \in BOOLEAN
    BY <1>1 DEF IInv, TypeOK, Registration, WithdrawalsClose
  <2>1. ASSUME UNCHANGED reg \/ reg'.status = reg.status PROVE reg'.status # "PAID"
    BY <2>1
  <2>2. ASSUME NEW o \in Openers, OpenerNext(o) PROVE reg'.status # "PAID"
    BY <2>a, <2>2
    DEF OpenerNext, OpenRead, OpenCreate, OpenCount, Reopen, Release, OpenerStops, Registration
  <2>3. ASSUME NEW c \in Calls, CallNext(c) PROVE reg'.status # "PAID"
    <3>1. CASE Reserve(c)
      BY <1>1, <2>1, <3>1, ReservedPrice
    <3>2. QED
      BY <2>1, <2>3, <3>1 DEF CallNext, ReadForPayment, AttachOrder, OrderFails, CallStops
  <2>4. ASSUME NEW i \in DOMAIN pays, RowNext(i) PROVE reg'.status # "PAID"
    <3>1. CASE Capture(i)
      <4>1. /\ ~Eligible
            /\ \E r, rows : /\ r \in Registration
                            /\ reg' = [r EXCEPT !.status = StatusOnCapture(r, rows)]
        <5>1. LockPrice(reg, pays[i].kind) \in Registration
          BY <1>1, CapturedType DEF IInv
        <5>2. QED
          BY <3>1, <5>1 DEF Capture, Eligible
      <4>2. PICK r, rows : /\ r \in Registration
                           /\ reg' = [r EXCEPT !.status = StatusOnCapture(r, rows)]
        BY <4>1
      <4>3. StatusOnCapture(r, rows) = "CANCELLED"
        BY <4>1 DEF StatusOnCapture
      <4>4. QED
        BY <4>2, <4>3 DEF Registration
    <3>2. QED
      BY <2>1, <2>4, <3>1 DEF RowNext, Age, PayOrder
  <2>5. CASE AuthorNext
    BY <2>1, <2>5, <2>a DEF AuthorNext, SaveDetails, FillMissingDetails, UploadProof,
                            UploadCameraReady, Registration
  <2>6. CASE OrganizerNext
    <3>1. CASE ApproveProof
      <4>1. ~IsSettled(reg.due, Net(pays))
        BY <1>1, <2>a, <3>1, VerdictNeedsAwaited DEF ApproveProof, Reviewable
      <4>2. QED
        BY <2>a, <3>1, <4>1 DEF ApproveProof, Registration
    <3>2. CASE RejectProof
      <4>1. reg.locked => Net(pays) < RegularFee
        BY <1>1, <2>a, <3>2, VerdictNeedsAwaited DEF RejectProof, Reviewable
      <4>2. Net(pays) \in Int /\ RegularFee \in Nat
        BY <1>1, NetType, FeesArePayable DEF IInv, TypeOK
      <4>3. reg' = Demoted
        BY <3>2 DEF RejectProof
      <4>4. reg.locked => ~(Net(pays) >= RegularFee)
        BY <4>1, <4>2
      <4>5. QED
        BY <2>a, <4>3, <4>4 DEF Demoted, Registration
    <3>3. ASSUME NEW d \in 0..MaxTime, ExtendDeadline(d) PROVE reg'.status # "PAID"
      <4>1. reg'.status = reg.status
        BY <2>a, <3>3 DEF ExtendDeadline, Registration
      <4>2. QED
        BY <2>1, <4>1
    <3>4. CASE WithdrawCommit
      <4>1. reg'.status \in {reg.status, "CANCELLED"}
        BY <2>a, <3>4 DEF WithdrawCommit, Registration
      <4>2. QED
        BY <4>1
    <3>5. CASE ScanProof \/ ClarifyProof \/ WithdrawRead \/ WithdrawRollback \/ ScanCameraReady \/ Tick
      BY <2>1, <3>5 DEF ScanProof, ClarifyProof, WithdrawRead, WithdrawRollback, ScanCameraReady, Tick
    <3>6. QED
      BY <2>6, <3>1, <3>2, <3>3, <3>4, <3>5 DEF OrganizerNext
  <2>7. QED
    BY <1>1, <2>2, <2>3, <2>4, <2>5, <2>6 DEF CheckoutNext
<1>2. IInv /\ BalanceAgrees /\ WithdrawalsClose /\ [CheckoutNext]_checkoutVars
        => [Out]_checkoutVars
  BY <1>1
<1>3. Init => WithdrawalsClose
  BY DEF Init, WithdrawalsClose, IdleWd, Active
<1>4. QED
  BY <1>2, <1>3, Invariance, BalanceInvariance, WithdrawalsStep, PTL
  DEF CheckoutSpec, WithdrawnNeverAdmitted

=============================================================================
