------------------------------ MODULE RefundProofs -----------------------------
(***************************************************************************)
(* Theorems about Refunds, for any fees, any numbers of authors and        *)
(* requests, and any bounds on rows and refunds.                           *)
(*                                                                         *)
(* What must be known of a refund is spread over three tables: the row in  *)
(* payments, the gateway's refund, and the reports in between.  RefundInv  *)
(* says that they describe the same refund: a report says no more than the *)
(* gateway did (EventsAreTrue), a row that carries a gateway id has that   *)
(* refund's amount and charge (RowsMatch), no two rows carry the same one  *)
(* (RefsDiffer), and an intent was sent for one refund only, for its own   *)
(* amount and charge (IntentsMatch).                                       *)
(*                                                                         *)
(* From it each step maps to a step of the ledger or to none.  That refund *)
(* never promises more than a charge brought in also needs that a failed   *)
(* intent was refused by the gateway (ReservationsHold), which holds only  *)
(* where nothing else gives up or makes a refund.                          *)
(***************************************************************************)
EXTENDS Refunds, CheckoutProofs

\* Orders and charges are never refunds.
ChargesAreCharges ==
  /\ \A c \in Calls : call[c].pc = "reserved" => pays[call[c].row].kind # "REFUND"
  /\ \A i \in paid : pays[i].kind # "REFUND"

\* The price is settled, so that no request quotes another one.
PriceIsLocked ==
  /\ reg.locked /\ reg.due > 0
  /\ \A c \in Calls : call[c].quote = 0

\* What was reported is what the gateway did, or that it was going to.
EventsAreTrue ==
  \A r \in DOMAIN gw, status \in {"pending", "processed", "failed"} :
     <<r, status>> \in events => status = "pending" \/ gw[r].status = status

\* A row that carries a gateway id is the booking of that refund.
RowsMatch ==
  \A i \in DOMAIN pays :
    /\ pays[i].kind # "REFUND" => pays[i].ref = 0
    /\ pays[i].kind = "REFUND" =>
         /\ pays[i].status \in {"CREATED", "FAILED", "REFUNDED"}
         /\ pays[i].status = "REFUNDED" => pays[i].ref # 0 /\ gw[pays[i].ref].status = "processed"
    /\ pays[i].ref # 0 =>
         /\ pays[i].ref \in DOMAIN gw
         /\ pays[i].amount = gw[pays[i].ref].amount
         /\ pays[i].parent = gw[pays[i].ref].cap
         /\ gw[pays[i].ref].intent \in {0, i}

\* No refund is booked on two rows.
RefsDiffer ==
  \A i, j \in DOMAIN pays : pays[i].ref # 0 /\ pays[i].ref = pays[j].ref => i = j

\* An intent was sent once, for its own amount and charge.
IntentsMatch ==
  /\ \A r \in DOMAIN gw : gw[r].intent # 0 =>
       LET i == gw[r].intent
       IN  /\ pays[i].kind = "REFUND" /\ pays[i].ref \in {0, r}
           /\ pays[i].amount = gw[r].amount /\ pays[i].parent = gw[r].cap
  /\ \A r, s \in DOMAIN gw : gw[r].intent # 0 /\ gw[r].intent = gw[s].intent => r = s

RefundInv ==
  /\ RefundTypeOK /\ Len(gw) <= MaxRefunds
  /\ OrdersFollowCalls
  /\ ChargesAreCharges
  /\ PriceIsLocked
  /\ EventsAreTrue
  /\ RowsMatch
  /\ RefsDiffer
  /\ IntentsMatch
  /\ PaidIsSettled
  /\ SettledIsRecognised

\* With no further checkout and no refund at the gateway's dashboard, a failed
\* intent is one the gateway refused, and nothing is promised twice.
ReservationsHold ==
  /\ \A r \in DOMAIN gw : gw[r].intent # 0
  /\ \A i \in DOMAIN pays : pays[i].kind = "REFUND" /\ pays[i].status = "FAILED" =>
       pays[i].ref # 0 /\ gw[pays[i].ref].status = "failed"
  /\ RefundsWithinCapture

-----------------------------------------------------------------------------
(* What a step of Checkout does to the refunds.                            *)

\* The steps of Checkout keep every row's kind, amount and origin, add no refund,
\* and change a refund at most by giving up an open one or by its age.
RefundsKept ==
  /\ DOMAIN pays \subseteq DOMAIN pays'
  /\ \A i \in DOMAIN pays :
       /\ pays'[i].kind = pays[i].kind /\ pays'[i].amount = pays[i].amount
       /\ pays'[i].parent = pays[i].parent /\ pays'[i].ref = pays[i].ref
       /\ pays[i].kind = "REFUND" =>
            \/ pays'[i] = pays[i]
            \/ pays'[i] = [pays[i] EXCEPT !.fresh = FALSE]
            \/ pays[i].status = "CREATED" /\ pays'[i].status = "FAILED"
  /\ \A i \in DOMAIN pays' \ DOMAIN pays : pays'[i].kind # "REFUND" /\ pays'[i].ref = 0

\* A step of Checkout that a locked price and superseded orders still allow.
LEMMA CheckoutStepIsOne ==
  CheckoutStep => CheckoutNext /\ UNCHANGED <<gw, events>>
  BY DEF CheckoutStep, CheckoutNext, CallNext, AuthorNext, OrganizerNext

\* A checkout's step that leaves the table alone keeps the refunds.
LEMMA SameTableKept == UNCHANGED pays => RefundsKept
  BY DEF RefundsKept

\* The order ids and the fates of orders are written to rows that are not refunds.
LEMMA CheckoutKeepsRefunds ==
  ASSUME TypeOK, ChargesAreCharges, CheckoutStep
  PROVE  RefundsKept
<1>a. /\ pays \in Seq(PaymentRow) /\ paid \subseteq DOMAIN pays
      /\ \A c \in Calls : call[c].pc = "reserved" =>
           call[c].row \in DOMAIN pays /\ pays[call[c].row].kind # "REFUND"
  BY DEF TypeOK, ChargesAreCharges
<1>1. ASSUME NEW k \in DOMAIN pays, NEW v, DOMAIN pays' = DOMAIN pays,
             \/ pays' = [pays EXCEPT ![k].order = v]
             \/ pays' = [pays EXCEPT ![k].status = v]
             \/ pays' = [pays EXCEPT ![k].fresh = v],
             \/ pays[k].kind # "REFUND"
             \/ pays' = [pays EXCEPT ![k].fresh = FALSE]
      PROVE  RefundsKept
  <2>1. \A j \in DOMAIN pays : /\ pays'[j].kind = pays[j].kind
                               /\ pays'[j].amount = pays[j].amount
                               /\ pays'[j].parent = pays[j].parent
                               /\ pays'[j].ref = pays[j].ref
    <3>1. CASE pays' = [pays EXCEPT ![k].order = v]
      BY <1>a, <3>1, OtherColumnsKept
    <3>2. CASE pays' = [pays EXCEPT ![k].status = v]
      BY <1>a, <3>2, OtherColumnsKept
    <3>3. CASE pays' = [pays EXCEPT ![k].fresh = v]
      BY <1>a, <3>3, OtherColumnsKept
    <3>4. QED
      BY <1>1, <3>1, <3>2, <3>3
  <2>2. \A j \in DOMAIN pays \ {k} : pays'[j] = pays[j]
    BY <1>a, <1>1
  <2>3. pays[k].kind = "REFUND" => pays'[k] = [pays[k] EXCEPT !.fresh = FALSE]
    BY <1>a, <1>1
  <2>4. QED
    BY <1>1, <2>1, <2>2, <2>3 DEF RefundsKept
<1>2. ASSUME NEW c \in Calls, Reserve(c) PROVE RefundsKept
  <2> DEFINE n == Len(pays) + 1
             old == SupersedeNewest(pays)
             row == NewRow(ReserveKind, ReserveAmount(c), 0)
  <2>1. /\ n \notin DOMAIN pays /\ DOMAIN pays' = DOMAIN pays \cup {n}
        /\ \A j \in DOMAIN pays :
             /\ pays'[j].kind = pays[j].kind
             /\ pays'[j].amount = pays[j].amount
             /\ pays'[j].parent = pays[j].parent /\ pays'[j].ref = pays[j].ref
             /\ pays'[j].status = IF j \in NewestCreated(pays) THEN "FAILED" ELSE pays[j].status
        /\ pays'[n] = row
    BY <1>2, ReservedRows
  <2>2. pays'[n].kind # "REFUND" /\ pays'[n].ref = 0
    BY <2>1 DEF NewRow, ReserveKind
  <2>3. ASSUME NEW j \in DOMAIN pays
        PROVE  pays'[j] = pays[j] \/ (pays[j].status = "CREATED" /\ pays'[j].status = "FAILED")
    <3>1. CASE j \in NewestCreated(pays)
      BY <2>1, <3>1 DEF NewestCreated
    <3>2. CASE j \notin NewestCreated(pays)
      <4>1. old \in Seq(PaymentRow) /\ Len(old) = Len(pays)
        BY <1>a, SupersededRows
      <4>2. pays' = Append(old, row)
        BY <1>2 DEF Reserve
      <4>3. old[j] = pays[j]
        BY <3>2 DEF SupersedeNewest
      <4> HIDE DEF old, row
      <4>4. pays'[j] = old[j]
        BY <1>a, <4>1, <4>2
      <4>5. QED
        BY <4>3, <4>4
    <3>3. QED
      BY <3>1, <3>2
  <2> HIDE DEF n, old, row
  <2>4. QED
    BY <2>1, <2>2, <2>3 DEF RefundsKept
<1>3. ASSUME NEW c \in Calls, AttachOrder(c) PROVE RefundsKept
  <2>1. call[c].row \in DOMAIN pays /\ pays[call[c].row].kind # "REFUND"
    BY <1>3, <1>a DEF AttachOrder
  <2>2. pays' = [pays EXCEPT ![call[c].row].order = TRUE]
    BY <1>3 DEF AttachOrder
  <2>3. QED
    BY <1>1, <2>1, <2>2
<1>4. ASSUME NEW c \in Calls, OrderFails(c) PROVE RefundsKept
  <2>1. call[c].row \in DOMAIN pays /\ pays[call[c].row].kind # "REFUND"
    BY <1>4, <1>a DEF OrderFails
  <2>2. pays' = [pays EXCEPT ![call[c].row].status = "FAILED"]
    BY <1>4 DEF OrderFails
  <2>3. QED
    BY <1>1, <2>1, <2>2
<1>5. ASSUME NEW i \in DOMAIN pays, Age(i) PROVE RefundsKept
  BY <1>1, <1>5 DEF Age
<1>6. ASSUME NEW i \in DOMAIN pays, Capture(i) PROVE RefundsKept
  <2>1. pays' = [pays EXCEPT ![i].status = "CAPTURED"] /\ pays[i].kind # "REFUND"
    BY <1>6 DEF Capture, Capturable, ChargesAreCharges
  <2>2. QED
    BY <1>1, <2>1
<1>7. ASSUME NEW c \in Calls, CallNext(c) PROVE RefundsKept
  BY <1>2, <1>3, <1>4, <1>7, SameTableKept DEF CallNext, ReadForPayment, CallStops
<1>8. ASSUME NEW i \in DOMAIN pays, RowNext(i) PROVE RefundsKept
  BY <1>5, <1>6, <1>8, SameTableKept DEF RowNext, PayOrder
<1>9. CASE UNCHANGED pays
  BY <1>9, SameTableKept
<1>10. QED
  BY <1>7, <1>8, <1>9
  DEF CheckoutStep, UploadProof, ScanProof, ApproveProof, ClarifyProof, RejectProof,
      WithdrawRead, WithdrawCommit, WithdrawRollback

-----------------------------------------------------------------------------
(* The allocation of a refund.                                             *)

\* The larger and the smaller of two numbers.
LEMMA LargerOfTwo ==
  ASSUME NEW a \in Int, NEW b \in Int
  PROVE  Max({a, b}) \in {a, b} /\ a <= Max({a, b}) /\ b <= Max({a, b})
<1>1. \E x \in {a, b} : \A y \in {a, b} : x >= y
  BY a <= b \/ b <= a
<1>2. Max({a, b}) \in {a, b} /\ \A y \in {a, b} : Max({a, b}) >= y
  BY <1>1 DEF Max
<1>3. QED
  BY <1>2

\* The smaller of two numbers.
LEMMA SmallerOfTwo ==
  ASSUME NEW a \in Int, NEW b \in Int
  PROVE  Min({a, b}) \in {a, b} /\ Min({a, b}) <= a /\ Min({a, b}) <= b
<1>1. \E x \in {a, b} : \A y \in {a, b} : x <= y
  BY a <= b \/ b <= a
<1>2. Min({a, b}) \in {a, b} /\ \A y \in {a, b} : Min({a, b}) <= y
  BY <1>1 DEF Min
<1>3. QED
  BY <1>2

\* What is left of a charge is an amount, and with what is reserved no more than
\* was captured.
LEMMA AvailableAmount ==
  ASSUME TypeOK, NEW i
  PROVE  /\ Available(i) \in Nat
         /\ Available(i) > 0 => /\ i \in CapturedRows(pays)
                                /\ TotalOf(pays, ReservedFrom(i)) + Available(i) <= pays[i].amount
<1>1. pays \in Seq(PaymentRow)
  BY DEF TypeOK
<1>2. CASE i \in CapturedRows(pays)
  <2> DEFINE reserved == TotalOf(pays, ReservedFrom(i))
  <2>1. pays[i].amount \in Nat
    BY <1>1, <1>2, CountedRows
  <2>2. reserved \in Nat
    <3>1. ReservedFrom(i) \in SUBSET DOMAIN pays
      BY DEF ReservedFrom
    <3>2. IsFiniteSet(ReservedFrom(i)) /\ \A j \in ReservedFrom(i) : pays[j].amount \in Nat
      BY <1>1, <3>1, CountedRows
    <3>3. QED
      BY <3>2, TotalValue
  <2>3. Available(i) = Max({0, pays[i].amount - reserved})
    BY <1>2 DEF Available
  <2> HIDE DEF reserved
  <2>4. /\ Available(i) \in {0, pays[i].amount - reserved} /\ 0 <= Available(i)
    <3>1. pays[i].amount - reserved \in Int /\ 0 \in Int
      BY <2>1, <2>2
    <3>2. QED
      BY <2>3, <3>1, LargerOfTwo
  <2>5. Available(i) \in Nat /\ (Available(i) > 0 => reserved + Available(i) <= pays[i].amount)
    BY <2>1, <2>2, <2>4
  <2>6. QED
    BY <1>2, <2>5 DEF reserved
<1>3. CASE i \notin CapturedRows(pays)
  BY <1>3 DEF Available
<1>4. QED
  BY <1>2, <1>3

\* What the elders of a charge can give is an amount.
LEMMA AvailableBeforeAmount ==
  ASSUME TypeOK, NEW i \in Nat
  PROVE  AvailableBefore(i) \in Nat
<1> DEFINE S == 1..(i - 1)
           left == [j \in S |-> [amount |-> Available(j)]]
           Sums(g) == g = [s \in SUBSET S |-> IF s = {} THEN 0
                              ELSE Available(CHOOSE x \in s : TRUE)
                                     + g[s \ {CHOOSE x \in s : TRUE}]]
           sum == CHOOSE g : Sums(g)
<1>1. IsFiniteSet(S)
  BY FS_Interval
<1>2. \A j \in S : left[j].amount \in Nat /\ left[j].amount = Available(j)
  BY AvailableAmount
<1>3. AvailableBefore(i) = sum[S]
  BY DEF AvailableBefore, MapThenSumSet, MapThenFoldSet
<1> HIDE DEF S, left
<1>4. PICK f \in [SUBSET S -> Nat] : IsFold(f, left, S)
  BY <1>1, <1>2, FoldExists
<1>5. ASSUME NEW g PROVE Sums(g) <=> IsFold(g, left, S)
  <2>1. \A s \in SUBSET S : s # {} => left[CHOOSE x \in s : TRUE].amount = Available(CHOOSE x \in s : TRUE)
    BY <1>2
  <2>2. [s \in SUBSET S |-> IF s = {} THEN 0
           ELSE Available(CHOOSE x \in s : TRUE) + g[s \ {CHOOSE x \in s : TRUE}]]
        = [s \in SUBSET S |-> IF s = {} THEN 0
           ELSE left[CHOOSE x \in s : TRUE].amount + g[s \ {CHOOSE x \in s : TRUE}]]
    BY <2>1
  <2>3. QED
    BY <2>2 DEF IsFold
<1> HIDE DEF Sums
<1>6. IsFold(sum, left, S)
  <2>1. Sums(sum)
    BY <1>4, <1>5
  <2>2. QED
    BY <1>5, <2>1
<1> HIDE DEF sum
<1>7. \A s \in SUBSET S : f[s] = sum[s]
  BY <1>1, <1>4, <1>6, FoldsAgree
<1>8. S \in SUBSET S /\ f[S] \in Nat
  BY <1>4
<1>9. QED
  BY <1>3, <1>7, <1>8


\* Each element of a finite set of numbers has a place in their order, and each
\* place is taken.
LEMMA EveryPlaceTaken ==
  ASSUME NEW G \in SUBSET Nat, IsFiniteSet(G)
  PROVE  /\ Cardinality(G) \in Nat
         /\ \A k \in 1..Cardinality(G) : \E i \in G : Cardinality({j \in G : j <= i}) = k
<1> DEFINE n == Cardinality(G)
           upTo(i) == {j \in G : j <= i}
           place == [i \in G |-> Cardinality(upTo(i))]
<1>1. n \in Nat
  BY FS_CardinalityType
<1>2. \A i \in G : IsFiniteSet(upTo(i)) /\ Cardinality(upTo(i)) \in Nat /\ Cardinality(upTo(i)) <= n
  <2> TAKE i \in G
  <2>1. upTo(i) \in SUBSET G
    OBVIOUS
  <2> HIDE DEF upTo
  <2>2. QED
    BY <2>1, FS_Subset, FS_CardinalityType
<1>3. \A i \in G : Cardinality(upTo(i)) # 0
  <2> TAKE i \in G
  <2>1. i \in upTo(i)
    OBVIOUS
  <2>2. upTo(i) # {}
    BY <2>1
  <2> HIDE DEF upTo
  <2>3. QED
    BY <1>2, <2>2, FS_EmptySet
<1>4. place \in [G -> 1..n]
  <2> HIDE DEF upTo
  <2>1. \A i \in G : Cardinality(upTo(i)) \in 1..n
    BY <1>1, <1>2, <1>3
  <2>2. QED
    BY <2>1
<1>5. \A i, l \in G : place[i] = place[l] => i = l
  <2>1. ASSUME NEW i \in G, NEW l \in G, i < l PROVE place[i] # place[l]
    <3>a. \A j \in G : j \in Nat
      OBVIOUS
    <3>1. upTo(i) \in SUBSET upTo(l) /\ l \in upTo(l) /\ l \notin upTo(i)
      <4>1. \A j \in G : j <= i => j <= l
        BY <2>1, <3>a
      <4>2. l <= l /\ ~(l <= i)
        BY <2>1, <3>a
      <4>3. upTo(i) \subseteq upTo(l)
        BY <4>1
      <4>4. l \in upTo(l) /\ l \notin upTo(i)
        BY <4>2
      <4>5. QED
        BY <4>3, <4>4
    <3>2. upTo(i) # upTo(l)
      BY <3>1
    <3> HIDE DEF upTo
    <3>3. Cardinality(upTo(i)) # Cardinality(upTo(l))
      BY <1>2, <3>1, <3>2, FS_Subset
    <3>4. QED
      BY <3>3
  <2>2. \A i, l \in G : i # l => i < l \/ l < i
    OBVIOUS
  <2> HIDE DEF place
  <2>3. QED
    BY <2>1, <2>2
<1> HIDE DEF place, upTo
<1>6. place \in Injection(G, 1..n)
  BY <1>4, <1>5 DEF Injection, IsInjective
<1>7. IsFiniteSet(1..n) /\ Cardinality(1..n) = n
  BY <1>1, FS_Interval
<1>8. place \in Surjection(G, 1..n)
  <2> DEFINE T == 1..n
  <2>1. place \in Injection(G, T) /\ IsFiniteSet(T) /\ Cardinality(G) = Cardinality(T)
    BY <1>6, <1>7
  <2> HIDE DEF T
  <2>2. place \in Surjection(G, T)
    BY <2>1, FS_Injection
  <2>3. QED
    BY <2>2 DEF T
<1>9. \A k \in 1..n : \E i \in G : place[i] = k
  BY <1>8 DEF Surjection
<1>10. QED
  BY <1>1, <1>9 DEF place, upTo

\* A charge gives no more than it has left.
LEMMA ShareAmount ==
  ASSUME TypeOK, NEW i \in Nat, NEW amount \in Int
  PROVE  Share(i, amount) \in Nat /\ Share(i, amount) <= Available(i)
<1> DEFINE a == Available(i)
           b == amount - AvailableBefore(i)
           least == Min({a, b})
<1>1. a \in Nat /\ b \in Int
  BY AvailableAmount, AvailableBeforeAmount
<1>2. Share(i, amount) = Max({0, least})
  BY DEF Share
<1> HIDE DEF a, b
<1>3. least \in Int /\ least <= a
  <2>1. a \in Int /\ b \in Int
    BY <1>1
  <2>2. least \in {a, b} /\ least <= a
    BY <2>1, SmallerOfTwo
  <2> HIDE DEF least
  <2>3. QED
    BY <2>1, <2>2
<1> HIDE DEF least
<1>4. Max({0, least}) \in {0, least} /\ 0 <= Max({0, least})
  BY <1>3, LargerOfTwo
<1>5. Max({0, least}) \in Nat /\ Max({0, least}) <= a
  BY <1>1, <1>3, <1>4
<1>6. QED
  BY <1>2, <1>5 DEF a

\* A refund is divided into rows of different charges, each with something to give.
LEMMA IntentRows ==
  ASSUME TypeOK, NEW amount \in Int
  PROVE  LET intents == Intents(amount)
         IN  /\ intents \in Seq(PaymentRow)
             /\ \A k \in DOMAIN intents :
                  /\ intents[k].parent \in CapturedRows(pays)
                  /\ intents[k] = NewRow("REFUND", Share(intents[k].parent, amount),
                                         intents[k].parent)
                  /\ Share(intents[k].parent, amount) \in Nat \ {0}
                  /\ Share(intents[k].parent, amount) <= Available(intents[k].parent)
             /\ \A k, l \in DOMAIN intents : intents[k].parent = intents[l].parent => k = l
<1> DEFINE givers == {i \in CapturedRows(pays) : Share(i, amount) > 0}
           n == Cardinality(givers)
           nth(k) == CHOOSE i \in givers : Cardinality({j \in givers : j <= i}) = k
           intents == [k \in 1..n |-> NewRow("REFUND", Share(nth(k), amount), nth(k))]
<1>1. intents = Intents(amount)
  BY DEF Intents
<1>2. pays \in Seq(PaymentRow) /\ CapturedRows(pays) \in SUBSET DOMAIN pays /\ DOMAIN pays \subseteq Nat
  BY CountedRows DEF TypeOK
<1>3. givers \in SUBSET Nat /\ IsFiniteSet(givers)
  <2>1. givers \in SUBSET DOMAIN pays
    BY <1>2
  <2>2. QED
    BY <1>2, <2>1, CountedRows
<1> HIDE DEF givers
<1>4. /\ n \in Nat
      /\ \A k \in 1..n : \E i \in givers : Cardinality({j \in givers : j <= i}) = k
  BY <1>3, EveryPlaceTaken
<1>5. \A k \in 1..n : nth(k) \in givers /\ Cardinality({j \in givers : j <= nth(k)}) = k
  BY <1>4
<1> HIDE DEF n, nth
<1>6. \A k \in 1..n : /\ nth(k) \in CapturedRows(pays) /\ nth(k) \in Nat
                      /\ Share(nth(k), amount) \in Nat \ {0}
                      /\ Share(nth(k), amount) <= Available(nth(k))
  <2> TAKE k \in 1..n
  <2>1. nth(k) \in CapturedRows(pays) /\ Share(nth(k), amount) > 0 /\ nth(k) \in Nat
    BY <1>3, <1>5 DEF givers
  <2>2. QED
    BY <2>1, ShareAmount
<1>7. \A k \in 1..n : /\ intents[k] \in PaymentRow
                      /\ intents[k].parent = nth(k)
                      /\ intents[k] = NewRow("REFUND", Share(nth(k), amount), nth(k))
  <2> TAKE k \in 1..n
  <2>1. intents[k] = NewRow("REFUND", Share(nth(k), amount), nth(k))
    OBVIOUS
  <2> HIDE DEF intents
  <2>2. QED
    BY <1>6, <2>1 DEF NewRow, PaymentRow, PaymentKind, PaymentStatus
<1>8. DOMAIN intents = 1..n
  OBVIOUS
<1>9. intents \in Seq(PaymentRow)
  BY <1>4, <1>7, <1>8
<1> HIDE DEF intents
<1>10. \A k, l \in DOMAIN intents : intents[k].parent = intents[l].parent => k = l
  <2> TAKE k, l \in DOMAIN intents
  <2> HAVE intents[k].parent = intents[l].parent
  <2>1. k \in 1..n /\ l \in 1..n /\ nth(k) = nth(l)
    BY <1>7, <1>8
  <2>2. /\ Cardinality({j \in givers : j <= nth(k)}) = k
        /\ Cardinality({j \in givers : j <= nth(l)}) = l
    BY <1>5, <2>1
  <2>3. QED
    BY <2>1, <2>2
<1>11. QED
  BY <1>1, <1>6, <1>7, <1>8, <1>9, <1>10

-----------------------------------------------------------------------------
(* What the steps that give money back change.                             *)

\* No such step touches a charge or an order; it may add refunds.
ChargesKept ==
  /\ pays' \in Seq(PaymentRow)
  /\ DOMAIN pays \subseteq DOMAIN pays' /\ DOMAIN pays' \subseteq 1..MaxRows
  /\ \A j \in DOMAIN pays :
       /\ pays'[j].kind = pays[j].kind /\ pays'[j].amount = pays[j].amount
       /\ pays'[j].order = pays[j].order
       /\ pays[j].kind # "REFUND" => pays'[j] = pays[j]
  /\ \A j \in DOMAIN pays' \ DOMAIN pays : pays'[j].kind = "REFUND"
  /\ UNCHANGED <<paper, ver, now, call, opener, wd, paid>>

\* A request leaves the old rows and adds open intents, each for a different charge
\* and for no more than is left of it.
Requested ==
  /\ pays' \in Seq(PaymentRow)
  /\ DOMAIN pays \subseteq DOMAIN pays' /\ DOMAIN pays' \subseteq 1..MaxRows
  /\ \A j \in DOMAIN pays : pays'[j] = pays[j]
  /\ \A j \in DOMAIN pays' \ DOMAIN pays :
       /\ pays'[j].kind = "REFUND" /\ pays'[j].status = "CREATED" /\ pays'[j].ref = 0
       /\ pays'[j].parent \in CapturedRows(pays)
       /\ pays'[j].amount \in Nat \ {0} /\ pays'[j].amount <= Available(pays'[j].parent)
  /\ \A j, l \in DOMAIN pays' \ DOMAIN pays : pays'[j].parent = pays'[l].parent => j = l

\* The rows that refund appends to the table.
LEMMA RequestedRows ==
  ASSUME TypeOK, NEW amount \in Int, RequestRefund(amount)
  PROVE  Requested
<1> DEFINE intents == Intents(amount)
<1>1. /\ intents \in Seq(PaymentRow)
      /\ \A k \in DOMAIN intents :
           /\ intents[k].parent \in CapturedRows(pays)
           /\ intents[k] = NewRow("REFUND", Share(intents[k].parent, amount), intents[k].parent)
           /\ Share(intents[k].parent, amount) \in Nat \ {0}
           /\ Share(intents[k].parent, amount) <= Available(intents[k].parent)
      /\ \A k, l \in DOMAIN intents : intents[k].parent = intents[l].parent => k = l
  BY IntentRows
<1>2. pays \in Seq(PaymentRow) /\ MaxRows \in Nat
  BY RowsAreBounded DEF TypeOK
<1>3. pays' = pays \o intents /\ Len(pays) + Len(intents) <= MaxRows
  BY DEF RequestRefund
<1>4. \A k \in DOMAIN intents :
        /\ intents[k].kind = "REFUND" /\ intents[k].status = "CREATED" /\ intents[k].ref = 0
        /\ intents[k].amount = Share(intents[k].parent, amount)
  BY <1>1 DEF NewRow
<1> HIDE DEF intents
<1>5. /\ pays' \in Seq(PaymentRow) /\ Len(pays') = Len(pays) + Len(intents)
      /\ \A j \in DOMAIN pays : pays'[j] = pays[j]
      /\ \A j \in DOMAIN pays' \ DOMAIN pays :
           j - Len(pays) \in DOMAIN intents /\ pays'[j] = intents[j - Len(pays)]
  BY <1>1, <1>2, <1>3
<1>6. DOMAIN pays \subseteq DOMAIN pays' /\ DOMAIN pays' \subseteq 1..MaxRows
  BY <1>1, <1>2, <1>3, <1>5
<1>7. \A j \in DOMAIN pays' \ DOMAIN pays :
       /\ pays'[j].kind = "REFUND" /\ pays'[j].status = "CREATED" /\ pays'[j].ref = 0
       /\ pays'[j].parent \in CapturedRows(pays)
       /\ pays'[j].amount \in Nat \ {0} /\ pays'[j].amount <= Available(pays'[j].parent)
  BY <1>1, <1>4, <1>5
<1>8. \A j, l \in DOMAIN pays' \ DOMAIN pays : pays'[j].parent = pays'[l].parent => j = l
  <2> TAKE j, l \in DOMAIN pays' \ DOMAIN pays
  <2> HAVE pays'[j].parent = pays'[l].parent
  <2>1. j - Len(pays) = l - Len(pays)
    BY <1>1, <1>5
  <2>2. j \in Int /\ l \in Int /\ Len(pays) \in Int
    BY <1>2, <1>5
  <2>3. QED
    BY <2>1, <2>2
<1>9. QED
  BY <1>5, <1>6, <1>7, <1>8 DEF Requested

\* A report of refund r is written to row k, which is its booking from then on:
\* the row that carries the gateway's id, or that of the intent, or a new one.
BookedIn(r, status, k) ==
  /\ pays' \in Seq(PaymentRow)
  /\ DOMAIN pays' = DOMAIN pays \cup {k} /\ DOMAIN pays' \subseteq 1..MaxRows
  /\ \A j \in DOMAIN pays \ {k} : pays'[j] = pays[j] /\ pays[j].ref # r
  /\ /\ pays'[k].kind = "REFUND" /\ pays'[k].status = StatusOfEvent(status)
     /\ pays'[k].ref = r /\ pays'[k].parent = gw[r].cap /\ pays'[k].amount = gw[r].amount
  /\ gw[r].intent \in {0, k}
  /\ k \in DOMAIN pays =>
       /\ pays[k].kind = "REFUND" /\ pays'[k].order = pays[k].order
       /\ pays[k].amount = gw[r].amount /\ pays[k].parent = gw[r].cap
       /\ pays[k].ref = r \/ (pays[k].ref = 0 /\ gw[r].intent = k)
       /\ pays[k].status # "REFUNDED"
       /\ pays[k].status = "FAILED" => status # "pending"

\* The three ways of processRefundEntity to its row.
LEMMA BookedRow ==
  ASSUME RefundInv, NEW r, NEW status, ApplyRefundEvent(r, status)
  PROVE  /\ r \in DOMAIN gw /\ r # 0 /\ status \in {"pending", "processed", "failed"}
         /\ <<r, status>> \in events
         /\ \E k : BookedIn(r, status, k)
<1>1. /\ pays \in Seq(PaymentRow) /\ gw \in Seq(GatewayRefund) /\ MaxRows \in Nat
      /\ \A s \in DOMAIN gw : gw[s].intent \in 0..Len(pays) /\ gw[s].cap \in DOMAIN pays
      /\ events \in SUBSET ((DOMAIN gw) \X {"pending", "processed", "failed"})
  BY RowsAreBounded DEF RefundInv, RefundTypeOK, TypeOK
<1>2. /\ r \in DOMAIN gw /\ <<r, status>> \in events
      /\ status \in {"pending", "processed", "failed"}
  BY <1>1 DEF ApplyRefundEvent
<1>3. r # 0 /\ gw[r] \in GatewayRefund /\ gw[r].amount \in Nat /\ gw[r].cap \in Nat /\ r \in Nat
  <2>1. gw[r] \in GatewayRefund
    BY <1>1, <1>2
  <2>2. r \in Nat /\ r # 0
    BY <1>1, <1>2
  <2>3. QED
    BY <2>1, <2>2 DEF GatewayRefund
<1>4. /\ pays' = Booked(r, status) /\ \A i \in RowOf(r) : ~Outdated(i, status)
      /\ RowOf(r) # {} \/ Len(pays) < MaxRows
  BY DEF ApplyRefundEvent
<1>5. StatusOfEvent(status) \in PaymentStatus
  BY <1>2 DEF StatusOfEvent, PaymentStatus
<1>a. DOMAIN pays \subseteq 1..MaxRows
  BY DEF RefundInv, OrdersFollowCalls
<1>6. CASE RowOf(r) = {}
  <2> DEFINE k == Len(pays) + 1
             row == [NewRow("REFUND", gw[r].amount, gw[r].cap) EXCEPT
                       !.status = StatusOfEvent(status), !.ref = r]
  <2>1. /\ \A j \in DOMAIN pays : pays[j].ref # r
        /\ gw[r].intent = 0
    BY <1>6 DEF RowOf
  <2>2. /\ row \in PaymentRow
        /\ row.kind = "REFUND" /\ row.status = StatusOfEvent(status)
        /\ row.ref = r /\ row.parent = gw[r].cap /\ row.amount = gw[r].amount
    BY <1>3, <1>5 DEF NewRow, PaymentRow, PaymentKind
  <2>3. pays' = Append(pays, row) /\ Len(pays) < MaxRows
    BY <1>4, <1>6 DEF Booked
  <2> HIDE DEF row
  <2>4. /\ pays' \in Seq(PaymentRow) /\ DOMAIN pays' = DOMAIN pays \cup {k}
        /\ k \notin DOMAIN pays /\ k \in 1..MaxRows
        /\ \A j \in DOMAIN pays \ {k} : pays'[j] = pays[j]
        /\ pays'[k] = row
    BY <1>1, <2>2, <2>3
  <2> HIDE DEF k
  <2>5. BookedIn(r, status, k)
    BY <1>a, <2>1, <2>2, <2>4 DEF BookedIn
  <2>6. QED
    BY <1>2, <1>3, <2>5
<1>7. CASE RowOf(r) # {}
  <2>1. PICK k \in DOMAIN pays :
          /\ RowOf(r) = {k} /\ pays[k].kind = "REFUND"
          /\ pays[k].amount = gw[r].amount /\ pays[k].parent = gw[r].cap
          /\ pays[k].ref = r \/ (pays[k].ref = 0 /\ gw[r].intent = k)
          /\ gw[r].intent \in {0, k}
          /\ \A j \in DOMAIN pays \ {k} : pays[j].ref # r
    <3> DEFINE known == {i \in DOMAIN pays : pays[i].ref = r}
    <3>1. CASE known # {}
      <4>1. PICK k \in DOMAIN pays : pays[k].ref = r
        BY <3>1
      <4>2. \A j \in DOMAIN pays : pays[j].ref = r => j = k
        BY <1>3, <4>1 DEF RefundInv, RefsDiffer
      <4>3. known = {k}
        BY <4>1, <4>2
      <4>4. RowOf(r) = {k}
        BY <3>1, <4>3 DEF RowOf
      <4>5. /\ pays[k].amount = gw[r].amount /\ pays[k].parent = gw[r].cap
            /\ pays[k].kind = "REFUND" /\ gw[r].intent \in {0, k}
        BY <1>3, <4>1 DEF RefundInv, RowsMatch
      <4>6. QED
        BY <4>1, <4>2, <4>4, <4>5
    <3>2. CASE known = {}
      <4> DEFINE k == gw[r].intent
      <4>1. RowOf(r) = {k} \ {0}
        BY <3>2 DEF RowOf
      <4>2. k # 0 /\ k \in DOMAIN pays
        BY <1>1, <1>2, <1>7, <4>1
      <4>3. /\ pays[k].kind = "REFUND" /\ pays[k].ref \in {0, r}
            /\ pays[k].amount = gw[r].amount /\ pays[k].parent = gw[r].cap
        BY <1>2, <4>2 DEF RefundInv, IntentsMatch
      <4>4. RowOf(r) = {k}
        BY <4>1, <4>2
      <4>5. QED
        BY <3>2, <4>2, <4>3, <4>4
    <3>3. QED
      BY <3>1, <3>2
  <2>2. /\ pays[k].status # "REFUNDED"
        /\ pays[k].status = "FAILED" => status # "pending"
    BY <1>4, <2>1 DEF Outdated
  <2> DEFINE row == [pays[k] EXCEPT !.status = StatusOfEvent(status), !.ref = r, !.parent = gw[r].cap]
  <2>3. /\ row \in PaymentRow /\ row.kind = pays[k].kind /\ row.amount = pays[k].amount
        /\ row.order = pays[k].order
        /\ row.status = StatusOfEvent(status) /\ row.ref = r /\ row.parent = gw[r].cap
    <3>1. pays[k] \in PaymentRow
      BY <1>1
    <3>2. QED
      BY <1>3, <1>5, <3>1 DEF PaymentRow
  <2>4. pays' = [i \in DOMAIN pays |-> IF i = k THEN row ELSE pays[i]]
    BY <1>4, <1>7, <2>1 DEF Booked
  <2> HIDE DEF row
  <2>5. /\ DOMAIN pays' = DOMAIN pays /\ pays'[k] = row
        /\ \A j \in DOMAIN pays \ {k} : pays'[j] = pays[j]
    BY <2>4
  <2>6. pays' \in Seq(PaymentRow)
    <3>1. pays' = [pays EXCEPT ![k] = row]
      BY <1>1, <2>4
    <3>2. QED
      BY <1>1, <2>3, <3>1, RowReplaced
  <2>7. BookedIn(r, status, k)
    BY <1>a, <2>1, <2>2, <2>3, <2>5, <2>6 DEF BookedIn
  <2>8. QED
    BY <1>2, <1>3, <2>7
<1>8. QED
  BY <1>6, <1>7

\* The gateway accepts a refund: a new one, pending, of which it says so.
Accepted(cap, amount, intent) ==
  LET n == Len(gw) + 1
  IN  /\ gw' \in Seq(GatewayRefund) /\ Len(gw') <= MaxRefunds
      /\ n \notin DOMAIN gw /\ DOMAIN gw' = DOMAIN gw \cup {n} /\ n # 0
      /\ \A r \in DOMAIN gw : gw'[r] = gw[r]
      /\ gw'[n] = [cap |-> cap, amount |-> amount, intent |-> intent, status |-> "pending"]
      /\ events' = events \cup {<<n, "pending">>}
      /\ UNCHANGED checkoutVars

\* The gateway decides on a pending refund, and says so.
Settled(r, status) ==
  /\ gw' \in Seq(GatewayRefund) /\ Len(gw') = Len(gw) /\ DOMAIN gw' = DOMAIN gw
  /\ \A s \in DOMAIN gw \ {r} : gw'[s] = gw[s]
  /\ gw[r].status = "pending" /\ gw'[r].status = status
  /\ gw'[r].cap = gw[r].cap /\ gw'[r].amount = gw[r].amount /\ gw'[r].intent = gw[r].intent
  /\ events' = events \cup {<<r, status>>}
  /\ UNCHANGED checkoutVars

\* An accepted refund is the gateway's newest.
LEMMA AcceptedRefund ==
  ASSUME gw \in Seq(GatewayRefund), NEW cap \in Nat, NEW amount \in Nat, NEW intent \in Nat,
         Accept(cap, amount, intent)
  PROVE  Accepted(cap, amount, intent)
<1> DEFINE new == [cap |-> cap, amount |-> amount, intent |-> intent, status |-> "pending"]
<1>1. new \in GatewayRefund
  BY DEF GatewayRefund
<1>2. gw' = Append(gw, new) /\ Len(gw) < MaxRefunds /\ MaxRefunds \in Nat
  BY RefundBounds DEF Accept
<1> HIDE DEF new
<1>3. /\ gw' \in Seq(GatewayRefund) /\ Len(gw') = Len(gw) + 1
      /\ DOMAIN gw' = DOMAIN gw \cup {Len(gw) + 1} /\ Len(gw) + 1 \notin DOMAIN gw
      /\ \A r \in DOMAIN gw : gw'[r] = gw[r]
      /\ gw'[Len(gw) + 1] = new /\ Len(gw) \in Nat
  BY <1>1, <1>2
<1>4. Len(gw') <= MaxRefunds /\ Len(gw) + 1 # 0
  BY <1>2, <1>3
<1>5. QED
  BY <1>3, <1>4 DEF Accepted, Accept, new

\* A decision changes the status of one refund.
LEMMA SettledRefund ==
  ASSUME gw \in Seq(GatewayRefund), NEW r \in DOMAIN gw, NEW status \in {"processed", "failed"},
         GatewaySettles(r, status)
  PROVE  Settled(r, status)
<1> DEFINE new == [gw[r] EXCEPT !.status = status]
<1>1. gw[r] \in GatewayRefund
  OBVIOUS
<1>2. /\ new \in GatewayRefund /\ new.status = status
      /\ new.cap = gw[r].cap /\ new.amount = gw[r].amount /\ new.intent = gw[r].intent
  BY <1>1 DEF GatewayRefund
<1>3. gw' = [gw EXCEPT ![r] = new]
  BY DEF GatewaySettles
<1> HIDE DEF new
<1>4. /\ gw' \in Seq(GatewayRefund) /\ Len(gw') = Len(gw) /\ DOMAIN gw' = DOMAIN gw
      /\ \A s \in DOMAIN gw \ {r} : gw'[s] = gw[s]
      /\ gw'[r] = new
  BY <1>2, <1>3
<1>5. QED
  BY <1>2, <1>4 DEF Settled, GatewaySettles

\* A step that gives money back is one of four changes.
LEMMA RefundChanges ==
  ASSUME RefundInv, RefundStep
  PROVE  \/ Requested /\ UNCHANGED <<reg, gw, events>> /\ current' = {}
                      /\ UNCHANGED <<paper, ver, now, call, opener, wd, paid>>
         \/ \E i \in DOMAIN pays : /\ pays[i].kind = "REFUND" /\ pays[i].ref = 0
                                   /\ \A r \in DOMAIN gw : gw[r].intent # i
                                   /\ pays[i].parent \in paid
                                   /\ Accepted(pays[i].parent, pays[i].amount, i)
         \/ \E i \in paid, amount \in DashboardAmounts : Accepted(i, amount, 0)
         \/ \E r \in DOMAIN gw, status \in {"processed", "failed"} : Settled(r, status)
         \/ \E r \in DOMAIN gw, status \in {"pending", "processed", "failed"} :
              /\ r # 0 /\ <<r, status>> \in events /\ ApplyRefundEvent(r, status)
              /\ \E k : BookedIn(r, status, k)
<1>1. /\ gw \in Seq(GatewayRefund) /\ pays \in Seq(PaymentRow) /\ TypeOK
      /\ paid \subseteq DOMAIN pays
  BY DEF RefundInv, RefundTypeOK, TypeOK
<1>2. ASSUME NEW amount \in 1..(2 * Max({StudentFee, RegularFee})), RequestRefund(amount)
      PROVE  Requested /\ UNCHANGED <<reg, gw, events>> /\ current' = {}
                       /\ UNCHANGED <<paper, ver, now, call, opener, wd, paid>>
  <2>1. amount \in Int
    OBVIOUS
  <2>2. QED
    BY <1>1, <1>2, <2>1, RequestedRows DEF RequestRefund, VersionIncremented
<1>3. ASSUME NEW i \in DOMAIN pays, SendIntent(i)
      PROVE  /\ pays[i].kind = "REFUND" /\ pays[i].ref = 0
             /\ \A r \in DOMAIN gw : gw[r].intent # i
             /\ pays[i].parent \in paid
             /\ Accepted(pays[i].parent, pays[i].amount, i)
  <2>1. i \in Nat /\ pays[i].parent \in Nat /\ pays[i].amount \in Nat
    <3>1. pays[i] \in PaymentRow /\ i \in Nat
      BY <1>1
    <3>2. QED
      BY <3>1 DEF PaymentRow
  <2>2. Accept(pays[i].parent, pays[i].amount, i)
    BY <1>3 DEF SendIntent
  <2>3. QED
    BY <1>1, <1>3, <2>1, <2>2, AcceptedRefund DEF SendIntent, Accept
<1>4. ASSUME NEW i \in DOMAIN pays, NEW amount \in DashboardAmounts, DashboardRefund(i, amount)
      PROVE  i \in paid /\ Accepted(i, amount, 0)
  <2>1. i \in Nat /\ amount \in Nat /\ 0 \in Nat
    BY <1>1, RefundBounds
  <2>2. QED
    BY <1>1, <1>4, <2>1, AcceptedRefund DEF DashboardRefund, Accept
<1>5. ASSUME NEW e \in events, ApplyRefundEvent(e[1], e[2])
      PROVE  \E r \in DOMAIN gw, status \in {"pending", "processed", "failed"} :
               /\ r # 0 /\ <<r, status>> \in events /\ ApplyRefundEvent(r, status)
               /\ \E k : BookedIn(r, status, k)
  BY <1>5, BookedRow
<1>6. QED
  BY <1>1, <1>2, <1>3, <1>4, <1>5, SettledRefund DEF RefundStep, Settle

\* Charges, orders and payment requests are left alone by all of them.
LEMMA RefundsKeepCharges ==
  ASSUME RefundInv, RefundStep
  PROVE  ChargesKept
<1>1. /\ pays \in Seq(PaymentRow) /\ DOMAIN pays \subseteq 1..MaxRows
  BY DEF RefundInv, RefundTypeOK, TypeOK, OrdersFollowCalls
<1>2. CASE Requested /\ UNCHANGED <<paper, ver, now, call, opener, wd, paid>>
  BY <1>2 DEF Requested, ChargesKept
<1>3. CASE UNCHANGED checkoutVars
  BY <1>1, <1>3 DEF checkoutVars, ChargesKept
<1>4. ASSUME NEW r, NEW status, NEW k, ApplyRefundEvent(r, status), BookedIn(r, status, k)
      PROVE  ChargesKept
  <2>1. UNCHANGED <<paper, ver, now, call, opener, wd, paid>>
    BY <1>4 DEF ApplyRefundEvent
  <2>2. QED
    BY <1>4, <2>1 DEF BookedIn, ChargesKept
<1>5. QED
  BY <1>2, <1>3, <1>4, RefundChanges DEF Accepted, Settled

-----------------------------------------------------------------------------
(* The invariant is inductive: the shape of the tables, calls and price.   *)

\* Orders still follow their requests, and no order is a refund.
LEMMA RefundsKeepOrders ==
  ASSUME RefundInv, ChargesKept
  PROVE  OrdersFollowCalls' /\ ChargesAreCharges' /\ CapturedRows(pays') = CapturedRows(pays)
<1>1. /\ \A c \in Calls : call[c].pc = "reserved" => call[c].row \in DOMAIN pays
      /\ paid \subseteq DOMAIN pays
  BY DEF RefundInv, RefundTypeOK, TypeOK
<1>2. CapturedRows(pays') = CapturedRows(pays)
  BY DEF ChargesKept, CapturedRows
<1>3. OrdersFollowCalls'
  <2>1. CapturedRows(pays)' \subseteq paid'
    BY <1>2 DEF ChargesKept, RefundInv, OrdersFollowCalls
  <2>2. QED
    BY <1>1, <2>1 DEF ChargesKept, RefundInv, OrdersFollowCalls
<1>4. ChargesAreCharges'
  BY <1>1 DEF ChargesKept, RefundInv, ChargesAreCharges
<1>5. QED
  BY <1>2, <1>3, <1>4

\* A refund derives one of the statuses of a registration.
LEMMA RefundedStatusType ==
  ASSUME NEW r \in Registration, NEW net
  PROVE  StatusAfterRefund(r, net) \in RegistrationStatus
<1>1. r.status \in RegistrationStatus
  BY DEF Registration
<1>2. QED
  BY <1>1 DEF StatusAfterRefund, RegistrationStatus

\* Steps that give money back keep the shape of the tables.
LEMMA RefundTypes ==
  ASSUME RefundInv, RefundStep
  PROVE  RefundTypeOK' /\ Len(gw') <= MaxRefunds
<1>a. /\ TypeOK /\ gw \in Seq(GatewayRefund) /\ pays \in Seq(PaymentRow) /\ reg \in Registration
      /\ \A r \in DOMAIN gw : gw[r].cap \in DOMAIN pays /\ gw[r].intent \in 0..Len(pays)
      /\ events \in SUBSET ((DOMAIN gw) \X {"pending", "processed", "failed"})
      /\ paid \subseteq DOMAIN pays /\ Len(gw) <= MaxRefunds
  BY DEF RefundInv, RefundTypeOK, TypeOK
<1>b. ChargesKept
  BY RefundsKeepCharges
<1>1. reg' \in Registration /\ current' \in SUBSET (Calls \cup Openers)
  <2>1. CASE UNCHANGED <<reg, current>>
    BY <2>1, <1>a DEF TypeOK
  <2>2. CASE UNCHANGED reg /\ current' = {}
    BY <2>2, <1>a
  <2>3. ASSUME NEW r, NEW status, ApplyRefundEvent(r, status), status = "processed"
        PROVE  reg' \in Registration /\ current' \in SUBSET (Calls \cup Openers)
    <3>1. /\ reg' = [reg EXCEPT !.status = StatusAfterRefund(reg, Net(Booked(r, status)))]
          /\ current' = {}
      BY <2>3 DEF ApplyRefundEvent, VersionIncremented
    <3>2. StatusAfterRefund(reg, Net(Booked(r, status))) \in RegistrationStatus
      BY <1>a, RefundedStatusType
    <3>3. QED
      BY <1>a, <3>1, <3>2, RegistrationUpdates
  <2>4. ASSUME NEW r, NEW status, ApplyRefundEvent(r, status), status # "processed"
        PROVE  UNCHANGED <<reg, current>>
    BY <2>4 DEF ApplyRefundEvent
  <2>5. QED
    BY <2>1, <2>2, <2>3, <2>4, RefundChanges DEF Accepted, Settled, checkoutVars
<1>2. TypeOK'
  <2>1. /\ \A c \in Calls : call'[c].pc = "reserved" => call'[c].row \in DOMAIN pays'
        /\ paid' \in SUBSET (DOMAIN pays')
    BY <1>a, <1>b DEF ChargesKept, TypeOK
  <2>2. QED
    BY <1>1, <1>a, <1>b, <2>1 DEF ChargesKept, TypeOK
<1>3. Len(pays) <= Len(pays') /\ Len(pays) \in Nat /\ Len(pays') \in Nat /\ DOMAIN pays \subseteq DOMAIN pays'
  <2>1. /\ DOMAIN pays = 1..Len(pays) /\ DOMAIN pays' = 1..Len(pays')
        /\ Len(pays) \in Nat /\ Len(pays') \in Nat /\ DOMAIN pays \subseteq DOMAIN pays'
    BY <1>a, <1>b DEF ChargesKept
  <2>2. QED
    BY <2>1
<1>4. \A r \in DOMAIN gw : gw[r].cap \in DOMAIN pays' /\ gw[r].intent \in 0..Len(pays')
  BY <1>3, <1>a
<1>5. CASE UNCHANGED <<gw, events>>
  BY <1>2, <1>4, <1>5, <1>a DEF RefundTypeOK
<1>6. ASSUME NEW cap \in DOMAIN pays, NEW amount, NEW intent \in 0..Len(pays),
             Accepted(cap, amount, intent)
      PROVE  RefundTypeOK' /\ Len(gw') <= MaxRefunds
  <2> DEFINE n == Len(gw) + 1
  <2>1. /\ gw' \in Seq(GatewayRefund) /\ Len(gw') <= MaxRefunds
        /\ DOMAIN gw' = DOMAIN gw \cup {n}
        /\ \A r \in DOMAIN gw : gw'[r] = gw[r]
        /\ gw'[n].cap = cap /\ gw'[n].intent = intent
        /\ events' = events \cup {<<n, "pending">>}
    BY <1>6 DEF Accepted
  <2>2. cap \in DOMAIN pays' /\ intent \in 0..Len(pays')
    BY <1>3
  <2> HIDE DEF n
  <2>3. \A r \in DOMAIN gw' : gw'[r].cap \in DOMAIN pays' /\ gw'[r].intent \in 0..Len(pays')
    BY <1>4, <2>1, <2>2
  <2>4. events' \in SUBSET ((DOMAIN gw') \X {"pending", "processed", "failed"})
    BY <1>a, <2>1
  <2>5. QED
    BY <1>2, <2>1, <2>3, <2>4 DEF RefundTypeOK
<1>7. ASSUME NEW r \in DOMAIN gw, NEW status \in {"processed", "failed"}, Settled(r, status)
      PROVE  RefundTypeOK' /\ Len(gw') <= MaxRefunds
  <2>1. \A s \in DOMAIN gw' : gw'[s].cap \in DOMAIN pays' /\ gw'[s].intent \in 0..Len(pays')
    BY <1>4, <1>7 DEF Settled
  <2>2. events' \in SUBSET ((DOMAIN gw') \X {"pending", "processed", "failed"})
    BY <1>a, <1>7 DEF Settled
  <2>3. QED
    BY <1>2, <1>7, <1>a, <2>1, <2>2 DEF RefundTypeOK, Settled
<1>8. ASSUME NEW i \in DOMAIN pays, Accepted(pays[i].parent, pays[i].amount, i), pays[i].parent \in paid
      PROVE  RefundTypeOK' /\ Len(gw') <= MaxRefunds
  <2>1. i \in 0..Len(pays) /\ pays[i].parent \in DOMAIN pays
    BY <1>8, <1>a
  <2>2. QED
    BY <1>6, <1>8, <2>1
<1>9. ASSUME NEW i \in paid, NEW amount, Accepted(i, amount, 0)
      PROVE  RefundTypeOK' /\ Len(gw') <= MaxRefunds
  <2>1. 0 \in 0..Len(pays) /\ i \in DOMAIN pays
    BY <1>3, <1>a
  <2>2. QED
    BY <1>6, <1>9, <2>1
<1>10. QED
  BY <1>5, <1>7, <1>8, <1>9, <1>a, RefundChanges DEF ApplyRefundEvent

-----------------------------------------------------------------------------
(* The three tables keep describing the same refunds.                      *)

Matches == EventsAreTrue /\ RowsMatch /\ RefsDiffer /\ IntentsMatch

\* New intents have not been sent, and no refund was made for them.
LEMMA RequestMatches ==
  ASSUME RefundInv, Requested, UNCHANGED <<gw, events>>
  PROVE  Matches'
<1>a. /\ pays \in Seq(PaymentRow) /\ EventsAreTrue /\ RowsMatch /\ RefsDiffer /\ IntentsMatch
      /\ \A r \in DOMAIN gw : gw[r].intent # 0 => gw[r].intent \in DOMAIN pays
  BY DEF RefundInv, RefundTypeOK, TypeOK
<1>1. EventsAreTrue'
  BY <1>a DEF EventsAreTrue
<1>2. RowsMatch'
  BY <1>a DEF RowsMatch, Requested
<1>3. RefsDiffer'
  <2> SUFFICES ASSUME NEW i \in DOMAIN pays', NEW j \in DOMAIN pays',
                      pays'[i].ref # 0, pays'[i].ref = pays'[j].ref
               PROVE  i = j
    BY DEF RefsDiffer
  <2>1. i \in DOMAIN pays /\ j \in DOMAIN pays
    BY DEF Requested
  <2>2. QED
    BY <1>a, <2>1 DEF RefsDiffer, Requested
<1>4. IntentsMatch'
  BY <1>a DEF IntentsMatch, Requested
<1>5. QED
  BY <1>1, <1>2, <1>3, <1>4 DEF Matches

\* An intent is sent once; a refund of the dashboard has none.
LEMMA AcceptanceMatches ==
  ASSUME RefundInv, NEW cap, NEW amount, NEW intent, Accepted(cap, amount, intent),
         intent # 0 => /\ intent \in DOMAIN pays
                       /\ pays[intent].kind = "REFUND" /\ pays[intent].ref = 0
                       /\ \A r \in DOMAIN gw : gw[r].intent # intent
                       /\ pays[intent].amount = amount /\ pays[intent].parent = cap
  PROVE  Matches'
<1> DEFINE n == Len(gw) + 1
<1>a. /\ EventsAreTrue /\ RowsMatch /\ RefsDiffer /\ IntentsMatch
      /\ \A r \in DOMAIN gw : gw[r].intent # 0 => gw[r].intent \in DOMAIN pays
      /\ events \in SUBSET ((DOMAIN gw) \X {"pending", "processed", "failed"})
  BY DEF RefundInv, RefundTypeOK, TypeOK
<1>b. /\ n \notin DOMAIN gw /\ DOMAIN gw' = DOMAIN gw \cup {n}
      /\ \A r \in DOMAIN gw : gw'[r] = gw[r]
      /\ gw'[n].cap = cap /\ gw'[n].amount = amount /\ gw'[n].intent = intent
      /\ gw'[n].status = "pending" /\ events' = events \cup {<<n, "pending">>}
      /\ UNCHANGED pays
  BY DEF Accepted, checkoutVars
<1> HIDE DEF n
<1>1. EventsAreTrue'
  <2> SUFFICES ASSUME NEW r \in DOMAIN gw', NEW status \in {"pending", "processed", "failed"},
                      <<r, status>> \in events', status # "pending"
               PROVE  gw'[r].status = status
    BY DEF EventsAreTrue
  <2>1. <<r, status>> \in events /\ r \in DOMAIN gw
    BY <1>a, <1>b
  <2>2. QED
    BY <1>a, <1>b, <2>1 DEF EventsAreTrue
<1>2. RowsMatch'
  BY <1>a, <1>b DEF RowsMatch
<1>3. RefsDiffer'
  BY <1>a, <1>b DEF RefsDiffer
<1>4. IntentsMatch'
  <2>1. ASSUME NEW r \in DOMAIN gw', gw'[r].intent # 0
        PROVE  LET i == gw'[r].intent
               IN  /\ pays'[i].kind = "REFUND" /\ pays'[i].ref \in {0, r}
                   /\ pays'[i].amount = gw'[r].amount /\ pays'[i].parent = gw'[r].cap
    <3>1. CASE r \in DOMAIN gw
      BY <1>a, <1>b, <2>1, <3>1 DEF IntentsMatch
    <3>2. CASE r = n
      BY <1>b, <2>1, <3>2
    <3>3. QED
      BY <1>b, <3>1, <3>2
  <2>2. ASSUME NEW r \in DOMAIN gw', NEW s \in DOMAIN gw', gw'[r].intent # 0,
               gw'[r].intent = gw'[s].intent
        PROVE  r = s
    <3>1. CASE r \in DOMAIN gw /\ s \in DOMAIN gw
      BY <1>a, <1>b, <2>2, <3>1 DEF IntentsMatch
    <3>2. CASE r = n /\ s # n
      BY <1>b, <2>2, <3>2
    <3>3. CASE s = n /\ r # n
      BY <1>b, <2>2, <3>3
    <3>4. QED
      BY <1>b, <3>1, <3>2, <3>3
  <2>3. QED
    BY <2>1, <2>2 DEF IntentsMatch
<1>5. QED
  BY <1>1, <1>2, <1>3, <1>4 DEF Matches

\* Only a pending refund is decided on, and no row says that it was paid.
LEMMA DecisionMatches ==
  ASSUME RefundInv, NEW r \in DOMAIN gw, NEW status \in {"processed", "failed"}, Settled(r, status)
  PROVE  Matches'
<1>a. EventsAreTrue /\ RowsMatch /\ RefsDiffer /\ IntentsMatch
  BY DEF RefundInv
<1>b. /\ DOMAIN gw' = DOMAIN gw /\ \A s \in DOMAIN gw \ {r} : gw'[s] = gw[s]
      /\ gw[r].status = "pending" /\ gw'[r].status = status
      /\ gw'[r].cap = gw[r].cap /\ gw'[r].amount = gw[r].amount /\ gw'[r].intent = gw[r].intent
      /\ events' = events \cup {<<r, status>>} /\ UNCHANGED pays
  BY DEF Settled, checkoutVars
<1>c. \A s \in DOMAIN gw : gw'[s].cap = gw[s].cap /\ gw'[s].amount = gw[s].amount
                             /\ gw'[s].intent = gw[s].intent
  BY <1>b
<1>1. EventsAreTrue'
  BY ZenonT(60), <1>a, <1>b DEF EventsAreTrue
<1>2. RowsMatch'
  BY <1>a, <1>b, <1>c DEF RowsMatch
<1>3. RefsDiffer'
  BY <1>a, <1>b DEF RefsDiffer
<1>4. IntentsMatch'
  BY <1>a, <1>b, <1>c DEF IntentsMatch
<1>5. QED
  BY <1>1, <1>2, <1>3, <1>4 DEF Matches

\* A report is booked on the only row of its refund.
LEMMA BookingMatches ==
  ASSUME RefundInv, NEW r \in DOMAIN gw, NEW status \in {"pending", "processed", "failed"}, NEW k,
         r # 0, <<r, status>> \in events, BookedIn(r, status, k), UNCHANGED <<gw, events>>
  PROVE  Matches'
<1>a. /\ EventsAreTrue /\ RowsMatch /\ RefsDiffer /\ IntentsMatch
      /\ \A s \in DOMAIN gw : gw[s].intent # 0 => gw[s].intent \in DOMAIN pays
      /\ pays \in Seq(PaymentRow)
  BY DEF RefundInv, RefundTypeOK, TypeOK
<1>b. /\ DOMAIN pays' = DOMAIN pays \cup {k}
      /\ \A j \in DOMAIN pays \ {k} : pays'[j] = pays[j] /\ pays[j].ref # r
      /\ pays'[k].kind = "REFUND" /\ pays'[k].status = StatusOfEvent(status)
      /\ pays'[k].ref = r /\ pays'[k].parent = gw[r].cap /\ pays'[k].amount = gw[r].amount
      /\ gw[r].intent \in {0, k}
      /\ k \in DOMAIN pays => pays[k].ref = r \/ (pays[k].ref = 0 /\ gw[r].intent = k)
  BY DEF BookedIn
<1>1. EventsAreTrue'
  BY <1>a DEF EventsAreTrue
<1>2. RowsMatch'
  <2>1. /\ pays'[k].status \in {"CREATED", "FAILED", "REFUNDED"}
        /\ pays'[k].status = "REFUNDED" => gw[r].status = "processed"
    <3>1. pays'[k].status = "REFUNDED" => status = "processed"
      BY <1>b DEF StatusOfEvent
    <3>2. pays'[k].status \in {"CREATED", "FAILED", "REFUNDED"}
      BY <1>b DEF StatusOfEvent
    <3>3. QED
      BY <1>a, <3>1, <3>2 DEF EventsAreTrue
  <2>2. QED
    BY <1>a, <1>b, <2>1 DEF RowsMatch
<1>3. RefsDiffer'
  BY <1>a, <1>b DEF RefsDiffer
<1>4. IntentsMatch'
  <2>1. ASSUME NEW s \in DOMAIN gw, gw[s].intent # 0
        PROVE  LET i == gw[s].intent
               IN  /\ pays'[i].kind = "REFUND" /\ pays'[i].ref \in {0, s}
                   /\ pays'[i].amount = gw[s].amount /\ pays'[i].parent = gw[s].cap
    <3>1. CASE gw[s].intent # k
      BY <1>a, <1>b, <2>1, <3>1 DEF IntentsMatch
    <3>2. CASE gw[s].intent = k
      <4>1. k \in DOMAIN pays /\ pays[k].ref \in {0, s}
        BY <1>a, <2>1, <3>2 DEF IntentsMatch
      <4>2. s = r
        BY <1>a, <1>b, <2>1, <3>2, <4>1 DEF IntentsMatch
      <4>3. QED
        BY <1>b, <3>2, <4>2
    <3>3. QED
      BY <3>1, <3>2
  <2>2. QED
    BY <1>a, <2>1 DEF IntentsMatch
<1>5. QED
  BY <1>1, <1>2, <1>3, <1>4 DEF Matches

\* Whatever gives money back, the three tables agree after it.
LEMMA RefundsMatch ==
  ASSUME RefundInv, RefundStep
  PROVE  Matches'
<1>1. ASSUME NEW i \in DOMAIN pays, pays[i].kind = "REFUND", pays[i].ref = 0,
             \A r \in DOMAIN gw : gw[r].intent # i,
             Accepted(pays[i].parent, pays[i].amount, i)
      PROVE  Matches'
  BY <1>1, AcceptanceMatches
<1>2. ASSUME NEW i, NEW amount, Accepted(i, amount, 0) PROVE Matches'
  BY <1>2, AcceptanceMatches
<1>3. ASSUME NEW r, NEW status, ApplyRefundEvent(r, status) PROVE UNCHANGED <<gw, events>>
  BY <1>3 DEF ApplyRefundEvent
<1>4. QED
  BY <1>1, <1>2, <1>3, RefundChanges, RequestMatches, DecisionMatches, BookingMatches

\* Whatever a checkout does, it changes of a refund at most that it is still open.
LEMMA CheckoutMatches ==
  ASSUME RefundInv, RefundsKept, UNCHANGED <<gw, events>>
  PROVE  Matches'
<1>a. /\ EventsAreTrue /\ RowsMatch /\ RefsDiffer /\ IntentsMatch
      /\ \A s \in DOMAIN gw : gw[s].intent # 0 => gw[s].intent \in DOMAIN pays
      /\ pays \in Seq(PaymentRow)
  BY DEF RefundInv, RefundTypeOK, TypeOK
<1>b. ASSUME NEW i \in DOMAIN pays, pays[i].kind = "REFUND"
      PROVE  pays'[i].status = pays[i].status \/ pays'[i].status = "FAILED"
  <2>1. [pays[i] EXCEPT !.fresh = FALSE].status = pays[i].status
    <3>1. pays[i] \in PaymentRow
      BY <1>a
    <3>2. QED
      BY <3>1 DEF PaymentRow
  <2>2. QED
    BY <1>b, <2>1 DEF RefundsKept
<1>1. EventsAreTrue'
  BY <1>a DEF EventsAreTrue
<1>2. RowsMatch'
  <2>1. ASSUME NEW i \in DOMAIN pays
        PROVE  /\ pays'[i].kind = pays[i].kind /\ pays'[i].ref = pays[i].ref
               /\ pays'[i].amount = pays[i].amount /\ pays'[i].parent = pays[i].parent
    BY DEF RefundsKept
  <2>2. \A i \in DOMAIN pays' \ DOMAIN pays : pays'[i].kind # "REFUND" /\ pays'[i].ref = 0
    BY DEF RefundsKept
  <2>3. QED
    BY <1>a, <1>b, <2>1, <2>2 DEF RowsMatch
<1>3. RefsDiffer'
  <2> SUFFICES ASSUME NEW i \in DOMAIN pays', NEW j \in DOMAIN pays',
                      pays'[i].ref # 0, pays'[i].ref = pays'[j].ref
               PROVE  i = j
    BY DEF RefsDiffer
  <2>1. i \in DOMAIN pays /\ j \in DOMAIN pays
    BY DEF RefundsKept
  <2>2. pays'[i].ref = pays[i].ref /\ pays'[j].ref = pays[j].ref
    BY <2>1 DEF RefundsKept
  <2>3. QED
    BY <1>a, <2>1, <2>2 DEF RefsDiffer
<1>4. IntentsMatch'
  <2>1. ASSUME NEW i \in DOMAIN pays
        PROVE  /\ pays'[i].kind = pays[i].kind /\ pays'[i].ref = pays[i].ref
               /\ pays'[i].amount = pays[i].amount /\ pays'[i].parent = pays[i].parent
    BY DEF RefundsKept
  <2>2. QED
    BY <1>a, <2>1 DEF IntentsMatch
<1>5. QED
  BY <1>1, <1>2, <1>3, <1>4 DEF Matches

-----------------------------------------------------------------------------
(* The price stays settled, and the status agrees with the balance.        *)

\* Steps that give money back leave the price alone.
LEMMA RefundKeepsPrice ==
  ASSUME RefundInv, RefundStep
  PROVE  /\ PriceIsLocked'
         /\ \/ UNCHANGED reg
            \/ \E r, status : /\ ApplyRefundEvent(r, status) /\ status = "processed"
                              /\ reg' = [reg EXCEPT !.status = StatusAfterRefund(reg, Net(pays'))]
<1>a. reg \in Registration /\ PriceIsLocked
  BY DEF RefundInv, RefundTypeOK, TypeOK
<1>b. UNCHANGED call
  BY RefundsKeepCharges DEF ChargesKept
<1>1. CASE UNCHANGED reg
  BY <1>1, <1>a, <1>b DEF PriceIsLocked
<1>2. ASSUME NEW r, NEW status, ApplyRefundEvent(r, status), status = "processed"
      PROVE  /\ PriceIsLocked'
             /\ reg' = [reg EXCEPT !.status = StatusAfterRefund(reg, Net(pays'))]
  <2>1. reg' = [reg EXCEPT !.status = StatusAfterRefund(reg, Net(pays'))]
    BY <1>2 DEF ApplyRefundEvent
  <2>2. reg'.locked = reg.locked /\ reg'.due = reg.due
    BY <1>a, <2>1 DEF Registration
  <2>3. QED
    BY <1>a, <1>b, <2>1, <2>2 DEF PriceIsLocked
<1>3. ASSUME NEW r, NEW status, ApplyRefundEvent(r, status), status # "processed"
      PROVE  UNCHANGED reg
  BY <1>3 DEF ApplyRefundEvent
<1>4. QED
  BY <1>1, <1>2, <1>3, RefundChanges DEF Accepted, Settled, checkoutVars

\* The status that a refund derives agrees with the smaller balance.
LEMMA RefundRecognises ==
  ASSUME NEW r \in Registration, r.due > 0, NEW net \in Int
  PROVE  Recognises([r EXCEPT !.status = StatusAfterRefund(r, net)], net)
<1> DEFINE s == StatusAfterRefund(r, net)
           new == [r EXCEPT !.status = s]
<1>1. /\ r.due \in Nat /\ new.status = s /\ new.due = r.due /\ new.locked = r.locked
  BY DEF Registration
<1> HIDE DEF new
<1>2. CASE r.status \in Terminal
  <2>1. s \in Terminal
    BY <1>2 DEF StatusAfterRefund
  <2>2. QED
    BY <1>1, <2>1 DEF Recognises, Terminal, Payable
<1>3. CASE r.status \notin Terminal /\ IsSettled(r.due, net)
  <2>1. s \in {"PAID", "AWAITING_VERIFICATION"}
    BY <1>3 DEF StatusAfterRefund
  <2>2. QED
    BY <1>1, <1>3, <2>1 DEF Recognises, Payable
<1>4. CASE r.status \notin Terminal /\ ~IsSettled(r.due, net)
  <2>1. s \in {"ADDITIONAL_PAYMENT_REQUIRED", "REFUNDED"}
    BY <1>4 DEF StatusAfterRefund
  <2>2. net < r.due
    BY <1>1, <1>4 DEF IsSettled
  <2>3. QED
    BY <1>1, <2>1, <2>2 DEF Recognises
<1>5. QED
  BY <1>2, <1>3, <1>4 DEF new

\* Nothing but a report that a refund was paid changes the balance.
LEMMA RefundKeepsNet ==
  ASSUME RefundInv, RefundStep
  PROVE  /\ Net(pays') \in Int
         /\ \/ Net(pays') = Net(pays)
            \/ \E r, status : ApplyRefundEvent(r, status) /\ status = "processed"
<1>a. /\ pays \in Seq(PaymentRow) /\ RowsMatch
  BY DEF RefundInv, RefundTypeOK, TypeOK
<1>b. ChargesKept /\ CapturedRows(pays') = CapturedRows(pays)
  BY RefundsKeepCharges, RefundsKeepOrders
<1>c. Net(pays') \in Int
  BY <1>b, NetType DEF ChargesKept
<1>1. ASSUME RefundedRows(pays') = RefundedRows(pays) PROVE Net(pays') = Net(pays)
  <2>1. \A j \in CapturedRows(pays) \cup RefundedRows(pays) : pays'[j].amount = pays[j].amount
    BY <1>b DEF ChargesKept, CapturedRows, RefundedRows
  <2>2. QED
    BY <1>1, <1>a, <1>b, <2>1, NetKept
<1>2. ASSUME Requested PROVE RefundedRows(pays') = RefundedRows(pays)
  BY <1>2 DEF Requested, RefundedRows
<1>3. ASSUME UNCHANGED pays PROVE Net(pays') = Net(pays)
  BY <1>3
<1>4. ASSUME NEW r, NEW status \in {"pending", "failed"}, NEW k, BookedIn(r, status, k)
      PROVE  RefundedRows(pays') = RefundedRows(pays)
  <2>1. pays'[k].status \in {"CREATED", "FAILED"}
    BY <1>4 DEF BookedIn, StatusOfEvent
  <2>2. k \notin RefundedRows(pays)
    BY <1>4, <1>a DEF BookedIn, RefundedRows, RowsMatch
  <2>3. QED
    BY <1>4, <2>1, <2>2 DEF BookedIn, RefundedRows
<1>5. QED
  BY <1>c, <1>1, <1>2, <1>3, <1>4, RefundChanges DEF Accepted, Settled, checkoutVars

\* Giving money back leaves a status that agrees with what is left.
LEMMA RefundBalance ==
  ASSUME RefundInv, RefundStep
  PROVE  (PaidIsSettled /\ SettledIsRecognised)'
<1>a. reg \in Registration /\ reg.due > 0 /\ Recognises(reg, Net(pays))
  BY RecognisesNow DEF RefundInv, RefundTypeOK, TypeOK, PriceIsLocked
<1>1. ASSUME reg' = [reg EXCEPT !.status = StatusAfterRefund(reg, Net(pays'))]
      PROVE  Recognises(reg', Net(pays'))
  BY <1>a, <1>1, RefundKeepsNet, RefundRecognises
<1>2. ASSUME UNCHANGED reg, Net(pays') = Net(pays) PROVE Recognises(reg', Net(pays'))
  BY <1>a, <1>2
<1>3. ASSUME NEW r, NEW status, ApplyRefundEvent(r, status), status = "processed"
      PROVE  reg' = [reg EXCEPT !.status = StatusAfterRefund(reg, Net(pays'))]
  BY <1>3 DEF ApplyRefundEvent
<1>4. Recognises(reg', Net(pays'))
  BY <1>1, <1>2, <1>3, RefundKeepsPrice, RefundKeepsNet
<1>5. QED
  BY <1>4, RecognisesNow

\* No request quotes another price, and orders are written to rows of orders.
LEMMA CheckoutCalls ==
  ASSUME RefundInv, CheckoutStep
  PROVE  ChargesAreCharges' /\ \A c \in Calls : call'[c].quote = 0
<1>a. /\ pays \in Seq(PaymentRow) /\ paid \subseteq DOMAIN pays /\ call \in [Calls -> CallPhase]
      /\ \A c \in Calls : call[c].pc = "reserved" =>
           call[c].row \in DOMAIN pays /\ pays[call[c].row].kind # "REFUND"
      /\ \A i \in paid : pays[i].kind # "REFUND"
      /\ \A c \in Calls : call[c].quote = 0
      /\ reg.locked /\ TypeOK /\ ChargesAreCharges
  BY DEF RefundInv, RefundTypeOK, TypeOK, ChargesAreCharges, PriceIsLocked
<1>b. \A i \in DOMAIN pays : i \in DOMAIN pays' /\ pays'[i].kind = pays[i].kind
  BY <1>a, CheckoutKeepsRefunds DEF RefundsKept
<1>1. ASSUME \A c \in Calls : \/ call'[c] = call[c]
                              \/ call'[c].pc # "reserved" /\ call'[c].quote = 0
                              \/ call'[c].quote = 0 /\ pays'[call'[c].row].kind # "REFUND",
             \A i \in paid' : i \in paid \/ (i \in DOMAIN pays /\ pays[i].kind # "REFUND")
      PROVE  ChargesAreCharges' /\ \A c \in Calls : call'[c].quote = 0
  BY <1>a, <1>b, <1>1 DEF ChargesAreCharges
<1>2. CASE UNCHANGED <<call, paid>>
  BY <1>1, <1>2
<1>3. ASSUME NEW c \in Calls, NEW u \in Users, ReadForPayment(c, u)
      PROVE  ChargesAreCharges' /\ \A d \in Calls : call'[d].quote = 0
  <2>1. /\ call'[c].pc = "read" /\ call'[c].quote = 0 /\ UNCHANGED paid
        /\ \A d \in Calls \ {c} : call'[d] = call[d]
    BY <1>3, <1>a DEF ReadForPayment
  <2>2. QED
    BY <1>1, <2>1
<1>4. ASSUME NEW c \in Calls, Reserve(c)
      PROVE  ChargesAreCharges' /\ \A d \in Calls : call'[d].quote = 0
  <2> DEFINE n == Len(pays) + 1
  <2>1. /\ call'[c].quote = 0 /\ call'[c].row = n /\ UNCHANGED paid
        /\ \A d \in Calls \ {c} : call'[d] = call[d]
    BY <1>4, <1>a DEF Reserve, IdleCall
  <2>2. pays'[n] = NewRow(ReserveKind, ReserveAmount(c), 0)
    BY <1>4, <1>a, ReservedRows
  <2>3. pays'[n].kind # "REFUND"
    BY <2>2 DEF NewRow, ReserveKind
  <2> HIDE DEF n
  <2>4. QED
    BY <1>1, <2>1, <2>3
<1>5. ASSUME NEW c \in Calls, AttachOrder(c) \/ OrderFails(c) \/ CallStops(c)
      PROVE  ChargesAreCharges' /\ \A d \in Calls : call'[d].quote = 0
  <2>1. /\ call'[c].pc = "idle" /\ call'[c].quote = 0 /\ UNCHANGED paid
        /\ \A d \in Calls \ {c} : call'[d] = call[d]
    BY <1>5, <1>a DEF AttachOrder, OrderFails, CallStops, IdleCall
  <2>2. QED
    BY <1>1, <2>1
<1>6. ASSUME NEW i \in DOMAIN pays, PayOrder(i)
      PROVE  ChargesAreCharges' /\ \A d \in Calls : call'[d].quote = 0
  BY <1>1, <1>6 DEF PayOrder
<1>7. ASSUME NEW i \in DOMAIN pays, Age(i) \/ Capture(i) PROVE UNCHANGED <<call, paid>>
  BY <1>7 DEF Age, Capture
<1>8. QED
  BY <1>2, <1>3, <1>4, <1>5, <1>6, <1>7
  DEF CheckoutStep, CallNext, RowNext, UploadProof, ScanProof, ApproveProof, ClarifyProof,
      RejectProof, WithdrawRead, WithdrawCommit, WithdrawRollback

\* A checkout with a locked price keeps the price, and derives a status that agrees
\* with the balance; the rows of refunds do not disturb it.
LEMMA CheckoutBalance ==
  ASSUME RefundInv, CheckoutStep
  PROVE  reg'.locked /\ reg'.due > 0 /\ Recognises(reg', Net(pays'))
<1> DEFINE Goal == reg'.locked /\ reg'.due > 0 /\ Recognises(reg', Net(pays'))
<1>a. /\ pays \in Seq(PaymentRow) /\ paid \subseteq DOMAIN pays /\ TypeOK
      /\ \A c \in Calls : call[c].pc = "reserved" =>
           call[c].row \in DOMAIN pays /\ pays[call[c].row].kind # "REFUND"
      /\ \A i \in paid : pays[i].kind # "REFUND"
      /\ \A c \in Calls : call[c].quote = 0
      /\ reg \in Registration /\ reg.due \in Nat /\ reg.locked /\ reg.due > 0
      /\ Recognises(reg, Net(pays)) /\ Net(pays) \in Int
  BY RecognisesNow, NetType
  DEF RefundInv, RefundTypeOK, TypeOK, Registration, ChargesAreCharges, PriceIsLocked
<1>1. ASSUME reg'.status \in {reg.status, "CANCELLED"}, reg'.due = reg.due,
             reg'.locked = reg.locked, Net(pays') = Net(pays)
      PROVE  Goal
  BY <1>1, <1>a DEF Recognises, Payable
<1>2. ASSUME UNCHANGED <<reg, pays>> PROVE Goal
  BY <1>1, <1>2
<1>3. ASSUME NEW c \in Calls, Reserve(c) PROVE Goal
  <2>1. Net(pays') = Net(pays)
    BY <1>3, <1>a, ReservationKeepsNet
  <2>2. reg' = [reg EXCEPT !.user = call[c].user, !.due = reg.due, !.locked = TRUE]
    BY <1>3, <1>a DEF Reserve
  <2>3. reg'.status = reg.status /\ reg'.due = reg.due /\ reg'.locked = reg.locked
    BY <1>a, <2>2 DEF Registration
  <2>4. QED
    BY <1>1, <2>1, <2>3
<1>4. ASSUME NEW c \in Calls, AttachOrder(c) PROVE Goal
  <2> DEFINE k == call[c].row
  <2>1. k \in DOMAIN pays /\ pays' = [pays EXCEPT ![k].order = TRUE] /\ UNCHANGED reg
    BY <1>4, <1>a DEF AttachOrder
  <2> HIDE DEF k
  <2>2. /\ DOMAIN pays' = DOMAIN pays
        /\ \A j \in DOMAIN pays : /\ pays'[j].kind = pays[j].kind
                                  /\ pays'[j].amount = pays[j].amount
                                  /\ pays'[j].status = pays[j].status
    BY <1>a, <2>1, ColumnUpdated, OtherColumnsKept
  <2>3. Net(pays') = Net(pays)
    <3>1. pays'[k].status = pays[k].status /\ pays \in Seq(PaymentRow) /\ k \in DOMAIN pays
      BY <1>a, <2>1, <2>2
    <3>2. /\ \A j \in DOMAIN pays : pays'[j].kind = pays[j].kind /\ pays'[j].amount = pays[j].amount
          /\ \A j \in DOMAIN pays \ {k} : pays'[j].status = pays[j].status
      BY <2>2
    <3>3. QED
      BY <2>2, <3>1, <3>2, UpdateKeepsNet
  <2>4. QED
    BY <1>1, <2>1, <2>3
<1>5. ASSUME NEW c \in Calls, OrderFails(c) PROVE Goal
  <2> DEFINE k == call[c].row
  <2>1. /\ k \in DOMAIN pays /\ pays' = [pays EXCEPT ![k].status = "FAILED"]
        /\ UNCHANGED reg /\ pays[k].kind # "REFUND"
    BY <1>5, <1>a DEF OrderFails
  <2>2. k \notin CapturedRows(pays)
    BY <1>5 DEF OrderFails, RefundInv, OrdersFollowCalls
  <2> HIDE DEF k
  <2>3. /\ DOMAIN pays' = DOMAIN pays
        /\ \A j \in DOMAIN pays : /\ pays'[j].kind = pays[j].kind
                                  /\ pays'[j].amount = pays[j].amount
                                  /\ pays'[j].status = IF j = k THEN "FAILED" ELSE pays[j].status
    BY <1>a, <2>1, ColumnUpdated, OtherColumnsKept DEF PaymentStatus
  <2>4. CapturedRows(pays') = CapturedRows(pays)
    BY <2>2, <2>3 DEF CapturedRows
  <2>5. RefundedRows(pays') = RefundedRows(pays)
    BY <2>1, <2>3 DEF RefundedRows
  <2>6. Net(pays') = Net(pays)
    <3>1. \A j \in CapturedRows(pays) \cup RefundedRows(pays) : pays'[j].amount = pays[j].amount
      BY <1>a, <2>3, CountedRows
    <3>2. QED
      BY <1>a, <2>4, <2>5, <3>1, NetKept
  <2>7. QED
    BY <1>1, <2>1, <2>6
<1>6. ASSUME NEW i \in DOMAIN pays, Age(i) PROVE Goal
  <2>1. UNCHANGED reg /\ pays' = [pays EXCEPT ![i].fresh = FALSE]
    BY <1>6 DEF Age
  <2>2. /\ DOMAIN pays' = DOMAIN pays
        /\ \A j \in DOMAIN pays : /\ pays'[j].kind = pays[j].kind
                                  /\ pays'[j].amount = pays[j].amount
                                  /\ pays'[j].status = pays[j].status
    BY <1>a, <2>1, ColumnUpdated, OtherColumnsKept
  <2>3. Net(pays') = Net(pays)
    BY <1>a, <2>2, UpdateKeepsNet
  <2>4. QED
    BY <1>1, <2>1, <2>3
<1>7. ASSUME NEW i \in DOMAIN pays, Capture(i) PROVE Goal
  <2>1. pays[i].kind # "REFUND"
    BY <1>7, <1>a DEF Capture, Capturable
  <2>2. Net(pays') = Net(pays) + pays[i].amount /\ pays[i].amount \in Nat
    BY <1>7, <1>a, <2>1, CaptureRaisesNet
  <2>3. Net(pays) <= Net(pays') /\ Net(pays') \in Int
    BY <1>a, <2>2
  <2>4. reg' = [reg EXCEPT !.status = StatusOnCapture(reg, pays')]
    <3>1. LockPrice(reg, pays[i].kind) = reg
      BY <1>a DEF LockPrice, Registration
    <3>2. QED
      BY <1>7, <3>1 DEF Capture
  <2>5. Recognises([reg EXCEPT !.status = StatusOnCapture(reg, pays')], Net(pays'))
    BY <1>a, <2>3, CaptureRecognises
  <2>6. reg'.locked = reg.locked /\ reg'.due = reg.due
    BY <1>a, <2>4 DEF Registration
  <2>7. QED
    BY <1>a, <2>4, <2>5, <2>6
<1>8. CASE ApproveProof
  <2>1. /\ UNCHANGED pays
        /\ reg' = [reg EXCEPT !.status = IF IsSettled(reg.due, Net(pays)) THEN "PAID" ELSE @]
    BY <1>8 DEF ApproveProof
  <2>2. Recognises(reg', Net(pays))
    BY <1>a, <2>1, ApprovalRecognises
  <2>3. reg'.locked = reg.locked /\ reg'.due = reg.due
    BY <1>a, <2>1 DEF Registration
  <2>4. QED
    BY <1>a, <2>1, <2>2, <2>3
<1>9. CASE RejectProof
  <2>1. UNCHANGED pays /\ reg' = Demoted
    BY <1>9 DEF RejectProof
  <2>2. Recognises(Demoted, Net(pays))
    BY <1>a, RejectionRecognises
  <2>3. reg'.locked = reg.locked /\ reg'.due = RegularFee
    BY <1>a, <2>1 DEF Registration, Demoted
  <2>4. RegularFee > 0
    BY FeesArePayable
  <2>5. QED
    BY <1>a, <2>1, <2>2, <2>3, <2>4
<1>10. CASE WithdrawCommit
  <2>1. /\ reg'.status \in {reg.status, "CANCELLED"} /\ reg'.due = reg.due
        /\ reg'.locked = reg.locked /\ UNCHANGED pays
    BY <1>a, <1>10 DEF WithdrawCommit, Registration
  <2>2. QED
    BY <1>1, <2>1
<1>11. QED
  BY <1>2, <1>3, <1>4, <1>5, <1>6, <1>7, <1>8, <1>9, <1>10
  DEF CheckoutStep, CallNext, RowNext, ReadForPayment, CallStops, PayOrder, UploadProof,
      ScanProof, ClarifyProof, WithdrawRead, WithdrawRollback

-----------------------------------------------------------------------------
(* Theorems.                                                               *)

\* The registration with two orders, of which none is paid, satisfies the invariant.
LEMMA RefundInitially == RefundInit => RefundInv
<1> SUFFICES ASSUME RefundInit PROVE RefundInv
  OBVIOUS
<1>1. PICK u \in Users, a \in Audience :
        /\ reg = [status |-> "PENDING", audience |-> a, due |-> Fee(a), locked |-> TRUE,
                  user |-> u, deadline |-> Deadline, grace |-> NoGrace]
        /\ pays = TwoOrders(Fee(a))
        /\ ver = IF a = "STUDENT" THEN [status |-> "PENDING", clean |-> TRUE, by |-> u]
                                  ELSE [status |-> "NONE", clean |-> FALSE, by |-> NoUser]
  BY DEF RefundInit
<1>2. Fee(a) \in Nat \ {0}
  BY FeeType
<1> DEFINE order == [NewRow("INITIAL", Fee(a), 0) EXCEPT !.order = TRUE, !.fresh = FALSE]
           old == [order EXCEPT !.status = "FAILED"]
<1>3. /\ order \in PaymentRow /\ order.kind = "INITIAL" /\ order.status = "CREATED"
      /\ order.ref = 0 /\ order.order
  BY <1>2 DEF NewRow, PaymentRow, PaymentKind, PaymentStatus
<1>4. /\ old \in PaymentRow /\ old.kind = "INITIAL" /\ old.status = "FAILED" /\ old.ref = 0
  BY <1>2 DEF NewRow, PaymentRow, PaymentKind, PaymentStatus
<1>5. pays = <<old, order>>
  BY <1>1 DEF TwoOrders
<1> HIDE DEF old, order
<1>6. /\ pays \in Seq(PaymentRow) /\ DOMAIN pays = {1, 2} /\ Len(pays) = 2
      /\ \A i \in DOMAIN pays : pays[i].kind = "INITIAL" /\ pays[i].ref = 0
                                  /\ pays[i].status \in {"CREATED", "FAILED"}
  BY <1>3, <1>4, <1>5
<1>7. TypeOK
  <2>1. reg \in Registration
    BY <1>1, <1>2, TimesAreNat DEF Registration, RegistrationStatus
  <2>2. ver \in Verification
    BY <1>1 DEF Verification
  <2>3. call = [c \in Calls |-> IdleCall] /\ IdleCall \in CallPhase /\ IdleCall.pc = "idle"
    BY DEF RefundInit, IdleCall, CallPhase
  <2>4. opener \in [Openers -> OpenerPhase]
    BY DEF RefundInit, IdleOpener, OpenerPhase
  <2>5. paper \in Paper /\ wd \in [pc : {"idle", "read"}, seen : RegistrationStatus]
    BY DEF RefundInit, Paper, Active, IdleWd, RegistrationStatus
  <2>6. QED
    BY <1>6, <2>1, <2>2, <2>3, <2>4, <2>5 DEF TypeOK, RefundInit
<1>8. /\ gw = <<>> /\ DOMAIN gw = {} /\ events = {} /\ paid = {}
      /\ \A c \in Calls : call[c].pc = "idle" /\ call[c].quote = 0
  BY DEF RefundInit, IdleCall
<1>9. RefundTypeOK /\ Len(gw) <= MaxRefunds
  BY <1>7, <1>8, RefundBounds DEF RefundTypeOK
<1>10. CapturedRows(pays) = {} /\ RefundedRows(pays) = {}
  BY <1>6 DEF CapturedRows, RefundedRows
<1>11. OrdersFollowCalls
  BY <1>6, <1>8, <1>10, TwoOrdersFit, RowsAreBounded DEF OrdersFollowCalls
<1>12. reg.status = "PENDING" /\ reg.locked /\ reg.due > 0 /\ reg.due \in Nat
  BY <1>1, <1>2
<1>13. PaidIsSettled /\ SettledIsRecognised
  <2>1. TotalOf(pays, {}) = 0
    BY FS_EmptySet, TotalValue
  <2>2. Net(pays) = 0
    BY <1>10, <2>1 DEF Net
  <2>3. QED
    BY <1>12, <2>2 DEF PaidIsSettled, SettledIsRecognised
<1>14. ChargesAreCharges /\ PriceIsLocked
  BY <1>8, <1>12 DEF ChargesAreCharges, PriceIsLocked
<1>15. EventsAreTrue /\ RowsMatch /\ RefsDiffer /\ IntentsMatch
  BY <1>6, <1>8 DEF EventsAreTrue, RowsMatch, RefsDiffer, IntentsMatch
<1>16. QED
  BY <1>9, <1>11, <1>13, <1>14, <1>15 DEF RefundInv

\* Every step keeps the invariant.
LEMMA RefundInvStep == RefundInv /\ [RefundNext]_refundVars => RefundInv'
<1> SUFFICES ASSUME RefundInv, [RefundNext]_refundVars PROVE RefundInv'
  OBVIOUS
<1>1. CASE RefundStep
  <2>1. RefundTypeOK' /\ Len(gw') <= MaxRefunds
    BY <1>1, RefundTypes
  <2>2. OrdersFollowCalls' /\ ChargesAreCharges'
    BY <1>1, RefundsKeepCharges, RefundsKeepOrders
  <2>3. PriceIsLocked' /\ (PaidIsSettled /\ SettledIsRecognised)'
    BY <1>1, RefundKeepsPrice, RefundBalance
  <2>4. Matches'
    BY <1>1, RefundsMatch
  <2>5. QED
    BY <2>1, <2>2, <2>3, <2>4 DEF RefundInv, Matches
<1>2. CASE CheckoutStep
  <2>a. TypeOK /\ ChargesAreCharges /\ OrdersFollowCalls
    BY DEF RefundInv, RefundTypeOK
  <2>1. CheckoutNext /\ UNCHANGED <<gw, events>>
    BY <1>2, CheckoutStepIsOne
  <2>2. TypeOK' /\ OrdersFollowCalls'
    BY <2>a, <2>1, TypeStep, OrdersStep
  <2>3. RefundsKept
    BY <1>2, <2>a, CheckoutKeepsRefunds
  <2>4. RefundTypeOK' /\ Len(gw') <= MaxRefunds
    <3>1. /\ DOMAIN pays = 1..Len(pays) /\ DOMAIN pays' = 1..Len(pays')
          /\ Len(pays) \in Nat /\ Len(pays') \in Nat /\ DOMAIN pays \subseteq DOMAIN pays'
      BY <2>a, <2>2, <2>3 DEF TypeOK, RefundsKept
    <3>2. Len(pays) <= Len(pays')
      BY <3>1
    <3>3. \A r \in DOMAIN gw : gw[r].cap \in DOMAIN pays' /\ gw[r].intent \in 0..Len(pays')
      BY <3>1, <3>2 DEF RefundInv, RefundTypeOK
    <3>4. QED
      BY <2>1, <2>2, <3>3 DEF RefundInv, RefundTypeOK
  <2>5. ChargesAreCharges' /\ PriceIsLocked' /\ (PaidIsSettled /\ SettledIsRecognised)'
    BY <1>2, CheckoutCalls, CheckoutBalance, RecognisesNow DEF PriceIsLocked
  <2>6. Matches'
    BY <2>1, <2>3, CheckoutMatches
  <2>7. QED
    BY <2>2, <2>4, <2>5, <2>6 DEF RefundInv, Matches
<1>3. CASE UNCHANGED refundVars
  <2>1. UNCHANGED <<paper, reg, pays, ver, now, call, opener, current, wd, paid, gw, events>>
    BY <1>3 DEF refundVars
  <2>2. RefundTypeOK' /\ Len(gw') <= MaxRefunds
    BY <2>1 DEF RefundInv, RefundTypeOK, TypeOK
  <2>3. (OrdersFollowCalls /\ ChargesAreCharges /\ PriceIsLocked)'
    BY <2>1 DEF RefundInv, OrdersFollowCalls, CapturedRows, ChargesAreCharges, PriceIsLocked
  <2>4. (EventsAreTrue /\ RowsMatch /\ RefsDiffer /\ IntentsMatch)'
    BY <2>1 DEF RefundInv, EventsAreTrue, RowsMatch, RefsDiffer, IntentsMatch
  <2>5. (PaidIsSettled /\ SettledIsRecognised)'
    BY <2>1, RecognisesNow DEF RefundInv
  <2>6. QED
    BY <2>2, <2>3, <2>4, <2>5 DEF RefundInv
<1>4. QED
  BY <1>1, <1>2, <1>3 DEF RefundNext

\* In every reachable state of refund, reconciliation and processRefundEntity the
\* rows, the gateway's refunds and the reports describe the same refunds, and the
\* status of the registration agrees with the balance.
THEOREM RefundInvariance == RefundSpec => []RefundInv
  BY RefundInitially, RefundInvStep, PTL DEF RefundSpec

\* The tables and the gateway keep their shape while money is given back, and every
\* intent that was sent is a row of the registration.
THEOREM RefundTypeCorrect == RefundSpec => []RefundTypeOK
<1>1. RefundInv => RefundTypeOK
  BY DEF RefundInv
<1>2. QED
  BY <1>1, RefundInvariance, PTL

\* Whoever counts as registered has paid what is owed, after every refund too
\* (processRefundEntity derives the status from the balance).
THEOREM RefundsLeavePaidSettled == RefundSpec => [](PaidIsSettled /\ SettledIsRecognised)
<1>1. RefundInv => PaidIsSettled /\ SettledIsRecognised
  BY DEF RefundInv
<1>2. QED
  BY <1>1, RefundInvariance, PTL

\* The balance is what was captured less what the gateway has paid back, each refund
\* counted once (processRefundEntity finds the row by two different ids): the rows
\* that count as refunds are, one to one, refunds that were processed.
THEOREM BalanceCountsEachOnce == RefundSpec => []BooksBalance
<1>1. ASSUME RefundInv PROVE BooksBalance
  <2> DEFINE S == RefundedRows(pays)
             ref == [i \in S |-> pays[i].ref]
             returned == {pays[i].ref : i \in S}
  <2>a. /\ pays \in Seq(PaymentRow) /\ gw \in Seq(GatewayRefund) /\ RowsMatch /\ RefsDiffer
        /\ CapturedRows(pays) \subseteq paid
    BY <1>1 DEF RefundInv, RefundTypeOK, TypeOK, OrdersFollowCalls
  <2>1. S \in SUBSET DOMAIN pays /\ IsFiniteSet(S) /\ \A i \in S : pays[i].amount \in Nat
    <3>1. S \in SUBSET DOMAIN pays
      BY DEF RefundedRows
    <3> HIDE DEF S
    <3>2. QED
      BY <2>a, <3>1, CountedRows
  <2>2. \A i \in S : /\ pays[i].ref \in DOMAIN gw /\ pays[i].ref # 0
                     /\ gw[pays[i].ref].status = "processed"
                     /\ gw[pays[i].ref].amount = pays[i].amount
    BY <2>a DEF RowsMatch, RefundedRows
  <2>3. \A i, j \in S : ref[i] = ref[j] => i = j
    BY <2>a, <2>1, <2>2 DEF RefsDiffer
  <2>4. IsFiniteSet(DOMAIN gw)
    <3>1. DOMAIN gw = 1..Len(gw) /\ Len(gw) \in Nat
      BY <2>a
    <3>2. QED
      BY <3>1, FS_Interval
  <2> HIDE DEF S
  <2>5. \A i \in S : /\ ref[i] \in DOMAIN gw /\ pays[i].amount \in Nat
                     /\ gw[ref[i]].amount = pays[i].amount
    BY <2>1, <2>2
  <2>6. {ref[i] : i \in S} = returned
    OBVIOUS
  <2> HIDE DEF ref
  <2>7. TotalOf(pays, S) = TotalOf(gw, {ref[i] : i \in S})
    BY <2>1, <2>3, <2>4, <2>5, TotalRenamed
  <2>8. Net(pays) = TotalOf(pays, CapturedRows(pays)) - TotalOf(gw, returned)
    BY <2>6, <2>7 DEF Net, S
  <2>9. returned \subseteq {r \in DOMAIN gw : gw[r].status = "processed"}
    BY <2>2
  <2>10. TotalOf(gw, returned) = MapThenSumSet(LAMBDA r : gw[r].amount, returned)
    BY DEF TotalOf
  <2>11. QED
    BY <2>a, <2>8, <2>9, <2>10 DEF BooksBalance, S
<1>2. QED
  BY <1>1, RefundInvariance, PTL

\* A refund that was booked as paid stays booked, whatever is reported late, in
\* whatever order, and whatever a later checkout supersedes (processRefundEntity).
THEOREM ProcessedRefundsAreFinal == RefundSpec => ProcessedIsFinal
<1> DEFINE Same(i) == [pays'[i] EXCEPT !.fresh = FALSE] = [pays[i] EXCEPT !.fresh = FALSE]
           Final == \A i \in RefundedRows(pays) : Same(i)
<1>1. ASSUME RefundInv, RefundNext PROVE Final
  <2> SUFFICES ASSUME NEW i \in RefundedRows(pays) PROVE Same(i)
    OBVIOUS
  <2>a. /\ pays \in Seq(PaymentRow) /\ TypeOK /\ ChargesAreCharges
        /\ i \in DOMAIN pays /\ pays[i].kind = "REFUND" /\ pays[i].status = "REFUNDED"
    BY <1>1 DEF RefundInv, RefundTypeOK, TypeOK, RowsMatch, RefundedRows
  <2>1. pays[i] \in PaymentRow
    BY <2>a
  <2>2. CASE pays'[i] = pays[i] \/ pays'[i] = [pays[i] EXCEPT !.fresh = FALSE]
    BY <2>1, <2>2 DEF PaymentRow
  <2>3. CASE CheckoutStep
    BY <2>a, <2>2, <2>3, CheckoutKeepsRefunds DEF RefundsKept
  <2>4. CASE RefundStep
    <3>1. CASE Requested
      BY <2>a, <2>2, <3>1 DEF Requested
    <3>2. CASE UNCHANGED pays
      BY <2>2, <3>2
    <3>3. ASSUME NEW r, NEW status, NEW k, BookedIn(r, status, k) PROVE Same(i)
      BY <2>a, <2>2, <3>3 DEF BookedIn
    <3>4. QED
      BY <1>1, <2>4, <3>1, <3>2, <3>3, RefundChanges DEF Accepted, Settled, checkoutVars
  <2>5. QED
    BY <1>1, <2>3, <2>4 DEF RefundNext
<1>2. RefundInv /\ [RefundNext]_refundVars => [Final]_refundVars
  BY <1>1
<1>3. QED
  BY <1>2, RefundInvariance, PTL DEF RefundSpec, ProcessedIsFinal

-----------------------------------------------------------------------------
(* Billing with refunds implements the ledger.                             *)

\* The refunds the gateway has paid, and those that count in a table of payments.
Processed == {r \in DOMAIN gw : gw[r].status = "processed"}
Returned(rows) == {rows[i].ref : i \in RefundedRows(rows)}

\* What a step does to the ledger's two sets, seen from the tables.
LedgerKept == /\ paid' = paid /\ CapturedRows(pays') = CapturedRows(pays)
              /\ Processed' = Processed /\ Returned(pays') = Returned(pays)

\* A step that moves neither side is a stutter of the ledger.
LEMMA KeptStutters ==
  ASSUME LedgerKept
  PROVE  UNCHANGED Booking!ledgerVars
  BY DEF LedgerKept, Processed, Returned, Booking!ledgerVars

\* A step of a checkout is the ledger's step for charges, and moves no refund.
LEMMA CheckoutBooks ==
  ASSUME RefundInv, CheckoutStep
  PROVE  [Booking!LedgerNext]_(Booking!ledgerVars)
<1>a. /\ TypeOK /\ ChargesAreCharges /\ OrdersFollowCalls /\ MaxRows \in Nat /\ MaxRefunds \in Nat
      /\ pays \in Seq(PaymentRow) /\ RowsMatch
  BY RowsAreBounded, RefundBounds DEF RefundInv, RefundTypeOK, TypeOK
<1>1. CheckoutNext /\ UNCHANGED <<gw, events>> /\ RefundsKept
  BY <1>a, CheckoutStepIsOne, CheckoutKeepsRefunds
<1>2. [Charges!LedgerNext]_(Charges!ledgerVars)
  BY <1>a, <1>1, LedgerStep
<1>3. Processed' = Processed /\ Returned(pays') = Returned(pays)
  <2>1. \A i \in DOMAIN pays : pays[i] \in PaymentRow
    BY <1>a
  <2>2. ASSUME NEW i \in DOMAIN pays, pays[i].kind = "REFUND"
        PROVE  /\ pays'[i].status = pays[i].status \/
                    (pays[i].status = "CREATED" /\ pays'[i].status = "FAILED")
               /\ pays'[i].kind = "REFUND" /\ pays'[i].ref = pays[i].ref
    <3>1. [pays[i] EXCEPT !.fresh = FALSE].status = pays[i].status
      BY <2>1 DEF PaymentRow
    <3>2. QED
      BY <1>1, <2>2, <3>1 DEF RefundsKept
  <2>3. RefundedRows(pays') = RefundedRows(pays)
    <3>1. RefundedRows(pays) \subseteq RefundedRows(pays')
      BY <1>1, <2>2 DEF RefundsKept, RefundedRows
    <3>2. RefundedRows(pays') \subseteq RefundedRows(pays)
      <4> SUFFICES ASSUME NEW i \in RefundedRows(pays') PROVE i \in RefundedRows(pays)
        OBVIOUS
      <4>1. i \in DOMAIN pays /\ pays[i].kind = "REFUND"
        BY <1>1 DEF RefundsKept, RefundedRows
      <4>2. QED
        BY <2>2, <4>1 DEF RefundedRows
    <3>3. QED
      BY <3>1, <3>2
  <2>4. \A i \in RefundedRows(pays) : pays'[i].ref = pays[i].ref
    BY <2>2 DEF RefundedRows
  <2>5. QED
    BY <1>1, <2>3, <2>4 DEF Processed, Returned
<1>4. CASE UNCHANGED Charges!ledgerVars
  <2>1. LedgerKept
    BY <1>3, <1>4 DEF Charges!ledgerVars, LedgerKept
  <2>2. QED
    BY <2>1, KeptStutters
<1>5. ASSUME NEW m \in 1..MaxRows, Charges!Happen(m) PROVE Booking!LedgerNext
  <2> DEFINE move == <<"charge", m>>
  <2>1. move \in {"charge", "refund"} \X (1..(MaxRows + MaxRefunds))
    BY <1>a
  <2>2. m \notin paid /\ paid' = paid \cup {m} /\ CapturedRows(pays') = CapturedRows(pays)
    BY <1>5 DEF Charges!Happen
  <2>3. move \notin ({"charge"} \X paid) \cup ({"refund"} \X Processed)
    BY <2>2
  <2>4. ({"charge"} \X paid') \cup ({"refund"} \X Processed')
          = (({"charge"} \X paid) \cup ({"refund"} \X Processed)) \cup {move}
    BY <1>3, <2>2
  <2> HIDE DEF move
  <2>5. Booking!Happen(move)
    BY <1>3, <2>1, <2>2, <2>3, <2>4 DEF Booking!Happen, Processed, Returned
  <2>6. QED
    BY <2>1, <2>5 DEF Booking!LedgerNext
<1>6. ASSUME NEW m \in 1..MaxRows, Charges!Book(m) PROVE Booking!LedgerNext
  <2> DEFINE move == <<"charge", m>>
  <2>1. move \in {"charge", "refund"} \X (1..(MaxRows + MaxRefunds))
    BY <1>a
  <2>2. /\ m \in paid /\ m \notin CapturedRows(pays) /\ paid' = paid
        /\ CapturedRows(pays') = CapturedRows(pays) \cup {m}
    BY <1>6 DEF Charges!Book
  <2>3. /\ move \in ({"charge"} \X paid) \cup ({"refund"} \X Processed)
        /\ move \notin ({"charge"} \X CapturedRows(pays)) \cup ({"refund"} \X Returned(pays))
    BY <2>2
  <2>4. ({"charge"} \X CapturedRows(pays')) \cup ({"refund"} \X Returned(pays'))
          = (({"charge"} \X CapturedRows(pays)) \cup ({"refund"} \X Returned(pays))) \cup {move}
    BY <1>3, <2>2
  <2> HIDE DEF move
  <2>5. Booking!Book(move)
    BY <1>3, <2>1, <2>2, <2>3, <2>4 DEF Booking!Book, Processed, Returned
  <2>6. QED
    BY <2>1, <2>5 DEF Booking!LedgerNext
<1>7. QED
  BY <1>2, <1>4, <1>5, <1>6 DEF Charges!LedgerNext

\* The gateway's decision to pay is a movement that happens, the report of it books
\* the movement, and nothing else moves either side.
LEMMA RefundBooks ==
  ASSUME RefundInv, RefundStep
  PROVE  [Booking!LedgerNext]_(Booking!ledgerVars)
<1>a. /\ MaxRows \in Nat /\ MaxRefunds \in Nat /\ DOMAIN gw \subseteq 1..MaxRefunds
      /\ pays \in Seq(PaymentRow) /\ RowsMatch /\ EventsAreTrue
  <2>1. gw \in Seq(GatewayRefund) /\ Len(gw) <= MaxRefunds /\ MaxRefunds \in Nat
    BY RefundBounds DEF RefundInv, RefundTypeOK
  <2>2. DOMAIN gw \subseteq 1..MaxRefunds
    BY <2>1
  <2>3. QED
    BY <2>2, RowsAreBounded, RefundBounds DEF RefundInv, RefundTypeOK, TypeOK
<1>b. paid' = paid /\ CapturedRows(pays') = CapturedRows(pays)
  BY RefundsKeepCharges, RefundsKeepOrders DEF ChargesKept
<1>1. ASSUME LedgerKept PROVE [Booking!LedgerNext]_(Booking!ledgerVars)
  BY <1>1, KeptStutters
<1>2. ASSUME Requested, UNCHANGED gw PROVE LedgerKept
  <2>1. RefundedRows(pays') = RefundedRows(pays)
    BY <1>2 DEF Requested, RefundedRows
  <2>2. \A i \in RefundedRows(pays) : pays'[i].ref = pays[i].ref
    BY <1>2 DEF Requested, RefundedRows
  <2>3. Returned(pays') = Returned(pays) /\ Processed' = Processed
    BY <1>2, <2>1, <2>2 DEF Returned, Processed
  <2>4. QED
    BY <1>b, <2>3 DEF LedgerKept
<1>3. ASSUME NEW cap, NEW amount, NEW intent, Accepted(cap, amount, intent) PROVE LedgerKept
  <2> DEFINE n == Len(gw) + 1
  <2>1. /\ DOMAIN gw' = DOMAIN gw \cup {n} /\ \A r \in DOMAIN gw : gw'[r] = gw[r]
        /\ gw'[n].status = "pending" /\ UNCHANGED pays
    BY <1>3 DEF Accepted, checkoutVars
  <2> HIDE DEF n
  <2>2. Processed' = Processed
    BY <2>1 DEF Processed
  <2>3. Returned(pays') = Returned(pays)
    BY <2>1
  <2>4. QED
    BY <1>b, <2>2, <2>3 DEF LedgerKept
<1>4. ASSUME NEW r \in DOMAIN gw, Settled(r, "failed") PROVE LedgerKept
  <2>1. Processed' = Processed
    BY <1>4 DEF Settled, Processed
  <2>2. Returned(pays') = Returned(pays)
    BY <1>4 DEF Settled, checkoutVars
  <2>3. QED
    BY <1>b, <2>1, <2>2 DEF LedgerKept
<1>5. ASSUME NEW r \in DOMAIN gw, Settled(r, "processed") PROVE Booking!LedgerNext
  <2> DEFINE move == <<"refund", r>>
  <2>1. move \in {"charge", "refund"} \X (1..(MaxRows + MaxRefunds))
    BY <1>a
  <2>2. r \notin Processed /\ Processed' = Processed \cup {r}
    BY <1>5 DEF Settled, Processed
  <2>3. Returned(pays') = Returned(pays)
    BY <1>5 DEF Settled, checkoutVars
  <2>4. move \notin ({"charge"} \X paid) \cup ({"refund"} \X Processed)
    BY <2>2
  <2>5. ({"charge"} \X paid') \cup ({"refund"} \X Processed')
          = (({"charge"} \X paid) \cup ({"refund"} \X Processed)) \cup {move}
    BY <1>b, <2>2
  <2> HIDE DEF move
  <2>6. Booking!Happen(move)
    BY <1>b, <2>1, <2>3, <2>4, <2>5 DEF Booking!Happen, Processed, Returned
  <2>7. QED
    BY <2>1, <2>6 DEF Booking!LedgerNext
<1>6. ASSUME NEW r \in DOMAIN gw, NEW status \in {"pending", "failed"}, NEW k,
             BookedIn(r, status, k), UNCHANGED gw
      PROVE  LedgerKept
  <2>1. pays'[k].status \in {"CREATED", "FAILED"}
    BY <1>6 DEF BookedIn, StatusOfEvent
  <2>2. k \notin RefundedRows(pays)
    BY <1>6, <1>a DEF BookedIn, RefundedRows, RowsMatch
  <2>3. RefundedRows(pays') = RefundedRows(pays)
    BY <1>6, <2>1, <2>2 DEF BookedIn, RefundedRows
  <2>4. \A i \in RefundedRows(pays) : pays'[i].ref = pays[i].ref
    BY <1>6, <2>2 DEF BookedIn, RefundedRows
  <2>5. Returned(pays') = Returned(pays) /\ Processed' = Processed
    BY <1>6, <2>3, <2>4 DEF Returned, Processed
  <2>6. QED
    BY <1>b, <2>5 DEF LedgerKept
<1>7. ASSUME NEW r \in DOMAIN gw, <<r, "processed">> \in events, NEW k,
             BookedIn(r, "processed", k), UNCHANGED gw
      PROVE  Booking!LedgerNext
  <2> DEFINE move == <<"refund", r>>
  <2>1. move \in {"charge", "refund"} \X (1..(MaxRows + MaxRefunds))
    BY <1>a
  <2>2. r \in Processed /\ Processed' = Processed
    BY <1>7, <1>a DEF EventsAreTrue, Processed
  <2>3. pays'[k].status = "REFUNDED"
    BY <1>7 DEF BookedIn, StatusOfEvent
  <2>4. k \notin RefundedRows(pays)
    BY <1>7, <1>a DEF BookedIn, RefundedRows, RowsMatch
  <2>5. RefundedRows(pays') = RefundedRows(pays) \cup {k}
    BY <1>7, <2>3, <2>4 DEF BookedIn, RefundedRows
  <2>6. /\ \A i \in RefundedRows(pays) : pays'[i].ref = pays[i].ref /\ pays[i].ref # r
        /\ pays'[k].ref = r
    BY <1>7, <2>4 DEF BookedIn, RefundedRows
  <2>7. r \notin Returned(pays) /\ Returned(pays') = Returned(pays) \cup {r}
    BY <2>5, <2>6 DEF Returned
  <2>8. /\ move \in ({"charge"} \X paid) \cup ({"refund"} \X Processed)
        /\ move \notin ({"charge"} \X CapturedRows(pays)) \cup ({"refund"} \X Returned(pays))
    BY <2>2, <2>7
  <2>9. ({"charge"} \X CapturedRows(pays')) \cup ({"refund"} \X Returned(pays'))
          = (({"charge"} \X CapturedRows(pays)) \cup ({"refund"} \X Returned(pays))) \cup {move}
    BY <1>b, <2>7
  <2> HIDE DEF move
  <2>10. Booking!Book(move)
    BY <1>b, <2>1, <2>2, <2>8, <2>9 DEF Booking!Book, Processed, Returned
  <2>11. QED
    BY <2>1, <2>10 DEF Booking!LedgerNext
<1>8. ASSUME NEW r, NEW status, ApplyRefundEvent(r, status) PROVE UNCHANGED gw
  BY <1>8 DEF ApplyRefundEvent
<1>9. QED
  BY <1>1, <1>2, <1>3, <1>4, <1>5, <1>6, <1>7, <1>8, RefundChanges

\* Billing with refunds implements Ledger: whoever reports a charge or a refund and
\* however often, it is booked at most once, only after the gateway has carried it
\* out, and for good (processCapture, processRefundEntity).
THEOREM BillingImplementsLedger == RefundSpec => ImplementsLedger
<1>1. RefundInit => Booking!LedgerInit
  <2> SUFFICES ASSUME RefundInit PROVE Booking!LedgerInit
    OBVIOUS
  <2>1. RefundInv /\ paid = {} /\ DOMAIN gw = {}
    <3>1. RefundInv
      BY RefundInitially
    <3>2. paid = {} /\ gw = <<>>
      BY DEF RefundInit
    <3>3. QED
      BY <3>1, <3>2
  <2>2. CapturedRows(pays) = {}
    BY <2>1 DEF RefundInv, OrdersFollowCalls
  <2>3. RefundedRows(pays) = {}
    BY <2>1 DEF RefundInv, RowsMatch, RefundedRows
  <2>4. QED
    BY <2>1, <2>2, <2>3 DEF Booking!LedgerInit
<1>2. RefundInv /\ [RefundNext]_refundVars => [Booking!LedgerNext]_(Booking!ledgerVars)
  <2> SUFFICES ASSUME RefundInv, [RefundNext]_refundVars
               PROVE  [Booking!LedgerNext]_(Booking!ledgerVars)
    OBVIOUS
  <2>1. CASE UNCHANGED refundVars
    <3>1. UNCHANGED <<pays, paid, gw>>
      BY <2>1 DEF refundVars
    <3>2. LedgerKept
      BY <3>1 DEF LedgerKept, Processed, Returned, CapturedRows, RefundedRows
    <3>3. QED
      BY <3>2, KeptStutters
  <2>2. QED
    BY <2>1, CheckoutBooks, RefundBooks DEF RefundNext
<1>3. QED
  BY <1>1, <1>2, RefundInvariance, PTL DEF RefundSpec, ImplementsLedger, Booking!LedgerSpec

-----------------------------------------------------------------------------
(* No more is promised than was captured.                                  *)

\* Rows that are neither added nor reopened promise no more than before.
LEMMA PromisesKept ==
  ASSUME pays \in Seq(PaymentRow), RefundsWithinCapture, DOMAIN pays' = DOMAIN pays,
         \A j \in DOMAIN pays : /\ pays'[j].kind = pays[j].kind
                                /\ pays'[j].amount = pays[j].amount
                                /\ pays'[j].parent = pays[j].parent,
         \A j \in DOMAIN pays : pays[j].kind = "REFUND" /\ pays[j].status = "FAILED"
                                  => pays'[j].status = "FAILED"
  PROVE  RefundsWithinCapture'
<1> SUFFICES ASSUME NEW i \in DOMAIN pays', pays'[i].kind # "REFUND"
             PROVE  TotalOf(pays', ReservedFrom(i)') <= pays'[i].amount
  BY DEF RefundsWithinCapture
<1> DEFINE R == ReservedFrom(i)
           N == ReservedFrom(i)'
<1>1. N \in SUBSET R /\ R \in SUBSET DOMAIN pays
  BY DEF ReservedFrom
<1>2. TotalOf(pays, R) <= pays[i].amount /\ pays[i].amount \in Nat
  BY CountedRows DEF RefundsWithinCapture
<1> HIDE DEF R, N
<1>3. /\ IsFiniteSet(R) /\ \A j \in R : pays[j].amount \in Nat
      /\ N \in SUBSET DOMAIN pays /\ IsFiniteSet(N) /\ \A j \in N : pays[j].amount \in Nat
  BY <1>1, CountedRows
<1>4. TotalOf(pays, N) <= TotalOf(pays, R) /\ TotalOf(pays, R) \in Nat /\ TotalOf(pays, N) \in Nat
  BY <1>1, <1>3, TotalGrows, TotalValue
<1>5. TotalOf(pays', N) = TotalOf(pays, N)
  BY <1>3, SameRowsSameTotal
<1>6. pays'[i].amount = pays[i].amount
  OBVIOUS
<1>7. QED
  BY <1>2, <1>4, <1>5, <1>6 DEF N

\* A new intent takes what is left of its charge, and no other one takes from it.
LEMMA RequestPromises ==
  ASSUME TypeOK, RefundsWithinCapture, Requested
  PROVE  RefundsWithinCapture'
<1> SUFFICES ASSUME NEW i \in DOMAIN pays', pays'[i].kind # "REFUND"
             PROVE  TotalOf(pays', ReservedFrom(i)') <= pays'[i].amount
  BY DEF RefundsWithinCapture
<1> DEFINE R == ReservedFrom(i)
           N == ReservedFrom(i)'
<1>a. /\ pays \in Seq(PaymentRow) /\ pays' \in Seq(PaymentRow)
      /\ i \in DOMAIN pays /\ pays'[i] = pays[i]
  BY DEF TypeOK, Requested
<1>1. TotalOf(pays, R) <= pays[i].amount /\ R \in SUBSET DOMAIN pays /\ pays[i].amount \in Nat
  BY <1>a, CountedRows DEF RefundsWithinCapture, ReservedFrom
<1>2. R \in SUBSET DOMAIN pays' /\ \A j \in R : pays'[j].amount = pays[j].amount
  BY DEF ReservedFrom, Requested
<1> HIDE DEF R
<1>3. TotalOf(pays', R) = TotalOf(pays, R)
  BY <1>a, <1>1, <1>2, SameRowsSameTotal
<1>4. \A j \in N : j \in DOMAIN pays => j \in R
  BY DEF ReservedFrom, Requested, R
<1>5. R \subseteq N
  BY DEF ReservedFrom, Requested, R
<1>6. CASE \E k \in N : k \notin DOMAIN pays
  <2>1. PICK k \in N : k \notin DOMAIN pays
    BY <1>6
  <2>2. k \in DOMAIN pays' \ DOMAIN pays /\ pays'[k].parent = i
    BY <2>1 DEF ReservedFrom
  <2>3. /\ pays'[k].amount \in Nat /\ pays'[k].amount > 0
        /\ pays'[k].amount <= Available(i)
    BY <2>2 DEF Requested
  <2>4. \A j \in N : j \notin DOMAIN pays => j = k
    BY <2>2 DEF ReservedFrom, Requested
  <2>5. N = R \cup {k} /\ k \notin R
    BY <1>1, <1>4, <1>5, <2>1, <2>4
  <2>6. Available(i) \in Nat /\ (Available(i) > 0 => TotalOf(pays, R) + Available(i) <= pays[i].amount)
    BY AvailableAmount DEF R
  <2>7. TotalOf(pays', R \cup {k}) = TotalOf(pays', R) + pays'[k].amount
    <3>1. R \cup {k} \in SUBSET DOMAIN pays' /\ R \in SUBSET DOMAIN pays'
      BY <1>2, <2>2
    <3>2. /\ IsFiniteSet(R)
          /\ \A j \in R \cup {k} : pays'[j].amount \in Nat
      BY <1>a, <3>1, CountedRows
    <3>3. QED
      BY <2>5, <3>2, TotalAdds
  <2>8. TotalOf(pays, R) \in Nat
    <3>1. IsFiniteSet(R) /\ \A j \in R : pays[j].amount \in Nat
      BY <1>a, <1>1, CountedRows
    <3>2. QED
      BY <3>1, TotalValue
  <2> HIDE DEF N
  <2>9. TotalOf(pays', N) = TotalOf(pays, R) + pays'[k].amount
    BY <1>3, <2>5, <2>7
  <2>10. TotalOf(pays', N) <= pays[i].amount
    BY <1>1, <2>3, <2>6, <2>8, <2>9
  <2>11. QED
    BY <1>a, <2>10 DEF N
<1>7. CASE \A k \in N : k \in DOMAIN pays
  <2>1. N = R
    BY <1>4, <1>5, <1>7
  <2> HIDE DEF N
  <2>2. TotalOf(pays', N) <= pays[i].amount
    BY <1>1, <1>3, <2>1
  <2>3. QED
    BY <1>a, <2>2 DEF N
<1>8. QED
  BY <1>6, <1>7

\* Without payment requests, a checkout's step leaves every refund's status.
LEMMA NoCallsNoRows ==
  ASSUME RefundInv, Calls = {}, CheckoutStep
  PROVE  /\ DOMAIN pays' = DOMAIN pays /\ UNCHANGED gw
         /\ \A j \in DOMAIN pays : /\ pays'[j].kind = pays[j].kind
                                   /\ pays'[j].amount = pays[j].amount
                                   /\ pays'[j].parent = pays[j].parent
                                   /\ pays'[j].ref = pays[j].ref
                                   /\ pays[j].kind = "REFUND" => pays'[j].status = pays[j].status
<1>a. /\ TypeOK /\ ChargesAreCharges /\ pays \in Seq(PaymentRow)
  BY DEF RefundInv, RefundTypeOK, TypeOK
<1>b. UNCHANGED gw /\ RefundsKept
  BY <1>a, CheckoutStepIsOne, CheckoutKeepsRefunds
<1>1. ASSUME NEW i \in DOMAIN pays, Age(i)
      PROVE  DOMAIN pays' = DOMAIN pays /\ \A j \in DOMAIN pays : pays'[j].status = pays[j].status
  <2>1. pays' = [pays EXCEPT ![i].fresh = FALSE]
    BY <1>1 DEF Age
  <2>2. QED
    BY <1>a, <2>1, ColumnUpdated, OtherColumnsKept
<1>2. ASSUME NEW i \in DOMAIN pays, Capture(i)
      PROVE  /\ DOMAIN pays' = DOMAIN pays
             /\ \A j \in DOMAIN pays : pays[j].kind = "REFUND" => pays'[j].status = pays[j].status
  <2>1. pays' = [pays EXCEPT ![i].status = "CAPTURED"] /\ pays[i].kind # "REFUND"
    BY <1>2, <1>a DEF Capture, Capturable, ChargesAreCharges
  <2>2. QED
    BY <1>a, <2>1
<1>3. CASE UNCHANGED pays
  BY <1>b, <1>3
<1>4. QED
  BY <1>b, <1>1, <1>2, <1>3
  DEF RefundsKept, CheckoutStep, RowNext, PayOrder, UploadProof, ScanProof, ApproveProof,
      ClarifyProof, RejectProof, WithdrawRead, WithdrawCommit, WithdrawRollback

\* With no further checkout and no dashboard refund, every step keeps the promises.
LEMMA ReservationsStep ==
  ASSUME Calls = {}, DashboardAmounts = {}, RefundInv, ReservationsHold,
         [RefundNext]_refundVars
  PROVE  ReservationsHold'
<1>a. /\ TypeOK /\ pays \in Seq(PaymentRow) /\ RowsMatch /\ EventsAreTrue
      /\ \A r \in DOMAIN gw : gw[r].intent # 0 => gw[r].intent \in DOMAIN pays
  BY DEF RefundInv, RefundTypeOK, TypeOK
<1>b. /\ \A r \in DOMAIN gw : gw[r].intent # 0
      /\ \A i \in DOMAIN pays : pays[i].kind = "REFUND" /\ pays[i].status = "FAILED" =>
           pays[i].ref # 0 /\ gw[pays[i].ref].status = "failed"
      /\ RefundsWithinCapture
  BY DEF ReservationsHold
<1>1. CASE CheckoutStep
  <2>1. /\ DOMAIN pays' = DOMAIN pays /\ UNCHANGED gw
        /\ \A j \in DOMAIN pays : /\ pays'[j].kind = pays[j].kind
                                  /\ pays'[j].amount = pays[j].amount
                                  /\ pays'[j].parent = pays[j].parent
                                  /\ pays'[j].ref = pays[j].ref
                                  /\ pays[j].kind = "REFUND" => pays'[j].status = pays[j].status
    BY <1>1, NoCallsNoRows
  <2>2. RefundsWithinCapture'
    BY <1>a, <1>b, <2>1, PromisesKept
  <2>3. QED
    BY <1>b, <2>1, <2>2 DEF ReservationsHold
<1>2. CASE Requested /\ UNCHANGED gw
  <2>1. RefundsWithinCapture'
    BY <1>a, <1>b, <1>2, RequestPromises
  <2>2. QED
    BY <1>b, <1>2, <2>1 DEF ReservationsHold, Requested
<1>3. ASSUME NEW i \in DOMAIN pays, Accepted(pays[i].parent, pays[i].amount, i)
      PROVE  ReservationsHold'
  <2> DEFINE n == Len(gw) + 1
  <2>1. /\ DOMAIN gw' = DOMAIN gw \cup {n} /\ \A r \in DOMAIN gw : gw'[r] = gw[r]
        /\ gw'[n].intent = i /\ UNCHANGED pays
    BY <1>3 DEF Accepted, checkoutVars
  <2> HIDE DEF n
  <2>2. i # 0
    BY <1>a
  <2>3. \A r \in DOMAIN gw' : gw'[r].intent # 0
    BY <1>b, <2>1, <2>2
  <2>4. RefundsWithinCapture'
    BY <1>b, <2>1 DEF RefundsWithinCapture, ReservedFrom
  <2>5. \A j \in DOMAIN pays : pays[j].ref # 0 => gw'[pays[j].ref] = gw[pays[j].ref]
    BY <1>a, <2>1 DEF RowsMatch
  <2>6. QED
    BY <1>b, <2>1, <2>3, <2>4, <2>5 DEF ReservationsHold
<1>4. ASSUME NEW r \in DOMAIN gw, NEW status \in {"processed", "failed"}, Settled(r, status)
      PROVE  ReservationsHold'
  <2>1. /\ DOMAIN gw' = DOMAIN gw /\ \A s \in DOMAIN gw \ {r} : gw'[s] = gw[s]
        /\ gw[r].status = "pending" /\ gw'[r].intent = gw[r].intent /\ UNCHANGED pays
    BY <1>4 DEF Settled, checkoutVars
  <2>2. RefundsWithinCapture'
    BY <1>b, <2>1 DEF RefundsWithinCapture, ReservedFrom
  <2>3. \A s \in DOMAIN gw' : gw'[s].intent # 0
    BY <1>b, <2>1
  <2>4. \A j \in DOMAIN pays : pays[j].ref # 0 /\ gw[pays[j].ref].status = "failed"
                                 => gw'[pays[j].ref].status = "failed"
    BY <1>a, <2>1 DEF RowsMatch
  <2>5. QED
    BY <1>b, <2>1, <2>2, <2>3, <2>4 DEF ReservationsHold
<1>5. ASSUME NEW r \in DOMAIN gw, NEW status \in {"pending", "processed", "failed"}, NEW k,
             <<r, status>> \in events, r # 0, BookedIn(r, status, k), UNCHANGED gw
      PROVE  ReservationsHold'
  <2>1. k \in DOMAIN pays /\ gw[r].intent = k
    BY <1>5, <1>a, <1>b DEF BookedIn
  <2>2. /\ DOMAIN pays' = DOMAIN pays /\ \A j \in DOMAIN pays \ {k} : pays'[j] = pays[j]
        /\ pays'[k].kind = "REFUND" /\ pays'[k].status = StatusOfEvent(status)
        /\ pays'[k].ref = r /\ pays'[k].parent = pays[k].parent
        /\ pays'[k].amount = pays[k].amount /\ pays[k].kind = "REFUND"
        /\ pays[k].ref \in {0, r} /\ (pays[k].status = "FAILED" => status # "pending")
    BY <1>5, <2>1 DEF BookedIn
  <2>3. pays[k].status = "FAILED" => status = "failed"
    <3>1. SUFFICES ASSUME pays[k].status = "FAILED" PROVE status = "failed"
      OBVIOUS
    <3>2. gw[r].status = "failed"
      BY <1>b, <2>1, <2>2, <3>1
    <3>3. status = "pending" \/ gw[r].status = status
      BY <1>5, <1>a DEF EventsAreTrue
    <3>4. QED
      BY <2>2, <3>1, <3>2, <3>3
  <2>4. pays[k].status = "FAILED" => pays'[k].status = "FAILED"
    BY <2>2, <2>3 DEF StatusOfEvent
  <2>5. RefundsWithinCapture'
    BY <1>a, <1>b, <2>2, <2>4, PromisesKept
  <2>6. pays'[k].status = "FAILED" => gw[r].status = "failed"
    <3>1. pays'[k].status = "FAILED" => status = "failed"
      BY <2>2 DEF StatusOfEvent
    <3>2. QED
      BY <1>5, <1>a, <3>1 DEF EventsAreTrue
  <2>7. QED
    BY <1>5, <1>b, <2>1, <2>2, <2>5, <2>6 DEF ReservationsHold
<1>6. CASE UNCHANGED refundVars
  <2>1. UNCHANGED <<pays, gw>>
    BY <1>6 DEF refundVars
  <2>2. QED
    BY <1>b, <2>1 DEF ReservationsHold, RefundsWithinCapture, ReservedFrom
<1>7. ASSUME NEW r, NEW status, ApplyRefundEvent(r, status) PROVE UNCHANGED gw
  BY <1>7 DEF ApplyRefundEvent
<1>8. CASE RefundStep
  BY <1>2, <1>3, <1>4, <1>5, <1>7, <1>8, RefundChanges
<1>9. QED
  BY <1>1, <1>6, <1>8 DEF RefundNext

\* When the payer opens no further checkout and nobody refunds at the gateway's
\* dashboard, refund never promises more than was captured, row by row, counting the
\* refunds whose outcome is not known.  Both hypotheses are needed: a checkout that
\* supersedes an open intent frees its reservation (SupersedeNewest looks at no
\* kind), and a dashboard refund is not reserved at all.
THEOREM PromisesAreCovered ==
  ASSUME Calls = {}, DashboardAmounts = {}
  PROVE  RefundSpec => []RefundsWithinCapture
<1>1. RefundInit => ReservationsHold
  <2> SUFFICES ASSUME RefundInit PROVE ReservationsHold
    OBVIOUS
  <2>1. RefundInv
    BY RefundInitially
  <2>2. gw = <<>> /\ paid = {}
    BY DEF RefundInit
  <2>3. DOMAIN gw = {}
    BY <2>2
  <2>4. \A i \in DOMAIN pays : pays[i].kind # "REFUND" /\ pays[i].amount \in Nat
    <3>1. PICK fee \in Nat : pays = TwoOrders(fee)
      BY FeeType DEF RefundInit
    <3>2. DOMAIN pays = {1, 2}
      BY <3>1 DEF TwoOrders
    <3>3. pays[1].kind = "INITIAL" /\ pays[2].kind = "INITIAL"
      BY <3>1 DEF TwoOrders, NewRow
    <3>4. QED
      BY <2>1, <3>2, <3>3, CountedRows DEF RefundInv, RefundTypeOK, TypeOK
  <2>5. \A i : ReservedFrom(i) = {}
    BY <2>4 DEF ReservedFrom
  <2>6. TotalOf(pays, {}) = 0
    BY FS_EmptySet, TotalValue
  <2>7. RefundsWithinCapture
    BY <2>4, <2>5, <2>6 DEF RefundsWithinCapture
  <2>8. QED
    BY <2>3, <2>4, <2>7 DEF ReservationsHold
<1>2. RefundInv /\ ReservationsHold /\ [RefundNext]_refundVars => ReservationsHold'
  BY ReservationsStep
<1>3. ReservationsHold => RefundsWithinCapture
  BY DEF ReservationsHold
<1>4. QED
  BY <1>1, <1>2, <1>3, RefundInvariance, PTL DEF RefundSpec

=============================================================================
