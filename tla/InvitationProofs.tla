---------------------------- MODULE InvitationProofs ----------------------------
(***************************************************************************)
(* Theorems about Invitations, for any addresses, requests, requestId's    *)
(* and batch, and any bounds.                                              *)
(*                                                                         *)
(* That retries invite once is not inductive.  A requestId has created a   *)
(* row only if its answer is recorded in the same transaction              *)
(* (AnswersRecorded), and every row of the batch belongs to an address     *)
(* among the results committed with it (BatchRecorded); a web request acts *)
(* on the row its link was found in (RequestsKnowRows).  With the types,   *)
(* IInv is inductive.  RowChanges says what any step does to the table of  *)
(* invitations, and every theorem follows from it.                         *)
(***************************************************************************)
EXTENDS Invitations, TLAPS

\* A request that found a link knows the address of its row.
RequestsKnowRows ==
  \A q \in Requests :
    /\ req[q].pc = "link" =>
         req[q].row \in DOMAIN rows /\ req[q].email = rows[req[q].row].email
    /\ req[q].pc = "issue" => req[q].email \in Emails

\* Each invitation of a requestId was committed with its answer, and is its only one.
AnswersRecorded ==
  \A i \in DOMAIN rows : rows[i].by \in BotRequests =>
    /\ bot[rows[i].by] = "done"
    /\ \A j \in DOMAIN rows : rows[i].by = rows[j].by => i = j

\* Each invitation of the batch was committed with its result, and is the only
\* one for its address.
BatchRecorded ==
  \A i \in DOMAIN rows : rows[i].by = Batch =>
    /\ \E m \in 1..Processed : BatchInput[m] = rows[i].email
    /\ \A j \in DOMAIN rows : rows[j].by = Batch /\ rows[i].email = rows[j].email => i = j

IInv ==
  /\ InvitationTypeOK
  /\ RequestsKnowRows
  /\ AnswersRecorded
  /\ BatchRecorded

-----------------------------------------------------------------------------
(* Invitations and their life cycle.                                       *)

\* The state of an invitation in terms of its columns.
LEMMA LifecycleOf ==
  ASSUME NEW v \in InvitationRow
  PROVE  /\ Lifecycle(v) = "ACTIVE" <=> ~v.revoked /\ v.status = "PENDING" /\ ~v.lapsed
         /\ Lifecycle(v) \in Closed <=> v.revoked \/ v.status \in {"ACCEPTED", "DECLINED"}
<1>1. v.revoked \in BOOLEAN /\ v.status \in Status /\ v.lapsed \in BOOLEAN
  BY DEF InvitationRow
<1>2. CASE v.revoked
  <2>1. Lifecycle(v) = "REVOKED"
    BY <1>2 DEF Lifecycle
  <2>2. QED
    BY <1>2, <2>1 DEF Closed
<1>3. CASE ~v.revoked /\ v.status \in {"ACCEPTED", "DECLINED"}
  <2>1. Lifecycle(v) = v.status
    BY <1>3 DEF Lifecycle
  <2>2. QED
    BY <1>3, <2>1 DEF Closed
<1>4. CASE ~v.revoked /\ v.status \notin {"ACCEPTED", "DECLINED"}
  <2>1. Lifecycle(v) = IF v.status = "EXPIRED" \/ v.lapsed THEN "EXPIRED" ELSE "ACTIVE"
    BY <1>4 DEF Lifecycle
  <2>2. QED
    BY <1>1, <1>4, <2>1 DEF Closed, Status
<1>5. QED
  BY <1>2, <1>3, <1>4

\* The rows of the table, and their types.
LEMMA RowType ==
  ASSUME InvitationTypeOK
  PROVE  /\ rows \in Seq(InvitationRow) /\ Len(rows) \in Nat /\ DOMAIN rows = 1..Len(rows)
         /\ \A i \in DOMAIN rows :
              /\ rows[i] \in InvitationRow /\ rows[i].email \in Emails
              /\ rows[i].status \in Status /\ rows[i].link \in 0..MaxReissues
              /\ rows[i].revoked => rows[i].status = "EXPIRED"
<1>1. rows \in Seq(InvitationRow)
  BY DEF InvitationTypeOK
<1>2. \A i \in DOMAIN rows : rows[i] \in InvitationRow
  BY <1>1
<1>3. \A i \in DOMAIN rows : rows[i].revoked => rows[i].status = "EXPIRED"
  BY DEF InvitationTypeOK
<1>4. QED
  BY <1>1, <1>2, <1>3 DEF InvitationRow

\* A web request and the row it names.
LEMMA RequestType ==
  ASSUME InvitationTypeOK, NEW q \in Requests
  PROVE  /\ req[q].pc \in {"idle", "issue", "link"}
         /\ req[q].email \in Emails \cup {NoEmail}
         /\ req[q].row \in 0..Len(rows) /\ req[q].link \in 0..MaxReissues
  BY DEF InvitationTypeOK

-----------------------------------------------------------------------------
(* How one step changes the table.                                         *)

\* Who adds an invitation, and what it knows when it does.
Adds(e, origin) ==
  /\ Create(e, origin) /\ ActiveFor(e) = {}
  /\ \/ origin = Web /\ bot' = bot /\ batch' = batch
     \/ /\ origin \in BotRequests /\ bot[origin] = "read"
        /\ bot' = [bot EXCEPT ![origin] = "done"] /\ batch' = batch
     \/ /\ origin = Batch /\ bot' = bot
        /\ Processed + 1 \in 1..Len(BatchInput)
        /\ e = BatchInput[Processed + 1] /\ ~DuplicateInBatch(Processed + 1)
        /\ Len(batch'.results) = Processed + 1

\* An invitation that was not closed is answered, revived, revoked or expired.
Updates(i, w) ==
  /\ rows' = [rows EXCEPT ![i] = w] /\ bot' = bot /\ batch' = batch
  /\ w \in InvitationRow /\ w.email = rows[i].email /\ w.by = rows[i].by
  /\ w.revoked => w.status = "EXPIRED"
  /\ Lifecycle(rows[i]) \notin Closed
  /\ w.status = "ACCEPTED" => Lifecycle(rows[i]) = "ACTIVE"
  /\ w.status \in {"ACCEPTED", "DECLINED"} =>
       \E q \in Requests : req[q].row = i /\ req[q].link = rows[i].link
  /\ Lifecycle(rows[i]) = "ACTIVE" /\ w.status = "EXPIRED" => w.revoked

\* An update of an invitation that the code makes leaves an invitation.
LEMMA InvitationUpdates ==
  ASSUME NEW v \in InvitationRow
  PROVE  /\ \A s \in Status :
              LET w == [v EXCEPT !.status = s]
              IN  /\ w \in InvitationRow /\ w.email = v.email /\ w.by = v.by
                  /\ w.status = s /\ w.revoked = v.revoked
         /\ LET w == [v EXCEPT !.lapsed = TRUE]
            IN  /\ w \in InvitationRow /\ w.email = v.email /\ w.by = v.by
                /\ w.status = v.status /\ w.revoked = v.revoked
         /\ LET w == [v EXCEPT !.status = "PENDING", !.lapsed = FALSE]
            IN  /\ w \in InvitationRow /\ w.email = v.email /\ w.by = v.by
                /\ w.status = "PENDING" /\ w.revoked = v.revoked
         /\ LET w == [v EXCEPT !.status = "EXPIRED", !.revoked = TRUE]
            IN  /\ w \in InvitationRow /\ w.email = v.email /\ w.by = v.by
                /\ w.status = "EXPIRED" /\ w.revoked
<1>1. \A s \in Status :
              LET w == [v EXCEPT !.status = s]
              IN  /\ w \in InvitationRow /\ w.email = v.email /\ w.by = v.by
                  /\ w.status = s /\ w.revoked = v.revoked
  BY DEF InvitationRow
<1>2. LET w == [v EXCEPT !.lapsed = TRUE]
            IN  /\ w \in InvitationRow /\ w.email = v.email /\ w.by = v.by
                /\ w.status = v.status /\ w.revoked = v.revoked
  BY DEF InvitationRow
<1>3. LET w == [v EXCEPT !.status = "PENDING", !.lapsed = FALSE]
            IN  /\ w \in InvitationRow /\ w.email = v.email /\ w.by = v.by
                /\ w.status = "PENDING" /\ w.revoked = v.revoked
  BY DEF InvitationRow, Status
<1>4. LET w == [v EXCEPT !.status = "EXPIRED", !.revoked = TRUE]
            IN  /\ w \in InvitationRow /\ w.email = v.email /\ w.by = v.by
                /\ w.status = "EXPIRED" /\ w.revoked
  BY DEF InvitationRow, Status
<1>5. QED
  BY <1>1, <1>2, <1>3, <1>4

\* Every step leaves the table alone, adds a row, or updates one row.
LEMMA RowChanges ==
  ASSUME IInv, Next
  PROVE  \/ rows' = rows
         \/ \E e \in Emails, o \in BotRequests \cup {Web, Batch} : Adds(e, o)
         \/ \E i \in DOMAIN rows, w \in InvitationRow : Updates(i, w)
<1> DEFINE Goal == \/ rows' = rows
                   \/ \E e \in Emails, o \in BotRequests \cup {Web, Batch} : Adds(e, o)
                   \/ \E i \in DOMAIN rows, w \in InvitationRow : Updates(i, w)
<1>0. InvitationTypeOK
  BY DEF IInv
<1>1. ASSUME NEW q \in Requests, WebStep(q)
      PROVE  Goal
  <2>1. ASSUME Issue(q)
        PROVE  Adds(req[q].email, Web) /\ req[q].email \in Emails
    BY <2>1 DEF Issue, Issuable, Adds, IInv, RequestsKnowRows
  <2>2. ASSUME Accept(q) \/ Decline(q)
        PROVE  Goal
    <3> DEFINE k == req[q].row
    <3>0. PICK s \in {"ACCEPTED", "DECLINED"} : rows' = [rows EXCEPT ![k].status = s]
      BY <2>2 DEF Accept, Decline
    <3> DEFINE v == [rows[k] EXCEPT !.status = s]
    <3>1. k \in DOMAIN rows /\ rows[k] \in InvitationRow
      BY <1>0, <2>2, RowType DEF Accept, Decline, IInv, RequestsKnowRows
    <3>2. /\ v \in InvitationRow /\ v.email = rows[k].email /\ v.by = rows[k].by
          /\ v.status \in {"ACCEPTED", "DECLINED"} /\ v.revoked = rows[k].revoked
      BY <3>1 DEF InvitationRow, Status
    <3>3. Lifecycle(rows[k]) = "ACTIVE" /\ req[q].link = rows[k].link
          /\ rows' = [rows EXCEPT ![k] = v] /\ bot' = bot /\ batch' = batch
      BY <2>2, <3>0 DEF Accept, Decline, Acceptable, LinkMatches
    <3>4. ~v.revoked
      BY <3>1, <3>2, <3>3, LifecycleOf
    <3> HIDE DEF v
    <3>5. Updates(k, v)
      BY <3>1, <3>2, <3>3, <3>4 DEF Updates, Closed
    <3>6. QED
      BY <3>1, <3>2, <3>5
  <2>3. ASSUME \/ \E e \in Invited : LoadIssue(q, e)
               \/ \E i \in DOMAIN rows : OpenLink(q, i)
               \/ Stop(q)
        PROVE  rows' = rows
    BY <2>3 DEF LoadIssue, OpenLink, Stop
  <2>4. QED
    BY <1>1, <2>1, <2>2, <2>3 DEF WebStep
<1>2. ASSUME NEW k \in BotRequests, BotStep(k)
      PROVE  Goal
  <2>1. ASSUME NEW e \in Invited, BotGenerate(k, e), rows' # rows
        PROVE  Adds(e, k) /\ e \in Emails
    BY <2>1, AddressesAreEmails DEF BotGenerate, Recorded, Adds
  <2>2. ASSUME BotRead(k) \/ BotRetry(k)
        PROVE  rows' = rows
    BY <2>2 DEF BotRead, BotRetry
  <2>3. QED
    BY <1>2, <2>1, <2>2 DEF BotStep
<1>3. ASSUME NEW i \in DOMAIN rows, RowStep(i)
      PROVE  Goal
  <2>0. rows[i] \in InvitationRow /\ rows[i].email \in Emails
        /\ (rows[i].revoked => rows[i].status = "EXPIRED") /\ rows[i].link \in 0..MaxReissues
    BY <1>0, RowType
  <2>1. ASSUME NEW w, w \in InvitationRow, w.email = rows[i].email, w.by = rows[i].by,
               w.status \in {"PENDING", "EXPIRED"}, w.revoked => w.status = "EXPIRED",
               Lifecycle(rows[i]) \notin Closed,
               Lifecycle(rows[i]) = "ACTIVE" /\ w.status = "EXPIRED" => w.revoked,
               rows' = [rows EXCEPT ![i] = w], bot' = bot, batch' = batch
        PROVE  Goal
    <3>1. Updates(i, w)
      BY <2>1 DEF Updates
    <3>2. QED
      BY <2>1, <3>1
  <2>2. CASE Lapse(i)
    <3> DEFINE v == [rows[i] EXCEPT !.lapsed = TRUE]
    <3>1. /\ v \in InvitationRow /\ v.email = rows[i].email /\ v.by = rows[i].by
          /\ v.status = rows[i].status /\ v.revoked = rows[i].revoked
      BY <2>0, InvitationUpdates
    <3>2. /\ rows[i].status = "PENDING" /\ rows' = [rows EXCEPT ![i] = v]
          /\ bot' = bot /\ batch' = batch
      BY <2>2 DEF Lapse
    <3> HIDE DEF v
    <3>3. Lifecycle(rows[i]) \notin Closed /\ ~v.revoked
      BY <2>0, <3>1, <3>2, LifecycleOf
    <3>4. QED
      BY <2>1, <3>1, <3>2, <3>3
  <2>3. CASE Reinvite(i)
    <3>1. Adds(rows[i].email, Web)
      BY <2>3 DEF Reinvite, Adds
    <3>2. QED
      BY <2>0, <3>1
  <2>4. CASE Reissue(i)
    <3> DEFINE m == rows[i].link + 1
               v == [rows[i] EXCEPT !.status = "PENDING", !.lapsed = FALSE, !.link = m]
    <3>0. rows' = [rows EXCEPT ![i] = v]
      BY <2>4 DEF Reissue
    <3>1. m \in 0..MaxReissues
      BY <2>0, <2>4, InvitationBounds DEF Reissue
    <3> HIDE DEF m
    <3>2. /\ v \in InvitationRow /\ v.email = rows[i].email /\ v.by = rows[i].by
          /\ v.status = "PENDING" /\ v.revoked = rows[i].revoked
      BY <2>0, <3>1 DEF InvitationRow, Status
    <3>3. /\ Lifecycle(rows[i]) \notin Closed /\ rows' = [rows EXCEPT ![i] = v]
          /\ bot' = bot /\ batch' = batch
      BY <2>4, <3>0 DEF Reissue
    <3> HIDE DEF v
    <3>4. ~v.revoked
      BY <2>0, <3>2, <3>3, LifecycleOf
    <3>5. QED
      BY <2>1, <3>2, <3>3, <3>4
  <2>5. CASE Resend(i)
    <3> DEFINE v == [rows[i] EXCEPT !.status = "PENDING", !.lapsed = FALSE]
    <3>1. /\ v \in InvitationRow /\ v.email = rows[i].email /\ v.by = rows[i].by
          /\ v.status = "PENDING" /\ v.revoked = rows[i].revoked
      BY <2>0, InvitationUpdates
    <3>2. /\ Resendable(rows[i]) /\ rows' = [rows EXCEPT ![i] = v]
          /\ bot' = bot /\ batch' = batch
      BY <2>5 DEF Resend
    <3> HIDE DEF v
    <3>3. Lifecycle(rows[i]) \notin Closed /\ ~v.revoked
      BY <2>0, <3>1, <3>2, LifecycleOf DEF Resendable
    <3>4. QED
      BY <2>1, <3>1, <3>2, <3>3
  <2>6. CASE Revoke(i) \/ Remove(i)
    <3> DEFINE v == [rows[i] EXCEPT !.status = "EXPIRED", !.revoked = TRUE]
    <3>1. /\ v \in InvitationRow /\ v.email = rows[i].email /\ v.by = rows[i].by
          /\ v.status = "EXPIRED" /\ v.revoked
      BY <2>0, InvitationUpdates
    <3>2. /\ Lifecycle(rows[i]) \notin Closed /\ rows' = [rows EXCEPT ![i] = v]
          /\ bot' = bot /\ batch' = batch
      BY <2>6 DEF Remove, Revoke
    <3> HIDE DEF v
    <3>3. QED
      BY <2>1, <3>1, <3>2
  <2>7. CASE SweepExpire(i)
    <3> DEFINE v == [rows[i] EXCEPT !.status = "EXPIRED"]
    <3>1. CASE ~StillExpirable(i)
      BY <2>7, <3>1 DEF SweepExpire
    <3>2. CASE StillExpirable(i)
      <4>1. /\ v \in InvitationRow /\ v.email = rows[i].email /\ v.by = rows[i].by
            /\ v.status = "EXPIRED" /\ v.revoked = rows[i].revoked
        BY <2>0, InvitationUpdates DEF Status
      <4>2. rows' = [rows EXCEPT ![i] = v] /\ bot' = bot /\ batch' = batch
        BY <2>7, <3>2 DEF SweepExpire
      <4>3. Lifecycle(rows[i]) \notin Closed /\ Lifecycle(rows[i]) # "ACTIVE"
        BY <2>0, <3>2, LifecycleOf DEF StillExpirable, Expirable
      <4> HIDE DEF v
      <4>4. QED
        BY <2>1, <4>1, <4>2, <4>3
    <3>3. QED
      BY <3>1, <3>2
  <2>8. QED
    BY <1>3, <2>2, <2>3, <2>4, <2>5, <2>6, <2>7 DEF RowStep
<1>4. ASSUME ProcessChunk, rows' # rows
      PROVE  Goal
  <2> DEFINE n == Processed + 1
             e == BatchInput[n]
  <2>1. /\ n <= Len(BatchInput) /\ n \in 1..Len(BatchInput) /\ e \in Emails
        /\ batch.results \in Seq(Outcome)
    BY <1>0, <1>4, InputIsAddresses DEF ProcessChunk, Processed, InvitationTypeOK
  <2>2. OutcomeOf(n) = "CREATED" /\ Create(e, Batch) /\ bot' = bot
    BY <1>4 DEF ProcessChunk
  <2>3. Len(batch'.results) = n
    <3>1. batch'.results = Append(batch.results, OutcomeOf(n))
      BY <1>4 DEF ProcessChunk
    <3>2. QED
      BY <2>1, <3>1 DEF Processed
  <2>4. ~DuplicateInBatch(n) /\ ActiveFor(e) = {}
    BY <2>2 DEF OutcomeOf
  <2>5. Adds(e, Batch)
    BY <2>1, <2>2, <2>3, <2>4 DEF Adds
  <2>6. QED
    BY <2>1, <2>5
<1>5. ASSUME \/ \E e \in Emails : GrantRole(e) \/ RevokeRole(e)
             \/ \E status \in {"CANCELLED", "FAILED"} : EndBatch(status)
             \/ SweepList
      PROVE  rows' = rows
  BY <1>5 DEF GrantRole, RevokeRole, EndBatch, SweepList
<1>6. QED
  BY <1>1, <1>2, <1>3, <1>4, <1>5, AddressesAreEmails DEF Next

-----------------------------------------------------------------------------
(* The invariant is preserved.                                             *)

\* The table keeps its rows, in their places, with their addresses and origins.
LEMMA TableStep ==
  ASSUME IInv, Next
  PROVE  /\ rows' \in Seq(InvitationRow) /\ Len(rows') <= MaxRows
         /\ Len(rows') \in Nat /\ Len(rows) <= Len(rows')
         /\ DOMAIN rows \subseteq DOMAIN rows'
         /\ \A i \in DOMAIN rows :
              rows'[i].email = rows[i].email /\ rows'[i].by = rows[i].by
         /\ \A i \in DOMAIN rows' : rows'[i].revoked => rows'[i].status = "EXPIRED"
<1> DEFINE Goal ==
         /\ rows' \in Seq(InvitationRow) /\ Len(rows') <= MaxRows
         /\ Len(rows') \in Nat /\ Len(rows) <= Len(rows')
         /\ DOMAIN rows \subseteq DOMAIN rows'
         /\ \A i \in DOMAIN rows :
              rows'[i].email = rows[i].email /\ rows'[i].by = rows[i].by
         /\ \A i \in DOMAIN rows' : rows'[i].revoked => rows'[i].status = "EXPIRED"
<1>0. InvitationTypeOK /\ Len(rows) <= MaxRows
  BY DEF IInv, InvitationTypeOK
<1>1. ASSUME rows' = rows
      PROVE  Goal
  BY <1>0, <1>1, RowType
<1>2. ASSUME NEW e \in Emails, NEW o \in BotRequests \cup {Web, Batch}, Adds(e, o)
      PROVE  Goal
  <2>1. NewRow(e, o) \in InvitationRow /\ ~NewRow(e, o).revoked
    BY InvitationBounds DEF NewRow, InvitationRow, Status
  <2>2. rows' = Append(rows, NewRow(e, o)) /\ Len(rows) < MaxRows
    BY <1>2 DEF Adds, Create
  <2>3. rows' \in Seq(InvitationRow) /\ Len(rows') = Len(rows) + 1
        /\ \A i \in DOMAIN rows : rows'[i] = rows[i]
        /\ rows'[Len(rows) + 1] = NewRow(e, o)
    BY <1>0, <2>1, <2>2, RowType
  <2>4. QED
    BY <1>0, <2>1, <2>2, <2>3, RowType, InvitationBounds
<1>3. ASSUME NEW i \in DOMAIN rows, NEW w \in InvitationRow, Updates(i, w)
      PROVE  Goal
  <2>1. /\ rows' = [rows EXCEPT ![i] = w] /\ w.email = rows[i].email /\ w.by = rows[i].by
        /\ w.revoked => w.status = "EXPIRED"
    BY <1>3 DEF Updates
  <2>2. rows' \in Seq(InvitationRow) /\ Len(rows') = Len(rows) /\ DOMAIN rows' = DOMAIN rows
        /\ \A j \in DOMAIN rows : rows'[j] = IF j = i THEN w ELSE rows[j]
    BY <1>0, <2>1, RowType
  <2>3. QED
    BY <1>0, <2>1, <2>2, RowType
<1>4. QED
  BY <1>1, <1>2, <1>3, RowChanges

\* An answer that is recorded stays recorded, and no result is lost.
LEMMA RecordsStep ==
  ASSUME IInv, Next
  PROVE  /\ bot' \in [BotRequests -> {"new", "read", "done"}]
         /\ \A k \in BotRequests : bot[k] = "done" => bot'[k] = "done"
         /\ batch' \in [status : {"QUEUED", "RUNNING", "COMPLETED", "CANCELLED", "FAILED"},
                        results : Seq(Outcome)]
         /\ Processed' <= Len(BatchInput) /\ Processed <= Processed' /\ Processed' \in Nat
<1> DEFINE BatchTable == [status : {"QUEUED", "RUNNING", "COMPLETED", "CANCELLED", "FAILED"},
                          results : Seq(Outcome)]
<1>0. /\ bot \in [BotRequests -> {"new", "read", "done"}] /\ batch \in BatchTable
      /\ Processed <= Len(BatchInput) /\ Processed = Len(batch.results)
      /\ Processed' = Len(batch'.results)
  BY DEF IInv, InvitationTypeOK, Processed
<1>1. Processed \in Nat
  BY <1>0
<1>2. ASSUME NEW k \in BotRequests, BotStep(k)
      PROVE  /\ bot' \in [BotRequests -> {"new", "read", "done"}] /\ batch' = batch
             /\ \A j \in BotRequests : bot[j] = "done" => bot'[j] = "done"
  BY <1>0, <1>2 DEF BotStep, BotRead, BotGenerate, Recorded, BotRetry
<1>3. ASSUME ProcessChunk
      PROVE  /\ batch' \in BatchTable /\ Processed' = Processed + 1
             /\ Processed' <= Len(BatchInput) /\ bot' = bot
  <2>1. OutcomeOf(Processed + 1) \in Outcome
    BY DEF OutcomeOf, Outcome
  <2>2. Append(batch.results, OutcomeOf(Processed + 1)) \in Seq(Outcome)
        /\ Len(Append(batch.results, OutcomeOf(Processed + 1))) = Processed + 1
    BY <1>0, <2>1
  <2>3. QED
    BY <1>0, <1>3, <2>2 DEF ProcessChunk
<1>4. ASSUME NEW s \in {"CANCELLED", "FAILED"}, EndBatch(s)
      PROVE  batch' \in BatchTable /\ batch'.results = batch.results /\ bot' = bot
  BY <1>0, <1>4 DEF EndBatch
<1>5. ASSUME \/ \E q \in Requests : WebStep(q)
             \/ \E i \in DOMAIN rows : RowStep(i)
             \/ \E e \in Emails : GrantRole(e) \/ RevokeRole(e)
             \/ SweepList
      PROVE  bot' = bot /\ batch' = batch
  BY <1>5 DEF WebStep, LoadIssue, Issue, OpenLink, Accept, Decline, Stop, RowStep, Lapse,
              Reinvite, Reissue, Resend, Revoke, Remove, SweepExpire, GrantRole, RevokeRole,
              SweepList
<1>6. QED
  BY <1>0, <1>1, <1>2, <1>3, <1>4, <1>5, AddressesAreEmails DEF Next

\* A web request still names a row of its address.
LEMMA RequestStep ==
  ASSUME IInv, Next
  PROVE  /\ req' \in [Requests -> [pc : {"idle", "issue", "link"},
                                   email : Emails \cup {NoEmail},
                                   row : 0..Len(rows'), link : 0..MaxReissues]]
         /\ RequestsKnowRows'
<1> DEFINE Req(n) == [pc : {"idle", "issue", "link"}, email : Emails \cup {NoEmail},
                      row : 0..n, link : 0..MaxReissues]
<1>0. /\ InvitationTypeOK /\ req \in [Requests -> Req(Len(rows))]
      /\ RequestsKnowRows /\ Len(rows) \in Nat /\ Len(rows') \in Nat
      /\ Len(rows) <= Len(rows') /\ DOMAIN rows = 1..Len(rows)
  BY RowType, TableStep DEF IInv, InvitationTypeOK
<1>1. Req(Len(rows)) \subseteq Req(Len(rows'))
  BY <1>0
<1>2. IdleReq \in Req(Len(rows))
  BY <1>0, InvitationBounds DEF IdleReq
<1>3. ASSUME NEW q \in Requests, NEW v \in Req(Len(rows)), req' = [req EXCEPT ![q] = v],
             v.pc = "link" => v.row \in DOMAIN rows /\ v.email = rows[v.row].email,
             v.pc = "issue" => v.email \in Emails
      PROVE  req' \in [Requests -> Req(Len(rows'))] /\ RequestsKnowRows'
  <2>1. req' \in [Requests -> Req(Len(rows'))]
    BY <1>0, <1>1, <1>3
  <2>2. RequestsKnowRows'
    BY <1>0, <1>3, TableStep DEF RequestsKnowRows
  <2>3. QED
    BY <2>1, <2>2
<1>4. ASSUME NEW q \in Requests, req' = [req EXCEPT ![q] = IdleReq]
      PROVE  req' \in [Requests -> Req(Len(rows'))] /\ RequestsKnowRows'
  BY <1>2, <1>3, <1>4 DEF IdleReq
<1>5. ASSUME NEW q \in Requests, NEW e \in Invited, LoadIssue(q, e)
      PROVE  req' \in [Requests -> Req(Len(rows'))] /\ RequestsKnowRows'
  <2> DEFINE v == [IdleReq EXCEPT !.pc = "issue", !.email = e]
  <2>1. v \in Req(Len(rows)) /\ v.pc = "issue" /\ v.email = e /\ e \in Emails
    BY <1>2, AddressesAreEmails DEF IdleReq
  <2>2. req' = [req EXCEPT ![q] = v]
    BY <1>5 DEF LoadIssue
  <2> HIDE DEF v
  <2>3. QED
    BY <1>3, <2>1, <2>2
<1>6. ASSUME NEW q \in Requests, NEW i \in DOMAIN rows, OpenLink(q, i)
      PROVE  req' \in [Requests -> Req(Len(rows'))] /\ RequestsKnowRows'
  <2> DEFINE v == [pc |-> "link", email |-> rows[i].email, row |-> i, link |-> rows[i].link]
  <2>1. v \in Req(Len(rows)) /\ v.pc = "link" /\ v.row = i /\ v.email = rows[i].email
    BY <1>0, RowType
  <2>2. req' = [req EXCEPT ![q] = v]
    BY <1>6 DEF OpenLink
  <2> HIDE DEF v
  <2>3. QED
    BY <1>3, <2>1, <2>2
<1>7. ASSUME NEW q \in Requests, Issue(q) \/ Accept(q) \/ Decline(q) \/ Stop(q)
      PROVE  req' \in [Requests -> Req(Len(rows'))] /\ RequestsKnowRows'
  BY <1>4, <1>7 DEF Issue, Accept, Decline, Stop
<1>8. ASSUME req' = req
      PROVE  req' \in [Requests -> Req(Len(rows'))] /\ RequestsKnowRows'
  <2>1. req' \in [Requests -> Req(Len(rows'))]
    BY <1>0, <1>1, <1>8
  <2>2. RequestsKnowRows'
    BY <1>0, <1>8, TableStep DEF RequestsKnowRows
  <2>3. QED
    BY <2>1, <2>2
<1>9. ASSUME \/ \E k \in BotRequests : BotStep(k)
             \/ \E i \in DOMAIN rows : RowStep(i)
             \/ \E e \in Emails : GrantRole(e) \/ RevokeRole(e)
             \/ ProcessChunk
             \/ \E status \in {"CANCELLED", "FAILED"} : EndBatch(status)
             \/ SweepList
      PROVE  req' = req
  BY <1>9 DEF BotStep, BotRead, BotGenerate, BotRetry, RowStep, Lapse, Reinvite, Reissue,
              Resend, Revoke, Remove, SweepExpire, GrantRole, RevokeRole, ProcessChunk,
              EndBatch, SweepList
<1>10. QED
  BY <1>5, <1>6, <1>7, <1>8, <1>9, AddressesAreEmails DEF Next, WebStep

\* The role and the sweep's list name addresses and rows.
LEMMA AccessStep ==
  ASSUME IInv, Next
  PROVE  access' \subseteq Emails /\ stale' \subseteq DOMAIN rows
<1>0. InvitationTypeOK /\ access \subseteq Emails /\ stale \subseteq DOMAIN rows
  BY DEF IInv, InvitationTypeOK
<1>1. ASSUME NEW q \in Requests, Accept(q)
      PROVE  access' \subseteq Emails /\ stale' \subseteq DOMAIN rows
  <2>1. req[q].email \in Emails
    BY <1>0, <1>1, RowType DEF Accept, IInv, RequestsKnowRows
  <2>2. QED
    BY <1>0, <1>1, <2>1 DEF Accept, GrantReviewer
<1>2. ASSUME NEW q \in Requests, NEW i \in DOMAIN rows, OpenLink(q, i)
      PROVE  access' = access /\ stale' = stale
  BY <1>2 DEF OpenLink
<1>3. ASSUME NEW q \in Requests,
             (\E e \in Invited : LoadIssue(q, e)) \/ Issue(q) \/ Decline(q) \/ Stop(q)
      PROVE  access' = access /\ stale' = stale
  BY <1>3 DEF LoadIssue, Issue, Decline, Stop
<1>4. ASSUME \/ \E k \in BotRequests : BotStep(k)
             \/ \E i \in DOMAIN rows : RowStep(i)
             \/ \E e \in Emails : GrantRole(e) \/ RevokeRole(e)
             \/ ProcessChunk
             \/ \E status \in {"CANCELLED", "FAILED"} : EndBatch(status)
             \/ SweepList
      PROVE  access' \subseteq Emails /\ stale' \subseteq DOMAIN rows
  BY <1>0, <1>4 DEF BotStep, BotRead, BotGenerate, BotRetry, RowStep, Lapse, Reinvite, Reissue,
              Resend, Revoke, Remove, SweepExpire, GrantRole, RevokeRole, ProcessChunk,
              EndBatch, SweepList
<1>5. QED
  BY <1>0, <1>1, <1>2, <1>3, <1>4, AddressesAreEmails DEF Next, WebStep

\* Every step keeps the types of the tables.
LEMMA TypeStep ==
  ASSUME IInv, Next
  PROVE  InvitationTypeOK'
<1>1. stale' \subseteq DOMAIN rows'
  BY AccessStep, TableStep
<1>2. QED
  BY <1>1, TableStep, RecordsStep, RequestStep, AccessStep DEF InvitationTypeOK

\* A row of a requestId is created by the transaction that records its answer,
\* by an attempt that found none.
LEMMA AnswersStep ==
  ASSUME IInv, Next
  PROVE  AnswersRecorded'
<1>0. InvitationTypeOK /\ AnswersRecorded
  BY DEF IInv
<1>1. ASSUME DOMAIN rows' = DOMAIN rows
      PROVE  AnswersRecorded'
  BY <1>0, <1>1, TableStep, RecordsStep DEF AnswersRecorded
<1>2. ASSUME NEW e \in Emails, NEW o \in BotRequests \cup {Web, Batch}, Adds(e, o)
      PROVE  AnswersRecorded'
  <2> DEFINE N == Len(rows) + 1
  <2>1. rows' = Append(rows, NewRow(e, o))
    BY <1>2 DEF Adds, Create
  <2>2. DOMAIN rows' = DOMAIN rows \cup {N} /\ rows'[N] = NewRow(e, o) /\ N \notin DOMAIN rows
        /\ \A i \in DOMAIN rows : rows'[i] = rows[i]
    BY <1>0, <2>1, RowType
  <2>3. rows'[N].by = o
    BY <2>2 DEF NewRow
  <2>4. o \in BotRequests => bot[o] = "read" /\ bot'[o] = "done"
    BY <1>0, <1>2, OriginsDiffer DEF Adds, InvitationTypeOK
  <2>5. o \in BotRequests => \A i \in DOMAIN rows : rows[i].by # o
    BY <1>0, <2>4 DEF AnswersRecorded
  <2> HIDE DEF N
  <2>6. QED
    BY <1>0, <2>2, <2>3, <2>4, <2>5, RecordsStep DEF AnswersRecorded
<1>3. ASSUME NEW i \in DOMAIN rows, NEW w \in InvitationRow, Updates(i, w)
      PROVE  DOMAIN rows' = DOMAIN rows
  BY <1>3 DEF Updates
<1>4. QED
  BY <1>1, <1>2, <1>3, RowChanges

\* A row of the batch is created with the result of its address, which no
\* earlier result has.
LEMMA BatchStep ==
  ASSUME IInv, Next
  PROVE  BatchRecorded'
<1>0. InvitationTypeOK /\ BatchRecorded /\ Processed \in Nat
  BY DEF IInv, InvitationTypeOK, Processed
<1>1. ASSUME DOMAIN rows' = DOMAIN rows
      PROVE  BatchRecorded'
  <2>1. \A m \in 1..Processed : m \in 1..Processed'
    BY <1>0, RecordsStep
  <2>2. QED
    BY <1>0, <1>1, <2>1, TableStep DEF BatchRecorded
<1>2. ASSUME NEW e \in Emails, NEW o \in BotRequests \cup {Web, Batch}, Adds(e, o)
      PROVE  BatchRecorded'
  <2> DEFINE N == Len(rows) + 1
  <2>1. rows' = Append(rows, NewRow(e, o))
    BY <1>2 DEF Adds, Create
  <2>2. DOMAIN rows' = DOMAIN rows \cup {N} /\ rows'[N] = NewRow(e, o) /\ N \notin DOMAIN rows
        /\ \A i \in DOMAIN rows : rows'[i] = rows[i]
    BY <1>0, <2>1, RowType
  <2>3. rows'[N].by = o /\ rows'[N].email = e
    BY <2>2 DEF NewRow
  <2>4. \A m \in 1..Processed : m \in 1..Processed'
    BY <1>0, RecordsStep
  <2>5. ASSUME o = Batch
        PROVE  /\ \E m \in 1..Processed' : BatchInput[m] = e
               /\ \A i \in DOMAIN rows : rows[i].by = Batch => rows[i].email # e
    <3>1. e = BatchInput[Processed + 1] /\ ~DuplicateInBatch(Processed + 1)
          /\ Len(batch'.results) = Processed + 1
      BY <1>2, <2>5, OriginsDiffer DEF Adds
    <3>2. Processed + 1 \in 1..Processed'
      BY <1>0, <3>1 DEF Processed
    <3>3. \A m \in 1..Processed : BatchInput[m] # e
      BY <1>0, <3>1 DEF DuplicateInBatch
    <3>4. QED
      BY <1>0, <3>1, <3>2, <3>3 DEF BatchRecorded
  <2> HIDE DEF N
  <2>6. QED
    BY <1>0, <2>2, <2>3, <2>4, <2>5 DEF BatchRecorded
<1>3. ASSUME NEW i \in DOMAIN rows, NEW w \in InvitationRow, Updates(i, w)
      PROVE  DOMAIN rows' = DOMAIN rows
  BY <1>3 DEF Updates
<1>4. QED
  BY <1>1, <1>2, <1>3, RowChanges

-----------------------------------------------------------------------------
(* The theorems.                                                           *)

\* A conference without invitations satisfies the invariant.
LEMMA InvInit == Init => IInv
<1> SUFFICES ASSUME Init PROVE IInv
  OBVIOUS
<1>1. Processed = 0 /\ Len(BatchInput) \in Nat
  BY InputIsAddresses DEF Init, Processed
<1>2. InvitationTypeOK
  BY <1>1, InvitationBounds DEF Init, IdleReq, InvitationTypeOK
<1>3. RequestsKnowRows /\ AnswersRecorded /\ BatchRecorded
  BY DEF Init, IdleReq, RequestsKnowRows, AnswersRecorded, BatchRecorded
<1>4. QED
  BY <1>2, <1>3 DEF IInv

\* Every step preserves the invariant.
LEMMA InvStep == IInv /\ [Next]_invitationVars => IInv'
<1> SUFFICES ASSUME IInv, [Next]_invitationVars PROVE IInv'
  OBVIOUS
<1>1. CASE Next
  BY <1>1, TypeStep, RequestStep, AnswersStep, BatchStep DEF IInv
<1>2. CASE UNCHANGED invitationVars
  BY <1>2 DEF invitationVars, IInv, InvitationTypeOK, RequestsKnowRows, AnswersRecorded,
              BatchRecorded, Processed
<1>3. QED
  BY <1>1, <1>2

\* The invariant holds in every reachable state.
THEOREM InvitationInvariance == InvitationSpec => []IInv
  BY InvInit, InvStep, PTL DEF InvitationSpec

\* A requestId that is sent again, and a chunk of the batch that is run again
\* (processInvitationBatchChunk), create no second invitation.
THEOREM RetriesAlwaysInviteOnce == InvitationSpec => []RetriesInviteOnce
<1>1. IInv => RetriesInviteOnce
  BY DEF IInv, AnswersRecorded, BatchRecorded, RetriesInviteOnce
<1>2. QED
  BY <1>1, InvitationInvariance, PTL

\* No step changes an invitation that was accepted, declined or revoked.
THEOREM ClosedInvitationsStay == InvitationSpec => ClosedStaysClosed
<1> DEFINE A == \A i \in DOMAIN rows : Lifecycle(rows[i]) \in Closed => rows'[i] = rows[i]
<1>1. ASSUME IInv, Next, NEW i \in DOMAIN rows, Lifecycle(rows[i]) \in Closed
      PROVE  rows'[i] = rows[i]
  <2>0. InvitationTypeOK
    BY <1>1 DEF IInv
  <2>1. ASSUME NEW e \in Emails, NEW o \in BotRequests \cup {Web, Batch}, Adds(e, o)
        PROVE  rows'[i] = rows[i]
    BY <2>0, <2>1, RowType DEF Adds, Create
  <2>2. ASSUME NEW j \in DOMAIN rows, NEW w \in InvitationRow, Updates(j, w)
        PROVE  rows'[i] = rows[i]
    BY <1>1, <2>2 DEF Updates
  <2>3. QED
    BY <1>1, <2>1, <2>2, RowChanges
<1>2. IInv /\ [Next]_invitationVars => [A]_invitationVars
  BY <1>1
<1>3. QED
  BY <1>2, InvitationInvariance, PTL DEF InvitationSpec, ClosedStaysClosed

\* Answering a link gives the role only to the address it invited, and only while
\* it turns that invitation from active to ACCEPTED: neither a replay of an old
\* acceptance nor a link that was answered, revoked or lapsed brings back a role
\* that an organizer took away (revokeRole).
THEOREM LinksGrantOnce == InvitationSpec => LinkGrantsOnce
<1> DEFINE A == \A q \in Requests :
      LET i == req[q].row
      IN req[q].pc = "link" /\ req'[q] # req[q] /\ access' # access =>
           /\ access' = access \cup {rows[i].email}
           /\ Lifecycle(rows[i]) = "ACTIVE"
           /\ rows'[i].status = "ACCEPTED"
<1>1. ASSUME IInv, Next, NEW q \in Requests,
             req[q].pc = "link", req'[q] # req[q], access' # access
      PROVE  LET i == req[q].row
             IN  /\ access' = access \cup {rows[i].email}
                 /\ Lifecycle(rows[i]) = "ACTIVE"
                 /\ rows'[i].status = "ACCEPTED"
  <2> DEFINE i == req[q].row
  <2>1. Accept(q)
    <3>1. PICK o \in Requests : WebStep(o)
      BY <1>1, AddressesAreEmails
      DEF Next, BotStep, BotRead, BotGenerate, BotRetry, RowStep, Lapse, Reinvite, Reissue,
          Resend, Revoke, Remove, SweepExpire, GrantRole, RevokeRole, ProcessChunk, EndBatch,
          SweepList
    <3>2. Accept(o)
      BY <1>1, <3>1 DEF WebStep, LoadIssue, Issue, OpenLink, Decline, Stop
    <3>3. o = q
      BY <1>1, <3>2 DEF Accept, IInv, InvitationTypeOK
    <3>4. QED
      BY <3>2, <3>3
  <2>2. i \in DOMAIN rows /\ req[q].email = rows[i].email
    BY <1>1, <2>1 DEF IInv, RequestsKnowRows
  <2>3. access' = access \cup {rows[i].email} /\ Lifecycle(rows[i]) = "ACTIVE"
        /\ rows' = [rows EXCEPT ![i].status = "ACCEPTED"]
    BY <2>1, <2>2 DEF Accept, GrantReviewer, Acceptable
  <2>4. rows[i] \in InvitationRow
    BY <1>1, <2>2, RowType DEF IInv
  <2>5. rows'[i].status = "ACCEPTED"
    BY <2>2, <2>3, <2>4 DEF InvitationRow
  <2>6. QED
    BY <2>3, <2>5
<1>2. IInv /\ [Next]_invitationVars => [A]_invitationVars
  BY <1>1 DEF invitationVars
<1>3. QED
  BY <1>2, InvitationInvariance, PTL DEF InvitationSpec, LinkGrantsOnce

\* Accepting and declining take the link that is current when they are
\* committed, however long ago the page was opened.
THEOREM AnswersTakeTheCurrentLink == InvitationSpec => AnswerUsesCurrentLink
<1> DEFINE A == \A i \in DOMAIN rows :
      (rows'[i].status # rows[i].status /\ rows'[i].status \in {"ACCEPTED", "DECLINED"}) =>
        \E q \in Requests : req[q].row = i /\ req[q].link = rows[i].link
<1>1. ASSUME IInv, Next, NEW i \in DOMAIN rows, rows'[i].status # rows[i].status,
             rows'[i].status \in {"ACCEPTED", "DECLINED"}
      PROVE  \E q \in Requests : req[q].row = i /\ req[q].link = rows[i].link
  <2>0. InvitationTypeOK
    BY <1>1 DEF IInv
  <2>1. ASSUME NEW e \in Emails, NEW o \in BotRequests \cup {Web, Batch}, Adds(e, o)
        PROVE  rows'[i] = rows[i]
    BY <2>0, <2>1, RowType DEF Adds, Create
  <2>2. ASSUME NEW j \in DOMAIN rows, NEW w \in InvitationRow, Updates(j, w)
        PROVE  \E q \in Requests : req[q].row = i /\ req[q].link = rows[i].link
    <3>1. i = j /\ rows'[i] = w
      BY <1>1, <2>2 DEF Updates
    <3>2. QED
      BY <1>1, <2>2, <3>1 DEF Updates
  <2>3. QED
    BY <1>1, <2>1, <2>2, RowChanges
<1>2. IInv /\ [Next]_invitationVars => [A]_invitationVars
  BY <1>1 DEF invitationVars
<1>3. QED
  BY <1>2, InvitationInvariance, PTL DEF InvitationSpec, AnswerUsesCurrentLink

\* Every place that creates an invitation has looked for an active one of the
\* address under the same lock.
THEOREM NewInvitationsAreAlone == InvitationSpec => NewInvitationIsAlone
<1> DEFINE A == \A i \in DOMAIN rows' \ DOMAIN rows : ActiveFor(rows'[i].email) = {}
<1>1. ASSUME IInv, Next, NEW i \in DOMAIN rows' \ DOMAIN rows
      PROVE  ActiveFor(rows'[i].email) = {}
  <2>0. InvitationTypeOK
    BY <1>1 DEF IInv
  <2>1. ASSUME NEW e \in Emails, NEW o \in BotRequests \cup {Web, Batch}, Adds(e, o)
        PROVE  ActiveFor(rows'[i].email) = {}
    <3>1. rows' = Append(rows, NewRow(e, o)) /\ ActiveFor(e) = {}
      BY <2>1 DEF Adds, Create
    <3>2. rows'[i] = NewRow(e, o)
      BY <1>1, <2>0, <3>1, RowType
    <3>3. QED
      BY <3>1, <3>2 DEF NewRow
  <2>2. ASSUME NEW j \in DOMAIN rows, NEW w \in InvitationRow, Updates(j, w)
        PROVE  FALSE
    BY <1>1, <2>2 DEF Updates
  <2>3. QED
    BY <1>1, <2>1, <2>2, RowChanges
<1>2. IInv /\ [Next]_invitationVars => [A]_invitationVars
  BY <1>1 DEF invitationVars
<1>3. QED
  BY <1>2, InvitationInvariance, PTL DEF InvitationSpec, NewInvitationIsAlone

\* An active invitation becomes EXPIRED by being revoked only: the sweep leaves
\* alone what was renewed after it made its list.
THEOREM RenewedInvitationsStay == InvitationSpec => RenewedIsNotExpired
<1> DEFINE A == \A i \in DOMAIN rows :
      (Lifecycle(rows[i]) = "ACTIVE" /\ rows'[i].status = "EXPIRED") => rows'[i].revoked
<1>1. ASSUME IInv, Next, NEW i \in DOMAIN rows, Lifecycle(rows[i]) = "ACTIVE",
             rows'[i].status = "EXPIRED"
      PROVE  rows'[i].revoked
  <2>0. InvitationTypeOK /\ rows[i].status = "PENDING"
    BY <1>1, RowType, LifecycleOf DEF IInv
  <2>1. ASSUME NEW e \in Emails, NEW o \in BotRequests \cup {Web, Batch}, Adds(e, o)
        PROVE  rows'[i] = rows[i]
    BY <2>0, <2>1, RowType DEF Adds, Create
  <2>2. ASSUME NEW j \in DOMAIN rows, NEW w \in InvitationRow, Updates(j, w)
        PROVE  rows'[i].revoked
    <3>1. i = j /\ rows'[i] = w
      BY <1>1, <2>0, <2>2 DEF Updates
    <3>2. QED
      BY <1>1, <2>2, <3>1 DEF Updates
  <2>3. QED
    BY <1>1, <2>0, <2>1, <2>2, RowChanges
<1>2. IInv /\ [Next]_invitationVars => [A]_invitationVars
  BY <1>1 DEF invitationVars
<1>3. QED
  BY <1>2, InvitationInvariance, PTL DEF InvitationSpec, RenewedIsNotExpired

=============================================================================
