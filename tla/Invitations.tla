----------------------------- MODULE Invitations -----------------------------
(***************************************************************************)
(* Invitations of reviewers to one conference: issuing, links, acceptance, *)
(* decline, reissue, resend, revocation, expiry, the Bot API's repeatable  *)
(* requests and its batches.                                               *)
(*                                                                         *)
(* Every transaction that writes an invitation first takes the advisory    *)
(* lock of the conference and then reads, so it is one step; what was read *)
(* in an earlier transaction is kept in the request.  Whether expiresAt    *)
(* has passed is a flag that time may set (Lapse).  The reviewer role also *)
(* comes and goes without an invitation (GrantRole, RevokeRole).  Sent-at  *)
(* stamps, extensions of a live invitation and the append-only change log  *)
(* are left out, and so are versions: an organizer's operation on a row    *)
(* that has changed is refused, which only removes behaviours.             *)
(***************************************************************************)
EXTENDS Integers, Sequences

CONSTANTS
  Emails,       \* normalized addresses
  Authors,      \* addresses of authors of the conference
  Invited,      \* the addresses organizers and the Bot API turn to (a bound)
  Requests,     \* web requests in flight
  BotRequests,  \* requestId's of the Bot API
  BatchInput,   \* the addresses of one uploaded batch
  Web,          \* origin of an invitation from the organizers' pages
  Batch,        \* origin of an invitation from the batch
  NoEmail,
  MaxRows,      \* bound on invitations
  MaxReissues   \* bound on the links of one invitation

ASSUME AddressesAreEmails == Authors \cup Invited \subseteq Emails
ASSUME InputIsAddresses   == BatchInput \in Seq(Emails)
ASSUME OriginsDiffer      == Web # Batch /\ {Web, Batch} \cap BotRequests = {}
ASSUME NoEmailIsNoEmail   == NoEmail \notin Emails
ASSUME InvitationBounds   == MaxRows \in Nat /\ MaxReissues \in Nat

VARIABLES
  rows,     \* reviewer_invitations
  access,   \* addresses whose account has the reviewer role
  req,      \* phase and reads of each web request
  bot,      \* requestId's: phase of the latest attempt
  batch,    \* the batch: rows processed, outcomes, status
  stale     \* invitations the running expiry sweep found lapsed

invitationVars == <<rows, access, req, bot, batch, stale>>

Status  == {"PENDING", "ACCEPTED", "DECLINED", "EXPIRED"}
Outcome == {"CREATED", "EXISTING", "CLOSED_INVITATION", "SKIPPED_REVIEWER",
            "SKIPPED_AUTHOR", "DUPLICATE_IN_BATCH"}
IdleReq == [pc |-> "idle", email |-> NoEmail, row |-> 0, link |-> 0]

Init ==
  /\ rows = <<>>
  /\ access = {}
  /\ req = [q \in Requests |-> IdleReq]
  /\ bot = [k \in BotRequests |-> "new"]
  /\ batch = [status |-> "QUEUED", results |-> <<>>]
  /\ stale = {}

Lifecycle(v) ==
  CASE v.revoked                                  -> "REVOKED"
    [] ~v.revoked /\ v.status \in {"ACCEPTED", "DECLINED"} -> v.status
    [] OTHER -> IF v.status = "EXPIRED" \/ v.lapsed THEN "EXPIRED" ELSE "ACTIVE"

Closed == {"ACCEPTED", "DECLINED", "REVOKED"}
ActiveFor(e) == {i \in DOMAIN rows : rows[i].email = e /\ Lifecycle(rows[i]) = "ACTIVE"}

NewRow(e, origin) == [email |-> e, status |-> "PENDING", revoked |-> FALSE,
                      lapsed |-> FALSE, link |-> 0, by |-> origin]
Create(e, origin) == Len(rows) < MaxRows /\ rows' = Append(rows, NewRow(e, origin))

\* expiresAt passes.
Lapse(i) ==
  /\ rows[i].status = "PENDING" /\ ~rows[i].lapsed
  /\ rows' = [rows EXCEPT ![i].lapsed = TRUE]
  /\ UNCHANGED <<access, req, bot, batch, stale>>

Stop(q) ==
  /\ req[q].pc # "idle"
  /\ req' = [req EXCEPT ![q] = IdleReq]
  /\ UNCHANGED <<rows, access, bot, batch, stale>>

-----------------------------------------------------------------------------
(* Organizers' pages: issue, resend, revoke, applyInvitationAction, roles.  *)

LoadIssue(q, e) ==
  /\ req[q].pc = "idle"
  /\ ActiveFor(e) = {}
  /\ req' = [req EXCEPT ![q] = [IdleReq EXCEPT !.pc = "issue", !.email = e]]
  /\ UNCHANGED <<rows, access, bot, batch, stale>>

\* Faulty variant: the search before the lock is the only one.
IssuableAsRead(e) == TRUE

\* The search is repeated under the lock.
Issuable(e) == ActiveFor(e) = {}

Issue(q) ==
  /\ req[q].pc = "issue"
  /\ Issuable(req[q].email)
  /\ Create(req[q].email, Web)
  /\ req' = [req EXCEPT ![q] = IdleReq]
  /\ UNCHANGED <<access, bot, batch, stale>>

Reinvite(i) ==
  LET e == rows[i].email
  IN /\ Lifecycle(rows[i]) \in {"DECLINED", "REVOKED"}
     /\ ActiveFor(e) = {}
     /\ e \notin access
     /\ Create(e, Web)
     /\ UNCHANGED <<access, req, bot, batch, stale>>

\* A new link; the former one stops working.  An expired invitation revives.
Reissue(i) ==
  /\ Lifecycle(rows[i]) \notin Closed
  /\ rows[i].link < MaxReissues
  /\ rows' = [rows EXCEPT ![i].status = "PENDING", ![i].lapsed = FALSE, ![i].link = @ + 1]
  /\ UNCHANGED <<access, req, bot, batch, stale>>

\* Faulty variant: a declined invitation is sent again.
ResendableUnlessAccepted(v) == ~v.revoked /\ v.status # "ACCEPTED"

Resendable(v) == ~v.revoked /\ v.status \notin {"ACCEPTED", "DECLINED"}

Resend(i) ==
  /\ Resendable(rows[i])
  /\ rows' = [rows EXCEPT ![i].status = "PENDING", ![i].lapsed = FALSE]
  /\ UNCHANGED <<access, req, bot, batch, stale>>

\* The action REVOKE.
Revoke(i) ==
  /\ Lifecycle(rows[i]) \notin Closed
  /\ rows' = [rows EXCEPT ![i].status = "EXPIRED", ![i].revoked = TRUE]
  /\ UNCHANGED <<access, req, bot, batch, stale>>

\* revoke, the Bot API's remove, and issue after a failed mail.
Remove(i) == rows[i].status = "PENDING" /\ Revoke(i)

\* Organizers also give and take the role themselves, without any invitation.
GrantRole(e) ==
  /\ e \notin access
  /\ access' = access \cup {e}
  /\ UNCHANGED <<rows, req, bot, batch, stale>>

RevokeRole(e) ==
  /\ e \in access
  /\ access' = access \ {e}
  /\ UNCHANGED <<rows, req, bot, batch, stale>>

-----------------------------------------------------------------------------
(* Recipients.                                                             *)

\* resolveInvitationByToken: only the current link finds the invitation.
OpenLink(q, i) ==
  /\ req[q].pc = "idle"
  /\ req' = [req EXCEPT ![q] =
       [pc |-> "link", email |-> rows[i].email, row |-> i, link |-> rows[i].link]]
  /\ UNCHANGED <<rows, access, bot, batch, stale>>

\* Faulty variant: the link is not compared again under the lock.
LinkFoundARow(q) == TRUE

LinkMatches(q) == rows[req[q].row].link = req[q].link

\* Faulty variant: repeating an acceptance grants the role again.
AcceptableAgain(v) == Lifecycle(v) \in {"ACTIVE", "ACCEPTED"}

\* materializeReviewerMembership
GrantReviewer(e) == access' = access \cup {e}

\* A replay of an acceptance answers with the row and changes nothing.
Acceptable(v) == Lifecycle(v) = "ACTIVE"

Accept(q) ==
  LET i == req[q].row
  IN /\ req[q].pc = "link"
     /\ LinkMatches(q)
     /\ Acceptable(rows[i])
     /\ GrantReviewer(req[q].email)
     /\ rows' = [rows EXCEPT ![i].status = "ACCEPTED"]
     /\ req' = [req EXCEPT ![q] = IdleReq]
     /\ UNCHANGED <<bot, batch, stale>>

\* decline and publicDecline.
Decline(q) ==
  LET i == req[q].row
  IN /\ req[q].pc = "link"
     /\ LinkMatches(q)
     /\ Lifecycle(rows[i]) = "ACTIVE"
     /\ rows' = [rows EXCEPT ![i].status = "DECLINED"]
     /\ req' = [req EXCEPT ![q] = IdleReq]
     /\ UNCHANGED <<access, bot, batch, stale>>

-----------------------------------------------------------------------------
(* The Bot API's generate: a requestId may be sent any number of times.    *)

\* ApiIntegrationMutation, unique by requestId, in the same transaction.
Recorded(k) == bot' = [bot EXCEPT ![k] = "done"]

\* One attempt has looked for an earlier response and waits for the lock.
BotRead(k) ==
  /\ bot[k] = "new"
  /\ bot' = [bot EXCEPT ![k] = "read"]
  /\ UNCHANGED <<rows, access, req, batch, stale>>

BotGenerate(k, e) ==
  /\ bot[k] = "read"
  /\ IF ActiveFor(e) = {} THEN Create(e, k) ELSE UNCHANGED rows
  /\ Recorded(k)
  /\ UNCHANGED <<access, req, batch, stale>>

\* The attempt rolls back; the client repeats it.
BotRetry(k) ==
  /\ bot[k] = "read"
  /\ bot' = [bot EXCEPT ![k] = "new"]
  /\ UNCHANGED <<rows, access, req, batch, stale>>

-----------------------------------------------------------------------------
(* The worker: batch chunks and the expiry sweep.                          *)

Processed == Len(batch.results)

\* Faulty variant: a repeated address of the batch is not recognised.
NeverDuplicate(n) == FALSE

DuplicateInBatch(n) == \E m \in 1..(n - 1) : BatchInput[m] = BatchInput[n]

EarlierClosed(e) ==
  \E i \in DOMAIN rows : rows[i].email = e /\ Lifecycle(rows[i]) \in Closed

OutcomeOf(n) ==
  LET e == BatchInput[n]
  IN CASE DuplicateInBatch(n)                     -> "DUPLICATE_IN_BATCH"
       [] ~DuplicateInBatch(n) /\ e \in access    -> "SKIPPED_REVIEWER"
       [] ~DuplicateInBatch(n) /\ e \in Authors \ access -> "SKIPPED_AUTHOR"
       [] OTHER -> IF ActiveFor(e) # {} THEN "EXISTING"
                   ELSE IF EarlierClosed(e) THEN "CLOSED_INVITATION" ELSE "CREATED"

\* processInvitationBatchChunk with the batch row locked; a chunk of one row.
\* What a stopped worker has not committed it does again.
ProcessChunk ==
  LET n == Processed + 1
  IN /\ batch.status \in {"QUEUED", "RUNNING"} /\ n <= Len(BatchInput)
     /\ IF OutcomeOf(n) = "CREATED" THEN Create(BatchInput[n], Batch) ELSE UNCHANGED rows
     /\ batch' = [status  |-> IF n = Len(BatchInput) THEN "COMPLETED" ELSE "RUNNING",
                  results |-> Append(batch.results, OutcomeOf(n))]
     /\ UNCHANGED <<access, req, bot, stale>>

\* The key was revoked or the batch is too old; or its retries are used up.
EndBatch(status) ==
  /\ batch.status \in {"QUEUED", "RUNNING"}
  /\ batch' = [batch EXCEPT !.status = status]
  /\ UNCHANGED <<rows, access, req, bot, stale>>

Expirable(i) == rows[i].status = "PENDING" /\ ~rows[i].revoked /\ rows[i].lapsed

\* Faulty variant: the sweep trusts the list it made.
ExpirableAsListed(i) == TRUE

SweepList ==
  /\ stale = {}
  /\ stale' = {i \in DOMAIN rows : Expirable(i)}
  /\ UNCHANGED <<rows, access, req, bot, batch>>

\* Read again under the lock, and left alone if it changed.
StillExpirable(i) == Expirable(i)

SweepExpire(i) ==
  /\ i \in stale
  /\ stale' = stale \ {i}
  /\ rows' = IF StillExpirable(i) THEN [rows EXCEPT ![i].status = "EXPIRED"] ELSE rows
  /\ UNCHANGED <<access, req, bot, batch>>

-----------------------------------------------------------------------------
WebStep(q) ==
  \/ \E e \in Invited : LoadIssue(q, e)
  \/ Issue(q)
  \/ \E i \in DOMAIN rows : OpenLink(q, i)
  \/ Accept(q)
  \/ Decline(q)
  \/ Stop(q)

BotStep(k) == BotRead(k) \/ (\E e \in Invited : BotGenerate(k, e)) \/ BotRetry(k)

RowStep(i) == Lapse(i) \/ Reinvite(i) \/ Reissue(i) \/ Resend(i) \/ Revoke(i) \/ Remove(i)
              \/ SweepExpire(i)

Next ==
  \/ \E q \in Requests : WebStep(q)
  \/ \E k \in BotRequests : BotStep(k)
  \/ \E i \in DOMAIN rows : RowStep(i)
  \/ \E e \in Invited : GrantRole(e)
  \/ \E e \in Emails : RevokeRole(e)
  \/ ProcessChunk
  \/ \E status \in {"CANCELLED", "FAILED"} : EndBatch(status)
  \/ SweepList

InvitationSpec == Init /\ [][Next]_invitationVars

-----------------------------------------------------------------------------
(* Properties.                                                             *)

InvitationRow == [email : Emails, status : Status, revoked : BOOLEAN, lapsed : BOOLEAN,
                  link : 0..MaxReissues, by : BotRequests \cup {Web, Batch}]

\* The tables hold rows of their types, requests and answers name rows that
\* exist, and an accepted or declined invitation is not revoked as well.
InvitationTypeOK ==
  /\ rows \in Seq(InvitationRow) /\ Len(rows) <= MaxRows
  /\ \A i \in DOMAIN rows : rows[i].revoked => rows[i].status = "EXPIRED"
  /\ access \subseteq Emails
  /\ req \in [Requests -> [pc : {"idle", "issue", "link"}, email : Emails \cup {NoEmail},
                           row : 0..Len(rows), link : 0..MaxReissues]]
  /\ bot \in [BotRequests -> {"new", "read", "done"}]
  /\ batch \in [status : {"QUEUED", "RUNNING", "COMPLETED", "CANCELLED", "FAILED"},
                results : Seq(Outcome)]
  /\ Processed <= Len(BatchInput)
  /\ stale \subseteq DOMAIN rows

\* An answer is final: no resend, reissue, sweep or second answer changes an
\* invitation that was accepted, declined or revoked.
ClosedStaysClosed ==
  [][\A i \in DOMAIN rows : Lifecycle(rows[i]) \in Closed => rows'[i] = rows[i]]_invitationVars

\* A link gives the reviewer role only to the address it invited, and only
\* while it turns that invitation from active to ACCEPTED.  An old link gives
\* nothing back after an organizer took the role away, however late it is
\* answered and whatever organizers grant meanwhile ("A replay must not restore
\* reviewer access deliberately removed later").
LinkGrantsOnce ==
  [][\A q \in Requests :
       LET i == req[q].row
       IN req[q].pc = "link" /\ req'[q] # req[q] /\ access' # access =>
            /\ access' = access \cup {rows[i].email}
            /\ Lifecycle(rows[i]) = "ACTIVE"
            /\ rows'[i].status = "ACCEPTED"]_invitationVars

\* An invitation is answered through its current link, also when it is
\* reissued between opening the link and answering.
AnswerUsesCurrentLink ==
  [][\A i \in DOMAIN rows :
       (rows'[i].status # rows[i].status /\ rows'[i].status \in {"ACCEPTED", "DECLINED"}) =>
         \E q \in Requests : req[q].row = i /\ req[q].link = rows[i].link]_invitationVars

\* No new invitation for an address that has an active one, from whichever
\* of the four places that create invitations, however they interleave.
NewInvitationIsAlone ==
  [][\A i \in DOMAIN rows' \ DOMAIN rows : ActiveFor(rows'[i].email) = {}]_invitationVars

\* A batch invites an address at most once and a requestId creates at most
\* one invitation, whatever is retried and whatever becomes of the row.
RetriesInviteOnce ==
  /\ InvitationTypeOK
  /\ \A i, j \in DOMAIN rows :
       /\ rows[i].by \in BotRequests /\ rows[i].by = rows[j].by => i = j
       /\ rows[i].by = Batch /\ rows[j].by = Batch /\ rows[i].email = rows[j].email
            => i = j

\* The sweep expires nothing whose time was extended after it made its list.
RenewedIsNotExpired ==
  [][\A i \in DOMAIN rows :
       (Lifecycle(rows[i]) = "ACTIVE" /\ rows'[i].status = "EXPIRED") => rows'[i].revoked]_invitationVars

=============================================================================
