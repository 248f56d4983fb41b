# OpenConferences: verification of the conference platform

OpenConferences runs a conference from the call for papers to the paid registration:
a NestJS API (`apps/api`), a worker on pg-boss queues (`apps/worker`), one PostgreSQL
database reached through `withTenantContext` (`packages/db`), a Next.js frontend
(`apps/web`), and Razorpay as payment gateway. Everything the program remembers is a
database row; handlers of several HTTP requests, several worker jobs and the gateway's
webhooks interleave at the boundaries of its transactions. That is where its
correctness is decided, and what the modules here model.

Paths below are relative to the repository (`src/` in `PROJECT.json`).

## 1. The system

| component | state it keeps | operations | hard behaviour | modelled |
|---|---|---|---|---|
| Registration and checkout (`billing/registrations.service.ts`, `payments.service.ts`, `paid-state.ts`) | `Registration` (status, category, amount due, locked price, deadline, grace, version), `Payment` rows | open, save details, pay, capture, reconcile, move the deadline | a quote computed before the row lock; gateway calls between two transactions; repeated, lost and late captures | `PaidState`, `Checkout` |
| Student verification (`student-verification.service.ts`) | newest `StudentVerification`, its document | upload, approve, ask, reject | verdict, capture and a new upload in any order | `Checkout` |
| Refunds (`payments.service.ts`, `razorpay.provider.ts`) | refund intents as `Payment` rows | reserve, send, apply a report, reconcile | uncertain outcomes; reports repeated, reordered and under two identities | `Refunds` |
| Papers, authors, versions (`submission/*`, `tenancy/cfp-window.ts`) | `Paper`, `Authorship`, `PaperVersion`, the call for papers | create, submit with a number, delete, withdraw, add and remove authors, upload | the paper limit counted under an advisory lock; a call that closes; deletion against submission | `Submission`; withdrawal also in `Checkout` and `ReviewCycle` |
| Files and virus scan (`files/*`, `worker/scan.ts`, `db/scan.ts`) | `FileAsset` | finalize, scan | a scan that comes late, again, or after the paper has moved on | `Submission`, `ReviewCycle` (revisions), `Checkout` (camera-ready, proofs) |
| Review cycles, assignments, reviews, rebuttals (`review/*`) | `ReviewRound`, `ReviewerAssignment`, `Review`, `Rebuttal` | open, assign, unassign, replace, save, submit, release, rebut | pages that are older than what they write; two operations on one assignment | `ReviewCycle` |
| Decisions (`review/decisions.service.ts`) | `Decision`, `notifiedAt`, paper status | decide, release | a decision against submissions, rebuttals and a withdrawal | `ReviewCycle`; the release in `Checkout` |
| Reviewer invitations (`review/invitations.service.ts`, `invitation-lifecycle.ts`, `db/reviewer-invitation-batches.ts`) | `ReviewerInvitation`, batches, the reviewer role | issue, accept, decline, revoke, reissue, resend, expire | all of these on one invitation at once; four places that create one | `Invitations` |
| Reminder digests (`review/reviewer-overview.service.ts`, `worker/reviewer-digest.ts`) | one outbox row per reviewer and day, jobs | preview, send, the job, its retries | the work changes between preview, reservation and job; crashes | `Digests` |
| Outreach (`outreach/*`, `worker/outreach.ts`, `db/outreach-rollup.ts`) | campaign, recipients, suppressions, jobs | import, choose a template, confirm, send, reports | a loop over recipients without a transaction, beside webhooks, imports and other jobs | `Outreach` |
| Integrations, Bot API (`integrations/*`) | API keys, mutation records, batches | repeats assignments, invitations, interventions | repeated requests | `ReviewCycle`, `Invitations` |
| Bids, conflicts, coordination (`review/bids`, `coi-check`, `coordination`) | bids, conflicts | bid, declare, intervene | an intervention against the review it retires | RELEASE and REPLACE in `ReviewCycle` |
| Messaging (`messaging/*`, `worker/notification.ts`, `reminder-sweep.ts`) | notification log, suppressions | deliver, remind, suppress | at-least-once delivery, a crash between log and queue | suppression, in `Digests` |
| Tenancy, auth, audit, analytics | organizations, roles, logs | role checks and queries | no concurrent state of their own | the call for papers, the reviewer role |
| Queue and worker start-up (`queue.service.ts`, `worker/main.ts`) | pg-boss jobs | schedule, retry | at-least-once delivery | with each job |
| Discard sweep, invoices, web frontend | | | | no, see section 5 |

How the parts interact. An author drafts a paper, names authors, uploads a PDF that the
worker scans, and *submits* it while the call is open (`Submission`). The first
*assignment* opens review cycle 1 and moves the paper to UNDER_REVIEW; reviewers come from
*invitations*, whose acceptance grants the role (`Invitations`), and are *reminded* by
digests of what they owe (`Digests`). Reviews are *released*, *rebutted* and a chair
*decides*; a revision opens the next cycle when its scan is clean (`ReviewCycle`). A
decision is *released* by an organizer, which opens the registration; the author saves
details, a student uploads a proof, and *pays*: the API reads a quote, reserves a
`Payment` row under the registration's row lock, asks the gateway for an order outside any
transaction, and stores the order id. The *capture* arrives by webhook, by the browser's
callback or from the reconciliation job, and the transaction that records it derives the
registration's status from the rows (`Checkout`). Organizers *review* the proof, *move*
deadlines and *refund* (`Refunds`). Authors may *withdraw* a submitted paper, chairs and
organizers also later ones, so withdrawal is an action of three modules, each with the
state it changes there. *Outreach* mails people
who are not in the system yet; it shares the suppressions with the rest.

What makes each of these parts correct:

- the status of a registration says what its balance says, in both directions, and it
  is charged the fee of the category it has (checkout, review, refunds);
- every movement of money at the gateway is booked once, after it happened, and
  eventually (capture, refund reports, reconciliation);
- a refund never promises more than a capture brought in, and an uncertain refund is
  not given up (refunds);
- nobody is admitted who should not be: students without a verdict, papers outside the
  programme, registrations that were closed with money in them;
- what is submitted has a clean PDF, one number, stays submitted, and entered while the
  call was open and within the limit (submission);
- a cycle that was decided is frozen, only one cycle is open, a review counts exactly if
  its assignment is completed, and authors see released reviews only (review);
- an answer to an invitation is final, its current link gives the role once, and no retry
  invites twice (invitations);
- the outbox of reminders and the queue agree, and a reminder speaks of work that is
  still owed (digests);
- a campaign is sent as it was shown to the organizer who confirmed it, unless an edit
  already under way overtakes the confirmation; it spares those who are settled, and does
  not hang (outreach).

`PROJECT.json` lists the hazards found in the code at their lines, with the properties
that cover them, or the reason why none does.

## 2. Modules

| module | what it is |
|---|---|
| `PaidState` | the shape of the payment rows and the pure functions of `paid-state.ts`: `Net`, `StatusAfterCapture`, `StatusAfterRefund` |
| `Checkout` | one accepted paper, its registration and its payments (`EXTENDS PaidState`) |
| `Refunds` | intents, the gateway's refunds and their reports (`EXTENDS Checkout`) |
| `Ledger` | the abstract promise: a movement happens once, is booked at most once, afterwards, for good |
| `Submission` | drafts and papers of one conference, their authors, PDFs and the call for papers |
| `ReviewCycle` | the review of one paper over its cycles, up to the decision |
| `Invitations` | the invitations of one conference, by pages, Bot API and batch |
| `Digests` | the reminders to one reviewer: outbox rows and jobs |
| `Outreach` | one campaign, its recipients, jobs and reports |
| `MC...` | the instances TLC explores |
| `PaidStateProofs` | lemmas about the totals of `PaidState` (`EXTENDS PaidState`) |
| `CheckoutProofs`, `RefundProofs` | the theorems about `Checkout` and `Refunds` |
| `SubmissionProofs`, `ReviewCycleProofs`, `InvitationProofs`, `DigestProofs`, `OutreachProofs` | the theorems about the module each one extends |

One convention holds in all of them. One `withTenantContext` call is one database
transaction and one action. A handler that makes several, or that talks to an outside
service in between, has a phase (`call`, `opener`, `wd`, `req`, `page`, `hook`, the state of
a job) and keeps what it read. A transaction is split into two steps only where it reads
something without a lock that others may change before it writes, or where it holds a lock
that others meet: then the lock is a guard of the others (`LockFree`, `CycleFree`,
`Unlocked`, `wd.pc = "idle"`). A request that is refused, rolled back or whose process
stops is one action (`Abort`, `Stop`, `CallStops`, `PageStops`).

`Faulty variant` in a comment marks a definition that the specifications do not use: it
states what a plausible mistake in the code would be, and is kept to see that the
properties notice it. "History" in a comment marks state that the code does not keep.

### Checkout against the code

| variable | in the code |
|---|---|
| `paper` | `Paper.status`, `Decision.notifiedAt` as a flag, a camera-ready upload that waits for its scan |
| `reg` | the `Registration` row: `status`, `audience`, `amountDueMinor` (`due`), `lockedTiming` (`locked`), `userId`, `deadlineAt`, `additionalGraceUntil` (`grace`) |
| `pays` | the `Payment` rows in `createdAt` order; `order` is `providerOrderId`, `fresh` is younger than a minute, `parent` is `refundOfPaymentId`, `ref` the refund id |
| `ver` | the newest `StudentVerification` and whether its document has passed the scan |
| `call`, `opener`, `wd` | payment requests, release requests, the withdrawal transaction in progress |
| `current` | `Registration.version`: which requests hold a version that is still the row's |
| `paid` | external: the orders the gateway has captured |

- `initiatePayment` is `ReadForPayment`, `Reserve`, then `AttachOrder` or `OrderFails`;
  `CallStops` is a refused request or an API process that stops. A row that is
  superseded in `Reserve` becomes FAILED only together with the new reservation,
  because a later failed check rolls the transaction back.
- `processCapture` is `Capture`, whoever reports it: the state after a webhook, a
  callback and reconciliation is the same, and a repeated report returns early because
  the row is settled (`Capturable`: this is taken from the code, no property tests it). `Reconcile` is the same step taken by the job; its
  guard is the job's query. The query wants rows older than 30 minutes, `Age` marks the
  end of the one minute during which later requests wait; the model lets the job come as
  early as that, which adds behaviours.
- `openRegistration` is `OpenRead`, then `OpenCreate`, or `OpenCount` and `Reopen`;
  `Release` is `notifyDecisionAuthors`.
- `createRegistration` is `SaveDetails` (category still free) or `FillMissingDetails`.
- `review` is `ApproveProof`, `ClarifyProof`, `RejectProof`; `completeDocUpload` is
  `UploadProof`.
- `withdraw` is `WithdrawRead` and `WithdrawCommit`: one transaction, two steps, since it
  reads the registration without a lock and then updates it by id. Its update of the
  paper holds the paper's row lock, so captures and scans wait (`wd.pc = "idle"` in their
  guards).
- `extendDeadline` compares a version it read without a lock; the comparison guards
  nothing, so `ExtendDeadline` has no version guard.
- `assertPaperAccepted` runs in a transaction of its own before the handler's work and
  may be arbitrarily old when used; `AcceptanceWasReleased` says no more than that.

Amounts are small integers. One unit stands for at least the 100 minor units below which
no order is created. The fee matrix is two constants: the early and the regular timing
and the additional-paper rate choose other numbers, not other steps. The specification
starts after the last ACCEPT decision has been committed.

### Refunds against the code

`RequestRefund` is the transaction of `refund`, with the allocation to the oldest captures
in `Share` and `Intents`; `SendIntent` is `executeRefundIntent`, from the request or from
reconciliation; `ApplyRefundEvent` is `processRefundEntity`. The gateway (`gw`) accepts an
intent once per idempotency key and settles it later. Reports are a set that only grows
(`events`), so each may be applied any number of times, late, and in any order.
`DashboardRefund` is a refund made at the gateway, which has no intent.

`RefundInit` is a registration with a locked price and two orders in the payer's hands, the
first one superseded, as `Checkout` reaches it. `RefundNext` has those steps of `Checkout`
that such a registration can meet and that touch money, proof or paper. The others are
left out because they cannot act on it or cannot matter to it: release and reopening
(the price is locked), saving details, camera-ready files, the clock and the deadline.

### Submission against the code

`papers` are `Paper` rows with their `Authorship`s (`handed`, history: the corresponding
author was replaced), `versions` the PDFs with `scanStatus` and what the scanner will say,
`cfpOpen` the conference's call for papers, `req` the requests.

- `create` is `LoadCreate`, `CountOpen`, `Create`; `submit` is `LoadSubmit`,
  `CountSubmitted`, then `Submit` or `NumberTaken`. The state `counted` stands for a
  transaction that holds the conference row FOR SHARE (`lockOpenCfp`) and the advisory lock of
  one person (`lockedCorrespondingCount`): `LockFree` keeps other counts of that person out,
  `SetCfp` waits for the share lock.
- The person is the corresponding author, or the submitter when that author has no
  account (`LockOf`); the count is about either of them (`CountOf`).
- Numbers are drawn from a small set; a number that is taken rolls the transaction back
  and it is tried again with another one (`NumberTaken`).
- `Finalize` is `finalizeUpload`; `Scan` is `applyScanResult` and stays enabled, because the job
  may be delivered again. `DeleteDraft`, `AddAuthor`, `RemoveAuthor` check the draft in an
  earlier transaction and write in another one, as the code does.
- `Withdraw` is a conditional update, one step. The statuses of the review stand as
  SUBMITTED; what withdrawal does there is in `ReviewCycle`.

### ReviewCycle against the code

`cycles` are the `ReviewRound`s with their `Decision` and `Rebuttal`, `asg` and `rev` the
assignment and the review of each reviewer in each cycle, `fresh` the requests whose review
version is still the row's.

- `saveReview` and `submitReview` are `LoadReview` (assignment, review and its version, in
  transactions of their own), `CheckReview` (`lockReviewRound`, then assignment and decision
  again) and `Save` or `Submit`. Between the last two the request holds the cycle's row lock.
  A save after submission goes to `pending` and is published by the next submission.
- `assign` is `LoadAssign` and `Assign`: the decision, the assignments and the paper's status
  are read before. The Bot API's `assign` locks paper and cycle first, so it is one step
  (`BotAssign`). Inserting an assignment or a decision needs a key-share lock on the cycle
  for its foreign key, hence `LockFree` in `Assign` and `Decide`.
- `unassign` and `intervene` are `LoadIntervention`, `CheckIntervention` and `Retire` or
  `Replace`; `releaseReviews` is one step under the lock; `submitRebuttal` is `LoadRebuttal`
  and `SubmitRebuttal`.
- `makeDecision` and each item of `bulkDecide` are `LoadDecision` and `Decide`: the paper is
  read without a lock and updated by id.
- A revision is `LoadRevision`, `UploadRevision` and `ScanRevision`, which opens the next
  cycle (`openRevisionCycle`) and may come again at any time.

### Invitations against the code

`rows` are the `ReviewerInvitation`s (`lapsed`: `expiresAt` has passed; `link`: which of its
tokens is current; `by`, history: who created it), `access` the addresses whose account has
the reviewer role, `bot` the Bot API's requestIds, `batch` one uploaded batch, `stale` the list
of the running expiry sweep.

Every transaction that writes an invitation begins with the conference's advisory lock
and reads after it, so it is one step; what came from an earlier transaction is in `req`.
`Issue` repeats the search that `LoadIssue` made; `Accept` and `Decline` compare the token
again that `OpenLink` resolved; `BotGenerate` stores its response in the same transaction;
`ProcessChunk` takes one row of the batch, with the batch row locked, and what a stopped
worker has not committed it does again. `Reinvite`, `Reissue`, `Revoke` are the actions of
`applyInvitationAction`; `Remove` is `revoke`, the Bot API's `remove` and the clean-up after a
failed mail. The reviewer role also comes and goes without an invitation: `GrantRole` and
`RevokeRole` are `grantRole` and `revokeRole` of `tenancy/role-grant.service.ts`, which organizers
use at any time, whatever the invitations say. That an account has the role therefore says
nothing about invitations, and `LinkGrantsOnce` is about links only. `Invited` bounds whom
organizers and the Bot API turn to, for an invitation or a grant.

### Digests against the code

`digest` is the `ReviewerReminderDigest` of each UTC day, `jobs` the pg-boss jobs with their
`retryCount`, `work` what the reviewer owes, `req` what the organizer's page holds.

`send` is `ReadDay` (the day is taken before the day's advisory lock is granted) and `Send`,
which reserves the row and enqueues the job in one transaction. `processReviewerDigestJob`
is `Ignore`, or `Check` and `Handoff`: between the two it holds the row of the day and the cycles
(`app_lock_digest_cycles`). `Fail` is an attempt that throws, with `recordDigestFailure`;
`Crash` is a worker that stops, before or after its commit. A job that has `committed` and
crashes is delivered again.

### Outreach against the code

`campaign` and `recipients` are the rows (`import`: which import made the row, standing for its
id; `mailed`, external: the provider has accepted a mail for it), `barred` the
`EmailSuppression`s, `sends` the jobs, `page` what an organizer's page or request holds,
`unchanged` the pages whose version is still the campaign's, `hook` the webhook transactions.

- `importRecipients` is `ImportRead` and `ImportWrite`, `selectTemplate` is `SelectRead` and
  `SelectWrite`: whether the campaign is editable is looked up in a transaction of its own, and
  the write is by id.
- `View` is `getCampaign` of a page that will confirm: the frontend offers that only for a
  campaign that is `Sendable` (`canSend` of its page), and `Confirm` asks again.
- `sendCampaign` is `Confirm` (its reads and its conditional update are at one version),
  then `Enqueue` or `EnqueueFails`; the API may stop in between.
- `processOutreachCampaignJob` is `LoadSend`, which reads the campaign and so the template that
  this attempt will send; after the provider's limits `Begin`, which lists the recipients, or
  `LimitsFail`; then for each recipient `Consider`
  (suppressed? quota left?), `Mark`, `Mail` or `Refuse`, `RecordSent` or `RecordFailed`, then
  `ReadOutcome` and `WriteOutcome`. A recipient whose row an import has replaced makes the
  update throw (`WriteRecipient`). The order of the recipients is left open. Jobs of one
  campaign may run at the same time: `singletonKey` restricts nothing in queues of
  pg-boss 10's standard policy.
- A webhook is `Report` and `CommitReport`: it locks its recipient by the update, and then
  reads the campaign without a lock and writes it.
- `shown` (history) is what the organizer who confirmed last was shown: template and import,
  and which edits were under way (`early`). It no longer `stands` once one of those edits is
  written, or a webhook or a job writes back a DRAFT or READY that it read before. The code
  has no such record; `SendsWhatWasConfirmed` compares each attempt with it.

## 3. Runs

Bounds are chosen so that the interesting case of each property happens, and no smaller.

| run | checks | bounds | shows |
|---|---|---|---|
| `checkout` | `TypeOK`, `PaidIsSettled`, `SettledIsRecognised`, `QuoteHonoured`, `StudentsVerified`, `OneOpenCheckout`, `ReopenOnlyUntouched`, `WithdrawnNeverAdmitted`, `BooksEachChargeOnce` | 1 author, 2 payment requests, 1 release request, 2 rows; the clock stands still | 0.9 million states: status, price and balance agree; each charge is booked once |
| `lost_webhook` | `OpenChargeIsRecorded` | 1 payment request, 1 release, 2 rows, a clock with two values | a charge on an open order is recorded by reconciliation alone |
| `refunds` | `RefundTypeOK`, `PaidIsSettled`, `SettledIsRecognised`, `BooksBalance`, `ProcessedIsFinal`, `ImplementsLedger` | 4 rows, 1 further payment request, 1 refund carried out by the gateway, from an intent or the dashboard | the balance counts each movement once |
| `intents` | `RefundsWithinCapture`, `IntentIsSettled` | 4 rows, 2 refunds, no further checkout, no dashboard refund | reservations stay within the capture; each intent ends |
| `submission` | `SubmittedHasCleanPdf`, `WithinLimit`, `SubmittedIsFinal`, `ClosedCfpTakesNothing` | 1 user, 1 author without account, 2 papers, 2 requests, 2 numbers, limit 1, 2 PDFs | 2.2 million states: limit, numbers, PDFs and cutoff hold |
| `review_cycle` | `SubmittedIsCompleted`, `AuthorsSeeReleased`, `OnlyNewestCycleOpen`, `DecidedCycleIsFrozen`, `ReplacedStaysOut`, `PublishesLatestSave` | 2 reviewers, 2 requests, 2 texts, 3 cycles, 2 assignments, 1 revision | 1.5 million states: what is written under old reads is refused where it matters |
| `invitations` | `RetriesInviteOnce`, `ClosedStaysClosed`, `LinkGrantsOnce`, `AnswerUsesCurrentLink`, `NewInvitationIsAlone`, `RenewedIsNotExpired` | 2 invitations, 1 reissue, 2 pages, 1 requestId, a batch with an author and the invitee twice, the role granted and revoked at any time | 2.4 million states: answers are final, retries and replays harmless |
| `digests` | `OutboxMatchesQueue`, `RemindsOpenWork`, `DigestIsSettled` | 1 assignment with 1 change, 2 requests, 2 days, 1 retry | 0.5 million states, with liveness: one email per settled reservation |
| `outreach` | `SendingIsCarried`, `SendsWhatWasConfirmed`, `SettledAreSpared` | 1 address, 2 templates, 2 pages, 2 imports, 2 jobs, 2 attempts in all, 1 retry, reports of bounces by 1 webhook at a time | 2.6 million states: no campaign hangs, attempts send what was shown, nobody settled is mailed |
| `withdraw_paid` | `WithdrawalLeavesPaid` | 1 row | violated, see below |
| `superseded_refund` | `UncertainStaysReserved` | 4 rows, 1 refund | violated, see below |
| `late_capture` | `ClosedStatusRetained` | 4 rows | violated, see below |

The type invariants of `ReviewCycle`, `Invitations`, `Submission`, `Digests` and `Outreach` are
checked as the first part of one other invariant of the module (`SubmittedIsCompleted`,
`RetriesInviteOnce`, `WithinLimit`, `OutboxMatchesQueue`, `SendingIsCarried`).

Why the bounds are enough. *Billing*: two rows are the least for a superseded order, two
requests the least for a race on the reservation, one release request suffices because the
author and the organizer race through the registration and not through each other. Fees 1
and 2 make the student fee, the difference and the regular fee distinguishable: 1 is short
of 2, 1 + 1 settles it. With one author, the check that another author has not started the
registration never refuses anybody; no property here is about it, and the theorems hold
for any set of authors. *Submission*: a limit of 1 is exceeded by two papers, and two requests
are what a race on it takes; two PDFs can be scanned in both orders and twice. *Reviews*: each
property is about one assignment or one cycle and two requests that disagree about it; a
second reviewer serves as replacement and as the one whose review is released alone; the
third cycle is the one that a repeated scan would open too early. *Invitations*: two rows are
what it takes to invite an address twice; the batch contains a duplicate and an author.
*Digests*: the second day shows a job that outlives its day and a request that is sent again;
one retry has a first, a repeated and a last attempt. *Outreach*: the properties are about one
recipient and one campaign; two attempts are a retry of one job or two jobs side by side. Two
templates and two imports are what it takes to send something else than was shown. A bounce
is the report that settles a recipient and suppresses its address; with reports of SENT
beside it the instance has 5.2 million states, which were also explored without an error.

Deadlock is checked except where the system really may come to rest: in `intents` when every
row is settled and the gateway's bound is used up, in `review_cycle` when the paper is
withdrawn and there is nothing left to release, in `digests` when the work is done or the
address suppressed, no request is open and every job has ended, in `outreach` when the
campaign is sent and every job has ended (that it does not rest as SENDING is what
`SendingIsCarried` says).

`intents` has no further checkout, because one can take back an intent's reservation
(the finding `superseded_refund`); and no dashboard refunds, because an intent whose
money has gone out through the dashboard is refused by the gateway for ever and its row
stays CREATED. No document promises otherwise, and `PROJECT.json` lists it as a hazard.

### Fairness

`FairCheckoutSpec` assumes that the database ends every withdrawal transaction, by commit
or rollback (weak fairness of the disjunction: which of the two is not assumed), that time
passes (`Age`), and strong fairness of reconciliation. The worker schedules the job every
five minutes (`worker/main.ts:72`). Strong fairness is needed because a withdrawal may hold
the paper's row lock again and again; PostgreSQL queues the waiters of a row lock, so a
capture that waits is granted it in the end. Nothing is assumed of webhooks, browsers,
authors or organizers: they may stop for ever.

`FairRefundSpec` assumes that reconciliation sends what is open and asks again for what was
sent (its batch is ordered by `updatedAt` and touches what it inspected), and that the
gateway settles what it accepted.

`DigestFairness` is weak fairness of each job's attempt: the worker polls its queue and starts
what is due. Failures and crashes are possible at every attempt and never assumed. A
reservation whose last attempt was lost in a crash stays PREPARING, since nothing records
that loss: this is the exception `DigestIsSettled` states. `Submission`, `ReviewCycle`,
`Invitations` and `Outreach` promise nothing that must happen: a scan may never be enqueued
after a crash, people may never answer, and `SendingIsCarried` says as an invariant what
liveness would say of a campaign, without assuming that workers or providers answer.

### Disagreements with the documentation

- **`withdraw_paid`** `withdraw` reads the registration without a lock and updates it by id.
  An approval that commits in between is overwritten: the registration goes from PAID to
  CANCELLED, where `docs/SYSTEM_DESIGN.md:1211` says a paid one is left alone.
- **`superseded_refund`** `initiatePayment` searches for an abandoned CREATED payment without
  excluding refunds, and gives up a refund intent whose outcome is not known, although
  `payments.service.ts:589` says uncertain outcomes stay reserved.
- **`late_capture`** a capture for a withdrawn paper writes CANCELLED over REFUNDED, although
  `docs/payment-security-audit-2026-11-02.md:11` says captures retain the state.

Seen in the models, without a run of their own:

- A decision reads the paper without a lock and updates it by id (`decisions.service.ts:392`,
  `:487`); so does the first assignment (`assignments.service.ts:494`). A withdrawal that
  commits in between is undone: the paper is UNDER_REVIEW or DECISION_MADE again, its open
  assignments stay DECLINED, although `docs/SYSTEM_DESIGN.md:1211` has withdrawal set the paper
  to WITHDRAWN. `ReviewCycle` has these steps, so its properties hold with papers revived so.
- A webhook that read SENDING before the job's last write puts SENDING back after it
  (`db/outreach-rollup.ts:48`). The campaign cannot be confirmed again. `SendingIsCarried` names
  this case (`stranded`) beside an API that stops before it enqueues and a job that used up
  its retries; what it excludes is every other way to hang.
- An import or a template selection reads whether the campaign is editable in one
  transaction and writes it by id in another (`outreach.service.ts:175`, `:282`). One that was
  read before a confirmation and is written after it changes what is sent: the job takes
  subject and body when an attempt loads the campaign (`worker/outreach.ts:21`, `:47`) and lists
  the recipients later still (`:76`), so it mails a template or recipients that the organizer who
  confirmed was not shown. Written while the job is sending, an import replaces its
  recipients and makes the campaign READY (`outreach.service.ts:196`): the next confirmation
  mails everybody. A READY written back by a webhook or a job that read it earlier has the
  same effect, since the campaign is then editable although it was confirmed.
  `docs/SYSTEM_DESIGN.md:180`, `:291` and `:1186` ask for an explicit confirmation and a template
  snapshot and promise nothing of edits under way, so there is no run for it:
  `SendsWhatWasConfirmed` says what does hold, that nothing else changes what is sent. Even so,
  an attempt that took its template before another confirmation may list the recipients of
  after it.
- Resending or reissuing an expired invitation revives it beside a newer active one
  (`invitations.service.ts:288`); `NewInvitationIsAlone` is about new invitations.
- The limit of papers is counted in `create` and `submit` only: a paper handed to another
  corresponding author escapes it, so `WithinLimit` speaks of papers that kept theirs.

## 4. Proofs

Every invariant and action property that a passing run checks is also a theorem, for every
value of the constants: any numbers of people, requests, papers, reviewers, recipients and
jobs, any fees and limits, and any bounds. So is the refinement of `Ledger`, by payments
alone and with refunds. One theorem has more hypotheses than its specification:
`PromisesAreCovered`, see *Refunds* below.

| module | theorem | states |
|---|---|---|
| `CheckoutProofs` | `TypeCorrect` | `TypeOK` |
| | `Invariance` | `IInv`, the inductive invariant |
| | `QuoteIsHonoured`, `StudentsAreVerified`, `CheckoutIsShared` | `QuoteHonoured`, `StudentsVerified`, `OneOpenCheckout` |
| | `OnlyUntouchedReopens` | `ReopenOnlyUntouched` |
| | `ChargesAreBookedOnce` | `BooksEachChargeOnce`: `Checkout` implements `Ledger` |
| | `BalanceInvariance` | `OrdersFollowCalls` and `BalanceAgrees`, inductive |
| | `PaidRegistrationsAreSettled`, `SettledRegistrationsAreRecognised` | `PaidIsSettled`, `SettledIsRecognised` |
| | `WithdrawnPapersStayOut` | `WithdrawnNeverAdmitted` |
| `RefundProofs` | `RefundInvariance` | `RefundInv`, the inductive invariant |
| | `RefundTypeCorrect` | `RefundTypeOK` |
| | `RefundsLeavePaidSettled` | `PaidIsSettled` and `SettledIsRecognised`, with refunds |
| | `BalanceCountsEachOnce` | `BooksBalance` |
| | `ProcessedRefundsAreFinal` | `ProcessedIsFinal` |
| | `BillingImplementsLedger` | `ImplementsLedger`: charges and refunds together implement `Ledger` |
| | `PromisesAreCovered` | `RefundsWithinCapture`, under two hypotheses |
| `SubmissionProofs` | `SubmissionInvariance` | `IInv` |
| | `SubmittedPapersAreClean`, `LimitIsKept` | `SubmittedHasCleanPdf`, `WithinLimit` |
| | `SubmissionsAreFinal`, `ClosedCallTakesNothing` | `SubmittedIsFinal`, `ClosedCfpTakesNothing` |
| `ReviewCycleProofs` | `ReviewInvariance` | `IInv` |
| | `SubmittedIsAlwaysCompleted`, `AuthorsOnlySeeReleased`, `OneCycleIsOpen` | `SubmittedIsCompleted`, `AuthorsSeeReleased`, `OnlyNewestCycleOpen` |
| | `DecidedCyclesAreFrozen`, `ReplacedReviewersStayOut`, `LatestSaveIsPublished` | `DecidedCycleIsFrozen`, `ReplacedStaysOut`, `PublishesLatestSave` |
| `InvitationProofs` | `InvitationInvariance` | `IInv` |
| | `RetriesAlwaysInviteOnce` | `RetriesInviteOnce` |
| | `ClosedInvitationsStay`, `LinksGrantOnce`, `AnswersTakeTheCurrentLink` | `ClosedStaysClosed`, `LinkGrantsOnce`, `AnswerUsesCurrentLink` |
| | `NewInvitationsAreAlone`, `RenewedInvitationsStay` | `NewInvitationIsAlone`, `RenewedIsNotExpired` |
| `DigestProofs` | `DigestInvariance` | `IInv` |
| | `OutboxAgreesWithQueue`, `OnlyOpenWorkIsReminded` | `OutboxMatchesQueue`, `RemindsOpenWork` |
| `OutreachProofs` | `OutreachInvariance` | `IInv` |
| | `NoCampaignIsForgotten` | `SendingIsCarried` |
| | `ConfirmedIsSent`, `NoSettledRecipientIsMailed` | `SendsWhatWasConfirmed`, `SettledAreSpared` |

### Assumptions

They are named in the modules that declare the constants, and TLC evaluates them on each run.
Most say that a value standing for "none" is no proper value (`NoUserIsNoUser`,
`NullsAreNoValues`, `NoEmailIsNoEmail`, `RequestIsNoNull`, `NumberIsNoNull`), that two kinds
of requests or people are different (`RequestsDiffer`, `OriginsDiffer`,
`PeopleAreDistinct`), or that a bound is a number (`TimesAreNat`, `RowsAreBounded`,
`BoundsAreNat`, `DigestBounds`, ...). Those that say more:

- `FeesArePayable`: fees are positive, as the code has it of an amount it opens an order for;
- `TwoOrdersFit`: the bound on rows admits the two orders with which `RefundInit` begins;
- `RefundBounds`: a refund at the dashboard has a positive amount, as the gateway demands;
- `PapersAreFinite`: the limit is a number of papers, so there must be such a number;
- `AddressesAreEmails`, `InputIsAddresses`: a batch and its conference speak of addresses;
- `OutreachAssumption`: a webhook reports a status the code maps to (`Reports`).

### Checkout

A request computes its quote before it holds any lock, so `QuoteHonoured`
is not inductive: nothing in it says that the quote a request carries is still the right
one when it reserves. `CurrentReads` does: while the version a request read is still the
registration's, what it read with it is still true, because every step that changes the
category, the lock or the status also increments the version. In the same way it
carries `OpenCount`'s answer to `Reopen`. `PriceFollowsStatus` ties status, lock and amount
due together: no payment exists before the price is locked, a locked PENDING
registration owes the fee of its category, an additional payment is owed on the
regular fee. With both,

    IInv == TypeOK /\ PriceFollowsStatus /\ CurrentReads
              /\ QuoteHonoured /\ StudentsVerified /\ OneOpenCheckout

is inductive: the lemmas `TypeStep`, `PriceStep`, `ReadsStep`, `StudentStep` and `OpenRowStep`
each prove one part, with a step for every action, and `InvStep` joins them.

`OnlyUntouchedReopens` follows because the only step out of a closed status is `Reopen`, with
a current version, hence with the lock it read, hence (by `PriceFollowsStatus`) without any
payment row at all. For the refinement, `OrdersFollowCalls` says that the row of a
request that waits for the gateway has no order yet, so that `OrderFails` cannot take back
a charge; `LedgerStep` then maps `PayOrder` to `Happen`, `Capture` to `Book`, and every other
step to a stutter.

`PaidIsSettled` and `SettledIsRecognised` relate the status to the balance `Net`, a total
over the rows. The library's `MapThenFoldSet` computes such a total by recursion on sets, and the
induction theorems that take an operator cannot be used. Its principle can be stated
without one: every family of subsets of a finite set has a member that contains no other
(`Smallest`). Applied to the family of the subsets for which a claim fails, it gives that
the fold exists, that its value does not depend on the order in which rows are taken, and
so that a total splits (`TotalSplits`), grows by the amount of a row that is added
(`TotalAdds`), and is the same after its rows are renamed (`TotalRenamed`). From these
follow `NetKept` and `NetCaptures`: which updates of the rows leave the balance alone, and
that a capture does not lower it. Every step that moves money derives the status from the
rows it leaves, so `BalanceAgrees` is inductive on top of `IInv`.

`WithdrawnPapersStayOut` needs `WithdrawalsClose`: while a paper is out, its registration
does not await a verdict, which is the settled status that a verdict turns into PAID
without looking at the paper. It also has a clause for a withdrawal that has read a status
and not yet written.

### Refunds

`RefundInv` has the types, `OrdersFollowCalls`, the status clauses of `Checkout`, and what ties
three tables together, the rows, the gateway's refunds and the reports: a report says no
more than the gateway did (`EventsAreTrue`); a row with a gateway id has that refund's
amount and charge (`RowsMatch`) and no other row has it (`RefsDiffer`); an intent was sent
once, for its own amount and charge (`IntentsMatch`). `BooksBalance` compares two totals, one
over rows and one over the gateway's refunds: `ref` is a bijection between the rows that
count and the refunds booked, and `TotalRenamed` does the rest. `ProcessedIsFinal` and the
refinement follow one action at a time: `GatewaySettles` with success maps to `Happen`, the
first `ApplyRefundEvent` that reports it to `Book`, payments as in `Checkout`, and every other
step to a stutter.

`PromisesAreCovered` assumes `Calls = {}` and `DashboardAmounts = {}`, the instance of the run
`intents` for any number of rows and refunds. Neither can be dropped. A further checkout
may take back an open intent's reservation (the finding `superseded_refund`), after which
the same money is promised again; a refund at the dashboard is not reserved by the code at
all. Under both, a failed intent is one the gateway refused (`ReservationsHold`), so money
that was given up cannot still go out.

### The other modules

- *Submission.* `submit` counts and then writes. The request that has counted holds its
  author's lock and no other request does (`CountersExclude`); a paper that never changed
  hands still has the author whose lock was taken (`SubmitsKnowPaper`); so the count is still
  below the limit when the paper is submitted (`CountStands`). `CurrentIsClean` says of every
  current version what `SubmittedHasCleanPdf` says of those of submitted papers.
- *ReviewCycle.* What a request that holds a cycle's lock has checked remains true, since no
  other holds that lock (`OneHolder`, `CheckedStillHolds`); that the assignment is still
  open is not part of it, because a withdrawal declines assignments without the lock, and
  the write repeats that check. A version that is current vouches for the text that was
  read (`FreshReads`). The action properties follow from these, one action at a time.
- *Invitations.* An invitation of a requestId, or of the batch, was committed together with
  what stops its repetition (`AnswersRecorded`, `BatchRecorded`). `RowChanges` says what
  any step does to the table (it adds one row, or changes one, or leaves it alone), and
  every action property follows from it.
- *Digests.* A job between its check and its handoff is the current one of its day and alone
  there (`CheckedHoldsDay`), and the work of its snapshot has not moved, since the steps
  that move it wait for the cycle's lock (`CheckedIsOpen`).
- *Outreach.* What a job will write last is never SENDING (`OutcomesSettle`), so whatever
  ends a request or an attempt leaves the campaign settled, carried by another, or marked
  as one of the losses that `SendingIsCarried` names. A page whose version is current shows the
  campaign (`PagesShowCampaign`), so a confirmation records what the campaign is. It stays so
  because a confirmed campaign is not editable: whoever can still write an edit was under
  way at the confirmation (`ConfirmationStands`: the editors are among `early`, the status is
  neither DRAFT nor READY), and writing it ends the confirmation. This invariant gives
  `SendsWhatWasConfirmed` at once; `StandsThroughRequests`, `StandsThroughJobs` and
  `StandsThroughReports` prove it step by step. An attempt does not list recipients that are settled; of
  those it lists, the ones it must spare were barred before it began (`SparedAreBarred`), and
  it asks for suppressions before it decides (`QueuedAreNotSpared`).

Each inductive invariant was first explored by TLC as an invariant of its module's run.

### Only model-checked

`OpenChargeIsRecorded`, `IntentIsSettled` and `DigestIsSettled`: liveness under fairness, which
is out of the prover's reach. The runs that are expected to show a violation have nothing
to prove.

## 5. Not modelled

- *Web frontend*: presentation and calls of the API; it keeps no state that the API relies
  on. It is nearly half of the lines of the program. Most of the rest are
  controllers, data transfer objects, mappers, queries for lists and dashboards, and
  templates of mails: they read, and change no state.
- *Discard sweep*: the job has a handler (`worker/discard-sweep.ts`), but nothing enqueues it.
- *Invoices*: a unique key allows one row per payment; a number that a stopped job had
  reserved is not used again. The rest is rendering and sending a document.
- *Delivery of mails*: `Digests` ends where the email is in the queue. Individual and
  scheduled reminders (`reminder-sweep.ts`) write their log and enqueue in two transactions;
  the hazard is listed.
- *Bids, conflicts of interest, due dates*: they refuse an assignment, a review or a
  rebuttal, and undo nothing; a request that stops is possible at every step anyway.
- *API keys, scopes, rate limits, role checks, audit rows, analytics*: no step here
  depends on them, beyond refusing a request.
- *Billing*: the fee matrix, currencies and additional-paper discount (numbers); the mock
  provider; signatures of webhooks; a second payment provider; refund rows written before
  the parent payment was stored (`legacy` in `refund`). An order whose id was stored on a
  row that is already FAILED can be paid and is recorded if its webhook arrives, but
  reconciliation does not ask for it: `OpenChargeIsRecorded` is about rows that are open,
  and the hazard is listed.

## 6. Plan

The safety of every module is proved. What is left, in this order:

1. Statements the proofs have suggested and no run checks yet: that a rejected proof never
   leaves a student fee standing once the regular fee is due; that a withdrawal declines
   every open assignment unless a decision or an assignment revives the paper.
2. More of the program, where a hazard of `PROJECT.json` has no property because its code is
   not modelled: the reminder sweep, the recovery of files that were never scanned.
3. An abstract specification of a reminder, sent at most once per reservation, which `Digests`
   implements, beside `Ledger` for billing.
