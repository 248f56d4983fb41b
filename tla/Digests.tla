-------------------------------- MODULE Digests --------------------------------
(***************************************************************************)
(* Reminder digests: an organizer reminds one reviewer of one conference   *)
(* of the reviews still owed, at most once a UTC day.                      *)
(*                                                                         *)
(* The row of a day is a durable outbox.  The request reserves the day and *)
(* enqueues a job in one transaction; the worker's job looks at the work   *)
(* again under the locks of its review cycles and turns the reservation    *)
(* into one email.  In between reviews are submitted, deadlines are moved  *)
(* and papers withdrawn; jobs fail, crash and are delivered again.         *)
(*                                                                         *)
(* A request reads the day before it waits for the day's advisory lock;    *)
(* what it does under that lock is one step.  A job holds its locks from   *)
(* Check to Handoff.  Left out: the rendered text, the audit log, and the  *)
(* delivery of the email once it is in the queue.                          *)
(***************************************************************************)
EXTENDS Integers, Sequences, FiniteSets

CONSTANTS
  Assignments,  \* the reviewer's assignments, each in a cycle of its own
  Requests,     \* request ids, each made for one preview
  NoRequest,
  MaxDay,       \* bound on the days that pass
  MaxVersion,   \* bound on the changes of one assignment
  RetryLimit    \* retryLimit of the digest job (5 in the code)

ASSUME RequestIsNoNull == NoRequest \notin Requests
ASSUME DigestBounds == MaxDay \in Nat \ {0} /\ MaxVersion \in Nat /\ RetryLimit \in Nat

VARIABLES
  today,       \* the UTC day
  work,        \* assignments: version, done (reviewed, released or decided), dropped
  suppressed,  \* the mail provider reported the reviewer's address
  digest,      \* the row of each day, with the number of emails it queued
  jobs,        \* digest jobs: day, request, tries (retryCount), state
  req          \* what the organizer's request holds

digestVars == <<today, work, suppressed, digest, jobs, req>>

Days == 1..MaxDay
Snapshots == UNION {[s -> 0..MaxVersion] : s \in SUBSET Assignments}
NoSnapshot == [a \in {} |-> 0]
NoDigest == [status |-> "NONE", request |-> NoRequest, snapshot |-> NoSnapshot, mails |-> 0]

Init ==
  /\ today = 1
  /\ work = [a \in Assignments |-> [version |-> 0, done |-> FALSE, dropped |-> FALSE]]
  /\ suppressed = FALSE
  /\ digest = [d \in Days |-> NoDigest]
  /\ jobs = <<>>
  /\ req = [r \in Requests |-> [pc |-> "idle", day |-> 1, snapshot |-> NoSnapshot]]

-----------------------------------------------------------------------------
(* The work and its locks.                                                 *)

\* validateDigestTargets, and the comparison with the snapshot
StillOpen(snapshot) ==
  \A a \in DOMAIN snapshot :
    work[a].version = snapshot[a] /\ ~work[a].done /\ ~work[a].dropped

SnapshotOf(j) == digest[jobs[j].day].snapshot

\* Faulty variant: the job reads the work without locking its cycles.
NeverLocked(a) == TRUE

\* app_lock_digest_cycles: a job that has checked its snapshot holds the cycles.
CycleFree(a) ==
  \A j \in DOMAIN jobs : jobs[j].state = "checked" => a \notin DOMAIN SnapshotOf(j)

\* submitReview, releaseReviews, interventions; a decision refers to the
\* cycle it inserts for and waits for the lock too.
Change(a, done) ==
  /\ CycleFree(a)
  /\ ~work[a].done
  /\ work[a].version < MaxVersion \/ done
  /\ work' = [work EXCEPT ![a].version = IF done THEN @ ELSE @ + 1, ![a].done = done]
  /\ UNCHANGED <<today, suppressed, digest, jobs, req>>

\* withdraw takes no lock on the cycle.
Drop(a) ==
  /\ ~work[a].dropped
  /\ work' = [work EXCEPT ![a].dropped = TRUE]
  /\ UNCHANGED <<today, suppressed, digest, jobs, req>>

\* handleZeptoWebhook
Suppress ==
  /\ ~suppressed
  /\ suppressed' = TRUE
  /\ UNCHANGED <<today, work, digest, jobs, req>>

Midnight ==
  /\ today < MaxDay
  /\ today' = today + 1
  /\ UNCHANGED <<work, suppressed, digest, jobs, req>>

-----------------------------------------------------------------------------
(* The organizer: preview, send.                                           *)

Preview(r, chosen) ==
  /\ req[r].pc = "idle"
  /\ chosen # {}
  /\ \A a \in chosen : CycleFree(a)
  /\ LET snapshot == [a \in chosen |-> work[a].version]
     IN /\ StillOpen(snapshot)
        /\ req' = [req EXCEPT ![r].pc = "previewed", ![r].snapshot = snapshot]
  /\ ~suppressed
  /\ UNCHANGED <<today, work, suppressed, digest, jobs>>

\* The client may send the same request again, on another day too.
ReadDay(r) ==
  /\ req[r].pc = "previewed"
  /\ req' = [req EXCEPT ![r].pc = "sending", ![r].day = today]
  /\ UNCHANGED <<today, work, suppressed, digest, jobs>>

Answer(r) == req' = [req EXCEPT ![r].pc = "previewed"]

\* The request is not known, and its day is free or its digest was cancelled.
Reservable(r) ==
  /\ \A d \in Days : digest[d].request # r
  /\ digest[req[r].day].status \in {"NONE", "CANCELLED"}
  /\ digest[req[r].day].mails = 0

Send(r) ==
  LET d == req[r].day  snapshot == req[r].snapshot
  IN /\ req[r].pc = "sending"
     /\ Reservable(r)
     /\ \A a \in DOMAIN snapshot : CycleFree(a)
     /\ StillOpen(snapshot)
     /\ digest' = [digest EXCEPT ![d].status = "PREPARING", ![d].request = r,
                                 ![d].snapshot = snapshot]
     /\ jobs' = Append(jobs, [day |-> d, request |-> r, tries |-> 0, state |-> "waiting"])
     /\ Answer(r)
     /\ UNCHANGED <<today, work, suppressed>>

\* The known digest is reported, or the request is refused.
SendChangesNothing(r) ==
  /\ req[r].pc = "sending"
  /\ ~Reservable(r) \/ ~StillOpen(req[r].snapshot)
  /\ Answer(r)
  /\ UNCHANGED <<today, work, suppressed, digest, jobs>>

-----------------------------------------------------------------------------
(* The worker: processReviewerDigestJob and its retries.                   *)

SetState(j, state) == jobs' = [jobs EXCEPT ![j].state = state]

IsCurrent(j) ==
  /\ digest[jobs[j].day].status = "PREPARING"
  /\ digest[jobs[j].day].request = jobs[j].request

\* The row lock keeps two jobs of one day apart.
RowFree(j) ==
  \A o \in DOMAIN jobs : jobs[o].state = "checked" => jobs[o].day # jobs[j].day

Startable(j) == jobs[j].state = "waiting" /\ RowFree(j)

Ignore(j) ==
  /\ Startable(j)
  /\ ~IsCurrent(j)
  /\ SetState(j, "committed")
  /\ UNCHANGED <<today, work, suppressed, digest, req>>

\* Validation under the locks; a digest that does not pass is settled here.
Check(j) ==
  /\ Startable(j)
  /\ IsCurrent(j)
  /\ \A a \in DOMAIN SnapshotOf(j) : CycleFree(a)
  /\ IF StillOpen(SnapshotOf(j)) /\ ~suppressed
       THEN SetState(j, "checked") /\ UNCHANGED digest
       ELSE /\ SetState(j, "committed")
            /\ digest' = [digest EXCEPT ![jobs[j].day].status =
                 IF StillOpen(SnapshotOf(j)) THEN "SUPPRESSED" ELSE "CANCELLED"]
  /\ UNCHANGED <<today, work, suppressed, req>>

\* The log, the email job and QUEUED, in one transaction.
Handoff(j) ==
  LET d == jobs[j].day
  IN /\ jobs[j].state = "checked"
     /\ digest' = [digest EXCEPT ![d].status = "QUEUED", ![d].mails = @ + 1]
     /\ SetState(j, "committed")
     /\ UNCHANGED <<today, work, suppressed, req>>

Complete(j) ==
  /\ jobs[j].state = "committed"
  /\ SetState(j, "done")
  /\ UNCHANGED <<today, work, suppressed, digest, req>>

\* Faulty variant: the last attempt is taken for one more to retry.
IsTerminalLate(j) == jobs[j].tries > RetryLimit

\* retryCount >= retryLimit
IsTerminal(j) == jobs[j].tries >= RetryLimit

\* pg-boss hands a job out again until its retries are used up.
Retried(j, spent) ==
  jobs' = [jobs EXCEPT ![j].state = IF jobs[j].tries < RetryLimit THEN "waiting" ELSE spent,
                       ![j].tries = IF @ < RetryLimit THEN @ + 1 ELSE @]

\* Faulty variant: the failure is recorded for whatever holds the day.
FailureConcernsDay(j) == digest[jobs[j].day].status = "PREPARING"

\* recordDigestFailure, where requestId and status
FailureConcerns(j) == IsCurrent(j)

\* An attempt throws: its transaction rolls back, the failure is recorded.
Fail(j) ==
  /\ jobs[j].state = "checked" \/ Startable(j)
  /\ Retried(j, "failed")
  /\ digest' = IF FailureConcerns(j) /\ IsTerminal(j)
                 THEN [digest EXCEPT ![jobs[j].day].status = "FAILED"] ELSE digest
  /\ UNCHANGED <<today, work, suppressed, req>>

\* The worker stops during an attempt, before or after its commit; the job
\* expires.  Nothing records the loss of the last attempt.
Crash(j) ==
  /\ jobs[j].state \in {"waiting", "checked", "committed"}
  /\ Retried(j, "lost")
  /\ UNCHANGED <<today, work, suppressed, digest, req>>

-----------------------------------------------------------------------------
WorkStep ==
  \/ \E a \in Assignments, done \in BOOLEAN : Change(a, done)
  \/ \E a \in Assignments : Drop(a)
  \/ Suppress
  \/ Midnight

SendStep(r) ==
  \/ \E chosen \in SUBSET Assignments : Preview(r, chosen)
  \/ ReadDay(r)
  \/ Send(r)
  \/ SendChangesNothing(r)

Attempt(j) == Ignore(j) \/ Check(j) \/ Handoff(j) \/ Complete(j)

Next ==
  \/ WorkStep
  \/ \E r \in Requests : SendStep(r)
  \/ \E j \in DOMAIN jobs : Attempt(j) \/ Fail(j) \/ Crash(j)

\* Every reservation of a day but the first follows a change of the work.
MaxJobs == MaxDay * (1 + Cardinality(Assignments) * (MaxVersion + 2))

\* The worker polls its queue and starts a job that is due.
DigestFairness ==
  \A j \in 1..MaxJobs : WF_digestVars(j \in DOMAIN jobs /\ Attempt(j))

DigestSpec == Init /\ [][Next]_digestVars /\ DigestFairness

-----------------------------------------------------------------------------
(* Properties.                                                             *)

DigestTypeOK ==
  /\ today \in Days
  /\ work \in [Assignments -> [version : 0..MaxVersion, done : BOOLEAN, dropped : BOOLEAN]]
  /\ suppressed \in BOOLEAN
  /\ digest \in [Days ->
       [status : {"NONE", "PREPARING", "QUEUED", "CANCELLED", "SUPPRESSED", "FAILED"},
        request : Requests \cup {NoRequest}, snapshot : Snapshots, mails : 0..1]]
  /\ jobs \in Seq([day : Days, request : Requests, tries : 0..RetryLimit,
                   state : {"waiting", "checked", "committed", "done", "failed", "lost"}])
  /\ req \in [Requests -> [pc : {"idle", "previewed", "sending"}, day : Days,
                           snapshot : Snapshots]]

JobsOf(d, states) ==
  {j \in DOMAIN jobs : /\ jobs[j].day = d /\ jobs[j].request = digest[d].request
                       /\ jobs[j].state \in states}

\* The outbox and the queue agree: a reservation has a job of its own request
\* that is still to run or was lost in a crash, a digest is FAILED only when
\* that job used up its retries, and a digest has its one email exactly when
\* it is QUEUED, whatever is sent again, delivered again or crashes.
OutboxMatchesQueue ==
  /\ DigestTypeOK
  /\ \A d \in Days :
       /\ digest[d].status = "PREPARING" => JobsOf(d, {"waiting", "checked", "lost"}) # {}
       /\ digest[d].status = "FAILED" => JobsOf(d, {"failed"}) # {}
       /\ digest[d].mails = 1 <=> digest[d].status = "QUEUED"

\* When the email is queued, every assignment it names is as the organizer
\* saw it in the preview: not changed since, not reviewed, not decided.  A
\* withdrawal may slip in, it takes no lock.
RemindsOpenWork ==
  [][\A d \in Days : digest'[d].mails # digest[d].mails =>
       \A a \in DOMAIN digest[d].snapshot :
         ~work[a].done /\ work[a].version = digest[d].snapshot[a]]_digestVars

\* A reservation of a day does not stay PREPARING, unless the worker stopped
\* in the last attempt of its job.
DigestIsSettled ==
  \A d \in Days : digest[d].status = "PREPARING" ~>
    (digest[d].status # "PREPARING" \/ JobsOf(d, {"lost"}) # {})

=============================================================================
