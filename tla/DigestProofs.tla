------------------------------ MODULE DigestProofs ------------------------------
(***************************************************************************)
(* Theorems about Digests, for any assignments and requests, any number of *)
(* days, changes and retries.                                              *)
(*                                                                         *)
(* That the outbox agrees with the queue is inductive only together with   *)
(* what a job holds between its check and its handoff: the row of its day, *)
(* alone and still reserved for its own request (CheckedHoldsDay), and the *)
(* cycles of its snapshot, whose work has not moved (CheckedIsOpen).       *)
(*                                                                         *)
(* The theorems use the safety part of DigestSpec only; that a digest is   *)
(* settled at all needs its fairness.                                      *)
(***************************************************************************)
EXTENDS Digests, TLAPS

\* A job that has checked its digest holds the row of its day, alone.
CheckedHoldsDay ==
  \A j \in DOMAIN jobs : jobs[j].state = "checked" =>
    /\ IsCurrent(j)
    /\ \A o \in DOMAIN jobs :
         jobs[o].state = "checked" /\ jobs[o].day = jobs[j].day => o = j

\* The work that such a job reminds of is as the preview saw it.
CheckedIsOpen ==
  \A j \in DOMAIN jobs : jobs[j].state = "checked" =>
    \A a \in DOMAIN SnapshotOf(j) :
      ~work[a].done /\ work[a].version = SnapshotOf(j)[a]

IInv ==
  /\ OutboxMatchesQueue
  /\ CheckedHoldsDay
  /\ CheckedIsOpen

-----------------------------------------------------------------------------
(* Rows and their types.                                                   *)

WorkRow == [version : 0..MaxVersion, done : BOOLEAN, dropped : BOOLEAN]

DigestRow ==
  [status : {"NONE", "PREPARING", "QUEUED", "CANCELLED", "SUPPRESSED", "FAILED"},
   request : Requests \cup {NoRequest}, snapshot : Snapshots, mails : 0..1]

JobRow == [day : Days, request : Requests, tries : 0..RetryLimit,
           state : {"waiting", "checked", "committed", "done", "failed", "lost"}]

RequestRow == [pc : {"idle", "previewed", "sending"}, day : Days, snapshot : Snapshots]

\* The tables, row by row.
LEMMA TableTypes ==
  ASSUME DigestTypeOK
  PROVE  /\ today \in Days /\ suppressed \in BOOLEAN
         /\ work \in [Assignments -> WorkRow] /\ digest \in [Days -> DigestRow]
         /\ req \in [Requests -> RequestRow]
         /\ jobs \in Seq(JobRow) /\ Len(jobs) \in Nat /\ DOMAIN jobs = 1..Len(jobs)
         /\ \A j \in DOMAIN jobs : /\ jobs[j] \in JobRow /\ jobs[j].day \in Days
                                   /\ digest[jobs[j].day] \in DigestRow
<1>1. jobs \in Seq(JobRow) /\ digest \in [Days -> DigestRow]
  BY DEF DigestTypeOK, JobRow, DigestRow
<1>2. \A j \in DOMAIN jobs : jobs[j] \in JobRow
  BY <1>1
<1>3. \A j \in DOMAIN jobs : jobs[j].day \in Days
  BY <1>2 DEF JobRow
<1>4. QED
  BY <1>1, <1>2, <1>3 DEF DigestTypeOK, WorkRow, RequestRow

\* A snapshot gives some assignments their versions.
LEMMA SnapshotTypes ==
  /\ NoSnapshot \in Snapshots
  /\ \A snapshot \in Snapshots : DOMAIN snapshot \subseteq Assignments
  /\ \A s \in SUBSET Assignments : \A f \in [s -> 0..MaxVersion] : f \in Snapshots
<1>1. \A s \in SUBSET Assignments : \A f \in [s -> 0..MaxVersion] : f \in Snapshots
  BY DEF Snapshots
<1>2. NoSnapshot \in [{} -> 0..MaxVersion] /\ {} \in SUBSET Assignments
  BY DEF NoSnapshot
<1>3. \A snapshot \in Snapshots : DOMAIN snapshot \subseteq Assignments
  BY DEF Snapshots
<1>4. QED
  BY <1>1, <1>2, <1>3

-----------------------------------------------------------------------------
(* How one step changes the outbox and the queue.                          *)

\* The digest of a day gets another status and number of emails.
DayBecomes(d, status, mails) ==
  \E v \in DigestRow :
    /\ digest' = [digest EXCEPT ![d] = v]
    /\ v.status = status /\ v.mails = mails
    /\ v.request = digest[d].request /\ v.snapshot = digest[d].snapshot

\* A day is reserved, and its job enqueued.
Reserves(d, v, w) ==
  /\ digest[d].status \in {"NONE", "CANCELLED"}
  /\ digest' = [digest EXCEPT ![d] = v] /\ v.status = "PREPARING" /\ v.mails = 0
  /\ jobs' = Append(jobs, w) /\ w.day = d /\ w.request = v.request /\ w.state = "waiting"
  /\ work' = work

\* A job that is not the day's is over, or one that has committed completes.
Ends(j, w) ==
  /\ \/ jobs[j].state = "waiting" /\ ~IsCurrent(j)
     \/ jobs[j].state = "committed"
  /\ w.state \in {"committed", "done"}
  /\ digest' = digest

\* A job passes its check.
Passes(j, w) ==
  /\ RowFree(j) /\ IsCurrent(j) /\ StillOpen(SnapshotOf(j))
  /\ jobs[j].state = "waiting" /\ w.state = "checked"
  /\ digest' = digest

\* A job settles its digest without an email.
Settles(j, w) ==
  /\ RowFree(j) /\ IsCurrent(j) /\ jobs[j].state = "waiting" /\ w.state = "committed"
  /\ \E status \in {"SUPPRESSED", "CANCELLED"} :
       DayBecomes(jobs[j].day, status, digest[jobs[j].day].mails)

\* A job that has checked queues the email.
HandsOff(j, w) ==
  /\ jobs[j].state = "checked" /\ w.state = "committed"
  /\ DayBecomes(jobs[j].day, "QUEUED", digest[jobs[j].day].mails + 1)

\* A job is handed out again or lost.
Returns(j, w) ==
  /\ jobs[j].state \in {"waiting", "checked", "committed"}
  /\ w.state \in {"waiting", "lost"}
  /\ digest' = digest

\* A job fails for the last time, and its digest with it.
GivesUp(j, w) ==
  /\ \/ jobs[j].state = "checked"
     \/ jobs[j].state = "waiting" /\ RowFree(j)
  /\ w.state = "failed"
  /\ IF IsCurrent(j) THEN DayBecomes(jobs[j].day, "FAILED", digest[jobs[j].day].mails)
                     ELSE digest' = digest

Works(j, w) ==
  /\ jobs' = [jobs EXCEPT ![j] = w] /\ w \in JobRow
  /\ w.day = jobs[j].day /\ w.request = jobs[j].request /\ work' = work
  /\ \/ Ends(j, w) \/ Passes(j, w) \/ Settles(j, w)
     \/ HandsOff(j, w) \/ Returns(j, w) \/ GivesUp(j, w)

\* The work moves where no job holds the cycle, or nothing that counts moves.
Moves ==
  /\ digest' = digest /\ jobs' = jobs
  /\ \A a \in Assignments :
       ~CycleFree(a) => /\ work'[a].done <=> work[a].done
                        /\ work'[a].version = work[a].version

\* A new status of a day's digest leaves a digest.
LEMMA StatusChanges ==
  ASSUME DigestTypeOK, NEW d \in Days,
         NEW status \in {"SUPPRESSED", "CANCELLED", "FAILED"},
         digest' = [digest EXCEPT ![d].status = status]
  PROVE  DayBecomes(d, status, digest[d].mails)
<1> DEFINE v == [digest[d] EXCEPT !.status = status]
<1>1. digest[d] \in DigestRow
  BY TableTypes
<1>2. /\ v \in DigestRow /\ v.status = status /\ v.mails = digest[d].mails
      /\ v.request = digest[d].request /\ v.snapshot = digest[d].snapshot
  BY <1>1 DEF DigestRow
<1>3. digest' = [digest EXCEPT ![d] = v]
  OBVIOUS
<1> HIDE DEF v
<1>4. QED
  BY <1>2, <1>3 DEF DayBecomes

\* A job that only gets another state stays that job.
LEMMA StateChanges ==
  ASSUME DigestTypeOK, NEW j \in DOMAIN jobs, NEW w,
         NEW state \in {"waiting", "checked", "committed", "done", "failed", "lost"},
         NEW tries \in 0..RetryLimit, w = [jobs[j] EXCEPT !.state = state, !.tries = tries]
  PROVE  /\ w \in JobRow /\ w.state = state
         /\ w.day = jobs[j].day /\ w.request = jobs[j].request
<1>1. jobs[j] \in JobRow
  BY TableTypes
<1>2. QED
  BY <1>1 DEF JobRow

\* One attempt of a job.
LEMMA AttemptWorks ==
  ASSUME IInv, NEW j \in DOMAIN jobs, Attempt(j)
  PROVE  \E w \in JobRow : Works(j, w)
<1> DEFINE d == jobs[j].day
           At(state) == [jobs[j] EXCEPT !.state = state]
<1>0. DigestTypeOK
  BY DEF IInv, OutboxMatchesQueue
<1>1. jobs[j] \in JobRow /\ d \in Days /\ digest[d] \in DigestRow
  BY <1>0, TableTypes
<1>2. \A state \in {"checked", "committed", "done"} :
        /\ At(state) \in JobRow /\ At(state).state = state
        /\ At(state).day = jobs[j].day /\ At(state).request = jobs[j].request
        /\ SetState(j, state) => jobs' = [jobs EXCEPT ![j] = At(state)]
  BY <1>1 DEF JobRow, SetState
<1> HIDE DEF At
<1>3. CASE Ignore(j)
  <2>1. Works(j, At("committed"))
    BY <1>2, <1>3 DEF Ignore, Startable, Works, Ends
  <2>2. QED
    BY <1>2, <2>1
<1>4. CASE Complete(j)
  <2>1. Works(j, At("done"))
    BY <1>2, <1>4 DEF Complete, Works, Ends
  <2>2. QED
    BY <1>2, <2>1
<1>5. ASSUME Check(j), StillOpen(SnapshotOf(j)) /\ ~suppressed
      PROVE  \E w \in JobRow : Works(j, w)
  <2>1. Works(j, At("checked"))
    BY <1>2, <1>5 DEF Check, Startable, Works, Passes
  <2>2. QED
    BY <1>2, <2>1
<1>6. ASSUME Check(j), ~(StillOpen(SnapshotOf(j)) /\ ~suppressed)
      PROVE  \E w \in JobRow : Works(j, w)
  <2>1. PICK status \in {"SUPPRESSED", "CANCELLED"} :
          digest' = [digest EXCEPT ![d].status = status]
    BY <1>6 DEF Check
  <2>2. DayBecomes(d, status, digest[d].mails)
    BY <1>0, <1>1, <2>1, StatusChanges
  <2>3. Works(j, At("committed"))
    BY <1>2, <1>6, <2>2 DEF Check, Startable, Works, Settles
  <2>4. QED
    BY <1>2, <2>3
<1>7. CASE Handoff(j)
  <2> DEFINE v == [digest[d] EXCEPT !.status = "QUEUED", !.mails = @ + 1]
  <2>1. digest[d].status = "PREPARING"
    BY <1>7 DEF Handoff, IInv, CheckedHoldsDay, IsCurrent
  <2>2. digest[d].mails = 0
    BY <1>1, <2>1 DEF IInv, OutboxMatchesQueue, DigestRow
  <2>3. v = [digest[d] EXCEPT !.status = "QUEUED", !.mails = 1]
    BY <2>2
  <2>4. digest' = [digest EXCEPT ![d] = v]
    BY <1>7 DEF Handoff
  <2> HIDE DEF v
  <2>5. /\ v \in DigestRow /\ v.status = "QUEUED" /\ v.mails = digest[d].mails + 1
        /\ v.request = digest[d].request /\ v.snapshot = digest[d].snapshot
    <3>1. v \in DigestRow
      BY <1>1, <2>3, 1 \in 0..1 DEF DigestRow
    <3>2. v.status = "QUEUED" /\ v.mails = 1
          /\ v.request = digest[d].request /\ v.snapshot = digest[d].snapshot
      BY <1>1, <2>3 DEF DigestRow
    <3>3. QED
      BY <2>2, <3>1, <3>2
  <2>6. DayBecomes(d, "QUEUED", digest[d].mails + 1)
    BY <2>4, <2>5 DEF DayBecomes
  <2>7. Works(j, At("committed"))
    BY <1>2, <1>7, <2>6 DEF Handoff, Works, HandsOff
  <2>8. QED
    BY <1>2, <2>7
<1>8. QED
  BY <1>3, <1>4, <1>5, <1>6, <1>7 DEF Attempt

\* An attempt that fails, or that the worker does not survive.
LEMMA FailureWorks ==
  ASSUME IInv, NEW j \in DOMAIN jobs, Fail(j) \/ Crash(j)
  PROVE  \E w \in JobRow : Works(j, w)
<1> DEFINE d == jobs[j].day
           tries == jobs[j].tries
           Again(state) == [jobs[j] EXCEPT !.state = state,
                              !.tries = IF tries < RetryLimit THEN tries + 1 ELSE tries]
<1>0. DigestTypeOK
  BY DEF IInv, OutboxMatchesQueue
<1>1. /\ jobs[j] \in JobRow /\ d \in Days /\ tries \in 0..RetryLimit
      /\ (IF tries < RetryLimit THEN tries + 1 ELSE tries) \in 0..RetryLimit
  BY <1>0, DigestBounds, TableTypes DEF JobRow
<1>2. \A state \in {"waiting", "failed", "lost"} :
        /\ Again(state) \in JobRow /\ Again(state).state = state
        /\ Again(state).day = jobs[j].day /\ Again(state).request = jobs[j].request
  BY <1>1 DEF JobRow
<1>3. \A state \in {"failed", "lost"} : Retried(j, state) =>
        jobs' = [jobs EXCEPT ![j] = Again(IF tries < RetryLimit THEN "waiting" ELSE state)]
  BY <1>1 DEF Retried, JobRow
<1> HIDE DEF Again
<1>4. CASE Crash(j)
  <2>1. PICK state \in {"waiting", "lost"} : jobs' = [jobs EXCEPT ![j] = Again(state)]
    BY <1>3, <1>4 DEF Crash
  <2>2. Works(j, Again(state))
    BY <1>2, <1>4, <2>1 DEF Crash, Works, Returns
  <2>3. QED
    BY <1>2, <2>1, <2>2
<1>5. ASSUME Fail(j), tries < RetryLimit
      PROVE  \E w \in JobRow : Works(j, w)
  <2>1. digest' = digest
    BY <1>1, <1>5, DigestBounds DEF Fail, IsTerminal
  <2>2. jobs' = [jobs EXCEPT ![j] = Again("waiting")]
    BY <1>3, <1>5 DEF Fail
  <2>3. Works(j, Again("waiting"))
    BY <1>2, <1>5, <2>1, <2>2 DEF Fail, Startable, Works, Returns
  <2>4. QED
    BY <1>2, <2>3
<1>6. ASSUME Fail(j), ~(tries < RetryLimit)
      PROVE  \E w \in JobRow : Works(j, w)
  <2>1. IsTerminal(j)
    BY <1>1, <1>6, DigestBounds DEF IsTerminal
  <2>2. jobs' = [jobs EXCEPT ![j] = Again("failed")]
    BY <1>3, <1>6 DEF Fail
  <2>3. IF IsCurrent(j) THEN digest' = [digest EXCEPT ![d].status = "FAILED"]
                        ELSE digest' = digest
    BY <1>6, <2>1 DEF Fail, FailureConcerns
  <2>4. IsCurrent(j) => DayBecomes(d, "FAILED", digest[d].mails)
    BY <1>0, <1>1, <2>3, StatusChanges
  <2>5. GivesUp(j, Again("failed"))
    BY <1>2, <1>6, <2>3, <2>4 DEF Fail, Startable, GivesUp
  <2>6. Works(j, Again("failed"))
    BY <1>2, <1>6, <2>2, <2>5 DEF Fail, Works
  <2>7. QED
    BY <1>2, <2>6
<1>7. QED
  BY <1>4, <1>5, <1>6

\* A request that reserves the day it read.
LEMMA SendReserves ==
  ASSUME IInv, NEW r \in Requests, Send(r)
  PROVE  \E d \in Days, v \in DigestRow, w \in JobRow : Reserves(d, v, w)
<1> DEFINE d == req[r].day
           v == [digest[d] EXCEPT !.status = "PREPARING", !.request = r,
                                  !.snapshot = req[r].snapshot]
           w == [day |-> d, request |-> r, tries |-> 0, state |-> "waiting"]
<1>0. DigestTypeOK
  BY DEF IInv, OutboxMatchesQueue
<1>1. d \in Days /\ digest[d] \in DigestRow /\ req[r].snapshot \in Snapshots
  BY <1>0, TableTypes DEF RequestRow
<1>2. digest[d].status \in {"NONE", "CANCELLED"} /\ digest[d].mails = 0
  BY DEF Send, Reservable
<1>3. /\ v \in DigestRow /\ v.status = "PREPARING" /\ v.request = r
      /\ v.mails = digest[d].mails
  BY <1>1 DEF DigestRow
<1>4. w \in JobRow /\ w.day = d /\ w.request = r /\ w.state = "waiting"
  BY <1>1, DigestBounds DEF JobRow
<1>5. digest' = [digest EXCEPT ![d] = v] /\ jobs' = Append(jobs, w) /\ work' = work
  BY DEF Send
<1> HIDE DEF v, w
<1>6. Reserves(d, v, w)
  BY <1>2, <1>3, <1>4, <1>5 DEF Reserves
<1>7. QED
  BY <1>1, <1>3, <1>4, <1>6

\* Every step reserves a day, is one of a job, or moves only the work.
LEMMA EveryStep ==
  ASSUME IInv, Next
  PROVE  \/ \E d \in Days, v \in DigestRow, w \in JobRow : Reserves(d, v, w)
         \/ \E j \in DOMAIN jobs, w \in JobRow : Works(j, w)
         \/ Moves
<1>1. ASSUME NEW a \in Assignments, NEW done \in BOOLEAN, Change(a, done)
      PROVE  Moves
  <2>1. \A b \in Assignments : ~CycleFree(b) => b # a
    BY <1>1 DEF Change
  <2>2. work \in [Assignments -> WorkRow]
    BY TableTypes DEF IInv, OutboxMatchesQueue
  <2>3. \A b \in Assignments : b # a => work'[b] = work[b]
    BY <1>1, <2>2 DEF Change
  <2>4. QED
    BY <1>1, <2>1, <2>3 DEF Change, Moves
<1>2. ASSUME NEW a \in Assignments, Drop(a)
      PROVE  Moves
  <2>1. work \in [Assignments -> WorkRow]
    BY TableTypes DEF IInv, OutboxMatchesQueue
  <2>2. \A b \in Assignments : /\ work'[b].done <=> work[b].done
                               /\ work'[b].version = work[b].version
    BY <1>2, <2>1 DEF Drop, WorkRow
  <2>3. QED
    BY <1>2, <2>2 DEF Drop, Moves
<1>3. ASSUME Suppress \/ Midnight
      PROVE  Moves
  BY <1>3 DEF Suppress, Midnight, Moves
<1>4. ASSUME NEW r \in Requests, NEW chosen \in SUBSET Assignments,
             Preview(r, chosen) \/ ReadDay(r) \/ SendChangesNothing(r)
      PROVE  Moves
  BY <1>4 DEF Preview, ReadDay, SendChangesNothing, Moves
<1>5. ASSUME NEW r \in Requests, SendStep(r)
      PROVE  Moves \/ \E d \in Days, v \in DigestRow, w \in JobRow : Reserves(d, v, w)
  BY <1>4, <1>5, SendReserves DEF SendStep
<1>6. QED
  BY <1>1, <1>2, <1>3, <1>5, AttemptWorks, FailureWorks DEF Next, WorkStep

-----------------------------------------------------------------------------
(* The parts of the invariant.                                             *)

\* The tables after one step: a job stays where it is, and keeps its day.
LEMMA TablesAfter ==
  ASSUME IInv, Next
  PROVE  /\ digest' \in [Days -> DigestRow] /\ jobs' \in Seq(JobRow)
         /\ \A k \in DOMAIN jobs : /\ k \in DOMAIN jobs'
                                   /\ jobs'[k].day = jobs[k].day
                                   /\ jobs'[k].request = jobs[k].request
         /\ \A d \in Days, v \in DigestRow, w \in JobRow : Reserves(d, v, w) =>
              /\ digest'[d] = v /\ \A o \in Days : o # d => digest'[o] = digest[o]
              /\ DOMAIN jobs' = DOMAIN jobs \cup {Len(jobs) + 1} /\ Len(jobs) + 1 \notin DOMAIN jobs
              /\ jobs'[Len(jobs) + 1] = w /\ \A k \in DOMAIN jobs : jobs'[k] = jobs[k]
         /\ \A j \in DOMAIN jobs, w \in JobRow : Works(j, w) =>
              /\ DOMAIN jobs' = DOMAIN jobs
              /\ jobs'[j] = w /\ \A k \in DOMAIN jobs : k # j => jobs'[k] = jobs[k]
              /\ \A o \in Days : o # jobs[j].day => digest'[o] = digest[o]
<1>0. /\ digest \in [Days -> DigestRow] /\ jobs \in Seq(JobRow) /\ Len(jobs) \in Nat
      /\ DOMAIN jobs = 1..Len(jobs) /\ \A j \in DOMAIN jobs : jobs[j].day \in Days
  BY TableTypes DEF IInv, OutboxMatchesQueue
<1>1. ASSUME NEW d \in Days, NEW v \in DigestRow, NEW w \in JobRow, Reserves(d, v, w)
      PROVE  /\ digest' \in [Days -> DigestRow] /\ jobs' \in Seq(JobRow)
             /\ digest'[d] = v /\ \A o \in Days : o # d => digest'[o] = digest[o]
             /\ DOMAIN jobs' = DOMAIN jobs \cup {Len(jobs) + 1} /\ Len(jobs) + 1 \notin DOMAIN jobs
             /\ jobs'[Len(jobs) + 1] = w /\ \A k \in DOMAIN jobs : jobs'[k] = jobs[k]
  <2>1. digest' = [digest EXCEPT ![d] = v] /\ jobs' = Append(jobs, w)
    BY <1>1 DEF Reserves
  <2>2. /\ jobs' \in Seq(JobRow) /\ Len(jobs') = Len(jobs) + 1
        /\ jobs'[Len(jobs) + 1] = w /\ \A k \in DOMAIN jobs : jobs'[k] = jobs[k]
    BY <1>0, <2>1
  <2>3. DOMAIN jobs' = DOMAIN jobs \cup {Len(jobs) + 1} /\ Len(jobs) + 1 \notin DOMAIN jobs
    BY <1>0, <2>2
  <2>4. QED
    BY <1>0, <2>1, <2>2, <2>3
<1>2. ASSUME NEW j \in DOMAIN jobs, NEW w \in JobRow, Works(j, w)
      PROVE  /\ digest' \in [Days -> DigestRow] /\ jobs' \in Seq(JobRow)
             /\ DOMAIN jobs' = DOMAIN jobs
             /\ jobs'[j] = w /\ \A k \in DOMAIN jobs : k # j => jobs'[k] = jobs[k]
             /\ w.day = jobs[j].day /\ w.request = jobs[j].request
             /\ \A o \in Days : o # jobs[j].day => digest'[o] = digest[o]
  <2>1. jobs' = [jobs EXCEPT ![j] = w] /\ w.day = jobs[j].day /\ w.request = jobs[j].request
    BY <1>2 DEF Works
  <2>2. /\ jobs' \in Seq(JobRow) /\ DOMAIN jobs' = DOMAIN jobs
        /\ jobs'[j] = w /\ \A k \in DOMAIN jobs : k # j => jobs'[k] = jobs[k]
    BY <1>0, <2>1
  <2>3. \/ digest' = digest
        \/ \E v \in DigestRow : digest' = [digest EXCEPT ![jobs[j].day] = v]
    BY <1>2 DEF Works, Ends, Passes, Settles, HandsOff, Returns, GivesUp, DayBecomes
  <2>4. /\ digest' \in [Days -> DigestRow]
        /\ \A o \in Days : o # jobs[j].day => digest'[o] = digest[o]
    BY <1>0, <2>3
  <2>5. QED
    BY <2>1, <2>2, <2>4
<1>3. CASE Moves
  BY <1>0, <1>1, <1>2, <1>3 DEF Moves
<1>4. CASE \E d \in Days, v \in DigestRow, w \in JobRow : Reserves(d, v, w)
  BY <1>1, <1>2, <1>4
<1>5. CASE \E j \in DOMAIN jobs, w \in JobRow : Works(j, w)
  BY <1>1, <1>2, <1>5
<1>6. QED
  BY <1>3, <1>4, <1>5, EveryStep

\* What a step of a job does to the digest of its day.
LEMMA DayAfter ==
  ASSUME IInv, NEW d \in Days, NEW status, NEW mails, DayBecomes(d, status, mails)
  PROVE  /\ digest'[d].status = status /\ digest'[d].mails = mails
         /\ digest'[d].request = digest[d].request /\ digest'[d].snapshot = digest[d].snapshot
<1>1. digest \in [Days -> DigestRow]
  BY TableTypes DEF IInv, OutboxMatchesQueue
<1>2. PICK v \in DigestRow :
        /\ digest' = [digest EXCEPT ![d] = v]
        /\ v.status = status /\ v.mails = mails
        /\ v.request = digest[d].request /\ v.snapshot = digest[d].snapshot
  BY DEF DayBecomes
<1>3. digest'[d] = v
  BY <1>1, <1>2
<1>4. QED
  BY <1>2, <1>3

\* The work a step leaves.
LEMMA WorkTypeStep == IInv /\ Next => work' \in [Assignments -> WorkRow]
<1> SUFFICES ASSUME IInv, Next PROVE work' \in [Assignments -> WorkRow]
  OBVIOUS
<1>0. work \in [Assignments -> WorkRow]
  BY TableTypes DEF IInv, OutboxMatchesQueue
<1>1. ASSUME NEW a \in Assignments, NEW done \in BOOLEAN, Change(a, done)
      PROVE  work' \in [Assignments -> WorkRow]
  <2> DEFINE w == [work[a] EXCEPT !.version = IF done THEN @ ELSE @ + 1, !.done = done]
  <2>1. work[a] \in WorkRow /\ work[a].version \in 0..MaxVersion
    BY <1>0 DEF WorkRow
  <2>2. (IF done THEN work[a].version ELSE work[a].version + 1) \in 0..MaxVersion
    BY <1>1, <2>1, DigestBounds DEF Change
  <2>3. w \in WorkRow
    BY <2>1, <2>2 DEF WorkRow
  <2>4. work' = [work EXCEPT ![a] = w]
    BY <1>1 DEF Change
  <2> HIDE DEF w
  <2>5. QED
    BY <1>0, <2>3, <2>4
<1>2. ASSUME NEW a \in Assignments, Drop(a)
      PROVE  work' \in [Assignments -> WorkRow]
  <2>1. [work[a] EXCEPT !.dropped = TRUE] \in WorkRow
    BY <1>0 DEF WorkRow
  <2>2. QED
    BY <1>0, <1>2, <2>1 DEF Drop
<1>3. work' = work \/ \E a \in Assignments :
        Drop(a) \/ \E done \in BOOLEAN : Change(a, done)
  BY DEF Next, WorkStep, SendStep, Attempt, Suppress, Midnight, Preview, ReadDay, Send,
         SendChangesNothing, Ignore, Check, Handoff, Complete, Fail, Crash
<1>4. QED
  BY <1>0, <1>1, <1>2, <1>3

\* The requests a step leaves.
LEMMA RequestTypeStep == IInv /\ Next => req' \in [Requests -> RequestRow]
<1> SUFFICES ASSUME IInv, Next PROVE req' \in [Requests -> RequestRow]
  OBVIOUS
<1>0. /\ req \in [Requests -> RequestRow] /\ today \in Days
      /\ \A a \in Assignments : work[a].version \in 0..MaxVersion
  BY TableTypes DEF IInv, OutboxMatchesQueue, WorkRow
<1>1. ASSUME NEW r \in Requests, NEW chosen \in SUBSET Assignments, Preview(r, chosen)
      PROVE  req' \in [Requests -> RequestRow]
  <2> DEFINE snapshot == [a \in chosen |-> work[a].version]
  <2>1. snapshot \in Snapshots
    BY <1>0, SnapshotTypes
  <2>2. req' = [req EXCEPT ![r].pc = "previewed", ![r].snapshot = snapshot]
    BY <1>1 DEF Preview
  <2> HIDE DEF snapshot
  <2>3. [req[r] EXCEPT !.pc = "previewed", !.snapshot = snapshot] \in RequestRow
    BY <1>0, <2>1 DEF RequestRow
  <2>4. req' = [req EXCEPT ![r] = [req[r] EXCEPT !.pc = "previewed", !.snapshot = snapshot]]
    BY <1>0, <2>2
  <2>5. QED
    BY <1>0, <2>3, <2>4
<1>2. ASSUME NEW r \in Requests, ReadDay(r)
      PROVE  req' \in [Requests -> RequestRow]
  <2>1. [req[r] EXCEPT !.pc = "sending", !.day = today] \in RequestRow
    BY <1>0 DEF RequestRow
  <2>2. req' = [req EXCEPT ![r] = [req[r] EXCEPT !.pc = "sending", !.day = today]]
    BY <1>0, <1>2 DEF ReadDay
  <2>3. QED
    BY <1>0, <2>1, <2>2
<1>3. ASSUME NEW r \in Requests, Send(r) \/ SendChangesNothing(r)
      PROVE  req' \in [Requests -> RequestRow]
  <2>1. [req[r] EXCEPT !.pc = "previewed"] \in RequestRow
    BY <1>0 DEF RequestRow
  <2>2. QED
    BY <1>0, <1>3, <2>1 DEF Send, SendChangesNothing, Answer
<1>4. req' = req \/ \E r \in Requests :
        \/ \E chosen \in SUBSET Assignments : Preview(r, chosen)
        \/ ReadDay(r) \/ Send(r) \/ SendChangesNothing(r)
  BY DEF Next, WorkStep, SendStep, Attempt, Suppress, Midnight, Change, Drop,
         Ignore, Check, Handoff, Complete, Fail, Crash
<1>5. QED
  BY <1>0, <1>1, <1>2, <1>3, <1>4

\* Every step keeps the tables well typed.
LEMMA TypeStep == IInv /\ Next => DigestTypeOK'
<1> SUFFICES ASSUME IInv, Next PROVE DigestTypeOK'
  OBVIOUS
<1>1. today \in Days /\ suppressed \in BOOLEAN
  BY TableTypes DEF IInv, OutboxMatchesQueue
<1>2. today' \in Days /\ suppressed' \in BOOLEAN
  <2>1. Midnight => today' \in Days /\ suppressed' \in BOOLEAN
    BY <1>1, DigestBounds DEF Midnight, Days
  <2>2. Suppress => today' \in Days /\ suppressed' \in BOOLEAN
    BY <1>1 DEF Suppress
  <2>3. Midnight \/ Suppress \/ (today' = today /\ suppressed' = suppressed)
    BY DEF Next, WorkStep, SendStep, Attempt, Change, Drop, Preview, ReadDay, Send,
           SendChangesNothing, Ignore, Check, Handoff, Complete, Fail, Crash
  <2>4. QED
    BY <1>1, <2>1, <2>2, <2>3
<1>3. QED
  BY <1>2, TablesAfter, WorkTypeStep, RequestTypeStep
  DEF DigestTypeOK, WorkRow, DigestRow, JobRow, RequestRow

\* A job that has checked after a step had checked before it, or checks in it;
\* the digest of its day is what it was.
LEMMA CheckedAfter ==
  ASSUME IInv, Next, NEW k \in DOMAIN jobs', jobs'[k].state = "checked"
  PROVE  /\ k \in DOMAIN jobs /\ digest'[jobs[k].day] = digest[jobs[k].day]
         /\ \/ jobs[k].state = "checked"
            \/ \E w \in JobRow : Works(k, w) /\ Passes(k, w)
<1>0. \A j \in DOMAIN jobs : jobs[j].day \in Days
  BY TableTypes DEF IInv, OutboxMatchesQueue
<1>1. ASSUME NEW d \in Days, NEW v \in DigestRow, NEW w \in JobRow, Reserves(d, v, w)
      PROVE  /\ k \in DOMAIN jobs /\ digest'[jobs[k].day] = digest[jobs[k].day]
             /\ jobs[k].state = "checked"
  <2>1. /\ \A o \in Days : o # d => digest'[o] = digest[o]
        /\ DOMAIN jobs' = DOMAIN jobs \cup {Len(jobs) + 1}
        /\ jobs'[Len(jobs) + 1] = w /\ \A i \in DOMAIN jobs : jobs'[i] = jobs[i]
    BY <1>1, TablesAfter
  <2>2. w.state = "waiting" /\ digest[d].status # "PREPARING"
    BY <1>1 DEF Reserves
  <2>3. k \in DOMAIN jobs /\ jobs[k].state = "checked"
    BY <2>1, <2>2
  <2>4. digest[jobs[k].day].status = "PREPARING"
    BY <2>3 DEF IInv, CheckedHoldsDay, IsCurrent
  <2>5. QED
    BY <1>0, <2>1, <2>2, <2>3, <2>4
<1>2. ASSUME NEW j \in DOMAIN jobs, NEW w \in JobRow, Works(j, w)
      PROVE  /\ k \in DOMAIN jobs /\ digest'[jobs[k].day] = digest[jobs[k].day]
             /\ jobs[k].state = "checked" \/ (k = j /\ Passes(j, w))
  <2>1. /\ DOMAIN jobs' = DOMAIN jobs
        /\ jobs'[j] = w /\ \A i \in DOMAIN jobs : i # j => jobs'[i] = jobs[i]
        /\ \A o \in Days : o # jobs[j].day => digest'[o] = digest[o]
    BY <1>2, TablesAfter
  <2>2. CASE k = j
    <3>1. Passes(j, w)
      BY <1>2, <2>1, <2>2 DEF Works, Ends, Settles, HandsOff, Returns, GivesUp
    <3>2. QED
      BY <2>2, <3>1 DEF Passes
  <2>3. CASE k # j
    <3>1. jobs[k].state = "checked"
      BY <2>1, <2>3
    <3>2. jobs[k].day = jobs[j].day => ~RowFree(j) /\ jobs[j].state # "checked"
      BY <2>1, <2>3, <3>1 DEF RowFree, IInv, CheckedHoldsDay
    <3>3. jobs[k].day = jobs[j].day => digest' = digest
      BY <1>2, <3>2 DEF Works, Ends, Passes, Settles, HandsOff, Returns, GivesUp
    <3>4. QED
      BY <1>0, <2>1, <3>1, <3>3
  <2>4. QED
    BY <2>2, <2>3
<1>3. CASE Moves
  BY <1>3 DEF Moves
<1>4. QED
  BY <1>1, <1>2, <1>3, EveryStep

\* Every step keeps the jobs that have checked apart, and their days reserved.
LEMMA CheckedHoldsDayStep == IInv /\ Next => CheckedHoldsDay'
<1> SUFFICES ASSUME IInv, Next PROVE CheckedHoldsDay'
  OBVIOUS
<1>1. ASSUME NEW k \in DOMAIN jobs', jobs'[k].state = "checked"
      PROVE  /\ k \in DOMAIN jobs /\ IsCurrent(k)
             /\ jobs'[k].day = jobs[k].day /\ jobs'[k].request = jobs[k].request
             /\ digest'[jobs[k].day] = digest[jobs[k].day]
  <2>1. /\ k \in DOMAIN jobs /\ digest'[jobs[k].day] = digest[jobs[k].day]
        /\ \/ jobs[k].state = "checked"
           \/ \E w \in JobRow : Works(k, w) /\ Passes(k, w)
    BY <1>1, CheckedAfter
  <2>2. IsCurrent(k)
    BY <2>1 DEF Passes, IInv, CheckedHoldsDay
  <2>3. QED
    BY <2>1, <2>2, TablesAfter
<1>2. ASSUME NEW k \in DOMAIN jobs', jobs'[k].state = "checked",
             NEW o \in DOMAIN jobs', jobs'[o].state = "checked", jobs[o].day = jobs[k].day,
             o # k, jobs[k].state = "checked" \/ jobs[o].state # "checked"
      PROVE  FALSE
  <2>1. k \in DOMAIN jobs /\ o \in DOMAIN jobs
    BY <1>1, <1>2
  <2>2. CASE jobs[o].state = "checked"
    BY <1>2, <2>1, <2>2 DEF IInv, CheckedHoldsDay
  <2>3. CASE jobs[o].state # "checked"
    <3>1. PICK w \in JobRow : Works(o, w) /\ Passes(o, w)
      BY <1>2, <2>3, CheckedAfter
    <3>2. jobs'[k] = jobs[k]
      BY <1>2, <2>1, <3>1, TablesAfter
    <3>3. QED
      BY <1>2, <2>1, <3>1, <3>2 DEF Passes, RowFree
  <2>4. QED
    BY <2>2, <2>3
<1>3. ASSUME NEW k \in DOMAIN jobs', jobs'[k].state = "checked",
             NEW o \in DOMAIN jobs', jobs'[o].state = "checked",
             jobs'[o].day = jobs'[k].day
      PROVE  o = k
  <2>1. jobs[o].day = jobs[k].day
    BY <1>1, <1>3
  <2>2. QED
    BY <1>2, <1>3, <2>1
<1>4. QED
  BY <1>1, <1>3 DEF CheckedHoldsDay, IsCurrent

\* Every step keeps the work that a job has checked as it was, while it holds
\* the cycles.
LEMMA CheckedIsOpenStep == IInv /\ Next => CheckedIsOpen'
<1> SUFFICES ASSUME IInv, Next PROVE CheckedIsOpen'
  OBVIOUS
<1>1. ASSUME NEW k \in DOMAIN jobs', jobs'[k].state = "checked"
      PROVE  \A a \in DOMAIN digest'[jobs'[k].day].snapshot :
               ~work'[a].done /\ work'[a].version = digest'[jobs'[k].day].snapshot[a]
  <2>1. /\ k \in DOMAIN jobs /\ digest'[jobs[k].day] = digest[jobs[k].day]
        /\ \/ jobs[k].state = "checked"
           \/ \E w \in JobRow : Works(k, w) /\ Passes(k, w)
    BY <1>1, CheckedAfter
  <2>2. jobs'[k].day = jobs[k].day
    BY <2>1, TablesAfter
  <2>3. digest'[jobs'[k].day].snapshot = SnapshotOf(k)
    BY <2>1, <2>2 DEF SnapshotOf
  <2>4. \A a \in DOMAIN SnapshotOf(k) : a \in Assignments
    BY <2>1, TableTypes, SnapshotTypes DEF IInv, OutboxMatchesQueue, DigestRow, SnapshotOf
  <2>5. CASE \E w \in JobRow : Works(k, w) /\ Passes(k, w)
    BY <2>3, <2>5 DEF Works, Passes, StillOpen
  <2>6. CASE jobs[k].state = "checked"
    <3>1. \A a \in DOMAIN SnapshotOf(k) :
            ~work[a].done /\ work[a].version = SnapshotOf(k)[a] /\ ~CycleFree(a)
      BY <2>1, <2>6 DEF IInv, CheckedIsOpen, CycleFree
    <3>2. work' = work \/ Moves
      BY EveryStep DEF Works, Reserves
    <3>3. \A a \in DOMAIN SnapshotOf(k) : /\ work'[a].done <=> work[a].done
                                          /\ work'[a].version = work[a].version
      BY <2>4, <3>1, <3>2 DEF Moves
    <3>4. QED
      BY <2>3, <3>1, <3>3
  <2>7. QED
    BY <2>1, <2>5, <2>6
<1>2. QED
  BY <1>1 DEF CheckedIsOpen, SnapshotOf

\* A digest is reserved after a step only if one of its jobs is left to run.
LEMMA PreparingStep ==
  ASSUME IInv, Next, NEW d \in Days, digest'[d].status = "PREPARING"
  PROVE  \E k \in DOMAIN jobs' : /\ jobs'[k].day = d /\ jobs'[k].request = digest'[d].request
                                 /\ jobs'[k].state \in {"waiting", "checked", "lost"}
<1>1. ASSUME NEW c \in Days, NEW v \in DigestRow, NEW w \in JobRow, Reserves(c, v, w), c = d
      PROVE  /\ Len(jobs) + 1 \in DOMAIN jobs' /\ jobs'[Len(jobs) + 1].day = d
             /\ jobs'[Len(jobs) + 1].request = digest'[d].request
             /\ jobs'[Len(jobs) + 1].state = "waiting"
  BY <1>1, TablesAfter DEF Reserves
<1>2. ASSUME digest[d].status = "PREPARING", digest'[d].request = digest[d].request,
             \A k \in DOMAIN jobs :
               /\ jobs[k].day = d /\ jobs[k].request = digest[d].request
               /\ jobs[k].state \in {"waiting", "checked", "lost"}
               => jobs'[k].state \in {"waiting", "checked", "lost"}
      PROVE  \E k \in DOMAIN jobs' :
               /\ jobs'[k].day = d /\ jobs'[k].request = digest'[d].request
               /\ jobs'[k].state \in {"waiting", "checked", "lost"}
  <2>1. PICK k \in DOMAIN jobs :
          /\ jobs[k].day = d /\ jobs[k].request = digest[d].request
          /\ jobs[k].state \in {"waiting", "checked", "lost"}
    BY <1>2 DEF IInv, OutboxMatchesQueue, JobsOf
  <2>2. QED
    BY <1>2, <2>1, TablesAfter
<1>3. ASSUME NEW c \in Days, NEW v \in DigestRow, NEW w \in JobRow, Reserves(c, v, w), c # d
      PROVE  \E k \in DOMAIN jobs' :
               /\ jobs'[k].day = d /\ jobs'[k].request = digest'[d].request
               /\ jobs'[k].state \in {"waiting", "checked", "lost"}
  <2>1. digest'[d] = digest[d] /\ \A k \in DOMAIN jobs : jobs'[k] = jobs[k]
    BY <1>3, TablesAfter
  <2>2. QED
    BY <1>2, <2>1
<1>4. ASSUME NEW j \in DOMAIN jobs, NEW w \in JobRow, Works(j, w)
      PROVE  \E k \in DOMAIN jobs' :
               /\ jobs'[k].day = d /\ jobs'[k].request = digest'[d].request
               /\ jobs'[k].state \in {"waiting", "checked", "lost"}
  <2>1. /\ jobs'[j] = w /\ \A k \in DOMAIN jobs : k # j => jobs'[k] = jobs[k]
        /\ jobs[j].day # d => digest'[d] = digest[d]
    BY <1>4, TablesAfter
  <2>2. ASSUME jobs[j].day = d
        PROVE  digest' = digest
    <3>1. ~Settles(j, w) /\ ~HandsOff(j, w)
      BY <2>2, DayAfter DEF Settles, HandsOff
    <3>2. GivesUp(j, w) => digest' = digest
      BY <2>2, DayAfter DEF GivesUp
    <3>3. QED
      BY <1>4, <3>1, <3>2 DEF Works, Ends, Passes, Returns
  <2>3. digest'[d] = digest[d]
    BY <2>1, <2>2
  <2>4. ASSUME jobs[j].day = d, jobs[j].request = digest[d].request,
               jobs[j].state \in {"waiting", "checked", "lost"}
        PROVE  w.state \in {"waiting", "checked", "lost"}
    <3>1. IsCurrent(j)
      BY <2>3, <2>4 DEF IsCurrent
    <3>2. ~Settles(j, w) /\ ~HandsOff(j, w) /\ ~GivesUp(j, w)
      BY <2>4, <3>1, DayAfter DEF Settles, HandsOff, GivesUp
    <3>3. QED
      BY <1>4, <2>4, <3>1, <3>2 DEF Works, Ends, Passes, Returns
  <2>5. QED
    BY <1>2, <2>1, <2>3, <2>4
<1>5. CASE Moves
  BY <1>2, <1>5 DEF Moves
<1>6. QED
  BY <1>1, <1>3, <1>4, <1>5, EveryStep

\* A digest has failed after a step only if its job has.
LEMMA FailedStep ==
  ASSUME IInv, Next, NEW d \in Days, digest'[d].status = "FAILED"
  PROVE  \E k \in DOMAIN jobs' : /\ jobs'[k].day = d /\ jobs'[k].request = digest'[d].request
                                 /\ jobs'[k].state = "failed"
<1>1. ASSUME digest'[d] = digest[d], \A k \in DOMAIN jobs :
               jobs[k].state = "failed" => jobs'[k].state = "failed"
      PROVE  \E k \in DOMAIN jobs' :
               /\ jobs'[k].day = d /\ jobs'[k].request = digest'[d].request
               /\ jobs'[k].state = "failed"
  <2>1. PICK k \in DOMAIN jobs :
          /\ jobs[k].day = d /\ jobs[k].request = digest[d].request /\ jobs[k].state = "failed"
    BY <1>1 DEF IInv, OutboxMatchesQueue, JobsOf
  <2>2. QED
    BY <1>1, <2>1, TablesAfter
<1>2. ASSUME NEW c \in Days, NEW v \in DigestRow, NEW w \in JobRow, Reserves(c, v, w)
      PROVE  digest'[d] = digest[d] /\ \A k \in DOMAIN jobs : jobs'[k] = jobs[k]
  BY <1>2, TablesAfter DEF Reserves
<1>3. ASSUME NEW j \in DOMAIN jobs, NEW w \in JobRow, Works(j, w)
      PROVE  \E k \in DOMAIN jobs' :
               /\ jobs'[k].day = d /\ jobs'[k].request = digest'[d].request
               /\ jobs'[k].state = "failed"
  <2>1. /\ jobs'[j] = w /\ \A k \in DOMAIN jobs : k # j => jobs'[k] = jobs[k]
        /\ jobs[j].day # d => digest'[d] = digest[d]
    BY <1>3, TablesAfter
  <2>2. jobs[j].state # "failed"
    BY <1>3 DEF Works, Ends, Passes, Settles, HandsOff, Returns, GivesUp
  <2>3. CASE digest'[d] = digest[d]
    BY <1>1, <2>1, <2>2, <2>3
  <2>4. ASSUME digest'[d] # digest[d]
        PROVE  /\ j \in DOMAIN jobs' /\ jobs'[j].day = d
               /\ jobs'[j].request = digest'[d].request /\ jobs'[j].state = "failed"
    <3>1. jobs[j].day = d
      BY <2>1, <2>4
    <3>2. ~Settles(j, w) /\ ~HandsOff(j, w)
      BY <3>1, DayAfter DEF Settles, HandsOff
    <3>3. GivesUp(j, w) /\ IsCurrent(j)
      BY <1>3, <2>4, <3>2 DEF Works, Ends, Passes, Returns, GivesUp
    <3>4. digest'[d].request = jobs[j].request
      BY <3>1, <3>3, DayAfter DEF GivesUp, IsCurrent
    <3>5. QED
      BY <2>1, <3>1, <3>3, <3>4, TablesAfter DEF GivesUp
  <2>5. QED
    BY <2>3, <2>4
<1>4. CASE Moves
  BY <1>1, <1>4 DEF Moves
<1>5. QED
  BY <1>1, <1>2, <1>3, <1>4, EveryStep

\* A digest has its email after a step exactly when it is queued.
LEMMA MailStep ==
  ASSUME IInv, Next, NEW d \in Days
  PROVE  digest'[d].mails = 1 <=> digest'[d].status = "QUEUED"
<1>0. digest[d].mails \in 0..1 /\ (digest[d].mails = 1 <=> digest[d].status = "QUEUED")
  BY TableTypes DEF IInv, OutboxMatchesQueue, DigestRow
<1>1. CASE digest'[d] = digest[d]
  BY <1>0, <1>1
<1>2. ASSUME NEW c \in Days, NEW v \in DigestRow, NEW w \in JobRow, Reserves(c, v, w)
      PROVE  digest'[d] = digest[d] \/ (digest'[d].mails = 0 /\ digest'[d].status = "PREPARING")
  BY <1>2, TablesAfter DEF Reserves
<1>3. ASSUME NEW j \in DOMAIN jobs, NEW w \in JobRow, Works(j, w), digest'[d] # digest[d]
      PROVE  digest'[d].mails = 1 <=> digest'[d].status = "QUEUED"
  <2>1. jobs[j].day = d
    BY <1>3, TablesAfter
  <2>2. jobs[j].state = "checked" => IsCurrent(j)
    BY DEF IInv, CheckedHoldsDay
  <2>3. \/ Settles(j, w) /\ IsCurrent(j)
        \/ HandsOff(j, w) /\ IsCurrent(j)
        \/ GivesUp(j, w) /\ IsCurrent(j)
    BY <1>3, <2>2 DEF Works, Ends, Passes, Settles, HandsOff, Returns, GivesUp
  <2>4. digest[d].mails = 0
    BY <1>0, <2>1, <2>3 DEF IsCurrent
  <2>5. CASE Settles(j, w)
    BY <2>1, <2>4, <2>5, DayAfter DEF Settles
  <2>6. CASE HandsOff(j, w)
    BY <2>1, <2>4, <2>6, DayAfter DEF HandsOff
  <2>7. CASE GivesUp(j, w)
    BY <2>1, <2>3, <2>4, <2>7, DayAfter DEF GivesUp
  <2>8. QED
    BY <2>3, <2>5, <2>6, <2>7
<1>4. CASE Moves
  BY <1>1, <1>4 DEF Moves
<1>5. QED
  BY <1>1, <1>2, <1>3, <1>4, EveryStep

-----------------------------------------------------------------------------
(* The theorems.                                                           *)

\* The inductive invariant holds initially.
LEMMA InitInvariant == Init => IInv
<1> SUFFICES ASSUME Init PROVE IInv
  OBVIOUS
<1>1. 1 \in Days /\ 0 \in 0..MaxVersion
  BY DigestBounds DEF Days
<1>2. work \in [Assignments -> WorkRow]
  <2>1. [version |-> 0, done |-> FALSE, dropped |-> FALSE] \in WorkRow
    BY <1>1 DEF WorkRow
  <2>2. QED
    BY <2>1 DEF Init
<1>3. NoDigest \in DigestRow /\ NoDigest.status = "NONE" /\ NoDigest.mails = 0
  BY SnapshotTypes DEF NoDigest, DigestRow
<1>4. digest \in [Days -> DigestRow] /\ \A d \in Days : digest[d] = NoDigest
  BY <1>3 DEF Init
<1>5. req \in [Requests -> RequestRow]
  <2>1. [pc |-> "idle", day |-> 1, snapshot |-> NoSnapshot] \in RequestRow
    BY <1>1, SnapshotTypes DEF RequestRow
  <2>2. QED
    BY <2>1 DEF Init
<1>6. jobs \in Seq(JobRow) /\ DOMAIN jobs = {} /\ today \in Days /\ suppressed \in BOOLEAN
  <2>1. jobs = <<>> /\ today = 1 /\ suppressed = FALSE
    BY DEF Init
  <2>2. <<>> \in Seq(JobRow) /\ Len(<<>>) = 0 /\ DOMAIN <<>> = {}
    OBVIOUS
  <2>3. QED
    BY <1>1, <2>1, <2>2
<1>7. DigestTypeOK
  BY <1>2, <1>4, <1>5, <1>6 DEF DigestTypeOK, WorkRow, DigestRow, RequestRow, JobRow
<1>8. QED
  BY <1>3, <1>4, <1>6, <1>7 DEF IInv, OutboxMatchesQueue, CheckedHoldsDay, CheckedIsOpen

\* A step that changes nothing keeps it.
LEMMA StutterInvariant == IInv /\ UNCHANGED digestVars => IInv'
  BY DEF IInv, digestVars, OutboxMatchesQueue, DigestTypeOK, CheckedHoldsDay, CheckedIsOpen,
         JobsOf, IsCurrent, SnapshotOf

\* Every reachable state of the reminder digests satisfies the invariant.
THEOREM DigestInvariance == DigestSpec => []IInv
<1>1. ASSUME IInv, Next
      PROVE  OutboxMatchesQueue'
  <2>1. \A d \in Days :
          /\ digest'[d].status = "PREPARING" => JobsOf(d, {"waiting", "checked", "lost"})' # {}
          /\ digest'[d].status = "FAILED" => JobsOf(d, {"failed"})' # {}
    BY <1>1, PreparingStep, FailedStep DEF JobsOf
  <2>2. QED
    BY <1>1, <2>1, TypeStep, MailStep DEF OutboxMatchesQueue
<1>2. IInv /\ [Next]_digestVars => IInv'
  BY <1>1, CheckedHoldsDayStep, CheckedIsOpenStep, StutterInvariant DEF IInv
<1>3. QED
  BY <1>2, InitInvariant, PTL DEF DigestSpec

\* Whatever is sent again, delivered again, fails or crashes, the outbox agrees
\* with the queue: no reservation without a job, no second email for a day.
THEOREM OutboxAgreesWithQueue == DigestSpec => []OutboxMatchesQueue
<1>1. IInv => OutboxMatchesQueue
  BY DEF IInv
<1>2. QED
  BY <1>1, DigestInvariance, PTL

\* An email is queued only for work that is still as the preview showed it.
THEOREM OnlyOpenWorkIsReminded == DigestSpec => RemindsOpenWork
<1> DEFINE A == \A d \in Days : digest'[d].mails # digest[d].mails =>
                  \A a \in DOMAIN digest[d].snapshot :
                    ~work[a].done /\ work[a].version = digest[d].snapshot[a]
<1>1. ASSUME IInv, Next, NEW d \in Days, digest'[d].mails # digest[d].mails
      PROVE  \A a \in DOMAIN digest[d].snapshot :
               ~work[a].done /\ work[a].version = digest[d].snapshot[a]
  <2>1. ~Moves
    BY <1>1 DEF Moves
  <2>2. ASSUME NEW c \in Days, NEW v \in DigestRow, NEW w \in JobRow, Reserves(c, v, w)
        PROVE  FALSE
    <3>1. digest[c].mails = 0
      BY <1>1, <2>2, TableTypes DEF Reserves, IInv, OutboxMatchesQueue, DigestRow
    <3>2. QED
      BY <1>1, <2>2, <3>1, TablesAfter DEF Reserves
  <2>3. PICK j \in DOMAIN jobs, w \in JobRow : Works(j, w)
    BY <1>1, <2>1, <2>2, EveryStep
  <2>4. jobs[j].day = d
    BY <1>1, <2>3, TablesAfter
  <2>5. jobs[j].state = "checked"
    <3>1. ~Settles(j, w)
      BY <1>1, <2>4, DayAfter DEF Settles
    <3>2. ~GivesUp(j, w)
      BY <1>1, <2>4, DayAfter DEF GivesUp
    <3>3. HandsOff(j, w)
      BY <1>1, <2>3, <3>1, <3>2 DEF Works, Ends, Passes, Returns
    <3>4. QED
      BY <3>3 DEF HandsOff
  <2>6. QED
    BY <1>1, <2>4, <2>5 DEF IInv, CheckedIsOpen, SnapshotOf
<1>2. IInv /\ [Next]_digestVars => [A]_digestVars
  BY <1>1 DEF digestVars
<1>3. QED
  BY <1>2, DigestInvariance, PTL DEF DigestSpec, RemindsOpenWork

=============================================================================
