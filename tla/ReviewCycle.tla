----------------------------- MODULE ReviewCycle -----------------------------
(***************************************************************************)
(* The review of one paper: its cycles, the assignments and reviews of     *)
(* each cycle, release to the authors, their rebuttal, the decision, and   *)
(* the revision that opens the next cycle.                                 *)
(*                                                                         *)
(* A request reads rows in transactions of their own (Load), then opens    *)
(* the transaction that writes.  Where that transaction begins with        *)
(* lockReviewRound it re-reads what it depends on under the row lock of    *)
(* the cycle (Check) and writes (Write); the lock is held in between.      *)
(* Inserting a decision or an assignment needs a key-share lock on the     *)
(* cycle for its foreign key, so it waits for that holder.  Withdrawal     *)
(* takes no lock on the cycle.                                             *)
(*                                                                         *)
(* Due dates are not modelled: a deadline refuses a request, which may     *)
(* stop at any point anyway, and EXTEND and the update of a cycle's dates  *)
(* change nothing else.  Nor are conflicts of interest: a conflict refuses *)
(* an assignment or a review in the same way, and undoes nothing.          *)
(* Scores and comments are one text per review.  The versions of cycles    *)
(* and rebuttals are left out: a stale one refuses a request, no more; so  *)
(* is notifiedAt, which a revision waits for and nothing else here reads.  *)
(***************************************************************************)
EXTENDS Integers, Sequences, FiniteSets

CONSTANTS
  Reviewers,     \* members of the conference with the reviewer role
  Requests,      \* requests in flight
  Texts,         \* contents of a review
  NoText,
  NoReviewer,
  MaxCycles,     \* bound on review cycles
  MaxAssignments,\* bound on reviewer assignments
  MaxRevisions   \* bound on uploaded revisions

ASSUME NullsAreNoValues == NoText \notin Texts /\ NoReviewer \notin Reviewers
ASSUME BoundsAreNat     == MaxCycles \in Nat \ {0} /\ MaxRevisions \in Nat
                     /\ MaxAssignments \in Nat

VARIABLES
  paper,      \* status of the paper
  cycles,     \* review_rounds: released, outcome of the decision, rebuttal
  asg,        \* status of the assignment of each reviewer in each cycle
  rev,        \* the review of each assignment
  revisions,  \* number of uploaded revisions
  req,        \* phase and reads of each request
  fresh       \* requests whose version still is that of the review

reviewVars == <<paper, cycles, asg, rev, revisions, req, fresh>>

PaperStatus == {"SUBMITTED", "UNDER_REVIEW", "DECISION_MADE", "WITHDRAWN"}
OpenForReview == {"SUBMITTED", "UNDER_REVIEW"}
AssignmentStatus == {"NONE", "ASSIGNED", "COMPLETED", "DECLINED", "REPLACED"}
Retired == {"DECLINED", "REPLACED"}
Outcome == {"ACCEPT", "REJECT", "REVISION"}
Operation == {"save", "submit", "intervene", "rebut", "assign", "decide", "upload"}

NoReview == [text |-> NoText, pending |-> NoText, submitted |-> FALSE, visible |-> FALSE]
NewCycle == [released |-> FALSE, outcome |-> "NONE", rebuttal |-> FALSE]
NoRead   == [text |-> NoText, edits |-> FALSE, status |-> "UNDER_REVIEW"]
Idle     == [pc |-> "idle", op |-> "save", n |-> 1, r |-> NoReviewer, read |-> NoRead]

Init ==
  /\ paper = "SUBMITTED"
  /\ cycles = <<>>
  /\ asg = [n \in 1..MaxCycles |-> [r \in Reviewers |-> "NONE"]]
  /\ rev = [n \in 1..MaxCycles |-> [r \in Reviewers |-> NoReview]]
  /\ revisions = 0
  /\ req = [q \in Requests |-> Idle]
  /\ fresh = {}

Newest == Len(cycles)
Assigned == {a \in (1..MaxCycles) \X Reviewers : asg[a[1]][a[2]] # "NONE"}
RoomToAssign == Cardinality(Assigned) < MaxAssignments
Decided(n) == cycles[n].outcome # "NONE"
Written(v) == v.text # NoText

\* reviewVisibleToOwner: an edit of a submitted review waits beside it.
OwnerView(v) == IF v.submitted /\ v.pending # NoText THEN v.pending ELSE v.text

-----------------------------------------------------------------------------
(* Locks and versions.                                                     *)

Locking == {"save", "submit", "intervene"}

\* No request holds the row lock of cycle n.
LockFree(n) == \A q \in Requests :
  ~(req[q].pc = "checked" /\ req[q].op \in Locking /\ req[q].n = n)

\* Requests that work on the review of r in cycle n.
EditorsOf(n, r) ==
  {q \in Requests : req[q].op \in {"save", "submit"} /\ req[q].n = n /\ req[q].r = r}

Finish(q) == req' = [req EXCEPT ![q] = Idle]

\* A refused request rolls back; so does one whose process stops.
Abort(q) ==
  /\ req[q].pc # "idle"
  /\ Finish(q)
  /\ fresh' = fresh \ {q}
  /\ UNCHANGED <<paper, cycles, asg, rev, revisions>>

Load(q, op, n, r, read) ==
  /\ req[q].pc = "idle"
  /\ req' = [req EXCEPT ![q] =
       [pc |-> "loaded", op |-> op, n |-> n, r |-> r, read |-> read]]
  /\ fresh' = IF op \in {"save", "submit"} THEN fresh \cup {q} ELSE fresh
  /\ UNCHANGED <<paper, cycles, asg, rev, revisions>>

-----------------------------------------------------------------------------
(* Reviewers: saveReview and submitReview.                                 *)

ReadOf(v) == [NoRead EXCEPT !.text = OwnerView(v), !.edits = v.submitted]

LoadReview(q, op, n, r) ==
  /\ op \in {"save", "submit"}
  /\ n \in 1..Newest
  /\ paper # "WITHDRAWN"
  /\ asg[n][r] \notin Retired \cup {"NONE"}
  /\ op = "submit" => Written(rev[n][r])
  /\ Load(q, op, n, r, ReadOf(rev[n][r]))

\* Faulty variant: the decision is looked up when the request arrives only.
CheckReviewEarly(q) ==
  /\ req[q].pc = "loaded" /\ req[q].op \in {"save", "submit"}
  /\ LockFree(req[q].n)
  /\ asg[req[q].n][req[q].r] \notin Retired
  /\ req' = [req EXCEPT ![q].pc = "checked"]
  /\ UNCHANGED <<paper, cycles, asg, rev, revisions, fresh>>

\* Faulty variant: the assignment is looked up when the request arrives only.
CheckReviewStale(q) ==
  /\ req[q].pc = "loaded" /\ req[q].op \in {"save", "submit"}
  /\ LockFree(req[q].n)
  /\ ~Decided(req[q].n)
  /\ req' = [req EXCEPT ![q].pc = "checked"]
  /\ UNCHANGED <<paper, cycles, asg, rev, revisions, fresh>>

\* lockReviewRound, then the assignment and the decision again.
CheckReview(q) ==
  /\ req[q].pc = "loaded" /\ req[q].op \in {"save", "submit"}
  /\ LockFree(req[q].n)
  /\ asg[req[q].n][req[q].r] \notin Retired
  /\ ~Decided(req[q].n)
  /\ req' = [req EXCEPT ![q].pc = "checked"]
  /\ UNCHANGED <<paper, cycles, asg, rev, revisions, fresh>>

\* Faulty variant: an existing review is updated without comparing versions.
SaveMatchesAny(q, v) == req[q].read.text = NoText => ~Written(v)

\* updateMany where version, or createMany with skipDuplicates.
SaveMatches(q, v) == IF req[q].read.text = NoText THEN ~Written(v) ELSE q \in fresh

Saved(q, v, t) == IF req[q].read.edits
                  THEN [v EXCEPT !.pending = t]
                  ELSE [v EXCEPT !.text = t, !.pending = NoText]

Save(q, t) ==
  LET n == req[q].n  r == req[q].r
  IN /\ req[q].pc = "checked" /\ req[q].op = "save"
     /\ SaveMatches(q, rev[n][r])
     /\ rev' = [rev EXCEPT ![n][r] = Saved(q, @, t)]
     /\ fresh' = fresh \ EditorsOf(n, r)
     /\ Finish(q)
     /\ UNCHANGED <<paper, cycles, asg, revisions>>

\* Publishes the text that the request read; completes the assignment by id.
Submit(q) ==
  LET n == req[q].n  r == req[q].r
  IN /\ req[q].pc = "checked" /\ req[q].op = "submit"
     /\ q \in fresh
     /\ rev' = [rev EXCEPT ![n][r].text = req[q].read.text, ![n][r].pending = NoText,
                           ![n][r].submitted = TRUE]
     /\ asg' = [asg EXCEPT ![n][r] = "COMPLETED"]
     /\ fresh' = fresh \ EditorsOf(n, r)
     /\ Finish(q)
     /\ UNCHANGED <<paper, cycles, revisions>>

-----------------------------------------------------------------------------
(* Organizers: assignment, intervention, release.                          *)

\* assign without a cycle: the first assignment of a paper creates cycle 1.
EnsureOpenCycle ==
  /\ cycles = <<>>
  /\ cycles' = <<NewCycle>>
  /\ UNCHANGED <<paper, asg, rev, revisions, req, fresh>>

\* assign, and each copy from the previous cycle: three separate reads.
LoadAssign(q, n, r) ==
  /\ n \in 1..Newest
  /\ ~Decided(n)
  /\ asg[n][r] = "NONE" /\ RoomToAssign
  /\ paper \in OpenForReview
  /\ Load(q, "assign", n, r, [NoRead EXCEPT !.status = paper])

\* The status that was read before the transaction decides on the update.
Assign(q) ==
  LET n == req[q].n  r == req[q].r
  IN /\ req[q].pc = "loaded" /\ req[q].op = "assign"
     /\ LockFree(n)
     /\ asg[n][r] = "NONE"
     /\ RoomToAssign
     /\ asg' = [asg EXCEPT ![n][r] = "ASSIGNED"]
     /\ paper' = IF req[q].read.status = "SUBMITTED" THEN "UNDER_REVIEW" ELSE paper
     /\ fresh' = fresh \ {q}
     /\ Finish(q)
     /\ UNCHANGED <<cycles, rev, revisions>>

\* The Bot API's assign locks the paper and the cycle before it reads.
BotAssign(r) ==
  LET open == IF cycles = <<>> THEN <<NewCycle>> ELSE cycles
      n    == Len(open)
  IN /\ paper \in OpenForReview
     /\ open[n].outcome = "NONE"
     /\ LockFree(n)
     /\ asg[n][r] = "NONE"
     /\ RoomToAssign
     /\ cycles' = open
     /\ asg' = [asg EXCEPT ![n][r] = "ASSIGNED"]
     /\ paper' = "UNDER_REVIEW"
     /\ UNCHANGED <<rev, revisions, req, fresh>>

\* unassign and intervene: the organizer chose from a ledger read earlier.  No
\* assignment goes back to ASSIGNED, so choosing another row is always refused.
LoadIntervention(q, n, r) ==
  /\ n \in 1..Newest
  /\ asg[n][r] = "ASSIGNED"
  /\ Load(q, "intervene", n, r, NoRead)

\* Faulty variant: the assignment is not read again under the lock.
IntervenableInLedger(n, r) ==
  paper \in OpenForReview /\ ~cycles[n].released /\ ~Decided(n) /\ n = Newest

\* applyIntervention after lockReviewRound.
Intervenable(n, r) ==
  /\ asg[n][r] = "ASSIGNED" /\ ~rev[n][r].submitted
  /\ paper \in OpenForReview
  /\ ~cycles[n].released /\ ~Decided(n) /\ n = Newest

CheckIntervention(q) ==
  /\ req[q].pc = "loaded" /\ req[q].op = "intervene"
  /\ LockFree(req[q].n)
  /\ Intervenable(req[q].n, req[q].r)
  /\ req' = [req EXCEPT ![q].pc = "checked"]
  /\ UNCHANGED <<paper, cycles, asg, rev, revisions, fresh>>

\* RELEASE: the record and its draft are kept.
Retire(q) ==
  LET n == req[q].n  r == req[q].r
  IN /\ req[q].pc = "checked" /\ req[q].op = "intervene"
     /\ asg' = [asg EXCEPT ![n][r] = "REPLACED"]
     /\ fresh' = fresh \ {q}
     /\ Finish(q)
     /\ UNCHANGED <<paper, cycles, rev, revisions>>

\* REPLACE: another reviewer, not yet assigned in this cycle.
Replace(q, s) ==
  LET n == req[q].n  r == req[q].r
  IN /\ req[q].pc = "checked" /\ req[q].op = "intervene"
     /\ asg[n][s] = "NONE"
     /\ RoomToAssign
     /\ asg' = [asg EXCEPT ![n][r] = "REPLACED", ![n][s] = "ASSIGNED"]
     /\ fresh' = fresh \ {q}
     /\ Finish(q)
     /\ UNCHANGED <<paper, cycles, rev, revisions>>

\* Faulty variant: drafts are released with the submitted reviews.
ReleasableWithDrafts(n) ==
  {r \in Reviewers : Written(rev[n][r]) /\ ~rev[n][r].visible}

\* Submitted reviews the authors do not see yet.
Releasable(n) == {r \in Reviewers : rev[n][r].submitted /\ ~rev[n][r].visible}

\* releaseReviews: all it depends on is read under lockReviewRound.
ReleaseReviews(n) ==
  /\ n \in 1..Newest
  /\ LockFree(n)
  /\ Releasable(n) # {}
  /\ cycles' = [cycles EXCEPT ![n].released = TRUE]
  /\ rev' = [rev EXCEPT ![n] = [r \in Reviewers |->
       IF r \in Releasable(n) THEN [rev[n][r] EXCEPT !.visible = TRUE] ELSE rev[n][r]]]
  /\ UNCHANGED <<paper, asg, revisions, req, fresh>>

-----------------------------------------------------------------------------
(* Authors: rebuttal, revision, withdrawal.                                *)

\* resolveRebuttalRound and the reads after it.
LoadRebuttal(q, n) ==
  /\ n \in 1..Newest
  /\ paper # "WITHDRAWN"
  /\ cycles[n].released /\ ~Decided(n)
  /\ \E r \in Reviewers : rev[n][r].visible
  /\ Load(q, "rebut", n, NoReviewer, NoRead)

\* submitRebuttal under lockReviewRound: release and decision again.
SubmitRebuttal(q) ==
  LET n == req[q].n
  IN /\ req[q].pc = "loaded" /\ req[q].op = "rebut"
     /\ LockFree(n)
     /\ cycles[n].released /\ ~Decided(n)
     /\ cycles' = [cycles EXCEPT ![n].rebuttal = TRUE]
     /\ Finish(q)
     /\ UNCHANGED <<paper, asg, rev, revisions, fresh>>

\* assertRevisionEligible, in a transaction before the upload is finalized.
LoadRevision(q) ==
  /\ revisions < MaxRevisions
  /\ cycles # <<>>
  /\ paper = "UNDER_REVIEW"
  /\ cycles[Newest].outcome = "REVISION"
  /\ Load(q, "upload", Newest, NoReviewer, NoRead)

UploadRevision(q) ==
  /\ req[q].pc = "loaded" /\ req[q].op = "upload"
  /\ revisions < MaxRevisions
  /\ revisions' = revisions + 1
  /\ fresh' = fresh \ {q}
  /\ Finish(q)
  /\ UNCHANGED <<paper, cycles, asg, rev>>

\* Faulty variant: any decision lets a revision open a cycle.
CycleIsDecided == cycles # <<>> /\ Decided(Newest)

\* openRevisionCycle; the unique key (paper, number) stops a second insert.
RevisionAsked == cycles # <<>> /\ cycles[Newest].outcome = "REVISION"

\* A clean scan of the newest revision; the job may run again at any time.
ScanRevision ==
  /\ revisions > 0
  /\ RevisionAsked
  /\ Newest < MaxCycles
  /\ cycles' = Append(cycles, NewCycle)
  /\ UNCHANGED <<paper, asg, rev, revisions, req, fresh>>

\* withdraw: updateMany where the status is one of these.
Withdraw ==
  /\ paper \in {"SUBMITTED", "UNDER_REVIEW", "DECISION_MADE"}
  /\ paper' = "WITHDRAWN"
  /\ asg' = [n \in DOMAIN asg |-> [r \in Reviewers |->
       IF asg[n][r] \in {"NONE", "COMPLETED"} THEN asg[n][r] ELSE "DECLINED"]]
  /\ UNCHANGED <<cycles, rev, revisions, req, fresh>>

-----------------------------------------------------------------------------
(* Chairs: makeDecision and bulkDecide.                                    *)

\* applyDecisionInTransaction reads the paper without a lock.
LoadDecision(q, n) ==
  /\ n \in 1..Newest
  /\ paper # "WITHDRAWN"
  /\ \E r \in Reviewers : asg[n][r] # "NONE"
  /\ Load(q, "decide", n, NoReviewer, NoRead)

\* decision.create, unique per cycle, and the update of the paper by id.
Decide(q, outcome) ==
  LET n == req[q].n
  IN /\ req[q].pc = "loaded" /\ req[q].op = "decide"
     /\ LockFree(n)
     /\ ~Decided(n)
     /\ cycles' = [cycles EXCEPT ![n].outcome = outcome]
     /\ paper' = IF outcome = "REVISION" THEN "UNDER_REVIEW" ELSE "DECISION_MADE"
     /\ fresh' = fresh \ {q}
     /\ Finish(q)
     /\ UNCHANGED <<asg, rev, revisions>>

-----------------------------------------------------------------------------
ReviewerStep(q) ==
  \/ \E op \in {"save", "submit"}, n \in 1..MaxCycles, r \in Reviewers : LoadReview(q, op, n, r)
  \/ CheckReview(q)
  \/ \E t \in Texts : Save(q, t)
  \/ Submit(q)

OrganizerStep(q) ==
  \/ \E n \in 1..MaxCycles, r \in Reviewers : LoadAssign(q, n, r)
  \/ Assign(q)
  \/ \E n \in 1..MaxCycles, r \in Reviewers : LoadIntervention(q, n, r)
  \/ CheckIntervention(q)
  \/ Retire(q)
  \/ \E s \in Reviewers : Replace(q, s)

AuthorStep(q) ==
  \/ \E n \in 1..MaxCycles : LoadRebuttal(q, n)
  \/ SubmitRebuttal(q)
  \/ LoadRevision(q)
  \/ UploadRevision(q)

ChairStep(q) ==
  \/ \E n \in 1..MaxCycles : LoadDecision(q, n)
  \/ \E outcome \in Outcome : Decide(q, outcome)

Next ==
  \/ \E q \in Requests :
       ReviewerStep(q) \/ OrganizerStep(q) \/ AuthorStep(q) \/ ChairStep(q) \/ Abort(q)
  \/ EnsureOpenCycle
  \/ \E r \in Reviewers : BotAssign(r)
  \/ \E n \in 1..MaxCycles : ReleaseReviews(n)
  \/ ScanRevision
  \/ Withdraw

ReviewSpec == Init /\ [][Next]_reviewVars

-----------------------------------------------------------------------------
(* Properties.                                                             *)

ReviewRow ==
  {v \in [text : Texts \cup {NoText}, pending : Texts \cup {NoText},
          submitted : BOOLEAN, visible : BOOLEAN] :
     /\ v.submitted => Written(v)
     /\ v.pending # NoText => v.submitted}
CycleRow == [released : BOOLEAN, outcome : Outcome \cup {"NONE"}, rebuttal : BOOLEAN]
RequestState ==
  [pc : {"idle", "loaded", "checked"}, op : Operation, n : 1..MaxCycles,
   r : Reviewers \cup {NoReviewer},
   read : [text : Texts \cup {NoText}, edits : BOOLEAN, status : PaperStatus]]

\* Every table holds rows of its type; a submitted review has a text, and an
\* edit is kept beside a submitted review only.
ReviewTypeOK ==
  /\ paper \in PaperStatus
  /\ cycles \in Seq(CycleRow) /\ Len(cycles) <= MaxCycles
  /\ asg \in [1..MaxCycles -> [Reviewers -> AssignmentStatus]]
  /\ rev \in [1..MaxCycles -> [Reviewers -> ReviewRow]]
  /\ revisions \in 0..MaxRevisions
  /\ req \in [Requests -> RequestState]
  /\ fresh \subseteq Requests

\* A review is submitted exactly if its assignment is COMPLETED, however its
\* submission, an intervention of the organizer and a withdrawal interleave:
\* neither an abandoned review that counts nor a counted one that is retired
\* (docs/api/bot-api-runbook.md tells clients not to trust the status alone).
SubmittedIsCompleted ==
  /\ ReviewTypeOK
  /\ \A n \in 1..MaxCycles, r \in Reviewers :
       rev[n][r].submitted <=> asg[n][r] = "COMPLETED"

\* Authors see submitted reviews of released cycles only, and a rebuttal
\* answers a review they have seen (releaseReviews, submitRebuttal).
AuthorsSeeReleased ==
  \A n \in 1..MaxCycles :
    /\ \A r \in Reviewers :
         rev[n][r].visible => rev[n][r].submitted /\ n <= Newest /\ cycles[n].released
    /\ n <= Newest /\ cycles[n].rebuttal => \E r \in Reviewers : rev[n][r].visible

\* Every cycle but the newest ended with a request for a revision, so at most
\* one cycle is open and nothing follows an acceptance or a rejection.
OnlyNewestCycleOpen == \A n \in 1..(Newest - 1) : cycles[n].outcome = "REVISION"

\* A cycle with a decision keeps its reviews and its rebuttal as they were
\* (REVIEW_PHASE_LOCKED, REBUTTAL_PHASE_LOCKED), whatever was in flight.
DecidedCycleIsFrozen ==
  [][\A n \in 1..Newest : Decided(n) =>
       /\ cycles'[n].rebuttal = cycles[n].rebuttal
       /\ \A r \in Reviewers : rev'[n][r] # rev[n][r] =>
            rev'[n][r] = [rev[n][r] EXCEPT !.visible = TRUE]]_reviewVars

\* A replaced reviewer writes nothing more, from whatever page.
ReplacedStaysOut ==
  [][\A n \in 1..MaxCycles, r \in Reviewers :
       asg[n][r] = "REPLACED" => rev'[n][r] = rev[n][r]]_reviewVars

\* What a submitted review says changes only by publishing the edit saved
\* last: two open pages neither publish an overwritten edit nor change a
\* submitted review by a save that still took it for a draft.
PublishesLatestSave ==
  [][\A n \in 1..MaxCycles, r \in Reviewers :
       LET v == rev[n][r]  w == rev'[n][r]
       IN (w.submitted /\ (~v.submitted \/ w.text # v.text)) =>
            w.text = (IF v.pending # NoText THEN v.pending ELSE v.text)]_reviewVars

=============================================================================
