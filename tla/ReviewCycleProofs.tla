--------------------------- MODULE ReviewCycleProofs ---------------------------
(***************************************************************************)
(* Theorems about ReviewCycle, for any number of reviewers and requests,   *)
(* any contents of reviews and any bounds.                                 *)
(*                                                                         *)
(* None of the properties is inductive.  What a request that holds the     *)
(* lock of a cycle found out before (CheckedStillHolds) stays true because *)
(* no other request holds that lock (OneHolder); a request whose version   *)
(* is current (FreshReads) still knows what the review says.  With both,   *)
(* and with the type of what a request refers to (RequestsTarget,          *)
(* ReadsHold), IInv is inductive, and the action properties follow from it *)
(* one action at a time.                                                   *)
(***************************************************************************)
EXTENDS ReviewCycle, TLAPS

Editing == {"save", "submit"}

\* A request works on a cycle that exists, and on a reviewer where it needs one.
RequestsTarget ==
  \A q \in Requests : req[q].pc # "idle" =>
    /\ req[q].n \in 1..Newest
    /\ req[q].op \in Editing \cup {"intervene", "assign"} => req[q].r \in Reviewers

\* Only operations that lock get as far as holding one, and one per cycle.
OneHolder ==
  /\ \A q \in Requests : req[q].pc = "checked" => req[q].op \in Locking
  /\ \A p, q \in Requests :
       req[p].pc = "checked" /\ req[q].pc = "checked" /\ req[p].n = req[q].n => p = q

\* What a request checked under the lock still holds when it writes.  (That the
\* assignment is open does not: a withdrawal declines it without the lock.)
CheckedStillHolds ==
  \A q \in Requests : req[q].pc = "checked" =>
    /\ req[q].op \in Editing =>
         ~Decided(req[q].n) /\ asg[req[q].n][req[q].r] # "REPLACED"
    /\ req[q].op = "intervene" => ~rev[req[q].n][req[q].r].submitted

\* A review that was submitted when a request read it still is.
ReadsHold ==
  \A q \in Requests : req[q].pc # "idle" /\ req[q].op \in Editing =>
    /\ req[q].read.edits => rev[req[q].n][req[q].r].submitted
    /\ req[q].op = "submit" => req[q].read.text # NoText

\* A request whose version is current knows what the review says.
FreshReads ==
  \A q \in fresh :
    /\ req[q].pc # "idle" /\ req[q].op \in Editing
    /\ req[q].read.text = OwnerView(rev[req[q].n][req[q].r])
    /\ req[q].read.edits = rev[req[q].n][req[q].r].submitted

\* The second half of SubmittedIsCompleted.
CompletedAgrees ==
  \A n \in 1..MaxCycles, r \in Reviewers :
    rev[n][r].submitted <=> asg[n][r] = "COMPLETED"

\* A release shows the authors at least one review.
ReleaseShows ==
  \A n \in 1..Newest : cycles[n].released => \E r \in Reviewers : rev[n][r].visible

IInv ==
  /\ ReviewTypeOK
  /\ RequestsTarget
  /\ OneHolder
  /\ CheckedStillHolds
  /\ ReadsHold
  /\ FreshReads
  /\ CompletedAgrees
  /\ ReleaseShows
  /\ AuthorsSeeReleased
  /\ OnlyNewestCycleOpen

-----------------------------------------------------------------------------
(* Updates of one row.                                                     *)

\* What a reviewer sees of a review is a text, and some text once it is written.
LEMMA OwnerViewType ==
  ASSUME NEW v \in ReviewRow
  PROVE  /\ OwnerView(v) \in Texts \cup {NoText}
         /\ Written(v) => OwnerView(v) # NoText
         /\ v.submitted => OwnerView(v) # NoText
         /\ ReadOf(v) \in [text : Texts \cup {NoText}, edits : BOOLEAN, status : PaperStatus]
         /\ ReadOf(v).text = OwnerView(v)
         /\ ReadOf(v).edits = v.submitted
<1>1. /\ v.text \in Texts \cup {NoText} /\ v.pending \in Texts \cup {NoText}
      /\ v.submitted \in BOOLEAN
      /\ v.submitted => v.text # NoText
  BY DEF ReviewRow, Written
<1>2. OwnerView(v) \in Texts \cup {NoText}
  BY <1>1 DEF OwnerView
<1>3. (Written(v) => OwnerView(v) # NoText) /\ (v.submitted => OwnerView(v) # NoText)
  BY <1>1 DEF OwnerView, Written
<1>4. NoRead \in [text : Texts \cup {NoText}, edits : BOOLEAN, status : PaperStatus]
  BY DEF NoRead, PaperStatus
<1>5. \A t \in Texts \cup {NoText}, b \in BOOLEAN :
        /\ [NoRead EXCEPT !.text = t, !.edits = b]
             \in [text : Texts \cup {NoText}, edits : BOOLEAN, status : PaperStatus]
        /\ [NoRead EXCEPT !.text = t, !.edits = b].text = t
        /\ [NoRead EXCEPT !.text = t, !.edits = b].edits = b
  BY <1>4
<1>6. QED
  BY <1>1, <1>2, <1>3, <1>5 DEF ReadOf

\* Saving, publishing and releasing a review leave a review; none of them
\* takes a submission or its visibility back.
LEMMA ReviewUpdates ==
  ASSUME NEW v \in ReviewRow, NEW t \in Texts
  PROVE  /\ [v EXCEPT !.text = t, !.pending = NoText] \in ReviewRow
         /\ v.submitted => [v EXCEPT !.pending = t] \in ReviewRow
         /\ [v EXCEPT !.text = t, !.pending = NoText, !.submitted = TRUE] \in ReviewRow
         /\ [v EXCEPT !.visible = TRUE] \in ReviewRow
<1>1. t # NoText
  BY NullsAreNoValues
<1>2. v = [text |-> v.text, pending |-> v.pending, submitted |-> v.submitted,
           visible |-> v.visible]
  BY DEF ReviewRow
<1>3. [v EXCEPT !.text = t, !.pending = NoText] \in ReviewRow
  BY <1>1, <1>2 DEF ReviewRow, Written
<1>4. v.submitted => [v EXCEPT !.pending = t] \in ReviewRow
  BY <1>1, <1>2 DEF ReviewRow, Written
<1>5. [v EXCEPT !.text = t, !.pending = NoText, !.submitted = TRUE] \in ReviewRow
  BY <1>1, <1>2 DEF ReviewRow, Written
<1>6. [v EXCEPT !.visible = TRUE] \in ReviewRow
  BY <1>1, <1>2 DEF ReviewRow, Written
<1>7. QED
  BY <1>3, <1>4, <1>5, <1>6

\* The tables of reviews and assignments stay what they are when one entry is
\* replaced.
LEMMA EntryReplaced ==
  ASSUME NEW T, NEW f \in [1..MaxCycles -> [Reviewers -> T]],
         NEW n \in 1..MaxCycles, NEW r \in Reviewers, NEW v \in T
  PROVE  /\ [f EXCEPT ![n][r] = v] \in [1..MaxCycles -> [Reviewers -> T]]
         /\ \A m \in 1..MaxCycles, s \in Reviewers :
              [f EXCEPT ![n][r] = v][m][s] = IF m = n /\ s = r THEN v ELSE f[m][s]
  OBVIOUS

\* The cycles stay cycles, and as many, when one of them is updated.
LEMMA CycleReplaced ==
  ASSUME NEW cs \in Seq(CycleRow), NEW n \in 1..Len(cs), NEW c \in CycleRow
  PROVE  /\ [cs EXCEPT ![n] = c] \in Seq(CycleRow)
         /\ Len([cs EXCEPT ![n] = c]) = Len(cs)
         /\ \A m \in 1..Len(cs) :
              [cs EXCEPT ![n] = c][m] = IF m = n THEN c ELSE cs[m]
  OBVIOUS

\* A release, a rebuttal and a decision leave a cycle.
LEMMA CycleUpdates ==
  ASSUME NEW c \in CycleRow, NEW o \in Outcome
  PROVE  /\ [c EXCEPT !.released = TRUE] \in CycleRow
         /\ [c EXCEPT !.rebuttal = TRUE] \in CycleRow
         /\ [c EXCEPT !.outcome = o] \in CycleRow
  BY DEF CycleRow, Outcome

\* A request that loads, that passes its check, or that ends is a request.
LEMMA RequestUpdates ==
  ASSUME ReviewTypeOK, NEW q \in Requests
  PROVE  /\ Idle \in RequestState
         /\ [req EXCEPT ![q] = Idle] \in [Requests -> RequestState]
         /\ [req EXCEPT ![q].pc = "checked"] \in [Requests -> RequestState]
         /\ \A op \in Operation, n \in 1..MaxCycles, r \in Reviewers \cup {NoReviewer},
              read \in [text : Texts \cup {NoText}, edits : BOOLEAN, status : PaperStatus] :
              [req EXCEPT ![q] = [pc |-> "loaded", op |-> op, n |-> n, r |-> r,
                                  read |-> read]] \in [Requests -> RequestState]
<1>1. Idle \in RequestState
  BY BoundsAreNat DEF Idle, NoRead, RequestState, Operation, PaperStatus
<1>2. req \in [Requests -> RequestState] /\ req[q] \in RequestState
  BY DEF ReviewTypeOK
<1>3. [req[q] EXCEPT !.pc = "checked"] \in RequestState
  BY <1>2 DEF RequestState
<1>4. \A op \in Operation, n \in 1..MaxCycles, r \in Reviewers \cup {NoReviewer},
        read \in [text : Texts \cup {NoText}, edits : BOOLEAN, status : PaperStatus] :
          [pc |-> "loaded", op |-> op, n |-> n, r |-> r, read |-> read] \in RequestState
  BY DEF RequestState
<1>5. QED
  BY <1>1, <1>2, <1>3, <1>4

\* What a typed request refers to.
LEMMA RequestType ==
  ASSUME ReviewTypeOK, NEW q \in Requests
  PROVE  /\ req[q].pc \in {"idle", "loaded", "checked"} /\ req[q].op \in Operation
         /\ req[q].n \in 1..MaxCycles /\ req[q].r \in Reviewers \cup {NoReviewer}
         /\ req[q].read.text \in Texts \cup {NoText}
         /\ req[q].read.edits \in BOOLEAN /\ req[q].read.status \in PaperStatus
<1>1. req[q] \in RequestState
  BY DEF ReviewTypeOK
<1>2. QED
  BY <1>1 DEF RequestState

\* A cycle that exists is a cycle within the bound.
LEMMA CycleType ==
  ASSUME ReviewTypeOK, NEW n \in 1..Newest
  PROVE  n \in 1..MaxCycles /\ cycles[n] \in CycleRow
  BY BoundsAreNat DEF ReviewTypeOK, Newest

\* Loading and ending a request leave the tables alone.
LEMMA LoadType ==
  ASSUME ReviewTypeOK, NEW q \in Requests, NEW op \in Operation, NEW n \in 1..MaxCycles,
         NEW r \in Reviewers \cup {NoReviewer},
         NEW read \in [text : Texts \cup {NoText}, edits : BOOLEAN, status : PaperStatus],
         Load(q, op, n, r, read)
  PROVE  ReviewTypeOK'
<1>1. req' \in [Requests -> RequestState]
  BY RequestUpdates DEF Load
<1>2. fresh' \subseteq Requests
  BY DEF Load, ReviewTypeOK
<1>3. QED
  BY <1>1, <1>2 DEF Load, ReviewTypeOK

-----------------------------------------------------------------------------
(* Type correctness.                                                       *)

\* Every step of a reviewer keeps the types of the tables.
LEMMA ReviewerTypes ==
  ASSUME IInv, NEW q \in Requests, ReviewerStep(q)
  PROVE  ReviewTypeOK'
<1> DEFINE n == req[q].n
           r == req[q].r
<1>0. ReviewTypeOK
  BY DEF IInv
<1>1. ASSUME NEW op \in {"save", "submit"}, NEW m \in 1..MaxCycles, NEW s \in Reviewers,
             LoadReview(q, op, m, s)
      PROVE  ReviewTypeOK'
  <2>1. rev[m][s] \in ReviewRow
    BY <1>0 DEF ReviewTypeOK
  <2>2. op \in Operation /\ Load(q, op, m, s, ReadOf(rev[m][s]))
    BY <1>1 DEF LoadReview, Operation
  <2>3. ReadOf(rev[m][s]) \in
          [text : Texts \cup {NoText}, edits : BOOLEAN, status : PaperStatus]
    BY <2>1, OwnerViewType
  <2>4. QED
    BY <1>0, <2>2, <2>3, LoadType
<1>2. ASSUME CheckReview(q)
      PROVE  ReviewTypeOK'
  BY <1>0, <1>2, RequestUpdates DEF CheckReview, ReviewTypeOK
<1>3. ASSUME NEW t \in Texts, Save(q, t)
      PROVE  ReviewTypeOK'
  <2>1. n \in 1..MaxCycles /\ r \in Reviewers /\ rev[n][r] \in ReviewRow
    BY <1>0, <1>3, RequestType DEF IInv, RequestsTarget, Save, Editing, ReviewTypeOK
  <2>2. req[q].read.edits => rev[n][r].submitted
    BY <1>3 DEF IInv, ReadsHold, Save, Editing
  <2>3. Saved(q, rev[n][r], t) \in ReviewRow
    BY <2>1, <2>2, ReviewUpdates DEF Saved
  <2>4. rev' = [rev EXCEPT ![n][r] = Saved(q, rev[n][r], t)]
    BY <1>3 DEF Save
  <2>5. rev' \in [1..MaxCycles -> [Reviewers -> ReviewRow]]
    BY <1>0, <2>1, <2>3, <2>4, EntryReplaced DEF ReviewTypeOK
  <2>6. req' \in [Requests -> RequestState] /\ fresh' \subseteq Requests
    BY <1>0, <1>3, RequestUpdates DEF Save, Finish, ReviewTypeOK
  <2>7. QED
    BY <1>0, <1>3, <2>5, <2>6 DEF Save, ReviewTypeOK
<1>4. ASSUME Submit(q)
      PROVE  ReviewTypeOK'
  <2>1. n \in 1..MaxCycles /\ r \in Reviewers /\ rev[n][r] \in ReviewRow
    BY <1>0, <1>4, RequestType DEF IInv, RequestsTarget, Submit, Editing, ReviewTypeOK
  <2>2. req[q].read.text \in Texts
    BY <1>0, <1>4, RequestType DEF IInv, ReadsHold, Submit, Editing
  <2>3. [rev[n][r] EXCEPT !.text = req[q].read.text, !.pending = NoText,
                          !.submitted = TRUE] \in ReviewRow
    BY <2>1, <2>2, ReviewUpdates
  <2>4. rev' = [rev EXCEPT ![n][r] =
                  [rev[n][r] EXCEPT !.text = req[q].read.text, !.pending = NoText,
                                    !.submitted = TRUE]]
    BY <1>0, <1>4, <2>1 DEF Submit, ReviewTypeOK
  <2>5. rev' \in [1..MaxCycles -> [Reviewers -> ReviewRow]]
    BY <1>0, <2>1, <2>3, <2>4, EntryReplaced DEF ReviewTypeOK
  <2>6. asg' \in [1..MaxCycles -> [Reviewers -> AssignmentStatus]]
    BY <1>0, <1>4, <2>1, EntryReplaced DEF Submit, ReviewTypeOK, AssignmentStatus
  <2>7. req' \in [Requests -> RequestState] /\ fresh' \subseteq Requests
    BY <1>0, <1>4, RequestUpdates DEF Submit, Finish, ReviewTypeOK
  <2>8. QED
    BY <1>0, <1>4, <2>5, <2>6, <2>7 DEF Submit, ReviewTypeOK
<1>5. QED
  BY <1>1, <1>2, <1>3, <1>4 DEF ReviewerStep

\* Every step of an organizer's request keeps the types of the tables.
LEMMA OrganizerTypes ==
  ASSUME IInv, NEW q \in Requests, OrganizerStep(q)
  PROVE  ReviewTypeOK'
<1> DEFINE n == req[q].n
           r == req[q].r
<1>0. ReviewTypeOK
  BY DEF IInv
<1>1. ASSUME NEW m \in 1..MaxCycles, NEW s \in Reviewers, LoadAssign(q, m, s)
      PROVE  ReviewTypeOK'
  <2>1. [NoRead EXCEPT !.status = paper] \in
          [text : Texts \cup {NoText}, edits : BOOLEAN, status : PaperStatus]
    BY <1>0 DEF ReviewTypeOK, NoRead
  <2>2. "assign" \in Operation
        /\ Load(q, "assign", m, s, [NoRead EXCEPT !.status = paper])
    BY <1>1 DEF LoadAssign, Operation
  <2>3. QED
    BY <1>0, <2>1, <2>2, LoadType
<1>2. ASSUME Assign(q)
      PROVE  ReviewTypeOK'
  <2>1. n \in 1..MaxCycles /\ r \in Reviewers
    BY <1>0, <1>2, RequestType DEF IInv, RequestsTarget, Assign, Editing
  <2>2. asg' \in [1..MaxCycles -> [Reviewers -> AssignmentStatus]]
    BY <1>0, <1>2, <2>1, EntryReplaced DEF Assign, ReviewTypeOK, AssignmentStatus
  <2>3. req' \in [Requests -> RequestState] /\ fresh' \subseteq Requests
    BY <1>0, <1>2, RequestUpdates DEF Assign, Finish, ReviewTypeOK
  <2>4. paper' \in PaperStatus
    BY <1>0, <1>2 DEF Assign, ReviewTypeOK, PaperStatus
  <2>5. QED
    BY <1>0, <1>2, <2>2, <2>3, <2>4 DEF Assign, ReviewTypeOK
<1>3. ASSUME NEW m \in 1..MaxCycles, NEW s \in Reviewers, LoadIntervention(q, m, s)
      PROVE  ReviewTypeOK'
  <2>1. NoRead \in [text : Texts \cup {NoText}, edits : BOOLEAN, status : PaperStatus]
    BY DEF NoRead, PaperStatus
  <2>2. "intervene" \in Operation /\ Load(q, "intervene", m, s, NoRead)
    BY <1>3 DEF LoadIntervention, Operation
  <2>3. QED
    BY <1>0, <2>1, <2>2, LoadType
<1>4. ASSUME CheckIntervention(q)
      PROVE  ReviewTypeOK'
  BY <1>0, <1>4, RequestUpdates DEF CheckIntervention, ReviewTypeOK
<1>5. ASSUME Retire(q)
      PROVE  ReviewTypeOK'
  <2>1. n \in 1..MaxCycles /\ r \in Reviewers
    BY <1>0, <1>5, RequestType DEF IInv, RequestsTarget, Retire, Editing
  <2>2. asg' \in [1..MaxCycles -> [Reviewers -> AssignmentStatus]]
    BY <1>0, <1>5, <2>1, EntryReplaced DEF Retire, ReviewTypeOK, AssignmentStatus
  <2>3. req' \in [Requests -> RequestState] /\ fresh' \subseteq Requests
    BY <1>0, <1>5, RequestUpdates DEF Retire, Finish, ReviewTypeOK
  <2>4. QED
    BY <1>0, <1>5, <2>2, <2>3 DEF Retire, ReviewTypeOK
<1>6. ASSUME NEW s \in Reviewers, Replace(q, s)
      PROVE  ReviewTypeOK'
  <2>1. n \in 1..MaxCycles /\ r \in Reviewers
    BY <1>0, <1>6, RequestType DEF IInv, RequestsTarget, Replace, Editing
  <2>2. [asg EXCEPT ![n][r] = "REPLACED"] \in [1..MaxCycles -> [Reviewers -> AssignmentStatus]]
    BY <1>0, <2>1, EntryReplaced DEF ReviewTypeOK, AssignmentStatus
  <2>3. asg' \in [1..MaxCycles -> [Reviewers -> AssignmentStatus]]
    BY <1>6, <2>1, <2>2, EntryReplaced DEF Replace, AssignmentStatus
  <2>4. req' \in [Requests -> RequestState] /\ fresh' \subseteq Requests
    BY <1>0, <1>6, RequestUpdates DEF Replace, Finish, ReviewTypeOK
  <2>5. QED
    BY <1>0, <1>6, <2>3, <2>4 DEF Replace, ReviewTypeOK
<1>7. QED
  BY <1>1, <1>2, <1>3, <1>4, <1>5, <1>6 DEF OrganizerStep

\* Every step of the authors' and the chairs' requests, and every request that
\* is given up, keeps the types of the tables.
LEMMA OtherRequestTypes ==
  ASSUME IInv, NEW q \in Requests, AuthorStep(q) \/ ChairStep(q) \/ Abort(q)
  PROVE  ReviewTypeOK'
<1> DEFINE n == req[q].n
<1>0. ReviewTypeOK
  BY DEF IInv
<1>1. NoRead \in [text : Texts \cup {NoText}, edits : BOOLEAN, status : PaperStatus]
  BY DEF NoRead, PaperStatus
<1>2. ASSUME NEW m \in 1..MaxCycles, LoadRebuttal(q, m) \/ LoadDecision(q, m)
      PROVE  ReviewTypeOK'
  BY <1>0, <1>1, <1>2, LoadType DEF LoadRebuttal, LoadDecision, Operation
<1>3. ASSUME LoadRevision(q)
      PROVE  ReviewTypeOK'
  <2>1. Newest \in 1..MaxCycles
    BY <1>0, <1>3, BoundsAreNat DEF LoadRevision, Newest, ReviewTypeOK
  <2>2. QED
    BY <1>0, <1>1, <1>3, <2>1, LoadType DEF LoadRevision, Operation
<1>4. ASSUME SubmitRebuttal(q) \/ \E o \in Outcome : Decide(q, o)
      PROVE  ReviewTypeOK'
  <2>1. n \in 1..Len(cycles) /\ cycles[n] \in CycleRow
    BY <1>0, <1>4, CycleType
    DEF IInv, RequestsTarget, SubmitRebuttal, Decide, Newest
  <2>2. cycles' \in Seq(CycleRow) /\ Len(cycles') = Len(cycles)
    <3>1. cycles \in Seq(CycleRow)
      BY <1>0 DEF ReviewTypeOK
    <3>2. CASE SubmitRebuttal(q)
      <4>1. [cycles[n] EXCEPT !.rebuttal = TRUE] \in CycleRow
        BY <2>1, CycleUpdates DEF Outcome
      <4>2. QED
        BY <2>1, <3>1, <3>2, <4>1, CycleReplaced DEF SubmitRebuttal
    <3>3. ASSUME NEW o \in Outcome, Decide(q, o)
          PROVE  cycles' \in Seq(CycleRow) /\ Len(cycles') = Len(cycles)
      <4>1. [cycles[n] EXCEPT !.outcome = o] \in CycleRow
        BY <2>1, CycleUpdates
      <4>2. QED
        BY <2>1, <3>1, <3>3, <4>1, CycleReplaced DEF Decide
    <3>4. QED
      BY <1>4, <3>2, <3>3
  <2>3. req' \in [Requests -> RequestState] /\ fresh' \subseteq Requests
    BY ZenonT(60), <1>0, <1>4, RequestUpdates DEF SubmitRebuttal, Decide, Finish, ReviewTypeOK
  <2>4. paper' \in PaperStatus
    BY <1>0, <1>4 DEF SubmitRebuttal, Decide, ReviewTypeOK, PaperStatus
  <2>5. QED
    BY <1>0, <1>4, <2>2, <2>3, <2>4 DEF SubmitRebuttal, Decide, ReviewTypeOK
<1>5. ASSUME UploadRevision(q) \/ Abort(q)
      PROVE  ReviewTypeOK'
  <2>1. req' \in [Requests -> RequestState] /\ fresh' \subseteq Requests
    BY <1>0, <1>5, RequestUpdates DEF UploadRevision, Abort, Finish, ReviewTypeOK
  <2>2. revisions' \in 0..MaxRevisions
    BY <1>0, <1>5, BoundsAreNat DEF UploadRevision, Abort, ReviewTypeOK
  <2>3. QED
    BY <1>0, <1>5, <2>1, <2>2 DEF UploadRevision, Abort, ReviewTypeOK
<1>6. QED
  BY <1>2, <1>3, <1>4, <1>5 DEF AuthorStep, ChairStep

\* The steps that are no request's keep the types of the tables: the first
\* cycle, the Bot API's assignment, a release, a scanned revision, a withdrawal.
LEMMA TableTypes ==
  ASSUME IInv,
         \/ EnsureOpenCycle \/ ScanRevision \/ Withdraw
         \/ \E r \in Reviewers : BotAssign(r)
         \/ \E n \in 1..MaxCycles : ReleaseReviews(n)
  PROVE  ReviewTypeOK'
<1>0. ReviewTypeOK /\ cycles \in Seq(CycleRow) /\ NewCycle \in CycleRow
  BY DEF IInv, ReviewTypeOK, NewCycle, CycleRow
<1>1. ASSUME EnsureOpenCycle
      PROVE  ReviewTypeOK'
  <2>1. cycles' \in Seq(CycleRow) /\ Len(cycles') = 1
    BY <1>0, <1>1 DEF EnsureOpenCycle
  <2>2. QED
    BY <1>0, <1>1, <2>1, BoundsAreNat DEF EnsureOpenCycle, ReviewTypeOK
<1>2. ASSUME ScanRevision
      PROVE  ReviewTypeOK'
  <2>1. /\ Append(cycles, NewCycle) \in Seq(CycleRow)
        /\ Len(Append(cycles, NewCycle)) = Len(cycles) + 1
    BY <1>0
  <2>2. Len(cycles) \in Nat /\ Len(cycles) < MaxCycles
    BY <1>0, <1>2 DEF ScanRevision, Newest
  <2>3. cycles' \in Seq(CycleRow) /\ Len(cycles') <= MaxCycles
    BY <1>2, <2>1, <2>2, BoundsAreNat DEF ScanRevision
  <2>4. QED
    BY <1>0, <1>2, <2>3 DEF ScanRevision, ReviewTypeOK
<1>3. ASSUME Withdraw
      PROVE  ReviewTypeOK'
  <2>1. asg' \in [1..MaxCycles -> [Reviewers -> AssignmentStatus]]
    BY <1>0, <1>3 DEF Withdraw, ReviewTypeOK, AssignmentStatus
  <2>2. QED
    BY <1>0, <1>3, <2>1 DEF Withdraw, ReviewTypeOK, PaperStatus
<1>4. ASSUME NEW r \in Reviewers, BotAssign(r)
      PROVE  ReviewTypeOK'
  <2> DEFINE open == IF cycles = <<>> THEN <<NewCycle>> ELSE cycles
  <2>1. open \in Seq(CycleRow) /\ Len(open) \in 1..MaxCycles
    BY <1>0, BoundsAreNat DEF ReviewTypeOK
  <2>2. cycles' = open /\ asg' = [asg EXCEPT ![Len(open)][r] = "ASSIGNED"]
    BY <1>4 DEF BotAssign
  <2>3. asg' \in [1..MaxCycles -> [Reviewers -> AssignmentStatus]]
    BY <1>0, <2>1, <2>2, EntryReplaced DEF ReviewTypeOK, AssignmentStatus
  <2> HIDE DEF open
  <2>4. QED
    BY <1>0, <1>4, <2>1, <2>2, <2>3 DEF BotAssign, ReviewTypeOK, PaperStatus
<1>5. ASSUME NEW n \in 1..MaxCycles, ReleaseReviews(n)
      PROVE  ReviewTypeOK'
  <2>1. n \in 1..Len(cycles) /\ cycles[n] \in CycleRow
    BY <1>0, <1>5 DEF ReleaseReviews, Newest
  <2>2. [cycles[n] EXCEPT !.released = TRUE] \in CycleRow
    BY <2>1, CycleUpdates DEF Outcome
  <2>3. cycles' \in Seq(CycleRow) /\ Len(cycles') = Len(cycles)
    BY <1>0, <1>5, <2>1, <2>2, CycleReplaced DEF ReleaseReviews
  <2>4. ASSUME NEW r \in Reviewers
        PROVE  rev[n][r] \in ReviewRow /\ [rev[n][r] EXCEPT !.visible = TRUE] \in ReviewRow
    <3>1. rev[n][r] \in ReviewRow
      BY <1>0 DEF ReviewTypeOK
    <3>2. QED
      BY <3>1 DEF ReviewRow, Written
  <2>5. rev' \in [1..MaxCycles -> [Reviewers -> ReviewRow]]
    BY <1>0, <1>5, <2>4 DEF ReleaseReviews, ReviewTypeOK
  <2>6. QED
    BY <1>0, <1>5, <2>3, <2>5 DEF ReleaseReviews, ReviewTypeOK
<1>6. QED
  BY <1>1, <1>2, <1>3, <1>4, <1>5

\* Every step keeps the types of the tables.
LEMMA TypeStep ==
  ASSUME IInv, [Next]_reviewVars
  PROVE  ReviewTypeOK'
<1>1. CASE Next
  BY <1>1, ReviewerTypes, OrganizerTypes, OtherRequestTypes, TableTypes DEF Next
<1>2. CASE UNCHANGED reviewVars
  <2>1. ReviewTypeOK
    BY DEF IInv
  <2>2. QED
    BY <1>2, <2>1 DEF reviewVars, ReviewTypeOK
<1>3. QED
  BY <1>1, <1>2

-----------------------------------------------------------------------------
(* How one step changes a request, a review, an assignment and a cycle.     *)

\* Request q holds the lock of cycle n for operation op on reviewer r.
Holds(q, op, n, r) ==
  /\ q \in Requests /\ req[q].pc = "checked"
  /\ req[q].op = op /\ req[q].n = n /\ req[q].r = r

\* Request q ends, and with it the versions of the other editors of the review.
Writes(q, n, r) == Finish(q) /\ fresh' = fresh \ EditorsOf(n, r)

\* What a request that begins has made sure of.
Begins(q, op, n, r, read) ==
  /\ Load(q, op, n, r, read)
  /\ n \in 1..Newest
  /\ op \in Editing \cup {"intervene", "assign"} => r \in Reviewers
  /\ op \in Editing => read = ReadOf(rev[n][r])
  /\ op = "submit" => Written(rev[n][r])

\* A step ends one request, lets one begin or pass its check, or touches none.
LEMMA RequestChanges ==
  ASSUME IInv, Next
  PROVE  \/ req' = req /\ fresh' = fresh
         \/ \E q \in Requests :
              /\ Finish(q)
              /\ fresh' \subseteq fresh
              /\ q \in fresh' => req[q].op \notin Editing
         \/ \E q \in Requests : CheckReview(q) \/ CheckIntervention(q)
         \/ \E q \in Requests, op \in Operation, n \in 1..MaxCycles,
               r \in Reviewers \cup {NoReviewer},
               read \in [text : Texts \cup {NoText}, edits : BOOLEAN, status : PaperStatus] :
              Begins(q, op, n, r, read)
<1> DEFINE Goal ==
         \/ req' = req /\ fresh' = fresh
         \/ \E q \in Requests :
              /\ Finish(q)
              /\ fresh' \subseteq fresh
              /\ q \in fresh' => req[q].op \notin Editing
         \/ \E q \in Requests : CheckReview(q) \/ CheckIntervention(q)
         \/ \E q \in Requests, op \in Operation, n \in 1..MaxCycles,
               r \in Reviewers \cup {NoReviewer},
               read \in [text : Texts \cup {NoText}, edits : BOOLEAN, status : PaperStatus] :
              Begins(q, op, n, r, read)
<1>0. ReviewTypeOK
  BY DEF IInv
<1>1. NoRead \in [text : Texts \cup {NoText}, edits : BOOLEAN, status : PaperStatus]
  BY DEF NoRead, PaperStatus
<1>2. ASSUME NEW q \in Requests, ReviewerStep(q)
      PROVE  Goal
  <2>1. ASSUME NEW op \in {"save", "submit"}, NEW m \in 1..MaxCycles, NEW s \in Reviewers,
               LoadReview(q, op, m, s)
        PROVE  Goal
    <3>1. rev[m][s] \in ReviewRow
      BY <1>0 DEF ReviewTypeOK
    <3>2. ReadOf(rev[m][s]) \in
            [text : Texts \cup {NoText}, edits : BOOLEAN, status : PaperStatus]
      BY <3>1, OwnerViewType
    <3>3. Begins(q, op, m, s, ReadOf(rev[m][s])) /\ op \in Operation
      BY <2>1 DEF LoadReview, Begins, Operation
    <3>4. QED
      BY <3>2, <3>3
  <2>2. ASSUME NEW t \in Texts, Save(q, t)
        PROVE  Goal
    BY <2>2 DEF Save, EditorsOf
  <2>3. ASSUME Submit(q)
        PROVE  Goal
    BY <2>3 DEF Submit, EditorsOf
  <2>4. QED
    BY <1>2, <2>1, <2>2, <2>3 DEF ReviewerStep
<1>3. ASSUME NEW q \in Requests, OrganizerStep(q)
      PROVE  Goal
  <2>1. ASSUME NEW m \in 1..MaxCycles, NEW s \in Reviewers, LoadAssign(q, m, s)
        PROVE  Goal
    <3>1. [NoRead EXCEPT !.status = paper] \in
            [text : Texts \cup {NoText}, edits : BOOLEAN, status : PaperStatus]
      BY <1>0 DEF ReviewTypeOK, NoRead
    <3>2. Begins(q, "assign", m, s, [NoRead EXCEPT !.status = paper])
      BY <2>1 DEF LoadAssign, Begins, Editing
    <3>3. QED
      BY <3>1, <3>2 DEF Operation
  <2>2. ASSUME NEW m \in 1..MaxCycles, NEW s \in Reviewers, LoadIntervention(q, m, s)
        PROVE  Goal
    <3>1. Begins(q, "intervene", m, s, NoRead)
      BY <2>2 DEF LoadIntervention, Begins, Editing
    <3>2. QED
      BY <1>1, <3>1 DEF Operation
  <2>3. CASE Assign(q)
    BY <2>3 DEF Assign
  <2>4. CASE Retire(q)
    BY <2>4 DEF Retire
  <2>5. ASSUME NEW s \in Reviewers, Replace(q, s)
        PROVE  Goal
    BY <2>5 DEF Replace
  <2>6. QED
    BY <1>3, <2>1, <2>2, <2>3, <2>4, <2>5 DEF OrganizerStep
<1>4. ASSUME NEW q \in Requests, AuthorStep(q) \/ ChairStep(q) \/ Abort(q)
      PROVE  Goal
  <2>1. ASSUME NEW m \in 1..MaxCycles, LoadRebuttal(q, m)
        PROVE  Goal
    <3>1. Begins(q, "rebut", m, NoReviewer, NoRead)
      BY <2>1 DEF LoadRebuttal, Begins, Editing
    <3>2. QED
      BY <1>1, <3>1 DEF Operation
  <2>2. ASSUME NEW m \in 1..MaxCycles, LoadDecision(q, m)
        PROVE  Goal
    <3>1. Begins(q, "decide", m, NoReviewer, NoRead)
      BY <2>2 DEF LoadDecision, Begins, Editing
    <3>2. QED
      BY <1>1, <3>1 DEF Operation
  <2>3. CASE LoadRevision(q)
    <3>1. Newest \in 1..MaxCycles
      BY <1>0, <2>3, BoundsAreNat DEF LoadRevision, Newest, ReviewTypeOK
    <3>2. Begins(q, "upload", Newest, NoReviewer, NoRead)
      BY <2>3, <3>1 DEF LoadRevision, Begins, Editing
    <3>3. QED
      BY <1>1, <3>1, <3>2 DEF Operation
  <2>4. CASE SubmitRebuttal(q)
    BY <2>4 DEF SubmitRebuttal, Editing
  <2>5. CASE UploadRevision(q)
    BY <2>5 DEF UploadRevision
  <2>6. CASE Abort(q)
    BY <2>6 DEF Abort
  <2>7. ASSUME NEW o \in Outcome, Decide(q, o)
        PROVE  Goal
    BY <2>7 DEF Decide
  <2>8. QED
    BY <1>4, <2>1, <2>2, <2>3, <2>4, <2>5, <2>6, <2>7 DEF AuthorStep, ChairStep
<1>5. ASSUME \/ EnsureOpenCycle \/ ScanRevision \/ Withdraw
             \/ \E r \in Reviewers : BotAssign(r)
             \/ \E n \in 1..MaxCycles : ReleaseReviews(n)
      PROVE  req' = req /\ fresh' = fresh
  BY <1>5 DEF EnsureOpenCycle, ScanRevision, Withdraw, BotAssign, ReleaseReviews
<1>6. QED
  BY <1>2, <1>3, <1>4, <1>5 DEF Next

\* The review is saved, published, or shown to the authors.
SavedBy(q, t, n, r) ==
  /\ Holds(q, "save", n, r) /\ Writes(q, n, r)
  /\ SaveMatches(q, rev[n][r])
  /\ rev'[n][r] = Saved(q, rev[n][r], t)

PublishedBy(q, n, r) ==
  /\ Holds(q, "submit", n, r) /\ Writes(q, n, r)
  /\ q \in fresh
  /\ rev'[n][r] = [rev[n][r] EXCEPT !.text = req[q].read.text,
                                    !.pending = NoText, !.submitted = TRUE]
  /\ asg'[n][r] = "COMPLETED"

Shown(n, r) ==
  /\ rev[n][r].submitted
  /\ rev'[n][r] = [rev[n][r] EXCEPT !.visible = TRUE]
  /\ n \in 1..Newest /\ cycles' = [cycles EXCEPT ![n].released = TRUE]

\* A review changes when it is saved, published or released, and in no other way.
LEMMA ReviewChanges ==
  ASSUME IInv, Next, NEW n \in 1..MaxCycles, NEW r \in Reviewers
  PROVE  \/ rev'[n][r] = rev[n][r]
         \/ \E q \in Requests, t \in Texts : SavedBy(q, t, n, r)
         \/ \E q \in Requests : PublishedBy(q, n, r)
         \/ Shown(n, r)
<1>0. ReviewTypeOK /\ rev \in [1..MaxCycles -> [Reviewers -> ReviewRow]]
  BY DEF IInv, ReviewTypeOK
<1>1. ASSUME NEW q \in Requests, ReviewerStep(q), rev'[n][r] # rev[n][r]
      PROVE  (\E t \in Texts : SavedBy(q, t, n, r)) \/ PublishedBy(q, n, r)
  <2>1. ASSUME NEW op \in {"save", "submit"}, NEW m \in 1..MaxCycles, NEW s \in Reviewers,
               LoadReview(q, op, m, s)
        PROVE  rev' = rev
    BY <2>1 DEF LoadReview, Load
  <2>2. ASSUME NEW t \in Texts, Save(q, t)
        PROVE  SavedBy(q, t, n, r)
    <3>1. req[q].n \in 1..MaxCycles /\ req[q].r \in Reviewers
      BY <1>0, <2>2, RequestType DEF IInv, RequestsTarget, Save, Editing
    <3>2. rev' = [rev EXCEPT ![req[q].n][req[q].r] = Saved(q, rev[req[q].n][req[q].r], t)]
      BY <2>2 DEF Save
    <3>3. req[q].n = n /\ req[q].r = r
      BY <1>0, <1>1, <3>1, <3>2
    <3>4. QED
      BY <1>0, <2>2, <3>2, <3>3 DEF Save, Holds, Writes, SavedBy
  <2>3. ASSUME Submit(q)
        PROVE  PublishedBy(q, n, r)
    <3>1. req[q].n \in 1..MaxCycles /\ req[q].r \in Reviewers
      BY <1>0, <2>3, RequestType DEF IInv, RequestsTarget, Submit, Editing
    <3>2. rev' = [rev EXCEPT ![req[q].n][req[q].r] =
                    [rev[req[q].n][req[q].r] EXCEPT !.text = req[q].read.text,
                       !.pending = NoText, !.submitted = TRUE]]
      BY <1>0, <2>3, <3>1 DEF Submit
    <3>3. req[q].n = n /\ req[q].r = r
      BY <1>0, <1>1, <3>1, <3>2
    <3> DEFINE w == [rev[n][r] EXCEPT !.text = req[q].read.text,
                                      !.pending = NoText, !.submitted = TRUE]
    <3>4. rev' = [rev EXCEPT ![n][r] = w]
      BY <3>2, <3>3
    <3> HIDE DEF w
    <3>5. rev'[n][r] = w
      BY <1>0, <3>4
    <3>6. Holds(q, "submit", n, r) /\ Writes(q, n, r) /\ q \in fresh
      BY <2>3, <3>3 DEF Submit, Holds, Writes
    <3>7. asg' = [asg EXCEPT ![n][r] = "COMPLETED"]
      BY <2>3, <3>3 DEF Submit
    <3>8. asg'[n][r] = "COMPLETED"
      BY <1>0, <3>7 DEF ReviewTypeOK
    <3>9. QED
      BY <3>5, <3>6, <3>8 DEF w, PublishedBy
  <2>4. ASSUME CheckReview(q)
        PROVE  rev' = rev
    BY <2>4 DEF CheckReview
  <2>5. QED
    BY <1>1, <2>1, <2>2, <2>3, <2>4 DEF ReviewerStep
<1>2. ASSUME NEW q \in Requests, OrganizerStep(q) \/ AuthorStep(q) \/ ChairStep(q) \/ Abort(q)
      PROVE  rev' = rev
  <2>1. CASE OrganizerStep(q)
    BY <2>1 DEF OrganizerStep, LoadAssign, Load, Assign, LoadIntervention,
                CheckIntervention, Retire, Replace
  <2>2. CASE AuthorStep(q) \/ ChairStep(q) \/ Abort(q)
    BY <2>2 DEF AuthorStep, LoadRebuttal, Load, SubmitRebuttal, LoadRevision,
                UploadRevision, ChairStep, LoadDecision, Decide, Abort
  <2>3. QED
    BY <1>2, <2>1, <2>2
<1>3. ASSUME NEW m \in 1..MaxCycles, ReleaseReviews(m), rev'[n][r] # rev[n][r]
      PROVE  Shown(n, r)
  <2>1. m = n
    BY <1>0, <1>3 DEF ReleaseReviews
  <2>2. rev'[n][r] = IF r \in Releasable(n) THEN [rev[n][r] EXCEPT !.visible = TRUE]
                                            ELSE rev[n][r]
    BY <1>0, <1>3, <2>1 DEF ReleaseReviews
  <2>3. QED
    BY <1>3, <2>1, <2>2 DEF ReleaseReviews, Releasable, Shown
<1>4. ASSUME EnsureOpenCycle \/ ScanRevision \/ Withdraw \/ \E s \in Reviewers : BotAssign(s)
      PROVE  rev' = rev
  BY <1>4 DEF EnsureOpenCycle, ScanRevision, Withdraw, BotAssign
<1>5. QED
  BY <1>1, <1>2, <1>3, <1>4 DEF Next

\* An assignment is made once, completed by its submission, replaced by the
\* intervention that holds the lock, and declined by the withdrawal.
LEMMA AssignmentChanges ==
  ASSUME IInv, Next, NEW n \in 1..MaxCycles, NEW r \in Reviewers
  PROVE  \/ asg'[n][r] = asg[n][r]
         \/ asg[n][r] = "NONE" /\ asg'[n][r] = "ASSIGNED"
         \/ asg[n][r] \notin {"NONE", "COMPLETED"} /\ asg'[n][r] = "DECLINED"
         \/ \E q \in Requests :
              /\ Holds(q, "submit", n, r) /\ Finish(q)
              /\ asg'[n][r] = "COMPLETED" /\ rev'[n][r].submitted
         \/ \E q \in Requests :
              /\ Holds(q, "intervene", n, r) /\ Finish(q)
              /\ asg'[n][r] = "REPLACED"
<1>0. /\ ReviewTypeOK
      /\ rev \in [1..MaxCycles -> [Reviewers -> ReviewRow]]
      /\ asg \in [1..MaxCycles -> [Reviewers -> AssignmentStatus]]
  BY DEF IInv, ReviewTypeOK
<1>1. ASSUME NEW q \in Requests, ReviewerStep(q), asg'[n][r] # asg[n][r]
      PROVE  /\ Holds(q, "submit", n, r) /\ Finish(q)
             /\ asg'[n][r] = "COMPLETED" /\ rev'[n][r].submitted
  <2>1. Submit(q)
    BY <1>1 DEF ReviewerStep, LoadReview, Load, CheckReview, Save
  <2>2. req[q].n \in 1..MaxCycles /\ req[q].r \in Reviewers
    BY <1>0, <2>1, RequestType DEF IInv, RequestsTarget, Submit, Editing
  <2>3. asg' = [asg EXCEPT ![req[q].n][req[q].r] = "COMPLETED"]
    BY <2>1 DEF Submit
  <2>4. req[q].n = n /\ req[q].r = r
    BY <1>0, <1>1, <2>2, <2>3
  <2>5. asg'[n][r] = "COMPLETED"
    BY <1>0, <2>3, <2>4
  <2>6. rev'[n][r].submitted
    <3>1. rev' = [rev EXCEPT ![n][r] =
                    [rev[n][r] EXCEPT !.text = req[q].read.text,
                       !.pending = NoText, !.submitted = TRUE]]
      BY ZenonT(60), <1>0, <2>1, <2>4 DEF Submit
    <3>2. rev[n][r] \in ReviewRow
      BY <1>0
    <3>3. QED
      BY <1>0, <3>1, <3>2 DEF ReviewRow
  <2>7. QED
    BY <2>1, <2>4, <2>5, <2>6 DEF Submit, Holds
<1>2. ASSUME NEW q \in Requests, OrganizerStep(q), asg'[n][r] # asg[n][r]
      PROVE  \/ asg[n][r] = "NONE" /\ asg'[n][r] = "ASSIGNED"
             \/ /\ Holds(q, "intervene", n, r) /\ Finish(q)
                /\ asg'[n][r] = "REPLACED"
  <2>1. CASE Assign(q)
    <3>1. asg' = [asg EXCEPT ![req[q].n][req[q].r] = "ASSIGNED"]
          /\ asg[req[q].n][req[q].r] = "NONE"
      BY <2>1 DEF Assign
    <3>2. QED
      BY <1>0, <1>2, <3>1
  <2>2. CASE Retire(q)
    <3>1. asg' = [asg EXCEPT ![req[q].n][req[q].r] = "REPLACED"]
      BY <2>2 DEF Retire
    <3>2. req[q].n = n /\ req[q].r = r /\ asg'[n][r] = "REPLACED"
      BY <1>0, <1>2, <3>1
    <3>3. QED
      BY <2>2, <3>2 DEF Retire, Holds
  <2>3. ASSUME NEW s \in Reviewers, Replace(q, s)
        PROVE  \/ asg[n][r] = "NONE" /\ asg'[n][r] = "ASSIGNED"
               \/ /\ Holds(q, "intervene", n, r) /\ Finish(q)
                  /\ asg'[n][r] = "REPLACED"
    <3>1. /\ asg' = [asg EXCEPT ![req[q].n][req[q].r] = "REPLACED",
                                ![req[q].n][s] = "ASSIGNED"]
          /\ asg[req[q].n][s] = "NONE"
      BY <2>3 DEF Replace
    <3>2. req[q].n \in 1..MaxCycles /\ req[q].r \in Reviewers
      BY <1>0, <2>3, RequestType DEF IInv, RequestsTarget, Replace, Editing
    <3>3. [asg EXCEPT ![req[q].n][req[q].r] = "REPLACED"]
            \in [1..MaxCycles -> [Reviewers -> AssignmentStatus]]
      BY <1>0, <3>2, EntryReplaced DEF AssignmentStatus
    <3>4. asg'[n][r] = IF n = req[q].n /\ r = s THEN "ASSIGNED"
                       ELSE IF n = req[q].n /\ r = req[q].r THEN "REPLACED"
                       ELSE asg[n][r]
      BY <1>0, <3>1, <3>2, <3>3, EntryReplaced DEF AssignmentStatus
    <3>5. QED
      BY <1>2, <2>3, <3>1, <3>4 DEF Replace, Holds
  <2>4. ASSUME \/ \E m \in 1..MaxCycles, s \in Reviewers : LoadAssign(q, m, s)
               \/ \E m \in 1..MaxCycles, s \in Reviewers : LoadIntervention(q, m, s)
               \/ CheckIntervention(q)
        PROVE  asg' = asg
    BY <2>4 DEF LoadAssign, Load, LoadIntervention, CheckIntervention
  <2>5. QED
    BY <1>2, <2>1, <2>2, <2>3, <2>4 DEF OrganizerStep
<1>3. ASSUME NEW q \in Requests, AuthorStep(q) \/ ChairStep(q) \/ Abort(q)
      PROVE  asg' = asg
  BY <1>3 DEF AuthorStep, LoadRebuttal, Load, SubmitRebuttal, LoadRevision,
              UploadRevision, ChairStep, LoadDecision, Decide, Abort
<1>4. ASSUME NEW s \in Reviewers, BotAssign(s), asg'[n][r] # asg[n][r]
      PROVE  asg[n][r] = "NONE" /\ asg'[n][r] = "ASSIGNED"
  <2> DEFINE m == Len(IF cycles = <<>> THEN <<NewCycle>> ELSE cycles)
  <2>1. asg[m][s] = "NONE" /\ asg' = [asg EXCEPT ![m][s] = "ASSIGNED"]
    BY <1>4 DEF BotAssign
  <2> HIDE DEF m
  <2>2. QED
    BY <1>0, <1>4, <2>1
<1>5. ASSUME Withdraw, asg'[n][r] # asg[n][r]
      PROVE  asg[n][r] \notin {"NONE", "COMPLETED"} /\ asg'[n][r] = "DECLINED"
  BY <1>0, <1>5 DEF Withdraw
<1>6. ASSUME EnsureOpenCycle \/ ScanRevision \/ \E m \in 1..MaxCycles : ReleaseReviews(m)
      PROVE  asg' = asg
  BY <1>6 DEF EnsureOpenCycle, ScanRevision, ReleaseReviews
<1>7. QED
  BY <1>1, <1>2, <1>3, <1>4, <1>5, <1>6 DEF Next

\* A cycle that exists is released, answered or decided; only its decision
\* needs the lock to be free, and only a cycle without decision gets either.
CycleStep(n) ==
  \/ cycles'[n] = cycles[n]
  \/ /\ cycles'[n] = [cycles[n] EXCEPT !.released = TRUE]
     /\ \E r \in Reviewers : rev'[n][r].visible
  \/ /\ cycles'[n] = [cycles[n] EXCEPT !.rebuttal = TRUE]
     /\ cycles[n].released /\ ~Decided(n)
  \/ /\ \E o \in Outcome : cycles'[n] = [cycles[n] EXCEPT !.outcome = o]
     /\ ~Decided(n) /\ LockFree(n)

\* A new cycle is the first one, or follows one that asked for a revision.
CycleOpened ==
  /\ Len(cycles') = Newest + 1
  /\ cycles'[Newest + 1] = NewCycle
  /\ \A n \in 1..Newest : cycles'[n] = cycles[n]
  /\ Newest = 0 \/ cycles[Newest].outcome = "REVISION"

\* Every step changes the cycles in these two ways only.
LEMMA CycleChanges ==
  ASSUME IInv, Next
  PROVE  \/ CycleOpened
         \/ Len(cycles') = Newest /\ \A n \in 1..Newest : CycleStep(n)
<1>0. /\ ReviewTypeOK /\ cycles \in Seq(CycleRow) /\ Newest = Len(cycles) /\ Newest \in Nat
      /\ rev \in [1..MaxCycles -> [Reviewers -> ReviewRow]]
  BY DEF IInv, ReviewTypeOK, Newest
<1>1. ASSUME cycles' = cycles
      PROVE  Len(cycles') = Newest /\ \A n \in 1..Newest : CycleStep(n)
  BY <1>0, <1>1 DEF CycleStep
<1>2. ASSUME EnsureOpenCycle
      PROVE  CycleOpened
  <2>1. Newest = 0 /\ cycles' = <<NewCycle>>
    BY <1>0, <1>2 DEF EnsureOpenCycle
  <2>2. QED
    BY <2>1 DEF CycleOpened
<1>3. ASSUME ScanRevision
      PROVE  CycleOpened
  <2>1. cycles' = Append(cycles, NewCycle) /\ cycles[Newest].outcome = "REVISION"
    BY <1>3 DEF ScanRevision, RevisionAsked
  <2>2. QED
    BY <1>0, <2>1 DEF CycleOpened
<1>4. ASSUME NEW r \in Reviewers, BotAssign(r)
      PROVE  CycleOpened \/ cycles' = cycles
  <2>1. CASE cycles = <<>>
    <3>1. Newest = 0 /\ cycles' = <<NewCycle>>
      BY <1>0, <1>4, <2>1 DEF BotAssign
    <3>2. QED
      BY <3>1 DEF CycleOpened
  <2>2. CASE cycles # <<>>
    BY <1>4, <2>2 DEF BotAssign
  <2>3. QED
    BY <2>1, <2>2
<1>5. ASSUME NEW m \in 1..MaxCycles, ReleaseReviews(m)
      PROVE  Len(cycles') = Newest /\ \A n \in 1..Newest : CycleStep(n)
  <2>1. m \in 1..Newest /\ cycles' = [cycles EXCEPT ![m].released = TRUE]
    BY <1>5 DEF ReleaseReviews
  <2>2. cycles'[m] = [cycles[m] EXCEPT !.released = TRUE]
    <3> DEFINE c == [cycles[m] EXCEPT !.released = TRUE]
    <3>1. cycles' = [cycles EXCEPT ![m] = c] /\ m \in DOMAIN cycles
      BY <1>0, <2>1
    <3> HIDE DEF c
    <3>2. cycles'[m] = c
      BY <1>0, <3>1
    <3>3. QED
      BY <3>2 DEF c
  <2>3. PICK r \in Reviewers : r \in Releasable(m)
    BY <1>5 DEF ReleaseReviews, Releasable
  <2>4. rev'[m][r] = [rev[m][r] EXCEPT !.visible = TRUE] /\ rev[m][r] \in ReviewRow
    BY <1>0, <1>5, <2>3 DEF ReleaseReviews
  <2>5. rev'[m][r].visible
    BY <2>4 DEF ReviewRow
  <2>6. CycleStep(m)
    BY <2>2, <2>5 DEF CycleStep
  <2>7. Len(cycles') = Newest /\ \A n \in 1..Newest : n # m => cycles'[n] = cycles[n]
    BY <1>0, <2>1
  <2>8. QED
    BY <2>6, <2>7 DEF CycleStep
<1>6. ASSUME NEW q \in Requests, SubmitRebuttal(q)
      PROVE  Len(cycles') = Newest /\ \A n \in 1..Newest : CycleStep(n)
  <2> DEFINE m == req[q].n
  <2>1. /\ m \in 1..Newest /\ cycles[m].released /\ ~Decided(m)
        /\ cycles' = [cycles EXCEPT ![m].rebuttal = TRUE]
    BY <1>6 DEF SubmitRebuttal, IInv, RequestsTarget
  <2> HIDE DEF m
  <2>2. cycles'[m] = [cycles[m] EXCEPT !.rebuttal = TRUE]
    <3> DEFINE c == [cycles[m] EXCEPT !.rebuttal = TRUE]
    <3>1. cycles' = [cycles EXCEPT ![m] = c] /\ m \in DOMAIN cycles
      BY <1>0, <2>1
    <3> HIDE DEF c
    <3>2. cycles'[m] = c
      BY <1>0, <3>1
    <3>3. QED
      BY <3>2 DEF c
  <2>3. CycleStep(m)
    BY <2>1, <2>2 DEF CycleStep
  <2>4. Len(cycles') = Newest /\ \A n \in 1..Newest : n # m => cycles'[n] = cycles[n]
    BY <1>0, <2>1
  <2>5. QED
    BY <2>3, <2>4 DEF CycleStep
<1>7. ASSUME NEW q \in Requests, NEW o \in Outcome, Decide(q, o)
      PROVE  Len(cycles') = Newest /\ \A n \in 1..Newest : CycleStep(n)
  <2> DEFINE m == req[q].n
  <2>1. /\ m \in 1..Newest /\ LockFree(m) /\ ~Decided(m)
        /\ cycles' = [cycles EXCEPT ![m].outcome = o]
    BY <1>7 DEF Decide, IInv, RequestsTarget
  <2> HIDE DEF m
  <2>2. cycles'[m] = [cycles[m] EXCEPT !.outcome = o]
    BY <1>0, <2>1
  <2>3. CycleStep(m)
    BY <2>1, <2>2 DEF CycleStep
  <2>4. Len(cycles') = Newest /\ \A n \in 1..Newest : n # m => cycles'[n] = cycles[n]
    BY <1>0, <2>1
  <2>5. QED
    BY <2>3, <2>4 DEF CycleStep
<1>8. ASSUME NEW q \in Requests, ReviewerStep(q) \/ OrganizerStep(q)
      PROVE  cycles' = cycles
  BY <1>8 DEF ReviewerStep, LoadReview, Load, CheckReview, Save, Submit, OrganizerStep,
              LoadAssign, Assign, LoadIntervention, CheckIntervention, Retire, Replace
<1>9. ASSUME NEW q \in Requests,
             \/ \E m \in 1..MaxCycles : LoadRebuttal(q, m) \/ LoadDecision(q, m)
             \/ LoadRevision(q) \/ UploadRevision(q) \/ Abort(q)
      PROVE  cycles' = cycles
  BY <1>9 DEF LoadRebuttal, Load, LoadDecision, LoadRevision, UploadRevision, Abort
<1>10. ASSUME Withdraw
       PROVE  cycles' = cycles
  BY <1>10 DEF Withdraw
<1>11. ASSUME NEW q \in Requests, AuthorStep(q) \/ ChairStep(q) \/ Abort(q)
       PROVE  \/ CycleOpened
              \/ Len(cycles') = Newest /\ \A n \in 1..Newest : CycleStep(n)
  BY <1>1, <1>6, <1>7, <1>9, <1>11 DEF AuthorStep, ChairStep
<1>12. QED
  BY <1>1, <1>2, <1>3, <1>4, <1>5, <1>8, <1>10, <1>11 DEF Next

\* A request begins, or passes its check.
Begun(p, op, n, r, read) ==
  /\ Begins(p, op, n, r, read)
  /\ req'[p] = [pc |-> "loaded", op |-> op, n |-> n, r |-> r, read |-> read]

Passed(p) ==
  /\ CheckReview(p) \/ CheckIntervention(p)
  /\ req'[p] = [req[p] EXCEPT !.pc = "checked"]

\* What a step makes of one request.
LEMMA OneRequest ==
  ASSUME IInv, Next, NEW p \in Requests
  PROVE  \/ req'[p] = req[p] /\ (p \in fresh' => p \in fresh)
         \/ req'[p] = Idle /\ p \notin fresh'
         \/ Passed(p)
         \/ \E op \in Operation, n \in 1..MaxCycles, r \in Reviewers \cup {NoReviewer},
               read \in [text : Texts \cup {NoText}, edits : BOOLEAN, status : PaperStatus] :
              Begun(p, op, n, r, read)
<1> DEFINE Goal ==
             \/ req'[p] = req[p] /\ (p \in fresh' => p \in fresh)
             \/ req'[p] = Idle /\ p \notin fresh'
             \/ Passed(p)
             \/ \E op \in Operation, n \in 1..MaxCycles, r \in Reviewers \cup {NoReviewer},
                   read \in [text : Texts \cup {NoText}, edits : BOOLEAN, status : PaperStatus] :
                  Begun(p, op, n, r, read)
<1>0. ReviewTypeOK /\ req \in [Requests -> RequestState]
  BY DEF IInv, ReviewTypeOK
<1>1. ASSUME NEW q \in Requests, Finish(q), fresh' \subseteq fresh,
             q \in fresh' => req[q].op \notin Editing
      PROVE  Goal
  <2>1. q \notin fresh'
    BY <1>1 DEF IInv, FreshReads
  <2>2. QED
    BY <1>0, <1>1, <2>1 DEF Finish
<1>2. ASSUME NEW q \in Requests, CheckReview(q) \/ CheckIntervention(q)
      PROVE  Goal
  <2>1. req' = [req EXCEPT ![q].pc = "checked"]
    BY <1>2 DEF CheckReview, CheckIntervention
  <2>2. req'[p] = req[p] \/ (p = q /\ req'[p] = [req[p] EXCEPT !.pc = "checked"])
    BY <1>0, <2>1
  <2>3. fresh' = fresh
    BY <1>2 DEF CheckReview, CheckIntervention
  <2>4. QED
    BY <1>2, <2>2, <2>3 DEF Passed
<1>3. ASSUME NEW q \in Requests, NEW op \in Operation, NEW n \in 1..MaxCycles,
             NEW r \in Reviewers \cup {NoReviewer},
             NEW read \in [text : Texts \cup {NoText}, edits : BOOLEAN, status : PaperStatus],
             Begins(q, op, n, r, read)
      PROVE  Goal
  <2>1. req' = [req EXCEPT ![q] =
                  [pc |-> "loaded", op |-> op, n |-> n, r |-> r, read |-> read]]
    BY <1>3 DEF Begins, Load
  <2>2. (p # q /\ req'[p] = req[p]) \/ (p = q /\ Begun(p, op, n, r, read))
    BY <1>0, <1>3, <2>1 DEF Begun
  <2>3. p # q => (p \in fresh' => p \in fresh)
    BY <1>3 DEF Begins, Load
  <2>4. QED
    BY <2>2, <2>3
<1>4. QED
  BY <1>1, <1>2, <1>3, RequestChanges

\* Newest is a count of cycles, before and after a step, and never decreases.
LEMMA NewestGrows ==
  ASSUME IInv, Next
  PROVE  /\ Newest \in Nat /\ Newest' \in Nat /\ Newest <= Newest'
         /\ \A n \in 1..Newest : n \in 1..Newest' /\ n \in 1..MaxCycles
<1>1. /\ cycles \in Seq(CycleRow) /\ Newest = Len(cycles) /\ Newest' = Len(cycles')
      /\ Len(cycles) <= MaxCycles /\ MaxCycles \in Nat
  BY BoundsAreNat DEF IInv, ReviewTypeOK, Newest
<1>2. Len(cycles') = Newest \/ Len(cycles') = Newest + 1
  BY CycleChanges DEF CycleOpened
<1>3. QED
  BY <1>1, <1>2

\* The fields of an idle request, and of one that passed its check.
LEMMA RequestFields ==
  ASSUME ReviewTypeOK, NEW q \in Requests
  PROVE  /\ Idle.pc = "idle"
         /\ [req[q] EXCEPT !.pc = "checked"].pc = "checked"
         /\ [req[q] EXCEPT !.pc = "checked"].op = req[q].op
         /\ [req[q] EXCEPT !.pc = "checked"].n = req[q].n
         /\ [req[q] EXCEPT !.pc = "checked"].r = req[q].r
         /\ [req[q] EXCEPT !.pc = "checked"].read = req[q].read
<1>1. req[q] \in RequestState
  BY DEF ReviewTypeOK
<1>2. QED
  BY <1>1 DEF RequestState, Idle

-----------------------------------------------------------------------------
(* The invariants about requests are preserved.                            *)

\* A request keeps working on a cycle that exists.
LEMMA TargetStep ==
  ASSUME IInv, Next
  PROVE  RequestsTarget'
<1> SUFFICES ASSUME NEW p \in Requests, req'[p].pc # "idle"
             PROVE  /\ req'[p].n \in 1..Newest'
                    /\ req'[p].op \in Editing \cup {"intervene", "assign"} =>
                         req'[p].r \in Reviewers
  BY DEF RequestsTarget
<1>0. ReviewTypeOK
  BY DEF IInv
<1>1. CASE req'[p] = req[p]
  BY <1>1, NewestGrows DEF IInv, RequestsTarget
<1>2. CASE req'[p] = Idle
  BY <1>2 DEF Idle
<1>3. ASSUME Passed(p)
      PROVE  /\ req'[p].n \in 1..Newest'
             /\ req'[p].op \in Editing \cup {"intervene", "assign"} =>
                  req'[p].r \in Reviewers
  <2>1. req[p].pc # "idle" /\ req'[p] = [req[p] EXCEPT !.pc = "checked"]
    BY <1>3 DEF Passed, CheckReview, CheckIntervention
  <2>2. QED
    BY <1>0, <2>1, NewestGrows, RequestFields DEF IInv, RequestsTarget
<1>4. ASSUME NEW op \in Operation, NEW n \in 1..MaxCycles, NEW r \in Reviewers \cup {NoReviewer},
             NEW read, Begun(p, op, n, r, read)
      PROVE  /\ req'[p].n \in 1..Newest'
             /\ req'[p].op \in Editing \cup {"intervene", "assign"} =>
                  req'[p].r \in Reviewers
  BY <1>4, NewestGrows DEF Begun, Begins
<1>5. QED
  BY <1>1, <1>2, <1>3, <1>4, OneRequest

\* Two requests never hold the lock of one cycle: a check waits for LockFree.
LEMMA HolderStep ==
  ASSUME IInv, Next
  PROVE  OneHolder'
<1>0. ReviewTypeOK /\ req \in [Requests -> RequestState] /\ OneHolder
  BY DEF IInv, ReviewTypeOK
<1>1. ASSUME NEW q \in Requests, Finish(q)
      PROVE  OneHolder'
  BY <1>0, <1>1 DEF Finish, Idle, OneHolder
<1>2. ASSUME NEW q \in Requests, CheckReview(q) \/ CheckIntervention(q)
      PROVE  OneHolder'
  <2>1. /\ req' = [req EXCEPT ![q].pc = "checked"]
        /\ req[q].op \in Locking
        /\ LockFree(req[q].n)
    BY <1>2 DEF CheckReview, CheckIntervention, Locking
  <2>2. \A p \in Requests : p # q => req'[p] = req[p]
    BY <1>0, <2>1
  <2>3. /\ req'[q].pc = "checked" /\ req'[q].op = req[q].op /\ req'[q].n = req[q].n
    BY <1>0, <2>1, RequestFields
  <2>4. \A p \in Requests : req[p].pc = "checked" => req[p].n # req[q].n
    BY <1>0, <2>1 DEF LockFree, OneHolder
  <2>5. QED
    BY <1>0, <2>1, <2>2, <2>3, <2>4 DEF OneHolder
<1>3. ASSUME NEW q \in Requests, NEW op, NEW n, NEW r, NEW read,
             Begins(q, op, n, r, read)
      PROVE  OneHolder'
  BY <1>0, <1>3 DEF Begins, Load, OneHolder
<1>4. QED
  BY <1>0, <1>1, <1>2, <1>3, RequestChanges DEF OneHolder

\* A review stays submitted and visible; it becomes submitted by the request
\* that holds its lock, which then ends.
LEMMA SubmissionsStay ==
  ASSUME IInv, Next, NEW n \in 1..MaxCycles, NEW r \in Reviewers
  PROVE  /\ rev[n][r] \in ReviewRow /\ rev'[n][r] \in ReviewRow
         /\ rev[n][r].submitted => rev'[n][r].submitted
         /\ rev[n][r].visible => rev'[n][r].visible
         /\ rev'[n][r].submitted /\ ~rev[n][r].submitted =>
              \E q \in Requests :
                Holds(q, "submit", n, r) /\ Finish(q) /\ asg'[n][r] = "COMPLETED"
<1>1. rev[n][r] \in ReviewRow /\ rev'[n][r] \in ReviewRow
  BY TypeStep DEF IInv, ReviewTypeOK
<1>2. ASSUME NEW q \in Requests, NEW t \in Texts, SavedBy(q, t, n, r)
      PROVE  /\ rev'[n][r].submitted <=> rev[n][r].submitted
             /\ rev'[n][r].visible <=> rev[n][r].visible
  BY <1>1, <1>2 DEF SavedBy, Saved, ReviewRow
<1>3. ASSUME NEW q \in Requests, PublishedBy(q, n, r)
      PROVE  /\ rev'[n][r].submitted
             /\ rev[n][r].visible => rev'[n][r].visible
             /\ Holds(q, "submit", n, r) /\ Finish(q) /\ asg'[n][r] = "COMPLETED"
  BY <1>1, <1>3 DEF PublishedBy, Writes, ReviewRow
<1>4. ASSUME Shown(n, r)
      PROVE  rev'[n][r].visible /\ (rev'[n][r].submitted <=> rev[n][r].submitted)
  BY <1>1, <1>4 DEF Shown, ReviewRow
<1>5. QED
  BY <1>1, <1>2, <1>3, <1>4, ReviewChanges

\* What was checked under the lock stays true until the holder writes.
LEMMA CheckedStep ==
  ASSUME IInv, Next
  PROVE  CheckedStillHolds'
<1> SUFFICES ASSUME NEW p \in Requests, req'[p].pc = "checked"
             PROVE  /\ req'[p].op \in Editing =>
                         /\ cycles'[req'[p].n].outcome = "NONE"
                         /\ asg'[req'[p].n][req'[p].r] # "REPLACED"
                    /\ req'[p].op = "intervene" => ~rev'[req'[p].n][req'[p].r].submitted
  BY DEF CheckedStillHolds, Decided
<1> DEFINE k == req[p].n
           w == req[p].r
<1>0. ReviewTypeOK /\ req \in [Requests -> RequestState]
  BY DEF IInv, ReviewTypeOK
<1>1. CASE Passed(p)
  <2>1. cycles' = cycles /\ asg' = asg /\ rev' = rev
        /\ req'[p] = [req[p] EXCEPT !.pc = "checked"]
    BY <1>1 DEF Passed, CheckReview, CheckIntervention
  <2>2. req'[p].op = req[p].op /\ req'[p].n = k /\ req'[p].r = w
    BY <1>0, <2>1, RequestFields
  <2>3. /\ req[p].op \in Editing => ~Decided(k) /\ asg[k][w] # "REPLACED"
        /\ req[p].op = "intervene" => ~rev[k][w].submitted
    BY <1>1 DEF Passed, CheckReview, CheckIntervention, Intervenable, Retired, Editing
  <2>4. QED
    BY <2>1, <2>2, <2>3 DEF Decided
<1>2. CASE req'[p] = req[p]
  <2>1. req[p].pc = "checked" /\ req[p].op \in Locking /\ k \in 1..Newest /\ k \in 1..MaxCycles
    BY <1>0, <1>2, NewestGrows DEF IInv, OneHolder, RequestsTarget
  <2>2. w \in Reviewers
    BY <2>1 DEF IInv, RequestsTarget, Locking, Editing
  <2>3. ASSUME NEW q \in Requests, NEW op, Holds(q, op, k, w), Finish(q)
        PROVE  FALSE
    <3>1. q = p
      BY <2>1, <2>3 DEF Holds, IInv, OneHolder
    <3>2. req'[p] = Idle
      BY <1>0, <2>3, <3>1 DEF Finish
    <3>3. QED
      BY <1>2, <2>1, <3>2 DEF Idle
  <2>4. req[p].op \in Editing => cycles'[k].outcome = "NONE"
    <3>1. ~LockFree(k)
      BY <2>1 DEF LockFree
    <3>2. cycles[k] \in CycleRow
      BY <1>0, <2>1, CycleType
    <3>3. cycles'[k].outcome = cycles[k].outcome
      BY <2>1, <3>1, <3>2, CycleChanges DEF CycleOpened, CycleStep, CycleRow
    <3>4. req[p].op \in Editing => ~Decided(k)
      BY <2>1 DEF IInv, CheckedStillHolds
    <3>5. QED
      BY <3>3, <3>4 DEF Decided
  <2>5. req[p].op \in Editing => asg'[k][w] # "REPLACED"
    BY <2>1, <2>2, <2>3, AssignmentChanges DEF IInv, CheckedStillHolds
  <2>6. req[p].op = "intervene" => ~rev'[k][w].submitted
    BY <2>1, <2>2, <2>3, SubmissionsStay DEF IInv, CheckedStillHolds
  <2>7. QED
    BY <1>2, <2>4, <2>5, <2>6 DEF Decided
<1>3. Passed(p) \/ req'[p] = req[p]
  <2>1. req'[p] # Idle
    BY DEF Idle
  <2>2. ASSUME NEW op, NEW m, NEW s, NEW read
        PROVE  ~Begun(p, op, m, s, read)
    BY DEF Begun
  <2>3. QED
    BY <2>1, <2>2, OneRequest
<1>4. QED
  BY <1>1, <1>2, <1>3

\* What a request read of a review stays true: nothing takes a submission back.
LEMMA ReadsStep ==
  ASSUME IInv, Next
  PROVE  ReadsHold'
<1> SUFFICES ASSUME NEW p \in Requests, req'[p].pc # "idle", req'[p].op \in Editing
             PROVE  /\ req'[p].read.edits => rev'[req'[p].n][req'[p].r].submitted
                    /\ req'[p].op = "submit" => req'[p].read.text # NoText
  BY DEF ReadsHold
<1>0. ReviewTypeOK
  BY DEF IInv
<1>1. ASSUME req[p].pc # "idle", req'[p].op = req[p].op, req'[p].n = req[p].n,
             req'[p].r = req[p].r, req'[p].read = req[p].read
      PROVE  /\ req'[p].read.edits => rev'[req'[p].n][req'[p].r].submitted
             /\ req'[p].op = "submit" => req'[p].read.text # NoText
  <2>1. req[p].n \in 1..MaxCycles /\ req[p].r \in Reviewers
    BY <1>1, NewestGrows DEF IInv, RequestsTarget
  <2>2. /\ req[p].read.edits => rev[req[p].n][req[p].r].submitted
        /\ req[p].op = "submit" => req[p].read.text # NoText
    BY <1>1 DEF IInv, ReadsHold
  <2>3. QED
    BY <1>1, <2>1, <2>2, SubmissionsStay
<1>2. CASE req'[p] = req[p]
  BY <1>1, <1>2
<1>3. CASE Passed(p)
  BY <1>0, <1>1, <1>3, RequestFields DEF Passed, CheckReview, CheckIntervention
<1>4. ASSUME NEW op \in Operation, NEW n \in 1..MaxCycles, NEW r \in Reviewers \cup {NoReviewer},
             NEW read, Begun(p, op, n, r, read)
      PROVE  /\ req'[p].read.edits => rev'[req'[p].n][req'[p].r].submitted
             /\ req'[p].op = "submit" => req'[p].read.text # NoText
  <2>1. op \in Editing /\ r \in Reviewers /\ read = ReadOf(rev[n][r]) /\ rev' = rev
    BY <1>4 DEF Begun, Begins, Load
  <2>2. rev[n][r] \in ReviewRow
    BY <2>1, SubmissionsStay
  <2>3. op = "submit" => Written(rev[n][r])
    BY <1>4 DEF Begun, Begins
  <2>4. QED
    BY <1>4, <2>1, <2>2, <2>3, OwnerViewType DEF Begun
<1>5. QED
  <2>1. req'[p] # Idle
    BY DEF Idle
  <2>2. QED
    BY <1>2, <1>3, <1>4, <2>1, OneRequest

\* Whoever writes a review takes the version away from every other editor, so a
\* request whose version is current still knows what the review says.
LEMMA FreshStep ==
  ASSUME IInv, Next
  PROVE  FreshReads'
<1> SUFFICES ASSUME NEW p \in fresh'
             PROVE  /\ req'[p].pc # "idle" /\ req'[p].op \in Editing
                    /\ req'[p].read.text = OwnerView(rev'[req'[p].n][req'[p].r])
                    /\ req'[p].read.edits = rev'[req'[p].n][req'[p].r].submitted
  BY DEF FreshReads, OwnerView
<1>0. ReviewTypeOK /\ p \in Requests
  BY TypeStep DEF IInv, ReviewTypeOK
<1>1. ASSUME p \in fresh, req'[p].op = req[p].op, req'[p].n = req[p].n, req'[p].r = req[p].r,
             req'[p].read = req[p].read, req'[p].pc # "idle"
      PROVE  /\ req'[p].pc # "idle" /\ req'[p].op \in Editing
             /\ req'[p].read.text = OwnerView(rev'[req'[p].n][req'[p].r])
             /\ req'[p].read.edits = rev'[req'[p].n][req'[p].r].submitted
  <2> DEFINE k == req[p].n
             w == req[p].r
  <2>1. /\ req[p].op \in Editing /\ req[p].pc # "idle"
        /\ req[p].read.text = OwnerView(rev[k][w])
        /\ req[p].read.edits = rev[k][w].submitted
    BY <1>1 DEF IInv, FreshReads
  <2>2. k \in 1..MaxCycles /\ w \in Reviewers
    BY <1>0, <2>1, NewestGrows DEF IInv, RequestsTarget
  <2>3. p \in EditorsOf(k, w)
    BY <1>0, <2>1 DEF EditorsOf, Editing
  <2>4. rev[k][w] \in ReviewRow
    BY <2>2, SubmissionsStay
  <2>5. OwnerView(rev'[k][w]) = OwnerView(rev[k][w])
        /\ rev'[k][w].submitted = rev[k][w].submitted
    <3>1. rev'[k][w] = rev[k][w] \/ Shown(k, w)
      BY <2>2, <2>3, ReviewChanges DEF SavedBy, PublishedBy, Writes
    <3>2. CASE Shown(k, w)
      <4>1. rev'[k][w].text = rev[k][w].text /\ rev'[k][w].pending = rev[k][w].pending
            /\ rev'[k][w].submitted = rev[k][w].submitted
        BY <2>4, <3>2 DEF Shown, ReviewRow
      <4>2. QED
        BY <4>1 DEF OwnerView
    <3>3. QED
      BY <3>1, <3>2
  <2>6. QED
    BY <1>1, <2>1, <2>5
<1>2. CASE req'[p] = req[p] /\ p \in fresh
  <2>1. req[p].pc # "idle"
    BY <1>2 DEF IInv, FreshReads
  <2>2. QED
    BY <1>1, <1>2, <2>1
<1>3. CASE Passed(p)
  <2>1. fresh' = fresh
    BY <1>3 DEF Passed, CheckReview, CheckIntervention
  <2>2. QED
    BY <1>0, <1>1, <1>3, <2>1, RequestFields DEF Passed
<1>4. ASSUME NEW op \in Operation, NEW n \in 1..MaxCycles, NEW r \in Reviewers \cup {NoReviewer},
             NEW read, Begun(p, op, n, r, read)
      PROVE  /\ req'[p].pc # "idle" /\ req'[p].op \in Editing
             /\ req'[p].read.text = OwnerView(rev'[req'[p].n][req'[p].r])
             /\ req'[p].read.edits = rev'[req'[p].n][req'[p].r].submitted
  <2>1. op \in Editing
    BY <1>4 DEF Begun, Begins, Load, Editing, IInv, FreshReads
  <2>2. r \in Reviewers /\ read = ReadOf(rev[n][r]) /\ rev' = rev
    BY <1>4, <2>1 DEF Begun, Begins, Load
  <2>3. rev[n][r] \in ReviewRow
    BY <2>2, SubmissionsStay
  <2>4. QED
    BY <1>4, <2>1, <2>2, <2>3, OwnerViewType DEF Begun
<1>5. QED
  BY <1>0, <1>2, <1>3, <1>4, OneRequest

-----------------------------------------------------------------------------
(* The invariants about reviews and cycles are preserved.                  *)

\* Submission and completion go together, and nothing undoes either.
LEMMA CompletedStep ==
  ASSUME IInv, Next
  PROVE  CompletedAgrees'
<1> SUFFICES ASSUME NEW n \in 1..MaxCycles, NEW r \in Reviewers
             PROVE  rev'[n][r].submitted <=> asg'[n][r] = "COMPLETED"
  BY DEF CompletedAgrees
<1>1. rev[n][r].submitted <=> asg[n][r] = "COMPLETED"
  BY DEF IInv, CompletedAgrees
<1>2. ASSUME rev'[n][r].submitted
      PROVE  asg'[n][r] = "COMPLETED"
  <2>1. CASE ~rev[n][r].submitted
    BY <1>2, <2>1, SubmissionsStay
  <2>2. CASE rev[n][r].submitted
    <3>1. ~ \E q \in Requests : Holds(q, "intervene", n, r)
      BY <2>2 DEF Holds, IInv, CheckedStillHolds
    <3>2. QED
      BY <1>1, <2>2, <3>1, AssignmentChanges
  <2>3. QED
    BY <2>1, <2>2
<1>3. ASSUME asg'[n][r] = "COMPLETED"
      PROVE  rev'[n][r].submitted
  BY <1>1, <1>3, AssignmentChanges, SubmissionsStay
<1>4. QED
  BY <1>2, <1>3

\* The fields of a cycle that a step changes.
LEMMA CycleStepFields ==
  ASSUME IInv, NEW n \in 1..Newest, CycleStep(n)
  PROVE  /\ cycles[n].released => cycles'[n].released
         /\ cycles'[n].released =>
              cycles[n].released \/ \E r \in Reviewers : rev'[n][r].visible
         /\ cycles'[n].rebuttal # cycles[n].rebuttal => cycles[n].released /\ ~Decided(n)
         /\ cycles'[n].outcome # cycles[n].outcome => ~Decided(n) /\ LockFree(n)
<1>1. cycles[n] \in CycleRow
  BY CycleType DEF IInv
<1>2. QED
  BY <1>1 DEF CycleStep, CycleRow

\* A cycle that is released shows the authors some review.
LEMMA ReleaseStep ==
  ASSUME IInv, Next
  PROVE  ReleaseShows'
<1> SUFFICES ASSUME NEW n \in 1..Newest', cycles'[n].released
             PROVE  \E r \in Reviewers : rev'[n][r].visible
  BY DEF ReleaseShows
<1>1. CASE n \in 1..Newest
  <2>1. cycles[n].released => \E r \in Reviewers : rev[n][r].visible
    BY <1>1 DEF IInv, ReleaseShows
  <2>2. n \in 1..MaxCycles
    BY <1>1, NewestGrows
  <2>3. cycles[n].released => \E r \in Reviewers : rev'[n][r].visible
    BY <2>1, <2>2, SubmissionsStay
  <2>4. cycles'[n] = cycles[n] \/ CycleStep(n)
    BY <1>1, CycleChanges DEF CycleOpened
  <2>5. QED
    BY <1>1, <2>3, <2>4, CycleStepFields
<1>2. CASE n \notin 1..Newest
  <2>1. n = Newest + 1 /\ cycles'[n] = NewCycle
    BY <1>2, NewestGrows, CycleChanges DEF CycleOpened, Newest
  <2>2. QED
    BY <2>1 DEF NewCycle
<1>3. QED
  BY <1>1, <1>2

\* Authors keep seeing submitted reviews of released cycles only.
LEMMA VisibleStep ==
  ASSUME IInv, Next
  PROVE  AuthorsSeeReleased'
<1> SUFFICES ASSUME NEW n \in 1..MaxCycles
             PROVE  /\ \A r \in Reviewers : rev'[n][r].visible =>
                         rev'[n][r].submitted /\ n <= Newest' /\ cycles'[n].released
                    /\ n <= Newest' /\ cycles'[n].rebuttal =>
                         \E r \in Reviewers : rev'[n][r].visible
  BY DEF AuthorsSeeReleased
<1>0. ReviewTypeOK
  BY DEF IInv
<1>1. ASSUME n <= Newest
      PROVE  n \in 1..Newest /\ n <= Newest' /\ (cycles'[n] = cycles[n] \/ CycleStep(n))
  BY <1>1, NewestGrows, CycleChanges DEF CycleOpened
<1>2. ASSUME NEW r \in Reviewers, rev'[n][r].visible
      PROVE  rev'[n][r].submitted /\ n <= Newest' /\ cycles'[n].released
  <2>1. CASE rev[n][r].visible
    <3>1. rev[n][r].submitted /\ n <= Newest /\ cycles[n].released
      BY <2>1 DEF IInv, AuthorsSeeReleased
    <3>2. QED
      BY <1>1, <3>1, CycleStepFields, SubmissionsStay
  <2>2. CASE ~rev[n][r].visible
    <3>0. rev[n][r] \in ReviewRow
      BY SubmissionsStay
    <3>1. ASSUME NEW q \in Requests, NEW t \in Texts, SavedBy(q, t, n, r)
          PROVE  FALSE
      BY <1>2, <2>2, <3>0, <3>1 DEF SavedBy, Saved, ReviewRow
    <3>2. ASSUME NEW q \in Requests, PublishedBy(q, n, r)
          PROVE  FALSE
      BY <1>2, <2>2, <3>0, <3>2 DEF PublishedBy, ReviewRow
    <3>3. Shown(n, r)
      BY <1>2, <2>2, <3>1, <3>2, ReviewChanges
    <3>4. cycles \in Seq(CycleRow) /\ n \in 1..Len(cycles)
      BY <1>0, <3>3 DEF Shown, Newest, ReviewTypeOK
    <3>5. cycles[n] \in CycleRow
      BY <3>4
    <3>6. cycles'[n].released
      BY <3>3, <3>4, <3>5 DEF Shown, CycleRow
    <3>7. QED
      BY <1>1, <3>3, <3>6, SubmissionsStay, NewestGrows DEF Shown
  <2>3. QED
    BY <2>1, <2>2
<1>3. ASSUME n <= Newest', cycles'[n].rebuttal
      PROVE  \E r \in Reviewers : rev'[n][r].visible
  <2>1. CASE n <= Newest
    <3>1. cycles[n].rebuttal \/ cycles[n].released
      BY <1>1, <1>3, <2>1, CycleStepFields
    <3>2. \E r \in Reviewers : rev[n][r].visible
      BY <1>1, <2>1, <3>1 DEF IInv, AuthorsSeeReleased, ReleaseShows
    <3>3. QED
      BY <3>2, SubmissionsStay
  <2>2. CASE ~(n <= Newest)
    <3>1. n = Newest + 1 /\ cycles'[n] = NewCycle
      BY <1>3, <2>2, NewestGrows, CycleChanges DEF CycleOpened, Newest
    <3>2. QED
      BY <1>3, <3>1 DEF NewCycle
  <2>3. QED
    BY <2>1, <2>2
<1>4. QED
  BY <1>2, <1>3

\* A new cycle follows a request for a revision only, and no decision is revised.
LEMMA NewestOpenStep ==
  ASSUME IInv, Next
  PROVE  OnlyNewestCycleOpen'
<1> SUFFICES ASSUME NEW n \in 1..(Newest' - 1)
             PROVE  cycles'[n].outcome = "REVISION"
  BY DEF OnlyNewestCycleOpen
<1>1. CASE CycleOpened
  <2>1. n \in 1..Newest /\ Newest \in Nat
    BY <1>1, NewestGrows DEF CycleOpened, Newest
  <2>2. cycles[n].outcome = "REVISION"
    BY <1>1, <2>1 DEF CycleOpened, IInv, OnlyNewestCycleOpen
  <2>3. QED
    BY <1>1, <2>1, <2>2 DEF CycleOpened
<1>2. CASE Len(cycles') = Newest /\ \A m \in 1..Newest : CycleStep(m)
  <2>1. n \in 1..Newest /\ n \in 1..(Newest - 1)
    BY <1>2, NewestGrows DEF Newest
  <2>2. cycles[n].outcome = "REVISION"
    BY <2>1 DEF IInv, OnlyNewestCycleOpen
  <2>3. QED
    BY <1>2, <2>1, <2>2, CycleStepFields DEF Decided
<1>3. QED
  BY <1>1, <1>2, CycleChanges

-----------------------------------------------------------------------------
(* The theorems.                                                           *)

\* A paper that was just submitted satisfies the invariant.
LEMMA InvInit == Init => IInv
<1> SUFFICES ASSUME Init PROVE IInv
  OBVIOUS
<1>1. NoReview \in ReviewRow /\ Newest = 0
  BY DEF Init, NoReview, ReviewRow, Written, Newest
<1>2. Idle \in RequestState
  BY BoundsAreNat DEF Idle, NoRead, RequestState, Operation, PaperStatus
<1>3. ReviewTypeOK
  BY <1>1, <1>2, BoundsAreNat DEF Init, ReviewTypeOK, PaperStatus, AssignmentStatus
<1>4. RequestsTarget /\ OneHolder /\ CheckedStillHolds /\ ReadsHold /\ FreshReads
  BY DEF Init, Idle, RequestsTarget, OneHolder, CheckedStillHolds, ReadsHold, FreshReads
<1>5. CompletedAgrees
  BY DEF Init, NoReview, CompletedAgrees
<1>6. AuthorsSeeReleased /\ ReleaseShows /\ OnlyNewestCycleOpen
  BY <1>1 DEF Init, NoReview, AuthorsSeeReleased, ReleaseShows, OnlyNewestCycleOpen
<1>7. QED
  BY <1>3, <1>4, <1>5, <1>6 DEF IInv

\* Every step preserves the invariant.
LEMMA InvStep == IInv /\ [Next]_reviewVars => IInv'
<1> SUFFICES ASSUME IInv, [Next]_reviewVars PROVE IInv'
  OBVIOUS
<1>1. CASE Next
  BY <1>1, TypeStep, TargetStep, HolderStep, CheckedStep, ReadsStep, FreshStep,
     CompletedStep, ReleaseStep, VisibleStep, NewestOpenStep DEF IInv
<1>2. CASE UNCHANGED reviewVars
  <2>1. ReviewTypeOK'
    BY <1>2, TypeStep
  <2>2. /\ RequestsTarget' /\ OneHolder' /\ CheckedStillHolds' /\ ReadsHold'
        /\ FreshReads' /\ CompletedAgrees'
    BY <1>2 DEF reviewVars, IInv, RequestsTarget, OneHolder, CheckedStillHolds, ReadsHold,
                FreshReads, CompletedAgrees, Newest, Decided
  <2>3. ReleaseShows' /\ AuthorsSeeReleased' /\ OnlyNewestCycleOpen'
    BY <1>2 DEF reviewVars, IInv, ReleaseShows, AuthorsSeeReleased, OnlyNewestCycleOpen,
                Newest
  <2>4. QED
    BY <2>1, <2>2, <2>3 DEF IInv
<1>3. QED
  BY <1>1, <1>2

\* The invariant holds in every reachable state.
THEOREM ReviewInvariance == ReviewSpec => []IInv
  BY InvInit, InvStep, PTL DEF ReviewSpec

\* A review counts exactly if its assignment is COMPLETED, whatever submissions
\* (submitReview), interventions (applyIntervention) and withdrawals interleave.
THEOREM SubmittedIsAlwaysCompleted == ReviewSpec => []SubmittedIsCompleted
<1>1. IInv => SubmittedIsCompleted
  BY DEF IInv, CompletedAgrees, SubmittedIsCompleted
<1>2. QED
  BY <1>1, ReviewInvariance, PTL

\* Authors see submitted reviews of released cycles, and answer none they have
\* not seen (releaseReviews, submitRebuttal).
THEOREM AuthorsOnlySeeReleased == ReviewSpec => []AuthorsSeeReleased
<1>1. IInv => AuthorsSeeReleased
  BY DEF IInv
<1>2. QED
  BY <1>1, ReviewInvariance, PTL

\* A cycle is opened after a request for a revision only (openRevisionCycle),
\* however often the scan of a revision runs.
THEOREM OneCycleIsOpen == ReviewSpec => []OnlyNewestCycleOpen
<1>1. IInv => OnlyNewestCycleOpen
  BY DEF IInv
<1>2. QED
  BY <1>1, ReviewInvariance, PTL

\* After its decision a cycle keeps its rebuttal and what its reviews say: every
\* writer looks for the decision under the lock that the decision waits for.
THEOREM DecidedCyclesAreFrozen == ReviewSpec => DecidedCycleIsFrozen
<1> DEFINE Frozen(n) == Decided(n) =>
             /\ cycles'[n].rebuttal = cycles[n].rebuttal
             /\ \A r \in Reviewers : rev'[n][r] # rev[n][r] =>
                  rev'[n][r] = [rev[n][r] EXCEPT !.visible = TRUE]
<1>1. ASSUME IInv, Next, NEW n \in 1..Newest, Decided(n)
      PROVE  /\ cycles'[n].rebuttal = cycles[n].rebuttal
             /\ \A r \in Reviewers : rev'[n][r] # rev[n][r] =>
                  rev'[n][r] = [rev[n][r] EXCEPT !.visible = TRUE]
  <2>1. n \in 1..MaxCycles
    BY <1>1, NewestGrows
  <2>2. cycles'[n] = cycles[n] \/ CycleStep(n)
    BY <1>1, CycleChanges DEF CycleOpened
  <2>3. cycles'[n].rebuttal = cycles[n].rebuttal
    BY <1>1, <2>2, CycleStepFields
  <2>4. ASSUME NEW r \in Reviewers, rev'[n][r] # rev[n][r]
        PROVE  rev'[n][r] = [rev[n][r] EXCEPT !.visible = TRUE]
    <3>1. ~ \E q \in Requests : Holds(q, "save", n, r) \/ Holds(q, "submit", n, r)
      BY <1>1 DEF Holds, IInv, CheckedStillHolds, Editing
    <3>2. Shown(n, r)
      BY <1>1, <2>1, <2>4, <3>1, ReviewChanges DEF SavedBy, PublishedBy
    <3>3. QED
      BY <3>2 DEF Shown
  <2>5. QED
    BY <2>3, <2>4
<1>2. IInv /\ [Next]_reviewVars => [\A n \in 1..Newest : Frozen(n)]_reviewVars
  BY <1>1
<1>3. QED
  BY <1>2, ReviewInvariance, PTL DEF ReviewSpec, DecidedCycleIsFrozen

\* A reviewer who was replaced changes nothing any more, from whatever page: the
\* intervention and the writers of the review exclude each other by the lock.
THEOREM ReplacedReviewersStayOut == ReviewSpec => ReplacedStaysOut
<1> DEFINE Kept == \A n \in 1..MaxCycles, r \in Reviewers :
             asg[n][r] = "REPLACED" => rev'[n][r] = rev[n][r]
<1>1. ASSUME IInv, Next, NEW n \in 1..MaxCycles, NEW r \in Reviewers, asg[n][r] = "REPLACED"
      PROVE  rev'[n][r] = rev[n][r]
  <2>1. ~ \E q \in Requests : Holds(q, "save", n, r) \/ Holds(q, "submit", n, r)
    BY <1>1 DEF Holds, IInv, CheckedStillHolds, Editing
  <2>2. ~rev[n][r].submitted
    BY <1>1 DEF IInv, CompletedAgrees
  <2>3. QED
    BY <1>1, <2>1, <2>2, ReviewChanges DEF SavedBy, PublishedBy, Shown
<1>2. IInv /\ [Next]_reviewVars => [Kept]_reviewVars
  BY <1>1
<1>3. QED
  BY <1>2, ReviewInvariance, PTL DEF ReviewSpec, ReplacedStaysOut

\* What a submitted review says changes by publishing what was saved last: a
\* version that is still current vouches for the text that the request read.
THEOREM LatestSaveIsPublished == ReviewSpec => PublishesLatestSave
<1> DEFINE Latest(n, r) ==
             (rev'[n][r].submitted /\ (~rev[n][r].submitted \/ rev'[n][r].text # rev[n][r].text))
               => rev'[n][r].text = (IF rev[n][r].pending # NoText THEN rev[n][r].pending
                                                                   ELSE rev[n][r].text)
<1>1. ASSUME IInv, Next, NEW n \in 1..MaxCycles, NEW r \in Reviewers
      PROVE  Latest(n, r)
  <2>1. rev[n][r] \in ReviewRow
    BY <1>1, SubmissionsStay
  <2>2. CASE rev'[n][r] = rev[n][r]
    BY <2>2
  <2>3. ASSUME NEW q \in Requests, NEW t \in Texts, SavedBy(q, t, n, r)
        PROVE  Latest(n, r)
    <3>1. CASE q \in fresh
      <4>1. req[q].read.edits = rev[n][r].submitted
        BY <1>1, <2>3, <3>1 DEF IInv, FreshReads, SavedBy, Holds
      <4>2. QED
        BY <2>1, <2>3, <4>1 DEF SavedBy, Saved, ReviewRow
    <3>2. CASE ~Written(rev[n][r])
      <4>1. ~rev[n][r].submitted
        BY <2>1, <3>2 DEF ReviewRow
      <4>2. ~req[q].read.edits
        BY <1>1, <2>3, <4>1 DEF IInv, ReadsHold, SavedBy, Holds, Editing
      <4>3. QED
        BY <2>1, <2>3, <4>1, <4>2 DEF SavedBy, Saved, ReviewRow
    <3>3. QED
      BY <2>3, <3>1, <3>2 DEF SavedBy, SaveMatches
  <2>4. ASSUME NEW q \in Requests, PublishedBy(q, n, r)
        PROVE  Latest(n, r)
    <3>1. req[q].read.text = OwnerView(rev[n][r])
      BY <1>1, <2>4 DEF IInv, FreshReads, PublishedBy, Holds
    <3>2. rev'[n][r].text = req[q].read.text
      BY <2>1, <2>4 DEF PublishedBy, ReviewRow
    <3>3. QED
      BY <2>1, <3>1, <3>2 DEF OwnerView, ReviewRow
  <2>5. CASE Shown(n, r)
    BY <2>1, <2>5 DEF Shown, ReviewRow
  <2>6. QED
    BY <1>1, <2>2, <2>3, <2>4, <2>5, ReviewChanges
<1>2. IInv /\ [Next]_reviewVars =>
        [\A n \in 1..MaxCycles, r \in Reviewers : Latest(n, r)]_reviewVars
  BY <1>1
<1>3. QED
  BY <1>2, ReviewInvariance, PTL DEF ReviewSpec, PublishesLatestSave

=============================================================================
