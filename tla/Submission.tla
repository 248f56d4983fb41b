------------------------------ MODULE Submission ------------------------------
(***************************************************************************)
(* Submission to one conference: drafts, their authors, uploaded PDFs and  *)
(* the virus scan, submission with a number, deletion and withdrawal, the  *)
(* limit of papers per corresponding author and the call for papers.       *)
(*                                                                         *)
(* A request reads the paper in a transaction of its own (Load...).  The   *)
(* transaction that writes first locks the conference FOR SHARE, which a   *)
(* change of the call for papers waits for.  create and submit then take   *)
(* an advisory lock per person, count (Count...), and write; both locks    *)
(* are held in between.  Every other writing transaction is one step, and  *)
(* the two transactions in which submit reads are one.                     *)
(*                                                                         *)
(* Left out: titles, tracks, affiliations and the order of authors; the    *)
(* presigned upload that precedes Finalize; the clock, which closes a call *)
(* by its date as an organizer does by hand, but without waiting; review   *)
(* and camera-ready statuses, SUBMITTED standing for all of them.          *)
(***************************************************************************)
EXTENDS Integers, Sequences, FiniteSets

CONSTANTS
  Users,       \* people with an account
  External,    \* people named as authors by their address only
  Papers,      \* papers that may be created (a bound)
  Requests,    \* requests in flight
  Numbers,     \* submission numbers
  NoNumber,
  NoOne,
  Limit,       \* MAX_CORRESPONDING_PAPERS
  MaxVersions  \* bound on uploaded PDFs

People == Users \cup External

ASSUME PeopleAreDistinct == Users \cap External = {} /\ NoOne \notin People
ASSUME NumberIsNoNull    == NoNumber \notin Numbers
ASSUME PapersAreFinite   == IsFiniteSet(Papers) /\ Papers # {}
ASSUME SubmissionBounds  == Limit \in Nat \ {0} /\ MaxVersions \in Nat

VARIABLES
  cfpOpen,   \* the call for papers is open
  papers,    \* papers; handed: the corresponding author was ever replaced
  versions,  \* PDFs uploaded so far: paper, verdict of the scanner, scanStatus
  req        \* phase and reads of each request

submissionVars == <<cfpOpen, papers, versions, req>>

NoPaper == [status |-> "NONE", number |-> NoNumber, authors |-> {},
            corresponding |-> NoOne, current |-> 0, handed |-> FALSE]
IdleReq == [pc |-> "idle", op |-> "create", paper |-> CHOOSE p \in Papers : TRUE,
            by |-> NoOne, person |-> NoOne]

Init ==
  /\ cfpOpen = TRUE
  /\ papers = [p \in Papers |-> NoPaper]
  /\ versions = <<>>
  /\ req = [q \in Requests |-> IdleReq]

Exists(p) == papers[p].status \notin {"NONE", "DELETED"}
Drafts == {p \in Papers : papers[p].status = "DRAFT"}
Submitted == {p \in Papers : papers[p].status = "SUBMITTED"}
VersionsOf(p) == {v \in DOMAIN versions : versions[v].paper = p}
Newest(p) == CHOOSE v \in VersionsOf(p) : \A w \in VersionsOf(p) : w <= v

Load(q, op, p, by, person) ==
  /\ req[q].pc = "idle"
  /\ req' = [req EXCEPT ![q] =
       [pc |-> "loaded", op |-> op, paper |-> p, by |-> by, person |-> person]]
  /\ UNCHANGED <<cfpOpen, papers, versions>>

Finish(q) == req' = [req EXCEPT ![q] = IdleReq]

\* A refused request rolls back; so does one whose process stops.
Abort(q) ==
  /\ req[q].pc # "idle"
  /\ Finish(q)
  /\ UNCHANGED <<cfpOpen, papers, versions>>

-----------------------------------------------------------------------------
(* Locks.                                                                  *)

\* Faulty variant: the call for papers is looked at when the request arrives.
CfpAsRead == TRUE

\* lockOpenCfp
CfpStillOpen == cfpOpen

\* Whose advisory lock a request takes: the corresponding author's, or that
\* of the submitter if the corresponding author has no account.
LockOf(q) == IF req[q].person \in Users THEN req[q].person ELSE req[q].by

\* Faulty variant: the papers are counted without the lock.
NotLocked(q) == TRUE

LockFree(q) == \A o \in Requests : ~(req[o].pc = "counted" /\ LockOf(o) = LockOf(q))

\* lockedCorrespondingCount
CountOf(q, among) ==
  Cardinality({p \in among : papers[p].corresponding \in {LockOf(q), req[q].person}})

Count(q, among) ==
  /\ CfpStillOpen
  /\ LockFree(q)
  /\ CountOf(q, among) < Limit
  /\ req' = [req EXCEPT ![q].pc = "counted"]
  /\ UNCHANGED <<cfpOpen, papers, versions>>

-----------------------------------------------------------------------------
(* create, authorships.                                                    *)

LoadCreate(q, u) ==
  /\ cfpOpen
  /\ Load(q, "create", IdleReq.paper, u, u)

CountOpen(q) ==
  /\ req[q].pc = "loaded" /\ req[q].op = "create"
  /\ Count(q, Drafts \cup Submitted)

Create(q, p) ==
  /\ req[q].pc = "counted" /\ req[q].op = "create"
  /\ papers[p].status = "NONE"
  /\ papers' = [papers EXCEPT ![p] = [NoPaper EXCEPT !.status = "DRAFT",
       !.authors = {req[q].by}, !.corresponding = req[q].by]]
  /\ Finish(q)
  /\ UNCHANGED <<cfpOpen, versions>>

LoadAuthor(q, op, p, a) ==
  /\ op \in {"add", "remove"}
  /\ p \in Drafts
  /\ op = "add" => a \notin papers[p].authors
  /\ op = "remove" => a \in papers[p].authors /\ Cardinality(papers[p].authors) > 1
  /\ Load(q, op, p, NoOne, a)

\* A new corresponding author takes over from the former one.
AddAuthor(q, corresponding) ==
  LET p == req[q].paper  a == req[q].person
  IN /\ req[q].pc = "loaded" /\ req[q].op = "add"
     /\ CfpStillOpen /\ Exists(p)
     /\ papers' = [papers EXCEPT ![p].authors = @ \cup {a},
                                 ![p].corresponding = IF corresponding THEN a ELSE @,
                                 ![p].handed = @ \/ corresponding]
     /\ Finish(q)
     /\ UNCHANGED <<cfpOpen, versions>>

\* The first remaining author takes over if no one is corresponding any more.
RemoveAuthor(q) ==
  LET p == req[q].paper  a == req[q].person  left == papers[p].authors \ {a}
  IN /\ req[q].pc = "loaded" /\ req[q].op = "remove"
     /\ CfpStillOpen /\ Exists(p) /\ a \in papers[p].authors
     /\ \E next \in IF left = {} THEN {NoOne} ELSE left :
          papers' = [papers EXCEPT ![p].authors = left,
                                   ![p].corresponding = IF @ \in {a, NoOne} THEN next ELSE @,
                                   ![p].handed = @ \/ papers[p].corresponding \in {a, NoOne}]
     /\ Finish(q)
     /\ UNCHANGED <<cfpOpen, versions>>

-----------------------------------------------------------------------------
(* Uploads and the scan.                                                   *)

LoadUpload(q, p) ==
  /\ cfpOpen
  /\ p \in Drafts
  /\ Len(versions) < MaxVersions
  /\ Load(q, "upload", p, NoOne, NoOne)

\* finalizeUpload, for a file the scanner will find clean or not.
Finalize(q, clean) ==
  /\ req[q].pc = "loaded" /\ req[q].op = "upload"
  /\ CfpStillOpen /\ Exists(req[q].paper)
  /\ Len(versions) < MaxVersions
  /\ versions' = Append(versions,
       [paper |-> req[q].paper, clean |-> clean, scan |-> "PENDING_SCAN"])
  /\ Finish(q)
  /\ UNCHANGED <<cfpOpen, papers>>

\* Faulty variant: every scanned version becomes the current one.
MakesCurrentAny(v) == TRUE

MakesCurrent(v) == versions[v].clean

\* applyScanResult.  The job may come late, in any order, and again; the
\* scanner says the same of the same file.
Scan(v) ==
  LET p == versions[v].paper
  IN /\ Exists(p)
     /\ versions' = [versions EXCEPT ![v].scan = IF versions[v].clean THEN "CLEAN" ELSE "INFECTED"]
     /\ papers' = IF MakesCurrent(v) THEN [papers EXCEPT ![p].current = v] ELSE papers
     /\ UNCHANGED <<cfpOpen, req>>

-----------------------------------------------------------------------------
(* submit, deleteDraft, withdraw.                                          *)

LoadSubmit(q, p, u) ==
  /\ cfpOpen
  /\ p \in Drafts
  /\ papers[p].corresponding # NoOne
  /\ papers[p].current # 0
  /\ papers[p].current = Newest(p) /\ versions[Newest(p)].scan = "CLEAN"
  /\ Load(q, "submit", p, u, papers[p].corresponding)

CountSubmitted(q) ==
  /\ req[q].pc = "loaded" /\ req[q].op = "submit"
  /\ Count(q, Submitted)

\* updateMany where status and submissionNumber
Submittable(p) == papers[p].status = "DRAFT" /\ papers[p].number = NoNumber

Submit(q, number) ==
  LET p == req[q].paper
  IN /\ req[q].pc = "counted" /\ req[q].op = "submit"
     /\ Submittable(p)
     /\ \A o \in Papers : papers[o].number # number
     /\ papers' = [papers EXCEPT ![p].status = "SUBMITTED", ![p].number = number]
     /\ Finish(q)
     /\ UNCHANGED <<cfpOpen, versions>>

\* The number is taken: the transaction rolls back and is tried again.
NumberTaken(q) ==
  /\ req[q].pc = "counted" /\ req[q].op = "submit"
  /\ \E o \in Papers : papers[o].number # NoNumber
  /\ req' = [req EXCEPT ![q].pc = "loaded"]
  /\ UNCHANGED <<cfpOpen, papers, versions>>

LoadDelete(q, p) ==
  /\ p \in Drafts
  /\ Load(q, "delete", p, NoOne, NoOne)

\* Faulty variant: the draft is deleted by its id.
DeletableAsRead(p) == Exists(p)

\* deleteMany where status
Deletable(p) == papers[p].status = "DRAFT"

DeleteDraft(q) ==
  LET p == req[q].paper
  IN /\ req[q].pc = "loaded" /\ req[q].op = "delete"
     /\ Deletable(p)
     /\ papers' = [papers EXCEPT ![p] = [NoPaper EXCEPT !.status = "DELETED"]]
     /\ Finish(q)
     /\ UNCHANGED <<cfpOpen, versions>>

Withdrawable(p) == papers[p].status = "SUBMITTED"

Withdraw(p) ==
  /\ Withdrawable(p)
  /\ papers' = [papers EXCEPT ![p].status = "WITHDRAWN"]
  /\ UNCHANGED <<cfpOpen, versions, req>>

\* The organizer's update waits for the share locks of running transactions.
SetCfp(open) ==
  /\ \A q \in Requests : req[q].pc # "counted"
  /\ cfpOpen # open
  /\ cfpOpen' = open
  /\ UNCHANGED <<papers, versions, req>>

-----------------------------------------------------------------------------
AuthorStep(q) ==
  \/ \E u \in Users : LoadCreate(q, u)
  \/ CountOpen(q)
  \/ \E p \in Papers : Create(q, p)
  \/ \E op \in {"add", "remove"}, p \in Papers, a \in People : LoadAuthor(q, op, p, a)
  \/ \E corresponding \in BOOLEAN : AddAuthor(q, corresponding)
  \/ RemoveAuthor(q)
  \/ \E p \in Papers : LoadUpload(q, p)
  \/ \E clean \in BOOLEAN : Finalize(q, clean)
  \/ \E p \in Papers, u \in Users : LoadSubmit(q, p, u)
  \/ CountSubmitted(q)
  \/ \E number \in Numbers : Submit(q, number)
  \/ NumberTaken(q)
  \/ \E p \in Papers : LoadDelete(q, p)
  \/ DeleteDraft(q)
  \/ Abort(q)

Next ==
  \/ \E q \in Requests : AuthorStep(q)
  \/ \E v \in DOMAIN versions : Scan(v)
  \/ \E p \in Papers : Withdraw(p)
  \/ \E open \in BOOLEAN : SetCfp(open)

SubmissionSpec == Init /\ [][Next]_submissionVars

-----------------------------------------------------------------------------
(* Properties.                                                             *)

PaperRow == [status : {"NONE", "DRAFT", "SUBMITTED", "WITHDRAWN", "DELETED"},
             number : Numbers \cup {NoNumber}, authors : SUBSET People,
             corresponding : People \cup {NoOne}, current : 0..MaxVersions,
             handed : BOOLEAN]

\* Every table holds rows of its type, a corresponding author is an author,
\* and the papers with a number are those that were submitted.
SubmissionTypeOK ==
  /\ cfpOpen \in BOOLEAN
  /\ papers \in [Papers -> PaperRow]
  /\ versions \in Seq([paper : Papers, clean : BOOLEAN,
                       scan : {"PENDING_SCAN", "CLEAN", "INFECTED"}])
  /\ Len(versions) <= MaxVersions
  /\ req \in [Requests ->
       [pc : {"idle", "loaded", "counted"}, paper : Papers,
        op : {"create", "add", "remove", "upload", "submit", "delete"},
        by : Users \cup {NoOne}, person : People \cup {NoOne}]]
  /\ \A p \in Papers :
       /\ papers[p].corresponding \in papers[p].authors \cup {NoOne}
       /\ papers[p].number # NoNumber <=> papers[p].status \in {"SUBMITTED", "WITHDRAWN"}

\* A paper that was submitted has a current PDF, and the scanner found it
\* clean, whatever is uploaded, scanned again or deleted while it is submitted.
SubmittedHasCleanPdf ==
  \A p \in Papers : papers[p].status \in {"SUBMITTED", "WITHDRAWN"} =>
    LET v == papers[p].current IN v \in VersionsOf(p) /\ versions[v].scan = "CLEAN"

\* No corresponding author has more than Limit papers, counting the papers
\* that have had the same corresponding author all along; create counts
\* drafts too, submit does not (docs/SYSTEM_DESIGN.md:1209).
WithinLimit ==
  /\ SubmissionTypeOK
  /\ \A u \in Users :
       LET own == {p \in Papers : papers[p].corresponding = u /\ ~papers[p].handed}
       IN Cardinality(own \cap Submitted) <= Limit

\* What is submitted is neither deleted nor submitted again, and keeps its
\* number; a withdrawn paper does not come back.
SubmittedIsFinal ==
  [][\A p \in Papers :
       papers[p].status \in {"SUBMITTED", "WITHDRAWN"} =>
         /\ papers'[p].number = papers[p].number
         /\ papers'[p].status \in {papers[p].status, "WITHDRAWN"}]_submissionVars

\* Nothing is created, submitted, uploaded or given another author once the
\* call for papers is closed, though the request came before.
ClosedCfpTakesNothing ==
  [][~cfpOpen =>
       /\ Len(versions') = Len(versions)
       /\ \A p \in Papers :
            /\ papers[p].status \in {"NONE", "DELETED"} => papers'[p] = papers[p]
            /\ papers[p].status = "DRAFT" =>
                 /\ papers'[p].status \in {"DRAFT", "DELETED"}
                 /\ papers'[p].status = "DRAFT" => papers'[p].authors = papers[p].authors
       ]_submissionVars

=============================================================================
