---------------------------- MODULE SubmissionProofs ----------------------------
(***************************************************************************)
(* Theorems about Submission, for any people, any finite set of papers,    *)
(* any numbers of requests and any limit.                                  *)
(*                                                                         *)
(* The limit is kept although submit counts before it writes: a request    *)
(* that has counted holds the lock of the corresponding author it counted  *)
(* for (CountersExclude), a paper that never changed hands still has that  *)
(* author (SubmitsKnowPaper), and so the count that was below the limit    *)
(* still is (CountStands).  That a submitted paper has a clean PDF follows *)
(* from every current version being clean (CurrentIsClean) and from a      *)
(* draft never losing its current version.                                 *)
(***************************************************************************)
EXTENDS Submission, FiniteSetTheorems, TLAPS

\* The submitted papers that have had u as corresponding author all along.
Own(u) == {p \in Papers : papers[p].corresponding = u /\ ~papers[p].handed} \cap Submitted

\* A request names the people its operation needs.
RequestsAreComplete ==
  \A q \in Requests : req[q].pc # "idle" =>
    /\ req[q].op = "create" => req[q].by \in Users
    /\ req[q].op \in {"add", "remove"} => req[q].person \in People

\* A request to submit was made for a draft with a current version; while the
\* paper is a draft that never changed hands, it knows the corresponding author.
SubmitsKnowPaper ==
  \A q \in Requests : req[q].pc # "idle" /\ req[q].op = "submit" =>
    LET v == papers[req[q].paper]
    IN  /\ v.status # "NONE"
        /\ v.status = "DRAFT" => v.current # 0 /\ (~v.handed => v.corresponding = req[q].person)

\* Requests that have counted hold different locks, and the call for papers open.
CountersExclude ==
  /\ \A q \in Requests : req[q].pc = "counted" => cfpOpen /\ req[q].op \in {"create", "submit"}
  /\ \A p, q \in Requests :
       req[p].pc = "counted" /\ req[q].pc = "counted" /\ LockOf(p) = LockOf(q) => p = q

\* What a request counted before it submits is still below the limit.
CountStands ==
  \A q \in Requests :
    req[q].pc = "counted" /\ req[q].op = "submit" /\ req[q].person \in Users =>
      Cardinality(Own(req[q].person)) < Limit

\* The current version of a paper that exists is one of its own and clean.
CurrentIsClean ==
  \A p \in Papers : Exists(p) /\ papers[p].current # 0 =>
    LET v == papers[p].current
    IN  v \in VersionsOf(p) /\ versions[v].clean /\ versions[v].scan = "CLEAN"

IInv ==
  /\ SubmissionTypeOK
  /\ RequestsAreComplete
  /\ SubmitsKnowPaper
  /\ CountersExclude
  /\ CountStands
  /\ CurrentIsClean
  /\ SubmittedHasCleanPdf
  /\ WithinLimit

-----------------------------------------------------------------------------
(* Papers, versions and requests, and their types.                         *)

VersionRow == [paper : Papers, clean : BOOLEAN,
               scan : {"PENDING_SCAN", "CLEAN", "INFECTED"}]

RequestRow == [pc : {"idle", "loaded", "counted"}, paper : Papers,
               op : {"create", "add", "remove", "upload", "submit", "delete"},
               by : Users \cup {NoOne}, person : People \cup {NoOne}]

\* The tables, row by row.
LEMMA TableTypes ==
  ASSUME SubmissionTypeOK
  PROVE  /\ cfpOpen \in BOOLEAN
         /\ papers \in [Papers -> PaperRow] /\ req \in [Requests -> RequestRow]
         /\ versions \in Seq(VersionRow) /\ Len(versions) \in Nat
         /\ Len(versions) <= MaxVersions /\ DOMAIN versions = 1..Len(versions)
         /\ \A n \in DOMAIN versions : versions[n] \in VersionRow
<1>1. versions \in Seq(VersionRow)
  BY DEF SubmissionTypeOK, VersionRow
<1>2. \A n \in DOMAIN versions : versions[n] \in VersionRow
  BY <1>1
<1>3. QED
  BY <1>1, <1>2 DEF SubmissionTypeOK, RequestRow

\* The rows that stand for what is not there yet.
LEMMA EmptyRows == /\ NoPaper \in PaperRow /\ IdleReq \in RequestRow /\ IdleReq.pc = "idle"
                   /\ NoPaper.corresponding = NoOne /\ NoPaper.current = 0
<1>1. (CHOOSE p \in Papers : TRUE) \in Papers
  BY PapersAreFinite
<1>2. NoPaper \in PaperRow
  BY SubmissionBounds DEF NoPaper, PaperRow
<1>3. IdleReq \in RequestRow
  BY <1>1 DEF IdleReq, RequestRow
<1>4. QED
  BY <1>2, <1>3 DEF NoPaper, IdleReq

-----------------------------------------------------------------------------
(* How one step changes a paper: v is its row before and w after the step. *)

\* A draft is created for its author.
Created(v, w) ==
  /\ v.status = "NONE" /\ w.status = "DRAFT"
  /\ w.number = NoNumber /\ w.current = 0 /\ cfpOpen /\ versions' = versions

\* Authors come and go; a paper that has not changed hands keeps its
\* corresponding author.
Authored(v, w) ==
  /\ v.status \notin {"NONE", "DELETED"} /\ cfpOpen /\ versions' = versions
  /\ w.status = v.status /\ w.number = v.number /\ w.current = v.current
  /\ ~w.handed => ~v.handed /\ w.corresponding = v.corresponding

\* A clean version of the paper becomes the current one.
Scanned(p, v, w) ==
  /\ v.status \notin {"NONE", "DELETED"}
  /\ w.status = v.status /\ w.number = v.number /\ w.handed = v.handed
  /\ w.corresponding = v.corresponding /\ w.authors = v.authors
  /\ w.current \in DOMAIN versions /\ versions[w.current].paper = p
  /\ versions[w.current].clean /\ versions'[w.current].scan = "CLEAN"

\* A draft is submitted by a request that has counted.
SubmittedBy(q, p, v, w) ==
  /\ req[q].pc = "counted" /\ req[q].op = "submit" /\ p = req[q].paper
  /\ req' = [req EXCEPT ![q] = IdleReq] /\ versions' = versions
  /\ v.status = "DRAFT" /\ w.status = "SUBMITTED" /\ w.number \in Numbers
  /\ w.current = v.current /\ w.handed = v.handed /\ w.corresponding = v.corresponding

\* A draft is deleted.
Deleted(v, w) ==
  v.status = "DRAFT" /\ w.status = "DELETED" /\ w.number = NoNumber /\ versions' = versions

\* A submitted paper is withdrawn.
Withdrawn(v, w) ==
  /\ v.status = "SUBMITTED" /\ w.status = "WITHDRAWN" /\ w.number = v.number
  /\ w.current = v.current /\ versions' = versions

Changes(p, w) ==
  /\ papers' = [papers EXCEPT ![p] = w]
  /\ w \in PaperRow /\ w.corresponding \in w.authors \cup {NoOne}
  /\ \/ Created(papers[p], w)
     \/ Authored(papers[p], w)
     \/ Scanned(p, papers[p], w)
     \/ \E q \in Requests : SubmittedBy(q, p, papers[p], w)
     \/ Deleted(papers[p], w)
     \/ Withdrawn(papers[p], w)

\* The two steps that give a paper other authors.
LEMMA AuthorChanges ==
  ASSUME IInv, NEW q \in Requests, \/ \E c \in BOOLEAN : AddAuthor(q, c)
                                   \/ RemoveAuthor(q)
  PROVE  \E p \in Papers, w \in PaperRow : Changes(p, w)
<1> DEFINE p == req[q].paper
           a == req[q].person
           v == papers[p]
<1>1. /\ p \in Papers /\ v \in PaperRow /\ v.handed \in BOOLEAN
      /\ v.corresponding \in v.authors \cup {NoOne}
  BY TableTypes DEF IInv, SubmissionTypeOK, RequestRow, PaperRow
<1>2. a \in People
  BY DEF IInv, RequestsAreComplete, AddAuthor, RemoveAuthor
<1>3. cfpOpen /\ v.status \notin {"NONE", "DELETED"} /\ versions' = versions
  BY DEF AddAuthor, RemoveAuthor, CfpStillOpen, Exists
<1>4. ASSUME NEW c \in BOOLEAN, AddAuthor(q, c)
      PROVE  \E w \in PaperRow : Changes(p, w)
  <2> DEFINE w == [v EXCEPT !.authors = @ \cup {a},
                            !.corresponding = IF c THEN a ELSE @, !.handed = @ \/ c]
  <2>1. papers' = [papers EXCEPT ![p] = w]
    BY <1>1, <1>4, TableTypes DEF AddAuthor, IInv
  <2>2. w \in PaperRow /\ w.corresponding \in w.authors \cup {NoOne}
    BY <1>1, <1>2 DEF PaperRow
  <2>3. /\ w.status = v.status /\ w.number = v.number /\ w.current = v.current
        /\ w.handed <=> (v.handed \/ c)
        /\ ~c => w.corresponding = v.corresponding
    BY <1>1 DEF PaperRow
  <2> HIDE DEF w
  <2>4. Authored(v, w)
    BY <1>3, <2>3 DEF Authored
  <2>5. QED
    BY <2>1, <2>2, <2>4 DEF Changes
<1>5. ASSUME RemoveAuthor(q)
      PROVE  \E w \in PaperRow : Changes(p, w)
  <2> DEFINE left == v.authors \ {a}
             gone == v.corresponding \in {a, NoOne}
  <2>0. PICK next \in IF left = {} THEN {NoOne} ELSE left :
          papers' = [papers EXCEPT ![p].authors = left,
                       ![p].corresponding = IF @ \in {a, NoOne} THEN next ELSE @,
                       ![p].handed = @ \/ papers[p].corresponding \in {a, NoOne}]
    BY <1>5 DEF RemoveAuthor
  <2> DEFINE w == [v EXCEPT !.authors = left,
                            !.corresponding = IF @ \in {a, NoOne} THEN next ELSE @,
                            !.handed = @ \/ v.corresponding \in {a, NoOne}]
  <2>1. papers' = [papers EXCEPT ![p] = w]
    BY <1>1, <2>0, TableTypes DEF IInv
  <2>2. left \in SUBSET People /\ next \in left \cup {NoOne} /\ next \in People \cup {NoOne}
    BY <1>1, <2>0 DEF PaperRow
  <2>3. w \in PaperRow /\ w.corresponding \in w.authors \cup {NoOne}
    BY <1>1, <1>2, <2>2 DEF PaperRow
  <2>4. /\ w.status = v.status /\ w.number = v.number /\ w.current = v.current
        /\ w.handed <=> (v.handed \/ gone)
        /\ ~gone => w.corresponding = v.corresponding
    BY <1>1 DEF PaperRow
  <2> HIDE DEF w
  <2>5. Authored(v, w)
    BY <1>3, <2>4 DEF Authored
  <2>6. QED
    BY <2>1, <2>3, <2>5 DEF Changes
<1>6. QED
  BY <1>1, <1>4, <1>5

\* The steps of one paper's author that change the paper otherwise.
LEMMA DraftChanges ==
  ASSUME IInv, NEW q \in Requests,
         \/ \E p \in Papers : Create(q, p)
         \/ \E number \in Numbers : Submit(q, number)
         \/ DeleteDraft(q)
  PROVE  \E p \in Papers, w \in PaperRow : Changes(p, w)
<1>0. /\ papers \in [Papers -> PaperRow] /\ req[q].paper \in Papers
      /\ papers[req[q].paper] \in PaperRow /\ NoPaper \in PaperRow
      /\ \A p \in Papers : papers[p].corresponding \in papers[p].authors \cup {NoOne}
  BY TableTypes, EmptyRows DEF IInv, SubmissionTypeOK, RequestRow
<1>1. ASSUME NEW p \in Papers, Create(q, p)
      PROVE  \E w \in PaperRow : Changes(p, w)
  <2> DEFINE w == [NoPaper EXCEPT !.status = "DRAFT", !.authors = {req[q].by},
                                  !.corresponding = req[q].by]
  <2>1. req[q].by \in Users /\ cfpOpen
    BY <1>1 DEF IInv, RequestsAreComplete, CountersExclude, Create
  <2>2. w \in PaperRow /\ w.corresponding \in w.authors
    BY <1>0, <2>1 DEF PaperRow, NoPaper, People
  <2>3. w.status = "DRAFT" /\ w.number = NoNumber /\ w.current = 0
    BY DEF NoPaper
  <2>4. papers' = [papers EXCEPT ![p] = w]
    BY <1>1 DEF Create
  <2>5. papers[p].status = "NONE" /\ versions' = versions
    BY <1>1 DEF Create
  <2> HIDE DEF w
  <2>6. Created(papers[p], w)
    BY <2>1, <2>3, <2>5 DEF Created
  <2>7. QED
    BY <2>2, <2>4, <2>6 DEF Changes
<1>2. ASSUME NEW number \in Numbers, Submit(q, number)
      PROVE  \E p \in Papers, w \in PaperRow : Changes(p, w)
  <2> DEFINE p == req[q].paper
             v == papers[p]
             w == [v EXCEPT !.status = "SUBMITTED", !.number = number]
  <2>1. papers' = [papers EXCEPT ![p] = w]
    BY <1>0, <1>2 DEF Submit
  <2>2. /\ w \in PaperRow /\ w.corresponding = v.corresponding /\ w.authors = v.authors
        /\ w.status = "SUBMITTED" /\ w.number = number
        /\ w.current = v.current /\ w.handed = v.handed
    BY <1>0 DEF PaperRow
  <2>3. /\ req[q].pc = "counted" /\ req[q].op = "submit" /\ v.status = "DRAFT"
        /\ req' = [req EXCEPT ![q] = IdleReq] /\ versions' = versions
    BY <1>2 DEF Submit, Submittable, Finish
  <2> HIDE DEF w
  <2>4. SubmittedBy(q, p, v, w)
    BY <2>2, <2>3 DEF SubmittedBy
  <2>5. w.corresponding \in w.authors \cup {NoOne}
    BY <1>0, <2>2
  <2>6. QED
    BY <1>0, <2>1, <2>2, <2>4, <2>5 DEF Changes
<1>3. ASSUME DeleteDraft(q)
      PROVE  \E p \in Papers, w \in PaperRow : Changes(p, w)
  <2> DEFINE p == req[q].paper
             w == [NoPaper EXCEPT !.status = "DELETED"]
  <2>1. papers' = [papers EXCEPT ![p] = w] /\ papers[p].status = "DRAFT" /\ versions' = versions
    BY <1>3 DEF DeleteDraft, Deletable
  <2>2. w \in PaperRow /\ w.corresponding = NoOne /\ w.status = "DELETED" /\ w.number = NoNumber
    BY <1>0 DEF NoPaper, PaperRow
  <2> HIDE DEF w
  <2>3. QED
    BY <1>0, <2>1, <2>2 DEF Changes, Deleted
<1>4. QED
  BY <1>1, <1>2, <1>3

\* A verdict of the scanner, and a withdrawal.
LEMMA OtherChanges ==
  ASSUME IInv, \/ \E n \in DOMAIN versions : Scan(n)
               \/ \E p \in Papers : Withdraw(p)
  PROVE  papers' = papers \/ \E p \in Papers, w \in PaperRow : Changes(p, w)
<1>0. /\ papers \in [Papers -> PaperRow]
      /\ \A p \in Papers : papers[p].corresponding \in papers[p].authors \cup {NoOne}
  BY TableTypes DEF IInv, SubmissionTypeOK
<1>1. ASSUME NEW p \in Papers, Withdraw(p)
      PROVE  \E w \in PaperRow : Changes(p, w)
  <2> DEFINE v == papers[p]
             w == [v EXCEPT !.status = "WITHDRAWN"]
  <2>1. papers' = [papers EXCEPT ![p] = w] /\ v.status = "SUBMITTED" /\ versions' = versions
    BY <1>0, <1>1 DEF Withdraw, Withdrawable
  <2>2. /\ w \in PaperRow /\ w.corresponding = v.corresponding /\ w.authors = v.authors
        /\ w.status = "WITHDRAWN" /\ w.number = v.number /\ w.current = v.current
    BY <1>0 DEF PaperRow
  <2> HIDE DEF w
  <2>3. Withdrawn(v, w)
    BY <2>1, <2>2 DEF Withdrawn
  <2>4. w.corresponding \in w.authors \cup {NoOne}
    BY <1>0, <2>2
  <2>5. QED
    BY <2>1, <2>2, <2>3, <2>4 DEF Changes
<1>2. ASSUME NEW n \in DOMAIN versions, Scan(n), MakesCurrent(n)
      PROVE  \E p \in Papers, w \in PaperRow : Changes(p, w)
  <2> DEFINE p == versions[n].paper
             v == papers[p]
             w == [v EXCEPT !.current = n]
  <2>1. p \in Papers /\ versions[n] \in VersionRow /\ n \in 1..MaxVersions
    BY SubmissionBounds, TableTypes DEF IInv, VersionRow
  <2>2. papers' = [papers EXCEPT ![p] = w] /\ v.status \notin {"NONE", "DELETED"}
    BY <1>0, <1>2, <2>1 DEF Scan, Exists
  <2>3. /\ w \in PaperRow /\ w.corresponding = v.corresponding /\ w.authors = v.authors
        /\ w.status = v.status /\ w.number = v.number /\ w.handed = v.handed /\ w.current = n
    BY <1>0, <2>1, SubmissionBounds DEF PaperRow
  <2>4. versions[n].clean /\ versions' = [versions EXCEPT ![n].scan = "CLEAN"]
    BY <1>2 DEF Scan, MakesCurrent
  <2>5. versions'[n].scan = "CLEAN"
    BY <2>1, <2>4 DEF VersionRow
  <2> HIDE DEF w
  <2>6. Scanned(p, v, w)
    BY <2>2, <2>3, <2>4, <2>5 DEF Scanned
  <2>7. w.corresponding \in w.authors \cup {NoOne}
    BY <1>0, <2>1, <2>3
  <2>8. QED
    BY <2>1, <2>2, <2>3, <2>6, <2>7 DEF Changes
<1>3. ASSUME NEW n \in DOMAIN versions, Scan(n), ~MakesCurrent(n)
      PROVE  papers' = papers
  BY <1>3 DEF Scan
<1>4. QED
  BY <1>1, <1>2, <1>3

\* Every step leaves the papers alone or changes one of them.
LEMMA PaperChanges ==
  ASSUME IInv, Next
  PROVE  papers' = papers \/ \E p \in Papers, w \in PaperRow : Changes(p, w)
<1>1. ASSUME NEW q \in Requests, AuthorStep(q)
      PROVE  papers' = papers \/ \E p \in Papers, w \in PaperRow : Changes(p, w)
  <2>1. ASSUME \/ \E u \in Users : LoadCreate(q, u)
               \/ CountOpen(q)
               \/ \E op \in {"add", "remove"}, p \in Papers, a \in People : LoadAuthor(q, op, p, a)
               \/ \E p \in Papers : LoadUpload(q, p)
               \/ \E clean \in BOOLEAN : Finalize(q, clean)
               \/ \E p \in Papers, u \in Users : LoadSubmit(q, p, u)
               \/ CountSubmitted(q)
               \/ NumberTaken(q)
               \/ \E p \in Papers : LoadDelete(q, p)
               \/ Abort(q)
        PROVE  papers' = papers
    BY <2>1 DEF LoadCreate, CountOpen, LoadAuthor, LoadUpload, Finalize, LoadSubmit,
                CountSubmitted, NumberTaken, LoadDelete, Abort, Load, Count
  <2>2. QED
    BY <1>1, <2>1, AuthorChanges, DraftChanges DEF AuthorStep
<1>2. ASSUME NEW open \in BOOLEAN, SetCfp(open)
      PROVE  papers' = papers
  BY <1>2 DEF SetCfp
<1>3. QED
  BY <1>1, <1>2, OtherChanges DEF Next

-----------------------------------------------------------------------------
(* How one step changes the versions, the requests and the call for papers. *)

\* Versions are only added, while the call for papers is open; a version keeps
\* its paper, its content and the verdict that it is clean.
VersionsGrow ==
  /\ versions' \in Seq(VersionRow) /\ Len(versions) <= Len(versions') /\ Len(versions') <= MaxVersions
  /\ ~cfpOpen => Len(versions') = Len(versions)
  /\ \A n \in DOMAIN versions :
       /\ n \in DOMAIN versions' /\ versions'[n].paper = versions[n].paper
       /\ versions'[n].clean = versions[n].clean
       /\ versions[n].clean /\ versions[n].scan = "CLEAN" => versions'[n].scan = "CLEAN"

\* Every step lets the versions grow so.
LEMMA VersionChanges ==
  ASSUME IInv, Next
  PROVE  VersionsGrow
<1>0. /\ versions \in Seq(VersionRow) /\ Len(versions) \in Nat /\ Len(versions) <= MaxVersions
      /\ DOMAIN versions = 1..Len(versions) /\ \A n \in DOMAIN versions : versions[n] \in VersionRow
      /\ \A q \in Requests : req[q].paper \in Papers
  BY TableTypes DEF IInv, RequestRow
<1>1. CASE versions' = versions
  BY <1>0, <1>1 DEF VersionsGrow
<1>2. ASSUME NEW q \in Requests, NEW clean \in BOOLEAN, Finalize(q, clean)
      PROVE  VersionsGrow
  <2> DEFINE v == [paper |-> req[q].paper, clean |-> clean, scan |-> "PENDING_SCAN"]
  <2>1. v \in VersionRow
    BY <1>0 DEF VersionRow
  <2>2. versions' = Append(versions, v) /\ Len(versions) < MaxVersions /\ cfpOpen
    BY <1>2 DEF Finalize, CfpStillOpen
  <2> HIDE DEF v
  <2>3. /\ versions' \in Seq(VersionRow) /\ Len(versions') = Len(versions) + 1
        /\ \A n \in DOMAIN versions : versions'[n] = versions[n] /\ n \in DOMAIN versions'
    BY <1>0, <2>1, <2>2
  <2>4. Len(versions) + 1 <= MaxVersions
    BY <1>0, <2>2, SubmissionBounds
  <2>5. QED
    BY <1>0, <2>2, <2>3, <2>4 DEF VersionsGrow
<1>3. ASSUME NEW k \in DOMAIN versions, Scan(k)
      PROVE  VersionsGrow
  <2> DEFINE w == [versions[k] EXCEPT !.scan = IF versions[k].clean THEN "CLEAN" ELSE "INFECTED"]
  <2>1. versions' = [versions EXCEPT ![k] = w]
    BY <1>3 DEF Scan
  <2>2. /\ w \in VersionRow /\ w.paper = versions[k].paper /\ w.clean = versions[k].clean
        /\ versions[k].clean => w.scan = "CLEAN"
    BY <1>0 DEF VersionRow
  <2> HIDE DEF w
  <2>3. versions' \in Seq(VersionRow) /\ Len(versions') = Len(versions)
    BY <1>0, <2>1, <2>2
  <2>4. \A n \in DOMAIN versions :
          n \in DOMAIN versions' /\ versions'[n] = IF n = k THEN w ELSE versions[n]
    BY <1>0, <2>1, <2>3
  <2>5. QED
    BY <1>0, <2>2, <2>3, <2>4 DEF VersionsGrow
<1>4. ASSUME NEW q \in Requests, AuthorStep(q)
      PROVE  versions' = versions \/ \E clean \in BOOLEAN : Finalize(q, clean)
  BY <1>4 DEF AuthorStep, LoadCreate, CountOpen, Create, LoadAuthor, AddAuthor, RemoveAuthor,
              LoadUpload, LoadSubmit, CountSubmitted, Submit, NumberTaken, LoadDelete,
              DeleteDraft, Abort, Load, Count
<1>5. ASSUME \/ \E p \in Papers : Withdraw(p)
             \/ \E open \in BOOLEAN : SetCfp(open)
      PROVE  versions' = versions
  BY <1>5 DEF Withdraw, SetCfp
<1>6. QED
  BY <1>1, <1>2, <1>3, <1>4, <1>5 DEF Next

\* A request is made.
Begins(r) ==
  /\ r.pc = "loaded" /\ papers' = papers
  /\ r.op = "create" => r.by \in Users
  /\ r.op \in {"add", "remove"} => r.person \in People
  /\ r.op = "submit" =>
       /\ r.paper \in Papers /\ papers[r.paper].status = "DRAFT"
       /\ papers[r.paper].current # 0 /\ papers[r.paper].corresponding = r.person

\* A request has counted, and is below the limit.
Counted(q, r) ==
  /\ req[q].pc = "loaded" /\ r.pc = "counted" /\ req[q].op \in {"create", "submit"}
  /\ cfpOpen /\ LockFree(q) /\ papers' = papers
  /\ req[q].op = "submit" => CountOf(q, Submitted) < Limit

\* A request starts over.
Retried(q, r) ==
  req[q].pc = "counted" /\ r.pc = "loaded" /\ papers' = papers

\* A request goes on as the one it is.
Continues(q, r) ==
  /\ r.op = req[q].op /\ r.paper = req[q].paper
  /\ r.by = req[q].by /\ r.person = req[q].person

Moves(q, r) ==
  /\ req' = [req EXCEPT ![q] = r] /\ cfpOpen' = cfpOpen
  /\ \/ r = IdleReq
     \/ Begins(r)
     \/ Counted(q, r) /\ Continues(q, r)
     \/ Retried(q, r) /\ Continues(q, r)

\* The steps by which a request begins.
LEMMA RequestBegins ==
  ASSUME IInv, NEW q \in Requests,
         \/ \E u \in Users : LoadCreate(q, u)
         \/ \E op \in {"add", "remove"}, p \in Papers, a \in People : LoadAuthor(q, op, p, a)
         \/ \E p \in Papers : LoadUpload(q, p)
         \/ \E p \in Papers, u \in Users : LoadSubmit(q, p, u)
         \/ \E p \in Papers : LoadDelete(q, p)
  PROVE  \E r \in RequestRow : Moves(q, r)
<1> DEFINE Row(op, p, by, person) ==
      [pc |-> "loaded", op |-> op, paper |-> p, by |-> by, person |-> person]
<1>0. \A op, by, person : \A p \in Papers :
        /\ op \in {"create", "add", "remove", "upload", "submit", "delete"}
        /\ by \in Users \cup {NoOne} /\ person \in People \cup {NoOne}
        => Row(op, p, by, person) \in RequestRow
  BY DEF RequestRow
<1>1. ASSUME NEW op \in {"create", "add", "remove", "upload", "submit", "delete"},
             NEW p \in Papers, NEW by \in Users \cup {NoOne},
             NEW person \in People \cup {NoOne}, Load(q, op, p, by, person),
             op = "create" => by \in Users, op \in {"add", "remove"} => person \in People,
             op = "submit" => /\ papers[p].status = "DRAFT" /\ papers[p].current # 0
                              /\ papers[p].corresponding = person
      PROVE  \E r \in RequestRow : Moves(q, r)
  <2>1. Row(op, p, by, person) \in RequestRow
    BY <1>0
  <2>2. Begins(Row(op, p, by, person))
    BY <1>1 DEF Begins, Load
  <2>3. Moves(q, Row(op, p, by, person))
    BY <1>1, <2>2 DEF Moves, Load
  <2>4. QED
    BY <2>1, <2>3
<1>2. IdleReq.paper \in Papers /\ Users \subseteq People
  BY EmptyRows DEF RequestRow, People
<1>3. ASSUME NEW u \in Users, LoadCreate(q, u)
      PROVE  \E r \in RequestRow : Moves(q, r)
  BY <1>1, <1>2, <1>3 DEF LoadCreate
<1>4. ASSUME NEW op \in {"add", "remove"}, NEW p \in Papers, NEW a \in People,
             LoadAuthor(q, op, p, a)
      PROVE  \E r \in RequestRow : Moves(q, r)
  BY <1>1, <1>4 DEF LoadAuthor
<1>5. ASSUME NEW p \in Papers, LoadUpload(q, p) \/ LoadDelete(q, p)
      PROVE  \E r \in RequestRow : Moves(q, r)
  BY <1>1, <1>5 DEF LoadUpload, LoadDelete
<1>6. ASSUME NEW p \in Papers, NEW u \in Users, LoadSubmit(q, p, u)
      PROVE  \E r \in RequestRow : Moves(q, r)
  <2>1. papers[p].corresponding \in People \cup {NoOne}
    BY TableTypes DEF IInv, PaperRow
  <2>2. papers[p].status = "DRAFT" /\ papers[p].current # 0
        /\ Load(q, "submit", p, u, papers[p].corresponding)
    BY <1>6 DEF LoadSubmit, Drafts
  <2>3. QED
    BY <1>1, <2>1, <2>2
<1>7. QED
  BY <1>3, <1>4, <1>5, <1>6

\* Every step leaves the requests alone or moves one of them.
LEMMA RequestChanges ==
  ASSUME IInv, Next
  PROVE  \/ req' = req /\ (\/ cfpOpen' = cfpOpen
                           \/ papers' = papers /\ \A q \in Requests : req[q].pc # "counted")
         \/ \E q \in Requests, r \in RequestRow : Moves(q, r)
<1>1. ASSUME NEW q \in Requests, AuthorStep(q)
      PROVE  \E r \in RequestRow : Moves(q, r)
  <2>0. req[q] \in RequestRow
    BY TableTypes DEF IInv
  <2>1. ASSUME \/ \E p \in Papers : Create(q, p)
               \/ \E corresponding \in BOOLEAN : AddAuthor(q, corresponding)
               \/ RemoveAuthor(q)
               \/ \E clean \in BOOLEAN : Finalize(q, clean)
               \/ \E number \in Numbers : Submit(q, number)
               \/ DeleteDraft(q)
               \/ Abort(q)
        PROVE  Moves(q, IdleReq)
    BY <2>1 DEF Create, AddAuthor, RemoveAuthor, Finalize, Submit, DeleteDraft, Abort, Finish, Moves
  <2>2. ASSUME CountOpen(q) \/ CountSubmitted(q)
        PROVE  \E r \in RequestRow : Moves(q, r)
    <3> DEFINE r == [req[q] EXCEPT !.pc = "counted"]
    <3>1. r \in RequestRow /\ Continues(q, r) /\ r.pc = "counted"
      BY <2>0 DEF RequestRow, Continues
    <3>2. req' = [req EXCEPT ![q] = r] /\ cfpOpen' = cfpOpen /\ papers' = papers
          /\ req[q].pc = "loaded" /\ req[q].op \in {"create", "submit"} /\ cfpOpen /\ LockFree(q)
      BY <2>2 DEF CountOpen, CountSubmitted, Count, CfpStillOpen
    <3>3. req[q].op = "submit" => CountOf(q, Submitted) < Limit
      BY <2>2 DEF CountOpen, CountSubmitted, Count
    <3> HIDE DEF r
    <3>4. Counted(q, r)
      BY <3>1, <3>2, <3>3 DEF Counted
    <3>5. QED
      BY <3>1, <3>2, <3>4 DEF Moves
  <2>3. ASSUME NumberTaken(q)
        PROVE  \E r \in RequestRow : Moves(q, r)
    <3> DEFINE r == [req[q] EXCEPT !.pc = "loaded"]
    <3>1. r \in RequestRow /\ Continues(q, r) /\ r.pc = "loaded"
      BY <2>0 DEF RequestRow, Continues
    <3>2. /\ req' = [req EXCEPT ![q] = r] /\ cfpOpen' = cfpOpen /\ papers' = papers
          /\ req[q].pc = "counted"
      BY <2>3 DEF NumberTaken
    <3> HIDE DEF r
    <3>3. QED
      BY <3>1, <3>2 DEF Moves, Retried
  <2>4. QED
    BY <1>1, <2>1, <2>2, <2>3, EmptyRows, RequestBegins DEF AuthorStep
<1>2. ASSUME \/ \E n \in DOMAIN versions : Scan(n)
             \/ \E p \in Papers : Withdraw(p)
      PROVE  req' = req /\ cfpOpen' = cfpOpen
  BY <1>2 DEF Scan, Withdraw
<1>3. ASSUME NEW open \in BOOLEAN, SetCfp(open)
      PROVE  req' = req /\ papers' = papers /\ \A q \in Requests : req[q].pc # "counted"
  BY <1>3 DEF SetCfp
<1>4. QED
  BY <1>1, <1>2, <1>3 DEF Next

-----------------------------------------------------------------------------
(* The parts of the invariant, one by one.                                 *)

\* One paper through one step.
LEMMA OnePaper ==
  ASSUME IInv, Next
  PROVE  /\ papers' \in [Papers -> PaperRow]
         /\ \A p \in Papers : papers'[p] = papers[p] \/ Changes(p, papers'[p])
<1>0. papers \in [Papers -> PaperRow]
  BY TableTypes DEF IInv
<1>1. CASE papers' = papers
  BY <1>0, <1>1
<1>2. ASSUME NEW p \in Papers, NEW w \in PaperRow, Changes(p, w)
      PROVE  /\ papers' \in [Papers -> PaperRow]
             /\ \A o \in Papers : papers'[o] = papers[o] \/ Changes(o, papers'[o])
  <2>1. papers' = [papers EXCEPT ![p] = w]
    BY <1>2 DEF Changes
  <2>2. papers'[p] = w /\ \A o \in Papers : o # p => papers'[o] = papers[o]
    BY <1>0, <2>1
  <2>3. papers' \in [Papers -> PaperRow]
    BY <1>0, <2>1
  <2>4. QED
    BY <1>2, <2>2, <2>3
<1>3. QED
  BY <1>1, <1>2, PaperChanges

\* One request through one step.
LEMMA OneRequest ==
  ASSUME IInv, Next
  PROVE  /\ req' \in [Requests -> RequestRow]
         /\ \A q \in Requests : req'[q] = req[q] \/ Moves(q, req'[q])
<1>0. req \in [Requests -> RequestRow]
  BY TableTypes DEF IInv
<1>1. CASE req' = req
  BY <1>0, <1>1
<1>2. ASSUME NEW q \in Requests, NEW r \in RequestRow, Moves(q, r)
      PROVE  /\ req' \in [Requests -> RequestRow]
             /\ \A o \in Requests : req'[o] = req[o] \/ Moves(o, req'[o])
  <2>1. req' = [req EXCEPT ![q] = r]
    BY <1>2 DEF Moves
  <2>2. req'[q] = r /\ \A o \in Requests : o # q => req'[o] = req[o]
    BY <1>0, <2>1
  <2>3. req' \in [Requests -> RequestRow]
    BY <1>0, <2>1
  <2>4. QED
    BY <1>2, <2>2, <2>3
<1>3. QED
  BY <1>1, <1>2, RequestChanges

\* Every step keeps the tables well typed; a number comes with the submission.
LEMMA TypeStep == IInv /\ Next => SubmissionTypeOK'
<1> SUFFICES ASSUME IInv, Next PROVE SubmissionTypeOK'
  OBVIOUS
<1>1. cfpOpen' \in BOOLEAN
  <2>1. CASE cfpOpen' = cfpOpen
    BY <2>1, TableTypes DEF IInv
  <2>2. CASE \E open \in BOOLEAN : SetCfp(open)
    BY <2>2 DEF SetCfp
  <2>3. cfpOpen' = cfpOpen \/ \E open \in BOOLEAN : SetCfp(open)
    BY ZenonT(60) DEF Next, AuthorStep, LoadCreate, CountOpen, Create, LoadAuthor, AddAuthor, RemoveAuthor,
           LoadUpload, Finalize, LoadSubmit, CountSubmitted, Submit, NumberTaken, LoadDelete,
           DeleteDraft, Abort, Load, Count, Scan, Withdraw
  <2>4. QED
    BY <2>1, <2>2, <2>3
<1>2. ASSUME NEW p \in Papers
      PROVE  /\ papers'[p].corresponding \in papers'[p].authors \cup {NoOne}
             /\ papers'[p].number # NoNumber <=> papers'[p].status \in {"SUBMITTED", "WITHDRAWN"}
  <2>1. /\ papers[p].corresponding \in papers[p].authors \cup {NoOne}
        /\ papers[p].number # NoNumber <=> papers[p].status \in {"SUBMITTED", "WITHDRAWN"}
    BY DEF IInv, SubmissionTypeOK
  <2>2. CASE papers'[p] = papers[p]
    BY <2>1, <2>2
  <2>3. CASE Changes(p, papers'[p])
    BY <2>1, <2>3, NumberIsNoNull
    DEF Changes, Created, Authored, Scanned, SubmittedBy, Deleted, Withdrawn
  <2>4. QED
    BY <2>2, <2>3, OnePaper
<1>3. /\ versions' \in Seq([paper : Papers, clean : BOOLEAN,
                            scan : {"PENDING_SCAN", "CLEAN", "INFECTED"}])
      /\ Len(versions') <= MaxVersions
  BY VersionChanges DEF VersionsGrow, VersionRow
<1>4. req' \in [Requests -> RequestRow] /\ papers' \in [Papers -> PaperRow]
  BY OnePaper, OneRequest
<1>5. QED
  BY <1>1, <1>2, <1>3, <1>4 DEF SubmissionTypeOK, RequestRow

\* A request keeps the people it was made with.
LEMMA RequestsAreCompleteStep == IInv /\ Next => RequestsAreComplete'
<1> SUFFICES ASSUME IInv, Next PROVE RequestsAreComplete'
  OBVIOUS
<1>1. ASSUME NEW q \in Requests, req'[q].pc # "idle"
      PROVE  /\ req'[q].op = "create" => req'[q].by \in Users
             /\ req'[q].op \in {"add", "remove"} => req'[q].person \in People
  <2>1. req[q].pc # "idle" => /\ req[q].op = "create" => req[q].by \in Users
                              /\ req[q].op \in {"add", "remove"} => req[q].person \in People
    BY DEF IInv, RequestsAreComplete
  <2>2. CASE req'[q] = req[q]
    BY <1>1, <2>1, <2>2
  <2>3. CASE Moves(q, req'[q])
    BY <1>1, <2>1, <2>3, EmptyRows DEF Moves, Begins, Counted, Retried, Continues
  <2>4. QED
    BY <2>2, <2>3, OneRequest
<1>2. QED
  BY <1>1 DEF RequestsAreComplete

\* A draft a request to submit was made for, after the step.
LEMMA KnownPaperStays ==
  ASSUME IInv, Next, NEW p \in Papers, papers[p].status # "NONE", NEW person,
         papers[p].status = "DRAFT" =>
           papers[p].current # 0 /\ (~papers[p].handed => papers[p].corresponding = person)
  PROVE  /\ papers'[p].status # "NONE"
         /\ papers'[p].status = "DRAFT" =>
              /\ papers'[p].current # 0
              /\ ~papers'[p].handed => papers'[p].corresponding = person
<1>1. CASE papers'[p] = papers[p]
  BY <1>1
<1>2. CASE Changes(p, papers'[p])
  <2>1. \A n \in DOMAIN versions : n # 0
    BY TableTypes DEF IInv
  <2>2. QED
    BY <1>2, <2>1 DEF Changes, Created, Authored, Scanned, SubmittedBy, Deleted, Withdrawn
<1>3. QED
  BY <1>1, <1>2, OnePaper

\* Every step keeps what requests to submit know of their paper.
LEMMA SubmitsKnowPaperStep == IInv /\ Next => SubmitsKnowPaper'
<1> SUFFICES ASSUME IInv, Next PROVE SubmitsKnowPaper'
  OBVIOUS
<1>1. ASSUME NEW q \in Requests, req'[q].pc # "idle", req'[q].op = "submit"
      PROVE  LET w == papers'[req'[q].paper]
             IN  /\ w.status # "NONE"
                 /\ w.status = "DRAFT" =>
                      w.current # 0 /\ (~w.handed => w.corresponding = req'[q].person)
  <2> DEFINE p == req'[q].paper
             person == req'[q].person
  <2>0. p \in Papers
    BY OneRequest DEF RequestRow
  <2>1. papers[p].status # "NONE" /\
          (papers[p].status = "DRAFT" =>
             papers[p].current # 0 /\ (~papers[p].handed => papers[p].corresponding = person))
    <3>1. CASE req'[q] = req[q]
      BY <1>1, <3>1 DEF IInv, SubmitsKnowPaper
    <3>2. CASE Begins(req'[q])
      BY <1>1, <3>2 DEF Begins
    <3>3. CASE (Counted(q, req'[q]) \/ Retried(q, req'[q])) /\ Continues(q, req'[q])
      BY <1>1, <3>3 DEF Counted, Retried, Continues, IInv, SubmitsKnowPaper
    <3>4. QED
      BY <1>1, <3>1, <3>2, <3>3, OneRequest, EmptyRows DEF Moves
  <2>2. QED
    BY <2>0, <2>1, KnownPaperStays
<1>2. QED
  BY <1>1 DEF SubmitsKnowPaper

\* A request counts only when no other holds its lock; a closing call waits for it.
LEMMA CountersExcludeStep == IInv /\ Next => CountersExclude'
<1> SUFFICES ASSUME IInv, Next PROVE CountersExclude'
  OBVIOUS
<1>0. /\ \A q \in Requests : req[q].pc = "counted" => cfpOpen /\ req[q].op \in {"create", "submit"}
      /\ \A p, q \in Requests :
           req[p].pc = "counted" /\ req[q].pc = "counted" /\ LockOf(p) = LockOf(q) => p = q
      /\ req \in [Requests -> RequestRow]
  BY TableTypes DEF IInv, CountersExclude
<1> DEFINE NewLock(q) == IF req'[q].person \in Users THEN req'[q].person ELSE req'[q].by
<1> SUFFICES /\ \A q \in Requests :
                  req'[q].pc = "counted" => cfpOpen' /\ req'[q].op \in {"create", "submit"}
             /\ \A p, q \in Requests :
                  req'[p].pc = "counted" /\ req'[q].pc = "counted" /\ NewLock(p) = NewLock(q)
                    => p = q
  BY DEF CountersExclude, LockOf
<1>1. CASE req' = req /\ (\/ cfpOpen' = cfpOpen
                          \/ papers' = papers /\ \A q \in Requests : req[q].pc # "counted")
  BY <1>0, <1>1 DEF LockOf
<1>2. ASSUME NEW q \in Requests, NEW r \in RequestRow, Moves(q, r)
      PROVE  /\ \A o \in Requests :
                  req'[o].pc = "counted" => cfpOpen' /\ req'[o].op \in {"create", "submit"}
             /\ \A p, o \in Requests :
                  req'[p].pc = "counted" /\ req'[o].pc = "counted" /\ NewLock(p) = NewLock(o)
                    => p = o
  <2>1. /\ req'[q] = r /\ cfpOpen' = cfpOpen
        /\ \A o \in Requests : o # q => req'[o] = req[o] /\ NewLock(o) = LockOf(o)
    BY <1>0, <1>2 DEF Moves, LockOf
  <2>2. r.pc = "counted" => /\ cfpOpen /\ r.op \in {"create", "submit"} /\ LockFree(q)
                            /\ NewLock(q) = LockOf(q)
    BY <1>2, <2>1, EmptyRows DEF Moves, Begins, Counted, Retried, Continues, LockOf
  <2>3. \A o \in Requests : o # q /\ req'[o].pc = "counted" /\ r.pc = "counted" =>
          NewLock(o) # NewLock(q)
    BY <2>1, <2>2 DEF LockFree
  <2> HIDE DEF NewLock
  <2>4. \A o \in Requests :
          req'[o].pc = "counted" => cfpOpen' /\ req'[o].op \in {"create", "submit"}
    BY <1>0, <2>1, <2>2
  <2>5. \A p, o \in Requests :
          req'[p].pc = "counted" /\ req'[o].pc = "counted" /\ NewLock(p) = NewLock(o) => p = o
    BY <1>0, <2>1, <2>3
  <2>6. QED
    BY <2>4, <2>5
<1>3. QED
  BY <1>1, <1>2, RequestChanges

\* The papers that count are finitely many.
LEMMA OwnIsFinite ==
  ASSUME NEW u
  PROVE  /\ Own(u) \subseteq Papers /\ IsFiniteSet(Own(u)) /\ Cardinality(Own(u)) \in Nat
         /\ \A S \in SUBSET Own(u) :
              Cardinality(S) \in Nat /\ Cardinality(S) <= Cardinality(Own(u))
<1>1. Own(u) \subseteq Papers
  BY DEF Own
<1>2. IsFiniteSet(Own(u))
  BY <1>1, PapersAreFinite, FS_Subset
<1>3. \A S \in SUBSET Own(u) : IsFiniteSet(S) /\ Cardinality(S) <= Cardinality(Own(u))
  BY <1>2, FS_Subset
<1>4. QED
  BY <1>1, <1>2, <1>3, FS_CardinalityType

\* A paper comes to count for its corresponding author when a request that knows
\* that author submits it.
LEMMA OwnGrows ==
  ASSUME IInv, Next, NEW u \in Users, NEW p \in Own(u)', p \notin Own(u)
  PROVE  \E q \in Requests :
           /\ SubmittedBy(q, p, papers[p], papers'[p]) /\ req[q].person = u
           /\ Own(u)' \subseteq Own(u) \cup {p}
<1> DEFINE v == papers[p]
           w == papers'[p]
<1>1. /\ p \in Papers /\ w.corresponding = u /\ ~w.handed /\ w.status = "SUBMITTED"
      /\ ~(v.corresponding = u /\ ~v.handed /\ v.status = "SUBMITTED")
  BY DEF Own, Submitted
<1>2. Changes(p, w)
  BY <1>1, OnePaper
<1>3. PICK q \in Requests : SubmittedBy(q, p, v, w)
  BY <1>1, <1>2 DEF Changes, Created, Authored, Scanned, Deleted, Withdrawn
<1>4. v.status = "DRAFT" /\ ~v.handed /\ v.corresponding = u
  BY <1>1, <1>3 DEF SubmittedBy
<1>5. req[q].person = u
  BY <1>3, <1>4 DEF SubmittedBy, IInv, SubmitsKnowPaper
<1>6. \A o \in Papers : o # p => papers'[o] = papers[o]
  BY <1>2, TableTypes DEF Changes, IInv
<1>7. Own(u)' \subseteq Own(u) \cup {p}
  BY <1>6 DEF Own, Submitted
<1>8. QED
  BY <1>3, <1>5, <1>7

\* No other step submits a paper of the author a request has counted for.
LEMMA CountStandsStep == IInv /\ Next => CountStands'
<1> SUFFICES ASSUME IInv, Next PROVE CountStands'
  OBVIOUS
<1>1. ASSUME NEW q \in Requests, NEW u \in Users,
             req'[q].pc = "counted", req'[q].op = "submit", req'[q].person = u
      PROVE  Cardinality(Own(u)') < Limit
  <2>1. CASE req'[q] = req[q]
    <3>1. Cardinality(Own(u)) < Limit /\ LockOf(q) = u /\ req[q].pc = "counted"
      BY <1>1, <2>1 DEF IInv, CountStands, LockOf
    <3>2. ASSUME NEW p \in Own(u)', p \notin Own(u)
          PROVE  FALSE
      <4>1. PICK o \in Requests :
              SubmittedBy(o, p, papers[p], papers'[p]) /\ req[o].person = u
        BY <3>2, OwnGrows
      <4>2. req[o].pc = "counted" /\ LockOf(o) = u
        BY <4>1 DEF SubmittedBy, LockOf
      <4>3. o = q
        BY <3>1, <4>2 DEF IInv, CountersExclude
      <4>4. req'[q] = IdleReq
        BY <4>1, <4>3, TableTypes DEF SubmittedBy, IInv
      <4>5. QED
        BY <1>1, <4>4, EmptyRows
    <3>3. Own(u)' \subseteq Own(u)
      BY <3>2
    <3>4. QED
      BY <3>1, <3>3, OwnIsFinite, SubmissionBounds
  <2>2. CASE Counted(q, req'[q]) /\ Continues(q, req'[q])
    <3> DEFINE counted == {p \in Submitted : papers[p].corresponding \in {LockOf(q), req[q].person}}
    <3>1. Cardinality(counted) < Limit /\ req[q].person = u /\ papers' = papers
      BY <1>1, <2>2 DEF Counted, Continues, CountOf
    <3>2. Own(u)' \subseteq counted
      BY <3>1 DEF Own, Submitted
    <3>3. IsFiniteSet(counted)
      BY PapersAreFinite, FS_Subset DEF Submitted
    <3>4. Cardinality(Own(u)') <= Cardinality(counted) /\ IsFiniteSet(Own(u)')
      BY <3>2, <3>3, FS_Subset
    <3>5. Cardinality(Own(u)') \in Nat /\ Cardinality(counted) \in Nat
      BY <3>3, <3>4, FS_CardinalityType
    <3>6. QED
      BY <3>1, <3>4, <3>5, SubmissionBounds
  <2>3. ~(Begins(req'[q]) \/ Retried(q, req'[q]) \/ req'[q] = IdleReq)
    BY <1>1, EmptyRows DEF Begins, Retried
  <2>4. QED
    BY <2>1, <2>2, <2>3, OneRequest DEF Moves
<1>2. QED
  BY <1>1 DEF CountStands, Own, Submitted

\* A submission adds one paper to a count below the limit.
LEMMA WithinLimitStep == IInv /\ Next => WithinLimit'
<1> SUFFICES ASSUME IInv, Next PROVE WithinLimit'
  OBVIOUS
<1>1. ASSUME NEW u \in Users
      PROVE  Cardinality(Own(u)') <= Limit
  <2>1. Cardinality(Own(u)) <= Limit
    BY DEF IInv, WithinLimit, Own
  <2>2. CASE Own(u)' \subseteq Own(u)
    BY <2>1, <2>2, OwnIsFinite, SubmissionBounds
  <2>3. ASSUME NEW p \in Own(u)', p \notin Own(u)
        PROVE  Cardinality(Own(u)') <= Limit
    <3>1. PICK q \in Requests : /\ SubmittedBy(q, p, papers[p], papers'[p])
                                /\ req[q].person = u /\ Own(u)' \subseteq Own(u) \cup {p}
      BY <2>3, OwnGrows
    <3>2. Cardinality(Own(u)) < Limit
      BY <3>1 DEF SubmittedBy, IInv, CountStands
    <3>3. /\ IsFiniteSet(Own(u) \cup {p})
          /\ Cardinality(Own(u) \cup {p}) = Cardinality(Own(u)) + 1
      BY <2>3, OwnIsFinite, FS_AddElement
    <3>4. Cardinality(Own(u)') <= Cardinality(Own(u) \cup {p}) /\ IsFiniteSet(Own(u)')
      BY <3>1, <3>3, FS_Subset
    <3>5. Cardinality(Own(u)') \in Nat /\ Cardinality(Own(u)) \in Nat
      BY <3>4, OwnIsFinite, FS_CardinalityType
    <3>6. QED
      BY <3>2, <3>3, <3>4, <3>5, SubmissionBounds
  <2>4. QED
    BY <2>2, <2>3
<1>2. SubmissionTypeOK'
  BY TypeStep
<1>3. QED
  BY <1>1, <1>2 DEF WithinLimit, Own

\* Only a clean version becomes current, and it stays clean.
LEMMA CurrentIsCleanStep == IInv /\ Next => CurrentIsClean'
<1> SUFFICES ASSUME IInv, Next PROVE CurrentIsClean'
  OBVIOUS
<1>1. ASSUME NEW p \in Papers, papers'[p].status \notin {"NONE", "DELETED"},
             papers'[p].current # 0
      PROVE  LET n == papers'[p].current
             IN  /\ n \in DOMAIN versions' /\ versions'[n].paper = p
                 /\ versions'[n].clean /\ versions'[n].scan = "CLEAN"
  <2> DEFINE n == papers'[p].current
  <2>0. \A k \in DOMAIN versions :
          /\ k \in DOMAIN versions' /\ versions'[k].paper = versions[k].paper
          /\ versions'[k].clean <=> versions[k].clean
          /\ versions[k].clean /\ versions[k].scan = "CLEAN" => versions'[k].scan = "CLEAN"
    BY VersionChanges DEF VersionsGrow
  <2>1. \/ /\ papers[p].status \notin {"NONE", "DELETED"} /\ papers[p].current = n
        \/ /\ n \in DOMAIN versions /\ versions[n].paper = p
           /\ versions[n].clean /\ versions'[n].scan = "CLEAN"
    <3>1. CASE papers'[p] = papers[p]
      BY <1>1, <3>1
    <3>2. CASE Changes(p, papers'[p])
      BY <1>1, <3>2 DEF Changes, Created, Authored, Scanned, SubmittedBy, Deleted, Withdrawn
    <3>3. QED
      BY <3>1, <3>2, OnePaper
  <2>2. CASE papers[p].status \notin {"NONE", "DELETED"} /\ papers[p].current = n
    <3>1. n \in DOMAIN versions /\ versions[n].paper = p
          /\ versions[n].clean /\ versions[n].scan = "CLEAN"
      BY <1>1, <2>2 DEF IInv, CurrentIsClean, Exists, VersionsOf
    <3>2. QED
      BY <2>0, <3>1
  <2>3. QED
    BY <2>0, <2>1, <2>2
<1>2. QED
  BY <1>1 DEF CurrentIsClean, Exists, VersionsOf

\* A draft is submitted with its current version, and keeps it.
LEMMA SubmittedHasCleanPdfStep == IInv /\ Next => SubmittedHasCleanPdf'
<1> SUFFICES ASSUME IInv, Next PROVE SubmittedHasCleanPdf'
  OBVIOUS
<1>1. ASSUME NEW p \in Papers, papers'[p].status \in {"SUBMITTED", "WITHDRAWN"}
      PROVE  papers'[p].current # 0
  <2>1. papers[p].status \in {"SUBMITTED", "WITHDRAWN"} => papers[p].current # 0
    BY TableTypes DEF IInv, SubmittedHasCleanPdf, VersionsOf
  <2>2. CASE papers'[p] = papers[p]
    BY <1>1, <2>1, <2>2
  <2>3. ASSUME NEW q \in Requests, SubmittedBy(q, p, papers[p], papers'[p])
        PROVE  papers'[p].current # 0
    BY <2>3 DEF SubmittedBy, IInv, SubmitsKnowPaper
  <2>4. CASE Changes(p, papers'[p])
    <3>1. \A n \in DOMAIN versions : n # 0
      BY TableTypes DEF IInv
    <3>2. QED
      BY <1>1, <2>1, <2>3, <2>4, <3>1 DEF Changes, Created, Authored, Scanned, Deleted, Withdrawn
  <2>5. QED
    BY <2>2, <2>4, OnePaper
<1>2. CurrentIsClean'
  BY CurrentIsCleanStep
<1>3. QED
  BY <1>1, <1>2 DEF SubmittedHasCleanPdf, CurrentIsClean, Exists, VersionsOf

-----------------------------------------------------------------------------
(* The theorems.                                                           *)

\* The inductive invariant holds initially.
LEMMA InitInvariant == Init => IInv
<1> SUFFICES ASSUME Init PROVE IInv
  OBVIOUS
<1>1. /\ papers \in [Papers -> PaperRow] /\ req \in [Requests -> RequestRow]
      /\ versions = <<>> /\ cfpOpen = TRUE
      /\ \A p \in Papers : papers[p] = NoPaper
      /\ \A q \in Requests : req[q].pc = "idle"
  BY EmptyRows DEF Init
<1>2. NoPaper.status = "NONE" /\ NoPaper.number = NoNumber /\ NoPaper.corresponding = NoOne
  BY DEF NoPaper
<1>3. versions \in Seq(VersionRow) /\ Len(versions) = 0 /\ 0 <= MaxVersions
  BY <1>1, SubmissionBounds
<1>4. SubmissionTypeOK
  BY <1>1, <1>2, <1>3 DEF SubmissionTypeOK, RequestRow, VersionRow
<1>5. RequestsAreComplete /\ SubmitsKnowPaper /\ CountersExclude /\ CountStands
  BY <1>1 DEF RequestsAreComplete, SubmitsKnowPaper, CountersExclude, CountStands
<1>6. CurrentIsClean /\ SubmittedHasCleanPdf
  BY <1>1, <1>2 DEF CurrentIsClean, Exists, SubmittedHasCleanPdf
<1>7. WithinLimit
  <2>1. \A u \in Users : Own(u) = {}
    BY <1>1, <1>2 DEF Own, Submitted
  <2>2. Cardinality({}) = 0
    BY FS_EmptySet
  <2>3. \A u \in Users : Cardinality(Own(u)) <= Limit
    BY <2>1, <2>2, SubmissionBounds
  <2>4. QED
    BY <1>4, <2>3 DEF WithinLimit, Own
<1>8. QED
  BY <1>4, <1>5, <1>6, <1>7 DEF IInv

\* A step that changes nothing keeps it.
LEMMA StutterInvariant == IInv /\ UNCHANGED submissionVars => IInv'
<1> SUFFICES ASSUME IInv, UNCHANGED submissionVars PROVE IInv'
  OBVIOUS
<1>1. cfpOpen' = cfpOpen /\ papers' = papers /\ versions' = versions /\ req' = req
  BY DEF submissionVars
<1>2. SubmissionTypeOK' /\ RequestsAreComplete' /\ SubmitsKnowPaper'
  BY <1>1 DEF IInv, SubmissionTypeOK, RequestsAreComplete, SubmitsKnowPaper
<1>3. CountersExclude' /\ CountStands'
  BY <1>1 DEF IInv, CountersExclude, CountStands, LockOf, Own, Submitted
<1>4. CurrentIsClean' /\ SubmittedHasCleanPdf' /\ WithinLimit'
  BY <1>1, <1>2 DEF IInv, CurrentIsClean, SubmittedHasCleanPdf, WithinLimit, VersionsOf, Exists,
                    Submitted
<1>5. QED
  BY <1>2, <1>3, <1>4 DEF IInv

\* Every reachable state of the submission of papers satisfies the invariant.
THEOREM SubmissionInvariance == SubmissionSpec => []IInv
<1>1. IInv /\ Next => IInv'
  BY TypeStep, RequestsAreCompleteStep, SubmitsKnowPaperStep, CountersExcludeStep,
     CountStandsStep, WithinLimitStep, CurrentIsCleanStep, SubmittedHasCleanPdfStep DEF IInv
<1>2. IInv /\ [Next]_submissionVars => IInv'
  BY <1>1, StutterInvariant
<1>3. QED
  BY <1>2, InitInvariant, PTL DEF SubmissionSpec

\* Whatever is uploaded, scanned late or twice, and deleted meanwhile, a paper
\* that was submitted has a current PDF that the scanner found clean.
THEOREM SubmittedPapersAreClean == SubmissionSpec => []SubmittedHasCleanPdf
<1>1. IInv => SubmittedHasCleanPdf
  BY DEF IInv
<1>2. QED
  BY <1>1, SubmissionInvariance, PTL

\* No interleaving of requests that count before they submit brings a
\* corresponding author over the limit.
THEOREM LimitIsKept == SubmissionSpec => []WithinLimit
<1>1. IInv => WithinLimit
  BY DEF IInv
<1>2. QED
  BY <1>1, SubmissionInvariance, PTL

\* A request that was read while the paper was a draft neither deletes it nor
\* gives it another number once it is submitted.
THEOREM SubmissionsAreFinal == SubmissionSpec => SubmittedIsFinal
<1>1. ASSUME IInv, Next, NEW p \in Papers, papers[p].status \in {"SUBMITTED", "WITHDRAWN"}
      PROVE  /\ papers'[p].number = papers[p].number
             /\ papers'[p].status \in {papers[p].status, "WITHDRAWN"}
  <2>1. CASE papers'[p] = papers[p]
    BY <2>1
  <2>2. CASE Changes(p, papers'[p])
    BY <1>1, <2>2 DEF Changes, Created, Authored, Scanned, SubmittedBy, Deleted, Withdrawn
  <2>3. QED
    BY <1>1, <2>1, <2>2, OnePaper
<1> DEFINE A == \A p \in Papers :
              papers[p].status \in {"SUBMITTED", "WITHDRAWN"} =>
                /\ papers'[p].number = papers[p].number
                /\ papers'[p].status \in {papers[p].status, "WITHDRAWN"}
<1>2. IInv /\ [Next]_submissionVars => [A]_submissionVars
  BY <1>1 DEF submissionVars
<1>3. QED
  BY <1>2, SubmissionInvariance, PTL DEF SubmissionSpec, SubmittedIsFinal

\* A closed call for papers takes nothing, whichever requests passed the first
\* look at it.
THEOREM ClosedCallTakesNothing == SubmissionSpec => ClosedCfpTakesNothing
<1>1. ASSUME IInv, Next, ~cfpOpen
      PROVE  /\ Len(versions') = Len(versions)
             /\ \A p \in Papers :
                  /\ papers[p].status \in {"NONE", "DELETED"} => papers'[p] = papers[p]
                  /\ papers[p].status = "DRAFT" =>
                       /\ papers'[p].status \in {"DRAFT", "DELETED"}
                       /\ papers'[p].status = "DRAFT" => papers'[p].authors = papers[p].authors
  <2>1. Len(versions') = Len(versions)
    BY <1>1, VersionChanges DEF VersionsGrow
  <2>2. \A q \in Requests : req[q].pc # "counted"
    BY <1>1 DEF IInv, CountersExclude
  <2>3. ASSUME NEW p \in Papers
        PROVE  /\ papers[p].status \in {"NONE", "DELETED"} => papers'[p] = papers[p]
               /\ papers[p].status = "DRAFT" =>
                    /\ papers'[p].status \in {"DRAFT", "DELETED"}
                    /\ papers'[p].status = "DRAFT" => papers'[p].authors = papers[p].authors
    <3>1. CASE papers'[p] = papers[p]
      BY <3>1
    <3>2. CASE Changes(p, papers'[p])
      BY <1>1, <2>2, <3>2 DEF Changes, Created, Authored, Scanned, SubmittedBy, Deleted, Withdrawn
    <3>3. QED
      BY <1>1, <3>1, <3>2, OnePaper
  <2>4. QED
    BY <2>1, <2>3
<1> DEFINE A == ~cfpOpen =>
       /\ Len(versions') = Len(versions)
       /\ \A p \in Papers :
            /\ papers[p].status \in {"NONE", "DELETED"} => papers'[p] = papers[p]
            /\ papers[p].status = "DRAFT" =>
                 /\ papers'[p].status \in {"DRAFT", "DELETED"}
                 /\ papers'[p].status = "DRAFT" => papers'[p].authors = papers[p].authors
<1>2. IInv /\ [Next]_submissionVars => [A]_submissionVars
  BY <1>1 DEF submissionVars
<1>3. QED
  BY <1>2, SubmissionInvariance, PTL DEF SubmissionSpec, ClosedCfpTakesNothing

=============================================================================
