----------------------------- MODULE OutreachProofs -----------------------------
(***************************************************************************)
(* Theorems about Outreach, for any addresses, templates, pages, webhooks  *)
(* and quotas, and any bounds.                                             *)
(*                                                                         *)
(* A campaign that is SENDING is carried because what a job writes last is *)
(* never SENDING (OutcomesSettle) and everything else that ends a request  *)
(* or an attempt leaves another behind, or says so on the campaign.  What  *)
(* is sent was confirmed because a page whose version is still the row's   *)
(* shows the row (PagesShowCampaign), and because a confirmed campaign is  *)
(* not editable: the only edits that can still be written were under way   *)
(* when it was confirmed (ConfirmationStands).  A settled recipient is     *)
(* spared since all that an attempt must spare were barred before it began *)
(* (SparedAreBarred) and it asks before it decides (QueuedAreNotSpared).   *)
(***************************************************************************)
EXTENDS Outreach, TLAPS

\* The outcome a job computed is a final status.
OutcomesSettle == \A j \in DOMAIN sends : sends[j].outcome # "SENDING"

\* An open webhook has a recipient's status to write.
HooksReport == \A h \in Hooks : hook[h].open => hook[h].status \in RecipientStatus

\* An attempt that has decided on a recipient has something to write.
DecisionsAct == \A j \in DOMAIN sends : sends[j].state = "decided" => sends[j].act # "none"

\* A page with the row's version shows the row's template and recipients.
PagesShowCampaign ==
  \A p \in unchanged : page[p].pc = "viewing" =>
    page[p].template = campaign.template /\ page[p].import = imports

\* While a confirmation stands nobody can begin an edit, those that are under way
\* were under way when it was given, and the campaign is what was shown.
ConfirmationStands ==
  campaign.shown.stands =>
    /\ campaign.status \notin {"DRAFT", "READY"}
    /\ Editing \subseteq campaign.shown.early
    /\ campaign.template = campaign.shown.template
    /\ imports = campaign.shown.import

\* Of the listed recipients an attempt must not mail those that were barred.
SparedAreBarred == \A j \in DOMAIN sends : \A r \in sends[j].spared : r[1] \in barred

\* A recipient that will be mailed is not one to spare.
QueuedAreNotSpared ==
  \A j \in DOMAIN sends :
    \/ sends[j].state = "decided" /\ sends[j].act = "QUEUED"
    \/ sends[j].state = "sending"
    => sends[j].to \notin sends[j].spared

IInv ==
  /\ SendingIsCarried
  /\ OutcomesSettle
  /\ HooksReport
  /\ DecisionsAct
  /\ PagesShowCampaign
  /\ ConfirmationStands
  /\ SparedAreBarred
  /\ QueuedAreNotSpared

-----------------------------------------------------------------------------
(* Rows and their types.                                                   *)

RecipientRow == [status : RecipientStatus, import : 1..MaxImports, mailed : BOOLEAN]

ShownRow == [stands : BOOLEAN, template : Templates \cup {NoTemplate},
             import : 0..MaxImports, early : SUBSET Pages]

CampaignRow == [status : CampaignStatus, template : Templates \cup {NoTemplate},
                stranded : BOOLEAN, shown : ShownRow]

SendRow ==
  [state : {"waiting", "loaded", "next", "decided", "sending", "accepted", "refused",
            "finishing", "written", "done", "spent"},
   tries : 0..SendRetries, list : SUBSET RecipientIds,
   left : Int, spared : SUBSET RecipientIds, to : RecipientIds \cup {<<>>},
   act : {"none", "SKIPPED", "FAILED", "QUEUED"}, outcome : CampaignStatus]

PageRow == [pc : {"idle", "importing", "selecting", "viewing", "confirmed"},
            template : Templates \cup {NoTemplate}, had : BOOLEAN, import : 0..MaxImports]

HookRow == [open : BOOLEAN, to : SUBSET RecipientIds,
            status : RecipientStatus \cup {"NONE"}, bars : BOOLEAN,
            outcome : CampaignStatus]

\* The tables, row by row.
LEMMA TableTypes ==
  ASSUME OutreachTypeOK
  PROVE  /\ campaign \in CampaignRow
         /\ recipients \in [Addresses -> {NoRow} \cup RecipientRow]
         /\ imports \in 0..MaxImports /\ barred \subseteq Addresses
         /\ sends \in Seq(SendRow) /\ Len(sends) \in Nat /\ DOMAIN sends = 1..Len(sends)
         /\ \A j \in DOMAIN sends : sends[j] \in SendRow
         /\ page \in [Pages -> PageRow] /\ unchanged \subseteq Pages
         /\ hook \in [Hooks -> HookRow]
<1>1. sends \in Seq(SendRow)
  BY DEF OutreachTypeOK, SendRow
<1>2. \A j \in DOMAIN sends : sends[j] \in SendRow
  BY <1>1
<1>3. QED
  BY <1>1, <1>2 DEF OutreachTypeOK, CampaignRow, ShownRow, RecipientRow, PageRow, HookRow

\* The bounds are numbers.
LEMMA Bounds == MaxImports \in Nat /\ SendRetries \in Nat
  BY OutreachAssumption

\* The statuses that the recipients of a campaign give it are final.
LEMMA DerivedStatus ==
  \A statuses : Derived(statuses) \in {"SENT", "PARTIAL", "FAILED"}
  BY DEF Derived

\* What is read at the end of a job is a final status, whatever it sees.
LEMMA RollupStatus ==
  ASSUME OutreachTypeOK, NEW statuses, NEW finalize \in BOOLEAN
  PROVE  /\ Rollup(statuses, finalize) \in CampaignStatus
         /\ finalize => Rollup(statuses, finalize) # "SENDING"
<1>1. campaign.status \in CampaignStatus
  BY DEF OutreachTypeOK
<1>2. Derived(statuses) \in {"SENT", "PARTIAL", "FAILED"}
  BY DerivedStatus
<1>3. QED
  BY <1>1, <1>2 DEF Rollup, CampaignStatus

\* A listed recipient has an id and a row; no other row has its id.
LEMMA ListedRows ==
  ASSUME OutreachTypeOK
  PROVE  /\ Listed \subseteq Addresses /\ NoRow.status = "NONE" /\ NoRow.import = 0
         /\ \A a \in Listed : recipients[a] \in RecipientRow /\ Recipient(a) \in RecipientIds
         /\ \A a \in Addresses : Recipient(a) \in RecipientIds => a \in Listed
         /\ \A r \in RecipientIds : r[1] \in Addresses
<1>1. NoRow.status = "NONE" /\ NoRow.import = 0
  BY DEF NoRow
<1>2. \A a \in Addresses : recipients[a] \in {NoRow} \cup RecipientRow
  BY TableTypes
<1>3. \A v \in RecipientRow : v.status # "NONE" /\ v.import \in 1..MaxImports
  BY DEF RecipientRow, RecipientStatus, SentStatuses, FailedStatuses, SkippedStatuses
<1>4. \A a \in Listed : a \in Addresses /\ recipients[a] \in RecipientRow
  BY <1>1, <1>2 DEF Listed
<1>5. \A a \in Listed : Recipient(a) \in RecipientIds
  BY <1>3, <1>4 DEF Recipient, RecipientIds
<1>6. \A a \in Addresses : Recipient(a) \in RecipientIds => a \in Listed
  BY <1>1, <1>2, <1>3, Bounds DEF Recipient, RecipientIds, Listed
<1>7. \A r \in RecipientIds : r[1] \in Addresses
  BY DEF RecipientIds
<1>8. QED
  BY <1>1, <1>4, <1>5, <1>6, <1>7

\* A job that has not begun.
LEMMA NoSendRow ==
  /\ NoSend \in SendRow /\ NoSend.state = "waiting"
  /\ NoSend.outcome = "DRAFT" /\ NoSend.spared = {}
  /\ \A tries \in 0..SendRetries, state \in {"waiting", "done", "spent"} :
       LET s == [NoSend EXCEPT !.tries = tries, !.state = state]
       IN  s \in SendRow /\ s.state = state /\ s.outcome = "DRAFT" /\ s.spared = {}
  /\ \A tries \in 0..SendRetries :
       LET s == [NoSend EXCEPT !.tries = tries]
       IN  s \in SendRow /\ s.state = "waiting" /\ s.outcome = "DRAFT" /\ s.spared = {}
<1>1. NoSend \in SendRow
  BY Bounds, 0 \in 0..SendRetries DEF NoSend, SendRow, CampaignStatus
<1>2. \A tries \in 0..SendRetries, state \in {"waiting", "done", "spent"} :
       LET s == [NoSend EXCEPT !.tries = tries, !.state = state]
       IN  s \in SendRow /\ s.state = state
  BY <1>1 DEF SendRow
<1>3. \A tries \in 0..SendRetries : [NoSend EXCEPT !.tries = tries] \in SendRow
  BY <1>1 DEF SendRow
<1>4. QED
  BY <1>1, <1>2, <1>3 DEF NoSend

-----------------------------------------------------------------------------
(* How one step changes a job: s is its row before and t after the step.   *)

\* An attempt reads the campaign.
Loads(s, t) ==
  /\ s.state = "waiting" /\ t.state = "loaded"
  /\ t.outcome = s.outcome /\ t.spared = s.spared

\* An attempt lists its recipients; whom it must spare is barred.
Starts(s, t) ==
  /\ s.state = "loaded" /\ t.state = "next" /\ t.outcome = s.outcome
  /\ \A r \in t.spared : r[1] \in barred

\* A recipient is considered; one that is barred is not queued.
Considers(s, t) ==
  /\ s.state = "next" /\ t.state = "decided" /\ t.outcome = s.outcome
  /\ t.spared = s.spared /\ t.act # "none" /\ (t.act = "QUEUED" => t.to[1] \notin barred)

\* The recipient is marked as queued.
Queues(s, t) ==
  /\ s.state = "decided" /\ s.act = "QUEUED" /\ t.state = "sending"
  /\ t.outcome = s.outcome /\ t.spared = s.spared /\ t.to = s.to

\* The provider answers, or does not.
Mails(s, t) ==
  /\ s.state = "sending" /\ t.state \in {"accepted", "refused"}
  /\ t.outcome = s.outcome /\ t.spared = s.spared

\* The recipient is done with, and the next one comes.
GoesOn(s, t) ==
  /\ s.state \in {"decided", "accepted", "refused"} /\ t.state = "next"
  /\ t.outcome = s.outcome /\ t.spared \subseteq s.spared

\* The outcome is read.
Reads(s, t) ==
  /\ s.state = "next" /\ t.state = "finishing"
  /\ t.outcome # "SENDING" /\ t.spared = s.spared

\* The outcome is written.
Writes(s, t) ==
  /\ s.state = "finishing" /\ t.state = "written"
  /\ t.outcome = s.outcome /\ t.spared = s.spared
  /\ campaign'.status = s.outcome

\* The job is over, or will begin again.
Ends(s, t) ==
  /\ \/ s.state \notin {"done", "spent"} /\ t.state \in {"waiting", "spent"}
     \/ s.state = "written" /\ t.state = "done"
  /\ t.outcome = "DRAFT" /\ t.spared = {}

Advances(j, t) ==
  /\ sends' = [sends EXCEPT ![j] = t] /\ t \in SendRow
  /\ \/ Loads(sends[j], t) \/ Starts(sends[j], t) \/ Considers(sends[j], t)
     \/ Queues(sends[j], t) \/ Mails(sends[j], t) \/ GoesOn(sends[j], t)
     \/ Reads(sends[j], t) \/ Writes(sends[j], t) \/ Ends(sends[j], t)

\* An attempt that throws ends.
LEMMA ThrowEnds ==
  ASSUME OutreachTypeOK, NEW j \in DOMAIN sends, Throw(j),
         sends[j].state \notin {"done", "spent"}
  PROVE  \E t \in SendRow : Advances(j, t)
<1> DEFINE tries == sends[j].tries
<1>1. sends[j] \in SendRow /\ tries \in 0..SendRetries /\ SendRetries \in Nat
  BY TableTypes, Bounds DEF SendRow
<1>2. CASE tries < SendRetries
  <2> DEFINE t == [NoSend EXCEPT !.tries = tries + 1]
  <2>1. tries + 1 \in 0..SendRetries
    BY <1>1, <1>2
  <2>2. t \in SendRow /\ t.state = "waiting" /\ t.outcome = "DRAFT" /\ t.spared = {}
    BY <2>1, NoSendRow
  <2>3. sends' = [sends EXCEPT ![j] = t]
    BY <1>2 DEF Throw
  <2> HIDE DEF t
  <2>4. Ends(sends[j], t)
    BY <2>2 DEF Ends
  <2>5. QED
    BY <2>2, <2>3, <2>4 DEF Advances
<1>3. CASE ~(tries < SendRetries)
  <2> DEFINE t == [NoSend EXCEPT !.tries = tries, !.state = "spent"]
  <2>1. t \in SendRow /\ t.state = "spent" /\ t.outcome = "DRAFT" /\ t.spared = {}
    BY <1>1, NoSendRow
  <2>2. sends' = [sends EXCEPT ![j] = t]
    BY <1>3 DEF Throw
  <2> HIDE DEF t
  <2>3. Ends(sends[j], t)
    BY <2>1 DEF Ends
  <2>4. QED
    BY <2>1, <2>2, <2>3 DEF Advances
<1>4. QED
  BY <1>2, <1>3

\* A job begins, or considers a recipient.
LEMMA BeginAdvances ==
  ASSUME OutreachTypeOK, NEW j \in DOMAIN sends,
         \/ \E left \in Quotas : Begin(j, left)
         \/ Consider(j)
  PROVE  \E t \in SendRow : Advances(j, t)
<1>0. sends[j] \in SendRow
  BY TableTypes
<1>1. ASSUME NEW left \in Quotas, Begin(j, left)
      PROVE  \E t \in SendRow : Advances(j, t)
  <2> DEFINE listed == {a \in Listed : recipients[a].status \in Resumable}
             list == {Recipient(a) : a \in listed}
             spared == {Recipient(a) : a \in listed \cap Settled}
             t == [sends[j] EXCEPT !.state = "next", !.left = left, !.list = list,
                                   !.spared = spared]
  <2>1. list \in SUBSET RecipientIds /\ spared \in SUBSET RecipientIds
    BY ListedRows
  <2>2. \A r \in spared : r[1] \in barred
    BY DEF Settled, Recipient
  <2>3. left \in Int
    BY OutreachAssumption
  <2>4. sends' = [sends EXCEPT ![j].state = "next", ![j].left = left, ![j].list = list,
                               ![j].spared = spared]
    BY <1>1 DEF Begin
  <2>5. sends[j].state = "loaded"
    BY <1>1 DEF Begin
  <2> HIDE DEF list, spared
  <2>6. sends' = [sends EXCEPT ![j] = t]
    BY <2>4
  <2>7. t \in SendRow
    BY <1>0, <2>1, <2>3 DEF SendRow
  <2>8. t.state = "next" /\ t.spared = spared /\ t.outcome = sends[j].outcome
    BY <1>0 DEF SendRow
  <2> HIDE DEF t
  <2>9. Starts(sends[j], t)
    BY <2>2, <2>5, <2>8 DEF Starts
  <2>10. QED
    BY <2>6, <2>7, <2>9 DEF Advances
<1>2. ASSUME Consider(j)
      PROVE  \E t \in SendRow : Advances(j, t)
  <2>1. PICK r \in sends[j].list :
          sends' = [sends EXCEPT ![j].state = "decided", ![j].to = r, ![j].list = @ \ {r},
            ![j].act = IF IsBarred(r) THEN "SKIPPED"
                       ELSE IF sends[j].left = 0 THEN "FAILED" ELSE "QUEUED"]
    BY <1>2 DEF Consider
  <2> DEFINE act == IF IsBarred(r) THEN "SKIPPED"
                    ELSE IF sends[j].left = 0 THEN "FAILED" ELSE "QUEUED"
             t == [sends[j] EXCEPT !.state = "decided", !.to = r, !.list = @ \ {r}, !.act = act]
  <2>2. act \in {"SKIPPED", "FAILED", "QUEUED"} /\ (act = "QUEUED" => r[1] \notin barred)
    BY DEF IsBarred
  <2>3. sends' = [sends EXCEPT ![j].state = "decided", ![j].to = r, ![j].list = @ \ {r},
                               ![j].act = act]
    BY <2>1
  <2>4. sends[j].state = "next"
    BY <1>2 DEF Consider
  <2>5. r \in RecipientIds
    BY <1>0 DEF SendRow
  <2> HIDE DEF act
  <2>6. sends' = [sends EXCEPT ![j] = t]
    BY <2>3
  <2>7. t \in SendRow
    BY <1>0, <2>2, <2>5 DEF SendRow
  <2>8. /\ t.state = "decided" /\ t.to = r /\ t.act = act
        /\ t.spared = sends[j].spared /\ t.outcome = sends[j].outcome
    BY <1>0 DEF SendRow
  <2> HIDE DEF t
  <2>9. Considers(sends[j], t)
    BY <2>2, <2>4, <2>8 DEF Considers
  <2>10. QED
    BY <2>6, <2>7, <2>9 DEF Advances
<1>3. QED
  BY <1>1, <1>2

\* On to the next recipient.
LEMMA GoOnAdvances ==
  ASSUME OutreachTypeOK, NEW j \in DOMAIN sends, NEW sent \in 0..1, GoOn(j, sent),
         sends[j].state \in {"decided", "accepted", "refused"}
  PROVE  \E t \in SendRow : Advances(j, t)
<1> DEFINE t == [sends[j] EXCEPT !.state = "next", !.left = @ - sent, !.to = <<>>,
                                 !.act = "none", !.spared = @ \cap sends[j].list]
<1>1. sends[j] \in SendRow /\ sends[j].left - sent \in Int
  BY TableTypes DEF SendRow
<1>2. sends' = [sends EXCEPT ![j] = t]
  BY DEF GoOn
<1>3. t \in SendRow
  BY <1>1 DEF SendRow
<1>4. /\ t.state = "next" /\ t.spared \subseteq sends[j].spared
      /\ t.outcome = sends[j].outcome
  BY <1>1 DEF SendRow
<1> HIDE DEF t
<1>5. GoesOn(sends[j], t)
  BY <1>4 DEF GoesOn
<1>6. QED
  BY <1>2, <1>3, <1>5 DEF Advances

\* Only the state of a job changes.
LEMMA StateChanges ==
  ASSUME OutreachTypeOK, NEW j \in DOMAIN sends,
         NEW state \in {"loaded", "sending", "accepted", "refused", "written"}, Goto(j, state)
  PROVE  \E t \in SendRow :
           /\ sends' = [sends EXCEPT ![j] = t] /\ t.state = state
           /\ t.outcome = sends[j].outcome /\ t.spared = sends[j].spared /\ t.to = sends[j].to
<1> DEFINE t == [sends[j] EXCEPT !.state = state]
<1>1. sends[j] \in SendRow
  BY TableTypes
<1>2. t \in SendRow
  BY <1>1 DEF SendRow
<1>3. /\ t.state = state /\ t.outcome = sends[j].outcome
      /\ t.spared = sends[j].spared /\ t.to = sends[j].to
  BY <1>1 DEF SendRow
<1>4. sends' = [sends EXCEPT ![j] = t]
  BY DEF Goto
<1> HIDE DEF t
<1>5. QED
  BY <1>2, <1>3, <1>4

\* What the provider said of a recipient is recorded, or the row is gone.
LEMMA RecordAdvances ==
  ASSUME OutreachTypeOK, NEW j \in DOMAIN sends,
         Mark(j) \/ RecordSent(j) \/ RecordFailed(j)
  PROVE  \E t \in SendRow : Advances(j, t)
<1>0. 0 \in 0..1 /\ 1 \in 0..1
  OBVIOUS
<1>1. sends[j].state \in {"decided", "accepted", "refused"}
  BY DEF Mark, RecordSent, RecordFailed
<1>2. CASE Throw(j)
  BY <1>1, <1>2, ThrowEnds
<1>3. CASE GoOn(j, 0) \/ GoOn(j, 1)
  BY <1>0, <1>1, <1>3, GoOnAdvances
<1>4. ASSUME Mark(j), sends[j].act = "QUEUED", Goto(j, "sending")
      PROVE  \E t \in SendRow : Advances(j, t)
  <2>1. PICK t \in SendRow :
          /\ sends' = [sends EXCEPT ![j] = t] /\ t.state = "sending"
          /\ t.outcome = sends[j].outcome /\ t.spared = sends[j].spared /\ t.to = sends[j].to
    BY <1>4, StateChanges
  <2>2. Queues(sends[j], t)
    BY <1>4, <2>1 DEF Mark, Queues
  <2>3. QED
    BY <2>1, <2>2 DEF Advances
<1>5. CASE Mark(j)
  BY <1>2, <1>3, <1>4, <1>5 DEF Mark, WriteRecipient
<1>6. CASE RecordSent(j) \/ RecordFailed(j)
  BY <1>2, <1>3, <1>6 DEF RecordSent, RecordFailed, WriteRecipient
<1>7. QED
  BY <1>5, <1>6

\* The other steps of a job.
LEMMA OtherAdvances ==
  ASSUME OutreachTypeOK, NEW j \in DOMAIN sends,
         \/ LoadSend(j) \/ LimitsFail(j) \/ Mail(j) \/ Refuse(j) \/ ReadOutcome(j)
         \/ WriteOutcome(j) \/ CompleteSend(j) \/ SendStops(j)
  PROVE  \E t \in SendRow : Advances(j, t)
<1>0. sends[j] \in SendRow
  BY TableTypes
<1>1. CASE LimitsFail(j) \/ SendStops(j)
  BY <1>1, ThrowEnds DEF LimitsFail, SendStops
<1>2. CASE Mail(j) \/ Refuse(j)
  <2>1. sends[j].state = "sending" /\ \E state \in {"accepted", "refused"} : Goto(j, state)
    BY <1>2 DEF Mail, Refuse
  <2>2. PICK t \in SendRow :
          /\ sends' = [sends EXCEPT ![j] = t] /\ t.state \in {"accepted", "refused"}
          /\ t.outcome = sends[j].outcome /\ t.spared = sends[j].spared /\ t.to = sends[j].to
    BY <2>1, StateChanges
  <2>3. Mails(sends[j], t)
    BY <2>1, <2>2 DEF Mails
  <2>4. QED
    BY <2>2, <2>3 DEF Advances
<1>3. CASE ReadOutcome(j)
  <2> DEFINE outcome == Rollup(StatusesNow, TRUE)
             t == [sends[j] EXCEPT !.state = "finishing", !.outcome = outcome]
  <2>1. outcome \in CampaignStatus /\ outcome # "SENDING"
    BY RollupStatus
  <2>2. sends' = [sends EXCEPT ![j].state = "finishing", ![j].outcome = outcome]
        /\ sends[j].state = "next"
    BY <1>3 DEF ReadOutcome
  <2> HIDE DEF outcome
  <2>3. sends' = [sends EXCEPT ![j] = t]
    BY <2>2
  <2>4. t \in SendRow
    BY <1>0, <2>1 DEF SendRow
  <2>5. t.state = "finishing" /\ t.outcome = outcome /\ t.spared = sends[j].spared
    BY <1>0 DEF SendRow
  <2> HIDE DEF t
  <2>6. Reads(sends[j], t)
    BY <2>1, <2>2, <2>5 DEF Reads
  <2>7. QED
    BY <2>3, <2>4, <2>6 DEF Advances
<1>4. CASE WriteOutcome(j)
  <2>1. PICK t \in SendRow :
          /\ sends' = [sends EXCEPT ![j] = t] /\ t.state = "written"
          /\ t.outcome = sends[j].outcome /\ t.spared = sends[j].spared /\ t.to = sends[j].to
    BY <1>4, StateChanges DEF WriteOutcome
  <2>2. campaign'.status = sends[j].outcome /\ sends[j].state = "finishing"
    BY <1>4, TableTypes DEF WriteOutcome, SetStatus, CampaignRow
  <2>3. Writes(sends[j], t)
    BY <2>1, <2>2 DEF Writes
  <2>4. QED
    BY <2>1, <2>3 DEF Advances
<1>5. CASE CompleteSend(j)
  <2> DEFINE tries == sends[j].tries
             t == [NoSend EXCEPT !.tries = tries, !.state = "done"]
  <2>1. tries \in 0..SendRetries
    BY <1>0 DEF SendRow
  <2>2. t \in SendRow /\ t.state = "done" /\ t.outcome = "DRAFT" /\ t.spared = {}
    BY <2>1, NoSendRow
  <2>3. sends' = [sends EXCEPT ![j] = [NoSend EXCEPT !.state = "done", !.tries = tries]]
        /\ sends[j].state = "written"
    BY <1>5 DEF CompleteSend
  <2>4. t = [NoSend EXCEPT !.state = "done", !.tries = tries]
    BY DEF NoSend
  <2> HIDE DEF t
  <2>5. Ends(sends[j], t)
    BY <2>2, <2>3 DEF Ends
  <2>6. QED
    BY <2>2, <2>3, <2>4, <2>5 DEF Advances
<1>6. CASE LoadSend(j)
  <2>1. PICK t \in SendRow :
          /\ sends' = [sends EXCEPT ![j] = t] /\ t.state = "loaded"
          /\ t.outcome = sends[j].outcome /\ t.spared = sends[j].spared /\ t.to = sends[j].to
    BY <1>6, StateChanges DEF LoadSend
  <2>2. Loads(sends[j], t)
    BY <1>6, <2>1 DEF LoadSend, Loads
  <2>3. QED
    BY <2>1, <2>2 DEF Advances
<1>7. QED
  BY <1>1, <1>2, <1>3, <1>4, <1>5, <1>6

\* Every step leaves the jobs alone, enqueues one, or advances one.
LEMMA SendChanges ==
  ASSUME OutreachTypeOK, OutreachNext
  PROVE  \/ sends' = sends
         \/ \E p \in Pages : Enqueue(p)
         \/ page' = page /\ \E j \in DOMAIN sends, t \in SendRow : Advances(j, t)
<1>1. ASSUME NEW j \in DOMAIN sends, RunStep(j)
      PROVE  page' = page /\ \E t \in SendRow : Advances(j, t)
  <2>1. page' = page
    BY <1>1 DEF RunStep, LoadSend, Begin, LimitsFail, Consider, Mark, Mail, Refuse, RecordSent,
                RecordFailed, ReadOutcome, WriteOutcome, CompleteSend, SendStops, WriteRecipient
  <2>2. QED
    BY <1>1, <2>1, BeginAdvances, RecordAdvances, OtherAdvances DEF RunStep
<1>2. ASSUME NEW p \in Pages, PageStep(p)
      PROVE  sends' = sends \/ Enqueue(p)
  BY <1>2 DEF PageStep, ImportRead, ImportWrite, SelectRead, SelectWrite, View, Confirm,
              EnqueueFails, PageStops
<1>3. ASSUME NEW h \in Hooks, ReportStep(h)
      PROVE  sends' = sends
  BY <1>3 DEF ReportStep, Report, CommitReport, RollbackReport
<1>4. QED
  BY <1>1, <1>2, <1>3 DEF OutreachNext

\* One job through one step.
LEMMA OneSend ==
  ASSUME OutreachTypeOK, OutreachNext
  PROVE  /\ sends' \in Seq(SendRow)
         /\ \A k \in DOMAIN sends' :
              \/ k \in DOMAIN sends /\ sends'[k] = sends[k]
              \/ k \in DOMAIN sends /\ Advances(k, sends'[k])
              \/ k \notin DOMAIN sends /\ sends'[k] = NoSend
         /\ \A k \in DOMAIN sends : k \in DOMAIN sends'
<1>0. sends \in Seq(SendRow) /\ Len(sends) \in Nat /\ DOMAIN sends = 1..Len(sends)
  BY TableTypes
<1>1. CASE sends' = sends
  BY <1>0, <1>1
<1>2. ASSUME NEW p \in Pages, Enqueue(p)
      PROVE  /\ sends' \in Seq(SendRow)
             /\ \A k \in DOMAIN sends' :
                  \/ k \in DOMAIN sends /\ sends'[k] = sends[k]
                  \/ k \notin DOMAIN sends /\ sends'[k] = NoSend
             /\ \A k \in DOMAIN sends : k \in DOMAIN sends'
  <2>1. sends' = Append(sends, NoSend) /\ NoSend \in SendRow
    BY <1>2, NoSendRow DEF Enqueue
  <2>2. QED
    BY <1>0, <2>1
<1>3. ASSUME NEW j \in DOMAIN sends, NEW t \in SendRow, Advances(j, t)
      PROVE  /\ sends' \in Seq(SendRow)
             /\ \A k \in DOMAIN sends' :
                  \/ k \in DOMAIN sends /\ sends'[k] = sends[k]
                  \/ k \in DOMAIN sends /\ Advances(k, sends'[k])
             /\ \A k \in DOMAIN sends : k \in DOMAIN sends'
  <2>1. sends' = [sends EXCEPT ![j] = t]
    BY <1>3 DEF Advances
  <2>2. /\ sends' \in Seq(SendRow) /\ DOMAIN sends' = DOMAIN sends
        /\ sends'[j] = t /\ \A k \in DOMAIN sends : k # j => sends'[k] = sends[k]
    BY <1>0, <2>1
  <2>3. QED
    BY <1>3, <2>2
<1>4. QED
  BY <1>1, <1>2, <1>3, SendChanges

-----------------------------------------------------------------------------
(* How one step changes the pages and the campaign.                        *)

\* The pages after one step.
LEMMA PageAfter ==
  ASSUME OutreachTypeOK, OutreachNext
  PROVE  /\ page' \in [Pages -> PageRow]
         /\ \A p \in Pages : page'[p] = page[p] \/ PageStep(p)
<1>0. /\ page \in [Pages -> PageRow] /\ campaign.template \in Templates \cup {NoTemplate}
      /\ imports \in 0..MaxImports /\ NoPage \in PageRow
  BY TableTypes, Bounds DEF NoPage, PageRow, CampaignRow
<1>1. ASSUME NEW p \in Pages, NEW w \in PageRow, page' = [page EXCEPT ![p] = w], PageStep(p)
      PROVE  /\ page' \in [Pages -> PageRow]
             /\ \A o \in Pages : page'[o] = page[o] \/ PageStep(o)
  BY <1>0, <1>1
<1>2. ASSUME NEW p \in Pages, PageStep(p)
      PROVE  \E w \in PageRow : page' = [page EXCEPT ![p] = w]
  <2>0. page[p] \in PageRow
    BY <1>0
  <2>1. ASSUME NEW b \in BOOLEAN, NEW pc \in {"importing", "selecting"}
        PROVE  /\ [page[p] EXCEPT !.pc = pc, !.had = b] \in PageRow
               /\ [page EXCEPT ![p].pc = pc, ![p].had = b] =
                    [page EXCEPT ![p] = [page[p] EXCEPT !.pc = pc, !.had = b]]
    BY <2>0 DEF PageRow
  <2>2. ASSUME ImportRead(p)
        PROVE  \E w \in PageRow : page' = [page EXCEPT ![p] = w]
    <3> DEFINE b == campaign.template # NoTemplate
    <3>1. b \in BOOLEAN
      OBVIOUS
    <3>2. page' = [page EXCEPT ![p].pc = "importing", ![p].had = b]
      BY <2>2 DEF ImportRead
    <3> HIDE DEF b
    <3>3. QED
      BY <2>1, <3>1, <3>2
  <2>3. ASSUME SelectRead(p)
        PROVE  \E w \in PageRow : page' = [page EXCEPT ![p] = w]
    <3> DEFINE b == Listed # {}
    <3>1. b \in BOOLEAN
      OBVIOUS
    <3>2. page' = [page EXCEPT ![p].pc = "selecting", ![p].had = b]
      BY <2>3 DEF SelectRead
    <3> HIDE DEF b
    <3>3. QED
      BY <2>1, <3>1, <3>2
  <2>4. ASSUME View(p)
        PROVE  \E w \in PageRow : page' = [page EXCEPT ![p] = w]
    <3> DEFINE w == [page[p] EXCEPT !.pc = "viewing", !.template = campaign.template,
                                    !.import = imports]
    <3>1. w \in PageRow
      BY <1>0, <2>0 DEF PageRow
    <3>2. page' = [page EXCEPT ![p] = w]
      BY <2>4 DEF View
    <3> HIDE DEF w
    <3>3. QED
      BY <3>1, <3>2
  <2>5. ASSUME Confirm(p)
        PROVE  \E w \in PageRow : page' = [page EXCEPT ![p] = w]
    <3>1. [NoPage EXCEPT !.pc = "confirmed"] \in PageRow
      BY <1>0 DEF PageRow
    <3>2. QED
      BY <2>5, <3>1 DEF Confirm
  <2>6. ASSUME \/ \E valid \in SUBSET Addresses : ImportWrite(p, valid)
               \/ \E t \in Templates : SelectWrite(p, t)
               \/ Enqueue(p) \/ EnqueueFails(p) \/ PageStops(p)
        PROVE  \E w \in PageRow : page' = [page EXCEPT ![p] = w]
    BY <1>0, <2>6 DEF ImportWrite, SelectWrite, Enqueue, EnqueueFails, PageStops, Answered
  <2>7. QED
    BY <1>2, <2>2, <2>3, <2>4, <2>5, <2>6 DEF PageStep
<1>3. ASSUME NEW j \in DOMAIN sends, RunStep(j)
      PROVE  page' = page
  BY <1>3 DEF RunStep, LoadSend, Begin, LimitsFail, Consider, Mark, Mail, Refuse, RecordSent, RecordFailed,
              ReadOutcome, WriteOutcome, CompleteSend, SendStops, WriteRecipient
<1>4. ASSUME NEW h \in Hooks, ReportStep(h)
      PROVE  page' = page
  BY <1>4 DEF ReportStep, Report, CommitReport, RollbackReport
<1>5. QED
  BY <1>0, <1>1, <1>2, <1>3, <1>4 DEF OutreachNext

\* What is shown remains a row, and stands only if it is not overtaken.
LEMMA ShownKept ==
  ASSUME OutreachTypeOK
  PROVE  /\ campaign.shown \in ShownRow
         /\ \A p : LET shown == ShownUnless(OvertakenBy(p))
                   IN  /\ shown \in ShownRow
                       /\ shown.stands => shown = campaign.shown /\ p \notin campaign.shown.early
         /\ \A status : LET shown == ShownUnless(OvertakenByStatus(status))
                        IN  /\ shown \in ShownRow
                            /\ shown.stands =>
                                 shown = campaign.shown /\ status \notin {"DRAFT", "READY"}
<1>1. campaign.shown \in ShownRow
  BY TableTypes DEF CampaignRow
<1>2. NothingShown \in ShownRow /\ ~NothingShown.stands
  BY Bounds DEF NothingShown, ShownRow
<1>3. \A p : ShownUnless(OvertakenBy(p)) =
               IF p \in campaign.shown.early THEN NothingShown ELSE campaign.shown
  BY DEF ShownUnless, OvertakenBy
<1>4. \A status : ShownUnless(OvertakenByStatus(status)) =
                    IF status \in {"DRAFT", "READY"} THEN NothingShown ELSE campaign.shown
  BY DEF ShownUnless, OvertakenByStatus
<1>5. QED
  BY <1>1, <1>2, <1>3, <1>4

\* A write of the campaign's status.
LEMMA StatusWritten ==
  ASSUME OutreachTypeOK, NEW status \in CampaignStatus, NEW shown \in ShownRow,
         SetStatus(status, shown)
  PROVE  /\ campaign' \in CampaignRow /\ campaign'.status = status /\ unchanged' = {}
         /\ campaign'.shown = shown /\ campaign'.template = campaign.template
<1>1. campaign \in CampaignRow
  BY TableTypes
<1>2. campaign' = [campaign EXCEPT !.status = status, !.stranded = FALSE, !.shown = shown]
      /\ unchanged' = {}
  BY DEF SetStatus
<1>3. QED
  BY <1>1, <1>2 DEF CampaignRow

\* A confirmation writes what the page shows and who is editing.
LEMMA ConfirmWritten ==
  ASSUME OutreachTypeOK, NEW p \in Pages, Confirm(p)
  PROVE  /\ campaign' \in CampaignRow /\ campaign'.status = "SENDING" /\ unchanged' = {}
         /\ campaign'.template = campaign.template
         /\ campaign'.shown.template = page[p].template
         /\ campaign'.shown.import = page[p].import
         /\ campaign'.shown.early = Editing
<1> DEFINE shown == [stands |-> TRUE, template |-> page[p].template,
                     import |-> page[p].import, early |-> Editing]
<1>1. page[p] \in PageRow /\ Editing \in SUBSET Pages
  BY TableTypes DEF Editing
<1>2. shown \in ShownRow
  BY <1>1 DEF ShownRow, PageRow
<1>3. SetStatus("SENDING", shown)
  BY DEF Confirm
<1>4. "SENDING" \in CampaignStatus
  BY DEF CampaignStatus
<1>5. /\ shown.template = page[p].template /\ shown.import = page[p].import
      /\ shown.early = Editing
  OBVIOUS
<1> HIDE DEF shown
<1>6. /\ campaign' \in CampaignRow /\ campaign'.status = "SENDING" /\ unchanged' = {}
      /\ campaign'.shown = shown /\ campaign'.template = campaign.template
  BY <1>2, <1>3, <1>4, StatusWritten
<1>7. QED
  BY <1>5, <1>6

\* A request that stops leaves the campaign as it was, and says so.
LEMMA PageStopped ==
  ASSUME OutreachTypeOK, NEW p \in Pages, PageStops(p)
  PROVE  /\ campaign' \in CampaignRow
         /\ campaign'.status = campaign.status /\ campaign'.template = campaign.template
         /\ campaign.stranded \/ page[p].pc = "confirmed" => campaign'.stranded
         /\ unchanged' \subseteq unchanged
         /\ campaign'.shown.stands = campaign.shown.stands
         /\ campaign'.shown.template = campaign.shown.template
         /\ campaign'.shown.import = campaign.shown.import
         /\ campaign'.shown.early = campaign.shown.early \ {p}
<1> DEFINE b == campaign.stranded \/ page[p].pc = "confirmed"
           shown == [campaign.shown EXCEPT !.early = @ \ {p}]
<1>1. campaign \in CampaignRow /\ b \in BOOLEAN /\ campaign.shown \in ShownRow
  BY TableTypes DEF CampaignRow
<1>2. campaign' = [campaign EXCEPT !.stranded = b, !.shown = shown]
      /\ unchanged' = unchanged \ {p}
  BY <1>1 DEF PageStops, CampaignRow
<1>3. b <=> campaign.stranded \/ page[p].pc = "confirmed"
  OBVIOUS
<1>4. /\ shown \in ShownRow /\ shown.stands = campaign.shown.stands
      /\ shown.template = campaign.shown.template /\ shown.import = campaign.shown.import
      /\ shown.early = campaign.shown.early \ {p}
  BY <1>1 DEF ShownRow
<1> HIDE DEF b, shown
<1>5. /\ campaign' \in CampaignRow /\ campaign'.status = campaign.status
      /\ campaign'.template = campaign.template /\ campaign'.stranded = b
      /\ campaign'.shown = shown
  BY <1>1, <1>2, <1>4 DEF CampaignRow
<1>6. QED
  BY <1>2, <1>3, <1>4, <1>5

\* A webhook writes the outcome it read.
LEMMA ReportCommitted ==
  ASSUME OutreachTypeOK, NEW h \in Hooks, CommitReport(h)
  PROVE  /\ campaign' \in CampaignRow /\ campaign'.status = hook[h].outcome
         /\ hook[h].outcome = "SENDING" /\ (campaign.stranded \/ PutBack) => campaign'.stranded
         /\ unchanged' = {} /\ campaign'.template = campaign.template
         /\ campaign'.shown = ShownUnless(OvertakenByStatus(hook[h].outcome))
<1> DEFINE b == hook[h].outcome = "SENDING" /\ (campaign.stranded \/ PutBack)
           outcome == hook[h].outcome
           shown == ShownUnless(OvertakenByStatus(outcome))
<1>1. campaign \in CampaignRow /\ b \in BOOLEAN /\ outcome \in CampaignStatus
  BY TableTypes DEF HookRow
<1>2. campaign' = [campaign EXCEPT !.status = outcome, !.shown = shown, !.stranded = b]
      /\ unchanged' = {}
  BY DEF CommitReport
<1>3. b <=> hook[h].outcome = "SENDING" /\ (campaign.stranded \/ PutBack)
  OBVIOUS
<1>4. shown \in ShownRow
  BY ShownKept
<1> HIDE DEF b, shown
<1>5. /\ campaign' \in CampaignRow /\ campaign'.status = outcome /\ campaign'.stranded = b
      /\ campaign'.template = campaign.template /\ campaign'.shown = shown
  BY <1>1, <1>2, <1>4 DEF CampaignRow
<1>6. QED
  BY <1>2, <1>3, <1>5 DEF shown

\* The campaign after one step.
LEMMA CampaignAfter ==
  ASSUME OutreachTypeOK, OutcomesSettle, OutreachNext
  PROVE  /\ campaign' \in CampaignRow
         /\ \/ campaign' = campaign /\ (unchanged' = unchanged \/ \E p \in Pages : View(p))
            \/ campaign'.status # "SENDING" /\ unchanged' = {}
            \/ \E p \in Pages : Confirm(p) /\ unchanged' = {}
            \/ \E p \in Pages : PageStops(p)
            \/ \E h \in Hooks : CommitReport(h)
<1>0. campaign \in CampaignRow /\ {"DRAFT", "READY", "SENDING", "FAILED"} \subseteq CampaignStatus
  BY TableTypes DEF CampaignRow, CampaignStatus
<1>1. ASSUME NEW p \in Pages, PageStep(p)
      PROVE  /\ campaign' \in CampaignRow
             /\ \/ campaign' = campaign /\ (unchanged' = unchanged \/ View(p))
                \/ campaign'.status # "SENDING" /\ unchanged' = {}
                \/ Confirm(p) /\ unchanged' = {}
                \/ PageStops(p)
  <2>1. CASE \E valid \in SUBSET Addresses : ImportWrite(p, valid)
    <3>1. ShownUnless(OvertakenBy(p)) \in ShownRow
      BY ShownKept
    <3>2. PICK status \in {"READY", "DRAFT"} : SetStatus(status, ShownUnless(OvertakenBy(p)))
      BY <2>1 DEF ImportWrite
    <3>3. QED
      BY <1>0, <3>1, <3>2, StatusWritten
  <2>2. ASSUME NEW t \in Templates, SelectWrite(p, t)
        PROVE  campaign' \in CampaignRow /\ campaign'.status # "SENDING" /\ unchanged' = {}
    <3> DEFINE shown == ShownUnless(OvertakenBy(p))
    <3>1. PICK status \in {"READY", "DRAFT"} :
            campaign' = [status |-> status, template |-> t, stranded |-> FALSE, shown |-> shown]
      BY <2>2 DEF SelectWrite
    <3>2. shown \in ShownRow
      BY ShownKept
    <3> HIDE DEF shown
    <3>3. campaign' \in CampaignRow /\ campaign'.status = status
      BY <1>0, <3>1, <3>2 DEF CampaignRow
    <3>4. QED
      BY <2>2, <3>3 DEF SelectWrite
  <2>3. CASE Confirm(p)
    BY <2>3, ConfirmWritten
  <2>4. CASE EnqueueFails(p)
    BY <1>0, <2>4, StatusWritten DEF EnqueueFails, CampaignRow
  <2>5. CASE PageStops(p)
    BY <2>5, PageStopped
  <2>6. CASE ImportRead(p) \/ SelectRead(p) \/ View(p) \/ Enqueue(p)
    BY <1>0, <2>6 DEF ImportRead, SelectRead, View, Enqueue
  <2>7. QED
    BY <1>1, <2>1, <2>2, <2>3, <2>4, <2>5, <2>6 DEF PageStep
<1>2. ASSUME NEW j \in DOMAIN sends, RunStep(j)
      PROVE  /\ campaign' \in CampaignRow
             /\ \/ campaign' = campaign /\ unchanged' = unchanged
                \/ campaign'.status # "SENDING" /\ unchanged' = {}
  <2>1. CASE LimitsFail(j)
    BY <1>0, <2>1, StatusWritten DEF LimitsFail, CampaignRow
  <2>2. CASE WriteOutcome(j)
    <3>1. sends[j].outcome \in CampaignStatus /\ sends[j].outcome # "SENDING"
      BY TableTypes DEF SendRow, OutcomesSettle
    <3>2. ShownUnless(OvertakenByStatus(sends[j].outcome)) \in ShownRow
      BY ShownKept
    <3>3. QED
      BY <2>2, <3>1, <3>2, StatusWritten DEF WriteOutcome
  <2>3. LimitsFail(j) \/ WriteOutcome(j) \/ (campaign' = campaign /\ unchanged' = unchanged)
    BY <1>2 DEF RunStep, LoadSend, Begin, Consider, Mark, Mail, Refuse, RecordSent, RecordFailed,
                ReadOutcome, CompleteSend, SendStops, WriteRecipient
  <2>4. QED
    BY <1>0, <2>1, <2>2, <2>3
<1>3. ASSUME NEW h \in Hooks, ReportStep(h)
      PROVE  /\ campaign' \in CampaignRow
             /\ \/ campaign' = campaign /\ unchanged' = unchanged
                \/ CommitReport(h)
  BY <1>0, <1>3, ReportCommitted DEF ReportStep, Report, RollbackReport
<1>4. QED
  BY <1>1, <1>2, <1>3 DEF OutreachNext

-----------------------------------------------------------------------------
(* How one step changes the recipients and the webhooks.                   *)

\* The row of a recipient that is written.
LEMMA RecipientWritten ==
  ASSUME OutreachTypeOK, NEW v \in RecipientRow
  PROVE  /\ \A status \in RecipientStatus : [v EXCEPT !.status = status] \in RecipientRow
         /\ [v EXCEPT !.mailed = TRUE] \in RecipientRow
  BY DEF RecipientRow

\* The recipients after one step.
LEMMA RecipientsAfter ==
  ASSUME OutreachTypeOK, HooksReport, DecisionsAct, OutreachNext
  PROVE  recipients' \in [Addresses -> {NoRow} \cup RecipientRow]
<1> DEFINE Table == [Addresses -> {NoRow} \cup RecipientRow]
<1>0. recipients \in Table
  BY TableTypes
<1>1. ASSUME NEW p \in Pages, NEW valid \in SUBSET Addresses, ImportWrite(p, valid)
      PROVE  recipients' \in Table
  <2> DEFINE w == [NoRow EXCEPT !.status = "PENDING", !.import = imports + 1]
  <2>1. imports + 1 \in 1..MaxImports
    BY <1>1, TableTypes, Bounds DEF ImportWrite
  <2>2. w \in RecipientRow
    BY <2>1 DEF NoRow, RecipientRow, RecipientStatus
  <2>3. recipients' = [a \in Addresses |-> IF a \in valid THEN w ELSE NoRow]
    BY <1>1 DEF ImportWrite
  <2> HIDE DEF w
  <2>4. QED
    BY <2>2, <2>3
<1>2. ASSUME NEW j \in DOMAIN sends, NEW status \in RecipientStatus,
             \/ recipients' = recipients
             \/ /\ Recipient(sends[j].to[1]) = sends[j].to
                /\ recipients' = [recipients EXCEPT ![sends[j].to[1]].status = status]
      PROVE  recipients' \in Table
  <2>1. CASE recipients' = recipients
    BY <1>0, <2>1
  <2>2. CASE /\ Recipient(sends[j].to[1]) = sends[j].to
             /\ recipients' = [recipients EXCEPT ![sends[j].to[1]].status = status]
    <3> DEFINE a == sends[j].to[1]
               w == [recipients[a] EXCEPT !.status = status]
    <3>1. sends[j].to \in RecipientIds \cup {<<>>}
      BY TableTypes DEF SendRow
    <3>2. sends[j].to # <<>>
      BY <2>2 DEF Recipient
    <3>3. a \in Addresses /\ Recipient(a) \in RecipientIds
      BY <2>2, <3>1, <3>2, ListedRows
    <3>4. recipients[a] \in RecipientRow
      BY <3>3, ListedRows
    <3>5. w \in RecipientRow
      BY <3>4, RecipientWritten
    <3>6. recipients' = [recipients EXCEPT ![a] = w]
      BY <2>2
    <3> HIDE DEF a, w
    <3>7. QED
      BY <1>0, <3>5, <3>6
  <2>3. QED
    BY <1>2, <2>1, <2>2
<1>3. ASSUME NEW j \in DOMAIN sends, RunStep(j)
      PROVE  recipients' \in Table
  <2>1. ASSUME Mail(j)
        PROVE  recipients' \in Table
    <3>1. \A a \in Listed : [recipients[a] EXCEPT !.mailed = TRUE] \in RecipientRow
      BY ListedRows, RecipientWritten
    <3>2. QED
      BY <1>0, <2>1, <3>1 DEF Mail
  <2>2. ASSUME Mark(j)
        PROVE  recipients' \in Table
    <3>1. sends[j].act \in RecipientStatus
      BY <2>2, TableTypes
      DEF Mark, DecisionsAct, SendRow, RecipientStatus, FailedStatuses, SkippedStatuses
    <3>2. QED
      BY <1>2, <2>2, <3>1 DEF Mark, WriteRecipient
  <2>3. ASSUME RecordSent(j) \/ RecordFailed(j)
        PROVE  recipients' \in Table
    <3>1. "SENT" \in RecipientStatus /\ "FAILED" \in RecipientStatus
      BY DEF RecipientStatus, SentStatuses, FailedStatuses
    <3>2. QED
      BY <1>2, <2>3, <3>1 DEF RecordSent, RecordFailed, WriteRecipient
  <2>4. Mail(j) \/ Mark(j) \/ RecordSent(j) \/ RecordFailed(j) \/ recipients' = recipients
    BY <1>3 DEF RunStep, LoadSend, Begin, LimitsFail, Consider, Refuse, ReadOutcome, WriteOutcome,
                CompleteSend, SendStops
  <2>5. QED
    BY <1>0, <2>1, <2>2, <2>3, <2>4
<1>4. ASSUME NEW h \in Hooks, CommitReport(h)
      PROVE  recipients' \in Table
  <2> DEFINE changed == {a \in Listed : Recipient(a) \in hook[h].to}
  <2>1. \A a \in changed : [recipients[a] EXCEPT !.status = hook[h].status] \in RecipientRow
    BY <1>4, ListedRows, RecipientWritten DEF CommitReport, HooksReport
  <2>2. recipients' = [a \in Addresses |->
          IF a \in changed THEN [recipients[a] EXCEPT !.status = hook[h].status]
                           ELSE recipients[a]]
    BY <1>4 DEF CommitReport
  <2> HIDE DEF changed
  <2>3. QED
    BY <1>0, <2>1, <2>2
<1>5. ASSUME NEW p \in Pages, PageStep(p)
      PROVE  recipients' = recipients \/ \E valid \in SUBSET Addresses : ImportWrite(p, valid)
  BY <1>5 DEF PageStep, ImportRead, SelectRead, SelectWrite, View, Confirm, Enqueue,
              EnqueueFails, PageStops
<1>6. ASSUME NEW h \in Hooks, ReportStep(h)
      PROVE  recipients' = recipients \/ CommitReport(h)
  BY <1>6 DEF ReportStep, Report, RollbackReport
<1>7. QED
  BY <1>0, <1>1, <1>3, <1>4, <1>5, <1>6 DEF OutreachNext

\* What becomes of a recipient's status when it is reported on.
LEMMA ReportedStatus ==
  ASSUME NEW old \in RecipientStatus, NEW report \in Reports
  PROVE  Reported(old, report) \in RecipientStatus
<1>1. report \in {"SENT", "FAILED", "BOUNCED", "COMPLAINED", "SUPPRESSED"}
  BY OutreachAssumption
<1>2. CASE report = "SENT"
  BY <1>2 DEF Reported, RecipientStatus, SentStatuses
<1>3. CASE report = "FAILED"
  BY <1>3 DEF Reported, RecipientStatus, FailedStatuses
<1>4. CASE report \notin {"SENT", "FAILED"}
  <2>1. Reported(old, report) = report
    BY <1>4 DEF Reported
  <2>2. QED
    BY <1>1, <1>4, <2>1 DEF RecipientStatus, FailedStatuses, SkippedStatuses
<1>5. QED
  BY <1>2, <1>3, <1>4

\* The webhooks after one step.
LEMMA HooksAfter ==
  ASSUME OutreachTypeOK, HooksReport, OutreachNext
  PROVE  hook' \in [Hooks -> HookRow] /\ HooksReport'
<1>0. hook \in [Hooks -> HookRow]
  BY TableTypes
<1>1. NoReport \in HookRow /\ ~NoReport.open
  BY DEF NoReport, HookRow, CampaignStatus
<1>2. ASSUME NEW h \in Hooks, NEW w \in HookRow, hook' = [hook EXCEPT ![h] = w],
             w.open => w.status \in RecipientStatus
      PROVE  hook' \in [Hooks -> HookRow] /\ HooksReport'
  BY <1>0, <1>2 DEF HooksReport
<1>3. ASSUME NEW h \in Hooks, NEW a \in Addresses, NEW report \in Reports, Report(h, a, report)
      PROVE  hook' \in [Hooks -> HookRow] /\ HooksReport'
  <2> DEFINE old == recipients[a].status
             new == Reported(old, report)
             quiet == report = "FAILED" /\ old \in Bars
             bars == report \in Bars
             to == IF quiet THEN {} ELSE {Recipient(a)}
             outcome == Rollup({new} \cup {recipients[b].status : b \in Listed \ {a}}, FALSE)
             w == [open |-> TRUE, status |-> new, bars |-> bars, to |-> to, outcome |-> outcome]
  <2>1. a \in Listed
    BY <1>3 DEF Report
  <2>2. new \in RecipientStatus
    BY <2>1, ListedRows, ReportedStatus DEF RecipientRow
  <2>3. outcome \in CampaignStatus
    BY RollupStatus
  <2>4. to \in SUBSET RecipientIds
    BY <2>1, ListedRows
  <2>5. bars \in BOOLEAN
    OBVIOUS
  <2>6. hook' = [hook EXCEPT ![h] = w]
    BY <1>3 DEF Report
  <2> HIDE DEF new, outcome, to, bars
  <2>7. w \in HookRow /\ w.status = new
    BY <2>2, <2>3, <2>4, <2>5 DEF HookRow
  <2> HIDE DEF w
  <2>8. QED
    BY <1>2, <2>2, <2>6, <2>7
<1>4. CASE hook' = hook
  BY <1>0, <1>4 DEF HooksReport
<1>5. ASSUME NEW h \in Hooks, CommitReport(h) \/ RollbackReport(h)
      PROVE  hook' \in [Hooks -> HookRow] /\ HooksReport'
  <2>1. hook' = [hook EXCEPT ![h] = NoReport]
    BY <1>5 DEF CommitReport, RollbackReport
  <2>2. QED
    BY <1>1, <1>2, <2>1
<1>6. ASSUME NEW p \in Pages, PageStep(p)
      PROVE  hook' = hook
  BY <1>6 DEF PageStep, ImportRead, ImportWrite, SelectRead, SelectWrite, View, Confirm,
              Enqueue, EnqueueFails, PageStops
<1>7. ASSUME NEW j \in DOMAIN sends, RunStep(j)
      PROVE  hook' = hook
  BY <1>7 DEF RunStep, LoadSend, Begin, LimitsFail, Consider, Mark, Mail, Refuse, RecordSent, RecordFailed,
              ReadOutcome, WriteOutcome, CompleteSend, SendStops, WriteRecipient
<1>8. QED
  BY <1>3, <1>4, <1>5, <1>6, <1>7 DEF OutreachNext, ReportStep

\* The counters and sets after one step: who is barred stays barred.
LEMMA OthersAfter ==
  ASSUME OutreachTypeOK, OutreachNext
  PROVE  /\ imports' \in 0..MaxImports /\ barred' \subseteq Addresses /\ barred \subseteq barred'
         /\ unchanged' \subseteq Pages
<1>0. imports \in 0..MaxImports /\ barred \subseteq Addresses /\ unchanged \subseteq Pages
  BY TableTypes
<1>1. ASSUME NEW p \in Pages, PageStep(p)
      PROVE  imports' \in 0..MaxImports /\ barred' = barred /\ unchanged' \subseteq Pages
  <2>1. ASSUME NEW valid \in SUBSET Addresses, ImportWrite(p, valid)
        PROVE  imports' \in 0..MaxImports /\ barred' = barred /\ unchanged' = {}
    BY <1>0, <2>1, Bounds DEF ImportWrite, SetStatus
  <2>2. QED
    BY <1>0, <1>1, <2>1 DEF PageStep, ImportRead, SelectRead, SelectWrite, View, Confirm, Enqueue,
                            EnqueueFails, PageStops, SetStatus
<1>2. ASSUME NEW j \in DOMAIN sends, RunStep(j)
      PROVE  imports' = imports /\ barred' = barred /\ (unchanged' = unchanged \/ unchanged' = {})
  BY <1>2 DEF RunStep, LoadSend, Begin, LimitsFail, Consider, Mark, Mail, Refuse, RecordSent, RecordFailed,
              ReadOutcome, WriteOutcome, CompleteSend, SendStops, WriteRecipient, SetStatus
<1>3. ASSUME NEW h \in Hooks, ReportStep(h)
      PROVE  /\ imports' = imports /\ barred' \subseteq Addresses /\ barred \subseteq barred'
             /\ unchanged' = unchanged \/ unchanged' = {}
  <2>1. Listed \subseteq Addresses
    BY ListedRows
  <2>2. QED
    BY <1>0, <1>3, <2>1 DEF ReportStep, Report, CommitReport, RollbackReport
<1>4. QED
  BY <1>0, <1>1, <1>2, <1>3 DEF OutreachNext

-----------------------------------------------------------------------------
(* The parts of the invariant.                                             *)

\* Every step keeps the tables well typed.
LEMMA TypeStep == IInv /\ OutreachNext => OutreachTypeOK'
<1> SUFFICES ASSUME IInv, OutreachNext PROVE OutreachTypeOK'
  OBVIOUS
<1>0. OutreachTypeOK
  BY DEF IInv, SendingIsCarried
<1>1. campaign' \in CampaignRow
  BY <1>0, CampaignAfter DEF IInv
<1>2. recipients' \in [Addresses -> {NoRow} \cup RecipientRow]
  BY <1>0, RecipientsAfter DEF IInv
<1>3. hook' \in [Hooks -> HookRow]
  BY <1>0, HooksAfter DEF IInv
<1>4. page' \in [Pages -> PageRow] /\ sends' \in Seq(SendRow)
  BY <1>0, PageAfter, OneSend
<1>5. imports' \in 0..MaxImports /\ barred' \subseteq Addresses /\ unchanged' \subseteq Pages
  BY <1>0, OthersAfter
<1>6. QED
  BY <1>1, <1>2, <1>3, <1>4, <1>5
  DEF OutreachTypeOK, CampaignRow, ShownRow, RecipientRow, HookRow, PageRow, SendRow

\* A request or a job that carries a campaign hands over to another, or says
\* that it did not.
LEMMA CarriedAfter ==
  ASSUME IInv, OutreachNext, campaign'.status = "SENDING",
         Carried \/ \E j \in DOMAIN sends : sends[j].state = "spent"
  PROVE  Carried' \/ campaign'.stranded \/ \E j \in DOMAIN sends' : sends'[j].state = "spent"
<1>0. OutreachTypeOK
  BY DEF IInv, SendingIsCarried
<1>1. ASSUME NEW p \in Pages, page[p].pc = "confirmed"
      PROVE  Carried' \/ campaign'.stranded
  <2>1. CASE page'[p].pc = "confirmed"
    BY <2>1 DEF Carried, Confirmed
  <2>2. CASE Enqueue(p)
    <3>1. sends' = Append(sends, NoSend) /\ NoSend.state = "waiting"
      BY <2>2, NoSendRow DEF Enqueue
    <3>2. Len(sends) + 1 \in DOMAIN sends' /\ sends'[Len(sends) + 1] = NoSend
      <4>1. sends \in Seq(SendRow) /\ NoSend \in SendRow
        BY <1>0, TableTypes, NoSendRow
      <4>2. QED
        BY <3>1, <4>1
    <3>3. QED
      BY <3>1, <3>2 DEF Carried
  <2>3. ~EnqueueFails(p)
    <3>1. EnqueueFails(p) => campaign'.status = "FAILED"
      BY <1>0, StatusWritten, TableTypes DEF EnqueueFails, CampaignStatus, CampaignRow
    <3>2. QED
      BY <3>1
  <2>4. CASE PageStops(p)
    BY <1>0, <1>1, <2>4, PageStopped
  <2>5. page'[p].pc = "confirmed" \/ Enqueue(p) \/ EnqueueFails(p) \/ PageStops(p)
    <3>1. page'[p] = page[p] \/ PageStep(p)
      BY <1>0, PageAfter
    <3>2. QED
      BY <1>1, <3>1 DEF PageStep, ImportRead, ImportWrite, SelectRead, SelectWrite, View, Confirm
  <2>6. QED
    BY <2>1, <2>2, <2>3, <2>4, <2>5
<1>2. ASSUME NEW j \in DOMAIN sends, sends[j].state \notin {"written", "done"}
      PROVE  j \in DOMAIN sends' /\ sends'[j].state \notin {"written", "done"}
  <2>1. j \in DOMAIN sends' /\ (sends'[j] = sends[j] \/ Advances(j, sends'[j]))
    BY <1>0, OneSend
  <2>2. ~Writes(sends[j], sends'[j])
    BY DEF Writes, IInv, OutcomesSettle
  <2>3. QED
    BY <1>2, <2>1, <2>2 DEF Advances, Loads, Starts, Considers, Queues, Mails, GoesOn, Reads, Ends
<1>3. ASSUME NEW j \in DOMAIN sends, sends[j].state \notin {"written", "done"}
      PROVE  Carried' \/ \E k \in DOMAIN sends' : sends'[k].state = "spent"
  BY <1>2, <1>3 DEF Carried
<1>4. QED
  BY <1>1, <1>3 DEF Carried, Confirmed

\* Every step leaves a campaign that is SENDING carried, or marked as left behind.
LEMMA SendingIsCarriedStep == IInv /\ OutreachNext => SendingIsCarried'
<1> SUFFICES ASSUME IInv, OutreachNext PROVE SendingIsCarried'
  OBVIOUS
<1>0. OutreachTypeOK
  BY DEF IInv, SendingIsCarried
<1>1. ASSUME campaign'.status = "SENDING"
      PROVE  Carried' \/ campaign'.stranded \/ \E j \in DOMAIN sends' : sends'[j].state = "spent"
  <2>1. ASSUME NEW p \in Pages, Confirm(p)
        PROVE  Carried'
    <3>1. page'[p].pc = "confirmed"
      BY <1>0, <2>1, TableTypes DEF Confirm, NoPage
    <3>2. QED
      BY <3>1 DEF Carried, Confirmed
  <2>2. ASSUME NEW h \in Hooks, CommitReport(h)
        PROVE  Carried \/ campaign'.stranded \/ \E j \in DOMAIN sends : sends[j].state = "spent"
    <3>1. campaign.stranded \/ PutBack => campaign'.stranded
      BY <1>0, <1>1, <2>2, ReportCommitted
    <3>2. QED
      BY <3>1 DEF PutBack, IInv, SendingIsCarried
  <2>3. ASSUME NEW p \in Pages, PageStops(p)
        PROVE  Carried \/ campaign'.stranded \/ \E j \in DOMAIN sends : sends[j].state = "spent"
    BY <1>0, <1>1, <2>3, PageStopped DEF IInv, SendingIsCarried
  <2>4. ASSUME campaign' = campaign
        PROVE  Carried \/ campaign'.stranded \/ \E j \in DOMAIN sends : sends[j].state = "spent"
    BY <1>1, <2>4 DEF IInv, SendingIsCarried
  <2>5. \/ \E p \in Pages : Confirm(p)
        \/ Carried \/ campaign'.stranded \/ \E j \in DOMAIN sends : sends[j].state = "spent"
    BY <1>0, <1>1, <2>2, <2>3, <2>4, CampaignAfter DEF IInv
  <2>6. QED
    BY <1>1, <2>1, <2>5, CarriedAfter
<1>2. QED
  BY <1>1, TypeStep DEF SendingIsCarried

\* Every step of a job keeps what the others of its parts say.
LEMMA JobsStep ==
  IInv /\ OutreachNext => OutcomesSettle' /\ DecisionsAct' /\ SparedAreBarred' /\ QueuedAreNotSpared'
<1> SUFFICES ASSUME IInv, OutreachNext, NEW k \in DOMAIN sends'
             PROVE  /\ sends'[k].outcome # "SENDING"
                    /\ sends'[k].state = "decided" => sends'[k].act # "none"
                    /\ \A r \in sends'[k].spared : r[1] \in barred'
                    /\ \/ sends'[k].state = "decided" /\ sends'[k].act = "QUEUED"
                       \/ sends'[k].state = "sending"
                       => sends'[k].to \notin sends'[k].spared
  BY DEF OutcomesSettle, DecisionsAct, SparedAreBarred, QueuedAreNotSpared
<1> DEFINE Good(s) == /\ s.outcome # "SENDING"
                      /\ s.state = "decided" => s.act # "none"
                      /\ \A r \in s.spared : r[1] \in barred
                      /\ s.state = "decided" /\ s.act = "QUEUED" => s.to \notin s.spared
                      /\ s.state = "sending" => s.to \notin s.spared
<1>0. OutreachTypeOK /\ barred \subseteq barred'
  BY OthersAfter DEF IInv, SendingIsCarried
<1>1. ASSUME k \in DOMAIN sends
      PROVE  Good(sends[k])
  BY <1>1 DEF IInv, OutcomesSettle, DecisionsAct, SparedAreBarred, QueuedAreNotSpared
<1>2. Good(NoSend)
  BY NoSendRow
<1>3. ASSUME k \in DOMAIN sends, Advances(k, sends'[k])
      PROVE  Good(sends'[k])
  <2> DEFINE s == sends[k]
             t == sends'[k]
  <2>0. Good(s)
    BY <1>1, <1>3
  <2> HIDE DEF s, t
  <2>1. ASSUME Starts(s, t)
        PROVE  Good(t)
    BY <2>0, <2>1 DEF Starts
  <2>2. ASSUME Considers(s, t)
        PROVE  Good(t)
    BY <2>0, <2>2 DEF Considers
  <2>3. ASSUME Queues(s, t)
        PROVE  Good(t)
    BY <2>0, <2>3 DEF Queues
  <2>4. ASSUME Loads(s, t) \/ Mails(s, t) \/ Reads(s, t) \/ Writes(s, t)
        PROVE  Good(t)
    BY <2>0, <2>4 DEF Loads, Mails, Reads, Writes
  <2>5. ASSUME GoesOn(s, t) \/ Ends(s, t)
        PROVE  Good(t)
    BY <2>0, <2>5 DEF GoesOn, Ends
  <2>6. Loads(s, t) \/ Starts(s, t) \/ Considers(s, t) \/ Queues(s, t) \/ Mails(s, t) \/ GoesOn(s, t)
        \/ Reads(s, t) \/ Writes(s, t) \/ Ends(s, t)
    BY <1>3 DEF Advances, s, t
  <2>7. Good(t)
    BY <2>1, <2>2, <2>3, <2>4, <2>5, <2>6
  <2>8. QED
    BY <2>7 DEF t
<1>4. Good(sends'[k])
  BY <1>0, <1>1, <1>2, <1>3, OneSend
<1>5. QED
  BY <1>0, <1>4

\* A page keeps showing the campaign while its version is the row's.
LEMMA PagesShowStep == IInv /\ OutreachNext => PagesShowCampaign'
<1> SUFFICES ASSUME IInv, OutreachNext, NEW p \in unchanged', page'[p].pc = "viewing"
             PROVE  page'[p].template = campaign'.template /\ page'[p].import = imports'
  BY DEF PagesShowCampaign
<1>0. OutreachTypeOK /\ p \in Pages
  BY OthersAfter DEF IInv, SendingIsCarried
<1>1. CASE View(p)
  BY <1>0, <1>1, TableTypes DEF View, PageRow
<1>2. CASE page'[p] = page[p] /\ p \in unchanged
  <2>1. page[p].template = campaign.template /\ page[p].import = imports
    BY <1>2 DEF IInv, PagesShowCampaign
  <2>2. campaign' = campaign \/ \E o \in Pages : PageStops(o)
    <3>1. \A h \in Hooks : ~CommitReport(h)
      BY <1>2 DEF CommitReport
    <3>2. QED
      BY <1>0, <3>1, CampaignAfter DEF IInv
  <2>3. campaign'.template = campaign.template
    BY <1>0, <2>2, PageStopped
  <2>4. imports' = imports
    <3>1. \A o \in Pages, valid \in SUBSET Addresses : ~ImportWrite(o, valid)
      BY DEF ImportWrite, SetStatus
    <3>2. QED
      BY ZenonT(60), <3>1 DEF OutreachNext, PageStep, ImportRead, SelectRead, SelectWrite, View, Confirm,
        Enqueue, EnqueueFails, PageStops, RunStep, LoadSend, Begin, LimitsFail, Consider, Mark, Mail,
        Refuse, RecordSent, RecordFailed, ReadOutcome, WriteOutcome, CompleteSend, SendStops,
        WriteRecipient, ReportStep, Report, CommitReport, RollbackReport
  <2>5. QED
    BY <1>2, <2>1, <2>3, <2>4
<1>3. View(p) \/ (page'[p] = page[p] /\ p \in unchanged)
  <2>1. page'[p] = page[p] \/ View(p)
    <3>1. page'[p] = page[p] \/ PageStep(p)
      BY <1>0, PageAfter
    <3>2. PageStep(p) => View(p)
      BY <1>0, TableTypes
      DEF PageStep, ImportRead, ImportWrite, SelectRead, SelectWrite, Confirm, Enqueue,
          EnqueueFails, PageStops, Answered, NoPage, PageRow
    <3>3. QED
      BY <3>1, <3>2
  <2>2. ASSUME p \notin unchanged
        PROVE  View(p)
    <3>1. \E o \in Pages : View(o)
      <4>1. \A h \in Hooks : ~CommitReport(h)
        BY DEF CommitReport
      <4>2. \A o \in Pages : ~PageStops(o)
        BY <1>0, <2>2, PageStopped
      <4>3. QED
        BY <1>0, <2>2, <4>1, <4>2, CampaignAfter DEF IInv
    <3>2. QED
      BY <2>2, <3>1 DEF View
  <2>3. QED
    BY <2>1, <2>2
<1>4. QED
  BY <1>1, <1>2, <1>3

\* An edit that is written ends the confirmation it may have missed.
LEMMA Overtaken ==
  ASSUME OutreachTypeOK, ConfirmationStands, NEW p \in Editing
  PROVE  ~ShownUnless(OvertakenBy(p)).stands
BY ShownKept DEF ConfirmationStands

\* A confirmation stands after a step that edits nothing.
LEMMA StandsUnedited ==
  ASSUME ConfirmationStands, imports' = imports, campaign'.template = campaign.template,
         Editing' \subseteq Editing,
         campaign'.shown.stands => /\ campaign'.shown = campaign.shown
                                   /\ campaign'.status \notin {"DRAFT", "READY"}
  PROVE  ConfirmationStands'
BY DEF ConfirmationStands

\* Nobody else is editing after a request that does not begin an edit.
LEMMA EditingAfter ==
  ASSUME OutreachTypeOK, NEW p \in Pages,
         View(p) \/ Confirm(p) \/ Enqueue(p) \/ EnqueueFails(p) \/ PageStops(p)
  PROVE  Editing' \subseteq Editing
<1>1. page \in [Pages -> PageRow] /\ NoPage.pc = "idle" /\ NoPage \in PageRow
  BY TableTypes, Bounds DEF NoPage, PageRow
<1>2. ASSUME NEW w \in PageRow, page' = [page EXCEPT ![p] = w],
             w.pc \notin {"importing", "selecting"}
      PROVE  Editing' \subseteq Editing
  BY <1>1, <1>2 DEF Editing
<1>3. CASE View(p)
  <2> DEFINE w == [page[p] EXCEPT !.pc = "viewing", !.template = campaign.template,
                                  !.import = imports]
  <2>1. w \in PageRow /\ w.pc = "viewing"
    BY <1>1, TableTypes DEF PageRow, CampaignRow
  <2>2. page' = [page EXCEPT ![p] = w]
    BY <1>3 DEF View
  <2> HIDE DEF w
  <2>3. QED
    BY <1>2, <2>1, <2>2
<1>4. CASE Confirm(p)
  <2> DEFINE w == [NoPage EXCEPT !.pc = "confirmed"]
  <2>1. w \in PageRow /\ w.pc = "confirmed"
    BY <1>1 DEF PageRow
  <2>2. page' = [page EXCEPT ![p] = w]
    BY <1>4 DEF Confirm
  <2> HIDE DEF w
  <2>3. QED
    BY <1>2, <2>1, <2>2
<1>5. CASE Enqueue(p) \/ EnqueueFails(p) \/ PageStops(p)
  <2>1. page' = [page EXCEPT ![p] = NoPage]
    BY <1>5 DEF Enqueue, EnqueueFails, PageStops, Answered
  <2>2. QED
    BY <1>1, <1>2, <2>1
<1>6. QED
  BY <1>3, <1>4, <1>5

\* What was confirmed stands until it is overtaken, whatever a request does.
LEMMA StandsThroughRequests ==
  ASSUME IInv, NEW p \in Pages, PageStep(p)
  PROVE  ConfirmationStands'
<1>0. OutreachTypeOK /\ ConfirmationStands
  BY DEF IInv, SendingIsCarried
<1>1. CASE ImportRead(p) \/ SelectRead(p)
  <2>1. campaign' = campaign /\ ~campaign.shown.stands
    BY <1>0, <1>1 DEF ImportRead, SelectRead, Editable, ConfirmationStands
  <2>2. QED
    BY <2>1 DEF ConfirmationStands
<1>2. ASSUME NEW valid \in SUBSET Addresses, ImportWrite(p, valid)
      PROVE  ConfirmationStands'
  <2>1. campaign'.shown = ShownUnless(OvertakenBy(p))
    BY <1>0, <1>2, TableTypes DEF ImportWrite, SetStatus, CampaignRow
  <2>2. p \in Editing
    BY <1>2 DEF ImportWrite, Editing
  <2>3. QED
    BY <1>0, <2>1, <2>2, Overtaken DEF ConfirmationStands
<1>3. ASSUME NEW t \in Templates, SelectWrite(p, t)
      PROVE  ConfirmationStands'
  <2>1. campaign'.shown = ShownUnless(OvertakenBy(p))
    BY <1>3 DEF SelectWrite
  <2>2. p \in Editing
    BY <1>3 DEF SelectWrite, Editing
  <2>3. QED
    BY <1>0, <2>1, <2>2, Overtaken DEF ConfirmationStands
<1>4. CASE Confirm(p)
  <2>1. page[p].template = campaign.template /\ page[p].import = imports /\ imports' = imports
    BY <1>4 DEF Confirm, VersionMatches, IInv, PagesShowCampaign
  <2>2. Editing' \subseteq Editing
    BY <1>0, <1>4, EditingAfter
  <2>3. QED
    BY <1>0, <1>4, <2>1, <2>2, ConfirmWritten DEF ConfirmationStands
<1>5. CASE View(p) \/ Enqueue(p)
  <2>1. campaign' = campaign /\ imports' = imports
    BY <1>5 DEF View, Enqueue
  <2>2. Editing' \subseteq Editing
    BY <1>0, <1>5, EditingAfter
  <2>3. QED
    BY <1>0, <2>1, <2>2, StandsUnedited DEF ConfirmationStands
<1>6. CASE EnqueueFails(p)
  <2>1. SetStatus("FAILED", campaign.shown) /\ imports' = imports
    BY <1>6 DEF EnqueueFails
  <2>2. "FAILED" \in CampaignStatus /\ campaign.shown \in ShownRow
    BY <1>0, TableTypes DEF CampaignStatus, CampaignRow
  <2>3. Editing' \subseteq Editing
    BY <1>0, <1>6, EditingAfter
  <2>4. QED
    BY <1>0, <2>1, <2>2, <2>3, StatusWritten, StandsUnedited
<1>7. CASE PageStops(p)
  <2>1. imports' = imports
    BY <1>7 DEF PageStops
  <2>2. p \notin Editing'
    BY <1>0, <1>7, TableTypes DEF PageStops, Answered, NoPage, Editing
  <2>3. Editing' \subseteq Editing
    BY <1>0, <1>7, EditingAfter
  <2>4. QED
    BY <1>0, <1>7, <2>1, <2>2, <2>3, PageStopped DEF ConfirmationStands
<1>8. QED
  BY <1>1, <1>2, <1>3, <1>4, <1>5, <1>6, <1>7 DEF PageStep

\* The same of a job.
LEMMA StandsThroughJobs ==
  ASSUME IInv, NEW j \in DOMAIN sends, RunStep(j)
  PROVE  ConfirmationStands'
<1>0. OutreachTypeOK /\ ConfirmationStands
  BY DEF IInv, SendingIsCarried
<1>1. imports' = imports /\ page' = page
  BY DEF RunStep, LoadSend, Begin, LimitsFail, Consider, Mark, Mail, Refuse, RecordSent,
         RecordFailed, ReadOutcome, WriteOutcome, CompleteSend, SendStops, WriteRecipient
<1>2. Editing' \subseteq Editing
  BY <1>1 DEF Editing
<1>3. CASE LimitsFail(j)
  <2>1. SetStatus("FAILED", campaign.shown)
    BY <1>3 DEF LimitsFail
  <2>2. "FAILED" \in CampaignStatus /\ campaign.shown \in ShownRow
    BY <1>0, TableTypes DEF CampaignStatus, CampaignRow
  <2>3. QED
    BY <1>0, <1>1, <1>2, <2>1, <2>2, StatusWritten, StandsUnedited
<1>4. CASE WriteOutcome(j)
  <2> DEFINE outcome == sends[j].outcome
             shown == ShownUnless(OvertakenByStatus(outcome))
  <2>1. outcome \in CampaignStatus
    BY <1>0, TableTypes DEF SendRow
  <2>2. /\ shown \in ShownRow
        /\ shown.stands => outcome \notin {"DRAFT", "READY"} /\ shown = campaign.shown
    BY <1>0, ShownKept
  <2>3. SetStatus(outcome, shown)
    BY <1>4 DEF WriteOutcome
  <2> HIDE DEF outcome, shown
  <2>4. /\ campaign'.status = outcome /\ campaign'.shown = shown
        /\ campaign'.template = campaign.template
    BY <1>0, <2>1, <2>2, <2>3, StatusWritten
  <2>5. QED
    BY <1>0, <1>1, <1>2, <2>2, <2>4, StandsUnedited
<1>5. LimitsFail(j) \/ WriteOutcome(j) \/ campaign' = campaign
  BY DEF RunStep, LoadSend, Begin, Consider, Mark, Mail, Refuse, RecordSent, RecordFailed,
         ReadOutcome, CompleteSend, SendStops, WriteRecipient
<1>6. QED
  BY <1>0, <1>1, <1>2, <1>3, <1>4, <1>5, StandsUnedited DEF ConfirmationStands

\* The same of a webhook.
LEMMA StandsThroughReports ==
  ASSUME IInv, NEW h \in Hooks, ReportStep(h)
  PROVE  ConfirmationStands'
<1>0. OutreachTypeOK /\ ConfirmationStands
  BY DEF IInv, SendingIsCarried
<1>1. imports' = imports /\ page' = page
  BY DEF ReportStep, Report, CommitReport, RollbackReport
<1>2. Editing' \subseteq Editing
  BY <1>1 DEF Editing
<1>3. CASE CommitReport(h)
  <2> DEFINE outcome == hook[h].outcome
             shown == ShownUnless(OvertakenByStatus(outcome))
  <2>1. shown.stands => outcome \notin {"DRAFT", "READY"} /\ shown = campaign.shown
    BY <1>0, ShownKept
  <2>2. /\ campaign'.status = outcome /\ campaign'.shown = shown
        /\ campaign'.template = campaign.template
    BY <1>0, <1>3, ReportCommitted
  <2> HIDE DEF outcome, shown
  <2>3. QED
    BY <1>0, <1>1, <1>2, <2>1, <2>2, StandsUnedited
<1>4. CommitReport(h) \/ campaign' = campaign
  BY DEF ReportStep, Report, RollbackReport
<1>5. QED
  BY <1>0, <1>1, <1>2, <1>3, <1>4, StandsUnedited DEF ConfirmationStands

\* Every step keeps what it means that a confirmation stands.
LEMMA StandsStep == IInv /\ OutreachNext => ConfirmationStands'
BY StandsThroughRequests, StandsThroughJobs, StandsThroughReports DEF OutreachNext

-----------------------------------------------------------------------------
(* The theorems.                                                           *)

\* The inductive invariant holds initially.
LEMMA InitInvariant == OutreachInit => IInv
<1> SUFFICES ASSUME OutreachInit PROVE IInv
  OBVIOUS
<1>1. campaign \in CampaignRow /\ campaign.status = "DRAFT" /\ ~campaign.shown.stands
  <2>1. NothingShown \in ShownRow /\ ~NothingShown.stands
    BY Bounds DEF NothingShown, ShownRow
  <2>2. QED
    BY <2>1 DEF OutreachInit, CampaignRow, CampaignStatus
<1>2. /\ recipients \in [Addresses -> {NoRow} \cup RecipientRow] /\ barred = {}
      /\ imports \in 0..MaxImports /\ unchanged = {}
  BY Bounds DEF OutreachInit
<1>3. page \in [Pages -> PageRow]
  <2>1. NoPage \in PageRow
    BY Bounds DEF NoPage, PageRow
  <2>2. QED
    BY <2>1 DEF OutreachInit
<1>4. hook \in [Hooks -> HookRow] /\ HooksReport
  <2>1. NoReport \in HookRow /\ ~NoReport.open
    BY DEF NoReport, HookRow, CampaignStatus
  <2>2. hook = [h \in Hooks |-> NoReport]
    BY DEF OutreachInit
  <2>3. QED
    BY <2>1, <2>2 DEF HooksReport
<1>5. sends \in Seq(SendRow) /\ DOMAIN sends = {}
  <2>1. sends = <<>>
    BY DEF OutreachInit
  <2>2. <<>> \in Seq(SendRow) /\ DOMAIN <<>> = {}
    OBVIOUS
  <2>3. QED
    BY <2>1, <2>2
<1>6. OutreachTypeOK
  BY <1>1, <1>2, <1>3, <1>4, <1>5
  DEF OutreachTypeOK, CampaignRow, ShownRow, RecipientRow, PageRow, HookRow, SendRow
<1>7. QED
  BY <1>1, <1>2, <1>4, <1>5, <1>6
  DEF IInv, SendingIsCarried, OutcomesSettle, DecisionsAct, PagesShowCampaign,
      ConfirmationStands, SparedAreBarred, QueuedAreNotSpared

\* A step that changes nothing keeps it.
LEMMA StutterInvariant == IInv /\ UNCHANGED outreachVars => IInv'
<1> SUFFICES ASSUME IInv, UNCHANGED outreachVars PROVE IInv'
  OBVIOUS
<1>1. /\ campaign' = campaign /\ recipients' = recipients /\ imports' = imports
      /\ barred' = barred /\ sends' = sends /\ page' = page /\ unchanged' = unchanged
      /\ hook' = hook
  BY DEF outreachVars
<1>2. SendingIsCarried'
  BY <1>1 DEF IInv, SendingIsCarried, OutreachTypeOK, Carried, Confirmed
<1>3. OutcomesSettle' /\ HooksReport' /\ DecisionsAct' /\ PagesShowCampaign'
      /\ ConfirmationStands' /\ SparedAreBarred' /\ QueuedAreNotSpared'
  BY <1>1 DEF IInv, OutcomesSettle, HooksReport, DecisionsAct, PagesShowCampaign,
              ConfirmationStands, Editing, SparedAreBarred, QueuedAreNotSpared
<1>4. QED
  BY <1>2, <1>3 DEF IInv

\* Every reachable state of a campaign satisfies the invariant.
THEOREM OutreachInvariance == OutreachSpec => []IInv
<1>1. IInv /\ OutreachNext => HooksReport'
  BY HooksAfter DEF IInv, SendingIsCarried
<1>2. IInv /\ [OutreachNext]_outreachVars => IInv'
  BY <1>1, SendingIsCarriedStep, JobsStep, PagesShowStep, StandsStep, StutterInvariant DEF IInv
<1>3. QED
  BY <1>2, InitInvariant, PTL DEF OutreachSpec

\* Whatever imports, webhooks, other jobs and retries do, a campaign does not
\* stay SENDING without a request or a job that will settle it, but for the
\* three losses that SendingIsCarried names.
THEOREM NoCampaignIsForgotten == OutreachSpec => []SendingIsCarried
<1>1. IInv => SendingIsCarried
  BY DEF IInv
<1>2. QED
  BY <1>1, OutreachInvariance, PTL

\* The template an attempt takes and the recipients it lists are those that the
\* organizer who confirmed last was shown, until an edit that was under way at
\* the confirmation is written, or a DRAFT or READY that was read before it.
THEOREM ConfirmedIsSent == OutreachSpec => SendsWhatWasConfirmed
<1> DEFINE A == \A j \in DOMAIN sends : campaign.shown.stands =>
                  /\ sends[j].state = "waiting" /\ sends'[j].state = "loaded" =>
                       campaign.template = campaign.shown.template
                  /\ sends[j].state = "loaded" /\ sends'[j].state = "next" =>
                       imports = campaign.shown.import
<1>1. IInv /\ [OutreachNext]_outreachVars => [A]_outreachVars
  BY DEF IInv, ConfirmationStands
<1>2. QED
  BY <1>1, OutreachInvariance, PTL DEF OutreachSpec, SendsWhatWasConfirmed

\* No retry, second confirmation or second job mails whom its attempt found
\* settled or suppressed.
THEOREM NoSettledRecipientIsMailed == OutreachSpec => SettledAreSpared
<1>1. ASSUME IInv, NEW j \in DOMAIN sends, sends[j].state = "sending"
      PROVE  sends[j].to \notin sends[j].spared
  BY <1>1 DEF IInv, QueuedAreNotSpared
<1> DEFINE A == \A j \in DOMAIN sends :
                  sends[j].state = "sending" /\ sends'[j].state = "accepted" =>
                    sends[j].to \notin sends[j].spared
<1>2. IInv /\ [OutreachNext]_outreachVars => [A]_outreachVars
  BY <1>1
<1>3. QED
  BY <1>2, OutreachInvariance, PTL DEF OutreachSpec, SettledAreSpared

=============================================================================
