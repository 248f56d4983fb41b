-------------------------------- MODULE Outreach --------------------------------
(***************************************************************************)
(* One outreach campaign: organizers import recipients, choose a template, *)
(* look at the campaign and confirm it; a worker job mails the recipients  *)
(* one by one; the mail provider reports by webhook what became of them.   *)
(*                                                                         *)
(* Import and template selection read the campaign in a transaction of     *)
(* their own and write it by id.  The job runs one transaction per         *)
(* recipient step with the provider's answer in between.  A webhook locks  *)
(* its recipient, reads the campaign and writes it: Report and             *)
(* CommitReport are one transaction, and so are ReadOutcome and            *)
(* WriteOutcome.                                                           *)
(*                                                                         *)
(* An import or a selection that found the campaign editable is written    *)
(* however the campaign has changed since, also after it was confirmed:    *)
(* shown keeps what the organizer who confirmed last was shown, and for    *)
(* how long that is what is sent.                                          *)
(*                                                                         *)
(* Left out: the texts, the counts on the campaign (nothing reads them),   *)
(* the svix ids that refuse a repeated report (here every report may come  *)
(* again), and suppressions that other mails cause.  Two imports at once   *)
(* are taken one after the other.                                          *)
(***************************************************************************)
EXTENDS Integers, Sequences, FiniteSets, Functions

CONSTANTS
  Addresses, \* e-mail addresses, unique in a campaign
  Templates,
  NoTemplate,
  Pages,     \* organizers' pages: each has one request in flight
  Hooks,     \* webhook requests in flight
  Reports,   \* the kinds of reports; delivered changes no more than sent
  Quotas,    \* what the provider may say is left of its daily quota
  MaxImports,
  MaxSends,  \* bound on the jobs enqueued
  MaxAttempts, \* bound on the attempts that begin, of all jobs
  SendRetries  \* retryLimit of the job (3 in the code)

ASSUME OutreachAssumption ==
  /\ NoTemplate \notin Templates
  /\ Reports \subseteq {"SENT", "FAILED", "BOUNCED", "COMPLAINED", "SUPPRESSED"}
  /\ Quotas \subseteq Nat
  /\ {MaxImports, MaxSends, MaxAttempts, SendRetries} \subseteq Nat

VARIABLES
  campaign,   \* status, template; history: what would have settled it was
              \* lost (stranded), what was confirmed last (shown)
  recipients, \* status, the import that made the row; external: whether the
              \* provider has accepted a mail for it
  imports,    \* imports so far
  barred,     \* EmailSuppression
  sends,      \* the jobs, each with the attempt it is in
  page,       \* what an organizer's page or request holds
  unchanged,  \* pages whose campaign version is still the row's
  hook        \* webhook transactions

outreachVars ==
  <<campaign, recipients, imports, barred, sends, page, unchanged, hook>>

NoRow == [status |-> "NONE", import |-> 0, mailed |-> FALSE]
Listed == {a \in Addresses : recipients[a].status # "NONE"}
Recipient(a) == <<a, recipients[a].import>>

NoPage == [pc |-> "idle", template |-> NoTemplate, had |-> FALSE, import |-> 0]
NoReport ==
  [open |-> FALSE, to |-> {}, status |-> "NONE", bars |-> FALSE, outcome |-> "DRAFT"]

\* History: no confirmation stands.
NothingShown == [stands |-> FALSE, template |-> NoTemplate, import |-> 0, early |-> {}]

OutreachInit ==
  /\ campaign = [status |-> "DRAFT", template |-> NoTemplate, stranded |-> FALSE,
                 shown |-> NothingShown]
  /\ recipients = [a \in Addresses |-> NoRow]
  /\ imports = 0
  /\ barred = {}
  /\ sends = <<>>
  /\ page = [p \in Pages |-> NoPage]
  /\ unchanged = {}
  /\ hook = [h \in Hooks |-> NoReport]

-----------------------------------------------------------------------------
(* The status of a campaign from those of its recipients.                  *)

SentStatuses == {"SENT"}
FailedStatuses == {"FAILED", "BOUNCED", "COMPLAINED"}
SkippedStatuses == {"SKIPPED", "SUPPRESSED"}

\* deriveOutreachCampaignStatus
Derived(statuses) ==
  LET sent == statuses \cap SentStatuses # {}
      failed == statuses \cap FailedStatuses # {}
      skipped == statuses \cap SkippedStatuses # {}
  IN IF sent THEN (IF failed THEN "PARTIAL" ELSE "SENT")
     ELSE IF skipped /\ ~failed THEN "SENT" ELSE "FAILED"

\* Faulty variant: the job's last write is a rollup like any other.
RollupUnfinished(statuses, finalize) ==
  IF campaign.status \in {"SENDING", "DRAFT", "READY"}
    THEN campaign.status ELSE Derived(statuses)

\* outreachCampaignRollup
Rollup(statuses, finalize) ==
  IF \/ campaign.status = "SENDING" /\ ~finalize
     \/ campaign.status \in {"DRAFT", "READY"}
    THEN campaign.status
    ELSE Derived(statuses)

\* Every update of the campaign increments its version.
SetStatus(status, shown) ==
  /\ campaign' = [campaign EXCEPT !.status = status, !.stranded = FALSE, !.shown = shown]
  /\ unchanged' = {}

\* History: a confirmation is overtaken when an edit is written that was under
\* way when it was given, or a DRAFT or READY that was read before.
ShownUnless(overtaken) == IF overtaken THEN NothingShown ELSE campaign.shown
OvertakenBy(p) == p \in campaign.shown.early
OvertakenByStatus(status) == status \in {"DRAFT", "READY"}

\* Every write of a recipient waits for the webhook that has changed it.
Unlocked(a) == \A h \in Hooks : hook[h].open => Recipient(a) \notin hook[h].to

-----------------------------------------------------------------------------
(* Organizers.                                                             *)

Editable == campaign.status \in {"DRAFT", "READY"}

Answered(p) == page' = [page EXCEPT ![p] = NoPage]

\* importRecipients, loadCampaign
ImportRead(p) ==
  /\ page[p].pc = "idle"
  /\ Editable
  /\ imports < MaxImports
  /\ page' = [page EXCEPT ![p].pc = "importing",
                          ![p].had = (campaign.template # NoTemplate)]
  /\ UNCHANGED <<campaign, recipients, imports, barred, sends, unchanged, hook>>

ImportWrite(p, valid) ==
  /\ page[p].pc = "importing"
  /\ imports < MaxImports
  /\ \A a \in Listed : Unlocked(a)
  /\ imports' = imports + 1
  /\ recipients' = [a \in Addresses |->
       IF a \in valid THEN [NoRow EXCEPT !.status = "PENDING", !.import = imports + 1]
                      ELSE NoRow]
  /\ SetStatus(IF valid # {} /\ page[p].had THEN "READY" ELSE "DRAFT",
               ShownUnless(OvertakenBy(p)))
  /\ Answered(p)
  /\ UNCHANGED <<barred, sends, hook>>

\* selectTemplate, loadCampaign and the template
SelectRead(p) ==
  /\ page[p].pc = "idle"
  /\ Editable
  /\ page' = [page EXCEPT ![p].pc = "selecting", ![p].had = (Listed # {})]
  /\ UNCHANGED <<campaign, recipients, imports, barred, sends, unchanged, hook>>

SelectWrite(p, t) ==
  /\ page[p].pc = "selecting"
  /\ campaign' = [status |-> IF page[p].had THEN "READY" ELSE "DRAFT",
                  template |-> t, stranded |-> FALSE,
                  shown |-> ShownUnless(OvertakenBy(p))]
  /\ unchanged' = {}
  /\ Answered(p)
  /\ UNCHANGED <<recipients, imports, barred, sends, hook>>

Sendable ==
  /\ campaign.status \in {"DRAFT", "READY", "FAILED"}
  /\ Listed # {}
  /\ campaign.template # NoTemplate

\* getCampaign: the page shows the campaign at a version, and lets it be
\* confirmed if it is sendable.
View(p) ==
  /\ page[p].pc = "idle"
  /\ Sendable
  /\ page' = [page EXCEPT ![p].pc = "viewing", ![p].template = campaign.template,
                          ![p].import = imports]
  /\ unchanged' = unchanged \cup {p}
  /\ UNCHANGED <<campaign, recipients, imports, barred, sends, hook>>

Confirmed == {p \in Pages : page[p].pc = "confirmed"}

\* Faulty variant: the campaign is updated by its status only.
VersionIgnored(p) == TRUE

\* where version = input.version
VersionMatches(p) == p \in unchanged

Editing == {p \in Pages : page[p].pc \in {"importing", "selecting"}}

\* sendCampaign up to its commit: what it reads first is at the same version.
Confirm(p) ==
  /\ page[p].pc = "viewing"
  /\ VersionMatches(p)
  /\ Sendable
  /\ Len(sends) + Cardinality(Confirmed) < MaxSends
  /\ SetStatus("SENDING", [stands |-> TRUE, template |-> page[p].template,
                           import |-> page[p].import, early |-> Editing])
  /\ page' = [page EXCEPT ![p] = [NoPage EXCEPT !.pc = "confirmed"]]
  /\ UNCHANGED <<recipients, imports, barred, sends, hook>>

NoSend == [state |-> "waiting", tries |-> 0, list |-> {}, left |-> 0, spared |-> {},
           to |-> <<>>, act |-> "none", outcome |-> "DRAFT"]

Enqueue(p) ==
  /\ page[p].pc = "confirmed"
  /\ sends' = Append(sends, NoSend)
  /\ Answered(p)
  /\ UNCHANGED <<campaign, recipients, imports, barred, unchanged, hook>>

EnqueueFails(p) ==
  /\ page[p].pc = "confirmed"
  /\ SetStatus("FAILED", campaign.shown)
  /\ Answered(p)
  /\ UNCHANGED <<recipients, imports, barred, sends, hook>>

\* The request is refused or given up, or the API stops.
PageStops(p) ==
  /\ page[p].pc # "idle"
  /\ Answered(p)
  /\ unchanged' = unchanged \ {p}
  /\ campaign' = [campaign EXCEPT !.stranded = @ \/ page[p].pc = "confirmed",
                                  !.shown.early = @ \ {p}]
  /\ UNCHANGED <<recipients, imports, barred, sends, hook>>

-----------------------------------------------------------------------------
(* The worker: processOutreachCampaignJob.                                 *)

Resumable == {"PENDING", "QUEUED", "FAILED"}

Goto(j, state) == sends' = [sends EXCEPT ![j].state = state]

\* On to the next recipient, with so many mails sent in this attempt.
GoOn(j, sent) ==
  sends' = [sends EXCEPT ![j].state = "next", ![j].left = @ - sent, ![j].to = <<>>,
                         ![j].act = "none", ![j].spared = @ \cap sends[j].list]

\* pg-boss hands the job out again until its retries are used up.
Throw(j) ==
  LET tries == sends[j].tries
  IN sends' = [sends EXCEPT ![j] =
       IF tries < SendRetries THEN [NoSend EXCEPT !.tries = tries + 1]
                              ELSE [NoSend EXCEPT !.tries = tries, !.state = "spent"]]

\* History: the addresses an attempt that lists its recipients now must not mail.
Settled == {a \in Listed : recipients[a].status \notin Resumable} \cup barred

\* The attempts begun so far, those that are over and those that are not.
Begun ==
  FoldFunction(LAMBDA s, n : n + s.tries + (IF s.state = "waiting" THEN 0 ELSE 1),
               0, sends)

\* The attempt reads the campaign: it will send the template of this moment.
LoadSend(j) ==
  /\ sends[j].state = "waiting"
  /\ Begun < MaxAttempts
  /\ Goto(j, "loaded")
  /\ UNCHANGED <<campaign, recipients, imports, barred, page, unchanged, hook>>

\* The limits are known, the recipients are listed.
Begin(j, left) ==
  LET listed == {a \in Listed : recipients[a].status \in Resumable}
  IN /\ sends[j].state = "loaded"
     /\ sends' = [sends EXCEPT
          ![j].state = "next", ![j].left = left,
          ![j].list = {Recipient(a) : a \in listed},
          ![j].spared = {Recipient(a) : a \in listed \cap Settled}]
     /\ UNCHANGED <<campaign, recipients, imports, barred, page, unchanged, hook>>

\* The provider gives no limits, or has sending disabled.
LimitsFail(j) ==
  /\ sends[j].state = "loaded"
  /\ SetStatus("FAILED", campaign.shown)
  /\ Throw(j)
  /\ UNCHANGED <<recipients, imports, barred, page, hook>>

\* Faulty variant: the recipient's own status is consulted.
BarredByStatus(r) == recipients[r[1]].status \in {"BOUNCED", "COMPLAINED", "SUPPRESSED"}

IsBarred(r) == r[1] \in barred

Consider(j) ==
  /\ sends[j].state = "next"
  /\ \E r \in sends[j].list :
       sends' = [sends EXCEPT ![j].state = "decided", ![j].to = r, ![j].list = @ \ {r},
         ![j].act = IF IsBarred(r) THEN "SKIPPED"
                    ELSE IF sends[j].left = 0 THEN "FAILED" ELSE "QUEUED"]
  /\ UNCHANGED <<campaign, recipients, imports, barred, page, unchanged, hook>>

\* The update by id throws when an import has replaced the row.
WriteRecipient(j, status, next) ==
  LET a == sends[j].to[1]
  IN /\ IF Recipient(a) = sends[j].to
          THEN /\ Unlocked(a)
               /\ recipients' = [recipients EXCEPT ![a].status = status]
               /\ next
          ELSE Throw(j) /\ UNCHANGED recipients
     /\ UNCHANGED <<campaign, imports, barred, page, unchanged, hook>>

Mark(j) ==
  /\ sends[j].state = "decided"
  /\ WriteRecipient(j, sends[j].act,
       IF sends[j].act = "QUEUED" THEN Goto(j, "sending") ELSE GoOn(j, 0))

\* The mail is accepted; the answer may be lost.
Mail(j) ==
  /\ sends[j].state = "sending"
  /\ recipients' = [a \in Addresses |->
       IF a \in Listed /\ Recipient(a) = sends[j].to
         THEN [recipients[a] EXCEPT !.mailed = TRUE] ELSE recipients[a]]
  /\ \E answer \in {"accepted", "refused"} : Goto(j, answer)
  /\ UNCHANGED <<campaign, imports, barred, page, unchanged, hook>>

Refuse(j) ==
  /\ sends[j].state = "sending"
  /\ Goto(j, "refused")
  /\ UNCHANGED <<campaign, recipients, imports, barred, page, unchanged, hook>>

RecordSent(j) ==
  /\ sends[j].state = "accepted"
  /\ WriteRecipient(j, "SENT", GoOn(j, 1))

\* Also when QUEUED or SENT could not be written.
RecordFailed(j) ==
  /\ \/ sends[j].state \in {"accepted", "refused"}
     \/ sends[j].state = "decided" /\ sends[j].act = "QUEUED"
  /\ WriteRecipient(j, "FAILED", GoOn(j, 0))

StatusesNow == {recipients[a].status : a \in Listed}

ReadOutcome(j) ==
  /\ sends[j].state = "next"
  /\ sends[j].list = {}
  /\ sends' = [sends EXCEPT ![j].state = "finishing",
                            ![j].outcome = Rollup(StatusesNow, TRUE)]
  /\ UNCHANGED <<campaign, recipients, imports, barred, page, unchanged, hook>>

WriteOutcome(j) ==
  /\ sends[j].state = "finishing"
  /\ SetStatus(sends[j].outcome, ShownUnless(OvertakenByStatus(sends[j].outcome)))
  /\ Goto(j, "written")
  /\ UNCHANGED <<recipients, imports, barred, page, hook>>

CompleteSend(j) ==
  /\ sends[j].state = "written"
  /\ sends' = [sends EXCEPT ![j] = [NoSend EXCEPT !.state = "done", !.tries = sends[j].tries]]
  /\ UNCHANGED <<campaign, recipients, imports, barred, page, unchanged, hook>>

\* The database fails, or the worker stops and the job expires.
SendStops(j) ==
  /\ sends[j].state \notin {"done", "spent"}
  /\ Throw(j)
  /\ UNCHANGED <<campaign, recipients, imports, barred, page, unchanged, hook>>

-----------------------------------------------------------------------------
(* The provider's reports.                                                 *)

Bars == {"BOUNCED", "COMPLAINED", "SUPPRESSED"}

Reported(old, report) ==
  CASE report = "SENT"   -> IF old \in {"PENDING", "QUEUED"} THEN "SENT" ELSE old
    [] report = "FAILED" -> IF old \in Bars THEN old ELSE "FAILED"
    [] OTHER             -> report

\* applyVerifiedResendOutreachEvent, with the rollup's reads
Report(h, a, report) ==
  LET old == recipients[a].status
      new == Reported(old, report)
      quiet == report = "FAILED" /\ old \in Bars
  IN /\ ~hook[h].open
     /\ a \in Listed /\ recipients[a].mailed
     /\ Unlocked(a)
     /\ hook' = [hook EXCEPT ![h] =
          [open |-> TRUE, status |-> new, bars |-> report \in Bars,
           to |-> IF quiet THEN {} ELSE {Recipient(a)},
           outcome |-> Rollup({new} \cup {recipients[b].status : b \in Listed \ {a}}, FALSE)]]
     /\ UNCHANGED <<campaign, recipients, imports, barred, sends, page, unchanged>>

Carried ==
  \/ Confirmed # {}
  \/ \E j \in DOMAIN sends : sends[j].state \notin {"written", "done", "spent"}

\* SENDING is written over a later status, and no job is left.
PutBack == campaign.status # "SENDING" /\ ~Carried

CommitReport(h) ==
  LET changed == {a \in Listed : Recipient(a) \in hook[h].to}
  IN /\ hook[h].open
     /\ recipients' = [a \in Addresses |->
          IF a \in changed THEN [recipients[a] EXCEPT !.status = hook[h].status]
                           ELSE recipients[a]]
     /\ barred' = IF hook[h].bars THEN barred \cup changed ELSE barred
     /\ campaign' = [campaign EXCEPT !.status = hook[h].outcome,
          !.shown = ShownUnless(OvertakenByStatus(hook[h].outcome)),
          !.stranded = (hook[h].outcome = "SENDING" /\ (@ \/ PutBack))]
     /\ unchanged' = {}
     /\ hook' = [hook EXCEPT ![h] = NoReport]
     /\ UNCHANGED <<imports, sends, page>>

RollbackReport(h) ==
  /\ hook[h].open
  /\ hook' = [hook EXCEPT ![h] = NoReport]
  /\ UNCHANGED <<campaign, recipients, imports, barred, sends, page, unchanged>>

-----------------------------------------------------------------------------
PageStep(p) ==
  \/ ImportRead(p)
  \/ \E valid \in SUBSET Addresses : ImportWrite(p, valid)
  \/ SelectRead(p)
  \/ \E t \in Templates : SelectWrite(p, t)
  \/ View(p)
  \/ Confirm(p)
  \/ Enqueue(p)
  \/ EnqueueFails(p)
  \/ PageStops(p)

RunStep(j) ==
  \/ LoadSend(j)
  \/ \E left \in Quotas : Begin(j, left)
  \/ LimitsFail(j)
  \/ Consider(j)
  \/ Mark(j)
  \/ Mail(j)
  \/ Refuse(j)
  \/ RecordSent(j)
  \/ RecordFailed(j)
  \/ ReadOutcome(j)
  \/ WriteOutcome(j)
  \/ CompleteSend(j)
  \/ SendStops(j)

ReportStep(h) ==
  \/ \E a \in Addresses, report \in Reports : Report(h, a, report)
  \/ CommitReport(h)
  \/ RollbackReport(h)

OutreachNext ==
  \/ \E p \in Pages : PageStep(p)
  \/ \E j \in DOMAIN sends : RunStep(j)
  \/ \E h \in Hooks : ReportStep(h)

OutreachSpec == OutreachInit /\ [][OutreachNext]_outreachVars

-----------------------------------------------------------------------------
(* Properties.                                                             *)

CampaignStatus == {"DRAFT", "READY", "SENDING", "SENT", "PARTIAL", "FAILED"}
RecipientStatus ==
  {"PENDING", "QUEUED"} \cup SentStatuses \cup FailedStatuses \cup SkippedStatuses
RecipientIds == Addresses \X (1..MaxImports)

OutreachTypeOK ==
  /\ campaign \in [status : CampaignStatus, template : Templates \cup {NoTemplate},
                   stranded : BOOLEAN,
                   shown : [stands : BOOLEAN, template : Templates \cup {NoTemplate},
                            import : 0..MaxImports, early : SUBSET Pages]]
  /\ recipients \in [Addresses -> {NoRow} \cup
       [status : RecipientStatus, import : 1..MaxImports, mailed : BOOLEAN]]
  /\ imports \in 0..MaxImports
  /\ barred \subseteq Addresses
  /\ sends \in Seq([state : {"waiting", "loaded", "next", "decided", "sending", "accepted",
                             "refused", "finishing", "written", "done", "spent"},
                    tries : 0..SendRetries, list : SUBSET RecipientIds,
                    left : Int, spared : SUBSET RecipientIds,
                    to : RecipientIds \cup {<<>>},
                    act : {"none", "SKIPPED", "FAILED", "QUEUED"}, outcome : CampaignStatus])
  /\ page \in [Pages -> [pc : {"idle", "importing", "selecting", "viewing", "confirmed"},
                         template : Templates \cup {NoTemplate}, had : BOOLEAN,
                         import : 0..MaxImports]]
  /\ unchanged \subseteq Pages
  /\ hook \in [Hooks -> [open : BOOLEAN, to : SUBSET RecipientIds,
                         status : RecipientStatus \cup {"NONE"}, bars : BOOLEAN,
                         outcome : CampaignStatus]]

\* A campaign does not stay SENDING, which nobody could send again, for want
\* of a job: a request or an attempt that will settle it is under way,
\* whatever imports, webhooks, other jobs and retries do.  It is left behind
\* only when a job used up its retries, the API stopped before it enqueued,
\* or a webhook that read SENDING before the job's last write put it back.
SendingIsCarried ==
  /\ OutreachTypeOK
  /\ campaign.status = "SENDING" =>
       Carried \/ campaign.stranded \/ \E j \in DOMAIN sends : sends[j].state = "spent"

\* The template an attempt takes, and then the recipients it lists, are those
\* that the organizer who confirmed last was shown, whatever others import,
\* select or view around the confirmation, however often it fails or is given
\* again, and whichever job the attempt is of.  This ends when an edit is
\* written that was under way when the confirmation was given, or a webhook or
\* a job writes back the DRAFT or READY it read before; nothing that begins
\* after the confirmation ends it.  (An attempt that took its template before
\* another confirmation may list the recipients of after.)
SendsWhatWasConfirmed ==
  [][\A j \in DOMAIN sends : campaign.shown.stands =>
       /\ sends[j].state = "waiting" /\ sends'[j].state = "loaded" =>
            campaign.template = campaign.shown.template
       /\ sends[j].state = "loaded" /\ sends'[j].state = "next" =>
            imports = campaign.shown.import]_outreachVars

\* An attempt that lists its recipients after an address was suppressed, or
\* after a recipient was recorded as SENT, SKIPPED, BOUNCED, COMPLAINED or
\* SUPPRESSED, does not mail it: not as a retry, not after another confirmation,
\* not beside another job.  A recipient recorded as FAILED is mailed again, as
\* the code means it.
SettledAreSpared ==
  [][\A j \in DOMAIN sends :
       sends[j].state = "sending" /\ sends'[j].state = "accepted" =>
         sends[j].to \notin sends[j].spared]_outreachVars

=============================================================================
