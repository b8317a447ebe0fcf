---------------------------- MODULE Reactivation ----------------------------
(***************************************************************************)
(* Campaigns that write to customers who have been silent for long         *)
(* (app/reactivation.py).  An administrator starts, pauses, resumes and    *)
(* cancels a campaign; the scheduler puts one message for each recipient   *)
(* into the outbox and copies the outcome back; workers deliver.           *)
(*                                                                         *)
(* The three meet in the rows of the campaign, of its recipients and of    *)
(* the outbox, and each reads before it writes.  A request reads the       *)
(* campaign (api.py), then writes it, which locks its row, and reads the   *)
(* rows it will change, and then writes these and commits.                 *)
(*                                                                         *)
(* The delivery of a row is told in OutboxDelivery; only what a campaign   *)
(* depends on is here.  No recipient has another message in the outbox.    *)
(***************************************************************************)
EXTENDS Naturals, FiniteSets

CONSTANTS
    Workers,        \* worker processes: scheduler and delivery
    Admins,         \* API requests that may be open at a time
    Campaigns,
    Recipients,     \* ids of the recipients' rows
    CampaignOf,     \* [Recipients -> Campaigns]
    Contacts,
    ContactOf,      \* [Recipients -> Contacts]
    MaxRequests,    \* bound: API requests
    MaxFaults       \* bound: crashes, failed sends and deferrals

ASSUME ReactivationAssumption ==
    /\ CampaignOf \in [Recipients -> Campaigns]
    /\ ContactOf \in [Recipients -> Contacts]
    /\ \A r, s \in Recipients :   \* uq_reactivation_campaign_contact
          CampaignOf[r] = CampaignOf[s] /\ ContactOf[r] = ContactOf[s] => r = s
    /\ IsFiniteSet(Workers) /\ Campaigns # {}
    /\ MaxRequests \in Nat /\ MaxFaults \in Nat

VARIABLES
    campaign,     \* ReactivationCampaign.status
    recipient,    \* ReactivationRecipient.status
    mail,         \* Outbox.status of the recipient's message
    due,          \* recipients whose slot, or whose message's available_at, has passed
    admin,        \* the step each API request is at, and what it has read
    worker,       \* the step each worker is at, and what it has read
    delivered,    \* copies of each message the mail server has accepted
    restored,     \* history: how often a resume has put the message back
    late,         \* history: campaigns that a start has written when they were no drafts
    requests, faults

bounds == <<requests, faults>>
history == <<restored, late>>
vars == <<campaign, recipient, mail, due, admin, worker, delivered, history, bounds>>

-----------------------------------------------------------------------------
CampaignStatus == {"DRAFT", "RUNNING", "PAUSED", "COMPLETED", "CANCELLED"}
RecipientStatus ==
    {"SELECTED", "EXCLUDED", "SCHEDULED", "QUEUED", "SENT", "REPLIED", "SKIPPED"}

\* HELD is CANCELLED with last_error "reactivation campaign paused".
MailStatus ==
    {"ABSENT", "PENDING", "CLAIMED", "FAILED", "UNKNOWN", "SENT", "CANCELLED", "HELD"}

Members(c) == {r \in Recipients : CampaignOf[r] = c}

\* loaded: the campaign is read.  holding: its row is locked (pause, resume, cancel),
\* or the contacts' rows are (start).  rows: recipients to write; mails: messages
\* to write.
AdminState ==
    [pc : {"idle", "loaded", "holding"}, kind : {"none", "start", "pause", "resume", "cancel"},
     camp : Campaigns, rows : SUBSET Recipients, mails : SUBSET Recipients]

\* row: the message in hand, as a set of at most one.  locked: the rows the pick has
\* locked.  sent, lost: recipients that the scheduler has read as sent or cancelled.
WorkerState ==
    [pc : {"idle", "syncing", "counted", "picked", "claimed", "sending", "replied"},
     row : SUBSET Recipients, locked : SUBSET Recipients,
     sent : SUBSET Recipients, lost : SUBSET Recipients, done : SUBSET Campaigns,
     reply : {"none", "ok", "soft", "hard", "ambiguous"}]

IdleAdmin ==
    [pc |-> "idle", kind |-> "none", camp |-> CHOOSE c \in Campaigns : TRUE,
     rows |-> {}, mails |-> {}]

IdleWorker ==
    [pc |-> "idle", row |-> {}, locked |-> {}, sent |-> {}, lost |-> {}, done |-> {},
     reply |-> "none"]

\* Drafts whose candidates have been scanned and selected.
Init ==
    /\ campaign = [c \in Campaigns |-> "DRAFT"]
    /\ recipient = [r \in Recipients |-> "SELECTED"]
    /\ mail = [r \in Recipients |-> "ABSENT"]
    /\ due = {}
    /\ admin = [a \in Admins |-> IdleAdmin]
    /\ worker = [w \in Workers |-> IdleWorker]
    /\ delivered = [r \in Recipients |-> 0]
    /\ restored = [r \in Recipients |-> 0] /\ late = {}
    /\ requests = 0 /\ faults = 0

-----------------------------------------------------------------------------
(* Locks: who holds a row follows from the steps.                          *)

At(w, step) == worker[w].pc = step
Holds(a) == admin[a].pc = "holding"
Changes(a, c) == Holds(a) /\ admin[a].camp = c /\ admin[a].kind # "start"

CampaignFree(c) == \A a \in Admins : ~Changes(a, c)

\* Mutant: the contacts are read without a lock.
ContactsFreeUnlocked(rows) == TRUE

ContactsFree(rows) ==
    \A a \in Admins : Holds(a) /\ admin[a].kind = "start" =>
        {ContactOf[r] : r \in admin[a].rows} \cap {ContactOf[r] : r \in rows} = {}
MailFree(rows) == \A w \in Workers : worker[w].locked \cap rows = {}
RecipientFree(rows) ==
    \A w \in Workers : At(w, "counted") => (worker[w].sent \cup worker[w].lost) \cap rows = {}

Fault == faults < MaxFaults /\ faults' = faults + 1
Ends(a) == admin' = [admin EXCEPT ![a] = IdleAdmin]
Stops(w) == worker' = [worker EXCEPT ![w] = IdleWorker]

\* f with the value v at every row.
With(f, rows, v) == [r \in DOMAIN f |-> IF r \in rows THEN v ELSE f[r]]

-----------------------------------------------------------------------------
(* Requests of an administrator.                                           *)

Load(a, kind, c, rows) ==
    /\ admin[a].pc = "idle" /\ requests < MaxRequests
    /\ requests' = requests + 1
    /\ admin' = [admin EXCEPT ![a] = [IdleAdmin EXCEPT !.pc = "loaded", !.kind = kind,
                                                       !.camp = c, !.rows = rows]]
    /\ UNCHANGED <<campaign, recipient, mail, due, worker, delivered, history, faults>>

BeginStart(a, c) ==
    LET selected == {r \in Members(c) : recipient[r] = "SELECTED"} IN
    /\ campaign[c] = "DRAFT" /\ selected # {}
    /\ Load(a, "start", c, selected)

BeginPause(a, c) == campaign[c] = "RUNNING" /\ Load(a, "pause", c, {})
BeginResume(a, c) == campaign[c] = "PAUSED" /\ Load(a, "resume", c, {})
BeginCancel(a, c) ==
    campaign[c] \notin {"COMPLETED", "CANCELLED"} /\ Load(a, "cancel", c, {})

\* The first flush locks the row of the campaign, and the rows to change are read.
Reads(a, kind, rows, mails) ==
    /\ admin[a].pc = "loaded" /\ admin[a].kind = kind /\ CampaignFree(admin[a].camp)
    /\ admin' = [admin EXCEPT ![a].pc = "holding", ![a].rows = rows, ![a].mails = mails]
    /\ UNCHANGED <<campaign, recipient, mail, due, worker, delivered, history, bounds>>

Waiting(r) == mail[r] \in {"PENDING", "FAILED"}

\* Mutant: recipients without a message are joined, too.
ReadPausedAll(a) ==
    LET members == Members(admin[a].camp)
        mails == {r \in members : Waiting(r)} IN
    Reads(a, "pause", {r \in members : recipient[r] = "SCHEDULED"}, mails)

ReadPaused(a) ==
    LET mails == {r \in Members(admin[a].camp) : Waiting(r)} IN
    Reads(a, "pause", {r \in mails : recipient[r] # "QUEUED"}, mails)

\* Mutant: only the messages whose time has come are restored.
ReadResumedDue(a) ==
    Reads(a, "resume", {}, {r \in Members(admin[a].camp) : mail[r] = "HELD" /\ r \in due})

ReadResumed(a) ==
    Reads(a, "resume", {}, {r \in Members(admin[a].camp) : mail[r] = "HELD"})

ReadCancelled(a) ==
    LET rows == {r \in Members(admin[a].camp) : recipient[r] \in {"SCHEDULED", "QUEUED"}} IN
    Reads(a, "cancel", rows, {r \in rows : Waiting(r)})

\* The rows are written by their ids, whatever they hold by now.
Commits(a, kind, status) ==
    /\ Holds(a) /\ admin[a].kind = kind
    /\ MailFree(admin[a].mails) /\ RecipientFree(admin[a].rows)
    /\ campaign' = [campaign EXCEPT ![admin[a].camp] = status]
    /\ Ends(a)
    /\ UNCHANGED <<worker, delivered, bounds>>

Pause(a) ==
    /\ Commits(a, "pause", "PAUSED")
    /\ mail' = With(mail, admin[a].mails, "HELD")
    /\ recipient' = With(recipient, admin[a].rows, "QUEUED")
    /\ UNCHANGED <<due, history>>

Resume(a) ==
    /\ Commits(a, "resume", "RUNNING")
    /\ mail' = With(mail, admin[a].mails, "PENDING")
    /\ due' = due \cup admin[a].mails
    /\ restored' = [r \in Recipients |-> restored[r] + (IF r \in admin[a].mails THEN 1 ELSE 0)]
    /\ UNCHANGED <<recipient, late>>

Cancel(a) ==
    /\ Commits(a, "cancel", "CANCELLED")
    /\ mail' = With(mail, admin[a].mails, "CANCELLED")
    /\ recipient' = With(recipient, admin[a].rows, "SKIPPED")
    /\ UNCHANGED <<due, history>>

\* Another campaign that runs or is paused has the contact among its selected ones.
Reserved(r) ==
    \E x \in Recipients :
        /\ ContactOf[x] = ContactOf[r] /\ CampaignOf[x] # CampaignOf[r]
        /\ campaign[CampaignOf[x]] \in {"RUNNING", "PAUSED"} /\ recipient[x] # "EXCLUDED"

\* start_campaign locks the contacts and then looks for reservations.
ReadReserved(a) ==
    LET rows == admin[a].rows
        available == {r \in rows : ~Reserved(r)} IN
    /\ admin[a].pc = "loaded" /\ admin[a].kind = "start"
    /\ ContactsFree(rows)
    /\ admin' = [admin EXCEPT ![a] = IF available = {} THEN IdleAdmin
                                     ELSE [@ EXCEPT !.pc = "holding", !.mails = available]]
    /\ UNCHANGED <<campaign, recipient, mail, due, worker, delivered, history, bounds>>

\* Here mails are the recipients without a reservation.
Start(a) ==
    LET c == admin[a].camp
        available == admin[a].mails IN
    /\ Holds(a) /\ admin[a].kind = "start"
    /\ CampaignFree(c) /\ RecipientFree(admin[a].rows)
    /\ campaign' = [campaign EXCEPT ![c] = "RUNNING"]
    /\ recipient' = With(With(recipient, admin[a].rows, "EXCLUDED"), available, "SCHEDULED")
    /\ due' = due \ available
    /\ late' = IF campaign[c] = "DRAFT" THEN late ELSE late \cup {c}
    /\ Ends(a)
    /\ UNCHANGED <<mail, worker, delivered, restored, bounds>>

-----------------------------------------------------------------------------
(* The scheduler: ensure_reactivation_dispatch.                            *)

\* Mutant: only what was sent is copied back.
LostNever(r) == FALSE

\* Cancelled for another reason than a pause.
Lost(r) == recipient[r] = "QUEUED" /\ mail[r] = "CANCELLED"

\* Nothing is left of a running campaign but the rows.
Exhausted(c, rows) ==
    /\ campaign[c] = "RUNNING"
    /\ \A r \in Members(c) \ rows : recipient[r] \notin {"SCHEDULED", "QUEUED"}

\* _sync_delivery_states reads the recipients with their messages.
SyncRead(w) ==
    LET sent == {r \in Recipients : recipient[r] = "QUEUED" /\ mail[r] = "SENT"}
        lost == {r \in Recipients : Lost(r)} IN
    /\ At(w, "idle")
    /\ sent \cup lost # {} \/ \E c \in Campaigns : Exhausted(c, {})
    /\ worker' = [worker EXCEPT ![w] = [IdleWorker EXCEPT !.pc = "syncing", !.sent = sent,
                                                          !.lost = lost]]
    /\ UNCHANGED <<campaign, recipient, mail, due, admin, delivered, history, bounds>>

\* The flush locks the recipients read, and the running campaigns are looked through.
SyncCount(w) ==
    LET marked == worker[w].sent \cup worker[w].lost IN
    /\ At(w, "syncing") /\ RecipientFree(marked)
    /\ worker' = [worker EXCEPT ![w].pc = "counted",
                                ![w].done = {c \in Campaigns : Exhausted(c, marked)}]
    /\ UNCHANGED <<campaign, recipient, mail, due, admin, delivered, history, bounds>>

SyncCommit(w) ==
    /\ At(w, "counted") /\ \A c \in worker[w].done : CampaignFree(c)
    /\ recipient' = With(With(recipient, worker[w].sent, "SENT"), worker[w].lost, "SKIPPED")
    /\ campaign' = With(campaign, worker[w].done, "COMPLETED")
    /\ Stops(w)
    /\ UNCHANGED <<mail, due, admin, delivered, history, bounds>>

\* The contact has written, or has been written to, since the campaign was made.
Active(r) ==
    \E x \in Recipients : ContactOf[x] = ContactOf[r] /\ mail[x] # "ABSENT"

\* The rows of the recipient and of the campaign are locked, and skipped if another
\* transaction has locked them.
Dispatchable(r) ==
    /\ campaign[CampaignOf[r]] = "RUNNING" /\ CampaignFree(CampaignOf[r])
    /\ recipient[r] = "SCHEDULED" /\ r \in due /\ RecipientFree({r})

Queue(w, r) ==
    /\ At(w, "idle") /\ Dispatchable(r) /\ ~Active(r)
    /\ recipient' = [recipient EXCEPT ![r] = "QUEUED"]
    /\ mail' = [mail EXCEPT ![r] = "PENDING"]
    /\ UNCHANGED <<campaign, due, admin, worker, delivered, history, bounds>>

\* The contact may not be written to (any more), or has been active.
Skip(w, r) ==
    /\ At(w, "idle") /\ Dispatchable(r)
    /\ recipient' = [recipient EXCEPT ![r] = "SKIPPED"]
    /\ UNCHANGED <<campaign, mail, due, admin, worker, delivered, history, bounds>>

-----------------------------------------------------------------------------
(* Delivery of one message: send_one_outbox and reconcile_unknown_outbox.  *)

Available == {r \in due : Waiting(r) /\ MailFree({r})}

\* reactivation_send_guard, as far as the campaign and the recipient go.
Guard(r) == campaign[CampaignOf[r]] = "RUNNING" /\ recipient[r] = "QUEUED"

\* FOR UPDATE without a LIMIT: every available row is locked, one is looked at.
Pick(w, r) ==
    /\ At(w, "idle") /\ r \in Available /\ Guard(r)
    /\ worker' = [worker EXCEPT ![w] = [IdleWorker EXCEPT !.pc = "picked", !.row = {r},
                                                          !.locked = Available]]
    /\ UNCHANGED <<campaign, recipient, mail, due, admin, delivered, history, bounds>>

GuardStops(w, r) ==
    /\ At(w, "idle") /\ r \in Available /\ ~Guard(r)
    /\ mail' = [mail EXCEPT ![r] = "CANCELLED"]
    /\ UNCHANGED <<campaign, recipient, due, admin, worker, delivered, history, bounds>>

\* A check before the claim, or the final guard on a row that is still claimed.
Checks(w) ==
    \/ At(w, "picked")
    \/ At(w, "claimed") /\ \A r \in worker[w].row : mail[r] = "CLAIMED"

\* The contact may not be written to; the guard's own reasons skip the recipient.
Refuse(w) ==
    /\ Checks(w)
    /\ \E skipped \in {worker[w].row, {}} :
          /\ RecipientFree(skipped)
          /\ recipient' = With(recipient, skipped, "SKIPPED")
    /\ mail' = With(mail, worker[w].row, "CANCELLED")
    /\ Stops(w)
    /\ UNCHANGED <<campaign, due, admin, delivered, history, bounds>>

\* Business hours, limits and pacing, at either check.
Defer(w) ==
    /\ Checks(w) /\ Fault
    /\ mail' = With(mail, worker[w].row, "PENDING")
    /\ due' = due \ worker[w].row
    /\ Stops(w)
    /\ UNCHANGED <<campaign, recipient, admin, delivered, history, requests>>

Claim(w) ==
    /\ At(w, "picked")
    /\ mail' = With(mail, worker[w].row, "CLAIMED")
    /\ worker' = [worker EXCEPT ![w].pc = "claimed", ![w].locked = {}]
    /\ UNCHANGED <<campaign, recipient, due, admin, delivered, history, bounds>>

\* The final guard reads the row again; the campaign and the recipient it takes from
\* the session, which has read them before the claim.
GuardAborts(w) ==
    /\ At(w, "claimed") /\ \A r \in worker[w].row : mail[r] # "CLAIMED"
    /\ Stops(w)
    /\ UNCHANGED <<campaign, recipient, mail, due, admin, delivered, history, bounds>>

GuardPasses(w) ==
    /\ At(w, "claimed") /\ \A r \in worker[w].row : mail[r] = "CLAIMED"
    /\ worker' = [worker EXCEPT ![w].pc = "sending"]
    /\ UNCHANGED <<campaign, recipient, mail, due, admin, delivered, history, bounds>>

Transmit(w, reply, accepted) ==
    /\ At(w, "sending")
    /\ delivered' = [r \in Recipients |->
                        delivered[r] + (IF accepted /\ r \in worker[w].row THEN 1 ELSE 0)]
    /\ worker' = [worker EXCEPT ![w].pc = "replied", ![w].reply = reply]
    /\ UNCHANGED <<campaign, recipient, mail, due, admin, history, requests>>

Accepted(w) == Transmit(w, "ok", TRUE) /\ UNCHANGED faults
Rejected(w) == Transmit(w, "soft", FALSE) /\ Fault
Bounced(w) == Transmit(w, "hard", FALSE) /\ UNCHANGED faults
Ambiguous(w) == (\E accepted \in BOOLEAN : Transmit(w, "ambiguous", accepted)) /\ Fault

\* Mutant: an ambiguous outcome is retried.
StatusAfterRetried(reply) ==
    CASE reply = "ok" -> "SENT" [] reply = "hard" -> "CANCELLED" [] OTHER -> "FAILED"

StatusAfter(reply) ==
    CASE reply = "ok" -> "SENT" [] reply = "soft" -> "FAILED"
      [] reply = "hard" -> "CANCELLED" [] OTHER -> "UNKNOWN"

Record(w) ==
    /\ At(w, "replied") /\ MailFree(worker[w].row)
    /\ mail' = With(mail, worker[w].row, StatusAfter(worker[w].reply))
    /\ due' = IF worker[w].reply = "soft" THEN due \ worker[w].row ELSE due
    /\ Stops(w)
    /\ UNCHANGED <<campaign, recipient, admin, delivered, history, bounds>>

\* A claim whose worker has died: no send outlasts the lease.
Recover(r) ==
    /\ mail[r] = "CLAIMED" /\ \A w \in Workers : r \notin worker[w].row
    /\ mail' = [mail EXCEPT ![r] = "UNKNOWN"]
    /\ UNCHANGED <<campaign, recipient, due, admin, worker, delivered, history, bounds>>

\* The Sent folder tells.
Reconcile(r) ==
    /\ mail[r] = "UNKNOWN"
    /\ mail' = [mail EXCEPT ![r] = IF delivered[r] > 0 THEN "SENT" ELSE "FAILED"]
    /\ due' = due \cup {r}
    /\ UNCHANGED <<campaign, recipient, admin, worker, delivered, history, bounds>>

-----------------------------------------------------------------------------
\* record_reactivation_reply: the customer answers, which may be before the send is
\* recorded, and has no use for other campaigns' messages.
Reply(r) ==
    LET future == {x \in Recipients \ {r} : ContactOf[x] = ContactOf[r]
                                            /\ recipient[x] \in {"SCHEDULED", "QUEUED"}} IN
    /\ delivered[r] > 0 /\ recipient[r] \in {"QUEUED", "SENT"}
    /\ RecipientFree({r} \cup future) /\ MailFree({x \in future : Waiting(x)})
    /\ recipient' = [With(recipient, future, "SKIPPED") EXCEPT ![r] = "REPLIED"]
    /\ mail' = With(mail, {x \in future : Waiting(x)}, "CANCELLED")
    /\ UNCHANGED <<campaign, due, admin, worker, delivered, history, bounds>>

\* A slot, a retry or the end of a deferral is reached.  Slots lie ahead of the start
\* that gives them, and no start is open when one is reached.
BecomeDue(r) ==
    /\ r \notin due /\ recipient[r] \in {"SCHEDULED", "QUEUED"}
    /\ \A a \in Admins : admin[a].kind # "start"
    /\ due' = due \cup {r}
    /\ UNCHANGED <<campaign, recipient, mail, admin, worker, delivered, history, bounds>>

Crash(w) ==
    /\ ~At(w, "idle") /\ Fault
    /\ Stops(w)
    /\ UNCHANGED <<campaign, recipient, mail, due, admin, delivered, history, requests>>

\* The database aborts one of two transactions that wait for each other: a request
\* has the campaign and wants its recipients, the scheduler the reverse.
Deadlocked(a, w) ==
    /\ Holds(a) /\ At(w, "counted")
    /\ admin[a].rows \cap (worker[w].sent \cup worker[w].lost) # {}
    /\ \E c \in worker[w].done : Changes(a, c)

AbortAdmin(a) ==
    /\ \E w \in Workers : Deadlocked(a, w)
    /\ Ends(a)
    /\ UNCHANGED <<campaign, recipient, mail, due, worker, delivered, history, bounds>>

AbortSync(w) ==
    /\ \E a \in Admins : Deadlocked(a, w)
    /\ Stops(w)
    /\ UNCHANGED <<campaign, recipient, mail, due, admin, delivered, history, bounds>>

-----------------------------------------------------------------------------
AdminStep(a) ==
    \/ ReadPaused(a) \/ ReadResumed(a) \/ ReadCancelled(a) \/ ReadReserved(a)
    \/ Pause(a) \/ Resume(a) \/ Cancel(a) \/ Start(a) \/ AbortAdmin(a)

\* The steps of a transaction that a worker has begun.
Continue(w) ==
    \/ SyncCount(w) \/ SyncCommit(w) \/ AbortSync(w)
    \/ Refuse(w) \/ Claim(w) \/ GuardAborts(w) \/ GuardPasses(w)
    \/ Accepted(w) \/ Bounced(w) \/ Record(w)

Schedules(w) == SyncRead(w) \/ \E r \in Recipients : Queue(w, r) \/ Skip(w, r)
Delivers(w, r) == Pick(w, r) \/ GuardStops(w, r)

\* No campaign runs, and no request comes any more.
Quiet ==
    /\ \A w \in Workers : At(w, "idle")
    /\ \A a \in Admins : admin[a].pc = "idle"
    /\ \A c \in Campaigns : campaign[c] # "RUNNING"
    /\ UNCHANGED vars

Next ==
    \/ \E a \in Admins :
          \/ \E c \in Campaigns :
                BeginStart(a, c) \/ BeginPause(a, c) \/ BeginResume(a, c) \/ BeginCancel(a, c)
          \/ AdminStep(a)
    \/ \E w \in Workers :
          \/ Continue(w) \/ Schedules(w)
          \/ \E r \in Recipients : Delivers(w, r)
          \/ Defer(w) \/ Rejected(w) \/ Ambiguous(w) \/ Crash(w)
    \/ \E r \in Recipients : Recover(r) \/ Reconcile(r) \/ Reply(r) \/ BecomeDue(r)
    \/ Quiet

Spec == Init /\ [][Next]_vars

\* The loop of a worker comes by every step again and again.
Fairness ==
    /\ \A a \in Admins : WF_vars(AdminStep(a))
    /\ \A w \in Workers : WF_vars(Continue(w)) /\ SF_vars(Schedules(w))
    /\ \A r \in Recipients :
          /\ SF_vars(\E w \in Workers : Delivers(w, r))
          /\ WF_vars(Recover(r)) /\ WF_vars(Reconcile(r)) /\ WF_vars(BecomeDue(r))

FairSpec == Spec /\ Fairness

-----------------------------------------------------------------------------
\* Outside a draft, a recipient that is queued or sent has a message.
TypeOK ==
    /\ campaign \in [Campaigns -> CampaignStatus]
    /\ recipient \in [Recipients -> RecipientStatus]
    /\ mail \in [Recipients -> MailStatus]
    /\ due \subseteq Recipients
    /\ admin \in [Admins -> AdminState] /\ worker \in [Workers -> WorkerState]
    /\ delivered \in [Recipients -> Nat]
    /\ restored \in [Recipients -> Nat] /\ late \subseteq Campaigns
    /\ requests \in 0..MaxRequests /\ faults \in 0..MaxFaults
    /\ \A r \in Recipients :
          recipient[r] \in {"QUEUED", "SENT", "REPLIED"} => mail[r] # "ABSENT"

\* However starts of campaigns that share contacts overlap, with each other and with
\* everything else, no person is scheduled by two of them at a time, unless one of them
\* has been started twice.
ScheduledOnce ==
    \A x, y \in Recipients :
        /\ x # y /\ ContactOf[x] = ContactOf[y]
        /\ recipient[x] = "SCHEDULED" /\ recipient[y] = "SCHEDULED"
        => {CampaignOf[x], CampaignOf[y]} \cap late # {}

\* A resume forgets no message that a pause has taken back: requests that overlap
\* cannot leave one behind in a campaign that runs.
HeldOnlyWhilePaused ==
    \A r \in Recipients :
        mail[r] = "HELD" /\ recipient[r] = "QUEUED" => campaign[CampaignOf[r]] # "RUNNING"

\* A message goes out again only after a resume has put it back, once for each time:
\* pauses, cancellations, retries and crashes alone never send it twice.
SentAgainOnlyByResume == \A r \in Recipients : delivered[r] <= 1 + restored[r]

\* A recipient of a running campaign is dealt with, unless the campaign is stopped.
RecipientsSettle ==
    \A r \in Recipients :
        recipient[r] \in {"SCHEDULED", "QUEUED"} /\ campaign[CampaignOf[r]] = "RUNNING"
            ~> \/ recipient[r] \notin {"SCHEDULED", "QUEUED"}
               \/ campaign[CampaignOf[r]] # "RUNNING"

=============================================================================
