# A verification of the mail agent

The program answers the sales mail of a company: it polls a mailbox, classifies
what comes in, lets a model draft an answer or hands the case to a human, and
sends what is approved through a durable outbox.  PostgreSQL holds all state;
one API process and one or more worker processes share it.  This directory
models the parts whose correctness depends on the order in which these
processes, the mail server and the humans act.

Paths below are relative to `app/` of the repository.

## The system

| Component | State it keeps | Operations | What makes it correct | Modules |
| --- | --- | --- | --- | --- |
| Outbox delivery (`delivery/outbound_*.py`, `delivery_safety.py`) | `outbox` rows, `email_address_status` | pick, gate, preflight, claim, guard, send, record, reconcile | no message twice; none to a suppressed address; status tells the truth; every row ends | `OutboxDelivery`, `MailPromise` |
| Contact suppression (`delivery/contact_delivery_service.py`, `inbound/bounce_service.py`) | address status, contacts, cases | suppress an endpoint, replace a recipient, give one up, apply a bounce | once committed, nothing is sent; open rows are withdrawn | `OutboxDelivery`, `HandoffReview` |
| Job queue (`jobs.py`, `worker.py`) | `jobs` rows | enqueue, claim, run, retry, defer, interrupt | each job is eventually done or failed; a lease protects a running job; one effect per business key | `JobQueue` |
| Handoffs and agent runtime (`handoffs/*`, `common/service_core.py`) | `handoffs`, `agent_runs`, assistance requests, case status | create, answer, preview, approve, forward, resolve, resume | one answer per handoff; a case a human took over stays with the human | `AgentHandoff`, `HandoffReview` |
| Mailbox synchronization (`imap_poller.py`, `inbound/email_ingestion.py`, `history.py`) | cursor per folder, `email_messages`, cases | poll, ingest, thread, advance, reset on UIDVALIDITY, reconcile old mail | nothing lost, nothing handled twice, a campaign message and its Sent copy share out their answers among them | `MailboxSync`, `InquiryRules` |
| Inbound processing (`inbound/*`) | cases, jobs | analyse, clarify, quote, hand over, stop | an email is answered or a human has it; no automatic answer to a stopped case | `InboundLadder`, `InboundRules`, `Quotations` |
| Quotations (`quotations/*`, `domain.py`) | quotes, commercial cycles, price policies | draft, freeze, reprice, approve, refresh weekly | no quote leaves at a price that is not in force; rounds are a history | `Quotations`, `HandoffReview` |
| Dispositions (`dispositions/*`) | dispositions, actions, batches | submit, poll, plan, apply, roll back | one action per email; a rollback overwrites nothing newer in the rows it locks; nobody departs on hearsay | `Dispositions`, `DispositionBatch`, `InboundRules` |
| Reactivation (`reactivation.py`) | campaigns, recipients | start, dispatch, pause, resume, cancel, synchronize | one message per recipient; a paused campaign sends nothing | `Reactivation` |
| Certificates, catalogs, research, AI calls | files, indexes | scan, match, render, ask | mostly sequential; what they lead to is in `InboundLadder` and `HandoffReview` | outcomes only |

The components meet in the database.  The API and the worker's job handlers
insert outbox rows and jobs; the worker's loop (`worker.py`) takes one job and
one outbox row per round, each in a session of its own, and swallows what they
raise.  Locks are PostgreSQL's: `FOR UPDATE SKIP LOCKED` where a worker picks a
row or a job, and an advisory lock per recipient address where an address is
suppressed or a message goes out.  SQLAlchemy sessions keep loaded objects
across a commit (`expire_on_commit=False`, `db.py`), which matters wherever
something is checked before a commit and used after it.

## What is modelled

### `OutboxDelivery`

One action is one database transaction, or one step of a transaction that holds
a lock across an external call.

| Variable | In the code |
| --- | --- |
| `outbox` | the rows of `outbox`: `status`, `attempts`; `due` is `available_at <= now`, `aged` is `locked_at` older than the lease |
| `party` | per recipient the case's status, `contact.lifecycle_status` and the opt-out (`contact.suppressed` or `customer.do_not_contact`) |
| `suppressed` | `email_address_status.suppressed` |
| `handoffs` | rows for which a delivery failure was handed to a human |
| `worker` | the step each worker is at, its row, the case it loaded (`seen`) and the transport's reply or the preflight's verdict (`note`) |
| `rowLock`, `gateLock` | row locks and advisory locks held by an open transaction |
| `desk` | an API request between its first read and its commit |
| `delivered` | copies of each message the mail server has accepted: the observer the promises are about |

`send_one_outbox` is the sequence `Pick` (or `GiveUp`, `RecoverClaim`),
`GatePasses`/`GateStops`, `Defer`, `Refuse`, `BlockSuppressed`, `BlockNoMX`,
`FindUndeliverable` with `SuppressDomain`/`SuppressAddress`, `Claim`, then
`GuardAborts`/`GuardDefers`/`GuardCancels`/`GuardPasses` under the advisory
lock, `Transmit`, and `Record`.  `reconcile_unknown_outbox` is `LookUp`, then
`Settle` or `LookupFails`.  `Escalate` is the `create_handoff` that follows a
cancellation in a transaction of its own.  `Crash` ends a worker at any step:
what was not committed is gone, its locks are free, and what the server
accepted stays accepted.  The other writers are `suppress_contact_endpoint`
(`BeginSuppress`, `SuppressContactEndpoint`), `update_handoff`
(`BeginWithdraw`, `Withdraw`, `Resume`), a hard bounce, an unsubscribe and an
absence notice.  When the preflight waits for the advisory lock of a request
that waits for the worker's row, the database aborts either (`AbortWorker`,
`AbortSuppress`).

Four details of the code are kept because the properties depend on them:

- the second case gate reads the case the session already holds (`Recheck` uses
  `seen`), while the row and the address are read afresh;
- a column is written only if an assignment changes what the session loaded
  (`PausedFrom`, `Committed`, `Escalate`);
- `Record` and `Withdraw` write a row by its id, whatever it holds by then;
- the queries that pick a row have no `LIMIT`, so `FOR UPDATE` locks every
  available row, not only the first (`Pick`, `LookUp`): until its first commit a
  worker keeps the others off all of them, and the desk waits.

Left out: the file transport of the demo, `FORWARD` rows (sent without a case),
the arithmetic of pacing and business days (a deferral may happen at any check),
several cases per recipient, and a server that accepts a message and then
answers `QUIT` with anything but 221 (`smtplib` reports that as a failed send).
A send is assumed to be shorter than the ten-minute lease (`AgeLease`): SMTP
calls time out after 30 seconds each.

### `JobQueue`

`jobs.py` with two of its handlers, chosen because they ask opposite things of
the queue: `create_case_outreach` has an effect in the database, protected by
the outbox's unique business key, and `notify_handoff` has one outside it.

| Variable | In the code |
| --- | --- |
| `jobs` | the rows of `jobs`: `status` (`ABSENT` before the first request), `attempts`; `due` is `available_at <= now`, `aged` is `locked_at` older than `job_lease_seconds` |
| `worker` | the step each worker is at, its job, and the `dingtalk_status` its session loaded (`seen`) |
| `staged`, `handed` | outreach jobs whose outbox row is committed, or whose case was handed to a human |
| `dingtalk`, `closed` | `Handoff.dingtalk_status`; notify jobs that found the handoff closed or of a silenced reason |
| `notified` | messages the webhook has accepted: the observer |
| `starts`, `extra`, `doubts`, `overruns` | history: claims of a job, claims its limit does not count, messages accepted without the database knowing, leases that ended under a running handler |

`enqueue_job` is `Enqueue`; `claim_and_run_job` is `Claim` or `PollNothing`, the
handler's steps, and one of `Finish`, `Fail`, `Defer` and `Interrupt` for its
four ends.  The handlers' steps are `FindStaged`, `Draft`, `Insert`, `Conflict`,
`HandOver`, and `SkipTold`, `SkipClosed`, `Call`, `CallSucceeds`, `CallFails`,
`RecordTold`.  Each end writes the row by its id and does not compare
`locked_by`: a worker whose lease is over may finish a job another worker runs,
or reopen one another worker has finished.  The model has these steps, and the
properties say what still holds (`DoneHasEffect`) and what holds only until a
lease of the job has run out under its worker (`LeaseProtects`, `NotifiedOnce`,
`DoneStaysDone`).

`Fail` stands for any exception, so it may happen at every step but `calling`,
whose failures are `CallFails`.  `Interrupt` may arrive during the last commit,
which then has taken effect or not.  An insert with a key that an uncommitted
transaction holds waits for it (`KeyLocked`).  `HandOver` may happen at every
step before the insert: most branches of `create_case_outreach` that hand over
depend on the case, the price policy and the content, which are not part of this
module; the same goes for whether a handoff is still open (`SkipClosed`).  The
webhook transport is modelled, not the one that only logs.

### `AgentHandoff`

One handoff of an email to a human, from the question to its end.
`ensure_handoff_agent_run` asks typed questions; an answer raises the version of
the agent run and queues a job for that version; the job is `resume_agent_run`.
Meanwhile a human may reply, forward, resolve, reject, pause or take over.

| Variable | In the code |
| --- | --- |
| `handoff`, `case` | `Handoff.status`, `SalesCase.status` |
| `run` | `AgentRun.status` and `version` |
| `facts` | of `Handoff.extracted_facts`: documents were sent before (`followup`, `partial_coa_outbox_id`), a draft is prepared (`prepared`, `prepared_coa`) |
| `requests`, `answer` | `AssistanceRequest.status` of each question, and the query its answer names |
| `jobs` | the `resume_agent_run` jobs, one for each version, with the question they carry |
| `worker`, `clerk` | the step each worker and each API request is at, and the statuses its session loaded |
| `runLock`, `handoffLock` | row locks of the run, and of the handoff and its case, held by an open transaction |
| `outbox` | the agent's rows in the outbox, by their unique business key: `First` for the email, or a query |
| `sent`, `previewed` | observers: messages the agent has staged for each question; a preview has put or found a question |
| `approved` | outbox rows of a human's reply or forward (`handoff-reply:<id>` and the forward's key) |

`answer_*_assistance` is `Answer`, or `AnswerAgain` after a block, or
`AnswerUnavailable` for the answer that no COA exists.  `resume_agent_run` is
`LoadRun` or `SkipResume`, then `Block` or `Proceed`, then one of the handler's
results: a prepared draft (`Prepare`, `CommitPrepared`), a message for a part of
what was asked (`SendPart`), the whole message (`SendAll`) or
nothing that may be sent (`Decline`, `BlockLate`).  When nothing was staged but the
key has a row, that row is taken for the message (`CommitPartial`, `CommitFound`).
`Finish`, `Fail` and `FailSent` are the ends of the job, `Crash` the end of the
worker.  `CancelMail` is whoever cancels a row: the delivery, a suppression, a human.
`queue_human_reply`, `update_handoff` and `forward_handoff_email` are
`BeginReply`, `BeginUpdate`, `BeginForward`, then `Hold` where the rows are not
locked from the start, and `Decide`.  The preview of a certificate
(`prepare_detected_coa_preview`) is `BeginPreview`, `Hold`, and `PreviewFinds` or
`PreviewAsks`: it replaces the facts by those of its own analysis, and may put a
question or let the run wait again.

Details kept because the properties depend on them:

- `create_handoff` ends with `enqueue_job`, which commits.  A resumed run that
  reaches it gives up its locks in the middle (`CommitsEarly`) and finishes in a
  second transaction with the statuses its session holds;
- the message's key is `inbound-coa:<email>`, one for the email, unless the facts name
  documents that were sent before; then it is a hash of the query (`KeyOf`).  Two
  answers may have one key, and one answer may have two, if a preview between two
  runs of its job removes what the facts say;
- while the handoff still asks, `create_handoff` puts the run back to
  `WAITING_HUMAN`, which the first commit then contains (`CommitsEarly`'s two
  statuses);
- a column is written only if the session loaded another value (`Written`), the run's
  status after the early commit included (`RunWaits`): a decision made between the
  two commits stays in the row;
- when the business key is taken, the session is rolled back and the objects it
  held cannot be read any more: the job fails (`FailSent`).  So after a crash
  behind a partial message every rerun fails until the attempts are used up;
- a stale job is claimed again whatever its attempts (`Crash`).

Behaviour of the code that the model shows and no property forbids: a run may
stay open although the handoff is `RESOLVED`, when the decision falls between the
two commits of a resumed run; a rerun after a crash may turn a run with a
prepared draft into a blocked one; a human's reply can be queued beside the
agent's message, since `queue_human_reply` reads the handoff without a lock; an
answer whose job has failed stays unanswered until somebody decides the handoff
(`NoLostAnswer` counts it as kept).  Two more are about the facts.  A follow-up that
was sent in part leaves its `prepared_coa` behind (`coa_delivery.py:48-54`; only the
draft's preview is removed from the facts), so that the resumed run takes the branch of
a prepared draft (`agent_resume.py:206`): the rest is not asked for, and the run waits
for the approval of what has left already (`SendPart`, then `CommitPrepared`).  And a
preview that still misses a document lets a blocked run wait again: its answer has no
job then, and cannot be given again, as that needs a blocked run.  `NoLostAnswer` and
`AnswerIsProcessed` say so by `previewed`; the docstring at
`handoff_prepared_preview.py:37-46` says that a preview "preserves every already-prepared
typed draft".

Left out: which answer leads to which result (a nondeterministic choice);
`update_handoff`'s cancellation of outbox rows (`Withdraw` of `OutboxDelivery`); and
the approval of a prepared draft and several handoffs of one case, which are
`HandoffReview`.
The job is run by one worker at a time, which is what `JobQueue` proves within
the lease (`LeaseProtects`).

### `Reactivation`

Campaigns, between the administrator, the scheduler and the delivery.  The
delivery is `OutboxDelivery`'s, reduced to what a campaign depends on; here its
row may be written by a pause, a resume and a cancellation at any step.

| Variable | In the code |
| --- | --- |
| `campaign`, `recipient` | `ReactivationCampaign.status`, `ReactivationRecipient.status` |
| `mail` | the status of the recipient's outbox row (`ABSENT` before it is made; `HELD` is `CANCELLED` with the error "reactivation campaign paused") |
| `due` | recipients whose `scheduled_for`, or whose row's `available_at`, has passed |
| `admin` | the step each API request is at, and the rows it has read |
| `worker` | the step each worker is at: in `_sync_delivery_states` with what it read, or in a delivery with its row and the rows its pick has locked |
| `delivered`, `restored`, `late` | observers: copies the server has accepted, how often a resume has put the message back, and campaigns that a start has written when they were no longer drafts |

A request is `BeginStart`, `BeginPause`, `BeginResume` or `BeginCancel`, which
loads the campaign and tests its status; then `ReadReserved`, `ReadPaused`,
`ReadResumed` or `ReadCancelled`, which locks and reads; then `Start`, `Pause`,
`Resume` or `Cancel`, which writes by id and commits.
`ensure_reactivation_dispatch` is `SyncRead`, `SyncCount`, `SyncCommit`, and then
`Queue` or `Skip`.  `send_one_outbox` is `Pick` or `GuardStops`, `Claim`,
`GuardPasses` or `GuardAborts`, `Transmit`, `Record`, with `Refuse` and `Defer`
at both checks.  `record_reactivation_reply` is `Reply`.

Details kept because the properties depend on them:

- `pause_campaign` reads its rows without a lock after it has locked the
  campaign, and writes them whatever they hold by then (`Commits`);
- the final guard reads the row afresh, but has the campaign and the recipient in
  its session (`GuardPasses` does not look at `campaign`);
- the flush of the synchronization locks the recipients, and its commit needs the
  row of a campaign it completes, while a request locks them in the other order
  (`Deadlocked`);
- `resume_campaign` takes a row back by the exact text of its error.  A row that
  the guard has stopped with "reactivation campaign is paused" does not have it:
  the recipient is skipped by the synchronization, and the resume does not bring
  it back (`GuardStops`, `Lost`);
- `start_campaign` tests the status of the campaign it has loaded before it locks
  the contacts, and not again.  Of two starts of one campaign the second one waits
  for the first and then schedules whoever the first has left out, although the
  campaign has been running, or is over, since.  `late` marks such a campaign, and
  `ScheduledOnce` excepts it: a contact it schedules may be one that another
  campaign has reserved meanwhile.

Assumed: no slot is reached while a start is open (`BecomeDue`), as slots lie
ahead of the start that assigns them and a request lasts milliseconds; a send
does not outlast the lease (`Recover`).  Left out: the scan of candidates and the
selection by hand, the retry limit (`MaxFaults` stays below it), and the limits
per day and the hours, which are a deferral at any check (`Defer`).

### `HandoffReview`

The handoffs of one case on the review page, where several requests work at a
time.  Each has a session that loads the handoff and the case without a lock,
awaits the model, files or prices, and commits later.

| Variable | In the code |
| --- | --- |
| `review` | `Handoff`: status, reason, source email's sender, whether it has a case; from `extracted_facts` what was prepared, its products, `round_number` and price policy |
| `case` | `SalesCase.status`, `product_id`, `contact_id` |
| `suppressed`, `policy` | addresses given up; the price list in force |
| `outbox` | the approved rows, by business key: `handoff-reply:H`, its `:manual-price` and the forward |
| `quotes` | the rows of `quotes` for the case |
| `clerk` | the step of each request, and what its session has loaded |
| `lock` | the `FOR UPDATE` lock of each handoff, which only `quote_with_manual_price` takes |

`send_handoff_reply` is `BeginReply`, `BeginCertificate` or `BeginList`, then
`CommitReply`; `quote_with_manual_price` is `BeginPrice`, `CountRound` (the last round is read after
the text is drafted) and `CommitPrice` (the quotes are flushed and committed);
`stream_handoff_draft_preview` is `BeginPreview` and then
`PreviewCertificate`, `PreviewList` or `PreviewText`.  `Abort` is the rollback of any of
them.  The requests without an await are one action each: `CreateCase`, `AssignCase`,
`SetProduct`, `Forward`, `ReplaceRecipient`, `GiveUpRecipient`, `UpdateHandoff`.
`Claim`, `Block`, `Send`, `BlockLate` are the delivery of an approved row.

Details kept because the properties depend on them:

- a prepared quote is compared with the price list and the last round when its
  request begins (`Current`), and not again when it commits; what keeps two
  approvals apart is the unique key on case, round and product (`RoundFree`);
- the last round of a case is read without a lock of the case
  (`manual_quote_service.py:236-239`) and written later (265), when another approval may
  have committed: if it quoted the same product, the unique key refuses this one; if it
  quoted another, both have the same round.  So a round of the history may belong to two
  requests, and `RoundsInOrder` does not say otherwise;
- the row goes to the address of the case that was loaded (`r.case.contact`);
- a column is written only if it differs from what was loaded (`Saved`), so a
  preview that has waited for the model overwrites a decision made meanwhile;
- a row that a human has approved passes the gate whatever the status of the case
  and skips the commercial gate (`Eligible`), so that a price list confirmed between
  the check and the send does not stop it;
- a handoff that was answered may be opened again by a pause or a takeover, whose
  rows are cancelled, and its reply key is then taken for ever.

Left out: the words of the drafts, and the agent's run (`AgentHandoff`).

### `InboundLadder` and `Quotations`

`InboundLadder` is `process_inbound` as an operator: each branch is a step that ends
in an outcome (a draft of some kind, a handoff with its reason, a wait for the
week's prices) or passes the email on.  `Quotations` runs it as a process: the
awaits between the steps, what is committed when, and the other actors.

| Variable | In the code |
| --- | --- |
| `mail`, `setup` | what the model reads in each email; the feature switches of `Settings` |
| `case` | `SalesCase.status`, whether its product and category are known, and the opt-out |
| `prices` | the week's `CommercialDataCycle`, the policy in force, and what `get_quote_context` says of it |
| `rows` | outbox rows by business key, with the policy and week a quote is frozen with |
| `handoffs` | the reason of the first handoff of each email |
| `jobs` | the job of an email, and the job that prices it again for each week |
| `worker` | the step of each worker, the case its session loaded, what it has staged and not committed |

A job is `Skip`, `Machine` (an automated reply) or `Begin`; after the model's answer
`AnalysisFails`, `Unsubscribe`, or the certificate (`PassOn`, `AskForCertificate`,
`StageCertificate`, `CertificateTaken`), then `Answer`: a handoff, a wait
(`WaitForPrices`) or a draft (`BeginDraft`) that ends in `Stage`, `SubmitDraft`,
`DraftFails` or `KeyTaken`.  The delivery's commercial gate is `GateBlocks`,
`CancelStale` with the reprice job, `Claim`, `Send`.  `ConfirmPrices`,
`ConfirmInventory` and `NewWeek` are the commercial team and the calendar.

Three ways in which the code loses a request are named in `LostRequest`, and
`NobodyForgotten` says that there is no other: the reprice job finds the key of its
quote taken by a cancelled one; a quote of several products is cancelled by a gate
that compares it with a case that has no product; a job stages a certificate and
then has to wait, and its retry fails on the certificate's key.

### `MailboxSync` and `InquiryRules`

`InquiryRules` holds the rules that find the case of an email, for live mail
(`inquiry_resolution.py`, `inquiry_matching.py`, `match_case`) and for old mail
(`history.py`).  `MailboxSync` is the poller with its cursors, the ingestion of one
email by the poller or by an upload, the follow-up, and the reconciliation.

| Variable | In the code |
| --- | --- |
| `server` | the folders on the server: UIDVALIDITY and mail, a UID being a position |
| `cursor`, `used` | `MailboxCursor`; `MailboxDailyUsage` of today |
| `row` | `EmailMessage`: stored, `is_history`, `case_id` |
| `cases`, `contacts`, `campaign` | `SalesCase`, `Contact`, and the case of a campaign's message |
| `started`, `review` | what was started for an email: a job, a review (`Handoff`), or nothing left to do |
| `ingest`, `cycle` | what each ingester has read; the poller's cycle |

Kept: the cursor advances in a transaction of its own behind the ingestion
(`Advance`); a new UIDVALIDITY starts over behind a new cutoff (`SaveCursor`); a
collision rolls everything back and the poller's folder fails (`Collide`,
`FailAfterCollision`); only the parent message of a campaign is locked
(`LockParent`).  The Sent folder holds a copy of the campaign's message under the same
Message-ID (`Mail[m].copyOf`), which may be ingested before or after the answers.  It is
linked by its own Message-ID (`Names`), an answer to the campaign answers the copy as well
(`Parents`), and a promotion files a copy that has no case (`Insert`).  If the copy was
filed before, by what is known of its party, answers follow it and not the promotion.  `Barred`
are the parties whose promotion fails with an error, because the address is suppressed or
of another customer.  The reconciliation reads first (`ReadHistory`) and writes its `plan`
later (`Reconcile`): an upload may commit between the two.

### `InboundRules`, `Dispositions`, `DispositionBatch`

`InboundRules` has the rules that recognise automated replies, the classification
by rules or by a model, the resolution of the contact an email speaks for, and the
plan of what an application would do and which reviews stand in its way.  The emails
are not given as dispositions: `Inputs` is a set of emails, each with its cues, the
addresses it names, what the model answers if it is asked, and what the rows know of
its sender, and `Profile` makes the disposition and the contact of it by the rules.

`Dispositions` applies it.  A worker reads and classifies (`ReadAndClassify`), asks
for a review (`AskForReview`) or locks the email (`LockEmail`) and applies
(`ApplyAutomatically`, `LeaveToOthers`, `DepartWithoutAction`); an administrator
applies what he reviewed (`Review`, `ApplyReviewed`) and rolls back
(`CheckRollback`, `RollBack`).  `contact`, `qualified`, `referral`, `colleague`,
`mail`, `replyCase` and `desk` are the rows an application writes, and `action` holds the
snapshots before and after it.  The deliveries and the notice of a handoff, the
colleague, the case of his reply and other suppressions interleave.  Kept:

- the contact is read before it is locked, and the session writes relative to what it
  read (`Written`).  The administrator's plan is made anew under the locks
  (`LockReviewed`, then `ApplyReviewed`), but of the objects his session has: nothing
  reloads them (`api.py:1806-1839`), although the comment at 1832 says "if another reviewer changed state while this request
  was waiting, the plan token now differs";
- a colleague nobody knew gets a contact when his reply is reviewed (`Replies`), and his
  reply a case, old or new (`Continues`).  Once he is known, the second plan finds
  another sender and the application is refused (`StillUnknown`);
- a rollback compares the handoff and its notice job each for itself, as it does the other
  columns (`StillAfter`), and restores each alone;
- what a rollback locks are the rows whose ids `snapshot_list_ids` finds, and it finds none
  in the lists of a snapshot (`disposition_audit.py:104-110`).  The message to the colleague
  and the colleague's contact are in such lists.  They may be used between the check and
  the commit, and are cancelled or deleted all the same; the docstring at line 53
  restores an action only "if no irreversible/later change exists".  No property says
  anything of these two rows.

Whether the outreach is switched on, wanted by the request, allowed by the customer and not
suppressed is a choice at each application (`may`).  What an email resolves to, `StillUnknown`
apart, is fixed when the model starts.

`DispositionBatch` is one batch of emails that a provider classifies: `Create`,
`RetryFailed` and `Enqueue` by requests; `LockBatch` and then the submission
(`ProviderAccepts`, `RecordSubmission`, `SubmissionFails`) or the poll
(`StatusReadFails`, `ResultsReadFails`, `StillProcessing`, `StoreResults`) by a
worker, which holds the row's lock during its calls; `RequestChanges` when what is
read of an email changes; `Crash`.  Calls fail as often as they like; only failed reads
of the results are bounded, for a reason given under the bounds.  `orphans` counts the provider's batches that no
committed row names.

### `MailPromise`

What delivery promises to the outside, in two variables: a message is accepted
at most once, and never for an address blocked before.  `OutboxDelivery`
implements it with `copies <- delivered` and `blocked <- suppressed`
(`ImplementsPromise`).  An unsubscribe alone does not block an address: it marks
the contact and the customer, which only the case gate reads.

## What the runs check

| Run | Configuration | Shows |
| --- | --- | --- |
| `outbox` | `MCOutboxDelivery.cfg` | `TypeOK`, `SentIsDelivered`, the refinement of `MailPromise`, `EventuallyFinished`, `LastAttemptIsNotLost` |
| `outbox_stale_case` | `OutboxStaleCase.cfg` | a counterexample to `GuardSeesCurrentCase` |
| `jobs` | `MCJobQueue.cfg` | `TypeOK`, `LeaseProtects`, `DoneHasEffect`, `NotifiedOnce`, `EventuallySettled` |
| `handoff` | `MCAgentHandoff.cfg` | `TypeOK`, `OneMessagePerAnswer`, `NoLostAnswer`, `AgentSendsOnAnswer`, `AnswerIsProcessed` |
| `handoff_takeover` | `AgentTakeover.cfg` | a counterexample to `TakeoverLasts` |
| `review` | `MCHandoffReview.cfg` | `TypeOK`, `OneAnswerEach`, `RoundsInOrder`, `SentToContact` |
| `quotations` | `MCQuotations.cfg` | `TypeOK`, `QuotesAreCurrent`, `NobodyForgotten`, `EventuallySettled` |
| `quotations_unheard` | `QuotationsUnheard.cfg` | a counterexample to `QuoteIsHeard` |
| `mailbox` | `MCMailboxSync.cfg` | `SyncTypeOK`, `NothingLost`, `OneCasePerCampaign`, `EverythingIngested` |
| `dispositions` | `MCDispositions.cfg` | `TypeOK`, `OneActionPerEmail`, `NobodyDepartsOnHearsay`, `RollbackSeesNoChange` |
| `disposition_batch` | `MCDispositionBatch.cfg` | `TypeOK`, `PaidOnce`, `JudgedAsHashed`, `EventuallyEnded` |
| `reactivation` | `MCReactivation.cfg` | `TypeOK`, `ScheduledOnce`, `SentAgainOnlyByResume`, `HeldOnlyWhilePaused`, `RecipientsSettle` |

Bounds of the outbox.  Two rows for one recipient, one approved by a human and
one of a campaign, are the smallest setting in which rows compete for a worker,
for the advisory lock and for the state of one case; two workers are needed for
a row to be taken by another after a crash.  `MaxAttempts = 2` (5 in the code)
has a first, a last and an exhausted attempt.  One trouble (a crash or a fault)
and one edit can strike at any step; the counterexample is searched with two of
each.

Bounds of the queue.  One job of each kind and two workers, so that a job can be
taken from a running worker and the oldest job can hold up the other; two
attempts; one trouble (a crash, a fault or a repeated request) and one overrun of
a lease per job, which is enough for two workers to run one job to its end in
every order.

Bounds of the handoff.  Two questions and three versions let an answer be given
again and a second question follow a partial message.  Two workers let the job of
the former version run beside the job of the current one.  One decision or preview
falls between any two of their steps.  One query beside the email's own key makes the
second answer meet the row of the first, or another key after a preview; that two
queries have rows of their own is left to the proofs.  Two attempts and one crash or exception reach a
retry, an exhausted job and a claim past the limit.  The counterexample needs one
worker, one question and one decision.

Bounds of the review.  Two handoffs of one case, in the pairs that interfere: two
drafts of a quote for the same round, a draft beside a message that could not be
delivered or beside a bounce, and two without a case.  Two requests at a time, so
that every step of one falls between any two of the other, two price lists, and
two further requests (`MaxEdits`) besides those that answer.  The requests are
interchangeable and a symmetry set.

Bounds of the quotations.  Two emails of one case: every kind of email beside an
order, which a human gets, or two requests for a quote.  Two weeks and two price
lists let a quote become stale by either; two workers run an email and its
repricing, or two emails, at once; one attempt makes a failure final at once; one
trouble is a crash or a takeover.  The switches are all on or all off, so that an
automated reply is met both by the dispositions and by the older rules.

Bounds of the mailbox.  Three messages with real threading: the Sent copy
of a campaign's message and two answers to it, the second from a colleague, which may be
uploaded at any time.  The two folders and the upload bring them in in every order.  No
party is barred: a promotion that fails is a folder that fails.  A batch of one and a limit
of two per day give every cursor position, and days that end early; one fault is a folder that fails, a cut connection, a crash or a
new UIDVALIDITY.

Bounds of the dispositions.  Two emails of one sender, with two runs and two requests.
The first is one of the eight that reach every outcome (`Main`), the second tells of the
sender's departure or that his company is no customer, so that the two write the same
contact, the same colleague or the same customer.  The workers are a symmetry set.  Or one email is any that at most two
cues, one answer of the model and one state of the rows make (`Wide`), for a worker to apply.

Bounds of the batch.  Two emails for the model and one for the rules, two workers,
two attempts, one retry by hand, and one crash or overrun of a lease.  Submissions and
reads of the status fail without bound, so that the branch that gives up is reached by
them (`EventuallyEnded`).  Failed reads of the results are bounded by `MaxFaults = 1`:
every read of the status that succeeds puts the count of failures back to 0
(`disposition_batches.py:460-463`), so results that can never be read keep a batch open
for ever, although the docstring at 337 has the count end the attempt.

Bounds of the campaigns.  Two campaigns that share a contact, with one recipient each.  Two requests at a
time and three in all: a start, a pause and a resume in sequence, with any two of
them overlapping, or the two starts and another.  Two workers, so that one delivers
while the other synchronizes, or takes the row a resume has put back.  One fault is
a crash, a rejected or ambiguous send, or a deferral, at any step.

Fairness.  A worker process is restarted by its container and polls for ever, so
each worker's steps are weakly fair; so is time (`AgeLease`, `BecomeDue`,
`LeaveEnds`).  Nobody has to request a job: `Enqueue` is not fair.  A request that
waits for locks is in the locks' queue and a picking worker skips locked rows, so
the desk's step is strongly fair.  Faults and edits are finite: a server that limits
the rate for ever, or a folder that can never be searched, keeps a row open for ever
in the code as well.  In `AgentHandoff` the steps of a worker and those of a request
that has begun are fair, and nobody has to answer or decide.  In `Reactivation` a
worker's loop comes by the scheduler and by the delivery again and again, at moments
when the rows it needs may be locked by a request: these two are strongly fair, what
a transaction does once begun is weakly fair, and nobody has to request anything.  In
`Quotations` the worker's loop is weakly fair as a whole, as it is one loop over jobs
and rows: as long as something is due (`Due`) it moves (`WorkerMoves`); prices need
not be confirmed, and `EventuallySettled` supposes it where it is needed.  In
`MailboxSync` the poller and an upload that has begun go on, and days end; the server
owes nothing.  In `DispositionBatch` workers claim, calls return, be it with a failure, and the provider ends
a batch; the row's lock, which another worker may hold again and again, is strongly
fair.

The counterexamples:

- `GuardSeesCurrentCase`.  The guard before the send promises to "re-check
  mutable recipient state after claiming".  The trace: a worker gates and claims
  a row, the customer unsubscribes, the guard asks the case gate again and gets
  the case it has in memory, and the message goes out.  The address status, read
  for the first time, would have stopped it, but an unsubscribe does not set it.
- `TakeoverLasts`.  Of a forwarded email the code says that "the case is set to
  human takeover so the AI never replies to it again".  The trace: a question is
  answered and a worker takes the job, the email is forwarded, which cancels the
  run and the answer, and the worker loads the run.  It stops only for a
  completed run or a newer version; it finds the answer missing and blocks, which
  makes the cancelled run blocked and takes the case out of human takeover.
- `QuoteIsHeard`.  Of a certificate asked for beside a quote the code says to "keep the
  remaining quote/product-list workflow independent".  The trace: a human has to send
  the certificate, so a handoff is created for the email; the prices of the week are
  not there, so the job is deferred; its retry returns at the handoff, and the quote is
  never drafted.

## What is proved

`OutboxDeliveryProofs` proves for any number of workers, rows, recipients,
retries, crashes, faults and edits, from `OutboxAssumption` (ids are numbers,
every row has a recipient, the desk is not a worker):

- `TypeCorrect`, `DeliveredAtMostOnce` (`AtMostOnce`), `StatusIsTrue`
  (`RetryOnlyUndelivered` and `SentIsDelivered`);
- `SuppressionIsRespected`: `NoSendAfterSuppression`;
- `OutboxImplementsPromise`: the refinement of `MailPromise`.

`AtMostOnce` is not inductive: it needs to be known that a row open for another
attempt was not delivered, that a claimed row is in the hands of one worker, and
that the reply this worker still has to record tells what the server did.  `IInv`
says so: before the claim the row lock gives the worker the row
(`PickedIsLocked`), after it the status does, since nobody picks a `CLAIMED` or
`CANCELLED` row that is not stale (`ClaimIsExclusive`); the advisory lock keeps
the address unsuppressed from the guard to the record (`SendIsGated`), because
every writer of the suppression takes that lock (`DeskIsGated` for the API); and
`ReplyIsTrue` ties the reply to the copies.  `IInv` was checked with TLC on the
instance of `outbox` before it was proved.  One lemma per action shows
that the action keeps it.

`JobQueueProofs` proves for any number of workers, jobs, retries, crashes,
interrupts, deferrals and overruns, from `JobAssumption` (ids are numbers, there
is at least one attempt), the safety properties of `jobs` and two more: `TypeCorrect`,
`LeaseIsExclusive`, `DoneMeansDone`, `NotificationsAreCounted`,
`RetriesAreBounded` and `DoneIsFinal`.  The invariant has four parts besides the
types.  `LeaseHolds` ties a running worker to its row until a lease has run out
under it: the row is `RUNNING` and not aged, so no other worker can claim it and
no other end can write it; `LeaseProtects` and `DoneStaysDone` follow.
`EffectFirst` says that every worker about to write `DONE` has its effect
behind it, which needs that effects are never undone and that a business key
found is a key committed.  `MessagesCounted` follows a message from the webhook
(`told`) to the record (`SENT`) or into `doubts`.  `BudgetKept` keeps `attempts`
and `extra` together above `starts`, whatever order a refund, a reclaim and a
failure come in.

`AgentHandoffProofs` proves for any number of workers, requests, questions,
versions, retries, crashes and decisions, from `HandoffAssumption` (workers and
requests are different processes, there is at least one attempt, question and
version), the four safety properties of `handoff`: `TypeCorrect`, `OneMessage`
(`OneMessagePerAnswer`), `SendsOnAnswer` and `AnswerKept` (`NoLostAnswer`, which ends when a
preview puts or finds a question).  `TypeInv` adds to the types that a job's
attempts stay within the limit and the crashes (`AttemptsLeft`).  `LockInv` says
that the worker that resumes or drafts holds the run's lock and that what it
loaded is still so, although the handoff and the question have no lock of their
own: every writer of either needs the run's lock, `resume` excepted, which at most
opens the handoff again.  `JobInv` follows an answer to its end: one question is live at a time
(`OneQuestion`), a worker's job is its own and runs (`JobsHeld`), a worker between
its two commits is at the current version, and nobody can answer then
(`LateIsCurrent`), a finished one has settled the answer (`FinishedIsSettled`), a
completed run leaves none (`CompletedIsSettled`), and the answer's job is the one
of the run's version (`AnswerHasJob`).

`QuotationsProofs` proves for any number of workers, emails, weeks, price lists,
crashes and takeovers, and for any emails and settings, from `QuotationAssumption`
(the inputs have the fields the ladder reads, there is an attempt and a week, `None` is
nobody's name), the three safety properties of `quotations`: `QuotationTypes`,
`EveryEmailIsHeard` (`NobodyForgotten`) and `PricesHold` (`QuotesAreCurrent`).

`EveryEmailIsHeard` is about the moment the last job of an email ends.  Most ends write
an answer in the same transaction.  The others find something there, and the invariant
(`QuoteInv`) says what it is worth: a key that is taken holds a reply or a cancelled
one, and a cancelled one has a reason (`Excuses`).  The reason of a stale quote is a job
of its week or a later one, so jobs, drafts and quotes need an order (`Calendar`), and
one of them at a time must be responsible for the email (`Turns`).  `Products` says when
the case has the product that the gate compares a quote with.  `Answers` is the property
itself, said of every email and not only of those at rest.  Lemmas about the ladder come
first: it ends in one of its steps (`OneStepDecides`), quotes only a case with a product
(`RouteQuotesAProduct`), and never drops an email unless it is an automated reply it may
ignore (`MachineIsAnswered`, `CertificateIsHandled`, `HumansGetReasons`).  `Turns` and
`Excuses` are theorems too: `OneQuoteAtATime` and `CancelledForAReason`.

Two actions carry `PricesHold`: `Claim`, the only one that puts a quote on its way,
compares the policies under the same lock that `ConfirmPrices`, the only one that
changes the policy, needs; and `ConfirmPrices` finds no quote on its way.  Every other
action, for all the rows it writes, claims nothing (`ClaimsNothing`).

`HandoffReviewProofs` proves for any number of requests, handoffs, products, price
lists and edits, from `ReviewAssumption`, all four properties of `review`: `TypesHold`,
`AnsweredOnce`, `RoundsCount` and `SentWhereItShould`.  None of the last three is
inductive.  `OneAnswerEach` needs that a request under way is of a handoff
(`OfHandoff`).  `RoundsInOrder` is said of requests that count the rounds in one
step and write in another, so it needs `InReach`: an approval under way was counted or
checked against a round that is at most the next one, and stays so as rounds only grow
(`FurtherReach`); that it does not repeat one is the unique key's doing (`Quoting`); and
`PricesSome`, since a price for nothing would be a round without a quote.
`SentToContact` needs `ClaimedToContact`: a claimed row still is to the address of the
case, because `ReplaceRecipient` cancels the rows to the address it takes away in the
same transaction.

`ReactivationProofs` proves for any number of workers, requests, campaigns, contacts
and faults, from `ReactivationAssumption` (a campaign has a contact once, the unique key
of the table; there are finitely many workers), the four safety properties of
`reactivation`: `CampaignTypes`, `CopiesAreAskedFor` (`SentAgainOnlyByResume`),
`NothingLeftHeld` (`HeldOnlyWhilePaused`) and `PeopleScheduledOnce` (`ScheduledOnce`).
`RowsInv` says what a request and a worker carry from one step to the next, and which
rows their locks keep.  On it stand three invariants:

- `CopiesInv`: the copies of a message that are delivered, those that workers are about
  to make (`InFlight`) and one if the row is waiting are together no more than one and
  the resumes.  The row alone does not tell, because a pause and a resume write it
  while a worker has it in hand;
- `HoldInv`: one request at a time has the campaign's row (`OneChange`), and a resume
  that has it has read every message that is held (`ResumeInv`);
- `OnceInv`: the starts that have read the reservations share no contact
  (`StartLocks`), and what one has found free stays free until it commits
  (`PendingStart`); a campaign that closes takes along whatever it has scheduled
  (`CancelInv`, `DoneInv`), so that a schedule is always in a campaign that counts as
  a reservation (`LiveInv`).

`InboundProofs` is about the two modules an email passes through when it comes in.  Of
`Dispositions` it proves, for any number of workers and emails, and for every set of
emails that the rules can read (`InputsAreReadable`), the four properties of
`dispositions`: `DispositionTypes`, `AppliedOncePerEmail` (`OneActionPerEmail`),
`NoHearsay` (`NobodyDepartsOnHearsay`) and `NothingOverwritten` (`RollbackSeesNoChange`).
The row locks are conditions on who is between two steps, so the invariant says what
holds there: a worker that has locked an email shares it with nobody and finds no
action in force (`WorkersHold`); so does an administrator who has locked the email he
reviewed, and his plan still is one that may be applied (`ReviewHolds`); a rollback that has
passed its check finds its action in force and every column it locks as the action left it
(`RollbackHolds`).  `NothingOverwritten` speaks of these columns only, not of the message
to the colleague and his contact, which the code does not lock.  `NoHearsay` rests
on `WasApplicable`, which keeps for an action in force that nothing stood in its way,
and on lemmas about the rules: who may name a departure (`WhoSaysSo`), and what the
blockers of a plan let through (`HearsayBlocked`).

Of `MailboxSync` it proves, for any mail, uploads, batch size and daily limit and from
`MailAssumption`, `NothingIsLost` (`NothingLost`), `CampaignsHaveOneCase`
(`OneCasePerCampaign`: an answer is in the campaign's case or in one of the Sent copy's) and
`MailboxTypes` (`SyncTypeOK`), and two theorems that no run
states: `NobodyElsesCase`, that an email which is no delivery report is in a case of its
own party or in none, and a review that names a case names the one of its email; and
`CasesAreKept`, that an email which has a case is never moved to another.  Both except
the Sent copies: a promotion files them whatever their party, and the reconciliation may
move one when an answer has promoted the campaign since it read the mail.  (Its
specification is called `SyncSpec`, so that one module of proofs can extend it beside
`Dispositions`.)  The cursor moves one transaction behind
the ingestion, so `NothingLost` needs what lies between the two: the batch is what the
folder holds behind the cursor (`CycleInv`), what the poller ingests is the first of the batch and is
history exactly when the cursor says so (`FirstOfBatch`), and when it is done with it,
it is stored and followed up (`Landed`); `Passed` then holds of the next email as well.
Folders only grow and a UIDVALIDITY only rises (`CursorInv`), so that a renumbered folder
makes an old cursor say nothing.  `OneCasePerCampaign` rests on the lock: while an
ingester holds the campaign's row nobody else does and the campaign has no case, and a
plain answer that is about to be inserted opens no case and has the campaign's, the
copy's or none (`AsMatched`).

`SyncTypeOK` is mostly about where cases come from.  Its invariant `SyncInv` adds to that
of `NothingLost` that cutoffs stay within the mail and renumberings within the faults
(`ServerTypes`), what people are given to do (`WorkTypes`), and `FiledInv`: the case an
email has, and the one an ingester has read for it and may write a transaction later, is a
row of the table and, unless the email reports a failed delivery, one of its party's
(`Filed`).  That is inductive because the table only grows and no step changes whose a
case is (`Longer`), although cases are opened and change their status between the reading
and the writing.  Lemmas about the rules show that a match, a new inquiry and an old
email's history each name a case of the party (`MatchIsTheirs`, `InquiryIsTheirs`,
`HistoryIsTheirs`).  The rounds over old mail are a recursive function, and what they find
for each email, a case of its party and the one it had if it had one (`Findings`), needs
an induction over their steps.  The library's induction theorems take an operator, which
the provers cannot instantiate; `Smallest` takes a set, and says that a set of numbers has
a least member, from the library's theorem that the numbers are well-founded.  The steps
at which the rounds would find something else form such a set, and its least member
contradicts `StepFinds` (`ChainsExist`, `HistoryIsFound`).

`DispositionBatchProofs` proves for any number of workers, emails, attempts, retries and
crashes, and whichever calls fail, from `BatchAssumption`, the safety properties of
`disposition_batch`: `BatchTypes`, `NeverPaidTwice` (`PaidOnce`) and
`JudgedFromItsRequest` (`JudgedAsHashed`).  A provider's batch is paid for before its
attempt is counted, so `PaidOnce` is not inductive: `PaidInv` allows an email one more
than it has counted, exactly while a worker stands between the two with this email among
those it asks for.  The row's lock keeps that worker alone (`LockInv`), no batch that
waits for its results is submitted again (`SubmitInv`, `OpenInv`), and an email that is
asked for has an attempt left (`RoomInv`).

What proving has changed in the models: `OneCasePerCampaign` is of answers that name
no other message, because an answer whose `References` name another thread is matched by
that thread, as `match_case` has it; `Reconcile` writes the cases of old mail only, which
it used to do through what its rounds leave unchanged; `ScheduledOnce` of an earlier form
did not follow from what a start reads, and had to name the campaign that is started twice; the
dispositions were built from the emails by the rules, since the properties are about what
these rules let through; and `InboundLadder` ignored an email that the older rules
read as a person's, which no lemma could justify and the code does not do.  The rounds of
the reconciliation were folds that went on until nothing changed; they are now a recursive
function of the step, bounded by the 20 rounds of the code, and pass over an email that is
linked already.  `MailAssumption` says what these proofs need: emails are
numbered from 1, a delivery report names case 1 or none, the first case has the columns of
a case, and every party is known to `Company`.

Only model-checked: the liveness properties, which are out of the prover's reach, and the
counterexamples.  Every safety property of every passing run is stated by a theorem.

## Plan

Done, in this order: the outbox and its promise; the queue; the handoff and the agent's
run; the campaigns; the mailbox; the dispositions and their batches; the quotations; the
review page; the proofs, in the order of the section above.

Left, the most useful first:

1. `AgentHandoff` and `HandoffReview` together: the agent's drafts under the requests
   that approve them.
2. The pacing limits as check-then-act over a send history.

## Not modelled

Prompts and parsing of model output, MIME composition, HTML, spreadsheets and
retrieval indexes are data transformations without interleaving; their outcomes
are inputs.  Amounts, floors and currencies of prices are data: a price is the policy
it comes from.  The pacing limits are on times and counts; they are a deferral at any
check.  The scan of files for certificates and catalogs is I/O.  The imports, recovery
and backfill tools are run by hand on a quiet system.  Components with their status are
listed in `PROJECT.json`.
