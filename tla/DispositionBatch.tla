-------------------------- MODULE DispositionBatch --------------------------
(***************************************************************************)
(* One batch of inbound emails that a model provider classifies            *)
(* (app/dispositions/disposition_batches.py).  An administrator creates    *)
(* the batch and may have its failed items tried again; a job submits the  *)
(* pending items, polls the provider and stores what it answers.           *)
(*                                                                         *)
(* The worker holds the batch's row lock from its first read to its        *)
(* commit, the calls to the provider included: a provider batch can exist  *)
(* that no committed row names.                                            *)
(*                                                                         *)
(* The job is told in JobQueue; only its claim, its deferral and the       *)
(* second claim of an outlived lease are here.                             *)
(***************************************************************************)
EXTENDS Naturals, FiniteSets

CONSTANTS
    Workers,
    Emails,
    RuleOnly,       \* emails the rules settle: system notifications
    MaxAttempts,    \* inbound_disposition_ai_batch_max_attempts
    MaxRetries,     \* bound: retries an administrator asks for
    MaxFaults,      \* bound: reads of a provider batch's results that fail
    MaxUpsets       \* bound: processes that die, and claims of a lease whose holder runs

ASSUME BatchAssumption ==
    /\ RuleOnly \subseteq Emails
    /\ MaxAttempts \in Nat \ {0}
    /\ MaxRetries \in Nat /\ MaxFaults \in Nat /\ MaxUpsets \in Nat

VARIABLES
    batch,      \* the row: status, if it has a provider_batch_id, provider_read_failures
    item,       \* the row of each email: status, attempt_count, and what it was judged on
    changed,    \* emails whose request no longer hashes to the item's input_hash
    provider,   \* the newest provider batch: what it was asked, and if it has ended
    job,        \* the job of the creation (0) and of each retry
    worker,     \* the step each worker is at, its job, and what it has read
    lock,       \* the workers that hold the batch's row: none or one
    api,        \* the request between its commit and its enqueue
    retries, faults, upsets,
    paid,       \* history: provider batches each email has been in
    orphans     \* history: provider batches that no committed row has named

bounds == <<retries, faults, upsets>>
history == <<paid, orphans>>
vars == <<batch, item, changed, provider, job, worker, lock, api, bounds, history>>

-----------------------------------------------------------------------------
BATCH_TERMINAL_STATUSES == {"SUCCEEDED", "PARTIAL_FAILED", "FAILED"}
ITEM_TERMINAL_STATUSES == {"AI_SUCCEEDED", "RULE_ONLY", "FALLBACK"}
BatchStatus == {"NONE", "PENDING", "IN_PROGRESS", "RETRYING"} \cup BATCH_TERMINAL_STATUSES

\* judged: what the stored classification was made from: the request of the item's
\* input_hash, another one, or none.
Item ==
    [status : {"PENDING"} \cup ITEM_TERMINAL_STATUSES, attempts : 0 .. MaxAttempts,
     judged : {"none", "hashed", "other"}]

Idle == [pc |-> "idle", job |-> 0, seen |-> {}]
Pcs == {"idle", "waiting", "submitting", "accepted", "polling"}

Pending(items) == {e \in Emails : items[e].status = "PENDING"}
With(items, status) == {e \in Emails : items[e].status = status}

TypeOK ==
    /\ batch \in [status : BatchStatus, provider : BOOLEAN, readFailures : 0 .. MaxAttempts]
    /\ item \in [Emails -> Item]
    /\ changed \subseteq Emails
    /\ provider \in [asked : SUBSET Emails, other : SUBSET Emails, ended : BOOLEAN]
    /\ job \in [0 .. MaxRetries -> {"none", "queued", "running", "done"}]
    /\ worker \in [Workers -> [pc : Pcs, job : 0 .. MaxRetries, seen : SUBSET Emails]]
    /\ lock \subseteq Workers /\ Cardinality(lock) <= 1
    /\ api \in {"idle", "committed"}

Init ==
    /\ batch = [status |-> "NONE", provider |-> FALSE, readFailures |-> 0]
    /\ item = [e \in Emails |-> [status |-> "PENDING", attempts |-> 0, judged |-> "none"]]
    /\ changed = {} /\ provider = [asked |-> {}, other |-> {}, ended |-> TRUE]
    /\ job = [r \in 0 .. MaxRetries |-> "none"]
    /\ worker = [w \in Workers |-> Idle]
    /\ lock = {} /\ api = "idle"
    /\ retries = 0 /\ faults = 0 /\ upsets = 0
    /\ paid = [e \in Emails |-> 0] /\ orphans = 0

-----------------------------------------------------------------------------
\* _finish_batch's verdict on the items, once none is pending.
FinishedStatus(items) ==
    IF With(items, "FALLBACK") = {} THEN "SUCCEEDED"
    ELSE IF With(items, "AI_SUCCEEDED") # {} THEN "PARTIAL_FAILED"
    ELSE "FAILED"

\* RETRYING while an item is pending, else finished; no provider batch is left.
AfterAttempt(items) ==
    [status |-> IF Pending(items) # {} THEN "RETRYING" ELSE FinishedStatus(items),
     provider |-> FALSE, readFailures |-> 0]

\* An item that failed stays pending while attempts are left (n are used up).
Failed(i, n) ==
    IF n < MaxAttempts THEN [i EXCEPT !.attempts = n]
    ELSE [i EXCEPT !.attempts = n, !.status = "FALLBACK", !.judged = "none"]

\* Mutant: the request is not compared with the item's hash.
DropNothing(items, seen) == items

\* The items whose request has changed since the creation fall back at submission.
DropChanged(items, seen) ==
    [e \in Emails |->
        IF items[e].status = "PENDING" /\ e \in seen
        THEN [items[e] EXCEPT !.status = "FALLBACK", !.judged = "none"] ELSE items[e]]

\* Mutant: the attempt is not counted.
CountNothing(items) == items

\* Each item that is still pending uses up an attempt.
CountAttempt(items) ==
    [e \in Emails |->
        IF items[e].status = "PENDING" THEN [items[e] EXCEPT !.attempts = @ + 1] ELSE items[e]]

FailPending(items, used) ==
    [e \in Emails |->
        IF items[e].status = "PENDING" THEN Failed(items[e], items[e].attempts + used)
        ELSE items[e]]

\* create_disposition_batch: the rules settle what they can; a batch with nothing
\* pending is finished at once, and no job is asked for.
Create ==
    /\ batch.status = "NONE"
    /\ item' = [e \in Emails |->
                  [item[e] EXCEPT !.status = IF e \in RuleOnly THEN "RULE_ONLY" ELSE "PENDING"]]
    /\ batch' = [batch EXCEPT !.status =
                    IF Pending(item') = {} THEN FinishedStatus(item') ELSE "PENDING"]
    /\ api' = IF Pending(item') = {} THEN "idle" ELSE "committed"
    /\ UNCHANGED <<changed, provider, job, worker, lock, bounds, history>>

\* Mutant: the items get the status of the batch.
RetriedItemsAll ==
    [e \in Emails |->
        IF item[e].status = "FALLBACK"
        THEN [item[e] EXCEPT !.status = "RETRYING", !.attempts = 0, !.judged = "none"]
        ELSE item[e]]

\* The items that fell back get all their attempts again.  It waits for the row.
RetriedItems ==
    [e \in Emails |->
        IF item[e].status = "FALLBACK"
        THEN [item[e] EXCEPT !.status = "PENDING", !.attempts = 0, !.judged = "none"]
        ELSE item[e]]

\* retry_failed_disposition_batch, for a batch that has ended with failures.
RetryFailed ==
    /\ api = "idle" /\ lock = {} /\ retries < MaxRetries
    /\ batch.status \in {"PARTIAL_FAILED", "FAILED"}
    /\ With(item, "FALLBACK") # {}
    /\ item' = RetriedItems
    /\ batch' = [batch EXCEPT !.status = "RETRYING", !.provider = FALSE]
    /\ retries' = retries + 1 /\ api' = "committed"
    /\ UNCHANGED <<changed, provider, job, worker, lock, faults, upsets, history>>

\* The job of a retry has a key of its own, since retry_count has grown.
Enqueue ==
    /\ api = "committed"
    /\ job' = [job EXCEPT ![retries] = "queued"]
    /\ api' = "idle"
    /\ UNCHANGED <<batch, item, changed, provider, worker, lock, bounds, history>>

\* The API process dies between the commit and the enqueue: the batch has no job.
ApiDies ==
    /\ api = "committed" /\ upsets < MaxUpsets
    /\ api' = "idle" /\ upsets' = upsets + 1
    /\ UNCHANGED <<batch, item, changed, provider, job, worker, lock, retries, faults, history>>

\* A new model, prompt or schema, or other headers: the request hashes differently.
RequestChanges(e) ==
    /\ batch.status \notin BATCH_TERMINAL_STATUSES \cup {"NONE"}
    /\ e \notin changed /\ e \notin RuleOnly
    /\ changed' = changed \cup {e}
    /\ UNCHANGED <<batch, item, provider, job, worker, lock, api, bounds, history>>

-----------------------------------------------------------------------------
Holder(j) == {w \in Workers : worker[w].pc # "idle" /\ worker[w].job = j}

\* A job that is due is claimed, or one whose lease is over: its holder has died, or
\* takes longer than the lease.
Claim(w, j) ==
    /\ worker[w].pc = "idle" /\ job[j] \in {"queued", "running"}
    /\ upsets' = IF Holder(j) = {} THEN upsets ELSE upsets + 1
    /\ upsets' <= MaxUpsets
    /\ job' = [job EXCEPT ![j] = "running"]
    /\ worker' = [worker EXCEPT ![w] = [pc |-> "waiting", job |-> j, seen |-> {}]]
    /\ UNCHANGED <<batch, item, changed, provider, lock, api, retries, faults, history>>

\* The transaction ends: the handler returns a time to poll again, or none.
Commit(w, again) ==
    /\ job' = [job EXCEPT ![worker[w].job] = IF again THEN "queued" ELSE "done"]
    /\ worker' = [worker EXCEPT ![w] = Idle]
    /\ lock' = lock \ {w}

\* SELECT ... FOR UPDATE of the batch and of its items.
LockBatch(w) ==
    /\ worker[w].pc = "waiting" /\ lock = {}
    /\ batch.status \notin BATCH_TERMINAL_STATUSES
    /\ lock' = {w}
    /\ worker' = [worker EXCEPT ![w].pc = IF batch.provider THEN "polling" ELSE "submitting",
                                ![w].seen = changed]
    /\ UNCHANGED <<batch, item, changed, provider, job, api, bounds, history>>

\* A batch that has ended needs nothing.
NothingLeft(w) ==
    /\ worker[w].pc = "waiting" /\ lock = {}
    /\ batch.status \in BATCH_TERMINAL_STATUSES
    /\ Commit(w, FALSE)
    /\ UNCHANGED <<batch, item, changed, provider, api, bounds, history>>

\* No pending item can be submitted any more.
NothingToSubmit(w) ==
    /\ worker[w].pc = "submitting"
    /\ Pending(DropChanged(item, worker[w].seen)) = {}
    /\ item' = DropChanged(item, worker[w].seen)
    /\ batch' = AfterAttempt(item')
    /\ Commit(w, FALSE)
    /\ UNCHANGED <<changed, provider, api, bounds, history>>

Asked(w) == Pending(DropChanged(item, worker[w].seen))

NewBatch(w) ==
    [asked |-> Asked(w), other |-> Asked(w) \cap worker[w].seen, ended |-> FALSE]

\* The provider takes the requests: from here on they are paid for.
ProviderAccepts(w) ==
    /\ worker[w].pc = "submitting" /\ Asked(w) # {}
    /\ provider' = NewBatch(w)
    /\ paid' = [e \in Emails |-> IF e \in Asked(w) THEN paid[e] + 1 ELSE paid[e]]
    /\ worker' = [worker EXCEPT ![w].pc = "accepted"]
    /\ UNCHANGED <<batch, item, changed, job, lock, api, bounds, orphans>>

\* The provider's id and the attempt are committed together.
RecordSubmission(w) ==
    /\ worker[w].pc = "accepted"
    /\ item' = CountAttempt(DropChanged(item, worker[w].seen))
    /\ batch' = [batch EXCEPT !.status = "IN_PROGRESS", !.provider = TRUE]
    /\ Commit(w, TRUE)
    /\ UNCHANGED <<changed, provider, api, bounds, paid, orphans>>

\* The call raises or answers without an id (_mark_submission_failure): the provider
\* may have taken the requests all the same.
SubmissionFails(w) ==
    /\ worker[w].pc \in {"submitting", "accepted"} /\ Asked(w) # {}
    /\ orphans' = IF worker[w].pc = "accepted" THEN orphans + 1 ELSE orphans
    /\ item' = FailPending(DropChanged(item, worker[w].seen), 1)
    /\ batch' = [AfterAttempt(item') EXCEPT !.readFailures = batch.readFailures]
    /\ Commit(w, Pending(item') # {})
    /\ UNCHANGED <<changed, provider, api, bounds, paid>>

-----------------------------------------------------------------------------
\* _defer_provider_read_failure: a poll that failed is tried again until MaxAttempts have
\* failed in a row, then the provider's batch is given up (_mark_provider_attempt_failure).
ReadFailed(w, before) ==
    /\ IF before + 1 < MaxAttempts
       THEN /\ batch' = [batch EXCEPT !.readFailures = before + 1]
            /\ UNCHANGED item
            /\ Commit(w, TRUE)
       ELSE /\ item' = FailPending(item, 0)
            /\ batch' = AfterAttempt(item')
            /\ Commit(w, Pending(item') # {})
    /\ UNCHANGED <<changed, provider, api, retries, upsets, paid, orphans>>

\* Mutant: the count is put back before the status is read.
StatusReadUncounted(w) ==
    /\ worker[w].pc = "polling"
    /\ ReadFailed(w, 0)
    /\ UNCHANGED faults

StatusReadFails(w) ==
    /\ worker[w].pc = "polling"
    /\ ReadFailed(w, batch.readFailures)
    /\ UNCHANGED faults

\* The status has been read, which has put the count back to 0: unless MaxAttempts is 1,
\* the results are asked for as often as they cannot be read.
ResultsReadFails(w) ==
    /\ worker[w].pc = "polling" /\ provider.ended
    /\ faults < MaxFaults /\ faults' = faults + 1
    /\ ReadFailed(w, 0)

StillProcessing(w) ==
    /\ worker[w].pc = "polling" /\ ~provider.ended
    /\ batch' = [batch EXCEPT !.status = "IN_PROGRESS", !.readFailures = 0]
    /\ Commit(w, TRUE)
    /\ UNCHANGED <<item, changed, provider, api, bounds, paid, orphans>>

\* What is stored for the pending items, when the answers of good can be parsed.
Answered(good) ==
    [e \in Emails |->
        IF item[e].status # "PENDING" THEN item[e]
        ELSE IF e \in good
        THEN [item[e] EXCEPT !.status = "AI_SUCCEEDED",
                !.judged = IF e \in provider.other THEN "other" ELSE "hashed"]
        ELSE Failed(item[e], item[e].attempts)]

\* parse_inbound_disposition_message: of the items asked for, those it can be.
Parsed == SUBSET (Pending(item) \cap provider.asked)

\* The results are read: each pending item has an answer that can be parsed, or none.
StoreResults(w) ==
    /\ worker[w].pc = "polling" /\ provider.ended
    /\ \E good \in Parsed : item' = Answered(good)
    /\ batch' = AfterAttempt(item')
    /\ Commit(w, Pending(item') # {})
    /\ UNCHANGED <<changed, provider, api, bounds, paid, orphans>>

\* The worker dies; its transaction is rolled back, what the provider took is not.
Crash(w) ==
    /\ worker[w].pc # "idle" /\ upsets < MaxUpsets
    /\ upsets' = upsets + 1
    /\ orphans' = IF worker[w].pc = "accepted" THEN orphans + 1 ELSE orphans
    /\ worker' = [worker EXCEPT ![w] = Idle]
    /\ lock' = lock \ {w}
    /\ UNCHANGED <<batch, item, changed, provider, job, api, retries, faults, paid>>

ProviderEnds ==
    /\ ~provider.ended
    /\ provider' = [provider EXCEPT !.ended = TRUE]
    /\ UNCHANGED <<batch, item, changed, job, worker, lock, api, bounds, history>>

-----------------------------------------------------------------------------
Submit(w) ==
    \/ NothingToSubmit(w)
    \/ ProviderAccepts(w)
    \/ RecordSubmission(w)
    \/ SubmissionFails(w)

Poll(w) ==
    \/ StatusReadFails(w)
    \/ ResultsReadFails(w)
    \/ StillProcessing(w)
    \/ StoreResults(w)

Work(w) ==
    \/ \E j \in 0 .. MaxRetries : Claim(w, j)
    \/ LockBatch(w)
    \/ NothingLeft(w)
    \/ Submit(w)
    \/ Poll(w)

Administer == Create \/ RetryFailed \/ Enqueue \/ ApiDies

Next ==
    \/ Administer
    \/ \E e \in Emails : RequestChanges(e)
    \/ \E w \in Workers : Work(w) \/ Crash(w)
    \/ ProviderEnds

Spec == Init /\ [][Next]_vars

\* Workers keep claiming and every call returns, be it with a failure; a provider batch ends in a day.
Fairness ==
    /\ \A w \in Workers : SF_vars(LockBatch(w) \/ NothingLeft(w)) /\ WF_vars(Submit(w) \/ Poll(w))
    /\ WF_vars(\E w \in Workers, j \in 0 .. MaxRetries : Claim(w, j))
    /\ WF_vars(ProviderEnds)

FairSpec == Spec /\ Fairness

-----------------------------------------------------------------------------
\* No email is paid for more often than its attempts allow, however the workers'
\* claims overlap, except for the submissions whose answer was lost with a crash or
\* a failed call.
PaidOnce == \A e \in Emails : paid[e] <= MaxAttempts * (retries + 1) + orphans

\* A stored classification was made from the request the item was created with: what
\* changed in between falls back and is left to a person.
JudgedAsHashed ==
    \A e \in Emails : /\ item[e].judged # "other"
                      /\ item[e].status = "AI_SUCCEEDED" <=> item[e].judged = "hashed"

\* A batch that has a job ends, though submissions and reads of its status fail for ever:
\* each of them uses up attempts.  Reads of the results do not: the batch ends only if
\* they fail no more than MaxFaults times, and dead processes are MaxUpsets at most.
EventuallyEnded ==
    \A r \in 0 .. MaxRetries :
        job[r] = "queued" ~> batch.status \in BATCH_TERMINAL_STATUSES

=============================================================================
