------------------------------ MODULE JobQueue ------------------------------
(***************************************************************************)
(* The durable job queue of app/jobs.py and two handlers that show what it *)
(* asks of a handler: create_case_outreach, whose effect is an outbox row  *)
(* with a unique business key, and notify_handoff, whose effect is a call  *)
(* of a webhook.                                                           *)
(*                                                                         *)
(* A worker claims a job, runs the handler in the same session and writes  *)
(* the job's new status by its id.  Nothing renews the lease of a running  *)
(* job and nothing compares locked_by before the last write, so a handler  *)
(* that takes longer than the lease shares its job with the next worker.   *)
(***************************************************************************)
EXTENDS Integers, FiniteSets

CONSTANTS
    Workers,        \* worker processes (app/worker.py)
    Jobs,           \* ids of the jobs, one for each idempotency key
    Notify,         \* the jobs that run notify_handoff
    MaxAttempts,    \* Job.max_attempts, 5 in the code
    MaxTroubles,    \* bound: crashes, deferrals, interrupts, lost replies, and
                    \* requests for a job that exists
    MaxOverruns,    \* bound: leases that end while the handler runs
    None

ASSUME JobAssumption ==
    /\ Jobs \subseteq Nat
    /\ Notify \subseteq Jobs
    /\ MaxAttempts \in Nat \ {0}
    /\ MaxTroubles \in Nat /\ MaxOverruns \in Nat
    /\ None \notin Jobs

VARIABLES
    jobs,        \* the rows of table jobs
    worker,      \* the step each worker is at, and its job
    staged,      \* outreach jobs whose outbox row is committed
    handed,      \* outreach jobs that were handed to a human
    dingtalk,    \* Handoff.dingtalk_status of the handoff of each notify job
    closed,      \* notify jobs that found the handoff closed, or of a silent kind
    notified,    \* messages the webhook has accepted for each job
    starts,      \* times each job was claimed
    extra,       \* claims of each job that its retry limit does not count
    doubts,      \* messages of each job accepted but not known to be
    overruns,    \* leases of each job that ended while its handler ran
    crashes, faults, repeats

effects == <<staged, handed, dingtalk, closed, notified>>
history == <<starts, extra, doubts, overruns>>
bounds == <<crashes, faults, repeats>>
vars == <<jobs, worker, effects, history, bounds>>

-----------------------------------------------------------------------------
JobStatus == {"ABSENT", "PENDING", "RUNNING", "DONE", "FAILED"}

\* due: available_at has passed.  aged: locked_at is older than the lease.
Job == [status : JobStatus, attempts : Nat, due : BOOLEAN, aged : BOOLEAN]

NoJob == [status |-> "ABSENT", attempts |-> 0, due |-> TRUE, aged |-> FALSE]

\* drafted: the quotation is drafted.  inserted: its outbox row is inserted but
\* not committed.  calling, told: before and after the webhook's answer.
Steps == {"idle", "running", "drafted", "inserted", "calling", "told", "finishing",
          "failing"}

Told == {"PENDING", "FAILED", "CANCELLED", "SENT"}

\* seen: the dingtalk_status the session loaded.
WorkerState == [pc : Steps, job : Jobs \cup {None}, seen : Told \cup {None}]

Idle == [pc |-> "idle", job |-> None, seen |-> None]

Init ==
    /\ jobs = [j \in Jobs |-> NoJob]
    /\ worker = [w \in Workers |-> Idle]
    /\ staged = {} /\ handed = {}
    /\ dingtalk = [j \in Notify |-> "PENDING"] /\ closed = {}
    /\ notified = [j \in Jobs |-> 0]
    /\ starts = [j \in Jobs |-> 0]
    /\ extra = [j \in Jobs |-> 0]
    /\ doubts = [j \in Jobs |-> 0]
    /\ overruns = [j \in Jobs |-> 0]
    /\ crashes = 0 /\ faults = 0 /\ repeats = 0

-----------------------------------------------------------------------------
At(w, step) == worker[w].pc = step
JobOf(w) == worker[w].job
Runs(w, j) == ~At(w, "idle") /\ JobOf(w) = j
MovesTo(w, step) == worker' = [worker EXCEPT ![w].pc = step]
Stops(w) == worker' = [worker EXCEPT ![w] = Idle]
Counts(counter, j) == [counter EXCEPT ![j] = @ + 1]
Trouble == crashes + faults + repeats < MaxTroubles
Fault == Trouble /\ faults' = faults + 1

-----------------------------------------------------------------------------
(* The rows: enqueue, claim, and the ends of a run.                        *)

\* The unique idempotency key makes a second insert a no-op.
Enqueued(row) == IF row.status = "ABSENT" THEN [row EXCEPT !.status = "PENDING"] ELSE row

Enqueue(j) ==
    /\ IF jobs[j].status = "ABSENT" THEN UNCHANGED repeats
       ELSE Trouble /\ repeats' = repeats + 1
    /\ jobs' = [jobs EXCEPT ![j] = Enqueued(@)]
    /\ UNCHANGED <<worker, effects, history, crashes, faults>>

\* Mutants: the lease is not looked at; an abandoned job is not taken up.
StaleAtOnce(row) == row.status = "RUNNING"
StaleNever(row) == FALSE

Stale(row) == row.status = "RUNNING" /\ row.aged

Claimable(j) == jobs[j].due /\ (jobs[j].status = "PENDING" \/ Stale(jobs[j]))

Started(row) ==
    [row EXCEPT !.status = "RUNNING", !.attempts = @ + 1, !.aged = FALSE]

\* The oldest job.  A stale one is taken again whatever its attempts.
Claim(w) ==
    \E j \in Jobs :
        /\ At(w, "idle")
        /\ Claimable(j) /\ \A k \in Jobs : Claimable(k) => j <= k
        /\ jobs' = [jobs EXCEPT ![j] = Started(@)]
        /\ worker' = [worker EXCEPT ![w] = [Idle EXCEPT !.pc = "running", !.job = j]]
        /\ starts' = Counts(starts, j)
        /\ extra' = IF jobs[j].status = "RUNNING" THEN Counts(extra, j) ELSE extra
        /\ UNCHANGED <<effects, doubts, overruns, bounds>>

\* Mutant: the handler and the queue both give the attempt back.
RefundedTwice(row) == [row EXCEPT !.attempts = @ - 2]

Refunded(row) == [row EXCEPT !.attempts = IF @ = 0 THEN 0 ELSE @ - 1]

Reopened(row, now) == [row EXCEPT !.status = "PENDING", !.due = now]

Spent(row) == row.attempts >= MaxAttempts

AfterFailure(row) ==
    IF Spent(row) THEN [row EXCEPT !.status = "FAILED"] ELSE Reopened(row, FALSE)

\* A message the webhook may have accepted without the database knowing.
Doubtful(w) == doubts' = IF At(w, "told") THEN Counts(doubts, JobOf(w)) ELSE doubts

\* The outbox row that the handler inserted is committed with DONE.
Commit(w) == staged' = IF At(w, "inserted") THEN staged \cup {JobOf(w)} ELSE staged

Finish(w) ==
    /\ At(w, "finishing") \/ At(w, "inserted")
    /\ jobs' = [jobs EXCEPT ![JobOf(w)].status = "DONE"]
    /\ Commit(w) /\ Stops(w)
    /\ UNCHANGED <<handed, dingtalk, closed, notified, history, bounds>>

\* Any exception, of the handler or of the commit that follows it.
Fail(w) ==
    /\ worker[w].pc \notin {"idle", "calling"}
    /\ jobs' = [jobs EXCEPT ![JobOf(w)] = AfterFailure(@)]
    /\ Doubtful(w) /\ Stops(w)
    /\ UNCHANGED <<effects, starts, extra, overruns, bounds>>

\* JobDeferred: the commercial data of the week are not complete.
Defer(w) ==
    LET j == JobOf(w) IN
    /\ At(w, "running") /\ j \notin Notify
    /\ Fault
    /\ jobs' = [jobs EXCEPT ![j] = Refunded(Reopened(@, FALSE))]
    /\ extra' = Counts(extra, j)
    /\ Stops(w)
    /\ UNCHANGED <<effects, starts, doubts, overruns, crashes, repeats>>

\* CancelledError: the worker is told to stop.  A commit in progress has taken
\* effect or has not.
Interrupt(w) ==
    LET j == JobOf(w) IN
    /\ ~At(w, "idle")
    /\ Fault
    /\ jobs' = [jobs EXCEPT ![j] = Refunded(Reopened(@, TRUE))]
    /\ extra' = Counts(extra, j)
    /\ Commit(w) \/ UNCHANGED staged
    /\ Doubtful(w) /\ Stops(w)
    /\ UNCHANGED <<handed, dingtalk, closed, notified, starts, overruns, crashes, repeats>>

Crash(w) ==
    /\ ~At(w, "idle") /\ Trouble
    /\ crashes' = crashes + 1
    /\ Doubtful(w) /\ Stops(w)
    /\ UNCHANGED <<jobs, effects, starts, extra, overruns, faults, repeats>>

\* The handler calls a model and a mail directory: it may outlast the lease.
AgeLease(j) ==
    LET late == \E w \in Workers : Runs(w, j) IN
    /\ jobs[j].status = "RUNNING" /\ ~jobs[j].aged
    /\ late => overruns[j] < MaxOverruns
    /\ jobs' = [jobs EXCEPT ![j].aged = TRUE]
    /\ overruns' = IF late THEN Counts(overruns, j) ELSE overruns
    /\ UNCHANGED <<worker, effects, starts, extra, doubts, bounds>>

BecomeDue(j) ==
    /\ ~jobs[j].due
    /\ jobs' = [jobs EXCEPT ![j].due = TRUE]
    /\ UNCHANGED <<worker, effects, history, bounds>>

-----------------------------------------------------------------------------
(* create_case_outreach.                                                   *)

\* The key is there already: there is nothing to do.
FindStaged(w) ==
    /\ At(w, "running") /\ JobOf(w) \in staged \ Notify
    /\ MovesTo(w, "finishing")
    /\ UNCHANGED <<jobs, effects, history, bounds>>

\* The key is not there: the model is asked for a draft, outside any lock.
Draft(w) ==
    /\ At(w, "running") /\ JobOf(w) \notin Notify \cup staged
    /\ MovesTo(w, "drafted")
    /\ UNCHANGED <<jobs, effects, history, bounds>>

\* The insert of a second row with the key waits for the first transaction.
\* Mutant: it does not wait, and fails.
KeyTakenUncommitted(j) == j \in staged \/ \E v \in Workers : At(v, "inserted") /\ JobOf(v) = j

KeyTaken(j) == j \in staged

KeyLocked(j) == \E v \in Workers : At(v, "inserted") /\ JobOf(v) = j

Insert(w) ==
    /\ At(w, "drafted") /\ ~KeyTaken(JobOf(w)) /\ ~KeyLocked(JobOf(w))
    /\ MovesTo(w, "inserted")
    /\ UNCHANGED <<jobs, effects, history, bounds>>

Conflict(w) ==
    /\ At(w, "drafted") /\ KeyTaken(JobOf(w))
    /\ MovesTo(w, "finishing")
    /\ UNCHANGED <<jobs, effects, history, bounds>>

\* Every reason not to write by itself, a failed draft among them: create_handoff
\* commits on its own.
HandOver(w) ==
    /\ At(w, "running") \/ At(w, "drafted")
    /\ JobOf(w) \notin Notify
    /\ handed' = handed \cup {JobOf(w)}
    /\ MovesTo(w, "finishing")
    /\ UNCHANGED <<jobs, staged, dingtalk, closed, notified, history, bounds>>

-----------------------------------------------------------------------------
(* notify_handoff.                                                         *)

\* Mutant: the handler does not look whether the message is out.
NeverOut(j) == FALSE

Out(j) == dingtalk[j] = "SENT"

SkipTold(w) ==
    /\ At(w, "running") /\ JobOf(w) \in Notify /\ Out(JobOf(w))
    /\ MovesTo(w, "finishing")
    /\ UNCHANGED <<jobs, effects, history, bounds>>

\* A human was quicker, or the reason is one that is not told.
SkipClosed(w) ==
    LET j == JobOf(w) IN
    /\ At(w, "running") /\ j \in Notify /\ ~Out(j)
    /\ dingtalk' = [dingtalk EXCEPT ![j] = "CANCELLED"]
    /\ closed' = closed \cup {j}
    /\ MovesTo(w, "finishing")
    /\ UNCHANGED <<jobs, staged, handed, notified, history, bounds>>

Call(w) ==
    LET j == JobOf(w) IN
    /\ At(w, "running") /\ j \in Notify /\ ~Out(j)
    /\ worker' = [worker EXCEPT ![w] = [@ EXCEPT !.pc = "calling", !.seen = dingtalk[j]]]
    /\ UNCHANGED <<jobs, effects, history, bounds>>

CallSucceeds(w) ==
    /\ At(w, "calling")
    /\ notified' = Counts(notified, JobOf(w))
    /\ MovesTo(w, "told")
    /\ UNCHANGED <<jobs, staged, handed, dingtalk, closed, history, bounds>>

\* The webhook refuses the message, or its answer is lost.  FAILED is written
\* only if the session has loaded something else.
CallFails(w) ==
    LET j == JobOf(w) IN
    /\ At(w, "calling")
    /\ \/ Fault /\ notified' = Counts(notified, j) /\ doubts' = Counts(doubts, j)
       \/ UNCHANGED <<faults, notified, doubts>>
    /\ dingtalk' = IF worker[w].seen = "FAILED" THEN dingtalk
                   ELSE [dingtalk EXCEPT ![j] = "FAILED"]
    /\ MovesTo(w, "failing")
    /\ UNCHANGED <<jobs, staged, handed, closed, starts, extra, overruns, crashes, repeats>>

RecordTold(w) ==
    /\ At(w, "told")
    /\ dingtalk' = [dingtalk EXCEPT ![JobOf(w)] = "SENT"]
    /\ MovesTo(w, "finishing")
    /\ UNCHANGED <<jobs, staged, handed, closed, notified, history, bounds>>

-----------------------------------------------------------------------------
WorkerStep(w) ==
    \/ Claim(w) \/ Finish(w) \/ Fail(w) \/ Defer(w)
    \/ FindStaged(w) \/ Draft(w) \/ Insert(w) \/ Conflict(w) \/ HandOver(w)
    \/ SkipTold(w) \/ SkipClosed(w) \/ Call(w) \/ CallSucceeds(w) \/ CallFails(w)
    \/ RecordTold(w)

Settled(j) == jobs[j].status \in {"ABSENT", "DONE", "FAILED"}

\* A worker polls and finds nothing to do.
PollNothing(w) ==
    /\ At(w, "idle")
    /\ \A j \in Jobs : ~Claimable(j)
    /\ UNCHANGED vars

Next ==
    \/ \E w \in Workers : WorkerStep(w) \/ Interrupt(w) \/ Crash(w) \/ PollNothing(w)
    \/ \E j \in Jobs : Enqueue(j) \/ AgeLease(j) \/ BecomeDue(j)

Spec == Init /\ [][Next]_vars

\* A worker polls for ever and is restarted when it dies, and time passes.
Fairness ==
    /\ \A w \in Workers : WF_vars(WorkerStep(w))
    /\ \A j \in Jobs : WF_vars(AgeLease(j)) /\ WF_vars(BecomeDue(j))

FairSpec == Spec /\ Fairness

-----------------------------------------------------------------------------
(* What the queue and the handlers promise.                                *)

TypeOK ==
    /\ jobs \in [Jobs -> Job]
    /\ worker \in [Workers -> WorkerState]
    /\ staged \subseteq Jobs /\ handed \subseteq Jobs /\ closed \subseteq Jobs
    /\ dingtalk \in [Notify -> Told]
    /\ notified \in [Jobs -> Nat]
    /\ starts \in [Jobs -> Nat] /\ extra \in [Jobs -> Nat]
    /\ doubts \in [Jobs -> Nat] /\ overruns \in [Jobs -> Nat]
    /\ crashes \in Nat /\ faults \in Nat /\ repeats \in Nat

\* The lease: two workers run the same job only if the handler once took longer
\* than job_lease_seconds.
LeaseProtects ==
    \A j \in Jobs : \A v, w \in Workers :
        overruns[j] = 0 /\ Runs(v, j) /\ Runs(w, j) => v = w

HasEffect(j) == IF j \in Notify THEN notified[j] > 0 \/ j \in closed
                ELSE j \in staged \cup handed

\* A job marked DONE has had its effect: the business key is in the outbox, or
\* a human has the case; the webhook has the message, or need not have it.
DoneHasEffect == \A j \in Jobs : jobs[j].status = "DONE" => HasEffect(j)

\* While no handler outlasts its lease, a message is repeated only for each time
\* the webhook may have accepted it without the database knowing.
NotifiedOnce ==
    \A j \in Jobs : overruns[j] = 0 => notified[j] <= 1 + doubts[j]

\* A job is not started more often than max_attempts, deferrals, interrupts and
\* abandoned runs aside.
RetryBudget == \A j \in Jobs : starts[j] <= MaxAttempts + extra[j]

\* A job that is done stays done, however often it is requested, unless a worker
\* that lost its lease still has to write its outcome.
DoneStaysDone ==
    [][\A j \in Jobs :
          jobs[j].status = "DONE" /\ overruns[j] = 0 => jobs'[j].status = "DONE"]_vars

\* Every job requested is done or failed in the end.
EventuallySettled == <>[](\A j \in Jobs : Settled(j))

=============================================================================
