--------------------------- MODULE JobQueueProofs ---------------------------
(***************************************************************************)
(* What holds of the job queue for any number of workers, jobs, retries,   *)
(* crashes, interrupts, deferrals and leases that run out.                 *)
(***************************************************************************)
EXTENDS JobQueue, TLAPS

\* A worker that is at work is at work on a job that its handler is made for.
BusyOnJob ==
    \A w \in Workers :
        /\ At(w, "idle") \/ JobOf(w) \in Jobs
        /\ worker[w].pc \in {"drafted", "inserted"} => JobOf(w) \notin Notify
        /\ worker[w].pc \in {"calling", "told", "failing"} => JobOf(w) \in Notify

\* Until a lease has run out under its worker, the row says whose the job is.
LeaseHolds ==
    \A j \in Jobs : \A w \in Workers :
        overruns[j] = 0 /\ Runs(w, j) =>
            /\ jobs[j].status = "RUNNING" /\ ~jobs[j].aged
            /\ \A v \in Workers : Runs(v, j) => v = w

\* The effects are there before DONE is written.
EffectFirst ==
    /\ \A w \in Workers : At(w, "finishing") => HasEffect(JobOf(w))
    /\ \A w \in Workers : At(w, "told") => notified[JobOf(w)] > 0
    /\ \A j \in Notify : dingtalk[j] = "SENT" => notified[j] > 0
    /\ \A j \in Jobs : jobs[j].status = "DONE" => HasEffect(j)

\* Every message accepted is recorded, or about to be, or in doubt.
MessagesCounted ==
    /\ \A j \in Jobs \ Notify : notified[j] = 0
    /\ \A j \in Notify : overruns[j] = 0 =>
          /\ notified[j] <= 1 + doubts[j]
          /\ \/ dingtalk[j] = "SENT"
             \/ \E w \in Workers : At(w, "told") /\ JobOf(w) = j
             \/ notified[j] <= doubts[j]
          /\ \A w \in Workers : worker[w].pc \in {"calling", "told"} /\ JobOf(w) = j =>
                dingtalk[j] # "SENT"

\* What the counter of attempts is worth.
BudgetKept ==
    \A j \in Jobs :
        /\ starts[j] <= jobs[j].attempts + extra[j]
        /\ starts[j] <= MaxAttempts + extra[j]
        /\ jobs[j].status \in {"ABSENT", "PENDING"} => starts[j] < MaxAttempts + extra[j]

IInv ==
    /\ TypeOK /\ BusyOnJob /\ LeaseHolds
    /\ EffectFirst /\ MessagesCounted /\ BudgetKept

USE DEF At, JobOf, MovesTo, Stops, Counts, Runs

-----------------------------------------------------------------------------
(* The records of the rows and of the workers.                             *)

LEMMA JobTypes ==
    ASSUME NEW row \in Job
    PROVE  /\ Enqueued(row) \in Job /\ Started(row) \in Job
           /\ AfterFailure(row) \in Job /\ Refunded(row) \in Job
           /\ \A now \in BOOLEAN : /\ Reopened(row, now) \in Job
                                   /\ Refunded(Reopened(row, now)) \in Job
           /\ \A status \in JobStatus : [row EXCEPT !.status = status] \in Job
           /\ \A flag \in BOOLEAN : /\ [row EXCEPT !.due = flag] \in Job
                                    /\ [row EXCEPT !.aged = flag] \in Job
<1>1. ASSUME NEW other \in Job PROVE Refunded(other) \in Job
  BY <1>1 DEF Job, Refunded
<1>2. \A now \in BOOLEAN : Reopened(row, now) \in Job
  BY DEF Job, JobStatus, Reopened
<1>3. /\ \A status \in JobStatus : [row EXCEPT !.status = status] \in Job
      /\ \A flag \in BOOLEAN : /\ [row EXCEPT !.due = flag] \in Job
                               /\ [row EXCEPT !.aged = flag] \in Job
  BY DEF Job
<1>4. Started(row) \in Job
  <2>1. row.attempts + 1 \in Nat
    BY DEF Job
  <2>2. QED BY <2>1 DEF Job, JobStatus, Started
<1>5. Enqueued(row) \in Job /\ AfterFailure(row) \in Job
  BY <1>2, <1>3 DEF Enqueued, AfterFailure, JobStatus
<1>6. QED BY <1>1, <1>2, <1>3, <1>4, <1>5

\* What the ends of a run do to the status and to the counter of attempts.
LEMMA RowFields ==
    ASSUME NEW row \in Job
    PROVE  /\ Started(row).status = "RUNNING" /\ Started(row).attempts = row.attempts + 1
           /\ AfterFailure(row).status \in {"PENDING", "FAILED"}
           /\ AfterFailure(row).status = "PENDING" => row.attempts < MaxAttempts
           /\ AfterFailure(row).attempts = row.attempts
<1>1. Started(row).status = "RUNNING" /\ Started(row).attempts = row.attempts + 1
  BY DEF Job, Started
<1>2. /\ AfterFailure(row).status \in {"PENDING", "FAILED"}
      /\ AfterFailure(row).status = "PENDING" => row.attempts < MaxAttempts
      /\ AfterFailure(row).attempts = row.attempts
  BY JobAssumption DEF Job, AfterFailure, Spent, Reopened
<1>3. QED BY <1>1, <1>2

LEMMA GivenBack ==
    ASSUME NEW row \in Job, NEW row2,
           row2 = Refunded(Reopened(row, TRUE)) \/ row2 = Refunded(Reopened(row, FALSE))
    PROVE  /\ row2.status = "PENDING"
           /\ row2.attempts \in Nat /\ row2.attempts + 1 >= row.attempts
<1>1. ASSUME NEW other \in Job
      PROVE  /\ Refunded(other).status = other.status /\ Refunded(other).attempts \in Nat
             /\ Refunded(other).attempts + 1 >= other.attempts
  BY <1>1 DEF Job, Refunded
<1>2. ASSUME NEW now \in BOOLEAN
      PROVE  /\ Reopened(row, now) \in Job /\ Reopened(row, now).status = "PENDING"
             /\ Reopened(row, now).attempts = row.attempts
  BY <1>2 DEF Job, JobStatus, Reopened
<1>3. CASE row2 = Refunded(Reopened(row, TRUE))
  BY <1>1, <1>2, <1>3
<1>4. CASE row2 = Refunded(Reopened(row, FALSE))
  BY <1>1, <1>2, <1>4
<1>5. QED BY <1>3, <1>4

LEMMA WorkerTypes ==
    /\ Idle \in WorkerState
    /\ \A j \in Jobs : [Idle EXCEPT !.pc = "running", !.job = j] \in WorkerState
    /\ \A state \in WorkerState, step \in Steps : [state EXCEPT !.pc = step] \in WorkerState
    /\ \A state \in WorkerState, step \in Steps, seen \in Told :
          [state EXCEPT !.pc = step, !.seen = seen] \in WorkerState
BY DEF Idle, WorkerState, Steps, Told

-----------------------------------------------------------------------------
(* Every step keeps the invariant.                                         *)

LEMMA ClaimKeeps ==
    ASSUME IInv, NEW w0 \in Workers, Claim(w0)
    PROVE  IInv'
<1>1. TypeOK'
  <2>1. jobs' \in [Jobs -> Job]
    <3>1. PICK j \in Jobs : jobs' = [jobs EXCEPT ![j] = Started(@)]
      BY DEF Claim
    <3>2. QED BY <3>1, JobTypes DEF IInv, TypeOK
  <2>2. worker' \in [Workers -> WorkerState]
    <3>1. PICK j \in Jobs :
             worker' = [worker EXCEPT ![w0] = [Idle EXCEPT !.pc = "running", !.job = j]]
      BY DEF Claim
    <3>2. QED BY <3>1, WorkerTypes DEF IInv, TypeOK
  <2>3. QED
    BY <2>1, <2>2, JobAssumption DEF IInv, TypeOK, BusyOnJob, Claim, bounds, effects
<1>2. BusyOnJob'
  BY JobAssumption DEF IInv, TypeOK, BusyOnJob, Claim, Claimable, Idle, Stale, Started,
      effects
<1>3. LeaseHolds'
  BY JobAssumption DEF IInv, TypeOK, BusyOnJob, LeaseHolds, Claim, Claimable, Idle,
      Stale, Started, effects
<1>4. EffectFirst'
  BY JobAssumption DEF IInv, TypeOK, BusyOnJob, EffectFirst, HasEffect, Claim,
      Claimable, Idle, Stale, Started, effects
<1>5. MessagesCounted'
  BY JobAssumption DEF IInv, TypeOK, BusyOnJob, MessagesCounted, Claim, Claimable, Idle,
      Stale, Started, effects
<1>6. BudgetKept'
  <2>1. PICK j \in Jobs :
           /\ Claimable(j)
           /\ jobs' = [jobs EXCEPT ![j] = Started(@)] /\ starts' = Counts(starts, j)
           /\ extra' = IF jobs[j].status = "RUNNING" THEN Counts(extra, j) ELSE extra
    BY DEF Claim
  <2>2. jobs[j].status \in {"PENDING", "RUNNING"}
    BY <2>1 DEF Claimable, Stale
  <2>3. ASSUME NEW k \in Jobs, k # j
        PROVE  jobs'[k] = jobs[k] /\ starts'[k] = starts[k] /\ extra'[k] = extra[k]
    BY <2>1, <2>3 DEF IInv, TypeOK
  <2>4. /\ jobs'[j].status = "RUNNING" /\ jobs'[j].attempts = jobs[j].attempts + 1
        /\ starts'[j] = starts[j] + 1
        /\ extra'[j] = IF jobs[j].status = "RUNNING" THEN extra[j] + 1 ELSE extra[j]
    BY <2>1, RowFields DEF IInv, TypeOK
  <2>5. /\ starts[j] \in Nat /\ extra[j] \in Nat /\ jobs[j].attempts \in Nat
    BY DEF IInv, TypeOK, Job
  <2>6. /\ starts[j] <= jobs[j].attempts + extra[j]
        /\ starts[j] <= MaxAttempts + extra[j]
        /\ jobs[j].status = "PENDING" => starts[j] < MaxAttempts + extra[j]
    BY DEF IInv, BudgetKept
  <2>7. /\ starts'[j] <= jobs'[j].attempts + extra'[j]
        /\ starts'[j] <= MaxAttempts + extra'[j]
        /\ jobs'[j].status \notin {"ABSENT", "PENDING"}
    BY <2>2, <2>4, <2>5, <2>6, JobAssumption
  <2>8. QED BY <2>3, <2>7 DEF IInv, BudgetKept
<1>7. QED BY <1>1, <1>2, <1>3, <1>4, <1>5, <1>6 DEF IInv

LEMMA FinishKeeps ==
    ASSUME IInv, NEW w0 \in Workers, Finish(w0)
    PROVE  IInv'
<1>1. TypeOK'
  <2>1. jobs' \in [Jobs -> Job]
    BY JobTypes DEF IInv, TypeOK, BusyOnJob, Finish, JobStatus
  <2>2. worker' \in [Workers -> WorkerState]
    BY WorkerTypes DEF IInv, TypeOK, BusyOnJob, Finish, Steps
  <2>3. QED
    BY <2>1, <2>2, JobAssumption DEF IInv, TypeOK, BusyOnJob, Finish, Commit, bounds,
        history
<1>2. BusyOnJob'
  BY JobAssumption DEF IInv, TypeOK, BusyOnJob, Commit, Finish, Idle, history
<1>3. LeaseHolds'
  BY JobAssumption DEF IInv, TypeOK, BusyOnJob, LeaseHolds, Commit, Finish, Idle,
      history
<1>4. EffectFirst'
  BY JobAssumption DEF IInv, TypeOK, BusyOnJob, EffectFirst, HasEffect, Commit, Finish,
      Idle, history
<1>5. MessagesCounted'
  BY JobAssumption DEF IInv, TypeOK, BusyOnJob, MessagesCounted, Commit, Finish, Idle,
      history
<1>6. BudgetKept'
  BY JobAssumption DEF IInv, TypeOK, BusyOnJob, BudgetKept, Commit, Finish, Idle,
      history
<1>7. QED BY <1>1, <1>2, <1>3, <1>4, <1>5, <1>6 DEF IInv

LEMMA FailKeeps ==
    ASSUME IInv, NEW w0 \in Workers, Fail(w0)
    PROVE  IInv'
<1>1. TypeOK'
  <2>1. jobs' \in [Jobs -> Job]
    BY JobTypes DEF IInv, TypeOK, BusyOnJob, Fail, JobStatus
  <2>2. worker' \in [Workers -> WorkerState]
    BY WorkerTypes DEF IInv, TypeOK, BusyOnJob, Fail, Steps
  <2>3. QED
    <3>1. JobOf(w0) \in Jobs
      BY DEF IInv, BusyOnJob, Fail
    <3>2. doubts[JobOf(w0)] + 1 \in Nat
      BY <3>1 DEF IInv, TypeOK
    <3>3. doubts' \in [Jobs -> Nat]
      BY <3>1, <3>2 DEF IInv, TypeOK, Fail, Doubtful
    <3>4. QED
      BY <2>1, <2>2, <3>1, <3>3, JobAssumption DEF IInv, TypeOK, Fail, effects, bounds
<1>2. BusyOnJob'
  BY JobAssumption DEF IInv, TypeOK, BusyOnJob, AfterFailure, Doubtful, Fail, Idle,
      Reopened, Spent, effects
<1>3. LeaseHolds'
  BY JobAssumption DEF IInv, TypeOK, BusyOnJob, LeaseHolds, AfterFailure, Doubtful,
      Fail, Idle, Reopened, Spent, effects
<1>4. EffectFirst'
  BY JobAssumption DEF IInv, TypeOK, BusyOnJob, EffectFirst, HasEffect, AfterFailure,
      Doubtful, Fail, Idle, Reopened, Spent, effects
<1>5. MessagesCounted'
  BY JobAssumption DEF IInv, TypeOK, BusyOnJob, MessagesCounted, AfterFailure, Doubtful,
      Fail, Idle, Reopened, Spent, effects
<1>6. BudgetKept'
  <2>1. JobOf(w0) \in Jobs /\ jobs[JobOf(w0)] \in Job
    BY DEF IInv, TypeOK, BusyOnJob, Fail
  <2>2. /\ jobs'[JobOf(w0)] = AfterFailure(jobs[JobOf(w0)])
        /\ \A k \in Jobs : k # JobOf(w0) => jobs'[k] = jobs[k]
        /\ starts' = starts /\ extra' = extra
    BY <2>1 DEF IInv, TypeOK, Fail
  <2>3. /\ starts[JobOf(w0)] \in Nat /\ extra[JobOf(w0)] \in Nat
        /\ jobs[JobOf(w0)].attempts \in Nat
    BY <2>1 DEF IInv, TypeOK, Job
  <2>4. QED
    BY <2>1, <2>2, <2>3, RowFields, JobAssumption DEF IInv, BudgetKept
<1>7. QED BY <1>1, <1>2, <1>3, <1>4, <1>5, <1>6 DEF IInv

LEMMA DeferKeeps ==
    ASSUME IInv, NEW w0 \in Workers, Defer(w0)
    PROVE  IInv'
<1>1. TypeOK'
  <2>1. jobs' \in [Jobs -> Job]
    BY JobTypes DEF IInv, TypeOK, BusyOnJob, Defer, JobStatus
  <2>2. worker' \in [Workers -> WorkerState]
    BY WorkerTypes DEF IInv, TypeOK, BusyOnJob, Defer, Steps
  <2>3. QED
    <3>1. JobOf(w0) \in Jobs
      BY DEF IInv, BusyOnJob, Defer
    <3>2. extra[JobOf(w0)] + 1 \in Nat
      BY <3>1 DEF IInv, TypeOK
    <3>3. extra' \in [Jobs -> Nat]
      BY <3>1, <3>2 DEF IInv, TypeOK, Defer
    <3>4. faults' \in Nat
      BY DEF IInv, TypeOK, Defer, Fault
    <3>5. UNCHANGED <<effects, starts, doubts, overruns, crashes, repeats>>
      BY DEF Defer
    <3>6. QED
      BY <2>1, <2>2, <3>3, <3>4, <3>5 DEF IInv, TypeOK, effects
<1>2. BusyOnJob'
  BY JobAssumption DEF IInv, TypeOK, BusyOnJob, Defer, Idle, Refunded, Reopened, effects
<1>3. LeaseHolds'
  BY JobAssumption DEF IInv, TypeOK, BusyOnJob, LeaseHolds, Defer, Idle, Refunded,
      Reopened, effects
<1>4. EffectFirst'
  BY JobAssumption DEF IInv, TypeOK, BusyOnJob, EffectFirst, HasEffect, Defer, Idle,
      Refunded, Reopened, effects
<1>5. MessagesCounted'
  BY JobAssumption DEF IInv, TypeOK, BusyOnJob, MessagesCounted, Defer, Idle, Refunded,
      Reopened, effects
<1>6. BudgetKept'
  <2>1. JobOf(w0) \in Jobs /\ jobs[JobOf(w0)] \in Job
    BY DEF IInv, TypeOK, BusyOnJob, Defer
  <2>2. /\ extra'[JobOf(w0)] = extra[JobOf(w0)] + 1
        /\ \A k \in Jobs : k # JobOf(w0) => jobs'[k] = jobs[k] /\ extra'[k] = extra[k]
        /\ starts' = starts
    BY <2>1 DEF IInv, TypeOK, Defer
  <2>3. /\ jobs'[JobOf(w0)].status = "PENDING"
        /\ jobs'[JobOf(w0)].attempts + 1 >= jobs[JobOf(w0)].attempts
        /\ jobs'[JobOf(w0)].attempts \in Nat
    <3>1. jobs'[JobOf(w0)] = Refunded(Reopened(jobs[JobOf(w0)], FALSE))
      BY <2>1 DEF IInv, TypeOK, Defer
    <3>2. QED BY <2>1, <3>1, GivenBack
  <2>4. /\ starts[JobOf(w0)] \in Nat /\ extra[JobOf(w0)] \in Nat
        /\ jobs[JobOf(w0)].attempts \in Nat
    BY <2>1 DEF IInv, TypeOK, Job
  <2>5. /\ starts[JobOf(w0)] <= jobs[JobOf(w0)].attempts + extra[JobOf(w0)]
        /\ starts[JobOf(w0)] <= MaxAttempts + extra[JobOf(w0)]
    BY <2>1 DEF IInv, BudgetKept
  <2>6. /\ starts[JobOf(w0)] <= jobs'[JobOf(w0)].attempts + extra'[JobOf(w0)]
        /\ starts[JobOf(w0)] < MaxAttempts + extra'[JobOf(w0)]
    BY <2>2, <2>3, <2>4, <2>5, JobAssumption
  <2>7. SUFFICES ASSUME NEW k \in Jobs
                 PROVE  /\ starts'[k] <= jobs'[k].attempts + extra'[k]
                        /\ starts'[k] <= MaxAttempts + extra'[k]
                        /\ jobs'[k].status \in {"ABSENT", "PENDING"} =>
                              starts'[k] < MaxAttempts + extra'[k]
    BY DEF BudgetKept
  <2>8. CASE k = JobOf(w0)
    BY <2>2, <2>4, <2>6, <2>8, JobAssumption
  <2>9. CASE k # JobOf(w0)
    BY <2>2, <2>9 DEF IInv, BudgetKept
  <2>10. QED BY <2>8, <2>9
<1>7. QED BY <1>1, <1>2, <1>3, <1>4, <1>5, <1>6 DEF IInv

LEMMA FindStagedKeeps ==
    ASSUME IInv, NEW w0 \in Workers, FindStaged(w0)
    PROVE  IInv'
<1>1. TypeOK'
  <2>1. worker' \in [Workers -> WorkerState]
    BY WorkerTypes DEF IInv, TypeOK, BusyOnJob, FindStaged, Steps
  <2>2. QED
    BY <2>1, JobAssumption DEF IInv, TypeOK, BusyOnJob, FindStaged, bounds, effects,
        history
<1>2. BusyOnJob'
  BY JobAssumption DEF IInv, TypeOK, BusyOnJob, FindStaged, effects, history
<1>3. LeaseHolds'
  BY JobAssumption DEF IInv, TypeOK, BusyOnJob, LeaseHolds, FindStaged, effects, history
<1>4. EffectFirst'
  <2>1. JobOf(w0) \in staged /\ JobOf(w0) \in Jobs /\ JobOf(w0) \notin Notify
    BY DEF IInv, BusyOnJob, FindStaged
  <2>2. QED
    BY <2>1 DEF IInv, TypeOK, EffectFirst, HasEffect, FindStaged, effects
<1>5. MessagesCounted'
  BY JobAssumption DEF IInv, TypeOK, BusyOnJob, MessagesCounted, FindStaged, effects,
      history
<1>6. BudgetKept'
  BY DEF IInv, BudgetKept, FindStaged, bounds, effects, history
<1>7. QED BY <1>1, <1>2, <1>3, <1>4, <1>5, <1>6 DEF IInv

LEMMA DraftKeeps ==
    ASSUME IInv, NEW w0 \in Workers, Draft(w0)
    PROVE  IInv'
<1>1. TypeOK'
  <2>1. worker' \in [Workers -> WorkerState]
    BY WorkerTypes DEF IInv, TypeOK, BusyOnJob, Draft, Steps
  <2>2. QED
    BY <2>1, JobAssumption DEF IInv, TypeOK, BusyOnJob, Draft, bounds, effects, history
<1>2. BusyOnJob'
  BY JobAssumption DEF IInv, TypeOK, BusyOnJob, Draft, effects, history
<1>3. LeaseHolds'
  BY JobAssumption DEF IInv, TypeOK, BusyOnJob, LeaseHolds, Draft, effects, history
<1>4. EffectFirst'
  BY JobAssumption DEF IInv, TypeOK, BusyOnJob, EffectFirst, HasEffect, Draft, effects,
      history
<1>5. MessagesCounted'
  BY JobAssumption DEF IInv, TypeOK, BusyOnJob, MessagesCounted, Draft, effects, history
<1>6. BudgetKept'
  BY DEF IInv, BudgetKept, Draft, bounds, effects, history
<1>7. QED BY <1>1, <1>2, <1>3, <1>4, <1>5, <1>6 DEF IInv

LEMMA InsertKeeps ==
    ASSUME IInv, NEW w0 \in Workers, Insert(w0)
    PROVE  IInv'
<1>1. TypeOK'
  <2>1. worker' \in [Workers -> WorkerState]
    BY WorkerTypes DEF IInv, TypeOK, BusyOnJob, Insert, Steps
  <2>2. QED
    BY <2>1, JobAssumption DEF IInv, TypeOK, BusyOnJob, Insert, bounds, effects, history
<1>2. BusyOnJob'
  BY JobAssumption DEF IInv, TypeOK, BusyOnJob, Insert, KeyLocked, KeyTaken, effects,
      history
<1>3. LeaseHolds'
  BY JobAssumption DEF IInv, TypeOK, BusyOnJob, LeaseHolds, Insert, KeyLocked, KeyTaken,
      effects, history
<1>4. EffectFirst'
  BY JobAssumption DEF IInv, TypeOK, BusyOnJob, EffectFirst, HasEffect, Insert,
      KeyLocked, KeyTaken, effects, history
<1>5. MessagesCounted'
  BY JobAssumption DEF IInv, TypeOK, BusyOnJob, MessagesCounted, Insert, KeyLocked,
      KeyTaken, effects, history
<1>6. BudgetKept'
  BY DEF IInv, BudgetKept, Insert, bounds, effects, history
<1>7. QED BY <1>1, <1>2, <1>3, <1>4, <1>5, <1>6 DEF IInv

LEMMA ConflictKeeps ==
    ASSUME IInv, NEW w0 \in Workers, Conflict(w0)
    PROVE  IInv'
<1>1. TypeOK'
  <2>1. worker' \in [Workers -> WorkerState]
    BY WorkerTypes DEF IInv, TypeOK, BusyOnJob, Conflict, Steps
  <2>2. QED
    BY <2>1, JobAssumption DEF IInv, TypeOK, BusyOnJob, Conflict, bounds, effects,
        history
<1>2. BusyOnJob'
  BY JobAssumption DEF IInv, TypeOK, BusyOnJob, Conflict, KeyTaken, effects, history
<1>3. LeaseHolds'
  BY JobAssumption DEF IInv, TypeOK, BusyOnJob, LeaseHolds, Conflict, KeyTaken, effects,
      history
<1>4. EffectFirst'
  BY JobAssumption DEF IInv, TypeOK, BusyOnJob, EffectFirst, HasEffect, Conflict,
      KeyTaken, effects, history
<1>5. MessagesCounted'
  BY JobAssumption DEF IInv, TypeOK, BusyOnJob, MessagesCounted, Conflict, KeyTaken,
      effects, history
<1>6. BudgetKept'
  BY DEF IInv, BudgetKept, Conflict, bounds, effects, history
<1>7. QED BY <1>1, <1>2, <1>3, <1>4, <1>5, <1>6 DEF IInv

LEMMA HandOverKeeps ==
    ASSUME IInv, NEW w0 \in Workers, HandOver(w0)
    PROVE  IInv'
<1>1. TypeOK'
  <2>1. worker' \in [Workers -> WorkerState]
    BY WorkerTypes DEF IInv, TypeOK, BusyOnJob, HandOver, Steps
  <2>2. QED
    BY <2>1, JobAssumption DEF IInv, TypeOK, BusyOnJob, HandOver, bounds, history
<1>2. BusyOnJob'
  BY JobAssumption DEF IInv, TypeOK, BusyOnJob, HandOver, history
<1>3. LeaseHolds'
  BY JobAssumption DEF IInv, TypeOK, BusyOnJob, LeaseHolds, HandOver, history
<1>4. EffectFirst'
  BY JobAssumption DEF IInv, TypeOK, BusyOnJob, EffectFirst, HasEffect, HandOver,
      history
<1>5. MessagesCounted'
  BY JobAssumption DEF IInv, TypeOK, BusyOnJob, MessagesCounted, HandOver, history
<1>6. BudgetKept'
  BY DEF IInv, BudgetKept, HandOver, bounds, history
<1>7. QED BY <1>1, <1>2, <1>3, <1>4, <1>5, <1>6 DEF IInv

LEMMA SkipToldKeeps ==
    ASSUME IInv, NEW w0 \in Workers, SkipTold(w0)
    PROVE  IInv'
<1>1. TypeOK'
  <2>1. worker' \in [Workers -> WorkerState]
    BY WorkerTypes DEF IInv, TypeOK, BusyOnJob, SkipTold, Steps
  <2>2. QED
    BY <2>1, JobAssumption DEF IInv, TypeOK, BusyOnJob, SkipTold, bounds, effects,
        history
<1>2. BusyOnJob'
  BY JobAssumption DEF IInv, TypeOK, BusyOnJob, Out, SkipTold, effects, history
<1>3. LeaseHolds'
  BY JobAssumption DEF IInv, TypeOK, BusyOnJob, LeaseHolds, Out, SkipTold, effects,
      history
<1>4. EffectFirst'
  BY JobAssumption DEF IInv, TypeOK, BusyOnJob, EffectFirst, HasEffect, Out, SkipTold,
      effects, history
<1>5. MessagesCounted'
  BY JobAssumption DEF IInv, TypeOK, BusyOnJob, MessagesCounted, Out, SkipTold, effects,
      history
<1>6. BudgetKept'
  BY DEF IInv, BudgetKept, SkipTold, bounds, effects, history
<1>7. QED BY <1>1, <1>2, <1>3, <1>4, <1>5, <1>6 DEF IInv

LEMMA SkipClosedKeeps ==
    ASSUME IInv, NEW w0 \in Workers, SkipClosed(w0)
    PROVE  IInv'
<1>1. TypeOK'
  <2>1. worker' \in [Workers -> WorkerState]
    BY WorkerTypes DEF IInv, TypeOK, BusyOnJob, SkipClosed, Steps
  <2>2. QED
    BY <2>1, JobAssumption DEF IInv, TypeOK, BusyOnJob, SkipClosed, bounds, history,
        Told
<1>2. BusyOnJob'
  BY JobAssumption DEF IInv, TypeOK, BusyOnJob, Out, SkipClosed, history
<1>3. LeaseHolds'
  BY JobAssumption DEF IInv, TypeOK, BusyOnJob, LeaseHolds, Out, SkipClosed, history
<1>4. EffectFirst'
  BY JobAssumption DEF IInv, TypeOK, BusyOnJob, EffectFirst, HasEffect, Out, SkipClosed,
      history
<1>5. MessagesCounted'
  BY JobAssumption DEF IInv, TypeOK, BusyOnJob, MessagesCounted, Out, SkipClosed,
      history
<1>6. BudgetKept'
  BY DEF IInv, BudgetKept, SkipClosed, bounds, history
<1>7. QED BY <1>1, <1>2, <1>3, <1>4, <1>5, <1>6 DEF IInv

LEMMA CallKeeps ==
    ASSUME IInv, NEW w0 \in Workers, Call(w0)
    PROVE  IInv'
<1>1. TypeOK'
  <2>1. worker' \in [Workers -> WorkerState]
    BY WorkerTypes DEF IInv, TypeOK, BusyOnJob, Call, Steps
  <2>2. QED
    BY <2>1, JobAssumption DEF IInv, TypeOK, BusyOnJob, Call, bounds, effects, history
<1>2. BusyOnJob'
  BY JobAssumption DEF IInv, TypeOK, BusyOnJob, Call, Out, effects, history
<1>3. LeaseHolds'
  BY JobAssumption DEF IInv, TypeOK, BusyOnJob, LeaseHolds, Call, Out, effects, history
<1>4. EffectFirst'
  BY JobAssumption DEF IInv, TypeOK, BusyOnJob, EffectFirst, HasEffect, Call, Out,
      effects, history
<1>5. MessagesCounted'
  BY JobAssumption DEF IInv, TypeOK, BusyOnJob, MessagesCounted, Call, Out, effects,
      history
<1>6. BudgetKept'
  BY DEF IInv, BudgetKept, Call, bounds, effects, history
<1>7. QED BY <1>1, <1>2, <1>3, <1>4, <1>5, <1>6 DEF IInv

LEMMA CallSucceedsKeeps ==
    ASSUME IInv, NEW w0 \in Workers, CallSucceeds(w0)
    PROVE  IInv'
<1>1. TypeOK'
  <2>1. worker' \in [Workers -> WorkerState]
    BY WorkerTypes DEF IInv, TypeOK, BusyOnJob, CallSucceeds, Steps
  <2>2. QED
    BY <2>1, JobAssumption DEF IInv, TypeOK, BusyOnJob, CallSucceeds, bounds, history
<1>2. BusyOnJob'
  BY JobAssumption DEF IInv, TypeOK, BusyOnJob, CallSucceeds, history
<1>3. LeaseHolds'
  BY JobAssumption DEF IInv, TypeOK, BusyOnJob, LeaseHolds, CallSucceeds, history
<1>4. EffectFirst'
  BY JobAssumption DEF IInv, TypeOK, BusyOnJob, EffectFirst, HasEffect, CallSucceeds,
      history
<1>5. MessagesCounted'
  <2>1. JobOf(w0) \in Notify /\ JobOf(w0) \in Jobs
    BY DEF IInv, BusyOnJob, CallSucceeds
  <2>2. /\ notified'[JobOf(w0)] = notified[JobOf(w0)] + 1
        /\ \A k \in Jobs : k # JobOf(w0) => notified'[k] = notified[k]
        /\ worker'[w0].pc = "told" /\ worker'[w0].job = JobOf(w0)
        /\ \A w \in Workers : w # w0 => worker'[w] = worker[w]
        /\ dingtalk' = dingtalk /\ doubts' = doubts /\ overruns' = overruns
    BY <2>1 DEF IInv, TypeOK, CallSucceeds, history, WorkerState
  <2>3. /\ notified[JobOf(w0)] \in Nat /\ doubts[JobOf(w0)] \in Nat
        /\ \A w \in Workers : At(w, "told") /\ JobOf(w) = JobOf(w0)
              => overruns[JobOf(w0)] # 0
    BY <2>1 DEF IInv, TypeOK, LeaseHolds, CallSucceeds
  <2>4. overruns[JobOf(w0)] = 0 => /\ dingtalk[JobOf(w0)] # "SENT"
                                   /\ notified[JobOf(w0)] <= doubts[JobOf(w0)]
    BY <2>1, <2>3 DEF IInv, MessagesCounted, CallSucceeds
  <2>5. QED
    BY <2>1, <2>2, <2>3, <2>4, JobAssumption DEF IInv, TypeOK, MessagesCounted
<1>6. BudgetKept'
  BY DEF IInv, BudgetKept, CallSucceeds, bounds, history
<1>7. QED BY <1>1, <1>2, <1>3, <1>4, <1>5, <1>6 DEF IInv

LEMMA CallFailsKeeps ==
    ASSUME IInv, NEW w0 \in Workers, CallFails(w0)
    PROVE  IInv'
<1>1. TypeOK'
  <2>1. worker' \in [Workers -> WorkerState]
    BY WorkerTypes DEF IInv, TypeOK, BusyOnJob, CallFails, Steps
  <2>2. QED
    BY <2>1, JobAssumption DEF IInv, TypeOK, BusyOnJob, CallFails, Fault, Told
<1>2. BusyOnJob'
  BY JobAssumption DEF IInv, TypeOK, BusyOnJob, CallFails
<1>3. LeaseHolds'
  BY JobAssumption DEF IInv, TypeOK, BusyOnJob, LeaseHolds, CallFails
<1>4. EffectFirst'
  BY JobAssumption DEF IInv, TypeOK, BusyOnJob, EffectFirst, HasEffect, CallFails
<1>5. MessagesCounted'
  BY JobAssumption DEF IInv, TypeOK, BusyOnJob, MessagesCounted, CallFails
<1>6. BudgetKept'
  BY DEF IInv, BudgetKept, CallFails
<1>7. QED BY <1>1, <1>2, <1>3, <1>4, <1>5, <1>6 DEF IInv

LEMMA RecordToldKeeps ==
    ASSUME IInv, NEW w0 \in Workers, RecordTold(w0)
    PROVE  IInv'
<1>1. TypeOK'
  <2>1. worker' \in [Workers -> WorkerState]
    BY WorkerTypes DEF IInv, TypeOK, BusyOnJob, RecordTold, Steps
  <2>2. QED
    BY <2>1, JobAssumption DEF IInv, TypeOK, BusyOnJob, RecordTold, bounds, history,
        Told
<1>2. BusyOnJob'
  BY JobAssumption DEF IInv, TypeOK, BusyOnJob, RecordTold, history
<1>3. LeaseHolds'
  BY JobAssumption DEF IInv, TypeOK, BusyOnJob, LeaseHolds, RecordTold, history
<1>4. EffectFirst'
  BY JobAssumption DEF IInv, TypeOK, BusyOnJob, EffectFirst, HasEffect, RecordTold,
      history
<1>5. MessagesCounted'
  <2>1. JobOf(w0) \in Notify /\ JobOf(w0) \in Jobs
    BY DEF IInv, BusyOnJob, RecordTold
  <2>2. /\ dingtalk'[JobOf(w0)] = "SENT"
        /\ \A k \in Notify : k # JobOf(w0) => dingtalk'[k] = dingtalk[k]
        /\ worker'[w0].pc = "finishing"
        /\ \A w \in Workers : w # w0 => worker'[w] = worker[w]
        /\ notified' = notified /\ doubts' = doubts /\ overruns' = overruns
    BY <2>1 DEF IInv, TypeOK, RecordTold, history, WorkerState
  <2>3. \A w \in Workers : w # w0 /\ worker[w].pc \in {"calling", "told"}
              /\ JobOf(w) = JobOf(w0) => overruns[JobOf(w0)] # 0
    BY <2>1 DEF IInv, LeaseHolds, RecordTold
  <2>4. QED
    BY <2>1, <2>2, <2>3 DEF IInv, MessagesCounted, RecordTold
<1>6. BudgetKept'
  BY DEF IInv, BudgetKept, RecordTold, bounds, history
<1>7. QED BY <1>1, <1>2, <1>3, <1>4, <1>5, <1>6 DEF IInv

LEMMA InterruptKeeps ==
    ASSUME IInv, NEW w0 \in Workers, Interrupt(w0)
    PROVE  IInv'
<1>1. TypeOK'
  <2>1. jobs' \in [Jobs -> Job]
    BY JobTypes DEF IInv, TypeOK, BusyOnJob, Interrupt, JobStatus
  <2>2. worker' \in [Workers -> WorkerState]
    BY WorkerTypes DEF IInv, TypeOK, BusyOnJob, Interrupt, Steps
  <2>3. QED
    <3>1. JobOf(w0) \in Jobs
      BY DEF IInv, BusyOnJob, Interrupt
    <3>2. doubts[JobOf(w0)] + 1 \in Nat /\ extra[JobOf(w0)] + 1 \in Nat
      BY <3>1 DEF IInv, TypeOK
    <3>3. doubts' \in [Jobs -> Nat] /\ extra' \in [Jobs -> Nat]
      BY <3>1, <3>2 DEF IInv, TypeOK, Interrupt, Doubtful
    <3>4. staged' \subseteq Jobs
      BY <3>1 DEF IInv, TypeOK, Interrupt, Commit
    <3>5. faults' \in Nat
      BY DEF IInv, TypeOK, Interrupt, Fault
    <3>6. UNCHANGED <<handed, dingtalk, closed, notified, starts, overruns, crashes, repeats>>
      BY DEF Interrupt
    <3>7. QED
      BY <2>1, <2>2, <3>3, <3>4, <3>5, <3>6 DEF IInv, TypeOK
<1>2. BusyOnJob'
  BY JobAssumption DEF IInv, TypeOK, BusyOnJob, Commit, Doubtful, Idle, Interrupt,
      Refunded, Reopened
<1>3. LeaseHolds'
  BY JobAssumption DEF IInv, TypeOK, BusyOnJob, LeaseHolds, Commit, Doubtful, Idle,
      Interrupt, Refunded, Reopened
<1>4. EffectFirst'
  BY JobAssumption DEF IInv, TypeOK, BusyOnJob, EffectFirst, HasEffect, Commit,
      Doubtful, Idle, Interrupt, Refunded, Reopened
<1>5. MessagesCounted'
  BY JobAssumption DEF IInv, TypeOK, BusyOnJob, MessagesCounted, Commit, Doubtful, Idle,
      Interrupt, Refunded, Reopened
<1>6. BudgetKept'
  <2>1. JobOf(w0) \in Jobs /\ jobs[JobOf(w0)] \in Job
    BY DEF IInv, TypeOK, BusyOnJob, Interrupt
  <2>2. /\ extra'[JobOf(w0)] = extra[JobOf(w0)] + 1
        /\ \A k \in Jobs : k # JobOf(w0) => jobs'[k] = jobs[k] /\ extra'[k] = extra[k]
        /\ starts' = starts
    BY <2>1 DEF IInv, TypeOK, Interrupt
  <2>3. /\ jobs'[JobOf(w0)].status = "PENDING"
        /\ jobs'[JobOf(w0)].attempts + 1 >= jobs[JobOf(w0)].attempts
        /\ jobs'[JobOf(w0)].attempts \in Nat
    <3>1. jobs'[JobOf(w0)] = Refunded(Reopened(jobs[JobOf(w0)], TRUE))
      BY <2>1 DEF IInv, TypeOK, Interrupt
    <3>2. QED BY <2>1, <3>1, GivenBack
  <2>4. /\ starts[JobOf(w0)] \in Nat /\ extra[JobOf(w0)] \in Nat
        /\ jobs[JobOf(w0)].attempts \in Nat
    BY <2>1 DEF IInv, TypeOK, Job
  <2>5. /\ starts[JobOf(w0)] <= jobs[JobOf(w0)].attempts + extra[JobOf(w0)]
        /\ starts[JobOf(w0)] <= MaxAttempts + extra[JobOf(w0)]
    BY <2>1 DEF IInv, BudgetKept
  <2>6. /\ starts[JobOf(w0)] <= jobs'[JobOf(w0)].attempts + extra'[JobOf(w0)]
        /\ starts[JobOf(w0)] < MaxAttempts + extra'[JobOf(w0)]
    BY <2>2, <2>3, <2>4, <2>5, JobAssumption
  <2>7. SUFFICES ASSUME NEW k \in Jobs
                 PROVE  /\ starts'[k] <= jobs'[k].attempts + extra'[k]
                        /\ starts'[k] <= MaxAttempts + extra'[k]
                        /\ jobs'[k].status \in {"ABSENT", "PENDING"} =>
                              starts'[k] < MaxAttempts + extra'[k]
    BY DEF BudgetKept
  <2>8. CASE k = JobOf(w0)
    BY <2>2, <2>4, <2>6, <2>8, JobAssumption
  <2>9. CASE k # JobOf(w0)
    BY <2>2, <2>9 DEF IInv, BudgetKept
  <2>10. QED BY <2>8, <2>9
<1>7. QED BY <1>1, <1>2, <1>3, <1>4, <1>5, <1>6 DEF IInv

LEMMA CrashKeeps ==
    ASSUME IInv, NEW w0 \in Workers, Crash(w0)
    PROVE  IInv'
<1>1. TypeOK'
  <2>1. worker' \in [Workers -> WorkerState]
    BY WorkerTypes DEF IInv, TypeOK, BusyOnJob, Crash, Steps
  <2>2. QED
    <3>1. JobOf(w0) \in Jobs
      BY DEF IInv, BusyOnJob, Crash
    <3>2. doubts[JobOf(w0)] + 1 \in Nat
      BY <3>1 DEF IInv, TypeOK
    <3>3. doubts' \in [Jobs -> Nat]
      BY <3>1, <3>2 DEF IInv, TypeOK, Crash, Doubtful
    <3>4. QED
      BY <2>1, <3>1, <3>3, JobAssumption DEF IInv, TypeOK, Crash, effects
<1>2. BusyOnJob'
  BY JobAssumption DEF IInv, TypeOK, BusyOnJob, Crash, Doubtful, Idle, effects
<1>3. LeaseHolds'
  BY JobAssumption DEF IInv, TypeOK, BusyOnJob, LeaseHolds, Crash, Doubtful, Idle,
      effects
<1>4. EffectFirst'
  BY JobAssumption DEF IInv, TypeOK, BusyOnJob, EffectFirst, HasEffect, Crash, Doubtful,
      Idle, effects
<1>5. MessagesCounted'
  BY JobAssumption DEF IInv, TypeOK, BusyOnJob, MessagesCounted, Crash, Doubtful, Idle,
      effects
<1>6. BudgetKept'
  BY DEF IInv, BudgetKept, Crash, effects
<1>7. QED BY <1>1, <1>2, <1>3, <1>4, <1>5, <1>6 DEF IInv

LEMMA EnqueueKeeps ==
    ASSUME IInv, NEW j0 \in Jobs, Enqueue(j0)
    PROVE  IInv'
<1>1. TypeOK'
  <2>1. jobs' \in [Jobs -> Job]
    BY JobTypes DEF IInv, TypeOK, BusyOnJob, Enqueue, JobStatus
  <2>2. QED
    BY <2>1, JobAssumption DEF IInv, TypeOK, BusyOnJob, Enqueue, effects, history
<1>2. LeaseHolds'
  BY JobAssumption DEF IInv, TypeOK, BusyOnJob, LeaseHolds, Enqueue, Enqueued, effects,
      history
<1>3. EffectFirst'
  BY JobAssumption DEF IInv, TypeOK, BusyOnJob, EffectFirst, HasEffect, Enqueue,
      Enqueued, effects, history
<1>4. BudgetKept'
  BY JobAssumption DEF IInv, TypeOK, BusyOnJob, BudgetKept, Enqueue, Enqueued, effects,
      history
<1>5. BusyOnJob' /\ MessagesCounted'
  BY DEF IInv, BusyOnJob, MessagesCounted, Enqueue, effects, history
<1>6. QED BY <1>1, <1>2, <1>3, <1>4, <1>5 DEF IInv

LEMMA AgeLeaseKeeps ==
    ASSUME IInv, NEW j0 \in Jobs, AgeLease(j0)
    PROVE  IInv'
<1>1. TypeOK'
  <2>1. jobs' \in [Jobs -> Job]
    BY JobTypes DEF IInv, TypeOK, BusyOnJob, AgeLease, JobStatus
  <2>2. QED
    BY <2>1, JobAssumption DEF IInv, TypeOK, BusyOnJob, AgeLease, bounds, effects
<1>2. LeaseHolds'
  BY JobAssumption DEF IInv, TypeOK, BusyOnJob, LeaseHolds, AgeLease, effects
<1>3. EffectFirst'
  BY JobAssumption DEF IInv, TypeOK, BusyOnJob, EffectFirst, HasEffect, AgeLease,
      effects
<1>4. MessagesCounted'
  BY JobAssumption DEF IInv, TypeOK, BusyOnJob, MessagesCounted, AgeLease, effects
<1>5. BudgetKept'
  BY JobAssumption DEF IInv, TypeOK, BusyOnJob, BudgetKept, AgeLease, effects
<1>6. BusyOnJob'
  BY DEF IInv, BusyOnJob, AgeLease, bounds, effects
<1>7. QED BY <1>1, <1>2, <1>3, <1>4, <1>5, <1>6 DEF IInv

LEMMA BecomeDueKeeps ==
    ASSUME IInv, NEW j0 \in Jobs, BecomeDue(j0)
    PROVE  IInv'
<1>1. TypeOK'
  <2>1. jobs' \in [Jobs -> Job]
    BY JobTypes DEF IInv, TypeOK, BusyOnJob, BecomeDue, JobStatus
  <2>2. QED
    BY <2>1, JobAssumption DEF IInv, TypeOK, BusyOnJob, BecomeDue, bounds, effects,
        history
<1>2. LeaseHolds'
  BY JobAssumption DEF IInv, TypeOK, BusyOnJob, LeaseHolds, BecomeDue, effects, history
<1>3. EffectFirst'
  BY JobAssumption DEF IInv, TypeOK, BusyOnJob, EffectFirst, HasEffect, BecomeDue,
      effects, history
<1>4. BudgetKept'
  BY JobAssumption DEF IInv, TypeOK, BusyOnJob, BudgetKept, BecomeDue, effects, history
<1>5. BusyOnJob' /\ MessagesCounted'
  BY DEF IInv, BusyOnJob, MessagesCounted, BecomeDue, bounds, effects, history
<1>6. QED BY <1>1, <1>2, <1>3, <1>4, <1>5 DEF IInv

-----------------------------------------------------------------------------
(* The invariant and what follows from it.                                 *)

LEMMA InitHolds == Init => IInv
BY JobAssumption DEF Init, IInv, TypeOK, BusyOnJob, LeaseHolds, EffectFirst, HasEffect,
    MessagesCounted, BudgetKept, Job, NoJob, JobStatus, WorkerState, Steps, Idle, Told

LEMMA StepKeeps == IInv /\ [Next]_vars => IInv'
<1> SUFFICES ASSUME IInv, [Next]_vars PROVE IInv'
  OBVIOUS
<1>1. ASSUME NEW w \in Workers, WorkerStep(w) PROVE IInv'
  BY <1>1, ClaimKeeps, FinishKeeps, FailKeeps, DeferKeeps, FindStagedKeeps, DraftKeeps,
      InsertKeeps, ConflictKeeps, HandOverKeeps, SkipToldKeeps, SkipClosedKeeps, CallKeeps,
      CallSucceedsKeeps, CallFailsKeeps, RecordToldKeeps DEF WorkerStep
<1>2. ASSUME NEW w \in Workers, Interrupt(w) \/ Crash(w) PROVE IInv'
  BY <1>2, InterruptKeeps, CrashKeeps
<1>3. ASSUME NEW j \in Jobs, Enqueue(j) \/ AgeLease(j) \/ BecomeDue(j) PROVE IInv'
  BY <1>3, EnqueueKeeps, AgeLeaseKeeps, BecomeDueKeeps
<1>4. CASE UNCHANGED vars
  BY <1>4 DEF vars, effects, history, bounds, IInv, TypeOK, BusyOnJob, LeaseHolds,
      EffectFirst, HasEffect, MessagesCounted, BudgetKept
<1>5. QED BY <1>1, <1>2, <1>3, <1>4 DEF Next, PollNothing

LEMMA InvariantHolds == Spec => []IInv
<1>1. QED BY InitHolds, StepKeeps, PTL DEF Spec

\* The state of the queue keeps its types.
THEOREM TypeCorrect == Spec => []TypeOK
<1>1. IInv => TypeOK
  BY DEF IInv
<1>2. QED BY <1>1, InvariantHolds, PTL

\* The lease keeps a second worker off a job until it has run out.
THEOREM LeaseIsExclusive == Spec => []LeaseProtects
<1>1. IInv => LeaseProtects
  BY DEF IInv, LeaseHolds, LeaseProtects
<1>2. QED BY <1>1, InvariantHolds, PTL

\* A job marked DONE has had its effect, even when a late worker marks it.
THEOREM DoneMeansDone == Spec => []DoneHasEffect
<1>1. IInv => DoneHasEffect
  BY DEF IInv, EffectFirst, HasEffect, DoneHasEffect
<1>2. QED BY <1>1, InvariantHolds, PTL

\* Within the lease a notification is repeated only for a message in doubt.
THEOREM NotificationsAreCounted == Spec => []NotifiedOnce
<1>1. IInv => NotifiedOnce
  BY DEF IInv, TypeOK, MessagesCounted, NotifiedOnce
<1>2. QED BY <1>1, InvariantHolds, PTL

\* max_attempts bounds the runs that are neither given back nor abandoned.
THEOREM RetriesAreBounded == Spec => []RetryBudget
<1>1. IInv => RetryBudget
  BY DEF IInv, BudgetKept, RetryBudget
<1>2. QED BY <1>1, InvariantHolds, PTL

LEMMA DoneKept ==
    ASSUME IInv, [Next]_vars, NEW j \in Jobs, jobs[j].status = "DONE", overruns[j] = 0
    PROVE  jobs'[j].status = "DONE"
<1>1. ASSUME NEW w \in Workers, ~At(w, "idle") PROVE JobOf(w) # j
  BY <1>1 DEF IInv, LeaseHolds
<1>2. ASSUME NEW w \in Workers, Claim(w) PROVE jobs'[j] = jobs[j]
  <2>1. PICK k \in Jobs : Claimable(k) /\ jobs' = [jobs EXCEPT ![k] = Started(@)]
    BY <1>2 DEF Claim
  <2>2. k # j
    BY <2>1 DEF Claimable, Stale
  <2>3. QED BY <2>1, <2>2 DEF IInv, TypeOK
<1>3. ASSUME NEW w \in Workers, Finish(w) \/ Fail(w) \/ Defer(w) \/ Interrupt(w)
      PROVE  jobs'[j] = jobs[j]
  <2>1. JobOf(w) # j
    BY <1>1, <1>3 DEF Finish, Fail, Defer, Interrupt
  <2>2. QED BY <1>3, <2>1 DEF IInv, TypeOK, Finish, Fail, Defer, Interrupt
<1>4. ASSUME NEW w \in Workers, WorkerStep(w) \/ Crash(w), ~Claim(w),
             ~(Finish(w) \/ Fail(w) \/ Defer(w))
      PROVE  jobs'[j] = jobs[j]
  BY <1>4 DEF WorkerStep, Crash, FindStaged, Draft, Insert, Conflict, HandOver, SkipTold,
      SkipClosed, Call, CallSucceeds, CallFails, RecordTold
<1>5. ASSUME NEW k \in Jobs, Enqueue(k) \/ AgeLease(k) \/ BecomeDue(k)
      PROVE  jobs'[j].status = "DONE"
  BY <1>5 DEF IInv, TypeOK, Job, Enqueue, Enqueued, AgeLease, BecomeDue
<1>6. CASE UNCHANGED vars
  BY <1>6 DEF vars
<1>7. QED BY <1>2, <1>3, <1>4, <1>5, <1>6 DEF Next, PollNothing

\* Neither a repeated request nor another worker reopens a job that is done, as
\* long as no lease of it has run out under its worker.
THEOREM DoneIsFinal == Spec => DoneStaysDone
<1>1. ASSUME IInv, [Next]_vars
      PROVE  \A j \in Jobs : jobs[j].status = "DONE" /\ overruns[j] = 0
                => jobs'[j].status = "DONE"
  BY <1>1, DoneKept
<1>2. QED BY <1>1, InvariantHolds, PTL DEF Spec, DoneStaysDone
=============================================================================
