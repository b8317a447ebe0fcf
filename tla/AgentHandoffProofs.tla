------------------------- MODULE AgentHandoffProofs -------------------------
(***************************************************************************)
(* What holds of a handoff for any number of workers, API requests,        *)
(* questions, versions, attempts, crashes and faults.                      *)
(***************************************************************************)
EXTENDS AgentHandoff, TLAPS

Locking(w) == At(w, "resuming") \/ At(w, "drafting")

\* The run's lock is held by a worker from its load to its first commit.
RunHeld == \A w \in Workers : runLock = w <=> Locking(w)

\* Under the run's lock nothing that the session has loaded gets stale, except that
\* a handoff may be opened again.
Current(w) ==
    /\ JobOf(w) = run.version
    /\ worker[w].request = requests[RequestOf(w)]
    /\ worker[w].handoff = "OPEN" => handoff = "OPEN"
    /\ At(w, "drafting") => Ready(w)

HeldIsCurrent == \A w \in Workers : Locking(w) => Current(w)

\* A request that leaves the run alone does not close the handoff.
KeptIsOpen == \A c \in Clerks : clerk[c].outcome.run = "KEPT" => clerk[c].outcome.handoff = "OPEN"

LockInv == RunHeld /\ HeldIsCurrent /\ KeptIsOpen

USE DEF At, JobOf, RequestOf, RunIs, RequestIs, Without, desk, questions, mail, locks, bounds

-----------------------------------------------------------------------------
(* The records of the workers, the API requests and the jobs.              *)

LEMMA WorkerTypes ==
    /\ IdleWorker \in WorkerState
    /\ \A v \in Versions : [IdleWorker EXCEPT !.pc = "claimed", !.version = v] \in WorkerState
    /\ \A s \in WorkerState :
          /\ \A step \in WorkerSteps : [s EXCEPT !.pc = step] \in WorkerState
          /\ \A f \in Facts, r \in AgentRunStatus :
                [s EXCEPT !.pc = "committed", !.case = "ACTIVE", !.facts = f, !.run = r]
                    \in WorkerState
          /\ \A r \in AssistanceStatus, h \in HandoffStatus, k \in CaseStatus, f \in Facts :
                [s EXCEPT !.pc = "resuming", !.request = r, !.handoff = h, !.case = k,
                          !.facts = f] \in WorkerState
<1>1. 1 \in Versions
  BY HandoffAssumption DEF Versions
<1>2. /\ IdleWorker \in WorkerState
      /\ \A v \in Versions : [IdleWorker EXCEPT !.pc = "claimed", !.version = v] \in WorkerState
  BY <1>1 DEF IdleWorker, WorkerState, WorkerSteps, AssistanceStatus, HandoffStatus, CaseStatus,
     AgentRunStatus, Facts, NoFacts
<1>3. ASSUME NEW s \in WorkerState
      PROVE  /\ \A step \in WorkerSteps : [s EXCEPT !.pc = step] \in WorkerState
             /\ \A f \in Facts, r \in AgentRunStatus :
                   [s EXCEPT !.pc = "committed", !.case = "ACTIVE", !.facts = f, !.run = r]
                       \in WorkerState
  <2>1. "committed" \in WorkerSteps /\ "ACTIVE" \in CaseStatus
    BY DEF WorkerSteps, CaseStatus
  <2>2. QED BY <2>1 DEF WorkerState
<1>4. ASSUME NEW s \in WorkerState, NEW r \in AssistanceStatus, NEW h \in HandoffStatus,
             NEW k \in CaseStatus, NEW f \in Facts
      PROVE  [s EXCEPT !.pc = "resuming", !.request = r, !.handoff = h, !.case = k,
                       !.facts = f] \in WorkerState
  <2>1. "resuming" \in WorkerSteps
    BY DEF WorkerSteps
  <2>2. QED BY <2>1 DEF WorkerState
<1>5. QED BY <1>2, <1>3, <1>4

LEMMA OutcomeTypes ==
    /\ Forward \in Outcome /\ Decisions \subseteq Outcome
    /\ \A next \in {"ACTIVE", "HUMAN_TAKEOVER"} : Reply(next) \in Outcome
    /\ \A outcome \in Decisions : outcome.run = "KEPT" => outcome.handoff = "OPEN"
BY DEF Forward, Reply, Decisions, Outcome, HandoffStatus, CaseStatus

LEMMA ClerkTypes ==
    /\ IdleClerk \in ClerkState
    /\ \A s \in ClerkState, r \in AgentRunStatus, b \in BOOLEAN :
          [s EXCEPT !.pc = "holding", !.run = r, !.open = b] \in ClerkState
    /\ \A step \in {"loaded", "holding"}, task \in Tasks, o \in Outcome, h \in HandoffStatus,
          k \in CaseStatus :
          [IdleClerk EXCEPT !.pc = step, !.task = task, !.outcome = o, !.handoff = h, !.case = k]
              \in ClerkState
<1>1. IdleClerk \in ClerkState
  BY OutcomeTypes DEF IdleClerk, ClerkState, HandoffStatus, CaseStatus, Tasks, AgentRunStatus
<1>2. QED BY <1>1 DEF ClerkState

LEMMA FactsTypes ==
    /\ NoFacts \in Facts /\ [NoFacts EXCEPT !.followup = TRUE] \in Facts
    /\ \A f \in Facts : [f EXCEPT !.prepared = TRUE] \in Facts
BY DEF Facts, NoFacts

LEMMA JobTypes ==
    /\ NoJob \in ResumeJob
    /\ \A n \in Questions : [status |-> "PENDING", attempts |-> 0, request |-> n] \in ResumeJob
    /\ \A job \in ResumeJob :
          /\ \A status \in JobStatus : [job EXCEPT !.status = status] \in ResumeJob
          /\ job.attempts < MaxAttempts + MaxFaults =>
                [job EXCEPT !.status = "RUNNING", !.attempts = @ + 1] \in ResumeJob
          /\ AfterFailure(job) \in ResumeJob
          /\ AfterFailure(job).status \in {"PENDING", "FAILED"}
          /\ AfterFailure(job).request = job.request
<1>1. 1 \in Questions
  BY HandoffAssumption DEF Questions
<1>2. /\ NoJob \in ResumeJob
      /\ \A n \in Questions : [status |-> "PENDING", attempts |-> 0, request |-> n] \in ResumeJob
  BY <1>1, HandoffAssumption DEF NoJob, ResumeJob, JobStatus
<1>3. ASSUME NEW job \in ResumeJob
      PROVE  /\ \A status \in JobStatus : [job EXCEPT !.status = status] \in ResumeJob
             /\ AfterFailure(job) \in ResumeJob
             /\ AfterFailure(job).status \in {"PENDING", "FAILED"}
             /\ AfterFailure(job).request = job.request
  BY DEF ResumeJob, JobStatus, AfterFailure
<1>4. ASSUME NEW job \in ResumeJob, job.attempts < MaxAttempts + MaxFaults
      PROVE  [job EXCEPT !.status = "RUNNING", !.attempts = @ + 1] \in ResumeJob
  <2>1. job.attempts + 1 \in 0..(MaxAttempts + MaxFaults)
    BY <1>4, HandoffAssumption DEF ResumeJob
  <2>2. "RUNNING" \in JobStatus
    BY DEF JobStatus
  <2>3. QED BY <2>1, <2>2 DEF ResumeJob
<1>5. QED BY <1>2, <1>3, <1>4

LEMMA LockTypes ==
    ASSUME TypeOK, NEW a \in Actors, FreesLocks(a)
    PROVE  runLock' \in Workers \cup {None} /\ handoffLock' \in Actors \cup {None}
BY DEF TypeOK, FreesLocks

LEMMA WrittenTypes ==
    /\ \A x, y, z \in HandoffStatus : Written(x, y, z) \in HandoffStatus
    /\ \A x, y, z \in CaseStatus : Written(x, y, z) \in CaseStatus
    /\ \A x, y, z \in AgentRunStatus : Written(x, y, z) \in AgentRunStatus
BY DEF Written

LEMMA RunTypes ==
    ASSUME TypeOK, NEW status \in AgentRunStatus, RunIs(status)
    PROVE  run' \in AgentRun
BY DEF TypeOK, AgentRun

LEMMA AskedTypes ==
    ASSUME NEW asked \in [Questions -> AssistanceStatus], NEW r \in Asked(asked)
    PROVE  /\ r \in [Questions -> AssistanceStatus]
           /\ \A n \in Questions : r[n] = asked[n] \/ (asked[n] = "ABSENT" /\ r[n] = "OPEN")
           /\ \/ r = asked
              \/ /\ \A n \in Questions : ~Live(asked[n])
                 /\ \E k \in Questions : r = [asked EXCEPT ![k] = "OPEN"]
<1>1. \/ r = asked
      \/ /\ \A n \in Questions : ~Live(asked[n])
         /\ \E k \in Questions : asked[k] = "ABSENT" /\ r = [asked EXCEPT ![k] = "OPEN"]
  BY DEF Asked
<1>2. QED BY <1>1 DEF AssistanceStatus

\* A job that waits may still be tried; only a crash takes it beyond its limit.
AttemptsLeft ==
    /\ faults <= MaxFaults
    /\ \A v \in Versions :
          /\ jobs[v].attempts <= MaxAttempts + faults
          /\ jobs[v].status = "PENDING" => jobs[v].attempts < MaxAttempts + faults

TypeInv == TypeOK /\ AttemptsLeft

LEMMA JobSet ==
    ASSUME TypeInv, NEW v \in Versions, NEW job \in ResumeJob,
           faults' \in {faults, faults + 1}, faults' <= MaxFaults,
           job.attempts <= MaxAttempts + faults',
           job.status = "PENDING" => job.attempts < MaxAttempts + faults',
           jobs' = [jobs EXCEPT ![v] = job]
    PROVE  jobs' \in [Versions -> ResumeJob] /\ AttemptsLeft'
<1>1. jobs' \in [Versions -> ResumeJob]
  BY DEF TypeInv, TypeOK
<1>2. ASSUME NEW u \in Versions
      PROVE  /\ jobs'[u].attempts <= MaxAttempts + faults'
             /\ jobs'[u].status = "PENDING" => jobs'[u].attempts < MaxAttempts + faults'
  <2>1. jobs[u] \in ResumeJob
    BY DEF TypeInv, TypeOK
  <2>2. CASE u = v
    BY <2>2 DEF TypeInv, TypeOK
  <2>3. CASE u # v
    BY <2>1, <2>3, HandoffAssumption DEF TypeInv, TypeOK, AttemptsLeft, ResumeJob
  <2>4. QED BY <2>2, <2>3
<1>3. QED BY <1>1, <1>2 DEF AttemptsLeft

LEMMA WorkerSet ==
    ASSUME TypeOK, NEW w \in Workers, NEW s \in WorkerState, worker' = [worker EXCEPT ![w] = s]
    PROVE  worker' \in [Workers -> WorkerState]
BY DEF TypeOK

LEMMA WorkerGoes ==
    ASSUME TypeOK, NEW w \in Workers
    PROVE  /\ JobOf(w) \in Versions /\ RequestOf(w) \in Questions
           /\ \A step \in WorkerSteps : MovesTo(w, step) => worker' \in [Workers -> WorkerState]
           /\ Stops(w) => worker' \in [Workers -> WorkerState]
<1>1. worker[w] \in WorkerState
  BY DEF TypeOK
<1>2. JobOf(w) \in Versions
  BY <1>1 DEF WorkerState
<1>3. RequestOf(w) \in Questions
  BY <1>2 DEF TypeOK, ResumeJob
<1>4. ASSUME NEW step \in WorkerSteps, MovesTo(w, step) PROVE worker' \in [Workers -> WorkerState]
  <2>1. [worker[w] EXCEPT !.pc = step] \in WorkerState
    BY <1>1, WorkerTypes
  <2>2. QED BY <1>4, <2>1 DEF MovesTo, TypeOK
<1>5. ASSUME Stops(w) PROVE worker' \in [Workers -> WorkerState]
  BY <1>5, WorkerTypes DEF Stops, TypeOK
<1>6. QED BY <1>2, <1>3, <1>4, <1>5

LEMMA JobStatusSet ==
    ASSUME TypeInv, NEW v \in Versions, NEW status \in JobStatus, status # "PENDING",
           UNCHANGED faults, jobs' = [jobs EXCEPT ![v].status = status]
    PROVE  jobs' \in [Versions -> ResumeJob] /\ AttemptsLeft'
<1>1. jobs[v] \in ResumeJob
  BY DEF TypeInv, TypeOK
<1>2. [jobs[v] EXCEPT !.status = status] \in ResumeJob
  BY <1>1, JobTypes
<1>3. /\ [jobs[v] EXCEPT !.status = status].status = status
      /\ [jobs[v] EXCEPT !.status = status].attempts = jobs[v].attempts
  BY <1>1 DEF ResumeJob
<1>4. jobs' = [jobs EXCEPT ![v] = [jobs[v] EXCEPT !.status = status]]
  BY DEF TypeInv, TypeOK
<1>5. faults' \in {faults, faults + 1} /\ faults' <= MaxFaults /\ jobs[v].attempts <= MaxAttempts + faults'
  BY DEF TypeInv, AttemptsLeft
<1>6. QED BY <1>2, <1>3, <1>4, <1>5, JobSet

LEMMA QueueResumeTypes ==
    ASSUME TypeInv, NEW n \in Questions, QueueResume(n), UNCHANGED faults
    PROVE  run' \in AgentRun /\ jobs' \in [Versions -> ResumeJob] /\ AttemptsLeft'
<1>1. run.version + 1 \in Versions
  BY HandoffAssumption DEF QueueResume, TypeInv, TypeOK, AgentRun, Versions
<1>2. run' \in AgentRun
  BY <1>1 DEF QueueResume, AgentRun, AgentRunStatus
<1>3. [status |-> "PENDING", attempts |-> 0, request |-> n] \in ResumeJob
  BY JobTypes
<1>4. jobs' \in [Versions -> ResumeJob] /\ AttemptsLeft'
  <2>1. ASSUME NEW job \in ResumeJob, job = [status |-> "PENDING", attempts |-> 0, request |-> n]
        PROVE  jobs' \in [Versions -> ResumeJob] /\ AttemptsLeft'
    <3>1. job.attempts < MaxAttempts + faults' /\ job.attempts <= MaxAttempts + faults'
      BY <2>1, HandoffAssumption DEF TypeInv, TypeOK
    <3>2. jobs' = [jobs EXCEPT ![run.version + 1] = job]
      BY <2>1 DEF QueueResume
    <3>3. faults' \in {faults, faults + 1} /\ faults' <= MaxFaults
      BY DEF TypeInv, AttemptsLeft
    <3>4. QED BY <1>1, <3>1, <3>2, <3>3, JobSet
  <2>2. QED BY <1>3, <2>1
<1>5. QED BY <1>2, <1>4

LEMMA CommitsEarlyTypes ==
    ASSUME TypeOK, NEW w \in Workers, NEW new \in Facts, NEW status \in AgentRunStatus,
           CommitsEarly(w, new, status)
    PROVE  /\ run' \in AgentRun /\ case' \in CaseStatus /\ worker' \in [Workers -> WorkerState]
           /\ facts' \in Facts
           /\ runLock' \in Workers \cup {None} /\ handoffLock' \in Actors \cup {None}
<1>1. worker[w] \in WorkerState
  BY DEF TypeOK
<1>2. [worker[w] EXCEPT !.pc = "committed", !.case = "ACTIVE", !.facts = new, !.run = status]
        \in WorkerState
  BY <1>1, WorkerTypes
<1>3. worker' = [worker EXCEPT ![w] =
        [worker[w] EXCEPT !.pc = "committed", !.case = "ACTIVE", !.facts = new, !.run = status]]
  BY DEF CommitsEarly, TypeOK
<1>4. worker' \in [Workers -> WorkerState]
  BY <1>2, <1>3, WorkerSet
<1>5. case' \in CaseStatus
  BY <1>1, WrittenTypes DEF CommitsEarly, TypeOK, WorkerState, CaseStatus
<1>6. run' \in AgentRun
  BY RunTypes DEF CommitsEarly
<1>7. QED BY <1>4, <1>5, <1>6, LockTypes DEF CommitsEarly, Actors

LEMMA JobFailsTypes ==
    ASSUME TypeInv, NEW w \in Workers, JobFails(w),
           faults' \in {faults, faults + 1}, faults' <= MaxFaults
    PROVE  /\ jobs' \in [Versions -> ResumeJob] /\ AttemptsLeft'
           /\ worker' \in [Workers -> WorkerState]
           /\ runLock' \in Workers \cup {None} /\ handoffLock' \in Actors \cup {None}
<1>1. JobOf(w) \in Versions
  BY WorkerGoes DEF TypeInv
<1>2. jobs[JobOf(w)] \in ResumeJob
  BY <1>1 DEF TypeInv, TypeOK
<1>3. AfterFailure(jobs[JobOf(w)]) \in ResumeJob
  BY <1>2, JobTypes
<1>4. /\ AfterFailure(jobs[JobOf(w)]).attempts <= MaxAttempts + faults'
      /\ AfterFailure(jobs[JobOf(w)]).status = "PENDING" =>
            AfterFailure(jobs[JobOf(w)]).attempts < MaxAttempts + faults'
  <2>1. /\ AfterFailure(jobs[JobOf(w)]).attempts = jobs[JobOf(w)].attempts
        /\ AfterFailure(jobs[JobOf(w)]).status = "PENDING" => jobs[JobOf(w)].attempts < MaxAttempts
    BY <1>2, HandoffAssumption DEF AfterFailure, ResumeJob
  <2>2. jobs[JobOf(w)].attempts <= MaxAttempts + faults /\ jobs[JobOf(w)].attempts \in Nat /\ faults \in Nat
    BY <1>1, <1>2, HandoffAssumption DEF TypeInv, TypeOK, AttemptsLeft, ResumeJob
  <2>3. QED BY <2>1, <2>2, HandoffAssumption
<1>5. jobs' = [jobs EXCEPT ![JobOf(w)] = AfterFailure(jobs[JobOf(w)])]
  BY DEF JobFails
<1>6. jobs' \in [Versions -> ResumeJob] /\ AttemptsLeft'
  BY <1>1, <1>3, <1>4, <1>5, JobSet
<1>7. QED BY <1>6, WorkerGoes, LockTypes DEF JobFails, TypeInv, Actors

\* A request is received.
Begins(c) == BeginReply(c) \/ BeginUpdate(c) \/ BeginForward(c) \/ BeginPreview(c)

LEMMA BeginsActs ==
    ASSUME NEW c \in Clerks, Begins(c)
    PROVE  \E task \in Tasks, outcome \in Outcome, step \in {"loaded", "holding"} :
              Acts(c, task, outcome, step) /\ (outcome.run = "KEPT" => outcome.handoff = "OPEN")
<1>1. {"update", "reply", "forward", "preview"} \subseteq Tasks
  BY DEF Tasks
<1>2. CASE BeginReply(c)
  BY <1>1, <1>2, OutcomeTypes DEF BeginReply, Reply
<1>3. CASE BeginUpdate(c)
  BY <1>1, <1>3, OutcomeTypes DEF BeginUpdate
<1>4. CASE BeginForward(c) \/ BeginPreview(c)
  BY <1>1, <1>4, OutcomeTypes DEF BeginForward, BeginPreview, Forward
<1>5. QED BY <1>2, <1>3, <1>4 DEF Begins

-----------------------------------------------------------------------------
LEMMA TypeInvariant == Spec => []TypeInv
<1>1. Init => TypeInv
  <2> SUFFICES ASSUME Init PROVE TypeInv
    OBVIOUS
  <2>1. TypeOK
    <3>1. run \in AgentRun /\ requests \in [Questions -> AssistanceStatus]
      BY HandoffAssumption DEF Init, AgentRun, AgentRunStatus, AssistanceStatus, Versions
    <3>2. jobs \in [Versions -> ResumeJob]
      BY JobTypes DEF Init
    <3>3. worker \in [Workers -> WorkerState] /\ clerk \in [Clerks -> ClerkState]
      BY WorkerTypes, ClerkTypes DEF Init
    <3>4. facts \in Facts
      BY FactsTypes DEF Init
    <3>5. answer \in [Questions -> Keys] /\ outbox \in [Keys -> RowStatus]
      BY DEF Init, Keys, RowStatus
    <3>6. QED BY <3>1, <3>2, <3>3, <3>4, <3>5 DEF Init, TypeOK, HandoffStatus, CaseStatus
  <2>2. AttemptsLeft
    BY HandoffAssumption DEF Init, AttemptsLeft, NoJob
  <2>3. QED BY <2>1, <2>2 DEF TypeInv
<1>2. TypeInv /\ [Next]_vars => TypeInv'
  <2> SUFFICES ASSUME TypeInv, [Next]_vars PROVE TypeInv'
    OBVIOUS
  <2> USE DEF TypeInv
  <2>w. ASSUME NEW w \in Workers PROVE /\ worker[w] \in WorkerState
                                       /\ JobOf(w) \in Versions /\ RequestOf(w) \in Questions
                                       /\ worker[w].facts \in Facts /\ KeyOf(w) \in Keys
                                       /\ worker[w].run \in AgentRunStatus
                                       /\ run.status \in AgentRunStatus
                                       /\ w \in Actors
    BY WorkerGoes DEF TypeOK, Actors, WorkerState, KeyOf, Keys, AgentRun
  <2>1. ASSUME NEW n \in Questions, Answer(n) PROVE TypeInv'
    <3>1. answer' \in [Questions -> Keys]
      BY <2>1 DEF Answer, TypeOK, Keys
    <3>2. QED BY <2>1, <3>1, QueueResumeTypes DEF Answer, TypeOK, AssistanceStatus
  <2>2. ASSUME NEW n \in Questions, AnswerAgain(n) PROVE TypeInv'
    BY <2>2, QueueResumeTypes DEF AnswerAgain, TypeOK
  <2>3. ASSUME NEW n \in Questions, AnswerUnavailable(n) PROVE TypeInv'
    BY <2>3 DEF AnswerUnavailable, TypeOK, AttemptsLeft, AssistanceStatus, AgentRun, AgentRunStatus
  <2>4. ASSUME NEW w \in Workers, Take(w) PROVE TypeInv'
    <3>1. PICK v \in Versions :
            /\ jobs[v].status = "PENDING"
            /\ jobs' = [jobs EXCEPT ![v].status = "RUNNING", ![v].attempts = @ + 1]
            /\ worker' = [worker EXCEPT ![w] = [IdleWorker EXCEPT !.pc = "claimed", !.version = v]]
      BY <2>4 DEF Take
    <3>2. /\ jobs[v] \in ResumeJob /\ jobs[v].attempts \in Nat
          /\ jobs[v].attempts < MaxAttempts + faults /\ jobs[v].attempts < MaxAttempts + MaxFaults
      BY <3>1, HandoffAssumption DEF TypeOK, AttemptsLeft, ResumeJob
    <3> DEFINE job == [jobs[v] EXCEPT !.status = "RUNNING", !.attempts = @ + 1]
    <3>3. job \in ResumeJob
      BY <3>2, JobTypes
    <3>4. job.status = "RUNNING" /\ job.attempts = jobs[v].attempts + 1
      BY <3>2 DEF ResumeJob
    <3>5. jobs' = [jobs EXCEPT ![v] = job]
      BY <3>1 DEF TypeOK
    <3>6. jobs' \in [Versions -> ResumeJob] /\ AttemptsLeft'
      <4>1. UNCHANGED faults /\ faults \in Nat /\ faults <= MaxFaults
        BY <2>4 DEF Take, TypeOK, AttemptsLeft
      <4>2. job.attempts <= MaxAttempts + faults'
        BY <3>2, <3>4, <4>1, HandoffAssumption
      <4>3. QED BY <3>3, <3>4, <3>5, <4>1, <4>2, JobSet
    <3>7. worker' \in [Workers -> WorkerState]
      BY <3>1, WorkerTypes, WorkerSet
    <3>8. QED BY <2>4, <3>6, <3>7 DEF Take, TypeOK
  <2>5. ASSUME NEW w \in Workers, SkipResume(w) PROVE TypeInv'
    BY <2>5, <2>w, WorkerGoes, JobStatusSet DEF SkipResume, TypeOK, JobStatus
  <2>6. ASSUME NEW w \in Workers, LoadRun(w) PROVE TypeInv'
    <3> DEFINE s == [worker[w] EXCEPT !.pc = "resuming", !.request = requests[RequestOf(w)],
                                      !.handoff = handoff, !.case = case, !.facts = facts]
    <3>1. /\ requests[RequestOf(w)] \in AssistanceStatus /\ handoff \in HandoffStatus
          /\ case \in CaseStatus /\ facts \in Facts
      BY <2>w DEF TypeOK
    <3>2. s \in WorkerState
      BY <2>w, <3>1, WorkerTypes
    <3>3. worker' = [worker EXCEPT ![w] = s]
      BY <2>6 DEF LoadRun, TypeOK
    <3>4. worker' \in [Workers -> WorkerState]
      BY <3>2, <3>3, WorkerSet
    <3>5. QED BY <2>6, <3>4 DEF LoadRun, TypeOK, AttemptsLeft
  <2>7. ASSUME NEW w \in Workers, Block(w) PROVE TypeInv'
    <3>1. worker' \in [Workers -> WorkerState]
      BY <2>7, WorkerGoes DEF Block, WorkerSteps
    <3>2. case' \in CaseStatus /\ handoff' \in HandoffStatus
      BY <2>7, <2>w DEF Block, Written, TypeOK, WorkerState, CaseStatus, HandoffStatus
    <3>3. run' \in AgentRun
      BY <2>7 DEF Block, TypeOK, AgentRun, AgentRunStatus
    <3>4. QED BY <2>7, <2>w, <3>1, <3>2, <3>3, LockTypes DEF Block, TypeOK, AttemptsLeft
  <2>8. ASSUME NEW w \in Workers, Proceed(w) PROVE TypeInv'
    <3>1. worker' \in [Workers -> WorkerState]
      BY <2>8, WorkerGoes DEF Proceed, WorkerSteps
    <3>2. QED BY <2>8, <2>w, <3>1 DEF Proceed, TypeOK, AttemptsLeft
  <2>9. ASSUME NEW w \in Workers, Prepare(w) \/ Decline(w) PROVE TypeInv'
    <3>1. Drafted(w) \in Facts
      BY <2>w, FactsTypes DEF Drafted
    <3>2. PICK new \in Facts, status \in {"RUNNING", "WAITING_HUMAN"} :
            CommitsEarly(w, new, status) /\ UNCHANGED <<outbox, sent>>
      BY <2>9, <2>w, <3>1 DEF Prepare, Decline
    <3>3. status \in AgentRunStatus
      BY DEF AgentRunStatus
    <3>4. QED BY <3>2, <3>3, CommitsEarlyTypes DEF CommitsEarly, TypeOK, AttemptsLeft
  <2>s. ASSUME NEW w \in Workers, Sends(w)
        PROVE  sent' \in [Questions -> Nat] /\ outbox' \in [Keys -> RowStatus]
    BY <2>s, <2>w DEF Sends, TypeOK, RowStatus
  <2>10. ASSUME NEW w \in Workers, SendPart(w) PROVE TypeInv'
    <3>1. CommitsEarly(w, Drafted(w), "WAITING_HUMAN") /\ Drafted(w) \in Facts
      BY <2>10, <2>w, FactsTypes DEF SendPart, Drafted
    <3>2. sent' \in [Questions -> Nat] /\ outbox' \in [Keys -> RowStatus]
      BY <2>10, <2>s DEF SendPart
    <3>3. "WAITING_HUMAN" \in AgentRunStatus
      BY DEF AgentRunStatus
    <3>4. QED BY <3>1, <3>2, <3>3, CommitsEarlyTypes DEF CommitsEarly, TypeOK, AttemptsLeft
  <2>11. ASSUME NEW w \in Workers, SendAll(w) PROVE TypeInv'
    <3>1. worker' \in [Workers -> WorkerState]
      BY <2>11, WorkerGoes DEF SendAll, WorkerSteps
    <3>2. case' \in CaseStatus /\ handoff' \in HandoffStatus
      BY <2>11, <2>w DEF SendAll, Written, TypeOK, WorkerState, CaseStatus, HandoffStatus
    <3>3. run' \in AgentRun /\ requests' \in [Questions -> AssistanceStatus]
      BY <2>11, <2>w DEF SendAll, TypeOK, AgentRun, AgentRunStatus, AssistanceStatus
    <3>4. sent' \in [Questions -> Nat] /\ outbox' \in [Keys -> RowStatus]
      BY <2>11, <2>s DEF SendAll
    <3>5. QED BY <2>11, <2>w, <3>1, <3>2, <3>3, <3>4, LockTypes DEF SendAll, TypeOK, AttemptsLeft
  <2>12. ASSUME NEW w \in Workers,
                CommitPrepared(w) \/ CommitPartial(w) \/ CommitFound(w) \/ BlockLate(w)
         PROVE  TypeInv'
    <3>1. worker' \in [Workers -> WorkerState]
      BY <2>12, WorkerGoes DEF CommitPrepared, CommitPartial, CommitFound, BlockLate, WorkerSteps
    <3>2. case' \in CaseStatus /\ handoff' \in HandoffStatus /\ facts' \in Facts
      BY <2>12, <2>w DEF CommitPrepared, CommitPartial, CommitFound, BlockLate, TypeOK, CaseStatus,
         HandoffStatus
    <3>3. [requests EXCEPT ![RequestOf(w)] = "APPLIED"] \in [Questions -> AssistanceStatus]
      BY DEF TypeOK, AssistanceStatus
    <3>4. requests' \in [Questions -> AssistanceStatus]
      <4>1. CASE CommitPartial(w)
        BY <3>3, <4>1, AskedTypes DEF CommitPartial
      <4>2. CASE ~CommitPartial(w)
        BY <2>12, <3>3, <4>2 DEF CommitPrepared, CommitFound, BlockLate, TypeOK
      <4>3. QED BY <4>1, <4>2
    <3>5. \E status \in AgentRunStatus : RunIs(status)
      <4>1. Written(worker[w].run, "WAITING_HUMAN", run.status) \in AgentRunStatus
        BY <2>w, WrittenTypes DEF AgentRunStatus
      <4>2. "COMPLETED" \in AgentRunStatus /\ "BLOCKED" \in AgentRunStatus
        BY DEF AgentRunStatus
      <4>3. QED BY <2>12, <4>1, <4>2 DEF CommitPrepared, CommitPartial, CommitFound, BlockLate, RunWaits
    <3>6. run' \in AgentRun
      BY <3>5, RunTypes
    <3>7. /\ UNCHANGED <<answer, previewed, jobs, clerk>> /\ UNCHANGED locks
          /\ UNCHANGED mail /\ UNCHANGED bounds
      BY <2>12 DEF CommitPrepared, CommitPartial, CommitFound, BlockLate
    <3>8. QED BY <3>1, <3>2, <3>4, <3>6, <3>7 DEF TypeOK, AttemptsLeft
  <2>13. ASSUME NEW w \in Workers, Finish(w) PROVE TypeInv'
    BY <2>13, <2>w, WorkerGoes, JobStatusSet DEF Finish, TypeOK, JobStatus
  <2>14. ASSUME NEW w \in Workers, FailSent(w) \/ Fail(w) PROVE TypeInv'
    <3>1. JobFails(w)
      BY <2>14 DEF FailSent, Fail
    <3>2. /\ jobs' \in [Versions -> ResumeJob] /\ AttemptsLeft' /\ worker' \in [Workers -> WorkerState]
          /\ runLock' \in Workers \cup {None} /\ handoffLock' \in Actors \cup {None}
      <4>1. faults' \in {faults, faults + 1} /\ faults' <= MaxFaults
        BY <2>14, HandoffAssumption DEF FailSent, Fail, TypeOK, AttemptsLeft
      <4>2. QED BY <3>1, <4>1, JobFailsTypes
    <3>3. CASE FailSent(w)
      BY <3>2, <3>3 DEF FailSent, TypeOK
    <3>4. CASE Fail(w)
      BY <3>2, <3>4 DEF Fail, TypeOK
    <3>5. QED BY <2>14, <3>3, <3>4
  <2>15. ASSUME NEW w \in Workers, Crash(w) PROVE TypeInv'
    <3> DEFINE job == [jobs[JobOf(w)] EXCEPT !.status = "PENDING"]
    <3>1. jobs[JobOf(w)] \in ResumeJob
      BY <2>w DEF TypeOK
    <3>2. job \in ResumeJob
      BY <3>1, JobTypes DEF JobStatus
    <3>3. /\ faults' \in {faults, faults + 1} /\ faults' <= MaxFaults
          /\ job.attempts < MaxAttempts + faults' /\ job.attempts <= MaxAttempts + faults'
      <4>1. job.attempts = jobs[JobOf(w)].attempts /\ job.attempts \in Nat
        BY <3>1, HandoffAssumption DEF ResumeJob
      <4>2. job.attempts <= MaxAttempts + faults /\ faults' = faults + 1 /\ faults \in Nat /\ faults < MaxFaults
        BY <2>15, <2>w, <4>1 DEF Crash, TypeOK, AttemptsLeft
      <4>3. QED BY <4>1, <4>2, HandoffAssumption
    <3>4. jobs' = [jobs EXCEPT ![JobOf(w)] = job]
      BY <2>15 DEF Crash, TypeOK
    <3>5. jobs' \in [Versions -> ResumeJob] /\ AttemptsLeft'
      BY <2>w, <3>2, <3>3, <3>4, JobSet
    <3>6. QED BY <2>15, <2>w, <3>5, WorkerGoes, LockTypes DEF Crash, TypeOK
  <2>16. ASSUME NEW c \in Clerks, Begins(c) PROVE TypeInv'
    <3>1. PICK task \in Tasks, outcome \in Outcome, step \in {"loaded", "holding"} :
            Acts(c, task, outcome, step)
      BY <2>16, BeginsActs
    <3>2. [IdleClerk EXCEPT !.pc = step, !.task = task, !.outcome = outcome, !.handoff = handoff,
                            !.case = case] \in ClerkState
      BY ClerkTypes DEF TypeOK
    <3>3. clerk' \in [Clerks -> ClerkState]
      BY <3>1, <3>2 DEF Acts, TypeOK
    <3>4. handoffLock' \in Actors \cup {None}
      BY <2>16 DEF Begins, BeginReply, BeginUpdate, BeginForward, BeginPreview, TypeOK, Actors
    <3>5. QED BY <3>1, <3>3, <3>4 DEF Acts, TypeOK, AttemptsLeft
  <2>17. ASSUME NEW c \in Clerks, Hold(c) PROVE TypeInv'
    <3>1. clerk' \in [Clerks -> ClerkState]
      <4> DEFINE b == \E n \in Questions : Live(requests[n])
      <4>1. b \in BOOLEAN /\ run.status \in AgentRunStatus
        BY DEF TypeOK, AgentRun
      <4> HIDE DEF b
      <4>2. [clerk[c] EXCEPT !.pc = "holding", !.run = run.status, !.open = b] \in ClerkState
        BY <4>1, ClerkTypes DEF TypeOK
      <4>3. clerk' = [clerk EXCEPT ![c] =
               [clerk[c] EXCEPT !.pc = "holding", !.run = run.status, !.open = b]]
        BY <2>17 DEF Hold, TypeOK, b
      <4>4. QED BY <4>2, <4>3 DEF TypeOK
    <3>2. QED BY <2>17, <3>1 DEF Hold, TypeOK, AttemptsLeft, Actors
  <2>18. ASSUME NEW c \in Clerks, Decide(c) PROVE TypeInv'
    <3> DEFINE outcome == clerk[c].outcome
    <3>1. clerk[c] \in ClerkState /\ outcome \in Outcome
      BY DEF TypeOK, ClerkState
    <3>2. handoff' \in HandoffStatus /\ case' \in CaseStatus
      BY <2>18, <3>1 DEF Decide, Written, TypeOK, ClerkState, Outcome
    <3>3. run' \in AgentRun /\ requests' \in [Questions -> AssistanceStatus]
      BY <2>18, <3>1 DEF Decide, Finalizes, TypeOK, AgentRun, AgentRunStatus, AssistanceStatus, Outcome
    <3>4. approved' \subseteq {"reply", "forward"}
      BY <2>18, <3>1 DEF Decide, TypeOK, ClerkState
    <3>5. clerk' \in [Clerks -> ClerkState]
      BY <2>18, ClerkTypes DEF Decide, Leaves, TypeOK
    <3>6. runLock' \in Workers \cup {None} /\ handoffLock' \in Actors \cup {None}
      BY <2>18, LockTypes DEF Decide, Leaves, Actors
    <3>7. QED BY <2>18, <3>2, <3>3, <3>4, <3>5, <3>6 DEF Decide, TypeOK, AttemptsLeft
  <2>19. ASSUME NEW c \in Clerks, Refused(c) PROVE TypeInv'
    BY <2>19, ClerkTypes, LockTypes DEF Refused, Leaves, TypeOK, AttemptsLeft, Actors
  <2>p. ASSUME NEW c \in Clerks, PreviewFinds(c) \/ PreviewAsks(c) PROVE TypeInv'
    <3>1. PICK prepared \in BOOLEAN : Previews(c, prepared)
      BY <2>p DEF PreviewFinds, PreviewAsks
    <3>2. clerk[c] \in ClerkState
      BY DEF TypeOK
    <3>3. facts' \in Facts /\ case' \in CaseStatus
      BY <3>1, <3>2, WrittenTypes DEF Previews, Facts, TypeOK, ClerkState, CaseStatus
    <3>4. clerk' \in [Clerks -> ClerkState]
      BY <3>1, ClerkTypes DEF Previews, Leaves, TypeOK
    <3>5. runLock' \in Workers \cup {None} /\ handoffLock' \in Actors \cup {None}
      BY <3>1, LockTypes DEF Previews, Leaves, Actors
    <3>6. run' \in AgentRun /\ requests' \in [Questions -> AssistanceStatus] /\ previewed' \in BOOLEAN
      <4>1. CASE PreviewFinds(c)
        BY <4>1 DEF PreviewFinds, TypeOK
      <4>2. CASE PreviewAsks(c)
        <5>1. clerk[c].run \in AgentRunStatus /\ run.status \in AgentRunStatus
          BY <3>2 DEF ClerkState, TypeOK, AgentRun
        <5>2. Written(clerk[c].run, "WAITING_HUMAN", run.status) \in AgentRunStatus
          BY <5>1, WrittenTypes DEF AgentRunStatus
        <5>3. run' \in AgentRun
          BY <4>2, <5>2, RunTypes DEF PreviewAsks
        <5>4. requests' \in {requests} \cup Asked(requests)
          BY <4>2 DEF PreviewAsks
        <5>5. QED BY <4>2, <5>3, <5>4, AskedTypes DEF PreviewAsks, TypeOK
      <4>3. QED BY <2>p, <4>1, <4>2
    <3>7. QED BY <3>1, <3>3, <3>4, <3>5, <3>6 DEF Previews, TypeOK, AttemptsLeft
  <2>c. ASSUME NEW k \in Keys, CancelMail(k) PROVE TypeInv'
    BY <2>c DEF CancelMail, TypeOK, RowStatus, AttemptsLeft
  <2>20. CASE UNCHANGED vars
    BY <2>20 DEF vars, TypeOK, AttemptsLeft
  <2>21. CASE Quiet
    BY <2>20, <2>21 DEF Quiet
  <2>22. QED
    BY <2>1, <2>2, <2>3, <2>4, <2>5, <2>6, <2>7, <2>8, <2>9, <2>10, <2>11, <2>12, <2>13, <2>14,
       <2>15, <2>16, <2>17, <2>18, <2>19, <2>p, <2>c, <2>20, <2>21
    DEF Next, WorkerStep, ClerkStep, Begins
<1>3. QED BY <1>1, <1>2, PTL DEF Spec

\* Every variable keeps its type: a run counts its versions, a job its attempts.
THEOREM TypeCorrect == Spec => []TypeOK
<1>1. TypeInv => TypeOK
  BY DEF TypeInv
<1>2. QED BY <1>1, TypeInvariant, PTL

-----------------------------------------------------------------------------
(* The run's lock.                                                         *)

\* What a step that leaves the worker records alone may do to the run.
LEMMA LockKept ==
    ASSUME TypeOK, LockInv, UNCHANGED <<worker, runLock>>,
           \A v \in Versions : jobs'[v].request = jobs[v].request \/ runLock = None,
           runLock = None \/ (UNCHANGED <<run, requests>> /\ (handoff = "OPEN" => handoff' = "OPEN"))
    PROVE  RunHeld' /\ HeldIsCurrent'
<1>1. RunHeld'
  BY DEF LockInv, RunHeld, Locking
<1>2. HeldIsCurrent'
  <2>1. CASE runLock = None
    <3>1. \A w \in Workers : ~Locking(w)'
      BY <2>1, HandoffAssumption DEF LockInv, RunHeld, Locking
    <3>2. QED BY <3>1 DEF HeldIsCurrent
  <2>2. CASE runLock # None
    <3> SUFFICES ASSUME NEW w \in Workers, Locking(w)' PROVE Current(w)'
      BY DEF HeldIsCurrent
    <3>1. Locking(w)
      BY DEF Locking
    <3>2. JobOf(w) \in Versions
      BY WorkerGoes
    <3>3. QED BY <2>2, <3>1, <3>2 DEF LockInv, HeldIsCurrent, Current, Ready
  <2>3. QED BY <2>1, <2>2
<1>3. QED BY <1>1, <1>2

\* A step of one worker: the others, if it leaves the run to the lock's holder.
LEMMA LockStep ==
    ASSUME TypeOK, LockInv, NEW w \in Workers,
           \A x \in Workers \ {w} : worker'[x] = worker[x],
           \A v \in Versions : jobs'[v].request = jobs[v].request,
           runLock' = (IF Locking(w)' THEN w ELSE Without(runLock, w)),
           runLock \in {None, w} \/ (UNCHANGED <<run, requests, handoff>> /\ ~Locking(w)'),
           Locking(w)' => Current(w)'
    PROVE  RunHeld' /\ HeldIsCurrent'
<1>1. \A x \in Workers \ {w} : Locking(x)' = Locking(x)
  BY DEF Locking
<1>2. \A x \in Workers \ {w} : Locking(x) => runLock = x /\ UNCHANGED <<run, requests, handoff>>
  BY HandoffAssumption DEF LockInv, RunHeld
<1>3. RunHeld'
  BY <1>1, <1>2, HandoffAssumption DEF LockInv, RunHeld
<1>4. ASSUME NEW x \in Workers \ {w}, Locking(x)' PROVE Current(x)'
  <2>1. Locking(x)
    BY <1>1, <1>4
  <2>2. JobOf(x) \in Versions
    BY WorkerGoes
  <2>3. UNCHANGED <<run, requests, handoff>> /\ worker'[x] = worker[x]
    BY <1>2, <2>1
  <2>4. QED BY <2>1, <2>2, <2>3 DEF LockInv, HeldIsCurrent, Current, Ready
<1>5. HeldIsCurrent'
  BY <1>4 DEF HeldIsCurrent
<1>6. QED BY <1>3, <1>5

LEMMA FreeWithout ==
    ASSUME TypeOK, LockInv, NEW w \in Workers
    PROVE  /\ ~Locking(w) => Without(runLock, w) = runLock
           /\ Locking(w) => runLock = w /\ Without(runLock, w) = None
BY HandoffAssumption DEF LockInv, RunHeld

LEMMA LockInvariant == Spec => []LockInv
<1>1. Init => LockInv
  <2> SUFFICES ASSUME Init PROVE LockInv
    OBVIOUS
  <2>1. \A w \in Workers : ~Locking(w) /\ runLock # w
    BY HandoffAssumption DEF Init, IdleWorker, Locking
  <2>2. KeptIsOpen
    BY DEF Init, IdleClerk, Forward, KeptIsOpen
  <2>3. QED BY <2>1, <2>2 DEF LockInv, RunHeld, HeldIsCurrent
<1>2. TypeInv /\ LockInv /\ [Next]_vars => LockInv'
  <2> SUFFICES ASSUME TypeInv, LockInv, [Next]_vars PROVE LockInv'
    OBVIOUS
  <2>t. TypeOK
    BY DEF TypeInv
  <2>n. ASSUME NEW n \in Questions, Answer(n) \/ AnswerAgain(n) \/ AnswerUnavailable(n)
        PROVE  LockInv'
    <3>1. runLock = None /\ UNCHANGED <<worker, runLock, clerk>>
      BY <2>n DEF Answer, AnswerAgain, AnswerUnavailable
    <3>2. \A w \in Workers : ~Locking(w)' /\ runLock' # w
      BY <2>t, <3>1, FreeWithout, HandoffAssumption DEF Locking
    <3>3. QED BY <3>1, <3>2 DEF LockInv, RunHeld, HeldIsCurrent, KeptIsOpen
  <2>w. ASSUME NEW w \in Workers, UNCHANGED clerk,
               \A x \in Workers \ {w} : worker'[x] = worker[x],
               \A v \in Versions : jobs'[v].request = jobs[v].request,
               ~Locking(w)', runLock' = Without(runLock, w),
               Locking(w) \/ runLock = None \/ UNCHANGED <<run, requests, handoff>>
        PROVE  LockInv'
    <3>1. runLock \in {None, w} \/ UNCHANGED <<run, requests, handoff>>
      BY <2>t, <2>w, FreeWithout
    <3>2. RunHeld' /\ HeldIsCurrent'
      BY <2>t, <2>w, <3>1, LockStep
    <3>3. QED BY <2>w, <3>2 DEF LockInv, KeptIsOpen
  <2>1. ASSUME NEW w \in Workers, Take(w) PROVE LockInv'
    <3>1. ~Locking(w) /\ ~Locking(w)'
      BY <2>1, <2>t DEF Take, Locking, IdleWorker, TypeOK
    <3>2. \A v \in Versions : jobs'[v].request = jobs[v].request
      BY <2>1, <2>t DEF Take, TypeOK, ResumeJob
    <3>3. QED BY <2>1, <2>t, <2>w, <3>1, <3>2, FreeWithout DEF Take, TypeOK
  <2>2. ASSUME NEW w \in Workers, SkipResume(w) PROVE LockInv'
    <3>1. ~Locking(w) /\ ~Locking(w)'
      BY <2>2, <2>t DEF SkipResume, Stops, Locking, IdleWorker, TypeOK
    <3>2. \A v \in Versions : jobs'[v].request = jobs[v].request
      BY <2>2, <2>t DEF SkipResume, TypeOK, ResumeJob
    <3>3. QED BY <2>2, <2>t, <2>w, <3>1, <3>2, FreeWithout DEF SkipResume, Stops, TypeOK
  <2>3. ASSUME NEW w \in Workers, LoadRun(w) PROVE LockInv'
    <3>1. /\ ~Locking(w) /\ Locking(w)' /\ ~At(w, "drafting")'
          /\ JobOf(w)' = JobOf(w) /\ JobOf(w) = run.version
          /\ worker'[w].request = requests[RequestOf(w)] /\ worker'[w].handoff = handoff
      BY <2>3, <2>t DEF LoadRun, Superseded, Locking, TypeOK, WorkerState
    <3>2. \A x \in Workers \ {w} : worker'[x] = worker[x]
      BY <2>3, <2>t DEF LoadRun, TypeOK
    <3>3. runLock = None /\ runLock' = w /\ UNCHANGED <<run, requests, handoff, jobs, clerk>>
      BY <2>3 DEF LoadRun, RunFree
    <3>4. /\ runLock' = (IF Locking(w)' THEN w ELSE Without(runLock, w))
          /\ runLock \in {None, w}
          /\ \A v \in Versions : jobs'[v].request = jobs[v].request
          /\ Current(w)'
      BY <3>1, <3>3 DEF Current
    <3>5. RunHeld' /\ HeldIsCurrent'
      BY <2>t, <3>2, <3>4, LockStep
    <3>6. QED BY <3>3, <3>5 DEF LockInv, KeptIsOpen
  <2>4. ASSUME NEW w \in Workers, Block(w) PROVE LockInv'
    <3>1. Locking(w) /\ ~Locking(w)'
      BY <2>4, <2>t DEF Block, MovesTo, Locking, TypeOK, WorkerState
    <3>2. QED BY <2>4, <2>t, <2>w, <3>1 DEF Block, MovesTo, FreesLocks, TypeOK
  <2>5. ASSUME NEW w \in Workers, Proceed(w) PROVE LockInv'
    <3>1. /\ Locking(w) /\ Locking(w)' /\ Ready(w) /\ Ready(w)'
          /\ JobOf(w)' = JobOf(w) /\ worker'[w].request = worker[w].request
          /\ worker'[w].handoff = worker[w].handoff
      BY <2>5, <2>t DEF Proceed, MovesTo, Locking, Ready, TypeOK, WorkerState
    <3>2. \A x \in Workers \ {w} : worker'[x] = worker[x]
      BY <2>5, <2>t DEF Proceed, MovesTo, TypeOK
    <3>3. runLock = w /\ UNCHANGED <<run, requests, handoff, jobs, clerk, runLock>>
      BY <2>5, <2>t, <3>1, FreeWithout DEF Proceed
    <3>4. /\ JobOf(w) = run.version /\ worker[w].request = requests[RequestOf(w)]
          /\ worker[w].handoff = "OPEN" => handoff = "OPEN"
      BY <3>1 DEF LockInv, HeldIsCurrent, Current
    <3>5. /\ runLock' = (IF Locking(w)' THEN w ELSE Without(runLock, w))
          /\ runLock \in {None, w}
          /\ \A v \in Versions : jobs'[v].request = jobs[v].request
          /\ Current(w)'
      BY <3>1, <3>3, <3>4 DEF Current
    <3>6. RunHeld' /\ HeldIsCurrent'
      BY <2>t, <3>2, <3>5, LockStep
    <3>7. QED BY <3>3, <3>6 DEF LockInv, KeptIsOpen
  <2>6. ASSUME NEW w \in Workers, NEW new, NEW status, CommitsEarly(w, new, status)
        PROVE  LockInv'
    <3>1. Locking(w) /\ ~Locking(w)'
      BY <2>6, <2>t DEF CommitsEarly, Locking, TypeOK, WorkerState
    <3>2. \A x \in Workers \ {w} : worker'[x] = worker[x]
      BY <2>6, <2>t DEF CommitsEarly, TypeOK
    <3>3. QED BY <2>6, <2>w, <3>1, <3>2 DEF CommitsEarly, FreesLocks
  <2>7. ASSUME NEW w \in Workers, SendAll(w) PROVE LockInv'
    <3>1. Locking(w) /\ ~Locking(w)'
      BY <2>7, <2>t DEF SendAll, MovesTo, Locking, TypeOK, WorkerState
    <3>2. QED BY <2>7, <2>t, <2>w, <3>1 DEF SendAll, MovesTo, FreesLocks, TypeOK
  <2>8. ASSUME NEW w \in Workers,
               CommitPrepared(w) \/ CommitPartial(w) \/ CommitFound(w) \/ BlockLate(w)
        PROVE  LockInv'
    <3>1. /\ ~Locking(w) /\ ~Locking(w)' /\ \A x \in Workers \ {w} : worker'[x] = worker[x]
          /\ runLock = None /\ UNCHANGED <<jobs, clerk, runLock>>
      BY <2>8, <2>t DEF CommitPrepared, CommitPartial, CommitFound, Found, BlockLate, MovesTo,
         Locking, TypeOK, WorkerState, RunFree
    <3>2. QED BY <2>t, <2>w, <3>1, FreeWithout
  <2>9. ASSUME NEW w \in Workers, Finish(w) PROVE LockInv'
    <3>1. ~Locking(w) /\ ~Locking(w)'
      BY <2>9, <2>t DEF Finish, Stops, Locking, IdleWorker, TypeOK
    <3>2. \A v \in Versions : jobs'[v].request = jobs[v].request
      BY <2>9, <2>t DEF Finish, TypeOK, ResumeJob
    <3>3. QED BY <2>9, <2>t, <2>w, <3>1, <3>2, FreeWithout DEF Finish, Stops, TypeOK
  <2>10. ASSUME NEW w \in Workers, FailSent(w) \/ Fail(w) \/ Crash(w) PROVE LockInv'
    <3>1. ~Locking(w)' /\ \A x \in Workers \ {w} : worker'[x] = worker[x]
      BY <2>10, <2>t DEF FailSent, Fail, Crash, JobFails, Stops, Locking, IdleWorker, TypeOK
    <3>2. \A v \in Versions : jobs'[v].request = jobs[v].request
      <4>1. JobOf(w) \in Versions /\ jobs[JobOf(w)] \in ResumeJob
        BY <2>t, WorkerGoes DEF TypeOK
      <4>2. AfterFailure(jobs[JobOf(w)]).request = jobs[JobOf(w)].request
        BY <4>1, JobTypes
      <4>3. CASE JobFails(w)
        BY <2>t, <4>2, <4>3 DEF JobFails, TypeOK
      <4>4. CASE Crash(w)
        BY <2>t, <4>1, <4>4 DEF Crash, TypeOK, ResumeJob
      <4>5. QED BY <2>10, <4>3, <4>4 DEF FailSent, Fail
    <3>3. /\ UNCHANGED <<run, requests, handoff, clerk>> /\ runLock' = Without(runLock, w)
      BY <2>10 DEF FailSent, Fail, Crash, JobFails, FreesLocks
    <3>4. QED BY <2>w, <3>1, <3>2, <3>3
  <2>11. ASSUME NEW c \in Clerks, Begins(c) PROVE LockInv'
    <3>1. PICK task \in Tasks, outcome \in Outcome, step \in {"loaded", "holding"} :
            Acts(c, task, outcome, step) /\ (outcome.run = "KEPT" => outcome.handoff = "OPEN")
      BY <2>11, BeginsActs
    <3>2. KeptIsOpen'
      <4>1. \A x \in Clerks \ {c} : clerk'[x] = clerk[x]
        BY <2>t, <3>1 DEF Acts, TypeOK
      <4>2. clerk'[c].outcome = outcome
        BY <2>t, <3>1 DEF Acts, TypeOK, IdleClerk
      <4>3. QED BY <3>1, <4>1, <4>2 DEF KeptIsOpen, LockInv
    <3>3. RunHeld' /\ HeldIsCurrent'
      BY <2>t, <3>1, LockKept DEF Acts
    <3>4. QED BY <3>2, <3>3 DEF LockInv
  <2>12. ASSUME NEW c \in Clerks, Hold(c) PROVE LockInv'
    <3>1. KeptIsOpen'
      <4>1. \A x \in Clerks : clerk'[x].outcome = clerk[x].outcome
        BY <2>12, <2>t DEF Hold, TypeOK, ClerkState
      <4>2. QED BY <4>1 DEF KeptIsOpen, LockInv
    <3>2. RunHeld' /\ HeldIsCurrent'
      BY <2>12, <2>t, LockKept DEF Hold
    <3>3. QED BY <3>1, <3>2 DEF LockInv
  <2>13. ASSUME NEW c \in Clerks, Decide(c) \/ Refused(c) PROVE LockInv'
    <3>1. c \notin Workers /\ c # None
      BY HandoffAssumption
    <3>2. UNCHANGED <<worker, runLock, jobs>>
      BY <2>13, <2>t, <3>1 DEF Decide, Refused, Leaves, FreesLocks, TypeOK
    <3>3. runLock = None \/ (UNCHANGED <<run, requests>> /\ (handoff = "OPEN" => handoff' = "OPEN"))
      <4>1. CASE Refused(c)
        BY <4>1 DEF Refused
      <4>2. CASE Decide(c)
        <5>1. runLock = None \/ clerk[c].outcome.run = "KEPT"
          BY <4>2 DEF Decide, RunFree
        <5>2. CASE clerk[c].outcome.run = "KEPT"
          <6>1. clerk[c].outcome.handoff = "OPEN"
            BY <5>2 DEF LockInv, KeptIsOpen
          <6>2. UNCHANGED <<run, requests>>
            BY <4>2, <5>2 DEF Decide, Finalizes
          <6>3. handoff' = Written(clerk[c].handoff, "OPEN", handoff)
            BY <4>2, <6>1 DEF Decide
          <6>4. QED BY <6>2, <6>3 DEF Written
        <5>3. QED BY <5>1, <5>2
      <4>3. QED BY <2>13, <4>1, <4>2
    <3>4. RunHeld' /\ HeldIsCurrent'
      BY <2>t, <3>2, <3>3, LockKept
    <3>5. KeptIsOpen'
      BY <2>13, <2>t DEF Decide, Refused, Leaves, IdleClerk, Forward, KeptIsOpen, LockInv, TypeOK
    <3>6. QED BY <3>4, <3>5 DEF LockInv
  <2>p. ASSUME NEW c \in Clerks, PreviewFinds(c) \/ PreviewAsks(c) PROVE LockInv'
    <3>1. c \notin Workers /\ c # None
      BY HandoffAssumption
    <3>2. UNCHANGED <<worker, runLock, jobs, handoff>> /\ clerk' = [clerk EXCEPT ![c] = IdleClerk]
      BY <2>p, <2>t, <3>1 DEF PreviewFinds, PreviewAsks, Previews, Leaves, FreesLocks, TypeOK
    <3>3. runLock = None \/ UNCHANGED <<run, requests>>
      BY <2>p DEF PreviewFinds, PreviewAsks, RunFree
    <3>4. RunHeld' /\ HeldIsCurrent'
      BY <2>t, <3>2, <3>3, LockKept
    <3>5. KeptIsOpen'
      BY <3>2, <2>t DEF IdleClerk, Forward, KeptIsOpen, LockInv, TypeOK
    <3>6. QED BY <3>4, <3>5 DEF LockInv
  <2>c. ASSUME NEW k \in Keys, CancelMail(k) PROVE LockInv'
    BY <2>c, <2>t, LockKept DEF CancelMail, LockInv, KeptIsOpen
  <2>14. CASE UNCHANGED vars
    BY <2>14, <2>t, LockKept DEF vars, LockInv, KeptIsOpen
  <2>15. CASE Quiet
    BY <2>14, <2>15 DEF Quiet
  <2>16. QED
    BY <2>n, <2>1, <2>2, <2>3, <2>4, <2>5, <2>6, <2>7, <2>8, <2>9, <2>10, <2>11, <2>12, <2>13,
       <2>p, <2>c, <2>14, <2>15 DEF Next, WorkerStep, ClerkStep, Begins, Prepare, Decline, SendPart
<1>3. QED BY <1>1, <1>2, TypeInvariant, PTL DEF Spec

LEMMA SentStep ==
    ASSUME TypeInv, LockInv, [Next]_vars, NEW n \in Questions, sent'[n] # sent[n]
    PROVE  handoff = "OPEN" /\ requests[n] = "ANSWERED"
<1>1. PICK w \in Workers : SendPart(w) \/ SendAll(w)
  <2>1. ~UNCHANGED sent
    OBVIOUS
  <2>2. QED
    BY <2>1 DEF Next, WorkerStep, ClerkStep, vars, Quiet, Answer, AnswerAgain,
       AnswerUnavailable, Take, SkipResume, LoadRun, Block, Proceed, Prepare, Decline,
       CommitPrepared, CommitPartial, CommitFound, BlockLate, Finish, FailSent, Fail, Crash,
       BeginReply, BeginUpdate, BeginForward, BeginPreview, Acts, Hold, Decide, PreviewFinds,
       PreviewAsks, Previews, Refused, CancelMail
<1>2. At(w, "drafting") /\ Sends(w)
  BY <1>1 DEF SendPart, SendAll, CommitsEarly
<1>3. Current(w) /\ Ready(w)
  BY <1>2 DEF LockInv, HeldIsCurrent, Locking, Current
<1>4. n = RequestOf(w)
  BY <1>2 DEF Sends, TypeInv, TypeOK
<1>5. QED BY <1>3, <1>4 DEF Current, Ready

\* The agent puts a message into the outbox only while the handoff is open, for an
\* answer that no human has overruled: what it loaded under the run's lock is still so.
THEOREM SendsOnAnswer == Spec => AgentSendsOnAnswer
<1>1. TypeInv /\ LockInv /\ [Next]_vars =>
        [\A n \in Questions : sent'[n] # sent[n] => handoff = "OPEN" /\ requests[n] = "ANSWERED"]_vars
  BY SentStep
<1>2. QED BY <1>1, TypeInvariant, LockInvariant, PTL DEF Spec, AgentSendsOnAnswer

-----------------------------------------------------------------------------
(* One message for an answer.                                              *)

\* The first key is taken when the facts, or a session's copy of them, name a followup.
FirstTaken ==
    /\ facts.followup => outbox[First] # "ABSENT"
    /\ \A w \in Workers : worker[w].facts.followup => outbox[First] # "ABSENT"

\* While a message is sent and its answer not yet applied, both keys that another
\* message for the answer could have are taken.
SentSettled ==
    \A n \in Questions :
        /\ sent[n] \in {0, 1}
        /\ sent[n] = 1 => requests[n] \in {"APPLIED", "CANCELLED"} \/
              (/\ requests[n] = "ANSWERED"
               /\ outbox[First] # "ABSENT" /\ outbox[answer[n]] # "ABSENT")

MailInv == FirstTaken /\ SentSettled

\* No row leaves the outbox, and no ended question is asked again.
Onward ==
    /\ \A k \in Keys : outbox[k] # "ABSENT" => outbox'[k] # "ABSENT"
    /\ \A n \in Questions :
          /\ requests[n] \in {"APPLIED", "CANCELLED"} => requests'[n] \in {"APPLIED", "CANCELLED"}
          /\ requests[n] = "ANSWERED" => /\ requests'[n] \in {"ANSWERED", "APPLIED", "CANCELLED"}
                                         /\ answer'[n] = answer[n]

\* Facts go from the row to a session and back.
FactsKept ==
    /\ facts'.followup => facts.followup \/ \E w \in Workers : worker[w].facts.followup
    /\ \A w \in Workers : worker'[w].facts.followup => facts.followup \/ worker[w].facts.followup

LEMMA OnwardStep ==
    ASSUME TypeInv, MailInv, Onward, FactsKept, UNCHANGED sent
    PROVE  MailInv'
<1>1. First \in Keys /\ \A n \in Questions : answer[n] \in Keys
  BY DEF Keys, TypeInv, TypeOK
<1>2. FirstTaken'
  BY <1>1 DEF MailInv, FirstTaken, Onward, FactsKept
<1>3. SentSettled'
  BY <1>1 DEF MailInv, SentSettled, Onward
<1>4. QED BY <1>2, <1>3 DEF MailInv

LEMMA SendStep ==
    ASSUME TypeInv, LockInv, MailInv, NEW w \in Workers, Sends(w), At(w, "drafting"), Onward,
           FactsKept, UNCHANGED answer,
           \/ requests' = [requests EXCEPT ![RequestOf(w)] = "APPLIED"]
           \/ worker[w].facts.followup /\ UNCHANGED requests
    PROVE  MailInv'
<1> DEFINE n == RequestOf(w)
<1>1. /\ n \in Questions /\ First \in Keys /\ KeyOf(w) \in Keys
      /\ \A m \in Questions : answer[m] \in Keys
  BY WorkerGoes DEF Keys, KeyOf, TypeInv, TypeOK
<1>2. requests[n] = "ANSWERED"
  BY DEF LockInv, HeldIsCurrent, Locking, Current, Ready
<1>3. sent[n] = 0
  BY <1>1, <1>2 DEF MailInv, SentSettled, Sends, KeyTaken, KeyOf
<1>4. /\ sent'[n] = 1 /\ \A m \in Questions \ {n} : sent'[m] = sent[m]
      /\ outbox'[KeyOf(w)] = "LIVE"
  BY <1>1, <1>3 DEF Sends, TypeInv, TypeOK
<1>5. FirstTaken'
  BY <1>1 DEF MailInv, FirstTaken, Onward, FactsKept
<1>6. ASSUME NEW m \in Questions \ {n} PROVE
        /\ sent'[m] \in {0, 1}
        /\ sent'[m] = 1 => requests'[m] \in {"APPLIED", "CANCELLED"} \/
              (/\ requests'[m] = "ANSWERED"
               /\ outbox'[First] # "ABSENT" /\ outbox'[answer'[m]] # "ABSENT")
  BY <1>1, <1>4 DEF MailInv, SentSettled, Onward
<1>7. CASE requests' = [requests EXCEPT ![n] = "APPLIED"]
  <2>1. requests'[n] = "APPLIED"
    BY <1>1, <1>7 DEF TypeInv, TypeOK
  <2>2. QED BY <1>4, <1>5, <1>6, <2>1 DEF MailInv, SentSettled
<1>8. CASE worker[w].facts.followup /\ UNCHANGED requests
  <2>1. outbox[First] # "ABSENT" /\ KeyOf(w) = answer[n]
    BY <1>8 DEF MailInv, FirstTaken, KeyOf
  <2>2. outbox'[First] # "ABSENT" /\ outbox'[answer'[n]] # "ABSENT"
    BY <1>1, <1>4, <2>1 DEF Onward
  <2>3. QED BY <1>2, <1>4, <1>5, <1>6, <1>8, <2>2 DEF MailInv, SentSettled
<1>9. QED BY <1>7, <1>8

LEMMA MailInvariant == Spec => []MailInv
<1>1. Init => MailInv
  <2> SUFFICES ASSUME Init PROVE MailInv
    OBVIOUS
  <2>1. facts.followup => outbox[First] # "ABSENT"
    BY DEF Init, Keys
  <2>2. \A w \in Workers : ~worker[w].facts.followup
    BY DEF Init, IdleWorker, NoFacts
  <2>3. SentSettled
    BY DEF Init, SentSettled
  <2>4. QED BY <2>1, <2>2, <2>3 DEF MailInv, FirstTaken
<1>2. TypeInv /\ LockInv /\ MailInv /\ [Next]_vars => MailInv'
  <2> SUFFICES ASSUME TypeInv, LockInv, MailInv, [Next]_vars PROVE MailInv'
    OBVIOUS
  <2>t. TypeOK
    BY DEF TypeInv
  <2>w. ASSUME NEW w \in Workers
        PROVE  /\ worker[w] \in WorkerState /\ RequestOf(w) \in Questions /\ KeyOf(w) \in Keys
               /\ worker[w].facts \in Facts
    BY <2>t, WorkerGoes DEF TypeOK, KeyOf, Keys, WorkerState
  <2>k. ASSUME NEW w \in Workers,
               (\E step : MovesTo(w, step)) \/ Stops(w)
        PROVE  \A x \in Workers : worker'[x].facts.followup => worker[x].facts.followup
    <3>1. ASSUME NEW step, MovesTo(w, step), NEW x \in Workers PROVE worker'[x].facts = worker[x].facts
      BY <3>1, <2>t, <2>w DEF MovesTo, TypeOK, WorkerState
    <3>2. ASSUME Stops(w), NEW x \in Workers
          PROVE  worker'[x].facts.followup => worker[x].facts.followup
      BY <3>2, <2>t DEF Stops, TypeOK, IdleWorker, NoFacts
    <3>3. QED BY <2>k, <3>1, <3>2
  <2>a. ASSUME UNCHANGED <<requests, answer, outbox>> PROVE Onward
    BY <2>a DEF Onward
  <2>b. ASSUME NEW n \in Questions, requests' = [requests EXCEPT ![n] = "APPLIED"],
               UNCHANGED <<answer, outbox>>
        PROVE  Onward
    BY <2>b, <2>t DEF Onward, TypeOK
  <2>1. ASSUME NEW n \in Questions, Answer(n) \/ AnswerAgain(n) \/ AnswerUnavailable(n)
        PROVE  MailInv'
    <3>1. FactsKept /\ UNCHANGED sent
      BY <2>1 DEF FactsKept, Answer, AnswerAgain, AnswerUnavailable
    <3>2. Onward
      <4>1. CASE Answer(n)
        BY <4>1, <2>t DEF Answer, Answerable, Onward, TypeOK
      <4>2. CASE AnswerAgain(n)
        BY <4>2, <2>a DEF AnswerAgain
      <4>3. CASE AnswerUnavailable(n)
        BY <4>3, <2>b DEF AnswerUnavailable
      <4>4. QED BY <2>1, <4>1, <4>2, <4>3
    <3>3. QED BY <3>1, <3>2, OnwardStep
  <2>2. ASSUME NEW w \in Workers, Take(w) \/ LoadRun(w) PROVE MailInv'
    <3>1. ASSUME NEW x \in Workers, worker'[x].facts.followup
          PROVE  facts.followup \/ worker[x].facts.followup
      <4>1. CASE Take(w)
        <5>1. \A v \in Versions : [IdleWorker EXCEPT !.pc = "claimed", !.version = v].facts = NoFacts
          BY DEF IdleWorker
        <5>2. x # w => worker'[x] = worker[x]
          BY <4>1, <2>t DEF Take, TypeOK
        <5>3. worker'[w].facts = NoFacts
          BY <4>1, <5>1, <2>t DEF Take, TypeOK
        <5>4. QED BY <3>1, <5>2, <5>3 DEF NoFacts
      <4>2. CASE LoadRun(w)
        BY <4>2, <2>t, <2>w, <3>1 DEF LoadRun, TypeOK, WorkerState
      <4>3. QED BY <2>2, <4>1, <4>2
    <3>2. UNCHANGED <<facts, requests, answer, outbox, sent>>
      BY <2>2 DEF Take, LoadRun
    <3>3. QED BY <3>1, <3>2, <2>a, OnwardStep DEF FactsKept
  <2>3. ASSUME NEW w \in Workers,
               \/ SkipResume(w) \/ Block(w) \/ Proceed(w) \/ BlockLate(w) \/ Finish(w)
               \/ FailSent(w) \/ Fail(w) \/ Crash(w)
        PROVE  MailInv'
    <3>1. (\E step : MovesTo(w, step)) \/ Stops(w)
      BY <2>3 DEF SkipResume, Block, Proceed, BlockLate, Finish, FailSent, Fail, Crash, JobFails
    <3>2. UNCHANGED <<facts, requests, answer, outbox, sent>>
      BY <2>3 DEF SkipResume, Block, Proceed, BlockLate, Finish, FailSent, Fail, Crash
    <3>3. QED BY <3>1, <3>2, <2>a, <2>k, OnwardStep DEF FactsKept
  <2>d. ASSUME NEW w \in Workers PROVE Drafted(w).followup = worker[w].facts.followup
    BY <2>w DEF Drafted, Facts
  <2>e. ASSUME NEW w \in Workers, NEW new, NEW status, CommitsEarly(w, new, status),
               new.followup = worker[w].facts.followup
        PROVE  FactsKept
    <3>1. facts' = new
      BY <2>e DEF CommitsEarly
    <3>2. worker'[w].facts = new /\ \A x \in Workers \ {w} : worker'[x] = worker[x]
      BY <2>e, <2>t, <2>w DEF CommitsEarly, TypeOK, WorkerState
    <3>3. QED BY <2>e, <3>1, <3>2 DEF FactsKept
  <2>4. ASSUME NEW w \in Workers, Prepare(w) \/ Decline(w) PROVE MailInv'
    <3>1. PICK new \in {Drafted(w), worker[w].facts}, status \in {"RUNNING", "WAITING_HUMAN"} :
            CommitsEarly(w, new, status)
      BY <2>4 DEF Prepare, Decline
    <3>2. UNCHANGED <<requests, answer, outbox, sent>>
      BY <2>4, <3>1 DEF Prepare, Decline, CommitsEarly
    <3>3. FactsKept
      BY <3>1, <2>d, <2>e
    <3>4. QED BY <3>2, <3>3, <2>a, OnwardStep
  <2>s. ASSUME NEW w \in Workers, Sends(w)
        PROVE  \A k \in Keys : outbox[k] # "ABSENT" => outbox'[k] # "ABSENT"
    BY <2>s, <2>t, <2>w DEF Sends, TypeOK
  <2>5. ASSUME NEW w \in Workers, SendPart(w) PROVE MailInv'
    <3>1. /\ worker[w].facts.followup /\ Sends(w) /\ At(w, "drafting")
          /\ CommitsEarly(w, Drafted(w), "WAITING_HUMAN") /\ UNCHANGED <<requests, answer>>
      BY <2>5 DEF SendPart, CommitsEarly
    <3>2. Onward
      BY <3>1, <2>s DEF Onward
    <3>3. FactsKept
      BY <3>1, <2>d, <2>e
    <3>4. QED BY <3>1, <3>2, <3>3, SendStep
  <2>6. ASSUME NEW w \in Workers, SendAll(w) PROVE MailInv'
    <3>1. /\ Sends(w) /\ At(w, "drafting") /\ MovesTo(w, "finishing") /\ UNCHANGED answer
          /\ requests' = [requests EXCEPT ![RequestOf(w)] = "APPLIED"]
          /\ facts' = worker[w].facts
      BY <2>6 DEF SendAll
    <3>2. Onward
      BY <3>1, <2>s, <2>t DEF Onward, TypeOK
    <3>3. FactsKept
      BY <3>1, <2>k DEF FactsKept
    <3>4. QED BY <3>1, <3>2, <3>3, SendStep
  <2>7. ASSUME NEW w \in Workers, CommitPrepared(w) \/ CommitPartial(w) \/ CommitFound(w)
        PROVE  MailInv'
    <3>1. /\ MovesTo(w, "finishing") /\ UNCHANGED <<answer, outbox, sent>>
          /\ facts' = facts \/ facts' = worker[w].facts
      BY <2>7 DEF CommitPrepared, CommitPartial, CommitFound
    <3>2. FactsKept
      BY <3>1, <2>k DEF FactsKept
    <3>3. Onward
      <4>1. CASE CommitPartial(w)
        <5> DEFINE asked == [requests EXCEPT ![RequestOf(w)] = "APPLIED"]
        <5>1. /\ asked \in [Questions -> AssistanceStatus] /\ requests' \in Asked(asked)
              /\ \A n \in Questions : asked[n] = IF n = RequestOf(w) THEN "APPLIED" ELSE requests[n]
          BY <4>1, <2>t, <2>w DEF CommitPartial, TypeOK, AssistanceStatus
        <5> HIDE DEF asked
        <5>2. \A n \in Questions : requests'[n] = asked[n] \/ asked[n] = "ABSENT"
          BY <5>1, AskedTypes
        <5>3. QED BY <3>1, <5>1, <5>2 DEF Onward
      <4>2. CASE CommitPrepared(w) \/ CommitFound(w)
        BY <4>2, <3>1, <2>b, <2>w DEF CommitPrepared, CommitFound
      <4>3. QED BY <2>7, <4>1, <4>2
    <3>4. QED BY <3>1, <3>2, <3>3, OnwardStep
  <2>8. ASSUME NEW c \in Clerks, Begins(c) \/ Hold(c) \/ Refused(c) PROVE MailInv'
    <3>1. UNCHANGED <<facts, worker, requests, answer, outbox, sent>>
      BY <2>8, BeginsActs DEF Acts, Hold, Refused
    <3>2. QED BY <3>1, <2>a, OnwardStep DEF FactsKept
  <2>9. ASSUME NEW c \in Clerks, Decide(c) PROVE MailInv'
    <3>1. UNCHANGED <<facts, worker, answer, outbox, sent>>
      BY <2>9 DEF Decide
    <3>2. Onward
      BY <2>9, <3>1 DEF Decide, Finalizes, Onward, Live
    <3>3. QED BY <3>1, <3>2, OnwardStep DEF FactsKept
  <2>10. ASSUME NEW c \in Clerks, PreviewFinds(c) \/ PreviewAsks(c) PROVE MailInv'
    <3>1. ~facts'.followup /\ UNCHANGED <<worker, answer, outbox, sent>>
      BY <2>10 DEF PreviewFinds, PreviewAsks, Previews
    <3>2. requests' \in {requests} \cup Asked(requests)
      BY <2>10 DEF PreviewFinds, PreviewAsks
    <3>3. \A n \in Questions : requests'[n] = requests[n] \/ requests[n] = "ABSENT"
      BY <3>2, <2>t, AskedTypes DEF TypeOK
    <3>4. Onward
      BY <3>1, <3>3 DEF Onward
    <3>5. QED BY <3>1, <3>4, OnwardStep DEF FactsKept
  <2>11. ASSUME NEW k \in Keys, CancelMail(k) PROVE MailInv'
    <3>1. UNCHANGED <<facts, worker, requests, answer, sent>>
      BY <2>11 DEF CancelMail
    <3>2. Onward
      BY <2>11, <2>t DEF CancelMail, Onward, TypeOK
    <3>3. QED BY <3>1, <3>2, OnwardStep DEF FactsKept
  <2>12. CASE UNCHANGED vars
    <3>1. UNCHANGED <<facts, worker, requests, answer, outbox, sent>>
      BY <2>12 DEF vars
    <3>2. QED BY <3>1, <2>a, OnwardStep DEF FactsKept
  <2>13. CASE Quiet
    BY <2>12, <2>13 DEF Quiet
  <2>14. QED
    BY <2>1, <2>2, <2>3, <2>4, <2>5, <2>6, <2>7, <2>8, <2>9, <2>10, <2>11, <2>12, <2>13
    DEF Next, WorkerStep, ClerkStep, Begins
<1>3. QED BY <1>1, <1>2, TypeInvariant, LockInvariant, PTL DEF Spec

\* However often the job of an answer runs, whatever crashes between, and though a
\* preview changes the facts that choose the key, the agent puts one message into the
\* outbox for it.
THEOREM OneMessage == Spec => []OneMessagePerAnswer
<1>1. MailInv => OneMessagePerAnswer
  BY DEF MailInv, SentSettled, OneMessagePerAnswer
<1>2. QED BY <1>1, MailInvariant, PTL

-----------------------------------------------------------------------------
(* The answers and their jobs.                                             *)

Late(w) == At(w, "committed")
Stands(n) == Live(requests[n])

\* A job is worked on by one worker, and there is none of a version to come.
JobsHeld ==
    /\ \A w \in Workers : ~At(w, "idle") => jobs[JobOf(w)].status = "RUNNING"
    /\ \A w, x \in Workers : ~At(w, "idle") /\ ~At(x, "idle") /\ JobOf(x) = JobOf(w) => x = w
    /\ \A v \in Versions : v > run.version => jobs[v].status = "ABSENT"

\* One question is asked at a time, and an answer belongs to the current version.
OneQuestion == \A m, n \in Questions : Stands(m) /\ Stands(n) => m = n
AnswerHasJob == \A n \in Questions : requests[n] = "ANSWERED" => JobOn(n)

\* While a worker is between its two commits nobody can answer: the version stays.
LateIsCurrent ==
    \A w \in Workers : Late(w) =>
        /\ JobOf(w) = run.version /\ run.status # "BLOCKED"
        /\ \A n \in Questions : requests[n] # "OPEN"

\* A completed run has no answer left, and a worker leaves none behind.
CompletedIsSettled == run.status = "COMPLETED" => \A n \in Questions : requests[n] # "ANSWERED"
FinishedIsSettled ==
    \A w \in Workers : At(w, "finishing") /\ JobOf(w) = run.version =>
        \A n \in Questions : Processed(n)

\* NoLostAnswer, before any preview has asked.
AnswerStands ==
    \A n \in Questions : Processed(n) \/
        (JobOn(n) /\ jobs[run.version].status \in {"PENDING", "RUNNING", "FAILED"})

JobInv ==
    /\ JobsHeld /\ OneQuestion /\ AnswerHasJob /\ LateIsCurrent
    /\ CompletedIsSettled /\ FinishedIsSettled /\ AnswerStands

\* A step of the worker of the current version that keeps its job and asks and answers
\* nothing.
LEMMA JobKept ==
    ASSUME TypeInv, JobInv, NEW w \in Workers, ~At(w, "idle"), ~At(w, "idle")', JobOf(w)' = JobOf(w),
           \A x \in Workers \ {w} : worker'[x] = worker[x],
           UNCHANGED jobs, run'.version = run.version, JobOf(w) = run.version,
           \A n \in Questions : requests'[n] = "ANSWERED" => requests[n] = "ANSWERED",
           OneQuestion',
           Late(w)' => run'.status # "BLOCKED" /\ \A n \in Questions : requests'[n] # "OPEN",
           CompletedIsSettled',
           At(w, "finishing")' => \A n \in Questions : Processed(n)'
    PROVE  JobInv'
<1>1. /\ JobOf(w) \in Versions /\ jobs[JobOf(w)].status = "RUNNING"
  BY WorkerGoes DEF TypeInv, JobInv, JobsHeld
<1>2. JobsHeld'
  BY DEF JobInv, JobsHeld
<1>3. \A x \in Workers \ {w} : At(x, "idle") \/ JobOf(x) # run.version
  BY DEF JobInv, JobsHeld
<1>4. AnswerHasJob'
  BY DEF JobInv, AnswerHasJob, JobOn
<1>5. LateIsCurrent'
  <2> SUFFICES ASSUME NEW x \in Workers, Late(x)' PROVE
        /\ (JobOf(x) = run.version)' /\ run'.status # "BLOCKED"
        /\ \A n \in Questions : requests'[n] # "OPEN"
    BY DEF LateIsCurrent
  <2>1. CASE x = w
    BY <2>1
  <2>2. CASE x # w
    <3>1. Late(x) /\ ~At(x, "idle")
      BY <2>2 DEF Late
    <3>2. QED BY <1>3, <2>2, <3>1 DEF JobInv, LateIsCurrent
  <2>3. QED BY <2>1, <2>2
<1>6. FinishedIsSettled'
  <2> SUFFICES ASSUME NEW x \in Workers, At(x, "finishing")', (JobOf(x) = run.version)',
                      NEW n \in Questions
               PROVE  Processed(n)'
    BY DEF FinishedIsSettled
  <2>1. x = w
    BY <1>3
  <2>2. QED BY <2>1
<1>7. AnswerStands'
  BY <1>1, <1>4 DEF AnswerStands, AnswerHasJob, Processed
<1>8. QED BY <1>2, <1>4, <1>5, <1>6, <1>7 DEF JobInv

\* A worker puts its job down.
LEMMA JobLeft ==
    ASSUME TypeInv, JobInv, NEW w \in Workers, ~At(w, "idle"), Stops(w),
           NEW job \in ResumeJob, jobs' = [jobs EXCEPT ![JobOf(w)] = job],
           job.request = RequestOf(w), UNCHANGED <<run, requests>>,
           \/ job.status \in {"PENDING", "FAILED"}
           \/ job.status = "DONE" /\ (JobOf(w) = run.version => \A n \in Questions : Processed(n))
    PROVE  JobInv'
<1>1. /\ JobOf(w) \in Versions /\ jobs[JobOf(w)].status = "RUNNING" /\ run.version \in Versions
  BY WorkerGoes DEF TypeInv, TypeOK, AgentRun, JobInv, JobsHeld
<1>2. /\ worker'[w].pc = "idle" /\ \A x \in Workers \ {w} : worker'[x] = worker[x]
      /\ jobs'[JobOf(w)] = job /\ \A v \in Versions \ {JobOf(w)} : jobs'[v] = jobs[v]
  BY <1>1 DEF Stops, IdleWorker, TypeInv, TypeOK
<1>3. ASSUME NEW x \in Workers \ {w}, ~At(x, "idle")
      PROVE  jobs'[JobOf(x)] = jobs[JobOf(x)]
  <2>1. JobOf(x) \in Versions \ {JobOf(w)}
    BY <1>3, WorkerGoes DEF TypeInv, JobInv, JobsHeld
  <2>2. QED BY <1>2, <2>1
<1>4. JobsHeld'
  <2>1. \A x \in Workers : ~At(x, "idle")' => (jobs[JobOf(x)].status = "RUNNING")'
    BY <1>2, <1>3 DEF JobInv, JobsHeld
  <2>2. \A x, y \in Workers : ~At(x, "idle")' /\ ~At(y, "idle")' /\ JobOf(y)' = JobOf(x)' => y = x
    BY <1>2 DEF JobInv, JobsHeld
  <2>3. \A v \in Versions : v > run'.version => jobs'[v].status = "ABSENT"
    BY <1>1, <1>2 DEF JobInv, JobsHeld
  <2>4. QED BY <2>1, <2>2, <2>3 DEF JobsHeld
<1>5. OneQuestion' /\ CompletedIsSettled'
  BY DEF JobInv, OneQuestion, Stands, Live, CompletedIsSettled
<1>6. AnswerHasJob'
  <2>1. jobs'[run.version].request = jobs[run.version].request
    BY <1>1, <1>2
  <2>2. QED BY <2>1 DEF JobInv, AnswerHasJob, JobOn
<1>7. LateIsCurrent'
  BY <1>2 DEF JobInv, LateIsCurrent, Late
<1>8. FinishedIsSettled'
  BY <1>2 DEF JobInv, FinishedIsSettled, Processed
<1>9. AnswerStands'
  <2>1. CASE JobOf(w) = run.version
    BY <1>2, <1>6, <2>1 DEF AnswerStands, AnswerHasJob, Processed
  <2>2. CASE JobOf(w) # run.version
    <3>1. jobs'[run.version] = jobs[run.version]
      BY <1>1, <1>2, <2>2
    <3>2. QED BY <3>1 DEF JobInv, AnswerStands, Processed, JobOn
  <2>3. QED BY <2>1, <2>2
<1>10. QED BY <1>4, <1>5, <1>6, <1>7, <1>8, <1>9 DEF JobInv

\* A human ends what is asked, and no job is touched.
LEMMA RunDecided ==
    ASSUME JobInv, UNCHANGED <<worker, jobs>>, run'.version = run.version,
           \A n \in Questions : Stands(n)' => Stands(n),
           \/ UNCHANGED <<run, requests>>
           \/ run'.status # "BLOCKED" /\ (\A n \in Questions : requests'[n] # "ANSWERED")
              /\ \A n \in Questions : requests'[n] = "OPEN" => requests[n] = "OPEN"
    PROVE  JobInv'
<1>1. JobsHeld' /\ OneQuestion'
  BY DEF JobInv, JobsHeld, OneQuestion
<1>2. CASE UNCHANGED <<run, requests>>
  BY <1>1, <1>2 DEF JobInv, AnswerHasJob, JobOn, LateIsCurrent, Late, CompletedIsSettled,
     FinishedIsSettled, Processed, AnswerStands
<1>3. CASE /\ run'.status # "BLOCKED" /\ \A n \in Questions : requests'[n] # "ANSWERED"
           /\ \A n \in Questions : requests'[n] = "OPEN" => requests[n] = "OPEN"
  <2>1. AnswerHasJob' /\ CompletedIsSettled' /\ FinishedIsSettled' /\ AnswerStands'
    BY <1>3 DEF AnswerHasJob, CompletedIsSettled, FinishedIsSettled, AnswerStands, Processed
  <2>2. LateIsCurrent'
    BY <1>3 DEF JobInv, LateIsCurrent, Late
  <2>3. QED BY <1>1, <2>1, <2>2 DEF JobInv
<1>4. QED BY <1>2, <1>3

LEMMA AnswerQueued ==
    ASSUME TypeInv, JobInv, NEW n \in Questions, QueueResume(n), UNCHANGED worker,
           requests[n] = "OPEN" \/ (requests[n] = "ANSWERED" /\ run.status = "BLOCKED"),
           requests' = [requests EXCEPT ![n] = "ANSWERED"]
    PROVE  JobInv'
<1> DEFINE v == run.version + 1
<1>1. /\ v \in Versions /\ run.version \in Versions /\ run'.version = v
      /\ run'.status = "RESUME_QUEUED" /\ v > run.version
      /\ jobs'[v].status = "PENDING" /\ jobs'[v].request = n
      /\ \A u \in Versions \ {v} : jobs'[u] = jobs[u]
  BY HandoffAssumption DEF QueueResume, TypeInv, TypeOK, AgentRun, Versions
<1>2. jobs[v].status = "ABSENT"
  BY <1>1 DEF JobInv, JobsHeld
<1>3. ASSUME NEW w \in Workers, ~At(w, "idle") PROVE JobOf(w) \in Versions \ {v}
  BY <1>2, <1>3, WorkerGoes DEF TypeInv, JobInv, JobsHeld
<1>4. JobsHeld'
  <2>1. \A w \in Workers : ~At(w, "idle")' => (jobs[JobOf(w)].status = "RUNNING")'
    BY <1>1, <1>3 DEF JobInv, JobsHeld
  <2>2. \A w, x \in Workers : ~At(w, "idle")' /\ ~At(x, "idle")' /\ JobOf(x)' = JobOf(w)' => x = w
    BY DEF JobInv, JobsHeld
  <2>3. \A u \in Versions : u > run'.version => jobs'[u].status = "ABSENT"
    BY <1>1 DEF JobInv, JobsHeld, Versions
  <2>4. QED BY <2>1, <2>2, <2>3 DEF JobsHeld
<1>5. \A m \in Questions : /\ Stands(m) => m = n
                           /\ requests'[m] = IF m = n THEN "ANSWERED" ELSE requests[m]
  BY DEF JobInv, OneQuestion, Stands, Live, TypeInv, TypeOK
<1>6. OneQuestion' /\ AnswerHasJob' /\ AnswerStands' /\ CompletedIsSettled'
  <2>1. \A m \in Questions : Stands(m)' => m = n
    BY <1>5 DEF Stands, Live
  <2>2. JobOn(n)' /\ (jobs[run.version].status = "PENDING")'
    BY <1>1 DEF JobOn
  <2>3. \A m \in Questions : requests'[m] = "ANSWERED" => m = n
    BY <1>5 DEF Stands, Live
  <2>4. QED
    BY <1>1, <2>1, <2>2, <2>3 DEF OneQuestion, AnswerHasJob, AnswerStands, Processed, CompletedIsSettled
<1>7. LateIsCurrent'
  BY DEF JobInv, LateIsCurrent, Late
<1>8. FinishedIsSettled'
  BY <1>1, <1>3 DEF FinishedIsSettled
<1>9. QED BY <1>4, <1>6, <1>7, <1>8 DEF JobInv

\* While an answer stands and the run is not blocked, the job of the run's version is
\* the answer's and is there to be run, is being run, or has failed: whatever crashes,
\* repeats and decisions come between, the answer is not lost.
THEOREM AnswerKept == Spec => []NoLostAnswer
<1>1. Init => JobInv /\ ~previewed
  <2> SUFFICES ASSUME Init PROVE JobInv /\ ~previewed
    OBVIOUS
  <2>1. OneQuestion /\ AnswerHasJob /\ CompletedIsSettled /\ AnswerStands
    BY DEF Init, OneQuestion, Stands, Live, AnswerHasJob, CompletedIsSettled, AnswerStands, Processed
  <2>2. JobsHeld /\ LateIsCurrent /\ FinishedIsSettled
    BY DEF Init, JobsHeld, LateIsCurrent, Late, FinishedIsSettled, IdleWorker, NoJob
  <2>3. QED BY <2>1, <2>2 DEF JobInv, Init
<1>2. TypeInv /\ LockInv /\ JobInv /\ ~previewed' /\ [Next]_vars => JobInv'
  <2> SUFFICES ASSUME TypeInv, LockInv, JobInv, ~previewed', [Next]_vars PROVE JobInv'
    OBVIOUS
  <2>t. TypeOK
    BY DEF TypeInv
  <2>v. ASSUME NEW status, RunIs(status) PROVE run'.version = run.version /\ run'.status = status
    BY <2>v, <2>t DEF TypeOK, AgentRun
  <2>w. ASSUME NEW w \in Workers
        PROVE  /\ JobOf(w) \in Versions /\ jobs[JobOf(w)] \in ResumeJob /\ RequestOf(w) \in Questions
               /\ \A step : MovesTo(w, step) =>
                     /\ worker'[w].pc = step /\ JobOf(w)' = JobOf(w)
                     /\ \A x \in Workers \ {w} : worker'[x] = worker[x]
    BY <2>t, WorkerGoes DEF MovesTo, TypeOK, WorkerState
  <2>l. ASSUME NEW w \in Workers, Locking(w)
        PROVE  JobOf(w) = run.version /\ (At(w, "drafting") => requests[RequestOf(w)] = "ANSWERED")
    BY <2>l DEF LockInv, HeldIsCurrent, Current, Ready
  <2>o. ASSUME NEW w \in Workers, JobOf(w) = run.version, NEW n \in Questions, requests[n] = "ANSWERED"
        PROVE  n = RequestOf(w)
    BY <2>o DEF JobInv, AnswerHasJob, JobOn
  <2>1. ASSUME NEW n \in Questions, Answer(n) \/ AnswerAgain(n) PROVE JobInv'
    <3>1. CASE Answer(n)
      BY <3>1, AnswerQueued DEF Answer, Answerable
    <3>2. CASE AnswerAgain(n)
      <4>1. requests' = [requests EXCEPT ![n] = "ANSWERED"]
        BY <3>2, <2>t DEF AnswerAgain, TypeOK
      <4>2. QED BY <3>2, <4>1, AnswerQueued DEF AnswerAgain
    <3>3. QED BY <2>1, <3>1, <3>2
  <2>2. ASSUME NEW n \in Questions, AnswerUnavailable(n) PROVE JobInv'
    <3>1. /\ run'.version = run.version /\ run'.status # "BLOCKED" /\ UNCHANGED <<worker, jobs>>
          /\ requests[n] = "OPEN"
      BY <2>2, <2>v DEF AnswerUnavailable, Answerable
    <3>2. \A m \in Questions : requests'[m] = IF m = n THEN "APPLIED" ELSE requests[m]
      BY <2>2, <2>t DEF AnswerUnavailable, TypeOK
    <3>3. \A m \in Questions : requests'[m] # "ANSWERED"
      BY <3>1, <3>2 DEF JobInv, OneQuestion, Stands, Live
    <3>4. \A m \in Questions : /\ Stands(m)' => Stands(m)
                               /\ requests'[m] = "OPEN" => requests[m] = "OPEN"
      BY <3>2 DEF Stands, Live
    <3>5. QED BY <3>1, <3>3, <3>4, RunDecided
  <2>3. ASSUME NEW w \in Workers, Take(w) PROVE JobInv'
    <3>1. PICK v \in Versions :
            /\ jobs[v].status = "PENDING"
            /\ jobs' = [jobs EXCEPT ![v].status = "RUNNING", ![v].attempts = @ + 1]
            /\ worker' = [worker EXCEPT ![w] = [IdleWorker EXCEPT !.pc = "claimed", !.version = v]]
      BY <2>3 DEF Take
    <3>2. /\ worker'[w].pc = "claimed" /\ worker'[w].version = v
          /\ \A x \in Workers \ {w} : worker'[x] = worker[x]
          /\ jobs'[v].status = "RUNNING" /\ \A u \in Versions \ {v} : jobs'[u] = jobs[u]
          /\ \A u \in Versions : jobs'[u].request = jobs[u].request
      BY <2>t, <3>1 DEF TypeOK, ResumeJob, IdleWorker
    <3>3. ASSUME NEW x \in Workers \ {w}, ~At(x, "idle") PROVE JobOf(x) \in Versions \ {v}
      BY <3>1, <3>3, <2>w DEF JobInv, JobsHeld
    <3>4. UNCHANGED <<run, requests>> /\ run.version \in Versions
      BY <2>3, <2>t DEF Take, TypeOK, AgentRun
    <3>5. JobsHeld'
      <4>1. \A x \in Workers : ~At(x, "idle")' => (jobs[JobOf(x)].status = "RUNNING")'
        BY <3>2, <3>3 DEF JobInv, JobsHeld
      <4>2. \A x, y \in Workers : ~At(x, "idle")' /\ ~At(y, "idle")' /\ JobOf(y)' = JobOf(x)' => y = x
        BY <3>2, <3>3 DEF JobInv, JobsHeld
      <4>3. ASSUME NEW u \in Versions, u > run.version PROVE jobs'[u].status = "ABSENT"
        <5>1. jobs[u].status = "ABSENT"
          BY <4>3 DEF JobInv, JobsHeld
        <5>2. u # v
          BY <5>1, <3>1
        <5>3. QED BY <5>1, <5>2, <3>2
      <4>4. QED BY <4>1, <4>2, <4>3, <3>4 DEF JobsHeld
    <3>6. LateIsCurrent' /\ FinishedIsSettled'
      BY <3>2, <3>4 DEF JobInv, LateIsCurrent, Late, FinishedIsSettled, Processed
    <3>7. OneQuestion' /\ CompletedIsSettled'
      BY <3>4 DEF JobInv, OneQuestion, Stands, Live, CompletedIsSettled
    <3>8. AnswerHasJob' /\ AnswerStands'
      <4>1. jobs'[run.version].request = jobs[run.version].request
        BY <3>2, <3>4
      <4>2. jobs'[run.version].status \in {"RUNNING", jobs[run.version].status}
        BY <3>2, <3>4
      <4>3. QED BY <3>4, <4>1, <4>2 DEF JobInv, AnswerHasJob, AnswerStands, JobOn, Processed
    <3>9. QED BY <3>5, <3>6, <3>7, <3>8 DEF JobInv
  <2>4. ASSUME NEW w \in Workers, SkipResume(w) \/ Finish(w) PROVE JobInv'
    <3> DEFINE job == [jobs[JobOf(w)] EXCEPT !.status = "DONE"]
    <3>1. job \in ResumeJob /\ job.status = "DONE" /\ job.request = RequestOf(w)
      <4>1. job \in ResumeJob
        BY <2>w, JobTypes DEF JobStatus
      <4>2. QED BY <2>w, <4>1 DEF ResumeJob
    <3>2. /\ ~At(w, "idle") /\ Stops(w) /\ UNCHANGED <<run, requests>>
          /\ jobs' = [jobs EXCEPT ![JobOf(w)] = job]
      BY <2>4, <2>t DEF SkipResume, Finish, TypeOK
    <3>3. JobOf(w) = run.version => \A n \in Questions : Processed(n)
      BY <2>4 DEF SkipResume, Finish, Superseded, Processed, JobInv, CompletedIsSettled,
         FinishedIsSettled
    <3>4. QED BY <3>1, <3>2, <3>3, JobLeft
  <2>5. ASSUME NEW w \in Workers, FailSent(w) \/ Fail(w) PROVE JobInv'
    <3> DEFINE job == AfterFailure(jobs[JobOf(w)])
    <3>1. job \in ResumeJob /\ job.status \in {"PENDING", "FAILED"} /\ job.request = RequestOf(w)
      BY <2>w, JobTypes
    <3>2. /\ ~At(w, "idle") /\ Stops(w) /\ UNCHANGED <<run, requests>>
          /\ jobs' = [jobs EXCEPT ![JobOf(w)] = job]
      BY <2>5 DEF FailSent, Fail, JobFails
    <3>3. QED BY <3>1, <3>2, JobLeft
  <2>6. ASSUME NEW w \in Workers, Crash(w) PROVE JobInv'
    <3> DEFINE job == [jobs[JobOf(w)] EXCEPT !.status = "PENDING"]
    <3>1. job \in ResumeJob /\ job.status = "PENDING" /\ job.request = RequestOf(w)
      <4>1. job \in ResumeJob
        BY <2>w, JobTypes DEF JobStatus
      <4>2. QED BY <2>w, <4>1 DEF ResumeJob
    <3>2. /\ ~At(w, "idle") /\ Stops(w) /\ UNCHANGED <<run, requests>>
          /\ jobs' = [jobs EXCEPT ![JobOf(w)] = job]
      BY <2>6, <2>t DEF Crash, TypeOK
    <3>3. QED BY <3>1, <3>2, JobLeft
  <2>7. ASSUME NEW w \in Workers, LoadRun(w) \/ Proceed(w) PROVE JobInv'
    <3>1. /\ ~At(w, "idle") /\ ~At(w, "idle")' /\ ~At(w, "finishing")' /\ ~Late(w)'
          /\ JobOf(w)' = JobOf(w) /\ \A x \in Workers \ {w} : worker'[x] = worker[x]
      BY <2>7, <2>t DEF LoadRun, Proceed, MovesTo, TypeOK, WorkerState, Late
    <3>2. JobOf(w) = run.version
      BY <2>7, <2>l DEF LoadRun, Superseded, Proceed, Locking
    <3>3. UNCHANGED <<run, requests, jobs>>
      BY <2>7 DEF LoadRun, Proceed
    <3>4. OneQuestion' /\ CompletedIsSettled'
      BY <3>3 DEF JobInv, OneQuestion, Stands, Live, CompletedIsSettled
    <3>5. QED BY <3>1, <3>2, <3>3, <3>4, JobKept
  <2>8. ASSUME NEW w \in Workers, NEW new, NEW status \in {"RUNNING", "WAITING_HUMAN"},
               CommitsEarly(w, new, status)
        PROVE  JobInv'
    <3>1. /\ ~At(w, "idle") /\ ~At(w, "idle")' /\ ~At(w, "finishing")'
          /\ JobOf(w)' = JobOf(w) /\ \A x \in Workers \ {w} : worker'[x] = worker[x]
      BY <2>8, <2>t DEF CommitsEarly, TypeOK, WorkerState
    <3>2. JobOf(w) = run.version /\ requests[RequestOf(w)] = "ANSWERED"
      BY <2>8, <2>l DEF CommitsEarly, Locking
    <3>3. run'.version = run.version /\ run'.status = status /\ UNCHANGED <<requests, jobs>>
      BY <2>8, <2>v DEF CommitsEarly
    <3>4. \A n \in Questions : requests[n] # "OPEN"
      BY <3>2, <2>w DEF JobInv, OneQuestion, Stands, Live
    <3>5. OneQuestion' /\ CompletedIsSettled'
      BY <3>3 DEF JobInv, OneQuestion, Stands, Live, CompletedIsSettled
    <3>6. QED BY <3>1, <3>2, <3>3, <3>4, <3>5, JobKept
  <2>f. ASSUME NEW w \in Workers, ~At(w, "idle"), MovesTo(w, "finishing"), UNCHANGED jobs,
               run'.version = run.version, JobOf(w) = run.version,
               \A n \in Questions : requests'[n] = "ANSWERED" => requests[n] = "ANSWERED",
               OneQuestion',
               run'.status = "BLOCKED" \/ \A n \in Questions : requests'[n] # "ANSWERED"
        PROVE  JobInv'
    <3>1. /\ ~At(w, "idle")' /\ ~Late(w)' /\ JobOf(w)' = JobOf(w)
          /\ \A x \in Workers \ {w} : worker'[x] = worker[x]
      BY <2>f, <2>w DEF Late
    <3>2. CompletedIsSettled' /\ \A n \in Questions : Processed(n)'
      BY <2>f DEF CompletedIsSettled, Processed
    <3>3. QED BY <2>f, <3>1, <3>2, JobKept
  <2>9. ASSUME NEW w \in Workers, Block(w) \/ BlockLate(w) PROVE JobInv'
    <3>1. ~At(w, "idle") /\ MovesTo(w, "finishing") /\ UNCHANGED <<jobs, requests>>
      BY <2>9 DEF Block, BlockLate
    <3>2. run'.version = run.version /\ run'.status = "BLOCKED"
      BY <2>9, <2>v DEF Block, BlockLate
    <3>3. JobOf(w) = run.version
      BY <2>9, <2>l DEF Block, BlockLate, Locking, JobInv, LateIsCurrent, Late
    <3>4. OneQuestion'
      BY <3>1 DEF JobInv, OneQuestion, Stands, Live
    <3>5. QED BY <2>f, <3>1, <3>2, <3>3, <3>4
  <2>10. ASSUME NEW w \in Workers, SendAll(w) \/ CommitPrepared(w) \/ CommitFound(w) PROVE JobInv'
    <3>1. ~At(w, "idle") /\ MovesTo(w, "finishing") /\ UNCHANGED jobs
      BY <2>10 DEF SendAll, CommitPrepared, CommitFound, Found
    <3>2. run'.version = run.version
      BY <2>10, <2>v DEF SendAll, CommitPrepared, CommitFound, RunWaits
    <3>3. JobOf(w) = run.version
      BY <2>10, <2>l DEF SendAll, CommitPrepared, CommitFound, Found, Locking, JobInv, LateIsCurrent,
         Late
    <3>4. \A n \in Questions : requests'[n] = IF n = RequestOf(w) THEN "APPLIED" ELSE requests[n]
      BY <2>10, <2>t DEF SendAll, CommitPrepared, CommitFound, TypeOK
    <3>5. OneQuestion' /\ \A n \in Questions : requests'[n] # "ANSWERED"
      BY <3>3, <3>4, <2>o DEF JobInv, OneQuestion, Stands, Live
    <3>6. QED BY <2>f, <3>1, <3>2, <3>3, <3>5
  <2>11. ASSUME NEW w \in Workers, CommitPartial(w) PROVE JobInv'
    <3> DEFINE asked == [requests EXCEPT ![RequestOf(w)] = "APPLIED"]
    <3>1. ~At(w, "idle") /\ MovesTo(w, "finishing") /\ UNCHANGED jobs
      BY <2>11 DEF CommitPartial, Found
    <3>2. run'.version = run.version
      BY <2>11, <2>v DEF CommitPartial, RunWaits
    <3>3. JobOf(w) = run.version /\ \A n \in Questions : requests[n] # "OPEN"
      BY <2>11 DEF CommitPartial, Found, JobInv, LateIsCurrent, Late
    <3>4. /\ asked \in [Questions -> AssistanceStatus]
          /\ \A n \in Questions : asked[n] = IF n = RequestOf(w) THEN "APPLIED" ELSE requests[n]
      BY <2>t, <2>w DEF TypeOK, AssistanceStatus
    <3>5. requests' \in Asked(asked)
      BY <2>11 DEF CommitPartial
    <3> HIDE DEF asked
    <3>6. \A n \in Questions : asked[n] # "ANSWERED" /\ asked[n] # "OPEN"
      BY <3>3, <3>4, <2>o
    <3>7. \A n \in Questions : requests'[n] # "ANSWERED"
      BY <3>4, <3>5, <3>6, AskedTypes
    <3>8. OneQuestion'
      <4>1. \/ requests' = asked
            \/ \E k \in Questions : requests' = [asked EXCEPT ![k] = "OPEN"]
        BY <3>4, <3>5, AskedTypes
      <4>2. \A m, n \in Questions : requests'[m] = "OPEN" /\ requests'[n] = "OPEN" => m = n
        BY <4>1, <3>4, <3>6
      <4>3. QED BY <4>2, <3>7 DEF OneQuestion, Stands, Live
    <3>9. QED BY <2>f, <3>1, <3>2, <3>3, <3>4, <3>5, <3>7, <3>8
  <2>12. ASSUME NEW c \in Clerks, Begins(c) \/ Hold(c) \/ PreviewFinds(c) \/ Refused(c)
         PROVE  JobInv'
    <3>1. UNCHANGED <<worker, jobs, run, requests>>
      BY <2>12, BeginsActs DEF Acts, Hold, PreviewFinds, Previews, Refused
    <3>2. QED BY <3>1, RunDecided DEF Stands, Live
  <2>13. ASSUME NEW c \in Clerks, Decide(c) PROVE JobInv'
    <3>1. clerk[c].outcome.run \in {"COMPLETED", "CANCELLED", "KEPT"}
      BY <2>t DEF TypeOK, ClerkState, Outcome
    <3>2. UNCHANGED <<worker, jobs>>
      BY <2>13 DEF Decide
    <3>3. CASE UNCHANGED <<run, requests>>
      BY <3>2, <3>3, RunDecided DEF Stands, Live
    <3>4. CASE /\ clerk[c].outcome.run # "KEPT" /\ RunIs(clerk[c].outcome.run)
               /\ requests' = [n \in Questions |->
                     IF Live(requests[n]) THEN "CANCELLED" ELSE requests[n]]
      <4>1. run'.version = run.version /\ run'.status # "BLOCKED"
        BY <3>1, <3>4, <2>v
      <4>2. \A n \in Questions : requests'[n] # "ANSWERED" /\ requests'[n] # "OPEN"
        BY <3>4 DEF Live
      <4>3. QED BY <3>2, <4>1, <4>2, RunDecided DEF Stands, Live
    <3>5. QED BY <2>13, <3>3, <3>4 DEF Decide, Finalizes
  <2>c. ASSUME NEW k \in Keys, CancelMail(k) PROVE JobInv'
    BY <2>c, RunDecided DEF CancelMail, Stands, Live
  <2>p. ASSUME NEW c \in Clerks, PreviewAsks(c) PROVE FALSE
    BY <2>p DEF PreviewAsks
  <2>14. CASE UNCHANGED vars
    BY <2>14, RunDecided DEF vars, Stands, Live
  <2>15. CASE Quiet
    BY <2>14, <2>15 DEF Quiet
  <2>16. QED
    BY <2>1, <2>2, <2>3, <2>4, <2>5, <2>6, <2>7, <2>8, <2>9, <2>10, <2>11, <2>12, <2>13,
       <2>c, <2>p, <2>14, <2>15 DEF Next, WorkerStep, ClerkStep, Begins, Prepare, Decline, SendPart
<1>3. previewed /\ [Next]_vars => previewed'
  <2>1. ASSUME NEW n \in Questions, Answer(n) \/ AnswerAgain(n) \/ AnswerUnavailable(n)
        PROVE  UNCHANGED previewed
    BY <2>1 DEF Answer, AnswerAgain, AnswerUnavailable
  <2>2. ASSUME NEW w \in Workers, WorkerStep(w) \/ Fail(w) \/ Crash(w) PROVE UNCHANGED previewed
    BY <2>2 DEF WorkerStep, Take, SkipResume, LoadRun, Block, Proceed, CommitsEarly, Prepare,
       Decline, SendPart, SendAll, CommitPrepared, CommitPartial, CommitFound, BlockLate, Finish,
       FailSent, Fail, Crash
  <2>3. ASSUME NEW c \in Clerks, Begins(c) \/ ClerkStep(c) PROVE UNCHANGED previewed \/ previewed'
    BY <2>3, BeginsActs DEF ClerkStep, Acts, Hold, Decide, PreviewFinds, PreviewAsks, Previews, Refused
  <2>4. QED BY <2>1, <2>2, <2>3 DEF Next, Begins, CancelMail, Quiet, vars
<1>4. previewed \/ JobInv => NoLostAnswer
  BY DEF JobInv, NoLostAnswer, AnswerStands
<1>5. (previewed \/ JobInv) /\ TypeInv /\ LockInv /\ [Next]_vars => (previewed \/ JobInv)'
  BY <1>2, <1>3
<1>6. Init => (previewed \/ JobInv)
  BY <1>1
<1>7. QED BY <1>4, <1>5, <1>6, TypeInvariant, LockInvariant, PTL DEF Spec
=============================================================================
