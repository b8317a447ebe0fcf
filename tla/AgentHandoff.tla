---------------------------- MODULE AgentHandoff ----------------------------
(***************************************************************************)
(* One handoff of an inbound email to a human, and the agent run that      *)
(* waits for it (app/handoffs).  A typed question goes to the human; the   *)
(* answer queues a job that resumes the run at that version.  Meanwhile a  *)
(* human may end the handoff in another way: reply, forward, resolve,      *)
(* reject, pause or take the case over; or ask for a draft preview, which  *)
(* analyses the email anew and may put another question.                   *)
(*                                                                         *)
(* The agent's message has a business key, unique in the outbox: one for   *)
(* the email, or, when some of its documents were sent before, one for the *)
(* query of the answer.                                                    *)
(*                                                                         *)
(* A resumed run holds the lock of its row, but create_handoff commits in  *)
(* the middle of it: from then on it works on what its session remembers.  *)
(* The job is run by one worker at a time (JobQueue!LeaseProtects).        *)
(***************************************************************************)
EXTENDS Integers, FiniteSets

CONSTANTS
    Workers,         \* worker processes
    Clerks,          \* API requests that may be open at a time
    Queries,         \* the products an answer may name
    First,           \* the business key of the email's first message
    MaxAttempts,     \* Job.max_attempts, 5 in the code
    MaxVersion,      \* bound: versions of the run
    MaxRequests,     \* bound: questions the run may ask
    MaxDecisions,    \* bound: requests other than answers, previews among them
    MaxFaults,       \* bound: crashes of a worker and exceptions of the handler
    None

ASSUME HandoffAssumption ==
    /\ Workers \cap Clerks = {} /\ None \notin Workers \cup Clerks
    /\ First \notin Queries
    /\ MaxAttempts \in Nat \ {0}
    /\ MaxVersion \in Nat \ {0} /\ MaxRequests \in Nat \ {0}
    /\ MaxDecisions \in Nat /\ MaxFaults \in Nat

VARIABLES
    handoff,       \* Handoff.status
    case,          \* SalesCase.status of its case
    facts,         \* what Handoff.extracted_facts say of messages and drafts
    run,           \* AgentRun.status and AgentRun.version
    requests,      \* AssistanceRequest.status of each question
    answer,        \* the query of each question's answer
    previewed,     \* history: a preview has put or found a question
    jobs,          \* the resume jobs, one for each version
    worker,        \* the step each worker is at, and what its session holds
    clerk,         \* the step each API request is at, and what its session holds
    runLock,       \* who holds the lock of the run's row
    handoffLock,   \* who holds the locks of the handoff's and the case's row
    outbox,        \* the agent's rows in the outbox, by business key
    sent,          \* history: messages the agent has put into it for each question
    approved,      \* messages a human has put into the outbox
    faults, decisions

locks == <<runLock, handoffLock>>
desk == <<handoff, case, facts>>
questions == <<requests, answer, previewed>>
mail == <<outbox, sent, approved>>
bounds == <<faults, decisions>>
vars == <<desk, run, questions, jobs, worker, clerk, locks, mail, bounds>>

-----------------------------------------------------------------------------
Versions == 1..MaxVersion
Questions == 1..MaxRequests
Actors == Workers \cup Clerks
Keys == Queries \cup {First}

HandoffStatus == {"OPEN", "RESOLVED"}
CaseStatus == {"ACTIVE", "WAITING_HUMAN", "HUMAN_TAKEOVER", "PAUSED"}
AgentRunStatus ==
    {"WAITING_HUMAN", "RESUME_QUEUED", "RUNNING", "BLOCKED", "COMPLETED", "CANCELLED"}
AssistanceStatus == {"ABSENT", "OPEN", "ANSWERED", "APPLIED", "CANCELLED"}
JobStatus == {"ABSENT", "PENDING", "RUNNING", "DONE", "FAILED"}
RowStatus == {"ABSENT", "LIVE", "CANCELLED"}

\* followup: partial_coa_outbox_id is there.  prepared: a draft that waits for approval.
Facts == [followup : BOOLEAN, prepared : BOOLEAN]

AgentRun == [status : AgentRunStatus, version : Versions]
ResumeJob == [status : JobStatus, attempts : 0..(MaxAttempts + MaxFaults), request : Questions]

NoJob == [status |-> "ABSENT", attempts |-> 0, request |-> 1]

\* resuming: the run is loaded and locked.  drafting: the handoff's and the case's
\* rows are written, too.  committed: create_handoff has committed.
WorkerSteps == {"idle", "claimed", "resuming", "drafting", "committed", "finishing"}

\* request, handoff, case, facts, run: as the session has loaded or written them.
WorkerState == [pc : WorkerSteps, version : Versions, request : AssistanceStatus,
                handoff : HandoffStatus, case : CaseStatus, facts : Facts,
                run : AgentRunStatus]

NoFacts == [followup |-> FALSE, prepared |-> FALSE]

IdleWorker == [pc |-> "idle", version |-> 1, request |-> "ABSENT", handoff |-> "OPEN",
               case |-> "ACTIVE", facts |-> NoFacts, run |-> "RUNNING"]

\* What each request makes of the handoff, the case and the run.
Decisions ==
    { [handoff |-> "RESOLVED", case |-> "ACTIVE",         run |-> "COMPLETED"],
      [handoff |-> "RESOLVED", case |-> "WAITING_HUMAN",  run |-> "CANCELLED"],
      [handoff |-> "OPEN",     case |-> "PAUSED",         run |-> "CANCELLED"],
      [handoff |-> "OPEN",     case |-> "HUMAN_TAKEOVER", run |-> "CANCELLED"],
      [handoff |-> "OPEN",     case |-> "ACTIVE",         run |-> "KEPT"] }

Reply(next) == [handoff |-> "RESOLVED", case |-> next, run |-> "COMPLETED"]
Forward == [handoff |-> "RESOLVED", case |-> "HUMAN_TAKEOVER", run |-> "CANCELLED"]

Outcome == [handoff : HandoffStatus, case : CaseStatus,
            run : {"COMPLETED", "CANCELLED", "KEPT"}]

Tasks == {"update", "reply", "forward", "preview"}

\* handoff, case, run: as loaded.  open: a question was there when a preview looked.
ClerkState == [pc : {"idle", "loaded", "holding"}, task : Tasks, outcome : Outcome,
               handoff : HandoffStatus, case : CaseStatus, run : AgentRunStatus,
               open : BOOLEAN]

IdleClerk == [pc |-> "idle", task |-> "update", outcome |-> Forward, handoff |-> "OPEN",
              case |-> "ACTIVE", run |-> "RUNNING", open |-> FALSE]

\* create_handoff has paused the case and asked the first question, perhaps after the
\* documents that were found have been sent.
Init ==
    /\ handoff = "OPEN"
    /\ case = "WAITING_HUMAN"
    /\ facts \in {NoFacts, [NoFacts EXCEPT !.followup = TRUE]}
    /\ outbox = [k \in Keys |-> IF k = First /\ facts.followup THEN "LIVE" ELSE "ABSENT"]
    /\ answer = [n \in Questions |-> First]
    /\ previewed = FALSE
    /\ run = [status |-> "WAITING_HUMAN", version |-> 1]
    /\ requests = [n \in Questions |-> IF n = 1 THEN "OPEN" ELSE "ABSENT"]
    /\ jobs = [v \in Versions |-> NoJob]
    /\ worker = [w \in Workers |-> IdleWorker]
    /\ clerk = [c \in Clerks |-> IdleClerk]
    /\ runLock = None /\ handoffLock = None
    /\ sent = [n \in Questions |-> 0]
    /\ approved = {}
    /\ faults = 0 /\ decisions = 0

-----------------------------------------------------------------------------
At(w, step) == worker[w].pc = step
JobOf(w) == worker[w].version
RequestOf(w) == jobs[JobOf(w)].request
MovesTo(w, step) == worker' = [worker EXCEPT ![w].pc = step]
Stops(w) == worker' = [worker EXCEPT ![w] = IdleWorker]

Without(lock, a) == IF lock = a THEN None ELSE lock
FreesLocks(a) ==
    /\ runLock' = Without(runLock, a)
    /\ handoffLock' = Without(handoffLock, a)

\* The session writes a column only if it was loaded with another value.
Written(loaded, new, current) == IF loaded = new THEN current ELSE new

RunIs(status) == run' = [run EXCEPT !.status = status]
RequestIs(n, status) == requests' = [requests EXCEPT ![n] = status]

-----------------------------------------------------------------------------
(* Answers: each is one transaction under the run's lock.                  *)

Ended == {"COMPLETED", "CANCELLED"}

\* Mutant: the job's key names the request and not the version.
QueueResumeOnce(n) ==
    /\ run.version < MaxVersion
    /\ run' = [status |-> "RESUME_QUEUED", version |-> run.version + 1]
    /\ jobs' = IF \E v \in Versions : jobs[v].status # "ABSENT" /\ jobs[v].request = n THEN jobs
               ELSE [jobs EXCEPT ![run.version + 1] =
                        [status |-> "PENDING", attempts |-> 0, request |-> n]]

\* A new version and its job, in one commit.
QueueResume(n) ==
    /\ run.version < MaxVersion
    /\ run' = [status |-> "RESUME_QUEUED", version |-> run.version + 1]
    /\ jobs' = [jobs EXCEPT ![run.version + 1] =
                   [status |-> "PENDING", attempts |-> 0, request |-> n]]

Answerable(n) == requests[n] = "OPEN" /\ handoff = "OPEN" /\ run.status \notin Ended

Answer(n) ==
    /\ runLock = None /\ handoffLock = None
    /\ Answerable(n)
    /\ RequestIs(n, "ANSWERED")
    /\ \E query \in Queries : answer' = [answer EXCEPT ![n] = query]
    /\ QueueResume(n)
    /\ UNCHANGED <<desk, previewed, worker, clerk, locks, mail, bounds>>

\* The same answer again, after the run was blocked.
AnswerAgain(n) ==
    /\ runLock = None
    /\ requests[n] = "ANSWERED" /\ run.status = "BLOCKED"
    /\ QueueResume(n)
    /\ UNCHANGED <<desk, questions, worker, clerk, locks, mail, bounds>>

\* NO_COA_AVAILABLE: the human will write the reply.
AnswerUnavailable(n) ==
    /\ runLock = None /\ handoffLock = None
    /\ Answerable(n)
    /\ RequestIs(n, "APPLIED")
    /\ RunIs("WAITING_HUMAN")
    /\ UNCHANGED <<desk, answer, previewed, jobs, worker, clerk, locks, mail, bounds>>

-----------------------------------------------------------------------------
(* resume_agent_run, from the claim of its job to DONE.                    *)

Take(w) ==
    \E v \in Versions :
        /\ At(w, "idle")
        /\ jobs[v].status = "PENDING" /\ \A u \in Versions : jobs[u].status = "PENDING" => v <= u
        /\ jobs' = [jobs EXCEPT ![v].status = "RUNNING", ![v].attempts = @ + 1]
        /\ worker' = [worker EXCEPT ![w] = [IdleWorker EXCEPT !.pc = "claimed", !.version = v]]
        /\ UNCHANGED <<desk, run, questions, clerk, locks, mail, bounds>>

\* Mutant: the run's row is read without a lock.
RunFreeUnlocked == TRUE

RunFree == runLock = None

Superseded(w) == run.version # JobOf(w)

\* Nothing is left to do; DONE is written in the same transaction.
SkipResume(w) ==
    /\ At(w, "claimed") /\ RunFree
    /\ run.status = "COMPLETED" \/ Superseded(w)
    /\ jobs' = [jobs EXCEPT ![JobOf(w)].status = "DONE"]
    /\ Stops(w)
    /\ UNCHANGED <<desk, run, questions, clerk, locks, mail, bounds>>

LoadRun(w) ==
    /\ At(w, "claimed") /\ RunFree
    /\ run.status # "COMPLETED" /\ ~Superseded(w)
    /\ worker' = [worker EXCEPT ![w].pc = "resuming", ![w].request = requests[RequestOf(w)],
                                ![w].handoff = handoff, ![w].case = case,
                                ![w].facts = facts]
    /\ runLock' = w
    /\ UNCHANGED <<desk, run, questions, jobs, clerk, handoffLock, mail, bounds>>

\* The answer may be applied.  Neither row is read with a lock of its own.
Ready(w) == worker[w].request = "ANSWERED" /\ worker[w].handoff = "OPEN"

\* block(): for want of an answer or an open handoff, or for any later reason.
Block(w) ==
    /\ At(w, "resuming") /\ handoffLock = None
    /\ RunIs("BLOCKED")
    /\ case' = Written(worker[w].case, "WAITING_HUMAN", case)
    /\ handoff' = Written(worker[w].handoff, "OPEN", handoff)
    /\ FreesLocks(w)
    /\ MovesTo(w, "finishing")
    /\ UNCHANGED <<facts, questions, jobs, clerk, mail, bounds>>

\* The first flush takes the locks of the rows written so far.
Proceed(w) ==
    /\ At(w, "resuming") /\ Ready(w) /\ handoffLock = None
    /\ handoffLock' = w
    /\ MovesTo(w, "drafting")
    /\ UNCHANGED <<desk, run, questions, jobs, clerk, runLock, mail, bounds>>

\* create_handoff finds the handoff of the email and commits.  It lets the run wait
\* again while the handoff is one that asks.
CommitsEarly(w, new, status) ==
    /\ At(w, "drafting")
    /\ RunIs(status)
    /\ case' = Written(worker[w].case, "ACTIVE", case)
    /\ facts' = new
    /\ FreesLocks(w)
    /\ worker' = [worker EXCEPT ![w].pc = "committed", ![w].case = "ACTIVE",
                                ![w].facts = new, ![w].run = status]
    /\ UNCHANGED <<handoff, questions, jobs, clerk, approved, bounds>>

Drafted(w) == [worker[w].facts EXCEPT !.prepared = TRUE]

\* A draft, or no draft: nothing is sent.
Prepare(w) ==
    /\ \E status \in {"RUNNING", "WAITING_HUMAN"} : CommitsEarly(w, Drafted(w), status)
    /\ UNCHANGED <<outbox, sent>>

Decline(w) ==
    /\ \E status \in {"RUNNING", "WAITING_HUMAN"} : CommitsEarly(w, worker[w].facts, status)
    /\ UNCHANGED <<outbox, sent>>

\* coa_outbox_business_key: by the facts and the answer the session has.
KeyOf(w) == IF worker[w].facts.followup THEN answer[RequestOf(w)] ELSE First

\* Mutant: a row that was cancelled does not count.
KeyOfLiveTaken(w) == outbox[KeyOf(w)] = "LIVE"

\* Whatever became of the row, its key is unique.
KeyTaken(w) == outbox[KeyOf(w)] # "ABSENT"

Sends(w) ==
    /\ ~KeyTaken(w)
    /\ outbox' = [outbox EXCEPT ![KeyOf(w)] = "LIVE"]
    /\ sent' = [sent EXCEPT ![RequestOf(w)] = @ + 1]

\* One more document is sent, others are still missing.  The facts keep the
\* prepared_coa of the one that was sent.
SendPart(w) ==
    /\ worker[w].facts.followup
    /\ Sends(w)
    /\ CommitsEarly(w, Drafted(w), "WAITING_HUMAN")

\* All documents are sent: one commit for everything.  A draft that the facts
\* remember still asks for its approval.
SendAll(w) ==
    /\ At(w, "drafting")
    /\ Sends(w)
    /\ RequestIs(RequestOf(w), "APPLIED")
    /\ IF worker[w].facts.prepared THEN RunIs("WAITING_HUMAN") /\ UNCHANGED handoff
       ELSE RunIs("COMPLETED") /\ handoff' = "RESOLVED"
    /\ case' = Written(worker[w].case, "ACTIVE", case)
    /\ facts' = worker[w].facts
    /\ FreesLocks(w)
    /\ MovesTo(w, "finishing")
    /\ UNCHANGED <<answer, previewed, jobs, clerk, approved, bounds>>

\* The session believes the run to be as it wrote it at the early commit.
RunWaits(w) == RunIs(Written(worker[w].run, "WAITING_HUMAN", run.status))

\* A draft waits for approval.
CommitPrepared(w) ==
    /\ At(w, "committed") /\ worker[w].facts.prepared /\ RunFree
    /\ RequestIs(RequestOf(w), "APPLIED")
    /\ RunWaits(w)
    /\ MovesTo(w, "finishing")
    /\ UNCHANGED <<desk, answer, previewed, jobs, clerk, locks, mail, bounds>>

\* A message is found under the key, and be it one of an earlier answer.
Found(w) ==
    /\ At(w, "committed") /\ ~worker[w].facts.prepared /\ RunFree /\ handoffLock = None
    /\ outbox[KeyOf(w)] = "LIVE"

Live(status) == status \in {"OPEN", "ANSWERED"}

\* ensure_handoff_agent_run puts a new question unless one is open or answered.
Asked(asked) ==
    LET new == {n \in Questions : asked[n] = "ABSENT"} IN
    IF \E n \in Questions : Live(asked[n]) THEN {asked}
    ELSE {[asked EXCEPT ![n] = "OPEN"] : n \in {k \in new : \A m \in new : k <= m}}

\* The rest is asked for.
CommitPartial(w) ==
    /\ Found(w)
    /\ requests' \in Asked([requests EXCEPT ![RequestOf(w)] = "APPLIED"])
    /\ RunWaits(w)
    /\ facts' = worker[w].facts
    /\ MovesTo(w, "finishing")
    /\ UNCHANGED <<handoff, case, answer, previewed, jobs, clerk, locks, mail, bounds>>

\* Nothing is missing.
CommitFound(w) ==
    /\ Found(w)
    /\ RequestIs(RequestOf(w), "APPLIED")
    /\ RunIs("COMPLETED") /\ handoff' = "RESOLVED"
    /\ MovesTo(w, "finishing")
    /\ UNCHANGED <<case, facts, answer, previewed, jobs, clerk, locks, mail, bounds>>

\* block() after create_handoff: the session takes the handoff for open.
BlockLate(w) ==
    /\ At(w, "committed") /\ ~worker[w].facts.prepared /\ RunFree /\ handoffLock = None
    /\ outbox[KeyOf(w)] # "LIVE"
    /\ RunIs("BLOCKED")
    /\ case' = "WAITING_HUMAN"
    /\ MovesTo(w, "finishing")
    /\ UNCHANGED <<handoff, facts, questions, jobs, clerk, locks, mail, bounds>>

Finish(w) ==
    /\ At(w, "finishing")
    /\ jobs' = [jobs EXCEPT ![JobOf(w)].status = "DONE"]
    /\ Stops(w)
    /\ UNCHANGED <<desk, run, questions, clerk, locks, mail, bounds>>

\* Mutant: the attempts are not counted against their limit.
AfterFailureForever(job) == [job EXCEPT !.status = "PENDING"]

\* Mutant: the status stays as it is.
AfterFailureKept(job) == job

AfterFailure(job) ==
    [job EXCEPT !.status = IF job.attempts >= MaxAttempts THEN "FAILED" ELSE "PENDING"]

JobFails(w) ==
    /\ jobs' = [jobs EXCEPT ![JobOf(w)] = AfterFailure(@)]
    /\ FreesLocks(w)
    /\ Stops(w)

\* An exception, a deadlock that the database resolves among them.
Fail(w) ==
    /\ ~At(w, "idle") /\ faults < MaxFaults
    /\ faults' = faults + 1
    /\ JobFails(w)
    /\ UNCHANGED <<desk, run, questions, clerk, mail, decisions>>

\* The message is in the outbox already: the session is rolled back, and what it
\* had loaded cannot be read any more.
FailSent(w) ==
    /\ At(w, "drafting") /\ KeyTaken(w)
    /\ JobFails(w)
    /\ UNCHANGED <<desk, run, questions, clerk, mail, bounds>>

\* The job is taken up again when its lease is over, whatever its attempts.
Crash(w) ==
    /\ ~At(w, "idle") /\ faults < MaxFaults
    /\ faults' = faults + 1
    /\ jobs' = [jobs EXCEPT ![JobOf(w)].status = "PENDING"]
    /\ FreesLocks(w)
    /\ Stops(w)
    /\ UNCHANGED <<desk, run, questions, clerk, mail, decisions>>

-----------------------------------------------------------------------------
(* What else a human may do with a handoff, and with the mail.             *)

Acts(c, task, outcome, step) ==
    /\ clerk[c].pc = "idle" /\ decisions < MaxDecisions
    /\ decisions' = decisions + 1
    /\ clerk' = [clerk EXCEPT ![c] = [IdleClerk EXCEPT !.pc = step, !.task = task,
                     !.outcome = outcome, !.handoff = handoff, !.case = case]]
    /\ UNCHANGED <<desk, run, questions, jobs, worker, runLock, mail, faults>>

\* queue_human_reply: the handoff is read without a lock.
BeginReply(c) ==
    \E next \in {"ACTIVE", "HUMAN_TAKEOVER"} :
        /\ handoff = "OPEN" /\ approved = {}
        /\ Acts(c, "reply", Reply(next), "loaded")
        /\ UNCHANGED handoffLock

\* update_handoff: approve or resolve, reject, pause, takeover, resume.
BeginUpdate(c) ==
    \E outcome \in Decisions :
        /\ Acts(c, "update", outcome, "loaded")
        /\ UNCHANGED handoffLock

\* forward_handoff_email: the handoff is read FOR UPDATE.
BeginForward(c) ==
    /\ handoffLock = None
    /\ handoff = "OPEN" /\ "forward" \notin approved
    /\ Acts(c, "forward", Forward, "holding")
    /\ handoffLock' = c

\* stream_handoff_draft_preview: the handoff is read without a lock, and the email is
\* analysed anew.
BeginPreview(c) ==
    /\ handoff = "OPEN" /\ approved = {}
    /\ Acts(c, "preview", Forward, "loaded")
    /\ UNCHANGED handoffLock

\* The flush before the run is read takes the locks of the rows written.  A preview
\* reads the run and its questions without a lock.
Hold(c) ==
    /\ clerk[c].pc = "loaded" /\ handoffLock = None
    /\ clerk[c].task \notin approved
    /\ handoffLock' = c
    /\ clerk' = [clerk EXCEPT ![c].pc = "holding", ![c].run = run.status,
                              ![c].open = \E n \in Questions : Live(requests[n])]
    /\ UNCHANGED <<desk, run, questions, jobs, worker, runLock, mail, bounds>>

\* finalize_handoff_agent_run.
Finalizes(outcome) ==
    IF outcome.run = "KEPT" \/ run.status \in Ended THEN UNCHANGED <<run, requests>>
    ELSE /\ RunIs(outcome.run)
         /\ requests' = [n \in Questions |->
               IF Live(requests[n]) THEN "CANCELLED" ELSE requests[n]]

Leaves(c) ==
    /\ FreesLocks(c)
    /\ clerk' = [clerk EXCEPT ![c] = IdleClerk]

Decide(c) ==
    LET outcome == clerk[c].outcome IN
    /\ clerk[c].pc = "holding" /\ clerk[c].task # "preview"
    /\ RunFree \/ outcome.run = "KEPT"
    /\ handoff' = Written(clerk[c].handoff, outcome.handoff, handoff)
    /\ case' = Written(clerk[c].case, outcome.case, case)
    /\ Finalizes(outcome)
    /\ approved' = approved \cup ({clerk[c].task} \cap {"reply", "forward"})
    /\ Leaves(c)
    /\ UNCHANGED <<facts, answer, previewed, jobs, worker, outbox, sent, bounds>>

\* prepare_detected_coa_preview: the facts are those of the new analysis alone.
Previews(c, prepared) ==
    /\ clerk[c].pc = "holding" /\ clerk[c].task = "preview"
    /\ facts' = [followup |-> FALSE, prepared |-> prepared]
    /\ case' = Written(clerk[c].case, "WAITING_HUMAN", case)
    /\ Leaves(c)
    /\ UNCHANGED <<handoff, answer, jobs, worker, mail, bounds>>

\* Every document is found.
PreviewFinds(c) ==
    /\ \E prepared \in BOOLEAN : Previews(c, prepared)
    /\ UNCHANGED <<run, requests, previewed>>

\* A document is missing: the run waits for an answer, whatever it waited for.
PreviewAsks(c) ==
    /\ Previews(c, FALSE) /\ RunFree
    /\ requests' \in IF clerk[c].open THEN {requests} ELSE Asked(requests)
    /\ RunIs(Written(clerk[c].run, "WAITING_HUMAN", run.status))
    /\ previewed' = TRUE

\* The key of the reply is taken, or the database aborts the request.
Refused(c) ==
    /\ clerk[c].pc # "idle"
    /\ Leaves(c)
    /\ UNCHANGED <<desk, run, questions, jobs, worker, mail, bounds>>

\* A guard of the delivery, a suppression or a human takes the message back.
CancelMail(k) ==
    /\ outbox[k] = "LIVE"
    /\ outbox' = [outbox EXCEPT ![k] = "CANCELLED"]
    /\ UNCHANGED <<desk, run, questions, jobs, worker, clerk, locks, sent, approved, bounds>>

-----------------------------------------------------------------------------
WorkerStep(w) ==
    \/ Take(w) \/ SkipResume(w) \/ LoadRun(w) \/ Block(w) \/ Proceed(w)
    \/ Prepare(w) \/ Decline(w) \/ SendPart(w) \/ SendAll(w)
    \/ CommitPrepared(w) \/ CommitPartial(w) \/ CommitFound(w) \/ BlockLate(w)
    \/ Finish(w) \/ FailSent(w)

ClerkStep(c) == Hold(c) \/ Decide(c) \/ PreviewFinds(c) \/ PreviewAsks(c) \/ Refused(c)

\* There is nothing to do for the workers, and nobody asks for more.
Quiet ==
    /\ \A w \in Workers : At(w, "idle")
    /\ \A v \in Versions : jobs[v].status # "PENDING"
    /\ UNCHANGED vars

Next ==
    \/ \E n \in Questions : Answer(n) \/ AnswerAgain(n) \/ AnswerUnavailable(n)
    \/ \E w \in Workers : WorkerStep(w) \/ Fail(w) \/ Crash(w)
    \/ \E c \in Clerks :
          \/ BeginReply(c) \/ BeginUpdate(c) \/ BeginForward(c) \/ BeginPreview(c)
          \/ ClerkStep(c)
    \/ \E k \in Keys : CancelMail(k)
    \/ Quiet

Spec == Init /\ [][Next]_vars

Fairness ==
    /\ \A w \in Workers : WF_vars(WorkerStep(w))
    /\ \A c \in Clerks : WF_vars(ClerkStep(c))

FairSpec == Spec /\ Fairness

-----------------------------------------------------------------------------
TypeOK ==
    /\ handoff \in HandoffStatus /\ case \in CaseStatus /\ facts \in Facts
    /\ run \in AgentRun /\ requests \in [Questions -> AssistanceStatus]
    /\ answer \in [Questions -> Keys] /\ previewed \in BOOLEAN
    /\ jobs \in [Versions -> ResumeJob]
    /\ worker \in [Workers -> WorkerState]
    /\ clerk \in [Clerks -> ClerkState]
    /\ runLock \in Workers \cup {None} /\ handoffLock \in Actors \cup {None}
    /\ outbox \in [Keys -> RowStatus] /\ sent \in [Questions -> Nat]
    /\ approved \subseteq {"reply", "forward"}
    /\ faults \in Nat /\ decisions \in Nat

\* The agent puts a message into the outbox only while the handoff is open and on
\* an answer that stands: no human has ended the handoff since.
AgentSendsOnAnswer ==
    [][\A n \in Questions : sent'[n] # sent[n] => handoff = "OPEN" /\ requests[n] = "ANSWERED"]_vars

\* However often the job of an answer runs, the agent sends one message for it, though
\* a preview between two runs changes the key that the message would have.
OneMessagePerAnswer == \A n \in Questions : sent[n] <= 1

\* An answer stands until it is applied or overruled: there is a job for it, or the
\* human can give it again because the run is blocked.  A preview may undo this: it
\* lets a blocked run wait again, and then the answer cannot be given again.
Processed(n) == requests[n] # "ANSWERED" \/ run.status = "BLOCKED"

JobOn(n) == jobs[run.version].request = n

NoLostAnswer ==
    previewed \/ \A n \in Questions : Processed(n) \/
        (JobOn(n) /\ jobs[run.version].status \in {"PENDING", "RUNNING", "FAILED"})

\* In the end an answer is applied, overruled or blocked, unless its job has failed or
\* a preview has come between.
AnswerIsProcessed ==
    \A n \in Questions :
        requests[n] = "ANSWERED" ~>
            Processed(n) \/ previewed \/ jobs[run.version].status = "FAILED"

\* "The case is set to human takeover so the AI never replies to it again."
TakeoverLasts ==
    [][case = "HUMAN_TAKEOVER" /\ (\E w \in Workers : WorkerStep(w)) => case' = case]_vars

=============================================================================
