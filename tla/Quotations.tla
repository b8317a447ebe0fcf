----------------------------- MODULE Quotations -----------------------------
(***************************************************************************)
(* The emails of one sales case on their way to an answer: the jobs that   *)
(* run process_inbound (app/inbound/inbound_processing.py), the prices of  *)
(* the week that a quote is frozen with (app/quotations/), the requests    *)
(* that replace them (app/api.py), and the gate that a frozen quote passes *)
(* before it is sent (app/delivery/outbound_delivery.py).                  *)
(*                                                                         *)
(* Module InboundLadder decides on an email; here are the awaits between   *)
(* its steps, what is committed when, and the other actors.  The lease of  *)
(* a job and the send itself are modules JobQueue and OutboxDelivery.      *)
(***************************************************************************)
EXTENDS InboundLadder

CONSTANTS
    Workers,      \* worker processes
    Emails,       \* the emails of the case
    Inbox,        \* what the emails may say, a set of functions [Emails -> Reading]
    Setups,       \* the Settings the system may run with
    Cases,        \* the SalesCases it may begin with
    Faults,       \* the Problems that may come up
    MaxAttempts,  \* Job.max_attempts, 5 in the code
    MaxWeeks,     \* bound: weeks
    MaxPrices,    \* bound: price lists
    MaxTroubles,  \* bound: crashes, and a human's changes of the case
    None

ASSUME QuotationAssumption ==
    /\ None \notin Workers \cup Emails
    /\ \A m \in Inbox : m \in [Emails -> Reading]
    /\ Setups \subseteq Settings /\ Cases \subseteq SalesCase /\ Faults \subseteq Problems
    /\ {MaxAttempts, MaxWeeks, MaxPrices, MaxTroubles} \subseteq Nat
    /\ MaxAttempts > 0 /\ MaxWeeks > 0

VARIABLES
    mail,      \* what each email says
    setup,     \* the settings
    case,      \* the committed case
    prices,    \* this week's CommercialDataCycle and the policy in force
    rows,      \* the outbox rows, by business key
    handoffs,  \* the reason of the handoff of each email, or "none"
    jobs,      \* the jobs: <<e, 0>> processes e, <<e, week>> prices it again
    worker,
    crashes, edits     \* counted

vars == <<mail, setup, case, prices, rows, handoffs, jobs, worker, crashes, edits>>
given == <<mail, setup>>
bounds == <<crashes, edits>>

Weeks == 1..MaxWeeks
Jobs == Emails \X (0..MaxWeeks)
Kinds == {"coa", "clarification", "list", "category", "multi"}
\* inbound-reply:E:quote:CYCLE, inbound-reply:E:multi-quote, inbound-reply:E:clarification,
\* inbound-product-list:E:all, inbound-product-list:E and inbound-coa:E.
Key == [email : Emails, kind : Kinds, week : {0}] \cup
       [email : Emails, kind : {"quote"}, week : Weeks]
KeyOf(e, kind) == [email |-> e, kind |-> kind, week |-> IF kind = "quote" THEN prices.week ELSE 0]

Row == [status : {"ABSENT", "PENDING", "CLAIMED", "SENT", "CANCELLED"},
        policy : 0..MaxPrices, week : 0..MaxWeeks]
\* context: what get_quote_context says of the product.
Prices == [week : Weeks, policy : 0..MaxPrices,
           context : {"UNPRICED", "UNCOUNTED", "NO_STOCK", "AVAILABLE"}]
JobRow == [status : {"ABSENT", "PENDING", "RUNNING", "DONE", "FAILED"},
           attempts : 0..(MaxAttempts + MaxTroubles)]
\* seen: the case as it was loaded.  staged: a certificate's row that is not committed.
WorkerState ==
    [pc : {"idle", "analyze", "route", "draft"}, job : Jobs \cup {None}, seen : SalesCase,
     learned : BOOLEAN, staged : BOOLEAN, kind : Kinds \cup {"quote", "none"},
     policy : 0..MaxPrices, week : 0..MaxWeeks]

Fresh == [status |-> "ACTIVE", product |-> TRUE, category |-> TRUE, suppressed |-> FALSE]
Idle == [pc |-> "idle", job |-> None, seen |-> Fresh, learned |-> FALSE, staged |-> FALSE,
         kind |-> "none", policy |-> 0, week |-> 0]
NoRow == [status |-> "ABSENT", policy |-> 0, week |-> 0]

Init ==
    /\ mail \in Inbox
    /\ setup \in Setups
    /\ case \in Cases
    /\ prices = [week |-> 1, policy |-> 0, context |-> "UNPRICED"]
    /\ rows = [k \in Key |-> NoRow]
    /\ handoffs = [e \in Emails |-> "none"]
    /\ jobs = [j \in Jobs |-> [status |-> IF j[2] = 0 THEN "PENDING" ELSE "ABSENT", attempts |-> 0]]
    /\ worker = [w \in Workers |-> Idle]
    /\ crashes = 0 /\ edits = 0

-----------------------------------------------------------------------------
At(w, pc) == worker[w].pc = pc
EmailOf(w) == worker[w].job[1]
Written(k) == rows[k].status # "ABSENT"
Live(k) == rows[k].status \in {"PENDING", "CLAIMED", "SENT"}
KeysOf(e) == {k \in Key : k.email = e}

\* The query for business keys that begin with inbound-reply:E.
Replied(e) == \E k \in KeysOf(e) : k.kind \in {"quote", "multi", "clarification"} /\ Live(k)
Done(j) == jobs' = [jobs EXCEPT ![j].status = "DONE"]
Stop(w) == worker' = [worker EXCEPT ![w] = Idle]

\* What the session writes with its commit: the certificate's row and the product that
\* the thread named, on top of what is in force.
WithStaged(w, table) ==
    IF worker[w].staged
    THEN [table EXCEPT ![KeyOf(EmailOf(w), "coa")] = [NoRow EXCEPT !.status = "PENDING"]]
    ELSE table
WithLearned(w, c) ==
    IF worker[w].learned THEN [c EXCEPT !.product = TRUE, !.category = TRUE] ELSE c

\* create_handoff: the first handoff of an email stays; a new one pauses a case that was
\* active when it was loaded.
HandedOff(c, w, pause) ==
    IF handoffs[EmailOf(w)] = "none" /\ pause /\ worker[w].seen.status = "ACTIVE"
    THEN [c EXCEPT !.status = "WAITING_HUMAN"] ELSE c
Handoff(w, reason, pause) ==
    /\ handoffs' = [handoffs EXCEPT ![EmailOf(w)] = IF @ = "none" THEN reason ELSE @]
    /\ case' = HandedOff(WithLearned(w, case), w, pause)
    /\ rows' = WithStaged(w, rows)
HandOffAndStop(w, reason) ==
    /\ Handoff(w, reason, TRUE)
    /\ Done(worker[w].job) /\ Stop(w)
    /\ UNCHANGED <<given, prices, bounds>>

-----------------------------------------------------------------------------
(* A job up to the model's reading of the email *)

Take(j) == [jobs EXCEPT ![j].status = "RUNNING", ![j].attempts = @ + 1]
Handled(e) == case.status = "HUMAN_TAKEOVER" \/ Replied(e) \/ handoffs[e] # "none"
Claims(w, j) == At(w, "idle") /\ jobs[j].status = "PENDING"

\* process_inbound returns: the case was taken over, or the email has its answer.
Skip(w, j) ==
    /\ Claims(w, j)
    /\ Handled(j[1]) \/ AutomatedReply(mail[j[1]], setup) = Ignore
    /\ jobs' = [jobs EXCEPT ![j].status = "DONE", ![j].attempts = @ + 1]
    /\ UNCHANGED <<given, case, prices, rows, handoffs, worker, bounds>>

Machine(w, j) ==
    LET outcome == AutomatedReply(mail[j[1]], setup) IN
    /\ Claims(w, j) /\ ~Handled(j[1]) /\ outcome \notin {Next, Ignore}
    /\ jobs' = [jobs EXCEPT ![j].status = "DONE", ![j].attempts = @ + 1]
    /\ handoffs' = [handoffs EXCEPT ![j[1]] = outcome.what]
    /\ case' = [case EXCEPT !.status = IF @ = "ACTIVE" THEN "WAITING_HUMAN" ELSE @,
                            !.suppressed = @ \/ outcome = Retire]
    /\ UNCHANGED <<given, prices, rows, worker, bounds>>

\* The case is loaded, and the model is asked.
Begin(w, j) ==
    /\ Claims(w, j) /\ ~Handled(j[1]) /\ AutomatedReply(mail[j[1]], setup) = Next
    /\ jobs' = Take(j)
    /\ worker' = [worker EXCEPT ![w] = [Idle EXCEPT !.pc = "analyze", !.job = j, !.seen = case]]
    /\ UNCHANGED <<given, case, prices, rows, handoffs, bounds>>

AnalysisFails(w) == At(w, "analyze") /\ HandOffAndStop(w, "AI_FAILURE")

Unsubscribe(w) ==
    /\ At(w, "analyze") /\ mail[EmailOf(w)].unsubscribe
    /\ case' = [case EXCEPT !.suppressed = TRUE, !.status = "PAUSED"]
    /\ Done(worker[w].job) /\ Stop(w)
    /\ UNCHANGED <<given, prices, rows, handoffs, bounds>>

-----------------------------------------------------------------------------
(* Certificates *)

Primary(e) == mail[e].intent = "coa_request"
Certificates(w, found) == CoaStep(mail[EmailOf(w)], worker[w].seen, setup, found)
Analyzed(w) == At(w, "analyze") /\ ~mail[EmailOf(w)].unsubscribe

\* No certificate is asked for.
PassOn(w) ==
    /\ Analyzed(w) /\ Certificates(w, "all") = Next
    /\ worker' = [worker EXCEPT ![w].pc = "route"]
    /\ UNCHANGED <<given, case, prices, rows, handoffs, jobs, bounds>>

\* A human sends it; the other request of the email goes on.
AskForCertificate(w) == \E found \in {"all", "none"} :
    LET outcome == Certificates(w, found) IN
    /\ Analyzed(w) /\ outcome.act = "human"
    /\ Handoff(w, outcome.what, Primary(EmailOf(w)))
    /\ IF Primary(EmailOf(w)) THEN Done(worker[w].job) /\ Stop(w)
       ELSE worker' = [worker EXCEPT ![w].pc = "route"] /\ UNCHANGED jobs
    /\ UNCHANGED <<given, prices, bounds>>

\* The row is staged.  A certificate that is missing goes to a human, whose handoff
\* commits the row with it.
StageCertificate(w) == \E found \in {"all", "some"} :
    LET e == EmailOf(w)  k == KeyOf(e, "coa")  commits == found = "some" \/ Primary(e) IN
    /\ Analyzed(w) /\ Certificates(w, found) = Draft("coa") /\ ~Written(k)
    /\ IF found = "some"
       THEN /\ handoffs' = [handoffs EXCEPT ![e] = "COA_REVIEW"]
            /\ case' = HandedOff(case, w, Primary(e))
       ELSE UNCHANGED <<handoffs, case>>
    /\ rows' = IF commits THEN [rows EXCEPT ![k] = [NoRow EXCEPT !.status = "PENDING"]] ELSE rows
    /\ IF Primary(e) THEN Done(worker[w].job) /\ Stop(w)
       ELSE /\ worker' = [worker EXCEPT ![w].pc = "route", ![w].staged = ~commits]
            /\ UNCHANGED jobs
    /\ UNCHANGED <<given, prices, bounds>>

\* Mutant: a failure gives the attempt back, as a deferral does.
FailureDeferred(row) == [row EXCEPT !.status = "PENDING", !.attempts = @ - 1]

AfterFailure(row) == [row EXCEPT !.status = IF row.attempts < MaxAttempts THEN "PENDING" ELSE "FAILED"]

\* The key is taken by an earlier attempt: the session is rolled back, its objects
\* expire, and the handler fails on the next one it touches.
CertificateTaken(w) ==
    /\ Analyzed(w) /\ Certificates(w, "all") = Draft("coa") /\ Written(KeyOf(EmailOf(w), "coa"))
    /\ jobs' = [jobs EXCEPT ![worker[w].job] =
                    IF Primary(EmailOf(w)) THEN [@ EXCEPT !.status = "DONE"] ELSE AfterFailure(@)]
    /\ Stop(w)
    /\ UNCHANGED <<given, case, prices, rows, handoffs, bounds>>

-----------------------------------------------------------------------------
(* The answer *)

\* What the ladder finds, with anything that may go wrong.
Observed(e) ==
    {[price |-> prices.context, problem |-> problem,
      clarified |-> \E k \in Key : k.kind = "clarification" /\ Live(k),
      quoted |-> \E k \in Key : k.kind \in Quotes /\ Written(k),
      listed |-> Written(KeyOf(e, "list"))] : problem \in Faults}
Outcomes(w) ==
    {Route(mail[EmailOf(w)], worker[w].seen, setup, x) : x \in Observed(EmailOf(w))}

\* Mutant: a job that waits uses up its attempts.
SpentByWaiting(row) == [row EXCEPT !.status = "PENDING"]

\* JobDeferred: the attempt is given back.
Deferred(row) == [row EXCEPT !.status = "PENDING", !.attempts = @ - 1]

\* The prices are waited for.  In the team's hours the request for them is enqueued
\* before, which commits what the session holds.
WaitForPrices(w, outcome) == \E kept \in BOOLEAN :
    /\ outcome = Wait
    /\ IF kept
       THEN /\ rows' = WithStaged(w, rows)
            /\ case' = IF Learns(mail[EmailOf(w)], worker[w].seen)
                       THEN [case EXCEPT !.product = TRUE, !.category = TRUE] ELSE case
       ELSE UNCHANGED <<rows, case>>
    /\ jobs' = [jobs EXCEPT ![worker[w].job] = Deferred(@)]
    /\ Stop(w)
    /\ UNCHANGED <<given, prices, handoffs, bounds>>

ReachHuman(w, outcome) == outcome.act = "human" /\ HandOffAndStop(w, outcome.what)

\* The price is taken, and the model is asked for the text.
BeginDraft(w, outcome) ==
    /\ outcome.act = "draft"
    /\ worker' = [worker EXCEPT
           ![w].pc = "draft", ![w].kind = outcome.what,
           ![w].learned = Learns(mail[EmailOf(w)], worker[w].seen),
           ![w].policy = IF outcome.what \in Quotes THEN prices.policy ELSE 0,
           ![w].week = prices.week]
    /\ UNCHANGED <<given, case, prices, rows, handoffs, jobs, bounds>>

Answer(w) ==
    /\ At(w, "route")
    /\ \E outcome \in Outcomes(w) :
        WaitForPrices(w, outcome) \/ ReachHuman(w, outcome) \/ BeginDraft(w, outcome)

DraftFails(w) == At(w, "draft") /\ worker[w].kind \in ByModel /\ HandOffAndStop(w, "AI_FAILURE")

SubmitDraft(w) ==
    /\ At(w, "draft") /\ ~Automatic(worker[w].kind, setup)
    /\ HandOffAndStop(w, Review(worker[w].kind).what)

ReplyKey(w) ==
    [email |-> EmailOf(w), kind |-> worker[w].kind,
     week |-> IF worker[w].kind = "quote" THEN worker[w].week ELSE 0]
Stages(w) == At(w, "draft") /\ Automatic(worker[w].kind, setup)

\* The row, the quote and the end of the job are one transaction.
Stage(w) ==
    /\ Stages(w) /\ ~Written(ReplyKey(w))
    /\ rows' = [WithStaged(w, rows) EXCEPT ![ReplyKey(w)] =
                    [status |-> "PENDING", policy |-> worker[w].policy, week |-> worker[w].week]]
    /\ case' = WithLearned(w, case)
    /\ Done(worker[w].job) /\ Stop(w)
    /\ UNCHANGED <<given, prices, handoffs, bounds>>

\* The key is taken: everything is rolled back, and the job is done.
KeyTaken(w) ==
    /\ Stages(w) /\ Written(ReplyKey(w))
    /\ Done(worker[w].job) /\ Stop(w)
    /\ UNCHANGED <<given, case, prices, rows, handoffs, bounds>>

Crash(w) ==
    /\ ~At(w, "idle") /\ crashes + edits < MaxTroubles
    /\ crashes' = crashes + 1
    /\ jobs' = [jobs EXCEPT ![worker[w].job].status = "PENDING"]
    /\ Stop(w)
    /\ UNCHANGED <<given, case, prices, rows, handoffs, edits>>

-----------------------------------------------------------------------------
(* The gate before the send *)

\* A frozen quote is of the version in force.
SameVersion(k) ==
    prices.context # "UNPRICED" /\ rows[k].week = prices.week /\ rows[k].policy = prices.policy
Set(k, status) == rows' = [rows EXCEPT ![k].status = status]

Stale(k) == ~SameVersion(k) \/ prices.context \notin {"AVAILABLE", "UNCOUNTED"}

\* Mutant: nothing prices the email again.
RequeuedNever(k) == jobs

\* One job for each email and week, and only for the keys of single quotes.
Requeued(k) ==
    IF k.kind = "quote" /\ jobs[<<k.email, prices.week>>].status = "ABSENT"
    THEN [jobs EXCEPT ![<<k.email, prices.week>>].status = "PENDING"] ELSE jobs

\* _case_outbound_gate, and a quote whose case has no product.
GateBlocks(k) ==
    /\ rows[k].status = "PENDING"
    /\ \/ case.suppressed \/ case.status # "ACTIVE"
       \/ k.kind \in Quotes /\ ~case.product
    /\ Set(k, "CANCELLED")
    /\ UNCHANGED <<given, case, prices, handoffs, jobs, worker, bounds>>

Passes(k) ==
    /\ rows[k].status = "PENDING" /\ ~case.suppressed /\ case.status = "ACTIVE"
    /\ k.kind \in Quotes => case.product

\* _cancel_and_requeue_stale_quote.
CancelStale(k) ==
    /\ Passes(k) /\ k.kind \in Quotes /\ Stale(k)
    /\ Set(k, "CANCELLED") /\ jobs' = Requeued(k)
    /\ UNCHANGED <<given, case, prices, handoffs, worker, bounds>>

\* The lock of the commercial scope is held from the check to the claim.
Claim(k) ==
    /\ Passes(k)
    /\ k.kind \in Quotes => SameVersion(k) /\ prices.context = "AVAILABLE"
    /\ Set(k, "CLAIMED")
    /\ UNCHANGED <<given, case, prices, handoffs, jobs, worker, bounds>>

Send(k) ==
    /\ rows[k].status = "CLAIMED" /\ Set(k, "SENT")
    /\ UNCHANGED <<given, case, prices, handoffs, jobs, worker, bounds>>

-----------------------------------------------------------------------------
(* The commercial team, the calendar and the people who look after the case *)

\* Mutant: a quote that is being sent does not stop the request.
InFlightNever == FALSE

InFlight == \E k \in Key : k.kind \in Quotes /\ rows[k].status = "CLAIMED"

\* confirm_current_commercial_data: a new price list, with the stock.
ConfirmPrices ==
    /\ ~InFlight /\ prices.policy < MaxPrices
    /\ \E context \in {"NO_STOCK", "AVAILABLE"} :
        prices' = [prices EXCEPT !.policy = @ + 1, !.context = context]
    /\ UNCHANGED <<given, case, rows, handoffs, jobs, worker, bounds>>

\* confirm_current_inventory: the products of the list are counted again, some or all.
ConfirmInventory ==
    /\ prices.context # "UNPRICED" /\ ~InFlight
    /\ \E context \in {"UNCOUNTED", "NO_STOCK", "AVAILABLE"} :
        context # prices.context /\ prices' = [prices EXCEPT !.context = context]
    /\ UNCHANGED <<given, case, rows, handoffs, jobs, worker, bounds>>

NewWeek ==
    /\ prices.week < MaxWeeks
    /\ prices' = [prices EXCEPT !.week = @ + 1, !.context = "UNPRICED"]
    /\ UNCHANGED <<given, case, rows, handoffs, jobs, worker, bounds>>

\* A human takes the case over.
TakeOver ==
    /\ crashes + edits < MaxTroubles /\ edits' = edits + 1
    /\ case.status # "HUMAN_TAKEOVER" /\ case' = [case EXCEPT !.status = "HUMAN_TAKEOVER"]
    /\ UNCHANGED <<given, prices, rows, handoffs, jobs, worker, crashes>>

-----------------------------------------------------------------------------
WorkerStep(w) ==
    \/ \E j \in Jobs : Skip(w, j) \/ Machine(w, j) \/ Begin(w, j)
    \/ AnalysisFails(w) \/ Unsubscribe(w)
    \/ PassOn(w) \/ AskForCertificate(w) \/ StageCertificate(w) \/ CertificateTaken(w)
    \/ Answer(w) \/ DraftFails(w) \/ SubmitDraft(w) \/ Stage(w) \/ KeyTaken(w)
Deliver(k) == GateBlocks(k) \/ CancelStale(k) \/ Claim(k) \/ Send(k)
Commerce == ConfirmPrices \/ ConfirmInventory \/ NewWeek

SettledJobs == \A j \in Jobs : jobs[j].status \in {"ABSENT", "DONE", "FAILED"}
SettledRows == \A k \in Key : rows[k].status \notin {"PENDING", "CLAIMED"}
Rest == SettledJobs /\ SettledRows /\ UNCHANGED vars

NextStep ==
    \/ \E w \in Workers : WorkerStep(w) \/ Crash(w)
    \/ \E k \in Key : Deliver(k)
    \/ Commerce \/ TakeOver \/ Rest

Spec == Init /\ [][NextStep]_vars

\* The worker's loop goes on as long as a job or a row is due: weak fairness of a step
\* of the worker, with its ENABLED written out.
Awaited(k) == Passes(k) /\ k.kind \in Quotes /\ ~Stale(k) /\ prices.context # "AVAILABLE"
Due ==
    \/ \E w \in Workers : ~At(w, "idle")
    \/ \E j \in Jobs : jobs[j].status = "PENDING"
    \/ \E k \in Key : rows[k].status \in {"PENDING", "CLAIMED"} /\ ~Awaited(k)
WorkerMoves == UNCHANGED <<prices, bounds>>
FairSpec == Spec /\ (<>[]Due => []<><<WorkerMoves>>_vars)

-----------------------------------------------------------------------------
(* Properties *)

TypeOK ==
    /\ mail \in [Emails -> Reading] /\ setup \in Settings
    /\ case \in SalesCase /\ prices \in Prices
    /\ rows \in [Key -> Row]
    /\ handoffs \in [Emails -> Reasons \cup {"none"}]
    /\ jobs \in [Jobs -> JobRow]
    /\ worker \in [Workers -> WorkerState]
    /\ crashes \in Nat /\ edits \in Nat /\ crashes + edits <= MaxTroubles

\* lock_commercial_scope: while a quote is on its way to the customer its price is the
\* one in force, whatever was confirmed since it was drafted.
QuotesAreCurrent ==
    \A k \in Key : k.kind \in Quotes /\ rows[k].status = "CLAIMED" =>
        rows[k].policy = prices.policy

SettledEmail(e) == \A j \in Jobs : j[1] = e => jobs[j].status \in {"ABSENT", "DONE", "FAILED"}
Heard(e) == handoffs[e] # "none" \/ \E k \in KeysOf(e) : Live(k)
\* Somebody looks after the case, or the customer is not to be written to.
InGoodHands ==
    \/ \E e \in Emails : handoffs[e] # "none"
    \/ case.status # "ACTIVE" \/ case.suppressed \/ edits > 0
\* The three ways in which the code loses a request: a quote for the week of which the
\* key is taken by a cancelled one, a quote of several products for a case without one,
\* and a job that fails on the certificate it has staged before.
LostRequest(e) ==
    \/ \E k \in KeysOf(e) : k.kind = "quote" /\ rows[k].status = "CANCELLED"
                                /\ jobs[<<e, k.week>>].status = "DONE"
    \/ \E k \in KeysOf(e) : k.kind = "multi" /\ rows[k].status = "CANCELLED"
    \/ \E j \in Jobs : j[1] = e /\ jobs[j].status = "FAILED"

\* process_inbound: an email whose jobs are done is answered or handed to a human,
\* through deferrals, repricing and crashes, but for the ways named above.
NobodyForgotten ==
    \A e \in Emails : SettledEmail(e) /\ AutomatedReply(mail[e], setup) # Ignore =>
        Heard(e) \/ InGoodHands \/ LostRequest(e)

\* When the prices are confirmed for good every job ends and no row is left over.
EventuallySettled == <>[](prices.context \in {"AVAILABLE", "NO_STOCK"}) => <>[](SettledJobs /\ SettledRows)

\* process_inbound: "Keep the remaining quote/product-list workflow independent" of a
\* certificate asked for beside it.  When a human gets the certificate, the quote is
\* drafted all the same, unless the case is out of the program's hands.
QuoteIsHeard ==
    \A e \in Emails :
        SettledEmail(e) /\ mail[e].intent = "quote_request" /\ handoffs[e] = "COA_REVIEW" =>
            (\E k \in KeysOf(e) : k.kind # "coa" /\ Written(k)) \/ case.suppressed \/ edits > 0
=============================================================================
