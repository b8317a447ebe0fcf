---------------------------- MODULE Dispositions ----------------------------
(***************************************************************************)
(* Applying and rolling back the disposition of inbound emails             *)
(* (app/dispositions/): a worker applies what nothing stands in the way    *)
(* of, an administrator applies what he has reviewed, and rolls back.      *)
(*                                                                         *)
(* An application changes the affected contact and customer, creates       *)
(* referrals, a contact and a message for the colleague who was named, a   *)
(* contact and a case for a colleague who replied, and closes the email's  *)
(* handoff.  It keeps a snapshot of these rows before and after itself; a  *)
(* rollback compares the second with what is there and restores the first. *)
(*                                                                         *)
(* Workers and administrators read the contact before they lock it, and    *)
(* the session keeps what was read: what they compare and write is         *)
(* relative to that.  The emails are about one contact and one colleague;  *)
(* an email from an unknown address that answers an outbound message is    *)
(* the colleague's.  What an email resolves to is fixed, but for that.     *)
(***************************************************************************)
EXTENDS InboundRules

CONSTANTS
    Workers,
    Emails,
    Inputs,      \* what emails say, and what is known of them (see Input)
    MaxRuns,     \* bound: runs of process_inbound
    MaxRequests  \* bound: what administrators, and the contact, do

VARIABLES
    profile,     \* of each email
    handled,     \* disposition_handled_at is set
    contact,     \* suppressed, lifecycle_status
    qualified,   \* Customer.qualification_status is not NON_TARGET
    referral,    \* ContactReferral.status of the colleague named by each email
    colleague,   \* the colleague's contact: by which email it was made, and if he wrote since
    replyCase,   \* the case a colleague's reply was put into, and if it was worked on since
    mail,        \* Outbox.status of referral-outreach:<email>
    desk,        \* handoff of each email: status, who closed it, notice, facts, and its job
    action,      \* newest InboundDispositionAction of each email
    worker,      \* the step each worker is at, and what it has read
    admin,       \* the request of the administrator
    sending,     \* emails whose outreach is being transmitted
    runs, requests,
    applied,     \* history: applications of each email
    rolledBack   \* history: rollbacks of each email

\* What the model is asked and answers (InboundRules), and what the rows say of an email.
Decision ==
    [answer : {"off", "fails", "answers"}, type : Types, sure : BOOLEAN, evidence : BOOLEAN,
     referred : SUBSET Addresses, forwarded : BOOLEAN, list : BOOLEAN]
Message ==
    [from : {"none", "ann", "mate"}, known : BOOLEAN, verified : BOOLEAN, exact : BOOLEAN,
     quoted : BOOLEAN, domain : BOOLEAN, returns : {"none", "past", "future"}, twoCases : BOOLEAN]
Input ==
    [cues : SUBSET Cues, named : SUBSET Addresses, ai : Decision, m : Message, open : BOOLEAN]

ASSUME InputsAreReadable == Emails # {} /\ Inputs \subseteq Input

\* An email with its disposition, what it resolves to, and if its handoff is there.
Profile(i) ==
    LET d == Classify(i.cues, i.named, i.ai)
    IN [cues |-> i.cues, d |-> d, at |-> Resolved(d.type, i.m), open |-> i.open]
Profiles == {Profile(i) : i \in Inputs}

vars == <<profile, handled, contact, qualified, referral, colleague, replyCase, mail, desk, action,
          worker, admin, sending, runs, requests, applied, rolledBack>>
rows == <<handled, contact, qualified, referral, colleague, replyCase, mail, desk, action, applied, rolledBack>>

-----------------------------------------------------------------------------
Contact ==
    [suppressed : BOOLEAN, lifecycle : {"ACTIVE", "TEMPORARILY_UNAVAILABLE", "DEPARTED"}]
HandoffRow ==
    [status : {"NONE", "OPEN", "RESOLVED"}, by : {"nobody", "human", "disposition"},
     notice : {"PENDING", "SENT", "CANCELLED"}, facts : BOOLEAN]
JobStatus == {"NONE", "PENDING", "RUNNING", "DONE"}
Desk == [handoff : HandoffRow, job : JobStatus]
ReferralStatus ==
    {"NONE", "CANDIDATE", "WAITING_FOR_FORWARDED_REPLY", "OUTREACH_QUEUED", "ACTIVE_CONTACT"}
MailStatus == {"ABSENT", "PENDING", "CLAIMED", "SENT", "CANCELLED"}

CaseStatus == {"none", "joined", "used"}

Snapshot ==
    [contact : Contact, qualified : BOOLEAN, case : CaseStatus, referral : ReferralStatus,
     handoff : HandoffRow, job : JobStatus]
NoAction == [status |-> "NONE"]
Action ==
    [status : {"APPLIED", "ROLLED_BACK"}, terminal : BOOLEAN, before : Snapshot, after : Snapshot,
     mail : BOOLEAN, colleague : BOOLEAN, reviewed : BOOLEAN]

NoEmail == CHOOSE e \in Emails : TRUE
IdleWorker(c) == [pc |-> "idle", email |-> NoEmail, handled |-> FALSE, contact |-> c, qualified |-> TRUE]
IdleAdmin(c) == [pc |-> "idle", email |-> NoEmail, contact |-> c, qualified |-> TRUE]

FreshContact == [suppressed |-> FALSE, lifecycle |-> "ACTIVE"]
NoHandoff == [status |-> "NONE", by |-> "nobody", notice |-> "PENDING", facts |-> FALSE]
NoDesk == [handoff |-> NoHandoff, job |-> "NONE"]
OpenDesk == [handoff |-> [NoHandoff EXCEPT !.status = "OPEN"], job |-> "PENDING"]

TypeOK ==
    /\ \A e \in Emails : profile[e].d.type \in Types
    /\ handled \in [Emails -> BOOLEAN] /\ qualified \in BOOLEAN
    /\ contact \in Contact
    /\ referral \in [Emails -> ReferralStatus] /\ mail \in [Emails -> MailStatus]
    /\ colleague \in [by : Emails \cup {"nobody", "known"}, wrote : BOOLEAN]
    /\ replyCase \in [Emails -> CaseStatus]
    /\ desk \in [Emails -> Desk]
    /\ action \in [Emails -> Action \cup {NoAction}]
    /\ worker \in [Workers -> [pc : {"idle", "classified", "resolved"}, email : Emails,
                               handled : BOOLEAN, contact : Contact, qualified : BOOLEAN]]
    /\ admin \in [pc : {"idle", "reviewed", "locked", "checked"}, email : Emails, contact : Contact,
                  qualified : BOOLEAN]
    /\ sending \subseteq Emails

D(e) == profile[e].d
At(e) == profile[e].at

\* The rows, given the emails.
NothingApplied ==
    /\ handled = [e \in Emails |-> FALSE]
    /\ contact = FreshContact /\ qualified = TRUE
    /\ referral = [e \in Emails |-> "NONE"]
    /\ colleague = [by |-> IF \E e \in Emails : At(e).sender = "mate" THEN "known" ELSE "nobody",
                     wrote |-> FALSE]
    /\ replyCase = [e \in Emails |-> "none"]
    /\ mail = [e \in Emails |-> "ABSENT"]
    /\ desk = [e \in Emails |-> IF profile[e].open THEN OpenDesk ELSE NoDesk]
    /\ action = [e \in Emails |-> NoAction]
    /\ worker = [w \in Workers |-> IdleWorker(FreshContact)]
    /\ admin = IdleAdmin(FreshContact)
    /\ sending = {}
    /\ applied = [e \in Emails |-> 0] /\ rolledBack = [e \in Emails |-> 0]

Init == profile \in [Emails -> Profiles] /\ NothingApplied /\ runs = 0 /\ requests = 0

Active(e) == action[e].status = "APPLIED"

\* The rows' locks: a worker holds the email's from its second read to its commit, and so
\* does an administrator who applies it; a rollback holds those of the email, the
\* contact, the customer, the case, the handoff and its job from its check to its commit.
EmailLocked(e) ==
    \/ \E w \in Workers : worker[w].pc = "resolved" /\ worker[w].email = e
    \/ admin.pc \in {"locked", "checked"} /\ admin.email = e
\* Mutant: a rollback does not lock the contact.
ContactLockedNever == FALSE

ContactLocked == admin.pc = "checked"
DeskLocked(e) == admin.pc = "checked" /\ admin.email = e
CaseLocked(e) == admin.pc = "checked" /\ admin.email = e

-----------------------------------------------------------------------------
(* What an application does *)

\* apply_email_disposition reaches an outcome it records.
Applies(d, at) ==
    CASE d.type \in {"AUTOMATED_ACKNOWLEDGEMENT", "SYSTEM_NOTIFICATION"} -> TRUE
      [] d.type = "TEMPORARY_ABSENCE" -> at.contact # "none" \/ at.returns = "past"
      [] d.type = "DEPARTED" ->
            /\ VerifiedOriginal(d, at)
            /\ (at.parent # "none" /\ at.sender # at.contact) => (at.customer /\ at.domain)
            /\ (VerifiedReply(d, at) /\ ContinueBusiness(d)) => ~at.twoCases
      [] d.type = "NON_TARGET" -> at.customer
      [] d.type \in {"CONTACT_REFERRAL", "FORWARDED_TO_COLLEAGUE"} -> at.customer /\ d.referred # {}
      [] OTHER -> FALSE

\* The contact as this disposition wants it, given what was read of it.
Wanted(d, at, c) ==
    IF d.type = "DEPARTED" THEN [suppressed |-> TRUE, lifecycle |-> "DEPARTED"]
    ELSE IF d.type = "TEMPORARY_ABSENCE" /\ at.returns # "past"
         THEN [c EXCEPT !.lifecycle = "TEMPORARILY_UNAVAILABLE"]
    ELSE c

\* Only the columns that differ from what was read are written.
Written(read, wanted) ==
    [suppressed |-> IF wanted.suppressed = read.suppressed THEN contact.suppressed ELSE wanted.suppressed,
     lifecycle |-> IF wanted.lifecycle = read.lifecycle THEN contact.lifecycle ELSE wanted.lifecycle]

\* _save_referrals and _save_verified_reply_contact_referral
SavedReferral(e) ==
    IF D(e).type = "DEPARTED" /\ VerifiedReply(D(e), At(e)) THEN "ACTIVE_CONTACT"
    ELSE IF D(e).referred = {} \/ D(e).type \in {"NON_TARGET", "AUTOMATED_ACKNOWLEDGEMENT", "SYSTEM_NOTIFICATION"}
         THEN referral[e]
    ELSE IF D(e).forwarded THEN "WAITING_FOR_FORWARDED_REPLY"
    ELSE "CANDIDATE"

\* _stage_referral_outreach finds, or makes, the message to the colleague.  may: it is
\* switched on, the request and the customer allow it, and the colleague is not suppressed.
Outreach(e, q, may) ==
    /\ \/ D(e).type = "DEPARTED" /\ ~VerifiedReply(D(e), At(e))
       \/ D(e).type \in {"CONTACT_REFERRAL", "FORWARDED_TO_COLLEAGUE"} /\ At(e).contact # "none"
    /\ At(e).customer /\ q /\ may
    /\ ~D(e).forwarded /\ D(e).referred = {"mate"}

\* _ensure_reviewed_reply_contact: a colleague nobody knows answered in the contact's stead.
Replies(e) == D(e).type = "DEPARTED" /\ At(e).parent # "none" /\ At(e).sender # At(e).contact

\* _continue_reviewed_business_reply: his reply is put into a case of his, old or new.
Continues(e) == D(e).type = "DEPARTED" /\ VerifiedReply(D(e), At(e)) /\ ContinueBusiness(D(e))

Terminal(e, q, may) ==
    CASE D(e).type = "DEPARTED" ->
            /\ ~ContinueBusiness(D(e))
            /\ (D(e).forwarded \/ Outreach(e, q, may) \/ VerifiedReply(D(e), At(e)))
      [] D(e).type \in {"CONTACT_REFERRAL", "FORWARDED_TO_COLLEAGUE"} ->
            D(e).forwarded \/ Outreach(e, q, may)
      [] OTHER -> TRUE

\* _sync_open_handoff_facts, and those that a continued case adds.
Informed(e, h) ==
    [h EXCEPT !.facts = @ \/ h.status = "OPEN" \/ (Continues(e) /\ h.status # "NONE")]

\* _resolve_terminal_handoff: a handoff that is open is closed with its notification.
ClosedHandoff(h) ==
    IF h.status # "OPEN" THEN h
    ELSE [h EXCEPT !.status = "RESOLVED", !.by = "disposition",
                   !.notice = IF @ = "SENT" THEN "SENT" ELSE "CANCELLED"]
ClosedJob(k) == IF k.handoff.status = "OPEN" /\ k.job = "PENDING" THEN "DONE" ELSE k.job

\* Mutant: the snapshot leaves the referrals out.
SeenWithoutReferral(e, c, q) ==
    [contact |-> c, qualified |-> q, case |-> replyCase[e], handoff |-> desk[e].handoff,
     job |-> desk[e].job]

\* The rows as a session sees them that has read the contact c and the customer q.
Seen(e, c, q) ==
    [contact |-> c, qualified |-> q, case |-> replyCase[e], referral |-> referral[e],
     handoff |-> desk[e].handoff, job |-> desk[e].job]

After(e, c, q, may) ==
    LET informed == Informed(e, desk[e].handoff)
        terminal == Terminal(e, q, may)
    IN [contact |-> Wanted(D(e), At(e), c),
        qualified |-> IF D(e).type = "NON_TARGET" THEN FALSE ELSE q,
        case |-> IF Continues(e) THEN "joined" ELSE replyCase[e],
        referral |-> IF Outreach(e, q, may) THEN "OUTREACH_QUEUED" ELSE SavedReferral(e),
        handoff |-> IF terminal THEN ClosedHandoff(informed) ELSE informed,
        job |-> IF terminal THEN ClosedJob(desk[e]) ELSE desk[e].job]

\* apply_email_disposition, after the locks; it has read the contact c and the customer q.
Apply(e, c, q, may, reviewed) ==
    LET after == After(e, c, q, may)
        newMail == Outreach(e, q, may) /\ mail[e] = "ABSENT"
        newColleague == (Outreach(e, q, may) \/ Replies(e)) /\ colleague.by = "nobody"
    IN /\ contact' = Written(c, after.contact)
       /\ qualified' = IF after.qualified = q THEN qualified ELSE after.qualified
       /\ replyCase' = [replyCase EXCEPT ![e] = after.case]
       /\ referral' = [referral EXCEPT ![e] = after.referral]
       /\ desk' = [desk EXCEPT ![e] = [handoff |-> after.handoff, job |-> after.job]]
       /\ mail' = [mail EXCEPT ![e] = IF newMail THEN "PENDING" ELSE @]
       /\ colleague' = IF newColleague THEN [by |-> e, wrote |-> FALSE] ELSE colleague
       /\ handled' = [handled EXCEPT ![e] = TRUE]
       /\ action' = [action EXCEPT ![e] =
             [status |-> "APPLIED", terminal |-> Terminal(e, q, may), before |-> Seen(e, c, q),
              after |-> after, mail |-> newMail, colleague |-> newColleague,
              reviewed |-> reviewed]]
       /\ applied' = [applied EXCEPT ![e] = @ + 1]
       /\ UNCHANGED rolledBack

-----------------------------------------------------------------------------
(* process_inbound, as far as the disposition goes *)

\* The email is read, and classified: the model's answer is awaited.
ReadAndClassify(w, e) ==
    /\ worker[w].pc = "idle" /\ runs < MaxRuns
    /\ runs' = runs + 1
    /\ worker' = [worker EXCEPT ![w] = [@ EXCEPT !.pc = "classified", !.email = e, !.handled = handled[e]]]
    /\ UNCHANGED <<profile, rows, admin, sending, requests>>

Leave(w) == worker' = [worker EXCEPT ![w] = IdleWorker(FreshContact)]

\* A doubtful email gets a handoff, and nothing else is done
\* (_ensure_classification_review_handoff).
AskForReview(w) ==
    LET e == worker[w].email IN
    /\ worker[w].pc = "classified"
    /\ D(e).type \in {"CONTACT_IDENTITY_MISMATCH", "UNCERTAIN"}
    /\ desk' = [desk EXCEPT ![e] = IF @.handoff.status = "NONE" THEN OpenDesk ELSE @]
    /\ Leave(w)
    /\ UNCHANGED <<profile, handled, contact, qualified, referral, colleague, replyCase, mail, action,
                   applied, rolledBack, admin, sending, runs, requests>>

\* Mutant: the newest action is not looked for.
LockEmailByColumn(w) ==
    LET e == worker[w].email IN
    /\ worker[w].pc = "classified" /\ ~EmailLocked(e)
    /\ D(e).type \notin {"CONTACT_IDENTITY_MISMATCH", "UNCERTAIN"}
    /\ IF worker[w].handled
       THEN Leave(w)
       ELSE worker' = [worker EXCEPT ![w] =
                [@ EXCEPT !.pc = "resolved", !.contact = contact, !.qualified = qualified]]
    /\ UNCHANGED <<profile, rows, admin, sending, runs, requests>>

\* The email is locked; its own column is still the one read before.
LockEmail(w) ==
    LET e == worker[w].email IN
    /\ worker[w].pc = "classified" /\ ~EmailLocked(e)
    /\ D(e).type \notin {"CONTACT_IDENTITY_MISMATCH", "UNCERTAIN"}
    /\ IF worker[w].handled \/ Active(e)
       THEN Leave(w)
       ELSE worker' = [worker EXCEPT ![w] =
                [@ EXCEPT !.pc = "resolved", !.contact = contact, !.qualified = qualified]]
    /\ UNCHANGED <<profile, rows, admin, sending, runs, requests>>

\* Nothing stands in the way.
ApplyAutomatically(w) ==
    LET e == worker[w].email IN
    /\ worker[w].pc = "resolved" /\ ~ContactLocked
    /\ Blockers(D(e), At(e)) = {} /\ Applies(D(e), At(e))
    /\ \E may \in BOOLEAN : Apply(e, worker[w].contact, worker[w].qualified, may, FALSE)
    /\ Leave(w)
    /\ UNCHANGED <<profile, admin, sending, runs, requests>>

\* A review is needed, or business goes on.
LeaveToOthers(w) ==
    LET e == worker[w].email IN
    /\ worker[w].pc = "resolved" /\ ~ContactLocked
    /\ (Blockers(D(e), At(e)) # {} \/ D(e).type = "BUSINESS")
    /\ Leave(w)
    /\ UNCHANGED <<profile, rows, admin, sending, runs, requests>>

\* Two open cases of the colleague: the function returns without an action row, and the
\* caller's commit keeps what it has written by then.
DepartWithoutAction(w) ==
    LET e == worker[w].email IN
    /\ worker[w].pc = "resolved" /\ ~ContactLocked
    /\ Blockers(D(e), At(e)) = {} /\ ~Applies(D(e), At(e)) /\ D(e).type = "DEPARTED"
    /\ contact' = Written(worker[w].contact, Wanted(D(e), At(e), worker[w].contact))
    /\ referral' = [referral EXCEPT ![e] = SavedReferral(e)]
    /\ Leave(w)
    /\ UNCHANGED <<profile, handled, qualified, colleague, replyCase, mail, desk, action, applied,
                   rolledBack, admin, sending, runs, requests>>

-----------------------------------------------------------------------------
(* The administrator *)

Request == requests < MaxRequests /\ requests' = requests + 1

\* The plan is read, with its token.
Review(e) ==
    /\ admin.pc = "idle" /\ Request
    /\ admin' = [pc |-> "reviewed", email |-> e, contact |-> contact, qualified |-> qualified]
    /\ UNCHANGED <<profile, rows, worker, sending, runs>>

\* The colleague has no contact yet.  If he has, the email is taken for the news of his
\* own departure, which nothing verifies.
StillUnknown(e) == Replies(e) => colleague.by = "nobody"

\* inbound_disposition_apply: with the email locked, the plan must be the reviewed one,
\* and nothing but acknowledged blockers left.
LockReviewed ==
    LET e == admin.email IN
    /\ admin.pc = "reviewed" /\ ~EmailLocked(e)
    /\ admin' = IF /\ admin.contact = contact /\ admin.qualified = qualified
                   /\ ~handled[e] /\ ~Active(e)
                   /\ ApplicationBlockers(D(e), At(e)) = {} /\ Applies(D(e), At(e))
                THEN [admin EXCEPT !.pc = "locked"]
                ELSE IdleAdmin(FreshContact)
    /\ UNCHANGED <<profile, rows, worker, sending, runs, requests>>

\* The customer and the contact are locked by now.  The plan is made anew, of the rows
\* that the session has read before it waited for them.
ApplyReviewed ==
    LET e == admin.email IN
    /\ admin.pc = "locked"
    /\ admin' = IdleAdmin(FreshContact)
    /\ IF StillUnknown(e)
       THEN \E may \in BOOLEAN : Apply(e, admin.contact, admin.qualified, may, TRUE)
       ELSE UNCHANGED rows
    /\ UNCHANGED <<profile, worker, sending, runs, requests>>

\* A column that the action changed still is what the action made it.  The handoff and
\* its job are compared each for itself.
StillAfter(e) ==
    LET a == action[e]
        now == Seen(e, contact, qualified)
    IN
    \A f \in DOMAIN now : a.before[f] # a.after[f] => now[f] = a.after[f]

\* Nobody has used what the action created.
StillUnused(e) ==
    /\ action[e].mail => mail[e] \in {"PENDING", "CANCELLED"}
    /\ action[e].colleague =>
          ~colleague.wrote /\ \A f \in Emails \ {e} : ~(Active(f) /\ (action[f].mail \/ Continues(f)))

\* rollback_disposition_action as far as its verdict.  The message, the referrals and the
\* colleague's contact are in lists, and these are not searched for ids: nothing locks
\* the message and the colleague, and the referrals are safe by the lock of the email.
CheckRollback(e) ==
    /\ admin.pc = "idle" /\ Request
    /\ Active(e) /\ ~EmailLocked(e)
    /\ StillAfter(e) /\ StillUnused(e)
    /\ admin' = [IdleAdmin(FreshContact) EXCEPT !.pc = "checked", !.email = e]
    /\ UNCHANGED <<profile, rows, worker, sending, runs>>

\* What the action changed is restored, what it created is deleted or cancelled.
RollBack ==
    LET e == admin.email
        a == action[e]
        Restored(f, now) == IF a.before[f] # a.after[f] THEN a.before[f] ELSE now
    IN /\ admin.pc = "checked"
       /\ contact' = Restored("contact", contact)
       /\ qualified' = Restored("qualified", qualified)
       /\ replyCase' = [replyCase EXCEPT ![e] = Restored("case", @)]
       /\ desk' = [desk EXCEPT ![e] = [handoff |-> Restored("handoff", @.handoff),
                                       job |-> Restored("job", @.job)]]
       /\ referral' = [referral EXCEPT ![e] = a.before.referral]
       /\ mail' = [mail EXCEPT ![e] = IF a.mail THEN "CANCELLED" ELSE @]
       /\ colleague' = IF a.colleague THEN [by |-> "nobody", wrote |-> FALSE] ELSE colleague
       /\ handled' = [handled EXCEPT ![e] = FALSE]
       /\ action' = [action EXCEPT ![e].status = "ROLLED_BACK"]
       /\ admin' = IdleAdmin(FreshContact)
       /\ rolledBack' = [rolledBack EXCEPT ![e] = @ + 1]
       /\ UNCHANGED <<profile, worker, sending, runs, requests, applied>>

-----------------------------------------------------------------------------
(* The other writers *)

\* The contact is suppressed for another reason: a bounce, a request, an administrator.
Suppress ==
    /\ Request /\ ~ContactLocked
    /\ contact' = [contact EXCEPT !.suppressed = TRUE]
    /\ UNCHANGED <<profile, handled, qualified, referral, colleague, replyCase, mail, desk, action,
                   applied, rolledBack, worker, admin, sending, runs>>

\* A salesperson closes the handoff.
CloseDesk(e) ==
    /\ Request /\ desk[e].handoff.status = "OPEN" /\ ~DeskLocked(e)
    /\ desk' = [desk EXCEPT ![e].handoff = [@ EXCEPT !.status = "RESOLVED", !.by = "human"]]
    /\ UNCHANGED <<profile, handled, contact, qualified, referral, colleague, replyCase, mail, action,
                   applied, rolledBack, worker, admin, sending, runs>>

\* The colleague answers.  (A case of his own would keep his contact from being deleted.)
ColleagueWrites ==
    /\ Request /\ colleague.by \in Emails
    /\ colleague' = [colleague EXCEPT !.wrote = TRUE]
    /\ UNCHANGED <<profile, handled, contact, qualified, referral, replyCase, mail, desk, action,
                   applied, rolledBack, worker, admin, sending, runs>>

\* The case goes on: an email, a message or a quote is added to it.
UseCase(e) ==
    /\ Request /\ replyCase[e] = "joined" /\ ~CaseLocked(e)
    /\ replyCase' = [replyCase EXCEPT ![e] = "used"]
    /\ UNCHANGED <<profile, handled, contact, qualified, referral, colleague, mail, desk, action,
                   applied, rolledBack, worker, admin, sending, runs>>

\* The delivery of the outreach: claimed, transmitted if it is still claimed, recorded
\* whatever the row holds by then (OutboxDelivery).
ClaimMail(e) ==
    /\ mail[e] = "PENDING"
    /\ mail' = [mail EXCEPT ![e] = "CLAIMED"]
    /\ UNCHANGED <<profile, handled, contact, qualified, referral, colleague, replyCase, desk, action,
                   applied, rolledBack, worker, admin, sending, runs, requests>>

StartSending(e) ==
    /\ mail[e] = "CLAIMED" /\ e \notin sending
    /\ sending' = sending \cup {e}
    /\ UNCHANGED <<profile, rows, worker, admin, runs, requests>>

FinishSending(e) ==
    /\ e \in sending
    /\ sending' = sending \ {e}
    /\ mail' = [mail EXCEPT ![e] = "SENT"]
    /\ UNCHANGED <<profile, handled, contact, qualified, referral, colleague, replyCase, desk, action,
                   applied, rolledBack, worker, admin, runs, requests>>

\* notify_handoff: a handoff that is no longer open is not announced.
StartNotice(e) ==
    /\ desk[e].job = "PENDING" /\ ~DeskLocked(e)
    /\ desk' = [desk EXCEPT ![e].job = "RUNNING"]
    /\ UNCHANGED <<profile, handled, contact, qualified, referral, colleague, replyCase, mail, action,
                   applied, rolledBack, worker, admin, sending, runs, requests>>

FinishNotice(e) ==
    /\ desk[e].job = "RUNNING" /\ ~DeskLocked(e)
    /\ LET row    == desk[e].handoff
           notice == IF row.status = "OPEN" \/ row.notice = "SENT" THEN "SENT" ELSE "CANCELLED"
       IN  desk' = [desk EXCEPT ![e] = [handoff |-> [row EXCEPT !.notice = notice], job |-> "DONE"]]
    /\ UNCHANGED <<profile, handled, contact, qualified, referral, colleague, replyCase, mail, action,
                   applied, rolledBack, worker, admin, sending, runs, requests>>

-----------------------------------------------------------------------------
(* Properties *)

\* An email is handled while its newest action stands, and each application but that
\* one has been rolled back: two workers and an administrator never apply it twice.
OneActionPerEmail ==
    \A e \in Emails :
        /\ handled[e] = Active(e)
        /\ Active(e) => applied[e] = rolledBack[e] + 1
        /\ ~Active(e) => applied[e] = rolledBack[e]

\* The contact, the customer, the case, the referrals, the handoff and its job that a
\* rollback restores are at its commit as the action left them: each writer of one of them
\* waits for a lock the rollback holds since its check.  This is not said of the message to
\* the colleague, nor of his contact, which nothing locks: a worker may claim the one, and
\* he may write to us, in between, and the rollback overwrites it.
RollbackSeesNoChange ==
    [][\A e \in Emails :
          (Active(e) /\ action'[e].status = "ROLLED_BACK") => StillAfter(e)]_vars

\* Nothing destructive rests on hearsay: unless an administrator reviewed it, the sender is
\* taken for departed only when the transport proves his own automated reply, and the
\* customer for no target only when the rules recognise it.
NobodyDepartsOnHearsay ==
    \A e \in Emails : (Active(e) /\ ~action[e].reviewed) =>
        /\ (D(e).type = "DEPARTED" /\ At(e).contact = At(e).sender) =>
              /\ D(e).transport
              /\ "departed" \in profile[e].cues \/ (D(e).source = "anthropic" /\ D(e).sure /\ D(e).evidence)
        /\ D(e).type = "NON_TARGET" => "nonTarget" \in profile[e].cues /\ D(e).source # "fallback"

-----------------------------------------------------------------------------
Work(w) ==
    \/ \E e \in Emails : ReadAndClassify(w, e)
    \/ AskForReview(w)
    \/ LockEmail(w)
    \/ ApplyAutomatically(w)
    \/ LeaveToOthers(w)
    \/ DepartWithoutAction(w)

Administer ==
    \/ \E e \in Emails : Review(e) \/ CheckRollback(e)
    \/ LockReviewed
    \/ ApplyReviewed
    \/ RollBack

Others ==
    \/ Suppress
    \/ ColleagueWrites
    \/ \E e \in Emails :
          CloseDesk(e) \/ UseCase(e) \/ ClaimMail(e) \/ StartSending(e) \/ FinishSending(e)
             \/ StartNotice(e) \/ FinishNotice(e)

Next == (\E w \in Workers : Work(w)) \/ Administer \/ Others

Spec == Init /\ [][Next]_vars
=============================================================================
