--------------------------- MODULE InboundProofs ---------------------------
(***************************************************************************)
(* What becomes of an email that comes in: proofs about Dispositions, for  *)
(* any number of workers and emails and for every email that the rules and *)
(* the model may judge, and about MailboxSync (SyncSpec), for any mail,    *)
(* uploads, batch size and daily limit, and any number of failed folders,  *)
(* cut connections, crashes and renumbered folders.                        *)
(*                                                                         *)
(*   DispositionTypes      every row keeps its type                        *)
(*   AppliedOncePerEmail   an email is handled while one application       *)
(*                         stands                                          *)
(*   NoHearsay             what a worker applies rests on more than        *)
(*                         hearsay                                         *)
(*   NothingOverwritten    the rows a rollback locks are as it left them   *)
(*   NothingIsLost         the cursor passes what is stored and started    *)
(*   CampaignsHaveOneCase  answers share the cases of a campaign's message *)
(*   MailboxTypes          cursors, cases and reviews keep their types     *)
(*   NobodyElsesCase       no email joins the case of another party        *)
(*   CasesAreKept          an email that has a case keeps it               *)
(*                                                                         *)
(* The rows' locks are not variables of Dispositions but conditions on who *)
(* is between two steps, so the invariant says what holds between them: a  *)
(* worker that has locked an email finds no action in force, and shares    *)
(* the email with nobody; a rollback that has passed its check finds its   *)
(* action in force, and every column as the action left it.                *)
(*                                                                         *)
(* The poller of MailboxSync ingests an email in one transaction and moves *)
(* its cursor in the next.  The invariant ties them: its batch is what the *)
(* folder has behind the cursor, the email it ingests is the first of that *)
(* batch, and when it is done with it, it is stored and followed up.       *)
(* The cases that emails are given are read before the transaction that    *)
(* writes them, or by the rounds over old mail: the invariant carries that *)
(* a case is one of the email's party through what an ingester has read,   *)
(* and through every step of those rounds.                                 *)
(***************************************************************************)
EXTENDS Dispositions, MailboxSync, SequenceTheorems, FiniteSetTheorems, WellFoundedInduction,
        TLAPS

-----------------------------------------------------------------------------
(* The rules *)

LEMMA RulesNameAType ==
    ASSUME NEW cues PROVE RuleType(cues) \in Types
  BY DEF RuleType, Types

\* Whatever the cues and the answer are, the disposition has a type of the enumeration.
LEMMA EveryEmailHasAType ==
    ASSUME NEW i \in Input PROVE Profile(i).d.type \in Types
<1> DEFINE rule == RuleDisposition(i.cues, i.named)
<1>1. i.ai.type \in Types
  BY DEF Input, Decision
<1>2. rule.type \in Types /\ [rule EXCEPT !.source = "fallback"].type \in Types
  BY RulesNameAType DEF RuleDisposition
<1>3. DecisionToDisposition(i.cues, i.named, i.ai).type \in Types
  <2> DEFINE proposed == IF Authoritative(i.cues) THEN rule.type ELSE i.ai.type
  <2>1. proposed \in Types
    BY <1>1, <1>2
  <2> HIDE DEF proposed
  <2>2. \A referred, list : Corroborated(proposed, i.cues, referred, list) \in Types
    BY <2>1 DEF Corroborated, Types
  <2>3. QED BY <2>2 DEF DecisionToDisposition, proposed
<1>4. Classify(i.cues, i.named, i.ai).type \in Types
  <2> HIDE DEF rule
  <2>1. \/ Classify(i.cues, i.named, i.ai) = rule
        \/ Classify(i.cues, i.named, i.ai) = [rule EXCEPT !.source = "fallback"]
        \/ Classify(i.cues, i.named, i.ai) = DecisionToDisposition(i.cues, i.named, i.ai)
    BY DEF Classify, rule
  <2>2. QED BY <2>1, <1>2, <1>3
<1>5. QED BY <1>4 DEF Profile

\* The rules name a departure, or a customer that is no target, for the cue alone.
LEMMA RulesGoByTheirCues ==
    ASSUME NEW cues
    PROVE  /\ RuleType(cues) = "DEPARTED" => "departed" \in cues
           /\ RuleType(cues) = "NON_TARGET" => "nonTarget" \in cues
  BY DEF RuleType, AutomatedReply

\* A departure, or a customer that is no target, is named by the rules, or by the model;
\* the second only where the rules name it too.
LEMMA WhoSaysSo ==
    ASSUME NEW i \in Input
    PROVE  LET d == Profile(i).d IN
           /\ d.type = "DEPARTED" => "departed" \in i.cues \/ d.source = "anthropic"
           /\ d.type = "NON_TARGET" => "nonTarget" \in i.cues
<1> DEFINE rule == RuleDisposition(i.cues, i.named)
           decided == DecisionToDisposition(i.cues, i.named, i.ai)
<1>1. rule.type = RuleType(i.cues) /\ [rule EXCEPT !.source = "fallback"].type = RuleType(i.cues)
  BY DEF RuleDisposition
<1>2. decided.source = "anthropic"
  BY DEF DecisionToDisposition
<1>3. decided.type = "NON_TARGET" => RuleType(i.cues) = "NON_TARGET"
  <2> DEFINE proposed == IF Authoritative(i.cues) THEN rule.type ELSE i.ai.type
  <2> HIDE DEF proposed
  <2>1. \A referred, list : Corroborated(proposed, i.cues, referred, list) = "NON_TARGET"
                               => RuleType(i.cues) = "NON_TARGET"
    BY DEF Corroborated
  <2>2. QED BY <2>1 DEF DecisionToDisposition, proposed
<1> HIDE DEF rule, decided
<1>4. \/ Profile(i).d = rule
      \/ Profile(i).d = [rule EXCEPT !.source = "fallback"]
      \/ Profile(i).d = decided
  BY DEF Profile, Classify, rule, decided
<1>5. QED BY <1>1, <1>2, <1>3, <1>4, RulesGoByTheirCues

\* A sender whose email answers an outbound message is not the contact it was sent to.
LEMMA ParentsAreOthers ==
    ASSUME NEW i \in Input
    PROVE  LET at == Profile(i).at IN at.parent # "none" => at.contact # at.sender
<1> DEFINE type == Profile(i).d.type
<1>1. Profile(i).at = Resolved(type, i.m)
  BY DEF Profile
<1> HIDE DEF type
<1>2. FoundParent(type, i.m) # "none" => i.m.from = "none"
  BY DEF FoundParent
<1>3. /\ Resolved(type, i.m).sender = i.m.from
      /\ Resolved(type, i.m).parent = FoundParent(type, i.m)
      /\ FoundParent(type, i.m) # "none" => Resolved(type, i.m).contact = "ann"
  BY DEF Resolved
<1>4. QED BY <1>1, <1>2, <1>3

\* build_disposition_plan_data: a departure or a customer that is no target, with nothing in
\* its way, rests on more than hearsay.
LEMMA HearsayBlocked ==
    ASSUME NEW i \in Input, Blockers(Profile(i).d, Profile(i).at) = {}
    PROVE  LET p == Profile(i) IN
           /\ (p.d.type = "DEPARTED" /\ p.at.contact = p.at.sender) =>
                 /\ p.d.transport
                 /\ "departed" \in p.cues \/ (p.d.source = "anthropic" /\ p.d.sure /\ p.d.evidence)
           /\ p.d.type = "NON_TARGET" => "nonTarget" \in p.cues /\ p.d.source # "fallback"
<1> DEFINE p == Profile(i)
<1>1. p.cues = i.cues
  BY DEF Profile
<1> HIDE DEF p
<1>2. ModelBlockers(p.d) = {} /\ TypeBlockers(p.d, p.at) = {}
  BY DEF Blockers, p
<1>3. p.d.type \in {"DEPARTED", "NON_TARGET"} =>
         p.d.source # "fallback" /\ (p.d.source = "anthropic" => p.d.sure /\ p.d.evidence)
  BY <1>2 DEF ModelBlockers, MutatingTypes, When
<1>4. p.d.type = "DEPARTED" => VerifiedOriginal(p.d, p.at)
  BY <1>2 DEF TypeBlockers, DepartureBlockers, When
<1>5. (p.d.type = "DEPARTED" /\ p.at.contact = p.at.sender) => p.d.transport
  BY <1>4, ParentsAreOthers DEF VerifiedOriginal, p
<1>6. /\ p.d.type = "DEPARTED" => "departed" \in p.cues \/ p.d.source = "anthropic"
      /\ p.d.type = "NON_TARGET" => "nonTarget" \in p.cues
  BY <1>1, WhoSaysSo DEF p
<1>7. QED BY <1>3, <1>5, <1>6 DEF p

-----------------------------------------------------------------------------
(* The invariant *)

ProfilesOK == profile \in [Emails -> Profiles]
CountsOK == applied \in [Emails -> Nat] /\ rolledBack \in [Emails -> Nat]

\* Between its two steps, a worker holds an email that nobody has applied, and holds it alone.
WorkersHold ==
    /\ \A w \in Workers : worker[w].pc = "resolved" => ~Active(worker[w].email)
    /\ \A w, v \in Workers :
          (worker[w].pc = "resolved" /\ worker[v].pc = "resolved" /\ w # v)
             => worker[w].email # worker[v].email

\* Between its check and its commit, a rollback has an action to roll back, as it left it.
RollbackHolds ==
    admin.pc = "checked" => Active(admin.email) /\ StillAfter(admin.email)

\* An administrator who applies an email holds it alone, and it can be applied.
ReviewHolds ==
    admin.pc = "locked" =>
        /\ ~Active(admin.email) /\ Applies(D(admin.email), At(admin.email))
        /\ \A w \in Workers : worker[w].pc = "resolved" => worker[w].email # admin.email

\* What stands was applicable, and without an administrator nothing stood in its way.
WasApplicable ==
    \A e \in Emails : Active(e) =>
        /\ Applies(D(e), At(e))
        /\ action[e].reviewed \/ Blockers(D(e), At(e)) = {}

\* The ledger: which application of an email stands, and how many there were.
Ledger == ProfilesOK /\ CountsOK /\ OneActionPerEmail /\ WasApplicable

DispInv == TypeOK /\ Ledger /\ WorkersHold /\ RollbackHolds /\ ReviewHolds

LEMMA ReadInputs == \A i \in Inputs : i \in Input
  BY InputsAreReadable

LEMMA ProfilesHaveTypes ==
    ASSUME ProfilesOK PROVE \A e \in Emails : profile[e].d.type \in Types
<1> SUFFICES ASSUME NEW e \in Emails PROVE profile[e].d.type \in Types
  OBVIOUS
<1>1. PICK i \in Inputs : profile[e] = Profile(i)
  BY DEF ProfilesOK, Profiles
<1>2. QED BY <1>1, ReadInputs, EveryEmailHasAType

LEMMA SomeEmail == NoEmail \in Emails
  BY InputsAreReadable DEF NoEmail

LEMMA FlagsAgree ==
    ASSUME NEW e, handled[e] \in BOOLEAN, handled[e] <=> Active(e)
    PROVE  handled[e] = Active(e)
<1>1. CASE Active(e)
  <2>1. Active(e) = TRUE
    BY <1>1 DEF Active
  <2>2. handled[e] = TRUE
    BY <1>1
  <2>3. QED BY <2>1, <2>2, Zenon
<1>2. CASE ~Active(e)
  <2>1. Active(e) = FALSE
    BY <1>2 DEF Active
  <2>2. handled[e] = FALSE
    BY <1>2
  <2>3. QED BY <2>1, <2>2, Zenon
<1>3. QED BY <1>1, <1>2

LEMMA InitHolds == Init => DispInv
<1> SUFFICES ASSUME Init PROVE DispInv
  OBVIOUS
<1>1. ProfilesOK /\ CountsOK
  BY DEF Init, NothingApplied, ProfilesOK, CountsOK
<1>2. FreshContact \in Contact /\ NoDesk \in Desk /\ OpenDesk \in Desk
  BY DEF FreshContact, Contact, NoDesk, OpenDesk, NoHandoff, Desk, HandoffRow, JobStatus
<1>3. \A e \in Emails : action[e] = NoAction /\ ~Active(e)
  BY DEF Init, NothingApplied, Active, NoAction
<1>4. TypeOK
  <2>1. \A e \in Emails : profile[e].d.type \in Types
    BY <1>1, ProfilesHaveTypes
  <2>2. desk \in [Emails -> Desk]
    BY <1>2 DEF Init, NothingApplied
  <2>3. /\ referral \in [Emails -> ReferralStatus] /\ mail \in [Emails -> MailStatus]
        /\ colleague \in [by : Emails \cup {"nobody", "known"}, wrote : BOOLEAN]
        /\ action \in [Emails -> Action \cup {NoAction}]
    BY DEF Init, NothingApplied, ReferralStatus, MailStatus
  <2>7. replyCase \in [Emails -> CaseStatus]
    BY DEF Init, NothingApplied, CaseStatus
  <2>4. /\ worker \in [Workers -> [pc : {"idle", "classified", "resolved"}, email : Emails,
                                   handled : BOOLEAN, contact : Contact, qualified : BOOLEAN]]
        /\ admin \in [pc : {"idle", "reviewed", "locked", "checked"}, email : Emails, contact : Contact,
                      qualified : BOOLEAN]
    BY <1>2, SomeEmail DEF Init, NothingApplied, IdleWorker, IdleAdmin
  <2>5. /\ handled \in [Emails -> BOOLEAN] /\ qualified \in BOOLEAN
        /\ contact \in Contact /\ sending \subseteq Emails
    BY <1>2 DEF Init, NothingApplied
  <2>8. QED BY <2>1, <2>2, <2>3, <2>4, <2>5, <2>7 DEF TypeOK
<1>5. OneActionPerEmail
  <2>1. ASSUME NEW e \in Emails
        PROVE  handled[e] = FALSE /\ applied[e] = 0 /\ rolledBack[e] = 0 /\ ~Active(e)
    BY <1>3 DEF Init, NothingApplied
  <2>2. ASSUME NEW e \in Emails PROVE handled[e] = Active(e)
    <3>1. handled[e] \in BOOLEAN /\ (handled[e] <=> Active(e))
      BY <2>1
    <3>2. QED BY <3>1, FlagsAgree
  <2>3. QED BY <2>1, <2>2 DEF OneActionPerEmail
<1>6. WorkersHold /\ RollbackHolds /\ ReviewHolds
  BY DEF Init, NothingApplied, WorkersHold, RollbackHolds, ReviewHolds, IdleWorker, IdleAdmin
<1>7. WasApplicable
  BY <1>3 DEF WasApplicable
<1>8. QED BY <1>1, <1>4, <1>5, <1>6, <1>7 DEF DispInv, Ledger

-----------------------------------------------------------------------------
(* What an application does to the rows *)

LEMMA WantsAContact ==
    ASSUME NEW d, NEW at, NEW c \in Contact PROVE Wanted(d, at, c) \in Contact
<1>1. [suppressed |-> TRUE, lifecycle |-> "DEPARTED"] \in Contact
  BY DEF Contact
<1>2. [c EXCEPT !.lifecycle = "TEMPORARILY_UNAVAILABLE"] \in Contact
  BY DEF Contact
<1>3. QED BY <1>1, <1>2 DEF Wanted

LEMMA WritesAContact ==
    ASSUME NEW c \in Contact, NEW k \in Contact, contact \in Contact
    PROVE  Written(c, k) \in Contact
  BY DEF Written, Contact

LEMMA SavesAReferral ==
    ASSUME TypeOK, NEW e \in Emails PROVE SavedReferral(e) \in ReferralStatus
<1>1. referral[e] \in ReferralStatus
  BY DEF TypeOK
<1>2. QED BY <1>1 DEF SavedReferral, ReferralStatus

LEMMA DeskParts ==
    ASSUME NEW k \in Desk
    PROVE  k.handoff \in HandoffRow /\ k.job \in JobStatus /\ k = [handoff |-> k.handoff, job |-> k.job]
  BY DEF Desk

LEMMA ClosesADesk ==
    ASSUME NEW k \in Desk, NEW e
    PROVE  /\ \A h \in HandoffRow : ClosedHandoff(h) \in HandoffRow /\ Informed(e, h) \in HandoffRow
           /\ ClosedJob(k) \in JobStatus
<1>1. ASSUME NEW h \in HandoffRow PROVE ClosedHandoff(h) \in HandoffRow
  BY DEF ClosedHandoff, HandoffRow
<1>2. ASSUME NEW h \in HandoffRow PROVE Informed(e, h) \in HandoffRow
  <2> DEFINE facts == h.facts \/ h.status = "OPEN" \/ (Continues(e) /\ h.status # "NONE")
  <2>1. facts \in BOOLEAN
    OBVIOUS
  <2>2. Informed(e, h) = [h EXCEPT !.facts = facts]
    BY DEF Informed
  <2> HIDE DEF facts
  <2>3. QED BY <2>1, <2>2 DEF HandoffRow
<1>3. ClosedJob(k) \in JobStatus
  BY DeskParts DEF ClosedJob, JobStatus
<1>4. QED BY <1>1, <1>2, <1>3

\* The newest snapshots of an action.
LEMMA Snapshots ==
    ASSUME TypeOK, NEW e \in Emails, NEW c \in Contact, NEW q \in BOOLEAN, NEW may \in BOOLEAN
    PROVE  Seen(e, c, q) \in Snapshot /\ After(e, c, q, may) \in Snapshot
<1>1. /\ desk[e] \in Desk /\ desk[e].handoff \in HandoffRow /\ desk[e].job \in JobStatus
      /\ referral[e] \in ReferralStatus /\ replyCase[e] \in CaseStatus
  BY DeskParts DEF TypeOK
<1>2. Seen(e, c, q) \in Snapshot
  BY <1>1 DEF Seen, Snapshot
<1> DEFINE informed == Informed(e, desk[e].handoff)
           h == IF Terminal(e, q, may) THEN ClosedHandoff(informed) ELSE informed
           j == IF Terminal(e, q, may) THEN ClosedJob(desk[e]) ELSE desk[e].job
           k == IF Continues(e) THEN "joined" ELSE replyCase[e]
           r == IF Outreach(e, q, may) THEN "OUTREACH_QUEUED" ELSE SavedReferral(e)
           w == Wanted(D(e), At(e), c)
           b == IF D(e).type = "NON_TARGET" THEN FALSE ELSE q
<1>3. h \in HandoffRow /\ j \in JobStatus
  BY <1>1, ClosesADesk
<1>4. w \in Contact /\ b \in BOOLEAN /\ k \in CaseStatus /\ r \in ReferralStatus
  BY <1>1, WantsAContact, SavesAReferral DEF ReferralStatus, CaseStatus
<1>5. After(e, c, q, may) = [contact |-> w, qualified |-> b, case |-> k, referral |-> r,
                             handoff |-> h, job |-> j]
  BY DEF After
<1> HIDE DEF informed, h, j, k, r, w, b
<1>6. After(e, c, q, may) \in Snapshot
  BY <1>3, <1>4, <1>5 DEF Snapshot
<1>7. QED BY <1>2, <1>6

LEMMA Decided ==
    ASSUME NEW e, NEW q \in BOOLEAN, NEW may \in BOOLEAN
    PROVE  /\ Terminal(e, q, may) \in BOOLEAN /\ Outreach(e, q, may) \in BOOLEAN
           /\ Replies(e) \in BOOLEAN
<1>1. Outreach(e, q, may) \in BOOLEAN /\ Replies(e) \in BOOLEAN
  BY DEF Outreach, Replies
<1>2. Terminal(e, q, may) \in BOOLEAN
  BY DEF Terminal
<1>3. QED BY <1>1, <1>2

\* The part of TypeOK that an application can disturb.
RowsTyped ==
    /\ handled \in [Emails -> BOOLEAN] /\ qualified \in BOOLEAN /\ contact \in Contact
    /\ referral \in [Emails -> ReferralStatus] /\ mail \in [Emails -> MailStatus]
    /\ colleague \in [by : Emails \cup {"nobody", "known"}, wrote : BOOLEAN]
    /\ replyCase \in [Emails -> CaseStatus]
    /\ desk \in [Emails -> Desk] /\ action \in [Emails -> Action \cup {NoAction}]

PeopleTyped ==
    /\ worker \in [Workers -> [pc : {"idle", "classified", "resolved"}, email : Emails,
                               handled : BOOLEAN, contact : Contact, qualified : BOOLEAN]]
    /\ admin \in [pc : {"idle", "reviewed", "locked", "checked"}, email : Emails, contact : Contact,
                  qualified : BOOLEAN]
    /\ sending \subseteq Emails

LEMMA TypeParts ==
    TypeOK <=> (\A e \in Emails : profile[e].d.type \in Types) /\ RowsTyped /\ PeopleTyped
  BY DEF TypeOK, RowsTyped, PeopleTyped

\* What an application leaves of the email's action, and of the others.
Stands(e, reviewed) ==
    /\ action' = [action EXCEPT ![e] = action'[e]]
    /\ action'[e].status = "APPLIED" /\ action'[e].reviewed = reviewed
    /\ handled' = [handled EXCEPT ![e] = TRUE]
    /\ applied' = [applied EXCEPT ![e] = @ + 1] /\ rolledBack' = rolledBack

LEMMA ApplyStands ==
    ASSUME TypeOK, NEW e \in Emails, NEW c, NEW q, NEW may, NEW reviewed, Apply(e, c, q, may, reviewed)
    PROVE  Stands(e, reviewed)
<1> DEFINE new == [status |-> "APPLIED", terminal |-> Terminal(e, q, may), before |-> Seen(e, c, q),
                   after |-> After(e, c, q, may),
                   mail |-> Outreach(e, q, may) /\ mail[e] = "ABSENT",
                   colleague |-> (Outreach(e, q, may) \/ Replies(e)) /\ colleague.by = "nobody",
                   reviewed |-> reviewed]
<1>1. /\ action' = [action EXCEPT ![e] = new]
      /\ handled' = [handled EXCEPT ![e] = TRUE]
      /\ applied' = [applied EXCEPT ![e] = @ + 1] /\ rolledBack' = rolledBack
  BY DEF Apply
<1>2. new.status = "APPLIED" /\ new.reviewed = reviewed
  OBVIOUS
<1> HIDE DEF new
<1>3. action'[e] = new
  BY <1>1 DEF TypeOK
<1>4. QED BY <1>1, <1>2, <1>3 DEF Stands

LEMMA ApplyTyped ==
    ASSUME TypeOK, NEW e \in Emails, NEW c \in Contact, NEW q \in BOOLEAN, NEW may \in BOOLEAN,
           NEW reviewed \in BOOLEAN, Apply(e, c, q, may, reviewed)
    PROVE  RowsTyped'
<1> DEFINE after == After(e, c, q, may)
           newMail == Outreach(e, q, may) /\ mail[e] = "ABSENT"
           newColleague == (Outreach(e, q, may) \/ Replies(e)) /\ colleague.by = "nobody"
           new == [status |-> "APPLIED", terminal |-> Terminal(e, q, may), before |-> Seen(e, c, q),
                   after |-> after, mail |-> newMail, colleague |-> newColleague,
                   reviewed |-> reviewed]
<1>1. /\ contact' = Written(c, after.contact)
      /\ qualified' = IF after.qualified = q THEN qualified ELSE after.qualified
      /\ referral' = [referral EXCEPT ![e] = after.referral]
      /\ replyCase' = [replyCase EXCEPT ![e] = after.case]
      /\ desk' = [desk EXCEPT ![e] = [handoff |-> after.handoff, job |-> after.job]]
      /\ mail' = [mail EXCEPT ![e] = IF newMail THEN "PENDING" ELSE @]
      /\ colleague' = IF newColleague THEN [by |-> e, wrote |-> FALSE] ELSE colleague
      /\ handled' = [handled EXCEPT ![e] = TRUE]
      /\ action' = [action EXCEPT ![e] = new]
  BY DEF Apply
<1>2. after \in Snapshot /\ Seen(e, c, q) \in Snapshot
  BY Snapshots
<1>3. newMail \in BOOLEAN /\ newColleague \in BOOLEAN /\ Terminal(e, q, may) \in BOOLEAN
  BY Decided
<1> HIDE DEF after, newMail, newColleague
<1>4. new \in Action
  BY <1>2, <1>3 DEF Action
<1> HIDE DEF new
<1>5. /\ after.contact \in Contact /\ after.qualified \in BOOLEAN
      /\ after.referral \in ReferralStatus /\ after.case \in CaseStatus
      /\ [handoff |-> after.handoff, job |-> after.job] \in Desk
  BY <1>2 DEF Snapshot, Desk
<1>6. contact' \in Contact
  BY <1>1, <1>5, WritesAContact DEF TypeOK
<1>7. /\ referral' \in [Emails -> ReferralStatus] /\ desk' \in [Emails -> Desk]
      /\ replyCase' \in [Emails -> CaseStatus]
  BY <1>1, <1>5 DEF TypeOK
<1>8. mail' \in [Emails -> MailStatus]
  BY <1>1 DEF TypeOK, MailStatus
<1>9. /\ colleague' \in [by : Emails \cup {"nobody", "known"}, wrote : BOOLEAN]
      /\ qualified' \in BOOLEAN /\ handled' \in [Emails -> BOOLEAN]
  BY <1>1, <1>5 DEF TypeOK
<1>10. action' \in [Emails -> Action \cup {NoAction}]
  BY <1>1, <1>4 DEF TypeOK
<1>11. QED BY <1>6, <1>7, <1>8, <1>9, <1>10 DEF RowsTyped

-----------------------------------------------------------------------------
(* What each step leaves of the invariant *)

LEMMA TypesFromParts ==
    ASSUME TypeOK, profile' = profile, RowsTyped', PeopleTyped'
    PROVE  TypeOK'
  BY DEF TypeOK, RowsTyped, PeopleTyped

LEMMA LedgerKept ==
    ASSUME Ledger, UNCHANGED <<profile, handled, action, applied, rolledBack>>
    PROVE  Ledger'
<1>1. ProfilesOK' /\ CountsOK'
  BY DEF Ledger, ProfilesOK, CountsOK
<1>2. OneActionPerEmail'
  BY DEF Ledger, OneActionPerEmail, Active
<1>3. WasApplicable'
  BY DEF Ledger, WasApplicable, Active, D, At
<1>4. QED BY <1>1, <1>2, <1>3 DEF Ledger

\* An application of an email that has none standing enters the ledger.
LEMMA LedgerGrows ==
    ASSUME TypeOK, Ledger, NEW e \in Emails, NEW reviewed \in BOOLEAN, Stands(e, reviewed),
           ~Active(e), Applies(D(e), At(e)), reviewed \/ Blockers(D(e), At(e)) = {},
           profile' = profile
    PROVE  Ledger'
<1>1. ProfilesOK' /\ CountsOK'
  BY DEF Ledger, ProfilesOK, CountsOK, Stands
<1>2. \A f \in Emails \ {e} : /\ action'[f] = action[f] /\ handled'[f] = handled[f]
                              /\ applied'[f] = applied[f] /\ rolledBack'[f] = rolledBack[f]
  BY DEF Stands, TypeOK, Ledger, CountsOK
<1>3. /\ action'[e].status = "APPLIED" /\ action'[e].reviewed = reviewed /\ handled'[e] = TRUE
      /\ applied'[e] = applied[e] + 1 /\ rolledBack'[e] = rolledBack[e]
  BY DEF Stands, TypeOK, Ledger, CountsOK
<1>4. OneActionPerEmail'
  <2> SUFFICES ASSUME NEW f \in Emails
               PROVE  /\ handled'[f] = Active(f)'
                      /\ Active(f)' => applied'[f] = rolledBack'[f] + 1
                      /\ ~Active(f)' => applied'[f] = rolledBack'[f]
    BY DEF OneActionPerEmail
  <2>1. CASE f = e
    <3>1. Active(f)' = TRUE
      BY <2>1, <1>3 DEF Active
    <3>2. handled'[f] = TRUE /\ applied'[f] = rolledBack'[f] + 1
      BY <2>1, <1>3 DEF Ledger, OneActionPerEmail
    <3>3. QED BY <3>1, <3>2, Zenon
  <2>2. CASE f # e
    <3>1. action'[f] = action[f] /\ handled'[f] = handled[f] /\ applied'[f] = applied[f]
          /\ rolledBack'[f] = rolledBack[f]
      BY <2>2, <1>2
    <3>2. QED BY <3>1, Zenon DEF Ledger, OneActionPerEmail, Active
  <2>3. QED BY <2>1, <2>2
<1>5. WasApplicable'
  <2> SUFFICES ASSUME NEW f \in Emails, Active(f)'
               PROVE  /\ Applies(D(f), At(f))'
                      /\ action'[f].reviewed \/ (Blockers(D(f), At(f)) = {})'
    BY DEF WasApplicable
  <2>1. D(f)' = D(f) /\ At(f)' = At(f)
    BY DEF D, At
  <2>2. CASE f = e
    BY <2>1, <2>2, <1>3
  <2>3. CASE f # e
    <3>1. action'[f] = action[f] /\ Active(f)
      BY <2>3, <1>2 DEF Active
    <3>2. QED BY <2>1, <3>1 DEF Ledger, WasApplicable
  <2>4. QED BY <2>2, <2>3
<1>6. QED BY <1>1, <1>4, <1>5 DEF Ledger

\* A rollback takes the email's application off it.
LEMMA LedgerShrinks ==
    ASSUME TypeOK, Ledger, NEW e \in Emails, Active(e),
           action' = [action EXCEPT ![e].status = "ROLLED_BACK"],
           handled' = [handled EXCEPT ![e] = FALSE],
           rolledBack' = [rolledBack EXCEPT ![e] = @ + 1],
           UNCHANGED <<profile, applied>>
    PROVE  Ledger'
<1>1. ProfilesOK' /\ CountsOK'
  BY DEF Ledger, ProfilesOK, CountsOK
<1>2. \A f \in Emails \ {e} : /\ action'[f] = action[f] /\ handled'[f] = handled[f]
                              /\ applied'[f] = applied[f] /\ rolledBack'[f] = rolledBack[f]
  BY DEF TypeOK, Ledger, CountsOK
<1>3. action[e] \in Action
  BY DEF TypeOK, Active, NoAction
<1>4. /\ action'[e].status = "ROLLED_BACK" /\ handled'[e] = FALSE
      /\ applied'[e] = applied[e] /\ rolledBack'[e] = rolledBack[e] + 1
  BY <1>3 DEF TypeOK, Ledger, CountsOK, Action
<1>5. OneActionPerEmail'
  <2> SUFFICES ASSUME NEW f \in Emails
               PROVE  /\ handled'[f] = Active(f)'
                      /\ Active(f)' => applied'[f] = rolledBack'[f] + 1
                      /\ ~Active(f)' => applied'[f] = rolledBack'[f]
    BY DEF OneActionPerEmail
  <2>1. CASE f = e
    <3>1. Active(f)' = FALSE
      BY <2>1, <1>4 DEF Active
    <3>2. handled'[f] = FALSE /\ applied'[f] = rolledBack'[f]
      BY <2>1, <1>4 DEF Ledger, OneActionPerEmail
    <3>3. QED BY <3>1, <3>2, Zenon
  <2>2. CASE f # e
    <3>1. action'[f] = action[f] /\ handled'[f] = handled[f] /\ applied'[f] = applied[f]
          /\ rolledBack'[f] = rolledBack[f]
      BY <2>2, <1>2
    <3>2. QED BY <3>1, Zenon DEF Ledger, OneActionPerEmail, Active
  <2>3. QED BY <2>1, <2>2
<1>6. WasApplicable'
  <2> SUFFICES ASSUME NEW f \in Emails, Active(f)'
               PROVE  /\ Applies(D(f), At(f))'
                      /\ action'[f].reviewed \/ (Blockers(D(f), At(f)) = {})'
    BY DEF WasApplicable
  <2>1. D(f)' = D(f) /\ At(f)' = At(f)
    BY DEF D, At
  <2>2. f # e
    BY <1>4 DEF Active
  <2>3. action'[f] = action[f] /\ Active(f)
    BY <2>2, <1>2 DEF Active
  <2>4. QED BY <2>1, <2>3 DEF Ledger, WasApplicable
<1>7. QED BY <1>1, <1>5, <1>6 DEF Ledger

\* The step applies no email that one of these workers has locked.
FreeAmong(W) ==
    \A v \in W : worker[v].pc = "resolved" => action'[worker[v].email].status # "APPLIED"

\* A worker that lets its email go disturbs none of the others.
LEMMA HoldersKept ==
    ASSUME TypeOK, WorkersHold, NEW w \in Workers, NEW x, x.pc # "resolved",
           worker' = [worker EXCEPT ![w] = x],
           FreeAmong(Workers \ {w})
    PROVE  WorkersHold'
<1>1. worker'[w] = x /\ \A v \in Workers \ {w} : worker'[v] = worker[v]
  BY DEF TypeOK
<1>2. \A v \in Workers : worker'[v].pc = "resolved" => v # w /\ worker'[v] = worker[v]
  BY <1>1
<1>3. \A v \in Workers : worker'[v].pc = "resolved" => action'[worker'[v].email].status # "APPLIED"
  BY <1>2 DEF FreeAmong
<1>4. QED BY <1>2, <1>3 DEF WorkersHold, Active

LEMMA HoldersUntouched ==
    ASSUME WorkersHold, worker' = worker,
           FreeAmong(Workers)
    PROVE  WorkersHold'
  BY DEF WorkersHold, Active, FreeAmong

\* What a rollback has checked stays while it holds its locks.
LEMMA CheckKept ==
    ASSUME RollbackHolds, admin' = admin,
           admin.pc = "checked" =>
              /\ action'[admin.email] = action[admin.email]
              /\ contact' = contact /\ qualified' = qualified
              /\ desk'[admin.email] = desk[admin.email]
              /\ referral'[admin.email] = referral[admin.email]
              /\ replyCase'[admin.email] = replyCase[admin.email]
    PROVE  RollbackHolds'
<1> SUFFICES ASSUME admin.pc = "checked" PROVE Active(admin.email)' /\ StillAfter(admin.email)'
  BY DEF RollbackHolds
<1>1. Active(admin.email) /\ StillAfter(admin.email)
  BY DEF RollbackHolds
<1>2. Active(admin.email)'
  BY <1>1 DEF Active
<1>3. Seen(admin.email, contact, qualified)' = Seen(admin.email, contact, qualified)
  BY DEF Seen
<1>4. StillAfter(admin.email)'
  BY <1>1, <1>3 DEF StillAfter
<1>5. QED BY <1>2, <1>4

LEMMA NobodyChecks ==
    ASSUME admin'.pc # "checked" PROVE RollbackHolds'
  BY DEF RollbackHolds

\* And so does what he has locked to apply it.
LEMMA ReviewKept ==
    ASSUME ReviewHolds, UNCHANGED <<profile, admin>>,
           admin.pc = "locked" =>
              /\ action'[admin.email] = action[admin.email]
              /\ \A w \in Workers : worker'[w].pc = "resolved" => worker'[w].email # admin.email
    PROVE  ReviewHolds'
<1> SUFFICES ASSUME admin.pc = "locked"
             PROVE  /\ ~Active(admin.email)' /\ Applies(D(admin.email), At(admin.email))'
                    /\ \A w \in Workers : worker'[w].pc = "resolved" => worker'[w].email # admin.email
  BY DEF ReviewHolds
<1>1. ~Active(admin.email) /\ Applies(D(admin.email), At(admin.email))
  BY DEF ReviewHolds
<1>2. ~Active(admin.email)'
  BY <1>1 DEF Active
<1>3. D(admin.email)' = D(admin.email) /\ At(admin.email)' = At(admin.email)
  BY DEF D, At
<1>4. QED BY <1>1, <1>2, <1>3

LEMMA NobodyApplies ==
    ASSUME admin'.pc # "locked" PROVE ReviewHolds'
  BY DEF ReviewHolds

\* A worker that begins, or lets its email go, leaves it too.
LEMMA ReviewUntouched ==
    ASSUME TypeOK, ReviewHolds, UNCHANGED <<profile, admin>>, NEW w \in Workers, NEW x,
           x.pc # "resolved", worker' = [worker EXCEPT ![w] = x],
           admin.pc = "locked" => action'[admin.email] = action[admin.email]
    PROVE  ReviewHolds'
<1>1. worker'[w] = x /\ \A v \in Workers \ {w} : worker'[v] = worker[v]
  BY DEF TypeOK
<1>2. ASSUME admin.pc = "locked", NEW v \in Workers, worker'[v].pc = "resolved"
      PROVE  worker'[v].email # admin.email
  <2>1. v # w
    BY <1>1, <1>2
  <2>2. QED BY <1>1, <1>2, <2>1 DEF ReviewHolds
<1>3. QED BY <1>2, ReviewKept

-----------------------------------------------------------------------------
(* The workers *)

LEMMA WorkerRecords ==
    ASSUME TypeOK, NEW w \in Workers
    PROVE  /\ worker[w] \in [pc : {"idle", "classified", "resolved"}, email : Emails,
                             handled : BOOLEAN, contact : Contact, qualified : BOOLEAN]
           /\ worker[w].email \in Emails
  BY DEF TypeOK

LEMMA IdleRecords ==
    /\ IdleWorker(FreshContact) \in [pc : {"idle", "classified", "resolved"}, email : Emails,
                                     handled : BOOLEAN, contact : Contact, qualified : BOOLEAN]
    /\ IdleWorker(FreshContact).pc = "idle"
    /\ IdleAdmin(FreshContact) \in [pc : {"idle", "reviewed", "locked", "checked"}, email : Emails,
                                    contact : Contact, qualified : BOOLEAN]
    /\ IdleAdmin(FreshContact).pc = "idle"
<1>1. FreshContact \in Contact
  BY DEF FreshContact, Contact
<1>2. QED BY <1>1, SomeEmail DEF IdleWorker, IdleAdmin

LEMMA LeavesTyped ==
    ASSUME TypeOK, NEW w \in Workers, Leave(w), UNCHANGED <<admin, sending>>
    PROVE  PeopleTyped'
  BY IdleRecords DEF TypeOK, PeopleTyped, Leave

LEMMA LeavesHolders ==
    ASSUME TypeOK, WorkersHold, NEW w \in Workers, Leave(w), action' = action
    PROVE  WorkersHold'
<1>1. FreeAmong(Workers \ {w})
  BY DEF WorkersHold, Active, FreeAmong
<1>2. QED BY <1>1, IdleRecords, HoldersKept DEF Leave

LEMMA LeavesReview ==
    ASSUME TypeOK, ReviewHolds, NEW w \in Workers, Leave(w), UNCHANGED <<profile, admin>>,
           admin.pc = "locked" => action'[admin.email] = action[admin.email]
    PROVE  ReviewHolds'
  BY IdleRecords, ReviewUntouched DEF Leave

LEMMA ReadAndClassifyStep ==
    ASSUME DispInv, NEW w \in Workers, NEW e \in Emails, ReadAndClassify(w, e)
    PROVE  DispInv'
<1> USE DEF DispInv
<1> DEFINE x == [worker[w] EXCEPT !.pc = "classified", !.email = e, !.handled = handled[e]]
<1>1. /\ worker' = [worker EXCEPT ![w] = x]
      /\ UNCHANGED <<profile, handled, contact, qualified, referral, colleague, replyCase, mail, desk, action,
                     applied, rolledBack, admin, sending>>
  BY DEF ReadAndClassify, rows
<1>2. /\ x \in [pc : {"idle", "classified", "resolved"}, email : Emails,
                handled : BOOLEAN, contact : Contact, qualified : BOOLEAN]
      /\ x.pc # "resolved"
  BY WorkerRecords DEF TypeOK
<1> HIDE DEF x
<1>3. TypeOK'
  <2>1. RowsTyped'
    BY <1>1, TypeParts DEF RowsTyped
  <2>2. PeopleTyped'
    BY <1>1, <1>2 DEF TypeOK, PeopleTyped
  <2>3. QED BY <1>1, <2>1, <2>2, TypesFromParts
<1>4. Ledger'
  BY <1>1, LedgerKept
<1>5. WorkersHold'
  <2>1. FreeAmong(Workers \ {w})
    BY <1>1 DEF WorkersHold, Active, FreeAmong
  <2>2. QED BY <1>1, <1>2, <2>1, HoldersKept
<1>6. RollbackHolds' /\ ReviewHolds'
  BY <1>1, <1>2, CheckKept, ReviewUntouched
<1>7. QED BY <1>3, <1>4, <1>5, <1>6

\* What stands was applicable, and these types are not.
LEMMA NeverInDoubt ==
    ASSUME Ledger, NEW e \in Emails, Active(e)
    PROVE  D(e).type \notin {"CONTACT_IDENTITY_MISMATCH", "UNCERTAIN"}
<1>1. Applies(D(e), At(e))
  BY DEF Ledger, WasApplicable
<1>2. QED BY <1>1 DEF Applies

LEMMA AskForReviewStep ==
    ASSUME DispInv, NEW w \in Workers, AskForReview(w)
    PROVE  DispInv'
<1> USE DEF DispInv
<1> DEFINE e == worker[w].email
<1>1. /\ Leave(w)
      /\ D(e).type \in {"CONTACT_IDENTITY_MISMATCH", "UNCERTAIN"}
      /\ desk' = [desk EXCEPT ![e] = IF @.handoff.status = "NONE" THEN OpenDesk ELSE @]
      /\ UNCHANGED <<profile, handled, contact, qualified, referral, colleague, replyCase, mail, action,
                     applied, rolledBack, admin, sending>>
  BY DEF AskForReview
<1>2. e \in Emails
  BY WorkerRecords
<1> HIDE DEF e
<1>3. TypeOK'
  <2>1. OpenDesk \in Desk
    BY DEF OpenDesk, NoHandoff, Desk, HandoffRow, JobStatus
  <2>2. desk' \in [Emails -> Desk]
    BY <1>1, <2>1 DEF TypeOK
  <2>3. RowsTyped'
    BY <1>1, <2>2, TypeParts DEF RowsTyped
  <2>4. QED BY <1>1, <2>3, LeavesTyped, TypesFromParts
<1>4. Ledger'
  BY <1>1, LedgerKept
<1>5. WorkersHold'
  BY <1>1, LeavesHolders
<1>6. RollbackHolds'
  <2>1. ASSUME admin.pc = "checked" PROVE desk'[admin.email] = desk[admin.email]
    <3>1. Active(admin.email) /\ admin.email \in Emails
      BY <2>1 DEF RollbackHolds, TypeOK
    <3>2. admin.email # e
      BY <1>1, <3>1, NeverInDoubt
    <3>3. QED BY <1>1, <3>1, <3>2 DEF TypeOK
  <2>2. QED BY <1>1, <2>1, CheckKept
<1>7. ReviewHolds'
  BY <1>1, LeavesReview
<1>8. QED BY <1>3, <1>4, <1>5, <1>6, <1>7

LEMMA LockEmailStep ==
    ASSUME DispInv, NEW w \in Workers, LockEmail(w)
    PROVE  DispInv'
<1> USE DEF DispInv
<1> DEFINE e == worker[w].email
           x == [worker[w] EXCEPT !.pc = "resolved", !.contact = contact, !.qualified = qualified]
<1>1. /\ ~EmailLocked(e)
      /\ UNCHANGED <<profile, handled, contact, qualified, referral, colleague, replyCase, mail, desk, action,
                     applied, rolledBack, admin, sending>>
  BY DEF LockEmail, rows
<1>2. \/ Leave(w)
      \/ ~Active(e) /\ worker' = [worker EXCEPT ![w] = x]
  BY DEF LockEmail
<1>3. /\ x \in [pc : {"idle", "classified", "resolved"}, email : Emails,
                handled : BOOLEAN, contact : Contact, qualified : BOOLEAN]
      /\ x.email = e /\ e \in Emails
  BY WorkerRecords DEF TypeOK
<1> HIDE DEF x, e
<1>4. RowsTyped'
  BY <1>1, TypeParts DEF RowsTyped
<1>5. Ledger' /\ RollbackHolds'
  BY <1>1, LedgerKept, CheckKept
<1>6. CASE Leave(w)
  <2>1. PeopleTyped'
    BY <1>1, <1>6, LeavesTyped
  <2>2. WorkersHold'
    BY <1>1, <1>6, LeavesHolders
  <2>3. TypeOK'
    BY <1>1, <1>4, <2>1, TypesFromParts
  <2>4. ReviewHolds'
    BY <1>1, <1>6, LeavesReview
  <2>5. QED BY <1>5, <2>2, <2>3, <2>4
<1>7. CASE ~Active(e) /\ worker' = [worker EXCEPT ![w] = x]
  <2>1. PeopleTyped'
    BY <1>1, <1>3, <1>7 DEF TypeOK, PeopleTyped
  <2>2. worker'[w] = x /\ \A v \in Workers \ {w} : worker'[v] = worker[v]
    BY <1>7 DEF TypeOK
  <2>3. \A v \in Workers : worker[v].pc = "resolved" => worker[v].email # e
    BY <1>1 DEF EmailLocked
  <2>4. ASSUME NEW v \in Workers, worker'[v].pc = "resolved"
        PROVE  action'[worker'[v].email].status # "APPLIED"
    <3>1. CASE v = w
      BY <1>1, <1>3, <1>7, <2>2, <3>1 DEF Active
    <3>2. CASE v # w
      BY <1>1, <2>2, <2>4, <3>2 DEF WorkersHold, Active
    <3>3. QED BY <3>1, <3>2
  <2>5. ASSUME NEW v \in Workers, NEW u \in Workers, worker'[v].pc = "resolved",
               worker'[u].pc = "resolved", v # u
        PROVE  worker'[v].email # worker'[u].email
    BY <1>3, <2>2, <2>3, <2>5 DEF WorkersHold
  <2>6. WorkersHold'
    BY <2>4, <2>5 DEF WorkersHold, Active
  <2>7. TypeOK'
    BY <1>1, <1>4, <2>1, TypesFromParts
  <2>8. ReviewHolds'
    <3> SUFFICES ASSUME admin.pc = "locked", NEW v \in Workers, worker'[v].pc = "resolved"
                 PROVE  worker'[v].email # admin.email
      BY <1>1, ReviewKept
    <3>1. admin.email # e
      BY <1>1 DEF EmailLocked
    <3>2. CASE v = w
      BY <1>3, <2>2, <3>1, <3>2
    <3>3. CASE v # w
      BY <2>2, <3>3 DEF ReviewHolds
    <3>4. QED BY <3>2, <3>3
  <2>9. QED BY <1>5, <2>6, <2>7, <2>8
<1>8. QED BY <1>2, <1>6, <1>7

\* Nobody else holds the email of a worker that applies it.
LEMMA OthersHoldOthers ==
    ASSUME TypeOK, WorkersHold, NEW w \in Workers, worker[w].pc = "resolved",
           NEW reviewed, Stands(worker[w].email, reviewed)
    PROVE  FreeAmong(Workers \ {w})
<1> SUFFICES ASSUME NEW v \in Workers \ {w}, worker[v].pc = "resolved"
             PROVE  action'[worker[v].email].status # "APPLIED"
  BY DEF FreeAmong
<1>1. worker[v].email # worker[w].email /\ ~Active(worker[v].email)
  BY DEF WorkersHold
<1>2. worker[v].email \in Emails
  BY WorkerRecords
<1>3. action'[worker[v].email] = action[worker[v].email]
  BY <1>1, <1>2 DEF Stands, TypeOK
<1>4. QED BY <1>1, <1>3 DEF Active

LEMMA ApplyAutomaticallyStep ==
    ASSUME DispInv, NEW w \in Workers, ApplyAutomatically(w)
    PROVE  DispInv'
<1> USE DEF DispInv
<1> DEFINE e == worker[w].email
<1>1. /\ worker[w].pc = "resolved" /\ admin.pc # "checked"
      /\ Blockers(D(e), At(e)) = {} /\ Applies(D(e), At(e))
      /\ \E may \in BOOLEAN : Apply(e, worker[w].contact, worker[w].qualified, may, FALSE)
      /\ Leave(w)
      /\ UNCHANGED <<profile, admin, sending>>
  BY DEF ApplyAutomatically, ContactLocked
<1>2. /\ e \in Emails /\ worker[w].contact \in Contact /\ worker[w].qualified \in BOOLEAN
  BY WorkerRecords
<1>3. ~Active(e)
  BY <1>1 DEF WorkersHold
<1>4. WorkersHold => FreeAmong(Workers \ {w})
  <2>1. Stands(worker[w].email, FALSE)
    BY <1>1, <1>2, ApplyStands
  <2>2. QED BY <1>1, <2>1, OthersHoldOthers
<1> HIDE DEF e
<1>5. Stands(e, FALSE) /\ RowsTyped'
  BY <1>1, <1>2, ApplyStands, ApplyTyped
<1>6. TypeOK'
  BY <1>1, <1>5, LeavesTyped, TypesFromParts
<1>7. Ledger'
  BY <1>1, <1>2, <1>3, <1>5, LedgerGrows
<1>8. WorkersHold'
  BY <1>1, <1>4, IdleRecords, HoldersKept DEF Leave
<1>9. RollbackHolds'
  BY <1>1, NobodyChecks
<1>10. ReviewHolds'
  <2>1. ASSUME admin.pc = "locked" PROVE action'[admin.email] = action[admin.email]
    <3>1. e # admin.email /\ admin.email \in Emails
      BY <1>1, <2>1 DEF ReviewHolds, TypeOK, e
    <3>2. QED BY <1>5, <3>1 DEF Stands, TypeOK
  <2>2. QED BY <1>1, <2>1, LeavesReview
<1>11. QED BY <1>6, <1>7, <1>8, <1>9, <1>10

LEMMA LeaveToOthersStep ==
    ASSUME DispInv, NEW w \in Workers, LeaveToOthers(w)
    PROVE  DispInv'
<1> USE DEF DispInv
<1>1. /\ Leave(w)
      /\ UNCHANGED <<profile, handled, contact, qualified, referral, colleague, replyCase, mail, desk, action,
                     applied, rolledBack, admin, sending>>
  BY DEF LeaveToOthers, rows
<1>2. RowsTyped'
  BY <1>1, TypeParts DEF RowsTyped
<1>3. TypeOK'
  BY <1>1, <1>2, LeavesTyped, TypesFromParts
<1>4. QED BY <1>1, <1>3, LedgerKept, LeavesHolders, CheckKept, LeavesReview

LEMMA DepartWithoutActionStep ==
    ASSUME DispInv, NEW w \in Workers, DepartWithoutAction(w)
    PROVE  DispInv'
<1> USE DEF DispInv
<1> DEFINE e == worker[w].email
           c == worker[w].contact
<1>1. /\ Leave(w) /\ admin.pc # "checked"
      /\ contact' = Written(c, Wanted(D(e), At(e), c))
      /\ referral' = [referral EXCEPT ![e] = SavedReferral(e)]
      /\ UNCHANGED <<profile, handled, qualified, colleague, replyCase, mail, desk, action, applied, rolledBack,
                     admin, sending>>
  BY DEF DepartWithoutAction, ContactLocked
<1>2. e \in Emails /\ c \in Contact
  BY WorkerRecords
<1> HIDE DEF e, c
<1>3. contact' \in Contact
  BY <1>1, <1>2, WantsAContact, WritesAContact DEF TypeOK
<1>4. referral' \in [Emails -> ReferralStatus]
  BY <1>1, <1>2, SavesAReferral DEF TypeOK
<1>5. RowsTyped'
  BY <1>1, <1>3, <1>4, TypeParts DEF RowsTyped
<1>6. TypeOK'
  BY <1>1, <1>5, LeavesTyped, TypesFromParts
<1>7. QED BY <1>1, <1>6, LedgerKept, LeavesHolders, NobodyChecks, LeavesReview

LEMMA WorkStep ==
    ASSUME DispInv, NEW w \in Workers, Work(w)
    PROVE  DispInv'
  BY ReadAndClassifyStep, AskForReviewStep, LockEmailStep, ApplyAutomaticallyStep,
     LeaveToOthersStep, DepartWithoutActionStep DEF Work

-----------------------------------------------------------------------------
(* The administrator *)

LEMMA ReviewStep ==
    ASSUME DispInv, NEW e \in Emails, Review(e)
    PROVE  DispInv'
<1> USE DEF DispInv
<1>1. /\ admin' = [pc |-> "reviewed", email |-> e, contact |-> contact, qualified |-> qualified]
      /\ UNCHANGED <<profile, handled, contact, qualified, referral, colleague, replyCase, mail, desk, action,
                     applied, rolledBack, worker, sending>>
  BY DEF Review, rows
<1>2. RowsTyped' /\ PeopleTyped'
  BY <1>1 DEF TypeOK, RowsTyped, PeopleTyped
<1>3. TypeOK'
  BY <1>1, <1>2, TypesFromParts
<1>4. WorkersHold'
  BY <1>1, HoldersUntouched DEF WorkersHold, Active, FreeAmong
<1>5. QED BY <1>1, <1>3, <1>4, LedgerKept, NobodyChecks, NobodyApplies

LEMMA LockReviewedStep ==
    ASSUME DispInv, LockReviewed
    PROVE  DispInv'
<1> USE DEF DispInv
<1>0. PICK e \in Emails : e = admin.email
  BY DEF TypeOK
<1>1. /\ ~EmailLocked(e)
      /\ UNCHANGED <<profile, handled, contact, qualified, referral, colleague, replyCase, mail, desk, action,
                     applied, rolledBack, worker, sending>>
  BY <1>0 DEF LockReviewed, rows
<1>2. \/ admin' = IdleAdmin(FreshContact)
      \/ ~Active(e) /\ Applies(D(e), At(e)) /\ admin' = [admin EXCEPT !.pc = "locked"]
  BY <1>0 DEF LockReviewed
<1>3. \A v \in Workers : worker[v].pc = "resolved" => worker[v].email # e
  BY <1>1 DEF EmailLocked
<1>4. /\ admin' \in [pc : {"idle", "reviewed", "locked", "checked"}, email : Emails,
                     contact : Contact, qualified : BOOLEAN]
      /\ admin'.pc # "checked"
      /\ admin'.pc = "locked" => admin'.email = e /\ ~Active(e) /\ Applies(D(e), At(e))
  BY <1>0, <1>2, IdleRecords DEF TypeOK
<1>5. RowsTyped' /\ PeopleTyped'
  BY <1>1, <1>4 DEF TypeOK, RowsTyped, PeopleTyped
<1>6. TypeOK'
  BY <1>1, <1>5, TypesFromParts
<1>7. WorkersHold'
  BY <1>1, HoldersUntouched DEF WorkersHold, Active, FreeAmong
<1>8. ReviewHolds'
  <2> SUFFICES ASSUME admin'.pc = "locked"
               PROVE  /\ ~Active(admin.email)' /\ Applies(D(admin.email), At(admin.email))'
                      /\ \A v \in Workers : worker'[v].pc = "resolved" => worker'[v].email # admin'.email
    BY DEF ReviewHolds
  <2>1. admin'.email = e /\ ~Active(e) /\ Applies(D(e), At(e))
    BY <1>4
  <2>2. ~Active(admin.email)'
    BY <1>1, <2>1 DEF Active
  <2>3. D(admin.email)' = D(e) /\ At(admin.email)' = At(e)
    BY <1>1, <2>1 DEF D, At
  <2>4. QED BY <1>1, <1>3, <2>1, <2>2, <2>3
<1>9. QED BY <1>1, <1>4, <1>6, <1>7, <1>8, LedgerKept, NobodyChecks

LEMMA ApplyReviewedStep ==
    ASSUME DispInv, ApplyReviewed
    PROVE  DispInv'
<1> USE DEF DispInv
<1> DEFINE e == admin.email
           c == admin.contact
           q == admin.qualified
<1>1. /\ admin.pc = "locked" /\ admin' = IdleAdmin(FreshContact)
      /\ UNCHANGED <<profile, worker, sending>>
  BY DEF ApplyReviewed
<1>2. \/ \E may \in BOOLEAN : Apply(e, c, q, may, TRUE)
      \/ UNCHANGED <<handled, contact, qualified, referral, colleague, replyCase, mail, desk, action, applied,
                     rolledBack>>
  BY DEF ApplyReviewed, rows
<1>3. e \in Emails /\ c \in Contact /\ q \in BOOLEAN
  BY DEF TypeOK
<1>9. /\ ~Active(e) /\ Applies(D(e), At(e))
      /\ \A v \in Workers : worker[v].pc = "resolved" => worker[v].email # e
  BY <1>1 DEF ReviewHolds
<1> HIDE DEF e, c, q
<1>4. PeopleTyped'
  BY <1>1, IdleRecords DEF TypeOK, PeopleTyped
<1>5. RollbackHolds' /\ ReviewHolds'
  BY <1>1, IdleRecords, NobodyChecks, NobodyApplies
<1>6. CASE \E may \in BOOLEAN : Apply(e, c, q, may, TRUE)
  <2>1. Stands(e, TRUE) /\ RowsTyped'
    BY <1>3, <1>6, ApplyStands, ApplyTyped
  <2>2. TypeOK'
    BY <1>1, <1>4, <2>1, TypesFromParts
  <2>3. Ledger'
    BY <1>1, <1>3, <1>9, <2>1, LedgerGrows
  <2>4. FreeAmong(Workers)
    <3> SUFFICES ASSUME NEW v \in Workers, worker[v].pc = "resolved"
                 PROVE  action'[worker[v].email].status # "APPLIED"
      BY DEF FreeAmong
    <3>1. worker[v].email # e /\ ~Active(worker[v].email) /\ worker[v].email \in Emails
      BY <1>9, WorkerRecords DEF WorkersHold
    <3>2. action'[worker[v].email] = action[worker[v].email]
      BY <2>1, <3>1 DEF Stands, TypeOK
    <3>3. QED BY <3>1, <3>2 DEF Active
  <2>5. QED BY <1>1, <1>5, <2>2, <2>3, <2>4, HoldersUntouched
<1>7. CASE UNCHANGED <<handled, contact, qualified, referral, colleague, replyCase, mail, desk, action, applied,
                       rolledBack>>
  <2>1. RowsTyped'
    BY <1>7, TypeParts DEF RowsTyped
  <2>2. TypeOK'
    BY <1>1, <1>4, <2>1, TypesFromParts
  <2>3. WorkersHold'
    BY <1>1, <1>7, HoldersUntouched DEF WorkersHold, Active, FreeAmong
  <2>4. QED BY <1>1, <1>5, <1>7, <2>2, <2>3, LedgerKept
<1>8. QED BY <1>2, <1>6, <1>7

LEMMA CheckRollbackStep ==
    ASSUME DispInv, NEW e \in Emails, CheckRollback(e)
    PROVE  DispInv'
<1> USE DEF DispInv
<1>1. /\ Active(e) /\ StillAfter(e)
      /\ admin' = [IdleAdmin(FreshContact) EXCEPT !.pc = "checked", !.email = e]
      /\ UNCHANGED <<profile, handled, contact, qualified, referral, colleague, replyCase, mail, desk, action,
                     applied, rolledBack, worker, sending>>
  BY DEF CheckRollback, rows
<1>2. /\ admin' \in [pc : {"idle", "reviewed", "locked", "checked"}, email : Emails, contact : Contact,
                     qualified : BOOLEAN]
      /\ admin'.email = e
  BY <1>1, IdleRecords
<1>3. RowsTyped' /\ PeopleTyped'
  BY <1>1, <1>2 DEF TypeOK, RowsTyped, PeopleTyped
<1>4. TypeOK'
  BY <1>1, <1>3, TypesFromParts
<1>5. WorkersHold'
  BY <1>1, HoldersUntouched DEF WorkersHold, Active, FreeAmong
<1>6. RollbackHolds'
  <2>1. Active(admin.email)'
    BY <1>1, <1>2 DEF Active
  <2>2. Seen(e, contact, qualified)' = Seen(e, contact, qualified)
    BY <1>1 DEF Seen
  <2>3. StillAfter(e)'
    BY <1>1, <2>2 DEF StillAfter
  <2>4. StillAfter(admin.email)'
    BY <1>2, <2>3 DEF StillAfter, Seen
  <2>5. QED BY <2>1, <2>4 DEF RollbackHolds
<1>7. admin'.pc = "checked"
  BY <1>1, IdleRecords
<1>8. QED BY <1>1, <1>4, <1>5, <1>6, <1>7, LedgerKept, NobodyApplies

LEMMA ActiveIsAction ==
    ASSUME TypeOK, NEW e \in Emails, Active(e)
    PROVE  /\ action[e] \in Action
           /\ action[e].before \in Snapshot /\ action[e].after \in Snapshot
<1>1. action[e] \in Action
  BY DEF TypeOK, Active, NoAction
<1>2. QED BY <1>1 DEF Action

LEMMA RollBackStep ==
    ASSUME DispInv, RollBack
    PROVE  DispInv'
<1> USE DEF DispInv
<1> DEFINE e == admin.email
           a == action[e]
           Restored(f, now) == IF a.before[f] # a.after[f] THEN a.before[f] ELSE now
           h == IF a.before.handoff # a.after.handoff THEN a.before.handoff ELSE desk[e].handoff
           j == IF a.before.job # a.after.job THEN a.before.job ELSE desk[e].job
           k == IF a.before.case # a.after.case THEN a.before.case ELSE replyCase[e]
<1>1. /\ admin.pc = "checked"
      /\ contact' = IF a.before.contact # a.after.contact THEN a.before.contact ELSE contact
      /\ qualified' = IF a.before.qualified # a.after.qualified THEN a.before.qualified ELSE qualified
      /\ replyCase' = [replyCase EXCEPT ![e] = k]
      /\ desk' = [desk EXCEPT ![e] = [handoff |-> h, job |-> j]]
      /\ referral' = [referral EXCEPT ![e] = a.before.referral]
      /\ mail' = [mail EXCEPT ![e] = IF a.mail THEN "CANCELLED" ELSE @]
      /\ colleague' = IF a.colleague THEN [by |-> "nobody", wrote |-> FALSE] ELSE colleague
      /\ handled' = [handled EXCEPT ![e] = FALSE]
      /\ action' = [action EXCEPT ![e].status = "ROLLED_BACK"]
      /\ admin' = IdleAdmin(FreshContact)
      /\ rolledBack' = [rolledBack EXCEPT ![e] = @ + 1]
      /\ UNCHANGED <<profile, worker, sending, applied>>
  BY DEF RollBack
<1>2. e \in Emails /\ Active(e)
  BY <1>1 DEF TypeOK, RollbackHolds
<1>3. a \in Action /\ a.before \in Snapshot /\ a.after \in Snapshot
  BY <1>2, ActiveIsAction
<1> HIDE DEF e, a, Restored
<1>4. /\ a.before.contact \in Contact /\ a.before.qualified \in BOOLEAN
      /\ a.before.handoff \in HandoffRow /\ a.before.job \in JobStatus
      /\ a.before.case \in CaseStatus /\ a.before.referral \in ReferralStatus
  BY <1>3 DEF Snapshot
<1>5. RowsTyped'
  <2>1. /\ contact' \in Contact /\ qualified' \in BOOLEAN
        /\ referral' \in [Emails -> ReferralStatus] /\ handled' \in [Emails -> BOOLEAN]
    BY <1>1, <1>4 DEF TypeOK
  <2>2. mail' \in [Emails -> MailStatus]
    BY <1>1 DEF TypeOK, MailStatus
  <2>3. colleague' \in [by : Emails \cup {"nobody", "known"}, wrote : BOOLEAN]
    BY <1>1 DEF TypeOK
  <2>4. desk' \in [Emails -> Desk]
    <3>1. desk[e].handoff \in HandoffRow /\ desk[e].job \in JobStatus
      BY <1>2, DeskParts DEF TypeOK
    <3>2. h \in HandoffRow /\ j \in JobStatus
      BY <1>4, <3>1
    <3> HIDE DEF h, j
    <3>3. QED BY <1>1, <3>2 DEF TypeOK, Desk
  <2>7. replyCase' \in [Emails -> CaseStatus]
    <3>1. k \in CaseStatus
      BY <1>2, <1>4 DEF TypeOK
    <3> HIDE DEF k
    <3>2. QED BY <1>1, <3>1 DEF TypeOK
  <2>5. action' \in [Emails -> Action \cup {NoAction}]
    <3>1. [a EXCEPT !.status = "ROLLED_BACK"] \in Action
      BY <1>3 DEF Action
    <3>2. action' = [action EXCEPT ![e] = [a EXCEPT !.status = "ROLLED_BACK"]]
      BY <1>1 DEF a
    <3>3. QED BY <3>1, <3>2 DEF TypeOK
  <2>8. QED BY <2>1, <2>2, <2>3, <2>4, <2>5, <2>7 DEF RowsTyped
<1>6. TypeOK'
  <2>1. PeopleTyped'
    BY <1>1, IdleRecords DEF TypeOK, PeopleTyped
  <2>2. QED BY <1>1, <1>5, <2>1, TypesFromParts
<1>7. Ledger'
  BY <1>1, <1>2, LedgerShrinks
<1>8. WorkersHold'
  <2>1. ASSUME NEW v \in Workers, worker[v].pc = "resolved"
        PROVE  action'[worker[v].email].status # "APPLIED"
    <3>1. ~Active(worker[v].email) /\ worker[v].email \in Emails
      BY <2>1, WorkerRecords DEF WorkersHold
    <3>2. worker[v].email # e
      BY <1>2, <3>1
    <3>3. action'[worker[v].email] = action[worker[v].email]
      BY <1>1, <3>1, <3>2 DEF TypeOK
    <3>4. QED BY <3>1, <3>3 DEF Active
  <2>2. QED BY <1>1, <2>1, HoldersUntouched DEF FreeAmong
<1>9. RollbackHolds' /\ ReviewHolds'
  BY <1>1, IdleRecords, NobodyChecks, NobodyApplies
<1>10. QED BY <1>6, <1>7, <1>8, <1>9

LEMMA AdministerStep == ASSUME DispInv, Administer PROVE DispInv'
  BY ReviewStep, CheckRollbackStep, LockReviewedStep, ApplyReviewedStep, RollBackStep DEF Administer

-----------------------------------------------------------------------------
(* The other writers *)

\* A step that touches no email's action, and of the rows a rollback has locked, none.
LEMMA OtherStep ==
    ASSUME DispInv, RowsTyped', sending' \subseteq Emails,
           UNCHANGED <<profile, handled, action, applied, rolledBack, worker, admin, referral,
                       qualified>>,
           admin.pc = "checked" => /\ contact' = contact /\ desk'[admin.email] = desk[admin.email]
                                   /\ replyCase'[admin.email] = replyCase[admin.email]
    PROVE  DispInv'
<1> USE DEF DispInv
<1>1. PeopleTyped'
  BY DEF TypeOK, PeopleTyped
<1>2. TypeOK'
  BY <1>1, TypesFromParts
<1>3. WorkersHold'
  BY HoldersUntouched DEF WorkersHold, Active, FreeAmong
<1>4. ReviewHolds'
  BY ReviewKept DEF ReviewHolds
<1>5. QED BY <1>2, <1>3, <1>4, LedgerKept, CheckKept

LEMMA OthersStep == ASSUME DispInv, Others PROVE DispInv'
<1> USE DEF DispInv
<1>1. CASE Suppress
  <2>1. contact' \in Contact
    BY <1>1 DEF Suppress, TypeOK, Contact
  <2>2. RowsTyped'
    BY <1>1, <2>1 DEF Suppress, RowsTyped, TypeOK
  <2>3. QED BY <1>1, <2>2, OtherStep DEF Suppress, ContactLocked, TypeOK
<1>2. CASE ColleagueWrites
  <2>1. RowsTyped'
    BY <1>2 DEF ColleagueWrites, RowsTyped, TypeOK
  <2>2. QED BY <1>2, <2>1, OtherStep DEF ColleagueWrites, TypeOK
<1>3. ASSUME NEW e \in Emails, ClaimMail(e) \/ StartSending(e) \/ FinishSending(e)
      PROVE  DispInv'
  <2>1. mail' \in [Emails -> MailStatus] /\ sending' \subseteq Emails
    BY <1>3 DEF ClaimMail, StartSending, FinishSending, rows, TypeOK, MailStatus
  <2>2. UNCHANGED <<profile, handled, contact, qualified, referral, colleague, replyCase, desk, action,
                    applied, rolledBack, worker, admin>>
    BY <1>3 DEF ClaimMail, StartSending, FinishSending, rows
  <2>3. RowsTyped'
    BY <2>1, <2>2 DEF RowsTyped, TypeOK
  <2>4. QED BY <2>1, <2>2, <2>3, OtherStep
<1>4. ASSUME NEW e \in Emails, CloseDesk(e) \/ StartNotice(e) \/ FinishNotice(e)
      PROVE  DispInv'
  <2>1. PICK k \in Desk : desk' = [desk EXCEPT ![e] = k]
    <3>1. desk[e] \in Desk
      BY <1>4 DEF TypeOK
    <3>2. CASE CloseDesk(e)
      <4> DEFINE h == [desk[e].handoff EXCEPT !.status = "RESOLVED", !.by = "human"]
      <4>1. h \in HandoffRow
        BY <3>1, DeskParts DEF HandoffRow
      <4>2. desk' = [desk EXCEPT ![e] = [desk[e] EXCEPT !.handoff = h]]
        BY <3>2 DEF CloseDesk, TypeOK
      <4> HIDE DEF h
      <4>3. [desk[e] EXCEPT !.handoff = h] \in Desk
        BY <3>1, <4>1 DEF Desk
      <4>4. QED BY <4>2, <4>3
    <3>3. CASE StartNotice(e)
      <4>1. [desk[e] EXCEPT !.job = "RUNNING"] \in Desk
        BY <3>1 DEF Desk, JobStatus
      <4>2. desk' = [desk EXCEPT ![e] = [desk[e] EXCEPT !.job = "RUNNING"]]
        BY <3>3 DEF StartNotice, TypeOK
      <4>3. QED BY <4>1, <4>2
    <3>4. CASE FinishNotice(e)
      <4> DEFINE notice == IF desk[e].handoff.status = "OPEN" \/ desk[e].handoff.notice = "SENT" THEN "SENT"
                           ELSE "CANCELLED"
                 h == [desk[e].handoff EXCEPT !.notice = notice]
      <4>1. desk' = [desk EXCEPT ![e] = [handoff |-> h, job |-> "DONE"]]
        BY <3>4 DEF FinishNotice, TypeOK
      <4>2. notice \in {"SENT", "CANCELLED"}
        OBVIOUS
      <4> HIDE DEF notice
      <4>3. h \in HandoffRow
        BY <3>1, <4>2, DeskParts DEF HandoffRow
      <4> HIDE DEF h
      <4>4. [handoff |-> h, job |-> "DONE"] \in Desk
        BY <4>3 DEF Desk, JobStatus
      <4>5. QED BY <4>1, <4>4
    <3>5. QED BY <1>4, <3>2, <3>3, <3>4
  <2>2. /\ ~DeskLocked(e)
        /\ UNCHANGED <<profile, handled, contact, qualified, referral, colleague, replyCase, mail, action,
                       applied, rolledBack, worker, admin, sending>>
    BY <1>4 DEF CloseDesk, StartNotice, FinishNotice
  <2>3. RowsTyped'
    BY <2>1, <2>2 DEF RowsTyped, TypeOK
  <2>4. admin.pc = "checked" => desk'[admin.email] = desk[admin.email]
    BY <2>1, <2>2 DEF DeskLocked, TypeOK
  <2>5. QED BY <2>2, <2>3, <2>4, OtherStep DEF TypeOK
<1>5. ASSUME NEW e \in Emails, UseCase(e) PROVE DispInv'
  <2>1. replyCase' \in [Emails -> CaseStatus]
    BY <1>5 DEF UseCase, TypeOK, CaseStatus
  <2>2. RowsTyped'
    BY <1>5, <2>1 DEF UseCase, RowsTyped, TypeOK
  <2>3. admin.pc = "checked" => replyCase'[admin.email] = replyCase[admin.email]
    BY <1>5 DEF UseCase, CaseLocked, TypeOK
  <2>4. QED BY <1>5, <2>2, <2>3, OtherStep DEF UseCase, TypeOK
<1>6. QED BY <1>1, <1>2, <1>3, <1>4, <1>5 DEF Others

-----------------------------------------------------------------------------
(* The theorems *)

LEMMA InvStays == DispInv /\ [Next]_vars => DispInv'
<1> SUFFICES ASSUME DispInv, [Next]_vars PROVE DispInv'
  OBVIOUS
<1>1. CASE Next
  BY <1>1, WorkStep, AdministerStep, OthersStep DEF Next
<1>2. CASE UNCHANGED vars
  <2>1. RowsTyped' /\ sending' \subseteq Emails
    BY <1>2 DEF vars, DispInv, RowsTyped, TypeOK
  <2>2. QED BY <1>2, <2>1, OtherStep DEF vars
<1>3. QED BY <1>1, <1>2

LEMMA AlwaysInv == Spec => []DispInv
<1>1. QED BY InitHolds, InvStays, PTL DEF Spec

\* Applications, reviews, rollbacks and the other writers leave every row with a value of its
\* column, and every email with a type that the rules or the model can give.
THEOREM DispositionTypes == Spec => []TypeOK
<1>1. DispInv => TypeOK
  BY DEF DispInv
<1>2. QED BY <1>1, AlwaysInv, PTL

\* apply_email_disposition: however many workers process an email, and whatever an
\* administrator does meanwhile, it is not applied again while an application stands.
THEOREM AppliedOncePerEmail == Spec => []OneActionPerEmail
<1>1. DispInv => OneActionPerEmail
  BY DEF DispInv, Ledger
<1>2. QED BY <1>1, AlwaysInv, PTL

\* The plan's blockers: without an administrator, nobody is taken for departed, and no
\* customer for no target, on hearsay.
THEOREM NoHearsay == Spec => []NobodyDepartsOnHearsay
<1>1. DispInv => NobodyDepartsOnHearsay
  <2> SUFFICES ASSUME DispInv, NEW e \in Emails, Active(e), ~action[e].reviewed
               PROVE  /\ (D(e).type = "DEPARTED" /\ At(e).contact = At(e).sender) =>
                            /\ D(e).transport
                            /\ \/ "departed" \in profile[e].cues
                               \/ D(e).source = "anthropic" /\ D(e).sure /\ D(e).evidence
                      /\ D(e).type = "NON_TARGET" =>
                            "nonTarget" \in profile[e].cues /\ D(e).source # "fallback"
    BY DEF NobodyDepartsOnHearsay
  <2>1. PICK i \in Inputs : profile[e] = Profile(i)
    BY DEF DispInv, Ledger, ProfilesOK, Profiles
  <2>2. D(e) = Profile(i).d /\ At(e) = Profile(i).at
    BY <2>1 DEF D, At
  <2>3. Blockers(Profile(i).d, Profile(i).at) = {}
    BY <2>2 DEF DispInv, Ledger, WasApplicable
  <2>4. QED BY <2>1, <2>2, <2>3, ReadInputs, HearsayBlocked
<1>2. QED BY <1>1, AlwaysInv, PTL

\* Only a rollback takes an application off an email.
LEMMA OnlyRollBack ==
    ASSUME DispInv, [Next]_vars, NEW e \in Emails, Active(e), action'[e].status = "ROLLED_BACK"
    PROVE  RollBack /\ e = admin.email
<1> USE DEF DispInv
<1>1. action' # action
  BY DEF Active
<1>2. ASSUME NEW f \in Emails, NEW reviewed, Stands(f, reviewed) PROVE FALSE
  <2>1. e # f
    BY <1>2 DEF Stands
  <2>2. action'[e] = action[e]
    BY <1>2, <2>1 DEF Stands, TypeOK
  <2>3. QED BY <2>2 DEF Active
<1>3. ASSUME NEW w \in Workers, Work(w) PROVE FALSE
  <2>1. ApplyAutomatically(w)
    BY <1>1, <1>3 DEF Work, ReadAndClassify, AskForReview, LockEmail, LeaveToOthers,
                      DepartWithoutAction, rows
  <2>2. Stands(worker[w].email, FALSE)
    BY <2>1, WorkerRecords, ApplyStands DEF ApplyAutomatically
  <2>3. QED BY <2>2, <1>2, WorkerRecords
<1>4. ~Others
  BY <1>1 DEF Others, Suppress, ColleagueWrites, CloseDesk, UseCase, ClaimMail, StartSending, FinishSending,
              StartNotice, FinishNotice, rows
<1>5. ~ApplyReviewed
  <2> SUFFICES ASSUME ApplyReviewed PROVE FALSE
    OBVIOUS
  <2>1. /\ admin.email \in Emails
        /\ \E may \in BOOLEAN : Apply(admin.email, admin.contact, admin.qualified, may, TRUE)
    BY <1>1 DEF ApplyReviewed, rows, TypeOK
  <2>2. Stands(admin.email, TRUE)
    BY <2>1, ApplyStands
  <2>3. QED BY <2>1, <2>2, <1>2
<1>6. RollBack
  BY <1>1, <1>3, <1>4, <1>5 DEF Next, Administer, Review, LockReviewed, CheckRollback, rows, vars
<1>7. e = admin.email
  <2>1. admin.email \in Emails /\ action' = [action EXCEPT ![admin.email].status = "ROLLED_BACK"]
    BY <1>6 DEF RollBack, TypeOK
  <2>2. QED BY <2>1 DEF TypeOK, Active
<1>8. QED BY <1>6, <1>7

\* rollback_disposition_action: from its check to its commit, the locks it holds keep the
\* contact, the customer, the case, the referrals, the handoff and its job as the action left
\* them.  Nothing is proved of the message to the colleague and of his contact, which it
\* does not lock.
THEOREM NothingOverwritten == Spec => RollbackSeesNoChange
<1>1. DispInv /\ [Next]_vars =>
         [\A e \in Emails : (Active(e) /\ action'[e].status = "ROLLED_BACK") => StillAfter(e)]_vars
  <2> SUFFICES ASSUME DispInv, [Next]_vars, NEW e \in Emails, Active(e),
                      action'[e].status = "ROLLED_BACK"
               PROVE  StillAfter(e)
    OBVIOUS
  <2>1. RollBack /\ e = admin.email
    BY OnlyRollBack
  <2>2. admin.pc = "checked"
    BY <2>1 DEF RollBack
  <2>3. QED BY <2>1, <2>2 DEF DispInv, RollbackHolds
<1>2. QED BY <1>1, AlwaysInv, PTL DEF Spec, RollbackSeesNoChange

-----------------------------------------------------------------------------
(* The mailbox: its invariant *)

CursorRow == [validity : Nat, last : Nat, cutoff : Nat, complete : BOOLEAN]
CycleRow ==
    [pc : {"idle", "fetch", "save", "next", "reconcile", "relink"}, folder : Folders,
     validity : Nat, highest : Nat, batch : Seq(Messages), uid : Nat, succeeded : BOOLEAN]

\* A folder only grows, and its UIDVALIDITY is never 0.
ServerInv == server \in [Folders -> [validity : Nat \ {0}, mail : Seq(Messages)]]

\* A cursor is of a UIDVALIDITY the folder has had, and within its mail.
CursorInv ==
    /\ cursor \in [Folders -> CursorRow]
    /\ \A f \in Folders : /\ cursor[f].validity <= server[f].validity
                          /\ cursor[f].validity = 0 => cursor[f].last = 0
                          /\ cursor[f].last <= Len(server[f].mail)

\* The batch is what the folder holds behind the cursor.
Behind(q) ==
    /\ q.validity \in 1 .. server[q.folder].validity
    /\ q.uid + Len(q.batch) <= Len(server[q.folder].mail)
    /\ \A k \in 1 .. Len(q.batch) : q.batch[k] = server[q.folder].mail[q.uid + k]
CycleInv ==
    /\ cycle \in CycleRow /\ used \in 0 .. DailyLimit
    /\ cycle.pc \in {"save", "next"} => Behind(cycle)
    /\ cycle.pc = "save" =>
          cycle.uid = IF cursor[cycle.folder].validity = cycle.validity
                      THEN cursor[cycle.folder].last ELSE 0
    /\ cycle.pc = "next" => /\ cursor[cycle.folder].validity = cycle.validity
                            /\ cursor[cycle.folder].last = cycle.uid

\* The columns of an email, and what an ingester has read.
Columns(r) == r = [stored |-> r.stored, history |-> r.history, case |-> r.case]
Session(q) ==
    /\ q = [pc |-> q.pc, message |-> q.message, history |-> q.history, case |-> q.case,
            opens |-> q.opens]
    /\ q.pc # "idle" => q.message \in Messages
TableInv ==
    /\ row = [m \in Messages |-> row[m]] /\ \A m \in Messages : Columns(row[m])
    /\ started = [m \in Messages |-> started[m]]
    /\ ingest = [i \in Ingesters |-> ingest[i]] /\ \A i \in Ingesters : Session(ingest[i])

\* The poller ingests the first of its batch; behind the insertion it is stored, and when
\* the cursor may pass it, something was started for it.
FirstOfBatch(q) ==
    /\ cycle.pc = "next" /\ cycle.batch # <<>> /\ q.message = Head(cycle.batch)
    /\ q.history = IsHistory(cycle.folder, cycle.uid + 1)
Landed(q) ==
    /\ q.pc \in {"follow", "follow after collision", "done"} => row[q.message].stored
    /\ q.pc = "done" /\ Inbound(q.message) /\ ~q.history => started[q.message] # "nothing"
PollerInv == ingest["poller"].pc # "idle" => FirstOfBatch(ingest["poller"]) /\ Landed(ingest["poller"])

Passed ==
    \A f \in Folders : cursor[f].validity = server[f].validity =>
        \A uid \in 1 .. cursor[f].last :
            LET m == server[f].mail[uid]
            IN  row[m].stored /\ (Inbound(m) /\ uid > cursor[f].cutoff => started[m] # "nothing")

MailInv ==
    /\ ServerInv /\ CursorInv /\ CycleInv /\ TableInv /\ PollerInv /\ Passed

-----------------------------------------------------------------------------
(* What the steps share *)

LEMMA LargerOfTwo ==
    ASSUME NEW a \in Nat, NEW b \in Nat
    PROVE  LET x == Max({a, b}) IN x \in {a, b} /\ x >= a /\ x >= b
<1>1. \E x \in {a, b} : \A y \in {a, b} : x >= y
  <2>1. CASE a >= b
    BY <2>1
  <2>2. CASE b >= a
    BY <2>2
  <2>3. QED BY <2>1, <2>2
<1>2. QED BY <1>1 DEF Max

LEMMA SmallestOfThree ==
    ASSUME NEW a \in Nat, NEW b \in Nat, NEW c \in Nat
    PROVE  LET x == Min({a, b, c}) IN x \in Nat /\ x <= a /\ x <= b /\ x <= c
<1>1. \E x \in {a, b, c} : \A y \in {a, b, c} : x <= y
  <2>1. CASE a <= b /\ a <= c
    BY <2>1
  <2>2. CASE b <= a /\ b <= c
    BY <2>2
  <2>3. CASE c <= a /\ c <= b
    BY <2>3
  <2>4. QED BY <2>1, <2>2, <2>3
<1>2. QED BY <1>1 DEF Min

\* What is stored stays stored, and what was started stays started.
Kept == \A m \in Messages : /\ row[m].stored => row'[m].stored
                            /\ started[m] # "nothing" => started'[m] # "nothing"

LEMMA MailIsMessages ==
    ASSUME ServerInv, NEW f \in Folders, NEW uid \in 1 .. Len(server[f].mail)
    PROVE  server[f].mail[uid] \in Messages
<1>1. server[f].mail \in Seq(Messages)
  BY DEF ServerInv
<1>2. QED BY <1>1

LEMMA KeptIsPassed ==
    ASSUME MailInv, Kept, UNCHANGED <<server, cursor>>
    PROVE  Passed'
<1> SUFFICES ASSUME NEW f \in Folders, cursor[f].validity = server[f].validity,
                    NEW uid \in 1 .. cursor[f].last
             PROVE  LET m == server[f].mail[uid]
                    IN  /\ row'[m].stored
                        /\ Inbound(m) /\ uid > cursor[f].cutoff => started'[m] # "nothing"
  BY DEF Passed, Inbound
<1> DEFINE m == server[f].mail[uid]
<1>1. m \in Messages
  <2>1. cursor[f].last \in Nat /\ cursor[f].last <= Len(server[f].mail) /\ Len(server[f].mail) \in Nat
    BY DEF MailInv, CursorInv, CursorRow, ServerInv
  <2>2. uid \in 1 .. Len(server[f].mail)
    BY <2>1
  <2>3. QED BY <2>2, MailIsMessages DEF MailInv
<1>2. row[m].stored /\ (Inbound(m) /\ uid > cursor[f].cutoff => started[m] # "nothing")
  BY DEF MailInv, Passed
<1>3. QED BY <1>1, <1>2 DEF Kept

LEMMA KeptIsLanded ==
    ASSUME MailInv, Kept, NEW q, Landed(q), q.message \in Messages
    PROVE  /\ q.pc \in {"follow", "follow after collision", "done"} => row'[q.message].stored
           /\ q.pc = "done" /\ Inbound(q.message) /\ ~q.history => started'[q.message] # "nothing"
BY DEF Landed, Kept

\* A step of the world outside: folders grow, and are renumbered upwards.
LEMMA Growing ==
    ASSUME MailInv, ServerInv',
           UNCHANGED <<cursor, row, started, ingest, cycle, used>>,
           \A f \in Folders :
               /\ server[f].validity <= server'[f].validity
               /\ Len(server[f].mail) <= Len(server'[f].mail)
               /\ \A k \in 1 .. Len(server[f].mail) : server'[f].mail[k] = server[f].mail[k]
    PROVE  MailInv'
<1>1. \A f \in Folders : /\ server[f].validity \in Nat \ {0} /\ server'[f].validity \in Nat \ {0}
                         /\ Len(server[f].mail) \in Nat /\ Len(server'[f].mail) \in Nat
                         /\ cursor[f].validity \in Nat /\ cursor[f].last \in Nat
                         /\ cursor[f].last <= Len(server[f].mail)
                         /\ cursor[f].validity <= server[f].validity
  BY DEF MailInv, ServerInv, CursorInv, CursorRow
<1>2. CursorInv'
  BY <1>1 DEF MailInv, CursorInv
<1>3. CycleInv'
  <2>1. cycle \in CycleRow /\ cycle.folder \in Folders /\ cycle.uid \in Nat /\ cycle.validity \in Nat
        /\ Len(cycle.batch) \in Nat
    BY DEF MailInv, CycleInv, CycleRow
  <2>2. Behind(cycle) => Behind(cycle)'
    <3> SUFFICES ASSUME Behind(cycle)
                 PROVE  /\ cycle.validity \in 1 .. server'[cycle.folder].validity
                        /\ cycle.uid + Len(cycle.batch) <= Len(server'[cycle.folder].mail)
                        /\ \A k \in 1 .. Len(cycle.batch) :
                              cycle.batch[k] = server'[cycle.folder].mail[cycle.uid + k]
      BY DEF Behind
    <3>1. /\ cycle.validity \in 1 .. server[cycle.folder].validity
          /\ cycle.uid + Len(cycle.batch) <= Len(server[cycle.folder].mail)
          /\ \A k \in 1 .. Len(cycle.batch) :
                cycle.batch[k] = server[cycle.folder].mail[cycle.uid + k]
      BY DEF Behind
    <3>2. \A k \in 1 .. Len(cycle.batch) : cycle.uid + k \in 1 .. Len(server[cycle.folder].mail)
      BY <1>1, <2>1, <3>1
    <3> DEFINE f == cycle.folder
    <3>3. cycle.validity <= server'[f].validity /\ cycle.validity >= 1
      BY <1>1, <2>1, <3>1
    <3>4. cycle.uid + Len(cycle.batch) <= Len(server'[f].mail)
      BY <1>1, <2>1, <3>1
    <3>5. ASSUME NEW k \in 1 .. Len(cycle.batch)
          PROVE  cycle.batch[k] = server'[f].mail[cycle.uid + k]
      <4>1. cycle.batch[k] = server[f].mail[cycle.uid + k]
        BY <3>1
      <4>2. cycle.uid + k \in 1 .. Len(server[f].mail) /\ f \in Folders
        BY <2>1, <3>2
      <4>3. \A j \in 1 .. Len(server[f].mail) : server'[f].mail[j] = server[f].mail[j]
        BY <2>1
      <4> HIDE DEF f
      <4>4. QED BY ONLY <4>1, <4>2, <4>3
    <3>6. server'[f].validity \in Nat
      BY <1>1, <2>1
    <3>7. cycle.validity \in 1 .. server'[f].validity
      BY <2>1, <3>3, <3>6
    <3>8. \A k \in 1 .. Len(cycle.batch) : cycle.batch[k] = server'[f].mail[cycle.uid + k]
      BY <3>5
    <3>9. QED BY ONLY <3>4, <3>7, <3>8
  <2>3. QED BY <2>2 DEF MailInv, CycleInv
<1>4. TableInv'
  BY DEF MailInv, TableInv
<1>5. PollerInv'
  BY DEF MailInv, PollerInv, FirstOfBatch, Landed, IsHistory, Inbound
<1>6. Passed'
  <2> SUFFICES ASSUME NEW f \in Folders, cursor[f].validity = server'[f].validity,
                      NEW uid \in 1 .. cursor[f].last
               PROVE  LET m == server'[f].mail[uid]
                      IN  /\ row[m].stored
                          /\ Inbound(m) /\ uid > cursor[f].cutoff => started[m] # "nothing"
    BY DEF Passed, Inbound
  <2>1. cursor[f].validity = server[f].validity /\ uid \in 1 .. Len(server[f].mail)
    BY <1>1
  <2>2. server'[f].mail[uid] = server[f].mail[uid]
    BY <2>1
  <2>3. QED BY <2>1, <2>2 DEF MailInv, Passed
<1>7. QED BY <1>2, <1>3, <1>4, <1>5, <1>6 DEF MailInv

\* A step of an ingester, with what it has read (q) afterwards.
LEMMA Ingester ==
    ASSUME MailInv, UNCHANGED <<server, cursor, used, cycle>>, NEW i \in Ingesters, NEW q,
           ingest' = [ingest EXCEPT ![i] = q], Session(q),
           row' = [m \in Messages |-> row'[m]], \A m \in Messages : Columns(row'[m]),
           started' = [m \in Messages |-> started'[m]], Kept,
           i = "poller" /\ q.pc # "idle" =>
               /\ FirstOfBatch(q)
               /\ q.pc \in {"follow", "follow after collision", "done"} => row'[q.message].stored
               /\ q.pc = "done" /\ Inbound(q.message) /\ ~q.history => started'[q.message] # "nothing"
    PROVE  MailInv'
<1>1. CursorInv' /\ ServerInv'
  BY DEF MailInv, CursorInv, ServerInv
<1>2. CycleInv'
  BY DEF MailInv, CycleInv, Behind
<1>3. Passed'
  BY KeptIsPassed
<1>4. /\ ingest' = [j \in Ingesters |-> ingest'[j]]
      /\ \A j \in Ingesters : ingest'[j] = IF j = i THEN q ELSE ingest[j]
  BY DEF MailInv, TableInv
<1>5. TableInv'
  <2>1. \A j \in Ingesters : Session(ingest'[j])
    BY <1>4 DEF MailInv, TableInv
  <2>2. \A j \in Ingesters : Session(ingest[j])'
    BY <2>1 DEF Session
  <2>3. \A m \in Messages : Columns(row[m])'
    BY DEF Columns
  <2>4. QED BY <1>4, <2>2, <2>3 DEF TableInv
<1>6. PollerInv'
  <2> SUFFICES ASSUME ingest'["poller"].pc # "idle"
               PROVE  FirstOfBatch(ingest["poller"])' /\ Landed(ingest["poller"])'
    BY DEF PollerInv
  <2>1. CASE i = "poller"
    <3>1. ingest'["poller"] = q
      BY <1>4, <2>1
    <3>2. QED BY <2>1, <3>1 DEF FirstOfBatch, Landed, IsHistory, Inbound
  <2>2. CASE i # "poller"
    <3>1. "poller" \in Ingesters
      BY DEF Ingesters
    <3>2. ingest'["poller"] = ingest["poller"]
      BY <1>4, <2>2, <3>1
    <3> DEFINE p == ingest["poller"]
    <3>3. p.pc # "idle" /\ FirstOfBatch(p) /\ Landed(p)
      BY <3>2 DEF MailInv, PollerInv
    <3>4. p.message \in Messages
      BY <3>1, <3>3 DEF MailInv, TableInv, Session
    <3>5. /\ p.pc \in {"follow", "follow after collision", "done"} => row'[p.message].stored
          /\ p.pc = "done" /\ Inbound(p.message) /\ ~p.history => started'[p.message] # "nothing"
      <4> HIDE DEF p
      <4>1. QED BY <3>3, <3>4, KeptIsLanded
    <3>6. QED BY <3>2, <3>3, <3>5 DEF FirstOfBatch, Landed, IsHistory, Inbound
  <2>3. QED BY <2>1, <2>2
<1>7. QED BY <1>1, <1>2, <1>3, <1>5, <1>6 DEF MailInv

-----------------------------------------------------------------------------
(* The world outside *)

LEMMA DeliverKeeps == ASSUME MailInv, NEW m \in Messages, Deliver(m) PROVE MailInv'
<1> DEFINE g == Mail[m].folder
<1>1. g \in Folders
  BY MailAssumption DEF Folders
<1>2. /\ server \in [Folders -> [validity : Nat \ {0}, mail : Seq(Messages)]]
      /\ server' = [server EXCEPT ![g].mail = Append(@, m)]
  BY DEF Deliver, MailInv, ServerInv
<1> HIDE DEF g
<1>3. /\ Append(server[g].mail, m) \in Seq(Messages)
      /\ Len(Append(server[g].mail, m)) = Len(server[g].mail) + 1
      /\ \A k \in 1 .. Len(server[g].mail) : Append(server[g].mail, m)[k] = server[g].mail[k]
  BY <1>1, <1>2, AppendProperties
<1>4. ServerInv'
  BY <1>1, <1>2, <1>3 DEF ServerInv
<1>5. ASSUME NEW f \in Folders
      PROVE  /\ server'[f].validity = server[f].validity
             /\ server'[f].mail = IF f = g THEN Append(server[g].mail, m) ELSE server[f].mail
  BY <1>1, <1>2
<1>6. ASSUME NEW f \in Folders
      PROVE  /\ server[f].validity <= server'[f].validity
             /\ Len(server[f].mail) <= Len(server'[f].mail)
             /\ \A k \in 1 .. Len(server[f].mail) : server'[f].mail[k] = server[f].mail[k]
  <2>1. server[f].validity \in Nat /\ Len(server[f].mail) \in Nat
    BY <1>2
  <2>2. CASE f = g
    <3>1. server'[f].mail = Append(server[f].mail, m)
      BY <1>5, <2>2
    <3>2. QED BY <1>3, <1>5, <2>1, <2>2, <3>1
  <2>3. CASE f # g
    BY <1>5, <2>1, <2>3
  <2>4. QED BY <2>2, <2>3
<1>7. QED BY <1>4, <1>6, Growing DEF Deliver

LEMMA RenumberKeeps == ASSUME MailInv, NEW g \in Folders, Renumber(g) PROVE MailInv'
<1>1. /\ server \in [Folders -> [validity : Nat \ {0}, mail : Seq(Messages)]]
      /\ server' = [server EXCEPT ![g].validity = @ + 1]
  BY DEF Renumber, MailInv, ServerInv
<1>2. ServerInv'
  BY <1>1 DEF ServerInv
<1>3. ASSUME NEW f \in Folders
      PROVE  /\ server[f].validity <= server'[f].validity
             /\ Len(server[f].mail) <= Len(server'[f].mail)
             /\ \A k \in 1 .. Len(server[f].mail) : server'[f].mail[k] = server[f].mail[k]
  <2>1. server[f].validity \in Nat /\ Len(server[f].mail) \in Nat
    BY <1>1
  <2>2. /\ server'[f].mail = server[f].mail
        /\ server'[f].validity = IF f = g THEN server[f].validity + 1 ELSE server[f].validity
    BY <1>1
  <2>3. QED BY <2>1, <2>2
<1>4. QED BY <1>2, <1>3, Growing DEF Renumber

-----------------------------------------------------------------------------
(* The poller *)

\* The poller is between two folders, and whoever ingests besides goes on.
LEMMA BetweenFolders ==
    ASSUME MailInv, UNCHANGED <<server, cursor, started>>,
           row' = [m \in Messages |-> row'[m]], \A m \in Messages : Columns(row'[m]), Kept,
           cycle' \in CycleRow, cycle'.pc \notin {"save", "next"}, used' \in 0 .. DailyLimit,
           \/ ingest' = ingest /\ ingest["poller"].pc = "idle"
           \/ ingest' = [ingest EXCEPT !["poller"] = Resting]
    PROVE  MailInv'
<1>1. CursorInv' /\ ServerInv'
  BY DEF MailInv, CursorInv, ServerInv
<1>2. CycleInv'
  BY DEF CycleInv, CycleRow
<1>3. Passed'
  BY KeptIsPassed
<1>4. Session(Resting) /\ Resting.pc = "idle"
  BY DEF Session, Resting
<1>5. ingest = [j \in Ingesters |-> ingest[j]] /\ \A j \in Ingesters : Session(ingest[j])
  BY DEF MailInv, TableInv
<1>6. "poller" \in Ingesters
  BY DEF Ingesters
<1>7. /\ ingest' = [j \in Ingesters |-> ingest'[j]] /\ \A j \in Ingesters : Session(ingest'[j])
      /\ ingest'["poller"].pc = "idle"
  <2>1. CASE ingest' = ingest /\ ingest["poller"].pc = "idle"
    BY <1>5, <2>1
  <2>2. CASE ingest' = [ingest EXCEPT !["poller"] = Resting]
    <3>1. /\ ingest' = [j \in Ingesters |-> ingest'[j]]
          /\ \A j \in Ingesters : ingest'[j] = IF j = "poller" THEN Resting ELSE ingest[j]
      BY <1>5, <2>2
    <3>2. QED BY <1>4, <1>5, <1>6, <3>1
  <2>3. QED BY <2>1, <2>2
<1>8. TableInv'
  <2>1. \A j \in Ingesters : Session(ingest[j])'
    BY <1>7 DEF Session
  <2>2. \A m \in Messages : Columns(row[m])'
    BY DEF Columns
  <2>3. QED BY <1>7, <2>1, <2>2 DEF MailInv, TableInv
<1>9. PollerInv'
  BY <1>7 DEF PollerInv
<1>10. QED BY <1>1, <1>2, <1>3, <1>8, <1>9 DEF MailInv

LEMMA NothingKept ==
    ASSUME MailInv, UNCHANGED <<row, started>>
    PROVE  /\ row' = [m \in Messages |-> row'[m]] /\ \A m \in Messages : Columns(row'[m])
           /\ started' = [m \in Messages |-> started'[m]] /\ Kept
BY DEF MailInv, TableInv, Kept

LEMMA PollerRests ==
    ASSUME MailInv, cycle.pc # "next" PROVE ingest["poller"].pc = "idle"
BY DEF MailInv, PollerInv, FirstOfBatch

LEMMA NoCycleIsCycle == NoCycle \in CycleRow /\ NoCycle.pc = "idle"
BY EmptySeq DEF NoCycle, CycleRow, PollOrder, Folders

LEMMA FolderIsDone ==
    ASSUME cycle \in CycleRow, NEW ok \in BOOLEAN
    PROVE  FolderDone(ok) \in CycleRow /\ FolderDone(ok).pc \notin {"save", "next"}
<1>1. << >> \in Seq(Messages) /\ PollOrder[2] \in Folders
  BY EmptySeq DEF PollOrder, Folders
<1> DEFINE after == [cycle EXCEPT !.succeeded = @ \/ ok, !.batch = <<>>]
<1>2. after \in CycleRow
  BY <1>1 DEF CycleRow
<1>3. FolderDone(ok) \in {[after EXCEPT !.folder = PollOrder[2], !.pc = "fetch"],
                          [after EXCEPT !.pc = "reconcile"], NoCycle}
  BY DEF FolderDone
<1> HIDE DEF after
<1>4. /\ [after EXCEPT !.folder = PollOrder[2], !.pc = "fetch"] \in CycleRow
      /\ [after EXCEPT !.folder = PollOrder[2], !.pc = "fetch"].pc = "fetch"
      /\ [after EXCEPT !.pc = "reconcile"] \in CycleRow
      /\ [after EXCEPT !.pc = "reconcile"].pc = "reconcile"
  BY <1>1, <1>2 DEF CycleRow
<1>5. QED BY <1>3, <1>4, NoCycleIsCycle

LEMMA BeginCycleKeeps == ASSUME MailInv, BeginCycle PROVE MailInv'
<1>1. cycle' \in CycleRow /\ cycle'.pc = "fetch"
  BY NoCycleIsCycle DEF BeginCycle, CycleRow
<1>2. ingest["poller"].pc = "idle" /\ used \in 0 .. DailyLimit
  BY PollerRests DEF BeginCycle, MailInv, CycleInv
<1>3. QED BY <1>1, <1>2, NothingKept, BetweenFolders DEF BeginCycle

LEMMA BudgetSpentKeeps == ASSUME MailInv, BudgetSpent PROVE MailInv'
<1>1. cycle' \in CycleRow /\ cycle'.pc \notin {"save", "next"}
  BY FolderIsDone DEF BudgetSpent, MailInv, CycleInv
<1>2. ingest["poller"].pc = "idle" /\ used \in 0 .. DailyLimit
  BY PollerRests DEF BudgetSpent, MailInv, CycleInv
<1>3. QED BY <1>1, <1>2, NothingKept, BetweenFolders DEF BudgetSpent

LEMMA FolderFailsKeeps == ASSUME MailInv, FolderFails \/ FailAfterCollision PROVE MailInv'
<1>1. cycle' \in CycleRow /\ cycle'.pc \notin {"save", "next"}
  BY FolderIsDone DEF FolderFails, FailAfterCollision, MailInv, CycleInv
<1>2. used \in 0 .. DailyLimit
  BY DEF MailInv, CycleInv
<1>3. QED BY <1>1, <1>2, NothingKept, BetweenFolders DEF FolderFails, FailAfterCollision

LEMMA ReadHistoryKeeps == ASSUME MailInv, ReadHistory PROVE MailInv'
<1>1. cycle \in CycleRow
  BY DEF MailInv, CycleInv
<1>2. cycle' \in CycleRow /\ cycle'.pc = "relink"
  BY <1>1 DEF ReadHistory, CycleRow
<1>3. ingest["poller"].pc = "idle" /\ used \in 0 .. DailyLimit
  BY PollerRests DEF ReadHistory, MailInv, CycleInv
<1>4. UNCHANGED <<server, cursor, used, row, started, ingest>>
  BY DEF ReadHistory
<1>5. QED BY <1>2, <1>3, <1>4, NothingKept, BetweenFolders

\* What the reconciliation writes to a row.
Relinked(m) ==
    row'[m] = IF m \in DOMAIN plan.case /\ plan.case[m] # 0
              THEN [row[m] EXCEPT !.case = plan.case[m]] ELSE row[m]

LEMMA RowsRelinked ==
    ASSUME MailInv, Reconcile
    PROVE  /\ row' = [m \in Messages |-> row'[m]]
           /\ \A m \in Messages :
                /\ Relinked(m) /\ Columns(row'[m])
                /\ row'[m].stored = row[m].stored /\ row'[m].history = row[m].history
                /\ row'[m].case = IF m \in DOMAIN plan.case /\ plan.case[m] # 0
                                  THEN plan.case[m] ELSE row[m].case
<1>1. row' = [m \in Messages |->
                 IF m \in DOMAIN plan.case /\ plan.case[m] # 0
                 THEN [row[m] EXCEPT !.case = plan.case[m]] ELSE row[m]]
  BY DEF Reconcile
<1>2. row' = [m \in Messages |-> row'[m]] /\ \A m \in Messages : Relinked(m)
  BY <1>1 DEF Relinked
<1> HIDE <1>1
<1>3. ASSUME NEW m \in Messages
      PROVE  /\ Relinked(m) /\ Columns(row'[m])
             /\ row'[m].stored = row[m].stored /\ row'[m].history = row[m].history
             /\ row'[m].case = IF m \in DOMAIN plan.case /\ plan.case[m] # 0
                               THEN plan.case[m] ELSE row[m].case
  <2> DEFINE f == plan.case[m]
  <2>1. row[m] = [stored |-> row[m].stored, history |-> row[m].history, case |-> row[m].case]
    BY DEF MailInv, TableInv, Columns
  <2>2. row'[m] = IF m \in DOMAIN plan.case /\ f # 0 THEN [row[m] EXCEPT !.case = f] ELSE row[m]
    BY <1>2 DEF Relinked
  <2> HIDE DEF f
  <2>3. CASE m \in DOMAIN plan.case /\ f # 0
    <3>1. row'[m] = [stored |-> row[m].stored, history |-> row[m].history, case |-> f]
      BY ONLY <2>1, <2>2, <2>3
    <3>2. QED BY <1>2, <2>3, <3>1 DEF Columns, f
  <2>4. CASE ~(m \in DOMAIN plan.case /\ f # 0)
    <3>1. row'[m] = row[m]
      BY ONLY <2>2, <2>4
    <3>2. QED BY <1>2, <2>1, <2>4, <3>1 DEF Columns, f
  <2>5. QED BY <2>3, <2>4
<1>4. QED BY <1>2, <1>3

LEMMA ReconcileKeeps == ASSUME MailInv, Reconcile PROVE MailInv'
<1>1. /\ row' = [m \in Messages |-> row'[m]]
      /\ \A m \in Messages : Columns(row'[m]) /\ row'[m].stored = row[m].stored
  BY RowsRelinked
<1>2. Kept
  BY <1>1 DEF Kept, Reconcile
<1>3. cycle' \in CycleRow /\ cycle'.pc = "idle"
  BY NoCycleIsCycle DEF Reconcile
<1>4. ingest["poller"].pc = "idle" /\ used \in 0 .. DailyLimit
  BY PollerRests DEF Reconcile, MailInv, CycleInv
<1>5. UNCHANGED <<server, cursor, used, started, ingest>>
  BY DEF Reconcile
<1>6. QED BY <1>1, <1>2, <1>3, <1>4, <1>5, BetweenFolders

\* A step of the poller within a folder, with its cycle (q) and what nobody else changes.
LEMMA WithinFolder ==
    ASSUME MailInv, UNCHANGED <<server, row, started>>, used' \in 0 .. DailyLimit,
           CursorInv', CycleInv', Passed',
           ingest["poller"].pc \in {"idle", "done"},
           \/ ingest' = ingest /\ ingest["poller"].pc = "idle"
           \/ ingest' = [ingest EXCEPT !["poller"] = Resting]
    PROVE  MailInv'
<1>1. Session(Resting) /\ Resting.pc = "idle"
  BY DEF Session, Resting
<1>2. ingest = [j \in Ingesters |-> ingest[j]] /\ \A j \in Ingesters : Session(ingest[j])
  BY DEF MailInv, TableInv
<1>3. "poller" \in Ingesters
  BY DEF Ingesters
<1>4. /\ ingest' = [j \in Ingesters |-> ingest'[j]] /\ \A j \in Ingesters : Session(ingest'[j])
      /\ ingest'["poller"].pc = "idle"
  <2>1. CASE ingest' = ingest /\ ingest["poller"].pc = "idle"
    BY <1>2, <2>1
  <2>2. CASE ingest' = [ingest EXCEPT !["poller"] = Resting]
    <3>1. /\ ingest' = [j \in Ingesters |-> ingest'[j]]
          /\ \A j \in Ingesters : ingest'[j] = IF j = "poller" THEN Resting ELSE ingest[j]
      BY <1>2, <2>2
    <3>2. QED BY <1>1, <1>2, <1>3, <3>1
  <2>3. QED BY <2>1, <2>2
<1>5. TableInv'
  <2>1. \A j \in Ingesters : Session(ingest[j])'
    BY <1>4 DEF Session
  <2>2. \A m \in Messages : Columns(row[m])'
    BY DEF Columns, MailInv, TableInv
  <2>3. QED BY <1>4, <2>1, <2>2 DEF MailInv, TableInv
<1>6. PollerInv'
  BY <1>4 DEF PollerInv
<1>7. ServerInv'
  BY DEF MailInv, ServerInv
<1>8. QED BY <1>5, <1>6, <1>7 DEF MailInv

LEMMA FetchKeeps == ASSUME MailInv, Fetch PROVE MailInv'
<1> DEFINE f == cycle.folder
           after == SearchAfter(f)
           highest == Max({after, Len(server[f].mail)})
           wanted == Min({BatchSize, DailyLimit - used, highest - after})
<1>1. PICK n \in 0 .. wanted :
          /\ used' = used + n
          /\ cycle' = [cycle EXCEPT !.pc = "save", !.validity = server[f].validity,
                         !.highest = highest, !.uid = after,
                         !.batch = SubSeq(server[f].mail, after + 1, after + n)]
  BY DEF Fetch
<1>2. /\ f \in Folders /\ server[f].validity \in Nat \ {0} /\ server[f].mail \in Seq(Messages)
      /\ cursor[f] \in CursorRow /\ cursor[f].last <= Len(server[f].mail)
      /\ cursor[f].validity = 0 => cursor[f].last = 0
      /\ used \in 0 .. DailyLimit /\ used < DailyLimit /\ cycle \in CycleRow
  BY DEF MailInv, CycleInv, CycleRow, ServerInv, CursorInv, Fetch
<1>3. /\ after \in 0 .. Len(server[f].mail) /\ Len(server[f].mail) \in Nat
      /\ after = IF cursor[f].validity = server[f].validity THEN cursor[f].last ELSE 0
  BY <1>2 DEF SearchAfter, CursorRow
<1>4. highest = Len(server[f].mail)
  <2> HIDE DEF f, after
  <2>1. after \in Nat
    BY <1>3
  <2>2. highest \in {after, Len(server[f].mail)} /\ highest >= after /\ highest >= Len(server[f].mail)
    BY <1>3, <2>1, LargerOfTwo
  <2>3. QED BY <1>3, <2>2
<1>5. n \in Nat /\ n <= DailyLimit - used /\ after + n <= Len(server[f].mail)
  <2>1. BatchSize \in Nat /\ DailyLimit \in Nat
    BY MailAssumption DEF MailInv
  <2>2. DailyLimit - used \in Nat /\ highest - after \in Nat
    BY <1>2, <1>3, <1>4, <2>1
  <2>3. wanted \in Nat /\ wanted <= DailyLimit - used /\ wanted <= highest - after
    BY <2>1, <2>2, SmallestOfThree
  <2> HIDE DEF wanted, highest, after, f
  <2>4. QED BY <1>2, <1>3, <1>4, <2>1, <2>3
<1> HIDE DEF wanted
<1> DEFINE batch == SubSeq(server[f].mail, after + 1, after + n)
<1>6. /\ batch \in Seq(Messages) /\ Len(batch) = n
      /\ \A k \in 1 .. n : batch[k] = server[f].mail[after + k]
  <2> HIDE DEF after, f
  <2>1. after + 1 \in Int /\ after + n \in Int
    BY <1>3, <1>5
  <2>2. \A k \in after + 1 .. after + n : server[f].mail[k] \in Messages
    BY <1>2, <1>3, <1>5, ElementOfSeq
  <2>3. /\ batch \in Seq(Messages)
        /\ Len(batch) = IF after + 1 <= after + n THEN (after + n) - (after + 1) + 1 ELSE 0
        /\ \A k \in 1 .. (after + n) - (after + 1) + 1 : batch[k] = server[f].mail[(after + 1) + k - 1]
    BY <2>1, <2>2, SubSeqProperties
  <2>4. after \in Nat /\ n \in Nat /\ (after + n) - (after + 1) + 1 = n
    BY <1>3, <1>5
  <2>5. Len(batch) = n
    BY <2>3, <2>4
  <2>6. ASSUME NEW k \in 1 .. n PROVE batch[k] = server[f].mail[after + k]
    <3>1. (after + 1) + k - 1 = after + k /\ k \in 1 .. (after + n) - (after + 1) + 1
      BY <2>4
    <3>2. QED BY <2>3, <3>1
  <2>7. QED BY <2>3, <2>5, <2>6
<1> HIDE DEF batch
<1>7. /\ cycle' \in CycleRow /\ cycle'.pc = "save" /\ cycle'.folder = f
      /\ cycle'.validity = server[f].validity /\ cycle'.uid = after /\ cycle'.batch = batch
  <2>1. cycle' = [cycle EXCEPT !.pc = "save", !.validity = server[f].validity,
                     !.highest = highest, !.uid = after, !.batch = batch]
    BY <1>1 DEF batch
  <2>2. highest \in Nat /\ after \in Nat
    BY <1>3, <1>4
  <2> HIDE DEF after, highest
  <2>3. QED BY <1>2, <1>6, <2>1, <2>2 DEF CycleRow
<1> HIDE DEF highest, after
<1>8. used' \in 0 .. DailyLimit
  <2>1. DailyLimit \in Nat
    BY MailAssumption DEF MailInv
  <2>2. QED BY <1>1, <1>2, <1>5, <2>1
<1>9. CycleInv'
  <2>1. UNCHANGED <<server, cursor>>
    BY DEF Fetch
  <2>2. Behind(cycle)'
    BY <1>2, <1>3, <1>5, <1>6, <1>7, <2>1 DEF Behind
  <2>3. QED BY <1>3, <1>7, <1>8, <2>1, <2>2 DEF CycleInv
<1>10. CursorInv' /\ Passed'
  BY DEF Fetch, MailInv, CursorInv, Passed, Inbound
<1>11. ingest["poller"].pc = "idle"
  BY PollerRests DEF Fetch
<1>12. QED BY <1>8, <1>9, <1>10, <1>11, WithinFolder DEF Fetch

LEMMA SaveCursorKeeps == ASSUME MailInv, SaveCursor PROVE MailInv'
<1> DEFINE f == cycle.folder
<1>1. /\ cycle \in CycleRow /\ f \in Folders /\ cycle.pc = "save" /\ Behind(cycle)
      /\ cycle.validity \in 1 .. server[f].validity /\ cycle.highest \in Nat
      /\ cycle.uid = IF cursor[f].validity = cycle.validity THEN cursor[f].last ELSE 0
      /\ cursor \in [Folders -> CursorRow] /\ server[f].mail \in Seq(Messages)
      /\ server[f].validity \in Nat
  BY DEF MailInv, CycleInv, CycleRow, Behind, SaveCursor, CursorInv, ServerInv
<1>2. /\ cycle' = [cycle EXCEPT !.pc = "next"] /\ cycle' \in CycleRow
      /\ UNCHANGED <<server, row, started, ingest, used>>
      /\ cursor' = IF cursor[f].validity = cycle.validity THEN cursor
                   ELSE [cursor EXCEPT ![f] = NewCursor]
  BY <1>1 DEF SaveCursor, CycleRow
<1>3. /\ cycle'.pc = "next" /\ cycle'.folder = f /\ cycle'.uid = cycle.uid
      /\ cycle'.validity = cycle.validity /\ cycle'.batch = cycle.batch
  BY <1>1, <1>2 DEF CycleRow
<1>4. NewCursor \in CursorRow /\ NewCursor.validity = cycle.validity /\ NewCursor.last = 0
  BY <1>1 DEF NewCursor, CursorRow
<1> HIDE DEF f
<1>5. /\ cursor' \in [Folders -> CursorRow]
      /\ cursor'[f].validity = cycle.validity /\ cursor'[f].last = cycle.uid
      /\ \A g \in Folders : cursor'[g] = cursor[g] \/ (cursor'[g] = NewCursor /\ g = f)
  <2>1. CASE cursor[f].validity = cycle.validity
    BY <1>1, <1>2, <2>1
  <2>2. CASE cursor[f].validity # cycle.validity
    BY <1>1, <1>2, <1>4, <2>2
  <2>3. QED BY <2>1, <2>2
<1>6. CursorInv'
  <2>1. ASSUME NEW g \in Folders
        PROVE  /\ cursor'[g].validity <= server[g].validity
               /\ cursor'[g].validity = 0 => cursor'[g].last = 0
               /\ cursor'[g].last <= Len(server[g].mail)
    <3>1. CASE cursor'[g] = cursor[g]
      BY <3>1 DEF MailInv, CursorInv
    <3>2. CASE cursor'[g] = NewCursor /\ g = f
      BY <1>1, <1>4, <3>2
    <3>3. QED BY <1>5, <3>1, <3>2
  <2>2. QED BY <1>2, <1>5, <2>1 DEF CursorInv
<1>7. CycleInv'
  <2>1. Behind(cycle)'
    BY <1>1, <1>2, <1>3 DEF Behind, f
  <2>2. used \in 0 .. DailyLimit
    BY DEF MailInv, CycleInv
  <2>3. QED BY <1>2, <1>3, <1>5, <2>1, <2>2 DEF CycleInv
<1>8. Passed'
  <2>1. ASSUME NEW g \in Folders, cursor'[g].validity = server[g].validity,
               NEW uid \in 1 .. cursor'[g].last
        PROVE  LET m == server[g].mail[uid]
               IN  /\ row[m].stored
                   /\ Inbound(m) /\ uid > cursor'[g].cutoff => started[m] # "nothing"
    <3>1. CASE cursor'[g] = cursor[g]
      BY <2>1, <3>1 DEF MailInv, Passed
    <3>2. CASE cursor'[g] = NewCursor
      BY <1>4, <2>1, <3>2
    <3>3. QED BY <1>5, <3>1, <3>2
  <2>2. QED BY <1>2, <2>1 DEF Passed, Inbound
<1>9. ingest["poller"].pc = "idle" /\ used' \in 0 .. DailyLimit
  BY <1>1, <1>2, PollerRests DEF MailInv, CycleInv
<1>10. QED BY <1>2, <1>6, <1>7, <1>8, <1>9, WithinFolder

LEMMA EndFolderKeeps == ASSUME MailInv, EndFolder PROVE MailInv'
<1> DEFINE f == cycle.folder
<1>1. /\ cycle \in CycleRow /\ f \in Folders /\ cursor \in [Folders -> CursorRow]
      /\ used \in 0 .. DailyLimit
  BY DEF MailInv, CycleInv, CycleRow, CursorInv
<1>2. Complete(cursor[f]) \in BOOLEAN
  BY <1>1 DEF Complete, CursorRow
<1> HIDE DEF f
<1>3. /\ cursor' = [cursor EXCEPT ![f].complete = Complete(cursor[f])]
      /\ cycle' = FolderDone(TRUE)
      /\ UNCHANGED <<server, used, row, started, ingest>>
  BY DEF EndFolder, f
<1>4. /\ cursor' \in [Folders -> CursorRow]
      /\ \A g \in Folders : /\ cursor'[g].validity = cursor[g].validity
                            /\ cursor'[g].last = cursor[g].last
                            /\ cursor'[g].cutoff = cursor[g].cutoff
  BY <1>1, <1>2, <1>3 DEF CursorRow
<1>5. CursorInv'
  BY <1>3, <1>4 DEF MailInv, CursorInv
<1>6. CycleInv'
  <2>1. cycle' \in CycleRow /\ cycle'.pc \notin {"save", "next"}
    BY <1>1, <1>3, FolderIsDone
  <2>2. QED BY <1>1, <1>3, <2>1 DEF CycleInv
<1>7. Passed'
  <2> SUFFICES ASSUME NEW g \in Folders, cursor'[g].validity = server[g].validity,
                      NEW uid \in 1 .. cursor'[g].last
               PROVE  LET m == server[g].mail[uid]
                      IN  /\ row[m].stored
                          /\ Inbound(m) /\ uid > cursor'[g].cutoff => started[m] # "nothing"
    BY <1>3 DEF Passed, Inbound
  <2>1. QED BY <1>4 DEF MailInv, Passed
<1>8. ingest["poller"].pc = "idle"
  BY DEF MailInv, PollerInv, FirstOfBatch, EndFolder
<1>9. QED BY <1>1, <1>3, <1>5, <1>6, <1>7, <1>8, WithinFolder

LEMMA AdvanceKeeps == ASSUME MailInv, Advance PROVE MailInv'
<1> DEFINE f == cycle.folder
           m == Head(cycle.batch)
           last == Max({cursor[f].last, cycle.uid + 1})
           moved == [cursor[f] EXCEPT !.last = last]
           passed == [moved EXCEPT !.complete = Complete(moved)]
<1>1. /\ ingest["poller"].pc = "done" /\ FirstOfBatch(ingest["poller"]) /\ Landed(ingest["poller"])
      /\ cycle.pc = "next" /\ cycle.batch # <<>> /\ ingest["poller"].message = m
  BY DEF Advance, MailInv, PollerInv, FirstOfBatch
<1>2. /\ cycle \in CycleRow /\ f \in Folders /\ cycle.uid \in Nat /\ cycle.batch \in Seq(Messages)
      /\ cursor \in [Folders -> CursorRow] /\ used \in 0 .. DailyLimit
      /\ cursor[f].validity = cycle.validity /\ cursor[f].last = cycle.uid
      /\ cycle.validity \in 1 .. server[f].validity
      /\ cycle.uid + Len(cycle.batch) <= Len(server[f].mail)
      /\ \A k \in 1 .. Len(cycle.batch) : cycle.batch[k] = server[f].mail[cycle.uid + k]
      /\ server[f].mail \in Seq(Messages) /\ server[f].validity \in Nat
  BY <1>1 DEF MailInv, CycleInv, CycleRow, Behind, CursorInv, ServerInv
<1>3. /\ UNCHANGED <<server, used, row, started>>
      /\ ingest' = [ingest EXCEPT !["poller"] = Resting]
      /\ cycle' = [cycle EXCEPT !.batch = Tail(@), !.uid = @ + 1]
      /\ cursor' = [cursor EXCEPT ![f] = passed]
  BY DEF Advance
<1>4. /\ m = server[f].mail[cycle.uid + 1] /\ m \in Messages
      /\ Tail(cycle.batch) \in Seq(Messages) /\ Len(Tail(cycle.batch)) = Len(cycle.batch) - 1
      /\ \A k \in 1 .. Len(Tail(cycle.batch)) : Tail(cycle.batch)[k] = cycle.batch[k + 1]
      /\ Len(cycle.batch) \in Nat \ {0} /\ Len(server[f].mail) \in Nat
  <2>1. Len(cycle.batch) \in Nat \ {0} /\ Len(server[f].mail) \in Nat
    BY <1>1, <1>2, EmptySeq
  <2>2. m = cycle.batch[1] /\ 1 \in 1 .. Len(cycle.batch)
    BY <1>1, <1>2, <2>1
  <2>3. QED BY <1>1, <1>2, <2>1, <2>2, HeadTailProperties
<1>5. last = cycle.uid + 1
  <2>1. last \in {cursor[f].last, cycle.uid + 1} /\ last >= cycle.uid + 1
    <3>1. cursor[f].last \in Nat /\ cycle.uid + 1 \in Nat
      BY <1>2
    <3> HIDE DEF f
    <3>2. QED BY <3>1, LargerOfTwo
  <2>2. QED BY <1>2, <2>1
<1>6. /\ passed \in CursorRow /\ passed.validity = cycle.validity /\ passed.last = cycle.uid + 1
      /\ passed.cutoff = cursor[f].cutoff
  <2> HIDE DEF last
  <2>1. cursor[f] \in CursorRow /\ last \in Nat
    BY <1>2, <1>5
  <2>2. /\ moved \in CursorRow /\ moved.last = last /\ moved.validity = cursor[f].validity
        /\ moved.cutoff = cursor[f].cutoff
    BY <2>1 DEF CursorRow
  <2> HIDE DEF moved
  <2>3. Complete(moved) \in BOOLEAN
    BY <2>2 DEF Complete, CursorRow
  <2>4. QED BY <1>2, <1>5, <2>2, <2>3 DEF CursorRow
<1> HIDE DEF passed, moved, last
<1>7. /\ cursor' \in [Folders -> CursorRow] /\ cursor'[f] = passed
      /\ \A g \in Folders : g # f => cursor'[g] = cursor[g]
  BY <1>2, <1>3, <1>6
<1>8. /\ cycle' \in CycleRow /\ cycle'.pc = "next" /\ cycle'.folder = f
      /\ cycle'.validity = cycle.validity
      /\ cycle'.uid = cycle.uid + 1 /\ cycle'.batch = Tail(cycle.batch)
  <2> DEFINE tail == Tail(cycle.batch)
             next == cycle.uid + 1
             q == [cycle EXCEPT !.batch = tail]
  <2>1. cycle \in CycleRow /\ cycle.pc = "next" /\ tail \in Seq(Messages) /\ next \in Nat
    BY <1>1, <1>2, <1>4
  <2> HIDE DEF tail, next
  <2>2. /\ q \in CycleRow /\ q.pc = "next" /\ q.folder = cycle.folder
        /\ q.validity = cycle.validity /\ q.batch = tail
    BY <2>1 DEF CycleRow
  <2>3. cycle' = [q EXCEPT !.uid = next]
    BY <1>3, <2>1 DEF tail, next, CycleRow
  <2> HIDE DEF q
  <2>4. /\ cycle' \in CycleRow /\ cycle'.pc = q.pc /\ cycle'.folder = q.folder
        /\ cycle'.validity = q.validity /\ cycle'.uid = next /\ cycle'.batch = q.batch
    BY <2>1, <2>2, <2>3 DEF CycleRow
  <2>5. QED BY <2>2, <2>4 DEF tail, next
<1>9. CursorInv'
  <2>1. ASSUME NEW g \in Folders
        PROVE  /\ cursor'[g].validity <= server[g].validity
               /\ cursor'[g].validity = 0 => cursor'[g].last = 0
               /\ cursor'[g].last <= Len(server[g].mail)
    <3>1. CASE g # f
      BY <1>7, <3>1 DEF MailInv, CursorInv
    <3>2. CASE g = f
      <4>1. cursor'[g].validity = cycle.validity /\ cursor'[g].last = cycle.uid + 1
        BY <1>6, <1>7, <3>2
      <4>2. cycle.validity <= server[f].validity /\ cycle.validity # 0
        BY <1>2
      <4>3. cycle.uid + 1 <= Len(server[f].mail)
        BY <1>2, <1>4
      <4>4. QED BY <3>2, <4>1, <4>2, <4>3
    <3>3. QED BY <3>1, <3>2
  <2>2. QED BY <1>3, <1>7, <2>1 DEF CursorInv
<1>10. CycleInv'
  <2>1. Behind(cycle)'
    <3>1. ASSUME NEW k \in 1 .. Len(Tail(cycle.batch))
          PROVE  Tail(cycle.batch)[k] = server[f].mail[(cycle.uid + 1) + k]
      <4>1. k + 1 \in 1 .. Len(cycle.batch) /\ cycle.uid + (k + 1) = (cycle.uid + 1) + k
        <5>1. /\ Len(Tail(cycle.batch)) = Len(cycle.batch) - 1 /\ Len(cycle.batch) \in Nat
              /\ cycle.uid \in Nat /\ k \in 1 .. Len(Tail(cycle.batch))
          BY <1>2, <1>4
        <5>2. QED BY ONLY <5>1
      <4>2. cycle.batch[k + 1] = server[f].mail[cycle.uid + (k + 1)]
        BY <1>2, <4>1
      <4>3. QED BY <1>4, <4>1, <4>2
    <3>2. cycle'.uid + Len(cycle'.batch) <= Len(server[f].mail)
      BY <1>2, <1>4, <1>8
    <3>3. cycle'.validity \in 1 .. server[f].validity
      BY <1>2, <1>8
    <3>4. QED BY <1>3, <1>8, <3>1, <3>2, <3>3 DEF Behind
  <2>2. QED BY <1>2, <1>3, <1>6, <1>7, <1>8, <2>1 DEF CycleInv
<1>11. Passed'
  <2> SUFFICES ASSUME NEW g \in Folders, cursor'[g].validity = server[g].validity,
                      NEW uid \in 1 .. cursor'[g].last
               PROVE  LET n == server[g].mail[uid]
                      IN  /\ row[n].stored
                          /\ Inbound(n) /\ uid > cursor'[g].cutoff => started[n] # "nothing"
    BY <1>3 DEF Passed, Inbound
  <2>1. CASE g # f
    BY <1>7, <2>1 DEF MailInv, Passed
  <2>2. CASE g = f /\ uid # cycle.uid + 1
    <3>1. cursor[f].validity = server[f].validity /\ uid \in 1 .. cursor[f].last
      BY <1>2, <1>6, <1>7, <2>2
    <3>2. cursor'[g].cutoff = cursor[f].cutoff
      BY <1>6, <1>7, <2>2
    <3>3. QED BY <1>2, <2>2, <3>1, <3>2 DEF MailInv, Passed
  <2>3. CASE g = f /\ uid = cycle.uid + 1
    <3>1. server[g].mail[uid] = m
      BY <1>4, <2>3
    <3>2. row[m].stored
      BY <1>1 DEF Landed
    <3>3. ASSUME Inbound(m), uid > cursor'[g].cutoff
          PROVE  started[m] # "nothing"
      <4>1. ~(cycle.uid + 1 <= cursor[f].cutoff)
        <5>1. cursor[f].cutoff \in Nat /\ uid > cursor[f].cutoff
          BY <1>2, <1>6, <1>7, <2>3, <3>3 DEF CursorRow
        <5>2. QED BY <1>2, <2>3, <5>1
      <4>2. ~ingest["poller"].history
        BY <1>1, <4>1 DEF FirstOfBatch, IsHistory
      <4>3. QED BY <1>1, <3>3, <4>2 DEF Landed
    <3>4. QED BY <3>1, <3>2, <3>3
  <2>4. QED BY <2>1, <2>2, <2>3
<1>12. QED BY <1>1, <1>2, <1>3, <1>9, <1>10, <1>11, WithinFolder

LEMMA CrashKeeps == ASSUME MailInv, NEW i \in Ingesters, Crash(i) PROVE MailInv'
<1>1. used \in 0 .. DailyLimit
  BY DEF MailInv, CycleInv
<1>2. CASE i = "poller"
  BY <1>1, <1>2, NoCycleIsCycle, NothingKept, BetweenFolders DEF Crash
<1>3. CASE i # "poller"
  <2>1. Session(Resting)
    BY DEF Session, Resting
  <2>2. QED BY <1>3, <2>1, NothingKept, Ingester DEF Crash
<1>4. QED BY <1>2, <1>3

-----------------------------------------------------------------------------
(* The ingestion of a message *)

LEMMA WhatIsRead ==
    ASSUME MailInv, NEW i \in Ingesters, Ingesting(i).pc # "idle"
    PROVE  /\ Session(Ingesting(i)) /\ Ingesting(i).message \in Messages
           /\ i = "poller" => FirstOfBatch(Ingesting(i))
           /\ Ingesting(i) = ingest[i] \/ Ingesting(i).pc = "check"
<1>1. Session(ingest[i])
  BY DEF MailInv, TableInv
<1>2. CASE i = "poller" /\ ingest[i].pc = "idle" /\ cycle.pc = "next" /\ cycle.batch # <<>>
  <2> DEFINE m == Head(cycle.batch)
             h == IsHistory(cycle.folder, cycle.uid + 1)
  <2>1. m \in Messages
    <3>1. cycle.batch \in Seq(Messages)
      BY DEF MailInv, CycleInv, CycleRow
    <3>2. QED BY <1>2, <3>1, HeadTailProperties
  <2>2. Ingesting(i) = [Resting EXCEPT !.pc = "check", !.message = m, !.history = h]
    BY <1>2 DEF Ingesting
  <2> HIDE DEF m, h
  <2>3. Ingesting(i) = [pc |-> "check", message |-> m, history |-> h, case |-> 0, opens |-> {}]
    BY <2>2 DEF Resting
  <2> HIDE <2>2
  <2>4. QED BY <1>2, <2>1, <2>3 DEF Session, FirstOfBatch, m, h
<1>3. CASE ~(i = "poller" /\ ingest[i].pc = "idle" /\ cycle.pc = "next" /\ cycle.batch # <<>>)
  <2>1. Ingesting(i) = ingest[i]
    BY <1>3 DEF Ingesting
  <2>2. i = "poller" => FirstOfBatch(ingest[i])
    BY <2>1 DEF MailInv, PollerInv
  <2>3. QED BY <1>1, <2>1, <2>2 DEF Session
<1>4. QED BY <1>2, <1>3

LEMMA Records ==
    ASSUME NEW pc, NEW m \in Messages, NEW h, NEW case, NEW opens,
           NEW r, r = [pc |-> pc, message |-> m, history |-> h, case |-> case, opens |-> opens]
    PROVE  /\ Session(r) /\ r.pc = pc /\ r.message = m /\ r.history = h
           /\ r.case = case /\ r.opens = opens
BY DEF Session

LEMMA Going ==
    ASSUME MailInv, UNCHANGED <<server, cursor, used, cycle>>, NEW i \in Ingesters,
           Ingesting(i).pc # "idle", NEW pc, pc # "idle", Goes(i, pc),
           row' = [m \in Messages |-> row'[m]], \A m \in Messages : Columns(row'[m]),
           started' = [m \in Messages |-> started'[m]], Kept,
           LET q == Ingesting(i) IN i = "poller" =>
               /\ pc \in {"follow", "follow after collision", "done"} => row'[q.message].stored
               /\ pc = "done" /\ Inbound(q.message) /\ ~q.history => started'[q.message] # "nothing"
    PROVE  MailInv'
<1> DEFINE q == Ingesting(i)
           r == [q EXCEPT !.pc = pc]
<1>1. Session(q) /\ q.pc # "idle" /\ (i = "poller" => FirstOfBatch(q))
  BY WhatIsRead
<1>2. i = "poller" =>
          /\ pc \in {"follow", "follow after collision", "done"} => row'[q.message].stored
          /\ pc = "done" /\ Inbound(q.message) /\ ~q.history => started'[q.message] # "nothing"
  OBVIOUS
<1>3. \/ ingest' = [ingest EXCEPT ![i] = Resting] /\ i = "upload"
      \/ ingest' = [ingest EXCEPT ![i] = r]
  BY DEF Goes
<1> HIDE DEF q
<1>4. CASE ingest' = [ingest EXCEPT ![i] = Resting] /\ i = "upload"
  <2>1. Session(Resting)
    BY DEF Session, Resting
  <2>2. QED BY <1>4, <2>1, Ingester
<1>5. CASE ingest' = [ingest EXCEPT ![i] = r]
  <2>8. Session(q) /\ q.message \in Messages
    BY <1>1 DEF Session
  <2>9. r = [pc |-> pc, message |-> q.message, history |-> q.history, case |-> q.case,
             opens |-> q.opens]
    BY ONLY <2>8 DEF Session
  <2> HIDE DEF r
  <2>1. Session(r) /\ r.pc = pc /\ r.message = q.message /\ r.history = q.history
    BY ONLY <2>8, <2>9, Records
  <2>2. i = "poller" => FirstOfBatch(r)
    BY <1>1, <2>1 DEF FirstOfBatch
  <2>3. i = "poller" =>
            /\ r.pc \in {"follow", "follow after collision", "done"} => row'[r.message].stored
            /\ r.pc = "done" /\ Inbound(r.message) /\ ~r.history => started'[r.message] # "nothing"
    BY <1>2, <2>1
  <2>4. QED BY <1>5, <2>1, <2>2, <2>3, Ingester
<1>6. QED BY <1>3, <1>4, <1>5

LEMMA UploadKeeps == ASSUME MailInv, NEW m \in Uploads, Upload(m) PROVE MailInv'
<1> DEFINE q == [Resting EXCEPT !.pc = "check", !.message = m]
<1>1. m \in Messages /\ "upload" \in Ingesters /\ "upload" # "poller"
  BY MailAssumption DEF Ingesters
<1>2. Session(q)
  <2>1. PICK r : r = q
    OBVIOUS
  <2>2. r = [pc |-> "check", message |-> m, history |-> FALSE, case |-> 0, opens |-> {}]
    BY ONLY <2>1 DEF Resting
  <2>3. Session(r)
    BY ONLY <1>1, <2>2, Records
  <2>4. QED BY ONLY <2>1, <2>3
<1>3. ingest' = [ingest EXCEPT !["upload"] = q]
  BY DEF Upload
<1> HIDE DEF q
<1>4. QED BY <1>1, <1>2, <1>3, NothingKept, Ingester DEF Upload

LEMMA DuplicateKeeps == ASSUME MailInv, NEW i \in Ingesters, Duplicate(i) PROVE MailInv'
<1>1. Ingesting(i).pc # "idle" /\ row[Ingesting(i).message].stored
      /\ Goes(i, IF Live(i) THEN "follow" ELSE "done")
  BY DEF Duplicate
<1>2. Live(i) <=> Inbound(Ingesting(i).message) /\ ~Ingesting(i).history
  BY DEF Live
<1>3. CASE Live(i)
  BY <1>1, <1>3, NothingKept, Going DEF Duplicate
<1>4. CASE ~Live(i)
  BY <1>1, <1>2, <1>4, NothingKept, Going DEF Duplicate
<1>5. QED BY <1>3, <1>4

\* A session that goes on to look for the parent or to insert.
LEMMA Finding ==
    ASSUME MailInv, UNCHANGED <<server, cursor, used, cycle, row, started>>, NEW i \in Ingesters,
           NEW q, ingest' = [ingest EXCEPT ![i] = q], Session(q),
           q.pc \in {"parent", "insert", "promote"},
           q.message = Ingesting(i).message, q.history = Ingesting(i).history,
           Ingesting(i).pc # "idle"
    PROVE  MailInv'
<1>1. i = "poller" => FirstOfBatch(q)
  BY WhatIsRead DEF FirstOfBatch
<1>2. QED BY <1>1, NothingKept, Ingester

\* What FindCase and LockParent leave an ingester with.
LEMMA FindCaseFinds ==
    ASSUME MailInv, NEW i \in Ingesters, FindCase(i)
    PROVE  LET q == Ingesting(i)
               m == q.message
               found == HeaderMatch(m, ~LiveHuman(i) \/ Personnel(m))
               unknown == LiveHuman(i) /\ found.case = 0 /\ ~found.ambiguous
               inquiry == NewInquiry(Mail[m], contacts, cases, Recent)
           IN  \E r : /\ ingest' = [ingest EXCEPT ![i] = r] /\ Session(r)
                      /\ r.message = m /\ r.history = q.history
                      /\ r.pc \in {"parent", "insert"}
                      /\ unknown /\ Headers(m) # {NoHeader} =>
                            r.pc = "parent" /\ r.opens = q.opens /\ r.case = q.case
                      /\ unknown /\ Headers(m) = {NoHeader} =>
                            r.pc = "insert" /\ r.opens = inquiry.opens /\ r.case = inquiry.case
                      /\ ~unknown => /\ r.pc = "insert" /\ r.opens = q.opens
                                     /\ r.case = IF found.case = 0 THEN Mail[m].bounces ELSE found.case
<1> DEFINE q == Ingesting(i)
           m == q.message
           found == HeaderMatch(m, ~LiveHuman(i) \/ Personnel(m))
           unknown == LiveHuman(i) /\ found.case = 0 /\ ~found.ambiguous
           inquiry == NewInquiry(Mail[m], contacts, cases, Recent)
           other == IF found.case = 0 THEN Mail[m].bounces ELSE found.case
           parent == [q EXCEPT !.pc = "parent"]
           opened == [q EXCEPT !.pc = "insert", !.case = inquiry.case, !.opens = inquiry.opens]
           matched == [q EXCEPT !.pc = "insert", !.case = other]
<1>1. /\ q.pc = "check"
      /\ ingest' = [ingest EXCEPT ![i] = IF unknown /\ Headers(m) # {NoHeader} THEN parent
                                         ELSE IF unknown THEN opened ELSE matched]
  BY DEF FindCase
<1>2. Session(q)
  BY <1>1, WhatIsRead
<1> HIDE DEF q, found, unknown, inquiry, other
<1>7. Session(q) /\ m \in Messages
  BY <1>1, <1>2 DEF Session
<1>8. \E r : /\ ingest' = [ingest EXCEPT ![i] = r] /\ Session(r)
             /\ r.message = m /\ r.history = q.history
             /\ r.pc \in {"parent", "insert"}
             /\ unknown /\ Headers(m) # {NoHeader} =>
                   r.pc = "parent" /\ r.opens = q.opens /\ r.case = q.case
             /\ unknown /\ Headers(m) = {NoHeader} =>
                   r.pc = "insert" /\ r.opens = inquiry.opens /\ r.case = inquiry.case
             /\ ~unknown => r.pc = "insert" /\ r.opens = q.opens /\ r.case = other
  <2>1. CASE unknown /\ Headers(m) # {NoHeader}
    <3>1. PICK r : r = parent /\ ingest' = [ingest EXCEPT ![i] = r]
      BY <1>1, <2>1
    <3>2. r = [pc |-> "parent", message |-> m, history |-> q.history, case |-> q.case,
               opens |-> q.opens]
      BY ONLY <1>7, <3>1 DEF Session
    <3>3. /\ Session(r) /\ r.pc = "parent" /\ r.message = m /\ r.history = q.history
          /\ r.opens = q.opens /\ r.case = q.case
      BY ONLY <1>7, <3>2, Records
    <3>4. QED BY <2>1, <3>1, <3>3
  <2>2. CASE unknown /\ Headers(m) = {NoHeader}
    <3>1. PICK r : r = opened /\ ingest' = [ingest EXCEPT ![i] = r]
      BY <1>1, <2>2
    <3>2. r = [pc |-> "insert", message |-> m, history |-> q.history, case |-> inquiry.case,
               opens |-> inquiry.opens]
      BY ONLY <1>7, <3>1 DEF Session
    <3>3. /\ Session(r) /\ r.pc = "insert" /\ r.message = m /\ r.history = q.history
          /\ r.opens = inquiry.opens /\ r.case = inquiry.case
      BY ONLY <1>7, <3>2, Records
    <3>4. QED BY <2>2, <3>1, <3>3
  <2>3. CASE ~unknown
    <3>1. PICK r : r = matched /\ ingest' = [ingest EXCEPT ![i] = r]
      BY <1>1, <2>3
    <3>2. r = [pc |-> "insert", message |-> m, history |-> q.history, case |-> other,
               opens |-> q.opens]
      BY ONLY <1>7, <3>1 DEF Session
    <3>3. /\ Session(r) /\ r.pc = "insert" /\ r.message = m /\ r.history = q.history
          /\ r.case = other /\ r.opens = q.opens
      BY ONLY <1>7, <3>2, Records
    <3>4. QED BY <2>3, <3>1, <3>3
  <2>4. QED BY <2>1, <2>2, <2>3
<1>9. QED BY <1>8 DEF q, found, unknown, inquiry, other

LEMMA LockParentFinds ==
    ASSUME MailInv, NEW i \in Ingesters, LockParent(i)
    PROVE  LET q == ingest[i]
               m == q.message
               inquiry == NewInquiry(Mail[m], contacts \cup {Mail[m].party}, cases, Recent)
           IN  \E r : /\ ingest' = [ingest EXCEPT ![i] = r] /\ Session(r)
                      /\ r.message = m /\ r.history = q.history
                      /\ \/ /\ r.pc = "promote" /\ CampaignParent(m)
                            /\ r.opens = inquiry.opens /\ r.case = inquiry.case
                         \/ /\ r.pc = "insert" /\ r.opens = q.opens
                            /\ r.case = HeaderMatch(m, FALSE).case
<1> DEFINE q == ingest[i]
           m == q.message
           again == HeaderMatch(m, FALSE)
           inquiry == NewInquiry(Mail[m], contacts \cup {Mail[m].party}, cases, Recent)
           promoted == [q EXCEPT !.pc = "promote", !.case = inquiry.case, !.opens = inquiry.opens]
           matched == [q EXCEPT !.pc = "insert", !.case = again.case]
<1>1. /\ q.pc = "parent"
      /\ ingest' = [ingest EXCEPT ![i] = IF CampaignParent(m) THEN promoted ELSE matched]
  BY DEF LockParent, MailInv, TableInv
<1>2. Session(q)
  BY DEF MailInv, TableInv
<1> HIDE DEF q, again, inquiry
<1>7. Session(q) /\ m \in Messages
  BY <1>1, <1>2 DEF Session
<1>8. \E r : /\ ingest' = [ingest EXCEPT ![i] = r] /\ Session(r)
             /\ r.message = m /\ r.history = q.history
             /\ \/ /\ r.pc = "promote" /\ CampaignParent(m)
                   /\ r.opens = inquiry.opens /\ r.case = inquiry.case
                \/ r.pc = "insert" /\ r.opens = q.opens /\ r.case = again.case
  <2>1. CASE CampaignParent(m)
    <3>1. PICK r : r = promoted /\ ingest' = [ingest EXCEPT ![i] = r]
      BY <1>1, <2>1
    <3>2. r = [pc |-> "promote", message |-> m, history |-> q.history, case |-> inquiry.case,
               opens |-> inquiry.opens]
      BY ONLY <1>7, <3>1 DEF Session
    <3>3. /\ Session(r) /\ r.pc = "promote" /\ r.message = m /\ r.history = q.history
          /\ r.opens = inquiry.opens /\ r.case = inquiry.case
      BY ONLY <1>7, <3>2, Records
    <3>4. QED BY <2>1, <3>1, <3>3
  <2>2. CASE ~CampaignParent(m)
    <3>1. PICK r : r = matched /\ ingest' = [ingest EXCEPT ![i] = r]
      BY <1>1, <2>2
    <3>2. r = [pc |-> "insert", message |-> m, history |-> q.history, case |-> again.case,
               opens |-> q.opens]
      BY ONLY <1>7, <3>1 DEF Session
    <3>3. /\ Session(r) /\ r.pc = "insert" /\ r.message = m /\ r.history = q.history
          /\ r.case = again.case /\ r.opens = q.opens
      BY ONLY <1>7, <3>2, Records
    <3>4. QED BY <2>2, <3>1, <3>3
  <2>3. QED BY <2>1, <2>2
<1>9. QED BY <1>8 DEF q, again, inquiry

LEMMA FindCaseKeeps == ASSUME MailInv, NEW i \in Ingesters, FindCase(i) PROVE MailInv'
<1>1. PICK r : /\ ingest' = [ingest EXCEPT ![i] = r] /\ Session(r)
               /\ r.message = Ingesting(i).message /\ r.history = Ingesting(i).history
               /\ r.pc \in {"parent", "insert"}
  BY FindCaseFinds
<1>2. Ingesting(i).pc # "idle"
  BY DEF FindCase
<1>3. UNCHANGED <<server, cursor, used, cycle, row, started>>
  BY DEF FindCase
<1>4. QED BY <1>1, <1>2, <1>3, Finding

\* Past the duplicate check an ingester is what it has read.
LEMMA AfterTheCheck ==
    ASSUME NEW i, ingest[i].pc # "idle"
    PROVE  Ingesting(i) = ingest[i]
BY DEF Ingesting

LEMMA LockParentKeeps == ASSUME MailInv, NEW i \in Ingesters, LockParent(i) PROVE MailInv'
<1>1. PICK r : /\ ingest' = [ingest EXCEPT ![i] = r] /\ Session(r)
               /\ r.message = ingest[i].message /\ r.history = ingest[i].history
               /\ r.pc \in {"promote", "insert"}
  BY LockParentFinds
<1>2. ingest[i].pc # "idle" /\ Ingesting(i) = ingest[i]
  BY AfterTheCheck DEF LockParent
<1>3. UNCHANGED <<server, cursor, used, cycle, row, started>>
  BY DEF LockParent
<1>4. QED BY <1>1, <1>2, <1>3, Finding

\* What an insertion makes of the rows: one is new, and a promotion gives the copies of the
\* campaign's message that have no case the one of the answer.
CaseOf(q) == IF q.opens # {} THEN Len(cases \o SetToSeq(q.opens)) ELSE q.case
Promotes(q, n) == q.pc = "promote" /\ n \in Copies \cap Stored /\ row[n].case = 0

LEMMA RowsInserted ==
    ASSUME MailInv, NEW i \in Ingesters, Insert(i)
    PROVE  LET q == ingest[i]
               m == q.message
           IN  /\ m \in Messages /\ ~row[m].stored
               /\ row' = [n \in Messages |-> row'[n]]
               /\ \A n \in Messages : Columns(row'[n])
               /\ row'[m].stored /\ row'[m].history = q.history /\ row'[m].case = CaseOf(q)
               /\ \A n \in Messages \ {m} :
                     /\ row'[n].stored = row[n].stored /\ row'[n].history = row[n].history
                     /\ row'[n].case = IF Promotes(q, n) THEN CaseOf(q) ELSE row[n].case
<1> DEFINE q == ingest[i]
           m == q.message
           case == CaseOf(q)
<1>1. m \in Messages /\ ~row[m].stored
  BY DEF Insert, MailInv, TableInv, Session
<1>2. row' = [n \in Messages |->
           IF n = m THEN [stored |-> TRUE, history |-> q.history, case |-> case]
           ELSE IF q.pc = "promote" /\ n \in Copies \cap Stored /\ row[n].case = 0
           THEN [row[n] EXCEPT !.case = case]
           ELSE row[n]]
  BY DEF Insert, CaseOf
<1> HIDE DEF m, q, case
<1>3. /\ row' = [n \in Messages |-> row'[n]]
      /\ row'[m] = [stored |-> TRUE, history |-> q.history, case |-> case]
      /\ \A n \in Messages \ {m} :
            row'[n] = IF Promotes(q, n) THEN [row[n] EXCEPT !.case = case] ELSE row[n]
  BY <1>1, <1>2 DEF Promotes
<1> HIDE <1>2
<1>4. ASSUME NEW n \in Messages \ {m}
      PROVE  /\ Columns(row'[n])
             /\ row'[n].stored = row[n].stored /\ row'[n].history = row[n].history
             /\ row'[n].case = IF Promotes(q, n) THEN case ELSE row[n].case
  <2>1. row[n] = [stored |-> row[n].stored, history |-> row[n].history, case |-> row[n].case]
    BY DEF MailInv, TableInv, Columns
  <2>2. CASE Promotes(q, n)
    <3>1. row'[n] = [row[n] EXCEPT !.case = case]
      BY <1>3, <2>2
    <3>2. row'[n] = [stored |-> row[n].stored, history |-> row[n].history, case |-> case]
      BY ONLY <2>1, <3>1
    <3>3. QED BY <2>2, <3>2 DEF Columns
  <2>3. CASE ~Promotes(q, n)
    <3>1. row'[n] = row[n]
      BY <1>3, <2>3
    <3>2. QED BY <2>1, <2>3, <3>1 DEF Columns
  <2>4. QED BY <2>2, <2>3
<1>5. /\ Columns(row'[m]) /\ row'[m].stored /\ row'[m].history = q.history
      /\ row'[m].case = case
  BY <1>3 DEF Columns
<1>6. \A n \in Messages : Columns(row'[n])
  BY <1>4, <1>5
<1>7. QED BY <1>1, <1>3, <1>4, <1>5, <1>6 DEF q, m, case

LEMMA InsertKeeps == ASSUME MailInv, NEW i \in Ingesters, Insert(i) PROVE MailInv'
<1> DEFINE m == ingest[i].message
           pc == IF Live(i) THEN "follow" ELSE "done"
<1>1. /\ m \in Messages /\ row' = [n \in Messages |-> row'[n]]
      /\ \A n \in Messages : Columns(row'[n])
      /\ row'[m].stored /\ \A n \in Messages : row[n].stored => row'[n].stored
  BY RowsInserted
<1>2. /\ ingest[i].pc # "idle" /\ Ingesting(i) = ingest[i]
      /\ Goes(i, pc) /\ started' = started
      /\ UNCHANGED <<server, cursor, used, cycle>>
  BY AfterTheCheck DEF Insert
<1>3. started = [n \in Messages |-> started[n]]
  BY DEF MailInv, TableInv
<1>4. Kept
  BY <1>1, <1>2 DEF Kept
<1>5. pc # "idle" /\ (pc = "done" => ~(Inbound(m) /\ ~ingest[i].history))
  BY <1>2 DEF Live
<1> HIDE DEF m, pc
<1>6. UNCHANGED <<server, cursor, used, cycle>>
  BY <1>2
<1>7. Ingesting(i).pc # "idle" /\ Ingesting(i).message = m /\ Ingesting(i).history = ingest[i].history
  BY <1>2 DEF m
<1>8. started' = [n \in Messages |-> started'[n]]
  BY <1>2, <1>3
<1>9. QED BY <1>1, <1>2, <1>4, <1>5, <1>6, <1>7, <1>8, Going

LEMMA CollideKeeps == ASSUME MailInv, NEW i \in Ingesters, Collide(i) PROVE MailInv'
<1> DEFINE pc == IF Live(i) THEN "follow after collision" ELSE "collided"
<1>1. /\ Ingesting(i).pc # "idle" /\ row[Ingesting(i).message].stored
      /\ Goes(i, pc) /\ UNCHANGED <<server, cursor, used, cycle, row, started>>
  BY AfterTheCheck DEF Collide
<1>2. pc # "idle" /\ pc # "done"
  OBVIOUS
<1> HIDE DEF pc
<1>3. QED BY <1>1, <1>2, NothingKept, Going

LEMMA FollowUpKeeps == ASSUME MailInv, NEW i \in Ingesters, FollowUp(i) PROVE MailInv'
<1> DEFINE m == ingest[i].message
           pc == IF ingest[i].pc = "follow" THEN "done" ELSE "collided"
           over == Mail[m].kind # "bounce" /\ (Mail[m].disposed \/ Mail[m].kind = "system")
           job == Mail[m].kind = "bounce" \/ (~over /\ row[m].case # 0)
           what == IF over THEN "handled" ELSE IF job THEN "job" ELSE "review"
<1>1. /\ started' = [started EXCEPT ![m] = IF @ # "nothing" THEN @ ELSE what]
      /\ what # "nothing"
  BY DEF FollowUp
<1> HIDE DEF what
<1>2. /\ ingest[i].pc \in {"follow", "follow after collision"} /\ Ingesting(i) = ingest[i]
      /\ m \in Messages /\ Goes(i, pc) /\ row' = row /\ UNCHANGED <<server, cursor, used, cycle>>
  BY AfterTheCheck DEF FollowUp, MailInv, TableInv, Session
<1>3. /\ row = [n \in Messages |-> row[n]] /\ \A n \in Messages : Columns(row[n])
      /\ started = [n \in Messages |-> started[n]]
  BY DEF MailInv, TableInv
<1>4. /\ started' = [n \in Messages |-> started'[n]] /\ started'[m] # "nothing" /\ Kept
  BY <1>1, <1>2, <1>3 DEF Kept
<1>5. i = "poller" => row[m].stored
  BY <1>2 DEF MailInv, PollerInv, Landed
<1> HIDE DEF m, pc
<1>6. pc # "idle"
  BY DEF pc
<1>7. Ingesting(i).pc # "idle" /\ Ingesting(i).message = m
  BY <1>2 DEF m
<1>8. row' = [n \in Messages |-> row'[n]] /\ \A n \in Messages : Columns(row'[n])
  BY <1>2, <1>3, NothingKept
<1>9. QED BY <1>2, <1>4, <1>5, <1>6, <1>7, <1>8, Going

LEMMA DecideKeeps ==
    ASSUME MailInv, NEW m, NEW decision, Decide(m, decision) \/ UNCHANGED syncVars
    PROVE  MailInv'
<1>1. UNCHANGED <<server, cursor, used, cycle, row, started, ingest>>
  BY DEF Decide, syncVars
<1>2. "upload" \in Ingesters /\ "upload" # "poller" /\ Session(ingest["upload"])
      /\ ingest' = [ingest EXCEPT !["upload"] = ingest["upload"]]
  BY <1>1 DEF Ingesters, MailInv, TableInv
<1>3. QED BY <1>1, <1>2, NothingKept, Ingester

LEMMA NewDayKeeps == ASSUME MailInv, NewDay PROVE MailInv'
<1>1. UNCHANGED <<server, cursor, cycle, row, started, ingest>> /\ used' \in 0 .. DailyLimit
  BY MailAssumption DEF NewDay, MailInv
<1>2. ServerInv' /\ CursorInv' /\ CycleInv'
  BY <1>1 DEF MailInv, ServerInv, CursorInv, CycleInv, Behind
<1>3. TableInv' /\ PollerInv' /\ Passed'
  <2>1. TableInv'
    BY <1>1 DEF MailInv, TableInv
  <2>2. PollerInv'
    BY <1>1 DEF MailInv, PollerInv, FirstOfBatch, Landed, IsHistory, Inbound
  <2>3. QED BY <1>1, <2>1, <2>2, NothingKept, KeptIsPassed
<1>4. QED BY <1>1, <1>2, <1>3 DEF MailInv

LEMMA MailKeeps == ASSUME MailInv, [SyncNext]_syncVars PROVE MailInv'
<1>1. CASE Poll
  BY <1>1, BeginCycleKeeps, BudgetSpentKeeps, FetchKeeps, SaveCursorKeeps, AdvanceKeeps,
     EndFolderKeeps, FolderFailsKeeps, ReadHistoryKeeps, ReconcileKeeps DEF Poll
<1>2. CASE FolderFails \/ NewDay \/ UNCHANGED syncVars
  BY <1>2, FolderFailsKeeps, NewDayKeeps, DecideKeeps
<1>3. ASSUME NEW i \in Ingesters, Ingest(i) \/ Crash(i) PROVE MailInv'
  BY <1>3, DuplicateKeeps, FindCaseKeeps, LockParentKeeps, InsertKeeps, CollideKeeps,
     FollowUpKeeps, CrashKeeps DEF Ingest
<1>4. ASSUME NEW m \in Messages, Deliver(m) \/ \E decision \in Decisions : Decide(m, decision)
      PROVE  MailInv'
  BY <1>4, DeliverKeeps, DecideKeeps
<1>5. ASSUME NEW m \in Uploads, Upload(m) PROVE MailInv'
  BY <1>5, UploadKeeps
<1>6. ASSUME NEW f \in Folders, Renumber(f) PROVE MailInv'
  BY <1>6, RenumberKeeps
<1>7. QED BY <1>1, <1>2, <1>3, <1>4, <1>5, <1>6 DEF SyncNext

LEMMA MailStarts == ASSUME SyncInit PROVE MailInv
<1>1. ServerInv /\ CursorInv
  <2>1. << >> \in Seq(Messages) /\ Len(<< >>) = 0
    BY EmptySeq
  <2>2. ServerInv
    BY <2>1 DEF SyncInit, ServerInv
  <2>3. CursorInv
    BY <2>1 DEF SyncInit, CursorInv, CursorRow, NoCursor
  <2>4. QED BY <2>2, <2>3
<1>2. CycleInv
  BY NoCycleIsCycle, MailAssumption DEF SyncInit, CycleInv
<1>3. TableInv
  BY DEF SyncInit, TableInv, NoRow, Columns, Session, Resting
<1>4. PollerInv
  BY DEF SyncInit, PollerInv, Ingesters, Resting
<1>5. Passed
  BY DEF SyncInit, Passed, NoCursor
<1>6. QED BY <1>1, <1>2, <1>3, <1>4, <1>5 DEF MailInv

LEMMA MailHolds == SyncSpec => []MailInv
<1>1. SyncInit => MailInv
  BY MailStarts
<1>2. MailInv /\ [SyncNext]_syncVars => MailInv'
  BY MailKeeps
<1>3. QED BY <1>1, <1>2, PTL DEF SyncSpec

\* Whatever fails, crashes or is uploaded meanwhile, and whenever the server numbers a
\* folder anew, the cursor of a folder never passes an email that is not stored, or a live
\* one that nothing was started for.
THEOREM NothingIsLost == SyncSpec => []NothingLost
<1>1. MailInv => NothingLost
  BY DEF MailInv, Passed, NothingLost
<1>2. QED BY <1>1, MailHolds, PTL

-----------------------------------------------------------------------------
(* One case per campaign *)

\* The campaign's message bears a case in its row, and its copies in the Sent folder in theirs.
Bears(k) ==
    k = campaign.case \/ \E c \in Messages : c \in Copies /\ row[c].stored /\ row[c].case = k
StillBears(k) ==
    k = campaign'.case \/ \E c \in Messages : c \in Copies /\ row'[c].stored /\ row'[c].case = k

\* An answer is inserted with a case of the campaign's message or none, and opens none;
\* while an ingester holds the campaign's row, the campaign has no case and nobody else
\* holds it.
AsMatched(q) ==
    q.pc = "insert" /\ PlainAnswer(q.message) /\ ~q.history =>
        q.opens = {} /\ (q.case = 0 \/ Bears(q.case))
CaseInv ==
    /\ \A i \in Ingesters : /\ ingest[i].pc \in {"check", "parent"} => ingest[i].opens = {}
                            /\ AsMatched(ingest[i])
                            /\ HoldsCampaign(i) => campaign.case = 0
    /\ \A i, j \in Ingesters : HoldsCampaign(i) /\ HoldsCampaign(j) => i = j
    /\ OneCasePerCampaign

\* What the reconciliation will write is about old mail, and differs from the case that an
\* email has by now only for a copy that was given the campaign's since it was read.
PlanInv ==
    \A m \in DOMAIN plan.case :
        /\ m \in History
        /\ row[m].case # 0 => \/ plan.case[m] = row[m].case
                              \/ m \in Copies /\ row[m].case = campaign.case

LEMMA OnlyOne ==
    ASSUME NEW S, NEW d
    PROVE  Only(S, d) \in S \cup {d}
<1>1. CASE S = {}
  BY <1>1, FS_EmptySet DEF Only
<1>2. CASE S # {}
  BY <1>2 DEF Only
<1>3. QED BY <1>1, <1>2

\* A plain answer is matched to a case of the campaign's message, or left to a person.
LEMMA PlainIsMatched ==
    ASSUME NEW m \in Messages, PlainAnswer(m)
    PROVE  /\ HeaderMatch(m, FALSE).case = 0 \/ Bears(HeaderMatch(m, FALSE).case)
           /\ Headers(m) # {NoHeader} /\ Human(m) /\ ~Personnel(m) /\ Mail[m].bounces = 0
<1>1. /\ Headers(m) = {Campaign} /\ Campaign \notin Messages /\ Campaign # Thread
      /\ Campaign # NoHeader /\ Mail[m].kind = "human" /\ Mail[m].bounces = 0
  BY MailAssumption DEF PlainAnswer
<1>2. \A k \in Linked(m) : Bears(k)
  <2>1. Parents(m) \subseteq Copies /\ Thread \notin Names(m)
    BY <1>1 DEF Parents, Names, PlainAnswer
  <2>2. Linked(m) \subseteq {row[c].case : c \in Copies \cap Stored} \cup {campaign.case}
    BY <2>1 DEF Linked
  <2>3. QED BY <2>2 DEF Bears, Stored
<1>3. LET k == Match(Mail[m], Linked(m), cases, FALSE).case IN k = 0 \/ Bears(k)
  <2> DEFINE theirs == {c \in Linked(m) : cases[c].contact = Mail[m].party}
             k == Match(Mail[m], Linked(m), cases, FALSE).case
  <2>1. Only(theirs, 0) \in Linked(m) \cup {0}
    <3>1. Only(theirs, 0) \in theirs \cup {0}
      BY OnlyOne
    <3>2. QED BY <3>1
  <2> HIDE DEF theirs
  <2>2. k \in {0, Only(theirs, 0)}
    BY DEF Match, theirs
  <2> HIDE DEF k
  <2>3. k = 0 \/ k \in Linked(m)
    BY <2>1, <2>2
  <2>4. QED BY <1>2, <2>3 DEF k
<1>4. HeaderMatch(m, FALSE).case = 0 \/ Bears(HeaderMatch(m, FALSE).case)
  <2>1. HeaderMatch(m, FALSE) = Match(Mail[m], Linked(m), cases, FALSE)
    BY <1>1 DEF HeaderMatch
  <2>2. QED BY <1>3, <2>1
<1>5. QED BY <1>1, <1>4 DEF Human, Personnel

\* What was inserted keeps its case and its kind, and the case its bearer.
LEMMA NothingInserted ==
    ASSUME MailInv, OneCasePerCampaign, \A k : k # 0 /\ Bears(k) => StillBears(k),
           \A m \in Messages : /\ row'[m].stored = row[m].stored
                               /\ row'[m].history = row[m].history
                               /\ row[m].stored /\ ~row[m].history => row'[m].case = row[m].case
    PROVE  OneCasePerCampaign'
<1> SUFFICES ASSUME NEW m \in Messages, row'[m].stored, ~row'[m].history,
                    PlainAnswer(m), row'[m].case # 0
             PROVE  row'[m].case \in {campaign'.case} \cup
                                     {row'[c].case : c \in {n \in Copies : n \in Messages /\ row'[n].stored}}
  BY DEF OneCasePerCampaign, Stored, History, PlainAnswer, Inbound, Headers, Copies
<1>1. row[m].stored /\ ~row[m].history /\ row[m].case # 0 /\ row'[m].case = row[m].case
  OBVIOUS
<1>2. Bears(row[m].case)
  BY <1>1 DEF OneCasePerCampaign, Stored, History, Bears
<1>3. StillBears(row'[m].case)
  BY <1>1, <1>2
<1>4. QED BY <1>3 DEF StillBears

\* What a session that goes on says of the campaign, while the message bears its cases.
LEMMA MatchStays ==
    ASSUME NEW q, AsMatched(q), \A k : k # 0 /\ Bears(k) => StillBears(k)
    PROVE  q.pc = "insert" /\ PlainAnswer(q.message) /\ ~q.history =>
               q.opens = {} /\ (q.case = 0 \/ StillBears(q.case))
BY DEF AsMatched

LEMMA MatchedAgain ==
    ASSUME \A i \in Ingesters :
               ingest'[i].pc = "insert" /\ PlainAnswer(ingest'[i].message) /\ ~ingest'[i].history =>
                   ingest'[i].opens = {} /\ (ingest'[i].case = 0 \/ StillBears(ingest'[i].case))
    PROVE  \A i \in Ingesters : AsMatched(ingest[i])'
<1> SUFFICES ASSUME NEW i \in Ingesters, ingest'[i].pc = "insert",
                    PlainAnswer(ingest'[i].message), ~ingest'[i].history
             PROVE  /\ ingest'[i].opens = {}
                    /\ \/ ingest'[i].case = 0
                       \/ ingest'[i].case = campaign'.case
                       \/ \E c \in Messages : c \in Copies /\ row'[c].stored
                                              /\ row'[c].case = ingest'[i].case
  BY DEF AsMatched, Bears, PlainAnswer, Inbound, Headers, Copies
<1>1. QED BY DEF StillBears

LEMMA BearsOn == ASSUME UNCHANGED <<row, campaign>> PROVE \A k : Bears(k) => StillBears(k)
BY DEF Bears, StillBears

\* A step of an ingester that inserts nothing.
LEMMA Reading ==
    ASSUME MailInv, CaseInv, UNCHANGED <<row, campaign>>, NEW i \in Ingesters, NEW q,
           ingest' = [ingest EXCEPT ![i] = q],
           q.pc \in {"check", "parent"} => q.opens = {}, AsMatched(q),
           q.pc = "promote" =>
               campaign.case = 0 /\ \A j \in Ingesters \ {i} : ~HoldsCampaign(j)
    PROVE  CaseInv'
<1>1. \A j \in Ingesters : ingest'[j] = IF j = i THEN q ELSE ingest[j]
  BY DEF MailInv, TableInv
<1>2. OneCasePerCampaign'
  BY NothingInserted, BearsOn DEF CaseInv
<1>3. ASSUME NEW j \in Ingesters
      PROVE  /\ ingest'[j].pc \in {"check", "parent"} => ingest'[j].opens = {}
             /\ AsMatched(ingest'[j])
             /\ ingest'[j].pc = "promote" => campaign'.case = 0
  BY <1>1 DEF CaseInv, HoldsCampaign
<1>4. \A j \in Ingesters : AsMatched(ingest[j])'
  BY <1>3, BearsOn, MatchStays, MatchedAgain
<1>5. ASSUME NEW j \in Ingesters, NEW k \in Ingesters,
             ingest'[j].pc = "promote", ingest'[k].pc = "promote"
      PROVE  j = k
  BY <1>1, <1>5 DEF CaseInv, HoldsCampaign
<1>6. QED BY <1>2, <1>3, <1>4, <1>5 DEF CaseInv, HoldsCampaign

LEMMA CaseRests == ASSUME MailInv, CaseInv, UNCHANGED <<row, campaign, ingest>> PROVE CaseInv'
<1>1. PICK i \in Ingesters : TRUE
  BY DEF Ingesters
<1>2. ingest' = [ingest EXCEPT ![i] = ingest[i]]
  BY DEF MailInv, TableInv
<1>3. ingest[i].pc = "promote" =>
          campaign.case = 0 /\ \A j \in Ingesters \ {i} : ~HoldsCampaign(j)
  BY DEF CaseInv, HoldsCampaign
<1>4. QED BY <1>2, <1>3, Reading DEF CaseInv

LEMMA RestingRests ==
    ASSUME MailInv, CaseInv, UNCHANGED <<row, campaign>>, NEW i \in Ingesters,
           ingest' = [ingest EXCEPT ![i] = Resting]
    PROVE  CaseInv'
<1>1. Resting.pc = "idle"
  BY DEF Resting
<1>2. QED BY <1>1, Reading DEF AsMatched

\* A session past the insertion, or at the start, says nothing of the campaign.
LEMMA GoingOn ==
    ASSUME MailInv, CaseInv, UNCHANGED <<row, campaign>>, NEW i \in Ingesters,
           Ingesting(i).pc # "idle", NEW pc, pc \notin {"check", "parent", "insert", "promote"},
           Goes(i, pc)
    PROVE  CaseInv'
<1> DEFINE r == [Ingesting(i) EXCEPT !.pc = pc]
<1>1. Session(Ingesting(i))
  BY WhatIsRead
<1>2. r.pc = pc
  BY <1>1 DEF Session
<1>3. \/ ingest' = [ingest EXCEPT ![i] = Resting]
      \/ ingest' = [ingest EXCEPT ![i] = r]
  BY DEF Goes
<1> HIDE DEF r
<1>4. CASE ingest' = [ingest EXCEPT ![i] = Resting]
  BY <1>4, RestingRests
<1>5. CASE ingest' = [ingest EXCEPT ![i] = r]
  <2>1. /\ r.pc \in {"check", "parent"} => r.opens = {}
        /\ AsMatched(r)
        /\ r.pc # "promote"
    BY <1>2 DEF AsMatched
  <2>2. QED BY <1>5, <2>1, Reading
<1>6. QED BY <1>3, <1>4, <1>5

LEMMA UploadAsks == ASSUME MailInv, CaseInv, NEW m \in Uploads, Upload(m) PROVE CaseInv'
<1> DEFINE q == [Resting EXCEPT !.pc = "check", !.message = m]
<1>1. PICK r : r = q
  OBVIOUS
<1>2. r = [pc |-> "check", message |-> m, history |-> FALSE, case |-> 0, opens |-> {}]
  BY ONLY <1>1 DEF Resting
<1>3. r.pc = "check" /\ r.opens = {}
  BY ONLY <1>2
<1>4. ingest' = [ingest EXCEPT !["upload"] = r]
  BY <1>1 DEF Upload
<1>5. "upload" \in Ingesters /\ UNCHANGED <<row, campaign>>
  BY DEF Upload, Ingesters
<1>6. AsMatched(r)
  BY <1>3 DEF AsMatched
<1>7. QED BY <1>3, <1>4, <1>5, <1>6, Reading

LEMMA IngestersAreFresh ==
    ASSUME MailInv, CaseInv, NEW i \in Ingesters, Ingesting(i).pc \in {"check", "parent"}
    PROVE  Ingesting(i).opens = {}
<1>1. CASE i = "poller" /\ ingest[i].pc = "idle" /\ cycle.pc = "next" /\ cycle.batch # <<>>
  <2>1. PICK q : q = Ingesting(i)
    OBVIOUS
  <2>2. q = [Resting EXCEPT !.pc = "check", !.message = Head(cycle.batch),
                            !.history = IsHistory(cycle.folder, cycle.uid + 1)]
    BY <1>1, <2>1 DEF Ingesting
  <2>3. q.opens = {}
    BY ONLY <2>2 DEF Resting
  <2>4. QED BY <2>1, <2>3
<1>2. CASE ~(i = "poller" /\ ingest[i].pc = "idle" /\ cycle.pc = "next" /\ cycle.batch # <<>>)
  BY <1>2 DEF Ingesting, CaseInv
<1>3. QED BY <1>1, <1>2

LEMMA FindCaseAsks == ASSUME MailInv, CaseInv, NEW i \in Ingesters, FindCase(i) PROVE CaseInv'
<1> DEFINE q == Ingesting(i)
           m == q.message
           found == HeaderMatch(m, ~LiveHuman(i) \/ Personnel(m))
           unknown == LiveHuman(i) /\ found.case = 0 /\ ~found.ambiguous
<1>1. PICK r : /\ ingest' = [ingest EXCEPT ![i] = r] /\ Session(r)
               /\ r.message = m /\ r.history = q.history
               /\ r.pc \in {"parent", "insert"}
               /\ unknown /\ Headers(m) # {NoHeader} => r.pc = "parent" /\ r.opens = q.opens
               /\ unknown /\ Headers(m) = {NoHeader} => r.pc = "insert"
               /\ ~unknown => /\ r.pc = "insert" /\ r.opens = q.opens
                              /\ r.case = IF found.case = 0 THEN Mail[m].bounces ELSE found.case
  BY FindCaseFinds
<1>2. /\ q.pc = "check" /\ q.opens = {} /\ m \in Messages
      /\ UNCHANGED <<row, campaign>>
  BY WhatIsRead, IngestersAreFresh DEF FindCase, MailInv
<1>3. unknown /\ Headers(m) = {NoHeader} => ~PlainAnswer(m)
  BY <1>2, PlainIsMatched
<1>4. ASSUME PlainAnswer(m), ~q.history, ~unknown
      PROVE  r.opens = {} /\ (r.case = 0 \/ Bears(r.case))
  <2>1. LiveHuman(i)
    BY <1>2, <1>4, PlainIsMatched DEF LiveHuman, Live, PlainAnswer
  <2>2. found = HeaderMatch(m, FALSE) /\ Mail[m].bounces = 0
    BY <1>2, <1>4, <2>1, PlainIsMatched
  <2>3. QED BY <1>1, <1>2, <1>4, <2>2, PlainIsMatched
<1> HIDE DEF q, unknown, found
<1>5. CASE unknown /\ Headers(m) # {NoHeader}
  BY <1>1, <1>2, <1>5, Reading DEF AsMatched
<1>6. CASE unknown /\ Headers(m) = {NoHeader}
  BY <1>1, <1>2, <1>3, <1>6, Reading DEF AsMatched
<1>7. CASE ~unknown
  <2>1. AsMatched(r) /\ r.pc = "insert"
    BY <1>1, <1>4, <1>7 DEF AsMatched
  <2>2. QED BY <1>1, <1>2, <2>1, Reading
<1>8. QED BY <1>5, <1>6, <1>7

LEMMA LockParentAsks == ASSUME MailInv, CaseInv, NEW i \in Ingesters, LockParent(i) PROVE CaseInv'
<1> DEFINE q == ingest[i]
           m == q.message
<1>1. PICK r : /\ ingest' = [ingest EXCEPT ![i] = r] /\ Session(r)
               /\ r.message = m /\ r.history = q.history
               /\ \/ r.pc = "promote" /\ CampaignParent(m)
                  \/ /\ r.pc = "insert" /\ r.opens = q.opens
                     /\ r.case = HeaderMatch(m, FALSE).case
  BY LockParentFinds
<1>2. /\ q.pc = "parent" /\ q.opens = {} /\ m \in Messages
      /\ UNCHANGED <<row, campaign>> /\ \A j \in Ingesters \ {i} : ~HoldsCampaign(j)
  BY DEF LockParent, CaseInv, MailInv, TableInv, Session
<1> HIDE DEF q
<1>3. CASE r.pc = "promote" /\ CampaignParent(m)
  <2>1. campaign.case = 0
    BY <1>3 DEF CampaignParent
  <2>2. QED BY <1>1, <1>2, <1>3, <2>1, Reading DEF AsMatched
<1>4. CASE r.pc = "insert" /\ r.opens = q.opens /\ r.case = HeaderMatch(m, FALSE).case
  <2>1. AsMatched(r)
    BY <1>1, <1>2, <1>4, PlainIsMatched DEF AsMatched
  <2>2. QED BY <1>1, <1>2, <1>4, <2>1, Reading
<1>5. QED BY <1>1, <1>3, <1>4

\* The rows keep their bearers: the campaign's case is set once, and a copy's is overwritten
\* only where it is the campaign's.
LEMMA InsertBears ==
    ASSUME MailInv, CaseInv, NEW i \in Ingesters, Insert(i)
    PROVE  /\ \A k : k # 0 /\ Bears(k) => StillBears(k)
           /\ ingest[i].pc = "promote" => campaign'.case = CaseOf(ingest[i])
           /\ ingest[i].pc = "insert" => campaign' = campaign
<1> DEFINE q == ingest[i]
<1>1. /\ q.pc \in {"insert", "promote"}
      /\ campaign' = IF q.pc = "promote" THEN [case |-> CaseOf(q), status |-> "REPLIED"] ELSE campaign
  BY DEF Insert, CaseOf
<1>2. q.pc = "promote" => campaign.case = 0
  BY DEF CaseInv, HoldsCampaign
<1>3. /\ ~row[q.message].stored /\ row'[q.message].stored
      /\ \A n \in Messages \ {q.message} :
            /\ row'[n].stored = row[n].stored
            /\ row'[n].case = IF Promotes(q, n) THEN CaseOf(q) ELSE row[n].case
  BY RowsInserted
<1>4. ASSUME NEW k, k # 0, Bears(k)
      PROVE  StillBears(k)
  <2>1. CASE k = campaign.case
    BY <1>1, <1>2, <1>4, <2>1 DEF StillBears
  <2>2. ASSUME NEW c \in Messages, c \in Copies, row[c].stored, row[c].case = k
        PROVE  StillBears(k)
    <3>1. c # q.message /\ ~Promotes(q, c)
      BY <1>3, <1>4, <2>2 DEF Promotes
    <3>2. row'[c].stored /\ row'[c].case = k
      BY <1>3, <2>2, <3>1
    <3>3. QED BY <2>2, <3>2 DEF StillBears
  <2>3. QED BY <1>4, <2>1, <2>2 DEF Bears
<1>5. QED BY <1>1, <1>4

LEMMA InsertAsks == ASSUME MailInv, CaseInv, NEW i \in Ingesters, Insert(i) PROVE CaseInv'
<1> DEFINE q == ingest[i]
           m == q.message
<1>1. /\ q.pc \in {"insert", "promote"} /\ Ingesting(i) = q
      /\ Goes(i, IF Live(i) THEN "follow" ELSE "done")
  BY AfterTheCheck DEF Insert
<1>2. /\ m \in Messages /\ row'[m].history = q.history /\ row'[m].case = CaseOf(q)
      /\ \A n \in Messages \ {m} :
            /\ row'[n].stored = row[n].stored /\ row'[n].history = row[n].history
            /\ row'[n].case = IF Promotes(q, n) THEN CaseOf(q) ELSE row[n].case
  BY RowsInserted
<1>3. /\ \A k : k # 0 /\ Bears(k) => StillBears(k)
      /\ q.pc = "promote" => campaign'.case = CaseOf(q)
      /\ q.pc = "insert" => campaign' = campaign
  BY InsertBears
<1>4. q.pc = "promote" => campaign.case = 0
  BY DEF CaseInv, HoldsCampaign
<1>5. q.pc = "insert" /\ PlainAnswer(m) /\ ~q.history => CaseOf(q) = 0 \/ Bears(CaseOf(q))
  BY DEF CaseInv, AsMatched, CaseOf
<1>6. ASSUME NEW n \in Messages, PlainAnswer(n), Promotes(q, n) PROVE FALSE
  BY <1>6 DEF Promotes, PlainAnswer, Copies
<1>7. OneCasePerCampaign'
  <2> SUFFICES ASSUME NEW n \in Messages, row'[n].stored, ~row'[n].history,
                      PlainAnswer(n), row'[n].case # 0
               PROVE  row'[n].case \in {campaign'.case} \cup
                                   {row'[c].case : c \in {d \in Copies : d \in Messages /\ row'[d].stored}}
    BY DEF OneCasePerCampaign, Stored, History, PlainAnswer, Inbound, Headers, Copies
  <2>1. StillBears(row'[n].case)
    <3>1. CASE n = m
      <4>1. row'[n].case = CaseOf(q) /\ ~q.history
        BY <1>2, <3>1
      <4>2. CASE q.pc = "promote"
        BY <1>3, <4>1, <4>2 DEF StillBears
      <4>3. CASE q.pc = "insert"
        BY <1>3, <1>5, <3>1, <4>1, <4>3
      <4>4. QED BY <1>1, <4>2, <4>3
    <3>2. CASE n # m
      <4>1. row'[n].case = row[n].case /\ row[n].stored /\ ~row[n].history
        BY <1>2, <1>6, <3>2
      <4>2. Bears(row[n].case)
        BY <4>1 DEF CaseInv, OneCasePerCampaign, Stored, History, Bears
      <4>3. QED BY <1>3, <4>1, <4>2
    <3>3. QED BY <3>1, <3>2
  <2>2. QED BY <2>1 DEF StillBears
<1>8. /\ \A j \in Ingesters \ {i} : ingest'[j] = ingest[j]
      /\ ingest'[i].pc \notin {"check", "parent", "insert", "promote"}
  <2> DEFINE pc == IF Live(i) THEN "follow" ELSE "done"
             r == [q EXCEPT !.pc = pc]
  <2>1. Session(q) /\ Resting.pc = "idle" /\ pc \in {"follow", "done"}
    BY DEF MailInv, TableInv, Resting
  <2>2. r.pc = pc
    BY <2>1 DEF Session
  <2>3. \/ ingest' = [ingest EXCEPT ![i] = Resting]
        \/ ingest' = [ingest EXCEPT ![i] = r]
    BY <1>1 DEF Goes
  <2> HIDE DEF r
  <2>4. ingest = [j \in Ingesters |-> ingest[j]]
    BY DEF MailInv, TableInv
  <2>5. QED BY <2>1, <2>2, <2>3, <2>4
<1>9. ASSUME NEW j \in Ingesters
      PROVE  /\ ingest'[j].pc \in {"check", "parent"} => ingest'[j].opens = {}
             /\ ingest'[j].pc = "promote" => campaign'.case = 0
             /\ \A k \in Ingesters : ingest'[j].pc = "promote" /\ ingest'[k].pc = "promote" => j = k
  <2>1. CASE j = i
    BY <1>8, <2>1
  <2>2. CASE j # i
    <3>1. ingest'[j] = ingest[j]
      BY <1>8, <2>2
    <3>2. ingest[j].pc = "promote" => q.pc = "insert"
      BY <1>1, <2>2 DEF CaseInv, HoldsCampaign
    <3>3. ingest'[j].pc = "promote" => campaign'.case = 0
      BY <1>3, <3>1, <3>2 DEF CaseInv, HoldsCampaign
    <3>4. \A k \in Ingesters : ingest'[j].pc = "promote" /\ ingest'[k].pc = "promote" => j = k
      BY <1>8, <3>1 DEF CaseInv, HoldsCampaign
    <3>5. QED BY <3>1, <3>3, <3>4 DEF CaseInv
  <2>3. QED BY <2>1, <2>2
<1>10. ASSUME NEW j \in Ingesters, ingest'[j].pc = "insert", PlainAnswer(ingest'[j].message),
              ~ingest'[j].history
       PROVE  ingest'[j].opens = {} /\ (ingest'[j].case = 0 \/ StillBears(ingest'[j].case))
  <2>1. ingest'[j] = ingest[j]
    BY <1>8, <1>10
  <2>2. AsMatched(ingest[j])
    BY DEF CaseInv
  <2>3. QED BY <1>3, <1>10, <2>1, <2>2, MatchStays
<1>11. \A j \in Ingesters : AsMatched(ingest[j])'
  BY <1>10, MatchedAgain
<1>12. QED BY <1>7, <1>9, <1>11 DEF CaseInv, HoldsCampaign

LEMMA ReconcileAsks == ASSUME MailInv, CaseInv, PlanInv, Reconcile PROVE CaseInv'
<1>1. \A m \in Messages :
          /\ row'[m].stored = row[m].stored /\ row'[m].history = row[m].history
          /\ row'[m].case = IF m \in DOMAIN plan.case /\ plan.case[m] # 0
                            THEN plan.case[m] ELSE row[m].case
  BY RowsRelinked
<1>2. \A m \in Messages : row[m].stored /\ ~row[m].history => row'[m].case = row[m].case
  BY <1>1 DEF PlanInv, History
<1>3. UNCHANGED <<campaign, ingest>>
  BY DEF Reconcile
<1>4. ASSUME NEW k, k # 0, Bears(k)
      PROVE  StillBears(k)
  <2>1. CASE k = campaign.case
    BY <1>3, <2>1 DEF StillBears
  <2>2. ASSUME NEW c \in Messages, c \in Copies, row[c].stored, row[c].case = k
        PROVE  StillBears(k)
    <3>1. row'[c].stored /\ (row'[c].case = k \/ k = campaign.case)
      BY <1>1, <1>4, <2>2 DEF PlanInv
    <3>2. QED BY <1>3, <2>2, <3>1 DEF StillBears
  <2>3. QED BY <1>4, <2>1, <2>2 DEF Bears
<1>5. OneCasePerCampaign'
  BY <1>1, <1>2, <1>4, NothingInserted DEF CaseInv
<1>6. \A i \in Ingesters : AsMatched(ingest[i])'
  <2>1. \A i \in Ingesters : AsMatched(ingest'[i])
    BY <1>3 DEF CaseInv
  <2>2. QED BY <1>4, <2>1, MatchStays, MatchedAgain
<1>7. QED BY <1>3, <1>5, <1>6 DEF CaseInv, HoldsCampaign

LEMMA CaseKeeps == ASSUME MailInv, CaseInv, PlanInv, [SyncNext]_syncVars PROVE CaseInv'
<1>1. CASE \/ BeginCycle \/ BudgetSpent \/ Fetch \/ SaveCursor \/ EndFolder \/ ReadHistory
           \/ NewDay \/ UNCHANGED syncVars
  BY <1>1, CaseRests
     DEF BeginCycle, BudgetSpent, Fetch, SaveCursor, EndFolder, ReadHistory, NewDay, syncVars
<1>2. CASE Advance \/ FolderFails \/ FailAfterCollision
  <2>1. "poller" \in Ingesters /\ ingest' = [ingest EXCEPT !["poller"] = Resting]
        /\ UNCHANGED <<row, campaign>>
    BY <1>2 DEF Advance, FolderFails, FailAfterCollision, Ingesters
  <2>2. QED BY <2>1, RestingRests
<1>3. ASSUME NEW i \in Ingesters, Crash(i) PROVE CaseInv'
  BY <1>3, RestingRests DEF Crash
<1>4. ASSUME NEW i \in Ingesters, Duplicate(i) \/ Collide(i) \/ FollowUp(i) PROVE CaseInv'
  <2>1. UNCHANGED <<row, campaign>> /\ Ingesting(i).pc # "idle"
    BY <1>4, AfterTheCheck DEF Duplicate, Collide, FollowUp
  <2>2. PICK pc \in {"follow", "done", "follow after collision", "collided"} : Goes(i, pc)
    BY <1>4 DEF Duplicate, Collide, FollowUp
  <2>3. QED BY <2>1, <2>2, GoingOn
<1>5. ASSUME NEW i \in Ingesters, Ingest(i) PROVE CaseInv'
  BY <1>4, <1>5, FindCaseAsks, LockParentAsks, InsertAsks DEF Ingest
<1>6. ASSUME NEW m \in Messages, Deliver(m) \/ \E decision \in Decisions : Decide(m, decision)
      PROVE  CaseInv'
  BY <1>6, CaseRests DEF Deliver, Decide
<1>7. ASSUME NEW m \in Uploads, Upload(m) PROVE CaseInv'
  BY <1>7, UploadAsks
<1>8. ASSUME NEW f \in Folders, Renumber(f) PROVE CaseInv'
  BY <1>8, CaseRests DEF Renumber
<1>9. QED BY <1>1, <1>2, <1>3, <1>5, <1>6, <1>7, <1>8, ReconcileAsks DEF SyncNext, Poll

-----------------------------------------------------------------------------
(* Numbers *)

\* A set of numbers has a smallest: what proofs by induction over steps rest on.
LEMMA Smallest ==
    ASSUME NEW T, T \subseteq Nat, T # {}
    PROVE  \E x \in T : \A y \in T : x <= y
<1> DEFINE Less == {p \in Nat \X Nat : p[1] < p[2]}
<1>1. IsWellFoundedOn(Less, Nat)
  BY NatLessThanWellFounded, Zenon DEF OpToRel
<1>2. PICK x \in T : \A y \in T : ~ (<<y, x>> \in Less)
  <2> HIDE DEF Less
  <2>1. QED BY <1>1, WFMin
<1>3. ASSUME NEW y \in T PROVE x <= y
  <2>1. x \in Nat /\ y \in Nat
    OBVIOUS
  <2>2. ~ (<<y, x>> \in Less)
    BY <1>2
  <2>3. ~ (y < x)
    BY <2>1, <2>2
  <2>4. QED BY <2>1, <2>3
<1>4. QED BY <1>3

LEMMA Largest ==
    ASSUME NEW n \in Nat, NEW S, S \subseteq 1 .. n, S # {}
    PROVE  \E x \in S : \A y \in S : y <= x
<1> DEFINE T == {n - x : x \in S}
<1>1. T \subseteq Nat /\ T # {}
  <2>1. \A x \in S : n - x \in Nat
    OBVIOUS
  <2>2. QED BY <2>1
<1>2. PICK t \in T : \A u \in T : t <= u
  <2> HIDE DEF T
  <2>1. QED BY <1>1, Smallest
<1>3. PICK x \in S : t = n - x
  OBVIOUS
<1>4. ASSUME NEW y \in S PROVE y <= x
  <2>1. n - x <= n - y
    BY <1>2, <1>3
  <2>2. QED BY <2>1
<1>5. QED BY <1>4

-----------------------------------------------------------------------------
(* The rules keep an email to the cases of its own party *)

CaseTable(table) == Len(table) \in Nat \ {0} /\ table = [c \in 1 .. Len(table) |-> table[c]]
Theirs(case, party, table) ==
    case = 0 \/ (case \in 1 .. Len(table) /\ table[case].contact = party)
OpensTheirs(opens, party) == opens = {} \/ \E r : opens = {r} /\ IsCase(r) /\ r.contact = party

LEMMA OnlyTheirs ==
    ASSUME NEW table, CaseTable(table), NEW party,
           NEW S, \A c \in S : c \in DOMAIN table /\ table[c].contact = party
    PROVE  Theirs(Only(S, 0), party, table)
<1>1. Only(S, 0) \in S \cup {0}
  BY OnlyOne
<1>2. DOMAIN table = 1 .. Len(table)
  BY DEF CaseTable
<1>3. QED BY <1>1, <1>2 DEF Theirs

LEMMA MatchIsTheirs ==
    ASSUME NEW table, CaseTable(table), NEW email, NEW linked, linked \subseteq DOMAIN table,
           NEW fallback
    PROVE  Theirs(Match(email, linked, table, fallback).case, email.party, table)
<1> DEFINE theirs == {c \in linked : table[c].contact = email.party}
           same == {c \in DOMAIN table : /\ table[c].contact = email.party
                                         /\ table[c].subject = email.subject}
<1>1. Theirs(Only(theirs, 0), email.party, table) /\ Theirs(Only(same, 0), email.party, table)
  BY OnlyTheirs
<1>2. Match(email, linked, table, fallback).case \in {0, Only(theirs, 0), Only(same, 0)}
  <2> DEFINE a == Only(theirs, 0)
             b == Only(same, 0)
  <2>1. Match(email, linked, table, fallback) =
          IF linked # {}
          THEN [case |-> IF Cardinality(linked) = 1 THEN a ELSE 0,
                ambiguous |-> Cardinality(linked) > 1 \/ theirs = {}]
          ELSE IF fallback THEN [case |-> b, ambiguous |-> Cardinality(same) > 1]
          ELSE [case |-> 0, ambiguous |-> FALSE]
    BY DEF Match
  <2> HIDE DEF a, b, theirs, same
  <2>2. QED BY <2>1 DEF a, b
<1>3. QED BY <1>1, <1>2 DEF Theirs

LEMMA HistoryIsTheirs ==
    ASSUME NEW table, CaseTable(table), NEW email, NEW linked, linked \subseteq DOMAIN table,
           NEW candidates,
           \A c \in candidates : c \in DOMAIN table /\ table[c].contact = email.party
    PROVE  Theirs(HistoryCase(email, linked, candidates, table), email.party, table)
<1> DEFINE byThread == {c \in linked : Cardinality(linked) = 1 /\ table[c].contact = email.party}
           byProduct == {c \in candidates : table[c].product \in email.codes}
           bySubject == {c \in candidates : table[c].subject = email.subject}
<1>1. /\ Theirs(Only(byThread, 0), email.party, table)
      /\ Theirs(Only(byProduct, 0), email.party, table)
      /\ Theirs(Only(bySubject, 0), email.party, table)
      /\ Theirs(Only(candidates, 0), email.party, table)
  BY OnlyTheirs
<1>2. HistoryCase(email, linked, candidates, table) \in
        {Only(byThread, 0), Only(byProduct, 0), Only(bySubject, 0), Only(candidates, 0)}
  BY DEF HistoryCase
<1>3. QED BY <1>1, <1>2

LEMMA OpensOne ==
    ASSUME NEW party, NEW product, NEW category, NEW currency, NEW subject, NEW table
    PROVE  LET inquiry == Opens(party, product, category, currency, subject)
           IN  Theirs(inquiry.case, party, table) /\ OpensTheirs(inquiry.opens, party)
<1> DEFINE r == [contact |-> party, product |-> product, category |-> category,
                 currency |-> currency, subject |-> subject, status |-> "ACTIVE"]
<1>1. IsCase(r) /\ r.contact = party
  BY DEF IsCase
<1>2. Opens(party, product, category, currency, subject) = [case |-> 0, opens |-> {r}]
  BY DEF Opens
<1> HIDE DEF r
<1>3. QED BY <1>1, <1>2 DEF Theirs, OpensTheirs

LEMMA ExistingIsTheirs ==
    ASSUME NEW case, NEW party, NEW table, Theirs(case, party, table)
    PROVE  LET inquiry == Existing(case)
           IN  Theirs(inquiry.case, party, table) /\ OpensTheirs(inquiry.opens, party)
BY DEF Existing, OpensTheirs

LEMMA UnresolvedIsTheirs ==
    ASSUME NEW party, NEW table
    PROVE  Theirs(Unresolved.case, party, table) /\ OpensTheirs(Unresolved.opens, party)
BY DEF Unresolved, Theirs, OpensTheirs

LEMMA CategoryIsTheirs ==
    ASSUME NEW table, CaseTable(table), NEW email
    PROVE  LET inquiry == CategoryCase(email, table)
           IN  Theirs(inquiry.case, email.party, table) /\ OpensTheirs(inquiry.opens, email.party)
<1> DEFINE category == Only(Interests[email.party], "none")
           reusable == {c \in DOMAIN table : /\ table[c].contact = email.party
                                             /\ table[c].category = category
                                             /\ table[c].status = "ACTIVE"}
           newest == CHOOSE c \in reusable : \A d \in reusable : d <= c
           opened == Opens(email.party, NoProduct, category, CustomerCurrency(email.party, table),
                           email.subject)
<1>1. CategoryCase(email, table) = IF category = "none" THEN Unresolved
                                  ELSE IF reusable # {} THEN Existing(newest) ELSE opened
  BY DEF CategoryCase
<1>2. reusable # {} => Theirs(newest, email.party, table)
  <2> SUFFICES ASSUME reusable # {}
               PROVE  Theirs(newest, email.party, table)
    OBVIOUS
  <2>1. reusable \subseteq 1 .. Len(table) /\ Len(table) \in Nat
    BY DEF CaseTable
  <2>2. \E c \in reusable : \A d \in reusable : d <= c
    <3> HIDE DEF reusable
    <3>1. QED BY <2>1, Largest
  <2>3. newest \in reusable
    <3> HIDE DEF reusable
    <3>1. QED BY <2>2
  <2>4. table[newest].contact = email.party
    BY <2>3
  <2>5. QED BY <2>1, <2>3, <2>4 DEF Theirs
<1> HIDE DEF category, reusable, newest
<1>3. Theirs(opened.case, email.party, table) /\ OpensTheirs(opened.opens, email.party)
  BY OpensOne
<1> HIDE DEF opened
<1>4. CASE category = "none"
  BY <1>1, <1>4, UnresolvedIsTheirs
<1>5. CASE category # "none" /\ reusable # {}
  <2>1. CategoryCase(email, table) = Existing(newest)
    BY <1>1, <1>5
  <2>2. QED BY <1>2, <1>5, <2>1, ExistingIsTheirs
<1>6. CASE category # "none" /\ reusable = {}
  BY <1>1, <1>3, <1>6
<1>7. QED BY <1>4, <1>5, <1>6

LEMMA ProductIsTheirs ==
    ASSUME NEW table, CaseTable(table), NEW email, NEW product, NEW recent
    PROVE  LET inquiry == ProductCase(email, product, table, recent)
           IN  Theirs(inquiry.case, email.party, table) /\ OpensTheirs(inquiry.opens, email.party)
<1> DEFINE currency == ProductCurrency(email, product, table)
           related == {c \in OpenCases(table) \cap recent : /\ table[c].contact = email.party
                                                            /\ table[c].product = product}
           strong == {c \in related : /\ email.re
                                      /\ table[c].currency = currency
                                      /\ table[c].subject = email.subject}
           opened == Opens(email.party, product, "none", currency, email.subject)
<1>1. \/ ProductCase(email, product, table, recent) = Unresolved
      \/ ProductCase(email, product, table, recent) = Existing(Only(strong, 0))
      \/ ProductCase(email, product, table, recent) = opened
  BY DEF ProductCase
<1>2. Theirs(Only(strong, 0), email.party, table)
  BY OnlyTheirs DEF OpenCases
<1>3. Theirs(opened.case, email.party, table) /\ OpensTheirs(opened.opens, email.party)
  BY OpensOne
<1> HIDE DEF strong, opened
<1>4. CASE ProductCase(email, product, table, recent) = Unresolved
  BY <1>4, UnresolvedIsTheirs
<1>5. CASE ProductCase(email, product, table, recent) = Existing(Only(strong, 0))
  BY <1>2, <1>5, ExistingIsTheirs
<1>6. CASE ProductCase(email, product, table, recent) = opened
  BY <1>3, <1>6
<1>7. QED BY <1>1, <1>4, <1>5, <1>6

LEMMA InquiryIsTheirs ==
    ASSUME NEW table, CaseTable(table), NEW email, NEW known, NEW recent
    PROVE  LET inquiry == NewInquiry(email, known, table, recent)
           IN  Theirs(inquiry.case, email.party, table) /\ OpensTheirs(inquiry.opens, email.party)
<1> DEFINE inquiry == NewInquiry(email, known, table, recent)
           currency == CustomerCurrency(email.party, table)
           opened == Opens(email.party, NoProduct, "none", currency, email.subject)
           product == Only(email.codes, NoProduct)
<1>1. \/ inquiry = Unresolved \/ inquiry = opened \/ inquiry = CategoryCase(email, table)
      \/ inquiry = ProductCase(email, product, table, recent)
  BY DEF NewInquiry
<1>2. Theirs(opened.case, email.party, table) /\ OpensTheirs(opened.opens, email.party)
  BY OpensOne
<1> HIDE DEF inquiry, opened, product
<1>3. CASE inquiry = Unresolved
  BY <1>3, UnresolvedIsTheirs DEF inquiry
<1>4. CASE inquiry = opened
  BY <1>2, <1>4 DEF inquiry
<1>5. CASE inquiry = CategoryCase(email, table)
  BY <1>5, CategoryIsTheirs DEF inquiry
<1>6. CASE inquiry = ProductCase(email, product, table, recent)
  BY <1>6, ProductIsTheirs DEF inquiry
<1>7. QED BY <1>1, <1>3, <1>4, <1>5, <1>6

-----------------------------------------------------------------------------
(* What is filed *)

\* The case of an email is one of its party's, or of the message a bounce reports, or of
\* whoever answered the campaign, for the copies of its message.
Filed(case, m, table) ==
    /\ case \in 0 .. Len(table)
    /\ m \notin Copies /\ Mail[m].bounces = 0 => Theirs(case, Mail[m].party, table)
FiledInv ==
    /\ CaseTable(cases) /\ \A c \in 1 .. Len(cases) : IsCase(cases[c])
    /\ \A m \in Messages : Filed(row[m].case, m, cases) /\ (~row[m].stored => row[m].case = 0)
    /\ campaign.case \in 0 .. Len(cases)
    /\ \A i \in Ingesters : ingest[i].pc # "idle" =>
          /\ Filed(ingest[i].case, ingest[i].message, cases)
          /\ OpensTheirs(ingest[i].opens, Mail[ingest[i].message].party)

\* What the reconciliation will write is filed in its place too, and those who wait came in.
PlanFiled ==
    /\ \A m \in DOMAIN plan.case : Filed(plan.case[m], m, cases)
    /\ plan.waiting \subseteq {0} \cup {m \in DOMAIN plan.case : Inbound(m)}

\* The cases that the messages an email answers have.
LEMMA LinkedAreCases ==
    ASSUME FiledInv, NEW m
    PROVE  Linked(m) \subseteq DOMAIN cases
<1>1. DOMAIN cases = 1 .. Len(cases) /\ Len(cases) \in Nat \ {0}
  BY DEF FiledInv, CaseTable
<1>2. \A p \in Parents(m) \cap Stored : row[p].case \in 0 .. Len(cases)
  BY DEF FiledInv, Filed, Stored
<1>3. campaign.case \in 0 .. Len(cases)
  BY DEF FiledInv
<1>4. Linked(m) \subseteq (0 .. Len(cases)) \ {0}
  BY <1>1, <1>2, <1>3 DEF Linked
<1>5. QED BY <1>1, <1>4

LEMMA TheirsIsFiled ==
    ASSUME FiledInv, NEW case, NEW m, Theirs(case, Mail[m].party, cases)
    PROVE  Filed(case, m, cases)
BY DEF FiledInv, Filed, Theirs, CaseTable

-----------------------------------------------------------------------------
(* The rounds over old mail *)

\* What may be found: a case of its party for each email, and the one it had.
Findings ==
    {g \in [Messages -> 0 .. Len(cases)] :
        \A m \in Messages : Filed(g[m], m, cases) /\ (row[m].case # 0 => g[m] = row[m].case)}

LEMMA LinkingOne ==
    ASSUME FiledInv, NEW found \in Findings, NEW m
    PROVE  LinkOne(found, m) \in Findings
<1> DEFINE case == CaseByHistory(found, m)
<1>1. /\ found \in [Messages -> 0 .. Len(cases)]
      /\ \A n \in Messages : Filed(found[n], n, cases) /\ (row[n].case # 0 => found[n] = row[n].case)
  BY DEF Findings
<1>2. CASE m \in History /\ found[m] = 0
  <2>1. m \in Messages /\ row[m].case = 0
    BY <1>1, <1>2 DEF History, Stored
  <2>2. Filed(case, m, cases)
    <3> DEFINE linked == ({found[p] : p \in Parents(m) \cap Stored} \cup Linked(m)) \ {0}
               candidates == {c \in OpenCases(cases) : /\ cases[c].contact = Mail[m].party
                                                       /\ LatestLive(c) < m}
    <3>1. DOMAIN cases = 1 .. Len(cases) /\ Len(cases) \in Nat \ {0} /\ CaseTable(cases)
      BY DEF FiledInv, CaseTable
    <3>2. \A p \in Parents(m) \cap Stored : found[p] \in 0 .. Len(cases)
      BY <1>1 DEF Stored
    <3>3. linked \subseteq DOMAIN cases
      BY <3>1, <3>2, LinkedAreCases
    <3>4. \A c \in candidates : c \in DOMAIN cases /\ cases[c].contact = Mail[m].party
      BY DEF OpenCases
    <3>5. case = HistoryCase(Mail[m], linked, candidates, cases)
      BY DEF CaseByHistory
    <3> HIDE DEF case, linked, candidates
    <3>6. Theirs(case, Mail[m].party, cases)
      BY <3>1, <3>3, <3>4, <3>5, HistoryIsTheirs
    <3>7. QED BY <3>6, TheirsIsFiled
  <2> HIDE DEF case
  <2>3. LinkOne(found, m) = [found EXCEPT ![m] = case]
    BY <1>2 DEF LinkOne, case
  <2>4. case \in 0 .. Len(cases)
    BY <2>2 DEF Filed
  <2>5. QED BY <1>1, <2>1, <2>2, <2>3, <2>4 DEF Findings
<1>3. CASE ~(m \in History /\ found[m] = 0)
  BY <1>3 DEF LinkOne
<1>4. QED BY <1>2, <1>3

\* One step of the rounds, and the function that they compute.
StepFrom(found, step) ==
    CHOOSE after \in {LinkOne(f, ((step - 1) % Number) + 1) : f \in {found}} : TRUE
Start == [m \in Messages |-> row[m].case]
Steps == Rounds * Number
Chain(g, n) ==
    g = [step \in 0 .. n |-> IF step = 0 THEN Start ELSE StepFrom(g[step - 1], step)]

LEMMA StepsAreNumbers == Number \in Nat /\ Steps \in Nat
<1>1. Number \in Nat
  BY MailAssumption, FS_CardinalityType DEF Number
<1>2. Rounds \in Nat
  <2>1. Min({20, Number, Number}) \in Nat
    BY <1>1, SmallestOfThree
  <2>2. {20, Number, Number} = {20, Number}
    OBVIOUS
  <2>3. QED BY <2>1, <2>2 DEF Rounds
<1>3. QED BY <1>1, <1>2 DEF Steps

LEMMA StepFinds ==
    ASSUME FiledInv, NEW found \in Findings, NEW step
    PROVE  StepFrom(found, step) \in Findings
<1>1. StepFrom(found, step) = LinkOne(found, ((step - 1) % Number) + 1)
  BY DEF StepFrom
<1>2. QED BY <1>1, LinkingOne

LEMMA StartIsFound == ASSUME FiledInv PROVE Start \in Findings
<1>1. Start \in [Messages -> 0 .. Len(cases)]
  BY DEF FiledInv, Filed, Start
<1>2. QED BY <1>1 DEF FiledInv, Start, Findings

\* There is such a function for every number of steps: a smallest one without would have
\* the one before it to extend.
LEMMA ChainsExist ==
    ASSUME FiledInv
    PROVE  \A n \in Nat : \E g \in [0 .. n -> Findings] : Chain(g, n)
<1> DEFINE T == {n \in Nat : ~ \E g \in [0 .. n -> Findings] : Chain(g, n)}
<1> SUFFICES ASSUME T # {}
             PROVE  FALSE
  OBVIOUS
<1>1. PICK n \in T : \A k \in T : n <= k
  <2>1. T \subseteq Nat
    OBVIOUS
  <2> HIDE DEF T
  <2>2. QED BY <2>1, Smallest
<1>2. n \in Nat /\ ~ \E g \in [0 .. n -> Findings] : Chain(g, n)
  OBVIOUS
<1>3. CASE n = 0
  <2> DEFINE g == [step \in 0 .. 0 |-> Start]
  <2>1. g \in [0 .. n -> Findings]
    BY <1>3, StartIsFound
  <2>2. Chain(g, n)
    BY <1>3 DEF Chain
  <2>3. QED BY <1>2, <2>1, <2>2
<1>4. CASE n # 0
  <2>1. n - 1 \in Nat /\ n - 1 \notin T
    BY <1>1, <1>2, <1>4
  <2>2. PICK g \in [0 .. n - 1 -> Findings] : Chain(g, n - 1)
    BY <2>1
  <2> DEFINE h == [step \in 0 .. n |-> IF step = n THEN StepFrom(g[n - 1], n) ELSE g[step]]
  <2>3. h \in [0 .. n -> Findings]
    <3>1. g[n - 1] \in Findings
      BY <1>2, <2>1
    <3>2. StepFrom(g[n - 1], n) \in Findings
      BY <3>1, StepFinds
    <3>3. \A step \in 0 .. n : step # n => step \in 0 .. n - 1
      BY <1>2
    <3>4. QED BY <3>2, <3>3
  <2>4. Chain(h, n)
    <3>1. ASSUME NEW step \in 0 .. n
          PROVE  h[step] = IF step = 0 THEN Start ELSE StepFrom(h[step - 1], step)
      <4>1. CASE step = n
        <5>1. h[step] = StepFrom(g[n - 1], n) /\ n - 1 # n /\ n - 1 \in 0 .. n
          BY <1>2, <1>4, <4>1
        <5>2. h[step - 1] = g[n - 1]
          BY <4>1, <5>1
        <5>3. QED BY <1>4, <4>1, <5>1, <5>2
      <4>2. CASE step # n
        <5>1. step \in 0 .. n - 1 /\ h[step] = g[step]
          BY <1>2, <4>2
        <5>2. g[step] = IF step = 0 THEN Start ELSE StepFrom(g[step - 1], step)
          BY <2>2, <5>1 DEF Chain
        <5>3. step # 0 => step - 1 \in 0 .. n /\ step - 1 # n
          BY <1>2, <5>1
        <5>4. step # 0 => h[step - 1] = g[step - 1]
          BY <5>3
        <5>5. QED BY <5>1, <5>2, <5>4
      <4>3. QED BY <4>1, <4>2
    <3>2. h = [step \in 0 .. n |-> h[step]]
      OBVIOUS
    <3> HIDE DEF h
    <3>3. QED BY <3>1, <3>2 DEF Chain
  <2> HIDE DEF h
  <2>5. QED BY <1>2, <2>3, <2>4
<1>5. QED BY <1>3, <1>4

LEMMA LinkingIsAChain == ASSUME FiledInv PROVE Chain(Linking, Steps)
<1>1. \E g : Chain(g, Steps)
  BY ChainsExist, StepsAreNumbers
<1>2. Linking = CHOOSE g : Chain(g, Steps)
  BY DEF Linking, Chain, StepFrom, Start, Steps
<1>3. QED BY <1>1, <1>2

\* Whatever the old mail, the rounds find cases of its parties, and leave the ones it had.
LEMMA HistoryIsFound == ASSUME FiledInv PROVE LinkedHistory \in Findings
<1> DEFINE T == {n \in 0 .. Steps : Linking[n] \notin Findings}
<1>1. \A n \in 0 .. Steps :
          Linking[n] = IF n = 0 THEN Start ELSE StepFrom(Linking[n - 1], n)
  BY LinkingIsAChain DEF Chain
<1>2. T = {}
  <2> SUFFICES ASSUME T # {}
               PROVE  FALSE
    OBVIOUS
  <2>1. PICK n \in T : \A k \in T : n <= k
    <3>1. T \subseteq Nat
      BY StepsAreNumbers
    <3> HIDE DEF T
    <3>2. QED BY <3>1, Smallest
  <2>2. n \in 0 .. Steps /\ Linking[n] \notin Findings
    OBVIOUS
  <2>3. n # 0
    BY <1>1, <2>2, StartIsFound
  <2>4. n - 1 \in 0 .. Steps /\ n - 1 \notin T
    BY <2>1, <2>2, <2>3, StepsAreNumbers
  <2>5. Linking[n - 1] \in Findings
    BY <2>4
  <2>6. QED BY <1>1, <2>2, <2>3, <2>5, StepFinds
<1>3. Steps \in 0 .. Steps
  BY StepsAreNumbers
<1>4. QED BY <1>2, <1>3 DEF LinkedHistory, Steps

-----------------------------------------------------------------------------
(* Every step files what it files in its place *)

\* A table of cases grows, and a case keeps its contact.
Longer ==
    /\ CaseTable(cases') /\ \A c \in 1 .. Len(cases') : IsCase(cases'[c])
    /\ Len(cases) <= Len(cases')
    /\ \A c \in 1 .. Len(cases) : cases'[c].contact = cases[c].contact

LEMMA SameTable == ASSUME FiledInv, UNCHANGED cases PROVE Longer
BY DEF FiledInv, Longer, CaseTable

LEMMA FiledStays ==
    ASSUME FiledInv, Longer, NEW case, NEW m, Filed(case, m, cases)
    PROVE  Filed(case, m, cases')
<1>1. Len(cases) \in Nat /\ Len(cases') \in Nat
  BY DEF FiledInv, Longer, CaseTable
<1>2. QED BY <1>1 DEF Longer, Filed, Theirs

LEMMA FilesStay ==
    ASSUME FiledInv, Longer,
           \A m \in Messages : \/ /\ row'[m].case = row[m].case
                                  /\ row[m].stored => row'[m].stored
                               \/ row'[m].stored /\ Filed(row'[m].case, m, cases'),
           campaign'.case = campaign.case \/ campaign'.case \in 0 .. Len(cases'),
           \A i \in Ingesters : ingest'[i].pc # "idle" =>
              \/ /\ ingest[i].pc # "idle" /\ ingest'[i].message = ingest[i].message
                 /\ ingest'[i].case = ingest[i].case /\ ingest'[i].opens = ingest[i].opens
              \/ /\ Filed(ingest'[i].case, ingest'[i].message, cases')
                 /\ OpensTheirs(ingest'[i].opens, Mail[ingest'[i].message].party)
    PROVE  FiledInv'
<1>1. \A m \in Messages : Filed(row'[m].case, m, cases') /\ (~row'[m].stored => row'[m].case = 0)
  BY FiledStays DEF FiledInv
<1>2. campaign'.case \in 0 .. Len(cases')
  BY DEF FiledInv, Longer, CaseTable
<1>3. ASSUME NEW i \in Ingesters, ingest'[i].pc # "idle"
      PROVE  /\ Filed(ingest'[i].case, ingest'[i].message, cases')
             /\ OpensTheirs(ingest'[i].opens, Mail[ingest'[i].message].party)
  BY <1>3, FiledStays DEF FiledInv
<1>4. CaseTable(cases') /\ \A c \in 1 .. Len(cases') : IsCase(cases'[c])
  BY DEF Longer
<1>5. /\ \A m \in Messages : Filed(row[m].case, m, cases)'
      /\ CaseTable(cases)' /\ \A c \in (1 .. Len(cases))' : IsCase(cases[c])'
      /\ \A i \in Ingesters : (ingest[i].pc # "idle")' =>
             /\ Filed(ingest[i].case, ingest[i].message, cases)'
             /\ OpensTheirs(ingest[i].opens, Mail[ingest[i].message].party)'
  BY <1>1, <1>3, <1>4 DEF Filed, Theirs, CaseTable, IsCase, OpensTheirs, Copies, Inbound
<1>6. QED BY <1>1, <1>2, <1>5 DEF FiledInv

\* A step that files nothing, and rests or goes on with what was read.
LEMMA NothingFiled ==
    ASSUME FiledInv, MailInv, UNCHANGED <<row, cases, campaign>>, NEW i \in Ingesters, NEW q,
           ingest' = [ingest EXCEPT ![i] = q],
           q.pc # "idle" => /\ Filed(q.case, q.message, cases)
                            /\ OpensTheirs(q.opens, Mail[q.message].party)
    PROVE  FiledInv'
<1>1. \A j \in Ingesters : ingest'[j] = IF j = i THEN q ELSE ingest[j]
  BY DEF MailInv, TableInv
<1>2. Longer
  BY SameTable
<1>3. ASSUME NEW j \in Ingesters, ingest'[j].pc # "idle"
      PROVE  \/ /\ ingest[j].pc # "idle" /\ ingest'[j].message = ingest[j].message
                /\ ingest'[j].case = ingest[j].case /\ ingest'[j].opens = ingest[j].opens
             \/ /\ Filed(ingest'[j].case, ingest'[j].message, cases')
                /\ OpensTheirs(ingest'[j].opens, Mail[ingest'[j].message].party)
  <2>1. CASE j = i
    BY <1>1, <1>3, <2>1
  <2>2. CASE j # i
    BY <1>1, <1>3, <2>2
  <2>3. QED BY <2>1, <2>2
<1>4. QED BY <1>2, <1>3, FilesStay

LEMMA FilesRest == ASSUME FiledInv, UNCHANGED <<row, cases, campaign, ingest>> PROVE FiledInv'
<1>1. Longer
  BY SameTable
<1>2. QED BY <1>1, FilesStay

LEMMA RestFilesNothing ==
    ASSUME FiledInv, MailInv, UNCHANGED <<row, cases, campaign>>, NEW i \in Ingesters,
           ingest' = [ingest EXCEPT ![i] = Resting]
    PROVE  FiledInv'
<1>1. Resting.pc = "idle"
  BY DEF Resting
<1>2. QED BY <1>1, NothingFiled

\* What is read from a message is filed in its place already.
LEMMA ReadIsFiled ==
    ASSUME FiledInv, MailInv, NEW i \in Ingesters, Ingesting(i).pc # "idle"
    PROVE  /\ Filed(Ingesting(i).case, Ingesting(i).message, cases)
           /\ OpensTheirs(Ingesting(i).opens, Mail[Ingesting(i).message].party)
<1>1. CASE i = "poller" /\ ingest[i].pc = "idle" /\ cycle.pc = "next" /\ cycle.batch # <<>>
  <2>1. PICK q : q = Ingesting(i)
    OBVIOUS
  <2>2. q = [Resting EXCEPT !.pc = "check", !.message = Head(cycle.batch),
                            !.history = IsHistory(cycle.folder, cycle.uid + 1)]
    BY <1>1, <2>1 DEF Ingesting
  <2>3. q.opens = {} /\ q.case = 0
    BY ONLY <2>2 DEF Resting
  <2>4. Filed(0, q.message, cases) /\ OpensTheirs({}, Mail[q.message].party)
    BY DEF Filed, Theirs, OpensTheirs, FiledInv, CaseTable
  <2>5. QED BY <2>1, <2>3, <2>4
<1>2. CASE ~(i = "poller" /\ ingest[i].pc = "idle" /\ cycle.pc = "next" /\ cycle.batch # <<>>)
  <2>1. Ingesting(i) = ingest[i]
    BY <1>2 DEF Ingesting
  <2>2. QED BY <2>1 DEF FiledInv
<1>3. QED BY <1>1, <1>2

LEMMA GoingFilesNothing ==
    ASSUME FiledInv, MailInv, UNCHANGED <<row, cases, campaign>>, NEW i \in Ingesters,
           Ingesting(i).pc # "idle", NEW pc, Goes(i, pc)
    PROVE  FiledInv'
<1> DEFINE q == Ingesting(i)
           r == [q EXCEPT !.pc = pc]
<1>1. Session(q)
  BY WhatIsRead
<1>2. /\ Filed(q.case, q.message, cases) /\ OpensTheirs(q.opens, Mail[q.message].party)
  BY ReadIsFiled
<1>3. \/ ingest' = [ingest EXCEPT ![i] = Resting]
      \/ ingest' = [ingest EXCEPT ![i] = r]
  BY DEF Goes
<1> HIDE DEF q
<1>4. r.message = q.message /\ r.case = q.case /\ r.opens = q.opens
  <2>1. PICK s : s = r
    OBVIOUS
  <2>2. s = [pc |-> pc, message |-> q.message, history |-> q.history, case |-> q.case,
             opens |-> q.opens]
    BY ONLY <1>1, <2>1 DEF Session
  <2>3. QED BY <2>1, <2>2
<1> HIDE DEF r
<1>5. CASE ingest' = [ingest EXCEPT ![i] = Resting]
  BY <1>5, RestFilesNothing
<1>6. CASE ingest' = [ingest EXCEPT ![i] = r]
  <2>1. Filed(r.case, r.message, cases) /\ OpensTheirs(r.opens, Mail[r.message].party)
    BY <1>2, <1>4
  <2>2. QED BY <1>6, <2>1, NothingFiled
<1>7. QED BY <1>3, <1>5, <1>6

LEMMA UploadFiles == ASSUME FiledInv, MailInv, NEW m \in Uploads, Upload(m) PROVE FiledInv'
<1> DEFINE q == [Resting EXCEPT !.pc = "check", !.message = m]
<1>1. PICK r : r = q
  OBVIOUS
<1>2. r = [pc |-> "check", message |-> m, history |-> FALSE, case |-> 0, opens |-> {}]
  BY ONLY <1>1 DEF Resting
<1>3. r.case = 0 /\ r.opens = {} /\ r.message = m
  BY ONLY <1>2
<1>4. ingest' = [ingest EXCEPT !["upload"] = r]
  BY <1>1 DEF Upload
<1>5. "upload" \in Ingesters /\ UNCHANGED <<row, cases, campaign>>
  BY DEF Upload, Ingesters
<1>6. Filed(0, m, cases) /\ OpensTheirs({}, Mail[m].party)
  BY DEF Filed, Theirs, OpensTheirs, FiledInv, CaseTable
<1>7. QED BY <1>3, <1>4, <1>5, <1>6, NothingFiled

LEMMA HeaderIsTheirs ==
    ASSUME FiledInv, NEW m, NEW fallback
    PROVE  Theirs(HeaderMatch(m, fallback).case, Mail[m].party, cases)
<1>1. Theirs(Match(Mail[m], Linked(m), cases, fallback).case, Mail[m].party, cases)
  BY LinkedAreCases, MatchIsTheirs DEF FiledInv
<1>2. HeaderMatch(m, fallback).case = 0
      \/ HeaderMatch(m, fallback) = Match(Mail[m], Linked(m), cases, fallback)
  BY DEF HeaderMatch
<1>3. QED BY <1>1, <1>2 DEF Theirs

LEMMA FindCaseFiles == ASSUME FiledInv, MailInv, NEW i \in Ingesters, FindCase(i) PROVE FiledInv'
<1> DEFINE q == Ingesting(i)
           m == q.message
           found == HeaderMatch(m, ~LiveHuman(i) \/ Personnel(m))
           unknown == LiveHuman(i) /\ found.case = 0 /\ ~found.ambiguous
           inquiry == NewInquiry(Mail[m], contacts, cases, Recent)
<1>1. PICK r : /\ ingest' = [ingest EXCEPT ![i] = r] /\ Session(r)
               /\ r.message = m /\ r.history = q.history
               /\ r.pc \in {"parent", "insert"}
               /\ unknown /\ Headers(m) # {NoHeader} =>
                     r.pc = "parent" /\ r.opens = q.opens /\ r.case = q.case
               /\ unknown /\ Headers(m) = {NoHeader} =>
                     r.pc = "insert" /\ r.opens = inquiry.opens /\ r.case = inquiry.case
               /\ ~unknown => /\ r.pc = "insert" /\ r.opens = q.opens
                              /\ r.case = IF found.case = 0 THEN Mail[m].bounces ELSE found.case
  BY FindCaseFinds
<1>2. q.pc = "check" /\ UNCHANGED <<row, cases, campaign>>
  BY DEF FindCase
<1>3. m \in Messages /\ Filed(q.case, m, cases) /\ OpensTheirs(q.opens, Mail[m].party)
  BY <1>2, WhatIsRead, ReadIsFiled
<1>4. Theirs(inquiry.case, Mail[m].party, cases) /\ OpensTheirs(inquiry.opens, Mail[m].party)
  BY InquiryIsTheirs DEF FiledInv
<1>5. Filed(inquiry.case, m, cases)
  BY <1>4, TheirsIsFiled
<1>6. Filed(IF found.case = 0 THEN Mail[m].bounces ELSE found.case, m, cases)
  <2>1. Filed(found.case, m, cases)
    BY HeaderIsTheirs, TheirsIsFiled
  <2>2. Mail[m].bounces \in {0, 1} /\ Len(cases) \in Nat \ {0}
    BY <1>3, MailAssumption DEF FiledInv, CaseTable
  <2>3. Filed(Mail[m].bounces, m, cases)
    BY <2>2 DEF Filed, Theirs
  <2>4. QED BY <2>1, <2>3
<1> HIDE DEF unknown, found, inquiry, q
<1>7. Filed(r.case, m, cases) /\ OpensTheirs(r.opens, Mail[m].party)
  BY <1>1, <1>3, <1>4, <1>5, <1>6
<1>8. QED BY <1>1, <1>2, <1>7, NothingFiled

LEMMA LockParentFiles == ASSUME FiledInv, MailInv, NEW i \in Ingesters, LockParent(i) PROVE FiledInv'
<1> DEFINE q == ingest[i]
           m == q.message
           inquiry == NewInquiry(Mail[m], contacts \cup {Mail[m].party}, cases, Recent)
<1>1. PICK r : /\ ingest' = [ingest EXCEPT ![i] = r] /\ Session(r)
               /\ r.message = m /\ r.history = q.history
               /\ \/ /\ r.pc = "promote" /\ CampaignParent(m)
                     /\ r.opens = inquiry.opens /\ r.case = inquiry.case
                  \/ /\ r.pc = "insert" /\ r.opens = q.opens
                     /\ r.case = HeaderMatch(m, FALSE).case
  BY LockParentFinds
<1>2. q.pc # "idle" /\ UNCHANGED <<row, cases, campaign>>
  BY DEF LockParent
<1>3. OpensTheirs(q.opens, Mail[m].party)
  BY <1>2 DEF FiledInv
<1>4. Theirs(inquiry.case, Mail[m].party, cases) /\ OpensTheirs(inquiry.opens, Mail[m].party)
  BY InquiryIsTheirs DEF FiledInv
<1>5. Filed(inquiry.case, m, cases) /\ Filed(HeaderMatch(m, FALSE).case, m, cases)
  BY <1>4, HeaderIsTheirs, TheirsIsFiled
<1> HIDE DEF inquiry, q
<1>6. Filed(r.case, m, cases) /\ OpensTheirs(r.opens, Mail[m].party)
  BY <1>1, <1>3, <1>4, <1>5
<1>7. QED BY <1>1, <1>2, <1>6, NothingFiled

-----------------------------------------------------------------------------
(* The commits *)

LEMMA FunctionIsSeq ==
    ASSUME NEW n \in Nat, NEW S, NEW f \in [1 .. n -> S]
    PROVE  f \in Seq(S) /\ Len(f) = n
<1>1. f \in Seq(S)
  BY SeqDef
<1>2. Len(f) \in Nat /\ DOMAIN f = 1 .. Len(f)
  BY <1>1, LenProperties
<1>3. 1 .. Len(f) = 1 .. n
  BY <1>2
<1>4. QED BY <1>1, <1>2, <1>3

LEMMA Joined ==
    ASSUME NEW S, NEW s \in Seq(S), NEW t \in Seq(S)
    PROVE  /\ s \o t \in Seq(S) /\ Len(s \o t) = Len(s) + Len(t)
           /\ s \o t = [c \in 1 .. Len(s \o t) |-> (s \o t)[c]]
<1>1. s \o t \in Seq(S) /\ Len(s \o t) = Len(s) + Len(t)
  BY ONLY s \in Seq(S), t \in Seq(S), ConcatProperties
<1>2. s \o t \in [1 .. Len(s \o t) -> S]
  BY ONLY <1>1, LenProperties
<1>3. QED BY ONLY <1>1, <1>2

LEMMA JoinedFirst ==
    ASSUME NEW S, NEW s \in Seq(S), NEW t \in Seq(S), NEW c \in 1 .. Len(s)
    PROVE  (s \o t)[c] = s[c]
<1>1. Len(s) \in Nat /\ Len(t) \in Nat
  BY ONLY s \in Seq(S), t \in Seq(S), LenProperties
<1>2. \A d \in 1 .. Len(s) + Len(t) :
          (s \o t)[d] = IF d <= Len(s) THEN s[d] ELSE t[d - Len(s)]
  BY ONLY s \in Seq(S), t \in Seq(S), ConcatProperties
<1>3. QED BY ONLY <1>1, <1>2, c \in 1 .. Len(s)

LEMMA JoinedLast ==
    ASSUME NEW S, NEW s \in Seq(S), NEW t \in Seq(S), Len(t) = 1
    PROVE  (s \o t)[Len(s \o t)] = t[1]
<1>1. Len(s) \in Nat /\ Len(s \o t) = Len(s) + 1
  <2>1. Len(s) \in Nat
    BY ONLY s \in Seq(S), LenProperties
  <2>2. Len(s \o t) = Len(s) + Len(t)
    BY ONLY s \in Seq(S), t \in Seq(S), Joined
  <2>3. QED BY ONLY <2>1, <2>2, Len(t) = 1
<1>2. \A d \in 1 .. Len(s) + Len(t) :
          (s \o t)[d] = IF d <= Len(s) THEN s[d] ELSE t[d - Len(s)]
  BY ONLY s \in Seq(S), t \in Seq(S), ConcatProperties
<1> DEFINE d == Len(s \o t)
<1>3. d \in 1 .. Len(s) + Len(t) /\ ~(d <= Len(s)) /\ d - Len(s) = 1
  BY ONLY <1>1, Len(t) = 1
<1> HIDE DEF d
<1>4. (s \o t)[d] = t[d - Len(s)]
  BY ONLY <1>2, <1>3
<1>5. (s \o t)[d] = t[1]
  BY ONLY <1>3, <1>4
<1>6. QED BY ONLY <1>5 DEF d

\* A table with the case that a resolution opens, if it opens one.
LEMMA OneMore ==
    ASSUME NEW table, CaseTable(table), \A c \in 1 .. Len(table) : IsCase(table[c]),
           NEW opens, NEW party, OpensTheirs(opens, party),
           NEW all, all = table \o SetToSeq(opens)
    PROVE  /\ CaseTable(all) /\ \A c \in 1 .. Len(all) : IsCase(all[c])
           /\ Len(table) <= Len(all)
           /\ \A c \in 1 .. Len(table) : all[c] = table[c]
           /\ opens # {} => Theirs(Len(all), party, all)
<1> DEFINE S == {table[c] : c \in 1 .. Len(table)} \cup opens
<1>1. Len(table) \in Nat \ {0} /\ table = [c \in 1 .. Len(table) |-> table[c]]
  BY DEF CaseTable
<1>2. table \in Seq(S)
  <2> DEFINE n == Len(table)
  <2>1. n \in Nat /\ table \in [1 .. n -> S]
    BY <1>1
  <2> HIDE DEF n, S
  <2>2. QED BY <2>1, FunctionIsSeq
<1>3. CASE opens = {}
  <2>1. SetToSeq(opens) = << >>
    <3>1. Cardinality({}) = 0
      BY FS_EmptySet
    <3> DEFINE f == SetToSeq(opens)
               g == [k \in 1 .. 0 |-> 0]
    <3>2. g \in [1 .. 0 -> {}] /\ IsInjective(g)
      BY DEF IsInjective
    <3>3. f = CHOOSE h \in [1 .. 0 -> {}] : IsInjective(h)
      BY <1>3, <3>1 DEF SetToSeq
    <3> HIDE DEF f, g
    <3>4. f \in [1 .. 0 -> {}]
      BY <3>2, <3>3
    <3>5. f \in Seq({}) /\ Len(f) = 0
      BY <3>4, FunctionIsSeq
    <3>6. f = << >>
      BY <3>5, EmptySeq
    <3>7. QED BY <3>6 DEF f
  <2>2. table \o << >> = table
    BY ONLY <1>2, ConcatEmptySeq
  <2>3. all = table
    BY ONLY <2>1, <2>2, all = table \o SetToSeq(opens)
  <2>4. /\ CaseTable(all) /\ (\A c \in 1 .. Len(all) : IsCase(all[c]))
        /\ \A c \in 1 .. Len(table) : all[c] = table[c]
    BY ONLY <2>3, CaseTable(table), \A c \in 1 .. Len(table) : IsCase(table[c]), Zenon
  <2>5. Len(table) <= Len(all)
    BY ONLY <1>1, <2>3
  <2>6. QED BY ONLY <1>3, <2>4, <2>5
<1>4. CASE opens # {}
  <2>1. PICK r : opens = {r} /\ IsCase(r) /\ r.contact = party
    BY <1>4 DEF OpensTheirs
  <2> DEFINE f == SetToSeq(opens)
  <2>2. f \in [1 .. 1 -> {r}]
    <3>1. Cardinality(opens) = 1
      BY <2>1, FS_Singleton
    <3> DEFINE g == [k \in 1 .. 1 |-> r]
    <3>2. g \in [1 .. 1 -> {r}] /\ IsInjective(g)
      BY DEF IsInjective
    <3> HIDE DEF g
    <3>3. f = CHOOSE h \in [1 .. 1 -> {r}] : IsInjective(h)
      BY <2>1, <3>1 DEF SetToSeq
    <3>4. QED BY <3>2, <3>3
  <2> HIDE DEF f
  <2>3. f \in Seq(S) /\ Len(f) = 1 /\ f[1] = r
    <3>1. r \in S
      BY <2>1
    <3>2. f \in [1 .. 1 -> S] /\ f[1] = r
      BY <2>2, <3>1
    <3>3. QED BY <3>2, FunctionIsSeq
  <2>4. all = table \o f
    BY DEF f
  <2> HIDE DEF S
  <2>5. /\ Len(all) = Len(table) + 1
        /\ all = [c \in 1 .. Len(all) |-> all[c]]
        /\ \A c \in 1 .. Len(table) : all[c] = table[c]
        /\ all[Len(table) + 1] = f[1]
    <3>1. table \in Seq(S) /\ f \in Seq(S)
      BY ONLY <1>2, <2>3
    <3>2. /\ table \o f \in Seq(S) /\ Len(table \o f) = Len(table) + Len(f)
          /\ table \o f = [c \in 1 .. Len(table \o f) |-> (table \o f)[c]]
      BY ONLY <3>1, Joined
    <3>3. \A c \in 1 .. Len(table) : (table \o f)[c] = table[c]
      BY ONLY <3>1, JoinedFirst
    <3>4. Len(f) = 1
      BY ONLY <2>3
    <3>5. (table \o f)[Len(table \o f)] = f[1]
      BY ONLY <3>1, <3>4, JoinedLast
    <3>6. Len(all) = Len(table) + 1 /\ all[Len(all)] = f[1]
      BY ONLY <2>4, <3>2, <3>4, <3>5
    <3>7. all = [c \in 1 .. Len(all) |-> all[c]]
      BY ONLY <2>4, <3>2, Zenon
    <3>8. \A c \in 1 .. Len(table) : all[c] = table[c]
      BY ONLY <2>4, <3>3, Zenon
    <3>9. QED BY ONLY <3>6, <3>7, <3>8
  <2>6. all[Len(table) + 1] = r /\ \A c \in 1 .. Len(table) : all[c] = table[c]
    BY ONLY <1>1, <2>3, <2>5
  <2>7. \A c \in 1 .. Len(all) : c \in 1 .. Len(table) \/ c = Len(table) + 1
    BY ONLY <1>1, <2>5
  <2>8. \A c \in 1 .. Len(all) : IsCase(all[c])
    <3>1. ASSUME NEW c \in 1 .. Len(all) PROVE IsCase(all[c])
      <4>1. CASE c \in 1 .. Len(table)
        BY <2>6, <4>1
      <4>2. CASE c = Len(table) + 1
        BY <2>1, <2>6, <4>2
      <4>3. QED BY <2>7, <4>1, <4>2
    <3>2. QED BY <3>1
  <2>9. Theirs(Len(all), party, all)
    <3>1. Len(all) \in 1 .. Len(all) /\ all[Len(all)] = r
      BY ONLY <1>1, <2>5, <2>6
    <3>2. all[Len(all)].contact = party
      BY <2>1, <3>1
    <3>3. QED BY ONLY <3>1, <3>2 DEF Theirs
  <2>10. Len(all) \in Nat \ {0} /\ Len(table) <= Len(all)
    BY ONLY <1>1, <2>5
  <2>11. CaseTable(all)
    BY ONLY <2>5, <2>10 DEF CaseTable
  <2>12. QED BY ONLY <2>6, <2>8, <2>9, <2>10, <2>11
<1>5. QED BY <1>3, <1>4

LEMMA InsertLonger ==
    ASSUME FiledInv, MailInv, NEW i \in Ingesters, Insert(i)
    PROVE  Longer /\ Filed(CaseOf(ingest[i]), ingest[i].message, cases')
<1> DEFINE q == ingest[i]
           m == q.message
           all == cases \o SetToSeq(q.opens)
<1>1. q.pc # "idle" /\ cases' = all
  BY DEF Insert
<1>2. Filed(q.case, m, cases) /\ OpensTheirs(q.opens, Mail[m].party)
  BY <1>1 DEF FiledInv
<1>3. Longer /\ (q.opens # {} => Theirs(Len(all), Mail[m].party, all))
  <2> DEFINE opens == q.opens
             party == Mail[m].party
  <2>1. /\ CaseTable(cases) /\ \A c \in 1 .. Len(cases) : IsCase(cases[c])
        /\ OpensTheirs(opens, party) /\ all = cases \o SetToSeq(opens)
    BY <1>2 DEF FiledInv
  <2> HIDE DEF opens, party, all
  <2>2. CaseTable(all) /\ \A c \in 1 .. Len(all) : IsCase(all[c])
    BY ONLY <2>1, OneMore
  <2>3. Len(cases) <= Len(all) /\ \A c \in 1 .. Len(cases) : all[c] = cases[c]
    BY ONLY <2>1, OneMore
  <2>4. opens # {} => Theirs(Len(all), party, all)
    BY ONLY <2>1, OneMore
  <2>5. \A c \in 1 .. Len(cases) : all[c].contact = cases[c].contact
    BY ONLY <2>3
  <2>6. Longer
    BY ONLY <1>1, <2>2, <2>3, <2>5 DEF Longer
  <2>7. QED BY ONLY <2>4, <2>6 DEF opens, party
<1>4. CASE q.opens = {}
  <2>1. CaseOf(q) = q.case
    BY <1>4 DEF CaseOf
  <2>2. QED BY <1>2, <1>3, <2>1, FiledStays
<1>5. CASE q.opens # {}
  <2>1. CaseOf(q) = Len(all) /\ Len(all) \in Nat \ {0}
    BY <1>1, <1>3, <1>5 DEF Longer, CaseTable, CaseOf
  <2>2. QED BY <1>1, <1>3, <1>5, <2>1 DEF Filed
<1>6. QED BY <1>4, <1>5

LEMMA InsertFiles == ASSUME FiledInv, MailInv, NEW i \in Ingesters, Insert(i) PROVE FiledInv'
<1> DEFINE q == ingest[i]
           m == q.message
<1>1. /\ q.pc # "idle" /\ Ingesting(i) = q
      /\ campaign' = IF q.pc = "promote" THEN [case |-> CaseOf(q), status |-> "REPLIED"] ELSE campaign
      /\ Goes(i, IF Live(i) THEN "follow" ELSE "done")
  BY AfterTheCheck DEF Insert, CaseOf
<1>2. Longer /\ Filed(CaseOf(q), m, cases')
  BY InsertLonger
<1>3. /\ row'[m].stored /\ row'[m].case = CaseOf(q)
      /\ \A n \in Messages \ {m} :
            /\ row'[n].stored = row[n].stored
            /\ row'[n].case = IF Promotes(q, n) THEN CaseOf(q) ELSE row[n].case
  BY RowsInserted
<1>4. ingest = [j \in Ingesters |-> ingest[j]]
  BY DEF MailInv, TableInv
<1>5. campaign'.case = campaign.case \/ campaign'.case \in 0 .. Len(cases')
  BY <1>1, <1>2 DEF Filed
<1>6. \A j \in Ingesters : ingest'[j].pc # "idle" =>
          /\ ingest[j].pc # "idle" /\ ingest'[j].message = ingest[j].message
          /\ ingest'[j].case = ingest[j].case /\ ingest'[j].opens = ingest[j].opens
  <2> DEFINE pc == IF Live(i) THEN "follow" ELSE "done"
             r == [q EXCEPT !.pc = pc]
  <2>1. Session(q) /\ Resting.pc = "idle"
    BY DEF MailInv, TableInv, Resting
  <2>2. r.message = q.message /\ r.case = q.case /\ r.opens = q.opens
    <3>1. PICK s : s = r
      OBVIOUS
    <3> HIDE DEF q, pc
    <3>2. s = [pc |-> pc, message |-> q.message, history |-> q.history, case |-> q.case,
               opens |-> q.opens]
      BY ONLY <2>1, <3>1 DEF Session
    <3>3. QED BY <3>1, <3>2
  <2>3. \/ ingest' = [ingest EXCEPT ![i] = Resting]
        \/ ingest' = [ingest EXCEPT ![i] = r]
    BY <1>1 DEF Goes
  <2> HIDE DEF r
  <2>4. QED BY <1>1, <1>4, <2>1, <2>2, <2>3
<1>7. ASSUME NEW n \in Messages
      PROVE  \/ /\ row'[n].case = row[n].case
                /\ row[n].stored => row'[n].stored
             \/ row'[n].stored /\ Filed(row'[n].case, n, cases')
  <2>1. CASE n = m
    BY <1>2, <1>3, <2>1
  <2>2. CASE n # m /\ Promotes(q, n)
    <3>1. n \in Copies /\ row[n].stored
      BY <2>2 DEF Promotes, Stored
    <3>2. Filed(CaseOf(q), n, cases')
      BY <1>2, <3>1 DEF Filed
    <3>3. QED BY <1>3, <2>2, <3>1, <3>2
  <2>3. CASE n # m /\ ~Promotes(q, n)
    BY <1>3, <2>3
  <2>4. QED BY <2>1, <2>2, <2>3
<1> HIDE DEF q
<1>8. QED BY <1>2, <1>5, <1>6, <1>7, FilesStay

\* A step that writes statuses of cases.
LEMMA StatusesOnly ==
    ASSUME FiledInv, cases' = [c \in 1 .. Len(cases) |-> cases'[c]],
           \A c \in 1 .. Len(cases) : IsCase(cases'[c]) /\ cases'[c].contact = cases[c].contact
    PROVE  Longer
<1>1. Len(cases) \in Nat \ {0}
  BY DEF FiledInv, CaseTable
<1>2. Len(cases') = Len(cases)
  <2> DEFINE n == Len(cases)
  <2>1. n \in Nat /\ cases' = [c \in 1 .. n |-> cases'[c]]
    BY <1>1
  <2> HIDE DEF n
  <2>2. Len(cases') = n
    BY <2>1, IsASeq
  <2>3. QED BY <2>2 DEF n
<1>3. QED BY <1>1, <1>2 DEF Longer, CaseTable

LEMMA StatusOfCase ==
    ASSUME NEW r, IsCase(r), NEW status, NEW s, s = [r EXCEPT !.status = status]
    PROVE  IsCase(s) /\ s.contact = r.contact
<1>1. s = [contact |-> r.contact, product |-> r.product, category |-> r.category,
           currency |-> r.currency, subject |-> r.subject, status |-> status]
  BY DEF IsCase
<1>2. QED BY ONLY <1>1 DEF IsCase

LEMMA ReconcileFiles ==
    ASSUME FiledInv, MailInv, PlanInv, PlanFiled, Reconcile PROVE FiledInv'
<1> DEFINE status == plan.status
<1>1. cases' = [c \in DOMAIN cases |->
                  IF c \in DOMAIN status THEN [cases[c] EXCEPT !.status = status[c]] ELSE cases[c]]
  BY DEF Reconcile
<1> HIDE DEF status
<1>2. DOMAIN cases = 1 .. Len(cases)
  BY DEF FiledInv, CaseTable
<1>3. Longer
  <2>1. cases' = [c \in 1 .. Len(cases) |-> cases'[c]]
    BY <1>1, <1>2
  <2>2. ASSUME NEW c \in 1 .. Len(cases)
        PROVE  IsCase(cases'[c]) /\ cases'[c].contact = cases[c].contact
    <3> DEFINE st == status[c]
    <3>1. IsCase(cases[c])
      BY DEF FiledInv
    <3>2. cases'[c] = cases[c] \/ cases'[c] = [cases[c] EXCEPT !.status = st]
      BY <1>1, <1>2
    <3> HIDE DEF st
    <3>3. QED BY ONLY <3>1, <3>2, StatusOfCase
  <2>3. QED BY <2>1, <2>2, StatusesOnly
<1>4. \A m \in Messages :
          /\ row'[m].stored = row[m].stored
          /\ row'[m].case = IF m \in DOMAIN plan.case /\ plan.case[m] # 0
                            THEN plan.case[m] ELSE row[m].case
  BY RowsRelinked
<1>5. ASSUME NEW m \in Messages, m \in DOMAIN plan.case
      PROVE  row[m].stored /\ Filed(plan.case[m], m, cases')
  <2>1. Filed(plan.case[m], m, cases) /\ row[m].stored
    BY <1>5 DEF PlanFiled, PlanInv, History, Stored
  <2>2. QED BY <1>3, <2>1, FiledStays
<1>6. UNCHANGED <<campaign, ingest>>
  BY DEF Reconcile
<1> HIDE <1>1
<1>7. QED BY <1>3, <1>4, <1>5, <1>6, FilesStay

LEMMA DecideLonger ==
    ASSUME FiledInv, NEW m, NEW decision, Decide(m, decision)
    PROVE  Longer
<1> DEFINE d == review[m].case
           status == StatusAfter[decision]
<1>1. cases' = IF d = 0 THEN cases ELSE [cases EXCEPT ![d].status = status]
  BY DEF Decide
<1>2. cases = [c \in 1 .. Len(cases) |-> cases[c]] /\ \A c \in 1 .. Len(cases) : IsCase(cases[c])
  BY DEF FiledInv, CaseTable
<1>3. CASE d = 0
  BY <1>1, <1>3, SameTable
<1>4. CASE d # 0
  <2>1. /\ cases' = [c \in 1 .. Len(cases) |-> cases'[c]]
        /\ \A c \in 1 .. Len(cases) :
              cases'[c] = IF c = d THEN [cases[c] EXCEPT !.status = status] ELSE cases[c]
    BY <1>1, <1>2, <1>4
  <2>2. ASSUME NEW c \in 1 .. Len(cases)
        PROVE  IsCase(cases'[c]) /\ cases'[c].contact = cases[c].contact
    <3>1. IsCase(cases[c])
      BY <1>2
    <3> HIDE DEF status, d
    <3>2. CASE c = d
      <4>1. cases'[c] = [cases[c] EXCEPT !.status = status]
        BY <2>1, <3>2
      <4>2. QED BY <3>1, <4>1, StatusOfCase
    <3>3. CASE c # d
      BY <2>1, <3>1, <3>3
    <3>4. QED BY <3>2, <3>3
  <2>3. QED BY <2>1, <2>2, StatusesOnly
<1>5. QED BY <1>3, <1>4

LEMMA DecideFiles ==
    ASSUME FiledInv, MailInv, NEW m, NEW decision, Decide(m, decision)
    PROVE  FiledInv'
<1>1. UNCHANGED <<row, campaign, ingest>> /\ Longer
  BY DecideLonger DEF Decide
<1>2. QED BY <1>1, FilesStay

LEMMA FilesKeep ==
    ASSUME MailInv, FiledInv, PlanInv, PlanFiled, [SyncNext]_syncVars PROVE FiledInv'
<1>1. CASE \/ BeginCycle \/ BudgetSpent \/ Fetch \/ SaveCursor \/ EndFolder \/ ReadHistory
           \/ NewDay \/ UNCHANGED syncVars
  BY <1>1, FilesRest
     DEF BeginCycle, BudgetSpent, Fetch, SaveCursor, EndFolder, ReadHistory, NewDay, syncVars
<1>2. CASE Advance \/ FolderFails \/ FailAfterCollision
  <2>1. "poller" \in Ingesters /\ ingest' = [ingest EXCEPT !["poller"] = Resting]
        /\ UNCHANGED <<row, cases, campaign>>
    BY <1>2 DEF Advance, FolderFails, FailAfterCollision, Ingesters
  <2>2. QED BY <2>1, RestFilesNothing
<1>3. ASSUME NEW i \in Ingesters, Crash(i) PROVE FiledInv'
  BY <1>3, RestFilesNothing DEF Crash
<1>4. ASSUME NEW i \in Ingesters, Duplicate(i) \/ Collide(i) \/ FollowUp(i) PROVE FiledInv'
  <2>1. UNCHANGED <<row, cases, campaign>> /\ Ingesting(i).pc # "idle"
    BY <1>4, AfterTheCheck DEF Duplicate, Collide, FollowUp
  <2>2. PICK pc : Goes(i, pc)
    BY <1>4 DEF Duplicate, Collide, FollowUp
  <2>3. QED BY <2>1, <2>2, GoingFilesNothing
<1>5. ASSUME NEW i \in Ingesters, Ingest(i) PROVE FiledInv'
  BY <1>4, <1>5, FindCaseFiles, LockParentFiles, InsertFiles DEF Ingest
<1>6. ASSUME NEW m \in Messages, Deliver(m) PROVE FiledInv'
  BY <1>6, FilesRest DEF Deliver
<1>7. ASSUME NEW m \in Messages, NEW decision \in Decisions, Decide(m, decision) PROVE FiledInv'
  BY <1>7, DecideFiles
<1>8. ASSUME NEW m \in Uploads, Upload(m) PROVE FiledInv'
  BY <1>8, UploadFiles
<1>9. ASSUME NEW f \in Folders, Renumber(f) PROVE FiledInv'
  BY <1>9, FilesRest DEF Renumber
<1>10. QED BY <1>1, <1>2, <1>3, <1>5, <1>6, <1>7, <1>8, <1>9, ReconcileFiles DEF SyncNext, Poll

LEMMA FiledStarts == ASSUME SyncInit PROVE FiledInv
<1>1. cases = <<FirstCase>> /\ Len(cases) = 1 /\ cases[1] = FirstCase
  BY DEF SyncInit
<1>2. cases = [c \in 1 .. Len(cases) |-> cases[c]]
  BY <1>1
<1>3. CaseTable(cases) /\ \A c \in 1 .. Len(cases) : IsCase(cases[c])
  BY <1>1, <1>2, MailAssumption DEF CaseTable
<1>4. \A m \in Messages : Filed(row[m].case, m, cases) /\ row[m].case = 0
  BY <1>1 DEF SyncInit, NoRow, Filed, Theirs
<1>5. campaign.case \in 0 .. Len(cases)
  BY <1>1 DEF SyncInit
<1>6. \A i \in Ingesters : ingest[i].pc = "idle"
  BY DEF SyncInit, Resting
<1>7. QED BY <1>3, <1>4, <1>5, <1>6 DEF FiledInv

-----------------------------------------------------------------------------
(* What the reconciliation has read and will write *)

LEMMA NoPlanHolds == ASSUME plan' = NoPlan PROVE PlanInv' /\ PlanFiled'
<1>1. DOMAIN plan'.case = {} /\ plan'.waiting = {}
  BY DEF NoPlan
<1>2. QED BY <1>1 DEF PlanInv, PlanFiled

\* A step that leaves it, while rows keep their cases or copies are given the campaign's.
LEMMA PlanStays ==
    ASSUME PlanInv, PlanFiled, FiledInv, Longer, plan' = plan,
           campaign.case # 0 => campaign'.case = campaign.case,
           \A m \in History :
               /\ row'[m].stored = row[m].stored /\ row'[m].history = row[m].history
               /\ \/ row'[m].case = row[m].case
                  \/ m \in Copies /\ row'[m].case = campaign'.case
    PROVE  PlanInv' /\ PlanFiled'
<1>1. ASSUME NEW m \in DOMAIN plan.case
      PROVE  /\ m \in Messages /\ row'[m].stored /\ row'[m].history
             /\ row'[m].case # 0 => \/ plan.case[m] = row'[m].case
                                    \/ m \in Copies /\ row'[m].case = campaign'.case
             /\ Filed(plan.case[m], m, cases')
  <2>1. m \in History /\ m \in Messages /\ row[m].stored /\ row[m].history
    BY DEF PlanInv, History, Stored
  <2>2. row[m].case # 0 => \/ plan.case[m] = row[m].case
                           \/ m \in Copies /\ row[m].case = campaign.case
    BY DEF PlanInv
  <2>3. Filed(plan.case[m], m, cases')
    BY FiledStays DEF PlanFiled
  <2>4. QED BY <2>1, <2>2, <2>3
<1>2. PlanInv'
  BY <1>1 DEF PlanInv, History, Stored, Copies, Inbound
<1>3. PlanFiled'
  <2>1. \A m \in DOMAIN plan.case : Filed(plan.case[m], m, cases)'
    BY <1>1 DEF Filed, Theirs, Copies, Inbound
  <2>2. QED BY <2>1 DEF PlanFiled, Inbound
<1>4. QED BY <1>2, <1>3

LEMMA PlanRests ==
    ASSUME PlanInv, PlanFiled, FiledInv, UNCHANGED <<row, campaign>>, Longer,
           plan' = plan \/ plan' = NoPlan
    PROVE  PlanInv' /\ PlanFiled'
BY PlanStays, NoPlanHolds

LEMMA InsertPlan ==
    ASSUME MailInv, CaseInv, FiledInv, PlanInv, PlanFiled, NEW i \in Ingesters, Insert(i)
    PROVE  PlanInv' /\ PlanFiled'
<1> DEFINE q == ingest[i]
<1>1. /\ ~row[q.message].stored
      /\ \A n \in Messages \ {q.message} :
            /\ row'[n].stored = row[n].stored /\ row'[n].history = row[n].history
            /\ row'[n].case = IF Promotes(q, n) THEN CaseOf(q) ELSE row[n].case
  BY RowsInserted
<1>2. /\ q.pc \in {"insert", "promote"} /\ plan' = plan
      /\ q.pc = "promote" => campaign'.case = CaseOf(q) /\ campaign.case = 0
      /\ q.pc = "insert" => campaign' = campaign
  BY InsertBears DEF Insert, CaseInv, HoldsCampaign
<1>3. ASSUME NEW n \in History
      PROVE  /\ row'[n].stored = row[n].stored /\ row'[n].history = row[n].history
             /\ \/ row'[n].case = row[n].case
                \/ n \in Copies /\ row'[n].case = campaign'.case
  <2>1. n \in Messages \ {q.message}
    BY <1>1 DEF History, Stored
  <2>2. Promotes(q, n) => n \in Copies /\ q.pc = "promote"
    BY DEF Promotes
  <2>3. QED BY <1>1, <1>2, <2>1, <2>2
<1>4. Longer
  BY InsertLonger
<1>5. campaign.case # 0 => campaign'.case = campaign.case
  BY <1>2
<1> HIDE DEF q
<1>6. QED BY <1>2, <1>3, <1>4, <1>5, PlanStays

LEMMA LatestIsOne == ASSUME MailInv, NEW found, NEW c PROVE LatestOf(found, c) \in {0} \cup History
<1> DEFINE S == {m \in History : found[m] = c}
           n == Cardinality(Messages)
<1>1. n \in Nat /\ Messages = 1 .. n
  BY MailAssumption, FS_CardinalityType
<1> HIDE DEF n
<1>2. S \subseteq 1 .. n /\ S \subseteq History
  BY <1>1 DEF History, Stored
<1>3. \E x \in {0} \cup S : \A y \in {0} \cup S : x >= y
  <2>1. CASE S = {}
    BY <2>1
  <2>2. CASE S # {}
    <3> HIDE DEF S
    <3>1. PICK x \in S : \A y \in S : y <= x
      BY <1>1, <1>2, <2>2, Largest
    <3>2. x \in 1 .. n
      BY <1>2, <3>1
    <3>3. \A y \in S : y \in Nat /\ y <= x
      BY <1>2, <3>1
    <3>4. \A y \in {0} \cup S : x >= y
      BY <1>1, <3>2, <3>3
    <3>5. QED BY <3>1, <3>4
  <2>3. QED BY <2>1, <2>2
<1>4. LatestOf(found, c) = CHOOSE x \in {0} \cup S : \A y \in {0} \cup S : x >= y
  BY DEF LatestOf, Max
<1> HIDE DEF S
<1>5. LatestOf(found, c) \in {0} \cup S
  BY <1>3, <1>4
<1>6. QED BY <1>2, <1>5

LEMMA ReadHistoryPlan ==
    ASSUME MailInv, FiledInv, ReadHistory PROVE PlanInv' /\ PlanFiled'
<1> DEFINE found == LinkedHistory
           touched == {c \in DOMAIN cases : LatestOf(found, c) > LatestLive(c)}
           answered == {c \in touched : Inbound(LatestOf(found, c))}
           waiting == {LatestOf(found, c) : c \in answered} \cup ContactOnly(found)
<1>1. /\ plan'.case = [m \in History |-> found[m]] /\ plan'.waiting = waiting
      /\ UNCHANGED <<row, cases, campaign>>
  BY DEF ReadHistory
<1>2. waiting \subseteq {0} \cup {m \in History : Inbound(m)}
  <2>1. \A c \in answered : Inbound(LatestOf(found, c))
    OBVIOUS
  <2> HIDE DEF found, answered
  <2>2. \A c : LatestOf(found, c) \in {0} \cup History
    BY LatestIsOne
  <2>3. ContactOnly(found) \subseteq {m \in History : Inbound(m)}
    BY DEF ContactOnly
  <2>4. {LatestOf(found, c) : c \in answered} \subseteq {0} \cup {m \in History : Inbound(m)}
    BY <2>1, <2>2
  <2>5. QED BY <2>3, <2>4
<1>3. found \in Findings
  BY HistoryIsFound
<1> HIDE DEF found, waiting
<1>4. ASSUME NEW m \in History
      PROVE  /\ m \in Messages /\ row[m].stored /\ row[m].history
             /\ Filed(found[m], m, cases) /\ (row[m].case # 0 => found[m] = row[m].case)
  BY <1>3 DEF Findings, History, Stored
<1>5. PlanInv'
  BY <1>1, <1>4 DEF PlanInv, History, Stored
<1>6. PlanFiled'
  <2>1. \A m \in History : Filed(plan.case[m], m, cases)'
    BY <1>1, <1>4 DEF Filed, Theirs, Copies, Inbound
  <2>2. DOMAIN plan'.case = History
    BY <1>1
  <2>3. QED BY <1>1, <1>2, <2>1, <2>2 DEF PlanFiled, Inbound
<1>7. QED BY <1>5, <1>6

LEMMA PlanKeeps ==
    ASSUME MailInv, CaseInv, FiledInv, PlanInv, PlanFiled, [SyncNext]_syncVars
    PROVE  PlanInv' /\ PlanFiled'
<1>1. CASE UNCHANGED <<row, campaign, cases>> /\ (plan' = plan \/ plan' = NoPlan)
  BY <1>1, SameTable, PlanRests
<1>2. ASSUME NEW m \in Messages, NEW decision \in Decisions, Decide(m, decision)
      PROVE  PlanInv' /\ PlanFiled'
  <2>1. Longer /\ UNCHANGED <<row, campaign, plan>>
    BY <1>2, DecideLonger DEF Decide
  <2>2. QED BY <2>1, PlanRests
<1>3. CASE Reconcile
  BY <1>3, NoPlanHolds DEF Reconcile
<1>4. \/ UNCHANGED <<row, campaign, cases>> /\ (plan' = plan \/ plan' = NoPlan)
      \/ Reconcile \/ ReadHistory \/ \E i \in Ingesters : Insert(i)
      \/ \E m \in Messages : \E decision \in Decisions : Decide(m, decision)
  <2> DEFINE Rest == UNCHANGED <<row, campaign, cases>> /\ (plan' = plan \/ plan' = NoPlan)
  <2>1. CASE Poll
    BY <2>1 DEF Poll, BeginCycle, BudgetSpent, Fetch, SaveCursor, Advance, EndFolder, FailAfterCollision
  <2>2. CASE FolderFails \/ NewDay \/ UNCHANGED syncVars
    BY <2>2 DEF FolderFails, NewDay, syncVars
  <2>3. ASSUME NEW i \in Ingesters, Ingest(i) \/ Crash(i) PROVE Rest \/ Insert(i)
    BY <2>3 DEF Ingest, Crash, Duplicate, FindCase, LockParent, Collide, FollowUp
  <2>4. ASSUME NEW m \in Messages, Deliver(m) PROVE Rest
    BY <2>4 DEF Deliver
  <2>5. CASE (\E m \in Uploads : Upload(m)) \/ \E f \in Folders : Renumber(f)
    BY <2>5 DEF Upload, Renumber
  <2>6. QED BY <2>1, <2>2, <2>3, <2>4, <2>5 DEF SyncNext
<1>5. QED BY <1>1, <1>2, <1>3, <1>4, ReadHistoryPlan, InsertPlan

-----------------------------------------------------------------------------
(* The other types *)

\* A folder is renumbered once for a fault at most, and a cutoff is within its mail.
ServerTypes ==
    /\ faults \in 0 .. MaxFaults
    /\ \A f \in Folders : server[f].validity <= faults + 1 /\ cursor[f].cutoff <= Len(server[f].mail)
    /\ cycle.pc = "save" => cycle.highest <= Len(server[cycle.folder].mail)

\* What people and jobs are given to do.
WorkTypes ==
    /\ contacts \subseteq DOMAIN Company
    /\ started \in [Messages -> {"nothing", "job", "review", "handled"}]
    /\ review = [m \in Messages |-> review[m]]
    /\ \A m \in Messages : /\ review[m] = [status |-> review[m].status, case |-> review[m].case]
                           /\ review[m].status \in {"none", "OPEN", "RESOLVED"}
                           /\ review[m].case \in {0, row[m].case}
                           /\ m \in Copies => review[m].case = 0

LEMMA ServerStays ==
    ASSUME MailInv, ServerTypes, faults' \in {faults, faults + 1}, faults' <= MaxFaults,
           \A f \in Folders : /\ server'[f].validity \in {server[f].validity, faults' + 1}
                              /\ Len(server'[f].mail) \in Nat
                              /\ Len(server[f].mail) <= Len(server'[f].mail)
                              /\ cursor'[f].cutoff = cursor[f].cutoff,
           cycle' = cycle \/ cycle'.pc # "save"
    PROVE  ServerTypes'
<1>1. faults \in Nat /\ MaxFaults \in Nat
  BY MailAssumption DEF ServerTypes
<1>2. \A f \in Folders : server[f].validity \in Nat /\ Len(server[f].mail) \in Nat
                         /\ cursor[f].cutoff \in Nat
  BY DEF MailInv, ServerInv, CursorInv, CursorRow
<1>3. faults' \in 0 .. MaxFaults
  BY <1>1
<1>4. ASSUME NEW f \in Folders
      PROVE  server'[f].validity <= faults' + 1 /\ cursor'[f].cutoff <= Len(server'[f].mail)
  <2>1. server[f].validity <= faults + 1 /\ cursor[f].cutoff <= Len(server[f].mail)
    BY DEF ServerTypes
  <2>2. server[f].validity \in Nat /\ Len(server[f].mail) \in Nat /\ cursor[f].cutoff \in Nat
    BY <1>2
  <2>3. server'[f].validity <= faults' + 1
    <3>1. faults' \in Nat /\ faults <= faults'
      BY <1>1
    <3>2. CASE server'[f].validity = server[f].validity
      BY <1>1, <2>1, <2>2, <3>1, <3>2
    <3>3. CASE server'[f].validity = faults' + 1
      BY <3>1, <3>3
    <3>4. QED BY <3>2, <3>3
  <2>4. cursor'[f].cutoff <= Len(server'[f].mail)
    BY <2>1, <2>2
  <2>5. QED BY <2>3, <2>4
<1>5. ASSUME cycle'.pc = "save" PROVE cycle'.highest <= Len(server'[cycle'.folder].mail)
  <2>1. cycle' = cycle /\ cycle.folder \in Folders /\ cycle.highest \in Nat
    BY <1>5 DEF MailInv, CycleInv, CycleRow
  <2>2. cycle.highest <= Len(server[cycle.folder].mail)
    BY <1>5, <2>1 DEF ServerTypes
  <2>3. cycle.highest <= Len(server'[cycle.folder].mail)
    BY <1>2, <2>1, <2>2
  <2>4. QED BY <2>1, <2>3
<1>6. QED BY <1>3, <1>4, <1>5 DEF ServerTypes

\* A step on the server's mail and the cursors that leaves both.
LEMMA ServerRests ==
    ASSUME MailInv, ServerTypes, UNCHANGED <<server, cursor, faults>>,
           cycle' = cycle \/ cycle'.pc # "save"
    PROVE  ServerTypes'
<1>1. \A f \in Folders : Len(server[f].mail) \in Nat
  BY DEF MailInv, ServerInv
<1>2. faults \in Nat /\ faults <= MaxFaults
  BY MailAssumption DEF ServerTypes
<1>3. QED BY <1>1, <1>2, ServerStays

LEMMA FaultCounted ==
    ASSUME MailInv, ServerTypes, UNCHANGED <<server, cursor>>, faults < MaxFaults,
           faults' = faults + 1, cycle' = cycle \/ cycle'.pc # "save"
    PROVE  ServerTypes'
<1>1. \A f \in Folders : Len(server[f].mail) \in Nat
  BY DEF MailInv, ServerInv
<1>2. faults \in Nat /\ MaxFaults \in Nat
  BY MailAssumption DEF ServerTypes
<1>3. faults' <= MaxFaults
  BY <1>2
<1>4. QED BY <1>1, <1>3, ServerStays

LEMMA FetchTypes == ASSUME MailInv, ServerTypes, Fetch PROVE ServerTypes'
<1> DEFINE f == cycle.folder
           after == SearchAfter(f)
           highest == Max({after, Len(server[f].mail)})
           wanted == Min({BatchSize, DailyLimit - used, highest - after})
<1>1. PICK n \in 0 .. wanted :
          /\ n = wanted \/ (n > 0 /\ faults < MaxFaults)
          /\ faults' = IF n = wanted THEN faults ELSE faults + 1
          /\ cycle' = [cycle EXCEPT !.pc = "save", !.validity = server[f].validity,
                         !.highest = highest, !.uid = after,
                         !.batch = SubSeq(server[f].mail, after + 1, after + n)]
  BY DEF Fetch
<1>2. /\ f \in Folders /\ server[f].mail \in Seq(Messages) /\ cycle \in CycleRow
      /\ cursor[f] \in CursorRow /\ cursor[f].last <= Len(server[f].mail)
  BY DEF MailInv, CycleInv, CycleRow, ServerInv, CursorInv
<1>3. after \in 0 .. Len(server[f].mail) /\ Len(server[f].mail) \in Nat
  BY <1>2 DEF SearchAfter, CursorRow
<1>4. highest = Len(server[f].mail)
  <2> HIDE DEF f, after
  <2>1. after \in Nat
    BY <1>3
  <2>2. highest \in {after, Len(server[f].mail)} /\ highest >= after /\ highest >= Len(server[f].mail)
    BY <1>3, <2>1, LargerOfTwo
  <2>3. QED BY <1>3, <2>2
<1> HIDE DEF after, highest, wanted
<1>5. cycle'.highest = highest /\ cycle'.folder = f
  BY <1>1, <1>2 DEF CycleRow
<1>6. faults' \in 0 .. MaxFaults /\ faults <= faults' /\ faults \in Nat /\ faults' \in Nat
  BY <1>1, MailAssumption DEF ServerTypes
<1>7. UNCHANGED <<server, cursor>>
  BY DEF Fetch
<1>8. ASSUME NEW g \in Folders
      PROVE  server'[g].validity <= faults' + 1 /\ cursor'[g].cutoff <= Len(server'[g].mail)
  <2>1. server[g].validity <= faults + 1 /\ cursor[g].cutoff <= Len(server[g].mail)
        /\ server[g].validity \in Nat
    BY DEF ServerTypes, MailInv, ServerInv
  <2>2. QED BY <1>6, <1>7, <2>1
<1>9. cycle'.highest <= Len(server'[cycle'.folder].mail)
  <2> HIDE DEF f
  <2>1. QED BY <1>3, <1>4, <1>5, <1>7
<1>10. QED BY <1>6, <1>8, <1>9 DEF ServerTypes

LEMMA SaveCursorTypes == ASSUME MailInv, ServerTypes, SaveCursor PROVE ServerTypes'
<1> DEFINE f == cycle.folder
<1>1. /\ f \in Folders /\ cycle \in CycleRow /\ cursor \in [Folders -> CursorRow]
      /\ cycle.highest <= Len(server[f].mail)
  BY DEF MailInv, CycleInv, CycleRow, CursorInv, SaveCursor, ServerTypes
<1>2. /\ UNCHANGED <<server, faults>> /\ cycle' = [cycle EXCEPT !.pc = "next"]
      /\ cursor' = IF cursor[f].validity = cycle.validity THEN cursor
                   ELSE [cursor EXCEPT ![f] = NewCursor]
  BY DEF SaveCursor
<1>3. cycle'.pc # "save"
  BY <1>1, <1>2 DEF CycleRow
<1>4. NewCursor.cutoff = cycle.highest
  BY DEF NewCursor
<1> HIDE DEF f
<1>5. ASSUME NEW g \in Folders
      PROVE  server'[g].validity <= faults' + 1 /\ cursor'[g].cutoff <= Len(server'[g].mail)
  <2>1. server[g].validity <= faults + 1 /\ cursor[g].cutoff <= Len(server[g].mail)
    BY DEF ServerTypes
  <2>2. cursor'[g] = cursor[g] \/ (g = f /\ cursor'[g] = NewCursor)
    BY <1>1, <1>2
  <2>3. QED BY <1>1, <1>2, <1>4, <2>1, <2>2
<1>6. faults' \in 0 .. MaxFaults
  BY <1>2 DEF ServerTypes
<1>7. QED BY <1>3, <1>5, <1>6 DEF ServerTypes

LEMMA PassesTypes == ASSUME MailInv, ServerTypes, Advance \/ EndFolder PROVE ServerTypes'
<1> DEFINE f == cycle.folder
<1>1. f \in Folders /\ cursor \in [Folders -> CursorRow] /\ cycle \in CycleRow
  BY DEF MailInv, CycleInv, CycleRow, CursorInv
<1>2. UNCHANGED <<server, faults>> /\ cycle'.pc # "save"
  <2>1. CASE Advance
    <3>1. ingest["poller"].pc # "idle" /\ cycle' = [cycle EXCEPT !.batch = Tail(@), !.uid = @ + 1]
      BY <2>1 DEF Advance
    <3>2. cycle.pc = "next"
      BY <3>1 DEF MailInv, PollerInv, FirstOfBatch
    <3>3. cycle'.pc = "next"
      BY <1>1, <3>1, <3>2 DEF CycleRow
    <3>4. QED BY <2>1, <3>3 DEF Advance
  <2>2. CASE EndFolder
    BY <1>1, <2>2, FolderIsDone DEF EndFolder
  <2>3. QED BY <2>1, <2>2
<1>3. \E r : cursor' = [cursor EXCEPT ![f] = r] /\ r.cutoff = cursor[f].cutoff
  <2>1. CASE Advance
    <3> DEFINE last == Max({cursor[f].last, cycle.uid + 1})
               moved == [cursor[f] EXCEPT !.last = last]
               done == Complete(moved)
               r == [moved EXCEPT !.complete = done]
    <3>1. cursor' = [cursor EXCEPT ![f] = r]
      BY <2>1 DEF Advance
    <3>2. r.cutoff = cursor[f].cutoff
      <4> HIDE DEF last, done
      <4>1. QED BY <1>1 DEF CursorRow
    <3> HIDE DEF r
    <3>3. QED BY <3>1, <3>2
  <2>2. CASE EndFolder
    <3> DEFINE done == Complete(cursor[f])
               r == [cursor[f] EXCEPT !.complete = done]
    <3>1. cursor' = [cursor EXCEPT ![f] = r]
      BY <2>2 DEF EndFolder
    <3>2. r.cutoff = cursor[f].cutoff
      <4> HIDE DEF done
      <4>1. QED BY <1>1 DEF CursorRow
    <3> HIDE DEF r
    <3>3. QED BY <3>1, <3>2
  <2>3. QED BY <2>1, <2>2
<1>4. \A g \in Folders : cursor'[g].cutoff = cursor[g].cutoff
  BY <1>1, <1>3
<1>5. \A g \in Folders : Len(server[g].mail) \in Nat
  BY DEF MailInv, ServerInv
<1>6. faults \in Nat /\ faults <= MaxFaults
  BY MailAssumption DEF ServerTypes
<1>7. QED BY <1>2, <1>4, <1>5, <1>6, ServerStays

LEMMA DeliverTypes == ASSUME MailInv, ServerTypes, NEW m \in Messages, Deliver(m) PROVE ServerTypes'
<1> DEFINE g == Mail[m].folder
<1>1. /\ g \in Folders /\ server \in [Folders -> [validity : Nat \ {0}, mail : Seq(Messages)]]
      /\ server' = [server EXCEPT ![g].mail = Append(@, m)]
      /\ UNCHANGED <<cursor, cycle, faults>>
  BY MailAssumption DEF Folders, Deliver, MailInv, ServerInv
<1> HIDE DEF g
<1>2. Append(server[g].mail, m) \in Seq(Messages)
      /\ Len(Append(server[g].mail, m)) = Len(server[g].mail) + 1
  BY <1>1, AppendProperties
<1>3. ASSUME NEW f \in Folders
      PROVE  /\ server'[f].validity = server[f].validity /\ Len(server'[f].mail) \in Nat
             /\ Len(server[f].mail) <= Len(server'[f].mail)
  <2>1. server[f].mail \in Seq(Messages) /\ Len(server[f].mail) \in Nat
    BY <1>1
  <2>2. CASE f = g
    <3>1. server'[f].mail = Append(server[f].mail, m) /\ server'[f].validity = server[f].validity
      BY <1>1, <2>2
    <3>2. QED BY <1>2, <2>1, <2>2, <3>1
  <2>3. CASE f # g
    <3>1. server'[f] = server[f]
      BY <1>1, <2>3
    <3>2. QED BY <2>1, <3>1
  <2>4. QED BY <2>2, <2>3
<1>4. faults \in Nat /\ faults <= MaxFaults
  BY MailAssumption DEF ServerTypes
<1>5. QED BY <1>1, <1>3, <1>4, ServerStays

LEMMA RenumberTypes == ASSUME MailInv, ServerTypes, NEW g \in Folders, Renumber(g) PROVE ServerTypes'
<1>1. /\ server \in [Folders -> [validity : Nat \ {0}, mail : Seq(Messages)]]
      /\ server' = [server EXCEPT ![g].validity = @ + 1]
      /\ faults < MaxFaults /\ faults' = faults + 1 /\ UNCHANGED <<cursor, cycle>>
  BY DEF Renumber, MailInv, ServerInv
<1>2. faults \in Nat /\ faults' \in 0 .. MaxFaults
  BY <1>1, MailAssumption DEF ServerTypes
<1>3. ASSUME NEW f \in Folders
      PROVE  server'[f].validity <= faults' + 1 /\ server'[f].mail = server[f].mail
  <2>1. server[f].validity \in Nat /\ server[f].validity <= faults + 1
    BY <1>1 DEF ServerTypes
  <2>2. /\ server'[f].mail = server[f].mail
        /\ server'[f].validity = IF f = g THEN server[f].validity + 1 ELSE server[f].validity
    BY <1>1
  <2>3. QED BY <1>1, <1>2, <2>1, <2>2
<1>4. \A f \in Folders : cursor'[f].cutoff <= Len(server'[f].mail)
  BY <1>1, <1>3 DEF ServerTypes
<1>5. cycle'.pc = "save" => cycle'.highest <= Len(server'[cycle'.folder].mail)
  <2>1. cycle.folder \in Folders
    BY DEF MailInv, CycleInv, CycleRow
  <2>2. QED BY <1>1, <1>3, <2>1 DEF ServerTypes
<1>6. QED BY <1>2, <1>3, <1>4, <1>5 DEF ServerTypes

LEMMA ServerKeeps == ASSUME MailInv, ServerTypes, [SyncNext]_syncVars PROVE ServerTypes'
<1>1. CASE \/ NewDay \/ UNCHANGED syncVars
           \/ \E i \in Ingesters : Ingest(i)
           \/ \E m \in Messages : \E decision \in Decisions : Decide(m, decision)
           \/ \E m \in Uploads : Upload(m)
  <2>1. UNCHANGED <<server, cursor, faults, cycle>>
    BY <1>1 DEF NewDay, syncVars, Decide, Upload, Ingest, Duplicate, FindCase, LockParent, Insert,
                Collide, FollowUp
  <2>2. QED BY <2>1, ServerRests
<1>2. CASE BeginCycle \/ BudgetSpent \/ FailAfterCollision \/ ReadHistory \/ Reconcile
  <2>1. UNCHANGED <<server, cursor, faults>>
    BY <1>2 DEF BeginCycle, BudgetSpent, FailAfterCollision, ReadHistory, Reconcile
  <2>2. cycle'.pc # "save"
    BY <1>2, FolderIsDone, NoCycleIsCycle
       DEF BeginCycle, BudgetSpent, FailAfterCollision, ReadHistory, Reconcile, MailInv, CycleInv,
           CycleRow
  <2>3. QED BY <2>1, <2>2, ServerRests
<1>3. CASE FolderFails \/ \E i \in Ingesters : Crash(i)
  <2>1. UNCHANGED <<server, cursor>> /\ faults < MaxFaults /\ faults' = faults + 1
    BY <1>3 DEF FolderFails, Crash
  <2>2. cycle' = cycle \/ cycle'.pc # "save"
    BY <1>3, FolderIsDone, NoCycleIsCycle DEF FolderFails, Crash, MailInv, CycleInv
  <2>3. QED BY <2>1, <2>2, FaultCounted
<1>4. CASE \E m \in Messages : Deliver(m)
  BY <1>4, DeliverTypes
<1>5. CASE \E f \in Folders : Renumber(f)
  BY <1>5, RenumberTypes
<1>6. CASE Fetch \/ SaveCursor \/ Advance \/ EndFolder
  BY <1>6, FetchTypes, SaveCursorTypes, PassesTypes
<1>7. QED BY <1>1, <1>2, <1>3, <1>4, <1>5, <1>6 DEF SyncNext, Poll

-----------------------------------------------------------------------------
(* An email keeps its case *)

LEMMA CaseStays ==
    ASSUME MailInv, FiledInv, PlanInv, [SyncNext]_syncVars
    PROVE  \A m \in Messages \ Copies : row[m].case # 0 => row'[m].case = row[m].case
<1>1. CASE UNCHANGED row
  BY <1>1
<1>2. ASSUME NEW i \in Ingesters, Insert(i), NEW m \in Messages, row[m].case # 0
      PROVE  row'[m].case = row[m].case
  <2>1. m # ingest[i].message /\ ~Promotes(ingest[i], m)
    BY <1>2, RowsInserted DEF FiledInv, Promotes
  <2>2. QED BY <1>2, <2>1, RowsInserted
<1>3. ASSUME Reconcile, NEW m \in Messages \ Copies, row[m].case # 0
      PROVE  row'[m].case = row[m].case
  <2>1. row'[m].case = IF m \in DOMAIN plan.case /\ plan.case[m] # 0
                       THEN plan.case[m] ELSE row[m].case
    BY <1>3, RowsRelinked
  <2>2. QED BY <1>3, <2>1 DEF PlanInv
<1>4. UNCHANGED row \/ Reconcile \/ \E i \in Ingesters : Insert(i)
  <2>1. CASE Poll
    BY <2>1 DEF Poll, BeginCycle, BudgetSpent, Fetch, SaveCursor, Advance, EndFolder, ReadHistory,
                FailAfterCollision
  <2>2. CASE FolderFails \/ NewDay \/ UNCHANGED syncVars
    BY <2>2 DEF FolderFails, NewDay, syncVars
  <2>3. ASSUME NEW i \in Ingesters, Ingest(i) \/ Crash(i) PROVE UNCHANGED row \/ Insert(i)
    BY <2>3 DEF Ingest, Crash, Duplicate, FindCase, LockParent, Collide, FollowUp
  <2>4. ASSUME NEW m \in Messages, Deliver(m) \/ \E decision \in Decisions : Decide(m, decision)
        PROVE  UNCHANGED row
    BY <2>4 DEF Deliver, Decide
  <2>5. CASE (\E m \in Uploads : Upload(m)) \/ \E f \in Folders : Renumber(f)
    BY <2>5 DEF Upload, Renumber
  <2>6. QED BY <2>1, <2>2, <2>3, <2>4, <2>5 DEF SyncNext
<1>5. QED BY <1>1, <1>2, <1>3, <1>4

-----------------------------------------------------------------------------
(* What is given to do *)

LEMMA ReviewAs ==
    ASSUME NEW m \in Messages, WorkTypes, NEW status \in {"none", "OPEN", "RESOLVED"}, NEW r,
           r = [review[m] EXCEPT !.status = status]
    PROVE  r = [status |-> status, case |-> review[m].case]
<1>1. review[m] = [status |-> review[m].status, case |-> review[m].case]
  BY DEF WorkTypes
<1>2. QED BY ONLY <1>1, r = [review[m] EXCEPT !.status = status]

\* A step that leaves the reviews, or changes the status of one.
LEMMA ReviewsStay ==
    ASSUME MailInv, FiledInv, PlanInv, WorkTypes, [SyncNext]_syncVars,
           contacts' \subseteq DOMAIN Company,
           started' \in [Messages -> {"nothing", "job", "review", "handled"}],
           \/ UNCHANGED review
           \/ \E m \in Messages : \E status \in {"OPEN", "RESOLVED"} :
                 review' = [review EXCEPT ![m].status = status]
    PROVE  WorkTypes'
<1>1. \A m \in Messages \ Copies : row[m].case # 0 => row'[m].case = row[m].case
  BY CaseStays
<1>2. review = [m \in Messages |-> review[m]]
  BY DEF WorkTypes
<1>3. \A m \in Messages : /\ review[m] = [status |-> review[m].status, case |-> review[m].case]
                          /\ review[m].status \in {"none", "OPEN", "RESOLVED"}
                          /\ review[m].case \in {0, row[m].case}
                          /\ m \in Copies => review[m].case = 0
  BY DEF WorkTypes
<1>4. CASE UNCHANGED review
  <2>1. \A m \in Messages : review[m].case \in {0, row'[m].case}
    BY <1>1, <1>3
  <2>2. QED BY <1>2, <1>3, <1>4, <2>1 DEF WorkTypes, Copies, Inbound
<1>5. ASSUME NEW m \in Messages, NEW status \in {"OPEN", "RESOLVED"},
             review' = [review EXCEPT ![m].status = status]
      PROVE  WorkTypes'
  <2> DEFINE r == [review[m] EXCEPT !.status = status]
  <2>1. review' = [review EXCEPT ![m] = r]
    BY <1>5
  <2>2. r = [status |-> status, case |-> review[m].case]
    BY ReviewAs
  <2> HIDE DEF r
  <2>3. review' = [n \in Messages |-> review'[n]] /\ \A n \in Messages : review'[n] = IF n = m THEN r ELSE review[n]
    BY <1>2, <2>1
  <2>4. ASSUME NEW n \in Messages
        PROVE  /\ review'[n] = [status |-> review'[n].status, case |-> review'[n].case]
               /\ review'[n].status \in {"none", "OPEN", "RESOLVED"}
               /\ review'[n].case \in {0, row'[n].case}
               /\ n \in Copies => review'[n].case = 0
    <3>1. review'[n].case = review[n].case
      BY <2>2, <2>3
    <3>2. review'[n].case \in {0, row'[n].case}
      BY <1>1, <1>3, <3>1
    <3>3. CASE n = m
      <4>1. n \in Copies => review'[n].case = 0
        BY <1>3, <3>1
      <4>2. review'[n] = [status |-> status, case |-> review[m].case]
        BY <2>2, <2>3, <3>3
      <4>3. QED BY <3>2, <4>1, <4>2
    <3>4. CASE n # m
      BY <1>3, <2>3, <3>2, <3>4
    <3>5. QED BY <3>3, <3>4
  <2>5. QED BY <2>3, <2>4 DEF WorkTypes, Copies, Inbound
<1>6. QED BY <1>4, <1>5

LEMMA InsertWork ==
    ASSUME MailInv, FiledInv, PlanInv, WorkTypes, [SyncNext]_syncVars, NEW i \in Ingesters, Insert(i)
    PROVE  WorkTypes'
<1>1. ingest[i].message \in Messages
  BY DEF Insert, MailInv, TableInv, Session
<1>2. Mail[ingest[i].message].party \in DOMAIN Company
  BY <1>1, MailAssumption
<1>3. contacts' \in {contacts, contacts \cup {Mail[ingest[i].message].party}}
      /\ UNCHANGED <<started, review>>
  BY DEF Insert
<1>4. contacts' \subseteq DOMAIN Company
  BY <1>2, <1>3 DEF WorkTypes
<1>5. started' \in [Messages -> {"nothing", "job", "review", "handled"}]
  BY <1>3 DEF WorkTypes
<1>6. QED BY <1>3, <1>4, <1>5, ReviewsStay

LEMMA FollowUpWork ==
    ASSUME MailInv, FiledInv, PlanInv, WorkTypes, [SyncNext]_syncVars, NEW i \in Ingesters, FollowUp(i)
    PROVE  WorkTypes'
<1> DEFINE m == ingest[i].message
           over == Mail[m].kind # "bounce" /\ (Mail[m].disposed \/ Mail[m].kind = "system")
           job == Mail[m].kind = "bounce" \/ (~over /\ row[m].case # 0)
           what == IF over THEN "handled" ELSE IF job THEN "job" ELSE "review"
<1>1. m \in Messages /\ UNCHANGED contacts
  BY DEF FollowUp, MailInv, TableInv, Session
<1>2. /\ started' = [started EXCEPT ![m] = IF @ # "nothing" THEN @ ELSE what]
      /\ what \in {"handled", "job", "review"}
  BY DEF FollowUp
<1>3. review' = review \/ review' = [review EXCEPT ![m].status = "OPEN"]
  BY DEF FollowUp
<1> HIDE DEF m, what
<1>4. started' \in [Messages -> {"nothing", "job", "review", "handled"}]
  BY <1>1, <1>2 DEF WorkTypes
<1>5. contacts' \subseteq DOMAIN Company
  BY <1>1 DEF WorkTypes
<1>6. QED BY <1>1, <1>3, <1>4, <1>5, ReviewsStay

LEMMA DecideWork ==
    ASSUME MailInv, FiledInv, PlanInv, WorkTypes, [SyncNext]_syncVars, NEW m \in Messages,
           NEW decision, Decide(m, decision)
    PROVE  WorkTypes'
<1>1. review' = review \/ review' = [review EXCEPT ![m].status = "RESOLVED"]
  BY DEF Decide
<1>2. UNCHANGED <<contacts, started>>
  BY DEF Decide
<1>3. contacts' \subseteq DOMAIN Company /\ started' \in [Messages -> {"nothing", "job", "review", "handled"}]
  BY <1>2 DEF WorkTypes
<1>4. QED BY <1>1, <1>3, ReviewsStay

LEMMA ReconcileWork ==
    ASSUME MailInv, FiledInv, PlanInv, PlanFiled, WorkTypes, [SyncNext]_syncVars, Reconcile
    PROVE  WorkTypes'
<1>1. /\ review' = [m \in Messages |->
                      IF m \in plan.waiting /\ review[m].status = "none"
                      THEN [status |-> "OPEN", case |-> plan.case[m]] ELSE review[m]]
      /\ UNCHANGED <<contacts, started>>
  BY DEF Reconcile
<1>2. review' = [m \in Messages |-> review'[m]]
  BY <1>1
<1>3. 0 \notin Messages
  <2>1. Cardinality(Messages) \in Nat /\ Messages = 1 .. Cardinality(Messages)
    BY MailAssumption, FS_CardinalityType
  <2> DEFINE n == Cardinality(Messages)
  <2> HIDE DEF n
  <2>2. n \in Nat /\ Messages = 1 .. n
    BY <2>1 DEF n
  <2>3. QED BY <2>2
<1>4. ASSUME NEW m \in Messages
      PROVE  /\ review'[m] = [status |-> review'[m].status, case |-> review'[m].case]
             /\ review'[m].status \in {"none", "OPEN", "RESOLVED"}
             /\ review'[m].case \in {0, row'[m].case}
             /\ m \in Copies => review'[m].case = 0
  <2>1. /\ review[m] = [status |-> review[m].status, case |-> review[m].case]
        /\ review[m].status \in {"none", "OPEN", "RESOLVED"}
        /\ review[m].case \in {0, row[m].case}
        /\ m \in Copies => review[m].case = 0
    BY DEF WorkTypes
  <2>2. CASE m \in plan.waiting /\ review[m].status = "none"
    <3>1. review'[m] = [status |-> "OPEN", case |-> plan.case[m]]
      BY <1>1, <2>2
    <3>2. m \in DOMAIN plan.case /\ Inbound(m)
      BY <1>3, <2>2 DEF PlanFiled
    <3>3. row'[m].case = IF plan.case[m] # 0 THEN plan.case[m] ELSE row[m].case
      BY <3>2, RowsRelinked
    <3>4. m \notin Copies
      BY <3>2 DEF Copies
    <3>5. QED BY <3>1, <3>3, <3>4
  <2>3. CASE ~(m \in plan.waiting /\ review[m].status = "none")
    <3>1. review'[m] = review[m]
      BY <1>1, <2>3
    <3>2. m \notin Copies /\ row[m].case # 0 => row'[m].case = row[m].case
      BY CaseStays
    <3>3. QED BY <2>1, <3>1, <3>2
  <2>4. QED BY <2>2, <2>3
<1>5. contacts' \subseteq DOMAIN Company /\ started' \in [Messages -> {"nothing", "job", "review", "handled"}]
  BY <1>1 DEF WorkTypes
<1>6. QED BY <1>2, <1>4, <1>5 DEF WorkTypes, Copies, Inbound

LEMMA WorkKeeps ==
    ASSUME MailInv, FiledInv, PlanInv, PlanFiled, WorkTypes, [SyncNext]_syncVars PROVE WorkTypes'
<1>1. CASE UNCHANGED <<contacts, started, review>>
  <2>1. contacts' \subseteq DOMAIN Company /\ started' \in [Messages -> {"nothing", "job", "review", "handled"}]
    BY <1>1 DEF WorkTypes
  <2>2. QED BY <1>1, <2>1, ReviewsStay
<1>2. \/ UNCHANGED <<contacts, started, review>> \/ Reconcile
      \/ \E i \in Ingesters : Insert(i) \/ FollowUp(i)
      \/ \E m \in Messages : \E decision \in Decisions : Decide(m, decision)
  <2>1. CASE Poll
    BY <2>1 DEF Poll, BeginCycle, BudgetSpent, Fetch, SaveCursor, Advance, EndFolder, ReadHistory,
                FailAfterCollision
  <2>2. CASE FolderFails \/ NewDay \/ UNCHANGED syncVars
    BY <2>2 DEF FolderFails, NewDay, syncVars
  <2>3. ASSUME NEW i \in Ingesters, Ingest(i) \/ Crash(i)
        PROVE  UNCHANGED <<contacts, started, review>> \/ Insert(i) \/ FollowUp(i)
    BY <2>3 DEF Ingest, Crash, Duplicate, FindCase, LockParent, Collide
  <2>4. ASSUME NEW m \in Messages, Deliver(m) PROVE UNCHANGED <<contacts, started, review>>
    BY <2>4 DEF Deliver
  <2>5. CASE (\E m \in Uploads : Upload(m)) \/ \E f \in Folders : Renumber(f)
    BY <2>5 DEF Upload, Renumber
  <2>6. QED BY <2>1, <2>2, <2>3, <2>4, <2>5 DEF SyncNext
<1>3. QED BY <1>1, <1>2, InsertWork, FollowUpWork, DecideWork, ReconcileWork

-----------------------------------------------------------------------------
(* The theorems *)

SyncInv ==
    /\ MailInv /\ CaseInv /\ FiledInv /\ PlanInv /\ PlanFiled /\ ServerTypes /\ WorkTypes

LEMMA SyncStarts == SyncInit => SyncInv
<1> SUFFICES ASSUME SyncInit PROVE SyncInv
  OBVIOUS
<1>1. ServerTypes
  <2>1. Len(<< >>) = 0 /\ MaxFaults \in Nat
    BY MailAssumption
  <2>2. QED BY <2>1 DEF SyncInit, ServerTypes, NoCursor, NoCycle
<1>2. contacts \subseteq DOMAIN Company
  BY MailAssumption DEF SyncInit
<1>3. WorkTypes
  BY <1>2 DEF SyncInit, WorkTypes
<1>4. CaseInv
  BY DEF SyncInit, CaseInv, Resting, AsMatched, HoldsCampaign, OneCasePerCampaign, Stored, NoRow
<1>5. PlanInv /\ PlanFiled
  BY DEF SyncInit, NoPlan, PlanInv, PlanFiled
<1>6. QED BY <1>1, <1>3, <1>4, <1>5, MailStarts, FiledStarts DEF SyncInv

LEMMA SyncHolds == SyncSpec => []SyncInv
<1>1. SyncInit => SyncInv
  BY SyncStarts
<1>2. SyncInv /\ [SyncNext]_syncVars => SyncInv'
  BY MailKeeps, CaseKeeps, FilesKeep, PlanKeeps, ServerKeeps, WorkKeeps DEF SyncInv
<1>3. QED BY <1>1, <1>2, PTL DEF SyncSpec

\* Cursors stay within the folders' mail and its numberings, the download budget within its
\* limit, and the cases of emails, reviews and the campaign are rows of the table.
THEOREM MailboxTypes == SyncSpec => []SyncTypeOK
<1>1. SyncInv => SyncTypeOK
  <2> SUFFICES ASSUME SyncInv PROVE SyncTypeOK
    OBVIOUS
  <2>1. ASSUME NEW f \in Folders
        PROVE  /\ server[f].validity \in 1 .. MaxFaults + 1
               /\ cursor[f].validity \in 0 .. server[f].validity
               /\ cursor[f].last \in 0 .. Len(server[f].mail)
               /\ cursor[f].cutoff \in 0 .. Len(server[f].mail)
    <3>1. /\ server[f].validity \in Nat \ {0} /\ Len(server[f].mail) \in Nat
          /\ cursor[f] \in CursorRow /\ cursor[f].validity <= server[f].validity
          /\ cursor[f].last <= Len(server[f].mail)
      BY DEF SyncInv, MailInv, ServerInv, CursorInv
    <3>2. /\ faults \in 0 .. MaxFaults /\ server[f].validity <= faults + 1
          /\ cursor[f].cutoff <= Len(server[f].mail)
      BY DEF SyncInv, ServerTypes
    <3>3. QED BY <3>1, <3>2, MailAssumption DEF CursorRow
  <2>2. used \in 0 .. DailyLimit
    BY DEF SyncInv, MailInv, CycleInv
  <2>3. ASSUME NEW m \in Messages
        PROVE  /\ row[m].case \in 0 .. Len(cases)
               /\ started[m] \in {"nothing", "job", "review", "handled"}
               /\ review[m].status \in {"none", "OPEN", "RESOLVED"}
    BY DEF SyncInv, FiledInv, Filed, WorkTypes
  <2>4. campaign.case \in 0 .. Len(cases) /\ contacts \subseteq DOMAIN Company
    BY DEF SyncInv, FiledInv, WorkTypes
  <2>5. QED BY <2>1, <2>2, <2>3, <2>4 DEF SyncTypeOK
<1>2. QED BY <1>1, SyncHolds, PTL

\* However the poller, an upload, crashes and the reconciliation of old mail overlap, every
\* plain answer that was ingested live and has a case has one that the campaign's message
\* bears: the campaign's row is locked from the look at it to the commit, and the
\* reconciliation takes from the Sent folder's copy no case but the campaign's own.
THEOREM CampaignsHaveOneCase == SyncSpec => []OneCasePerCampaign
<1>1. SyncInv => OneCasePerCampaign
  BY DEF SyncInv, CaseInv
<1>2. QED BY <1>1, SyncHolds, PTL

\* An email is in a case of its own party, unless it is a report that a delivery failed or
\* the copy of the campaign's message, which is in the case of whoever answered, and a
\* review that names a case names the one of its email.
FiledWithItsParty ==
    \A m \in Stored \ Copies :
        row[m].case # 0 /\ Mail[m].bounces = 0 => cases[row[m].case].contact = Mail[m].party
ReviewsNameTheCase ==
    \A m \in Messages : review[m].case # 0 => review[m].case = row[m].case

\* Whichever way an email found its case (by the headers, as a new inquiry, as the answer to
\* a campaign or among old mail), and although a case may have been opened between the two
\* transactions that ingest it, it never joins the case of another party.
THEOREM NobodyElsesCase == SyncSpec => [](FiledWithItsParty /\ ReviewsNameTheCase)
<1>1. SyncInv => FiledWithItsParty /\ ReviewsNameTheCase
  <2> SUFFICES ASSUME SyncInv PROVE FiledWithItsParty /\ ReviewsNameTheCase
    OBVIOUS
  <2>1. ASSUME NEW m \in Stored \ Copies, row[m].case # 0, Mail[m].bounces = 0
        PROVE  cases[row[m].case].contact = Mail[m].party
    BY <2>1 DEF SyncInv, FiledInv, Filed, Theirs, Stored
  <2>2. ReviewsNameTheCase
    BY DEF SyncInv, WorkTypes, ReviewsNameTheCase
  <2>3. QED BY <2>1, <2>2 DEF FiledWithItsParty
<1>2. QED BY <1>1, SyncHolds, PTL

\* An email that has a case keeps it: neither a second ingestion nor the reconciliation of
\* old mail, which writes what it read before others committed and may run many times,
\* moves it; except the Sent folder's copy of the campaign's message, which the
\* reconciliation may move when an answer promoted the campaign in between.
THEOREM CasesAreKept ==
    SyncSpec => [][\A m \in Messages \ Copies :
                       row[m].case # 0 => row'[m].case = row[m].case]_syncVars
<1>1. SyncInv /\ [SyncNext]_syncVars =>
          [\A m \in Messages \ Copies : row[m].case # 0 => row'[m].case = row[m].case]_syncVars
  BY CaseStays DEF SyncInv
<1>2. QED BY <1>1, SyncHolds, PTL DEF SyncSpec
=============================================================================
