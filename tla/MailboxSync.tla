----------------------------- MODULE MailboxSync -----------------------------
(***************************************************************************)
(* How Gmail becomes rows: the IMAP poller (imap_poller.py), the ingestion *)
(* of one email (inbound/email_ingestion.py with                           *)
(* inbound/reactivation_threading.py), what is started for it              *)
(* (inbound/inbound_followup.py) and the reconciliation of old mail        *)
(* (history.py).  The poller ("poller") and an administrator's upload of   *)
(* the same message (POST /admin/demo/inbound, "upload") ingest            *)
(* concurrently; people decide the reviews this opens.                     *)
(*                                                                         *)
(* Messages are numbered by the date they were sent.  Every action up to a *)
(* commit or a lock that another transaction may hold is one action; the   *)
(* duplicate query and the header match of one message are one action,     *)
(* since whatever commits between them is either another message, and so   *)
(* could have come first, or the same message, and the insert collides.    *)
(***************************************************************************)
EXTENDS InquiryRules, Functions, FiniteSetsExt, SequencesExt

CONSTANTS
  Messages,      \* 1..n, in the order of their dates
  Mail,          \* [Messages -> what the rules read, its folder, threading and kind]
  Thread, Campaign, NoHeader,  \* what an email may answer besides another one
  Uploads,       \* the messages an administrator may also upload
  Barred,        \* the parties that are suppressed or of another customer
  Recipient,     \* the contact a case-less campaign message was delivered to
  FirstCase,     \* the record of case 1, which has messages of its own (Thread)
  BatchSize,     \* imap_batch_size
  DailyLimit,    \* imap_daily_download_limit_mb, in messages
  Decisions,     \* what people may decide about a review
  MaxFaults      \* bound: failed folders, cut connections, crashes and
                 \* changes of a folder's UIDVALIDITY

\* The columns of a case that the rules read.
IsCase(r) == r = [contact |-> r.contact, product |-> r.product, category |-> r.category,
                  currency |-> r.currency, subject |-> r.subject, status |-> r.status]

ASSUME MailAssumption ==
  /\ IsFiniteSet(Messages) /\ Messages = 1 .. Cardinality(Messages)
  /\ \A m \in Messages : /\ Mail[m].folder \in {"sent", "inbox"} /\ Mail[m].bounces \in {0, 1}
                         /\ Mail[m].kind = "human" => Mail[m].bounces = 0
                         /\ Mail[m].copyOf \in {Thread, Campaign, NoHeader}
  /\ Campaign \notin Messages /\ Campaign \notin {Thread, NoHeader}
  /\ Uploads \subseteq Messages
  /\ BatchSize \in Nat \ {0} /\ DailyLimit \in Nat \ {0} /\ MaxFaults \in Nat
  /\ IsCase(FirstCase)
  /\ {Recipient, FirstCase.contact} \cup {Mail[m].party : m \in Messages} \subseteq DOMAIN Company

Folders == {"sent", "inbox"}
Ingesters == {"poller", "upload"}
NoCursor == [validity |-> 0, last |-> 0, cutoff |-> 0, complete |-> FALSE]
NoRow == [stored |-> FALSE, history |-> FALSE, case |-> 0]
Resting == [pc |-> "idle", message |-> 0, history |-> FALSE, case |-> 0, opens |-> {}]
PollOrder == <<"sent", "inbox">>
NoCycle == [pc |-> "idle", folder |-> PollOrder[1], validity |-> 0, highest |-> 0,
            batch |-> <<>>, uid |-> 0, succeeded |-> FALSE]
NoPlan == [case |-> <<>>, status |-> <<>>, waiting |-> {}]

VARIABLES
  server,     \* per folder: its UIDVALIDITY and its mail; a UID is a position
  cursor,     \* MailboxCursor
  used,       \* MailboxDailyUsage of today
  row,        \* EmailMessage: whether stored, is_history, case_id
  cases,      \* SalesCase
  contacts,   \* the parties that are contacts
  campaign,   \* the campaign message: its Outbox.case_id and its recipient's status
  started,    \* what was started for an email: nothing, a job, a review, or handled
  review,     \* Handoff by source email: status and case_id
  ingest,     \* what each ingester has read
  cycle,      \* the poller's polling cycle
  plan,       \* what its reconciliation of old mail found and will write
  faults

syncVars == <<server, cursor, used, row, cases, contacts, campaign, started, review,
          ingest, cycle, plan, faults>>

SyncInit ==
  /\ server = [f \in Folders |-> [validity |-> 1, mail |-> <<>>]]
  /\ cursor = [f \in Folders |-> NoCursor]
  /\ used = 0
  /\ row = [m \in Messages |-> NoRow]
  /\ cases = <<FirstCase>>
  /\ contacts = {Recipient, FirstCase.contact}
  /\ campaign = [case |-> 0, status |-> "SENT"]
  /\ started = [m \in Messages |-> "nothing"]
  /\ review = [m \in Messages |-> [status |-> "none", case |-> 0]]
  /\ ingest = [i \in Ingesters |-> Resting]
  /\ cycle = NoCycle
  /\ plan = NoPlan
  /\ faults = 0

OnServer == UNION {Range(server[f].mail) : f \in Folders}
Stored == {m \in Messages : row[m].stored}
Inbound(m) == Mail[m].folder = "inbox"
Personnel(m) == Mail[m].kind = "personnel"
Human(m) == Mail[m].kind \in {"human", "personnel"}
Headers(m) == {Mail[m].replyTo} \cup Mail[m].references

\* The Sent folder's copy of the campaign message bears its Message-ID: an
\* answer to the campaign answers its copy too, and the copy is linked by
\* its own Message-ID as an answer is by its headers.
Copies == {m \in Messages : Mail[m].copyOf = Campaign /\ ~Inbound(m)}
Parents(m) == (Headers(m) \cap Messages) \cup (IF Campaign \in Headers(m) THEN Copies ELSE {})
Names(m) == Headers(m) \cup (IF Inbound(m) THEN {} ELSE {Mail[m].copyOf})

----------------------------------------------------------------------------
(* The world outside: mail is delivered (in the order of its dates within  *)
(* a folder, an answer after what it answers), the server renumbers a      *)
(* folder, a day passes.                                                   *)

Deliver(m) ==
  /\ m \notin OnServer
  /\ {n \in Messages : n < m /\ Mail[n].folder = Mail[m].folder} \subseteq OnServer
  /\ Headers(m) \cap Messages \subseteq OnServer
  /\ server' = [server EXCEPT ![Mail[m].folder].mail = Append(@, m)]
  /\ UNCHANGED <<cursor, used, row, cases, contacts, campaign, started, review,
                 ingest, cycle, plan, faults>>

Renumber(f) ==
  /\ faults < MaxFaults
  /\ faults' = faults + 1
  /\ server' = [server EXCEPT ![f].validity = @ + 1]
  /\ UNCHANGED <<cursor, used, row, cases, contacts, campaign, started, review,
                 ingest, cycle, plan>>

NewDay ==
  /\ used > 0
  /\ used' = 0
  /\ UNCHANGED <<server, cursor, row, cases, contacts, campaign, started, review,
                 ingest, cycle, plan, faults>>

----------------------------------------------------------------------------
(* Polling one folder.                                                     *)

BeginCycle ==
  /\ cycle.pc = "idle"
  /\ cycle' = [NoCycle EXCEPT !.pc = "fetch"]
  /\ UNCHANGED <<server, cursor, used, row, cases, contacts, campaign, started, review,
                 ingest, plan, faults>>

\* Mutant: a folder that fails ends the poller.
FolderDoneOrDead(ok) ==
  LET after == [cycle EXCEPT !.succeeded = @ \/ ok, !.batch = <<>>]
  IN  IF ~ok THEN [NoCycle EXCEPT !.pc = "dead"]
      ELSE IF cycle.folder = PollOrder[1] THEN [after EXCEPT !.folder = PollOrder[2], !.pc = "fetch"]
      ELSE [after EXCEPT !.pc = "reconcile"]

\* The next folder, or the end of the cycle.
FolderDone(ok) ==
  LET after == [cycle EXCEPT !.succeeded = @ \/ ok, !.batch = <<>>]
  IN  IF cycle.folder = PollOrder[1] THEN [after EXCEPT !.folder = PollOrder[2], !.pc = "fetch"]
      ELSE IF after.succeeded THEN [after EXCEPT !.pc = "reconcile"]
      ELSE NoCycle

\* The UIDs fetch_after asks for: all of them once the folder is renumbered.
SearchAfter(f) ==
  IF cursor[f].validity \notin {0, server[f].validity} THEN 0 ELSE cursor[f].last

BudgetSpent ==
  /\ cycle.pc = "fetch"
  /\ used >= DailyLimit
  /\ cycle' = FolderDone(TRUE)
  /\ UNCHANGED <<server, cursor, used, row, cases, contacts, campaign, started, review,
                 ingest, plan, faults>>

\* fetch_after returns the batch, cut by the download budget or, when the
\* connection keeps failing, after the messages it already has.
Fetch ==
  /\ cycle.pc = "fetch"
  /\ used < DailyLimit
  /\ LET f == cycle.folder
         after == SearchAfter(f)
         highest == Max({after, Len(server[f].mail)})
         wanted == Min({BatchSize, DailyLimit - used, highest - after})
     IN  \E n \in 0 .. wanted :
           /\ n = wanted \/ (n > 0 /\ faults < MaxFaults)
           /\ faults' = IF n = wanted THEN faults ELSE faults + 1
           /\ used' = used + n
           /\ cycle' = [cycle EXCEPT !.pc = "save", !.validity = server[f].validity,
                          !.highest = highest, !.uid = after,
                          !.batch = SubSeq(server[f].mail, after + 1, after + n)]
  /\ UNCHANGED <<server, cursor, row, cases, contacts, campaign, started, review,
                 ingest, plan>>

\* The cursor of a folder seen for the first time, or renumbered.
NewCursor == [validity |-> cycle.validity, last |-> 0, cutoff |-> cycle.highest,
              complete |-> cycle.highest = 0]

SaveCursor ==
  /\ cycle.pc = "save"
  /\ cursor' = IF cursor[cycle.folder].validity = cycle.validity THEN cursor
               ELSE [cursor EXCEPT ![cycle.folder] = NewCursor]
  /\ cycle' = [cycle EXCEPT !.pc = "next"]
  /\ UNCHANGED <<server, used, row, cases, contacts, campaign, started, review,
                 ingest, plan, faults>>

IsHistory(f, uid) == ~cursor[f].complete /\ uid <= cursor[f].cutoff

\* What the poller is about to ingest is read from its batch: only the
\* steps of ingest_raw_email itself are steps of the model.
Ingesting(i) ==
  IF i = "poller" /\ ingest[i].pc = "idle" /\ cycle.pc = "next" /\ cycle.batch # <<>>
  THEN [Resting EXCEPT !.pc = "check", !.message = Head(cycle.batch),
                       !.history = IsHistory(cycle.folder, cycle.uid + 1)]
  ELSE ingest[i]

Complete(c) == c.complete \/ c.last >= c.cutoff

\* The transaction after the message: the cursor passes it.
Advance ==
  /\ ingest["poller"].pc = "done"
  /\ LET last == Max({cursor[cycle.folder].last, cycle.uid + 1})
         moved == [cursor[cycle.folder] EXCEPT !.last = last]
     IN  cursor' = [cursor EXCEPT ![cycle.folder] = [moved EXCEPT !.complete = Complete(moved)]]
  /\ cycle' = [cycle EXCEPT !.batch = Tail(@), !.uid = @ + 1]
  /\ ingest' = [ingest EXCEPT !["poller"] = Resting]
  /\ UNCHANGED <<server, used, row, cases, contacts, campaign, started, review,
                 plan, faults>>

EndFolder ==
  /\ cycle.pc = "next"
  /\ cycle.batch = <<>>
  /\ cursor' = [cursor EXCEPT ![cycle.folder].complete = Complete(cursor[cycle.folder])]
  /\ cycle' = FolderDone(TRUE)
  /\ UNCHANGED <<server, used, row, cases, contacts, campaign, started, review,
                 ingest, plan, faults>>

\* The connection, or the ingestion of a message, fails: poll_once notes it
\* and goes on with the next folder.
FolderFails ==
  /\ cycle.pc = "fetch" \/ ingest["poller"].pc # "idle"
  /\ faults < MaxFaults
  /\ faults' = faults + 1
  /\ cycle' = FolderDone(FALSE)
  /\ ingest' = [ingest EXCEPT !["poller"] = Resting]
  /\ UNCHANGED <<server, cursor, used, row, cases, contacts, campaign, started, review, plan>>

Crash(i) ==
  /\ faults < MaxFaults
  /\ IF i = "poller" THEN cycle.pc # "idle" ELSE ingest[i].pc # "idle"
  /\ faults' = faults + 1
  /\ cycle' = IF i = "poller" THEN NoCycle ELSE cycle
  /\ plan' = IF i = "poller" THEN NoPlan ELSE plan
  /\ ingest' = [ingest EXCEPT ![i] = Resting]
  /\ UNCHANGED <<server, cursor, used, row, cases, contacts, campaign, started, review>>

----------------------------------------------------------------------------
(* The ingestion of one message.                                           *)

\* An upload of an email that something was started for changes nothing.
Upload(m) ==
  /\ ingest["upload"].pc = "idle"
  /\ started[m] = "nothing"
  /\ ingest' = [ingest EXCEPT !["upload"] = [Resting EXCEPT !.pc = "check", !.message = m]]
  /\ UNCHANGED <<server, cursor, used, row, cases, contacts, campaign, started, review,
                 cycle, plan, faults>>

\* The cases of the messages this one answers.  (Mail[m].bounces is the
\* case of the delivered message that a bounce reports, else 0.)
Linked(m) ==
  ({row[p].case : p \in Parents(m) \cap Stored}
     \cup (IF Thread \in Names(m) THEN {1} ELSE {})
     \cup (IF Campaign \in Names(m) THEN {campaign.case} ELSE {})) \ {0}

Live(i) == Inbound(Ingesting(i).message) /\ ~Ingesting(i).history
LiveHuman(i) == Live(i) /\ Human(Ingesting(i).message)

HeaderMatch(m, fallback) ==
  IF Mail[m].kind = "system" THEN [case |-> 0, ambiguous |-> FALSE]
  ELSE Match(Mail[m], Linked(m), cases, fallback)

\* Cases with mail of the last days: every message here is recent.
Recent == {row[m].case : m \in Stored} \ {0}

\* The request of an upload ends with its ingestion, the poller goes on.
Goes(i, pc) ==
  ingest' = [ingest EXCEPT ![i] = IF i = "upload" /\ pc \in {"done", "collided"} THEN Resting
                                  ELSE [Ingesting(i) EXCEPT !.pc = pc]]

\* Mutant: a message that is already stored needs nothing more.
DuplicateIgnored(i) ==
  /\ Ingesting(i).pc = "check"
  /\ row[Ingesting(i).message].stored
  /\ Goes(i, "done")
  /\ UNCHANGED <<server, cursor, used, row, cases, contacts, campaign, started, review,
                 cycle, plan, faults>>

Duplicate(i) ==
  /\ Ingesting(i).pc = "check"
  /\ row[Ingesting(i).message].stored
  /\ Goes(i, IF Live(i) THEN "follow" ELSE "done")
  /\ UNCHANGED <<server, cursor, used, row, cases, contacts, campaign, started, review,
                 cycle, plan, faults>>

FindCase(i) ==
  LET m == Ingesting(i).message
      found == HeaderMatch(m, ~LiveHuman(i) \/ Personnel(m))
      unknown == LiveHuman(i) /\ found.case = 0 /\ ~found.ambiguous
      inquiry == NewInquiry(Mail[m], contacts, cases, Recent)
  IN  /\ Ingesting(i).pc = "check"
      /\ ~row[m].stored
      /\ ingest' = [ingest EXCEPT ![i] =
           IF unknown /\ Headers(m) # {NoHeader} THEN [Ingesting(i) EXCEPT !.pc = "parent"]
           ELSE IF unknown
           THEN [Ingesting(i) EXCEPT !.pc = "insert", !.case = inquiry.case, !.opens = inquiry.opens]
           ELSE [Ingesting(i) EXCEPT !.pc = "insert",
                   !.case = IF found.case = 0 THEN Mail[m].bounces ELSE found.case]]
      /\ UNCHANGED <<server, cursor, used, row, cases, contacts, campaign, started, review,
                     cycle, plan, faults>>

\* Mutant: the campaign row is read without FOR UPDATE.
HoldsNothing(i) == FALSE

\* The campaign's row is locked until the transaction ends.
HoldsCampaign(i) == ingest[i].pc = "promote"

CampaignParent(m) ==
  /\ IF Mail[m].replyTo # NoHeader THEN Mail[m].replyTo = Campaign
     ELSE Campaign \in Mail[m].references
  /\ campaign.case = 0 /\ campaign.status \in {"QUEUED", "SENT"}
  /\ \/ Mail[m].party = Recipient
     \/ /\ Mail[m].replyTo = Campaign /\ Mail[m].party \notin Barred
        /\ Company[Mail[m].party] = Company[Recipient]

\* _case_less_reactivation_parent waits for the lock and sees the row as it
\* then is; when the parent has a case by now the headers decide again.
LockParent(i) ==
  LET m == ingest[i].message
      again == HeaderMatch(m, FALSE)
      known == contacts \cup {Mail[m].party}
      inquiry == NewInquiry(Mail[m], known, cases, Recent)
  IN  /\ ingest[i].pc = "parent"
      /\ \A j \in Ingesters \ {i} : ~HoldsCampaign(j)
      /\ ingest' = [ingest EXCEPT ![i] =
           IF CampaignParent(m)
           THEN [@ EXCEPT !.pc = "promote", !.case = inquiry.case, !.opens = inquiry.opens]
           ELSE [@ EXCEPT !.pc = "insert", !.case = again.case]]
      /\ UNCHANGED <<server, cursor, used, row, cases, contacts, campaign, started, review,
                     cycle, plan, faults>>

\* Mutant: the case opened for the email is rolled back.
InsertWithoutCase(i) ==
  LET m == ingest[i].message
      case == IF ingest[i].opens # {} THEN Len(cases) + 1 ELSE ingest[i].case
  IN  /\ ingest[i].pc \in {"insert", "promote"}
      /\ ~row[m].stored
      /\ row' = [row EXCEPT ![m] = [stored |-> TRUE, history |-> ingest[i].history, case |-> case]]
      /\ Goes(i, IF Live(i) THEN "follow" ELSE "done")
      /\ UNCHANGED <<server, cursor, used, cases, contacts, campaign, started, review, cycle, plan, faults>>

\* The row is inserted and all that belongs to it committed: a case opened
\* for it, a campaign promoted to that case, with the Sent copy of its
\* message when that has none, and its recipient answered.
Insert(i) ==
  LET m == ingest[i].message
      promoted == ingest[i].pc = "promote"
      all == cases \o SetToSeq(ingest[i].opens)
      case == IF ingest[i].opens # {} THEN Len(all) ELSE ingest[i].case
  IN  /\ ingest[i].pc \in {"insert", "promote"}
      /\ ~row[m].stored
      /\ row' = [n \in Messages |->
           IF n = m THEN [stored |-> TRUE, history |-> ingest[i].history, case |-> case]
           ELSE IF promoted /\ n \in Copies \cap Stored /\ row[n].case = 0
           THEN [row[n] EXCEPT !.case = case]
           ELSE row[n]]
      /\ cases' = all
      /\ contacts' = IF promoted THEN contacts \cup {Mail[m].party} ELSE contacts
      /\ campaign' = IF promoted THEN [case |-> case, status |-> "REPLIED"] ELSE campaign
      /\ Goes(i, IF Live(i) THEN "follow" ELSE "done")
      /\ UNCHANGED <<server, cursor, used, started, review, cycle, plan, faults>>

\* The unique constraint refuses the row: everything is rolled back, the
\* other's row followed up, and the poller's session is of no more use to
\* it (its cursor object expired with the rollback), so the folder fails.
Collide(i) ==
  LET m == ingest[i].message
  IN  /\ ingest[i].pc \in {"insert", "promote"}
      /\ row[m].stored
      /\ Goes(i, IF Live(i) THEN "follow after collision" ELSE "collided")
      /\ UNCHANGED <<server, cursor, used, row, cases, contacts, campaign, started, review,
                     cycle, plan, faults>>

\* _ensure_inbound_follow_up: a job, a review by a person, or nothing more.
\* disposed stands for apply_email_disposition (module Dispositions).
FollowUp(i) ==
  LET m == ingest[i].message
      handled == Mail[m].kind # "bounce" /\ (Mail[m].disposed \/ Mail[m].kind = "system")
      job == Mail[m].kind = "bounce" \/ (~handled /\ row[m].case # 0)
      opens == ~handled /\ ~job /\ review[m].status = "none"
  IN  /\ ingest[i].pc \in {"follow", "follow after collision"}
      /\ started' = [started EXCEPT ![m] =
           IF @ # "nothing" THEN @ ELSE IF handled THEN "handled" ELSE IF job THEN "job" ELSE "review"]
      /\ review' = IF opens THEN [review EXCEPT ![m].status = "OPEN"] ELSE review
      /\ Goes(i, IF ingest[i].pc = "follow" THEN "done" ELSE "collided")
      /\ UNCHANGED <<server, cursor, used, row, cases, contacts, campaign,
                     cycle, plan, faults>>

FailAfterCollision ==
  /\ ingest["poller"].pc = "collided"
  /\ ingest' = [ingest EXCEPT !["poller"] = Resting]
  /\ cycle' = FolderDone(FALSE)
  /\ UNCHANGED <<server, cursor, used, row, cases, contacts, campaign, started, review,
                 plan, faults>>

----------------------------------------------------------------------------
(* Old mail: reconcile_email_history.                                      *)

History == {m \in Stored : row[m].history}

\* The date of the newest live email of each case, 0 without one.
LatestLive(c) == Max({0} \cup {m \in Stored \ History : row[m].case = c})

\* The case of an old email that has none, given the cases found so far.
CaseByHistory(found, m) ==
  LET linked == ({found[p] : p \in Parents(m) \cap Stored} \cup Linked(m)) \ {0}
      candidates == {c \in OpenCases(cases) : /\ cases[c].contact = Mail[m].party
                                              /\ LatestLive(c) < m}
  IN  HistoryCase(Mail[m], linked, candidates, cases)

LinkOne(found, m) ==
  IF m \in History /\ found[m] = 0 THEN [found EXCEPT ![m] = CaseByHistory(found, m)] ELSE found

\* Rounds over the old mail, oldest first, until nothing changes and at most
\* 20: each but the last links an email.  (What is found is bound by the set
\* constructor, so that TLC evaluates it once.)
Number == Cardinality(Messages)
Rounds == Min({20, Number})
Linking[step \in 0 .. Rounds * Number] ==
  IF step = 0 THEN [m \in Messages |-> row[m].case]
  ELSE CHOOSE after \in {LinkOne(found, ((step - 1) % Number) + 1) : found \in {Linking[step - 1]}} : TRUE
LinkedHistory == Linking[Rounds * Number]

\* The newest old email of each case, and each contact's newest old human
\* email when it is inbound and without a case.
LatestOf(found, c) == Max({0} \cup {m \in History : found[m] = c})
ContactOnly(found) ==
  {m \in History :
     /\ Inbound(m) /\ found[m] = 0 /\ Human(m)
     /\ Mail[m].party \in contacts
     /\ \A n \in History : Mail[n].party = Mail[m].party /\ Human(n) => n <= m}

StatusAfterImport(c, touched, answered) ==
  IF c \in answered /\ cases[c].status \notin {"HUMAN_TAKEOVER"} \cup CLOSED THEN "WAITING_HUMAN"
  ELSE IF c \in touched \ answered /\ cases[c].status = "ACTIVE" THEN "PAUSED"
  ELSE cases[c].status

\* What the rows and cases say is read first, ...
ReadHistory ==
  /\ cycle.pc = "reconcile"
  /\ \E found \in {LinkedHistory} :
     \E touched \in {{c \in DOMAIN cases : LatestOf(found, c) > LatestLive(c)}} :
     \E answered \in {{c \in touched : Inbound(LatestOf(found, c))}} :
       plan' =
         [case |-> [m \in History |-> found[m]],
          status |-> [c \in {d \in touched : StatusAfterImport(d, touched, answered) # cases[d].status}
                        |-> StatusAfterImport(c, touched, answered)],
          waiting |-> {LatestOf(found, c) : c \in answered} \cup ContactOnly(found)]
  /\ cycle' = [cycle EXCEPT !.pc = "relink"]
  /\ UNCHANGED <<server, cursor, used, row, cases, contacts, campaign, started, review,
                 ingest, faults>>

\* ... and the cases found, the statuses that change and the reviews that are
\* missing are written over whatever was committed since.
Reconcile ==
  /\ cycle.pc = "relink"
  /\ LET found == plan.case
         status == plan.status
     IN  /\ row' = [m \in Messages |->
                      IF m \in DOMAIN found /\ found[m] # 0
                      THEN [row[m] EXCEPT !.case = found[m]] ELSE row[m]]
         /\ cases' = [c \in DOMAIN cases |->
                        IF c \in DOMAIN status THEN [cases[c] EXCEPT !.status = status[c]]
                        ELSE cases[c]]
         /\ review' = [m \in Messages |->
                         IF m \in plan.waiting /\ review[m].status = "none"
                         THEN [status |-> "OPEN", case |-> found[m]] ELSE review[m]]
  /\ cycle' = NoCycle
  /\ plan' = NoPlan
  /\ UNCHANGED <<server, cursor, used, contacts, campaign, started, ingest, faults>>

\* POST /admin/handoffs/{id}: what a decision makes of the review's case.
StatusAfter ==
  [approve |-> "ACTIVE", resolve |-> "ACTIVE", resume |-> "ACTIVE", reject |-> "WAITING_HUMAN",
   pause |-> "PAUSED", takeover |-> "HUMAN_TAKEOVER"]

Decide(m, decision) ==
  /\ review[m].status = "OPEN"
  /\ review' = IF decision \in {"approve", "reject", "resolve"}
               THEN [review EXCEPT ![m].status = "RESOLVED"] ELSE review
  /\ cases' = IF review[m].case = 0 THEN cases
              ELSE [cases EXCEPT ![review[m].case].status = StatusAfter[decision]]
  /\ UNCHANGED <<server, cursor, used, row, contacts, campaign, started,
                 ingest, cycle, plan, faults>>

----------------------------------------------------------------------------
Ingest(i) ==
  Duplicate(i) \/ FindCase(i) \/ LockParent(i) \/ Insert(i) \/ Collide(i) \/ FollowUp(i)

Poll == BeginCycle \/ BudgetSpent \/ Fetch \/ SaveCursor \/ Advance \/ EndFolder
        \/ FailAfterCollision \/ ReadHistory \/ Reconcile

SyncNext ==
  \/ Poll \/ FolderFails \/ NewDay
  \/ \E i \in Ingesters : Ingest(i) \/ Crash(i)
  \/ \E m \in Messages : Deliver(m) \/ \E decision \in Decisions : Decide(m, decision)
  \/ \E m \in Uploads : Upload(m)
  \/ \E f \in Folders : Renumber(f)

SyncSpec == SyncInit /\ [][SyncNext]_syncVars

----------------------------------------------------------------------------
(* What must hold.                                                         *)

SyncTypeOK ==
  /\ \A f \in Folders : /\ server[f].validity \in 1 .. MaxFaults + 1
                        /\ cursor[f].validity \in 0 .. server[f].validity
                        /\ cursor[f].last \in 0 .. Len(server[f].mail)
                        /\ cursor[f].cutoff \in 0 .. Len(server[f].mail)
  /\ used \in 0 .. DailyLimit
  /\ \A m \in Messages : /\ row[m].case \in 0 .. Len(cases)
                         /\ started[m] \in {"nothing", "job", "review", "handled"}
                         /\ review[m].status \in {"none", "OPEN", "RESOLVED"}
  /\ campaign.case \in 0 .. Len(cases)
  /\ contacts \subseteq DOMAIN Company

\* The poller's cursor never passes an email that is not stored, and never
\* a live one that nothing was started for, whatever was interrupted and
\* whoever stored it.
NothingLost ==
  \A f \in Folders : cursor[f].validity = server[f].validity =>
    \A uid \in 1 .. cursor[f].last :
      LET m == server[f].mail[uid]
      IN  /\ row[m].stored
          /\ Inbound(m) /\ uid > cursor[f].cutoff /\ ~row[m].history => started[m] # "nothing"

\* A person's answer to the campaign's message that names no other message.
PlainAnswer(m) == Inbound(m) /\ Mail[m].kind = "human" /\ Headers(m) = {Campaign}

\* Every such answer that is ingested live and has a case has the one case
\* the message was promoted to, although two may be ingested at once, or a
\* case that the Sent copy of the message was filed in.
OneCasePerCampaign ==
  LET shared == {campaign.case} \cup {row[c].case : c \in Copies \cap Stored}
  IN  \A m \in Stored \ History : PlainAnswer(m) /\ row[m].case # 0 => row[m].case \in shared

\* Every email that reaches the server is stored in the end, although days
\* run out of download budget, folders fail and the poller crashes.
EverythingIngested == <>[](OnServer \subseteq Stored)

----------------------------------------------------------------------------
\* The poller is one process that runs forever and each day has an end;
\* nothing is assumed of the server, the administrator or people.
Fairness ==
  /\ WF_syncVars(BeginCycle) /\ WF_syncVars(BudgetSpent) /\ WF_syncVars(Fetch)
  /\ WF_syncVars(SaveCursor) /\ WF_syncVars(Advance) /\ WF_syncVars(EndFolder)
  /\ WF_syncVars(FailAfterCollision) /\ WF_syncVars(ReadHistory) /\ WF_syncVars(Reconcile)
  /\ \A i \in Ingesters : WF_syncVars(Ingest(i))
  /\ WF_syncVars(NewDay)

FairSyncSpec == SyncSpec /\ Fairness
=============================================================================
