-------------------------- MODULE ReactivationProofs --------------------------
(***************************************************************************)
(* The safety of Reactivation for any number of workers, requests,         *)
(* campaigns, recipients and faults: its types, one schedule for each      *)
(* person, no message held in a campaign that runs, and no copy but those  *)
(* that a resume has asked for.                                            *)
(*                                                                         *)
(* RowsInv says what a request or a worker carries between its steps.  On  *)
(* it stand three invariants: HoldInv (a resume that is under way has read *)
(* every message that is held), CopiesInv (the copies delivered, those in  *)
(* flight and one that is due are no more than one and the resumes) and    *)
(* OnceInv (a start that is under way found no one else's schedule, and    *)
(* its locks keep that true).                                              *)
(***************************************************************************)
EXTENDS Reactivation, FiniteSetTheorems, TLAPS

USE ReactivationAssumption

Absent(r) == mail[r] = "ABSENT"

\* What a request carries: rows of its campaign, and no message that is not there.
GoodAdmin(q) ==
    /\ q.pc = "idle" <=> q.kind = "none"
    /\ q.pc = "idle" => q.rows = {}
    /\ q.pc # "holding" => q.mails = {}
    /\ q.rows \subseteq Members(q.camp) /\ q.mails \subseteq Members(q.camp)
    /\ q.kind = "start" => q.mails \subseteq q.rows
    /\ q.kind # "start" => \A r \in q.mails : ~Absent(r)
    /\ q.kind = "pause" => \A r \in q.rows : ~Absent(r)

GoodWorker(q) ==
    /\ \A r \in q.row \cup q.locked \cup q.sent \cup q.lost : ~Absent(r)
    /\ q.pc = "picked" => q.row \subseteq q.locked
    /\ q.pc # "picked" => q.locked = {}
LockInv ==
    \A w \in Workers :
        /\ \A r \in worker[w].locked : Waiting(r)
        /\ \A v \in Workers : v # w => worker[v].locked \cap worker[w].locked = {}

DraftInv ==
    \A r \in Recipients :
        /\ campaign[CampaignOf[r]] = "DRAFT" => recipient[r] = "SELECTED" /\ Absent(r)
        /\ Absent(r) => delivered[r] = 0

RowsInv ==
    /\ TypeOK /\ DraftInv /\ LockInv
    /\ \A a \in Admins : GoodAdmin(admin[a])
    /\ \A w \in Workers : GoodWorker(worker[w])

\* A message that is there stays there.
Stays == \A r \in Recipients : ~Absent(r) => ~Absent(r)'

-----------------------------------------------------------------------------
(* The records *)

LEMMA MailWith ==
    ASSUME mail \in [Recipients -> MailStatus], NEW rows, NEW v \in MailStatus
    PROVE  /\ With(mail, rows, v) \in [Recipients -> MailStatus]
           /\ \A r \in Recipients : With(mail, rows, v)[r] = IF r \in rows THEN v ELSE mail[r]
BY DEF With

LEMMA RecipientWith ==
    ASSUME NEW f \in [Recipients -> RecipientStatus], NEW rows, NEW v \in RecipientStatus
    PROVE  /\ With(f, rows, v) \in [Recipients -> RecipientStatus]
           /\ \A r \in Recipients : With(f, rows, v)[r] = IF r \in rows THEN v ELSE f[r]
BY DEF With

LEMMA CampaignWith ==
    ASSUME campaign \in [Campaigns -> CampaignStatus], NEW cs, NEW v \in CampaignStatus
    PROVE  /\ With(campaign, cs, v) \in [Campaigns -> CampaignStatus]
           /\ \A c \in Campaigns : With(campaign, cs, v)[c] = IF c \in cs THEN v ELSE campaign[c]
BY DEF With

LEMMA SomeCampaign == (CHOOSE c \in Campaigns : TRUE) \in Campaigns
OBVIOUS

LEMMA IdleRecords ==
    /\ IdleAdmin \in AdminState /\ GoodAdmin(IdleAdmin)
    /\ IdleWorker \in WorkerState /\ GoodWorker(IdleWorker)
    /\ IdleAdmin.pc = "idle" /\ IdleAdmin.kind = "none" /\ IdleAdmin.mails = {}
    /\ IdleWorker.pc = "idle" /\ IdleWorker.row = {} /\ IdleWorker.locked = {}
BY SomeCampaign DEF IdleAdmin, AdminState, GoodAdmin, IdleWorker, WorkerState, GoodWorker

\* One request, or one worker, has changed.
LEMMA OneAdmin ==
    ASSUME RowsInv, Stays, NEW a \in Admins, NEW q \in AdminState, admin' = [admin EXCEPT ![a] = q],
           GoodAdmin(q)'
    PROVE  /\ admin' \in [Admins -> AdminState] /\ admin'[a] = q
           /\ \A b \in Admins : b # a => admin'[b] = admin[b]
           /\ \A b \in Admins : GoodAdmin(admin[b])'
<1>1. admin \in [Admins -> AdminState]
  BY DEF RowsInv, TypeOK
<1>2. /\ admin' \in [Admins -> AdminState] /\ admin'[a] = q
      /\ \A b \in Admins : b # a => admin'[b] = admin[b]
  BY <1>1
<1>3. ASSUME NEW b \in Admins, b # a
      PROVE  GoodAdmin(admin[b])'
  <2>1. GoodAdmin(admin[b]) /\ admin[b] \in AdminState
    BY <1>1 DEF RowsInv
  <2>2. QED BY <1>2, <1>3, <2>1 DEF GoodAdmin, Stays, AdminState
<1>4. QED BY <1>2, <1>3

LEMMA SameAdmins ==
    ASSUME RowsInv, Stays, admin' = admin
    PROVE  admin' \in [Admins -> AdminState] /\ \A b \in Admins : GoodAdmin(admin[b])'
<1>1. admin \in [Admins -> AdminState]
  BY DEF RowsInv, TypeOK
<1>2. ASSUME NEW b \in Admins
      PROVE  GoodAdmin(admin[b])'
  <2>1. GoodAdmin(admin[b]) /\ admin[b] \in AdminState
    BY <1>1 DEF RowsInv
  <2>2. QED BY <2>1 DEF GoodAdmin, Stays, AdminState
<1>3. QED BY <1>1, <1>2

LEMMA OneWorker ==
    ASSUME RowsInv, Stays, NEW w \in Workers, NEW q \in WorkerState, worker' = [worker EXCEPT ![w] = q],
           GoodWorker(q)'
    PROVE  /\ worker' \in [Workers -> WorkerState] /\ worker'[w] = q
           /\ \A v \in Workers : v # w => worker'[v] = worker[v]
           /\ \A v \in Workers : GoodWorker(worker[v])'
<1>1. worker \in [Workers -> WorkerState]
  BY DEF RowsInv, TypeOK
<1>2. /\ worker' \in [Workers -> WorkerState] /\ worker'[w] = q
      /\ \A v \in Workers : v # w => worker'[v] = worker[v]
  BY <1>1
<1>3. ASSUME NEW v \in Workers, v # w
      PROVE  GoodWorker(worker[v])'
  <2>1. GoodWorker(worker[v]) /\ worker[v] \in WorkerState
    BY <1>1 DEF RowsInv
  <2>2. QED BY <1>2, <1>3, <2>1 DEF GoodWorker, Stays, WorkerState
<1>4. QED BY <1>2, <1>3

LEMMA SameWorkers ==
    ASSUME RowsInv, Stays, worker' = worker
    PROVE  worker' \in [Workers -> WorkerState] /\ \A v \in Workers : GoodWorker(worker[v])'
<1>1. worker \in [Workers -> WorkerState]
  BY DEF RowsInv, TypeOK
<1>2. ASSUME NEW v \in Workers
      PROVE  GoodWorker(worker[v])'
  <2>1. GoodWorker(worker[v]) /\ worker[v] \in WorkerState
    BY <1>1 DEF RowsInv
  <2>2. QED BY <2>1 DEF GoodWorker, Stays, WorkerState
<1>3. QED BY <1>1, <1>2

\* The locks hold while no locked row is written, and nothing is locked twice.
LEMMA LocksStay ==
    ASSUME RowsInv, worker' \in [Workers -> WorkerState],
           \A w \in Workers : worker'[w].locked \in {worker[w].locked, {}},
           \A w \in Workers : \A r \in worker'[w].locked : mail'[r] \in {mail[r], "PENDING", "FAILED"}
    PROVE  LockInv'
<1>1. ASSUME NEW w \in Workers
      PROVE  /\ \A r \in worker'[w].locked : Waiting(r)'
             /\ \A v \in Workers : v # w => worker'[v].locked \cap worker'[w].locked = {}
  BY DEF RowsInv, LockInv, Waiting
<1>2. QED BY <1>1 DEF LockInv

\* The rows' own types, apart from those of requests and workers.
Rows ==
    /\ campaign \in [Campaigns -> CampaignStatus]
    /\ recipient \in [Recipients -> RecipientStatus]
    /\ mail \in [Recipients -> MailStatus]
    /\ due \subseteq Recipients
    /\ delivered \in [Recipients -> Nat]
    /\ restored \in [Recipients -> Nat] /\ late \subseteq Campaigns
    /\ requests \in 0..MaxRequests /\ faults \in 0..MaxFaults
    /\ \A r \in Recipients :
          recipient[r] \in {"QUEUED", "SENT", "REPLIED"} => mail[r] # "ABSENT"

LEMMA Assembled ==
    ASSUME Rows', DraftInv', LockInv',
           admin' \in [Admins -> AdminState], \A a \in Admins : GoodAdmin(admin[a])',
           worker' \in [Workers -> WorkerState], \A w \in Workers : GoodWorker(worker[w])'
    PROVE  RowsInv'
BY DEF RowsInv, TypeOK, Rows

\* Steps that only change what a request, or a worker, carries.
LEMMA AdminOnly ==
    ASSUME RowsInv, NEW a \in Admins, NEW q \in AdminState, GoodAdmin(q),
           admin' = [admin EXCEPT ![a] = q],
           UNCHANGED <<campaign, recipient, mail, due, worker, delivered, restored, late, faults>>,
           requests' \in 0..MaxRequests
    PROVE  /\ RowsInv' /\ admin'[a] = q
           /\ \A b \in Admins : b # a => admin'[b] = admin[b]
<1>1. Stays /\ GoodAdmin(q)'
  BY DEF Stays, Absent, GoodAdmin
<1>2. /\ admin' \in [Admins -> AdminState] /\ admin'[a] = q
      /\ \A b \in Admins : b # a => admin'[b] = admin[b]
      /\ \A b \in Admins : GoodAdmin(admin[b])'
  BY <1>1, OneAdmin
<1>3. worker' \in [Workers -> WorkerState] /\ \A v \in Workers : GoodWorker(worker[v])'
  BY <1>1, SameWorkers
<1>4. Rows'
  BY DEF RowsInv, TypeOK, Rows
<1>5. DraftInv' /\ LockInv'
  BY DEF RowsInv, DraftInv, LockInv, Absent, Waiting
<1>6. QED BY <1>2, <1>3, <1>4, <1>5, Assembled

LEMMA WorkerOnly ==
    ASSUME RowsInv, NEW w \in Workers, NEW q \in WorkerState, GoodWorker(q),
           q.locked \in {worker[w].locked, {}}, worker' = [worker EXCEPT ![w] = q],
           UNCHANGED <<campaign, recipient, mail, due, admin, delivered, restored, late, requests>>,
           faults' \in 0..MaxFaults
    PROVE  /\ RowsInv' /\ worker'[w] = q
           /\ \A v \in Workers : v # w => worker'[v] = worker[v]
<1>1. Stays /\ GoodWorker(q)'
  BY DEF Stays, Absent, GoodWorker
<1>2. /\ worker' \in [Workers -> WorkerState] /\ worker'[w] = q
      /\ \A v \in Workers : v # w => worker'[v] = worker[v]
      /\ \A v \in Workers : GoodWorker(worker[v])'
  BY <1>1, OneWorker
<1>3. admin' \in [Admins -> AdminState] /\ \A b \in Admins : GoodAdmin(admin[b])'
  BY <1>1, SameAdmins
<1>4. Rows'
  BY DEF RowsInv, TypeOK, Rows
<1>5. DraftInv'
  BY DEF RowsInv, DraftInv, Absent
<1>6. LockInv'
  BY <1>2, LocksStay
<1>7. QED BY <1>2, <1>3, <1>4, <1>5, <1>6, Assembled

-----------------------------------------------------------------------------
(* Steps of a request *)

LEMMA Begins ==
    ASSUME RowsInv, NEW a \in Admins, NEW c \in Campaigns, NEW kind \in {"start", "pause", "resume", "cancel"},
           NEW rows \in SUBSET Members(c), kind # "start" => rows = {}, Load(a, kind, c, rows)
    PROVE  /\ RowsInv' /\ \A b \in Admins : b # a => admin'[b] = admin[b]
           /\ admin'[a].pc = "loaded" /\ admin'[a].kind = kind /\ admin'[a].camp = c
<1> DEFINE q1 == [IdleAdmin EXCEPT !.pc = "loaded"]
           q2 == [q1 EXCEPT !.kind = kind]
           q3 == [q2 EXCEPT !.camp = c]
           q == [q3 EXCEPT !.rows = rows]
<1>1. rows \subseteq Recipients
  BY DEF Members
<1>2. q1 \in AdminState /\ q1.pc = "loaded" /\ q1.mails = {}
  BY IdleRecords DEF AdminState
<1> HIDE DEF q1
<1>3. q2 \in AdminState /\ q2.pc = "loaded" /\ q2.mails = {} /\ q2.kind = kind
  BY <1>2 DEF AdminState
<1> HIDE DEF q2
<1>4. q3 \in AdminState /\ q3.pc = "loaded" /\ q3.mails = {} /\ q3.kind = kind /\ q3.camp = c
  BY <1>3 DEF AdminState
<1> HIDE DEF q3
<1>5. q \in AdminState /\ q.pc = "loaded" /\ q.mails = {} /\ q.kind = kind /\ q.camp = c /\ q.rows = rows
  BY <1>1, <1>4 DEF AdminState
<1>6. admin' = [admin EXCEPT ![a] = q]
  BY DEF Load, q1, q2, q3
<1> HIDE DEF q
<1>7. GoodAdmin(q)
  BY <1>5 DEF GoodAdmin
<1>8. /\ requests' \in 0..MaxRequests
      /\ UNCHANGED <<campaign, recipient, mail, due, worker, delivered, restored, late, faults>>
  BY DEF Load, RowsInv, TypeOK, history
<1>9. QED BY <1>5, <1>6, <1>7, <1>8, AdminOnly

LEMMA ReadsRows ==
    ASSUME RowsInv, NEW a \in Admins, NEW kind \in {"pause", "resume", "cancel"},
           NEW rows \in SUBSET Members(admin[a].camp), NEW mails \in SUBSET Members(admin[a].camp),
           \A r \in mails : ~Absent(r), kind = "pause" => \A r \in rows : ~Absent(r),
           Reads(a, kind, rows, mails)
    PROVE  /\ RowsInv' /\ \A b \in Admins : b # a => admin'[b] = admin[b]
           /\ admin'[a].pc = "holding" /\ admin'[a].kind = kind /\ admin'[a].camp = admin[a].camp
           /\ admin'[a].rows = rows /\ admin'[a].mails = mails
<1> DEFINE q1 == [admin[a] EXCEPT !.pc = "holding"]
           q2 == [q1 EXCEPT !.rows = rows]
           q == [q2 EXCEPT !.mails = mails]
<1>1. rows \subseteq Recipients /\ mails \subseteq Recipients
  BY DEF Members
<1>2. admin[a] \in AdminState /\ admin[a].kind = kind
  BY DEF RowsInv, TypeOK, Reads
<1>3. q1 \in AdminState /\ q1.pc = "holding" /\ q1.kind = kind /\ q1.camp = admin[a].camp
  BY <1>2 DEF AdminState
<1> HIDE DEF q1
<1>4. q2 \in AdminState /\ q2.pc = "holding" /\ q2.kind = kind /\ q2.camp = admin[a].camp /\ q2.rows = rows
  BY <1>1, <1>3 DEF AdminState
<1> HIDE DEF q2
<1>5. /\ q \in AdminState /\ q.pc = "holding" /\ q.kind = kind /\ q.camp = admin[a].camp
      /\ q.rows = rows /\ q.mails = mails
  BY <1>1, <1>4 DEF AdminState
<1>6. admin' = [admin EXCEPT ![a] = q]
  BY DEF Reads, q1, q2
<1> HIDE DEF q
<1>7. GoodAdmin(q)
  BY <1>5 DEF GoodAdmin
<1>8. /\ requests' \in 0..MaxRequests
      /\ UNCHANGED <<campaign, recipient, mail, due, worker, delivered, restored, late, faults>>
  BY DEF Reads, RowsInv, TypeOK, history, bounds
<1>9. QED BY <1>5, <1>6, <1>7, <1>8, AdminOnly

\* What each of the three reads.
LEMMA ThreeReads ==
    ASSUME RowsInv, NEW a \in Admins, ReadPaused(a) \/ ReadResumed(a) \/ ReadCancelled(a)
    PROVE  /\ RowsInv' /\ \A b \in Admins : b # a => admin'[b] = admin[b]
           /\ admin'[a].pc = "holding" /\ admin'[a].kind = admin[a].kind /\ admin'[a].camp = admin[a].camp
           /\ admin[a].kind \in {"pause", "resume", "cancel"}
           /\ admin[a].kind = "resume" =>
                 admin'[a].mails = {r \in Members(admin[a].camp) : mail[r] = "HELD"}
           /\ admin[a].kind = "cancel" =>
                 admin'[a].rows = {r \in Members(admin[a].camp) : recipient[r] \in {"SCHEDULED", "QUEUED"}}
           /\ CampaignFree(admin[a].camp)
           /\ UNCHANGED <<campaign, recipient, mail, due, worker, delivered, restored, late>>
<1> DEFINE members == Members(admin[a].camp)
           waiting == {r \in members : Waiting(r)}
           held == {r \in members : mail[r] = "HELD"}
           open == {r \in members : recipient[r] \in {"SCHEDULED", "QUEUED"}}
<1>1. CASE ReadPaused(a)
  <2>1. Reads(a, "pause", {r \in waiting : recipient[r] # "QUEUED"}, waiting)
    BY <1>1 DEF ReadPaused
  <2>2. \A r \in waiting : ~Absent(r)
    BY DEF Waiting, Absent
  <2>3. admin[a].kind = "pause" /\ CampaignFree(admin[a].camp)
        /\ UNCHANGED <<campaign, recipient, mail, due, worker, delivered, restored, late>>
    BY <2>1 DEF Reads, history
  <2>4. /\ RowsInv' /\ \A b \in Admins : b # a => admin'[b] = admin[b]
        /\ admin'[a].pc = "holding" /\ admin'[a].kind = "pause" /\ admin'[a].camp = admin[a].camp
    <3> DEFINE joined == {r \in waiting : recipient[r] # "QUEUED"}
    <3>1. joined \subseteq members /\ waiting \subseteq members /\ \A r \in joined : ~Absent(r)
      BY <2>2
    <3>2. Reads(a, "pause", joined, waiting)
      BY <2>1
    <3> HIDE DEF joined, waiting, members
    <3>3. QED BY <2>2, <3>1, <3>2, ReadsRows DEF members
  <2>5. QED BY <2>3, <2>4
<1>2. CASE ReadResumed(a)
  <2>1. Reads(a, "resume", {}, held)
    BY <1>2 DEF ReadResumed
  <2>2. \A r \in held : ~Absent(r)
    BY DEF Absent
  <2>3. admin[a].kind = "resume" /\ CampaignFree(admin[a].camp)
        /\ UNCHANGED <<campaign, recipient, mail, due, worker, delivered, restored, late>>
    BY <2>1 DEF Reads, history
  <2>4. QED BY <2>1, <2>2, <2>3, ReadsRows
<1>3. CASE ReadCancelled(a)
  <2>1. Reads(a, "cancel", open, {r \in open : Waiting(r)})
    BY <1>3 DEF ReadCancelled
  <2>2. \A r \in {r \in open : Waiting(r)} : ~Absent(r)
    BY DEF Waiting, Absent
  <2>3. admin[a].kind = "cancel" /\ CampaignFree(admin[a].camp)
        /\ UNCHANGED <<campaign, recipient, mail, due, worker, delivered, restored, late>>
    BY <2>1 DEF Reads, history
  <2>4. QED BY <2>1, <2>2, <2>3, ReadsRows
<1>4. QED BY <1>1, <1>2, <1>3

\* A start that finds contacts without a reservation has them, the others end.
LEMMA ReadsReserved ==
    ASSUME RowsInv, NEW a \in Admins, ReadReserved(a)
    PROVE  /\ RowsInv' /\ \A b \in Admins : b # a => admin'[b] = admin[b]
           /\ \/ admin'[a].pc = "idle" /\ admin'[a].kind = "none"
              \/ /\ admin'[a].pc = "holding" /\ admin'[a].kind = "start" /\ admin'[a].camp = admin[a].camp
                 /\ admin'[a].rows = admin[a].rows
                 /\ admin'[a].mails = {r \in admin[a].rows : ~Reserved(r)}
           /\ admin[a].kind = "start" /\ ContactsFree(admin[a].rows)
           /\ UNCHANGED <<campaign, recipient, mail, due, worker, delivered, restored, late>>
<1> DEFINE available == {r \in admin[a].rows : ~Reserved(r)}
           q1 == [admin[a] EXCEPT !.pc = "holding"]
           q == [q1 EXCEPT !.mails = available]
<1>1. /\ admin[a].kind = "start" /\ ContactsFree(admin[a].rows)
      /\ UNCHANGED <<campaign, recipient, mail, due, worker, delivered, restored, late, requests, faults>>
  BY DEF ReadReserved, history, bounds
<1>2. admin[a] \in AdminState /\ GoodAdmin(admin[a])
  BY DEF RowsInv, TypeOK
<1>3. q1 \in AdminState /\ q1.pc = "holding" /\ q1.kind = "start" /\ q1.camp = admin[a].camp /\ q1.rows = admin[a].rows
  BY <1>1, <1>2 DEF AdminState
<1> HIDE DEF q1
<1>4. available \subseteq admin[a].rows /\ available \subseteq Recipients
  BY <1>2 DEF AdminState
<1>5. /\ q \in AdminState /\ q.pc = "holding" /\ q.kind = "start" /\ q.camp = admin[a].camp
      /\ q.rows = admin[a].rows /\ q.mails = available
  BY <1>3, <1>4 DEF AdminState
<1>6. admin' = [admin EXCEPT ![a] = IF available = {} THEN IdleAdmin ELSE q]
  BY DEF ReadReserved, q1
<1> HIDE DEF q
<1>7. GoodAdmin(q)
  BY <1>2, <1>4, <1>5 DEF GoodAdmin
<1>8. requests' \in 0..MaxRequests
  BY <1>1 DEF RowsInv, TypeOK
<1>9. CASE available = {}
  <2>1. admin' = [admin EXCEPT ![a] = IdleAdmin]
    BY <1>6, <1>9
  <2>2. RowsInv' /\ admin'[a] = IdleAdmin /\ \A b \in Admins : b # a => admin'[b] = admin[b]
    BY <1>1, <1>8, <2>1, IdleRecords, AdminOnly
  <2>3. QED BY <1>1, <2>2, IdleRecords
<1>10. CASE available # {}
  <2>1. admin' = [admin EXCEPT ![a] = q]
    BY <1>6, <1>10
  <2>2. RowsInv' /\ admin'[a] = q /\ \A b \in Admins : b # a => admin'[b] = admin[b]
    BY <1>1, <1>5, <1>7, <1>8, <2>1, AdminOnly
  <2>3. QED BY <1>1, <1>5, <2>2
<1>11. QED BY <1>9, <1>10

LEMMA Aborts ==
    ASSUME RowsInv, NEW a \in Admins, AbortAdmin(a)
    PROVE  /\ RowsInv' /\ \A b \in Admins : b # a => admin'[b] = admin[b]
           /\ admin'[a].pc = "idle" /\ admin'[a].kind = "none"
           /\ UNCHANGED <<campaign, recipient, mail, due, worker, delivered, restored, late>>
<1>1. /\ admin' = [admin EXCEPT ![a] = IdleAdmin] /\ requests' \in 0..MaxRequests
      /\ UNCHANGED <<campaign, recipient, mail, due, worker, delivered, restored, late, faults>>
  BY DEF AbortAdmin, Ends, history, bounds, RowsInv, TypeOK
<1>2. QED BY <1>1, IdleRecords, AdminOnly

LEMMA EndsWell ==
    ASSUME RowsInv, Stays, NEW a \in Admins, Ends(a)
    PROVE  /\ admin' \in [Admins -> AdminState] /\ \A b \in Admins : GoodAdmin(admin[b])'
           /\ admin'[a].pc = "idle" /\ admin'[a].kind = "none"
           /\ \A b \in Admins : b # a => admin'[b] = admin[b]
<1>1. GoodAdmin(IdleAdmin)'
  BY SomeCampaign DEF IdleAdmin, GoodAdmin
<1>2. QED BY <1>1, IdleRecords, OneAdmin DEF Ends

\* A pause, a resume or a cancellation writes the rows of its campaign.
LEMMA WritesRows ==
    ASSUME RowsInv, NEW a \in Admins, NEW kind \in {"pause", "resume", "cancel"},
           NEW status \in {"PAUSED", "RUNNING", "CANCELLED"}, Commits(a, kind, status),
           NEW m \in {"HELD", "PENDING", "CANCELLED"}, mail' = With(mail, admin[a].mails, m),
           NEW v \in {"QUEUED", "SKIPPED"}, NEW rows \in {admin[a].rows, {}},
           recipient' = With(recipient, rows, v), v = "QUEUED" => \A r \in rows : ~Absent(r),
           due' \subseteq Recipients, restored' \in [Recipients -> Nat], late' = late
    PROVE  /\ RowsInv' /\ \A b \in Admins : b # a => admin'[b] = admin[b]
           /\ admin'[a].pc = "idle" /\ admin'[a].kind = "none"
           /\ Holds(a) /\ admin[a].kind = kind /\ UNCHANGED <<worker, delivered>>
           /\ \A c \in Campaigns : campaign'[c] = IF c = admin[a].camp THEN status ELSE campaign[c]
           /\ \A r \in Recipients : mail'[r] = IF r \in admin[a].mails THEN m ELSE mail[r]
           /\ \A r \in Recipients : recipient'[r] = IF r \in rows THEN v ELSE recipient[r]
           /\ \A r \in Recipients : r \in rows \cup admin[a].mails => CampaignOf[r] = admin[a].camp
<1>1. /\ Rows /\ admin[a] \in AdminState /\ GoodAdmin(admin[a])
      /\ \A r \in Recipients : r \in admin[a].rows \cup admin[a].mails => CampaignOf[r] = admin[a].camp
  BY DEF RowsInv, TypeOK, Rows, GoodAdmin, Members
<1>2. /\ admin[a].kind = kind /\ Holds(a) /\ MailFree(admin[a].mails)
      /\ campaign' = [campaign EXCEPT ![admin[a].camp] = status]
      /\ Ends(a) /\ UNCHANGED <<worker, delivered, requests, faults>>
  BY DEF Commits, bounds
<1>3. m \in MailStatus /\ v \in RecipientStatus /\ status \in CampaignStatus
  BY DEF MailStatus, RecipientStatus, CampaignStatus
<1>4. /\ mail' \in [Recipients -> MailStatus]
      /\ \A r \in Recipients : mail'[r] = IF r \in admin[a].mails THEN m ELSE mail[r]
  BY <1>1, <1>3, MailWith DEF Rows
<1>5. /\ recipient' \in [Recipients -> RecipientStatus]
      /\ \A r \in Recipients : recipient'[r] = IF r \in rows THEN v ELSE recipient[r]
  BY <1>1, <1>3, RecipientWith DEF Rows
<1>6. /\ campaign' \in [Campaigns -> CampaignStatus]
      /\ \A c \in Campaigns : campaign'[c] = IF c = admin[a].camp THEN status ELSE campaign[c]
  BY <1>1, <1>2, <1>3 DEF Rows, AdminState
<1>7. Stays
  BY <1>4 DEF Stays, Absent
<1>8. /\ admin' \in [Admins -> AdminState] /\ \A b \in Admins : GoodAdmin(admin[b])'
      /\ admin'[a].pc = "idle" /\ admin'[a].kind = "none"
      /\ \A b \in Admins : b # a => admin'[b] = admin[b]
  BY <1>2, <1>7, EndsWell
<1>9. worker' \in [Workers -> WorkerState] /\ \A w \in Workers : GoodWorker(worker[w])'
  BY <1>2, <1>7, SameWorkers
<1>10. Rows'
  <2>1. ASSUME NEW r \in Recipients, recipient'[r] \in {"QUEUED", "SENT", "REPLIED"}
        PROVE  mail'[r] # "ABSENT"
    BY <1>1, <1>4, <1>5, <2>1 DEF Rows, Absent
  <2>2. QED BY <1>1, <1>2, <1>4, <1>5, <1>6, <2>1 DEF Rows
<1>11. DraftInv'
  <2>1. ASSUME NEW r \in Recipients
        PROVE  /\ campaign'[CampaignOf[r]] = "DRAFT" => recipient'[r] = "SELECTED" /\ Absent(r)'
               /\ Absent(r)' => delivered'[r] = 0
    <3>1. CampaignOf[r] \in Campaigns
      OBVIOUS
    <3>2. /\ campaign[CampaignOf[r]] = "DRAFT" => recipient[r] = "SELECTED" /\ Absent(r)
          /\ Absent(r) => delivered[r] = 0
      BY DEF RowsInv, DraftInv
    <3>3. QED BY <1>1, <1>2, <1>4, <1>5, <1>6, <3>1, <3>2 DEF Absent
  <2>2. QED BY <2>1 DEF DraftInv
<1>12. LockInv'
  <2>1. \A w \in Workers : worker[w].locked \cap admin[a].mails = {}
    BY <1>2 DEF MailFree
  <2>2. \A w \in Workers : worker[w].locked \subseteq Recipients
    BY DEF RowsInv, TypeOK, WorkerState
  <2>3. QED BY <1>2, <1>4, <1>9, <2>1, <2>2, LocksStay
<1>13. RowsInv'
  BY <1>8, <1>9, <1>10, <1>11, <1>12, Assembled
<1>14. QED BY <1>1, <1>2, <1>4, <1>5, <1>6, <1>8, <1>13

LEMMA Pauses ==
    ASSUME RowsInv, NEW a \in Admins, Pause(a)
    PROVE  /\ RowsInv' /\ \A b \in Admins : b # a => admin'[b] = admin[b]
           /\ admin'[a].pc = "idle" /\ admin'[a].kind = "none"
           /\ Holds(a) /\ admin[a].kind = "pause" /\ UNCHANGED <<worker, delivered, due, restored, late>>
           /\ \A c \in Campaigns : campaign'[c] = IF c = admin[a].camp THEN "PAUSED" ELSE campaign[c]
           /\ \A r \in Recipients : mail'[r] = IF r \in admin[a].mails THEN "HELD" ELSE mail[r]
           /\ \A r \in Recipients : recipient'[r] = IF r \in admin[a].rows THEN "QUEUED" ELSE recipient[r]
           /\ \A r \in Recipients : r \in admin[a].rows \cup admin[a].mails => CampaignOf[r] = admin[a].camp
<1>1. /\ Commits(a, "pause", "PAUSED") /\ UNCHANGED <<due, restored, late>>
      /\ mail' = With(mail, admin[a].mails, "HELD") /\ recipient' = With(recipient, admin[a].rows, "QUEUED")
  BY DEF Pause, history
<1>2. due' \subseteq Recipients /\ restored' \in [Recipients -> Nat]
  BY <1>1 DEF RowsInv, TypeOK
<1>3. \A r \in admin[a].rows : ~Absent(r)
  BY <1>1 DEF Commits, RowsInv, GoodAdmin
<1>4. QED BY <1>1, <1>2, <1>3, WritesRows

LEMMA Resumes ==
    ASSUME RowsInv, NEW a \in Admins, Resume(a)
    PROVE  /\ RowsInv' /\ \A b \in Admins : b # a => admin'[b] = admin[b]
           /\ admin'[a].pc = "idle" /\ admin'[a].kind = "none"
           /\ Holds(a) /\ admin[a].kind = "resume" /\ UNCHANGED <<worker, delivered, recipient, late>>
           /\ \A c \in Campaigns : campaign'[c] = IF c = admin[a].camp THEN "RUNNING" ELSE campaign[c]
           /\ \A r \in Recipients : mail'[r] = IF r \in admin[a].mails THEN "PENDING" ELSE mail[r]
           /\ \A r \in admin[a].mails : ~Absent(r)
           /\ due' = due \cup admin[a].mails
           /\ \A r \in Recipients : restored'[r] = restored[r] + (IF r \in admin[a].mails THEN 1 ELSE 0)
<1>1. /\ Commits(a, "resume", "RUNNING") /\ UNCHANGED <<recipient, late>>
      /\ mail' = With(mail, admin[a].mails, "PENDING") /\ due' = due \cup admin[a].mails
      /\ restored' = [r \in Recipients |-> restored[r] + (IF r \in admin[a].mails THEN 1 ELSE 0)]
  BY DEF Resume
<1>2. admin[a].mails \subseteq Recipients /\ recipient \in [Recipients -> RecipientStatus]
  BY DEF RowsInv, TypeOK, AdminState
<1>3. due' \subseteq Recipients /\ restored' \in [Recipients -> Nat]
  BY <1>1, <1>2 DEF RowsInv, TypeOK
<1>4. recipient' = With(recipient, {}, "SKIPPED")
  BY <1>1, <1>2 DEF With
<1>5. \A r \in admin[a].mails : ~Absent(r)
  BY <1>1 DEF Commits, RowsInv, GoodAdmin
<1>6. QED BY <1>1, <1>3, <1>4, <1>5, WritesRows

LEMMA Cancels ==
    ASSUME RowsInv, NEW a \in Admins, Cancel(a)
    PROVE  /\ RowsInv' /\ \A b \in Admins : b # a => admin'[b] = admin[b]
           /\ admin'[a].pc = "idle" /\ admin'[a].kind = "none"
           /\ Holds(a) /\ admin[a].kind = "cancel" /\ UNCHANGED <<worker, delivered, due, restored, late>>
           /\ \A c \in Campaigns : campaign'[c] = IF c = admin[a].camp THEN "CANCELLED" ELSE campaign[c]
           /\ \A r \in Recipients : mail'[r] = IF r \in admin[a].mails THEN "CANCELLED" ELSE mail[r]
           /\ \A r \in Recipients : recipient'[r] = IF r \in admin[a].rows THEN "SKIPPED" ELSE recipient[r]
<1>1. /\ Commits(a, "cancel", "CANCELLED") /\ UNCHANGED <<due, restored, late>>
      /\ mail' = With(mail, admin[a].mails, "CANCELLED") /\ recipient' = With(recipient, admin[a].rows, "SKIPPED")
  BY DEF Cancel, history
<1>2. due' \subseteq Recipients /\ restored' \in [Recipients -> Nat]
  BY <1>1 DEF RowsInv, TypeOK
<1>3. QED BY <1>1, <1>2, WritesRows

LEMMA Starts ==
    ASSUME RowsInv, NEW a \in Admins, Start(a)
    PROVE  /\ RowsInv' /\ \A b \in Admins : b # a => admin'[b] = admin[b]
           /\ admin'[a].pc = "idle" /\ admin'[a].kind = "none"
           /\ Holds(a) /\ admin[a].kind = "start" /\ CampaignFree(admin[a].camp)
           /\ UNCHANGED <<worker, delivered, mail, restored>>
           /\ \A c \in Campaigns : campaign'[c] = IF c = admin[a].camp THEN "RUNNING" ELSE campaign[c]
           /\ \A r \in Recipients :
                 recipient'[r] = IF r \in admin[a].mails THEN "SCHEDULED"
                                 ELSE IF r \in admin[a].rows THEN "EXCLUDED" ELSE recipient[r]
           /\ due' = due \ admin[a].mails
           /\ late \subseteq late' /\ (campaign[admin[a].camp] # "DRAFT" => admin[a].camp \in late')
           /\ \A r \in admin[a].mails : r \in admin[a].rows /\ CampaignOf[r] = admin[a].camp
<1> DEFINE c == admin[a].camp
           excluded == With(recipient, admin[a].rows, "EXCLUDED")
<1>1. /\ Rows /\ admin[a] \in AdminState /\ GoodAdmin(admin[a])
  BY DEF RowsInv, TypeOK, Rows
<1>2. /\ admin[a].kind = "start" /\ Holds(a) /\ CampaignFree(c)
      /\ campaign' = [campaign EXCEPT ![c] = "RUNNING"]
      /\ recipient' = With(excluded, admin[a].mails, "SCHEDULED")
      /\ due' = due \ admin[a].mails
      /\ late' = IF campaign[c] = "DRAFT" THEN late ELSE late \cup {c}
      /\ Ends(a) /\ UNCHANGED <<mail, worker, delivered, restored, requests, faults>>
  BY DEF Start, bounds
<1>3. "EXCLUDED" \in RecipientStatus /\ "SCHEDULED" \in RecipientStatus /\ "RUNNING" \in CampaignStatus
  BY DEF RecipientStatus, CampaignStatus
<1>4. /\ excluded \in [Recipients -> RecipientStatus]
      /\ \A r \in Recipients : excluded[r] = IF r \in admin[a].rows THEN "EXCLUDED" ELSE recipient[r]
  BY <1>1, <1>3, RecipientWith DEF Rows
<1> HIDE DEF excluded
<1>5. /\ recipient' \in [Recipients -> RecipientStatus]
      /\ \A r \in Recipients : recipient'[r] = IF r \in admin[a].mails THEN "SCHEDULED" ELSE excluded[r]
  BY <1>2, <1>3, <1>4, RecipientWith
<1>6. /\ campaign' \in [Campaigns -> CampaignStatus]
      /\ \A d \in Campaigns : campaign'[d] = IF d = c THEN "RUNNING" ELSE campaign[d]
  BY <1>1, <1>2, <1>3 DEF Rows, AdminState
<1>7. \A r \in admin[a].mails \cup admin[a].rows : r \in admin[a].rows /\ CampaignOf[r] = c
  BY <1>1, <1>2 DEF GoodAdmin, Members
<1>8. Stays
  BY <1>2 DEF Stays, Absent
<1>9. /\ admin' \in [Admins -> AdminState] /\ \A b \in Admins : GoodAdmin(admin[b])'
      /\ admin'[a].pc = "idle" /\ admin'[a].kind = "none"
      /\ \A b \in Admins : b # a => admin'[b] = admin[b]
  BY <1>2, <1>8, EndsWell
<1>10. worker' \in [Workers -> WorkerState] /\ \A w \in Workers : GoodWorker(worker[w])'
  BY <1>2, <1>8, SameWorkers
<1>11. c \in Campaigns
  BY <1>1 DEF AdminState
<1>12. Rows'
  BY <1>1, <1>2, <1>4, <1>5, <1>6, <1>11 DEF Rows
<1>13. DraftInv'
  <2>1. ASSUME NEW r \in Recipients
        PROVE  /\ campaign'[CampaignOf[r]] = "DRAFT" => recipient'[r] = "SELECTED" /\ Absent(r)'
               /\ Absent(r)' => delivered'[r] = 0
    <3>1. CampaignOf[r] \in Campaigns
      OBVIOUS
    <3>2. QED BY <1>2, <1>4, <1>5, <1>6, <1>7, <3>1 DEF Absent, RowsInv, DraftInv
  <2>2. QED BY <2>1 DEF DraftInv
<1>14. LockInv'
  BY <1>2, <1>10, LocksStay
<1>15. RowsInv'
  BY <1>9, <1>10, <1>12, <1>13, <1>14, Assembled
<1>16. QED BY <1>2, <1>4, <1>5, <1>6, <1>7, <1>9, <1>11, <1>15

-----------------------------------------------------------------------------
(* Steps of workers and of the world around *)

Scheduled(r) == recipient[r] = "SCHEDULED"

\* What none of them does: schedule, hold, or start, pause or cancel a campaign.
Follows ==
    /\ UNCHANGED <<admin, late, restored>>
    /\ \A c \in Campaigns : campaign'[c] \in {campaign[c], "COMPLETED"}
    /\ \A r \in Recipients :
          /\ mail'[r] = "HELD" => mail[r] = "HELD"
          /\ Scheduled(r)' => Scheduled(r)
          /\ recipient'[r] = "QUEUED" => recipient[r] = "QUEUED" \/ mail'[r] = "PENDING"
          /\ Absent(r) /\ ~Absent(r)' => Scheduled(r) /\ r \in due
          /\ r \in due' => r \in due \/ ~Absent(r) \/ \A a \in Admins : admin[a].kind # "start"

LEMMA OnlyWorkerFollows ==
    ASSUME RowsInv, UNCHANGED <<campaign, recipient, mail, due, admin, restored, late>>
    PROVE  Follows
BY DEF Follows, Scheduled, Absent

LEMMA StopsWell ==
    ASSUME RowsInv, Stays, NEW w \in Workers, Stops(w)
    PROVE  /\ worker' \in [Workers -> WorkerState] /\ \A v \in Workers : GoodWorker(worker[v])'
           /\ worker'[w].pc = "idle" /\ worker'[w].row = {} /\ worker'[w].locked = {}
           /\ \A v \in Workers : v # w => worker'[v] = worker[v]
<1>1. GoodWorker(IdleWorker)'
  BY DEF IdleWorker, GoodWorker
<1>2. QED BY <1>1, IdleRecords, OneWorker DEF Stops

\* A worker comes to q, writes messages that are there and not locked by others, and skips
\* recipients whose message is there.
Writes(w, q, rows, m, skipped) ==
    /\ q \in WorkerState /\ q.locked = {} /\ q.pc # "picked"
    /\ rows \subseteq Recipients /\ skipped \subseteq Recipients
    /\ \A r \in q.row \cup q.sent \cup q.lost \cup rows \cup skipped : ~Absent(r)
    /\ \A v \in Workers : v # w => worker[v].locked \cap rows = {}
    /\ m \in {"PENDING", "CLAIMED", "FAILED", "UNKNOWN", "SENT", "CANCELLED"}
    /\ worker' = [worker EXCEPT ![w] = q] /\ mail' = With(mail, rows, m)
    /\ recipient' = With(recipient, skipped, "SKIPPED")
    /\ due' \subseteq due /\ faults' \in 0..MaxFaults
    /\ UNCHANGED <<campaign, admin, delivered, restored, late, requests>>

LEMMA WorkerWrites ==
    ASSUME RowsInv, NEW w \in Workers, NEW q, NEW rows, NEW m, NEW skipped,
           Writes(w, q, rows, m, skipped)
    PROVE  /\ RowsInv' /\ Follows
           /\ worker'[w] = q /\ \A v \in Workers : v # w => worker'[v] = worker[v]
           /\ \A r \in Recipients : mail'[r] = IF r \in rows THEN m ELSE mail[r]
<1> USE DEF Writes
<1>1. Rows
  BY DEF RowsInv, TypeOK, Rows
<1>2. m \in MailStatus /\ "SKIPPED" \in RecipientStatus
  BY DEF MailStatus, RecipientStatus
<1>3. /\ mail' \in [Recipients -> MailStatus]
      /\ \A r \in Recipients : mail'[r] = IF r \in rows THEN m ELSE mail[r]
  BY <1>1, <1>2, MailWith DEF Rows
<1>4. /\ recipient' \in [Recipients -> RecipientStatus]
      /\ \A r \in Recipients : recipient'[r] = IF r \in skipped THEN "SKIPPED" ELSE recipient[r]
  BY <1>1, <1>2, RecipientWith DEF Rows
<1>5. Stays
  BY <1>3 DEF Stays, Absent
<1>6. GoodWorker(q)'
  BY <1>5 DEF GoodWorker, Stays, WorkerState
<1>7. /\ worker' \in [Workers -> WorkerState] /\ worker'[w] = q
      /\ \A v \in Workers : v # w => worker'[v] = worker[v]
      /\ \A v \in Workers : GoodWorker(worker[v])'
  BY <1>5, <1>6, OneWorker
<1>8. admin' \in [Admins -> AdminState] /\ \A b \in Admins : GoodAdmin(admin[b])'
  BY <1>5, SameAdmins
<1>9. Rows'
  <2>1. ASSUME NEW r \in Recipients, recipient'[r] \in {"QUEUED", "SENT", "REPLIED"}
        PROVE  mail'[r] # "ABSENT"
    BY <1>1, <1>3, <1>4, <2>1 DEF Rows
  <2>2. QED BY <1>1, <1>3, <1>4, <2>1 DEF Rows
<1>10. DraftInv'
  <2>1. ASSUME NEW r \in Recipients
        PROVE  /\ campaign'[CampaignOf[r]] = "DRAFT" => recipient'[r] = "SELECTED" /\ Absent(r)'
               /\ Absent(r)' => delivered'[r] = 0
    BY <1>3, <1>4 DEF Absent, RowsInv, DraftInv
  <2>2. QED BY <2>1 DEF DraftInv
<1>11. LockInv'
  <2>1. \A v \in Workers : worker[v].locked \subseteq Recipients
    BY DEF RowsInv, TypeOK, WorkerState
  <2>2. QED BY <1>3, <1>7, <2>1, LocksStay
<1>12. Follows
  BY <1>3, <1>4 DEF Follows, Scheduled, Absent
<1>13. RowsInv'
  BY <1>7, <1>8, <1>9, <1>10, <1>11, Assembled
<1>14. QED BY <1>3, <1>7, <1>12, <1>13

\* A message that is there and not locked is written, and nothing else but its time.
LEMMA RowWritten ==
    ASSUME RowsInv, NEW r \in Recipients, ~Absent(r), MailFree({r}),
           NEW m \in {"FAILED", "UNKNOWN", "SENT", "CANCELLED"}, mail' = [mail EXCEPT ![r] = m],
           due' \subseteq due \cup {r},
           UNCHANGED <<campaign, recipient, admin, worker, delivered, restored, late, requests, faults>>
    PROVE  /\ RowsInv' /\ Follows
           /\ \A s \in Recipients : mail'[s] = IF s = r THEN m ELSE mail[s]
<1>1. Rows
  BY DEF RowsInv, TypeOK, Rows
<1>2. m \in MailStatus
  BY DEF MailStatus
<1>3. /\ mail' \in [Recipients -> MailStatus]
      /\ \A s \in Recipients : mail'[s] = IF s = r THEN m ELSE mail[s]
  BY <1>1, <1>2 DEF Rows
<1>4. Stays
  BY <1>3 DEF Stays, Absent
<1>5. worker' \in [Workers -> WorkerState] /\ \A v \in Workers : GoodWorker(worker[v])'
  BY <1>4, SameWorkers
<1>6. admin' \in [Admins -> AdminState] /\ \A b \in Admins : GoodAdmin(admin[b])'
  BY <1>4, SameAdmins
<1>7. Rows'
  BY <1>1, <1>3 DEF Rows
<1>8. DraftInv'
  <2>1. ASSUME NEW s \in Recipients
        PROVE  /\ campaign'[CampaignOf[s]] = "DRAFT" => recipient'[s] = "SELECTED" /\ Absent(s)'
               /\ Absent(s)' => delivered'[s] = 0
    BY <1>3 DEF Absent, RowsInv, DraftInv
  <2>2. QED BY <2>1 DEF DraftInv
<1>9. LockInv'
  <2>1. \A v \in Workers : worker[v].locked \subseteq Recipients /\ worker[v].locked \cap {r} = {}
    BY DEF RowsInv, TypeOK, WorkerState, MailFree
  <2>2. QED BY <1>3, <1>5, <2>1, LocksStay
<1>10. Follows
  BY <1>3 DEF Follows, Scheduled, Absent
<1>11. RowsInv'
  BY <1>5, <1>6, <1>7, <1>8, <1>9, Assembled
<1>12. QED BY <1>3, <1>10, <1>11

\* A worker stops, having written nothing.
LEMMA JustStops ==
    ASSUME RowsInv, NEW w \in Workers, AbortSync(w) \/ GuardAborts(w) \/ Crash(w)
    PROVE  /\ RowsInv' /\ Follows
           /\ worker'[w].pc = "idle" /\ \A v \in Workers : v # w => worker'[v] = worker[v]
           /\ UNCHANGED <<campaign, recipient, mail, delivered>>
<1>1. /\ worker' = [worker EXCEPT ![w] = IdleWorker] /\ faults' \in 0..MaxFaults
      /\ UNCHANGED <<campaign, recipient, mail, due, admin, delivered, restored, late, requests>>
  <2>1. CASE AbortSync(w) \/ GuardAborts(w)
    BY <2>1 DEF AbortSync, GuardAborts, Stops, history, bounds, RowsInv, TypeOK
  <2>2. CASE Crash(w)
    BY <2>2 DEF Crash, Stops, Fault, history, RowsInv, TypeOK
  <2>3. QED BY <2>1, <2>2
<1>2. IdleWorker.locked \in {worker[w].locked, {}}
  BY IdleRecords
<1>3. /\ RowsInv' /\ worker'[w] = IdleWorker
      /\ \A v \in Workers : v # w => worker'[v] = worker[v]
  BY <1>1, <1>2, IdleRecords, WorkerOnly
<1>4. QED BY <1>1, <1>3, IdleRecords, OnlyWorkerFollows

-----------------------------------------------------------------------------
(* Copies *)

\* The workers that may make one more copy of a message, or have not made the one they sent.
Flies(q, r) ==
    /\ r \in q.row
    /\ \/ q.pc \in {"claimed", "sending"}
       \/ q.pc = "replied" /\ (q.reply = "soft" \/ (q.reply \notin {"ok", "hard"} /\ delivered[r] = 0))
InFlight(r) == {w \in Workers : Flies(worker[w], r)}
Again(r) == IF Waiting(r) \/ (mail[r] = "UNKNOWN" /\ delivered[r] = 0) THEN 1 ELSE 0
CopiesInv == \A r \in Recipients : delivered[r] + Cardinality(InFlight(r)) + Again(r) <= 1 + restored[r]

LEMMA Cardinalities ==
    ASSUME NEW S \in SUBSET Workers, NEW T \in SUBSET Workers
    PROVE  /\ Cardinality(S) \in Nat /\ Cardinality(T) \in Nat
           /\ T \subseteq S => Cardinality(T) <= Cardinality(S)
           /\ \A w \in S : T \subseteq S \ {w} => Cardinality(T) <= Cardinality(S) - 1
           /\ \A w \in Workers : T \subseteq S \cup {w} => Cardinality(T) <= Cardinality(S) + 1
<1>1. IsFiniteSet(S) /\ IsFiniteSet(T) /\ Cardinality(S) \in Nat /\ Cardinality(T) \in Nat
  BY FS_Subset, FS_CardinalityType
<1>2. T \subseteq S => Cardinality(T) <= Cardinality(S)
  BY <1>1, FS_Subset
<1>3. ASSUME NEW w \in S, T \subseteq S \ {w}
      PROVE  Cardinality(T) <= Cardinality(S) - 1
  <2>1. IsFiniteSet(S \ {w}) /\ Cardinality(S \ {w}) = Cardinality(S) - 1
    BY <1>1, FS_RemoveElement
  <2>2. Cardinality(T) <= Cardinality(S \ {w})
    BY <1>3, <2>1, FS_Subset
  <2>3. QED BY <2>1, <2>2
<1>4. ASSUME NEW w \in Workers, T \subseteq S \cup {w}
      PROVE  Cardinality(T) <= Cardinality(S) + 1
  <2>1. IsFiniteSet(S \cup {w}) /\ Cardinality(S \cup {w}) \in {Cardinality(S), Cardinality(S) + 1}
    BY <1>1, FS_AddElement
  <2>2. Cardinality(T) <= Cardinality(S \cup {w})
    BY <1>4, <2>1, FS_Subset
  <2>3. QED BY <1>1, <2>1, <2>2
<1>5. QED BY <1>1, <1>2, <1>3, <1>4

\* For one message: nothing more flies, and nothing more is due.
LEMMA NoMoreCopies ==
    ASSUME RowsInv, RowsInv', CopiesInv, NEW r \in Recipients,
           delivered'[r] = delivered[r], restored'[r] >= restored[r],
           InFlight(r)' \subseteq InFlight(r), Again(r)' <= Again(r)
    PROVE  delivered'[r] + Cardinality(InFlight(r)') + Again(r)' <= 1 + restored'[r]
<1>1. InFlight(r) \subseteq Workers /\ InFlight(r)' \subseteq Workers
  BY DEF InFlight
<1>2. /\ Cardinality(InFlight(r)) \in Nat /\ Cardinality(InFlight(r)') \in Nat
      /\ Cardinality(InFlight(r)') <= Cardinality(InFlight(r))
  BY <1>1, Cardinalities
<1>3. /\ delivered[r] \in Nat /\ restored[r] \in Nat /\ restored'[r] \in Nat
      /\ Again(r) \in {0, 1} /\ Again(r)' \in {0, 1}
  BY DEF RowsInv, TypeOK, Again
<1>4. QED BY <1>2, <1>3 DEF CopiesInv

\* One of those that fly lands, and the message is due once more, or delivered.
LEMMA OneLands ==
    ASSUME RowsInv, RowsInv', CopiesInv, NEW r \in Recipients, NEW w \in InFlight(r),
           InFlight(r)' \subseteq InFlight(r) \ {w}, restored'[r] = restored[r],
           \/ delivered'[r] = delivered[r] /\ Again(r) = 0
           \/ delivered'[r] = delivered[r] + 1 /\ Again(r)' <= Again(r)
    PROVE  delivered'[r] + Cardinality(InFlight(r)') + Again(r)' <= 1 + restored'[r]
<1>1. InFlight(r) \subseteq Workers /\ InFlight(r)' \subseteq Workers
  BY DEF InFlight
<1>2. /\ Cardinality(InFlight(r)) \in Nat /\ Cardinality(InFlight(r)') \in Nat
      /\ Cardinality(InFlight(r)') <= Cardinality(InFlight(r)) - 1
  BY <1>1, Cardinalities
<1>3. delivered[r] \in Nat /\ restored[r] \in Nat /\ Again(r) \in {0, 1} /\ Again(r)' \in {0, 1}
  BY DEF RowsInv, TypeOK, Again
<1>4. QED BY <1>2, <1>3 DEF CopiesInv

\* A message that was due takes off.
LEMMA OneTakesOff ==
    ASSUME RowsInv, RowsInv', CopiesInv, NEW r \in Recipients, NEW w \in Workers,
           InFlight(r)' \subseteq InFlight(r) \cup {w}, restored'[r] = restored[r],
           delivered'[r] = delivered[r], Again(r) = 1, Again(r)' = 0
    PROVE  delivered'[r] + Cardinality(InFlight(r)') + Again(r)' <= 1 + restored'[r]
<1>1. InFlight(r) \subseteq Workers /\ InFlight(r)' \subseteq Workers
  BY DEF InFlight
<1>2. /\ Cardinality(InFlight(r)) \in Nat /\ Cardinality(InFlight(r)') \in Nat
      /\ Cardinality(InFlight(r)') <= Cardinality(InFlight(r)) + 1
  BY <1>1, Cardinalities
<1>3. delivered[r] \in Nat /\ restored[r] \in Nat
  BY DEF RowsInv, TypeOK
<1>4. QED BY <1>2, <1>3 DEF CopiesInv

\* Steps that leave the messages alone, and let no worker fly that did not.
LEMMA CopiesStay ==
    ASSUME RowsInv, RowsInv', CopiesInv, UNCHANGED <<mail, delivered, restored>>,
           \A w \in Workers : worker'[w] = worker[w] \/ worker'[w].pc \notin {"claimed", "sending", "replied"}
    PROVE  CopiesInv'
<1>1. ASSUME NEW r \in Recipients
      PROVE  /\ delivered'[r] = delivered[r] /\ restored'[r] >= restored[r]
             /\ InFlight(r)' \subseteq InFlight(r) /\ Again(r)' <= Again(r)
  <2>1. InFlight(r)' \subseteq InFlight(r)
    BY DEF InFlight, Flies
  <2>2. restored[r] \in Nat
    BY DEF RowsInv, TypeOK
  <2>3. Again(r)' = Again(r) /\ Again(r) \in {0, 1}
    BY DEF Again, Waiting
  <2>4. QED BY <2>1, <2>2, <2>3
<1>2. QED BY <1>1, NoMoreCopies DEF CopiesInv

-----------------------------------------------------------------------------
(* The scheduler *)

LEMMA SyncsRead ==
    ASSUME RowsInv, CopiesInv, NEW w \in Workers, SyncRead(w)
    PROVE  /\ RowsInv' /\ Follows /\ CopiesInv' /\ UNCHANGED <<campaign, recipient, mail>>
           /\ worker'[w].pc = "syncing" /\ \A v \in Workers : v # w => worker'[v] = worker[v]
<1> DEFINE sent == {r \in Recipients : recipient[r] = "QUEUED" /\ mail[r] = "SENT"}
           lost == {r \in Recipients : Lost(r)}
           q1 == [IdleWorker EXCEPT !.pc = "syncing"]
           q2 == [q1 EXCEPT !.sent = sent]
           q == [q2 EXCEPT !.lost = lost]
<1>1. /\ UNCHANGED <<campaign, recipient, mail, due, admin, delivered, restored, late, requests, faults>>
      /\ worker' = [worker EXCEPT ![w] = q]
  BY DEF SyncRead, history, bounds
<1>2. sent \subseteq Recipients /\ lost \subseteq Recipients /\ \A r \in sent \cup lost : ~Absent(r)
  BY DEF Lost, Absent
<1> HIDE DEF sent, lost
<1>3. q1 \in WorkerState /\ q1.pc = "syncing" /\ q1.row = {} /\ q1.locked = {}
  BY IdleRecords DEF WorkerState
<1> HIDE DEF q1
<1>4. q2 \in WorkerState /\ q2.pc = "syncing" /\ q2.row = {} /\ q2.locked = {} /\ q2.sent = sent
  BY <1>2, <1>3 DEF WorkerState
<1> HIDE DEF q2
<1>5. q \in WorkerState /\ q.pc = "syncing" /\ q.row = {} /\ q.locked = {} /\ q.sent = sent /\ q.lost = lost
  BY <1>2, <1>4 DEF WorkerState
<1> HIDE DEF q
<1>6. GoodWorker(q)
  BY <1>2, <1>5 DEF GoodWorker
<1>7. faults' \in 0..MaxFaults
  BY <1>1 DEF RowsInv, TypeOK
<1>8. RowsInv' /\ worker'[w] = q /\ \A v \in Workers : v # w => worker'[v] = worker[v]
  BY <1>1, <1>5, <1>6, <1>7, WorkerOnly
<1>9. QED BY <1>1, <1>5, <1>8, CopiesStay, OnlyWorkerFollows

LEMMA SyncsCount ==
    ASSUME RowsInv, CopiesInv, NEW w \in Workers, SyncCount(w)
    PROVE  /\ RowsInv' /\ Follows /\ CopiesInv' /\ UNCHANGED <<campaign, recipient, mail>>
           /\ \A v \in Workers : v # w => worker'[v] = worker[v]
           /\ worker'[w].sent = worker[w].sent /\ worker'[w].lost = worker[w].lost
           /\ worker'[w].done = {c \in Campaigns : Exhausted(c, worker[w].sent \cup worker[w].lost)}
<1> DEFINE done == {c \in Campaigns : Exhausted(c, worker[w].sent \cup worker[w].lost)}
           q1 == [worker[w] EXCEPT !.pc = "counted"]
           q == [q1 EXCEPT !.done = done]
<1>1. /\ UNCHANGED <<campaign, recipient, mail, due, admin, delivered, restored, late, requests, faults>>
      /\ worker' = [worker EXCEPT ![w] = q] /\ worker[w].pc = "syncing"
  BY DEF SyncCount, At, history, bounds
<1>2. worker[w] \in WorkerState /\ GoodWorker(worker[w]) /\ done \subseteq Campaigns
  BY DEF RowsInv, TypeOK
<1> HIDE DEF done
<1>3. /\ q1 \in WorkerState /\ q1.pc = "counted" /\ q1.row = worker[w].row /\ q1.locked = worker[w].locked
      /\ q1.sent = worker[w].sent /\ q1.lost = worker[w].lost
  BY <1>2 DEF WorkerState
<1> HIDE DEF q1
<1>4. /\ q \in WorkerState /\ q.pc = "counted" /\ q.row = worker[w].row /\ q.locked = worker[w].locked
      /\ q.sent = worker[w].sent /\ q.lost = worker[w].lost /\ q.done = done
  BY <1>2, <1>3 DEF WorkerState
<1> HIDE DEF q
<1>5. GoodWorker(q)
  BY <1>1, <1>2, <1>4 DEF GoodWorker
<1>6. faults' \in 0..MaxFaults
  BY <1>1 DEF RowsInv, TypeOK
<1>7. RowsInv' /\ worker'[w] = q /\ \A v \in Workers : v # w => worker'[v] = worker[v]
  BY <1>1, <1>4, <1>5, <1>6, WorkerOnly
<1>8. QED BY <1>1, <1>4, <1>7, CopiesStay, OnlyWorkerFollows DEF done

LEMMA SyncsCommit ==
    ASSUME RowsInv, CopiesInv, NEW w \in Workers, SyncCommit(w)
    PROVE  /\ RowsInv' /\ Follows /\ CopiesInv' /\ At(w, "counted")
           /\ worker'[w].pc = "idle" /\ \A v \in Workers : v # w => worker'[v] = worker[v]
           /\ \A c \in Campaigns : campaign'[c] = IF c \in worker[w].done THEN "COMPLETED" ELSE campaign[c]
           /\ \A r \in worker[w].sent \cup worker[w].lost : ~Scheduled(r)'
<1> DEFINE sent == With(recipient, worker[w].sent, "SENT")
<1>1. /\ At(w, "counted") /\ Stops(w) /\ recipient' = With(sent, worker[w].lost, "SKIPPED")
      /\ campaign' = With(campaign, worker[w].done, "COMPLETED")
      /\ UNCHANGED <<mail, due, admin, delivered, restored, late, requests, faults>>
  BY DEF SyncCommit, history, bounds
<1>2. Rows /\ worker[w] \in WorkerState /\ GoodWorker(worker[w])
  BY DEF RowsInv, TypeOK, Rows
<1>3. "SENT" \in RecipientStatus /\ "SKIPPED" \in RecipientStatus /\ "COMPLETED" \in CampaignStatus
  BY DEF RecipientStatus, CampaignStatus
<1>4. /\ sent \in [Recipients -> RecipientStatus]
      /\ \A r \in Recipients : sent[r] = IF r \in worker[w].sent THEN "SENT" ELSE recipient[r]
  BY <1>2, <1>3, RecipientWith DEF Rows
<1> HIDE DEF sent
<1>5. /\ recipient' \in [Recipients -> RecipientStatus]
      /\ \A r \in Recipients : recipient'[r] = IF r \in worker[w].lost THEN "SKIPPED" ELSE sent[r]
  BY <1>1, <1>3, <1>4, RecipientWith
<1>6. /\ campaign' \in [Campaigns -> CampaignStatus]
      /\ \A c \in Campaigns : campaign'[c] = IF c \in worker[w].done THEN "COMPLETED" ELSE campaign[c]
  BY <1>1, <1>2, <1>3, CampaignWith DEF Rows
<1>7. Stays
  BY <1>1 DEF Stays, Absent
<1>8. /\ worker' \in [Workers -> WorkerState] /\ \A v \in Workers : GoodWorker(worker[v])'
      /\ worker'[w].pc = "idle" /\ worker'[w].locked = {}
      /\ \A v \in Workers : v # w => worker'[v] = worker[v]
  BY <1>1, <1>7, StopsWell
<1>9. admin' \in [Admins -> AdminState] /\ \A b \in Admins : GoodAdmin(admin[b])'
  BY <1>1, <1>7, SameAdmins
<1>10. \A r \in worker[w].sent : ~Absent(r)
  BY <1>2 DEF GoodWorker
<1>11. Rows'
  <2>1. ASSUME NEW r \in Recipients, recipient'[r] \in {"QUEUED", "SENT", "REPLIED"}
        PROVE  mail'[r] # "ABSENT"
    BY <1>1, <1>2, <1>4, <1>5, <1>10, <2>1 DEF Rows, Absent
  <2>2. QED BY <1>1, <1>2, <1>5, <1>6, <2>1 DEF Rows
<1>12. DraftInv'
  <2>1. ASSUME NEW r \in Recipients
        PROVE  /\ campaign'[CampaignOf[r]] = "DRAFT" => recipient'[r] = "SELECTED" /\ Absent(r)'
               /\ Absent(r)' => delivered'[r] = 0
    <3>1. CampaignOf[r] \in Campaigns
      OBVIOUS
    <3>2. r \in worker[w].lost => ~Absent(r)
      BY <1>2 DEF GoodWorker
    <3>3. QED BY <1>1, <1>4, <1>5, <1>6, <1>10, <3>1, <3>2 DEF Absent, RowsInv, DraftInv
  <2>2. QED BY <2>1 DEF DraftInv
<1>13. LockInv'
  BY <1>1, <1>8, LocksStay
<1>14. RowsInv'
  BY <1>8, <1>9, <1>11, <1>12, <1>13, Assembled
<1>15. Follows
  BY <1>1, <1>4, <1>5, <1>6 DEF Follows, Scheduled, Absent
<1>16. CopiesInv'
  BY <1>1, <1>8, <1>14, CopiesStay
<1>17. \A r \in worker[w].sent \cup worker[w].lost : r \in Recipients
  BY <1>2 DEF WorkerState
<1>18. QED BY <1>1, <1>4, <1>5, <1>6, <1>8, <1>14, <1>15, <1>16, <1>17 DEF Scheduled

\* The first message of a recipient: nobody has it, and nothing has been delivered.
LEMMA Queues ==
    ASSUME RowsInv, CopiesInv, NEW w \in Workers, NEW r \in Recipients, Queue(w, r)
    PROVE  RowsInv' /\ Follows /\ CopiesInv' /\ UNCHANGED <<campaign, worker>>
<1>1. /\ recipient[r] = "SCHEDULED" /\ r \in due /\ campaign[CampaignOf[r]] = "RUNNING"
      /\ Absent(r)
      /\ recipient' = [recipient EXCEPT ![r] = "QUEUED"] /\ mail' = [mail EXCEPT ![r] = "PENDING"]
      /\ UNCHANGED <<campaign, due, admin, worker, delivered, restored, late, requests, faults>>
  BY DEF Queue, Dispatchable, Active, Absent, history, bounds
<1>2. Rows
  BY DEF RowsInv, TypeOK, Rows
<1>3. /\ mail' \in [Recipients -> MailStatus] /\ recipient' \in [Recipients -> RecipientStatus]
      /\ \A s \in Recipients : mail'[s] = IF s = r THEN "PENDING" ELSE mail[s]
      /\ \A s \in Recipients : recipient'[s] = IF s = r THEN "QUEUED" ELSE recipient[s]
  BY <1>1, <1>2 DEF Rows, MailStatus, RecipientStatus
<1>4. Stays
  BY <1>3 DEF Stays, Absent
<1>5. worker' \in [Workers -> WorkerState] /\ \A v \in Workers : GoodWorker(worker[v])'
  BY <1>1, <1>4, SameWorkers
<1>6. admin' \in [Admins -> AdminState] /\ \A b \in Admins : GoodAdmin(admin[b])'
  BY <1>1, <1>4, SameAdmins
<1>7. Rows'
  BY <1>1, <1>2, <1>3 DEF Rows
<1>8. DraftInv'
  <2>1. ASSUME NEW s \in Recipients
        PROVE  /\ campaign'[CampaignOf[s]] = "DRAFT" => recipient'[s] = "SELECTED" /\ Absent(s)'
               /\ Absent(s)' => delivered'[s] = 0
    BY <1>1, <1>3 DEF Absent, RowsInv, DraftInv
  <2>2. QED BY <2>1 DEF DraftInv
<1>9. \A v \in Workers : worker[v].locked \subseteq Recipients /\ r \notin worker[v].row
  <2>1. ASSUME NEW v \in Workers
        PROVE  worker[v].locked \subseteq Recipients /\ r \notin worker[v].row
    <3>1. worker[v] \in WorkerState /\ GoodWorker(worker[v])
      BY DEF RowsInv, TypeOK
    <3>2. QED BY <1>1, <3>1 DEF GoodWorker, WorkerState
  <2>2. QED BY <2>1
<1>10. LockInv'
  BY <1>1, <1>3, <1>5, <1>9, LocksStay
<1>11. RowsInv'
  BY <1>5, <1>6, <1>7, <1>8, <1>10, Assembled
<1>12. Follows
  BY <1>1, <1>3 DEF Follows, Scheduled, Absent
<1>13. ASSUME NEW s \in Recipients
       PROVE  delivered'[s] + Cardinality(InFlight(s)') + Again(s)' <= 1 + restored'[s]
  <2>1. InFlight(s)' = InFlight(s) /\ delivered'[s] = delivered[s] /\ restored'[s] = restored[s]
    BY <1>1 DEF InFlight, Flies
  <2>2. restored[s] \in Nat
    BY DEF RowsInv, TypeOK
  <2>3. CASE s = r
    <3>1. InFlight(r) = {}
      BY <1>9 DEF InFlight, Flies
    <3>2. delivered[r] = 0
      BY <1>1 DEF RowsInv, DraftInv
    <3>3. Again(r)' \in {0, 1} /\ Cardinality({}) = 0
      BY FS_EmptySet DEF Again
    <3>4. QED BY <2>1, <2>2, <2>3, <3>1, <3>2, <3>3
  <2>4. CASE s # r
    <3>1. Again(s)' = Again(s) /\ Again(s) \in {0, 1}
      BY <1>1, <1>3, <2>4 DEF Again, Waiting
    <3>2. restored'[s] >= restored[s] /\ InFlight(s)' \subseteq InFlight(s) /\ Again(s)' <= Again(s)
      BY <2>1, <2>2, <3>1
    <3>3. QED BY <1>11, <2>1, <3>2, NoMoreCopies
  <2>5. QED BY <2>3, <2>4
<1>14. QED BY <1>1, <1>11, <1>12, <1>13 DEF CopiesInv

LEMMA Skips ==
    ASSUME RowsInv, CopiesInv, NEW w \in Workers, NEW r \in Recipients, Skip(w, r)
    PROVE  RowsInv' /\ Follows /\ CopiesInv' /\ UNCHANGED <<campaign, worker>>
<1>1. /\ recipient[r] = "SCHEDULED" /\ campaign[CampaignOf[r]] = "RUNNING"
      /\ recipient' = [recipient EXCEPT ![r] = "SKIPPED"]
      /\ UNCHANGED <<campaign, mail, due, admin, worker, delivered, restored, late, requests, faults>>
  BY DEF Skip, Dispatchable, history, bounds
<1>2. Rows
  BY DEF RowsInv, TypeOK, Rows
<1>3. /\ recipient' \in [Recipients -> RecipientStatus]
      /\ \A s \in Recipients : recipient'[s] = IF s = r THEN "SKIPPED" ELSE recipient[s]
  BY <1>1, <1>2 DEF Rows, RecipientStatus
<1>4. Stays
  BY <1>1 DEF Stays, Absent
<1>5. worker' \in [Workers -> WorkerState] /\ \A v \in Workers : GoodWorker(worker[v])'
  BY <1>1, <1>4, SameWorkers
<1>6. admin' \in [Admins -> AdminState] /\ \A b \in Admins : GoodAdmin(admin[b])'
  BY <1>1, <1>4, SameAdmins
<1>7. Rows'
  BY <1>1, <1>2, <1>3 DEF Rows
<1>8. DraftInv'
  <2>1. ASSUME NEW s \in Recipients
        PROVE  /\ campaign'[CampaignOf[s]] = "DRAFT" => recipient'[s] = "SELECTED" /\ Absent(s)'
               /\ Absent(s)' => delivered'[s] = 0
    BY <1>1, <1>3 DEF Absent, RowsInv, DraftInv
  <2>2. QED BY <2>1 DEF DraftInv
<1>9. LockInv'
  BY <1>1, <1>5, LocksStay
<1>10. RowsInv'
  BY <1>5, <1>6, <1>7, <1>8, <1>9, Assembled
<1>11. Follows
  BY <1>1, <1>3 DEF Follows, Scheduled, Absent
<1>12. QED BY <1>1, <1>10, <1>11, CopiesStay

-----------------------------------------------------------------------------
(* Delivery *)

LEMMA Picks ==
    ASSUME RowsInv, CopiesInv, NEW w \in Workers, NEW r \in Recipients, Pick(w, r)
    PROVE  /\ RowsInv' /\ Follows /\ CopiesInv' /\ UNCHANGED <<campaign, recipient>>
           /\ worker'[w].pc = "picked" /\ \A v \in Workers : v # w => worker'[v] = worker[v]
<1> DEFINE q1 == [IdleWorker EXCEPT !.pc = "picked"]
           q2 == [q1 EXCEPT !.row = {r}]
           q == [q2 EXCEPT !.locked = Available]
<1>1. /\ UNCHANGED <<campaign, recipient, mail, due, admin, delivered, restored, late, requests, faults>>
      /\ worker' = [worker EXCEPT ![w] = q] /\ r \in Available
  BY DEF Pick, history, bounds
<1>2. /\ Available \subseteq Recipients
      /\ \A s \in Available : Waiting(s) /\ ~Absent(s) /\ \A v \in Workers : s \notin worker[v].locked
  BY DEF Available, RowsInv, TypeOK, Waiting, Absent, MailFree
<1>3. q1 \in WorkerState /\ q1.pc = "picked" /\ q1.sent = {} /\ q1.lost = {}
  BY IdleRecords DEF WorkerState, IdleWorker
<1> HIDE DEF q1
<1>4. q2 \in WorkerState /\ q2.pc = "picked" /\ q2.sent = {} /\ q2.lost = {} /\ q2.row = {r}
  BY <1>3 DEF WorkerState
<1> HIDE DEF q2
<1>5. /\ q \in WorkerState /\ q.pc = "picked" /\ q.sent = {} /\ q.lost = {} /\ q.row = {r}
      /\ q.locked = Available
  BY <1>2, <1>4 DEF WorkerState
<1>6. PICK k \in WorkerState : k = q
  BY <1>5
<1> HIDE DEF q
<1>7. /\ worker' = [worker EXCEPT ![w] = k] /\ k.pc = "picked" /\ k.sent = {} /\ k.lost = {}
      /\ k.row = {r} /\ k.locked = Available
  BY <1>1, <1>5, <1>6
<1>8. Stays
  BY <1>1 DEF Stays, Absent
<1>9. GoodWorker(k)'
  BY <1>1, <1>2, <1>7 DEF GoodWorker, Absent
<1>10. /\ worker' \in [Workers -> WorkerState] /\ worker'[w] = k
       /\ \A v \in Workers : v # w => worker'[v] = worker[v]
       /\ \A v \in Workers : GoodWorker(worker[v])'
  BY <1>7, <1>8, <1>9, OneWorker
<1>11. admin' \in [Admins -> AdminState] /\ \A b \in Admins : GoodAdmin(admin[b])'
  BY <1>1, <1>8, SameAdmins
<1>12. Rows'
  BY <1>1 DEF RowsInv, TypeOK, Rows
<1>13. DraftInv'
  BY <1>1 DEF RowsInv, DraftInv, Absent
<1>14. LockInv'
  <2>1. ASSUME NEW v \in Workers
        PROVE  /\ \A s \in worker'[v].locked : Waiting(s)'
               /\ \A u \in Workers : u # v => worker'[u].locked \cap worker'[v].locked = {}
    BY <1>1, <1>2, <1>7, <1>10 DEF RowsInv, LockInv, Waiting
  <2>2. QED BY <2>1 DEF LockInv
<1>15. RowsInv'
  BY <1>10, <1>11, <1>12, <1>13, <1>14, Assembled
<1>16. QED BY <1>1, <1>7, <1>10, <1>15, CopiesStay, OnlyWorkerFollows

\* A message is written outside a send: what is written is due no more than before.
LEMMA WrittenCopies ==
    ASSUME RowsInv, RowsInv', CopiesInv, NEW r \in Recipients, NEW m,
           \A s \in Recipients : mail'[s] = IF s = r THEN m ELSE mail[s],
           UNCHANGED <<worker, delivered, restored>>,
           \/ m = "SENT" \/ m = "CANCELLED"
           \/ m = "UNKNOWN" /\ InFlight(r) = {}
           \/ m = "FAILED" /\ mail[r] = "UNKNOWN" /\ delivered[r] = 0
    PROVE  CopiesInv'
<1>1. ASSUME NEW s \in Recipients
      PROVE  delivered'[s] + Cardinality(InFlight(s)') + Again(s)' <= 1 + restored'[s]
  <2>1. InFlight(s)' = InFlight(s) /\ delivered'[s] = delivered[s] /\ restored'[s] = restored[s]
    BY DEF InFlight, Flies
  <2>2. restored[s] \in Nat /\ delivered[s] \in Nat /\ Again(s) \in {0, 1} /\ Again(s)' \in {0, 1}
    BY DEF RowsInv, TypeOK, Again
  <2>3. CASE Again(s)' <= Again(s)
    <3>1. restored'[s] >= restored[s] /\ InFlight(s)' \subseteq InFlight(s)
      BY <2>1, <2>2
    <3>2. QED BY <2>1, <2>3, <3>1, NoMoreCopies
  <2>4. CASE s = r /\ m = "UNKNOWN" /\ InFlight(r) = {}
    <3>1. Cardinality(InFlight(s)) = 0
      BY <2>4, FS_EmptySet
    <3>2. Again(s)' = IF delivered[s] = 0 THEN 1 ELSE 0
      BY <2>4 DEF Again, Waiting
    <3>3. delivered[s] <= 1 + restored[s]
      BY <2>2, <3>1 DEF CopiesInv
    <3>4. QED BY <2>1, <2>2, <3>1, <3>2, <3>3
  <2>5. CASE ~(s = r /\ m = "UNKNOWN" /\ InFlight(r) = {}) /\ ~(Again(s)' <= Again(s))
    <3>1. Again(s)' = 1 /\ Again(s) = 0
      BY <2>2, <2>5
    <3>2. s = r
      BY <3>1 DEF Again, Waiting
    <3>3. QED BY <2>5, <3>1, <3>2 DEF Again, Waiting
  <2>6. QED BY <2>3, <2>4, <2>5
<1>2. QED BY <1>1 DEF CopiesInv

LEMMA SmallWrites ==
    ASSUME RowsInv, CopiesInv, NEW r \in Recipients,
           (\E w \in Workers : GuardStops(w, r)) \/ Recover(r) \/ Reconcile(r)
    PROVE  RowsInv' /\ Follows /\ CopiesInv' /\ UNCHANGED <<campaign, recipient, worker>>
<1>1. UNCHANGED <<campaign, recipient, admin, worker, delivered, restored, late, requests, faults>>
  BY DEF GuardStops, Recover, Reconcile, history, bounds
<1>2. PICK m \in {"FAILED", "UNKNOWN", "SENT", "CANCELLED"} :
        /\ mail' = [mail EXCEPT ![r] = m] /\ due' \subseteq due \cup {r}
        /\ ~Absent(r) /\ MailFree({r})
        /\ \/ m = "SENT" \/ m = "CANCELLED"
           \/ m = "UNKNOWN" /\ InFlight(r) = {}
           \/ m = "FAILED" /\ mail[r] = "UNKNOWN" /\ delivered[r] = 0
  <2>1. \A v \in Workers : \A s \in worker[v].locked : Waiting(s)
    BY DEF RowsInv, LockInv
  <2>2. CASE \E w \in Workers : GuardStops(w, r)
    BY <2>2 DEF GuardStops, Available, Waiting, Absent
  <2>3. CASE Recover(r)
    <3>1. InFlight(r) = {}
      BY <2>3 DEF Recover, InFlight, Flies
    <3>2. ~Absent(r) /\ MailFree({r})
      BY <2>1, <2>3 DEF Recover, Absent, MailFree, Waiting
    <3>3. QED BY <2>3, <3>1, <3>2 DEF Recover
  <2>4. CASE Reconcile(r)
    <3>1. ~Absent(r) /\ MailFree({r})
      BY <2>1, <2>4 DEF Reconcile, Absent, MailFree, Waiting
    <3>2. delivered[r] \in Nat
      BY DEF RowsInv, TypeOK
    <3>3. CASE delivered[r] > 0
      <4>1. mail' = [mail EXCEPT ![r] = "SENT"] /\ due' = due \cup {r}
        BY <2>4, <3>3 DEF Reconcile
      <4>2. QED BY <3>1, <4>1
    <3>4. CASE ~(delivered[r] > 0)
      <4>1. mail' = [mail EXCEPT ![r] = "FAILED"] /\ due' = due \cup {r} /\ mail[r] = "UNKNOWN"
        BY <2>4, <3>4 DEF Reconcile
      <4>2. delivered[r] = 0
        BY <3>2, <3>4
      <4>3. QED BY <3>1, <4>1, <4>2
    <3>5. QED BY <3>3, <3>4
  <2>5. QED BY <2>2, <2>3, <2>4
<1>3. RowsInv' /\ Follows /\ \A s \in Recipients : mail'[s] = IF s = r THEN m ELSE mail[s]
  BY <1>1, <1>2, RowWritten
<1>4. CopiesInv'
  BY <1>1, <1>2, <1>3, WrittenCopies
<1>5. QED BY <1>1, <1>3, <1>4

\* What a worker does to the message in its hand, row by row.
LEMMA RowOfWorker ==
    ASSUME RowsInv, NEW w \in Workers
    PROVE  /\ worker[w] \in WorkerState /\ worker[w].row \subseteq Recipients
           /\ \A r \in worker[w].row \cup worker[w].sent \cup worker[w].lost : ~Absent(r)
           /\ At(w, "picked") => \A r \in worker[w].row :
                 Waiting(r) /\ \A v \in Workers : v # w => r \notin worker[v].locked
           /\ ~At(w, "picked") => worker[w].locked = {}
           /\ \A r \in Recipients : mail[r] = "CLAIMED" => \A v \in Workers : r \notin worker[v].locked
<1>1. worker[w] \in WorkerState /\ GoodWorker(worker[w])
  BY DEF RowsInv, TypeOK
<1>2. worker[w].row \subseteq Recipients
  BY <1>1 DEF WorkerState
<1>3. \A v \in Workers : \A r \in worker[v].locked : Waiting(r)
  BY DEF RowsInv, LockInv
<1>4. \A v \in Workers : v # w => worker[v].locked \cap worker[w].locked = {}
  BY DEF RowsInv, LockInv
<1>5. QED BY <1>1, <1>2, <1>3, <1>4 DEF GoodWorker, At, Waiting

LEMMA Refuses ==
    ASSUME RowsInv, CopiesInv, NEW w \in Workers, Refuse(w)
    PROVE  /\ RowsInv' /\ Follows /\ CopiesInv' /\ UNCHANGED campaign
           /\ worker'[w].pc = "idle" /\ \A v \in Workers : v # w => worker'[v] = worker[v]
<1> DEFINE rows == worker[w].row
<1>1. PICK skipped \in {rows, {}} : recipient' = With(recipient, skipped, "SKIPPED")
  BY DEF Refuse
<1>2. /\ mail' = With(mail, rows, "CANCELLED") /\ worker' = [worker EXCEPT ![w] = IdleWorker]
      /\ UNCHANGED <<campaign, due, admin, delivered, restored, late, requests, faults>>
      /\ At(w, "picked") \/ \A r \in rows : mail[r] = "CLAIMED"
  BY DEF Refuse, Checks, Stops, history, bounds
<1>3. /\ rows \subseteq Recipients /\ skipped \subseteq Recipients
      /\ \A r \in rows \cup skipped : ~Absent(r)
      /\ \A v \in Workers : v # w => worker[v].locked \cap rows = {}
  BY <1>2, RowOfWorker
<1>4. /\ IdleWorker \in WorkerState /\ IdleWorker.locked = {} /\ IdleWorker.pc # "picked"
      /\ \A r \in IdleWorker.row \cup IdleWorker.sent \cup IdleWorker.lost : ~Absent(r)
  BY IdleRecords DEF GoodWorker
<1>5. faults' \in 0..MaxFaults /\ due' \subseteq due
  BY <1>2 DEF RowsInv, TypeOK
<1> HIDE DEF rows
<1>6. /\ RowsInv' /\ Follows /\ worker'[w] = IdleWorker
      /\ \A v \in Workers : v # w => worker'[v] = worker[v]
      /\ \A r \in Recipients : mail'[r] = IF r \in rows THEN "CANCELLED" ELSE mail[r]
  <2>1. Writes(w, IdleWorker, rows, "CANCELLED", skipped)
    BY <1>1, <1>2, <1>3, <1>4, <1>5 DEF Writes
  <2>2. QED BY <2>1, WorkerWrites
<1>7. ASSUME NEW r \in Recipients
      PROVE  delivered'[r] + Cardinality(InFlight(r)') + Again(r)' <= 1 + restored'[r]
  <2>1. InFlight(r)' \subseteq InFlight(r)
    BY <1>2, <1>6, IdleRecords DEF InFlight, Flies
  <2>2. restored[r] \in Nat /\ Again(r)' <= Again(r)
    BY <1>2, <1>6 DEF Again, Waiting, RowsInv, TypeOK
  <2>3. delivered'[r] = delivered[r] /\ restored'[r] >= restored[r]
    BY <1>2, <2>2
  <2>4. QED BY <1>6, <2>1, <2>2, <2>3, NoMoreCopies
<1>8. QED BY <1>2, <1>6, <1>7, IdleRecords DEF CopiesInv

\* A deferred message is due again, and was so or in the air.
LEMMA Defers ==
    ASSUME RowsInv, CopiesInv, NEW w \in Workers, Defer(w)
    PROVE  /\ RowsInv' /\ Follows /\ CopiesInv' /\ UNCHANGED <<campaign, recipient>>
           /\ worker'[w].pc = "idle" /\ \A v \in Workers : v # w => worker'[v] = worker[v]
<1> DEFINE rows == worker[w].row
<1>1. /\ mail' = With(mail, rows, "PENDING") /\ worker' = [worker EXCEPT ![w] = IdleWorker]
      /\ UNCHANGED <<campaign, recipient, admin, delivered, restored, late, requests>>
      /\ due' \subseteq due /\ faults' \in 0..MaxFaults
      /\ At(w, "picked") \/ (At(w, "claimed") /\ \A r \in rows : mail[r] = "CLAIMED")
  BY DEF Defer, Fault, Checks, Stops, history, RowsInv, TypeOK
<1>2. /\ rows \subseteq Recipients /\ \A r \in rows : ~Absent(r)
      /\ At(w, "picked") => \A r \in rows : Waiting(r)
      /\ \A v \in Workers : v # w => worker[v].locked \cap rows = {}
  BY <1>1, RowOfWorker
<1>3. /\ IdleWorker \in WorkerState /\ IdleWorker.locked = {} /\ IdleWorker.pc # "picked"
      /\ \A r \in IdleWorker.row \cup IdleWorker.sent \cup IdleWorker.lost : ~Absent(r)
  BY IdleRecords DEF GoodWorker
<1>4. recipient' = With(recipient, {}, "SKIPPED")
  BY <1>1 DEF With, RowsInv, TypeOK
<1> HIDE DEF rows
<1>5. /\ RowsInv' /\ Follows /\ worker'[w] = IdleWorker
      /\ \A v \in Workers : v # w => worker'[v] = worker[v]
      /\ \A r \in Recipients : mail'[r] = IF r \in rows THEN "PENDING" ELSE mail[r]
  <2>1. Writes(w, IdleWorker, rows, "PENDING", {})
    BY <1>1, <1>2, <1>3, <1>4 DEF Writes
  <2>2. QED BY <2>1, WorkerWrites
<1>6. ASSUME NEW r \in Recipients
      PROVE  delivered'[r] + Cardinality(InFlight(r)') + Again(r)' <= 1 + restored'[r]
  <2>1. InFlight(r)' \subseteq InFlight(r) \ {w}
    BY <1>1, <1>5, IdleRecords DEF InFlight, Flies
  <2>2. /\ restored[r] \in Nat /\ Again(r) \in {0, 1} /\ Again(r)' \in {0, 1}
        /\ delivered'[r] = delivered[r] /\ restored'[r] = restored[r]
    BY <1>1 DEF Again, RowsInv, TypeOK
  <2>3. CASE r \in rows /\ ~At(w, "picked")
    <3>1. w \in InFlight(r)
      BY <1>1, <2>3 DEF InFlight, Flies, At, rows
    <3>2. Again(r) = 0
      BY <1>1, <2>3 DEF Again, Waiting
    <3>3. QED BY <1>5, <2>1, <2>2, <3>1, <3>2, OneLands
  <2>4. CASE ~(r \in rows /\ ~At(w, "picked"))
    <3>1. Again(r)' = Again(r)
      BY <1>1, <1>2, <1>5, <2>4 DEF Again, Waiting
    <3>2. Again(r)' <= Again(r) /\ restored'[r] >= restored[r] /\ InFlight(r)' \subseteq InFlight(r)
      BY <2>1, <2>2, <3>1
    <3>3. QED BY <1>5, <2>2, <3>2, NoMoreCopies
  <2>5. QED BY <2>3, <2>4
<1>7. QED BY <1>1, <1>5, <1>6, IdleRecords DEF CopiesInv

LEMMA Claims ==
    ASSUME RowsInv, CopiesInv, NEW w \in Workers, Claim(w)
    PROVE  /\ RowsInv' /\ Follows /\ CopiesInv' /\ UNCHANGED <<campaign, recipient>>
           /\ worker'[w].pc = "claimed" /\ \A v \in Workers : v # w => worker'[v] = worker[v]
<1> DEFINE rows == worker[w].row
           q1 == [worker[w] EXCEPT !.pc = "claimed"]
           q == [q1 EXCEPT !.locked = {}]
<1>1. /\ mail' = With(mail, rows, "CLAIMED") /\ worker' = [worker EXCEPT ![w] = q]
      /\ UNCHANGED <<campaign, recipient, due, admin, delivered, restored, late, requests, faults>>
      /\ At(w, "picked")
  BY DEF Claim, history, bounds
<1>2. /\ worker[w] \in WorkerState /\ rows \subseteq Recipients
      /\ \A r \in rows \cup worker[w].sent \cup worker[w].lost : ~Absent(r)
      /\ \A r \in rows : Waiting(r)
      /\ \A v \in Workers : v # w => worker[v].locked \cap rows = {}
  BY <1>1, RowOfWorker
<1>3. /\ q1 \in WorkerState /\ q1.pc = "claimed" /\ q1.row = rows
      /\ q1.sent = worker[w].sent /\ q1.lost = worker[w].lost
  BY <1>2 DEF WorkerState
<1> HIDE DEF q1
<1>4. /\ q \in WorkerState /\ q.pc = "claimed" /\ q.row = rows /\ q.locked = {}
      /\ q.sent = worker[w].sent /\ q.lost = worker[w].lost
  BY <1>3 DEF WorkerState
<1>5. PICK k \in WorkerState : k = q
  BY <1>4
<1> HIDE DEF q
<1>6. /\ worker' = [worker EXCEPT ![w] = k] /\ k.pc = "claimed" /\ k.row = rows /\ k.locked = {}
      /\ \A r \in k.row \cup k.sent \cup k.lost : ~Absent(r)
  BY <1>1, <1>2, <1>4, <1>5
<1>7. recipient' = With(recipient, {}, "SKIPPED") /\ due' \subseteq due /\ faults' \in 0..MaxFaults
  BY <1>1 DEF With, RowsInv, TypeOK
<1> HIDE DEF rows
<1>8. /\ RowsInv' /\ Follows /\ worker'[w] = k
      /\ \A v \in Workers : v # w => worker'[v] = worker[v]
      /\ \A r \in Recipients : mail'[r] = IF r \in rows THEN "CLAIMED" ELSE mail[r]
  <2>1. Writes(w, k, rows, "CLAIMED", {})
    BY <1>1, <1>2, <1>6, <1>7 DEF Writes
  <2>2. QED BY <2>1, WorkerWrites
<1>9. ASSUME NEW r \in Recipients
      PROVE  delivered'[r] + Cardinality(InFlight(r)') + Again(r)' <= 1 + restored'[r]
  <2>1. /\ restored[r] \in Nat /\ delivered'[r] = delivered[r] /\ restored'[r] = restored[r]
    BY <1>1 DEF RowsInv, TypeOK
  <2>2. CASE r \in rows
    <3>1. Again(r) = 1 /\ Again(r)' = 0
      BY <1>2, <1>8, <2>2 DEF Again, Waiting
    <3>2. InFlight(r)' \subseteq InFlight(r) \cup {w}
      BY <1>1, <1>8 DEF InFlight, Flies
    <3>3. QED BY <1>8, <2>1, <3>1, <3>2, OneTakesOff
  <2>3. CASE r \notin rows
    <3>1. Again(r)' = Again(r) /\ Again(r) \in {0, 1}
      BY <1>1, <1>8, <2>3 DEF Again, Waiting
    <3>2. InFlight(r)' \subseteq InFlight(r)
      BY <1>1, <1>6, <1>8, <2>3 DEF InFlight, Flies
    <3>3. Again(r)' <= Again(r) /\ restored'[r] >= restored[r]
      BY <2>1, <3>1
    <3>4. QED BY <1>8, <2>1, <3>2, <3>3, NoMoreCopies
  <2>4. QED BY <2>2, <2>3
<1>10. QED BY <1>1, <1>6, <1>8, <1>9 DEF CopiesInv

LEMMA StopsKeepCopies ==
    ASSUME RowsInv, CopiesInv, NEW w \in Workers, AbortSync(w) \/ GuardAborts(w) \/ Crash(w)
    PROVE  RowsInv' /\ Follows /\ CopiesInv'
<1>1. /\ RowsInv' /\ Follows /\ worker'[w].pc = "idle"
      /\ \A v \in Workers : v # w => worker'[v] = worker[v]
      /\ UNCHANGED <<mail, delivered>>
  BY JustStops
<1>2. restored' = restored
  BY <1>1 DEF Follows
<1>3. QED BY <1>1, <1>2, CopiesStay

LEMMA GuardsPass ==
    ASSUME RowsInv, CopiesInv, NEW w \in Workers, GuardPasses(w)
    PROVE  /\ RowsInv' /\ Follows /\ CopiesInv' /\ UNCHANGED <<campaign, recipient>>
           /\ worker'[w].pc = "sending" /\ \A v \in Workers : v # w => worker'[v] = worker[v]
<1> DEFINE q == [worker[w] EXCEPT !.pc = "sending"]
<1>1. /\ UNCHANGED <<campaign, recipient, mail, due, admin, delivered, restored, late, requests, faults>>
      /\ worker' = [worker EXCEPT ![w] = q] /\ worker[w].pc = "claimed"
  BY DEF GuardPasses, At, history, bounds
<1>2. worker[w] \in WorkerState /\ GoodWorker(worker[w])
  BY DEF RowsInv, TypeOK
<1>3. /\ q \in WorkerState /\ q.pc = "sending" /\ q.row = worker[w].row /\ q.locked = worker[w].locked
      /\ q.sent = worker[w].sent /\ q.lost = worker[w].lost
  BY <1>2 DEF WorkerState
<1> HIDE DEF q
<1>4. GoodWorker(q)
  BY <1>1, <1>2, <1>3 DEF GoodWorker
<1>5. faults' \in 0..MaxFaults
  BY <1>1 DEF RowsInv, TypeOK
<1>6. RowsInv' /\ worker'[w] = q /\ \A v \in Workers : v # w => worker'[v] = worker[v]
  BY <1>1, <1>3, <1>4, <1>5, WorkerOnly
<1>7. ASSUME NEW r \in Recipients
      PROVE  delivered'[r] + Cardinality(InFlight(r)') + Again(r)' <= 1 + restored'[r]
  <2>1. InFlight(r)' \subseteq InFlight(r)
    BY <1>1, <1>3, <1>6 DEF InFlight, Flies
  <2>2. restored[r] \in Nat /\ Again(r)' = Again(r) /\ Again(r) \in {0, 1}
    BY <1>1 DEF Again, Waiting, RowsInv, TypeOK
  <2>3. delivered'[r] = delivered[r] /\ restored'[r] >= restored[r] /\ Again(r)' <= Again(r)
    BY <1>1, <2>2
  <2>4. QED BY <1>6, <2>1, <2>3, NoMoreCopies
<1>8. QED BY <1>1, <1>3, <1>6, <1>7, OnlyWorkerFollows DEF CopiesInv

\* The server's answer: a copy that it accepts has been in the air.
LEMMA Transmits ==
    ASSUME RowsInv, CopiesInv, NEW w \in Workers, NEW accepted \in BOOLEAN,
           NEW reply \in {"ok", "soft", "hard", "ambiguous"}, accepted => reply # "soft",
           Transmit(w, reply, accepted), faults' \in 0..MaxFaults
    PROVE  /\ RowsInv' /\ Follows /\ CopiesInv' /\ UNCHANGED <<campaign, recipient>>
           /\ worker'[w].pc = "replied" /\ \A v \in Workers : v # w => worker'[v] = worker[v]
<1> DEFINE q1 == [worker[w] EXCEPT !.pc = "replied"]
           q == [q1 EXCEPT !.reply = reply]
<1>1. /\ UNCHANGED <<campaign, recipient, mail, due, admin, restored, late, requests>>
      /\ worker' = [worker EXCEPT ![w] = q] /\ worker[w].pc = "sending"
      /\ delivered' = [r \in Recipients |->
                          delivered[r] + (IF accepted /\ r \in worker[w].row THEN 1 ELSE 0)]
  BY DEF Transmit, At, history
<1>2. /\ worker[w] \in WorkerState /\ GoodWorker(worker[w])
      /\ \A r \in worker[w].row : ~Absent(r)
  BY RowOfWorker DEF RowsInv
<1>3. /\ q1 \in WorkerState /\ q1.pc = "replied" /\ q1.row = worker[w].row /\ q1.locked = worker[w].locked
      /\ q1.sent = worker[w].sent /\ q1.lost = worker[w].lost
  BY <1>2 DEF WorkerState
<1> HIDE DEF q1
<1>4. /\ q \in WorkerState /\ q.pc = "replied" /\ q.row = worker[w].row /\ q.locked = worker[w].locked
      /\ q.sent = worker[w].sent /\ q.lost = worker[w].lost /\ q.reply = reply
  BY <1>3 DEF WorkerState
<1>5. PICK k \in WorkerState : k = q
  BY <1>4
<1> HIDE DEF q
<1>6. /\ worker' = [worker EXCEPT ![w] = k] /\ k.pc = "replied" /\ k.row = worker[w].row
      /\ k.locked = worker[w].locked /\ k.sent = worker[w].sent /\ k.lost = worker[w].lost /\ k.reply = reply
  BY <1>1, <1>4, <1>5
<1>7. Stays
  BY <1>1 DEF Stays, Absent
<1>8. GoodWorker(k)'
  BY <1>1, <1>2, <1>6 DEF GoodWorker, Absent
<1>9. /\ worker' \in [Workers -> WorkerState] /\ worker'[w] = k
      /\ \A v \in Workers : v # w => worker'[v] = worker[v]
      /\ \A v \in Workers : GoodWorker(worker[v])'
  BY <1>6, <1>7, <1>8, OneWorker
<1>10. admin' \in [Admins -> AdminState] /\ \A b \in Admins : GoodAdmin(admin[b])'
  BY <1>1, <1>7, SameAdmins
<1>11. \A r \in Recipients : delivered[r] \in Nat /\ delivered'[r] \in Nat
  BY <1>1 DEF RowsInv, TypeOK
<1>12. Rows'
  <2>1. delivered' \in [Recipients -> Nat]
    BY <1>1, <1>11
  <2>2. QED BY <1>1, <2>1 DEF RowsInv, TypeOK, Rows
<1>13. DraftInv'
  BY <1>1, <1>2 DEF RowsInv, DraftInv, Absent, TypeOK
<1>14. LockInv'
  BY <1>1, <1>6, <1>9, LocksStay
<1>15. RowsInv'
  BY <1>9, <1>10, <1>12, <1>13, <1>14, Assembled
<1>16. ASSUME NEW r \in Recipients
       PROVE  delivered'[r] + Cardinality(InFlight(r)') + Again(r)' <= 1 + restored'[r]
  <2>1. restored[r] \in Nat /\ restored'[r] = restored[r]
    BY <1>1 DEF RowsInv, TypeOK
  <2>2. CASE accepted /\ r \in worker[w].row
    <3>1. delivered'[r] = delivered[r] + 1 /\ delivered'[r] # 0
      BY <1>1, <1>11, <2>2
    <3>2. w \in InFlight(r)
      BY <1>1, <2>2 DEF InFlight, Flies
    <3>3. ~Flies(worker[w], r)'
      BY <1>6, <1>9, <2>2, <3>1 DEF Flies
    <3>4. \A v \in Workers : v # w /\ Flies(worker[v], r)' => Flies(worker[v], r)
      BY <1>9, <3>1 DEF Flies
    <3>5. InFlight(r)' \subseteq InFlight(r) \ {w}
      BY <3>3, <3>4 DEF InFlight
    <3>6. Again(r)' <= Again(r)
      BY <1>1, <3>1 DEF Again, Waiting
    <3>7. QED BY <1>15, <2>1, <3>1, <3>2, <3>5, <3>6, OneLands
  <2>3. CASE ~(accepted /\ r \in worker[w].row)
    <3>1. delivered'[r] = delivered[r]
      BY <1>1, <1>11, <2>3
    <3>2. InFlight(r)' \subseteq InFlight(r)
      BY <1>1, <1>6, <1>9, <3>1 DEF InFlight, Flies
    <3>3. Again(r)' <= Again(r) /\ restored'[r] >= restored[r]
      BY <1>1, <2>1, <3>1 DEF Again, Waiting
    <3>4. QED BY <1>15, <3>1, <3>2, <3>3, NoMoreCopies
  <2>4. QED BY <2>2, <2>3
<1>17. Follows
  BY <1>1, OnlyWorkerFollows
<1>18. QED BY <1>1, <1>6, <1>9, <1>15, <1>16, <1>17 DEF CopiesInv

LEMMA Answers ==
    ASSUME RowsInv, CopiesInv, NEW w \in Workers,
           Accepted(w) \/ Rejected(w) \/ Bounced(w) \/ Ambiguous(w)
    PROVE  /\ RowsInv' /\ Follows /\ CopiesInv' /\ UNCHANGED <<campaign, recipient>>
           /\ worker'[w].pc = "replied" /\ \A v \in Workers : v # w => worker'[v] = worker[v]
<1>1. faults \in 0..MaxFaults
  BY DEF RowsInv, TypeOK
<1>2. CASE Accepted(w)
  BY <1>1, <1>2, Transmits DEF Accepted
<1>3. CASE Rejected(w)
  <2>1. Transmit(w, "soft", FALSE) /\ Fault
    BY <1>3, Zenon DEF Rejected
  <2>2. faults' \in 0..MaxFaults
    BY <1>1, <2>1 DEF Fault
  <2>3. FALSE \in BOOLEAN /\ (FALSE => "soft" # "soft")
    OBVIOUS
  <2>4. QED BY <2>1, <2>2, <2>3, Transmits, Zenon
<1>4. CASE Bounced(w)
  BY <1>1, <1>4, Transmits DEF Bounced
<1>5. CASE Ambiguous(w)
  BY <1>1, <1>5, Transmits DEF Ambiguous, Fault
<1>6. QED BY <1>2, <1>3, <1>4, <1>5

\* What is due again has been in the air until now.
LEMMA Records ==
    ASSUME RowsInv, CopiesInv, NEW w \in Workers, Record(w)
    PROVE  /\ RowsInv' /\ Follows /\ CopiesInv' /\ UNCHANGED <<campaign, recipient>>
           /\ worker'[w].pc = "idle" /\ \A v \in Workers : v # w => worker'[v] = worker[v]
<1> DEFINE rows == worker[w].row
           m == StatusAfter(worker[w].reply)
<1>1. /\ mail' = With(mail, rows, m) /\ worker' = [worker EXCEPT ![w] = IdleWorker]
      /\ UNCHANGED <<campaign, recipient, admin, delivered, restored, late, requests, faults>>
      /\ due' \subseteq due /\ worker[w].pc = "replied" /\ MailFree(rows)
  BY DEF Record, At, Stops, history, bounds
<1>2. rows \subseteq Recipients /\ \A r \in rows : ~Absent(r)
  BY RowOfWorker
<1>3. /\ m \in {"SENT", "FAILED", "CANCELLED", "UNKNOWN"}
      /\ worker[w].reply = "soft" => m = "FAILED"
      /\ worker[w].reply \in {"ok", "hard"} => m \in {"SENT", "CANCELLED"}
      /\ worker[w].reply \notin {"ok", "hard", "soft"} => m = "UNKNOWN"
  BY DEF StatusAfter
<1>4. /\ IdleWorker \in WorkerState /\ IdleWorker.locked = {} /\ IdleWorker.pc # "picked"
      /\ \A r \in IdleWorker.row \cup IdleWorker.sent \cup IdleWorker.lost : ~Absent(r)
  BY IdleRecords DEF GoodWorker
<1>5. recipient' = With(recipient, {}, "SKIPPED") /\ faults' \in 0..MaxFaults
  BY <1>1 DEF With, RowsInv, TypeOK
<1>6. \A v \in Workers : worker[v].locked \cap rows = {}
  BY <1>1 DEF MailFree
<1> HIDE DEF rows, m
<1>7. /\ RowsInv' /\ Follows /\ worker'[w] = IdleWorker
      /\ \A v \in Workers : v # w => worker'[v] = worker[v]
      /\ \A r \in Recipients : mail'[r] = IF r \in rows THEN m ELSE mail[r]
  <2>1. Writes(w, IdleWorker, rows, m, {})
    BY <1>1, <1>2, <1>3, <1>4, <1>5, <1>6 DEF Writes
  <2>2. QED BY <2>1, WorkerWrites
<1>8. ASSUME NEW r \in Recipients
      PROVE  delivered'[r] + Cardinality(InFlight(r)') + Again(r)' <= 1 + restored'[r]
  <2>1. InFlight(r)' \subseteq InFlight(r) \ {w}
    BY <1>1, <1>7, IdleRecords DEF InFlight, Flies
  <2>2. /\ restored[r] \in Nat /\ Again(r) \in {0, 1} /\ Again(r)' \in {0, 1}
        /\ delivered'[r] = delivered[r] /\ restored'[r] = restored[r]
    BY <1>1 DEF Again, RowsInv, TypeOK
  <2>3. CASE Again(r)' <= Again(r)
    <3>1. restored'[r] >= restored[r] /\ InFlight(r)' \subseteq InFlight(r)
      BY <2>1, <2>2
    <3>2. QED BY <1>7, <2>2, <2>3, <3>1, NoMoreCopies
  <2>4. CASE ~(Again(r)' <= Again(r))
    <3>1. Again(r) = 0 /\ Again(r)' = 1
      BY <2>2, <2>4
    <3>2. r \in rows
      BY <1>1, <1>7, <3>1 DEF Again, Waiting
    <3>3. m = "FAILED" \/ (m = "UNKNOWN" /\ delivered[r] = 0)
      BY <1>1, <1>3, <1>7, <3>1, <3>2 DEF Again, Waiting
    <3>4. w \in InFlight(r)
      BY <1>1, <1>3, <3>2, <3>3 DEF InFlight, Flies, rows
    <3>5. QED BY <1>7, <2>1, <2>2, <3>1, <3>4, OneLands
  <2>5. QED BY <2>3, <2>4
<1>9. QED BY <1>1, <1>7, <1>8, IdleRecords DEF CopiesInv

-----------------------------------------------------------------------------
(* The customer, and time *)

LEMMA Replies ==
    ASSUME RowsInv, CopiesInv, NEW r \in Recipients, Reply(r)
    PROVE  RowsInv' /\ Follows /\ CopiesInv' /\ UNCHANGED <<campaign, worker>>
<1> DEFINE future == {x \in Recipients \ {r} : ContactOf[x] = ContactOf[r]
                                               /\ recipient[x] \in {"SCHEDULED", "QUEUED"}}
           waiting == {x \in future : Waiting(x)}
           skipped == With(recipient, future, "SKIPPED")
<1>1. /\ delivered[r] > 0 /\ recipient[r] \in {"QUEUED", "SENT"} /\ MailFree(waiting)
      /\ recipient' = [skipped EXCEPT ![r] = "REPLIED"]
      /\ mail' = With(mail, waiting, "CANCELLED")
      /\ UNCHANGED <<campaign, due, admin, worker, delivered, restored, late, requests, faults>>
  BY DEF Reply, history, bounds
<1>2. Rows
  BY DEF RowsInv, TypeOK, Rows
<1>3. /\ \A x \in future : x \in Recipients /\ recipient[x] \in {"SCHEDULED", "QUEUED"} /\ x # r
      /\ \A x \in waiting : x \in future /\ ~Absent(x)
  BY DEF Waiting, Absent
<1> HIDE DEF future, waiting
<1>4. "SKIPPED" \in RecipientStatus /\ "REPLIED" \in RecipientStatus /\ "CANCELLED" \in MailStatus
  BY DEF RecipientStatus, MailStatus
<1>5. /\ skipped \in [Recipients -> RecipientStatus]
      /\ \A x \in Recipients : skipped[x] = IF x \in future THEN "SKIPPED" ELSE recipient[x]
  BY <1>2, <1>4, RecipientWith DEF Rows
<1> HIDE DEF skipped
<1>6. /\ recipient' \in [Recipients -> RecipientStatus] /\ recipient'[r] = "REPLIED"
      /\ \A x \in Recipients : x # r => recipient'[x] = IF x \in future THEN "SKIPPED" ELSE recipient[x]
  BY <1>1, <1>4, <1>5
<1>7. /\ mail' \in [Recipients -> MailStatus]
      /\ \A x \in Recipients : mail'[x] = IF x \in waiting THEN "CANCELLED" ELSE mail[x]
  BY <1>1, <1>2, <1>4, MailWith DEF Rows
<1>8. Stays
  BY <1>7 DEF Stays, Absent
<1>9. worker' \in [Workers -> WorkerState] /\ \A v \in Workers : GoodWorker(worker[v])'
  BY <1>1, <1>8, SameWorkers
<1>10. admin' \in [Admins -> AdminState] /\ \A b \in Admins : GoodAdmin(admin[b])'
  BY <1>1, <1>8, SameAdmins
<1>11. ~Absent(r)
  BY <1>1, <1>2 DEF Absent, Rows
<1>12. Rows'
  <2>1. ASSUME NEW x \in Recipients, recipient'[x] \in {"QUEUED", "SENT", "REPLIED"}
        PROVE  mail'[x] # "ABSENT"
    BY <1>2, <1>6, <1>7, <1>11, <2>1 DEF Rows, Absent
  <2>2. QED BY <1>1, <1>2, <1>6, <1>7, <2>1 DEF Rows
<1>13. DraftInv'
  <2>1. ASSUME NEW x \in Recipients
        PROVE  /\ campaign'[CampaignOf[x]] = "DRAFT" => recipient'[x] = "SELECTED" /\ Absent(x)'
               /\ Absent(x)' => delivered'[x] = 0
    <3>1. /\ campaign[CampaignOf[x]] = "DRAFT" => recipient[x] = "SELECTED" /\ Absent(x)
          /\ Absent(x) => delivered[x] = 0
      BY DEF RowsInv, DraftInv
    <3>2. CASE x = r
      BY <1>1, <1>7, <3>1, <3>2 DEF Absent
    <3>3. CASE x # r
      BY <1>1, <1>3, <1>6, <1>7, <3>1, <3>3 DEF Absent
    <3>4. QED BY <3>2, <3>3
  <2>2. QED BY <2>1 DEF DraftInv
<1>14. LockInv'
  <2>1. \A v \in Workers : worker[v].locked \subseteq Recipients /\ worker[v].locked \cap waiting = {}
    BY <1>1 DEF RowsInv, TypeOK, WorkerState, MailFree
  <2>2. QED BY <1>1, <1>7, <1>9, <2>1, LocksStay
<1>15. RowsInv'
  BY <1>9, <1>10, <1>12, <1>13, <1>14, Assembled
<1>16. Follows
  <2>1. ASSUME NEW x \in Recipients
        PROVE  /\ mail'[x] = "HELD" => mail[x] = "HELD"
               /\ recipient'[x] \in {"SCHEDULED", "QUEUED"} => recipient'[x] = recipient[x]
               /\ Absent(x)' = Absent(x)
    BY <1>3, <1>6, <1>7 DEF Absent
  <2>2. QED BY <1>1, <2>1 DEF Follows, Scheduled
<1>17. ASSUME NEW x \in Recipients
       PROVE  delivered'[x] + Cardinality(InFlight(x)') + Again(x)' <= 1 + restored'[x]
  <2>1. InFlight(x)' \subseteq InFlight(x)
    BY <1>1 DEF InFlight, Flies
  <2>2. restored[x] \in Nat /\ Again(x)' <= Again(x)
    BY <1>1, <1>7 DEF Again, Waiting, RowsInv, TypeOK
  <2>3. delivered'[x] = delivered[x] /\ restored'[x] >= restored[x]
    BY <1>1, <2>2
  <2>4. QED BY <1>15, <2>1, <2>2, <2>3, NoMoreCopies
<1>18. QED BY <1>1, <1>15, <1>16, <1>17 DEF CopiesInv

LEMMA TimePasses ==
    ASSUME RowsInv, CopiesInv, NEW r \in Recipients, BecomeDue(r)
    PROVE  RowsInv' /\ Follows /\ CopiesInv' /\ UNCHANGED <<campaign, recipient, worker>>
<1>1. /\ due' = due \cup {r} /\ \A a \in Admins : admin[a].kind # "start"
      /\ UNCHANGED <<campaign, recipient, mail, admin, worker, delivered, restored, late, requests, faults>>
  BY DEF BecomeDue, history, bounds
<1>2. Stays
  BY <1>1 DEF Stays, Absent
<1>3. worker' \in [Workers -> WorkerState] /\ \A v \in Workers : GoodWorker(worker[v])'
  BY <1>1, <1>2, SameWorkers
<1>4. admin' \in [Admins -> AdminState] /\ \A b \in Admins : GoodAdmin(admin[b])'
  BY <1>1, <1>2, SameAdmins
<1>5. Rows' /\ DraftInv'
  BY <1>1 DEF RowsInv, TypeOK, Rows, DraftInv, Absent
<1>6. LockInv'
  BY <1>1, <1>3, LocksStay
<1>7. RowsInv'
  BY <1>3, <1>4, <1>5, <1>6, Assembled
<1>8. Follows
  BY <1>1 DEF Follows, Scheduled, Absent
<1>9. QED BY <1>1, <1>7, <1>8, CopiesStay

-----------------------------------------------------------------------------
(* Copies, and the requests *)

LEMMA RequestCopies ==
    ASSUME RowsInv, RowsInv', CopiesInv, UNCHANGED <<worker, delivered>>,
           \A r \in Recipients :
              \/ mail'[r] \in {mail[r], "HELD", "CANCELLED"} /\ restored'[r] = restored[r]
              \/ restored'[r] = restored[r] + 1
    PROVE  CopiesInv'
<1>1. ASSUME NEW r \in Recipients
      PROVE  delivered'[r] + Cardinality(InFlight(r)') + Again(r)' <= 1 + restored'[r]
  <2>1. InFlight(r)' = InFlight(r) /\ delivered'[r] = delivered[r]
    BY DEF InFlight, Flies
  <2>2. /\ delivered[r] \in Nat /\ restored[r] \in Nat
        /\ Again(r) \in {0, 1} /\ Again(r)' \in {0, 1}
    BY DEF Again, RowsInv, TypeOK
  <2>3. InFlight(r) \subseteq Workers
    BY DEF InFlight
  <2>4. Cardinality(InFlight(r)) \in Nat
    BY <2>3, Cardinalities
  <2>5. delivered[r] + Cardinality(InFlight(r)) + Again(r) <= 1 + restored[r]
    BY DEF CopiesInv
  <2>6. CASE restored'[r] = restored[r] + 1
    BY <2>1, <2>2, <2>4, <2>5, <2>6
  <2>7. CASE mail'[r] \in {mail[r], "HELD", "CANCELLED"} /\ restored'[r] = restored[r]
    <3>1. Again(r)' <= Again(r)
      BY <2>7 DEF Again, Waiting
    <3>2. QED BY <2>1, <2>2, <2>4, <2>5, <2>7, <3>1
  <2>8. QED BY <2>6, <2>7
<1>2. QED BY <1>1 DEF CopiesInv

LEMMA Begun ==
    ASSUME RowsInv, NEW a \in Admins, NEW c \in Campaigns,
           BeginStart(a, c) \/ BeginPause(a, c) \/ BeginResume(a, c) \/ BeginCancel(a, c)
    PROVE  /\ RowsInv' /\ \A b \in Admins : b # a => admin'[b] = admin[b]
           /\ admin'[a].pc = "loaded" /\ admin'[a].camp = c
           /\ admin'[a].kind = "start" => campaign[c] = "DRAFT"
           /\ UNCHANGED <<campaign, recipient, mail, due, worker, delivered, restored, late>>
<1> DEFINE selected == {r \in Members(c) : recipient[r] = "SELECTED"}
<1>1. PICK kind \in {"start", "pause", "resume", "cancel"}, rows \in SUBSET Members(c) :
         /\ Load(a, kind, c, rows) /\ (kind # "start" => rows = {})
         /\ (kind = "start" => campaign[c] = "DRAFT")
  <2>1. CASE BeginStart(a, c)
    <3>1. Load(a, "start", c, selected) /\ campaign[c] = "DRAFT" /\ selected \in SUBSET Members(c)
      BY <2>1 DEF BeginStart
    <3> HIDE DEF selected
    <3>2. QED BY <3>1
  <2>2. CASE BeginPause(a, c)
    BY <2>2 DEF BeginPause
  <2>3. CASE BeginResume(a, c)
    BY <2>3 DEF BeginResume
  <2>4. CASE BeginCancel(a, c)
    BY <2>4 DEF BeginCancel
  <2>5. QED BY <2>1, <2>2, <2>3, <2>4
<1>2. /\ RowsInv' /\ \A b \in Admins : b # a => admin'[b] = admin[b]
      /\ admin'[a].pc = "loaded" /\ admin'[a].kind = kind /\ admin'[a].camp = c
  BY <1>1, Begins
<1>3. UNCHANGED <<campaign, recipient, mail, due, worker, delivered, restored, late>>
  BY <1>1 DEF Load, history
<1>4. QED BY <1>1, <1>2, <1>3

\* Steps of a request that write no rows.
Reading(a) ==
    \/ \E c \in Campaigns : BeginStart(a, c) \/ BeginPause(a, c) \/ BeginResume(a, c) \/ BeginCancel(a, c)
    \/ ReadPaused(a) \/ ReadResumed(a) \/ ReadCancelled(a) \/ ReadReserved(a) \/ AbortAdmin(a)

LEMMA ReadingWritesNothing ==
    ASSUME RowsInv, NEW a \in Admins, Reading(a)
    PROVE  RowsInv' /\ UNCHANGED <<campaign, recipient, mail, due, worker, delivered, restored, late>>
<1>1. CASE \E c \in Campaigns :
              BeginStart(a, c) \/ BeginPause(a, c) \/ BeginResume(a, c) \/ BeginCancel(a, c)
  BY <1>1, Begun
<1>2. CASE ReadPaused(a) \/ ReadResumed(a) \/ ReadCancelled(a)
  BY <1>2, ThreeReads
<1>3. CASE ReadReserved(a)
  BY <1>3, ReadsReserved
<1>4. CASE AbortAdmin(a)
  BY <1>4, Aborts
<1>5. QED BY <1>1, <1>2, <1>3, <1>4 DEF Reading

LEMMA RequestsCopy ==
    ASSUME RowsInv, CopiesInv, NEW a \in Admins,
           Reading(a) \/ Pause(a) \/ Resume(a) \/ Cancel(a) \/ Start(a)
    PROVE  RowsInv' /\ CopiesInv'
<1>1. CASE Reading(a)
  BY <1>1, ReadingWritesNothing, RequestCopies
<1>2. CASE Pause(a)
  <2>1. /\ RowsInv' /\ UNCHANGED <<worker, delivered, restored>>
        /\ \A r \in Recipients : mail'[r] = IF r \in admin[a].mails THEN "HELD" ELSE mail[r]
    BY <1>2, Pauses
  <2>2. \A r \in Recipients : mail'[r] \in {mail[r], "HELD", "CANCELLED"} /\ restored'[r] = restored[r]
    BY <2>1
  <2>3. QED BY <2>1, <2>2, RequestCopies
<1>3. CASE Cancel(a)
  <2>1. /\ RowsInv' /\ UNCHANGED <<worker, delivered, restored>>
        /\ \A r \in Recipients : mail'[r] = IF r \in admin[a].mails THEN "CANCELLED" ELSE mail[r]
    BY <1>3, Cancels
  <2>2. \A r \in Recipients : mail'[r] \in {mail[r], "HELD", "CANCELLED"} /\ restored'[r] = restored[r]
    BY <2>1
  <2>3. QED BY <2>1, <2>2, RequestCopies
<1>4. CASE Resume(a)
  <2>1. /\ RowsInv' /\ UNCHANGED <<worker, delivered>>
        /\ \A r \in Recipients : mail'[r] = IF r \in admin[a].mails THEN "PENDING" ELSE mail[r]
        /\ \A r \in Recipients : restored'[r] = restored[r] + (IF r \in admin[a].mails THEN 1 ELSE 0)
    BY <1>4, Resumes
  <2>2. ASSUME NEW r \in Recipients
        PROVE  \/ mail'[r] \in {mail[r], "HELD", "CANCELLED"} /\ restored'[r] = restored[r]
               \/ restored'[r] = restored[r] + 1
    <3>1. restored[r] \in Nat
      BY DEF RowsInv, TypeOK
    <3>2. QED BY <2>1, <3>1
  <2>3. QED BY <2>1, <2>2, RequestCopies
<1>5. CASE Start(a)
  BY <1>5, Starts, RequestCopies
<1>6. QED BY <1>1, <1>2, <1>3, <1>4, <1>5

-----------------------------------------------------------------------------
(* No message is held in a campaign that runs *)

Opens(a, c) == admin[a].kind = "start" /\ admin[a].camp = c

\* While a start of a campaign is open, it has no message, and no slot of it is reached.
StartInv ==
    \A a \in Admins, r \in Recipients :
        Opens(a, CampaignOf[r]) => Absent(r) /\ (Scheduled(r) => r \notin due)

\* A campaign's row has one lock, and the resume that has it has seen all that is held.
OneChange == \A a, b \in Admins, c \in Campaigns : Changes(a, c) /\ Changes(b, c) => a = b
ResumeInv ==
    \A a \in Admins : Holds(a) /\ admin[a].kind = "resume" =>
        \A r \in Recipients : CampaignOf[r] = admin[a].camp /\ mail[r] = "HELD" => r \in admin[a].mails

HoldInv == StartInv /\ OneChange /\ ResumeInv /\ HeldOnlyWhilePaused

LEMMA OthersHold ==
    ASSUME RowsInv, HoldInv, Follows
    PROVE  HoldInv'
<1>1. StartInv' /\ OneChange'
  BY DEF HoldInv, StartInv, OneChange, Follows, Opens, Changes, Holds
<1>2. ResumeInv'
  BY DEF HoldInv, ResumeInv, Follows, Holds
<1>3. ASSUME NEW r \in Recipients, mail'[r] = "HELD", recipient'[r] = "QUEUED"
      PROVE  campaign'[CampaignOf[r]] # "RUNNING"
  <2>1. mail[r] = "HELD" /\ recipient[r] = "QUEUED" /\ CampaignOf[r] \in Campaigns
    BY <1>3 DEF Follows
  <2>2. campaign[CampaignOf[r]] # "RUNNING"
    BY <2>1 DEF HoldInv, HeldOnlyWhilePaused
  <2>3. QED BY <2>1, <2>2 DEF Follows
<1>4. QED BY <1>1, <1>2, <1>3 DEF HoldInv, HeldOnlyWhilePaused

LEMMA ReadingHolds ==
    ASSUME RowsInv, HoldInv, NEW a \in Admins, Reading(a)
    PROVE  HoldInv'
<1>1. UNCHANGED <<campaign, recipient, mail, due>>
  BY ReadingWritesNothing
<1>2. HeldOnlyWhilePaused'
  BY <1>1 DEF HoldInv, HeldOnlyWhilePaused
<1>3. CASE \E c \in Campaigns :
              BeginStart(a, c) \/ BeginPause(a, c) \/ BeginResume(a, c) \/ BeginCancel(a, c)
  <2>1. PICK c \in Campaigns :
           /\ \A b \in Admins : b # a => admin'[b] = admin[b]
           /\ admin'[a].pc = "loaded" /\ admin'[a].camp = c
           /\ admin'[a].kind = "start" => campaign[c] = "DRAFT"
    BY <1>3, Begun
  <2>2. StartInv'
    BY <1>1, <2>1 DEF HoldInv, StartInv, Opens, Absent, Scheduled, RowsInv, DraftInv
  <2>3. OneChange' /\ ResumeInv'
    BY <1>1, <2>1 DEF HoldInv, OneChange, ResumeInv, Changes, Holds
  <2>4. QED BY <1>2, <2>2, <2>3 DEF HoldInv
<1>4. CASE ReadPaused(a) \/ ReadResumed(a) \/ ReadCancelled(a)
  <2>1. /\ \A b \in Admins : b # a => admin'[b] = admin[b]
        /\ admin'[a].pc = "holding" /\ admin'[a].kind = admin[a].kind /\ admin'[a].camp = admin[a].camp
        /\ admin[a].kind \in {"pause", "resume", "cancel"}
        /\ admin[a].kind = "resume" =>
              admin'[a].mails = {r \in Members(admin[a].camp) : mail[r] = "HELD"}
        /\ CampaignFree(admin[a].camp)
    BY <1>4, ThreeReads
  <2>2. StartInv'
    BY <1>1, <2>1 DEF HoldInv, StartInv, Opens, Absent, Scheduled
  <2>3. OneChange'
    BY <2>1 DEF HoldInv, OneChange, Changes, Holds, CampaignFree
  <2>4. ResumeInv'
    BY <1>1, <2>1 DEF HoldInv, ResumeInv, Holds, Members
  <2>5. QED BY <1>2, <2>2, <2>3, <2>4 DEF HoldInv
<1>5. CASE ReadReserved(a) \/ AbortAdmin(a)
  <2>1. /\ \A b \in Admins : b # a => admin'[b] = admin[b]
        /\ \/ admin'[a].pc = "idle" /\ admin'[a].kind = "none"
           \/ admin'[a].kind = "start" /\ admin'[a].camp = admin[a].camp /\ admin[a].kind = "start"
    BY <1>5, ReadsReserved, Aborts
  <2>2. StartInv'
    BY <1>1, <2>1 DEF HoldInv, StartInv, Opens, Absent, Scheduled
  <2>3. OneChange' /\ ResumeInv'
    BY <1>1, <2>1 DEF HoldInv, OneChange, ResumeInv, Changes, Holds
  <2>4. QED BY <1>2, <2>2, <2>3 DEF HoldInv
<1>6. QED BY <1>3, <1>4, <1>5 DEF Reading

LEMMA WritingHolds ==
    ASSUME RowsInv, HoldInv, NEW a \in Admins, Pause(a) \/ Resume(a) \/ Cancel(a) \/ Start(a)
    PROVE  HoldInv'
<1>1. /\ \A r \in Recipients : CampaignOf[r] \in Campaigns
      /\ admin[a].mails \cup admin[a].rows \subseteq Recipients /\ admin[a].camp \in Campaigns
      /\ \A r \in admin[a].mails \cup admin[a].rows : CampaignOf[r] = admin[a].camp
      /\ admin[a].kind # "start" => \A r \in admin[a].mails : ~Absent(r)
      /\ admin[a].kind = "start" => admin[a].mails \subseteq admin[a].rows
  BY DEF RowsInv, TypeOK, AdminState, GoodAdmin, Members
<1>2. \A r \in Recipients : \A b \in Admins :
         Opens(b, CampaignOf[r]) => Absent(r) /\ (Scheduled(r) => r \notin due)
  BY DEF HoldInv, StartInv
<1>3. ASSUME \A b \in Admins : b # a => admin'[b] = admin[b], admin'[a].pc = "idle", admin'[a].kind = "none"
      PROVE  OneChange'
  BY <1>3 DEF HoldInv, OneChange, Changes, Holds
<1>4. CASE Pause(a)
  <2>1. /\ \A b \in Admins : b # a => admin'[b] = admin[b]
        /\ admin'[a].pc = "idle" /\ admin'[a].kind = "none"
        /\ Holds(a) /\ admin[a].kind = "pause" /\ due' = due
        /\ \A c \in Campaigns : campaign'[c] = IF c = admin[a].camp THEN "PAUSED" ELSE campaign[c]
        /\ \A r \in Recipients : mail'[r] = IF r \in admin[a].mails THEN "HELD" ELSE mail[r]
        /\ \A r \in Recipients : recipient'[r] = IF r \in admin[a].rows THEN "QUEUED" ELSE recipient[r]
    BY <1>4, Pauses
  <2>2. \A r \in admin[a].rows : ~Absent(r)
    BY <2>1 DEF RowsInv, GoodAdmin
  <2>3. StartInv'
    BY <1>1, <1>2, <2>1, <2>2 DEF StartInv, Opens, Absent, Scheduled
  <2>4. ResumeInv'
    BY <1>1, <2>1 DEF HoldInv, ResumeInv, OneChange, Changes, Holds
  <2>5. HeldOnlyWhilePaused'
    BY <1>1, <2>1 DEF HoldInv, HeldOnlyWhilePaused
  <2>6. QED BY <1>3, <2>1, <2>3, <2>4, <2>5 DEF HoldInv
<1>5. CASE Resume(a)
  <2>1. /\ \A b \in Admins : b # a => admin'[b] = admin[b]
        /\ admin'[a].pc = "idle" /\ admin'[a].kind = "none"
        /\ Holds(a) /\ admin[a].kind = "resume" /\ due' = due \cup admin[a].mails /\ recipient' = recipient
        /\ \A c \in Campaigns : campaign'[c] = IF c = admin[a].camp THEN "RUNNING" ELSE campaign[c]
        /\ \A r \in Recipients : mail'[r] = IF r \in admin[a].mails THEN "PENDING" ELSE mail[r]
    BY <1>5, Resumes
  <2>2. StartInv'
    BY <1>1, <1>2, <2>1 DEF StartInv, Opens, Absent, Scheduled
  <2>3. ResumeInv'
    BY <1>1, <2>1 DEF HoldInv, ResumeInv, Holds
  <2>4. \A r \in Recipients : CampaignOf[r] = admin[a].camp => mail'[r] # "HELD"
    BY <2>1 DEF HoldInv, ResumeInv
  <2>5. HeldOnlyWhilePaused'
    BY <1>1, <2>1, <2>4 DEF HoldInv, HeldOnlyWhilePaused
  <2>6. QED BY <1>3, <2>1, <2>2, <2>3, <2>5 DEF HoldInv
<1>6. CASE Cancel(a)
  <2>1. /\ \A b \in Admins : b # a => admin'[b] = admin[b]
        /\ admin'[a].pc = "idle" /\ admin'[a].kind = "none"
        /\ Holds(a) /\ admin[a].kind = "cancel" /\ due' = due
        /\ \A c \in Campaigns : campaign'[c] = IF c = admin[a].camp THEN "CANCELLED" ELSE campaign[c]
        /\ \A r \in Recipients : mail'[r] = IF r \in admin[a].mails THEN "CANCELLED" ELSE mail[r]
        /\ \A r \in Recipients : recipient'[r] = IF r \in admin[a].rows THEN "SKIPPED" ELSE recipient[r]
    BY <1>6, Cancels
  <2>2. StartInv'
    BY <1>1, <1>2, <2>1 DEF StartInv, Opens, Absent, Scheduled
  <2>3. ResumeInv'
    BY <1>1, <2>1 DEF HoldInv, ResumeInv, Holds
  <2>4. HeldOnlyWhilePaused'
    BY <1>1, <2>1 DEF HoldInv, HeldOnlyWhilePaused
  <2>5. QED BY <1>3, <2>1, <2>2, <2>3, <2>4 DEF HoldInv
<1>7. CASE Start(a)
  <2>1. /\ \A b \in Admins : b # a => admin'[b] = admin[b]
        /\ admin'[a].pc = "idle" /\ admin'[a].kind = "none"
        /\ Holds(a) /\ admin[a].kind = "start" /\ mail' = mail /\ due' = due \ admin[a].mails
        /\ \A c \in Campaigns : campaign'[c] = IF c = admin[a].camp THEN "RUNNING" ELSE campaign[c]
        /\ \A r \in Recipients :
              recipient'[r] = IF r \in admin[a].mails THEN "SCHEDULED"
                              ELSE IF r \in admin[a].rows THEN "EXCLUDED" ELSE recipient[r]
    BY <1>7, Starts
  <2>2. StartInv'
    <3>1. ASSUME NEW b \in Admins, NEW r \in Recipients, Opens(b, CampaignOf[r])'
          PROVE  Absent(r)' /\ (Scheduled(r)' => r \notin due')
      <4>1. Opens(b, CampaignOf[r])
        BY <2>1, <3>1 DEF Opens
      <4>2. QED BY <1>1, <1>2, <2>1, <4>1 DEF Absent, Scheduled
    <3>2. QED BY <3>1 DEF StartInv
  <2>3. ResumeInv'
    BY <2>1 DEF HoldInv, ResumeInv, Holds
  <2>4. \A r \in Recipients : CampaignOf[r] = admin[a].camp => mail[r] # "HELD"
    BY <1>2, <2>1 DEF Opens, Absent
  <2>5. \A r \in Recipients : CampaignOf[r] # admin[a].camp => recipient'[r] = recipient[r]
    BY <1>1, <2>1
  <2>6. HeldOnlyWhilePaused'
    BY <1>1, <2>1, <2>4, <2>5 DEF HoldInv, HeldOnlyWhilePaused
  <2>7. QED BY <1>3, <2>1, <2>2, <2>3, <2>6 DEF HoldInv
<1>8. QED BY <1>4, <1>5, <1>6, <1>7

-----------------------------------------------------------------------------
(* One schedule for each person *)

Late(r) == CampaignOf[r] \in late
Starting(a) == Holds(a) /\ admin[a].kind = "start"

LiveInv == \A r \in Recipients : Scheduled(r) /\ ~Late(r) => campaign[CampaignOf[r]] \in {"RUNNING", "PAUSED"}

\* Who is about to close a campaign takes along all that is scheduled.
CancelInv ==
    \A a \in Admins : Holds(a) /\ admin[a].kind = "cancel" =>
        \A r \in Recipients : CampaignOf[r] = admin[a].camp /\ Scheduled(r) => r \in admin[a].rows
DoneInv ==
    \A w \in Workers : At(w, "counted") =>
        /\ \A c \in worker[w].done : campaign[c] # "DRAFT"
        /\ \A r \in Recipients : CampaignOf[r] \in worker[w].done /\ Scheduled(r) /\ ~Late(r) =>
              r \in worker[w].sent \cup worker[w].lost

\* Two starts that have read the reservations share no contact, and nobody else has
\* scheduled the contacts of one.
StartLocks ==
    \A a, b \in Admins : a # b /\ Starting(a) /\ Starting(b) =>
        \A r \in admin[a].rows, s \in admin[b].rows : ContactOf[r] # ContactOf[s]
PendingStart ==
    \A a \in Admins : Starting(a) =>
        \A r \in admin[a].mails, x \in Recipients :
            ContactOf[x] = ContactOf[r] /\ Scheduled(x) => Late(x) \/ CampaignOf[x] = admin[a].camp

OnceInv ==
    /\ LiveInv /\ CancelInv /\ DoneInv /\ StartLocks /\ PendingStart
    /\ ScheduledOnce

LEMMA FewerScheduled ==
    ASSUME RowsInv, OnceInv, late' = late, \A r \in Recipients : Scheduled(r)' => Scheduled(r)
    PROVE  ScheduledOnce'
BY DEF OnceInv, ScheduledOnce, Scheduled

LEMMA DoneStays ==
    ASSUME RowsInv, OnceInv, late \subseteq late',
           \A c \in Campaigns : campaign[c] # "DRAFT" => campaign'[c] # "DRAFT",
           \A r \in Recipients : Scheduled(r)' => Scheduled(r) \/ Late(r)' \/ campaign[CampaignOf[r]] = "DRAFT",
           \A w \in Workers : worker'[w] = worker[w] \/ worker'[w].pc # "counted"
    PROVE  DoneInv'
<1>1. ASSUME NEW w \in Workers, At(w, "counted")'
      PROVE  /\ \A c \in worker'[w].done : campaign'[c] # "DRAFT"
             /\ \A r \in Recipients : CampaignOf[r] \in worker'[w].done /\ Scheduled(r)' /\ ~Late(r)' =>
                   r \in worker'[w].sent \cup worker'[w].lost
  <2>1. worker'[w] = worker[w] /\ At(w, "counted") /\ worker[w].done \subseteq Campaigns
    BY <1>1 DEF At, RowsInv, TypeOK, WorkerState
  <2>2. /\ \A c \in worker[w].done : campaign[c] # "DRAFT"
        /\ \A r \in Recipients : CampaignOf[r] \in worker[w].done /\ Scheduled(r) /\ ~Late(r) =>
              r \in worker[w].sent \cup worker[w].lost
    BY <2>1 DEF OnceInv, DoneInv
  <2>3. QED BY <2>1, <2>2 DEF Late
<1>2. QED BY <1>1 DEF DoneInv

LEMMA OthersOnce ==
    ASSUME RowsInv, OnceInv, Follows, LiveInv', DoneInv'
    PROVE  OnceInv'
<1>1. late' = late /\ admin' = admin /\ \A r \in Recipients : Scheduled(r)' => Scheduled(r)
  BY DEF Follows
<1>2. ScheduledOnce'
  BY <1>1, FewerScheduled
<1>3. CancelInv' /\ StartLocks'
  BY <1>1 DEF OnceInv, CancelInv, StartLocks, Holds, Starting
<1>4. PendingStart'
  BY <1>1 DEF OnceInv, PendingStart, Holds, Starting, Late
<1>5. QED BY <1>2, <1>3, <1>4 DEF OnceInv

LEMMA QuietWorkersOnce ==
    ASSUME RowsInv, OnceInv, Follows, campaign' = campaign,
           \A w \in Workers : worker'[w] = worker[w] \/ worker'[w].pc # "counted"
    PROVE  OnceInv'
<1>1. late' = late /\ \A r \in Recipients : Scheduled(r)' => Scheduled(r)
  BY DEF Follows
<1>2. LiveInv'
  BY <1>1 DEF OnceInv, LiveInv, Late
<1>3. DoneInv'
  BY <1>1, DoneStays
<1>4. QED BY <1>2, <1>3, OthersOnce

LEMMA CountingOnce ==
    ASSUME RowsInv, CopiesInv, OnceInv, NEW w \in Workers, SyncCount(w)
    PROVE  OnceInv'
<1> DEFINE marked == worker[w].sent \cup worker[w].lost
<1>1. /\ Follows /\ UNCHANGED <<campaign, recipient>>
      /\ \A v \in Workers : v # w => worker'[v] = worker[v]
      /\ worker'[w].sent = worker[w].sent /\ worker'[w].lost = worker[w].lost
      /\ worker'[w].done = {c \in Campaigns : Exhausted(c, marked)}
  BY SyncsCount
<1>2. late' = late
  BY <1>1 DEF Follows
<1>3. LiveInv'
  BY <1>1, <1>2 DEF OnceInv, LiveInv, Late, Scheduled
<1>4. ASSUME NEW v \in Workers, At(v, "counted")'
      PROVE  /\ \A c \in worker'[v].done : campaign'[c] # "DRAFT"
             /\ \A r \in Recipients : CampaignOf[r] \in worker'[v].done /\ Scheduled(r)' /\ ~Late(r)' =>
                   r \in worker'[v].sent \cup worker'[v].lost
  <2>1. CASE v = w
    BY <1>1, <2>1 DEF Exhausted, Members, Scheduled
  <2>2. CASE v # w
    BY <1>1, <1>2, <1>4, <2>2 DEF OnceInv, DoneInv, At, Late, Scheduled
  <2>3. QED BY <2>1, <2>2
<1>5. QED BY <1>1, <1>3, <1>4, OthersOnce DEF DoneInv

LEMMA CommittingOnce ==
    ASSUME RowsInv, CopiesInv, OnceInv, NEW w \in Workers, SyncCommit(w)
    PROVE  OnceInv'
<1>1. /\ Follows /\ At(w, "counted")
      /\ worker'[w].pc = "idle" /\ \A v \in Workers : v # w => worker'[v] = worker[v]
      /\ \A c \in Campaigns : campaign'[c] = IF c \in worker[w].done THEN "COMPLETED" ELSE campaign[c]
      /\ \A r \in worker[w].sent \cup worker[w].lost : ~Scheduled(r)'
  BY SyncsCommit
<1>2. late' = late /\ \A r \in Recipients : Scheduled(r)' => Scheduled(r)
  BY <1>1 DEF Follows
<1>3. ASSUME NEW r \in Recipients, Scheduled(r)', ~Late(r)'
      PROVE  campaign'[CampaignOf[r]] \in {"RUNNING", "PAUSED"}
  <2>1. Scheduled(r) /\ ~Late(r) /\ CampaignOf[r] \in Campaigns
    BY <1>2, <1>3 DEF Late
  <2>2. CampaignOf[r] \notin worker[w].done
    BY <1>1, <1>3, <2>1 DEF OnceInv, DoneInv
  <2>3. QED BY <1>1, <2>1, <2>2 DEF OnceInv, LiveInv
<1>4. DoneInv'
  BY <1>1, <1>2, DoneStays
<1>5. QED BY <1>1, <1>3, <1>4, OthersOnce DEF LiveInv

\* A request that writes no rows may have read those of a start, or of a cancellation.
LEMMA ReadingOnce ==
    ASSUME RowsInv, OnceInv, NEW a \in Admins, Reading(a)
    PROVE  OnceInv'
<1>1. UNCHANGED <<campaign, recipient, worker, late>>
  BY ReadingWritesNothing
<1>2. LiveInv' /\ DoneInv' /\ ScheduledOnce'
  BY <1>1 DEF OnceInv, LiveInv, DoneInv, ScheduledOnce, Scheduled, Late, At
<1>3. CASE \E c \in Campaigns :
              BeginStart(a, c) \/ BeginPause(a, c) \/ BeginResume(a, c) \/ BeginCancel(a, c)
  <2>1. (\A b \in Admins : b # a => admin'[b] = admin[b]) /\ admin'[a].pc = "loaded"
    BY <1>3, Begun
  <2>2. CancelInv' /\ StartLocks' /\ PendingStart'
    BY <1>1, <2>1 DEF OnceInv, CancelInv, StartLocks, PendingStart, Holds, Starting, Scheduled, Late
  <2>3. QED BY <1>2, <2>2 DEF OnceInv
<1>4. CASE ReadPaused(a) \/ ReadResumed(a) \/ ReadCancelled(a)
  <2>1. /\ \A b \in Admins : b # a => admin'[b] = admin[b]
        /\ admin'[a].pc = "holding" /\ admin'[a].kind = admin[a].kind /\ admin'[a].camp = admin[a].camp
        /\ admin[a].kind \in {"pause", "resume", "cancel"}
        /\ admin[a].kind = "cancel" =>
              admin'[a].rows = {r \in Members(admin[a].camp) : recipient[r] \in {"SCHEDULED", "QUEUED"}}
    BY <1>4, ThreeReads
  <2>2. CancelInv'
    BY <1>1, <2>1 DEF OnceInv, CancelInv, Holds, Scheduled, Members
  <2>3. StartLocks' /\ PendingStart'
    BY <1>1, <2>1 DEF OnceInv, StartLocks, PendingStart, Holds, Starting, Scheduled, Late
  <2>4. QED BY <1>2, <2>2, <2>3 DEF OnceInv
<1>5. CASE ReadReserved(a)
  <2>1. /\ \A b \in Admins : b # a => admin'[b] = admin[b]
        /\ \/ admin'[a].pc = "idle" /\ admin'[a].kind = "none"
           \/ /\ admin'[a].pc = "holding" /\ admin'[a].kind = "start" /\ admin'[a].camp = admin[a].camp
              /\ admin'[a].rows = admin[a].rows
              /\ admin'[a].mails = {r \in admin[a].rows : ~Reserved(r)}
        /\ ContactsFree(admin[a].rows)
    BY <1>5, ReadsReserved
  <2>2. CancelInv'
    BY <1>1, <2>1 DEF OnceInv, CancelInv, Holds, Scheduled
  <2>3. \A r \in admin[a].rows : r \in Recipients /\ CampaignOf[r] = admin[a].camp
    BY DEF RowsInv, TypeOK, AdminState, GoodAdmin, Members
  <2>4. \A b \in Admins : Starting(b) =>
           \A r \in admin[a].rows, s \in admin[b].rows : ContactOf[r] # ContactOf[s]
    BY <2>1 DEF ContactsFree, Starting
  <2>5. StartLocks'
    BY <2>1, <2>4 DEF OnceInv, StartLocks, Holds, Starting
  <2>6. ASSUME NEW r \in admin[a].rows, ~Reserved(r), NEW x \in Recipients,
               ContactOf[x] = ContactOf[r], Scheduled(x)
        PROVE  Late(x) \/ CampaignOf[x] = admin[a].camp
    BY <2>3, <2>6 DEF OnceInv, LiveInv, Reserved, Scheduled
  <2>7. PendingStart'
    BY <1>1, <2>1, <2>6 DEF OnceInv, PendingStart, Holds, Starting, Scheduled, Late
  <2>8. QED BY <1>2, <2>2, <2>5, <2>7 DEF OnceInv
<1>6. CASE AbortAdmin(a)
  <2>1. (\A b \in Admins : b # a => admin'[b] = admin[b]) /\ admin'[a].pc = "idle"
    BY <1>6, Aborts
  <2>2. CancelInv' /\ StartLocks' /\ PendingStart'
    BY <1>1, <2>1 DEF OnceInv, CancelInv, StartLocks, PendingStart, Holds, Starting, Scheduled, Late
  <2>3. QED BY <1>2, <2>2 DEF OnceInv
<1>7. QED BY <1>3, <1>4, <1>5, <1>6 DEF Reading

\* A request that schedules nobody and opens or closes its campaign.
LEMMA ClosingOnce ==
    ASSUME RowsInv, OnceInv, NEW a \in Admins, Pause(a) \/ Resume(a) \/ Cancel(a)
    PROVE  OnceInv'
<1> DEFINE c == admin[a].camp
<1>1. /\ \A b \in Admins : b # a => admin'[b] = admin[b]
      /\ admin'[a].pc = "idle" /\ Holds(a) /\ UNCHANGED <<worker, late>>
      /\ \A r \in Recipients : Scheduled(r)' => Scheduled(r)
      /\ \E v \in {"PAUSED", "RUNNING", "CANCELLED"} :
            /\ \A d \in Campaigns : campaign'[d] = IF d = c THEN v ELSE campaign[d]
            /\ v = "CANCELLED" => \A r \in Recipients : CampaignOf[r] = c => ~Scheduled(r)'
  <2>1. CASE Pause(a)
    BY <2>1, Pauses DEF Scheduled
  <2>2. CASE Resume(a)
    BY <2>2, Resumes DEF Scheduled
  <2>3. CASE Cancel(a)
    <3>1. /\ \A b \in Admins : b # a => admin'[b] = admin[b]
          /\ admin'[a].pc = "idle" /\ Holds(a) /\ UNCHANGED <<worker, late>> /\ admin[a].kind = "cancel"
          /\ \A d \in Campaigns : campaign'[d] = IF d = c THEN "CANCELLED" ELSE campaign[d]
          /\ \A r \in Recipients : recipient'[r] = IF r \in admin[a].rows THEN "SKIPPED" ELSE recipient[r]
      BY <2>3, Cancels
    <3>2. \A r \in Recipients : CampaignOf[r] = c /\ Scheduled(r) => r \in admin[a].rows
      BY <3>1 DEF OnceInv, CancelInv
    <3>3. /\ \A r \in Recipients : Scheduled(r)' => Scheduled(r)
          /\ \A r \in Recipients : CampaignOf[r] = c => ~Scheduled(r)'
      BY <3>1, <3>2 DEF Scheduled
    <3>4. QED BY <3>1, <3>3
  <2>4. QED BY <2>1, <2>2, <2>3
<1>2. LiveInv'
  <2>1. \A r \in Recipients : CampaignOf[r] \in Campaigns
    OBVIOUS
  <2>2. QED BY <1>1, <2>1 DEF OnceInv, LiveInv, Late
<1>3. CancelInv' /\ StartLocks' /\ PendingStart'
  BY <1>1 DEF OnceInv, CancelInv, StartLocks, PendingStart, Holds, Starting, Late
<1>4. DoneInv'
  <2>1. \A d \in Campaigns : campaign[d] # "DRAFT" => campaign'[d] # "DRAFT"
    BY <1>1
  <2>2. QED BY <1>1, <2>1, DoneStays
<1>5. ScheduledOnce'
  BY <1>1, FewerScheduled
<1>6. QED BY <1>2, <1>3, <1>4, <1>5 DEF OnceInv

\* A start schedules contacts that nobody else has scheduled.
LEMMA StartingOnce ==
    ASSUME RowsInv, OnceInv, NEW a \in Admins, Start(a)
    PROVE  OnceInv'
<1> DEFINE c == admin[a].camp
<1>1. /\ \A b \in Admins : b # a => admin'[b] = admin[b]
      /\ admin'[a].pc = "idle" /\ Starting(a) /\ CampaignFree(c) /\ worker' = worker
      /\ \A d \in Campaigns : campaign'[d] = IF d = c THEN "RUNNING" ELSE campaign[d]
      /\ \A r \in Recipients :
            recipient'[r] = IF r \in admin[a].mails THEN "SCHEDULED"
                            ELSE IF r \in admin[a].rows THEN "EXCLUDED" ELSE recipient[r]
      /\ late \subseteq late' /\ (campaign[c] # "DRAFT" => c \in late')
      /\ \A r \in admin[a].mails : r \in admin[a].rows /\ CampaignOf[r] = c
  BY Starts DEF Starting
<1>2. \A r \in Recipients : CampaignOf[r] \in Campaigns /\ (Late(r) => Late(r)')
  BY <1>1 DEF Late
<1>3. \A r \in Recipients : Scheduled(r)' => Scheduled(r) \/ r \in admin[a].mails
  BY <1>1 DEF Scheduled
<1>4. admin[a].mails \subseteq Recipients /\ admin[a].rows \subseteq Recipients
  BY DEF RowsInv, TypeOK, AdminState
<1>5. LiveInv'
  BY <1>1, <1>2, <1>3 DEF OnceInv, LiveInv
<1>6. CancelInv'
  <2>1. ASSUME NEW b \in Admins, Holds(b)', admin'[b].kind = "cancel",
               NEW r \in Recipients, CampaignOf[r] = admin'[b].camp, Scheduled(r)'
        PROVE  r \in admin'[b].rows
    <3>1. b # a /\ Holds(b) /\ admin'[b] = admin[b]
      BY <1>1, <2>1 DEF Holds
    <3>2. ~Changes(b, c)
      BY <1>1 DEF CampaignFree
    <3>3. admin[b].camp # c
      BY <2>1, <3>1, <3>2 DEF Changes
    <3>4. Scheduled(r)
      BY <1>1, <1>3, <2>1, <3>1, <3>3
    <3>5. QED BY <2>1, <3>1, <3>4 DEF OnceInv, CancelInv
  <2>2. QED BY <2>1 DEF CancelInv
<1>7. DoneInv'
  <2>1. \A d \in Campaigns : campaign[d] # "DRAFT" => campaign'[d] # "DRAFT"
    BY <1>1
  <2>2. \A r \in Recipients : Scheduled(r)' => Scheduled(r) \/ Late(r)' \/ campaign[CampaignOf[r]] = "DRAFT"
    BY <1>1, <1>3 DEF Late
  <2>3. QED BY <1>1, <2>1, <2>2, DoneStays
<1>8. StartLocks'
  BY <1>1 DEF OnceInv, StartLocks, Starting, Holds
<1>9. PendingStart'
  <2>1. ASSUME NEW b \in Admins, Starting(b)', NEW r \in admin'[b].mails, NEW x \in Recipients,
               ContactOf[x] = ContactOf[r], Scheduled(x)'
        PROVE  Late(x)' \/ CampaignOf[x] = admin'[b].camp
    <3>1. b # a /\ Starting(b) /\ admin'[b] = admin[b]
      BY <1>1, <2>1 DEF Starting, Holds
    <3>2. r \in admin[b].rows
      BY <2>1, <3>1 DEF RowsInv, GoodAdmin, Starting
    <3>3. x \notin admin[a].mails
      BY <1>1, <2>1, <3>1, <3>2 DEF OnceInv, StartLocks
    <3>4. Scheduled(x)
      BY <1>3, <2>1, <3>3
    <3>5. Late(x) \/ CampaignOf[x] = admin[b].camp
      BY <2>1, <3>1, <3>4 DEF OnceInv, PendingStart
    <3>6. QED BY <1>2, <3>1, <3>5
  <2>2. QED BY <2>1 DEF PendingStart
<1>10. ScheduledOnce'
  <2>1. ASSUME NEW x \in Recipients, NEW y \in Recipients, x # y, ContactOf[x] = ContactOf[y],
               x \in admin[a].mails, Scheduled(y)'
        PROVE  Late(y)'
    <3>1. CampaignOf[y] # c
      BY <1>1, <2>1
    <3>2. Scheduled(y)
      BY <1>1, <1>3, <2>1, <3>1
    <3>3. Late(y) \/ CampaignOf[y] = c
      BY <1>1, <2>1, <3>2 DEF OnceInv, PendingStart
    <3>4. QED BY <1>2, <3>1, <3>3
  <2>2. ASSUME NEW x \in Recipients, NEW y \in Recipients, x # y, ContactOf[x] = ContactOf[y],
               Scheduled(x)', Scheduled(y)'
        PROVE  Late(x)' \/ Late(y)'
    <3>1. CASE x \in admin[a].mails
      BY <2>1, <2>2, <3>1
    <3>2. CASE y \in admin[a].mails
      BY <2>1, <2>2, <3>2
    <3>3. CASE x \notin admin[a].mails /\ y \notin admin[a].mails
      <4>1. Scheduled(x) /\ Scheduled(y)
        BY <1>3, <2>2, <3>3
      <4>2. Late(x) \/ Late(y)
        BY <2>2, <4>1 DEF OnceInv, ScheduledOnce, Scheduled, Late
      <4>3. QED BY <1>2, <4>2
    <3>4. QED BY <3>1, <3>2, <3>3
  <2>3. QED BY <2>2 DEF ScheduledOnce, Scheduled, Late
<1>11. QED BY <1>5, <1>6, <1>7, <1>8, <1>9, <1>10 DEF OnceInv

-----------------------------------------------------------------------------
(* The specification *)

SafeInv == RowsInv /\ CopiesInv /\ HoldInv /\ OnceInv

LEMMA InitSafe == Init => SafeInv
<1> SUFFICES ASSUME Init PROVE SafeInv
  OBVIOUS
<1>1. /\ campaign = [c \in Campaigns |-> "DRAFT"] /\ recipient = [r \in Recipients |-> "SELECTED"]
      /\ mail = [r \in Recipients |-> "ABSENT"] /\ due = {}
      /\ admin = [a \in Admins |-> IdleAdmin] /\ worker = [w \in Workers |-> IdleWorker]
      /\ delivered = [r \in Recipients |-> 0] /\ restored = [r \in Recipients |-> 0]
      /\ late = {} /\ requests = 0 /\ faults = 0
  BY DEF Init
<1>2. TypeOK
  BY <1>1, IdleRecords DEF TypeOK, CampaignStatus, RecipientStatus, MailStatus
<1>3. DraftInv
  BY <1>1 DEF DraftInv, Absent
<1>4. LockInv
  BY <1>1, IdleRecords DEF LockInv
<1>5. RowsInv
  BY <1>1, <1>2, <1>3, <1>4, IdleRecords DEF RowsInv
<1>6. CopiesInv
  <2>1. ASSUME NEW r \in Recipients
        PROVE  delivered[r] + Cardinality(InFlight(r)) + Again(r) <= 1 + restored[r]
    <3>1. InFlight(r) = {}
      BY <1>1, IdleRecords DEF InFlight, Flies
    <3>2. Cardinality(InFlight(r)) = 0 /\ Again(r) \in {0, 1}
      BY <3>1, FS_EmptySet DEF Again
    <3>3. QED BY <1>1, <3>2
  <2>2. QED BY <2>1 DEF CopiesInv
<1>7. HoldInv
  BY <1>1, IdleRecords DEF HoldInv, StartInv, OneChange, ResumeInv, HeldOnlyWhilePaused, Opens, Changes, Holds
<1>8. OnceInv
  BY <1>1, IdleRecords DEF OnceInv, LiveInv, CancelInv, DoneInv, StartLocks, PendingStart, ScheduledOnce,
     Scheduled, Starting, Holds, At
<1>9. QED BY <1>5, <1>6, <1>7, <1>8 DEF SafeInv

LEMMA RequestsSafe ==
    ASSUME SafeInv, NEW a \in Admins,
           Reading(a) \/ Pause(a) \/ Resume(a) \/ Cancel(a) \/ Start(a)
    PROVE  SafeInv'
<1>1. RowsInv /\ CopiesInv /\ HoldInv /\ OnceInv
  BY DEF SafeInv
<1>2. RowsInv' /\ CopiesInv'
  BY <1>1, RequestsCopy
<1>3. HoldInv'
  BY <1>1, ReadingHolds, WritingHolds
<1>4. OnceInv'
  BY <1>1, ReadingOnce, ClosingOnce, StartingOnce
<1>5. QED BY <1>2, <1>3, <1>4 DEF SafeInv

\* Everything that is not a request, and does not count or close campaigns.
LEMMA QuietSafe ==
    ASSUME SafeInv, RowsInv', Follows, CopiesInv', campaign' = campaign,
           \A w \in Workers : worker'[w] = worker[w] \/ worker'[w].pc # "counted"
    PROVE  SafeInv'
BY OthersHold, QuietWorkersOnce DEF SafeInv

LEMMA WorkersSafe ==
    ASSUME SafeInv, NEW w \in Workers,
           \/ Continue(w) \/ SyncRead(w) \/ Defer(w) \/ Rejected(w) \/ Ambiguous(w) \/ Crash(w)
           \/ \E r \in Recipients : Pick(w, r)
    PROVE  SafeInv'
<1>1. RowsInv /\ CopiesInv /\ HoldInv /\ OnceInv
  BY DEF SafeInv
<1>2. CASE SyncCount(w)
  <2>1. RowsInv' /\ Follows /\ CopiesInv'
    BY <1>1, <1>2, SyncsCount
  <2>2. QED BY <1>1, <1>2, <2>1, OthersHold, CountingOnce DEF SafeInv
<1>3. CASE SyncCommit(w)
  <2>1. RowsInv' /\ Follows /\ CopiesInv'
    BY <1>1, <1>3, SyncsCommit
  <2>2. QED BY <1>1, <1>3, <2>1, OthersHold, CommittingOnce DEF SafeInv
<1>4. ASSUME RowsInv', Follows, CopiesInv', campaign' = campaign, worker'[w].pc # "counted",
             \A v \in Workers : v # w => worker'[v] = worker[v]
      PROVE  SafeInv'
  BY <1>4, QuietSafe
<1>5. CASE AbortSync(w) \/ GuardAborts(w) \/ Crash(w)
  BY <1>1, <1>4, <1>5, JustStops, StopsKeepCopies
<1>6. CASE SyncRead(w)
  BY <1>1, <1>4, <1>6, SyncsRead
<1>7. CASE \E r \in Recipients : Pick(w, r)
  BY <1>1, <1>4, <1>7, Picks
<1>8. CASE Refuse(w) \/ Defer(w)
  BY <1>1, <1>4, <1>8, Refuses, Defers
<1>9. CASE Claim(w) \/ GuardPasses(w)
  BY <1>1, <1>4, <1>9, Claims, GuardsPass
<1>10. CASE Accepted(w) \/ Rejected(w) \/ Bounced(w) \/ Ambiguous(w)
  BY <1>1, <1>4, <1>10, Answers
<1>11. CASE Record(w)
  BY <1>1, <1>4, <1>11, Records
<1>12. QED
  BY <1>2, <1>3, <1>5, <1>6, <1>7, <1>8, <1>9, <1>10, <1>11 DEF Continue

LEMMA RowsSafe ==
    ASSUME SafeInv, NEW r \in Recipients,
           \/ \E w \in Workers : Queue(w, r) \/ Skip(w, r) \/ GuardStops(w, r)
           \/ Recover(r) \/ Reconcile(r) \/ Reply(r) \/ BecomeDue(r)
    PROVE  SafeInv'
<1>1. RowsInv /\ CopiesInv
  BY DEF SafeInv
<1>2. RowsInv' /\ Follows /\ CopiesInv' /\ UNCHANGED <<campaign, worker>>
  <2>1. CASE \E w \in Workers : Queue(w, r) \/ Skip(w, r)
    BY <1>1, <2>1, Queues, Skips
  <2>2. CASE (\E w \in Workers : GuardStops(w, r)) \/ Recover(r) \/ Reconcile(r)
    BY <1>1, <2>2, SmallWrites
  <2>3. CASE Reply(r) \/ BecomeDue(r)
    BY <1>1, <2>3, Replies, TimePasses
  <2>4. QED BY <2>1, <2>2, <2>3
<1>3. QED BY <1>2, QuietSafe

LEMMA SafeStays == SafeInv /\ [Next]_vars => SafeInv'
<1> SUFFICES ASSUME SafeInv, [Next]_vars PROVE SafeInv'
  OBVIOUS
<1>1. CASE UNCHANGED vars
  <2>1. UNCHANGED <<campaign, recipient, mail, due, admin, worker, delivered, restored, late, requests, faults>>
    BY <1>1 DEF vars, history, bounds
  <2>2. RowsInv'
    <3>1. Stays
      BY <2>1 DEF Stays, Absent
    <3>2. admin' \in [Admins -> AdminState] /\ \A b \in Admins : GoodAdmin(admin[b])'
      BY <2>1, <3>1, SameAdmins DEF SafeInv
    <3>3. worker' \in [Workers -> WorkerState] /\ \A v \in Workers : GoodWorker(worker[v])'
      BY <2>1, <3>1, SameWorkers DEF SafeInv
    <3>4. Rows' /\ DraftInv'
      BY <2>1 DEF SafeInv, RowsInv, TypeOK, Rows, DraftInv, Absent
    <3>5. LockInv'
      BY <2>1, <3>3, LocksStay DEF SafeInv
    <3>6. QED BY <3>2, <3>3, <3>4, <3>5, Assembled
  <2>3. CopiesInv'
    BY <2>1, <2>2, CopiesStay DEF SafeInv
  <2>4. Follows
    BY <2>1, OnlyWorkerFollows DEF SafeInv
  <2>5. QED BY <2>1, <2>2, <2>3, <2>4, QuietSafe
<1>2. CASE Next
  <2>1. CASE \E a \in Admins :
                \/ \E c \in Campaigns :
                      BeginStart(a, c) \/ BeginPause(a, c) \/ BeginResume(a, c) \/ BeginCancel(a, c)
                \/ AdminStep(a)
    BY <2>1, RequestsSafe DEF AdminStep, Reading
  <2>2. CASE \E w \in Workers :
                \/ Continue(w) \/ Schedules(w)
                \/ \E r \in Recipients : Delivers(w, r)
                \/ Defer(w) \/ Rejected(w) \/ Ambiguous(w) \/ Crash(w)
    BY <2>2, WorkersSafe, RowsSafe DEF Schedules, Delivers
  <2>3. CASE \E r \in Recipients : Recover(r) \/ Reconcile(r) \/ Reply(r) \/ BecomeDue(r)
    BY <2>3, RowsSafe
  <2>4. QED BY <1>1, <1>2, <2>1, <2>2, <2>3 DEF Next, Quiet
<1>3. QED BY <1>1, <1>2

LEMMA AlwaysSafe == Spec => []SafeInv
<1>1. QED BY InitSafe, SafeStays, PTL DEF Spec

\* Requests, the scheduler, deliveries and their crashes leave every row with a status of
\* app/reactivation.py, and no recipient is queued, sent or answered without a message.
THEOREM CampaignTypes == Spec => []TypeOK
<1>1. SafeInv => TypeOK
  BY DEF SafeInv, RowsInv
<1>2. QED BY <1>1, AlwaysSafe, PTL

\* A message of a campaign goes out once, and once more for each time that a resume has put
\* it back: no pause, cancellation, retry, crash or recovery sends it again by itself.
THEOREM CopiesAreAskedFor == Spec => []SentAgainOnlyByResume
<1>1. SafeInv => SentAgainOnlyByResume
  <2> SUFFICES ASSUME SafeInv, NEW r \in Recipients PROVE delivered[r] <= 1 + restored[r]
    BY DEF SentAgainOnlyByResume
  <2>1. InFlight(r) \subseteq Workers
    BY DEF InFlight
  <2>2. /\ Cardinality(InFlight(r)) \in Nat /\ Again(r) \in {0, 1}
        /\ delivered[r] \in Nat /\ restored[r] \in Nat
    BY <2>1, Cardinalities DEF Again, SafeInv, RowsInv, TypeOK
  <2>3. QED BY <2>2 DEF SafeInv, CopiesInv
<1>2. QED BY <1>1, AlwaysSafe, PTL

\* However pauses and resumes of a campaign overlap, none leaves a message behind that a
\* pause has taken back (resume_campaign restores what the locked row lets it read).
THEOREM NothingLeftHeld == Spec => []HeldOnlyWhilePaused
<1>1. SafeInv => HeldOnlyWhilePaused
  BY DEF SafeInv, HoldInv
<1>2. QED BY <1>1, AlwaysSafe, PTL

\* The contacts' locks of start_campaign and the reservations it reads under them keep two
\* campaigns from scheduling one person, but for a campaign that is started twice.
THEOREM PeopleScheduledOnce == Spec => []ScheduledOnce
<1>1. SafeInv => ScheduledOnce
  BY DEF SafeInv, OnceInv
<1>2. QED BY <1>1, AlwaysSafe, PTL

=============================================================================
