----------------------- MODULE DispositionBatchProofs -----------------------
(***************************************************************************)
(* The safety of DispositionBatch for any number of workers, emails,       *)
(* attempts, retries, failed calls and deaths: its types, what an email    *)
(* may cost, and what its stored classification was made from.             *)
(*                                                                         *)
(* PaidOnce is not inductive: a provider batch is paid for before its      *)
(* attempt is counted.  PaidInv allows an email one more than it has       *)
(* counted, exactly while a worker stands between the two with this email  *)
(* among those it asks; the row lock keeps that worker alone, and RoomInv  *)
(* says that it has an attempt left to count.                              *)
(***************************************************************************)
EXTENDS DispositionBatch, FiniteSetTheorems, TLAPS

USE BatchAssumption

\* The steps at which a worker holds the row of the batch.
Busy(w) == worker[w].pc \in {"submitting", "accepted", "polling"}
Before == MaxAttempts * retries

GoodItems(items) ==
    /\ items \in [Emails -> Item]
    /\ \A e \in Emails : /\ items[e].judged # "other"
                         /\ items[e].status = "AI_SUCCEEDED" <=> items[e].judged = "hashed"
Room(items) == \A e \in Emails : items[e].status = "PENDING" => items[e].attempts < MaxAttempts

CountersOK == retries \in 0 .. MaxRetries /\ paid \in [Emails -> Nat] /\ orphans \in Nat
LockInv ==
    /\ lock = {} \/ \E w \in Workers : lock = {w}
    /\ \A w \in Workers : w \in lock <=> Busy(w)
NoneInv ==
    batch.status = "NONE" =>
        /\ api = "idle"
        /\ \A r \in 0 .. MaxRetries : job[r] = "none"
        /\ \A w \in Workers : worker[w].pc = "idle"
        /\ \A e \in Emails : item[e].status = "PENDING"
SubmitInv == \A w \in Workers : worker[w].pc \in {"submitting", "accepted"} => ~batch.provider
OpenInv == batch.provider => batch.status \notin BATCH_TERMINAL_STATUSES \cup {"NONE"}
RoomInv == ~batch.provider => Room(item)
PaidInv ==
    \A e \in Emails :
        \/ paid[e] <= item[e].attempts + Before + orphans
        \/ /\ paid[e] <= item[e].attempts + Before + orphans + 1
           /\ \E w \in Workers : worker[w].pc = "accepted" /\ e \in Asked(w)

\* The rows and the workers, without what is paid.
RowsInv ==
    /\ TypeOK /\ JudgedAsHashed /\ provider.other = {}
    /\ CountersOK /\ LockInv /\ NoneInv /\ SubmitInv /\ OpenInv /\ RoomInv

BatchInv == RowsInv /\ PaidInv

-----------------------------------------------------------------------------
(* What the operators return *)

LEMMA Products ==
    ASSUME CountersOK
    PROVE  Before \in Nat /\ MaxAttempts * (retries + 1) = Before + MaxAttempts
BY DEF Before, CountersOK

LEMMA ItemsAreGood == TypeOK /\ JudgedAsHashed <=> TypeOK /\ GoodItems(item)
BY DEF TypeOK, JudgedAsHashed, GoodItems

\* An item with another status, and one that has used up another number of attempts.
LEMMA FellBack ==
    ASSUME NEW i \in Item
    PROVE  LET j == [i EXCEPT !.status = "FALLBACK", !.judged = "none"] IN
           j \in Item /\ j.status = "FALLBACK" /\ j.judged = "none" /\ j.attempts = i.attempts
<1> DEFINE k == [i EXCEPT !.status = "FALLBACK"]
<1>1. k \in Item /\ k.status = "FALLBACK" /\ k.attempts = i.attempts
  BY DEF Item, ITEM_TERMINAL_STATUSES
<1> HIDE DEF k
<1> DEFINE j == [k EXCEPT !.judged = "none"]
<1>2. j \in Item /\ j.status = "FALLBACK" /\ j.judged = "none" /\ j.attempts = i.attempts
  BY <1>1 DEF Item
<1>3. QED BY <1>2 DEF k

LEMMA Counted ==
    ASSUME NEW i \in Item, NEW n \in 0 .. MaxAttempts
    PROVE  LET j == [i EXCEPT !.attempts = n] IN
           j \in Item /\ j.status = i.status /\ j.judged = i.judged /\ j.attempts = n
BY DEF Item

LEMMA Failing ==
    ASSUME NEW i \in Item, NEW n \in 0 .. MaxAttempts, i.status = "PENDING", i.judged = "none"
    PROVE  LET j == Failed(i, n) IN
           /\ j \in Item /\ j.attempts = n /\ j.judged = "none"
           /\ j.status = IF n < MaxAttempts THEN "PENDING" ELSE "FALLBACK"
<1> DEFINE k == [i EXCEPT !.attempts = n]
<1>1. k \in Item /\ k.status = i.status /\ k.judged = i.judged /\ k.attempts = n
  BY Counted
<1>2. [i EXCEPT !.attempts = n, !.status = "FALLBACK", !.judged = "none"]
        = [k EXCEPT !.status = "FALLBACK", !.judged = "none"]
  OBVIOUS
<1> HIDE DEF k
<1>3. CASE n < MaxAttempts
  <2>1. Failed(i, n) = k
    BY <1>3 DEF Failed, k
  <2>2. QED BY <1>1, <1>3, <2>1
<1>4. CASE ~(n < MaxAttempts)
  <2>1. Failed(i, n) = [k EXCEPT !.status = "FALLBACK", !.judged = "none"]
    BY <1>2, <1>4 DEF Failed
  <2>2. QED BY <1>1, <1>4, <2>1, FellBack
<1>5. QED BY <1>3, <1>4

\* A pending item has no classification.
LEMMA PendingUnjudged ==
    ASSUME NEW items, GoodItems(items), NEW e \in Emails, items[e].status = "PENDING"
    PROVE  items[e] \in Item /\ items[e].judged = "none" /\ items[e].attempts \in 0 .. MaxAttempts
BY DEF GoodItems, Item

\* What is dropped for another request leaves the attempts, and no changed item pending.
LEMMA Dropping ==
    ASSUME NEW items, GoodItems(items), NEW seen
    PROVE  /\ GoodItems(DropChanged(items, seen))
           /\ \A e \in Emails :
                /\ DropChanged(items, seen)[e].attempts = items[e].attempts
                /\ e \in Pending(DropChanged(items, seen)) => items[e].status = "PENDING" /\ e \notin seen
           /\ Room(items) => Room(DropChanged(items, seen))
<1> DEFINE d == DropChanged(items, seen)
<1>1. d = [e \in Emails |-> d[e]]
  BY DEF DropChanged
<1>2. ASSUME NEW e \in Emails
      PROVE  /\ d[e] \in Item /\ d[e].attempts = items[e].attempts
             /\ d[e].judged # "other" /\ (d[e].status = "AI_SUCCEEDED" <=> d[e].judged = "hashed")
             /\ d[e].status = "PENDING" => items[e].status = "PENDING" /\ e \notin seen
  <2>1. items[e] \in Item
    BY DEF GoodItems
  <2>2. CASE items[e].status = "PENDING" /\ e \in seen
    <3>1. d[e] = [items[e] EXCEPT !.status = "FALLBACK", !.judged = "none"]
      BY <2>2 DEF DropChanged
    <3>2. QED BY <2>1, <3>1, FellBack
  <2>3. CASE ~(items[e].status = "PENDING" /\ e \in seen)
    <3>1. d[e] = items[e]
      BY <2>3 DEF DropChanged
    <3>2. QED BY <2>1, <2>3, <3>1 DEF GoodItems
  <2>4. QED BY <2>2, <2>3
<1> HIDE DEF d
<1>3. d \in [Emails -> Item]
  BY <1>1, <1>2
<1>4. GoodItems(d) /\ (Room(items) => Room(d))
  BY <1>2, <1>3 DEF GoodItems, Room
<1>5. QED BY <1>2, <1>4 DEF d, Pending

LEMMA Counting ==
    ASSUME NEW items, GoodItems(items), Room(items)
    PROVE  /\ GoodItems(CountAttempt(items))
           /\ \A e \in Emails :
                CountAttempt(items)[e].attempts =
                    items[e].attempts + (IF e \in Pending(items) THEN 1 ELSE 0)
<1> DEFINE d == CountAttempt(items)
<1>1. d = [e \in Emails |-> d[e]]
  BY DEF CountAttempt
<1>2. ASSUME NEW e \in Emails
      PROVE  /\ d[e] \in Item
             /\ d[e].attempts = items[e].attempts + (IF e \in Pending(items) THEN 1 ELSE 0)
             /\ d[e].judged # "other" /\ (d[e].status = "AI_SUCCEEDED" <=> d[e].judged = "hashed")
  <2>1. items[e] \in Item /\ items[e].attempts \in 0 .. MaxAttempts
    BY DEF GoodItems, Item
  <2>2. CASE items[e].status = "PENDING"
    <3>1. d[e] = [items[e] EXCEPT !.attempts = items[e].attempts + 1]
      BY <2>2 DEF CountAttempt
    <3>2. items[e].attempts + 1 \in 0 .. MaxAttempts
      BY <2>1, <2>2 DEF Room
    <3>3. /\ d[e] \in Item /\ d[e].status = items[e].status /\ d[e].judged = items[e].judged
          /\ d[e].attempts = items[e].attempts + 1
      BY <2>1, <3>1, <3>2, Counted
    <3>4. QED BY <2>2, <3>3 DEF GoodItems, Pending
  <2>3. CASE items[e].status # "PENDING"
    <3>1. d[e] = items[e]
      BY <2>3 DEF CountAttempt
    <3>2. QED BY <2>1, <2>3, <3>1 DEF GoodItems, Pending
  <2>4. QED BY <2>2, <2>3
<1> HIDE DEF d
<1>3. d \in [Emails -> Item]
  BY <1>1, <1>2
<1>4. QED BY <1>2, <1>3 DEF GoodItems, d

\* The pending items fail, with an attempt used up or not: what stays pending has one left.
LEMMA FailingPending ==
    ASSUME NEW items, GoodItems(items), NEW used \in {0, 1}, used = 1 => Room(items)
    PROVE  /\ GoodItems(FailPending(items, used)) /\ Room(FailPending(items, used))
           /\ \A e \in Emails : FailPending(items, used)[e].attempts >= items[e].attempts
<1> DEFINE d == FailPending(items, used)
<1>1. d = [e \in Emails |-> d[e]]
  BY DEF FailPending
<1>2. ASSUME NEW e \in Emails
      PROVE  /\ d[e] \in Item /\ d[e].attempts >= items[e].attempts
             /\ d[e].judged # "other" /\ (d[e].status = "AI_SUCCEEDED" <=> d[e].judged = "hashed")
             /\ d[e].status = "PENDING" => d[e].attempts < MaxAttempts
  <2>1. items[e] \in Item /\ items[e].attempts \in 0 .. MaxAttempts
    BY DEF GoodItems, Item
  <2>2. CASE items[e].status = "PENDING"
    <3> DEFINE n == items[e].attempts + used
    <3>1. n \in 0 .. MaxAttempts /\ n >= items[e].attempts
      BY <2>1, <2>2 DEF Room
    <3>2. d[e] = Failed(items[e], n)
      BY <2>2 DEF FailPending
    <3>3. items[e].judged = "none"
      BY <2>2, PendingUnjudged
    <3> HIDE DEF n
    <3>4. /\ d[e] \in Item /\ d[e].attempts = n /\ d[e].judged = "none"
          /\ d[e].status = IF n < MaxAttempts THEN "PENDING" ELSE "FALLBACK"
      BY <2>1, <2>2, <3>1, <3>2, <3>3, Failing
    <3>5. QED BY <3>1, <3>4
  <2>3. CASE items[e].status # "PENDING"
    <3>1. d[e] = items[e]
      BY <2>3 DEF FailPending
    <3>2. QED BY <2>1, <2>3, <3>1 DEF GoodItems
  <2>4. QED BY <2>2, <2>3
<1> HIDE DEF d
<1>3. d \in [Emails -> Item]
  BY <1>1, <1>2
<1>4. QED BY <1>2, <1>3 DEF GoodItems, Room, d

\* The provider was asked with unchanged requests only: its answers are stored as hashed.
LEMMA Answering ==
    ASSUME GoodItems(item), provider.other = {}, NEW good
    PROVE  /\ GoodItems(Answered(good)) /\ Room(Answered(good))
           /\ \A e \in Emails : Answered(good)[e].attempts = item[e].attempts
<1> DEFINE d == Answered(good)
<1>1. d = [e \in Emails |-> d[e]]
  BY DEF Answered
<1>2. ASSUME NEW e \in Emails
      PROVE  /\ d[e] \in Item /\ d[e].attempts = item[e].attempts
             /\ d[e].judged # "other" /\ (d[e].status = "AI_SUCCEEDED" <=> d[e].judged = "hashed")
             /\ d[e].status = "PENDING" => d[e].attempts < MaxAttempts
  <2>1. item[e] \in Item /\ item[e].attempts \in 0 .. MaxAttempts
    BY DEF GoodItems, Item
  <2>2. CASE item[e].status # "PENDING"
    <3>1. d[e] = item[e]
      BY <2>2 DEF Answered
    <3>2. QED BY <2>1, <2>2, <3>1 DEF GoodItems
  <2>3. CASE item[e].status = "PENDING" /\ e \in good
    <3> DEFINE i == [item[e] EXCEPT !.status = "AI_SUCCEEDED"]
    <3>1. i \in Item /\ i.status = "AI_SUCCEEDED" /\ i.attempts = item[e].attempts
      BY <2>1 DEF Item, ITEM_TERMINAL_STATUSES
    <3>2. d[e] = [i EXCEPT !.judged = "hashed"]
      BY <2>3 DEF Answered
    <3> HIDE DEF i
    <3>3. d[e] \in Item /\ d[e].status = "AI_SUCCEEDED" /\ d[e].attempts = item[e].attempts /\ d[e].judged = "hashed"
      BY <3>1, <3>2 DEF Item
    <3>4. QED BY <3>3
  <2>4. CASE item[e].status = "PENDING" /\ e \notin good
    <3>1. d[e] = Failed(item[e], item[e].attempts)
      BY <2>4 DEF Answered
    <3>2. item[e].judged = "none"
      BY <2>4, PendingUnjudged
    <3>3. /\ d[e] \in Item /\ d[e].attempts = item[e].attempts /\ d[e].judged = "none"
          /\ d[e].status = IF item[e].attempts < MaxAttempts THEN "PENDING" ELSE "FALLBACK"
      BY <2>1, <2>4, <3>1, <3>2, Failing
    <3>4. QED BY <3>3
  <2>5. QED BY <2>2, <2>3, <2>4
<1> HIDE DEF d
<1>3. d \in [Emails -> Item]
  BY <1>1, <1>2
<1>4. QED BY <1>2, <1>3 DEF GoodItems, Room, d

LEMMA AfterAttempts ==
    ASSUME NEW items
    PROVE  /\ AfterAttempt(items) \in [status : BatchStatus \ {"NONE"}, provider : BOOLEAN,
                                       readFailures : 0 .. MaxAttempts]
           /\ ~AfterAttempt(items).provider
BY DEF AfterAttempt, FinishedStatus, BatchStatus, BATCH_TERMINAL_STATUSES

-----------------------------------------------------------------------------
(* Workers *)

LEMMA WorkerTypes == TypeOK => worker \in [Workers -> [pc : Pcs, job : 0 .. MaxRetries, seen : SUBSET Emails]]
BY DEF TypeOK

LEMMA LockTypes ==
    ASSUME NEW s, s = {} \/ \E w \in Workers : s = {w}
    PROVE  s \subseteq Workers /\ Cardinality(s) <= 1
<1>1. CASE s = {}
  BY <1>1, FS_EmptySet
<1>2. ASSUME NEW w \in Workers, s = {w}
      PROVE  s \subseteq Workers /\ Cardinality(s) <= 1
  BY <1>2, FS_Singleton
<1>3. QED BY <1>1, <1>2

\* Who is busy is alone, and everyone else waits or idles.
LEMMA Alone ==
    ASSUME LockInv, NEW w \in Workers, Busy(w)
    PROVE  lock = {w} /\ \A v \in Workers : v # w => ~Busy(v)
BY DEF LockInv

\* A worker whose transaction ends, or is rolled back, is idle and leaves the row free.
LEMMA Leaving ==
    ASSUME RowsInv, NEW w \in Workers,
           worker' = [worker EXCEPT ![w] = Idle], lock' = lock \ {w}
    PROVE  /\ worker' \in [Workers -> [pc : Pcs, job : 0 .. MaxRetries, seen : SUBSET Emails]]
           /\ worker'[w].pc = "idle"
           /\ \A v \in Workers : v # w => worker'[v] = worker[v]
           /\ lock' \subseteq Workers /\ Cardinality(lock') <= 1
           /\ LockInv'
<1>1. worker \in [Workers -> [pc : Pcs, job : 0 .. MaxRetries, seen : SUBSET Emails]]
  BY WorkerTypes DEF RowsInv
<1>2. Idle \in [pc : Pcs, job : 0 .. MaxRetries, seen : SUBSET Emails] /\ Idle.pc = "idle"
  BY DEF Idle, Pcs
<1>3. /\ worker' \in [Workers -> [pc : Pcs, job : 0 .. MaxRetries, seen : SUBSET Emails]]
      /\ worker'[w].pc = "idle"
      /\ \A v \in Workers : v # w => worker'[v] = worker[v]
  BY <1>1, <1>2
<1>4. lock' = {} \/ \E v \in Workers : lock' = {v}
  BY DEF RowsInv, LockInv
<1>5. ASSUME NEW v \in Workers
      PROVE  v \in lock' <=> Busy(v)'
  BY <1>3 DEF RowsInv, LockInv, Busy
<1>6. QED BY <1>3, <1>4, <1>5, LockTypes DEF LockInv

LEMMA Committing ==
    ASSUME RowsInv, NEW w \in Workers, NEW again \in BOOLEAN, Commit(w, again)
    PROVE  /\ job' \in [0 .. MaxRetries -> {"none", "queued", "running", "done"}]
           /\ worker' = [worker EXCEPT ![w] = Idle] /\ lock' = lock \ {w}
BY DEF Commit, RowsInv, TypeOK

\* The transaction of a busy worker commits items, and a batch that some row names or that
\* leaves room: the rows are as they should be, when the other parts are.
LEMMA Commits ==
    ASSUME RowsInv, NEW w \in Workers, Busy(w), NEW again \in BOOLEAN, Commit(w, again),
           GoodItems(item'), ~batch'.provider => Room(item'), OpenInv',
           batch' \in [status : BatchStatus \ {"NONE"}, provider : BOOLEAN, readFailures : 0 .. MaxAttempts],
           UNCHANGED <<changed, provider, api, retries>>,
           paid' \in [Emails -> Nat], orphans' \in Nat
    PROVE  RowsInv' /\ \A v \in Workers : worker'[v].pc # "accepted"
<1>1. \A v \in Workers : v # w => ~Busy(v)
  BY Alone DEF RowsInv
<1>2. /\ job' \in [0 .. MaxRetries -> {"none", "queued", "running", "done"}]
      /\ worker' \in [Workers -> [pc : Pcs, job : 0 .. MaxRetries, seen : SUBSET Emails]]
      /\ worker'[w].pc = "idle"
      /\ \A v \in Workers : v # w => worker'[v] = worker[v]
      /\ lock' \subseteq Workers /\ Cardinality(lock') <= 1
      /\ LockInv'
  BY Committing, Leaving
<1>3. \A v \in Workers : worker'[v].pc \notin {"submitting", "accepted", "polling"}
  BY <1>1, <1>2 DEF Busy
<1>4. batch'.status # "NONE"
  OBVIOUS
<1>5. batch' \in [status : BatchStatus, provider : BOOLEAN, readFailures : 0 .. MaxAttempts]
  OBVIOUS
<1>6. TypeOK'
  BY <1>2, <1>5 DEF RowsInv, TypeOK, GoodItems
<1>7. JudgedAsHashed' /\ CountersOK' /\ RoomInv' /\ (provider.other = {})'
  BY DEF JudgedAsHashed, GoodItems, CountersOK, RoomInv, Room, RowsInv
<1>8. NoneInv' /\ SubmitInv'
  BY <1>3, <1>4 DEF NoneInv, SubmitInv
<1>9. QED BY <1>2, <1>3, <1>6, <1>7, <1>8 DEF RowsInv

\* A worker that is not idle has a job, and the batch exists.
LEMMA BatchExists ==
    ASSUME RowsInv, NEW w \in Workers, worker[w].pc # "idle"
    PROVE  /\ batch.status # "NONE"
           /\ batch \in [status : BatchStatus \ {"NONE"}, provider : BOOLEAN, readFailures : 0 .. MaxAttempts]
BY DEF RowsInv, NoneInv, TypeOK

\* While nobody stands between the provider's answer and its commit, nothing is uncounted.
LEMMA AllCounted ==
    ASSUME PaidInv, \A w \in Workers : worker[w].pc # "accepted"
    PROVE  \A e \in Emails : paid[e] <= item[e].attempts + Before + orphans
BY DEF PaidInv

\* What is paid stays allowed when attempts are only added.
LEMMA StillAllowed ==
    ASSUME RowsInv, RowsInv', UNCHANGED <<paid, retries>>, orphans' >= orphans,
           \A e \in Emails : item'[e].attempts >= item[e].attempts,
           \A e \in Emails : paid[e] <= item[e].attempts + Before + orphans
    PROVE  PaidInv'
<1>1. Before \in Nat /\ Before' = Before
  BY Products DEF Before, RowsInv
<1>2. \A e \in Emails : item[e].attempts \in Nat /\ item'[e].attempts \in Nat /\ paid[e] \in Nat
  BY DEF RowsInv, TypeOK, CountersOK, Item
<1>3. orphans \in Nat /\ orphans' \in Nat
  BY DEF RowsInv, CountersOK
<1>4. \A e \in Emails : paid'[e] <= item'[e].attempts + Before' + orphans'
  BY <1>1, <1>2, <1>3
<1>5. QED BY <1>4 DEF PaidInv

\* Nor is anything that is paid affected by a step that leaves the accepted ones alone.
LEMMA UntouchedPaid ==
    ASSUME PaidInv, UNCHANGED <<paid, retries, orphans, item>>,
           \A w \in Workers : worker[w].pc = "accepted" => worker'[w] = worker[w]
    PROVE  PaidInv'
<1>1. \A w \in Workers : worker[w].pc = "accepted" => worker'[w].pc = "accepted" /\ Asked(w)' = Asked(w)
  BY DEF Asked
<1>2. Before' = Before
  BY DEF Before
<1>3. QED BY <1>1, <1>2 DEF PaidInv

-----------------------------------------------------------------------------
(* The API, and the world around *)

LEMMA Creates == BatchInv /\ Create => BatchInv'
<1> SUFFICES ASSUME RowsInv, PaidInv, Create PROVE BatchInv'
  BY DEF BatchInv
<1>1. \A e \in Emails : item[e].status = "PENDING" /\ item[e] \in Item
  BY DEF Create, RowsInv, NoneInv, TypeOK
<1>2. \A w \in Workers : worker[w].pc = "idle"
  BY DEF Create, RowsInv, NoneInv
<1>3. ASSUME NEW e \in Emails
      PROVE  /\ item'[e] \in Item /\ item'[e].attempts = item[e].attempts
             /\ item'[e].judged = item[e].judged /\ item'[e].status \in {"RULE_ONLY", "PENDING"}
  <2>1. item'[e] = [item[e] EXCEPT !.status = IF e \in RuleOnly THEN "RULE_ONLY" ELSE "PENDING"]
    BY DEF Create
  <2>2. QED BY <1>1, <2>1 DEF Item, ITEM_TERMINAL_STATUSES
<1>4. item' \in [Emails -> Item]
  <2>1. item' = [e \in Emails |-> item'[e]]
    BY DEF Create
  <2>2. QED BY <1>3, <2>1
<1>5. JudgedAsHashed'
  BY <1>1, <1>3 DEF JudgedAsHashed, RowsInv
<1>6. \E s \in BatchStatus \ {"NONE"} : batch' = [batch EXCEPT !.status = s]
  <2>1. FinishedStatus(item') \in BatchStatus \ {"NONE"} /\ "PENDING" \in BatchStatus \ {"NONE"}
    BY DEF FinishedStatus, BatchStatus, BATCH_TERMINAL_STATUSES
  <2>2. QED BY <2>1 DEF Create
<1>7. /\ batch' \in [status : BatchStatus, provider : BOOLEAN, readFailures : 0 .. MaxAttempts]
      /\ batch'.status # "NONE" /\ batch'.provider = batch.provider
  BY <1>6 DEF RowsInv, TypeOK
<1>8. UNCHANGED <<changed, provider, job, worker, lock, bounds, history>> /\ api' \in {"idle", "committed"}
  BY DEF Create
<1>9. TypeOK'
  BY <1>4, <1>7, <1>8 DEF RowsInv, TypeOK
<1>10. RoomInv'
  BY <1>1, <1>3, <1>7 DEF RoomInv, Room, RowsInv
<1>11. CountersOK' /\ LockInv' /\ NoneInv' /\ SubmitInv' /\ (provider.other = {})'
  BY <1>2, <1>7, <1>8 DEF CountersOK, LockInv, NoneInv, SubmitInv, Busy, RowsInv, bounds, history
<1>12. OpenInv'
  BY <1>7 DEF Create, OpenInv, RowsInv
<1>13. RowsInv'
  BY <1>5, <1>9, <1>10, <1>11, <1>12 DEF RowsInv
<1>14. \A e \in Emails : item'[e].attempts >= item[e].attempts
  BY <1>1, <1>3 DEF Item
<1>15. UNCHANGED <<paid, retries>> /\ orphans' >= orphans
  BY <1>8 DEF bounds, history, RowsInv, CountersOK
<1>16. \A w \in Workers : worker[w].pc # "accepted"
  BY <1>2
<1>17. PaidInv'
  BY <1>13, <1>14, <1>15, <1>16, AllCounted, StillAllowed
<1>18. QED BY <1>13, <1>17 DEF BatchInv

LEMMA Retries == BatchInv /\ RetryFailed => BatchInv'
<1> SUFFICES ASSUME RowsInv, PaidInv, RetryFailed PROVE BatchInv'
  BY DEF BatchInv
<1>1. /\ lock = {} /\ retries < MaxRetries /\ batch.status \in {"PARTIAL_FAILED", "FAILED"}
      /\ item' = RetriedItems
      /\ batch' = [batch EXCEPT !.status = "RETRYING", !.provider = FALSE]
      /\ retries' = retries + 1 /\ api' = "committed"
      /\ UNCHANGED <<changed, provider, job, worker, lock, paid, orphans>>
  BY DEF RetryFailed, history
<1>2. \A w \in Workers : ~Busy(w)
  BY <1>1 DEF RowsInv, LockInv
<1>3. ASSUME NEW e \in Emails
      PROVE  /\ item'[e] \in Item /\ item[e].attempts \in 0 .. MaxAttempts
             /\ item'[e].judged # "other" /\ (item'[e].status = "AI_SUCCEEDED" <=> item'[e].judged = "hashed")
             /\ item'[e].attempts \in {0, item[e].attempts}
             /\ item'[e].status = "PENDING" =>
                   item'[e].attempts = 0 \/ item[e].status = "PENDING"
             /\ item'[e].attempts # 0 => item'[e] = item[e]
  <2>1. item[e] \in Item /\ item[e].attempts \in 0 .. MaxAttempts
    BY DEF RowsInv, TypeOK, Item
  <2>2. CASE item[e].status = "FALLBACK"
    <3> DEFINE i == [item[e] EXCEPT !.status = "PENDING"]
               j == [i EXCEPT !.attempts = 0]
    <3>1. i \in Item /\ i.status = "PENDING"
      BY <2>1 DEF Item
    <3> HIDE DEF i
    <3>2. j \in Item /\ j.status = "PENDING" /\ j.attempts = 0
      BY <3>1 DEF Item
    <3>3. item'[e] = [j EXCEPT !.judged = "none"]
      BY <1>1, <2>2 DEF RetriedItems, i
    <3> HIDE DEF j
    <3>4. item'[e] \in Item /\ item'[e].status = "PENDING" /\ item'[e].attempts = 0 /\ item'[e].judged = "none"
      BY <3>2, <3>3 DEF Item
    <3>5. QED BY <2>1, <3>4
  <2>3. CASE item[e].status # "FALLBACK"
    <3>1. item'[e] = item[e]
      BY <1>1, <2>3 DEF RetriedItems
    <3>2. QED BY <2>1, <3>1 DEF RowsInv, JudgedAsHashed
  <2>4. QED BY <2>2, <2>3
<1>4. item' \in [Emails -> Item]
  <2>1. item' = [e \in Emails |-> item'[e]]
    BY <1>1 DEF RetriedItems
  <2>2. QED BY <1>3, <2>1
<1>5. JudgedAsHashed'
  BY <1>3 DEF JudgedAsHashed
<1>6. /\ batch' \in [status : BatchStatus, provider : BOOLEAN, readFailures : 0 .. MaxAttempts]
      /\ batch'.status = "RETRYING" /\ ~batch'.provider
  <2> DEFINE b == [batch EXCEPT !.status = "RETRYING"]
  <2>1. b \in [status : BatchStatus, provider : BOOLEAN, readFailures : 0 .. MaxAttempts] /\ b.status = "RETRYING"
    BY DEF RowsInv, TypeOK, BatchStatus
  <2>2. batch' = [b EXCEPT !.provider = FALSE]
    BY <1>1
  <2> HIDE DEF b
  <2>3. QED BY <2>1, <2>2
<1>7. TypeOK'
  BY <1>1, <1>4, <1>6 DEF RowsInv, TypeOK
<1>8. CountersOK' /\ LockInv' /\ NoneInv' /\ SubmitInv' /\ (provider.other = {})'
  BY <1>1, <1>2, <1>6 DEF CountersOK, LockInv, NoneInv, SubmitInv, Busy, RowsInv
<1>9. RoomInv' /\ OpenInv'
  <2>1. Room(item)
    BY <1>1 DEF RowsInv, OpenInv, RoomInv, BATCH_TERMINAL_STATUSES
  <2>2. ASSUME NEW e \in Emails, item'[e].status = "PENDING"
        PROVE  item'[e].attempts < MaxAttempts
    <3>1. CASE item'[e].attempts = 0
      BY <3>1
    <3>2. CASE item'[e].attempts # 0
      BY <1>3, <2>1, <2>2, <3>2 DEF Room
    <3>3. QED BY <3>1, <3>2
  <2>3. QED BY <1>6, <2>2 DEF RoomInv, OpenInv, Room
<1>10. RowsInv'
  BY <1>5, <1>7, <1>8, <1>9 DEF RowsInv
<1>11. PaidInv'
  <2>1. Before \in Nat /\ Before' = Before + MaxAttempts
    BY <1>1, Products DEF Before, RowsInv
  <2>2. ASSUME NEW e \in Emails
        PROVE  paid'[e] <= item'[e].attempts + Before' + orphans'
    <3>1. paid[e] <= item[e].attempts + Before + orphans
      BY <1>2, AllCounted DEF Busy
    <3>2. paid[e] \in Nat /\ orphans \in Nat /\ item'[e].attempts \in Nat
      BY <1>3 DEF RowsInv, CountersOK, Item
    <3>3. item[e].attempts <= MaxAttempts /\ item[e].attempts \in Nat
      BY <1>3
    <3>4. QED BY <1>1, <2>1, <3>1, <3>2, <3>3
  <2>3. QED BY <2>2 DEF PaidInv
<1>12. QED BY <1>10, <1>11 DEF BatchInv

LEMMA Enqueues == BatchInv /\ (Enqueue \/ ApiDies) => BatchInv'
<1> SUFFICES ASSUME RowsInv, PaidInv, Enqueue \/ ApiDies PROVE BatchInv'
  BY DEF BatchInv
<1>1. UNCHANGED <<batch, item, changed, provider, worker, lock, retries, paid, orphans>> /\ api' = "idle"
  BY DEF Enqueue, ApiDies, bounds, history
<1>2. job' \in [0 .. MaxRetries -> {"none", "queued", "running", "done"}]
  BY DEF Enqueue, ApiDies, RowsInv, TypeOK
<1>3. batch.status # "NONE"
  BY DEF Enqueue, ApiDies, RowsInv, NoneInv
<1>4. TypeOK' /\ NoneInv'
  BY <1>1, <1>2, <1>3 DEF RowsInv, TypeOK, NoneInv
<1>5. RowsInv'
  BY <1>1, <1>4 DEF RowsInv, JudgedAsHashed, CountersOK, LockInv, SubmitInv, OpenInv, RoomInv, Room, Busy
<1>6. PaidInv'
  BY <1>1, UntouchedPaid
<1>7. QED BY <1>5, <1>6 DEF BatchInv

\* A request that changes, a provider batch that ends, and a step of nobody.
LEMMA Surroundings ==
    BatchInv /\ ((\E e \in Emails : RequestChanges(e)) \/ ProviderEnds \/ UNCHANGED vars) => BatchInv'
<1> SUFFICES ASSUME RowsInv, PaidInv,
                    (\E e \in Emails : RequestChanges(e)) \/ ProviderEnds \/ UNCHANGED vars
             PROVE  BatchInv'
  BY DEF BatchInv
<1>1. UNCHANGED <<batch, item, job, worker, lock, api, retries, paid, orphans>>
  BY DEF RequestChanges, ProviderEnds, vars, bounds, history
<1>2. /\ changed' \subseteq Emails /\ provider'.other = {}
      /\ provider' \in [asked : SUBSET Emails, other : SUBSET Emails, ended : BOOLEAN]
  <2>1. changed \subseteq Emails /\ provider.other = {}
        /\ provider \in [asked : SUBSET Emails, other : SUBSET Emails, ended : BOOLEAN]
    BY DEF RowsInv, TypeOK
  <2>2. CASE \E e \in Emails : RequestChanges(e)
    BY <2>1, <2>2 DEF RequestChanges
  <2>3. CASE ProviderEnds
    BY <2>1, <2>3 DEF ProviderEnds
  <2>4. CASE UNCHANGED vars
    BY <2>1, <2>4 DEF vars
  <2>5. QED BY <2>2, <2>3, <2>4
<1>3. TypeOK'
  BY <1>1, <1>2 DEF RowsInv, TypeOK
<1>4. RowsInv'
  BY <1>1, <1>2, <1>3 DEF RowsInv, JudgedAsHashed, CountersOK, LockInv, NoneInv, SubmitInv, OpenInv, RoomInv, Room, Busy
<1>5. PaidInv'
  BY <1>1, UntouchedPaid
<1>6. QED BY <1>4, <1>5 DEF BatchInv

-----------------------------------------------------------------------------
(* Steps of a worker *)

LEMMA Claims == ASSUME NEW w \in Workers PROVE BatchInv /\ (\E j \in 0 .. MaxRetries : Claim(w, j)) => BatchInv'
<1> SUFFICES ASSUME RowsInv, PaidInv, NEW j \in 0 .. MaxRetries, Claim(w, j) PROVE BatchInv'
  BY DEF BatchInv
<1> DEFINE s == [pc |-> "waiting", job |-> j, seen |-> {}]
<1>1. /\ UNCHANGED <<batch, item, changed, provider, lock, api, retries, paid, orphans>>
      /\ worker[w].pc = "idle" /\ job[j] # "none"
      /\ job' = [job EXCEPT ![j] = "running"] /\ worker' = [worker EXCEPT ![w] = s]
  BY DEF Claim, history
<1>2. s \in [pc : Pcs, job : 0 .. MaxRetries, seen : SUBSET Emails] /\ s.pc = "waiting"
  BY DEF Pcs
<1> HIDE DEF s
<1>3. /\ worker' \in [Workers -> [pc : Pcs, job : 0 .. MaxRetries, seen : SUBSET Emails]]
      /\ worker'[w].pc = "waiting"
      /\ \A v \in Workers : v # w => worker'[v] = worker[v]
  BY <1>1, <1>2, WorkerTypes DEF RowsInv
<1>4. job' \in [0 .. MaxRetries -> {"none", "queued", "running", "done"}]
  BY <1>1 DEF RowsInv, TypeOK
<1>5. batch.status # "NONE"
  BY <1>1 DEF RowsInv, NoneInv
<1>6. TypeOK' /\ NoneInv'
  BY <1>1, <1>3, <1>4, <1>5 DEF RowsInv, TypeOK, NoneInv
<1>7. LockInv'
  BY <1>1, <1>3 DEF RowsInv, LockInv, Busy
<1>8. SubmitInv'
  BY <1>1, <1>3 DEF RowsInv, SubmitInv
<1>9. RowsInv'
  BY <1>1, <1>6, <1>7, <1>8 DEF RowsInv, JudgedAsHashed, CountersOK, OpenInv, RoomInv, Room
<1>10. PaidInv'
  BY <1>1, <1>3, UntouchedPaid
<1>11. QED BY <1>9, <1>10 DEF BatchInv

LEMMA Locks == ASSUME NEW w \in Workers PROVE BatchInv /\ LockBatch(w) => BatchInv'
<1> SUFFICES ASSUME RowsInv, PaidInv, LockBatch(w) PROVE BatchInv'
  BY DEF BatchInv
<1> DEFINE pc == IF batch.provider THEN "polling" ELSE "submitting"
           s == [worker[w] EXCEPT !.pc = pc]
           t == [s EXCEPT !.seen = changed]
<1>1. /\ UNCHANGED <<batch, item, changed, provider, job, api, retries, paid, orphans>>
      /\ worker[w].pc = "waiting" /\ lock = {} /\ lock' = {w}
      /\ worker' = [worker EXCEPT ![w] = t]
  BY DEF LockBatch, bounds, history
<1>2. worker[w] \in [pc : Pcs, job : 0 .. MaxRetries, seen : SUBSET Emails] /\ changed \subseteq Emails
  BY WorkerTypes DEF RowsInv, TypeOK
<1>3. s \in [pc : Pcs, job : 0 .. MaxRetries, seen : SUBSET Emails] /\ s.pc = pc
  BY <1>2 DEF Pcs
<1> HIDE DEF s
<1>4. t \in [pc : Pcs, job : 0 .. MaxRetries, seen : SUBSET Emails] /\ t.pc = pc
  BY <1>2, <1>3
<1> HIDE DEF t
<1>5. /\ worker' \in [Workers -> [pc : Pcs, job : 0 .. MaxRetries, seen : SUBSET Emails]]
      /\ worker'[w].pc = pc
      /\ \A v \in Workers : v # w => worker'[v] = worker[v]
  BY <1>1, <1>4, WorkerTypes DEF RowsInv
<1>6. batch.status # "NONE"
  BY <1>1, BatchExists
<1>7. TypeOK' /\ NoneInv'
  BY <1>1, <1>5, <1>6, LockTypes DEF RowsInv, TypeOK, NoneInv
<1>8. \A v \in Workers : ~Busy(v)
  BY <1>1 DEF RowsInv, LockInv
<1>9. LockInv'
  BY <1>1, <1>5, <1>8 DEF LockInv, Busy
<1>10. SubmitInv'
  BY <1>1, <1>5 DEF RowsInv, SubmitInv
<1>11. RowsInv'
  BY <1>1, <1>7, <1>9, <1>10 DEF RowsInv, JudgedAsHashed, CountersOK, OpenInv, RoomInv, Room
<1>12. PaidInv'
  BY <1>1, <1>8, UntouchedPaid DEF Busy
<1>13. QED BY <1>11, <1>12 DEF BatchInv

LEMMA Leaves == ASSUME NEW w \in Workers PROVE BatchInv /\ (NothingLeft(w) \/ Crash(w)) => BatchInv'
<1> SUFFICES ASSUME RowsInv, PaidInv, NothingLeft(w) \/ Crash(w) PROVE BatchInv'
  BY DEF BatchInv
<1>1. /\ UNCHANGED <<batch, item, changed, provider, api, retries, paid>>
      /\ worker[w].pc # "idle"
      /\ worker' = [worker EXCEPT ![w] = Idle] /\ lock' = lock \ {w}
      /\ orphans' = IF worker[w].pc = "accepted" THEN orphans + 1 ELSE orphans
      /\ job' \in [0 .. MaxRetries -> {"none", "queued", "running", "done"}]
  <2>1. CASE NothingLeft(w)
    BY <2>1, Committing DEF NothingLeft, bounds, history
  <2>2. CASE Crash(w)
    BY <2>2 DEF Crash, RowsInv, TypeOK
  <2>3. QED BY <2>1, <2>2
<1>2. /\ worker' \in [Workers -> [pc : Pcs, job : 0 .. MaxRetries, seen : SUBSET Emails]]
      /\ worker'[w].pc = "idle"
      /\ \A v \in Workers : v # w => worker'[v] = worker[v]
      /\ lock' \subseteq Workers /\ Cardinality(lock') <= 1
      /\ LockInv'
  BY <1>1, Leaving
<1>3. batch.status # "NONE"
  BY <1>1, BatchExists
<1>4. TypeOK' /\ NoneInv'
  BY <1>1, <1>2, <1>3 DEF RowsInv, TypeOK, NoneInv
<1>5. CountersOK' /\ SubmitInv'
  BY <1>1, <1>2 DEF RowsInv, CountersOK, SubmitInv
<1>6. RowsInv'
  BY <1>1, <1>2, <1>4, <1>5 DEF RowsInv, JudgedAsHashed, OpenInv, RoomInv, Room
<1>7. CASE worker[w].pc = "accepted"
  <2>1. ASSUME NEW e \in Emails
        PROVE  paid'[e] <= item'[e].attempts + Before' + orphans'
    <3>1. Before \in Nat /\ Before' = Before
      BY <1>1, Products DEF RowsInv, Before
    <3>2. paid[e] \in Nat /\ orphans \in Nat /\ item[e].attempts \in Nat
      BY DEF RowsInv, CountersOK, TypeOK, Item
    <3>3. paid[e] <= item[e].attempts + Before + orphans + 1
      BY <3>1, <3>2 DEF PaidInv
    <3>4. QED BY <1>1, <1>7, <3>1, <3>2, <3>3
  <2>2. QED BY <1>6, <2>1 DEF BatchInv, PaidInv
<1>8. CASE worker[w].pc # "accepted"
  BY <1>1, <1>2, <1>6, <1>8, UntouchedPaid DEF BatchInv
<1>9. QED BY <1>7, <1>8

LEMMA Accepts == ASSUME NEW w \in Workers PROVE BatchInv /\ ProviderAccepts(w) => BatchInv'
<1> SUFFICES ASSUME RowsInv, PaidInv, ProviderAccepts(w) PROVE BatchInv'
  BY DEF BatchInv
<1> DEFINE s == [worker[w] EXCEPT !.pc = "accepted"]
<1>1. /\ UNCHANGED <<batch, item, changed, job, lock, api, retries, orphans>>
      /\ worker[w].pc = "submitting" /\ worker' = [worker EXCEPT ![w] = s]
      /\ paid' = [e \in Emails |-> IF e \in Asked(w) THEN paid[e] + 1 ELSE paid[e]]
      /\ provider' = NewBatch(w)
  BY DEF ProviderAccepts, bounds
<1>2. worker[w] \in [pc : Pcs, job : 0 .. MaxRetries, seen : SUBSET Emails]
  BY WorkerTypes DEF RowsInv
<1>3. s \in [pc : Pcs, job : 0 .. MaxRetries, seen : SUBSET Emails] /\ s.pc = "accepted" /\ s.seen = worker[w].seen
  BY <1>2 DEF Pcs
<1> HIDE DEF s
<1>4. /\ worker' \in [Workers -> [pc : Pcs, job : 0 .. MaxRetries, seen : SUBSET Emails]]
      /\ worker'[w].pc = "accepted" /\ worker'[w].seen = worker[w].seen
      /\ \A v \in Workers : v # w => worker'[v] = worker[v]
  BY <1>1, <1>3, WorkerTypes DEF RowsInv
<1>5. Asked(w) \subseteq Emails /\ Asked(w) \cap worker[w].seen = {}
  BY Dropping, ItemsAreGood DEF RowsInv, Asked, Pending
<1>6. /\ provider'.other = {}
      /\ provider' \in [asked : SUBSET Emails, other : SUBSET Emails, ended : BOOLEAN]
  BY <1>1, <1>5 DEF NewBatch
<1>7. \A v \in Workers : v # w => ~Busy(v)
  BY <1>1, Alone DEF RowsInv, Busy
<1>8. batch.status # "NONE"
  BY <1>1, BatchExists
<1>9. \A e \in Emails : paid[e] \in Nat
  BY DEF RowsInv, CountersOK
<1>10. CountersOK'
  BY <1>1, <1>9 DEF RowsInv, CountersOK
<1>11. TypeOK' /\ NoneInv'
  BY <1>1, <1>4, <1>6, <1>8 DEF RowsInv, TypeOK, NoneInv
<1>12. LockInv' /\ SubmitInv'
  BY <1>1, <1>4 DEF RowsInv, LockInv, SubmitInv, Busy
<1>13. RowsInv'
  BY <1>1, <1>6, <1>10, <1>11, <1>12 DEF RowsInv, JudgedAsHashed, OpenInv, RoomInv, Room
<1>14. PaidInv'
  <2>1. Asked(w)' = Asked(w)
    BY <1>1, <1>4 DEF Asked
  <2>2. Before \in Nat /\ Before' = Before
    BY <1>1, Products DEF RowsInv, Before
  <2>3. \A v \in Workers : worker[v].pc # "accepted"
    BY <1>1, <1>7 DEF Busy
  <2>4. ASSUME NEW e \in Emails
        PROVE  \/ paid'[e] <= item'[e].attempts + Before' + orphans'
               \/ /\ paid'[e] <= item'[e].attempts + Before' + orphans' + 1
                  /\ e \in Asked(w)'
    <3>1. paid[e] <= item[e].attempts + Before + orphans
      BY <2>3, AllCounted
    <3>2. paid[e] \in Nat /\ orphans \in Nat /\ item[e].attempts \in Nat
      BY DEF RowsInv, CountersOK, TypeOK, Item
    <3>3. CASE e \in Asked(w)
      BY <1>1, <2>1, <2>2, <3>1, <3>2, <3>3
    <3>4. CASE e \notin Asked(w)
      BY <1>1, <2>2, <3>1, <3>4
    <3>5. QED BY <3>3, <3>4
  <2>5. QED BY <1>4, <2>4 DEF PaidInv
<1>15. QED BY <1>13, <1>14 DEF BatchInv

\* The attempt is counted for exactly the items that were asked for.
LEMMA Records == ASSUME NEW w \in Workers PROVE BatchInv /\ RecordSubmission(w) => BatchInv'
<1> SUFFICES ASSUME RowsInv, PaidInv, RecordSubmission(w) PROVE BatchInv'
  BY DEF BatchInv
<1> DEFINE d == DropChanged(item, worker[w].seen)
<1>1. /\ UNCHANGED <<changed, provider, api, retries, paid, orphans>>
      /\ worker[w].pc = "accepted" /\ Commit(w, TRUE) /\ item' = CountAttempt(d)
      /\ batch' = [batch EXCEPT !.status = "IN_PROGRESS", !.provider = TRUE]
  BY DEF RecordSubmission, bounds
<1>2. Busy(w) /\ ~batch.provider
  BY <1>1 DEF Busy, RowsInv, SubmitInv
<1>3. GoodItems(d) /\ Room(d) /\ \A e \in Emails : d[e].attempts = item[e].attempts
  BY <1>2, Dropping, ItemsAreGood DEF RowsInv, RoomInv
<1> HIDE DEF d
<1>4. /\ GoodItems(item')
      /\ \A e \in Emails : item'[e].attempts = item[e].attempts + (IF e \in Pending(d) THEN 1 ELSE 0)
  BY <1>1, <1>3, Counting
<1>5. /\ batch' \in [status : BatchStatus \ {"NONE"}, provider : BOOLEAN, readFailures : 0 .. MaxAttempts]
      /\ batch'.provider /\ batch'.status = "IN_PROGRESS"
  <2> DEFINE b == [batch EXCEPT !.status = "IN_PROGRESS"]
  <2>1. batch \in [status : BatchStatus \ {"NONE"}, provider : BOOLEAN, readFailures : 0 .. MaxAttempts]
    BY <1>1, BatchExists
  <2>2. b \in [status : BatchStatus \ {"NONE"}, provider : BOOLEAN, readFailures : 0 .. MaxAttempts]
        /\ b.status = "IN_PROGRESS"
    BY <2>1 DEF BatchStatus
  <2>3. batch' = [b EXCEPT !.provider = TRUE]
    BY <1>1
  <2> HIDE DEF b
  <2>4. QED BY <2>2, <2>3
<1>6. OpenInv'
  BY <1>5 DEF OpenInv, BATCH_TERMINAL_STATUSES
<1>7. paid' \in [Emails -> Nat] /\ orphans' \in Nat
  BY <1>1 DEF RowsInv, CountersOK
<1>8. RowsInv'
  BY <1>1, <1>2, <1>4, <1>5, <1>6, <1>7, Commits
<1>9. ASSUME NEW e \in Emails
      PROVE  paid'[e] <= item'[e].attempts + Before' + orphans'
  <2>1. Before \in Nat /\ Before' = Before
    BY <1>1, Products DEF RowsInv, Before
  <2>2. paid[e] \in Nat /\ orphans \in Nat /\ item[e].attempts \in Nat
    BY DEF RowsInv, CountersOK, TypeOK, Item
  <2>3. \A v \in Workers : worker[v].pc = "accepted" => v = w
    BY <1>2, Alone DEF RowsInv, Busy
  <2>4. CASE e \in Pending(d)
    <3>1. paid[e] <= item[e].attempts + Before + orphans + 1
      BY <2>1, <2>2 DEF PaidInv
    <3>2. QED BY <1>1, <1>4, <2>1, <2>2, <2>4, <3>1
  <2>5. CASE e \notin Pending(d)
    <3>1. paid[e] <= item[e].attempts + Before + orphans
      BY <2>3, <2>5 DEF PaidInv, Asked, d
    <3>2. QED BY <1>1, <1>4, <2>1, <2>2, <2>5, <3>1
  <2>6. QED BY <2>4, <2>5
<1>10. QED BY <1>8, <1>9 DEF BatchInv, PaidInv

LEMMA NothingSubmits == ASSUME NEW w \in Workers PROVE BatchInv /\ NothingToSubmit(w) => BatchInv'
<1> SUFFICES ASSUME RowsInv, PaidInv, NothingToSubmit(w) PROVE BatchInv'
  BY DEF BatchInv
<1>1. /\ UNCHANGED <<changed, provider, api, retries, paid, orphans>>
      /\ worker[w].pc = "submitting" /\ Commit(w, FALSE)
      /\ item' = DropChanged(item, worker[w].seen) /\ batch' = AfterAttempt(item')
  BY DEF NothingToSubmit, bounds, history
<1>2. Busy(w) /\ ~batch.provider
  BY <1>1 DEF Busy, RowsInv, SubmitInv
<1>3. GoodItems(item') /\ Room(item') /\ \A e \in Emails : item'[e].attempts = item[e].attempts
  BY <1>1, <1>2, Dropping, ItemsAreGood DEF RowsInv, RoomInv
<1>4. /\ batch' \in [status : BatchStatus \ {"NONE"}, provider : BOOLEAN, readFailures : 0 .. MaxAttempts]
      /\ OpenInv'
  BY <1>1, AfterAttempts DEF OpenInv
<1>5. paid' \in [Emails -> Nat] /\ orphans' \in Nat
  BY <1>1 DEF RowsInv, CountersOK
<1>6. RowsInv'
  BY <1>1, <1>2, <1>3, <1>4, <1>5, Commits
<1>7. \A e \in Emails : item'[e].attempts >= item[e].attempts
  BY <1>3 DEF RowsInv, TypeOK, Item
<1>8. orphans' >= orphans /\ \A v \in Workers : worker[v].pc # "accepted"
  BY <1>1, <1>2, Alone DEF RowsInv, CountersOK, Busy
<1>9. PaidInv'
  BY <1>1, <1>6, <1>7, <1>8, AllCounted, StillAllowed
<1>10. QED BY <1>6, <1>9 DEF BatchInv

\* The provider may have taken what the failed call asked for: then it is an orphan.
LEMMA SubmissionsFail == ASSUME NEW w \in Workers PROVE BatchInv /\ SubmissionFails(w) => BatchInv'
<1> SUFFICES ASSUME RowsInv, PaidInv, SubmissionFails(w) PROVE BatchInv'
  BY DEF BatchInv
<1> DEFINE d == DropChanged(item, worker[w].seen)
<1>1. /\ UNCHANGED <<changed, provider, api, retries, paid>>
      /\ worker[w].pc \in {"submitting", "accepted"} /\ Commit(w, Pending(item') # {})
      /\ orphans' = IF worker[w].pc = "accepted" THEN orphans + 1 ELSE orphans
      /\ item' = FailPending(d, 1)
      /\ batch' = [AfterAttempt(item') EXCEPT !.readFailures = batch.readFailures]
  BY DEF SubmissionFails, bounds
<1>2. Busy(w) /\ ~batch.provider
  BY <1>1 DEF Busy, RowsInv, SubmitInv
<1>3. GoodItems(d) /\ Room(d) /\ \A e \in Emails : d[e].attempts = item[e].attempts
  BY <1>2, Dropping, ItemsAreGood DEF RowsInv, RoomInv
<1> HIDE DEF d
<1>4. GoodItems(item') /\ Room(item') /\ \A e \in Emails : item'[e].attempts >= item[e].attempts
  BY <1>1, <1>3, FailingPending
<1>5. /\ batch' \in [status : BatchStatus \ {"NONE"}, provider : BOOLEAN, readFailures : 0 .. MaxAttempts]
      /\ ~batch'.provider
  <2>1. batch.readFailures \in 0 .. MaxAttempts
    BY DEF RowsInv, TypeOK
  <2>2. QED BY <1>1, <2>1, AfterAttempts
<1>6. OpenInv'
  BY <1>5 DEF OpenInv
<1>7. paid' \in [Emails -> Nat] /\ orphans' \in Nat
  BY <1>1 DEF RowsInv, CountersOK
<1>8. RowsInv'
  BY <1>1, <1>2, <1>4, <1>5, <1>6, <1>7, Commits
<1>9. ASSUME NEW e \in Emails
      PROVE  paid'[e] <= item'[e].attempts + Before' + orphans'
  <2>1. Before \in Nat /\ Before' = Before
    BY <1>1, Products DEF RowsInv, Before
  <2>2. paid[e] \in Nat /\ orphans \in Nat /\ item[e].attempts \in Nat /\ item'[e].attempts \in Nat
    BY <1>8 DEF RowsInv, CountersOK, TypeOK, Item
  <2>3. \A v \in Workers : worker[v].pc = "accepted" => v = w
    BY <1>2, Alone DEF RowsInv, Busy
  <2>4. CASE worker[w].pc = "accepted"
    <3>1. paid[e] <= item[e].attempts + Before + orphans + 1
      BY <2>1, <2>2 DEF PaidInv
    <3>2. QED BY <1>1, <1>4, <2>1, <2>2, <2>4, <3>1
  <2>5. CASE worker[w].pc # "accepted"
    <3>1. paid[e] <= item[e].attempts + Before + orphans
      BY <2>3, <2>5 DEF PaidInv
    <3>2. QED BY <1>1, <1>4, <2>1, <2>2, <2>5, <3>1
  <2>6. QED BY <2>4, <2>5
<1>10. QED BY <1>8, <1>9 DEF BatchInv, PaidInv

LEMMA ReadsFail ==
    ASSUME NEW w \in Workers, NEW before \in 0 .. MaxAttempts, RowsInv, PaidInv,
           worker[w].pc = "polling", ReadFailed(w, before)
    PROVE  BatchInv'
<1>1. /\ UNCHANGED <<changed, provider, api, retries, paid, orphans>>
  BY DEF ReadFailed
<1>2. Busy(w)
  BY DEF Busy
<1>3. batch \in [status : BatchStatus \ {"NONE"}, provider : BOOLEAN, readFailures : 0 .. MaxAttempts]
  BY BatchExists
<1>4. PICK again \in BOOLEAN :
        /\ Commit(w, again)
        /\ GoodItems(item') /\ (~batch'.provider => Room(item')) /\ OpenInv'
        /\ batch' \in [status : BatchStatus \ {"NONE"}, provider : BOOLEAN, readFailures : 0 .. MaxAttempts]
        /\ \A e \in Emails : item'[e].attempts >= item[e].attempts
  <2>1. CASE before + 1 < MaxAttempts
    <3>1. batch' = [batch EXCEPT !.readFailures = before + 1] /\ item' = item /\ Commit(w, TRUE)
      BY <2>1 DEF ReadFailed
    <3>2. before + 1 \in 0 .. MaxAttempts
      BY <2>1
    <3>3. /\ batch' \in [status : BatchStatus \ {"NONE"}, provider : BOOLEAN, readFailures : 0 .. MaxAttempts]
          /\ batch'.status = batch.status /\ batch'.provider = batch.provider
      BY <1>3, <3>1, <3>2
    <3>4. GoodItems(item') /\ (~batch'.provider => Room(item')) /\ OpenInv'
      BY <3>1, <3>3, ItemsAreGood DEF RowsInv, RoomInv, OpenInv
    <3>5. \A e \in Emails : item'[e].attempts >= item[e].attempts
      BY <3>1 DEF RowsInv, TypeOK, Item
    <3>6. QED BY <3>1, <3>3, <3>4, <3>5
  <2>2. CASE ~(before + 1 < MaxAttempts)
    <3>1. item' = FailPending(item, 0) /\ batch' = AfterAttempt(item') /\ Commit(w, Pending(item') # {})
      BY <2>2 DEF ReadFailed
    <3>2. GoodItems(item') /\ Room(item') /\ \A e \in Emails : item'[e].attempts >= item[e].attempts
      BY <3>1, FailingPending, ItemsAreGood DEF RowsInv
    <3>3. /\ batch' \in [status : BatchStatus \ {"NONE"}, provider : BOOLEAN, readFailures : 0 .. MaxAttempts]
          /\ OpenInv'
      BY <3>1, AfterAttempts DEF OpenInv
    <3>4. QED BY <3>1, <3>2, <3>3
  <2>3. QED BY <2>1, <2>2
<1>5. paid' \in [Emails -> Nat] /\ orphans' \in Nat
  BY <1>1 DEF RowsInv, CountersOK
<1>6. RowsInv'
  BY <1>1, <1>2, <1>4, <1>5, Commits
<1>7. orphans' >= orphans /\ \A v \in Workers : worker[v].pc # "accepted"
  BY <1>1, <1>2, Alone DEF RowsInv, CountersOK, Busy
<1>8. PaidInv'
  BY <1>1, <1>4, <1>6, <1>7, AllCounted, StillAllowed
<1>9. QED BY <1>6, <1>8 DEF BatchInv

LEMMA Polls == ASSUME NEW w \in Workers PROVE BatchInv /\ Poll(w) => BatchInv'
<1> SUFFICES ASSUME RowsInv, PaidInv, Poll(w) PROVE BatchInv'
  BY DEF BatchInv
<1>1. worker[w].pc = "polling" /\ Busy(w)
  BY DEF Poll, StatusReadFails, ResultsReadFails, StillProcessing, StoreResults, Busy
<1>2. CASE StatusReadFails(w)
  <2>1. batch.readFailures \in 0 .. MaxAttempts
    BY DEF RowsInv, TypeOK
  <2>2. QED BY <1>1, <1>2, <2>1, ReadsFail DEF StatusReadFails
<1>3. CASE ResultsReadFails(w)
  <2>1. 0 \in 0 .. MaxAttempts
    OBVIOUS
  <2>2. QED BY <1>1, <1>3, <2>1, ReadsFail DEF ResultsReadFails
<1>4. CASE StillProcessing(w) \/ StoreResults(w)
  <2>1. UNCHANGED <<changed, provider, api, retries, paid, orphans>>
    BY <1>4 DEF StillProcessing, StoreResults, bounds
  <2>2. batch \in [status : BatchStatus \ {"NONE"}, provider : BOOLEAN, readFailures : 0 .. MaxAttempts]
    BY <1>1, BatchExists
  <2>3. PICK again \in BOOLEAN :
          /\ Commit(w, again)
          /\ GoodItems(item') /\ (~batch'.provider => Room(item')) /\ OpenInv'
          /\ batch' \in [status : BatchStatus \ {"NONE"}, provider : BOOLEAN, readFailures : 0 .. MaxAttempts]
          /\ \A e \in Emails : item'[e].attempts >= item[e].attempts
    <3>1. CASE StillProcessing(w)
      <4> DEFINE b == [batch EXCEPT !.status = "IN_PROGRESS"]
      <4>1. /\ b \in [status : BatchStatus \ {"NONE"}, provider : BOOLEAN, readFailures : 0 .. MaxAttempts]
            /\ b.status = "IN_PROGRESS" /\ b.provider = batch.provider
        BY <2>2 DEF BatchStatus
      <4>2. batch' = [b EXCEPT !.readFailures = 0] /\ item' = item /\ Commit(w, TRUE)
        BY <3>1 DEF StillProcessing
      <4> HIDE DEF b
      <4>3. /\ batch' \in [status : BatchStatus \ {"NONE"}, provider : BOOLEAN, readFailures : 0 .. MaxAttempts]
            /\ batch'.status = "IN_PROGRESS" /\ batch'.provider = batch.provider
        BY <4>1, <4>2
      <4>4. GoodItems(item') /\ (~batch'.provider => Room(item')) /\ OpenInv'
        BY <4>2, <4>3, ItemsAreGood DEF RowsInv, RoomInv, OpenInv, BATCH_TERMINAL_STATUSES
      <4>5. \A e \in Emails : item'[e].attempts >= item[e].attempts
        BY <4>2 DEF RowsInv, TypeOK, Item
      <4>6. QED BY <4>2, <4>3, <4>4, <4>5
    <3>2. CASE StoreResults(w)
      <4>1. PICK good \in Parsed : item' = Answered(good)
        BY <3>2 DEF StoreResults
      <4>2. GoodItems(item') /\ Room(item') /\ \A e \in Emails : item'[e].attempts = item[e].attempts
        BY <4>1, Answering, ItemsAreGood DEF RowsInv
      <4>3. batch' = AfterAttempt(item') /\ Commit(w, Pending(item') # {})
        BY <3>2 DEF StoreResults
      <4>4. /\ batch' \in [status : BatchStatus \ {"NONE"}, provider : BOOLEAN, readFailures : 0 .. MaxAttempts]
            /\ OpenInv'
        BY <4>3, AfterAttempts DEF OpenInv
      <4>5. \A e \in Emails : item'[e].attempts >= item[e].attempts
        BY <4>2 DEF RowsInv, TypeOK, Item
      <4>6. QED BY <4>2, <4>3, <4>4, <4>5
    <3>3. QED BY <1>4, <3>1, <3>2
  <2>4. paid' \in [Emails -> Nat] /\ orphans' \in Nat
    BY <2>1 DEF RowsInv, CountersOK
  <2>5. RowsInv'
    BY <1>1, <2>1, <2>3, <2>4, Commits
  <2>6. orphans' >= orphans /\ \A v \in Workers : worker[v].pc # "accepted"
    BY <1>1, <2>1, Alone DEF RowsInv, CountersOK, Busy
  <2>7. PaidInv'
    BY <2>1, <2>3, <2>5, <2>6, AllCounted, StillAllowed
  <2>8. QED BY <2>5, <2>7 DEF BatchInv
<1>5. QED BY <1>2, <1>3, <1>4 DEF Poll

-----------------------------------------------------------------------------
LEMMA InvStarts == Init => BatchInv
<1> SUFFICES ASSUME Init PROVE BatchInv
  OBVIOUS
<1>1. Idle \in [pc : Pcs, job : 0 .. MaxRetries, seen : SUBSET Emails] /\ Idle.pc = "idle"
  BY DEF Idle, Pcs
<1>2. \A w \in Workers : worker[w] = Idle
  BY DEF Init
<1>3. ASSUME NEW e \in Emails
      PROVE  /\ item[e] \in Item /\ item[e].status = "PENDING" /\ item[e].attempts = 0
             /\ item[e].judged = "none" /\ paid[e] = 0
  BY DEF Init, Item
<1>4. item \in [Emails -> Item]
  BY <1>3 DEF Init
<1>5. batch \in [status : BatchStatus, provider : BOOLEAN, readFailures : 0 .. MaxAttempts]
      /\ batch.status = "NONE" /\ ~batch.provider
  BY DEF Init, BatchStatus
<1>6. TypeOK
  BY <1>1, <1>4, <1>5, FS_EmptySet DEF Init, TypeOK
<1>7. CountersOK /\ RoomInv /\ JudgedAsHashed
  BY <1>3 DEF Init, CountersOK, RoomInv, Room, JudgedAsHashed
<1>8. LockInv /\ NoneInv /\ SubmitInv /\ OpenInv /\ provider.other = {}
  BY <1>1, <1>2, <1>3, <1>5 DEF Init, LockInv, Busy, NoneInv, SubmitInv, OpenInv
<1>9. RowsInv
  BY <1>6, <1>7, <1>8 DEF RowsInv
<1>10. Before \in Nat
  BY <1>7, Products
<1>11. PaidInv
  BY <1>3, <1>10 DEF PaidInv, Init
<1>12. QED BY <1>9, <1>11 DEF BatchInv

LEMMA InvStays == BatchInv /\ [Next]_vars => BatchInv'
<1> SUFFICES ASSUME BatchInv, [Next]_vars PROVE BatchInv'
  OBVIOUS
<1>1. CASE Administer
  BY <1>1, Creates, Retries, Enqueues DEF Administer
<1>2. CASE (\E e \in Emails : RequestChanges(e)) \/ ProviderEnds \/ UNCHANGED vars
  BY <1>2, Surroundings
<1>3. ASSUME NEW w \in Workers, Work(w) \/ Crash(w)
      PROVE  BatchInv'
  <2>1. CASE (\E j \in 0 .. MaxRetries : Claim(w, j)) \/ LockBatch(w)
    BY <2>1, Claims, Locks
  <2>2. CASE NothingLeft(w) \/ Crash(w)
    BY <2>2, Leaves
  <2>3. CASE Submit(w)
    BY <2>3, Accepts, Records, NothingSubmits, SubmissionsFail DEF Submit
  <2>4. CASE Poll(w)
    BY <2>4, Polls
  <2>5. QED BY <1>3, <2>1, <2>2, <2>3, <2>4 DEF Work
<1>4. QED BY <1>1, <1>2, <1>3 DEF Next

\* The rows of the batch and its items keep their types, and at most one worker holds them.
THEOREM BatchTypes == Spec => []TypeOK
<1>1. BatchInv => TypeOK
  BY DEF BatchInv, RowsInv
<1>2. QED BY <1>1, InvStarts, InvStays, PTL DEF Spec

\* process_disposition_batch: no email is paid for more often than its attempts allow, but for
\* the submissions whose answer was lost, however many workers claim the batch's jobs.
THEOREM NeverPaidTwice == Spec => []PaidOnce
<1>1. BatchInv => PaidOnce
  <2> SUFFICES ASSUME RowsInv, PaidInv, NEW e \in Emails
               PROVE  paid[e] <= MaxAttempts * (retries + 1) + orphans
    BY DEF BatchInv, PaidOnce
  <2>1. Before \in Nat /\ MaxAttempts * (retries + 1) = Before + MaxAttempts
    BY Products DEF RowsInv
  <2>2. /\ paid[e] \in Nat /\ orphans \in Nat
        /\ item[e].attempts \in Nat /\ item[e].attempts <= MaxAttempts
    BY DEF RowsInv, CountersOK, TypeOK, Item
  <2>3. CASE paid[e] <= item[e].attempts + Before + orphans
    BY <2>1, <2>2, <2>3
  <2>4. ASSUME NEW w \in Workers, worker[w].pc = "accepted", e \in Asked(w),
               paid[e] <= item[e].attempts + Before + orphans + 1
        PROVE  paid[e] <= MaxAttempts * (retries + 1) + orphans
    <3>1. item[e].status = "PENDING"
      BY <2>4, Dropping, ItemsAreGood DEF RowsInv, Asked
    <3>2. item[e].attempts < MaxAttempts
      BY <2>4, <3>1 DEF RowsInv, SubmitInv, RoomInv, Room
    <3>3. QED BY <2>1, <2>2, <2>4, <3>2
  <2>5. QED BY <2>3, <2>4 DEF PaidInv
<1>2. QED BY <1>1, InvStarts, InvStays, PTL DEF Spec

\* input_hash: a stored classification was made from the request the item was created with.
THEOREM JudgedFromItsRequest == Spec => []JudgedAsHashed
<1>1. BatchInv => JudgedAsHashed
  BY DEF BatchInv, RowsInv
<1>2. QED BY <1>1, InvStarts, InvStays, PTL DEF Spec
=============================================================================
