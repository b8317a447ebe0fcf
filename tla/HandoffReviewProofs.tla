------------------------ MODULE HandoffReviewProofs ------------------------
(***************************************************************************)
(* The safety of HandoffReview for any number of requests, handoffs,       *)
(* products and price lists: its types, one answer for each handoff, the   *)
(* order of the rounds, and the address that approved messages go to.      *)
(*                                                                         *)
(* None of the three properties is inductive alone.  OneAnswerEach needs   *)
(* that a request under way is of a handoff; RoundsInOrder needs that    *)
(* the round a request under way is about to write is at most the next     *)
(* one, and that a price under way is of some product; SentToContact needs *)
(* that a claimed row still is to the address of the case.  The action     *)
(* that could break the last is ReplaceRecipient, which cancels the rows   *)
(* to the address it takes from the case.                                  *)
(***************************************************************************)
EXTENDS HandoffReview, TLAPS

\* The rounds of the quotes are 0..n.
RoundsTo(n) == n \in Int /\ n >= -1 /\ Rounds = 0..n
NoTwice == \A p, q \in quotes : p.round = q.round /\ p.product = q.product => p = q
RoundsInv == (\E n \in Int : RoundsTo(n)) /\ NoTwice

OfHandoff == \A c \in Clerks : ~At(c, "idle") => clerk[c].h \in Handoffs
PricesSome == \A c \in Clerks : clerk[c].pc \in {"price", "counted"} => clerk[c].lines # {}
InReach ==
    \A c \in Clerks : clerk[c].pc \in {"approve", "counted"} /\ clerk[c].lines # {} =>
        \A n \in Int : RoundsTo(n) => clerk[c].round <= n + 1

ClaimedToContact ==
    \A k \in Key : k[2] # "forward" /\ outbox[k].status = "CLAIMED" => outbox[k].to = case.contact

ReviewInv == TypeOK /\ OfHandoff /\ PricesSome /\ InReach /\ OneAnswerEach /\ RoundsInv /\ ClaimedToContact

-----------------------------------------------------------------------------
(* The records *)

\* What a request loads, and what it leaves to the others.
LEMMA Loading ==
    ASSUME TypeOK, NEW c \in Clerks, NEW h \in Handoffs, NEW pc \in {"approve", "price"},
           NEW lines \in SUBSET Products, Loads(c, h, pc, lines)
    PROVE  /\ clerk' \in [Clerks -> Request]
           /\ clerk'[c].pc = pc /\ clerk'[c].h = h /\ clerk'[c].lines = lines
           /\ clerk'[c].round = review[h].round
           /\ \A d \in Clerks : d # c => clerk'[d] = clerk[d]
<1> DEFINE r1 == [Idle EXCEPT !.pc = pc]
           r2 == [r1 EXCEPT !.h = h]
           r3 == [r2 EXCEPT !.case = case]
           r4 == [r3 EXCEPT !.lines = lines]
           r5 == [r4 EXCEPT !.round = review[h].round]
<1>1. case \in Case /\ clerk \in [Clerks -> Request] /\ review[h].round \in Nat
  BY DEF TypeOK, Review
<1>2. Idle \in Request
  BY DEF Idle, NoCase, Request, Case, Addresses, Reasons
<1>3. r1 \in Request /\ r1.pc = pc
  BY <1>2 DEF Request
<1> HIDE DEF r1
<1>4. r2 \in Request /\ r2.pc = pc /\ r2.h = h
  BY <1>3 DEF Request
<1> HIDE DEF r2
<1>5. r3 \in Request /\ r3.pc = pc /\ r3.h = h
  BY <1>1, <1>4 DEF Request
<1> HIDE DEF r3
<1>6. r4 \in Request /\ r4.pc = pc /\ r4.h = h /\ r4.lines = lines
  BY <1>5 DEF Request
<1> HIDE DEF r4
<1>7. r5 \in Request /\ r5.pc = pc /\ r5.h = h /\ r5.lines = lines /\ r5.round = review[h].round
  BY <1>1, <1>6 DEF Request
<1>8. clerk' = [clerk EXCEPT ![c] = r5]
  BY DEF Loads, r1, r2, r3, r4
<1> HIDE DEF r5
<1>9. QED BY <1>1, <1>7, <1>8

LEMMA Ending ==
    ASSUME TypeOK, NEW c \in Clerks, Ends(c)
    PROVE  /\ clerk' \in [Clerks -> Request]
           /\ clerk'[c].pc = "idle"
           /\ \A d \in Clerks : d # c => clerk'[d] = clerk[d]
<1>1. Idle \in Request /\ Idle.pc = "idle"
  BY DEF Idle, NoCase, Request, Case, Addresses, Reasons
<1>2. clerk' = [clerk EXCEPT ![c] = Idle] /\ clerk \in [Clerks -> Request]
  BY DEF Ends, TypeOK
<1>3. QED BY <1>1, <1>2

\* A handoff with another status, reason or set of drafts.
LEMMA Reviewing ==
    ASSUME TypeOK, NEW h \in Handoffs, NEW r \in Review,
           r.round = review[h].round, review' = [review EXCEPT ![h] = r]
    PROVE  /\ review' \in [Handoffs -> Review]
           /\ \A g \in Handoffs : review'[g].round = review[g].round
BY DEF TypeOK

LEMMA StatusWritten ==
    ASSUME TypeOK, NEW h \in Handoffs, NEW s \in {"OPEN", "RESOLVED"},
           review' = [review EXCEPT ![h].status = s]
    PROVE  /\ review' \in [Handoffs -> Review]
           /\ \A g \in Handoffs : review'[g].round = review[g].round
<1> DEFINE r == [review[h] EXCEPT !.status = s]
<1>1. review[h] \in Review
  BY DEF TypeOK
<1>2. r \in Review /\ r.round = review[h].round
  BY <1>1 DEF Review
<1>3. review' = [review EXCEPT ![h] = r]
  OBVIOUS
<1> HIDE DEF r
<1>4. QED BY <1>2, <1>3, Reviewing

LEMMA CaseWritten ==
    ASSUME TypeOK, NEW h \in Handoffs, review' = [review EXCEPT ![h].cased = TRUE]
    PROVE  /\ review' \in [Handoffs -> Review]
           /\ \A g \in Handoffs : review'[g].round = review[g].round
<1> DEFINE r == [review[h] EXCEPT !.cased = TRUE]
<1>1. review[h] \in Review
  BY DEF TypeOK
<1>2. r \in Review /\ r.round = review[h].round
  BY <1>1 DEF Review
<1>3. review' = [review EXCEPT ![h] = r]
  OBVIOUS
<1> HIDE DEF r
<1>4. QED BY <1>2, <1>3, Reviewing

\* A row that is approved, and one whose status changes.
LEMMA Approving ==
    ASSUME TypeOK, NEW k \in Key, NEW address \in Addresses, NEW lines \in SUBSET Products,
           Approve(k, address, lines)
    PROVE  /\ outbox' \in [Key -> Row]
           /\ outbox'[k].status = "PENDING" /\ outbox'[k].lines = lines
           /\ \A j \in Key : j # k => outbox'[j] = outbox[j]
BY DEF TypeOK, Approve, Row

LEMMA Moving ==
    ASSUME TypeOK, NEW k \in Key, NEW s \in {"CLAIMED", "SENT", "CANCELLED"},
           outbox' = [outbox EXCEPT ![k].status = s]
    PROVE  /\ outbox' \in [Key -> Row]
           /\ outbox'[k].status = s /\ outbox'[k].to = outbox[k].to
           /\ outbox'[k].lines = outbox[k].lines
           /\ \A j \in Key : j # k => outbox'[j] = outbox[j]
<1> DEFINE r == [outbox[k] EXCEPT !.status = s]
<1>1. outbox[k] \in Row /\ outbox \in [Key -> Row]
  BY DEF TypeOK
<1>2. r \in Row /\ r.status = s /\ r.to = outbox[k].to /\ r.lines = outbox[k].lines
  BY <1>1 DEF Row
<1>3. outbox' = [outbox EXCEPT ![k] = r]
  OBVIOUS
<1> HIDE DEF r
<1>4. QED BY <1>1, <1>2, <1>3

LEMMA Cancelling ==
    ASSUME TypeOK, NEW ks, CancelAll(ks)
    PROVE  /\ outbox' \in [Key -> Row]
           /\ \A k \in Key : /\ outbox'[k].lines = outbox[k].lines
                             /\ outbox'[k].status = "ABSENT" <=> outbox[k].status = "ABSENT"
                             /\ outbox'[k].status = "CLAIMED" => outbox'[k] = outbox[k]
                             /\ k \in ks => outbox'[k].status # "CLAIMED"
<1>1. \A k \in Key : outbox[k] \in Row
  BY DEF TypeOK
<1>2. \A k \in Key : [outbox[k] EXCEPT !.status = "CANCELLED"] \in Row
  BY <1>1 DEF Row
<1>3. \A k \in Key : outbox'[k] = IF k \in ks /\ Open(k)
                                  THEN [outbox[k] EXCEPT !.status = "CANCELLED"] ELSE outbox[k]
  BY DEF CancelAll
<1>4. outbox' \in [Key -> Row]
  BY <1>1, <1>2 DEF CancelAll
<1>5. ASSUME NEW k \in Key
      PROVE  /\ outbox'[k].lines = outbox[k].lines
             /\ outbox'[k].status = "ABSENT" <=> outbox[k].status = "ABSENT"
             /\ outbox'[k].status = "CLAIMED" => outbox'[k] = outbox[k]
             /\ k \in ks => outbox'[k].status # "CLAIMED"
  <2>1. CASE k \in ks /\ Open(k)
    <3>1. outbox'[k] = [outbox[k] EXCEPT !.status = "CANCELLED"]
      BY <1>3, <2>1
    <3>2. outbox'[k].status = "CANCELLED" /\ outbox'[k].lines = outbox[k].lines
      BY <1>1, <3>1 DEF Row
    <3>3. QED BY <2>1, <3>2 DEF Open
  <2>2. CASE ~(k \in ks /\ Open(k))
    BY <1>3, <2>2 DEF Open
  <2>3. QED BY <2>1, <2>2
<1>6. QED BY <1>4, <1>5

-----------------------------------------------------------------------------
(* What a step leaves alone *)

LEMMA SameRounds ==
    ASSUME RoundsInv, UNCHANGED quotes
    PROVE  RoundsInv' /\ \A n \in Int : RoundsTo(n)' <=> RoundsTo(n)
BY DEF RoundsInv, RoundsTo, Rounds, NoTwice

\* The requests that were approving something still do, or are gone.
LEMMA SameReach ==
    ASSUME InReach, RoundsInv, UNCHANGED quotes,
           \A c \in Clerks : clerk'[c] = clerk[c] \/ clerk'[c].pc \notin {"approve", "counted"}
    PROVE  InReach'
BY SameRounds DEF InReach

LEMMA SameAnswers ==
    ASSUME OneAnswerEach, UNCHANGED quotes,
           \A k \in Key : /\ outbox'[k].lines = outbox[k].lines
                          /\ outbox'[k].status = "ABSENT" <=> outbox[k].status = "ABSENT"
    PROVE  OneAnswerEach'
BY DEF OneAnswerEach, Answered, Written, KeysOf

\* The new answer of a handoff that had none, with the quotes that go with it.
LEMMA NewAnswer ==
    ASSUME TypeOK, OneAnswerEach, NEW h \in Handoffs, ~Answered(h),
           NEW k \in KeysOf(h), NEW lines \in SUBSET Products, NEW round, NEW version,
           quotes' = quotes \cup QuotesOf(h, lines, round, version),
           outbox'[k].status = "PENDING", outbox'[k].lines = lines,
           \A j \in Key : j # k => outbox'[j] = outbox[j]
    PROVE  OneAnswerEach'
<1>1. \A q \in quotes : q.by # h
  BY DEF OneAnswerEach
<1>2. \A q \in QuotesOf(h, lines, round, version) : q.by = h /\ q.product \in lines
  BY DEF QuotesOf
<1>3. \A p \in lines : \E q \in QuotesOf(h, lines, round, version) : q.product = p
  <2> SUFFICES ASSUME NEW p \in lines
               PROVE  \E q \in QuotesOf(h, lines, round, version) : q.product = p
    OBVIOUS
  <2> DEFINE q == [by |-> h, product |-> p, round |-> round, policy |-> version]
  <2>1. q \in QuotesOf(h, lines, round, version) /\ q.product = p
    BY DEF QuotesOf
  <2>2. QED BY <2>1
<1>4. {q.product : q \in {x \in quotes' : x.by = h}} = lines
  BY <1>1, <1>2, <1>3
<1>5. k \in Key /\ \A j \in KeysOf(h) : Written(j)' <=> j = k
  BY DEF Answered, Written, KeysOf
<1>6. ASSUME NEW g \in Handoffs, g # h
      PROVE  /\ \A j \in KeysOf(g) : j \in Key /\ outbox'[j] = outbox[j]
             /\ {x \in quotes' : x.by = g} = {x \in quotes : x.by = g}
  BY <1>2, <1>6 DEF KeysOf
<1>7. ASSUME NEW g \in Handoffs
      PROVE  /\ \A i, j \in KeysOf(g) :
                    /\ Written(i)' /\ Written(j)' => i = j
                    /\ Written(j)' => {q.product : q \in {x \in quotes' : x.by = g}} = outbox'[j].lines
             /\ ~Answered(g)' => \A q \in quotes' : q.by # g
  <2>1. CASE g = h
    BY <1>4, <1>5, <2>1 DEF Answered
  <2>2. CASE g # h
    <3>1. /\ \A j \in KeysOf(g) : Written(j)' <=> Written(j)
          /\ \A j \in KeysOf(g) : outbox'[j].lines = outbox[j].lines
      BY <1>6, <2>2 DEF Written
    <3>2. Answered(g)' <=> Answered(g)
      BY <3>1 DEF Answered, KeysOf
    <3>3. ~Answered(g) => \A q \in quotes : q.by # g
      <4>1. <<g, "reply">> \in KeysOf(g)
        BY DEF KeysOf, Key
      <4>2. QED BY <4>1 DEF OneAnswerEach
    <3>4. ASSUME NEW i \in KeysOf(g), NEW j \in KeysOf(g)
          PROVE  /\ Written(i)' /\ Written(j)' => i = j
                 /\ Written(j)' => {q.product : q \in {x \in quotes' : x.by = g}} = outbox'[j].lines
      <4>1. /\ Written(i) /\ Written(j) => i = j
            /\ Written(j) => {q.product : q \in {x \in quotes : x.by = g}} = outbox[j].lines
        BY DEF OneAnswerEach
      <4>2. {x \in quotes' : x.by = g} = {x \in quotes : x.by = g}
        BY <1>6, <2>2
      <4>3. /\ Written(i)' <=> Written(i)
            /\ Written(j)' <=> Written(j)
            /\ outbox'[j].lines = outbox[j].lines
        BY <3>1
      <4>4. QED BY <4>1, <4>2, <4>3
    <3>5. ~Answered(g)' => \A q \in quotes' : q.by # g
      BY <1>6, <2>2, <3>2, <3>3
    <3>6. QED BY <3>4, <3>5
  <2>3. QED BY <2>1, <2>2
<1>8. QED BY <1>7 DEF OneAnswerEach, KeysOf

\* A claimed row was claimed before, and the case is still at the address.
LEMMA SameContact ==
    ASSUME ClaimedToContact, case'.contact = case.contact,
           \A k \in Key : outbox'[k].status = "CLAIMED" => outbox'[k] = outbox[k]
    PROVE  ClaimedToContact'
BY DEF ClaimedToContact

\* The rounds count up to Latest.
LEMMA LatestRound ==
    ASSUME NEW n \in Int, RoundsTo(n)
    PROVE  Latest = n
<1>1. n \in Rounds \cup {-1} /\ \A m \in Rounds \cup {-1} : m \in Int /\ m <= n
  BY DEF RoundsTo
<1>2. \A l \in Rounds \cup {-1} : (\A m \in Rounds : m <= l) => l = n
  BY <1>1 DEF RoundsTo
<1>3. QED BY <1>1, <1>2 DEF Latest

LEMMA OneRange ==
    ASSUME NEW m \in Int, NEW n \in Int, RoundsTo(m), RoundsTo(n)
    PROVE  m = n
BY LatestRound

\* Quotes of a round that is at most the next one, of products that it lacks.
LEMMA Quoting ==
    ASSUME NoTwice, NEW n \in Int, RoundsTo(n), NEW h, NEW lines, lines # {},
           NEW round \in Nat, round <= n + 1, NEW version, RoundFree(lines, round),
           quotes' = quotes \cup QuotesOf(h, lines, round, version)
    PROVE  NoTwice' /\ \E m \in Int : RoundsTo(m)' /\ m >= n
<1> DEFINE new == QuotesOf(h, lines, round, version)
<1>1. /\ \A q \in new : q.by = h /\ q.product \in lines /\ q.round = round /\ q.policy = version
      /\ \A p, q \in new : p.product = q.product => p = q
  BY DEF QuotesOf
<1>2. \E q \in new : q.round = round
  <2>1. PICK p \in lines : TRUE
    OBVIOUS
  <2> DEFINE q == [by |-> h, product |-> p, round |-> round, policy |-> version]
  <2>2. q \in new /\ q.round = round
    BY DEF QuotesOf
  <2>3. QED BY <2>2
<1> HIDE DEF new
<1>3. NoTwice'
  <2> SUFFICES ASSUME NEW p \in quotes', NEW q \in quotes', p.round = q.round,
                      p.product = q.product
               PROVE  p = q
    BY DEF NoTwice
  <2>1. CASE p \in quotes /\ q \in quotes
    BY <2>1 DEF NoTwice
  <2>2. CASE p \in new /\ q \in new
    BY <1>1, <2>2
  <2>3. CASE p \in quotes /\ q \in new
    BY <1>1, <2>3 DEF RoundFree
  <2>4. CASE p \in new /\ q \in quotes
    BY <1>1, <2>4 DEF RoundFree
  <2>5. QED BY <2>1, <2>2, <2>3, <2>4 DEF new
<1>4. \E m \in Int : RoundsTo(m)' /\ m >= n
  <2>1. Rounds' = Rounds \cup {round}
    BY <1>1, <1>2 DEF Rounds, new
  <2>2. n >= -1 /\ Rounds = 0..n
    BY DEF RoundsTo
  <2>3. CASE round <= n
    <3>1. Rounds' = 0..n
      BY <2>1, <2>2, <2>3
    <3>2. QED BY <2>2, <3>1 DEF RoundsTo
  <2>4. CASE round = n + 1
    <3>1. Rounds' = 0..(n + 1)
      BY <2>1, <2>2, <2>4
    <3>2. QED BY <2>2, <3>1 DEF RoundsTo
  <2>5. QED BY <2>3, <2>4
<1>5. QED BY <1>3, <1>4

\* More rounds are within reach of the approvals under way.
LEMMA FurtherReach ==
    ASSUME InReach, TypeOK, NEW n \in Int, RoundsTo(n), NEW m \in Int, RoundsTo(m)', m >= n,
           \A c \in Clerks : clerk'[c] = clerk[c] \/ clerk'[c].pc \notin {"approve", "counted"}
    PROVE  InReach'
<1> SUFFICES ASSUME NEW c \in Clerks, clerk'[c].pc \in {"approve", "counted"},
                    clerk'[c].lines # {}, NEW l \in Int, RoundsTo(l)'
             PROVE  clerk'[c].round <= l + 1
  BY DEF InReach
<1>1. l = m
  <2>1. \A i, j \in Int : RoundsTo(i)' /\ RoundsTo(j)' => i = j
    <3> SUFFICES ASSUME NEW i \in Int, NEW j \in Int, RoundsTo(i)', RoundsTo(j)' PROVE i = j
      OBVIOUS
    <3>1. 0..i = 0..j /\ i >= -1 /\ j >= -1
      BY DEF RoundsTo
    <3>2. QED BY <3>1
  <2>2. QED BY <2>1
<1>2. clerk'[c] = clerk[c]
  OBVIOUS
<1>3. clerk[c].round <= n + 1 /\ clerk[c].round \in Nat
  BY <1>2 DEF InReach, TypeOK, Request
<1>4. QED BY <1>1, <1>2, <1>3

-----------------------------------------------------------------------------
(* The row locks *)

Locking == \A h \in Handoffs, c \in Clerks : lock[h] = c <=> clerk[c].pc \in {"price", "counted"} /\ clerk[c].h = h

LEMMA LocksStay ==
    ASSUME TypeOK, UNCHANGED lock,
           \A d \in Clerks : clerk'[d] = clerk[d] \/ (clerk[d].pc \notin {"price", "counted"} /\ clerk'[d].pc \notin {"price", "counted"})
    PROVE  lock' \in [Handoffs -> Clerks \cup {None}] /\ Locking'
BY DEF TypeOK, Locking, At

LEMMA LocksFreed ==
    ASSUME TypeOK, NEW c \in Clerks, Ends(c), lock' = Released(c)
    PROVE  lock' \in [Handoffs -> Clerks \cup {None}] /\ Locking'
<1>1. /\ lock \in [Handoffs -> Clerks \cup {None}]
      /\ \A h \in Handoffs, d \in Clerks : lock[h] = d <=> clerk[d].pc \in {"price", "counted"} /\ clerk[d].h = h
  BY DEF TypeOK, At
<1>2. \A h \in Handoffs : lock'[h] = IF lock[h] = c THEN None ELSE lock[h]
  BY DEF Released
<1>3. clerk'[c].pc = "idle" /\ \A d \in Clerks : d # c => clerk'[d] = clerk[d]
  BY Ending
<1>4. lock' \in [Handoffs -> Clerks \cup {None}]
  BY <1>1 DEF Released
<1>5. ASSUME NEW h \in Handoffs, NEW d \in Clerks
      PROVE  lock'[h] = d <=> clerk'[d].pc \in {"price", "counted"} /\ clerk'[d].h = h
  <2>1. CASE d = c
    BY <1>2, <1>3, <2>1, ReviewAssumption
  <2>2. CASE d # c
    BY <1>1, <1>2, <1>3, <2>2, ReviewAssumption
  <2>3. QED BY <2>1, <2>2
<1>6. QED BY <1>4, <1>5 DEF Locking, At

-----------------------------------------------------------------------------
(* Requests that begin *)

\* The data that a beginning request leaves as it is.
Data == <<review, case, suppressed, policy, outbox, quotes>>

\* A request that comes to hold its handoff, and quotes nothing that is out of reach.
LEMMA Begins ==
    ASSUME ReviewInv, NEW c \in Clerks, NEW h \in Handoffs, UNCHANGED Data,
           clerk' \in [Clerks -> Request], clerk'[c].h = h,
           \A d \in Clerks : d # c => clerk'[d] = clerk[d],
           lock' \in [Handoffs -> Clerks \cup {None}], Locking', edits' \in 0..MaxEdits,
           clerk'[c].pc \in {"price", "counted"} => clerk'[c].lines # {},
           clerk'[c].pc \in {"approve", "counted"} /\ clerk'[c].lines # {} =>
               clerk'[c].round = Latest + 1
    PROVE  ReviewInv'
<1>1. TypeOK'
  BY DEF ReviewInv, TypeOK, Data, Locking
<1>2. OfHandoff' /\ PricesSome'
  BY DEF ReviewInv, OfHandoff, PricesSome, At
<1>3. InReach'
  <2> SUFFICES ASSUME NEW d \in Clerks, clerk'[d].pc \in {"approve", "counted"},
                      clerk'[d].lines # {}, NEW n \in Int, RoundsTo(n)'
               PROVE  clerk'[d].round <= n + 1
    BY DEF InReach
  <2>1. RoundsTo(n)
    BY DEF RoundsTo, Rounds, Data
  <2>2. CASE d = c
    BY <2>1, <2>2, LatestRound
  <2>3. CASE d # c
    BY <2>1, <2>3 DEF ReviewInv, InReach
  <2>4. QED BY <2>2, <2>3
<1>4. OneAnswerEach' /\ RoundsInv'
  <2>1. UNCHANGED quotes /\ UNCHANGED outbox
    BY DEF Data
  <2>2. OneAnswerEach'
    BY <2>1, SameAnswers DEF ReviewInv
  <2>3. QED BY <2>1, <2>2, SameRounds DEF ReviewInv
<1>5. ClaimedToContact'
  BY SameContact DEF ReviewInv, Data
<1>6. QED BY <1>1, <1>2, <1>3, <1>4, <1>5 DEF ReviewInv

LEMMA BeginsApproval ==
    ASSUME ReviewInv, NEW c \in Clerks, NEW h \in Handoffs,
           BeginReply(c, h) \/ BeginCertificate(c, h) \/ BeginList(c, h)
    PROVE  ReviewInv'
<1>1. UNCHANGED Data /\ UNCHANGED lock /\ UNCHANGED edits /\ clerk[c].pc = "idle"
  BY DEF BeginReply, BeginCertificate, BeginList, Data, At
<1>2. PICK lines \in SUBSET Products :
          Loads(c, h, "approve", lines) /\ (lines # {} => Current(h))
  <2>1. review[h].lines \in SUBSET Products
    BY DEF ReviewInv, TypeOK, Review
  <2>2. CASE BeginReply(c, h)
    BY <2>1, <2>2 DEF BeginReply, QuoteReady, MultiReady
  <2>3. CASE BeginCertificate(c, h) \/ BeginList(c, h)
    BY <2>3 DEF BeginCertificate, BeginList
  <2>4. QED BY <2>2, <2>3
<1>3. /\ clerk' \in [Clerks -> Request]
      /\ clerk'[c].pc = "approve" /\ clerk'[c].h = h /\ clerk'[c].lines = lines
      /\ clerk'[c].round = review[h].round
      /\ \A d \in Clerks : d # c => clerk'[d] = clerk[d]
  BY <1>2, Loading DEF ReviewInv
<1>4. lock' \in [Handoffs -> Clerks \cup {None}] /\ Locking'
  <2>1. \A d \in Clerks : clerk'[d] = clerk[d] \/ (clerk[d].pc \notin {"price", "counted"} /\ clerk'[d].pc \notin {"price", "counted"})
    BY <1>1, <1>3
  <2>2. TypeOK /\ UNCHANGED lock
    BY <1>1 DEF ReviewInv
  <2>3. QED BY <2>1, <2>2, LocksStay
<1>5. edits' \in 0..MaxEdits
  BY <1>1 DEF ReviewInv, TypeOK
<1>6. QED BY <1>1, <1>2, <1>3, <1>4, <1>5, Begins DEF Current

LEMMA BeginsPrice ==
    ASSUME ReviewInv, NEW c \in Clerks, NEW h \in Handoffs, BeginPrice(c, h)
    PROVE  ReviewInv'
<1>1. UNCHANGED Data /\ UNCHANGED edits /\ clerk[c].pc = "idle" /\ lock[h] = None
      /\ lock' = [lock EXCEPT ![h] = c]
  BY DEF BeginPrice, Data, At, Free
<1>2. PICK lines \in SUBSET Products : lines # {} /\ Loads(c, h, "price", lines)
  BY DEF BeginPrice
<1>3. /\ clerk' \in [Clerks -> Request]
      /\ clerk'[c].pc = "price" /\ clerk'[c].h = h /\ clerk'[c].lines = lines
      /\ \A d \in Clerks : d # c => clerk'[d] = clerk[d]
  BY <1>2, Loading DEF ReviewInv
<1>4. /\ lock \in [Handoffs -> Clerks \cup {None}]
      /\ \A g \in Handoffs, d \in Clerks : lock[g] = d <=> clerk[d].pc \in {"price", "counted"} /\ clerk[d].h = g
  BY DEF ReviewInv, TypeOK, At
<1>5. lock' \in [Handoffs -> Clerks \cup {None}]
  BY <1>1, <1>4
<1>6. Locking'
  <2> SUFFICES ASSUME NEW g \in Handoffs, NEW d \in Clerks
               PROVE  lock'[g] = d <=> clerk'[d].pc \in {"price", "counted"} /\ clerk'[d].h = g
    BY DEF Locking, At
  <2>1. CASE d = c
    BY <1>1, <1>3, <1>4, <2>1
  <2>2. CASE d # c
    BY <1>1, <1>3, <1>4, <2>2, ReviewAssumption
  <2>3. QED BY <2>1, <2>2
<1>7. edits' \in 0..MaxEdits
  BY <1>1 DEF ReviewInv, TypeOK
<1>8. QED BY <1>1, <1>2, <1>3, <1>5, <1>6, <1>7, Begins

\* The round that is counted is the next one, as long as nobody writes it.
LEMMA Counts ==
    ASSUME ReviewInv, NEW c \in Clerks, CountRound(c)
    PROVE  ReviewInv'
<1> DEFINE r1 == [clerk[c] EXCEPT !.pc = "counted"]
           r2 == [r1 EXCEPT !.round = Latest + 1]
<1>1. /\ clerk \in [Clerks -> Request] /\ clerk[c] \in Request /\ clerk[c].pc = "price"
      /\ clerk[c].lines # {} /\ clerk[c].h \in Handoffs
      /\ UNCHANGED Data /\ UNCHANGED lock /\ UNCHANGED edits
  BY DEF CountRound, Data, ReviewInv, TypeOK, PricesSome, OfHandoff, At
<1>2. Latest + 1 \in Nat
  <2>1. PICK n \in Int : RoundsTo(n)
    BY DEF ReviewInv, RoundsInv
  <2>2. QED BY <2>1, LatestRound DEF RoundsTo
<1>3. r1 \in Request /\ r1.pc = "counted" /\ r1.h = clerk[c].h /\ r1.lines = clerk[c].lines
  BY <1>1 DEF Request
<1>4. clerk' = [clerk EXCEPT ![c] = r2]
  BY <1>1 DEF CountRound
<1> HIDE DEF r1
<1>5. /\ r2 \in Request /\ r2.pc = "counted" /\ r2.h = clerk[c].h
      /\ r2.lines = clerk[c].lines /\ r2.round = Latest + 1
  BY <1>2, <1>3 DEF Request
<1> HIDE DEF r2
<1>6. /\ clerk' \in [Clerks -> Request] /\ clerk'[c] = r2
      /\ \A d \in Clerks : d # c => clerk'[d] = clerk[d]
  BY <1>1, <1>4, <1>5
<1>7. lock' \in [Handoffs -> Clerks \cup {None}] /\ Locking'
  <2>1. /\ lock \in [Handoffs -> Clerks \cup {None}]
        /\ \A g \in Handoffs, d \in Clerks : lock[g] = d <=> clerk[d].pc \in {"price", "counted"} /\ clerk[d].h = g
    BY DEF ReviewInv, TypeOK
  <2>2. QED BY <1>1, <1>5, <1>6, <2>1 DEF Locking
<1>8. edits' \in 0..MaxEdits
  BY <1>1 DEF ReviewInv, TypeOK
<1> DEFINE h == clerk[c].h
<1>9. h \in Handoffs /\ clerk'[c].h = h /\ clerk'[c].lines # {} /\ clerk'[c].round = Latest + 1
  BY <1>1, <1>5, <1>6
<1> HIDE DEF h
<1>10. QED BY <1>1, <1>6, <1>7, <1>8, <1>9, Begins

LEMMA BeginsPreview ==
    ASSUME ReviewInv, NEW c \in Clerks, NEW h \in Handoffs, BeginPreview(c, h)
    PROVE  ReviewInv'
<1> DEFINE r1 == [Idle EXCEPT !.pc = "preview"]
           r2 == [r1 EXCEPT !.h = h]
           r3 == [r2 EXCEPT !.case = case]
           r4 == [r3 EXCEPT !.reason = review[h].reason]
           r5 == [r4 EXCEPT !.prepared = review[h].prepared]
<1>1. /\ case \in Case /\ clerk \in [Clerks -> Request]
      /\ review[h].reason \in Reasons /\ review[h].prepared \in SUBSET Kinds
  BY DEF ReviewInv, TypeOK, Review
<1>2. Idle \in Request
  BY DEF Idle, NoCase, Request, Case, Addresses, Reasons
<1>3. r1 \in Request /\ r1.pc = "preview"
  BY <1>2 DEF Request
<1> HIDE DEF r1
<1>4. r2 \in Request /\ r2.pc = "preview" /\ r2.h = h
  BY <1>3 DEF Request
<1> HIDE DEF r2
<1>5. r3 \in Request /\ r3.pc = "preview" /\ r3.h = h
  BY <1>1, <1>4 DEF Request
<1> HIDE DEF r3
<1>6. r4 \in Request /\ r4.pc = "preview" /\ r4.h = h
  BY <1>1, <1>5 DEF Request
<1> HIDE DEF r4
<1>7. r5 \in Request /\ r5.pc = "preview" /\ r5.h = h
  BY <1>1, <1>6 DEF Request
<1>8. clerk' = [clerk EXCEPT ![c] = r5]
  BY DEF BeginPreview, r1, r2, r3, r4
<1> HIDE DEF r5
<1>9. /\ clerk' \in [Clerks -> Request] /\ clerk'[c] = r5
      /\ \A d \in Clerks : d # c => clerk'[d] = clerk[d]
  BY <1>1, <1>7, <1>8
<1>10. UNCHANGED Data /\ UNCHANGED lock /\ clerk[c].pc = "idle" /\ edits' \in 0..MaxEdits
  BY ReviewAssumption DEF BeginPreview, Data, At, ReviewInv, TypeOK
<1>11. lock' \in [Handoffs -> Clerks \cup {None}] /\ Locking'
  <2>1. \A d \in Clerks : clerk'[d] = clerk[d] \/ (clerk[d].pc \notin {"price", "counted"} /\ clerk'[d].pc \notin {"price", "counted"})
    BY <1>7, <1>9, <1>10
  <2>2. TypeOK /\ UNCHANGED lock
    BY <1>10 DEF ReviewInv
  <2>3. QED BY <2>1, <2>2, LocksStay
<1>12. QED BY <1>7, <1>9, <1>10, <1>11, Begins

-----------------------------------------------------------------------------
(* Requests that commit *)

\* The requests that are left, once c has ended.
LEMMA Ended ==
    ASSUME ReviewInv, NEW c \in Clerks, Ends(c)
    PROVE  /\ OfHandoff' /\ PricesSome'
           /\ \A d \in Clerks : clerk'[d] = clerk[d] \/ clerk'[d].pc \notin {"approve", "counted"}
<1>1. clerk'[c].pc = "idle" /\ \A d \in Clerks : d # c => clerk'[d] = clerk[d]
  BY Ending DEF ReviewInv
<1>2. OfHandoff'
  BY <1>1 DEF ReviewInv, OfHandoff, At
<1>3. PricesSome'
  BY <1>1 DEF ReviewInv, PricesSome, At
<1>4. QED BY <1>1, <1>2, <1>3

\* An answer, its quotes if it has any, and the end of its request.
LEMMA Answers ==
    ASSUME ReviewInv, NEW c \in Clerks, NEW h \in Handoffs, NEW k \in KeysOf(h), ~Answered(h),
           NEW address \in Addresses, NEW lines \in SUBSET Products, NEW round \in Nat,
           NEW version \in 0..MaxPolicies, Approve(k, address, lines),
           quotes' = quotes \cup QuotesOf(h, lines, round, version),
           lines # {} => RoundFree(lines, round) /\ \A n \in Int : RoundsTo(n) => round <= n + 1,
           review' = [review EXCEPT ![h].status = "RESOLVED"],
           case' \in Case, case'.contact = case.contact, Ends(c),
           lock' \in [Handoffs -> Clerks \cup {None}], Locking',
           UNCHANGED <<suppressed, policy, edits>>
    PROVE  ReviewInv'
<1>1. TypeOK
  BY DEF ReviewInv
<1>2. k \in Key
  BY DEF KeysOf
<1>3. /\ outbox' \in [Key -> Row]
      /\ outbox'[k].status = "PENDING" /\ outbox'[k].lines = lines
      /\ \A j \in Key : j # k => outbox'[j] = outbox[j]
  BY <1>1, <1>2, Approving
<1>4. /\ review' \in [Handoffs -> Review]
      /\ \A g \in Handoffs : review'[g].round = review[g].round
  BY <1>1, StatusWritten
<1>5. clerk' \in [Clerks -> Request]
  BY <1>1, Ending
<1>6. /\ OfHandoff' /\ PricesSome'
      /\ \A d \in Clerks : clerk'[d] = clerk[d] \/ clerk'[d].pc \notin {"approve", "counted"}
  BY Ended
<1>7. TypeOK'
  <2>1. QuotesOf(h, lines, round, version) \subseteq Quote
    BY DEF QuotesOf, Quote
  <2>2. quotes' \subseteq Quote
    BY <1>1, <2>1 DEF TypeOK
  <2>3. QED BY <1>1, <1>3, <1>4, <1>5, <2>2 DEF TypeOK, Locking
<1>8. OneAnswerEach'
  BY <1>1, <1>3, NewAnswer DEF ReviewInv
<1>9. ClaimedToContact'
  BY <1>3, SameContact DEF ReviewInv
<1>10. PICK n \in Int : RoundsTo(n)
  BY DEF ReviewInv, RoundsInv
<1>11. RoundsInv' /\ InReach'
  <2>1. CASE lines = {}
    <3>1. UNCHANGED quotes
      BY <2>1 DEF QuotesOf
    <3>2. QED BY <1>6, <3>1, SameRounds, SameReach DEF ReviewInv
  <2>2. CASE lines # {}
    <3>1. NoTwice' /\ \E m \in Int : RoundsTo(m)' /\ m >= n
      BY <1>10, <2>2, Quoting DEF ReviewInv, RoundsInv
    <3>2. PICK m \in Int : RoundsTo(m)' /\ m >= n
      BY <3>1
    <3>3. InReach'
      BY <1>6, <1>10, <3>2, FurtherReach DEF ReviewInv
    <3>4. QED BY <3>1, <3>2, <3>3 DEF RoundsInv
  <2>3. QED BY <2>1, <2>2
<1>12. QED BY <1>6, <1>7, <1>8, <1>9, <1>11 DEF ReviewInv

LEMMA CommitsReply ==
    ASSUME ReviewInv, NEW c \in Clerks, CommitReply(c)
    PROVE  ReviewInv'
<1> DEFINE r == clerk[c]
           h == r.h
           round == r.round
<1>1. PICK resume \in BOOLEAN :
          case' = [case EXCEPT !.status =
                       Saved(r.case.status, IF resume THEN "ACTIVE" ELSE "HUMAN_TAKEOVER", @)]
  BY DEF CommitReply
<1>2. /\ r.pc = "approve" /\ ~Answered(h) /\ RoundFree(r.lines, round)
      /\ Approve(<<h, "reply">>, r.case.contact, r.lines)
      /\ quotes' = quotes \cup QuotesOf(h, r.lines, round, review[h].policy)
      /\ review' = [review EXCEPT ![h].status = "RESOLVED"]
      /\ Ends(c) /\ UNCHANGED <<suppressed, policy, lock, edits>>
  BY DEF CommitReply, At
<1>3. TypeOK /\ h \in Handoffs /\ r \in Request
  BY <1>2 DEF ReviewInv, OfHandoff, At, TypeOK
<1>4. /\ r.case.contact \in Addresses /\ r.lines \in SUBSET Products
      /\ case \in Case
  BY <1>3 DEF Request, Case, TypeOK
<1>5. round \in Nat /\ review[h].policy \in 0..MaxPolicies
  BY <1>3, ReviewAssumption DEF TypeOK, Review, Request
<1>6. case' \in Case /\ case'.contact = case.contact
  BY <1>1, <1>4 DEF Saved, Case
<1>7. r.lines # {} => \A n \in Int : RoundsTo(n) => round <= n + 1
  BY <1>2 DEF ReviewInv, InReach, At
<1>8. lock' \in [Handoffs -> Clerks \cup {None}] /\ Locking'
  <2>1. clerk'[c].pc = "idle" /\ \A d \in Clerks : d # c => clerk'[d] = clerk[d]
    BY <1>2, <1>3, Ending
  <2>2. \A d \in Clerks : clerk'[d] = clerk[d] \/ (clerk[d].pc \notin {"price", "counted"} /\ clerk'[d].pc \notin {"price", "counted"})
    BY <1>2, <2>1
  <2>3. QED BY <1>2, <1>3, <2>2, LocksStay
<1>9. <<h, "reply">> \in KeysOf(h)
  BY <1>3 DEF KeysOf, Key
<1> HIDE DEF r, h, round
<1>10. QED BY <1>2, <1>3, <1>4, <1>5, <1>6, <1>7, <1>8, <1>9, Answers

LEMMA CommitsPrice ==
    ASSUME ReviewInv, NEW c \in Clerks, CommitPrice(c)
    PROVE  ReviewInv'
<1> DEFINE r == clerk[c]
           h == r.h
<1>1. /\ r.pc = "counted" /\ ~Answered(h) /\ RoundFree(r.lines, r.round)
      /\ Approve(<<h, "manual-price">>, r.case.contact, r.lines)
      /\ quotes' = quotes \cup QuotesOf(h, r.lines, r.round, 0)
      /\ review' = [review EXCEPT ![h].status = "RESOLVED"]
      /\ lock' = Released(c)
      /\ Ends(c) /\ UNCHANGED <<suppressed, policy, edits>>
  BY DEF CommitPrice, At
<1>2. TypeOK /\ h \in Handoffs /\ r \in Request
  BY <1>1 DEF ReviewInv, OfHandoff, At, TypeOK
<1>3. /\ r.case.contact \in Addresses /\ r.lines \in SUBSET Products
      /\ case \in Case
  BY <1>2 DEF Request, Case, TypeOK
<1>4. r.round \in Nat
  BY <1>2 DEF Request
<1>5. r.lines # {} => \A n \in Int : RoundsTo(n) => r.round <= n + 1
  BY <1>1 DEF ReviewInv, InReach
<1>8. case' \in Case /\ case'.contact = case.contact
  <2>1. CASE UNCHANGED case
    BY <1>3, <2>1
  <2>2. CASE /\ \E p \in Products : r.lines = {p}
             /\ case' = [case EXCEPT !.product = CHOOSE p \in Products : r.lines = {p}]
    <3>1. (CHOOSE p \in Products : r.lines = {p}) \in Products
      BY <2>2
    <3>2. QED BY <1>3, <2>2, <3>1 DEF Case
  <2>3. QED BY <2>1, <2>2 DEF CommitPrice
<1>9. lock' \in [Handoffs -> Clerks \cup {None}] /\ Locking'
  BY <1>1, <1>2, LocksFreed
<1>10. <<h, "manual-price">> \in KeysOf(h) /\ 0 \in 0..MaxPolicies
  BY <1>2, ReviewAssumption DEF KeysOf, Key
<1> HIDE DEF r, h
<1>11. QED BY <1>1, <1>2, <1>3, <1>4, <1>5, <1>8, <1>9, <1>10, Answers

-----------------------------------------------------------------------------
(* Steps that answer nobody *)

\* Neither a quote nor an answer, and no request that was not there.
LEMMA Quiet ==
    ASSUME ReviewInv, UNCHANGED quotes,
           review' \in [Handoffs -> Review],
           \A g \in Handoffs : review'[g].round = review[g].round,
           case' \in Case, suppressed' \subseteq Addresses, policy' \in 1..MaxPolicies,
           outbox' \in [Key -> Row],
           \A k \in Key : /\ outbox'[k].lines = outbox[k].lines
                          /\ outbox'[k].status = "ABSENT" <=> outbox[k].status = "ABSENT",
           clerk' \in [Clerks -> Request], OfHandoff', PricesSome',
           \A c \in Clerks : clerk'[c] = clerk[c] \/ clerk'[c].pc \notin {"approve", "counted"},
           lock' \in [Handoffs -> Clerks \cup {None}], Locking', edits' \in 0..MaxEdits,
           ClaimedToContact'
    PROVE  ReviewInv'
<1>1. TypeOK'
  BY DEF ReviewInv, TypeOK, Locking
<1>2. OneAnswerEach'
  BY SameAnswers DEF ReviewInv
<1>3. RoundsInv'
  BY SameRounds DEF ReviewInv
<1>4. InReach'
  BY SameReach DEF ReviewInv
<1>5. QED BY <1>1, <1>2, <1>3, <1>4 DEF ReviewInv

\* With the requests and the locks as they were.
LEMMA SameRequests ==
    ASSUME ReviewInv, UNCHANGED <<clerk, lock>>
    PROVE  /\ clerk' \in [Clerks -> Request] /\ OfHandoff' /\ PricesSome'
           /\ \A c \in Clerks : clerk'[c] = clerk[c] \/ clerk'[c].pc \notin {"approve", "counted"}
           /\ lock' \in [Handoffs -> Clerks \cup {None}] /\ Locking'
BY DEF ReviewInv, TypeOK, OfHandoff, PricesSome, Locking, At

LEMMA SameOutbox ==
    ASSUME ReviewInv, UNCHANGED outbox, case'.contact = case.contact
    PROVE  /\ outbox' \in [Key -> Row] /\ ClaimedToContact'
           /\ \A k \in Key : /\ outbox'[k].lines = outbox[k].lines
                             /\ outbox'[k].status = "ABSENT" <=> outbox[k].status = "ABSENT"
BY DEF ReviewInv, TypeOK, ClaimedToContact

LEMMA Redrafted ==
    ASSUME ReviewInv, NEW c \in Clerks, NEW reason \in Reasons, NEW prepared \in SUBSET Kinds,
           Redrafts(c, reason, prepared), case' \in Case, case'.contact = case.contact
    PROVE  ReviewInv'
<1> DEFINE h == clerk[c].h
           new == Saved(clerk[c].reason, reason, review[h].reason)
           v1 == [review[h] EXCEPT !.reason = new]
           v2 == [v1 EXCEPT !.prepared = prepared]
<1>1. /\ clerk[c].pc = "preview" /\ Ends(c)
      /\ UNCHANGED <<suppressed, policy, outbox, quotes, lock, edits>>
  BY DEF Redrafts, At
<1>2. TypeOK /\ h \in Handoffs /\ review[h] \in Review
  BY <1>1 DEF ReviewInv, OfHandoff, At, TypeOK
<1>3. new \in Reasons
  BY <1>2 DEF Saved, Review
<1>4. review' = [review EXCEPT ![h] = v2]
  BY <1>2 DEF Redrafts, TypeOK
<1> HIDE DEF h, new
<1>5. v1 \in Review /\ v1.round = review[h].round
  BY <1>2, <1>3 DEF Review
<1> HIDE DEF v1
<1>6. v2 \in Review /\ v2.round = review[h].round
  BY <1>5 DEF Review
<1> HIDE DEF v2
<1>7. /\ review' \in [Handoffs -> Review]
      /\ \A g \in Handoffs : review'[g].round = review[g].round
  BY <1>2, <1>4, <1>6, Reviewing
<1>8. /\ OfHandoff' /\ PricesSome' /\ clerk' \in [Clerks -> Request]
      /\ \A d \in Clerks : clerk'[d] = clerk[d] \/ clerk'[d].pc \notin {"approve", "counted"}
  BY <1>1, <1>2, Ended, Ending
<1>9. lock' \in [Handoffs -> Clerks \cup {None}] /\ Locking'
  <2>1. clerk'[c].pc = "idle" /\ \A d \in Clerks : d # c => clerk'[d] = clerk[d]
    BY <1>1, <1>2, Ending
  <2>2. \A d \in Clerks : clerk'[d] = clerk[d] \/ (clerk[d].pc \notin {"price", "counted"} /\ clerk'[d].pc \notin {"price", "counted"})
    BY <1>1, <2>1
  <2>3. QED BY <1>1, <1>2, <2>2, LocksStay
<1>10. suppressed' \subseteq Addresses /\ policy' \in 1..MaxPolicies /\ edits' \in 0..MaxEdits
  BY <1>1, <1>2 DEF TypeOK
<1>11. /\ outbox' \in [Key -> Row] /\ ClaimedToContact'
       /\ \A k \in Key : /\ outbox'[k].lines = outbox[k].lines
                         /\ outbox'[k].status = "ABSENT" <=> outbox[k].status = "ABSENT"
  BY <1>1, SameOutbox
<1>12. QED BY <1>1, <1>7, <1>8, <1>9, <1>10, <1>11, Quiet

LEMMA Previews ==
    ASSUME ReviewInv, NEW c \in Clerks,
           PreviewCertificate(c) \/ PreviewList(c) \/ PreviewText(c)
    PROVE  ReviewInv'
<1>1. clerk[c] \in Request /\ case \in Case
  BY DEF ReviewInv, TypeOK
<1>2. CASE PreviewCertificate(c)
  <2>1. PICK prepared \in {{}, {"coa"}} : Redrafts(c, "COA_REVIEW", prepared)
    BY <1>2 DEF PreviewCertificate
  <2>2. case' \in Case /\ case'.contact = case.contact
    BY <1>1, <1>2 DEF PreviewCertificate, Saved, Case
  <2>3. "COA_REVIEW" \in Reasons /\ prepared \in SUBSET Kinds
    BY DEF Reasons, Kinds
  <2>4. QED BY <2>1, <2>2, <2>3, Redrafted
<1>3. CASE PreviewList(c)
  <2>1. "PRODUCT_LIST_REVIEW" \in Reasons /\ clerk[c].prepared \cup {"list"} \in SUBSET Kinds
    BY <1>1 DEF Reasons, Kinds, Request
  <2>2. QED BY <1>1, <1>3, <2>1, Redrafted DEF PreviewList
<1>4. CASE PreviewText(c)
  <2>1. clerk[c].reason \in Reasons /\ clerk[c].prepared \in SUBSET Kinds
    BY <1>1 DEF Request
  <2>2. QED BY <1>1, <1>4, <2>1, Redrafted DEF PreviewText
<1>5. QED BY <1>2, <1>3, <1>4

LEMMA Aborts ==
    ASSUME ReviewInv, NEW c \in Clerks, Abort(c)
    PROVE  ReviewInv'
<1>1. Ends(c) /\ lock' = Released(c) /\ TypeOK
      /\ UNCHANGED <<review, case, suppressed, policy, outbox, quotes, edits>>
  BY DEF Abort, ReviewInv
<1>2. /\ OfHandoff' /\ PricesSome' /\ clerk' \in [Clerks -> Request]
      /\ \A d \in Clerks : clerk'[d] = clerk[d] \/ clerk'[d].pc \notin {"approve", "counted"}
  BY <1>1, Ended, Ending
<1>3. lock' \in [Handoffs -> Clerks \cup {None}] /\ Locking'
  BY <1>1, LocksFreed
<1>4. /\ outbox' \in [Key -> Row] /\ ClaimedToContact'
      /\ \A k \in Key : /\ outbox'[k].lines = outbox[k].lines
                        /\ outbox'[k].status = "ABSENT" <=> outbox[k].status = "ABSENT"
  BY <1>1, SameOutbox
<1>5. /\ review' \in [Handoffs -> Review] /\ case' \in Case
      /\ \A g \in Handoffs : review'[g].round = review[g].round
      /\ suppressed' \subseteq Addresses /\ policy' \in 1..MaxPolicies /\ edits' \in 0..MaxEdits
  BY <1>1 DEF TypeOK
<1>6. QED BY <1>1, <1>2, <1>3, <1>4, <1>5, Quiet

-----------------------------------------------------------------------------
(* Edits *)

LEMMA Edited ==
    ASSUME ReviewInv, NEW h \in Handoffs, Edit(h)
    PROVE  edits' \in 0..MaxEdits
BY ReviewAssumption DEF ReviewInv, TypeOK, Edit

\* The edits that leave the outbox and the address of the case alone.
LEMMA EditsCase ==
    ASSUME ReviewInv, NEW h \in Handoffs, Edit(h),
           UNCHANGED <<policy, outbox, quotes, clerk, lock>>, suppressed' \subseteq Addresses,
           case' \in Case, case'.contact = case.contact,
           \/ UNCHANGED review
           \/ review' = [review EXCEPT ![h].cased = TRUE]
           \/ \E s \in {"OPEN", "RESOLVED"} : review' = [review EXCEPT ![h].status = s]
    PROVE  ReviewInv'
<1>1. TypeOK
  BY DEF ReviewInv
<1>2. /\ review' \in [Handoffs -> Review]
      /\ \A g \in Handoffs : review'[g].round = review[g].round
  <2>1. CASE UNCHANGED review
    BY <1>1, <2>1 DEF TypeOK
  <2>2. CASE review' = [review EXCEPT ![h].cased = TRUE]
    BY <1>1, <2>2, CaseWritten
  <2>3. CASE \E s \in {"OPEN", "RESOLVED"} : review' = [review EXCEPT ![h].status = s]
    <3>1. PICK s \in {"OPEN", "RESOLVED"} : review' = [review EXCEPT ![h].status = s]
      BY <2>3
    <3>2. QED BY <1>1, <3>1, StatusWritten
  <2>4. QED BY <2>1, <2>2, <2>3
<1>3. policy' \in 1..MaxPolicies
  BY <1>1 DEF TypeOK
<1>4. QED BY <1>2, <1>3, Edited, SameRequests, SameOutbox, Quiet

LEMMA SmallEdits ==
    ASSUME ReviewInv, NEW h \in Handoffs,
           CreateCase(h) \/ AssignCase(h) \/ SetProduct(h) \/ GiveUpRecipient(h)
    PROVE  ReviewInv'
<1>1. case \in Case /\ suppressed \subseteq Addresses /\ "first" \in Addresses
  BY DEF ReviewInv, TypeOK, Addresses
<1>2. Edit(h) /\ UNCHANGED <<policy, outbox, quotes, clerk, lock>>
  BY DEF CreateCase, AssignCase, SetProduct, GiveUpRecipient
<1>3. suppressed' \subseteq Addresses
  BY <1>1 DEF CreateCase, AssignCase, SetProduct, GiveUpRecipient, Retires
<1>4. case' \in Case /\ case'.contact = case.contact
  <2>1. CASE CreateCase(h)
    <3>1. PICK p \in Products \cup {None} :
              case' = [case EXCEPT !.status = "WAITING_HUMAN", !.product = p]
      BY <2>1 DEF CreateCase
    <3>2. QED BY <1>1, <3>1 DEF Case
  <2>2. CASE AssignCase(h)
    BY <1>1, <2>2 DEF AssignCase, Case
  <2>3. CASE SetProduct(h)
    <3>1. PICK p \in Products : case' = [case EXCEPT !.status = "WAITING_HUMAN", !.product = p]
      BY <2>3 DEF SetProduct
    <3>2. QED BY <1>1, <3>1 DEF Case
  <2>4. CASE GiveUpRecipient(h)
    BY <1>1, <2>4 DEF GiveUpRecipient, Case
  <2>5. QED BY <2>1, <2>2, <2>3, <2>4
<1>5. \/ UNCHANGED review
      \/ review' = [review EXCEPT ![h].cased = TRUE]
      \/ \E s \in {"OPEN", "RESOLVED"} : review' = [review EXCEPT ![h].status = s]
  BY DEF CreateCase, AssignCase, SetProduct, GiveUpRecipient
<1>6. QED BY <1>2, <1>3, <1>4, <1>5, EditsCase

\* The rows to the address that the case leaves are cancelled, the claimed ones too.
LEMMA Replaces ==
    ASSUME ReviewInv, NEW h \in Handoffs, ReplaceRecipient(h)
    PROVE  ReviewInv'
<1> DEFINE ks == {k \in Key : outbox[k].to = "first"}
<1>1. /\ TypeOK /\ Edit(h) /\ case.contact = "first" /\ CancelAll(ks)
      /\ suppressed' = suppressed \cup {"first"}
      /\ review' = [review EXCEPT ![h].status = "RESOLVED"]
      /\ UNCHANGED <<policy, quotes, clerk, lock>>
  BY DEF ReplaceRecipient, Retires, ReviewInv
<1>2. case' \in Case
  <2>1. PICK resume \in BOOLEAN :
            case' = [case EXCEPT !.contact = "second",
                                 !.status = IF resume THEN "ACTIVE" ELSE "PAUSED"]
    BY DEF ReplaceRecipient
  <2>2. QED BY <1>1, <2>1 DEF TypeOK, Case, Addresses
<1>3. /\ outbox' \in [Key -> Row]
      /\ \A k \in Key : /\ outbox'[k].lines = outbox[k].lines
                        /\ outbox'[k].status = "ABSENT" <=> outbox[k].status = "ABSENT"
                        /\ outbox'[k].status = "CLAIMED" => outbox'[k] = outbox[k]
                        /\ k \in ks => outbox'[k].status # "CLAIMED"
  BY <1>1, Cancelling
<1>4. ClaimedToContact'
  <2> SUFFICES ASSUME NEW k \in Key, k[2] # "forward", outbox'[k].status = "CLAIMED"
               PROVE  FALSE
    BY DEF ClaimedToContact
  <2>1. outbox'[k] = outbox[k] /\ k \notin ks
    BY <1>3
  <2>2. outbox[k].to = "first"
    BY <1>1, <2>1 DEF ReviewInv, ClaimedToContact
  <2>3. QED BY <2>1, <2>2
<1>5. /\ review' \in [Handoffs -> Review]
      /\ \A g \in Handoffs : review'[g].round = review[g].round
  BY <1>1, StatusWritten
<1>6. suppressed' \subseteq Addresses /\ policy' \in 1..MaxPolicies
  BY <1>1 DEF TypeOK, Addresses
<1>7. /\ clerk' \in [Clerks -> Request] /\ OfHandoff' /\ PricesSome'
      /\ \A c \in Clerks : clerk'[c] = clerk[c] \/ clerk'[c].pc \notin {"approve", "counted"}
      /\ lock' \in [Handoffs -> Clerks \cup {None}] /\ Locking'
  BY <1>1, SameRequests
<1>8. edits' \in 0..MaxEdits
  BY <1>1, Edited
<1>9. QED BY <1>1, <1>2, <1>3, <1>4, <1>5, <1>6, <1>7, <1>8, Quiet

LEMMA Updates ==
    ASSUME ReviewInv, NEW h \in Handoffs, NEW action, UpdateHandoff(h, action)
    PROVE  ReviewInv'
<1> DEFINE s == IF action \in {"resolve", "reject"} THEN "RESOLVED" ELSE "OPEN"
<1>1. /\ TypeOK /\ Edit(h) /\ s \in {"OPEN", "RESOLVED"}
      /\ review' = [review EXCEPT ![h].status = s]
      /\ UNCHANGED <<suppressed, policy, quotes, clerk, lock>>
      /\ (case' = case \/ case' = [case EXCEPT !.status = StatusAfter(action)])
      /\ (outbox' = outbox \/ CancelAll(Key))
  BY DEF UpdateHandoff, ReviewInv
<1>2. case' \in Case /\ case'.contact = case.contact
  BY <1>1 DEF TypeOK, Case, StatusAfter
<1>3. /\ outbox' \in [Key -> Row] /\ ClaimedToContact'
      /\ \A k \in Key : /\ outbox'[k].lines = outbox[k].lines
                        /\ outbox'[k].status = "ABSENT" <=> outbox[k].status = "ABSENT"
  <2>1. CASE UNCHANGED outbox
    BY <1>2, <2>1, SameOutbox
  <2>2. CASE CancelAll(Key)
    BY <1>1, <1>2, <2>2, Cancelling, SameContact DEF ReviewInv
  <2>3. QED BY <1>1, <2>1, <2>2
<1>4. /\ review' \in [Handoffs -> Review]
      /\ \A g \in Handoffs : review'[g].round = review[g].round
  BY <1>1, StatusWritten
<1>5. suppressed' \subseteq Addresses /\ policy' \in 1..MaxPolicies
  BY <1>1 DEF TypeOK
<1>6. /\ clerk' \in [Clerks -> Request] /\ OfHandoff' /\ PricesSome'
      /\ \A c \in Clerks : clerk'[c] = clerk[c] \/ clerk'[c].pc \notin {"approve", "counted"}
      /\ lock' \in [Handoffs -> Clerks \cup {None}] /\ Locking'
  BY <1>1, SameRequests
<1>7. edits' \in 0..MaxEdits
  BY <1>1, Edited
<1>8. QED BY <1>1, <1>2, <1>3, <1>4, <1>5, <1>6, <1>7, Quiet

LEMMA Forwards ==
    ASSUME ReviewInv, NEW h \in Handoffs, Forward(h)
    PROVE  ReviewInv'
<1> DEFINE k == <<h, "forward">>
<1>1. /\ TypeOK /\ Edit(h) /\ ~Answered(h) /\ Approve(k, "colleague", {})
      /\ review' = [review EXCEPT ![h].status = "RESOLVED"]
      /\ case' = [case EXCEPT !.status = "HUMAN_TAKEOVER"]
      /\ UNCHANGED <<suppressed, policy, quotes, clerk, lock>>
  BY DEF Forward, ReviewInv
<1>2. k \in KeysOf(h) /\ k \in Key /\ "colleague" \in Addresses
  BY DEF KeysOf, Key, Addresses
<1>3. /\ outbox' \in [Key -> Row]
      /\ outbox'[k].status = "PENDING" /\ outbox'[k].lines = {}
      /\ \A j \in Key : j # k => outbox'[j] = outbox[j]
  BY <1>1, <1>2, Approving
<1>4. quotes' = quotes \cup QuotesOf(h, {}, 0, 0)
  BY <1>1 DEF QuotesOf
<1> HIDE DEF k
<1>5. OneAnswerEach'
  BY <1>1, <1>2, <1>3, <1>4, NewAnswer DEF ReviewInv
<1>6. case' \in Case /\ case'.contact = case.contact
  BY <1>1 DEF TypeOK, Case
<1>7. ClaimedToContact'
  BY <1>3, <1>6, SameContact DEF ReviewInv
<1>8. /\ review' \in [Handoffs -> Review]
      /\ \A g \in Handoffs : review'[g].round = review[g].round
  BY <1>1, StatusWritten
<1>9. /\ clerk' \in [Clerks -> Request] /\ OfHandoff' /\ PricesSome'
      /\ \A c \in Clerks : clerk'[c] = clerk[c] \/ clerk'[c].pc \notin {"approve", "counted"}
      /\ lock' \in [Handoffs -> Clerks \cup {None}] /\ Locking'
  BY <1>1, SameRequests
<1>10. TypeOK'
  BY <1>1, <1>3, <1>6, <1>8, <1>9, Edited DEF TypeOK, Locking
<1>11. RoundsInv' /\ InReach'
  BY <1>1, <1>8, <1>9, SameRounds, SameReach DEF ReviewInv
<1>12. QED BY <1>5, <1>7, <1>9, <1>10, <1>11 DEF ReviewInv

-----------------------------------------------------------------------------
(* Deliveries, and price lists *)

LEMMA Delivers ==
    ASSUME ReviewInv, NEW k \in Key, Deliver(k)
    PROVE  ReviewInv'
<1>1. PICK status \in {"CLAIMED", "SENT", "CANCELLED"} :
          /\ Moves(k, status)
          /\ status = "CLAIMED" => Eligible(k)
          /\ outbox[k].status # "ABSENT"
  BY DEF Deliver, Claim, Block, Send, BlockLate
<1>2. /\ outbox' = [outbox EXCEPT ![k].status = status] /\ TypeOK
      /\ UNCHANGED <<review, case, suppressed, policy, quotes, clerk, lock, edits>>
  BY <1>1 DEF Moves, ReviewInv
<1>3. /\ outbox' \in [Key -> Row]
      /\ outbox'[k].status = status /\ outbox'[k].to = outbox[k].to
      /\ outbox'[k].lines = outbox[k].lines
      /\ \A j \in Key : j # k => outbox'[j] = outbox[j]
  BY <1>2, Moving
<1>4. \A j \in Key : /\ outbox'[j].lines = outbox[j].lines
                     /\ outbox'[j].status = "ABSENT" <=> outbox[j].status = "ABSENT"
  BY <1>1, <1>3
<1>5. ClaimedToContact'
  <2> SUFFICES ASSUME NEW j \in Key, j[2] # "forward", outbox'[j].status = "CLAIMED"
               PROVE  outbox'[j].to = case'.contact
    BY DEF ClaimedToContact
  <2>1. CASE j = k
    BY <1>1, <1>2, <1>3, <2>1 DEF Eligible
  <2>2. CASE j # k
    BY <1>2, <1>3, <2>2 DEF ReviewInv, ClaimedToContact
  <2>3. QED BY <2>1, <2>2
<1>6. /\ clerk' \in [Clerks -> Request] /\ OfHandoff' /\ PricesSome'
      /\ \A c \in Clerks : clerk'[c] = clerk[c] \/ clerk'[c].pc \notin {"approve", "counted"}
      /\ lock' \in [Handoffs -> Clerks \cup {None}] /\ Locking'
  BY <1>2, SameRequests
<1>7. /\ review' \in [Handoffs -> Review] /\ case' \in Case
      /\ \A g \in Handoffs : review'[g].round = review[g].round
      /\ suppressed' \subseteq Addresses /\ policy' \in 1..MaxPolicies /\ edits' \in 0..MaxEdits
  BY <1>2 DEF TypeOK
<1>8. QED BY <1>2, <1>3, <1>4, <1>5, <1>6, <1>7, Quiet

LEMMA Confirms ==
    ASSUME ReviewInv, ConfirmPrices \/ Rest \/ UNCHANGED vars
    PROVE  ReviewInv'
<1>1. /\ TypeOK /\ UNCHANGED <<review, case, suppressed, outbox, quotes, clerk, lock, edits>>
      /\ policy' \in 1..MaxPolicies
  <2>1. CASE ConfirmPrices
    BY <2>1, ReviewAssumption DEF ConfirmPrices, ReviewInv, TypeOK
  <2>2. CASE Rest \/ UNCHANGED vars
    BY <2>2 DEF Rest, vars, ReviewInv, TypeOK
  <2>3. QED BY <2>1, <2>2
<1>2. /\ clerk' \in [Clerks -> Request] /\ OfHandoff' /\ PricesSome'
      /\ \A c \in Clerks : clerk'[c] = clerk[c] \/ clerk'[c].pc \notin {"approve", "counted"}
      /\ lock' \in [Handoffs -> Clerks \cup {None}] /\ Locking'
  BY <1>1, SameRequests
<1>3. /\ outbox' \in [Key -> Row] /\ ClaimedToContact'
      /\ \A k \in Key : /\ outbox'[k].lines = outbox[k].lines
                         /\ outbox'[k].status = "ABSENT" <=> outbox[k].status = "ABSENT"
  BY <1>1, SameOutbox
<1>4. /\ review' \in [Handoffs -> Review] /\ case' \in Case
      /\ \A g \in Handoffs : review'[g].round = review[g].round
      /\ suppressed' \subseteq Addresses /\ edits' \in 0..MaxEdits
  BY <1>1 DEF TypeOK
<1>5. QED BY <1>1, <1>2, <1>3, <1>4, Quiet

-----------------------------------------------------------------------------
(* The invariant, and the theorems *)

LEMMA InvStarts == Init => ReviewInv
<1> SUFFICES ASSUME Init PROVE ReviewInv
  OBVIOUS
<1>1. Idle \in Request /\ Idle.pc = "idle"
  BY DEF Idle, NoCase, Request, Case, Addresses, Reasons
<1>2. NoRow \in Row /\ NoRow.status = "ABSENT"
  BY DEF NoRow, Row, Addresses
<1>3. /\ review \in [Handoffs -> Review] /\ case \in Case
      /\ suppressed = {} /\ policy = 1 /\ edits = 0 /\ quotes = {}
      /\ outbox = [k \in Key |-> NoRow]
      /\ clerk = [c \in Clerks |-> Idle]
      /\ lock = [h \in Handoffs |-> None]
  BY ReviewAssumption DEF Init
<1>4. TypeOK
  <2>1. \A h \in Handoffs, c \in Clerks : ~(lock[h] = c) /\ clerk[c].pc \notin {"price", "counted"}
    BY <1>1, <1>3, ReviewAssumption
  <2>2. suppressed \subseteq Addresses /\ policy \in 1..MaxPolicies /\ edits \in 0..MaxEdits
        /\ quotes \subseteq Quote
    BY <1>3, ReviewAssumption
  <2>3. /\ outbox \in [Key -> Row] /\ clerk \in [Clerks -> Request]
        /\ lock \in [Handoffs -> Clerks \cup {None}]
    BY <1>1, <1>2, <1>3
  <2>4. QED BY <1>3, <2>1, <2>2, <2>3 DEF TypeOK
<1>5. OfHandoff /\ PricesSome /\ InReach
  BY <1>1, <1>3 DEF OfHandoff, PricesSome, InReach, At
<1>6. \A k \in Key : ~Written(k) /\ outbox[k].status # "CLAIMED"
  BY <1>2, <1>3 DEF Written
<1>7. OneAnswerEach /\ ClaimedToContact
  BY <1>3, <1>6 DEF OneAnswerEach, ClaimedToContact, KeysOf
<1>8. RoundsInv
  <2>1. RoundsTo(-1)
    BY <1>3 DEF RoundsTo, Rounds
  <2>2. QED BY <1>3, <2>1 DEF RoundsInv, NoTwice
<1>9. QED BY <1>4, <1>5, <1>7, <1>8 DEF ReviewInv

LEMMA InvStays == ReviewInv /\ [Next]_vars => ReviewInv'
<1> SUFFICES ASSUME ReviewInv, [Next]_vars PROVE ReviewInv'
  OBVIOUS
<1>1. CASE \E c \in Clerks : ClerkStep(c)
  <2>1. PICK c \in Clerks : ClerkStep(c)
    BY <1>1
  <2>2. CASE \E h \in Handoffs : BeginReply(c, h) \/ BeginCertificate(c, h) \/ BeginList(c, h)
    BY <2>2, BeginsApproval
  <2>3. CASE CountRound(c) \/ \E h \in Handoffs : BeginPrice(c, h) \/ BeginPreview(c, h)
    BY <2>3, BeginsPrice, BeginsPreview, Counts
  <2>4. CASE CommitReply(c) \/ CommitPrice(c)
    BY <2>4, CommitsReply, CommitsPrice
  <2>5. CASE PreviewCertificate(c) \/ PreviewList(c) \/ PreviewText(c) \/ Abort(c)
    BY <2>5, Previews, Aborts
  <2>6. QED BY <2>1, <2>2, <2>3, <2>4, <2>5 DEF ClerkStep
<1>2. CASE \E h \in Handoffs : Edits(h)
  <2>1. PICK h \in Handoffs : Edits(h)
    BY <1>2
  <2>2. CASE CreateCase(h) \/ AssignCase(h) \/ SetProduct(h) \/ GiveUpRecipient(h)
    BY <2>2, SmallEdits
  <2>3. CASE Forward(h) \/ ReplaceRecipient(h)
    BY <2>3, Forwards, Replaces
  <2>4. CASE \E action \in {"resolve", "reject", "pause", "resume", "takeover"} : UpdateHandoff(h, action)
    BY <2>4, Updates
  <2>5. QED BY <2>1, <2>2, <2>3, <2>4 DEF Edits
<1>3. CASE \E k \in Key : Deliver(k)
  BY <1>3, Delivers
<1>4. CASE ConfirmPrices \/ Rest \/ UNCHANGED vars
  BY <1>4, Confirms
<1>5. QED BY <1>1, <1>2, <1>3, <1>4 DEF Next

\* No other step makes a row SENT.
LEMMA OnlySendSends ==
    ASSUME TypeOK, Next, NEW k \in Key, outbox'[k].status = "SENT", outbox[k].status # "SENT"
    PROVE  Send(k)
<1>1. outbox \in [Key -> Row]
  BY DEF TypeOK
<1>2. ~UNCHANGED outbox
  OBVIOUS
<1>3. ASSUME NEW j, NEW address, NEW lines, Approve(j, address, lines)
      PROVE  FALSE
  BY <1>1, <1>3 DEF Approve
<1>4. ASSUME NEW ks, CancelAll(ks)
      PROVE  FALSE
  <2>1. outbox'[k] = IF k \in ks /\ Open(k) THEN [outbox[k] EXCEPT !.status = "CANCELLED"] ELSE outbox[k]
    BY <1>4 DEF CancelAll
  <2>2. outbox[k] \in Row
    BY <1>1
  <2>3. QED BY <2>1, <2>2 DEF Row
<1>5. ASSUME NEW c \in Clerks
      PROVE  ~ClerkStep(c)
  <2>1. ~CommitReply(c) /\ ~CommitPrice(c)
    BY <1>3 DEF CommitReply, CommitPrice
  <2>2. ~PreviewCertificate(c) /\ ~PreviewList(c) /\ ~PreviewText(c) /\ ~Abort(c) /\ ~CountRound(c)
    BY <1>2 DEF CountRound, PreviewCertificate, PreviewList, PreviewText, Redrafts, Abort
  <2>3. ASSUME NEW h \in Handoffs
        PROVE  /\ ~BeginReply(c, h) /\ ~BeginCertificate(c, h) /\ ~BeginList(c, h)
               /\ ~BeginPrice(c, h) /\ ~BeginPreview(c, h)
    BY <1>2 DEF BeginReply, BeginCertificate, BeginList, BeginPrice, BeginPreview
  <2>4. QED BY <2>1, <2>2, <2>3 DEF ClerkStep
<1>6. ASSUME NEW h \in Handoffs
      PROVE  ~Edits(h)
  <2>1. ~CreateCase(h) /\ ~AssignCase(h) /\ ~SetProduct(h) /\ ~GiveUpRecipient(h)
    BY <1>2 DEF CreateCase, AssignCase, SetProduct, GiveUpRecipient
  <2>2. ~Forward(h) /\ ~ReplaceRecipient(h)
    BY <1>3, <1>4 DEF Forward, ReplaceRecipient
  <2>3. \A action : ~UpdateHandoff(h, action)
    BY <1>2, <1>4 DEF UpdateHandoff
  <2>4. QED BY <2>1, <2>2, <2>3 DEF Edits
<1>7. ~ConfirmPrices /\ ~Rest
  BY <1>2 DEF ConfirmPrices, Rest, vars
<1>8. PICK j \in Key : Deliver(j)
  BY <1>5, <1>6, <1>7 DEF Next
<1>9. PICK status \in {"CLAIMED", "SENT", "CANCELLED"} : outbox' = [outbox EXCEPT ![j].status = status]
  BY <1>8 DEF Deliver, Claim, Block, Send, BlockLate, Moves
<1>10. j = k
  BY <1>1, <1>9
<1>11. ~Claim(k) /\ ~Block(k) /\ ~BlockLate(k)
  <2>1. \A s \in {"CLAIMED", "CANCELLED"} : ~Moves(k, s)
    <3> SUFFICES ASSUME NEW s \in {"CLAIMED", "CANCELLED"}, Moves(k, s) PROVE FALSE
      OBVIOUS
    <3>1. outbox'[k].status = s
      BY Moving DEF Moves
    <3>2. QED BY <3>1
  <2>2. QED BY <2>1 DEF Claim, Block, BlockLate
<1>12. QED BY <1>8, <1>10, <1>11 DEF Deliver

\* The requests hold what they loaded, and a handoff's row is locked exactly while
\* quote_with_manual_price prices it, however requests begin, commit and fail.
THEOREM TypesHold == Spec => []TypeOK
<1>1. ReviewInv => TypeOK
  BY DEF ReviewInv
<1>2. QED BY <1>1, InvStarts, InvStays, PTL DEF Spec

\* approval_handoff_id: a handoff gets one answer, whether it is approved as prepared, with a
\* text or a price of one's own, or forwarded, and the quotes on record are those of the answer.
THEOREM AnsweredOnce == Spec => []OneAnswerEach
<1>1. ReviewInv => OneAnswerEach
  BY DEF ReviewInv
<1>2. QED BY <1>1, InvStarts, InvStays, PTL DEF Spec

\* uq_quote_case_round_product: requests count the rounds before they write theirs, with no
\* lock on the case, and may write the same round of different products; still the rounds
\* follow each other without a gap, and no product is quoted twice in one.
THEOREM RoundsCount == Spec => []RoundsInOrder
<1>1. ReviewInv => RoundsInOrder
  <2> SUFFICES ASSUME ReviewInv PROVE RoundsInOrder
    OBVIOUS
  <2>1. PICK n \in Int : RoundsTo(n)
    BY DEF ReviewInv, RoundsInv
  <2>2. Rounds = 0..Latest
    BY <2>1, LatestRound DEF RoundsTo
  <2>3. QED BY <2>2 DEF RoundsInOrder, ReviewInv, RoundsInv, NoTwice
<1>2. QED BY <1>1, InvStarts, InvStays, PTL DEF Spec

\* The final guard: what is sent goes to the address the case has at that moment, and not to
\* one that was given up, although replace_handoff_recipient may come after the claim.
THEOREM SentWhereItShould == Spec => SentToContact
<1>1. ReviewInv /\ [Next]_vars =>
          [\A k \in Key : k[2] # "forward" /\ outbox'[k].status = "SENT" /\ outbox[k].status # "SENT" =>
              outbox[k].to = case.contact /\ outbox[k].to \notin suppressed]_vars
  <2> SUFFICES ASSUME ReviewInv, Next, NEW k \in Key, k[2] # "forward",
                      outbox'[k].status = "SENT", outbox[k].status # "SENT"
               PROVE  outbox[k].to = case.contact /\ outbox[k].to \notin suppressed
    OBVIOUS
  <2>1. Send(k)
    BY OnlySendSends DEF ReviewInv
  <2>2. QED BY <2>1 DEF Send, FinalGuard, ReviewInv, ClaimedToContact
<1>2. QED BY <1>1, InvStarts, InvStays, PTL DEF Spec, SentToContact
=============================================================================
