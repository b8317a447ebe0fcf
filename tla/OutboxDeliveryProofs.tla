------------------------ MODULE OutboxDeliveryProofs ------------------------
(***************************************************************************)
(* What holds of the outbox for any number of workers, rows, recipients,   *)
(* retries, crashes, faults and edits.                                     *)
(***************************************************************************)
EXTENDS OutboxDelivery, TLAPS

Holding(w) == worker[w].pc \in {"picked", "gated", "suppressing"}
Flying(w) == worker[w].pc \in {"claimed", "sending", "replied"}

\* A worker that is at work is at work on a row.
BusyOnRow == \A w \in Workers : At(w, "idle") \/ RowOf(w) \in Msgs

\* Between the pick and the claim the worker has the row to itself.
PickedIsLocked ==
    \A w \in Workers : Holding(w) =>
        /\ rowLock[RowOf(w)] = w
        /\ outbox[RowOf(w)].status \in {"PENDING", "FAILED"}
        /\ outbox[RowOf(w)].attempts < MaxAttempts
        /\ At(w, "picked") \/ worker[w].seen \in Party

LookedUpIsLocked ==
    \A w \in Workers : At(w, "looking") =>
        /\ rowLock[RowOf(w)] = w
        /\ outbox[RowOf(w)].status = "UNKNOWN"

\* From the claim to the record the row is this worker's: nothing can be done
\* to it but to cancel it.
ClaimIsExclusive ==
    \A w \in Workers : Flying(w) =>
        /\ \/ outbox[RowOf(w)].status = "CLAIMED" /\ ~outbox[RowOf(w)].aged
           \/ outbox[RowOf(w)].status = "CANCELLED"
        /\ worker[w].seen \in Party
        /\ \A v \in Workers : Flying(v) /\ RowOf(v) = RowOf(w) => v = w

\* The message goes out under the advisory lock of an address not suppressed.
SendIsGated ==
    \A w \in Workers :
        /\ At(w, "claimed") \/ At(w, "sending") => delivered[RowOf(w)] = 0
        /\ At(w, "sending") => ~suppressed[To(w)]
        /\ At(w, "sending") \/ At(w, "replied") => gateLock[To(w)] = w

\* The reply the worker has still to record tells what the server did.
ReplyIsTrue ==
    \A w \in Workers : At(w, "replied") =>
        /\ worker[w].note \in Replies
        /\ worker[w].note = "ok" => delivered[RowOf(w)] = 1
        /\ worker[w].note \in {"rate", "hard", "soft"} => delivered[RowOf(w)] = 0

DeskIsGated ==
    /\ desk.kind # "none" => desk.rcpt \in Recipients
    /\ \A r \in Recipients :
          gateLock[r] = Desk <=> desk.kind = "suppress" /\ desk.rcpt = r

IInv ==
    /\ TypeOK /\ BusyOnRow /\ PickedIsLocked /\ LookedUpIsLocked
    /\ ClaimIsExclusive /\ SendIsGated /\ ReplyIsTrue /\ DeskIsGated
    /\ AtMostOnce /\ RetryOnlyUndelivered /\ SentIsDelivered

USE DEF At, RowOf, To, Goes, MovesTo, FreesRows, FreesGate, Released

-----------------------------------------------------------------------------
(* The records of the rows, the parties and the workers.                   *)

LEMMA RowTypes ==
    ASSUME NEW row \in Row
    PROVE /\ Cancelled(row) \in Row /\ Deferred(row) \in Row /\ Refunded(row) \in Row
          /\ LookupFailed(row) \in Row
          /\ \A found \in BOOLEAN : Reconciled(row, found) \in Row
          /\ \A status \in DeliveryStatus : [row EXCEPT !.status = status] \in Row
          /\ \A flag \in BOOLEAN : /\ [row EXCEPT !.due = flag] \in Row
                                   /\ [row EXCEPT !.aged = flag] \in Row
<1>1. Refunded(row) \in Row
  BY OutboxAssumption DEF Row, Refunded
<1>2. /\ \A status \in DeliveryStatus : [row EXCEPT !.status = status] \in Row
      /\ \A flag \in BOOLEAN : /\ [row EXCEPT !.due = flag] \in Row
                               /\ [row EXCEPT !.aged = flag] \in Row
  BY DEF Row
<1>3. /\ Cancelled(row) \in Row /\ Deferred(row) \in Row /\ LookupFailed(row) \in Row
      /\ \A found \in BOOLEAN : Reconciled(row, found) \in Row
  BY DEF Row, DeliveryStatus, Cancelled, Deferred, LookupFailed, Reconciled
<1>4. QED BY <1>1, <1>2, <1>3

LEMMA ReplyTypes ==
    ASSUME NEW row \in Row, NEW reply \in Replies
    PROVE ReplyRecorded(row, reply) \in Row
<1>1. Deferred(row) \in Row
  BY RowTypes
<1>2. Refunded(Deferred(row)) \in Row
  BY <1>1, RowTypes
<1>3. [row EXCEPT !.status = "FAILED", !.due = FALSE] \in Row
  BY DEF Row, DeliveryStatus
<1>4. Cancelled(row) \in Row /\ \A status \in DeliveryStatus : [row EXCEPT !.status = status] \in Row
  BY RowTypes
<1>5. QED BY <1>2, <1>3, <1>4 DEF Replies, ReplyRecorded, DeliveryStatus

\* Only a reply that says so leaves a row SENT, or open for another attempt.
LEMMA ReplyStatus ==
    ASSUME NEW row \in Row, NEW reply \in Replies
    PROVE  /\ ReplyRecorded(row, reply).status = "SENT" => reply = "ok"
           /\ ReplyRecorded(row, reply).status \in {"PENDING", "FAILED"} =>
                reply \in {"rate", "soft"}
BY DEF Row, Replies, ReplyRecorded, Deferred, Refunded, Cancelled

LEMMA AcceptedOnce == \A reply \in Replies : Accepted(reply) \subseteq {0, 1}
BY DEF Accepted, Replies

LEMMA PartyTypes ==
    ASSUME NEW p \in Party
    PROVE /\ \A flag \in BOOLEAN : [p EXCEPT !.optOut = flag] \in Party
          /\ \A life \in {"ACTIVE", "AWAY", "DUE"} : [p EXCEPT !.life = life] \in Party
          /\ \A case \in {"ACTIVE", "HELD", "PAUSED"} : [p EXCEPT !.case = case] \in Party
          /\ [p EXCEPT !.optOut = TRUE, !.case = "PAUSED"] \in Party
          /\ Back(p) \in Party
          /\ \A w : Committed(w, p) \in Party
          /\ \A loaded : PausedFrom(loaded, p) \in Party /\ HardBounced(loaded, p) \in Party
BY DEF Party, Committed, Back, PausedFrom, HardBounced

LEMMA WorkerTypes ==
    /\ Idle \in WorkerState
    /\ \A m \in Msgs, step \in Steps : [Idle EXCEPT !.pc = step, !.msg = m] \in WorkerState
    /\ \A state \in WorkerState, step \in Steps : [state EXCEPT !.pc = step] \in WorkerState
    /\ \A state \in WorkerState, step \in Steps, p \in Party :
          [state EXCEPT !.pc = step, !.seen = p] \in WorkerState
    /\ \A state \in WorkerState, step \in Steps, note \in Replies \cup Verdicts :
          [state EXCEPT !.pc = step, !.note = note] \in WorkerState
BY DEF Idle, WorkerState, Steps, Replies, Verdicts

-----------------------------------------------------------------------------
(* Every step keeps the invariant.                                         *)

LEMMA GiveUpKeeps ==
    ASSUME IInv, NEW w0 \in Workers, GiveUp(w0)
    PROVE  IInv'
<1>1. TypeOK'
  <2>1. outbox' \in [Msgs -> Row]
    <3>1. PICK m \in Msgs : outbox' = [outbox EXCEPT ![m] = Cancelled(@)]
      BY DEF GiveUp
    <3>2. QED BY <3>1, RowTypes DEF IInv, TypeOK
  <2>2. worker' \in [Workers -> WorkerState]
    BY WorkerTypes DEF IInv, TypeOK, GiveUp, Steps, GivenUp, locks
  <2>3. QED
    BY <2>1, <2>2, OutboxAssumption DEF IInv, TypeOK, BusyOnRow, GiveUp, bounds, locks
<1>2. BusyOnRow'
  BY OutboxAssumption DEF IInv, TypeOK, BusyOnRow, Available, Cancelled, Exhausted,
      First, GiveUp, GivenUp, Idle, StaleClaim, locks
<1>3. PickedIsLocked'
  BY OutboxAssumption DEF IInv, TypeOK, BusyOnRow, Holding, PickedIsLocked, Available,
      Cancelled, Exhausted, First, GiveUp, GivenUp, Idle, StaleClaim, locks
<1>4. LookedUpIsLocked'
  BY OutboxAssumption DEF IInv, TypeOK, BusyOnRow, LookedUpIsLocked, Available,
      Cancelled, Exhausted, First, GiveUp, GivenUp, Idle, StaleClaim, locks,
      PickedIsLocked, Holding
<1>5. ClaimIsExclusive'
  BY OutboxAssumption DEF IInv, TypeOK, BusyOnRow, ClaimIsExclusive, Flying, Available,
      Cancelled, Exhausted, First, GiveUp, GivenUp, Idle, StaleClaim, locks
<1>6. SendIsGated'
  BY OutboxAssumption DEF IInv, TypeOK, BusyOnRow, SendIsGated, Available, Cancelled,
      Exhausted, First, GiveUp, GivenUp, Idle, StaleClaim, locks
<1>7. ReplyIsTrue'
  BY OutboxAssumption DEF IInv, TypeOK, BusyOnRow, ReplyIsTrue, Available, Cancelled,
      Exhausted, First, GiveUp, GivenUp, Idle, StaleClaim, locks
<1>8. RetryOnlyUndelivered'
  BY OutboxAssumption DEF IInv, TypeOK, BusyOnRow, RetryOnlyUndelivered, Available,
      Cancelled, Exhausted, First, GiveUp, GivenUp, Idle, StaleClaim, locks
<1>9. SentIsDelivered'
  BY OutboxAssumption DEF IInv, TypeOK, BusyOnRow, SentIsDelivered, Available,
      Cancelled, Exhausted, First, GiveUp, GivenUp, Idle, StaleClaim, locks
<1>10. DeskIsGated' /\ AtMostOnce'
  BY DEF IInv, AtMostOnce, DeskIsGated, GiveUp, bounds, locks
<1>11. QED BY <1>1, <1>2, <1>3, <1>4, <1>5, <1>6, <1>7, <1>8, <1>9, <1>10 DEF IInv

LEMMA RecoverClaimKeeps ==
    ASSUME IInv, NEW w0 \in Workers, RecoverClaim(w0)
    PROVE  IInv'
<1>1. TypeOK'
  <2>1. outbox' \in [Msgs -> Row]
    <3>1. PICK m \in Msgs : outbox' = [outbox EXCEPT ![m].status = "UNKNOWN"]
      BY DEF RecoverClaim
    <3>2. [outbox[m] EXCEPT !.status = "UNKNOWN"] \in Row
      BY RowTypes DEF IInv, TypeOK, DeliveryStatus
    <3>3. QED BY <3>1, <3>2 DEF IInv, TypeOK
  <2>2. QED
    BY <2>1, OutboxAssumption DEF IInv, TypeOK, BusyOnRow, RecoverClaim, bounds, locks
<1>2. PickedIsLocked'
  BY OutboxAssumption DEF IInv, TypeOK, BusyOnRow, Holding, PickedIsLocked, Available,
      Exhausted, First, RecoverClaim, StaleClaim, locks
<1>3. LookedUpIsLocked'
  BY OutboxAssumption DEF IInv, TypeOK, BusyOnRow, LookedUpIsLocked, Available,
      Exhausted, First, RecoverClaim, StaleClaim, locks
<1>4. ClaimIsExclusive'
  BY OutboxAssumption DEF IInv, TypeOK, BusyOnRow, ClaimIsExclusive, Flying, Available,
      Exhausted, First, RecoverClaim, StaleClaim, locks
<1>5. RetryOnlyUndelivered'
  BY OutboxAssumption DEF IInv, TypeOK, BusyOnRow, RetryOnlyUndelivered, Available,
      Exhausted, First, RecoverClaim, StaleClaim, locks
<1>6. SentIsDelivered'
  BY OutboxAssumption DEF IInv, TypeOK, BusyOnRow, SentIsDelivered, Available,
      Exhausted, First, RecoverClaim, StaleClaim, locks
<1>7. /\ BusyOnRow' /\ SendIsGated' /\ ReplyIsTrue'
      /\ DeskIsGated' /\ AtMostOnce'
  BY DEF IInv, AtMostOnce, BusyOnRow, DeskIsGated, ReplyIsTrue, SendIsGated,
      RecoverClaim, bounds, locks
<1>8. QED BY <1>1, <1>2, <1>3, <1>4, <1>5, <1>6, <1>7 DEF IInv

LEMMA PickKeeps ==
    ASSUME IInv, NEW w0 \in Workers, Pick(w0)
    PROVE  IInv'
<1>1. TypeOK'
  <2>1. worker' \in [Workers -> WorkerState]
    BY WorkerTypes DEF IInv, TypeOK, Pick, Steps
  <2>2. QED
    BY <2>1, OutboxAssumption DEF IInv, TypeOK, BusyOnRow, Pick, bounds
<1>2. BusyOnRow'
  BY OutboxAssumption DEF IInv, TypeOK, BusyOnRow, Available, Exhausted, First, Idle,
      Pick, StaleClaim
<1>3. PickedIsLocked'
  <2>1. PICK m \in Msgs :
           /\ Available(m) /\ ~Exhausted(m) /\ ~StaleClaim(m)
           /\ rowLock' = [n \in Msgs |-> IF Available(n) THEN w0 ELSE rowLock[n]]
           /\ Goes(w0, [Idle EXCEPT !.pc = "picked", !.msg = m])
           /\ outbox' = outbox
    BY DEF Pick, First
  <2>2. /\ outbox[m].status \in {"PENDING", "FAILED"}
        /\ outbox[m].attempts < MaxAttempts
        /\ rowLock[m] = None
    BY <2>1, OutboxAssumption DEF IInv, TypeOK, Row, Available, Exhausted, StaleClaim
  <2>3. ASSUME NEW w \in Workers, Holding(w)
        PROVE  RowOf(w) \in Msgs /\ RowOf(w) # m /\ rowLock'[RowOf(w)] = w
    <3>1. RowOf(w) \in Msgs /\ rowLock[RowOf(w)] = w /\ rowLock[RowOf(w)] # None
      BY <2>3, OutboxAssumption DEF IInv, BusyOnRow, PickedIsLocked, Holding
    <3>2. ~Available(RowOf(w)) /\ RowOf(w) # m
      BY <2>2, <3>1 DEF Available
    <3>3. QED BY <2>1, <3>1, <3>2
  <2>4. ASSUME NEW w \in Workers, w # w0 PROVE worker'[w] = worker[w]
    BY <2>1, <2>4 DEF IInv, TypeOK
  <2>5. /\ rowLock'[m] = w0
        /\ worker'[w0].pc = "picked" /\ worker'[w0].msg = m
    BY <2>1 DEF IInv, TypeOK, Idle
  <2>6. SUFFICES ASSUME NEW w \in Workers, Holding(w)'
                 PROVE  /\ rowLock'[worker'[w].msg] = w
                        /\ outbox'[worker'[w].msg].status \in {"PENDING", "FAILED"}
                        /\ outbox'[worker'[w].msg].attempts < MaxAttempts
                        /\ worker'[w].pc = "picked" \/ worker'[w].seen \in Party
    BY DEF PickedIsLocked
  <2>7. CASE w = w0
    BY <2>1, <2>2, <2>5, <2>7
  <2>8. CASE w # w0
    BY <2>1, <2>3, <2>4, <2>6, <2>8 DEF IInv, PickedIsLocked, Holding
  <2>9. QED BY <2>7, <2>8
<1>4. LookedUpIsLocked'
  BY OutboxAssumption DEF IInv, TypeOK, BusyOnRow, LookedUpIsLocked, Available,
      Exhausted, First, Idle, Pick, StaleClaim, PickedIsLocked, Holding
<1>5. ClaimIsExclusive'
  BY OutboxAssumption DEF IInv, TypeOK, BusyOnRow, ClaimIsExclusive, Flying, Available,
      Exhausted, First, Idle, Pick, StaleClaim
<1>6. SendIsGated'
  BY OutboxAssumption DEF IInv, TypeOK, BusyOnRow, SendIsGated, Available, Exhausted,
      First, Idle, Pick, StaleClaim
<1>7. ReplyIsTrue'
  BY OutboxAssumption DEF IInv, TypeOK, BusyOnRow, ReplyIsTrue, Available, Exhausted,
      First, Idle, Pick, StaleClaim
<1>8. /\ DeskIsGated' /\ AtMostOnce' /\ RetryOnlyUndelivered'
      /\ SentIsDelivered'
  BY DEF IInv, AtMostOnce, DeskIsGated, RetryOnlyUndelivered, SentIsDelivered, Pick,
      bounds
<1>9. QED BY <1>1, <1>2, <1>3, <1>4, <1>5, <1>6, <1>7, <1>8 DEF IInv

LEMMA DeferKeeps ==
    ASSUME IInv, NEW w0 \in Workers, Defer(w0)
    PROVE  IInv'
<1>1. TypeOK'
  <2>1. outbox' \in [Msgs -> Row]
    BY RowTypes DEF IInv, TypeOK, Defer, DeliveryStatus
  <2>2. party' \in [Recipients -> Party]
    BY OutboxAssumption, PartyTypes DEF IInv, TypeOK, Defer
  <2>3. worker' \in [Workers -> WorkerState]
    BY WorkerTypes DEF IInv, TypeOK, Defer, Steps
  <2>4. QED
    BY <2>1, <2>2, <2>3, OutboxAssumption DEF IInv, TypeOK, BusyOnRow, Defer, Fault
<1>2. BusyOnRow'
  BY OutboxAssumption DEF IInv, TypeOK, BusyOnRow, Back, Committed, Defer, Deferred,
      Idle
<1>3. PickedIsLocked'
  BY OutboxAssumption DEF IInv, TypeOK, BusyOnRow, Holding, PickedIsLocked, Back,
      Committed, Defer, Deferred, Idle
<1>4. LookedUpIsLocked'
  BY OutboxAssumption DEF IInv, TypeOK, BusyOnRow, LookedUpIsLocked, Back, Committed,
      Defer, Deferred, Idle, PickedIsLocked, Holding
<1>5. ClaimIsExclusive'
  BY OutboxAssumption DEF IInv, TypeOK, BusyOnRow, ClaimIsExclusive, Flying, Back,
      Committed, Defer, Deferred, Idle, PickedIsLocked, Holding
<1>6. SendIsGated'
  BY OutboxAssumption DEF IInv, TypeOK, BusyOnRow, SendIsGated, Back, Committed, Defer,
      Deferred, Idle
<1>7. ReplyIsTrue'
  BY OutboxAssumption DEF IInv, TypeOK, BusyOnRow, ReplyIsTrue, Back, Committed, Defer,
      Deferred, Idle
<1>8. RetryOnlyUndelivered'
  BY OutboxAssumption DEF IInv, TypeOK, BusyOnRow, RetryOnlyUndelivered, Back,
      Committed, Defer, Deferred, Idle, PickedIsLocked, Holding
<1>9. SentIsDelivered'
  BY OutboxAssumption DEF IInv, TypeOK, BusyOnRow, SentIsDelivered, Back, Committed,
      Defer, Deferred, Idle
<1>10. DeskIsGated' /\ AtMostOnce'
  BY DEF IInv, AtMostOnce, DeskIsGated, Defer
<1>11. QED BY <1>1, <1>2, <1>3, <1>4, <1>5, <1>6, <1>7, <1>8, <1>9, <1>10 DEF IInv

LEMMA RefuseKeeps ==
    ASSUME IInv, NEW w0 \in Workers, Refuse(w0)
    PROVE  IInv'
<1>1. TypeOK'
  <2>1. outbox' \in [Msgs -> Row]
    BY RowTypes DEF IInv, TypeOK, Refuse, DeliveryStatus
  <2>2. party' \in [Recipients -> Party]
    BY OutboxAssumption, PartyTypes DEF IInv, TypeOK, Refuse
  <2>3. worker' \in [Workers -> WorkerState]
    BY WorkerTypes DEF IInv, TypeOK, Refuse, Steps
  <2>4. QED
    BY <2>1, <2>2, <2>3, OutboxAssumption DEF IInv, TypeOK, BusyOnRow, Refuse, bounds
<1>2. BusyOnRow'
  BY OutboxAssumption DEF IInv, TypeOK, BusyOnRow, Back, Cancelled, Committed, Idle,
      Refuse
<1>3. PickedIsLocked'
  BY OutboxAssumption DEF IInv, TypeOK, BusyOnRow, Holding, PickedIsLocked, Back,
      Cancelled, Committed, Idle, Refuse
<1>4. LookedUpIsLocked'
  BY OutboxAssumption DEF IInv, TypeOK, BusyOnRow, LookedUpIsLocked, Back, Cancelled,
      Committed, Idle, Refuse, PickedIsLocked, Holding
<1>5. ClaimIsExclusive'
  BY OutboxAssumption DEF IInv, TypeOK, BusyOnRow, ClaimIsExclusive, Flying, Back,
      Cancelled, Committed, Idle, Refuse
<1>6. SendIsGated'
  BY OutboxAssumption DEF IInv, TypeOK, BusyOnRow, SendIsGated, Back, Cancelled,
      Committed, Idle, Refuse
<1>7. ReplyIsTrue'
  BY OutboxAssumption DEF IInv, TypeOK, BusyOnRow, ReplyIsTrue, Back, Cancelled,
      Committed, Idle, Refuse
<1>8. RetryOnlyUndelivered'
  BY OutboxAssumption DEF IInv, TypeOK, BusyOnRow, RetryOnlyUndelivered, Back,
      Cancelled, Committed, Idle, Refuse
<1>9. SentIsDelivered'
  BY OutboxAssumption DEF IInv, TypeOK, BusyOnRow, SentIsDelivered, Back, Cancelled,
      Committed, Idle, Refuse
<1>10. DeskIsGated' /\ AtMostOnce'
  BY DEF IInv, AtMostOnce, DeskIsGated, Refuse, bounds
<1>11. QED BY <1>1, <1>2, <1>3, <1>4, <1>5, <1>6, <1>7, <1>8, <1>9, <1>10 DEF IInv

LEMMA GateStopsKeeps ==
    ASSUME IInv, NEW w0 \in Workers, GateStops(w0)
    PROVE  IInv'
<1>1. TypeOK'
  <2>1. outbox' \in [Msgs -> Row]
    BY RowTypes DEF IInv, TypeOK, GateStops, DeliveryStatus
  <2>2. party' \in [Recipients -> Party]
    BY OutboxAssumption, PartyTypes DEF IInv, TypeOK, GateStops
  <2>3. worker' \in [Workers -> WorkerState]
    BY WorkerTypes DEF IInv, TypeOK, GateStops, Steps
  <2>4. QED
    BY <2>1, <2>2, <2>3, OutboxAssumption DEF IInv, TypeOK, BusyOnRow, GateStops, bounds
<1>2. BusyOnRow'
  BY OutboxAssumption DEF IInv, TypeOK, BusyOnRow, Back, Cancelled, Deferred, GateStops,
      Idle
<1>3. PickedIsLocked'
  BY OutboxAssumption DEF IInv, TypeOK, BusyOnRow, Holding, PickedIsLocked, Back,
      Cancelled, Deferred, GateStops, Idle
<1>4. LookedUpIsLocked'
  BY OutboxAssumption DEF IInv, TypeOK, BusyOnRow, LookedUpIsLocked, Back, Cancelled,
      Deferred, GateStops, Idle, PickedIsLocked, Holding
<1>5. ClaimIsExclusive'
  BY OutboxAssumption DEF IInv, TypeOK, BusyOnRow, ClaimIsExclusive, Flying, Back,
      Cancelled, Deferred, GateStops, Idle, PickedIsLocked, Holding
<1>6. SendIsGated'
  BY OutboxAssumption DEF IInv, TypeOK, BusyOnRow, SendIsGated, Back, Cancelled,
      Deferred, GateStops, Idle
<1>7. ReplyIsTrue'
  BY OutboxAssumption DEF IInv, TypeOK, BusyOnRow, ReplyIsTrue, Back, Cancelled,
      Deferred, GateStops, Idle
<1>8. RetryOnlyUndelivered'
  BY OutboxAssumption DEF IInv, TypeOK, BusyOnRow, RetryOnlyUndelivered, Back,
      Cancelled, Deferred, GateStops, Idle, PickedIsLocked, Holding
<1>9. SentIsDelivered'
  BY OutboxAssumption DEF IInv, TypeOK, BusyOnRow, SentIsDelivered, Back, Cancelled,
      Deferred, GateStops, Idle
<1>10. DeskIsGated' /\ AtMostOnce'
  BY DEF IInv, AtMostOnce, DeskIsGated, GateStops, bounds
<1>11. QED BY <1>1, <1>2, <1>3, <1>4, <1>5, <1>6, <1>7, <1>8, <1>9, <1>10 DEF IInv

LEMMA GatePassesKeeps ==
    ASSUME IInv, NEW w0 \in Workers, GatePasses(w0)
    PROVE  IInv'
<1>1. TypeOK'
  <2>1. worker' \in [Workers -> WorkerState]
    <3>1. party[To(w0)] \in Party /\ worker[w0] \in WorkerState
      BY OutboxAssumption DEF IInv, TypeOK, BusyOnRow, GatePasses
    <3>2. [worker[w0] EXCEPT !.pc = "gated", !.seen = party[To(w0)]] \in WorkerState
      BY <3>1, WorkerTypes DEF Steps
    <3>3. QED BY <3>2 DEF IInv, TypeOK, GatePasses
  <2>2. QED
    BY <2>1, OutboxAssumption DEF IInv, TypeOK, BusyOnRow, GatePasses, bounds, locks
<1>2. BusyOnRow'
  BY OutboxAssumption DEF IInv, TypeOK, BusyOnRow, GatePasses, locks
<1>3. PickedIsLocked'
  BY OutboxAssumption DEF IInv, TypeOK, BusyOnRow, Holding, PickedIsLocked, GatePasses,
      locks
<1>4. LookedUpIsLocked'
  BY OutboxAssumption DEF IInv, TypeOK, BusyOnRow, LookedUpIsLocked, GatePasses, locks
<1>5. ClaimIsExclusive'
  BY OutboxAssumption DEF IInv, TypeOK, BusyOnRow, ClaimIsExclusive, Flying, GatePasses,
      locks
<1>6. SendIsGated'
  BY OutboxAssumption DEF IInv, TypeOK, BusyOnRow, SendIsGated, GatePasses, locks
<1>7. ReplyIsTrue'
  BY OutboxAssumption DEF IInv, TypeOK, BusyOnRow, ReplyIsTrue, GatePasses, locks
<1>8. /\ DeskIsGated' /\ AtMostOnce' /\ RetryOnlyUndelivered'
      /\ SentIsDelivered'
  BY DEF IInv, AtMostOnce, DeskIsGated, RetryOnlyUndelivered, SentIsDelivered,
      GatePasses, bounds, locks
<1>9. QED BY <1>1, <1>2, <1>3, <1>4, <1>5, <1>6, <1>7, <1>8 DEF IInv

LEMMA BlockSuppressedKeeps ==
    ASSUME IInv, NEW w0 \in Workers, BlockSuppressed(w0)
    PROVE  IInv'
<1>1. TypeOK'
  <2>1. outbox' \in [Msgs -> Row]
    BY RowTypes DEF IInv, TypeOK, BlockSuppressed, DeliveryStatus
  <2>2. party' \in [Recipients -> Party]
    BY OutboxAssumption, PartyTypes DEF IInv, TypeOK, BlockSuppressed
  <2>3. worker' \in [Workers -> WorkerState]
    BY WorkerTypes DEF IInv, TypeOK, BlockSuppressed, Steps
  <2>4. QED
    BY <2>1, <2>2, <2>3, OutboxAssumption DEF IInv, TypeOK, BusyOnRow, BlockSuppressed,
        bounds
<1>2. BusyOnRow'
  BY OutboxAssumption DEF IInv, TypeOK, BusyOnRow, Back, BlockSuppressed, Cancelled,
      Committed, Idle, PausedFrom
<1>3. PickedIsLocked'
  BY OutboxAssumption DEF IInv, TypeOK, BusyOnRow, Holding, PickedIsLocked, Back,
      BlockSuppressed, Cancelled, Committed, Idle, PausedFrom
<1>4. LookedUpIsLocked'
  BY OutboxAssumption DEF IInv, TypeOK, BusyOnRow, LookedUpIsLocked, Back,
      BlockSuppressed, Cancelled, Committed, Idle, PausedFrom, PickedIsLocked, Holding
<1>5. ClaimIsExclusive'
  BY OutboxAssumption DEF IInv, TypeOK, BusyOnRow, ClaimIsExclusive, Flying, Back,
      BlockSuppressed, Cancelled, Committed, Idle, PausedFrom
<1>6. SendIsGated'
  BY OutboxAssumption DEF IInv, TypeOK, BusyOnRow, SendIsGated, Back, BlockSuppressed,
      Cancelled, Committed, Idle, PausedFrom
<1>7. ReplyIsTrue'
  BY OutboxAssumption DEF IInv, TypeOK, BusyOnRow, ReplyIsTrue, Back, BlockSuppressed,
      Cancelled, Committed, Idle, PausedFrom
<1>8. RetryOnlyUndelivered'
  BY OutboxAssumption DEF IInv, TypeOK, BusyOnRow, RetryOnlyUndelivered, Back,
      BlockSuppressed, Cancelled, Committed, Idle, PausedFrom
<1>9. SentIsDelivered'
  BY OutboxAssumption DEF IInv, TypeOK, BusyOnRow, SentIsDelivered, Back,
      BlockSuppressed, Cancelled, Committed, Idle, PausedFrom
<1>10. DeskIsGated' /\ AtMostOnce'
  BY DEF IInv, AtMostOnce, DeskIsGated, BlockSuppressed, bounds
<1>11. QED BY <1>1, <1>2, <1>3, <1>4, <1>5, <1>6, <1>7, <1>8, <1>9, <1>10 DEF IInv

LEMMA BlockNoMXKeeps ==
    ASSUME IInv, NEW w0 \in Workers, BlockNoMX(w0)
    PROVE  IInv'
<1>1. TypeOK'
  <2>1. outbox' \in [Msgs -> Row]
    BY RowTypes DEF IInv, TypeOK, BlockNoMX, DeliveryStatus
  <2>2. party' \in [Recipients -> Party]
    BY OutboxAssumption, PartyTypes DEF IInv, TypeOK, BlockNoMX
  <2>3. worker' \in [Workers -> WorkerState]
    BY WorkerTypes DEF IInv, TypeOK, BlockNoMX, Steps
  <2>4. QED
    BY <2>1, <2>2, <2>3, OutboxAssumption DEF IInv, TypeOK, BusyOnRow, BlockNoMX, bounds
<1>2. BusyOnRow'
  BY OutboxAssumption DEF IInv, TypeOK, BusyOnRow, Back, BlockNoMX, Cancelled, Committed
<1>3. PickedIsLocked'
  BY OutboxAssumption DEF IInv, TypeOK, BusyOnRow, Holding, PickedIsLocked, Back,
      BlockNoMX, Cancelled, Committed
<1>4. LookedUpIsLocked'
  BY OutboxAssumption DEF IInv, TypeOK, BusyOnRow, LookedUpIsLocked, Back, BlockNoMX,
      Cancelled, Committed, PickedIsLocked, Holding
<1>5. ClaimIsExclusive'
  BY OutboxAssumption DEF IInv, TypeOK, BusyOnRow, ClaimIsExclusive, Flying, Back,
      BlockNoMX, Cancelled, Committed
<1>6. SendIsGated'
  BY OutboxAssumption DEF IInv, TypeOK, BusyOnRow, SendIsGated, Back, BlockNoMX,
      Cancelled, Committed
<1>7. ReplyIsTrue'
  BY OutboxAssumption DEF IInv, TypeOK, BusyOnRow, ReplyIsTrue, Back, BlockNoMX,
      Cancelled, Committed
<1>8. RetryOnlyUndelivered'
  BY OutboxAssumption DEF IInv, TypeOK, BusyOnRow, RetryOnlyUndelivered, Back,
      BlockNoMX, Cancelled, Committed
<1>9. SentIsDelivered'
  BY OutboxAssumption DEF IInv, TypeOK, BusyOnRow, SentIsDelivered, Back, BlockNoMX,
      Cancelled, Committed
<1>10. DeskIsGated' /\ AtMostOnce'
  BY DEF IInv, AtMostOnce, DeskIsGated, BlockNoMX, bounds
<1>11. QED BY <1>1, <1>2, <1>3, <1>4, <1>5, <1>6, <1>7, <1>8, <1>9, <1>10 DEF IInv

LEMMA FindUndeliverableKeeps ==
    ASSUME IInv, NEW w0 \in Workers, FindUndeliverable(w0)
    PROVE  IInv'
<1>1. TypeOK'
  <2>1. worker' \in [Workers -> WorkerState]
    <3>1. PICK verdict \in Verdicts :
             Goes(w0, [worker[w0] EXCEPT !.pc = "suppressing", !.note = verdict])
      BY DEF FindUndeliverable, Verdicts
    <3>2. [worker[w0] EXCEPT !.pc = "suppressing", !.note = verdict] \in WorkerState
      BY WorkerTypes DEF IInv, TypeOK, Steps
    <3>3. QED BY <3>1, <3>2 DEF IInv, TypeOK
  <2>2. QED
    BY <2>1, OutboxAssumption DEF IInv, TypeOK, BusyOnRow, FindUndeliverable, bounds,
        locks
<1>2. BusyOnRow'
  BY OutboxAssumption DEF IInv, TypeOK, BusyOnRow, FindUndeliverable, locks
<1>3. PickedIsLocked'
  BY OutboxAssumption DEF IInv, TypeOK, BusyOnRow, Holding, PickedIsLocked,
      FindUndeliverable, locks
<1>4. LookedUpIsLocked'
  BY OutboxAssumption DEF IInv, TypeOK, BusyOnRow, LookedUpIsLocked, FindUndeliverable,
      locks
<1>5. ClaimIsExclusive'
  BY OutboxAssumption DEF IInv, TypeOK, BusyOnRow, ClaimIsExclusive, Flying,
      FindUndeliverable, locks
<1>6. SendIsGated'
  BY OutboxAssumption DEF IInv, TypeOK, BusyOnRow, SendIsGated, FindUndeliverable, locks
<1>7. ReplyIsTrue'
  BY OutboxAssumption DEF IInv, TypeOK, BusyOnRow, ReplyIsTrue, FindUndeliverable, locks
<1>8. /\ DeskIsGated' /\ AtMostOnce' /\ RetryOnlyUndelivered'
      /\ SentIsDelivered'
  BY DEF IInv, AtMostOnce, DeskIsGated, RetryOnlyUndelivered, SentIsDelivered,
      FindUndeliverable, bounds, locks
<1>9. QED BY <1>1, <1>2, <1>3, <1>4, <1>5, <1>6, <1>7, <1>8 DEF IInv

LEMMA SuppressDomainKeeps ==
    ASSUME IInv, NEW w0 \in Workers, SuppressDomain(w0)
    PROVE  IInv'
<1>1. TypeOK'
  <2>1. outbox' \in [Msgs -> Row]
    BY RowTypes DEF IInv, TypeOK, SuppressDomain, DeliveryStatus
  <2>2. party' \in [Recipients -> Party]
    <3>1. party[To(w0)] \in Party
      BY OutboxAssumption DEF IInv, TypeOK, BusyOnRow, SuppressDomain
    <3>2. OptedOut(Committed(w0, party[To(w0)])) \in Party
      BY <3>1, PartyTypes DEF OptedOut
    <3>3. QED BY <3>2, PartyTypes DEF IInv, TypeOK, SuppressDomain
  <2>3. worker' \in [Workers -> WorkerState]
    BY WorkerTypes DEF IInv, TypeOK, SuppressDomain, Steps
  <2>4. QED
    BY <2>1, <2>2, <2>3, OutboxAssumption DEF IInv, TypeOK, BusyOnRow, SuppressDomain,
        bounds
<1>2. BusyOnRow'
  BY OutboxAssumption DEF IInv, TypeOK, BusyOnRow, Back, Cancelled, Committed, Idle,
      OptedOut, PausedFrom, SuppressDomain
<1>3. PickedIsLocked'
  BY OutboxAssumption DEF IInv, TypeOK, BusyOnRow, Holding, PickedIsLocked, Back,
      Cancelled, Committed, Idle, OptedOut, PausedFrom, SuppressDomain
<1>4. LookedUpIsLocked'
  BY OutboxAssumption DEF IInv, TypeOK, BusyOnRow, LookedUpIsLocked, Back, Cancelled,
      Committed, Idle, OptedOut, PausedFrom, SuppressDomain, PickedIsLocked, Holding
<1>5. ClaimIsExclusive'
  BY OutboxAssumption DEF IInv, TypeOK, BusyOnRow, ClaimIsExclusive, Flying, Back,
      Cancelled, Committed, Idle, OptedOut, PausedFrom, SuppressDomain
<1>6. SendIsGated'
  BY OutboxAssumption DEF IInv, TypeOK, BusyOnRow, SendIsGated, Back, Cancelled,
      Committed, Idle, OptedOut, PausedFrom, SuppressDomain
<1>7. ReplyIsTrue'
  BY OutboxAssumption DEF IInv, TypeOK, BusyOnRow, ReplyIsTrue, Back, Cancelled,
      Committed, Idle, OptedOut, PausedFrom, SuppressDomain
<1>8. RetryOnlyUndelivered'
  BY OutboxAssumption DEF IInv, TypeOK, BusyOnRow, RetryOnlyUndelivered, Back,
      Cancelled, Committed, Idle, OptedOut, PausedFrom, SuppressDomain
<1>9. SentIsDelivered'
  BY OutboxAssumption DEF IInv, TypeOK, BusyOnRow, SentIsDelivered, Back, Cancelled,
      Committed, Idle, OptedOut, PausedFrom, SuppressDomain
<1>10. DeskIsGated' /\ AtMostOnce'
  BY DEF IInv, AtMostOnce, DeskIsGated, SuppressDomain, bounds
<1>11. QED BY <1>1, <1>2, <1>3, <1>4, <1>5, <1>6, <1>7, <1>8, <1>9, <1>10 DEF IInv

LEMMA SuppressAddressKeeps ==
    ASSUME IInv, NEW w0 \in Workers, SuppressAddress(w0)
    PROVE  IInv'
<1>1. TypeOK'
  <2>1. outbox' \in [Msgs -> Row]
    BY RowTypes DEF IInv, TypeOK, SuppressAddress, DeliveryStatus
  <2>2. party' \in [Recipients -> Party]
    <3>1. party[To(w0)] \in Party
      BY OutboxAssumption DEF IInv, TypeOK, BusyOnRow, SuppressAddress
    <3>2. OptedOut(Committed(w0, party[To(w0)])) \in Party
      BY <3>1, PartyTypes DEF OptedOut
    <3>3. QED BY <3>2, PartyTypes DEF IInv, TypeOK, SuppressAddress
  <2>3. worker' \in [Workers -> WorkerState]
    BY WorkerTypes DEF IInv, TypeOK, SuppressAddress, Steps
  <2>4. QED
    BY <2>1, <2>2, <2>3, OutboxAssumption DEF IInv, TypeOK, BusyOnRow, SuppressAddress,
        bounds
<1>2. BusyOnRow'
  BY OutboxAssumption DEF IInv, TypeOK, BusyOnRow, Back, Cancelled, Committed, OptedOut,
      SuppressAddress
<1>3. PickedIsLocked'
  BY OutboxAssumption DEF IInv, TypeOK, BusyOnRow, Holding, PickedIsLocked, Back,
      Cancelled, Committed, OptedOut, SuppressAddress
<1>4. LookedUpIsLocked'
  BY OutboxAssumption DEF IInv, TypeOK, BusyOnRow, LookedUpIsLocked, Back, Cancelled,
      Committed, OptedOut, SuppressAddress, PickedIsLocked, Holding
<1>5. ClaimIsExclusive'
  BY OutboxAssumption DEF IInv, TypeOK, BusyOnRow, ClaimIsExclusive, Flying, Back,
      Cancelled, Committed, OptedOut, SuppressAddress
<1>6. SendIsGated'
  BY OutboxAssumption DEF IInv, TypeOK, BusyOnRow, SendIsGated, Back, Cancelled,
      Committed, OptedOut, SuppressAddress
<1>7. ReplyIsTrue'
  BY OutboxAssumption DEF IInv, TypeOK, BusyOnRow, ReplyIsTrue, Back, Cancelled,
      Committed, OptedOut, SuppressAddress
<1>8. RetryOnlyUndelivered'
  BY OutboxAssumption DEF IInv, TypeOK, BusyOnRow, RetryOnlyUndelivered, Back,
      Cancelled, Committed, OptedOut, SuppressAddress
<1>9. SentIsDelivered'
  BY OutboxAssumption DEF IInv, TypeOK, BusyOnRow, SentIsDelivered, Back, Cancelled,
      Committed, OptedOut, SuppressAddress
<1>10. DeskIsGated' /\ AtMostOnce'
  BY DEF IInv, AtMostOnce, DeskIsGated, SuppressAddress, bounds
<1>11. QED BY <1>1, <1>2, <1>3, <1>4, <1>5, <1>6, <1>7, <1>8, <1>9, <1>10 DEF IInv

LEMMA EscalateKeeps ==
    ASSUME IInv, NEW w0 \in Workers, Escalate(w0)
    PROVE  IInv'
<1>1. TypeOK'
  <2>1. party' \in [Recipients -> Party]
    BY OutboxAssumption, PartyTypes DEF IInv, TypeOK, Escalate
  <2>2. worker' \in [Workers -> WorkerState]
    BY WorkerTypes DEF IInv, TypeOK, Escalate, Steps, locks
  <2>3. QED
    BY <2>1, <2>2, OutboxAssumption DEF IInv, TypeOK, BusyOnRow, Escalate, bounds, locks
<1>2. BusyOnRow'
  BY OutboxAssumption DEF IInv, TypeOK, BusyOnRow, Escalate, Idle, locks
<1>3. PickedIsLocked'
  BY OutboxAssumption DEF IInv, TypeOK, BusyOnRow, Holding, PickedIsLocked, Escalate,
      Idle, locks
<1>4. LookedUpIsLocked'
  BY OutboxAssumption DEF IInv, TypeOK, BusyOnRow, LookedUpIsLocked, Escalate, Idle,
      locks
<1>5. ClaimIsExclusive'
  BY OutboxAssumption DEF IInv, TypeOK, BusyOnRow, ClaimIsExclusive, Flying, Escalate,
      Idle, locks
<1>6. SendIsGated'
  BY OutboxAssumption DEF IInv, TypeOK, BusyOnRow, SendIsGated, Escalate, Idle, locks
<1>7. ReplyIsTrue'
  BY OutboxAssumption DEF IInv, TypeOK, BusyOnRow, ReplyIsTrue, Escalate, Idle, locks
<1>8. /\ DeskIsGated' /\ AtMostOnce' /\ RetryOnlyUndelivered'
      /\ SentIsDelivered'
  BY DEF IInv, AtMostOnce, DeskIsGated, RetryOnlyUndelivered, SentIsDelivered, Escalate,
      bounds, locks
<1>9. QED BY <1>1, <1>2, <1>3, <1>4, <1>5, <1>6, <1>7, <1>8 DEF IInv

LEMMA ClaimKeeps ==
    ASSUME IInv, NEW w0 \in Workers, Claim(w0)
    PROVE  IInv'
<1>1. TypeOK'
  <2>1. outbox' \in [Msgs -> Row]
    <3>1. /\ outbox[RowOf(w0)] \in Row
          /\ outbox[RowOf(w0)].attempts < MaxAttempts
      BY DEF IInv, TypeOK, BusyOnRow, PickedIsLocked, Holding, Claim
    <3>2. outbox[RowOf(w0)].attempts + 1 \in 0..MaxAttempts
      BY <3>1, OutboxAssumption DEF Row
    <3>3. Claimed(outbox[RowOf(w0)]) \in Row
      BY <3>1, <3>2 DEF Row, DeliveryStatus, Claimed
    <3>4. QED BY <3>3 DEF IInv, TypeOK, Claim
  <2>2. party' \in [Recipients -> Party]
    BY OutboxAssumption, PartyTypes DEF IInv, TypeOK, Claim
  <2>3. worker' \in [Workers -> WorkerState]
    <3>1. Committed(w0, worker[w0].seen) \in Party
      BY PartyTypes DEF IInv, PickedIsLocked, Holding, Claim
    <3>2. [worker[w0] EXCEPT !.pc = "claimed", !.seen = Committed(w0, @)] \in WorkerState
      BY <3>1, WorkerTypes DEF IInv, TypeOK, Steps
    <3>3. QED BY <3>2 DEF IInv, TypeOK, Claim
  <2>4. QED
    BY <2>1, <2>2, <2>3, OutboxAssumption DEF IInv, TypeOK, BusyOnRow, Claim, bounds
<1>2. BusyOnRow'
  BY OutboxAssumption DEF IInv, TypeOK, BusyOnRow, Back, Claim, Claimed, Committed
<1>3. PickedIsLocked'
  BY OutboxAssumption DEF IInv, TypeOK, BusyOnRow, Holding, PickedIsLocked, Back, Claim,
      Claimed, Committed
<1>4. LookedUpIsLocked'
  BY OutboxAssumption DEF IInv, TypeOK, BusyOnRow, LookedUpIsLocked, Back, Claim,
      Claimed, Committed, PickedIsLocked, Holding
<1>5. ClaimIsExclusive'
  <2>1. Committed(w0, worker[w0].seen) \in Party
    BY PartyTypes DEF IInv, PickedIsLocked, Holding, Claim
  <2>2. /\ Holding(w0) /\ RowOf(w0) \in Msgs
        /\ \A v \in Workers : ~(Flying(v) /\ RowOf(v) = RowOf(w0))
    BY DEF IInv, BusyOnRow, PickedIsLocked, ClaimIsExclusive, Holding, Flying, Claim
  <2>3. QED
    BY <2>1, <2>2 DEF IInv, TypeOK, BusyOnRow, ClaimIsExclusive, Flying, Claim,
        Claimed, Row, WorkerState
<1>6. SendIsGated'
  BY OutboxAssumption DEF IInv, TypeOK, BusyOnRow, SendIsGated, Back, Claim, Claimed,
      Committed, PickedIsLocked, Holding, RetryOnlyUndelivered
<1>7. ReplyIsTrue'
  BY OutboxAssumption DEF IInv, TypeOK, BusyOnRow, ReplyIsTrue, Back, Claim, Claimed,
      Committed
<1>8. RetryOnlyUndelivered'
  BY OutboxAssumption DEF IInv, TypeOK, BusyOnRow, RetryOnlyUndelivered, Back, Claim,
      Claimed, Committed
<1>9. SentIsDelivered'
  BY OutboxAssumption DEF IInv, TypeOK, BusyOnRow, SentIsDelivered, Back, Claim,
      Claimed, Committed
<1>10. DeskIsGated' /\ AtMostOnce'
  BY DEF IInv, AtMostOnce, DeskIsGated, Claim, bounds
<1>11. QED BY <1>1, <1>2, <1>3, <1>4, <1>5, <1>6, <1>7, <1>8, <1>9, <1>10 DEF IInv

LEMMA GuardAbortsKeeps ==
    ASSUME IInv, NEW w0 \in Workers, GuardAborts(w0)
    PROVE  IInv'
<1>1. TypeOK'
  <2>1. worker' \in [Workers -> WorkerState]
    BY WorkerTypes DEF IInv, TypeOK, GuardAborts, Steps, locks
  <2>2. QED
    BY <2>1, OutboxAssumption DEF IInv, TypeOK, BusyOnRow, GuardAborts, bounds, locks
<1>2. BusyOnRow'
  BY OutboxAssumption DEF IInv, TypeOK, BusyOnRow, GuardAborts, Idle, StillClaimed,
      locks
<1>3. PickedIsLocked'
  BY OutboxAssumption DEF IInv, TypeOK, BusyOnRow, Holding, PickedIsLocked, GuardAborts,
      Idle, StillClaimed, locks
<1>4. LookedUpIsLocked'
  BY OutboxAssumption DEF IInv, TypeOK, BusyOnRow, LookedUpIsLocked, GuardAborts, Idle,
      StillClaimed, locks
<1>5. ClaimIsExclusive'
  BY OutboxAssumption DEF IInv, TypeOK, BusyOnRow, ClaimIsExclusive, Flying,
      GuardAborts, Idle, StillClaimed, locks
<1>6. SendIsGated'
  BY OutboxAssumption DEF IInv, TypeOK, BusyOnRow, SendIsGated, GuardAborts, Idle,
      StillClaimed, locks
<1>7. ReplyIsTrue'
  BY OutboxAssumption DEF IInv, TypeOK, BusyOnRow, ReplyIsTrue, GuardAborts, Idle,
      StillClaimed, locks
<1>8. /\ DeskIsGated' /\ AtMostOnce' /\ RetryOnlyUndelivered'
      /\ SentIsDelivered'
  BY DEF IInv, AtMostOnce, DeskIsGated, RetryOnlyUndelivered, SentIsDelivered,
      GuardAborts, bounds, locks
<1>9. QED BY <1>1, <1>2, <1>3, <1>4, <1>5, <1>6, <1>7, <1>8 DEF IInv

LEMMA GuardDefersKeeps ==
    ASSUME IInv, NEW w0 \in Workers, GuardDefers(w0)
    PROVE  IInv'
<1>1. TypeOK'
  <2>1. outbox' \in [Msgs -> Row]
    BY RowTypes DEF IInv, TypeOK, GuardDefers, DeliveryStatus
  <2>2. worker' \in [Workers -> WorkerState]
    BY WorkerTypes DEF IInv, TypeOK, GuardDefers, Steps, locks
  <2>3. QED
    BY <2>1, <2>2, OutboxAssumption DEF IInv, TypeOK, BusyOnRow, GuardDefers, Fault,
        locks
<1>2. BusyOnRow'
  BY OutboxAssumption DEF IInv, TypeOK, BusyOnRow, AddressBlocked, Deferred,
      GuardDefers, Idle, Refunded, StillClaimed, locks
<1>3. PickedIsLocked'
  BY OutboxAssumption DEF IInv, TypeOK, BusyOnRow, Holding, PickedIsLocked,
      AddressBlocked, Deferred, GuardDefers, Idle, Refunded, StillClaimed, locks
<1>4. LookedUpIsLocked'
  BY OutboxAssumption DEF IInv, TypeOK, BusyOnRow, LookedUpIsLocked, AddressBlocked,
      Deferred, GuardDefers, Idle, Refunded, StillClaimed, locks
<1>5. ClaimIsExclusive'
  BY OutboxAssumption DEF IInv, TypeOK, BusyOnRow, ClaimIsExclusive, Flying,
      AddressBlocked, Deferred, GuardDefers, Idle, Refunded, StillClaimed, locks
<1>6. SendIsGated'
  BY OutboxAssumption DEF IInv, TypeOK, BusyOnRow, SendIsGated, AddressBlocked,
      Deferred, GuardDefers, Idle, Refunded, StillClaimed, locks
<1>7. ReplyIsTrue'
  BY OutboxAssumption DEF IInv, TypeOK, BusyOnRow, ReplyIsTrue, AddressBlocked,
      Deferred, GuardDefers, Idle, Refunded, StillClaimed, locks
<1>8. RetryOnlyUndelivered'
  BY OutboxAssumption DEF IInv, TypeOK, BusyOnRow, RetryOnlyUndelivered, AddressBlocked,
      Deferred, GuardDefers, Idle, Refunded, StillClaimed, locks, SendIsGated
<1>9. SentIsDelivered'
  BY OutboxAssumption DEF IInv, TypeOK, BusyOnRow, SentIsDelivered, AddressBlocked,
      Deferred, GuardDefers, Idle, Refunded, StillClaimed, locks
<1>10. DeskIsGated' /\ AtMostOnce'
  BY DEF IInv, AtMostOnce, DeskIsGated, GuardDefers, locks
<1>11. QED BY <1>1, <1>2, <1>3, <1>4, <1>5, <1>6, <1>7, <1>8, <1>9, <1>10 DEF IInv

LEMMA GuardCancelsKeeps ==
    ASSUME IInv, NEW w0 \in Workers, GuardCancels(w0)
    PROVE  IInv'
<1>1. TypeOK'
  <2>1. outbox' \in [Msgs -> Row]
    BY RowTypes DEF IInv, TypeOK, GuardCancels, DeliveryStatus
  <2>2. worker' \in [Workers -> WorkerState]
    BY WorkerTypes DEF IInv, TypeOK, GuardCancels, Steps, locks
  <2>3. QED
    BY <2>1, <2>2, OutboxAssumption DEF IInv, TypeOK, BusyOnRow, GuardCancels, bounds,
        locks
<1>2. BusyOnRow'
  BY OutboxAssumption DEF IInv, TypeOK, BusyOnRow, AddressBlocked, Cancelled,
      GuardCancels, Idle, StillClaimed, locks
<1>3. PickedIsLocked'
  BY OutboxAssumption DEF IInv, TypeOK, BusyOnRow, Holding, PickedIsLocked,
      AddressBlocked, Cancelled, GuardCancels, Idle, StillClaimed, locks
<1>4. LookedUpIsLocked'
  BY OutboxAssumption DEF IInv, TypeOK, BusyOnRow, LookedUpIsLocked, AddressBlocked,
      Cancelled, GuardCancels, Idle, StillClaimed, locks
<1>5. ClaimIsExclusive'
  BY OutboxAssumption DEF IInv, TypeOK, BusyOnRow, ClaimIsExclusive, Flying,
      AddressBlocked, Cancelled, GuardCancels, Idle, StillClaimed, locks
<1>6. SendIsGated'
  BY OutboxAssumption DEF IInv, TypeOK, BusyOnRow, SendIsGated, AddressBlocked,
      Cancelled, GuardCancels, Idle, StillClaimed, locks
<1>7. ReplyIsTrue'
  BY OutboxAssumption DEF IInv, TypeOK, BusyOnRow, ReplyIsTrue, AddressBlocked,
      Cancelled, GuardCancels, Idle, StillClaimed, locks
<1>8. RetryOnlyUndelivered'
  BY OutboxAssumption DEF IInv, TypeOK, BusyOnRow, RetryOnlyUndelivered, AddressBlocked,
      Cancelled, GuardCancels, Idle, StillClaimed, locks
<1>9. SentIsDelivered'
  BY OutboxAssumption DEF IInv, TypeOK, BusyOnRow, SentIsDelivered, AddressBlocked,
      Cancelled, GuardCancels, Idle, StillClaimed, locks
<1>10. DeskIsGated' /\ AtMostOnce'
  BY DEF IInv, AtMostOnce, DeskIsGated, GuardCancels, bounds, locks
<1>11. QED BY <1>1, <1>2, <1>3, <1>4, <1>5, <1>6, <1>7, <1>8, <1>9, <1>10 DEF IInv

LEMMA GuardPassesKeeps ==
    ASSUME IInv, NEW w0 \in Workers, GuardPasses(w0)
    PROVE  IInv'
<1>1. TypeOK'
  <2>1. worker' \in [Workers -> WorkerState]
    BY WorkerTypes DEF IInv, TypeOK, GuardPasses, Steps
  <2>2. QED
    BY <2>1, OutboxAssumption DEF IInv, TypeOK, BusyOnRow, GuardPasses, bounds
<1>2. BusyOnRow'
  BY OutboxAssumption DEF IInv, TypeOK, BusyOnRow, AddressBlocked, GuardPasses,
      StillClaimed
<1>3. PickedIsLocked'
  BY OutboxAssumption DEF IInv, TypeOK, BusyOnRow, Holding, PickedIsLocked,
      AddressBlocked, GuardPasses, StillClaimed
<1>4. LookedUpIsLocked'
  BY OutboxAssumption DEF IInv, TypeOK, BusyOnRow, LookedUpIsLocked, AddressBlocked,
      GuardPasses, StillClaimed
<1>5. ClaimIsExclusive'
  BY OutboxAssumption DEF IInv, TypeOK, BusyOnRow, ClaimIsExclusive, Flying,
      AddressBlocked, GuardPasses, StillClaimed
<1>6. SendIsGated'
  BY OutboxAssumption DEF IInv, TypeOK, BusyOnRow, SendIsGated, AddressBlocked,
      GuardPasses, StillClaimed
<1>7. ReplyIsTrue'
  BY OutboxAssumption DEF IInv, TypeOK, BusyOnRow, ReplyIsTrue, AddressBlocked,
      GuardPasses, StillClaimed
<1>8. DeskIsGated'
  BY OutboxAssumption DEF IInv, TypeOK, BusyOnRow, DeskIsGated, AddressBlocked,
      GuardPasses, StillClaimed
<1>9. AtMostOnce' /\ RetryOnlyUndelivered' /\ SentIsDelivered'
  BY DEF IInv, AtMostOnce, RetryOnlyUndelivered, SentIsDelivered, GuardPasses, bounds
<1>10. QED BY <1>1, <1>2, <1>3, <1>4, <1>5, <1>6, <1>7, <1>8, <1>9 DEF IInv

LEMMA TransmitKeeps ==
    ASSUME IInv, NEW w0 \in Workers, Transmit(w0)
    PROVE  IInv'
<1>1. TypeOK'
  <2>1. worker' \in [Workers -> WorkerState]
    <3>1. PICK reply \in Replies :
             Goes(w0, [worker[w0] EXCEPT !.pc = "replied", !.note = reply])
      BY DEF Transmit
    <3>2. [worker[w0] EXCEPT !.pc = "replied", !.note = reply] \in WorkerState
      BY WorkerTypes DEF IInv, TypeOK, Steps
    <3>3. QED BY <3>1, <3>2 DEF IInv, TypeOK
  <2>2. QED
    BY <2>1, OutboxAssumption, AcceptedOnce DEF IInv, TypeOK, BusyOnRow, Transmit,
        Fault, locks
<1>2. BusyOnRow'
  BY OutboxAssumption DEF IInv, TypeOK, BusyOnRow, Accepted, Transmit, locks
<1>3. PickedIsLocked'
  BY OutboxAssumption DEF IInv, TypeOK, BusyOnRow, Holding, PickedIsLocked, Accepted,
      Transmit, locks
<1>4. LookedUpIsLocked'
  BY OutboxAssumption DEF IInv, TypeOK, BusyOnRow, LookedUpIsLocked, Accepted, Transmit,
      locks
<1>5. ClaimIsExclusive'
  BY OutboxAssumption DEF IInv, TypeOK, BusyOnRow, ClaimIsExclusive, Flying, Accepted,
      Transmit, locks
<1>6. SendIsGated'
  BY OutboxAssumption DEF IInv, TypeOK, BusyOnRow, SendIsGated, Accepted, Transmit,
      locks, ClaimIsExclusive, Flying
<1>7. ReplyIsTrue'
  BY OutboxAssumption DEF IInv, TypeOK, BusyOnRow, ReplyIsTrue, Accepted, Transmit,
      locks, SendIsGated
<1>8. AtMostOnce'
  BY OutboxAssumption DEF IInv, TypeOK, BusyOnRow, AtMostOnce, Accepted, Transmit,
      locks, SendIsGated
<1>9. RetryOnlyUndelivered'
  BY OutboxAssumption DEF IInv, TypeOK, BusyOnRow, RetryOnlyUndelivered, Accepted,
      Transmit, locks, ClaimIsExclusive, Flying
<1>10. SentIsDelivered'
  BY OutboxAssumption DEF IInv, TypeOK, BusyOnRow, SentIsDelivered, Accepted, Transmit,
      locks
<1>11. DeskIsGated'
  BY DEF IInv, DeskIsGated, Transmit, locks
<1>12. QED BY <1>1, <1>2, <1>3, <1>4, <1>5, <1>6, <1>7, <1>8, <1>9, <1>10, <1>11 DEF
    IInv

LEMMA RecordKeeps ==
    ASSUME IInv, NEW w0 \in Workers, Record(w0)
    PROVE  IInv'
<1>1. TypeOK'
  <2>1. outbox' \in [Msgs -> Row]
    <3>1. ReplyRecorded(outbox[RowOf(w0)], worker[w0].note) \in Row
      BY ReplyTypes DEF IInv, TypeOK, BusyOnRow, ReplyIsTrue, Record
    <3>2. QED BY <3>1 DEF IInv, TypeOK, Record
  <2>2. party' \in [Recipients -> Party]
    BY OutboxAssumption, PartyTypes DEF IInv, TypeOK, Record
  <2>3. worker' \in [Workers -> WorkerState]
    BY WorkerTypes DEF IInv, TypeOK, Record, Steps
  <2>4. QED
    BY <2>1, <2>2, <2>3, OutboxAssumption DEF IInv, TypeOK, BusyOnRow, Record, bounds
<1>2. BusyOnRow'
  BY OutboxAssumption DEF IInv, TypeOK, BusyOnRow, Cancelled, Deferred, HardBounced,
      Idle, Record, Refunded, ReplyRecorded
<1>3. PickedIsLocked'
  BY OutboxAssumption DEF IInv, TypeOK, BusyOnRow, Holding, PickedIsLocked, Cancelled,
      Deferred, HardBounced, Idle, Record, Refunded, ReplyRecorded
<1>4. LookedUpIsLocked'
  BY OutboxAssumption DEF IInv, TypeOK, BusyOnRow, LookedUpIsLocked, Cancelled,
      Deferred, HardBounced, Idle, Record, Refunded, ReplyRecorded
<1>5. ClaimIsExclusive'
  BY OutboxAssumption DEF IInv, TypeOK, BusyOnRow, ClaimIsExclusive, Flying, Cancelled,
      Deferred, HardBounced, Idle, Record, Refunded, ReplyRecorded
<1>6. SendIsGated'
  BY OutboxAssumption DEF IInv, TypeOK, BusyOnRow, SendIsGated, Cancelled, Deferred,
      HardBounced, Idle, Record, Refunded, ReplyRecorded
<1>7. ReplyIsTrue'
  BY OutboxAssumption DEF IInv, TypeOK, BusyOnRow, ReplyIsTrue, Cancelled, Deferred,
      HardBounced, Idle, Record, Refunded, ReplyRecorded
<1>8. DeskIsGated'
  BY OutboxAssumption DEF IInv, TypeOK, BusyOnRow, DeskIsGated, Cancelled, Deferred,
      HardBounced, Idle, Record, Refunded, ReplyRecorded, SendIsGated
<1>9. RetryOnlyUndelivered'
  <2>1. /\ RowOf(w0) \in Msgs /\ outbox[RowOf(w0)] \in Row
        /\ worker[w0].note \in Replies
    BY DEF IInv, TypeOK, BusyOnRow, ReplyIsTrue, Record
  <2>2. QED
    BY <2>1, ReplyStatus DEF IInv, TypeOK, ReplyIsTrue, RetryOnlyUndelivered, Record
<1>10. SentIsDelivered'
  <2>1. /\ RowOf(w0) \in Msgs /\ outbox[RowOf(w0)] \in Row
        /\ worker[w0].note \in Replies
    BY DEF IInv, TypeOK, BusyOnRow, ReplyIsTrue, Record
  <2>2. QED
    BY <2>1, ReplyStatus DEF IInv, TypeOK, ReplyIsTrue, SentIsDelivered, Record
<1>11. AtMostOnce'
  BY DEF IInv, AtMostOnce, Record, bounds
<1>12. QED BY <1>1, <1>2, <1>3, <1>4, <1>5, <1>6, <1>7, <1>8, <1>9, <1>10, <1>11 DEF
    IInv

LEMMA LookUpKeeps ==
    ASSUME IInv, NEW w0 \in Workers, LookUp(w0)
    PROVE  IInv'
<1>1. TypeOK'
  <2>1. worker' \in [Workers -> WorkerState]
    BY WorkerTypes DEF IInv, TypeOK, LookUp, Steps
  <2>2. QED
    BY <2>1, OutboxAssumption DEF IInv, TypeOK, BusyOnRow, LookUp, bounds
<1>2. BusyOnRow'
  BY OutboxAssumption DEF IInv, TypeOK, BusyOnRow, Idle, LookUp, Unreconciled
<1>3. PickedIsLocked'
  BY OutboxAssumption DEF IInv, TypeOK, BusyOnRow, Holding, PickedIsLocked, Idle,
      LookUp, Unreconciled
<1>4. LookedUpIsLocked'
  BY OutboxAssumption DEF IInv, TypeOK, BusyOnRow, LookedUpIsLocked, Idle, LookUp,
      Unreconciled
<1>5. ClaimIsExclusive'
  BY OutboxAssumption DEF IInv, TypeOK, BusyOnRow, ClaimIsExclusive, Flying, Idle,
      LookUp, Unreconciled
<1>6. SendIsGated'
  BY OutboxAssumption DEF IInv, TypeOK, BusyOnRow, SendIsGated, Idle, LookUp,
      Unreconciled
<1>7. ReplyIsTrue'
  BY OutboxAssumption DEF IInv, TypeOK, BusyOnRow, ReplyIsTrue, Idle, LookUp,
      Unreconciled
<1>8. /\ DeskIsGated' /\ AtMostOnce' /\ RetryOnlyUndelivered'
      /\ SentIsDelivered'
  BY DEF IInv, AtMostOnce, DeskIsGated, RetryOnlyUndelivered, SentIsDelivered, LookUp,
      bounds
<1>9. QED BY <1>1, <1>2, <1>3, <1>4, <1>5, <1>6, <1>7, <1>8 DEF IInv

LEMMA SettleKeeps ==
    ASSUME IInv, NEW w0 \in Workers, Settle(w0)
    PROVE  IInv'
<1>1. TypeOK'
  <2>1. outbox' \in [Msgs -> Row]
    <3>1. outbox[RowOf(w0)] \in Row
      BY DEF IInv, TypeOK, BusyOnRow, Settle
    <3>2. Reconciled(outbox[RowOf(w0)], delivered[RowOf(w0)] > 0) \in Row
      BY <3>1 DEF Row, DeliveryStatus, Reconciled
    <3>3. QED BY <3>2 DEF IInv, TypeOK, Settle
  <2>2. worker' \in [Workers -> WorkerState]
    BY WorkerTypes DEF IInv, TypeOK, Settle, Steps
  <2>3. QED
    BY <2>1, <2>2, OutboxAssumption DEF IInv, TypeOK, BusyOnRow, Settle, bounds
<1>2. BusyOnRow'
  BY OutboxAssumption DEF IInv, TypeOK, BusyOnRow, Idle, Reconciled, Settle
<1>3. PickedIsLocked'
  BY OutboxAssumption DEF IInv, TypeOK, BusyOnRow, Holding, PickedIsLocked, Idle,
      Reconciled, Settle, LookedUpIsLocked, ClaimIsExclusive, Flying
<1>4. LookedUpIsLocked'
  BY OutboxAssumption DEF IInv, TypeOK, BusyOnRow, LookedUpIsLocked, Idle, Reconciled,
      Settle
<1>5. ClaimIsExclusive'
  BY OutboxAssumption DEF IInv, TypeOK, BusyOnRow, ClaimIsExclusive, Flying, Idle,
      Reconciled, Settle, LookedUpIsLocked
<1>6. SendIsGated'
  BY OutboxAssumption DEF IInv, TypeOK, BusyOnRow, SendIsGated, Idle, Reconciled, Settle
<1>7. ReplyIsTrue'
  BY OutboxAssumption DEF IInv, TypeOK, BusyOnRow, ReplyIsTrue, Idle, Reconciled, Settle
<1>8. RetryOnlyUndelivered'
  BY OutboxAssumption DEF IInv, TypeOK, BusyOnRow, RetryOnlyUndelivered, Idle,
      Reconciled, Settle
<1>9. SentIsDelivered'
  BY OutboxAssumption DEF IInv, TypeOK, BusyOnRow, SentIsDelivered, Idle, Reconciled,
      Settle
<1>10. DeskIsGated' /\ AtMostOnce'
  BY DEF IInv, AtMostOnce, DeskIsGated, Settle, bounds
<1>11. QED BY <1>1, <1>2, <1>3, <1>4, <1>5, <1>6, <1>7, <1>8, <1>9, <1>10 DEF IInv

LEMMA LookupFailsKeeps ==
    ASSUME IInv, NEW w0 \in Workers, LookupFails(w0)
    PROVE  IInv'
<1>1. TypeOK'
  <2>1. outbox' \in [Msgs -> Row]
    BY RowTypes DEF IInv, TypeOK, LookupFails, DeliveryStatus
  <2>2. worker' \in [Workers -> WorkerState]
    BY WorkerTypes DEF IInv, TypeOK, LookupFails, Steps
  <2>3. QED
    BY <2>1, <2>2, OutboxAssumption DEF IInv, TypeOK, BusyOnRow, LookupFails, Fault
<1>2. BusyOnRow'
  BY OutboxAssumption DEF IInv, TypeOK, BusyOnRow, Idle, LookupFailed, LookupFails
<1>3. PickedIsLocked'
  BY OutboxAssumption DEF IInv, TypeOK, BusyOnRow, Holding, PickedIsLocked, Idle,
      LookupFailed, LookupFails, LookedUpIsLocked, ClaimIsExclusive, Flying
<1>4. LookedUpIsLocked'
  BY OutboxAssumption DEF IInv, TypeOK, BusyOnRow, LookedUpIsLocked, Idle, LookupFailed,
      LookupFails
<1>5. ClaimIsExclusive'
  BY OutboxAssumption DEF IInv, TypeOK, BusyOnRow, ClaimIsExclusive, Flying, Idle,
      LookupFailed, LookupFails
<1>6. SendIsGated'
  BY OutboxAssumption DEF IInv, TypeOK, BusyOnRow, SendIsGated, Idle, LookupFailed,
      LookupFails
<1>7. ReplyIsTrue'
  BY OutboxAssumption DEF IInv, TypeOK, BusyOnRow, ReplyIsTrue, Idle, LookupFailed,
      LookupFails
<1>8. RetryOnlyUndelivered'
  BY OutboxAssumption DEF IInv, TypeOK, BusyOnRow, RetryOnlyUndelivered, Idle,
      LookupFailed, LookupFails
<1>9. SentIsDelivered'
  BY OutboxAssumption DEF IInv, TypeOK, BusyOnRow, SentIsDelivered, Idle, LookupFailed,
      LookupFails
<1>10. DeskIsGated' /\ AtMostOnce'
  BY DEF IInv, AtMostOnce, DeskIsGated, LookupFails
<1>11. QED BY <1>1, <1>2, <1>3, <1>4, <1>5, <1>6, <1>7, <1>8, <1>9, <1>10 DEF IInv

LEMMA AbortWorkerKeeps ==
    ASSUME IInv, NEW w0 \in Workers, AbortWorker(w0)
    PROVE  IInv'
<1>1. TypeOK'
  <2>1. worker' \in [Workers -> WorkerState]
    BY WorkerTypes DEF IInv, TypeOK, AbortWorker, Steps
  <2>2. QED
    BY <2>1, OutboxAssumption DEF IInv, TypeOK, BusyOnRow, AbortWorker, bounds
<1>2. BusyOnRow'
  BY OutboxAssumption DEF IInv, TypeOK, BusyOnRow, AbortWorker, Idle
<1>3. PickedIsLocked'
  BY OutboxAssumption DEF IInv, TypeOK, BusyOnRow, Holding, PickedIsLocked, AbortWorker,
      Idle
<1>4. LookedUpIsLocked'
  BY OutboxAssumption DEF IInv, TypeOK, BusyOnRow, LookedUpIsLocked, AbortWorker, Idle,
      PickedIsLocked, Holding
<1>5. ClaimIsExclusive'
  BY OutboxAssumption DEF IInv, TypeOK, BusyOnRow, ClaimIsExclusive, Flying,
      AbortWorker, Idle
<1>6. SendIsGated'
  BY OutboxAssumption DEF IInv, TypeOK, BusyOnRow, SendIsGated, AbortWorker, Idle
<1>7. ReplyIsTrue'
  BY OutboxAssumption DEF IInv, TypeOK, BusyOnRow, ReplyIsTrue, AbortWorker, Idle
<1>8. /\ DeskIsGated' /\ AtMostOnce' /\ RetryOnlyUndelivered'
      /\ SentIsDelivered'
  BY DEF IInv, AtMostOnce, DeskIsGated, RetryOnlyUndelivered, SentIsDelivered,
      AbortWorker, bounds
<1>9. QED BY <1>1, <1>2, <1>3, <1>4, <1>5, <1>6, <1>7, <1>8 DEF IInv

LEMMA AgeLeaseKeeps ==
    ASSUME IInv, NEW m \in Msgs, AgeLease(m)
    PROVE  IInv'
<1>1. TypeOK'
  <2>1. outbox' \in [Msgs -> Row]
    BY RowTypes DEF IInv, TypeOK, AgeLease, DeliveryStatus
  <2>2. QED
    BY <2>1, OutboxAssumption DEF IInv, TypeOK, BusyOnRow, AgeLease, bounds, locks
<1>2. PickedIsLocked'
  BY OutboxAssumption DEF IInv, TypeOK, BusyOnRow, Holding, PickedIsLocked, AgeLease,
      InFlight, locks
<1>3. LookedUpIsLocked'
  BY OutboxAssumption DEF IInv, TypeOK, BusyOnRow, LookedUpIsLocked, AgeLease, InFlight,
      locks
<1>4. ClaimIsExclusive'
  BY OutboxAssumption DEF IInv, TypeOK, BusyOnRow, ClaimIsExclusive, Flying, AgeLease,
      InFlight, locks
<1>5. RetryOnlyUndelivered'
  BY OutboxAssumption DEF IInv, TypeOK, BusyOnRow, RetryOnlyUndelivered, AgeLease,
      InFlight, locks
<1>6. SentIsDelivered'
  BY OutboxAssumption DEF IInv, TypeOK, BusyOnRow, SentIsDelivered, AgeLease, InFlight,
      locks
<1>7. /\ BusyOnRow' /\ SendIsGated' /\ ReplyIsTrue'
      /\ DeskIsGated' /\ AtMostOnce'
  BY DEF IInv, AtMostOnce, BusyOnRow, DeskIsGated, ReplyIsTrue, SendIsGated, AgeLease,
      bounds, locks
<1>8. QED BY <1>1, <1>2, <1>3, <1>4, <1>5, <1>6, <1>7 DEF IInv

LEMMA BecomeDueKeeps ==
    ASSUME IInv, NEW m \in Msgs, BecomeDue(m)
    PROVE  IInv'
<1>1. TypeOK'
  <2>1. outbox' \in [Msgs -> Row]
    BY RowTypes DEF IInv, TypeOK, BecomeDue, DeliveryStatus
  <2>2. QED
    BY <2>1, OutboxAssumption DEF IInv, TypeOK, BusyOnRow, BecomeDue, bounds, locks
<1>2. PickedIsLocked'
  BY OutboxAssumption DEF IInv, TypeOK, BusyOnRow, Holding, PickedIsLocked, BecomeDue,
      locks
<1>3. LookedUpIsLocked'
  BY OutboxAssumption DEF IInv, TypeOK, BusyOnRow, LookedUpIsLocked, BecomeDue, locks
<1>4. ClaimIsExclusive'
  BY OutboxAssumption DEF IInv, TypeOK, BusyOnRow, ClaimIsExclusive, Flying, BecomeDue,
      locks
<1>5. RetryOnlyUndelivered'
  BY OutboxAssumption DEF IInv, TypeOK, BusyOnRow, RetryOnlyUndelivered, BecomeDue,
      locks
<1>6. SentIsDelivered'
  BY OutboxAssumption DEF IInv, TypeOK, BusyOnRow, SentIsDelivered, BecomeDue, locks
<1>7. /\ BusyOnRow' /\ SendIsGated' /\ ReplyIsTrue'
      /\ DeskIsGated' /\ AtMostOnce'
  BY DEF IInv, AtMostOnce, BusyOnRow, DeskIsGated, ReplyIsTrue, SendIsGated, BecomeDue,
      bounds, locks
<1>8. QED BY <1>1, <1>2, <1>3, <1>4, <1>5, <1>6, <1>7 DEF IInv

LEMMA LeaveEndsKeeps ==
    ASSUME IInv, NEW r \in Recipients, LeaveEnds(r)
    PROVE  IInv'
<1>1. TypeOK'
  <2>1. party' \in [Recipients -> Party]
    BY OutboxAssumption, PartyTypes DEF IInv, TypeOK, LeaveEnds
  <2>2. QED
    BY <2>1, OutboxAssumption DEF IInv, TypeOK, BusyOnRow, LeaveEnds, bounds, locks
<1>2. /\ BusyOnRow' /\ PickedIsLocked' /\ LookedUpIsLocked'
      /\ ClaimIsExclusive' /\ SendIsGated' /\ ReplyIsTrue' /\ DeskIsGated' /\ AtMostOnce' /\ RetryOnlyUndelivered' /\ SentIsDelivered'
  BY DEF IInv, AtMostOnce, BusyOnRow, ClaimIsExclusive, DeskIsGated, Flying, Holding,
      LookedUpIsLocked, PickedIsLocked, ReplyIsTrue, RetryOnlyUndelivered, SendIsGated,
      SentIsDelivered, LeaveEnds, bounds, locks
<1>3. QED BY <1>1, <1>2 DEF IInv

LEMMA CrashKeeps ==
    ASSUME IInv, NEW w0 \in Workers, Crash(w0)
    PROVE  IInv'
<1>1. TypeOK'
  <2>1. worker' \in [Workers -> WorkerState]
    BY WorkerTypes DEF IInv, TypeOK, Crash, Steps
  <2>2. QED
    BY <2>1, OutboxAssumption DEF IInv, TypeOK, BusyOnRow, Crash
<1>2. BusyOnRow'
  BY OutboxAssumption DEF IInv, TypeOK, BusyOnRow, Crash, Idle
<1>3. PickedIsLocked'
  BY OutboxAssumption DEF IInv, TypeOK, BusyOnRow, Holding, PickedIsLocked, Crash, Idle
<1>4. LookedUpIsLocked'
  BY OutboxAssumption DEF IInv, TypeOK, BusyOnRow, LookedUpIsLocked, Crash, Idle
<1>5. ClaimIsExclusive'
  BY OutboxAssumption DEF IInv, TypeOK, BusyOnRow, ClaimIsExclusive, Flying, Crash, Idle
<1>6. SendIsGated'
  BY OutboxAssumption DEF IInv, TypeOK, BusyOnRow, SendIsGated, Crash, Idle
<1>7. ReplyIsTrue'
  BY OutboxAssumption DEF IInv, TypeOK, BusyOnRow, ReplyIsTrue, Crash, Idle
<1>8. DeskIsGated'
  BY OutboxAssumption DEF IInv, TypeOK, BusyOnRow, DeskIsGated, Crash, Idle
<1>9. AtMostOnce' /\ RetryOnlyUndelivered' /\ SentIsDelivered'
  BY DEF IInv, AtMostOnce, RetryOnlyUndelivered, SentIsDelivered, Crash
<1>10. QED BY <1>1, <1>2, <1>3, <1>4, <1>5, <1>6, <1>7, <1>8, <1>9 DEF IInv

LEMMA BeginSuppressKeeps ==
    ASSUME IInv, NEW r \in Recipients, BeginSuppress(r)
    PROVE  IInv'
<1>1. TypeOK'
  <2>1. desk' \in DeskState
    BY DEF IInv, TypeOK, DeskState, NoRequest, BeginSuppress
  <2>2. QED
    BY <2>1, OutboxAssumption DEF IInv, TypeOK, BusyOnRow, BeginSuppress, Edit
<1>2. SendIsGated'
  BY OutboxAssumption DEF IInv, TypeOK, BusyOnRow, SendIsGated, BeginSuppress, NoRequest
<1>3. DeskIsGated'
  BY OutboxAssumption DEF IInv, TypeOK, BusyOnRow, DeskIsGated, BeginSuppress, NoRequest
<1>4. /\ BusyOnRow' /\ PickedIsLocked' /\ LookedUpIsLocked'
      /\ ClaimIsExclusive' /\ ReplyIsTrue' /\ AtMostOnce' /\ RetryOnlyUndelivered' /\ SentIsDelivered'
  BY DEF IInv, AtMostOnce, BusyOnRow, ClaimIsExclusive, Flying, Holding,
      LookedUpIsLocked, PickedIsLocked, ReplyIsTrue, RetryOnlyUndelivered,
      SentIsDelivered, BeginSuppress
<1>5. QED BY <1>1, <1>2, <1>3, <1>4 DEF IInv

LEMMA SuppressContactEndpointKeeps ==
    ASSUME IInv, SuppressContactEndpoint
    PROVE  IInv'
<1>1. TypeOK'
  <2>1. outbox' \in [Msgs -> Row]
    BY RowTypes DEF IInv, TypeOK, SuppressContactEndpoint, DeliveryStatus
  <2>2. party' \in [Recipients -> Party]
    BY OutboxAssumption, PartyTypes DEF IInv, TypeOK, SuppressContactEndpoint
  <2>3. desk' \in DeskState
    BY DEF IInv, TypeOK, DeskState, NoRequest, SuppressContactEndpoint
  <2>4. QED
    BY <2>1, <2>2, <2>3, OutboxAssumption DEF IInv, TypeOK, BusyOnRow,
        SuppressContactEndpoint, bounds
<1>2. PickedIsLocked'
  BY OutboxAssumption DEF IInv, TypeOK, BusyOnRow, Holding, PickedIsLocked, Cancelled,
      Finished, NoRequest, Rows, SuppressContactEndpoint
<1>3. LookedUpIsLocked'
  BY OutboxAssumption DEF IInv, TypeOK, BusyOnRow, LookedUpIsLocked, Cancelled,
      Finished, NoRequest, Rows, SuppressContactEndpoint
<1>4. ClaimIsExclusive'
  BY OutboxAssumption DEF IInv, TypeOK, BusyOnRow, ClaimIsExclusive, Flying, Cancelled,
      Finished, NoRequest, Rows, SuppressContactEndpoint
<1>5. SendIsGated'
  BY OutboxAssumption DEF IInv, TypeOK, BusyOnRow, SendIsGated, Cancelled, Finished,
      NoRequest, Rows, SuppressContactEndpoint, DeskIsGated
<1>6. DeskIsGated'
  BY OutboxAssumption DEF IInv, TypeOK, BusyOnRow, DeskIsGated, Cancelled, Finished,
      NoRequest, Rows, SuppressContactEndpoint
<1>7. RetryOnlyUndelivered'
  BY OutboxAssumption DEF IInv, TypeOK, BusyOnRow, RetryOnlyUndelivered, Cancelled,
      Finished, NoRequest, Rows, SuppressContactEndpoint
<1>8. SentIsDelivered'
  BY OutboxAssumption DEF IInv, TypeOK, BusyOnRow, SentIsDelivered, Cancelled, Finished,
      NoRequest, Rows, SuppressContactEndpoint
<1>9. BusyOnRow' /\ ReplyIsTrue' /\ AtMostOnce'
  BY DEF IInv, AtMostOnce, BusyOnRow, ReplyIsTrue, SuppressContactEndpoint, bounds
<1>10. QED BY <1>1, <1>2, <1>3, <1>4, <1>5, <1>6, <1>7, <1>8, <1>9 DEF IInv

LEMMA AbortSuppressKeeps ==
    ASSUME IInv, AbortSuppress
    PROVE  IInv'
<1>1. TypeOK'
  <2>1. desk' \in DeskState
    BY DEF IInv, TypeOK, DeskState, NoRequest, AbortSuppress
  <2>2. QED
    BY <2>1, OutboxAssumption DEF IInv, TypeOK, BusyOnRow, AbortSuppress, bounds
<1>2. SendIsGated'
  <2>1. desk.rcpt \in Recipients /\ gateLock[desk.rcpt] = Desk
    BY OutboxAssumption DEF IInv, TypeOK, BusyOnRow, DeskIsGated, AbortSuppress
  <2>2. \A w \in Workers : gateLock[To(w)] = w => To(w) # desk.rcpt
    BY <2>1, OutboxAssumption
  <2>3. QED
    BY <2>1, <2>2, OutboxAssumption DEF IInv, TypeOK, BusyOnRow, SendIsGated,
        AbortSuppress
<1>3. DeskIsGated'
  BY OutboxAssumption DEF IInv, TypeOK, BusyOnRow, DeskIsGated, AbortSuppress, NoRequest
<1>4. /\ BusyOnRow' /\ PickedIsLocked' /\ LookedUpIsLocked'
      /\ ClaimIsExclusive' /\ ReplyIsTrue' /\ AtMostOnce' /\ RetryOnlyUndelivered' /\ SentIsDelivered'
  BY DEF IInv, AtMostOnce, BusyOnRow, ClaimIsExclusive, Flying, Holding,
      LookedUpIsLocked, PickedIsLocked, ReplyIsTrue, RetryOnlyUndelivered,
      SentIsDelivered, AbortSuppress, bounds
<1>5. QED BY <1>1, <1>2, <1>3, <1>4 DEF IInv

LEMMA BeginWithdrawKeeps ==
    ASSUME IInv, NEW r \in Recipients, BeginWithdraw(r)
    PROVE  IInv'
<1>1. TypeOK'
  <2>1. desk' \in DeskState
    BY DEF IInv, TypeOK, DeskState, NoRequest, BeginWithdraw, Edit, Rows, locks,
        BusyOnRow, PickedIsLocked, ReplyIsTrue
  <2>2. QED
    BY <2>1, OutboxAssumption DEF IInv, TypeOK, BusyOnRow, BeginWithdraw, Edit, locks
<1>2. DeskIsGated'
  BY OutboxAssumption DEF IInv, TypeOK, BusyOnRow, DeskIsGated, BeginWithdraw,
      NoRequest, Rows, locks
<1>3. /\ BusyOnRow' /\ PickedIsLocked' /\ LookedUpIsLocked'
      /\ ClaimIsExclusive' /\ SendIsGated' /\ ReplyIsTrue' /\ AtMostOnce' /\ RetryOnlyUndelivered' /\ SentIsDelivered'
  BY DEF IInv, AtMostOnce, BusyOnRow, ClaimIsExclusive, Flying, Holding,
      LookedUpIsLocked, PickedIsLocked, ReplyIsTrue, RetryOnlyUndelivered, SendIsGated,
      SentIsDelivered, BeginWithdraw, locks
<1>4. QED BY <1>1, <1>2, <1>3 DEF IInv

LEMMA WithdrawKeeps ==
    ASSUME IInv, Withdraw
    PROVE  IInv'
<1>1. TypeOK'
  <2>1. outbox' \in [Msgs -> Row]
    BY RowTypes DEF IInv, TypeOK, Withdraw, DeliveryStatus
  <2>2. party' \in [Recipients -> Party]
    <3>1. desk.rcpt \in Recipients
      BY DEF IInv, DeskIsGated, Withdraw
    <3>2. PICK status \in {"PAUSED", "HELD"} :
             party' = [party EXCEPT ![desk.rcpt].case = status]
      BY DEF Withdraw
    <3>3. [party[desk.rcpt] EXCEPT !.case = status] \in Party
      BY <3>1, PartyTypes DEF IInv, TypeOK
    <3>4. QED BY <3>2, <3>3 DEF IInv, TypeOK
  <2>3. desk' \in DeskState
    BY DEF IInv, TypeOK, DeskState, NoRequest, Withdraw
  <2>4. QED
    BY <2>1, <2>2, <2>3, OutboxAssumption DEF IInv, TypeOK, BusyOnRow, Withdraw, bounds,
        locks
<1>2. PickedIsLocked'
  BY OutboxAssumption DEF IInv, TypeOK, BusyOnRow, Holding, PickedIsLocked, Cancelled,
      NoRequest, Withdraw, locks
<1>3. LookedUpIsLocked'
  BY OutboxAssumption DEF IInv, TypeOK, BusyOnRow, LookedUpIsLocked, Cancelled,
      NoRequest, Withdraw, locks
<1>4. ClaimIsExclusive'
  BY OutboxAssumption DEF IInv, TypeOK, BusyOnRow, ClaimIsExclusive, Flying, Cancelled,
      NoRequest, Withdraw, locks
<1>5. DeskIsGated'
  BY OutboxAssumption DEF IInv, TypeOK, BusyOnRow, DeskIsGated, Cancelled, NoRequest,
      Withdraw, locks
<1>6. RetryOnlyUndelivered'
  BY OutboxAssumption DEF IInv, TypeOK, BusyOnRow, RetryOnlyUndelivered, Cancelled,
      NoRequest, Withdraw, locks
<1>7. SentIsDelivered'
  BY OutboxAssumption DEF IInv, TypeOK, BusyOnRow, SentIsDelivered, Cancelled,
      NoRequest, Withdraw, locks
<1>8. /\ BusyOnRow' /\ SendIsGated' /\ ReplyIsTrue'
      /\ AtMostOnce'
  BY DEF IInv, AtMostOnce, BusyOnRow, ReplyIsTrue, SendIsGated, Withdraw, bounds, locks
<1>9. QED BY <1>1, <1>2, <1>3, <1>4, <1>5, <1>6, <1>7, <1>8 DEF IInv

LEMMA ResumeKeeps ==
    ASSUME IInv, NEW r \in Recipients, Resume(r)
    PROVE  IInv'
<1>1. TypeOK'
  <2>1. party' \in [Recipients -> Party]
    BY OutboxAssumption, PartyTypes DEF IInv, TypeOK, Resume
  <2>2. QED
    BY <2>1, OutboxAssumption DEF IInv, TypeOK, BusyOnRow, Resume, Edit, locks
<1>2. /\ BusyOnRow' /\ PickedIsLocked' /\ LookedUpIsLocked'
      /\ ClaimIsExclusive' /\ SendIsGated' /\ ReplyIsTrue' /\ DeskIsGated' /\ AtMostOnce' /\ RetryOnlyUndelivered' /\ SentIsDelivered'
  BY DEF IInv, AtMostOnce, BusyOnRow, ClaimIsExclusive, DeskIsGated, Flying, Holding,
      LookedUpIsLocked, PickedIsLocked, ReplyIsTrue, RetryOnlyUndelivered, SendIsGated,
      SentIsDelivered, Resume, locks
<1>3. QED BY <1>1, <1>2 DEF IInv

LEMMA BounceSuppressKeeps ==
    ASSUME IInv, NEW r \in Recipients, BounceSuppress(r)
    PROVE  IInv'
<1>1. TypeOK'
  <2>1. party' \in [Recipients -> Party]
    BY OutboxAssumption, PartyTypes DEF IInv, TypeOK, BounceSuppress
  <2>2. QED
    BY <2>1, OutboxAssumption DEF IInv, TypeOK, BusyOnRow, BounceSuppress, Edit, locks
<1>2. SendIsGated'
  BY OutboxAssumption DEF IInv, TypeOK, BusyOnRow, SendIsGated, BounceSuppress, locks
<1>3. /\ BusyOnRow' /\ PickedIsLocked' /\ LookedUpIsLocked'
      /\ ClaimIsExclusive' /\ ReplyIsTrue' /\ DeskIsGated' /\ AtMostOnce' /\ RetryOnlyUndelivered' /\ SentIsDelivered'
  BY DEF IInv, AtMostOnce, BusyOnRow, ClaimIsExclusive, DeskIsGated, Flying, Holding,
      LookedUpIsLocked, PickedIsLocked, ReplyIsTrue, RetryOnlyUndelivered,
      SentIsDelivered, BounceSuppress, locks
<1>4. QED BY <1>1, <1>2, <1>3 DEF IInv

LEMMA UnsubscribeKeeps ==
    ASSUME IInv, NEW r \in Recipients, Unsubscribe(r)
    PROVE  IInv'
<1>1. TypeOK'
  <2>1. party' \in [Recipients -> Party]
    BY OutboxAssumption, PartyTypes DEF IInv, TypeOK, Unsubscribe
  <2>2. QED
    BY <2>1, OutboxAssumption DEF IInv, TypeOK, BusyOnRow, Unsubscribe, Edit, locks
<1>2. /\ BusyOnRow' /\ PickedIsLocked' /\ LookedUpIsLocked'
      /\ ClaimIsExclusive' /\ SendIsGated' /\ ReplyIsTrue' /\ DeskIsGated' /\ AtMostOnce' /\ RetryOnlyUndelivered' /\ SentIsDelivered'
  BY DEF IInv, AtMostOnce, BusyOnRow, ClaimIsExclusive, DeskIsGated, Flying, Holding,
      LookedUpIsLocked, PickedIsLocked, ReplyIsTrue, RetryOnlyUndelivered, SendIsGated,
      SentIsDelivered, Unsubscribe, locks
<1>3. QED BY <1>1, <1>2 DEF IInv

LEMMA GoAwayKeeps ==
    ASSUME IInv, NEW r \in Recipients, GoAway(r)
    PROVE  IInv'
<1>1. TypeOK'
  <2>1. party' \in [Recipients -> Party]
    BY OutboxAssumption, PartyTypes DEF IInv, TypeOK, GoAway
  <2>2. QED
    BY <2>1, OutboxAssumption DEF IInv, TypeOK, BusyOnRow, GoAway, Edit, locks
<1>2. /\ BusyOnRow' /\ PickedIsLocked' /\ LookedUpIsLocked'
      /\ ClaimIsExclusive' /\ SendIsGated' /\ ReplyIsTrue' /\ DeskIsGated' /\ AtMostOnce' /\ RetryOnlyUndelivered' /\ SentIsDelivered'
  BY DEF IInv, AtMostOnce, BusyOnRow, ClaimIsExclusive, DeskIsGated, Flying, Holding,
      LookedUpIsLocked, PickedIsLocked, ReplyIsTrue, RetryOnlyUndelivered, SendIsGated,
      SentIsDelivered, GoAway, locks
<1>3. QED BY <1>1, <1>2 DEF IInv

-----------------------------------------------------------------------------
(* The invariant and what follows from it.                                 *)

LEMMA InitHolds == Init => IInv
BY OutboxAssumption DEF Init, IInv, TypeOK, BusyOnRow, PickedIsLocked, LookedUpIsLocked,
    ClaimIsExclusive, SendIsGated, ReplyIsTrue, DeskIsGated, AtMostOnce,
    RetryOnlyUndelivered, SentIsDelivered, Holding, Flying, Row, Party, WorkerState,
    DeskState, DeliveryStatus, Steps, Idle, NoRequest

LEMMA StepKeeps == IInv /\ [Next]_vars => IInv'
<1> SUFFICES ASSUME IInv, [Next]_vars PROVE IInv'
  OBVIOUS
<1>1. ASSUME NEW w \in Workers, WorkerStep(w) PROVE IInv'
  BY <1>1, GiveUpKeeps, RecoverClaimKeeps, PickKeeps, DeferKeeps, RefuseKeeps,
      GateStopsKeeps, GatePassesKeeps, BlockSuppressedKeeps, BlockNoMXKeeps,
      FindUndeliverableKeeps, SuppressDomainKeeps, SuppressAddressKeeps, EscalateKeeps,
      ClaimKeeps, GuardAbortsKeeps, GuardDefersKeeps, GuardCancelsKeeps,
      GuardPassesKeeps, TransmitKeeps, RecordKeeps, LookUpKeeps, SettleKeeps,
      LookupFailsKeeps, AbortWorkerKeeps DEF WorkerStep
<1>2. ASSUME NEW w \in Workers, Crash(w) PROVE IInv'
  BY <1>2, CrashKeeps
<1>3. ASSUME NEW m \in Msgs, AgeLease(m) \/ BecomeDue(m) PROVE IInv'
  BY <1>3, AgeLeaseKeeps, BecomeDueKeeps
<1>4. ASSUME NEW r \in Recipients, LeaveEnds(r) \/ EditStep(r) PROVE IInv'
  BY <1>4, LeaveEndsKeeps, BeginSuppressKeeps, BeginWithdrawKeeps, ResumeKeeps,
      BounceSuppressKeeps, UnsubscribeKeeps, GoAwayKeeps DEF EditStep
<1>5. CASE DeskStep
  BY <1>5, SuppressContactEndpointKeeps, AbortSuppressKeeps, WithdrawKeeps DEF DeskStep
<1>6. CASE UNCHANGED vars
  BY <1>6 DEF vars, locks, bounds, IInv, TypeOK, BusyOnRow, PickedIsLocked,
      LookedUpIsLocked, ClaimIsExclusive, SendIsGated, ReplyIsTrue, DeskIsGated,
      AtMostOnce, RetryOnlyUndelivered, SentIsDelivered, Holding, Flying
<1>7. QED BY <1>1, <1>2, <1>3, <1>4, <1>5, <1>6 DEF Next, Done

LEMMA InvariantHolds == Spec => []IInv
<1>1. QED BY InitHolds, StepKeeps, PTL DEF Spec

\* The state of the outbox keeps its types.
THEOREM TypeCorrect == Spec => []TypeOK
<1>1. IInv => TypeOK
  BY DEF IInv
<1>2. QED BY <1>1, InvariantHolds, PTL

\* The mail server never accepts a message twice.
THEOREM DeliveredAtMostOnce == Spec => []AtMostOnce
<1>1. IInv => AtMostOnce
  BY DEF IInv
<1>2. QED BY <1>1, InvariantHolds, PTL

\* A row open for another attempt has not been delivered, and a row marked SENT
\* has been.
THEOREM StatusIsTrue == Spec => [](RetryOnlyUndelivered /\ SentIsDelivered)
<1>1. IInv => RetryOnlyUndelivered /\ SentIsDelivered
  BY DEF IInv
<1>2. QED BY <1>1, InvariantHolds, PTL

-----------------------------------------------------------------------------
(* The outbox implements the promise of MailPromise.                       *)

\* Only Transmit hands a message to the server.
LEMMA OnlyTransmitDelivers ==
    ASSUME IInv, [Next]_vars, delivered' # delivered
    PROVE  \E w \in Workers : Transmit(w)
<1>1. ASSUME NEW w \in Workers, WorkerStep(w) PROVE Transmit(w)
  BY <1>1 DEF WorkerStep, GiveUp, RecoverClaim, Pick, Defer, Refuse, GateStops,
      GatePasses, BlockSuppressed, BlockNoMX, FindUndeliverable, SuppressDomain,
      SuppressAddress, Escalate, Claim, GuardAborts, GuardDefers, GuardCancels,
      GuardPasses, Record, LookUp, Settle, LookupFails, AbortWorker
<1>2. ASSUME NEW w \in Workers, Crash(w) PROVE FALSE
  BY <1>2 DEF Crash
<1>3. ASSUME NEW m \in Msgs, AgeLease(m) \/ BecomeDue(m) PROVE FALSE
  BY <1>3 DEF AgeLease, BecomeDue
<1>4. ASSUME NEW r \in Recipients, LeaveEnds(r) \/ EditStep(r) PROVE FALSE
  BY <1>4 DEF EditStep, LeaveEnds, BeginSuppress, BeginWithdraw, Resume, BounceSuppress,
      Unsubscribe, GoAway
<1>5. CASE DeskStep
  BY <1>5 DEF DeskStep, SuppressContactEndpoint, AbortSuppress, Withdraw
<1>6. CASE UNCHANGED vars
  BY <1>6 DEF vars
<1>7. QED BY <1>1, <1>2, <1>3, <1>4, <1>5, <1>6 DEF Next, Done

LEMMA TransmitAccepts ==
    ASSUME IInv, NEW w0 \in Workers, Transmit(w0), delivered' # delivered
    PROVE  Promise!Accept(RowOf(w0)) /\ RowOf(w0) \in Msgs
<1>1. /\ RowOf(w0) \in Msgs
      /\ delivered[RowOf(w0)] = 0 /\ ~suppressed[To(w0)]
  BY DEF IInv, BusyOnRow, SendIsGated, Transmit
<1>2. PICK copies \in {0, 1} : delivered' = [delivered EXCEPT ![RowOf(w0)] = @ + copies]
  <2>1. PICK reply \in Replies : \E copies \in Accepted(reply) :
           delivered' = [delivered EXCEPT ![RowOf(w0)] = @ + copies]
    BY DEF Transmit
  <2>2. QED BY <2>1, AcceptedOnce
<1>3. copies = 1
  <2>1. ASSUME copies = 0 PROVE delivered' = delivered
    <3>1. delivered' = [m \in Msgs |-> delivered[m]]
      BY <1>1, <1>2, <2>1 DEF IInv, TypeOK
    <3>2. QED BY <3>1 DEF IInv, TypeOK
  <2>2. QED BY <1>2, <2>1
<1>4. delivered' = [delivered EXCEPT ![RowOf(w0)] = 1]
  BY <1>1, <1>2, <1>3 DEF IInv, TypeOK
<1>5. suppressed' = suppressed
  BY DEF Transmit
<1>6. QED BY <1>1, <1>4, <1>5 DEF Promise!Accept

\* A step suppresses at most one address and lifts no suppression.
LEMMA SuppressionBlocks ==
    ASSUME IInv, [Next]_vars
    PROVE  \/ suppressed' = suppressed
           \/ \E r \in Recipients : suppressed' = [suppressed EXCEPT ![r] = TRUE]
<1> DEFINE Blocks == \/ suppressed' = suppressed
                     \/ \E r \in Recipients : suppressed' = [suppressed EXCEPT ![r] = TRUE]
<1>1. ASSUME NEW w \in Workers, WorkerStep(w) PROVE Blocks
  <2>1. RowOf(w) \in Msgs => To(w) \in Recipients
    BY OutboxAssumption
  <2>2. CASE SuppressDomain(w) \/ SuppressAddress(w)
    BY <2>1, <2>2 DEF SuppressDomain, SuppressAddress, IInv, BusyOnRow
  <2>3. CASE Record(w)
    <3>1. To(w) \in Recipients
      BY <2>1, <2>3 DEF IInv, BusyOnRow, Record
    <3>2. CASE worker[w].note = "hard"
      BY <2>3, <3>1, <3>2 DEF Record, IInv, TypeOK
    <3>3. CASE worker[w].note # "hard"
      BY <2>3, <3>1, <3>3 DEF Record, IInv, TypeOK
    <3>4. QED BY <3>2, <3>3
  <2>4. QED
    BY <1>1, <2>2, <2>3 DEF WorkerStep, GiveUp, RecoverClaim, Pick, Defer, Refuse,
        GateStops, GatePasses, BlockSuppressed, BlockNoMX, FindUndeliverable, Escalate,
        Claim, GuardAborts, GuardDefers, GuardCancels, GuardPasses, Transmit, LookUp,
        Settle, LookupFails, AbortWorker
<1>2. ASSUME NEW w \in Workers, Crash(w) PROVE Blocks
  BY <1>2 DEF Crash
<1>3. ASSUME NEW m \in Msgs, AgeLease(m) \/ BecomeDue(m) PROVE Blocks
  BY <1>3 DEF AgeLease, BecomeDue
<1>4. ASSUME NEW r \in Recipients, LeaveEnds(r) \/ EditStep(r) PROVE Blocks
  BY <1>4 DEF EditStep, LeaveEnds, BeginSuppress, BeginWithdraw, Resume, BounceSuppress,
      Unsubscribe, GoAway
<1>5. CASE DeskStep
  BY <1>5 DEF DeskStep, SuppressContactEndpoint, AbortSuppress, Withdraw, IInv,
      DeskIsGated
<1>6. CASE UNCHANGED vars
  BY <1>6 DEF vars
<1>7. QED BY <1>1, <1>2, <1>3, <1>4, <1>5, <1>6 DEF Next, Done

LEMMA StepImplements ==
    IInv /\ [Next]_vars => [Promise!PromiseNext]_(Promise!promised)
<1> SUFFICES ASSUME IInv, [Next]_vars
             PROVE  [Promise!PromiseNext]_(Promise!promised)
  OBVIOUS
<1>1. CASE delivered' # delivered
  <2>1. PICK w0 \in Workers : Transmit(w0)
    BY <1>1, OnlyTransmitDelivers
  <2>2. QED
    BY <1>1, <2>1, TransmitAccepts DEF Promise!PromiseNext
<1>2. CASE delivered' = delivered /\ suppressed' = suppressed
  BY <1>2 DEF Promise!promised
<1>3. CASE delivered' = delivered /\ suppressed' # suppressed
  <2>1. PICK r \in Recipients : suppressed' = [suppressed EXCEPT ![r] = TRUE]
    BY <1>3, SuppressionBlocks
  <2>2. ~suppressed[r]
    BY <1>3, <2>1 DEF IInv, TypeOK
  <2>3. QED
    BY <1>3, <2>1, <2>2 DEF Promise!PromiseNext, Promise!Block
<1>4. QED BY <1>1, <1>2, <1>3

\* To the outside the outbox delivers each message at most once, and none to
\* an address suppressed before.
THEOREM OutboxImplementsPromise == Spec => ImplementsPromise
<1>1. Init => Promise!PromiseInit
  BY DEF Init, Promise!PromiseInit
<1>2. QED
  BY <1>1, StepImplements, InvariantHolds, PTL DEF Spec, ImplementsPromise,
      Promise!PromiseSpec

\* The guard under the advisory lock: nothing is accepted for an address whose
\* suppression was committed before.
THEOREM SuppressionIsRespected == Spec => NoSendAfterSuppression
<1>1. ASSUME IInv, [Next]_vars
      PROVE  \A m \in Msgs : delivered'[m] # delivered[m] => ~suppressed[RecipientOf[m]]
  <2>1. SUFFICES ASSUME NEW m \in Msgs, delivered'[m] # delivered[m]
                 PROVE  ~suppressed[RecipientOf[m]]
    OBVIOUS
  <2>2. PICK w0 \in Workers : Transmit(w0)
    BY <1>1, <2>1, OnlyTransmitDelivers
  <2>3. RowOf(w0) = m
    BY <2>1, <2>2 DEF Transmit, IInv, TypeOK
  <2>4. QED
    BY <1>1, <2>2, <2>3 DEF IInv, SendIsGated, Transmit
<1>2. QED
  BY <1>1, InvariantHolds, PTL DEF Spec, NoSendAfterSuppression
=============================================================================
