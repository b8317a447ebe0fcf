--------------------------- MODULE OutboxDelivery ---------------------------
(***************************************************************************)
(* The durable outbox of app/delivery: workers that pick one row at a      *)
(* time, check it, claim it, re-check it under the per-recipient advisory  *)
(* lock, hand it to SMTP and record the outcome; the reconciliation of     *)
(* ambiguous rows against Gmail's Sent folder; and the writers that        *)
(* suppress an address or withdraw rows while this happens.                *)
(*                                                                         *)
(* One action is one database transaction, or one step of a transaction    *)
(* that holds a lock across an external call.  A crash loses what the      *)
(* transaction has not committed and frees its locks.  Only the SMTP       *)
(* transport is modelled: the file transport is the demo's.                *)
(*                                                                         *)
(* Every row has a case and every recipient one case, so the state of a    *)
(* case, its contact and its customer is one record per recipient; FORWARD *)
(* rows, which are sent without a case, are left out.                      *)
(***************************************************************************)
EXTENDS Integers, FiniteSets

CONSTANTS
    Workers,        \* worker processes (app/worker.py)
    Desk,           \* the API process, as the holder of a lock
    Msgs,           \* ids of the outbox rows, in creation order
    Recipients,     \* normalized recipient addresses
    RecipientOf,    \* [Msgs -> Recipients]
    HumanApproved,  \* rows that carry a complete human approval
    Bulk,           \* rows whose message_kind is REACTIVATION
    MaxAttempts,    \* the retry limit, 5 in the code
    MaxTroubles,    \* bound: crashes, failed lookups, rate limits and deferrals
    MaxEdits,       \* bound: requests and edits of the other writers
    None

ASSUME OutboxAssumption ==
    /\ Msgs \subseteq Nat
    /\ RecipientOf \in [Msgs -> Recipients]
    /\ HumanApproved \subseteq Msgs
    /\ Bulk \subseteq Msgs
    /\ MaxAttempts \in Nat \ {0}
    /\ MaxTroubles \in Nat
    /\ MaxEdits \in Nat
    /\ None \notin Workers \cup Msgs
    /\ Desk \notin Workers \cup {None}

VARIABLES
    outbox,      \* the committed rows of table outbox
    party,       \* the committed case, contact and customer of each recipient
    suppressed,  \* EmailAddressStatus.suppressed of each recipient
    handoffs,    \* rows whose delivery failure was handed to a human
    worker,      \* the step each worker is at, with what it remembers
    rowLock,     \* the transaction holding the row lock of each row
    gateLock,    \* the transaction holding the advisory lock of each recipient
    desk,        \* the API request in progress
    delivered,   \* copies of each message the mail server has accepted
    crashes, faults, edits

locks == <<rowLock, gateLock>>
bounds == <<crashes, faults, edits>>
vars == <<outbox, party, suppressed, handoffs, worker, locks, desk, delivered,
          bounds>>

-----------------------------------------------------------------------------
DeliveryStatus == {"PENDING", "CLAIMED", "SENT", "FAILED", "UNKNOWN", "CANCELLED"}

\* due: available_at has passed.  aged: locked_at is older than the lease.
Row == [status : DeliveryStatus, attempts : 0..MaxAttempts,
        due : BOOLEAN, aged : BOOLEAN]

\* HELD stands for WAITING_HUMAN and HUMAN_TAKEOVER, which the gates treat
\* alike; no code under src/ closes a case.  life is Contact.lifecycle_status,
\* DUE being TEMPORARILY_UNAVAILABLE with unavailable_until in the past.
Party == [optOut : BOOLEAN, life : {"ACTIVE", "AWAY", "DUE"},
          case : {"ACTIVE", "HELD", "PAUSED"}]

\* What transport.send returns or raises.
Replies == {"ok", "ambiguous", "rate", "hard", "soft"}

\* What recipient_preflight finds besides an address already suppressed.
Verdicts == {"ALLOW", "DEFER", "NO_MX", "NO_DOMAIN", "BAD_FORMAT"}

Steps == {"idle", "picked", "gated", "suppressing", "escalating", "claimed",
          "sending", "replied", "looking"}

WorkerState == [pc : Steps, msg : Msgs \cup {None}, seen : Party \cup {None},
                note : Replies \cup Verdicts \cup {None}]

Idle == [pc |-> "idle", msg |-> None, seen |-> None, note |-> None]

DeskState == [kind : {"none", "suppress", "withdraw"},
              rcpt : Recipients \cup {None}, rows : SUBSET Msgs]

NoRequest == [kind |-> "none", rcpt |-> None, rows |-> {}]

Init ==
    /\ outbox = [m \in Msgs |-> [status |-> "PENDING", attempts |-> 0,
                                 due |-> TRUE, aged |-> FALSE]]
    /\ party = [r \in Recipients |-> [optOut |-> FALSE, life |-> "ACTIVE",
                                      case |-> "ACTIVE"]]
    /\ suppressed = [r \in Recipients |-> FALSE]
    /\ handoffs = {}
    /\ worker = [w \in Workers |-> Idle]
    /\ rowLock = [m \in Msgs |-> None]
    /\ gateLock = [r \in Recipients |-> None]
    /\ desk = NoRequest
    /\ delivered = [m \in Msgs |-> 0]
    /\ crashes = 0 /\ faults = 0 /\ edits = 0

-----------------------------------------------------------------------------
(* Reading and writing one row.                                            *)

At(w, step) == worker[w].pc = step
RowOf(w) == worker[w].msg
To(w) == RecipientOf[worker[w].msg]

Goes(w, state) == worker' = [worker EXCEPT ![w] = state]
MovesTo(w, step) == Goes(w, [worker[w] EXCEPT !.pc = step])
Released(lock, w) == [x \in DOMAIN lock |-> IF lock[x] = w THEN None ELSE lock[x]]
FreesRows(w) == rowLock' = Released(rowLock, w)
FreesGate(r) == gateLock' = [gateLock EXCEPT ![r] = None]

Trouble == crashes + faults < MaxTroubles
Fault == Trouble /\ faults' = faults + 1

Cancelled(row) == [row EXCEPT !.status = "CANCELLED"]
Deferred(row) == [row EXCEPT !.status = "PENDING", !.due = FALSE]

\* max(0, attempts - 1): the deferral does not use up a retry.
Refunded(row) == [row EXCEPT !.attempts = IF @ = 0 THEN 0 ELSE @ - 1]

Finished(m) == outbox[m].status \in {"SENT", "CANCELLED"}

-----------------------------------------------------------------------------
(* Picking a row: send_one_outbox up to its first commit.                  *)

StaleClaim(m) == outbox[m].status = "CLAIMED" /\ outbox[m].aged

Available(m) ==
    /\ outbox[m].due
    /\ outbox[m].status \in {"PENDING", "FAILED"} \/ StaleClaim(m)
    /\ rowLock[m] = None                          \* SKIP LOCKED

\* Bulk reactivation mail comes after everything else, then the order of ids.
Before(m, n) == \/ m \notin Bulk /\ n \in Bulk
                \/ (m \in Bulk <=> n \in Bulk) /\ m < n

First(m) == Available(m) /\ \A n \in Msgs : Available(n) => ~Before(n, m)

\* Mutant: one attempt too many.
ExhaustedLate(m) == outbox[m].attempts > MaxAttempts

Exhausted(m) == outbox[m].attempts >= MaxAttempts

\* Mutant: the worker returns after the cancellation.
GivenUpSilently(m) == Idle

\* What the worker does after it has cancelled a row as exhausted.
GivenUp(m) == [Idle EXCEPT !.pc = "escalating", !.msg = m]

GiveUp(w) ==
    \E m \in Msgs :
        /\ At(w, "idle") /\ First(m) /\ Exhausted(m)
        /\ outbox' = [outbox EXCEPT ![m] = Cancelled(@)]
        /\ Goes(w, GivenUp(m))
        /\ UNCHANGED <<party, suppressed, handoffs, locks, desk, delivered, bounds>>

RecoverClaim(w) ==
    \E m \in Msgs :
        /\ At(w, "idle") /\ First(m) /\ ~Exhausted(m) /\ StaleClaim(m)
        /\ outbox' = [outbox EXCEPT ![m].status = "UNKNOWN"]
        /\ UNCHANGED <<party, suppressed, handoffs, worker, locks, desk, delivered,
                       bounds>>

\* The query has no LIMIT: it locks every row it finds, up to the next commit.
Pick(w) ==
    \E m \in Msgs :
        /\ At(w, "idle") /\ First(m) /\ ~Exhausted(m) /\ ~StaleClaim(m)
        /\ rowLock' = [n \in Msgs |-> IF Available(n) THEN w ELSE rowLock[n]]
        /\ Goes(w, [Idle EXCEPT !.pc = "picked", !.msg = m])
        /\ UNCHANGED <<outbox, party, suppressed, handoffs, gateLock, desk, delivered,
                       bounds>>

-----------------------------------------------------------------------------
(* The checks before the claim, under the row lock.                        *)

\* _case_outbound_gate on what the worker's session holds of the case.
CaseOutboundGate(p, m) ==
    CASE p.optOut -> "BLOCK"
      [] ~p.optOut /\ m \in HumanApproved -> "PASS"
      [] OTHER -> IF p.life = "AWAY" THEN "DEFER"
                  ELSE IF p.case # "ACTIVE" THEN "BLOCK" ELSE "PASS"

\* The gate ends a leave whose time is over; the write goes out with the
\* next commit of the transaction.
Back(p) == [p EXCEPT !.life = "ACTIVE"]

EndsLeave(p, m) == m \notin HumanApproved /\ ~p.optOut /\ p.life = "DUE"

Committed(w, p) ==
    IF worker[w].seen # None /\ EndsLeave(worker[w].seen, RowOf(w)) THEN Back(p) ELSE p

\* case.status = PAUSED on a case loaded with status `loaded`: the session
\* writes the column only if the assignment changes what it loaded.
PausedFrom(loaded, p) ==
    IF loaded = "PAUSED" THEN p ELSE [p EXCEPT !.case = "PAUSED"]

\* The mailbox cooldown, the campaign guard, the business-day and commercial
\* gates, a temporary DNS failure and the pacing limits defer the row.
Defer(w) ==
    LET m == RowOf(w) IN
    /\ At(w, "picked") \/ At(w, "gated")
    /\ Fault
    /\ outbox' = [outbox EXCEPT ![m] = Deferred(@)]
    /\ party' = [party EXCEPT ![To(w)] = Committed(w, @)]
    /\ FreesRows(w) /\ Goes(w, Idle)
    /\ UNCHANGED <<suppressed, handoffs, gateLock, desk, delivered, crashes, edits>>

\* The referral, campaign and commercial gates, the SAFE_MODE allowlist and
\* AUTO_SEND_ENABLED cancel it.
Refuse(w) ==
    LET m == RowOf(w) IN
    /\ At(w, "picked") \/ At(w, "gated")
    /\ outbox' = [outbox EXCEPT ![m] = Cancelled(@)]
    /\ party' = [party EXCEPT ![To(w)] = Committed(w, @)]
    /\ FreesRows(w) /\ Goes(w, Idle)
    /\ UNCHANGED <<suppressed, handoffs, gateLock, desk, delivered, bounds>>

GateStops(w) ==
    LET m == RowOf(w)
        action == CaseOutboundGate(party[To(w)], m)
    IN
    /\ At(w, "picked")
    /\ action # "PASS"
    /\ outbox' = [outbox EXCEPT ![m] = IF action = "DEFER" THEN Deferred(@)
                                       ELSE Cancelled(@)]
    /\ party' = IF EndsLeave(party[To(w)], m) THEN [party EXCEPT ![To(w)] = Back(@)]
                ELSE party
    /\ FreesRows(w) /\ Goes(w, Idle)
    /\ UNCHANGED <<suppressed, handoffs, gateLock, desk, delivered, bounds>>

GatePasses(w) ==
    /\ At(w, "picked")
    /\ CaseOutboundGate(party[To(w)], RowOf(w)) = "PASS"
    /\ Goes(w, [worker[w] EXCEPT !.pc = "gated", !.seen = party[To(w)]])
    /\ UNCHANGED <<outbox, party, suppressed, handoffs, locks, desk, delivered, bounds>>

\* recipient_preflight: an address suppressed before.
BlockSuppressed(w) ==
    LET m == RowOf(w) IN
    /\ At(w, "gated")
    /\ suppressed[To(w)]
    /\ outbox' = [outbox EXCEPT ![m] = Cancelled(@)]
    /\ party' = [party EXCEPT ![To(w)] =
                    PausedFrom(worker[w].seen.case, Committed(w, @))]
    /\ FreesRows(w) /\ Goes(w, Idle)
    /\ UNCHANGED <<suppressed, handoffs, gateLock, desk, delivered, bounds>>

\* A domain without MX record blocks the row and leaves the address to a human.
BlockNoMX(w) ==
    LET m == RowOf(w) IN
    /\ At(w, "gated")
    /\ ~suppressed[To(w)]
    /\ outbox' = [outbox EXCEPT ![m] = Cancelled(@)]
    /\ party' = [party EXCEPT ![To(w)] = Committed(w, @)]
    /\ FreesRows(w) /\ MovesTo(w, "escalating")
    /\ UNCHANGED <<suppressed, handoffs, gateLock, desk, delivered, bounds>>

\* A malformed address or a domain that takes no mail is suppressed by the
\* worker itself, which asks for the advisory lock while it holds the row.
FindUndeliverable(w) ==
    /\ At(w, "gated")
    /\ ~suppressed[To(w)]
    /\ \E verdict \in {"NO_DOMAIN", "BAD_FORMAT"} :
          Goes(w, [worker[w] EXCEPT !.pc = "suppressing", !.note = verdict])
    /\ UNCHANGED <<outbox, party, suppressed, handoffs, locks, desk, delivered, bounds>>

OptedOut(p) == [p EXCEPT !.optOut = TRUE]

SuppressDomain(w) ==
    LET m == RowOf(w) IN
    /\ At(w, "suppressing") /\ worker[w].note = "NO_DOMAIN"
    /\ gateLock[To(w)] = None
    /\ suppressed' = [suppressed EXCEPT ![To(w)] = TRUE]
    /\ outbox' = [outbox EXCEPT ![m] = Cancelled(@)]
    /\ party' = [party EXCEPT ![To(w)] =
                    PausedFrom(worker[w].seen.case, OptedOut(Committed(w, @)))]
    /\ FreesRows(w) /\ Goes(w, Idle)
    /\ UNCHANGED <<handoffs, gateLock, desk, delivered, bounds>>

SuppressAddress(w) ==
    LET m == RowOf(w) IN
    /\ At(w, "suppressing") /\ worker[w].note = "BAD_FORMAT"
    /\ gateLock[To(w)] = None
    /\ suppressed' = [suppressed EXCEPT ![To(w)] = TRUE]
    /\ outbox' = [outbox EXCEPT ![m] = Cancelled(@)]
    /\ party' = [party EXCEPT ![To(w)] = OptedOut(Committed(w, @))]
    /\ FreesRows(w) /\ MovesTo(w, "escalating")
    /\ UNCHANGED <<handoffs, gateLock, desk, delivered, bounds>>

\* create_handoff for a row already cancelled, in a transaction of its own.
\* After the preflight the case is the one loaded before it.
Escalate(w) ==
    LET loaded == IF worker[w].seen = None THEN party[To(w)].case
                  ELSE worker[w].seen.case
    IN
    /\ At(w, "escalating")
    /\ handoffs' = handoffs \cup {RowOf(w)}
    /\ party' = IF loaded = "ACTIVE" THEN [party EXCEPT ![To(w)].case = "HELD"]
                ELSE party
    /\ Goes(w, Idle)
    /\ UNCHANGED <<outbox, suppressed, locks, desk, delivered, bounds>>

-----------------------------------------------------------------------------
(* The claim, the guard under the advisory lock, the send and its record.  *)

Claimed(row) == [row EXCEPT !.status = "CLAIMED", !.attempts = @ + 1, !.aged = FALSE]

Claim(w) ==
    LET m == RowOf(w) IN
    /\ At(w, "gated")
    /\ ~suppressed[To(w)]
    /\ outbox' = [outbox EXCEPT ![m] = Claimed(@)]
    /\ party' = [party EXCEPT ![To(w)] = Committed(w, @)]
    /\ FreesRows(w)
    /\ Goes(w, [worker[w] EXCEPT !.pc = "claimed", !.seen = Committed(w, @)])
    /\ UNCHANGED <<suppressed, handoffs, gateLock, desk, delivered, bounds>>

\* _final_recipient_delivery_guard reads the row and the address afresh, but its second
\* case gate gets the case, contact and customer that the session already holds: their
\* columns are not loaded again.
StillClaimed(w) == At(w, "claimed") /\ gateLock[To(w)] = None

Recheck(w) == CaseOutboundGate(worker[w].seen, RowOf(w))

AddressBlocked(w) == suppressed[To(w)]

GuardAborts(w) ==
    /\ StillClaimed(w)
    /\ outbox[RowOf(w)].status # "CLAIMED"
    /\ Goes(w, Idle)
    /\ UNCHANGED <<outbox, party, suppressed, handoffs, locks, desk, delivered, bounds>>

GuardDefers(w) ==
    LET m == RowOf(w) IN
    /\ StillClaimed(w)
    /\ outbox[m].status = "CLAIMED"
    /\ rowLock[m] = None
    /\ ~AddressBlocked(w) /\ m \in Bulk /\ Fault
    /\ outbox' = [outbox EXCEPT ![m] = Refunded(Deferred(@))]
    /\ Goes(w, Idle)
    /\ UNCHANGED <<party, suppressed, handoffs, locks, desk, delivered, crashes, edits>>

\* Campaign and referral rows also face their own checks again.
GuardCancels(w) ==
    LET m == RowOf(w) IN
    /\ StillClaimed(w)
    /\ outbox[m].status = "CLAIMED"
    /\ rowLock[m] = None
    /\ \/ Recheck(w) # "PASS" \/ AddressBlocked(w)
       \/ m \in Bulk \/ m \notin HumanApproved
    /\ outbox' = [outbox EXCEPT ![m] = Cancelled(@)]
    /\ Goes(w, Idle)
    /\ UNCHANGED <<party, suppressed, handoffs, locks, desk, delivered, bounds>>

GuardPasses(w) ==
    /\ StillClaimed(w)
    /\ outbox[RowOf(w)].status = "CLAIMED"
    /\ Recheck(w) = "PASS"
    /\ ~AddressBlocked(w)
    /\ gateLock' = [gateLock EXCEPT ![To(w)] = w]
    /\ MovesTo(w, "sending")
    /\ UNCHANGED <<outbox, party, suppressed, handoffs, rowLock, desk, delivered,
                   bounds>>

\* SMTPTransport.send.  After an ambiguous failure the server has the message
\* or has not.
Accepted(reply) ==
    CASE reply = "ok" -> {1} [] reply = "ambiguous" -> {0, 1} [] OTHER -> {0}

Transmit(w) ==
    /\ At(w, "sending")
    /\ \E reply \in Replies :
          /\ Goes(w, [worker[w] EXCEPT !.pc = "replied", !.note = reply])
          /\ IF reply = "rate" THEN Fault ELSE UNCHANGED faults
          /\ \E copies \in Accepted(reply) :
                delivered' = [delivered EXCEPT ![RowOf(w)] = @ + copies]
    /\ UNCHANGED <<outbox, party, suppressed, handoffs, locks, desk, crashes, edits>>

\* Mutant: a connection lost in the middle counts as a failure to send.
AmbiguousRetried(row, reply) ==
    CASE reply = "ok"        -> [row EXCEPT !.status = "SENT"]
      [] reply \in {"ambiguous", "soft"} -> [row EXCEPT !.status = "FAILED", !.due = FALSE]
      [] reply = "rate"      -> Refunded(Deferred(row))
      [] reply = "hard"      -> Cancelled(row)

ReplyRecorded(row, reply) ==
    CASE reply = "ok"        -> [row EXCEPT !.status = "SENT"]
      [] reply = "ambiguous" -> [row EXCEPT !.status = "UNKNOWN"]
      [] reply = "rate"      -> Refunded(Deferred(row))
      [] reply = "hard"      -> Cancelled(row)
      [] reply = "soft"      -> [row EXCEPT !.status = "FAILED", !.due = FALSE]

HardBounced(loaded, p) ==
    [p EXCEPT !.optOut = TRUE, !.case = IF loaded = "ACTIVE" THEN "PAUSED" ELSE @]

\* The commit after the send writes the row by its id, whatever it holds now.
\* A hard failure also suppresses the address, whose lock the worker has.
Record(w) ==
    LET m == RowOf(w)
        hard == worker[w].note = "hard"
    IN
    /\ At(w, "replied")
    /\ rowLock[m] = None
    /\ outbox' = [outbox EXCEPT ![m] = ReplyRecorded(@, worker[w].note)]
    /\ suppressed' = [suppressed EXCEPT ![To(w)] = @ \/ hard]
    /\ party' = IF hard THEN [party EXCEPT ![To(w)] = HardBounced(worker[w].seen.case, @)]
                ELSE party
    /\ FreesGate(To(w)) /\ Goes(w, Idle)
    /\ UNCHANGED <<handoffs, rowLock, desk, delivered, bounds>>

-----------------------------------------------------------------------------
(* reconcile_unknown_outbox: every row found stays locked during the IMAP   *)
(* search for the first one.                                               *)

Unreconciled(m) ==
    outbox[m].status = "UNKNOWN" /\ outbox[m].aged /\ rowLock[m] = None

LookUp(w) ==
    \E m \in Msgs :
        /\ At(w, "idle")
        /\ Unreconciled(m) /\ \A n \in Msgs : Unreconciled(n) => m <= n
        /\ rowLock' = [n \in Msgs |-> IF Unreconciled(n) THEN w ELSE rowLock[n]]
        /\ Goes(w, [Idle EXCEPT !.pc = "looking", !.msg = m])
        /\ UNCHANGED <<outbox, party, suppressed, handoffs, gateLock, desk, delivered,
                       bounds>>

\* Mutants: an ambiguous row is taken for sent; a row not found stays UNKNOWN.
ReconciledUnchecked(row, found) == [row EXCEPT !.status = "SENT"]
ReconciledOrLeft(row, found) ==
    IF found THEN [row EXCEPT !.status = "SENT"] ELSE [row EXCEPT !.aged = FALSE]

Reconciled(row, found) ==
    IF found THEN [row EXCEPT !.status = "SENT"]
    ELSE [row EXCEPT !.status = "FAILED", !.due = TRUE]

Settle(w) ==
    LET m == RowOf(w) IN
    /\ At(w, "looking")
    /\ outbox' = [outbox EXCEPT ![m] = Reconciled(@, delivered[m] > 0)]
    /\ FreesRows(w) /\ Goes(w, Idle)
    /\ UNCHANGED <<party, suppressed, handoffs, gateLock, desk, delivered, bounds>>

\* The search failed: the row stays UNKNOWN for another ten minutes.
LookupFailed(row) == [row EXCEPT !.aged = FALSE]

LookupFails(w) ==
    LET m == RowOf(w) IN
    /\ At(w, "looking")
    /\ Fault
    /\ outbox' = [outbox EXCEPT ![m] = LookupFailed(@)]
    /\ FreesRows(w) /\ Goes(w, Idle)
    /\ UNCHANGED <<party, suppressed, handoffs, gateLock, desk, delivered, crashes,
                   edits>>

-----------------------------------------------------------------------------
(* Time and failures.                                                      *)

InFlight(w, m) == RowOf(w) = m /\ worker[w].pc \in {"claimed", "sending", "replied"}

\* The ten minutes of a lease are longer than a send takes.
AgeLease(m) ==
    /\ outbox[m].status \in {"CLAIMED", "UNKNOWN"} /\ ~outbox[m].aged
    /\ \A w \in Workers : ~InFlight(w, m)
    /\ outbox' = [outbox EXCEPT ![m].aged = TRUE]
    /\ UNCHANGED <<party, suppressed, handoffs, worker, locks, desk, delivered, bounds>>

BecomeDue(m) ==
    /\ ~outbox[m].due
    /\ outbox' = [outbox EXCEPT ![m].due = TRUE]
    /\ UNCHANGED <<party, suppressed, handoffs, worker, locks, desk, delivered, bounds>>

LeaveEnds(r) ==
    /\ party[r].life = "AWAY"
    /\ party' = [party EXCEPT ![r].life = "DUE"]
    /\ UNCHANGED <<outbox, suppressed, handoffs, worker, locks, desk, delivered, bounds>>

Crash(w) ==
    /\ ~At(w, "idle") /\ Trouble
    /\ crashes' = crashes + 1
    /\ Goes(w, Idle)
    /\ rowLock' = Released(rowLock, w) /\ gateLock' = Released(gateLock, w)
    /\ UNCHANGED <<outbox, party, suppressed, handoffs, desk, delivered, faults, edits>>

-----------------------------------------------------------------------------
(* The other writers of the rows, the cases and the addresses.             *)

Edit == edits < MaxEdits /\ edits' = edits + 1

Rows(r) == {m \in Msgs : RecipientOf[m] = r}

\* suppress_contact_endpoint takes the advisory lock, then the row locks.
BeginSuppress(r) ==
    /\ desk = NoRequest /\ gateLock[r] = None /\ Edit
    /\ gateLock' = [gateLock EXCEPT ![r] = Desk]
    /\ desk' = [NoRequest EXCEPT !.kind = "suppress", !.rcpt = r]
    /\ UNCHANGED <<outbox, party, suppressed, handoffs, worker, rowLock, delivered,
                   crashes, faults>>

SuppressContactEndpoint ==
    LET r == desk.rcpt
        open == {m \in Rows(r) : ~Finished(m)}
    IN
    /\ desk.kind = "suppress"
    /\ \A m \in open : rowLock[m] = None
    /\ suppressed' = [suppressed EXCEPT ![r] = TRUE]
    /\ outbox' = [m \in Msgs |-> IF m \in open THEN Cancelled(outbox[m]) ELSE outbox[m]]
    /\ party' = [party EXCEPT ![r].optOut = TRUE, ![r].case = "PAUSED"]
    /\ FreesGate(r) /\ desk' = NoRequest
    /\ UNCHANGED <<handoffs, worker, rowLock, delivered, bounds>>

\* The worker holds a row the request waits for and waits for the advisory
\* lock the request holds: the database aborts one of the two.
AbortWorker(w) ==
    /\ At(w, "suppressing") /\ gateLock[To(w)] = Desk
    /\ FreesRows(w) /\ Goes(w, Idle)
    /\ UNCHANGED <<outbox, party, suppressed, handoffs, gateLock, desk, delivered,
                   bounds>>

AbortSuppress ==
    /\ \E w \in Workers : At(w, "suppressing") /\ gateLock[To(w)] = Desk
    /\ FreesGate(desk.rcpt) /\ desk' = NoRequest
    /\ UNCHANGED <<outbox, party, suppressed, handoffs, worker, rowLock, delivered,
                   bounds>>

\* update_handoff with pause, takeover or reject: the rows are read without a
\* lock and each one read is then cancelled by its id.
BeginWithdraw(r) ==
    /\ desk = NoRequest /\ Edit
    /\ desk' = [kind |-> "withdraw", rcpt |-> r,
                rows |-> {m \in Rows(r) :
                            outbox[m].status \in {"PENDING", "FAILED", "CLAIMED"}}]
    /\ UNCHANGED <<outbox, party, suppressed, handoffs, worker, locks, delivered,
                   crashes, faults>>

Withdraw ==
    /\ desk.kind = "withdraw"
    /\ \A m \in desk.rows : rowLock[m] = None
    /\ outbox' = [m \in Msgs |-> IF m \in desk.rows THEN Cancelled(outbox[m])
                                 ELSE outbox[m]]
    /\ \E status \in {"PAUSED", "HELD"} :
          party' = [party EXCEPT ![desk.rcpt].case = status]
    /\ desk' = NoRequest
    /\ UNCHANGED <<suppressed, handoffs, worker, locks, delivered, bounds>>

\* update_handoff with resume, resolve or approve.
Resume(r) ==
    /\ Edit /\ party[r].case # "ACTIVE"
    /\ party' = [party EXCEPT ![r].case = "ACTIVE"]
    /\ UNCHANGED <<outbox, suppressed, handoffs, worker, locks, desk, delivered,
                   crashes, faults>>

\* A correlated hard bounce of an earlier message to the recipient.
BounceSuppress(r) ==
    /\ Edit /\ gateLock[r] = None
    /\ suppressed' = [suppressed EXCEPT ![r] = TRUE]
    /\ party' = [party EXCEPT ![r].optOut = TRUE, ![r].case = "PAUSED"]
    /\ UNCHANGED <<outbox, handoffs, worker, locks, desk, delivered, crashes, faults>>

\* An unsubscribe request writes the contact and the customer, not the
\* address, and takes no advisory lock.
Unsubscribe(r) ==
    /\ Edit /\ ~party[r].optOut
    /\ party' = [party EXCEPT ![r].optOut = TRUE, ![r].case = "PAUSED"]
    /\ UNCHANGED <<outbox, suppressed, handoffs, worker, locks, desk, delivered,
                   crashes, faults>>

GoAway(r) ==
    /\ Edit /\ party[r].life = "ACTIVE"
    /\ party' = [party EXCEPT ![r].life = "AWAY"]
    /\ UNCHANGED <<outbox, suppressed, handoffs, worker, locks, desk, delivered,
                   crashes, faults>>

-----------------------------------------------------------------------------
WorkerStep(w) ==
    \/ GiveUp(w) \/ RecoverClaim(w) \/ Pick(w) \/ Defer(w) \/ Refuse(w)
    \/ GateStops(w) \/ GatePasses(w) \/ BlockSuppressed(w) \/ BlockNoMX(w)
    \/ FindUndeliverable(w) \/ SuppressDomain(w) \/ SuppressAddress(w) \/ Escalate(w) \/ Claim(w)
    \/ GuardAborts(w) \/ GuardDefers(w) \/ GuardCancels(w) \/ GuardPasses(w)
    \/ Transmit(w) \/ Record(w) \/ LookUp(w) \/ Settle(w) \/ LookupFails(w)
    \/ AbortWorker(w)

DeskStep == SuppressContactEndpoint \/ AbortSuppress \/ Withdraw

EditStep(r) == \/ BeginSuppress(r) \/ BeginWithdraw(r) \/ Resume(r) \/ BounceSuppress(r)
               \/ Unsubscribe(r) \/ GoAway(r)

\* Nothing is left to do: every row is finished and nobody is at work.
Done == /\ \A m \in Msgs : Finished(m)
        /\ \A w \in Workers : At(w, "idle")
        /\ desk = NoRequest
        /\ UNCHANGED vars

Next ==
    \/ \E w \in Workers : WorkerStep(w) \/ Crash(w)
    \/ \E m \in Msgs : AgeLease(m) \/ BecomeDue(m)
    \/ \E r \in Recipients : LeaveEnds(r) \/ EditStep(r)
    \/ DeskStep
    \/ Done

Spec == Init /\ [][Next]_vars

\* A worker process is restarted and polls again, and a request that waits for
\* a lock is first in the lock's queue when it is freed.
Fairness ==
    /\ \A w \in Workers : WF_vars(WorkerStep(w))
    /\ \A m \in Msgs : WF_vars(AgeLease(m)) /\ WF_vars(BecomeDue(m))
    /\ \A r \in Recipients : WF_vars(LeaveEnds(r))
    /\ SF_vars(DeskStep)

FairSpec == Spec /\ Fairness

-----------------------------------------------------------------------------
(* What the outbox promises.                                               *)

TypeOK ==
    /\ outbox \in [Msgs -> Row]
    /\ party \in [Recipients -> Party]
    /\ suppressed \in [Recipients -> BOOLEAN]
    /\ handoffs \subseteq Msgs
    /\ worker \in [Workers -> WorkerState]
    /\ rowLock \in [Msgs -> Workers \cup {None}]
    /\ gateLock \in [Recipients -> Workers \cup {Desk, None}]
    /\ desk \in DeskState
    /\ delivered \in [Msgs -> Nat]
    /\ crashes \in Nat /\ faults \in Nat /\ edits \in Nat

\* No message is accepted twice by the mail server, whatever crashes between
\* the send and its commit, times out or is reconciled.
AtMostOnce == \A m \in Msgs : delivered[m] <= 1

\* Only a row that was certainly not delivered is open for another attempt.
RetryOnlyUndelivered ==
    \A m \in Msgs : outbox[m].status \in {"PENDING", "FAILED"} => delivered[m] = 0

\* A row is marked SENT only if the server has the message.
SentIsDelivered == \A m \in Msgs : outbox[m].status = "SENT" => delivered[m] > 0

\* lock_recipient_delivery_gate: no message is accepted for an address whose
\* suppression was committed before.
NoSendAfterSuppression ==
    [][\A m \in Msgs : delivered'[m] # delivered[m] => ~suppressed[RecipientOf[m]]]_vars

\* Every row ends SENT or CANCELLED and stays so, if faults are finite.
EventuallyFinished == <>[](\A m \in Msgs : Finished(m))

\* The last attempt of a message a human approved is not the end of it: the
\* message is delivered, or a human gets it back, or its address has proved
\* undeliverable, unless a worker crashed or another writer interfered.
LastAttemptIsNotLost ==
    \A m \in HumanApproved \ Bulk :
        Exhausted(m) ~> \/ delivered[m] > 0 \/ m \in handoffs \/ ~Exhausted(m)
                        \/ suppressed[RecipientOf[m]]
                        \/ crashes > 0 \/ edits > 0

\* The outbox implements the promise.
Promise == INSTANCE MailPromise WITH copies <- delivered, blocked <- suppressed
ImplementsPromise == Promise!PromiseSpec

\* _final_recipient_delivery_guard, "Re-check mutable recipient state after
\* claiming and immediately before send": the guard lets a message pass only
\* if the committed case and contact still let it pass.
GuardSeesCurrentCase ==
    [][\A w \in Workers : GuardPasses(w) =>
            CaseOutboundGate(party[To(w)], RowOf(w)) = "PASS"]_vars

=============================================================================
