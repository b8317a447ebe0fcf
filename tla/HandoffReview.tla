--------------------------- MODULE HandoffReview ---------------------------
(***************************************************************************)
(* The handoffs of one sales case in the hands of the sales team           *)
(* (app/handoffs/, app/quotations/, app/coa/, app/catalogs/): drafts are   *)
(* previewed, approved as prepared, replaced by a text or by a price of    *)
(* one's own; the case is assigned, given a product, or moved to another   *)
(* address; and what was approved passes the gate and is sent.             *)
(*                                                                         *)
(* Each request has a session of its own.  It loads the handoff and the    *)
(* case without a lock and saves only what it changed of what it loaded:   *)
(* in between, while it asks the model, reads files and checks prices,     *)
(* other requests commit.  The agent run of a handoff is module            *)
(* AgentHandoff, how a row is sent is module OutboxDelivery.               *)
(***************************************************************************)
EXTENDS Integers, FiniteSets

CONSTANTS
    Clerks,       \* requests that may be open at a time
    Handoffs,
    Products,     \* active products
    Drafts,       \* what the program may have prepared, a set of [Handoffs -> Review]
    Cases,        \* the SalesCases the emails may be of
    MaxPolicies,  \* bound: price lists
    MaxEdits,     \* bound: requests other than those that answer the customer
    None

Kinds == {"quote", "multi", "coa", "list"}
Reasons == {"QUOTE_REVIEW", "COA_REVIEW", "PRODUCT_LIST_REVIEW", "BOUNCE_REVIEW",
            "EMAIL_DELIVERABILITY", "OTHER"}
\* The address of the case, the one that may replace it, a colleague's, and whoever reports
\* a failure: a mail server, or the program itself, which has no source email.
Addresses == {"first", "second", "colleague", "postmaster", "nobody"}

\* prepared, lines, round, policy: the extracted facts.  sender: of the source email.
\* A handoff.
Review == [status : {"OPEN", "RESOLVED"}, reason : Reasons, sender : Addresses,
           cased : BOOLEAN, prepared : SUBSET Kinds, lines : SUBSET Products,
           round : Nat, policy : 1..MaxPolicies]
Case == [status : {"ABSENT", "ACTIVE", "WAITING_HUMAN", "HUMAN_TAKEOVER", "PAUSED"},
         product : Products \cup {None}, contact : Addresses]

ASSUME ReviewAssumption ==
    /\ None \notin Clerks /\ None \notin Handoffs /\ None \notin Products
    /\ MaxPolicies \in Nat \ {0} /\ MaxEdits \in Nat
    /\ \A d \in Drafts : d \in [Handoffs -> Review]
    /\ Cases \subseteq Case

VARIABLES
    review,      \* the handoffs
    case,
    suppressed,  \* the addresses that are not to be written to
    policy,      \* the price list in force
    outbox,      \* the approved rows, by business key
    quotes,      \* the quotes recorded for the case
    clerk,       \* the step of each request, and what its session holds
    lock,        \* who holds the row lock of each handoff
    edits

vars == <<review, case, suppressed, policy, outbox, quotes, clerk, lock, edits>>

\* handoff-reply:H, handoff-reply:H:manual-price and handoff-reply:H:forward.
Key == Handoffs \X {"reply", "manual-price", "forward"}
KeysOf(h) == {k \in Key : k[1] = h}
Row == [status : {"ABSENT", "PENDING", "CLAIMED", "SENT", "CANCELLED"},
        to : Addresses, lines : SUBSET Products]
NoRow == [status |-> "ABSENT", to |-> "first", lines |-> {}]
\* policy 0 is a human's price, which is kept as history and never in force.
Quote == [by : Handoffs, product : Products, round : Nat, policy : 0..MaxPolicies]

\* case, reason, prepared: as loaded.  lines, round: what is to be quoted, and as which round.
Request == [pc : {"idle", "approve", "price", "counted", "preview"}, h : Handoffs \cup {None},
            case : Case, reason : Reasons, prepared : SUBSET Kinds, lines : SUBSET Products,
            round : Nat]
NoCase == [status |-> "ABSENT", product |-> None, contact |-> "first"]
Idle == [pc |-> "idle", h |-> None, case |-> NoCase, reason |-> "OTHER", prepared |-> {},
         lines |-> {}, round |-> 0]

Init ==
    /\ review \in Drafts
    /\ case \in Cases
    /\ \A h \in Handoffs : review[h].cased <=> case.status # "ABSENT"
    /\ suppressed = {} /\ policy = 1
    /\ outbox = [k \in Key |-> NoRow]
    /\ quotes = {}
    /\ clerk = [c \in Clerks |-> Idle]
    /\ lock = [h \in Handoffs |-> None]
    /\ edits = 0

-----------------------------------------------------------------------------
Written(k) == outbox[k].status # "ABSENT"
At(c, pc) == clerk[c].pc = pc
Free(h) == lock[h] = None
Ends(c) == clerk' = [clerk EXCEPT ![c] = Idle]

\* Mutant: only the key of a reply is looked for.
AnsweredByReply(h) == Written(<<h, "reply">>)

\* The unique approval_handoff_id of the rows.
Answered(h) == \E k \in KeysOf(h) : Written(k)

\* The session writes a column only if it differs from what was loaded.
Saved(loaded, new, now) == IF new = loaded THEN now ELSE new

Rounds == {q.round : q \in quotes}
Latest == CHOOSE n \in Rounds \cup {-1} : \A m \in Rounds : m <= n

\* Mutant: the quotes of a case are unique by nothing.
RoundFreeAlways(lines, round) == TRUE

\* uq_quote_case_round_product.
RoundFree(lines, round) == \A q \in quotes : q.round = round => q.product \notin lines

QuotesOf(h, lines, round, version) ==
    [by : {h}, product : lines, round : {round}, policy : {version}]
Approve(k, address, lines) ==
    outbox' = [outbox EXCEPT ![k] = [status |-> "PENDING", to |-> address, lines |-> lines]]

\* The recipient may be written to, and the email is his.
MayReply(h) ==
    /\ review[h].status = "OPEN" /\ review[h].cased
    /\ review[h].sender = case.contact /\ case.contact \notin suppressed
Loads(c, h, pc, lines) ==
    clerk' = [clerk EXCEPT ![c] = [Idle EXCEPT !.pc = pc, !.h = h, !.case = case,
                                               !.lines = lines, !.round = review[h].round]]

-----------------------------------------------------------------------------
(* Approvals: the draft is checked, then the row is written *)

HasDraft(h, kind, reason) == review[h].reason = reason /\ kind \in review[h].prepared

\* The price list is the one of the draft, and nothing was quoted since.
Current(h) == review[h].policy = policy /\ review[h].round = Latest + 1

\* queue_prepared_quote_reply.
QuoteReady(h) ==
    /\ HasDraft(h, "quote", "QUOTE_REVIEW") /\ Current(h)
    /\ review[h].lines = {case.product}

\* queue_prepared_multi_quote_reply: the product of the case does not matter.
MultiReady(h) ==
    /\ HasDraft(h, "multi", "QUOTE_REVIEW") /\ Current(h)
    /\ Cardinality(review[h].lines) >= 2

\* What a reply quotes: the draft's lines, or nothing with a certificate, with a product
\* list, or with a text of one's own.
BeginReply(c, h) ==
    /\ At(c, "idle") /\ ~Answered(h) /\ MayReply(h)
    /\ \E lines \in {{}, review[h].lines} :
        /\ lines # {} => QuoteReady(h) \/ MultiReady(h)
        /\ Loads(c, h, "approve", lines)
    /\ UNCHANGED <<review, case, suppressed, policy, outbox, quotes, lock, edits>>

\* A certificate as prepared goes out only with the handoff that reviews it.
BeginCertificate(c, h) ==
    /\ At(c, "idle") /\ ~Answered(h) /\ MayReply(h) /\ HasDraft(h, "coa", "COA_REVIEW")
    /\ Loads(c, h, "approve", {})
    /\ UNCHANGED <<review, case, suppressed, policy, outbox, quotes, lock, edits>>

\* A product list as prepared.
BeginList(c, h) ==
    /\ At(c, "idle") /\ ~Answered(h) /\ MayReply(h) /\ HasDraft(h, "list", "PRODUCT_LIST_REVIEW")
    /\ Loads(c, h, "approve", {})
    /\ UNCHANGED <<review, case, suppressed, policy, outbox, quotes, lock, edits>>

\* queue_human_reply: the row, the quotes, the end of the handoff and the status of the
\* case are one transaction, to the address and with the round that were loaded.
CommitReply(c) == \E resume \in BOOLEAN :
    LET r == clerk[c]  h == r.h IN
    /\ At(c, "approve") /\ Free(h) /\ ~Answered(h) /\ RoundFree(r.lines, r.round)
    /\ Approve(<<h, "reply">>, r.case.contact, r.lines)
    /\ quotes' = quotes \cup QuotesOf(h, r.lines, r.round, review[h].policy)
    /\ review' = [review EXCEPT ![h].status = "RESOLVED"]
    /\ case' = [case EXCEPT !.status =
                    Saved(r.case.status, IF resume THEN "ACTIVE" ELSE "HUMAN_TAKEOVER", @)]
    /\ Ends(c)
    /\ UNCHANGED <<suppressed, policy, lock, edits>>

-----------------------------------------------------------------------------
(* A price of one's own: quote_with_manual_price *)

\* The handoff is locked until the text is drafted.
BeginPrice(c, h) ==
    /\ At(c, "idle") /\ Free(h) /\ MayReply(h)
    /\ \E lines \in (SUBSET Products) \ {{}} :
        /\ case.product # None => lines = {case.product}
        /\ Loads(c, h, "price", lines)
    /\ lock' = [lock EXCEPT ![h] = c]
    /\ UNCHANGED <<review, case, suppressed, policy, outbox, quotes, edits>>

\* Mutant: the lock of a request outlives it.
KeepsLocks(c) == lock

Released(c) == [h \in Handoffs |-> IF lock[h] = c THEN None ELSE lock[h]]

\* The text is drafted: the latest quote of the case is read, which no lock protects.
CountRound(c) ==
    /\ At(c, "price")
    /\ clerk' = [clerk EXCEPT ![c].pc = "counted", ![c].round = Latest + 1]
    /\ UNCHANGED <<review, case, suppressed, policy, outbox, quotes, lock, edits>>

\* The quotes are flushed: another request may have written the same round by now, of
\* other products.  The case takes the product of a single line; its status stays as it is.
CommitPrice(c) ==
    LET r == clerk[c]  h == r.h IN
    /\ At(c, "counted") /\ ~Answered(h) /\ RoundFree(r.lines, r.round)
    /\ Approve(<<h, "manual-price">>, r.case.contact, r.lines)
    /\ quotes' = quotes \cup QuotesOf(h, r.lines, r.round, 0)
    /\ review' = [review EXCEPT ![h].status = "RESOLVED"]
    /\ case' = IF r.case.product = None /\ \E p \in Products : r.lines = {p}
               THEN [case EXCEPT !.product = CHOOSE p \in Products : r.lines = {p}] ELSE case
    /\ lock' = Released(c)
    /\ Ends(c)
    /\ UNCHANGED <<suppressed, policy, edits>>

-----------------------------------------------------------------------------
(* Previews: stream_handoff_draft_preview *)

BeginPreview(c, h) ==
    /\ edits < MaxEdits /\ edits' = edits + 1
    /\ At(c, "idle") /\ review[h].status = "OPEN" /\ review[h].cased /\ ~Answered(h)
    /\ review[h].sender # "nobody"
    /\ clerk' = [clerk EXCEPT ![c] =
           [Idle EXCEPT !.pc = "preview", !.h = h, !.case = case,
                        !.reason = review[h].reason, !.prepared = review[h].prepared]]
    /\ UNCHANGED <<review, case, suppressed, policy, outbox, quotes, lock>>

\* The handoff is written as loaded and without another look at its status.
Redrafts(c, reason, prepared) ==
    LET r == clerk[c] IN
    /\ At(c, "preview") /\ Free(r.h)
    /\ review' = [review EXCEPT ![r.h].reason = Saved(r.reason, reason, @),
                                ![r.h].prepared = prepared]
    /\ Ends(c)
    /\ UNCHANGED <<suppressed, policy, outbox, quotes, lock, edits>>

\* prepare_detected_coa_preview: a certificate is asked for.  Whatever else was prepared is
\* dropped, and the case waits for a human.
PreviewCertificate(c) == \E prepared \in {{}, {"coa"}} :
    /\ Redrafts(c, "COA_REVIEW", prepared)
    /\ case' = [case EXCEPT !.status = Saved(clerk[c].case.status, "WAITING_HUMAN", @)]

\* _prepared_handoff_draft_preview: a product list is asked for, or was prepared.
PreviewList(c) ==
    Redrafts(c, "PRODUCT_LIST_REVIEW", clerk[c].prepared \cup {"list"}) /\ UNCHANGED case

\* Prepared work stays as it is, whatever the prices are by now; a text is drafted if
\* there is none.
PreviewText(c) ==
    /\ "list" \notin clerk[c].prepared
    /\ Redrafts(c, clerk[c].reason, clerk[c].prepared) /\ UNCHANGED case

\* A request that fails saves nothing: a check, the model or a file failed, a unique key
\* is taken, or the database ended a deadlock.
Abort(c) ==
    /\ ~At(c, "idle") /\ Ends(c) /\ lock' = Released(c)
    /\ UNCHANGED <<review, case, suppressed, policy, outbox, quotes, edits>>

-----------------------------------------------------------------------------
(* Requests without an await but for the database: one step each *)

Edit(h) == Free(h) /\ edits < MaxEdits /\ edits' = edits + 1

\* create_case_for_handoff; one case.
CreateCase(h) ==
    /\ Edit(h) /\ case.status = "ABSENT" /\ review[h].sender = case.contact
    /\ \E p \in Products \cup {None} :
        case' = [case EXCEPT !.status = "WAITING_HUMAN", !.product = p]
    /\ review' = [review EXCEPT ![h].cased = TRUE]
    /\ UNCHANGED <<suppressed, policy, outbox, quotes, clerk, lock>>

\* forward_handoff_email: a colleague gets the email, and with it the case.
Forward(h) ==
    /\ Edit(h) /\ review[h].status = "OPEN" /\ review[h].cased /\ ~Answered(h)
    /\ review[h].sender # "nobody"
    /\ Approve(<<h, "forward">>, "colleague", {})
    /\ review' = [review EXCEPT ![h].status = "RESOLVED"]
    /\ case' = [case EXCEPT !.status = "HUMAN_TAKEOVER"]
    /\ UNCHANGED <<suppressed, policy, quotes, clerk, lock>>

\* assign_handoff_case: the status of the handoff does not matter.
AssignCase(h) ==
    /\ Edit(h) /\ case.status # "ABSENT" /\ review[h].sender = case.contact
    /\ case' = [case EXCEPT !.status = "WAITING_HUMAN"]
    /\ review' = [review EXCEPT ![h].cased = TRUE]
    /\ UNCHANGED <<suppressed, policy, outbox, quotes, clerk, lock>>

\* update_handoff_case_product.
SetProduct(h) ==
    /\ Edit(h) /\ review[h].status = "OPEN" /\ review[h].cased /\ ~Answered(h)
    /\ \E p \in Products : case' = [case EXCEPT !.status = "WAITING_HUMAN", !.product = p]
    /\ UNCHANGED <<review, suppressed, policy, outbox, quotes, clerk, lock>>

Open(k) == outbox[k].status \in {"PENDING", "CLAIMED"}
CancelAll(ks) == outbox' = [k \in Key |-> IF k \in ks /\ Open(k)
                                          THEN [outbox[k] EXCEPT !.status = "CANCELLED"]
                                          ELSE outbox[k]]

Retires(address) == suppressed \cup {address}

\* replace_handoff_recipient: the case goes on with another address.
ReplaceRecipient(h) == \E resume \in BOOLEAN :
    /\ Edit(h) /\ review[h].status = "OPEN" /\ review[h].cased
    /\ review[h].reason \in {"BOUNCE_REVIEW", "EMAIL_DELIVERABILITY"}
    /\ case.contact = "first"
    /\ case' = [case EXCEPT !.contact = "second", !.status = IF resume THEN "ACTIVE" ELSE "PAUSED"]
    /\ suppressed' = Retires("first")
    /\ CancelAll({k \in Key : outbox[k].to = "first"})
    /\ review' = [review EXCEPT ![h].status = "RESOLVED"]
    /\ UNCHANGED <<policy, quotes, clerk, lock>>

\* resolve_deliverability_handoff: the failed address is given up; the rows to it are left
\* to the gate.
GiveUpRecipient(h) ==
    /\ Edit(h) /\ review[h].status = "OPEN" /\ review[h].cased
    /\ review[h].reason = "EMAIL_DELIVERABILITY"
    /\ suppressed' = Retires("first")
    /\ case' = [case EXCEPT !.status = "PAUSED"]
    /\ review' = [review EXCEPT ![h].status = "RESOLVED"]
    /\ UNCHANGED <<policy, outbox, quotes, clerk, lock>>

StatusAfter(action) ==
    CASE action = "pause" -> "PAUSED" [] action = "takeover" -> "HUMAN_TAKEOVER"
      [] action = "reject" -> "WAITING_HUMAN" [] OTHER -> "ACTIVE"

\* update_handoff, of which an approval is a resolution: a pause, a resume and a takeover
\* open the handoff again, answered or not.
UpdateHandoff(h, action) ==
    /\ Edit(h)
    /\ review' = [review EXCEPT ![h].status =
                      IF action \in {"resolve", "reject"} THEN "RESOLVED" ELSE "OPEN"]
    /\ IF review[h].cased
       THEN /\ case' = [case EXCEPT !.status = StatusAfter(action)]
            /\ IF action \in {"pause", "takeover", "reject"} THEN CancelAll(Key)
               ELSE UNCHANGED outbox
       ELSE UNCHANGED <<case, outbox>>
    /\ UNCHANGED <<suppressed, policy, quotes, clerk, lock>>

\* A new price list, whatever is approved or on its way.
ConfirmPrices ==
    /\ policy < MaxPolicies /\ policy' = policy + 1
    /\ UNCHANGED <<review, case, suppressed, outbox, quotes, clerk, lock, edits>>

-----------------------------------------------------------------------------
(* The delivery of approved rows *)

Moves(k, status) ==
    /\ outbox' = [outbox EXCEPT ![k].status = status]
    /\ UNCHANGED <<review, case, suppressed, policy, quotes, clerk, lock, edits>>

\* _case_outbound_gate for a row that a human approved, whatever the status of the case;
\* what is forwarded passes.
Eligible(k) ==
    \/ k[2] = "forward"
    \/ case.contact \notin suppressed /\ case.contact = outbox[k].to

Claim(k) == outbox[k].status = "PENDING" /\ Eligible(k) /\ Moves(k, "CLAIMED")
Block(k) == outbox[k].status = "PENDING" /\ ~Eligible(k) /\ Moves(k, "CANCELLED")

\* Mutant: what passed the gate is sent.
FinalGuardPasses(k) == TRUE

\* The final guard: the case is the one loaded for the gate, the address is asked for
\* again, under the lock that a suppression needs.
FinalGuard(k) == outbox[k].to \notin suppressed

Send(k) == outbox[k].status = "CLAIMED" /\ FinalGuard(k) /\ Moves(k, "SENT")
BlockLate(k) == outbox[k].status = "CLAIMED" /\ ~FinalGuard(k) /\ Moves(k, "CANCELLED")

-----------------------------------------------------------------------------
ClerkStep(c) ==
    \/ \E h \in Handoffs : \/ BeginReply(c, h) \/ BeginCertificate(c, h) \/ BeginList(c, h)
                           \/ BeginPrice(c, h) \/ BeginPreview(c, h)
    \/ CommitReply(c) \/ CountRound(c) \/ CommitPrice(c)
    \/ PreviewCertificate(c) \/ PreviewList(c) \/ PreviewText(c) \/ Abort(c)
Edits(h) ==
    \/ CreateCase(h) \/ Forward(h) \/ AssignCase(h) \/ SetProduct(h)
    \/ ReplaceRecipient(h) \/ GiveUpRecipient(h)
    \/ \E action \in {"resolve", "reject", "pause", "resume", "takeover"} : UpdateHandoff(h, action)
Deliver(k) == Claim(k) \/ Block(k) \/ Send(k) \/ BlockLate(k)
Rest == (\A c \in Clerks : At(c, "idle")) /\ (\A k \in Key : ~Open(k)) /\ UNCHANGED vars

Next ==
    \/ \E c \in Clerks : ClerkStep(c)
    \/ \E h \in Handoffs : Edits(h)
    \/ \E k \in Key : Deliver(k)
    \/ ConfirmPrices \/ Rest

Spec == Init /\ [][Next]_vars

-----------------------------------------------------------------------------
(* Properties *)

\* A handoff's row is locked exactly while a request prices it.
TypeOK ==
    /\ review \in [Handoffs -> Review] /\ case \in Case
    /\ suppressed \subseteq Addresses /\ policy \in 1..MaxPolicies
    /\ outbox \in [Key -> Row] /\ quotes \subseteq Quote
    /\ clerk \in [Clerks -> Request]
    /\ lock \in [Handoffs -> Clerks \cup {None}]
    /\ \A h \in Handoffs, c \in Clerks : lock[h] = c <=> clerk[c].pc \in {"price", "counted"} /\ clerk[c].h = h
    /\ edits \in 0..MaxEdits

\* approval_handoff_id: however often a handoff is approved, priced, forwarded, opened again
\* and approved once more, it gets one answer, and the quotes on record are those of the answers.
OneAnswerEach ==
    \A h \in Handoffs : \A j, k \in KeysOf(h) :
        /\ Written(j) /\ Written(k) => j = k
        /\ Written(k) => {q.product : q \in {x \in quotes : x.by = h}} = outbox[k].lines
        /\ ~Answered(h) => \A q \in quotes : q.by # h

\* The quotes of a case are a history: its rounds follow each other from 0 without a gap,
\* and no product is quoted twice in a round.  A request counts the rounds before it writes
\* its own, so two that quote different products may write the same round.
RoundsInOrder ==
    /\ Rounds = 0..Latest
    /\ \A p, q \in quotes : p.round = q.round /\ p.product = q.product => p = q

\* No approved message leaves for an address that was given up or that the case has been
\* moved away from, even if it was approved or claimed before.
SentToContact ==
    [][\A k \in Key : k[2] # "forward" /\ outbox'[k].status = "SENT" /\ outbox[k].status # "SENT" =>
          outbox[k].to = case.contact /\ outbox[k].to \notin suppressed]_vars
=============================================================================
