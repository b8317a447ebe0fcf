---------------------------- MODULE InboundRules ----------------------------
(***************************************************************************)
(* What is done with an inbound email before anybody reads it: the rules   *)
(* that recognise automated replies (app/inbound/auto_replies.py), the     *)
(* rules and the model that name a disposition                             *)
(* (app/inbound/inbound_disposition.py, disposition_service.py), and the   *)
(* plan that says which reviews stand in its way (disposition_planning.py).*)
(*                                                                         *)
(* A message is the set of the cues its text and headers give: which of    *)
(* the patterns match.  An address is "mate" (the company's domain),       *)
(* "stranger" (another one) or the sender's own.                           *)
(***************************************************************************)
EXTENDS FiniteSets, Naturals

\* header, subject: the transport marks an automated reply.  away, awayFirst: absence,
\* and absence in the first words.  change: another contact is named.  passedOn:
\* forwarded, as the automated replies say it.  copied: a colleague is in copy.
AutomatedCues ==
    {"systemSender", "systemText", "header", "subject", "departed", "away", "awayFirst",
     "change", "passedOn"}
DispositionCues == {"copied", "mismatch", "internal", "nonTarget", "explicit", "list"}
Cues == AutomatedCues \cup DispositionCues

Types ==
    {"BUSINESS", "TEMPORARY_ABSENCE", "DEPARTED", "CONTACT_REFERRAL",
     "FORWARDED_TO_COLLEAGUE", "CONTACT_IDENTITY_MISMATCH", "NON_TARGET", "UNCERTAIN",
     "AUTOMATED_ACKNOWLEDGEMENT", "SYSTEM_NOTIFICATION"}

Addresses == {"mate", "stranger"}

-----------------------------------------------------------------------------
(* Automated replies *)

\* classify_automated_reply: the first kind that matches.
AutomatedReply(cues) ==
    IF cues \cap {"systemSender", "systemText"} # {} THEN "SYSTEM_NOTIFICATION"
    ELSE IF "departed" \in cues THEN "DEPARTED"
    ELSE IF "away" \in cues /\ cues \cap {"header", "subject", "awayFirst"} # {}
         THEN "OUT_OF_OFFICE"
    ELSE IF "change" \in cues THEN "CONTACT_CHANGE"
    ELSE IF cues \cap {"header", "subject"} # {} THEN "GENERIC_AUTOREPLY"
    ELSE "NONE"

\* The transport itself, not the text, says that nobody wrote this.
TransportSignal(cues) ==
    cues \cap {"header", "subject"} # {} /\ AutomatedReply(cues) # "SYSTEM_NOTIFICATION"

\* classify_inbound_disposition, in its order of precedence.
RuleType(cues) ==
    LET automated == AutomatedReply(cues) IN
    IF automated = "SYSTEM_NOTIFICATION" THEN "SYSTEM_NOTIFICATION"
    ELSE IF automated = "DEPARTED" THEN "DEPARTED"
    ELSE IF automated = "OUT_OF_OFFICE" THEN "TEMPORARY_ABSENCE"
    ELSE IF "mismatch" \in cues THEN "CONTACT_IDENTITY_MISMATCH"
    ELSE IF "internal" \in cues THEN "UNCERTAIN"
    ELSE IF "nonTarget" \in cues THEN "NON_TARGET"
    ELSE IF cues \cap {"passedOn", "copied"} # {} THEN "FORWARDED_TO_COLLEAGUE"
    ELSE IF "explicit" \in cues THEN "BUSINESS"
    ELSE IF automated = "CONTACT_CHANGE" THEN "CONTACT_REFERRAL"
    ELSE IF automated = "GENERIC_AUTOREPLY" THEN "AUTOMATED_ACKNOWLEDGEMENT"
    ELSE "BUSINESS"

\* The rule's disposition.  named: addresses the text presents as other contacts.
\* A system notification is recognised before any of its text is read.
RuleDisposition(cues, named) ==
    LET system == AutomatedReply(cues) = "SYSTEM_NOTIFICATION" IN
    [type |-> RuleType(cues), source |-> "rule", sure |-> TRUE, evidence |-> TRUE,
     referred |-> IF system THEN {} ELSE named,
     forwarded |-> ~system /\ ("passedOn" \in cues \/ RuleType(cues) = "FORWARDED_TO_COLLEAGUE"),
     list |-> "list" \in cues, transport |-> TransportSignal(cues)]

-----------------------------------------------------------------------------
(* The model's decision *)

\* A rule that the model may not overrule.
Authoritative(cues) ==
    \/ RuleType(cues) \in {"DEPARTED", "TEMPORARY_ABSENCE", "FORWARDED_TO_COLLEAGUE",
                           "CONTACT_IDENTITY_MISMATCH", "NON_TARGET"}
    \/ RuleType(cues) = "UNCERTAIN"
    \/ RuleType(cues) = "BUSINESS" /\ "explicit" \in cues

\* The addresses the model, the rules and the recipient header propose, as far as the
\* authored text, or a cue that a colleague was copied, bears them out.  ai.referred
\* are those of the model that the text contains.
CorroboratedReferrals(cues, named, ai) ==
    ai.referred \cup named \cup (IF "copied" \in cues THEN {"mate"} ELSE {})

\* A label the rules do not bear out becomes UNCERTAIN, or business when products are
\* asked for.
Corroborated(type, cues, referred, list) ==
    IF type = "CONTACT_REFERRAL" /\ referred = {} THEN "UNCERTAIN"
    ELSE IF type = "NON_TARGET" /\ RuleType(cues) # "NON_TARGET"
         THEN IF list THEN "BUSINESS" ELSE "UNCERTAIN"
    ELSE IF type = "CONTACT_IDENTITY_MISMATCH" /\ RuleType(cues) # "CONTACT_IDENTITY_MISMATCH"
         THEN "UNCERTAIN"
    ELSE type

\* decision_to_disposition: what the model says, bounded by the rules.
DecisionToDisposition(cues, named, ai) ==
    LET rule == RuleDisposition(cues, named)
        referred == CorroboratedReferrals(cues, rule.referred, ai)
        list == ai.list \/ rule.list
        type == Corroborated(IF Authoritative(cues) THEN rule.type ELSE ai.type, cues, referred, list)
    IN [type |-> type, source |-> "anthropic",
        sure |-> Authoritative(cues) \/ ai.sure, evidence |-> ai.evidence,
        referred |-> IF type \in {"TEMPORARY_ABSENCE", "DEPARTED", "CONTACT_REFERRAL",
                                  "FORWARDED_TO_COLLEAGUE"} THEN referred ELSE {},
        forwarded |-> ai.forwarded \/ rule.forwarded, list |-> list,
        transport |-> rule.transport]

\* classify_email_disposition: the rules settle system notifications and stand in for a
\* model that is switched off or fails.  ai.answer: "off", "fails" or "answers".
Classify(cues, named, ai) ==
    LET rule == RuleDisposition(cues, named) IN
    IF rule.type = "SYSTEM_NOTIFICATION" \/ ai.answer = "off" THEN rule
    ELSE IF ai.answer = "fails" THEN [rule EXCEPT !.source = "fallback"]
    ELSE DecisionToDisposition(cues, named, ai)

\* continue_business_processing
ContinueBusiness(d) ==
    \/ d.type = "BUSINESS"
    \/ d.list /\ ~d.transport /\ d.type \in {"DEPARTED", "CONTACT_REFERRAL"}

-----------------------------------------------------------------------------
(* The plan.  at: what the email resolves to.                               *)
(*   contact, sender: the affected contact and the sender's, or "none";     *)
(*   parent: how the outbound message replied to was found, if not by the   *)
(*   sender ("none", "exact", "quoted"); verified: ingestion recorded that  *)
(*   a colleague replied to a reactivation; domain: the sender's domain is  *)
(*   the contact's; returns: the date of return ("none", "past", "future"). *)

\* resolve_disposition_resources.  m: what the rows say of the message: whose address it
\* is from, if its customer is recorded, if ingestion recorded whom a colleague's reply
\* was meant for, and which outbound parents can be found.  An outbound parent is
\* looked for only when no customer is known.
Recorded(type, m) == type = "DEPARTED" /\ m.verified /\ (m.known \/ m.from # "none")

FoundParent(type, m) ==
    IF m.known \/ m.from # "none" \/ Recorded(type, m)
          \/ type \notin {"DEPARTED", "CONTACT_REFERRAL", "FORWARDED_TO_COLLEAGUE"}
    THEN "none"
    ELSE IF m.exact THEN "exact" ELSE IF m.quoted THEN "quoted" ELSE "none"

Resolved(type, m) ==
    LET parent == FoundParent(type, m) IN
    [sender |-> m.from,
     contact |-> IF parent # "none" \/ Recorded(type, m) THEN "ann" ELSE m.from,
     customer |-> parent # "none" \/ m.known \/ m.from # "none",
     parent |-> parent, verified |-> m.verified, domain |-> m.domain,
     returns |-> m.returns, twoCases |-> m.twoCases]

MutatingTypes ==
    {"TEMPORARY_ABSENCE", "DEPARTED", "CONTACT_REFERRAL", "FORWARDED_TO_COLLEAGUE", "NON_TARGET"}

\* Mutant: any contact a reply mentions.
VerifiedOriginalMentioned(d, at) == at.contact # "none"

\* The departed contact is not just somebody a reply mentions.
VerifiedOriginal(d, at) ==
    /\ at.contact # "none"
    /\ \/ d.transport
       \/ at.parent # "none"
       \/ at.sender # "none" /\ at.contact # at.sender /\ at.verified

ReplyCandidate(at) == at.parent # "none" /\ at.sender # at.contact /\ at.domain

VerifiedReply(d, at) ==
    /\ VerifiedOriginal(d, at)
    /\ at.sender \notin {"none", at.contact} \/ ReplyCandidate(at)

When(cond, blocker) == IF cond THEN {blocker} ELSE {}

ModelBlockers(d) ==
    IF d.type \notin MutatingTypes THEN {}
    ELSE When(d.source = "fallback", "AI_CLASSIFICATION_UNAVAILABLE")
         \cup When(d.source = "anthropic" /\ ~d.sure, "AI_CONFIDENCE_BELOW_THRESHOLD")
         \cup When(d.source = "anthropic" /\ ~d.evidence, "AI_EVIDENCE_MISSING")

AbsenceBlockers(at) ==
    When(at.contact = "none" /\ at.returns # "past", "SENDER_CONTACT_NOT_UNIQUE")
    \cup When(at.returns = "none", "RETURN_DATE_NOT_RELIABLE")

DepartureBlockers(d, at) ==
    When(~VerifiedOriginal(d, at), "ORIGINAL_CONTACT_NOT_VERIFIED")
    \cup When(d.referred = {} /\ ~VerifiedReply(d, at), "NO_REPLACEMENT_CONTACT")
    \cup When(at.parent = "quoted", "QUOTED_PARENT_REQUIRES_REVIEW")
    \cup When(at.parent = "exact", "PARENT_RESOLVED_DEPARTURE_REQUIRES_REVIEW")
    \cup When(at.parent # "none" /\ at.sender # at.contact /\ ~ReplyCandidate(at),
              "CROSS_DOMAIN_DEPARTURE_REQUIRES_CONTACT_SELECTION")

ReferralBlockers(d, at) ==
    When(~at.customer, "CUSTOMER_NOT_RESOLVED")
    \cup When(d.referred = {}, "NO_REPLACEMENT_CONTACT")
    \cup When(at.parent # "none" /\ at.contact # "none" /\ ~at.domain,
              "CROSS_DOMAIN_REACTIVATION_PARENT_REQUIRES_REVIEW")

TypeBlockers(d, at) ==
    CASE d.type = "TEMPORARY_ABSENCE" -> AbsenceBlockers(at)
      [] d.type = "DEPARTED" -> DepartureBlockers(d, at)
      [] d.type \in {"CONTACT_REFERRAL", "FORWARDED_TO_COLLEAGUE"} -> ReferralBlockers(d, at)
      [] d.type = "NON_TARGET" -> When(~at.customer, "CUSTOMER_NOT_RESOLVED")
      [] d.type = "CONTACT_IDENTITY_MISMATCH" -> {"CONTACT_IDENTITY_REQUIRES_REVIEW"}
      [] d.type = "UNCERTAIN" -> {"AI_CLASSIFICATION_UNCERTAIN"}
      [] OTHER -> {}

\* build_disposition_plan_data: every review that stands in the way.
Blockers(d, at) ==
    ModelBlockers(d) \cup TypeBlockers(d, at)
    \cup When(d.referred # {} /\ "mate" \notin d.referred, "NO_SAME_DOMAIN_REFERRAL")
    \cup When(Cardinality(d.referred) > 1, "MULTIPLE_REFERRALS_REQUIRE_REVIEW")

\* Those that no acknowledgement can lift.
ApplicationBlockers(d, at) ==
    Blockers(d, at) \cap
    (CASE d.type = "TEMPORARY_ABSENCE" -> {"SENDER_CONTACT_NOT_UNIQUE", "RETURN_DATE_NOT_RELIABLE"}
       [] d.type = "DEPARTED" -> {"ORIGINAL_CONTACT_NOT_VERIFIED",
                                  "CROSS_DOMAIN_DEPARTURE_REQUIRES_CONTACT_SELECTION"}
       [] d.type \in {"CONTACT_REFERRAL", "FORWARDED_TO_COLLEAGUE"} ->
             {"CUSTOMER_NOT_RESOLVED", "NO_REPLACEMENT_CONTACT"}
       [] d.type = "NON_TARGET" -> {"CUSTOMER_NOT_RESOLVED"}
       [] OTHER -> {})
=============================================================================
