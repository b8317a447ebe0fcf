---------------------------- MODULE InquiryRules ----------------------------
(***************************************************************************)
(* Which sales case an email belongs to: the pure part of mail.py          *)
(* match_case, inbound/inquiry_resolution.py and                           *)
(* inbound/inquiry_matching.py, and of the history matching of history.py. *)
(* An email is a record of what these functions read from it: the party    *)
(* (its sender, or for sent mail its recipient), what it replies to, its   *)
(* subject (and whether it starts with Re:), the product codes it names,   *)
(* whether it asks for the product list and whether it mentions an earlier *)
(* conversation.  A case is known by its position in the table.            *)
(***************************************************************************)
EXTENDS Naturals, Sequences, FiniteSets

CONSTANTS
  ActiveProducts,    \* codes of the active products
  PriceCurrencies,   \* [ActiveProducts -> set of the currencies a price is valid in]
  Interests,         \* [party -> set of the active categories its CRM record names]
  Company            \* [party -> the company it belongs to]

NoProduct == "no product"
CLOSED == {"CLOSED_WON", "CLOSED_LOST"}

OpenCases(cases) == {c \in DOMAIN cases : cases[c].status \notin CLOSED}

\* The one element of a set of size one, otherwise the default.
Only(S, default) == IF Cardinality(S) = 1 THEN CHOOSE x \in S : TRUE ELSE default

(***************************************************************************)
(* A resolution: an existing case, a case to be opened, or neither (the    *)
(* email is left to a person).                                             *)
(***************************************************************************)
Unresolved == [case |-> 0, opens |-> {}]
Existing(c) == [case |-> c, opens |-> {}]
Opens(party, product, category, currency, subject) ==
  [case |-> 0,
   opens |-> {[contact |-> party, product |-> product, category |-> category,
               currency |-> currency, subject |-> subject, status |-> "ACTIVE"]}]

\* The currencies of the open cases of the party's company.
CustomerCurrencies(party, cases) ==
  {cases[c].currency : c \in {d \in OpenCases(cases) : Company[cases[d].contact] = Company[party]}}

\* A case of a known customer without one product: the currency it already
\* uses, if there is exactly one.
CustomerCurrency(party, cases) == Only(CustomerCurrencies(party, cases), "USD")

(***************************************************************************)
(* The email names no product: the CRM category, when it knows one.        *)
(***************************************************************************)
CategoryCase(mail, cases) ==
  LET category == Only(Interests[mail.party], "none")
      reusable == {c \in DOMAIN cases : /\ cases[c].contact = mail.party
                                        /\ cases[c].category = category
                                        /\ cases[c].status = "ACTIVE"}
  IN  IF category = "none" THEN Unresolved
      ELSE IF reusable # {} THEN Existing(CHOOSE c \in reusable : \A d \in reusable : d <= c)
      ELSE Opens(mail.party, NoProduct, category, CustomerCurrency(mail.party, cases), mail.subject)

(***************************************************************************)
(* The currency of a case for one product: its price's, narrowed by the    *)
(* customer's; INR when neither is known and no list is asked for.         *)
(***************************************************************************)
ProductCurrency(mail, product, cases) ==
  LET priced == PriceCurrencies[product]
      used   == CustomerCurrencies(mail.party, cases)
  IN  IF Cardinality(priced) = 1 THEN Only(priced, "none")
      ELSE IF Cardinality(priced \cap used) = 1 THEN Only(priced \cap used, "none")
      ELSE IF priced = {} /\ Cardinality(used) = 1 THEN Only(used, "none")
      ELSE IF priced = {} /\ used = {} /\ ~mail.list THEN "INR"
      ELSE "none"

(***************************************************************************)
(* The email names one active product.  recent: the cases with mail in the *)
(* last seven days or a quotation still valid.                             *)
(***************************************************************************)
ProductCase(mail, product, cases, recent) ==
  LET currency == ProductCurrency(mail, product, cases)
      related  == {c \in OpenCases(cases) \cap recent : /\ cases[c].contact = mail.party
                                                        /\ cases[c].product = product}
      strong   == {c \in related : /\ mail.re
                                   /\ cases[c].currency = currency
                                   /\ cases[c].subject = mail.subject}
  IN  IF currency = "none" THEN Unresolved
      ELSE IF Cardinality(strong) = 1 THEN Existing(Only(strong, 0))
      ELSE IF related # {} THEN Unresolved
      ELSE Opens(mail.party, product, "none", currency, mail.subject)

(***************************************************************************)
(* An email that belongs to no known thread, or to a campaign without a    *)
(* case.  contacts: the parties the CRM knows, once each.                  *)
(***************************************************************************)
NewInquiry(mail, contacts, cases, recent) ==
  IF mail.marker \/ mail.party \notin contacts THEN Unresolved
  ELSE IF mail.codes = {} /\ mail.list
       THEN Opens(mail.party, NoProduct, "none", CustomerCurrency(mail.party, cases), mail.subject)
  ELSE IF mail.codes = {} THEN CategoryCase(mail, cases)
  ELSE IF ~(mail.codes \subseteq ActiveProducts) THEN Unresolved
  ELSE IF Cardinality(mail.codes) > 1
       THEN Opens(mail.party, NoProduct, "none", CustomerCurrency(mail.party, cases), mail.subject)
  ELSE ProductCase(mail, Only(mail.codes, NoProduct), cases, recent)

(***************************************************************************)
(* match_case: linked is the set of cases that the messages it replies to  *)
(* belong to.  More than one, or one of another party, is ambiguous.       *)
(***************************************************************************)
Match(mail, linked, cases, subjectFallback) ==
  LET theirs    == {c \in linked : cases[c].contact = mail.party}
      sameTopic == {c \in DOMAIN cases : /\ cases[c].contact = mail.party
                                         /\ cases[c].subject = mail.subject}
  IN  IF linked # {}
      THEN [case |-> IF Cardinality(linked) = 1 THEN Only(theirs, 0) ELSE 0,
            ambiguous |-> Cardinality(linked) > 1 \/ theirs = {}]
      ELSE IF subjectFallback
      THEN [case |-> Only(sameTopic, 0), ambiguous |-> Cardinality(sameTopic) > 1]
      ELSE [case |-> 0, ambiguous |-> FALSE]

(***************************************************************************)
(* history.py: the case of an old email, by its thread or else among the   *)
(* party's open cases with no newer live mail (candidates).                *)
(***************************************************************************)
HistoryCase(mail, linked, candidates, cases) ==
  LET byThread  == {c \in linked : Cardinality(linked) = 1 /\ cases[c].contact = mail.party}
      byProduct == {c \in candidates : cases[c].product \in mail.codes}
      bySubject == {c \in candidates : cases[c].subject = mail.subject}
  IN  IF byThread # {} THEN Only(byThread, 0)
      ELSE IF mail.codes # {} THEN Only(byProduct, 0)
      ELSE IF Cardinality(bySubject) = 1 THEN Only(bySubject, 0)
      ELSE Only(candidates, 0)
=============================================================================
