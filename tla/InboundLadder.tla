--------------------------- MODULE InboundLadder ---------------------------
(***************************************************************************)
(* What process_inbound decides about a customer's email once a model has  *)
(* read it: a reply of some kind is drafted, a human gets the email with a *)
(* reason, or the email waits for the week's prices                        *)
(* (app/inbound/inbound_processing.py and the handlers it calls).          *)
(*                                                                         *)
(* A step of the ladder is an outcome; Next hands the email on to the      *)
(* step below it.                                                          *)
(*   r  the email as the model read it        c  the case                  *)
(*   s  the settings                          x  the world: the week's     *)
(*      prices, a clarification sent before, and what goes wrong           *)
(***************************************************************************)
EXTENDS Naturals, FiniteSets

RiskReason ==
    [counteroffer |-> "PRICE_NEGOTIATION", sample_request |-> "SAMPLE_REQUEST",
     order |-> "ORDER_COMMITMENT", shipping |-> "SHIPPING_REQUEST",
     technical |-> "TECHNICAL_REQUEST", complaint |-> "COMPLAINT"]
RiskIntents == DOMAIN RiskReason
Intents == RiskIntents \cup
    {"quote_request", "product_list_request", "coa_request", "unsubscribe", "other"}

\* product: what the message and its thread name.  For a case without a product
\* "ours" is the one active product they name, "other" a product that is not in the
\* catalog or not of the case's category, or several; "many" two or more in one request.
Reading ==
    [intent : Intents, auto : {"none", "quiet", "absence", "person", "departed", "recorded", "odd"},
     product : {"none", "ours", "other", "many", "manyUnknown"}, quantity : BOOLEAN,
     coa : BOOLEAN, asks : SUBSET {"prebook", "packaging", "delivery"}, attachment : BOOLEAN,
     sure : BOOLEAN, standard : BOOLEAN, explicit : BOOLEAN, unsubscribe : BOOLEAN]

CaseStatus == {"ACTIVE", "WAITING_HUMAN", "HUMAN_TAKEOVER", "PAUSED"}
SalesCase ==
    [status : CaseStatus, product : BOOLEAN, category : BOOLEAN, suppressed : BOOLEAN]

Settings ==
    [coaCatalog : BOOLEAN, coaAuto : BOOLEAN, quoteAuto : BOOLEAN, listAuto : BOOLEAN,
     research : BOOLEAN, dispositions : BOOLEAN]

\* What may go wrong on the way; each stops the step that meets it.
Problems ==
    {"none", "currency", "policy", "floor", "price", "coaFile", "text", "catalog", "render",
     "inactive", "noProducts", "research"}
World ==
    [price : {"AVAILABLE", "UNPRICED", "UNCOUNTED", "NO_STOCK"}, clarified : BOOLEAN,
     quoted : BOOLEAN, listed : BOOLEAN, problem : Problems]

-----------------------------------------------------------------------------
(* Outcomes *)

Next == [act |-> "next", what |-> "none"]
Wait == [act |-> "wait", what |-> "none"]
Ignore == [act |-> "ignore", what |-> "none"]
Retire == [act |-> "retire", what |-> "PERSONNEL_CHANGE"]
ToHuman(reason) == [act |-> "human", what |-> reason]
Draft(kind) == [act |-> "draft", what |-> kind]

Reasons == {RiskReason[i] : i \in RiskIntents} \cup
    {"BELOW_FLOOR", "NONSTANDARD", "LOW_CONFIDENCE", "ATTACHMENT_REVIEW", "SUPPRESSED",
     "HUMAN_CONTROL", "AI_FAILURE", "PREBOOK_REQUEST", "PACKAGING_REVIEW", "PERSONNEL_CHANGE",
     "AUTOMATED_REPLY_REVIEW", "NEW_INQUIRY_REVIEW", "INVENTORY_UNAVAILABLE",
     "PRODUCT_CATEGORY_REVIEW", "PRODUCT_LIST_REVIEW", "QUOTE_REVIEW", "COA_REVIEW"}

On(condition, outcome) == IF condition THEN outcome ELSE Next

\* The first step that decides.  (The steps are bound to a name so that TLC evaluates
\* them once.)
FirstOf(steps) == CHOOSE outcome \in {
    LET decides == {i \in DOMAIN ladder : ladder[i] # Next} IN
    IF decides = {} THEN Next ELSE ladder[CHOOSE i \in decides : \A j \in decides : i <= j]
    : ladder \in {steps}} : TRUE

-----------------------------------------------------------------------------
(* The policy every automatic reply has to pass *)

\* evaluate_send_policy: Next allows the reply.  stock: the goods are known to be there.
SendPolicy(r, c, stock) == FirstOf(<<
    On(r.intent \in RiskIntents, ToHuman(RiskReason[r.intent])),
    On("prebook" \in r.asks, ToHuman("PREBOOK_REQUEST")),
    On("packaging" \in r.asks, ToHuman("PACKAGING_REVIEW")),
    On("delivery" \in r.asks /\ ~stock, ToHuman("SHIPPING_REQUEST")),
    On(c.status # "ACTIVE", ToHuman("HUMAN_CONTROL")),
    On(c.suppressed, ToHuman("SUPPRESSED")),
    On(r.attachment, ToHuman("ATTACHMENT_REVIEW")),
    On(~r.sure, ToHuman("LOW_CONFIDENCE")),
    On(~r.standard \/ r.product = "other", ToHuman("NONSTANDARD")) >>)

\* What a handler does not take from the email it passes as harmless.
Known(r) == [r EXCEPT !.product = "ours", !.standard = TRUE]
Generic(r) == [Known(r) EXCEPT !.asks = {}]
Standard(r) == [r EXCEPT !.standard = TRUE]

-----------------------------------------------------------------------------
(* The steps of the ladder *)

\* _handle_automated_reply.  auto: "quiet" is an absence, an acknowledgement or a
\* notice; "absence" one the dispositions could not apply; "person" a change that a
\* human wrote about; "departed" one that the transport marks; "recorded" one that
\* ingestion has dealt with.
AutomatedReply(r, s) == FirstOf(<<
    On(r.auto = "absence" /\ s.dispositions, ToHuman("AUTOMATED_REPLY_REVIEW")),
    On(r.auto \in {"quiet", "absence"}, Ignore),
    On(r.auto = "departed" /\ s.dispositions, ToHuman("PERSONNEL_CHANGE")),
    On(r.auto \in {"departed", "person"} /\ ~s.dispositions, Retire),
    On(r.auto = "odd", ToHuman("AUTOMATED_REPLY_REVIEW")) >>)

\* _maybe_handle_coa_request; found: which of the certificates the catalog has.
CoaStep(r, c, s, found) ==
    IF ~(r.coa \/ r.intent = "coa_request") THEN Next ELSE FirstOf(<<
    On(~s.coaCatalog \/ found = "none" \/ ~s.coaAuto, ToHuman("COA_REVIEW")),
    SendPolicy(Generic(r), c, TRUE),
    Draft("coa") >>)

\* _augment_pending_quote_context: a case without a product takes the one the thread names.
Learns(r, c) == ~c.product /\ r.intent = "quote_request" /\ r.product = "ours"
Augmented(r, c) ==
    IF Learns(r, c) THEN [c EXCEPT !.product = TRUE, !.category = TRUE] ELSE c
Conflict(r, c) == On(~c.product /\ r.intent = "quote_request" /\ r.product = "other",
                     ToHuman("NONSTANDARD"))

\* _maybe_send_quote_clarification; missing: products asked for without a quantity.
Clarify(r, c, x, missing) ==
    IF ~(missing \/ (c.product /\ ~r.quantity) \/ (~c.product /\ r.product = "none")) THEN Next
    ELSE FirstOf(<<
    On(x.clarified, ToHuman("HUMAN_CONTROL")),
    SendPolicy(Known(r), c, FALSE),
    On(x.problem = "render", ToHuman("AI_FAILURE")),
    Draft("clarification") >>)

\* _commercial_quote_context and the checks of the price it returns.
Price(x) == FirstOf(<<
    On(x.price = "UNPRICED", Wait),
    On(x.problem = "policy", ToHuman("NONSTANDARD")),
    On(x.price = "UNCOUNTED", Wait),
    On(x.price = "NO_STOCK", ToHuman("INVENTORY_UNAVAILABLE")) >>)
Pricing(x) == FirstOf(<<
    On(x.problem = "floor", ToHuman("BELOW_FLOOR")),
    On(x.problem = "price", ToHuman("NONSTANDARD")) >>)

\* _maybe_send_multi_product_quote.
MultiQuote(r, c, x) ==
    IF c.product \/ r.product \notin {"many", "manyUnknown"} THEN Next ELSE FirstOf(<<
    On(r.product = "manyUnknown", ToHuman("NEW_INQUIRY_REVIEW")),
    On(~r.quantity, Clarify(r, c, x, TRUE)),
    Price(x), Pricing(x),
    SendPolicy([r EXCEPT !.sure = TRUE], c, TRUE),
    On(r.coa /\ x.problem = "coaFile", ToHuman("COA_REVIEW")),
    Draft("multi") >>)

\* prepare_single_product_quote.  The quantity of an earlier quote stands for one that
\* the email leaves out.
SingleQuote(r, c, x) == FirstOf(<<
    On(x.quoted /\ x.problem = "currency", ToHuman("NONSTANDARD")),
    On(~r.quantity /\ ~x.quoted, Clarify(r, c, x, FALSE)),
    Price(x),
    SendPolicy(r, c, TRUE),
    Pricing(x),
    On(r.coa /\ x.problem = "coaFile", ToHuman("COA_REVIEW")),
    On(x.problem = "text", ToHuman("NONSTANDARD")),
    Draft("quote") >>)

\* _maybe_send_general_product_list: only a list that is staged already falls through.
GeneralList(r, c, x) == FirstOf(<<
    On(x.problem = "catalog", ToHuman("PRODUCT_LIST_REVIEW")),
    SendPolicy(Generic(r), c, TRUE),
    On(~x.listed, Draft("list")) >>)

\* _maybe_send_product_list.
CategoryList(r, c, x) ==
    IF ~c.category THEN Next ELSE FirstOf(<<
    On(x.problem = "inactive", ToHuman("HUMAN_CONTROL")),
    SendPolicy(Standard(r), c, FALSE),
    On(x.problem = "noProducts", ToHuman("HUMAN_CONTROL")),
    On(x.problem = "catalog", ToHuman("AI_FAILURE")),
    Draft("category") >>)

\* _maybe_research_and_send_product_list: the model's opinion of a company ends with a
\* human, unless it passes the gate and may choose the category.
Research(r, c, s, x) ==
    IF ~r.explicit THEN Next ELSE FirstOf(<<
    SendPolicy(Standard(r), c, FALSE),
    On(~s.research \/ x.problem \in {"noProducts", "research"}, ToHuman("PRODUCT_CATEGORY_REVIEW")),
    CategoryList(r, [c EXCEPT !.category = TRUE], x) >>)

\* process_inbound after the certificates: the case has no product.
Pending(r, c, s, x) ==
    LET list == r.intent = "product_list_request" IN FirstOf(<<
    On(r.intent \in RiskIntents, ToHuman(RiskReason[r.intent])),
    On(list, GeneralList(r, c, x)),
    On(list /\ c.category, CategoryList(r, c, x)),
    On(list /\ ~c.category, Research(r, c, s, x)),
    On(r.intent = "quote_request", MultiQuote(r, c, x)),
    On(r.intent = "quote_request", Clarify(r, c, x, FALSE)),
    ToHuman(IF list THEN "PRODUCT_CATEGORY_REVIEW" ELSE "HUMAN_CONTROL") >>)

\* ... and when it has one.
WithProduct(r, c, x) ==
    LET list == r.intent = "product_list_request" IN FirstOf(<<
    On(list, GeneralList(r, c, x)),
    On(list, CategoryList(r, c, x)),
    On(r.intent # "quote_request", SendPolicy(r, c, FALSE)),
    On(r.intent # "quote_request", ToHuman("LOW_CONFIDENCE")),
    SingleQuote(r, c, x) >>)

\* A certificate asked for beside another request is no part of what follows.
Remaining(r) == IF r.intent = "coa_request" THEN r ELSE [r EXCEPT !.coa = FALSE]

Route(r, c, s, x) ==
    LET rest == Remaining(r)  known == Augmented(rest, c) IN
    FirstOf(<<
    Conflict(rest, c),
    IF known.product THEN WithProduct(rest, known, x) ELSE Pending(rest, known, s, x) >>)

-----------------------------------------------------------------------------
(* A draft that is written *)

Quotes == {"quote", "multi"}
Lists == {"list", "category"}
ByModel == Quotes \cup Lists
Automatic(kind, s) == IF kind \in Lists THEN s.listAuto ELSE s.quoteAuto
Review(kind) == ToHuman(IF kind \in Lists THEN "PRODUCT_LIST_REVIEW" ELSE "QUOTE_REVIEW")
=============================================================================
