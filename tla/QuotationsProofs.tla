-------------------------- MODULE QuotationsProofs --------------------------
(***************************************************************************)
(* Theorems about Quotations, for any number of workers, emails, weeks and *)
(* price lists, and any set of emails, settings and problems: the types    *)
(* (QuotationTypes), that no email is forgotten (EveryEmailIsHeard), that  *)
(* its jobs and quotes take turns (OneQuoteAtATime), that no reply is      *)
(* cancelled without a reason (CancelledForAReason), and that a quote on   *)
(* its way is priced as the list in force says (PricesHold).               *)
(*                                                                         *)
(* An email is forgotten when its last job ends and nothing was written    *)
(* for it.  The job ends without an answer of its own where a key is       *)
(* taken, so the invariant has to say what a key that is taken means: it   *)
(* holds a reply, or one that was cancelled for a reason that still holds  *)
(* (Excuses).  A quote is cancelled for a new one when its prices are      *)
(* stale; that the new one is on its way then needs an order among the     *)
(* weeks of jobs, drafts and quotes (Calendar), and that an email has one  *)
(* job at a time and none while its quote is due (Turns).  Whether a case  *)
(* has the product that its quotes are for is in Products.                 *)
(*                                                                         *)
(* First, what the ladder of InboundLadder may decide at all; then what    *)
(* each step may do to the jobs, the workers and what they write; then the *)
(* steps.  QuotesAreCurrent comes last, with an invariant of its own.      *)
(***************************************************************************)
EXTENDS Quotations, Sequences, TLAPS

-----------------------------------------------------------------------------
(* The outcomes of the ladder *)

LEMMA Smallest ==
    ASSUME NEW S, S \subseteq 1..9, S # {}
    PROVE  \E i \in S : \A j \in S : i <= j
<1>1. \A j \in S : j \in {1, 2, 3, 4, 5, 6, 7, 8, 9}
  OBVIOUS
<1>2. \/ 1 \in S
      \/ 2 \in S /\ 1 \notin S
      \/ 3 \in S /\ {1, 2} \cap S = {}
      \/ 4 \in S /\ {1, 2, 3} \cap S = {}
      \/ 5 \in S /\ {1, 2, 3, 4} \cap S = {}
      \/ 6 \in S /\ {1, 2, 3, 4, 5} \cap S = {}
      \/ 7 \in S /\ {1, 2, 3, 4, 5, 6} \cap S = {}
      \/ 8 \in S /\ {1, 2, 3, 4, 5, 6, 7} \cap S = {}
      \/ 9 \in S /\ {1, 2, 3, 4, 5, 6, 7, 8} \cap S = {}
  BY <1>1
<1>3. QED BY <1>1, <1>2

\* The outcome of a ladder is that of one of its steps.
LEMMA OneStepDecides ==
    ASSUME NEW T, Next \in T, NEW steps \in Seq(T), Len(steps) <= 9
    PROVE  FirstOf(steps) \in T
<1> DEFINE decides == {i \in DOMAIN steps : steps[i] # Next}
           least == CHOOSE i \in decides : \A j \in decides : i <= j
           outcome == IF decides = {} THEN Next ELSE steps[least]
<1>1. FirstOf(steps) = CHOOSE o \in {outcome} : TRUE
  BY DEF FirstOf
<1>2. FirstOf(steps) = outcome
  BY <1>1
<1>3. decides \subseteq 1..9
  OBVIOUS
<1>4. decides # {} => least \in decides
  BY <1>3, Smallest
<1>5. QED BY <1>2, <1>4

-----------------------------------------------------------------------------
\* What a ladder may say of an email, and what it may say without quoting one product.
Gate == {Next} \cup {ToHuman(reason) : reason \in Reasons}
Unquoted == Gate \cup {Wait} \cup {Draft(kind) : kind \in Kinds}
Verdict == Unquoted \cup {Draft("quote")}

LEMMA Verdicts ==
    /\ Next \in Gate /\ Gate \subseteq Unquoted /\ Unquoted \subseteq Verdict
    /\ Wait \in Unquoted /\ Draft("quote") \in Verdict
    /\ \A kind \in Kinds : Draft(kind) \in Unquoted
  BY DEF Gate, Unquoted, Verdict

LEMMA NamedReasons ==
    /\ {"BELOW_FLOOR", "NONSTANDARD", "LOW_CONFIDENCE", "ATTACHMENT_REVIEW", "SUPPRESSED",
        "HUMAN_CONTROL", "AI_FAILURE", "PREBOOK_REQUEST", "PACKAGING_REVIEW", "PERSONNEL_CHANGE",
        "AUTOMATED_REPLY_REVIEW", "NEW_INQUIRY_REVIEW", "INVENTORY_UNAVAILABLE",
        "PRODUCT_CATEGORY_REVIEW", "PRODUCT_LIST_REVIEW", "QUOTE_REVIEW", "COA_REVIEW",
        "SHIPPING_REQUEST"} \subseteq Reasons
    /\ \A i \in RiskIntents : RiskReason[i] \in Reasons
    /\ "none" \notin Reasons
<1>1. RiskIntents =
          {"counteroffer", "sample_request", "order", "shipping", "technical", "complaint"}
  BY DEF RiskIntents, RiskReason
<1>2. \A i \in RiskIntents : RiskReason[i] \in Reasons
  BY DEF Reasons
<1>3. RiskReason["shipping"] = "SHIPPING_REQUEST"
  BY DEF RiskReason
<1>4. \A i \in RiskIntents : RiskReason[i] # "none"
  BY <1>1 DEF RiskReason
<1>5. "none" \notin Reasons
  BY <1>4 DEF Reasons
<1>6. "SHIPPING_REQUEST" \in Reasons
  BY <1>1, <1>2, <1>3
<1>7. QED BY <1>2, <1>5, <1>6 DEF Reasons

\* A step that may send the email to a human.
LEMMA HumanStep ==
    ASSUME NEW condition, NEW reason, condition => reason \in Reasons
    PROVE  On(condition, ToHuman(reason)) \in Gate
  BY DEF On, Gate

LEMMA GoOn == ASSUME NEW T, Next \in T, NEW condition, NEW outcome, condition => outcome \in T
              PROVE  On(condition, outcome) \in T
  BY DEF On

LEMMA PolicyIsGate ==
    ASSUME NEW r, NEW c, NEW stock PROVE SendPolicy(r, c, stock) \in Gate
<1> DEFINE s1 == On(r.intent \in RiskIntents, ToHuman(RiskReason[r.intent]))
           s2 == On("prebook" \in r.asks, ToHuman("PREBOOK_REQUEST"))
           s3 == On("packaging" \in r.asks, ToHuman("PACKAGING_REVIEW"))
           s4 == On("delivery" \in r.asks /\ ~stock, ToHuman("SHIPPING_REQUEST"))
           s5 == On(c.status # "ACTIVE", ToHuman("HUMAN_CONTROL"))
           s6 == On(c.suppressed, ToHuman("SUPPRESSED"))
           s7 == On(r.attachment, ToHuman("ATTACHMENT_REVIEW"))
           s8 == On(~r.sure, ToHuman("LOW_CONFIDENCE"))
           s9 == On(~r.standard \/ r.product = "other", ToHuman("NONSTANDARD"))
<1>1. /\ s1 \in Gate /\ s2 \in Gate /\ s3 \in Gate /\ s4 \in Gate /\ s5 \in Gate /\ s6 \in Gate
      /\ s7 \in Gate /\ s8 \in Gate /\ s9 \in Gate
  BY NamedReasons, HumanStep
<1>2. SendPolicy(r, c, stock) = FirstOf(<<s1, s2, s3, s4, s5, s6, s7, s8, s9>>)
  BY DEF SendPolicy
<1> HIDE DEF s1, s2, s3, s4, s5, s6, s7, s8, s9
<1>3. <<s1, s2, s3, s4, s5, s6, s7, s8, s9>> \in Seq(Gate)
  BY <1>1
<1>4. Len(<<s1, s2, s3, s4, s5, s6, s7, s8, s9>>) <= 9
  OBVIOUS
<1>5. QED BY <1>2, <1>3, <1>4, Verdicts, OneStepDecides

\* A ladder of steps that each may decide so decides so.
LEMMA TwoSteps ==
    ASSUME NEW T, Next \in T, NEW a \in T, NEW b \in T PROVE FirstOf(<<a, b>>) \in T
  BY <<a, b>> \in Seq(T), Len(<<a, b>>) <= 9, OneStepDecides
LEMMA ThreeSteps ==
    ASSUME NEW T, Next \in T, NEW a \in T, NEW b \in T, NEW c \in T
    PROVE  FirstOf(<<a, b, c>>) \in T
  BY <<a, b, c>> \in Seq(T), Len(<<a, b, c>>) <= 9, OneStepDecides
LEMMA FourSteps ==
    ASSUME NEW T, Next \in T, NEW a \in T, NEW b \in T, NEW c \in T, NEW d \in T
    PROVE  FirstOf(<<a, b, c, d>>) \in T
  BY <<a, b, c, d>> \in Seq(T), Len(<<a, b, c, d>>) <= 9, OneStepDecides
LEMMA FiveSteps ==
    ASSUME NEW T, Next \in T, NEW a \in T, NEW b \in T, NEW c \in T, NEW d \in T, NEW e \in T
    PROVE  FirstOf(<<a, b, c, d, e>>) \in T
  BY <<a, b, c, d, e>> \in Seq(T), Len(<<a, b, c, d, e>>) <= 9, OneStepDecides
LEMMA SevenSteps ==
    ASSUME NEW T, Next \in T, NEW a \in T, NEW b \in T, NEW c \in T, NEW d \in T, NEW e \in T,
           NEW f \in T, NEW g \in T
    PROVE  FirstOf(<<a, b, c, d, e, f, g>>) \in T
  BY <<a, b, c, d, e, f, g>> \in Seq(T), Len(<<a, b, c, d, e, f, g>>) <= 9, OneStepDecides
LEMMA EightSteps ==
    ASSUME NEW T, Next \in T, NEW a \in T, NEW b \in T, NEW c \in T, NEW d \in T, NEW e \in T,
           NEW f \in T, NEW g \in T, NEW h \in T
    PROVE  FirstOf(<<a, b, c, d, e, f, g, h>>) \in T
  BY <<a, b, c, d, e, f, g, h>> \in Seq(T), Len(<<a, b, c, d, e, f, g, h>>) <= 9, OneStepDecides

LEMMA PriceIsUnquoted ==
    ASSUME NEW x PROVE Price(x) \in Unquoted /\ Pricing(x) \in Gate
<1>1. /\ On(x.price = "UNPRICED", Wait) \in Unquoted
      /\ On(x.price = "UNCOUNTED", Wait) \in Unquoted
  BY Verdicts DEF On
<1>2. /\ On(x.problem = "policy", ToHuman("NONSTANDARD")) \in Gate
      /\ On(x.price = "NO_STOCK", ToHuman("INVENTORY_UNAVAILABLE")) \in Gate
      /\ On(x.problem = "floor", ToHuman("BELOW_FLOOR")) \in Gate
      /\ On(x.problem = "price", ToHuman("NONSTANDARD")) \in Gate
  BY NamedReasons, HumanStep
<1>3. Price(x) \in Unquoted
  BY <1>1, <1>2, Verdicts, FourSteps DEF Price
<1>4. QED BY <1>2, <1>3, Verdicts, TwoSteps DEF Pricing

LEMMA ClarifyIsUnquoted ==
    ASSUME NEW r, NEW c, NEW x, NEW missing PROVE Clarify(r, c, x, missing) \in Unquoted
<1> DEFINE sent == On(x.clarified, ToHuman("HUMAN_CONTROL"))
           allowed == SendPolicy(Known(r), c, FALSE)
           rendered == On(x.problem = "render", ToHuman("AI_FAILURE"))
           asked == Draft("clarification")
<1>1. sent \in Gate /\ rendered \in Gate
  BY NamedReasons, HumanStep
<1>2. allowed \in Gate
  BY PolicyIsGate
<1>3. asked \in Unquoted
  BY Verdicts DEF Kinds
<1>4. Clarify(r, c, x, missing) \in {Next, FirstOf(<<sent, allowed, rendered, asked>>)}
  BY Zenon DEF Clarify
<1> HIDE DEF sent, allowed, rendered, asked
<1>5. FirstOf(<<sent, allowed, rendered, asked>>) \in Unquoted
  BY <1>1, <1>2, <1>3, Verdicts, FourSteps
<1>6. QED BY <1>4, <1>5, Verdicts

LEMMA MultiIsUnquoted ==
    ASSUME NEW r, NEW c, NEW x PROVE MultiQuote(r, c, x) \in Unquoted
<1> DEFINE unknown == On(r.product = "manyUnknown", ToHuman("NEW_INQUIRY_REVIEW"))
           asked == On(~r.quantity, Clarify(r, c, x, TRUE))
           price == Price(x)
           pricing == Pricing(x)
           allowed == SendPolicy([r EXCEPT !.sure = TRUE], c, TRUE)
           file == On(r.coa /\ x.problem = "coaFile", ToHuman("COA_REVIEW"))
           quoted == Draft("multi")
<1>1. unknown \in Gate /\ file \in Gate
  BY NamedReasons, HumanStep
<1>2. asked \in Unquoted
  BY ClarifyIsUnquoted, Verdicts, GoOn
<1>3. price \in Unquoted /\ pricing \in Gate
  BY PriceIsUnquoted
<1>4. allowed \in Gate
  BY PolicyIsGate
<1>5. quoted \in Unquoted
  BY Verdicts DEF Kinds
<1>6. MultiQuote(r, c, x) \in
          {Next, FirstOf(<<unknown, asked, price, pricing, allowed, file, quoted>>)}
  BY Zenon DEF MultiQuote
<1> HIDE DEF unknown, asked, price, pricing, allowed, file, quoted
<1>7. FirstOf(<<unknown, asked, price, pricing, allowed, file, quoted>>) \in Unquoted
  BY <1>1, <1>2, <1>3, <1>4, <1>5, Verdicts, SevenSteps
<1>8. QED BY <1>6, <1>7, Verdicts

LEMMA SingleIsVerdict ==
    ASSUME NEW r, NEW c, NEW x PROVE SingleQuote(r, c, x) \in Verdict
<1>1. /\ On(x.quoted /\ x.problem = "currency", ToHuman("NONSTANDARD")) \in Gate
      /\ On(r.coa /\ x.problem = "coaFile", ToHuman("COA_REVIEW")) \in Gate
      /\ On(x.problem = "text", ToHuman("NONSTANDARD")) \in Gate
  BY NamedReasons, HumanStep
<1>2. On(~r.quantity /\ ~x.quoted, Clarify(r, c, x, FALSE)) \in Unquoted
  BY ClarifyIsUnquoted, Verdicts, GoOn
<1>3. Price(x) \in Unquoted /\ Pricing(x) \in Gate
  BY PriceIsUnquoted
<1>4. SendPolicy(r, c, TRUE) \in Gate
  BY PolicyIsGate
<1>5. QED BY <1>1, <1>2, <1>3, <1>4, Verdicts, EightSteps DEF SingleQuote

LEMMA ListsAreUnquoted ==
    ASSUME NEW r, NEW c, NEW x
    PROVE  GeneralList(r, c, x) \in Unquoted /\ CategoryList(r, c, x) \in Unquoted
<1>1. /\ On(x.problem = "catalog", ToHuman("PRODUCT_LIST_REVIEW")) \in Gate
      /\ On(x.problem = "inactive", ToHuman("HUMAN_CONTROL")) \in Gate
      /\ On(x.problem = "noProducts", ToHuman("HUMAN_CONTROL")) \in Gate
      /\ On(x.problem = "catalog", ToHuman("AI_FAILURE")) \in Gate
  BY NamedReasons, HumanStep
<1>2. /\ SendPolicy(Generic(r), c, TRUE) \in Gate
      /\ SendPolicy(Standard(r), c, FALSE) \in Gate
  BY PolicyIsGate
<1>3. On(~x.listed, Draft("list")) \in Unquoted /\ Draft("category") \in Unquoted
  BY Verdicts DEF Kinds, On
<1>4. GeneralList(r, c, x) \in Unquoted
  BY <1>1, <1>2, <1>3, Verdicts, ThreeSteps DEF GeneralList
<1>5. CategoryList(r, c, x) \in Unquoted
  BY <1>1, <1>2, <1>3, Verdicts, FiveSteps DEF CategoryList
<1>6. QED BY <1>4, <1>5

LEMMA ResearchIsUnquoted ==
    ASSUME NEW r, NEW c, NEW s, NEW x PROVE Research(r, c, s, x) \in Unquoted
<1>1. On(~s.research \/ x.problem \in {"noProducts", "research"},
         ToHuman("PRODUCT_CATEGORY_REVIEW")) \in Gate
  BY NamedReasons, HumanStep
<1>2. SendPolicy(Standard(r), c, FALSE) \in Gate
  BY PolicyIsGate
<1>3. CategoryList(r, [c EXCEPT !.category = TRUE], x) \in Unquoted
  BY ListsAreUnquoted
<1>4. QED BY <1>1, <1>2, <1>3, Verdicts, ThreeSteps DEF Research

\* A case without a product gets no quote for one.
LEMMA PendingIsUnquoted ==
    ASSUME NEW r, NEW c, NEW s, NEW x PROVE Pending(r, c, s, x) \in Unquoted
<1> DEFINE list == r.intent = "product_list_request"
<1>1. /\ On(r.intent \in RiskIntents, ToHuman(RiskReason[r.intent])) \in Gate
  BY NamedReasons, HumanStep
<1>2. /\ On(list, GeneralList(r, c, x)) \in Unquoted
      /\ On(list /\ c.category, CategoryList(r, c, x)) \in Unquoted
      /\ On(list /\ ~c.category, Research(r, c, s, x)) \in Unquoted
      /\ On(r.intent = "quote_request", MultiQuote(r, c, x)) \in Unquoted
      /\ On(r.intent = "quote_request", Clarify(r, c, x, FALSE)) \in Unquoted
  BY ListsAreUnquoted, ResearchIsUnquoted, MultiIsUnquoted, ClarifyIsUnquoted, Verdicts, GoOn
<1>3. ToHuman(IF list THEN "PRODUCT_CATEGORY_REVIEW" ELSE "HUMAN_CONTROL") \in Gate
  BY NamedReasons DEF Gate
<1>4. QED BY <1>1, <1>2, <1>3, Verdicts, SevenSteps DEF Pending

LEMMA WithProductIsVerdict ==
    ASSUME NEW r, NEW c, NEW x PROVE WithProduct(r, c, x) \in Verdict
<1> DEFINE list == r.intent = "product_list_request"
<1>1. /\ On(list, GeneralList(r, c, x)) \in Unquoted
      /\ On(list, CategoryList(r, c, x)) \in Unquoted
      /\ On(r.intent # "quote_request", SendPolicy(r, c, FALSE)) \in Unquoted
      /\ On(r.intent # "quote_request", ToHuman("LOW_CONFIDENCE")) \in Unquoted
  BY ListsAreUnquoted, PolicyIsGate, NamedReasons, HumanStep, Verdicts, GoOn
<1>2. QED BY <1>1, SingleIsVerdict, Verdicts, FiveSteps DEF WithProduct

\* What process_inbound finds is one of its outcomes, and it quotes a product only for a
\* case that has one, or learns it from the thread.
LEMMA RouteQuotesAProduct ==
    ASSUME NEW r \in Reading, NEW c, NEW s, NEW x
    PROVE  /\ Route(r, c, s, x) \in Verdict
           /\ Route(r, c, s, x) \in Unquoted \/ c.product \/ Learns(r, c)
<1> DEFINE rest == Remaining(r)
           known == Augmented(rest, c)
           answer == IF known.product THEN WithProduct(rest, known, x)
                     ELSE Pending(rest, known, s, x)
<1>1. Learns(rest, c) = Learns(r, c)
  BY DEF Remaining, Learns, Reading
<1>2. Conflict(rest, c) \in Gate
  BY NamedReasons, HumanStep DEF Conflict
<1>3. Route(r, c, s, x) = FirstOf(<<Conflict(rest, c), answer>>)
  BY DEF Route
<1>4. answer \in Verdict
  BY WithProductIsVerdict, PendingIsUnquoted, Verdicts
<1>5. ~(c.product \/ Learns(r, c)) => answer \in Unquoted
  BY <1>1, PendingIsUnquoted DEF Augmented
<1> HIDE DEF rest, known, answer
<1>6. Route(r, c, s, x) \in Verdict
  BY <1>2, <1>3, <1>4, Verdicts, TwoSteps
<1>7. ~(c.product \/ Learns(r, c)) => Route(r, c, s, x) \in Unquoted
  BY <1>2, <1>3, <1>5, Verdicts, TwoSteps
<1>8. QED BY <1>6, <1>7

\* _handle_automated_reply and _maybe_handle_coa_request.
LEMMA MachineIsAnswered ==
    ASSUME NEW r, NEW s PROVE AutomatedReply(r, s) \in Gate \cup {Ignore, Retire}
<1> DEFINE T == Gate \cup {Ignore, Retire}
           s1 == On(r.auto = "absence" /\ s.dispositions, ToHuman("AUTOMATED_REPLY_REVIEW"))
           s2 == On(r.auto \in {"quiet", "absence"}, Ignore)
           s3 == On(r.auto = "departed" /\ s.dispositions, ToHuman("PERSONNEL_CHANGE"))
           s4 == On(r.auto \in {"departed", "person"} /\ ~s.dispositions, Retire)
           s5 == On(r.auto = "odd", ToHuman("AUTOMATED_REPLY_REVIEW"))
<1>1. s1 \in Gate /\ s3 \in Gate /\ s5 \in Gate
  BY NamedReasons, HumanStep
<1>2. Next \in T
  BY Verdicts
<1>3. s2 \in T /\ s4 \in T
  BY <1>2, GoOn
<1>4. AutomatedReply(r, s) = FirstOf(<<s1, s2, s3, s4, s5>>)
  BY DEF AutomatedReply
<1>5. s1 \in T /\ s3 \in T /\ s5 \in T
  BY <1>1
<1> HIDE DEF s1, s2, s3, s4, s5, T
<1>6. FirstOf(<<s1, s2, s3, s4, s5>>) \in T
  BY <1>2, <1>3, <1>5, FiveSteps
<1>7. QED BY <1>4, <1>6 DEF T

LEMMA CertificateIsHandled ==
    ASSUME NEW r, NEW c, NEW s, NEW found
    PROVE  CoaStep(r, c, s, found) \in Gate \cup {Draft("coa")}
<1> DEFINE T == Gate \cup {Draft("coa")}
           review == On(~s.coaCatalog \/ found = "none" \/ ~s.coaAuto, ToHuman("COA_REVIEW"))
           allowed == SendPolicy(Generic(r), c, TRUE)
           staged == Draft("coa")
<1>1. review \in T /\ allowed \in T /\ staged \in T /\ Next \in T
  BY NamedReasons, HumanStep, PolicyIsGate, Verdicts
<1>2. CoaStep(r, c, s, found) \in {Next, FirstOf(<<review, allowed, staged>>)}
  BY Zenon DEF CoaStep
<1> HIDE DEF review, allowed, staged, T
<1>3. FirstOf(<<review, allowed, staged>>) \in T
  BY <1>1, ThreeSteps
<1>4. QED BY <1>1, <1>2, <1>3 DEF T

\* What the outcomes carry.
LEMMA HumansGetReasons ==
    /\ \A o \in Verdict : o.act = "human" => o.what \in Reasons
    /\ \A o \in Verdict : o.act = "draft" => o.what \in Kinds \cup {"quote"}
    /\ \A o \in Unquoted : o.act = "draft" => o.what \in Kinds
    /\ \A o \in Gate \cup {Draft("coa")} : o.act = "human" => o.what \in Reasons
    /\ \A o \in Gate \cup {Ignore, Retire} : o \notin {Next, Ignore} => o.what \in Reasons
  BY NamedReasons DEF Verdict, Unquoted, Gate, ToHuman, Draft, Next, Wait, Ignore, Retire

-----------------------------------------------------------------------------
(* What the records hold *)

\* The parts of the invariant that say of each record what it may hold.
HoldsJob(w) == worker[w].job \in Jobs /\ jobs[worker[w].job].status = "RUNNING"
JobsHeld ==
    /\ \A w \in Workers : ~At(w, "idle") => HoldsJob(w)
    /\ \A v, w \in Workers :
           ~At(v, "idle") /\ ~At(w, "idle") /\ v # w => worker[v].job # worker[w].job
AttemptsCounted == \A j \in Jobs :
    /\ jobs[j].attempts <= MaxAttempts + crashes
    /\ jobs[j].status = "ABSENT" => jobs[j].attempts = 0
    /\ jobs[j].status = "PENDING" => jobs[j].attempts < MaxAttempts + crashes
    /\ jobs[j].status = "RUNNING" => jobs[j].attempts >= 1
Drafts == \A w \in Workers : At(w, "draft") =>
    /\ worker[w].kind \in Kinds \cup {"quote"} /\ worker[w].week \in Weeks
    /\ worker[w].kind = "quote" => worker[w].seen.product \/ worker[w].learned
Records == TypeOK /\ JobsHeld /\ AttemptsCounted /\ Drafts

-----------------------------------------------------------------------------
(* What a step may do to the records *)

JobBecomes(j, st, n) ==
    jobs' = [i \in Jobs |-> IF i = j THEN [status |-> st, attempts |-> n] ELSE jobs[i]]
WorkerBecomes(w, x) == worker' = [v \in Workers |-> IF v = w THEN x ELSE worker[v]]

\* The data a worker commits: it only ever adds to the case, to the handoffs and to the rows.
CaseGrows(c, d) ==
    /\ d \in SalesCase
    /\ c.product => d.product
    /\ c.suppressed => d.suppressed
    /\ c.status # "ACTIVE" => d.status # "ACTIVE"
Grows ==
    /\ CaseGrows(case, case')
    /\ handoffs' \in [Emails -> Reasons \cup {"none"}]
    /\ \A e \in Emails : handoffs[e] # "none" => handoffs'[e] # "none"
    /\ edits' >= edits
    /\ UNCHANGED given
RowsGrow ==
    /\ rows' \in [Key -> Row]
    /\ \A k \in Key :
           \/ rows'[k] = rows[k]
           \/ /\ k.kind # "quote" /\ rows'[k].status = "PENDING"
              /\ k.kind = "coa" \/ ~Written(k)
Troubles ==
    /\ crashes' \in Nat /\ edits' \in Nat
    /\ crashes' + edits' <= MaxTroubles /\ crashes' >= crashes

\* A job that is over before it is begun, or is begun.
NotStarted(w, j) ==
    /\ j \in Jobs /\ jobs[j].status = "PENDING" /\ At(w, "idle")
    /\ JobBecomes(j, "DONE", jobs[j].attempts + 1) /\ UNCHANGED worker
Started(w, j) ==
    /\ j \in Jobs /\ jobs[j].status = "PENDING" /\ At(w, "idle")
    /\ JobBecomes(j, "RUNNING", jobs[j].attempts + 1)
    /\ WorkerBecomes(w, [Idle EXCEPT !.pc = "analyze", !.job = j, !.seen = case])

GoesOn(w) == \E x \in WorkerState :
    /\ ~At(w, "idle") /\ WorkerBecomes(w, x) /\ UNCHANGED jobs
    /\ x.pc \in {"route", "draft"} /\ x.job = worker[w].job /\ x.seen = worker[w].seen
    /\ x.pc = "draft" =>
        /\ x.kind \in Kinds \cup {"quote"} /\ x.week = prices.week
        /\ x.kind = "quote" => x.seen.product \/ x.learned

\* The worker stops, and its job ends or is due again.
Finishes(w, st) == \E n \in Nat :
    LET j == worker[w].job IN
    /\ ~At(w, "idle") /\ st \in {"PENDING", "DONE", "FAILED"}
    /\ JobBecomes(j, st, n) /\ WorkerBecomes(w, Idle)
    /\ n <= jobs[j].attempts
    /\ st = "PENDING" => n < MaxAttempts + crashes'

-----------------------------------------------------------------------------
LEMMA JobParts ==
    ASSUME NEW j \in Jobs PROVE j[1] \in Emails /\ j[2] \in 0..MaxWeeks /\ j = <<j[1], j[2]>>
  BY DEF Jobs

LEMMA IdleIsWorker ==
    /\ Idle \in WorkerState /\ Idle.pc = "idle" /\ Fresh \in SalesCase
  BY QuotationAssumption DEF Idle, Fresh, WorkerState, SalesCase, CaseStatus

LEMMA JobStep ==
    ASSUME TypeOK, NEW j \in Jobs, NEW st \in {"PENDING", "RUNNING", "DONE", "FAILED"},
           NEW n \in 0..(MaxAttempts + MaxTroubles), JobBecomes(j, st, n)
    PROVE  /\ jobs' \in [Jobs -> JobRow]
           /\ jobs'[j].status = st /\ jobs'[j].attempts = n
           /\ \A i \in Jobs : i # j => jobs'[i] = jobs[i]
<1>1. [status |-> st, attempts |-> n] \in JobRow
  BY DEF JobRow
<1>2. jobs \in [Jobs -> JobRow]
  BY DEF TypeOK
<1>3. QED BY <1>1, <1>2 DEF JobBecomes

LEMMA WorkerMoved ==
    ASSUME TypeOK, NEW w \in Workers, NEW x \in WorkerState, WorkerBecomes(w, x)
    PROVE  /\ worker' \in [Workers -> WorkerState]
           /\ worker'[w] = x
           /\ \A v \in Workers : v # w => worker'[v] = worker[v]
  BY DEF TypeOK, WorkerBecomes

\* Everything that is not a job or a worker.
Others == /\ mail' \in [Emails -> Reading] /\ setup' \in Settings
          /\ case' \in SalesCase /\ prices' \in Prices /\ rows' \in [Key -> Row]
          /\ handoffs' \in [Emails -> Reasons \cup {"none"}]
          /\ Troubles

LEMMA RecordsNotStarted ==
    ASSUME Records, NEW w \in Workers, NEW j, NotStarted(w, j), Others
    PROVE  Records'
<1>1. /\ j \in Jobs /\ jobs[j].status = "PENDING" /\ worker' = worker
      /\ JobBecomes(j, "DONE", jobs[j].attempts + 1)
  BY DEF NotStarted
<1>2. /\ jobs[j] \in JobRow /\ jobs[j].attempts < MaxAttempts + crashes
      /\ TypeOK /\ JobsHeld /\ AttemptsCounted /\ Drafts /\ crashes' >= crashes
      /\ crashes \in Nat /\ crashes' \in Nat /\ edits \in Nat /\ crashes + edits <= MaxTroubles
  BY <1>1 DEF Records, TypeOK, AttemptsCounted, Others, Troubles
<1>3. jobs[j].attempts + 1 \in 0..(MaxAttempts + MaxTroubles)
  BY <1>2, QuotationAssumption DEF JobRow
<1>4. /\ jobs' \in [Jobs -> JobRow]
      /\ jobs'[j].status = "DONE" /\ jobs'[j].attempts = jobs[j].attempts + 1
      /\ \A i \in Jobs : i # j => jobs'[i] = jobs[i]
  BY <1>1, <1>2, <1>3, JobStep
<1>5. TypeOK'
  BY <1>1, <1>2, <1>4 DEF TypeOK, Others, Troubles
<1>6. JobsHeld'
  BY <1>1, <1>2, <1>4 DEF JobsHeld, HoldsJob, At
<1>7. AttemptsCounted'
  <2>1. jobs \in [Jobs -> JobRow]
    BY <1>2 DEF TypeOK
  <2>2. QED BY <1>2, <1>3, <1>4, <2>1, QuotationAssumption DEF AttemptsCounted, JobRow
<1>8. Drafts'
  BY <1>1, <1>2 DEF Drafts, At
<1>9. QED BY <1>5, <1>6, <1>7, <1>8 DEF Records

LEMMA RecordsStarted ==
    ASSUME Records, NEW w \in Workers, NEW j, Started(w, j), Others
    PROVE  Records'
<1> DEFINE x == [Idle EXCEPT !.pc = "analyze", !.job = j, !.seen = case]
<1>1. /\ j \in Jobs /\ jobs[j].status = "PENDING" /\ At(w, "idle")
      /\ JobBecomes(j, "RUNNING", jobs[j].attempts + 1) /\ WorkerBecomes(w, x)
  BY DEF Started
<1>2. /\ jobs[j] \in JobRow /\ jobs[j].attempts < MaxAttempts + crashes
      /\ TypeOK /\ JobsHeld /\ AttemptsCounted /\ Drafts /\ crashes' >= crashes
      /\ crashes \in Nat /\ crashes' \in Nat /\ edits \in Nat /\ crashes + edits <= MaxTroubles
  BY <1>1 DEF Records, TypeOK, AttemptsCounted, Others, Troubles
<1>3. jobs[j].attempts + 1 \in 1..(MaxAttempts + MaxTroubles)
  BY <1>2, QuotationAssumption DEF JobRow
<1>4. /\ jobs' \in [Jobs -> JobRow]
      /\ jobs'[j].status = "RUNNING" /\ jobs'[j].attempts = jobs[j].attempts + 1
      /\ \A i \in Jobs : i # j => jobs'[i] = jobs[i]
  <2>1. jobs[j].attempts + 1 \in 0..(MaxAttempts + MaxTroubles)
    BY <1>3
  <2>2. QED BY <1>1, <1>2, <2>1, JobStep
<1>5. x \in WorkerState /\ x.pc = "analyze" /\ x.job = j
  <2>1. case \in SalesCase /\ j \in Jobs \cup {None}
    BY <1>1, <1>2 DEF TypeOK
  <2>2. QED BY <2>1, IdleIsWorker DEF WorkerState
<1> HIDE DEF x
<1>6. /\ worker' \in [Workers -> WorkerState] /\ worker'[w] = x
      /\ \A v \in Workers : v # w => worker'[v] = worker[v]
  BY <1>1, <1>2, <1>5, WorkerMoved
<1>7. TypeOK'
  BY <1>2, <1>4, <1>6 DEF TypeOK, Others, Troubles
<1>8. JobsHeld'
  BY <1>1, <1>2, <1>4, <1>5, <1>6 DEF JobsHeld, HoldsJob, At
<1>9. AttemptsCounted'
  <2>1. jobs \in [Jobs -> JobRow]
    BY <1>2 DEF TypeOK
  <2>2. QED BY <1>2, <1>3, <1>4, <2>1, QuotationAssumption DEF AttemptsCounted, JobRow
<1>10. Drafts'
  BY <1>2, <1>5, <1>6 DEF Drafts, At
<1>11. QED BY <1>7, <1>8, <1>9, <1>10 DEF Records

LEMMA RecordsGoOn ==
    ASSUME Records, NEW w \in Workers, GoesOn(w), Others, prices' = prices
    PROVE  Records'
<1>1. PICK x \in WorkerState :
          /\ ~At(w, "idle") /\ WorkerBecomes(w, x) /\ UNCHANGED jobs
          /\ x.pc \in {"route", "draft"} /\ x.job = worker[w].job
          /\ x.pc = "draft" =>
              /\ x.kind \in Kinds \cup {"quote"} /\ x.week = prices.week
              /\ x.kind = "quote" => x.seen.product \/ x.learned
  BY DEF GoesOn
<1>2. /\ TypeOK /\ JobsHeld /\ AttemptsCounted /\ Drafts /\ crashes' >= crashes
      /\ crashes \in Nat /\ crashes' \in Nat /\ prices.week \in Weeks
  BY DEF Records, TypeOK, Others, Troubles, Prices
<1>3. /\ worker' \in [Workers -> WorkerState] /\ worker'[w] = x
      /\ \A v \in Workers : v # w => worker'[v] = worker[v]
  BY <1>1, <1>2, WorkerMoved
<1>4. TypeOK'
  BY <1>1, <1>2, <1>3 DEF TypeOK, Others, Troubles
<1>5. JobsHeld'
  BY <1>1, <1>2, <1>3 DEF JobsHeld, HoldsJob, At
<1>6. AttemptsCounted'
  <2>1. jobs \in [Jobs -> JobRow]
    BY <1>2 DEF TypeOK
  <2>2. QED BY <1>1, <1>2, <2>1, QuotationAssumption DEF AttemptsCounted, JobRow
<1>7. Drafts'
  BY <1>1, <1>2, <1>3 DEF Drafts, At
<1>8. QED BY <1>4, <1>5, <1>6, <1>7 DEF Records

LEMMA RecordsEnd ==
    ASSUME Records, NEW w \in Workers, NEW st, Finishes(w, st), Others
    PROVE  Records'
<1> DEFINE j == worker[w].job
<1>1. PICK n \in Nat :
          /\ ~At(w, "idle") /\ st \in {"PENDING", "DONE", "FAILED"}
          /\ JobBecomes(j, st, n) /\ WorkerBecomes(w, Idle)
                /\ n <= jobs[j].attempts
          /\ st = "PENDING" => n < MaxAttempts + crashes'
  BY DEF Finishes
<1>2. /\ TypeOK /\ JobsHeld /\ AttemptsCounted /\ Drafts /\ crashes' >= crashes
      /\ crashes \in Nat /\ crashes' \in Nat /\ edits \in Nat /\ crashes + edits <= MaxTroubles
  BY DEF Records, TypeOK, Others, Troubles
<1>3. j \in Jobs /\ jobs[j] \in JobRow
  BY <1>1, <1>2 DEF JobsHeld, HoldsJob, TypeOK
<1>4. n \in 0..(MaxAttempts + MaxTroubles) /\ n <= MaxAttempts + crashes
  BY <1>1, <1>2, <1>3, QuotationAssumption DEF AttemptsCounted, JobRow
<1> HIDE DEF j
<1>5. /\ jobs' \in [Jobs -> JobRow]
      /\ jobs'[j].status = st /\ jobs'[j].attempts = n
      /\ \A i \in Jobs : i # j => jobs'[i] = jobs[i]
  BY <1>1, <1>2, <1>3, <1>4, JobStep
<1>6. /\ worker' \in [Workers -> WorkerState] /\ worker'[w] = Idle
      /\ \A v \in Workers : v # w => worker'[v] = worker[v]
  BY <1>1, <1>2, IdleIsWorker, WorkerMoved
<1>7. TypeOK'
  BY <1>2, <1>5, <1>6 DEF TypeOK, Others, Troubles
<1>8. JobsHeld'
  BY <1>1, <1>2, <1>5, <1>6, IdleIsWorker DEF JobsHeld, HoldsJob, At, j
<1>9. AttemptsCounted'
  <2>1. jobs \in [Jobs -> JobRow]
    BY <1>2 DEF TypeOK
  <2>2. QED BY <1>1, <1>2, <1>4, <1>5, <2>1, QuotationAssumption DEF AttemptsCounted, JobRow
<1>10. Drafts'
  BY <1>2, <1>6, IdleIsWorker DEF Drafts, At
<1>11. QED BY <1>7, <1>8, <1>9, <1>10 DEF Records

-----------------------------------------------------------------------------
(* What is promised of an email *)

IsQuote(k) == k.kind = "quote"
Waits(k) == rows[k].status = "PENDING"
Enqueued(j) == jobs[j].status # "ABSENT"
Open(j) == jobs[j].status \in {"PENDING", "RUNNING"}

\* A case that was seen with a product, or is quoted one, has one.
Products ==
    /\ \A w \in Workers : ~At(w, "idle") /\ worker[w].seen.product => case.product
    /\ \A k \in Key : IsQuote(k) /\ Written(k) => case.product

\* One job of an email at a time, and none while a quote for it is due.
Turns ==
    /\ \A i, j \in Jobs : Open(i) /\ Open(j) /\ i[1] = j[1] => i = j
    /\ \A k \in Key, j \in Jobs : IsQuote(k) /\ Waits(k) /\ j[1] = k.email => ~Open(j)
    /\ \A k, l \in Key :
           IsQuote(k) /\ IsQuote(l) /\ k.email = l.email /\ Waits(k) /\ Waits(l) => k = l

\* Nothing is of a week to come, and a quote is of no earlier week than the jobs of its email.
Calendar ==
    /\ \A j \in Jobs : Enqueued(j) => j[2] <= prices.week
    /\ \A w \in Workers : At(w, "draft") => worker[w].week <= prices.week
    /\ \A w \in Workers, j \in Jobs :
           At(w, "draft") /\ Enqueued(j) /\ j[1] = EmailOf(w) => j[2] <= worker[w].week
    /\ \A k \in Key : IsQuote(k) /\ Written(k) => k.week <= prices.week
    /\ \A k \in Key, j \in Jobs :
           IsQuote(k) /\ Waits(k) /\ Enqueued(j) /\ j[1] = k.email => j[2] <= k.week

\* Why a reply was cancelled.
Excused(k) ==
    \/ k.kind = "multi" \/ InGoodHands
    \/ IsQuote(k) /\ \E j \in Jobs : Enqueued(j) /\ j[1] = k.email /\ k.week <= j[2]
Excuses == \A k \in Key : rows[k].status = "CANCELLED" => Excused(k)

Answered(e) == AutomatedReply(mail[e], setup) = Ignore \/ Heard(e) \/ InGoodHands \/ LostRequest(e)
Answers == \A e \in Emails : (\E j \in Jobs : j[1] = e /\ Open(j)) \/ Answered(e)

Promise == Products /\ Turns /\ Calendar /\ Excuses /\ Answers

-----------------------------------------------------------------------------
\* A step after which everything that was once so is still so.
RowsStay == \A k \in Key :
    /\ Live(k) => Live(k)'
    /\ k.kind \in Quotes /\ rows[k].status = "CANCELLED" => rows'[k].status = "CANCELLED"
JobsStay == \A j \in Jobs : jobs[j].status \in {"DONE", "FAILED"} => jobs'[j] = jobs[j]

LEMMA KeyParts ==
    ASSUME NEW k \in Key
    PROVE  /\ k.email \in Emails /\ k.kind \in Kinds \cup {"quote"}
           /\ IsQuote(k) => /\ k.week \in Weeks
                            /\ k = [email |-> k.email, kind |-> "quote", week |-> k.week]
           /\ IsQuote(k) => <<k.email, k.week>> \in Jobs
  BY QuotationAssumption DEF Key, Kinds, IsQuote, Weeks, Jobs

LEMMA GoodStays == ASSUME TypeOK, Grows, Troubles, InGoodHands PROVE InGoodHands'
<1>1. CASE \E e \in Emails : handoffs[e] # "none"
  BY <1>1 DEF Grows, InGoodHands
<1>2. CASE case.status # "ACTIVE" \/ case.suppressed
  BY <1>2 DEF Grows, CaseGrows, InGoodHands
<1>3. CASE edits > 0
  BY <1>3 DEF Grows, InGoodHands, Troubles, TypeOK
<1>4. QED BY <1>1, <1>2, <1>3 DEF InGoodHands

LEMMA HeardStays ==
    ASSUME Grows, RowsStay, NEW e \in Emails, Heard(e) PROVE Heard(e)'
<1>1. CASE handoffs[e] # "none"
  BY <1>1 DEF Grows, Heard
<1>2. CASE \E k \in KeysOf(e) : Live(k)
  BY <1>2 DEF Heard, RowsStay, KeysOf
<1>3. QED BY <1>1, <1>2 DEF Heard

LEMMA LostStays ==
    ASSUME RowsStay, JobsStay, NEW e \in Emails, LostRequest(e) PROVE LostRequest(e)'
<1>1. ASSUME NEW k \in KeysOf(e), k.kind = "quote", rows[k].status = "CANCELLED",
             jobs[<<e, k.week>>].status = "DONE"
      PROVE  LostRequest(e)'
  <2>1. k \in Key /\ k.email = e
    BY DEF KeysOf
  <2>2. <<e, k.week>> \in Jobs
    BY <1>1, <2>1, KeyParts DEF IsQuote
  <2>3. jobs'[<<e, k.week>>].status = "DONE"
    BY <1>1, <2>2 DEF JobsStay
  <2>4. rows'[k].status = "CANCELLED"
    BY <1>1, <2>1 DEF RowsStay, Quotes
  <2>5. QED BY <1>1, <2>3, <2>4 DEF LostRequest
<1>2. ASSUME NEW k \in KeysOf(e), k.kind = "multi", rows[k].status = "CANCELLED"
      PROVE  LostRequest(e)'
  <2>1. rows'[k].status = "CANCELLED"
    BY <1>2 DEF RowsStay, Quotes, KeysOf
  <2>2. QED BY <1>2, <2>1 DEF LostRequest
<1>3. ASSUME NEW j \in Jobs, j[1] = e, jobs[j].status = "FAILED"
      PROVE  LostRequest(e)'
  <2>1. jobs'[j].status = "FAILED"
    BY <1>3 DEF JobsStay
  <2>2. QED BY <1>3, <2>1 DEF LostRequest
<1>4. QED BY <1>1, <1>2, <1>3 DEF LostRequest

LEMMA AnsweredStays ==
    ASSUME TypeOK, Grows, Troubles, RowsStay, JobsStay, NEW e \in Emails, Answered(e)
    PROVE  Answered(e)'
<1>1. CASE AutomatedReply(mail[e], setup) = Ignore
  <2>1. mail' = mail /\ setup' = setup
    BY DEF Grows, given
  <2>2. QED BY <1>1, <2>1 DEF Answered
<1>2. CASE Heard(e)
  BY <1>2, HeardStays DEF Answered
<1>3. CASE InGoodHands
  BY <1>3, GoodStays DEF Answered
<1>4. CASE LostRequest(e)
  BY <1>4, LostStays DEF Answered
<1>5. QED BY <1>1, <1>2, <1>3, <1>4 DEF Answered

-----------------------------------------------------------------------------
\* No job is opened.
JobsShrink == \A j \in Jobs :
    /\ Open(j)' => Open(j)
    /\ Enqueued(j)' <=> Enqueued(j)
\* A job that is over has answered its email.
Closes == \A j \in Jobs : Open(j) /\ ~Open(j)' => Answered(j[1])'
\* What the other workers and w do next: w drafts with the prices of the week.
WorkersGo(w) ==
    /\ \A v \in Workers : v # w => worker'[v] = worker[v]
    /\ At(w, "idle")' \/ (~At(w, "idle") /\ worker'[w].seen = worker[w].seen)
         \/ worker'[w].seen = case
    /\ At(w, "draft")' => ~At(w, "idle") /\ worker'[w].job = worker[w].job
    /\ At(w, "draft")' => worker'[w].week = prices.week
Keeps(w) ==
    /\ Grows /\ Troubles /\ UNCHANGED prices
    /\ RowsStay /\ JobsStay /\ JobsShrink /\ Closes /\ WorkersGo(w)

LEMMA AnswersKept ==
    ASSUME TypeOK, Answers, Grows, Troubles, RowsStay, JobsStay, Closes
    PROVE  Answers'
<1> SUFFICES ASSUME NEW e \in Emails, ~(\E j \in Jobs : j[1] = e /\ Open(j)') PROVE Answered(e)'
  BY DEF Answers
<1>1. CASE Answered(e)
  BY <1>1, AnsweredStays
<1>2. CASE \E j \in Jobs : j[1] = e /\ Open(j)
  BY <1>2 DEF Closes
<1>3. QED BY <1>1, <1>2 DEF Answers

LEMMA ExcusesKept ==
    ASSUME TypeOK, Excuses, Grows, Troubles, JobsShrink,
           \A k \in Key : rows'[k].status = "CANCELLED" =>
               rows[k].status = "CANCELLED" \/ Excused(k)'
    PROVE  Excuses'
<1> SUFFICES ASSUME NEW k \in Key, rows'[k].status = "CANCELLED", rows[k].status = "CANCELLED"
             PROVE  Excused(k)'
  BY DEF Excuses
<1>1. Excused(k)
  BY DEF Excuses
<1>2. CASE k.kind = "multi"
  BY <1>2 DEF Excused
<1>3. CASE InGoodHands
  BY <1>3, GoodStays DEF Excused
<1>4. CASE IsQuote(k) /\ \E j \in Jobs : Enqueued(j) /\ j[1] = k.email /\ k.week <= j[2]
  <2>1. PICK j \in Jobs : Enqueued(j) /\ j[1] = k.email /\ k.week <= j[2]
    BY <1>4
  <2>2. Enqueued(j)'
    BY <2>1 DEF JobsShrink
  <2>3. QED BY <1>4, <2>1, <2>2 DEF Excused
<1>5. QED BY <1>1, <1>2, <1>3, <1>4 DEF Excused

\* A step of worker w that writes no quote.
LEMMA PromiseKept ==
    ASSUME Records, Promise, NEW w \in Workers, Keeps(w), RowsGrow
    PROVE  Promise'
<1>1. /\ TypeOK /\ Grows /\ Troubles /\ prices' = prices /\ RowsStay /\ JobsStay /\ JobsShrink
      /\ Closes /\ WorkersGo(w) /\ JobsHeld
  BY DEF Records, Keeps
<1>2. Products /\ Turns /\ Calendar /\ Excuses /\ Answers
  BY DEF Promise
<1>3. \A k \in Key : IsQuote(k) => rows'[k] = rows[k]
  BY DEF RowsGrow, IsQuote
<1>4. Products'
  BY <1>1, <1>2, <1>3 DEF Products, WorkersGo, At, Grows, CaseGrows, Written
<1>5. Turns'
  BY <1>1, <1>2, <1>3 DEF Turns, JobsShrink, Waits
<1>6. Calendar'
  <2>1. \A j \in Jobs : Enqueued(j)' => j[2] <= prices'.week
    BY <1>1, <1>2 DEF Calendar, JobsShrink
  <2>2. \A v \in Workers : At(v, "draft")' => worker'[v].week <= prices'.week
    <3>1. prices.week <= prices.week
      BY <1>1, QuotationAssumption DEF TypeOK, Prices, Weeks
    <3>2. QED BY <1>1, <1>2, <3>1 DEF Calendar, WorkersGo, At
  <2>3. \A v \in Workers, j \in Jobs :
            (At(v, "draft") /\ Enqueued(j) /\ j[1] = EmailOf(v))' => j[2] <= worker'[v].week
    BY <1>1, <1>2, <2>1 DEF Calendar, WorkersGo, At, EmailOf, JobsShrink
  <2>4. \A k \in Key : IsQuote(k) /\ Written(k)' => k.week <= prices'.week
    BY <1>1, <1>2, <1>3 DEF Calendar, Written
  <2>5. \A k \in Key, j \in Jobs :
            (IsQuote(k) /\ Waits(k) /\ Enqueued(j) /\ j[1] = k.email)' => j[2] <= k.week
    BY <1>1, <1>2, <1>3 DEF Calendar, Waits, JobsShrink
  <2>6. QED BY <2>1, <2>2, <2>3, <2>4, <2>5 DEF Calendar
<1>7. Excuses'
  <2>1. \A k \in Key : rows'[k].status = "CANCELLED" => rows[k].status = "CANCELLED"
    BY DEF RowsGrow
  <2>2. QED BY <1>1, <1>2, <2>1, ExcusesKept
<1>8. Answers'
  BY <1>1, <1>2, AnswersKept
<1>9. QED BY <1>4, <1>5, <1>6, <1>7, <1>8 DEF Promise

LEMMA GrownRowsStay == ASSUME RowsGrow PROVE RowsStay
  BY DEF RowsGrow, RowsStay, Live, Quotes, Written

\* The draft of a quote becomes a row.
LEMMA QuoteStaged ==
    ASSUME Records, Promise, NEW w \in Workers, At(w, "draft"), Keeps(w),
           worker[w].kind = "quote", ~Written(ReplyKey(w)), worker' = [worker EXCEPT ![w] = Idle],
           \A k \in Key : \/ rows'[k] = rows[k]
                          \/ k.kind = "coa" /\ rows'[k].status = "PENDING"
                          \/ k = ReplyKey(w) /\ rows'[k].status = "PENDING",
           jobs'[worker[w].job].status = "DONE", case'.product
    PROVE  Promise'
<1> DEFINE e == EmailOf(w)  q == ReplyKey(w)  own == worker[w].job
<1>1. /\ TypeOK /\ Grows /\ Troubles /\ prices' = prices /\ RowsStay /\ JobsStay /\ JobsShrink
      /\ Closes /\ WorkersGo(w) /\ JobsHeld /\ Drafts
  BY DEF Records, Keeps
<1>2. Products /\ Turns /\ Calendar /\ Excuses /\ Answers
  BY DEF Promise
<1>3. /\ own \in Jobs /\ own[1] = e /\ e \in Emails /\ Open(own)
      /\ worker[w].week \in Weeks /\ worker[w].week <= prices.week
  <2>1. own \in Jobs /\ Open(own)
    BY <1>1 DEF JobsHeld, HoldsJob, At, Open
  <2>2. worker[w].week \in Weeks /\ worker[w].week <= prices.week
    BY <1>1, <1>2 DEF Drafts, Calendar
  <2>3. QED BY <2>1, <2>2, JobParts DEF EmailOf
<1>4. q = [email |-> e, kind |-> "quote", week |-> worker[w].week]
  BY DEF ReplyKey
<1>5. q \in Key /\ q.email = e /\ IsQuote(q) /\ q.week = worker[w].week
  <2>1. q \in [email : Emails, kind : {"quote"}, week : Weeks]
    BY <1>3, <1>4
  <2>2. QED BY <1>4, <2>1 DEF Key, IsQuote
<1>6. \A k \in Key : IsQuote(k) => k = q \/ rows'[k] = rows[k]
  BY DEF IsQuote
<1>7. \A j \in Jobs : j[1] = e => ~Open(j)'
  BY <1>1, <1>2, <1>3 DEF Turns, JobsShrink, Open
<1>8. \A k \in Key : IsQuote(k) /\ k.email = e => ~Waits(k)
  BY <1>2, <1>3 DEF Turns
<1>9. \A j \in Jobs : Enqueued(j) /\ j[1] = e => j[2] <= q.week
  BY <1>2, <1>5 DEF Calendar
<1> HIDE DEF e, q, own
<1>10. Products'
  <2>1. At(w, "idle")' /\ \A v \in Workers : v # w => worker'[v] = worker[v]
    BY <1>1, IdleIsWorker DEF At, TypeOK
  <2>2. case.product => case'.product
    BY <1>1 DEF Grows, CaseGrows
  <2>3. QED BY <1>2, <1>6, <2>1, <2>2 DEF Products, At, Written
<1>11. Turns'
  <2>1. \A i, j \in Jobs : (Open(i) /\ Open(j) /\ i[1] = j[1])' => i = j
    BY <1>1, <1>2 DEF Turns, JobsShrink
  <2>2. \A k \in Key, j \in Jobs : (IsQuote(k) /\ Waits(k) /\ j[1] = k.email)' => ~Open(j)'
    BY <1>1, <1>2, <1>5, <1>6, <1>7 DEF Turns, JobsShrink, Waits
  <2>3. \A k, l \in Key :
            (IsQuote(k) /\ IsQuote(l) /\ k.email = l.email /\ Waits(k) /\ Waits(l))' => k = l
    BY <1>2, <1>5, <1>6, <1>8 DEF Turns, Waits
  <2>4. QED BY <2>1, <2>2, <2>3 DEF Turns
<1>12. Calendar'
  <2>1. \A j \in Jobs : Enqueued(j)' => j[2] <= prices'.week
    BY <1>1, <1>2 DEF Calendar, JobsShrink
  <2>2. ~At(w, "draft")' /\ \A v \in Workers : v # w => worker'[v] = worker[v]
    BY <1>1, IdleIsWorker DEF At, TypeOK
  <2>3. \A v \in Workers : At(v, "draft")' => worker'[v].week <= prices'.week
    BY <1>1, <1>2, <2>2 DEF Calendar, At
  <2>4. \A v \in Workers, j \in Jobs :
            (At(v, "draft") /\ Enqueued(j) /\ j[1] = EmailOf(v))' => j[2] <= worker'[v].week
    BY <1>1, <1>2, <2>2 DEF Calendar, At, EmailOf, JobsShrink
  <2>5. \A k \in Key : IsQuote(k) /\ Written(k)' => k.week <= prices'.week
    BY <1>1, <1>2, <1>3, <1>5, <1>6 DEF Calendar, Written
  <2>6. \A k \in Key, j \in Jobs :
            (IsQuote(k) /\ Waits(k) /\ Enqueued(j) /\ j[1] = k.email)' => j[2] <= k.week
    BY <1>1, <1>2, <1>5, <1>6, <1>9 DEF Calendar, Waits, JobsShrink
  <2>7. QED BY <2>1, <2>3, <2>4, <2>5, <2>6 DEF Calendar
<1>13. Excuses'
  <2>1. \A k \in Key : rows'[k].status = "CANCELLED" => rows[k].status = "CANCELLED"
    OBVIOUS
  <2>2. QED BY <1>1, <1>2, <2>1, ExcusesKept
<1>14. Answers'
  BY <1>1, <1>2, AnswersKept
<1>15. QED BY <1>10, <1>11, <1>12, <1>13, <1>14 DEF Promise

-----------------------------------------------------------------------------
(* The delivery *)

\* Only the row of k changes.
RowTo(k, status) ==
    /\ k \in Key /\ rows' \in [Key -> Row] /\ rows'[k].status = status
    /\ \A l \in Key : l # k => rows'[l] = rows[l]

LEMMA SetIsRowTo ==
    ASSUME TypeOK, NEW k \in Key,
           NEW st \in {"ABSENT", "PENDING", "CLAIMED", "SENT", "CANCELLED"}, Set(k, st)
    PROVE  RowTo(k, st)
  BY DEF Set, RowTo, TypeOK, Row

\* A reply that is claimed or sent is one still.
LEMMA PromiseDelivered ==
    ASSUME Records, Promise, NEW k \in Key, Live(k),
           RowTo(k, "CLAIMED") \/ RowTo(k, "SENT"),
           UNCHANGED <<mail, setup, case, prices, handoffs, jobs, worker, edits>>
    PROVE  Promise'
<1>1. /\ TypeOK /\ Products /\ Turns /\ Calendar /\ Excuses /\ Answers
  BY DEF Records, Promise
<1>2. \A l \in Key : rows'[l] = rows[l] \/ (Live(l) /\ Live(l)' /\ ~Waits(l)')
  BY DEF RowTo, Live, Waits
<1>3. \A l \in Key : rows'[l].status = "CANCELLED" => rows[l].status = "CANCELLED"
  BY <1>2 DEF Live
<1>4. Products'
  BY <1>1, <1>2 DEF Products, At, Written, Live
<1>5. Turns'
  BY <1>1, <1>2 DEF Turns, Open, Waits
<1>6. Calendar'
  BY <1>1, <1>2 DEF Calendar, At, Written, Live, Enqueued, Waits, EmailOf
<1>7. InGoodHands' <=> InGoodHands
  BY DEF InGoodHands
<1>8. Excuses'
  BY <1>1, <1>3, <1>7 DEF Excuses, Excused, Enqueued
<1>9. \A e \in Emails : Answered(e) => Answered(e)'
  <2> SUFFICES ASSUME NEW e \in Emails, Answered(e) PROVE Answered(e)'
    OBVIOUS
  <2>1. CASE Heard(e)
    <3>1. CASE handoffs[e] # "none"
      BY <3>1 DEF Answered, Heard
    <3>2. CASE \E l \in KeysOf(e) : Live(l)
      <4>1. PICK l \in KeysOf(e) : Live(l)
        BY <3>2
      <4>2. Live(l)'
        BY <1>2, <4>1 DEF KeysOf, Live
      <4>3. QED BY <4>1, <4>2 DEF Answered, Heard
    <3>3. QED BY <2>1, <3>1, <3>2 DEF Heard
  <2>2. CASE LostRequest(e)
    <3>1. RowsStay /\ JobsStay
      BY <1>2 DEF RowsStay, JobsStay, Live
    <3>2. QED BY <2>2, <3>1, LostStays DEF Answered
  <2>3. QED BY <1>7, <2>1, <2>2 DEF Answered
<1>10. Answers'
  BY <1>1, <1>9 DEF Answers, Open
<1>11. QED BY <1>4, <1>5, <1>6, <1>8, <1>10 DEF Promise

\* A reply that is cancelled, with a job for its email or without: the rows and the jobs of
\* the others stay what they are.
LEMMA PromiseCancelled ==
    ASSUME Records, Promise, NEW k \in Key, Waits(k), RowTo(k, "CANCELLED"),
           UNCHANGED <<mail, setup, case, prices, handoffs, worker, edits>>,
           NEW renewed \in SUBSET Jobs,
           \A j \in renewed : /\ j = <<k.email, prices.week>> /\ jobs[j].status = "ABSENT"
                              /\ jobs'[j].status = "PENDING",
           \A j \in Jobs \ renewed : jobs'[j] = jobs[j],
           renewed # {} => IsQuote(k),
           Excused(k)',
           Answered(k.email)' \/ renewed # {}
    PROVE  Promise'
<1>1. /\ TypeOK /\ Products /\ Turns /\ Calendar /\ Excuses /\ Answers /\ JobsHeld
  BY DEF Records, Promise
<1>2. /\ \A l \in Key : Waits(l)' => Waits(l) /\ l # k /\ rows'[l] = rows[l]
      /\ \A l \in Key : Written(l)' => Written(l)
      /\ \A l \in Key : l # k => rows'[l] = rows[l]
  BY DEF RowTo, Waits, Written
<1>3. \A j \in Jobs : /\ Open(j)' => Open(j) \/ j \in renewed
                      /\ Enqueued(j)' => Enqueued(j) \/ j \in renewed
                      /\ Enqueued(j) => Enqueued(j)'
                      /\ Open(j) => Open(j)'
  BY DEF Open, Enqueued
<1>4. \A j \in renewed : j \in Jobs /\ j[1] = k.email /\ j[2] = prices.week /\ Open(j)'
  BY DEF Open
<1>5. Products'
  BY <1>1, <1>2 DEF Products, At
<1>6. renewed # {} => \A j \in Jobs : j[1] = k.email => ~Open(j)
  BY <1>1 DEF Turns
<1>7. Turns'
  <2>1. \A i, j \in Jobs : (Open(i) /\ Open(j) /\ i[1] = j[1])' => i = j
    BY <1>1, <1>3, <1>4, <1>6 DEF Turns
  <2>2. \A l \in Key, j \in Jobs : (IsQuote(l) /\ Waits(l) /\ j[1] = l.email)' => ~Open(j)'
    BY <1>1, <1>2, <1>3, <1>4 DEF Turns
  <2>3. \A l, m \in Key :
            (IsQuote(l) /\ IsQuote(m) /\ l.email = m.email /\ Waits(l) /\ Waits(m))' => l = m
    BY <1>1, <1>2 DEF Turns
  <2>4. QED BY <2>1, <2>2, <2>3 DEF Turns
<1>8. Calendar'
  <2>1. \A j \in Jobs : Enqueued(j)' => j[2] <= prices'.week
    <3>1. prices.week <= prices.week
      BY <1>1, QuotationAssumption DEF TypeOK, Prices, Weeks
    <3>2. QED BY <1>1, <1>3, <1>4, <3>1 DEF Calendar
  <2>2. \A v \in Workers : At(v, "draft")' => worker'[v].week <= prices'.week
    BY <1>1 DEF Calendar, At
  <2>3. \A v \in Workers, j \in Jobs :
            (At(v, "draft") /\ Enqueued(j) /\ j[1] = EmailOf(v))' => j[2] <= worker'[v].week
    <3> SUFFICES ASSUME NEW v \in Workers, NEW j \in Jobs,
                        At(v, "draft"), Enqueued(j)', j[1] = EmailOf(v)
                 PROVE  j[2] <= worker[v].week
      BY DEF At, EmailOf
    <3>1. CASE Enqueued(j)
      BY <1>1, <3>1 DEF Calendar
    <3>2. CASE j \in renewed
      <4>1. worker[v].job \in Jobs /\ Open(worker[v].job) /\ worker[v].job[1] = k.email
        BY <1>1, <1>4, <3>2 DEF JobsHeld, HoldsJob, Open, At, EmailOf
      <4>2. QED BY <1>6, <3>2, <4>1
    <3>3. QED BY <1>3, <3>1, <3>2
  <2>4. \A l \in Key : IsQuote(l) /\ Written(l)' => l.week <= prices'.week
    BY <1>1, <1>2 DEF Calendar
  <2>5. \A l \in Key, j \in Jobs :
            (IsQuote(l) /\ Waits(l) /\ Enqueued(j) /\ j[1] = l.email)' => j[2] <= l.week
    BY <1>1, <1>2, <1>3, <1>4 DEF Calendar, Turns
  <2>6. QED BY <2>1, <2>2, <2>3, <2>4, <2>5 DEF Calendar
<1>9. InGoodHands' <=> InGoodHands
  BY DEF InGoodHands
<1>10. Excuses'
  <2> SUFFICES ASSUME NEW l \in Key, rows'[l].status = "CANCELLED", l # k PROVE Excused(l)'
    BY DEF Excuses
  <2>1. Excused(l)
    BY <1>1, <1>2 DEF Excuses
  <2>2. QED BY <1>3, <1>9, <2>1 DEF Excused
<1>11. Answers'
  <2> SUFFICES ASSUME NEW e \in Emails, ~(\E j \in Jobs : j[1] = e /\ Open(j)') PROVE Answered(e)'
    BY DEF Answers
  <2>1. CASE e = k.email
    BY <1>4, <2>1
  <2>2. CASE e # k.email
    <3>1. Answered(e)
      BY <1>1, <1>3 DEF Answers
    <3>2. \A l \in KeysOf(e) : l \in Key /\ rows'[l] = rows[l]
      BY <1>2, <2>2 DEF KeysOf
    <3>3. \A j \in Jobs : j[1] = e => jobs'[j] = jobs[j]
      BY <1>4, <2>2
    <3>4. CASE Heard(e)
      BY <3>2, <3>4 DEF Answered, Heard, Live
    <3>5. CASE LostRequest(e)
      <4>1. \A l \in KeysOf(e) : l.kind = "quote" => <<e, l.week>> \in Jobs
        BY KeyParts DEF KeysOf, IsQuote
      <4>2. \A l \in KeysOf(e) : l.kind = "quote" => jobs'[<<e, l.week>>] = jobs[<<e, l.week>>]
        BY <3>3, <4>1
      <4>3. QED BY <3>2, <3>3, <3>5, <4>2 DEF Answered, LostRequest
    <3>6. QED BY <1>9, <3>1, <3>4, <3>5 DEF Answered
  <2>3. QED BY <2>1, <2>2
<1>12. QED BY <1>5, <1>7, <1>8, <1>10, <1>11 DEF Promise

-----------------------------------------------------------------------------
(* The steps, as the lemmas above take them *)

LEMMA JobForms ==
    ASSUME TypeOK, NEW j \in Jobs
    PROVE  /\ Done(j) => JobBecomes(j, "DONE", jobs[j].attempts)
           /\ jobs' = Take(j) => JobBecomes(j, "RUNNING", jobs[j].attempts + 1)
           /\ jobs' = [jobs EXCEPT ![j].status = "DONE", ![j].attempts = @ + 1] =>
                  JobBecomes(j, "DONE", jobs[j].attempts + 1)
           /\ jobs' = [jobs EXCEPT ![j].status = "PENDING"] =>
                  JobBecomes(j, "PENDING", jobs[j].attempts)
           /\ jobs' = [jobs EXCEPT ![j] = Deferred(@)] =>
                  JobBecomes(j, "PENDING", jobs[j].attempts - 1)
<1>1. jobs \in [Jobs -> JobRow] /\ jobs[j] \in JobRow
  BY DEF TypeOK
<1>2. jobs[j] = [status |-> jobs[j].status, attempts |-> jobs[j].attempts]
  BY <1>1 DEF JobRow
<1>3. Done(j) => JobBecomes(j, "DONE", jobs[j].attempts)
  BY <1>1, <1>2 DEF Done, JobBecomes
<1>4. jobs' = Take(j) => JobBecomes(j, "RUNNING", jobs[j].attempts + 1)
  BY <1>1, <1>2 DEF Take, JobBecomes
<1>5. jobs' = [jobs EXCEPT ![j].status = "DONE", ![j].attempts = @ + 1] =>
          JobBecomes(j, "DONE", jobs[j].attempts + 1)
  BY <1>1, <1>2 DEF JobBecomes
<1>6. jobs' = [jobs EXCEPT ![j].status = "PENDING"] => JobBecomes(j, "PENDING", jobs[j].attempts)
  BY <1>1, <1>2 DEF JobBecomes
<1>7. jobs' = [jobs EXCEPT ![j] = Deferred(@)] => JobBecomes(j, "PENDING", jobs[j].attempts - 1)
  BY <1>1, <1>2 DEF JobBecomes, Deferred
<1>8. QED BY <1>3, <1>4, <1>5, <1>6, <1>7

LEMMA StopForm ==
    ASSUME TypeOK, NEW w \in Workers, Stop(w) PROVE WorkerBecomes(w, Idle)
  BY DEF TypeOK, Stop, WorkerBecomes

LEMMA StagedGrow ==
    ASSUME TypeOK, NEW w, EmailOf(w) \in Emails
    PROVE  /\ WithStaged(w, rows) \in [Key -> Row]
           /\ \A k \in Key : \/ WithStaged(w, rows)[k] = rows[k]
                             \/ k.kind = "coa" /\ WithStaged(w, rows)[k].status = "PENDING"
<1> DEFINE r == [NoRow EXCEPT !.status = "PENDING"]
           q == KeyOf(EmailOf(w), "coa")
<1>1. r \in Row /\ r.status = "PENDING"
  BY QuotationAssumption DEF NoRow, Row
<1>2. q.kind = "coa"
  BY DEF KeyOf
<1>3. WithStaged(w, rows) \in {rows, [rows EXCEPT ![q] = r]}
  BY Zenon DEF WithStaged
<1>4. rows \in [Key -> Row]
  BY DEF TypeOK
<1> HIDE DEF r, q
<1>5. QED BY <1>1, <1>2, <1>3, <1>4

LEMMA CasesGrow ==
    ASSUME NEW c \in SalesCase, NEW w, NEW pause
    PROVE  /\ CaseGrows(c, c)
           /\ CaseGrows(c, WithLearned(w, c))
           /\ CaseGrows(c, HandedOff(c, w, pause))
           /\ CaseGrows(c, [c EXCEPT !.product = TRUE, !.category = TRUE])
<1>1. [c EXCEPT !.product = TRUE, !.category = TRUE] \in SalesCase
  BY DEF SalesCase
<1>2. CaseGrows(c, [c EXCEPT !.product = TRUE, !.category = TRUE])
  BY <1>1 DEF SalesCase, CaseGrows
<1>3. [c EXCEPT !.status = "WAITING_HUMAN"] \in SalesCase
  BY DEF SalesCase, CaseStatus
<1>4. CaseGrows(c, [c EXCEPT !.status = "WAITING_HUMAN"])
  BY <1>3 DEF SalesCase, CaseGrows
<1>5. CaseGrows(c, c)
  BY DEF CaseGrows
<1>6. WithLearned(w, c) \in {c, [c EXCEPT !.product = TRUE, !.category = TRUE]}
  BY Zenon DEF WithLearned
<1>7. HandedOff(c, w, pause) \in {c, [c EXCEPT !.status = "WAITING_HUMAN"]}
  BY Zenon DEF HandedOff
<1>8. QED BY <1>2, <1>4, <1>5, <1>6, <1>7

LEMMA GrowsOn ==
    ASSUME NEW c, NEW d, NEW f, CaseGrows(c, d), CaseGrows(d, f) PROVE CaseGrows(c, f)
  BY DEF CaseGrows

-----------------------------------------------------------------------------
(* The four ways of a worker keep the jobs and the other workers in order *)

LEMMA NotStartedKeeps ==
    ASSUME Records, NEW w \in Workers, NEW j, NotStarted(w, j), Grows, Troubles, prices' = prices,
           RowsStay, Answered(j[1])'
    PROVE  Keeps(w)
<1>1. /\ j \in Jobs /\ jobs[j].status = "PENDING" /\ At(w, "idle") /\ worker' = worker
      /\ JobBecomes(j, "DONE", jobs[j].attempts + 1)
  BY DEF NotStarted
<1>2. /\ jobs'[j].status = "DONE"
      /\ \A i \in Jobs : i # j => jobs'[i] = jobs[i]
  BY <1>1 DEF JobBecomes
<1>3. JobsStay /\ JobsShrink /\ Closes
  BY <1>1, <1>2 DEF JobsStay, JobsShrink, Closes, Open, Enqueued
<1>4. WorkersGo(w)
  BY <1>1 DEF WorkersGo, At
<1>5. QED BY <1>3, <1>4 DEF Keeps

LEMMA StartedKeeps ==
    ASSUME Records, NEW w \in Workers, NEW j, Started(w, j), Grows, Troubles, prices' = prices,
           RowsStay
    PROVE  Keeps(w)
<1> DEFINE x == [Idle EXCEPT !.pc = "analyze", !.job = j, !.seen = case]
<1>1. /\ j \in Jobs /\ jobs[j].status = "PENDING" /\ At(w, "idle")
      /\ JobBecomes(j, "RUNNING", jobs[j].attempts + 1) /\ WorkerBecomes(w, x)
  BY DEF Started
<1>2. jobs'[j].status = "RUNNING" /\ \A i \in Jobs : i # j => jobs'[i] = jobs[i]
  BY <1>1 DEF JobBecomes
<1>3. JobsStay /\ JobsShrink /\ Closes
  BY <1>1, <1>2 DEF JobsStay, JobsShrink, Closes, Open, Enqueued
<1>4. x.pc = "analyze" /\ x.seen = case
  BY IdleIsWorker DEF WorkerState
<1> HIDE DEF x
<1>5. worker'[w] = x /\ \A v \in Workers : v # w => worker'[v] = worker[v]
  BY <1>1 DEF WorkerBecomes
<1>6. WorkersGo(w)
  BY <1>4, <1>5 DEF WorkersGo, At
<1>7. QED BY <1>3, <1>6 DEF Keeps

LEMMA GoesOnKeeps ==
    ASSUME Records, NEW w \in Workers, GoesOn(w), Grows, Troubles, prices' = prices, RowsStay
    PROVE  Keeps(w)
<1>1. PICK x \in WorkerState :
          /\ ~At(w, "idle") /\ WorkerBecomes(w, x) /\ UNCHANGED jobs
          /\ x.job = worker[w].job /\ x.seen = worker[w].seen
          /\ x.pc = "draft" => x.week = prices.week
  BY DEF GoesOn
<1>2. JobsStay /\ JobsShrink /\ Closes
  BY <1>1 DEF JobsStay, JobsShrink, Closes, Open, Enqueued
<1>3. worker'[w] = x /\ \A v \in Workers : v # w => worker'[v] = worker[v]
  BY <1>1 DEF WorkerBecomes
<1>4. WorkersGo(w)
  BY <1>1, <1>3 DEF WorkersGo, At
<1>5. QED BY <1>2, <1>4 DEF Keeps

LEMMA FinishKeeps ==
    ASSUME Records, NEW w \in Workers, NEW st, Finishes(w, st), Grows, Troubles, prices' = prices,
           RowsStay, NEW e, e = EmailOf(w), st = "PENDING" \/ Answered(e)'
    PROVE  Keeps(w) /\ jobs'[worker[w].job].status = st
<1> DEFINE j == worker[w].job
<1>1. PICK n \in Nat :
          /\ ~At(w, "idle") /\ st \in {"PENDING", "DONE", "FAILED"}
          /\ JobBecomes(j, st, n) /\ WorkerBecomes(w, Idle)
  BY DEF Finishes
<1>2. j \in Jobs /\ jobs[j].status = "RUNNING" /\ j[1] = e
  BY <1>1 DEF Records, JobsHeld, HoldsJob, EmailOf
<1> HIDE DEF j
<1>3. jobs'[j].status = st /\ \A i \in Jobs : i # j => jobs'[i] = jobs[i]
  BY <1>1, <1>2 DEF JobBecomes
<1>4. JobsStay /\ JobsShrink
  BY <1>1, <1>2, <1>3 DEF JobsStay, JobsShrink, Open, Enqueued
<1>5. Closes
  <2> SUFFICES ASSUME NEW i \in Jobs, Open(i), ~Open(i)' PROVE Answered(i[1])'
    BY DEF Closes
  <2>1. i = j /\ st # "PENDING"
    BY <1>3 DEF Open
  <2>2. QED BY <1>2, <2>1
<1>6. worker'[w] = Idle /\ \A v \in Workers : v # w => worker'[v] = worker[v]
  BY <1>1 DEF WorkerBecomes
<1>7. WorkersGo(w)
  BY <1>6, IdleIsWorker DEF WorkersGo, At
<1>8. QED BY <1>3, <1>4, <1>5, <1>7 DEF Keeps, j

LEMMA OthersGrow ==
    ASSUME TypeOK, Grows, Troubles, prices' = prices, rows' \in [Key -> Row] PROVE Others
  BY DEF TypeOK, Grows, CaseGrows, Others, given

-----------------------------------------------------------------------------
(* Each of them keeps the invariant *)

QuoteInv == Records /\ Promise

LEMMA NeverBegun ==
    ASSUME QuoteInv, NEW w \in Workers, NEW j, NotStarted(w, j), Grows, Troubles, prices' = prices,
           RowsGrow, Answered(j[1])'
    PROVE  QuoteInv'
<1>1. Records /\ Promise /\ RowsStay /\ Others
  BY GrownRowsStay, OthersGrow DEF QuoteInv, Records, RowsGrow
<1>2. QED BY <1>1, NotStartedKeeps, RecordsNotStarted, PromiseKept DEF QuoteInv

LEMMA Begun ==
    ASSUME QuoteInv, NEW w \in Workers, NEW j, Started(w, j), Grows, Troubles, prices' = prices,
           RowsGrow
    PROVE  QuoteInv'
<1>1. Records /\ Promise /\ RowsStay /\ Others
  BY GrownRowsStay, OthersGrow DEF QuoteInv, Records, RowsGrow
<1>2. QED BY <1>1, StartedKeeps, RecordsStarted, PromiseKept DEF QuoteInv

LEMMA GoneOn ==
    ASSUME QuoteInv, NEW w \in Workers, GoesOn(w), Grows, Troubles, prices' = prices, RowsGrow
    PROVE  QuoteInv'
<1>1. Records /\ Promise /\ RowsStay /\ Others
  BY GrownRowsStay, OthersGrow DEF QuoteInv, Records, RowsGrow
<1>2. QED BY <1>1, GoesOnKeeps, RecordsGoOn, PromiseKept DEF QuoteInv

LEMMA Finished ==
    ASSUME QuoteInv, NEW w \in Workers, NEW st, Finishes(w, st), Grows, Troubles, prices' = prices,
           RowsGrow, NEW e, e = EmailOf(w), st = "PENDING" \/ Answered(e)'
    PROVE  QuoteInv'
<1>1. Records /\ Promise /\ RowsStay /\ Others
  BY GrownRowsStay, OthersGrow DEF QuoteInv, Records, RowsGrow
<1>2. Keeps(w)
  BY <1>1, FinishKeeps
<1>3. QED BY <1>1, <1>2, RecordsEnd, PromiseKept DEF QuoteInv

-----------------------------------------------------------------------------
(* The steps of a worker *)

\* What is the same when a step commits nothing.
LEMMA NothingCommitted ==
    ASSUME TypeOK, UNCHANGED <<given, case, prices, rows, handoffs, edits>>,
           crashes' \in Nat, crashes' >= crashes, crashes' + edits <= MaxTroubles
    PROVE  Grows /\ Troubles /\ RowsGrow /\ prices' = prices
<1>1. Grows
  BY DEF TypeOK, Grows, CaseGrows, given
<1>2. QED BY <1>1 DEF TypeOK, Troubles, RowsGrow

LEMMA BoundsKept == ASSUME TypeOK, UNCHANGED bounds PROVE Troubles /\ edits' >= edits
                                                  /\ crashes' \in Nat /\ crashes' >= crashes
                                                  /\ crashes' + edits <= MaxTroubles
  BY DEF TypeOK, bounds, Troubles

LEMMA BusyWorker ==
    ASSUME QuoteInv, NEW w \in Workers, ~At(w, "idle")
    PROVE  /\ worker[w].job \in Jobs /\ jobs[worker[w].job] \in JobRow
           /\ jobs[worker[w].job].attempts \in Nat /\ jobs[worker[w].job].attempts >= 1
           /\ jobs[worker[w].job].attempts <= MaxAttempts + crashes
           /\ EmailOf(w) \in Emails /\ worker[w] \in WorkerState
           /\ MaxAttempts \in Nat /\ crashes \in Nat
<1>1. worker[w].job \in Jobs /\ jobs[worker[w].job].status = "RUNNING" /\ TypeOK /\ AttemptsCounted
  BY DEF QuoteInv, Records, JobsHeld, HoldsJob
<1>2. jobs[worker[w].job] \in JobRow
  BY <1>1 DEF TypeOK
<1>3. jobs[worker[w].job].attempts \in Nat
  BY <1>2, QuotationAssumption DEF JobRow
<1>4. QED BY <1>1, <1>2, <1>3, JobParts, QuotationAssumption DEF AttemptsCounted, EmailOf, TypeOK

\* The job of a worker that stops.
LEMMA StopsDone ==
    ASSUME QuoteInv, NEW w \in Workers, ~At(w, "idle"), Done(worker[w].job), Stop(w)
    PROVE  Finishes(w, "DONE")
<1> DEFINE j == worker[w].job
<1>1. j \in Jobs /\ jobs[j].attempts \in Nat /\ TypeOK
  BY BusyWorker DEF QuoteInv, Records
<1>2. JobBecomes(j, "DONE", jobs[j].attempts) /\ WorkerBecomes(w, Idle)
  BY <1>1, JobForms, StopForm
<1>3. QED BY <1>1, <1>2 DEF Finishes

LEMMA HandoffGrows ==
    ASSUME QuoteInv, NEW w \in Workers, ~At(w, "idle"), NEW reason \in Reasons, NEW pause,
           Handoff(w, reason, pause), UNCHANGED <<given, prices, bounds>>
    PROVE  /\ Grows /\ Troubles /\ RowsGrow /\ prices' = prices
           /\ \A e \in Emails : e = EmailOf(w) => handoffs'[e] # "none"
<1>1. TypeOK /\ EmailOf(w) \in Emails
  BY BusyWorker DEF QuoteInv, Records
<1>2. Troubles /\ edits' >= edits
  BY <1>1, BoundsKept
<1>3. RowsGrow
  BY <1>1, StagedGrow DEF Handoff, RowsGrow
<1>4. CaseGrows(case, case')
  <2>1. case \in SalesCase
    BY <1>1 DEF TypeOK
  <2>2. CaseGrows(case, WithLearned(w, case)) /\ WithLearned(w, case) \in SalesCase
    BY <2>1, CasesGrow DEF CaseGrows
  <2>3. CaseGrows(WithLearned(w, case), HandedOff(WithLearned(w, case), w, pause))
    BY <2>2, CasesGrow
  <2>4. QED BY <2>2, <2>3, GrowsOn DEF Handoff
<1>5. /\ handoffs' \in [Emails -> Reasons \cup {"none"}]
      /\ \A e \in Emails : handoffs[e] # "none" => handoffs'[e] # "none"
      /\ \A e \in Emails : e = EmailOf(w) => handoffs'[e] # "none"
  <2>1. handoffs \in [Emails -> Reasons \cup {"none"}]
    BY <1>1 DEF TypeOK
  <2>2. handoffs' = [handoffs EXCEPT ![EmailOf(w)] = IF @ = "none" THEN reason ELSE @]
    BY DEF Handoff
  <2>3. reason # "none"
    BY NamedReasons
  <2> DEFINE own == EmailOf(w)
  <2>4. own \in Emails /\ handoffs' = [handoffs EXCEPT ![own] = IF @ = "none" THEN reason ELSE @]
    BY <1>1, <2>2
  <2> HIDE DEF own
  <2>5. QED BY <2>1, <2>3, <2>4 DEF own
<1>6. QED BY <1>2, <1>3, <1>4, <1>5 DEF Grows

LEMMA HumanAnswers == ASSUME NEW e \in Emails, handoffs'[e] # "none" PROVE Answered(e)'
  BY DEF Answered, Heard

LEMMA HandedOver ==
    ASSUME QuoteInv, NEW w \in Workers, ~At(w, "idle"), NEW reason \in Reasons,
           HandOffAndStop(w, reason)
    PROVE  QuoteInv'
<1>1. PICK e \in Emails : e = EmailOf(w)
  BY BusyWorker
<1>2. Grows /\ Troubles /\ RowsGrow /\ prices' = prices /\ handoffs'[e] # "none"
  BY <1>1, HandoffGrows DEF HandOffAndStop
<1>3. Finishes(w, "DONE")
  BY StopsDone DEF HandOffAndStop
<1>4. Answered(e)'
  BY <1>2, HumanAnswers
<1>5. QED BY <1>1, <1>2, <1>3, <1>4, Finished

-----------------------------------------------------------------------------
(* A job that is not begun, or is *)

LEMMA SkipKeeps ==
    ASSUME QuoteInv, NEW w \in Workers, NEW j \in Jobs, Skip(w, j)
    PROVE  QuoteInv'
<1> DEFINE e == j[1]
<1>1. TypeOK /\ e \in Emails
  BY JobParts DEF QuoteInv, Records
<1>2. /\ Grows /\ Troubles /\ RowsGrow /\ prices' = prices
  BY <1>1, BoundsKept, NothingCommitted DEF Skip, bounds
<1>3. NotStarted(w, j)
  BY <1>1, JobForms DEF Skip, Claims, NotStarted
<1>4. Answered(e)'
  <2>1. CASE case.status = "HUMAN_TAKEOVER"
    <3>1. InGoodHands
      BY <2>1 DEF InGoodHands
    <3>2. QED BY <1>1, <1>2, <3>1, GoodStays DEF Answered
  <2>2. CASE Replied(e) \/ handoffs[e] # "none"
    <3>1. Heard(e)
      BY <2>2 DEF Replied, Heard
    <3>2. RowsStay
      BY <1>2, GrownRowsStay
    <3>3. QED BY <1>1, <1>2, <3>1, <3>2, HeardStays DEF Answered
  <2>3. CASE AutomatedReply(mail[e], setup) = Ignore
    BY <2>3 DEF Answered, Skip, given
  <2>4. QED BY <2>1, <2>2, <2>3 DEF Skip, Handled
<1>5. QED BY <1>2, <1>3, <1>4, NeverBegun

LEMMA MachineKeeps ==
    ASSUME QuoteInv, NEW w \in Workers, NEW j \in Jobs, Machine(w, j)
    PROVE  QuoteInv'
<1> DEFINE e == j[1]  outcome == AutomatedReply(mail[e], setup)
<1>1. TypeOK /\ e \in Emails
  BY JobParts DEF QuoteInv, Records
<1>2. outcome.what \in Reasons /\ outcome.what # "none"
  BY MachineIsAnswered, HumansGetReasons, NamedReasons DEF Machine
<1>3. handoffs' = [handoffs EXCEPT ![e] = outcome.what]
  BY DEF Machine
<1>4. case' = [case EXCEPT !.status = IF @ = "ACTIVE" THEN "WAITING_HUMAN" ELSE @,
                           !.suppressed = @ \/ outcome = Retire]
  BY DEF Machine
<1>5. Troubles /\ edits' = edits /\ UNCHANGED <<given, prices, rows>>
  BY <1>1, BoundsKept DEF Machine, bounds
<1>6. NotStarted(w, j)
  BY <1>1, JobForms DEF Machine, Claims, NotStarted
<1> HIDE DEF e, outcome
<1>7. /\ handoffs' \in [Emails -> Reasons \cup {"none"}]
      /\ \A x \in Emails : handoffs[x] # "none" => handoffs'[x] # "none"
      /\ handoffs'[e] # "none"
  BY <1>1, <1>2, <1>3 DEF TypeOK
<1>8. CaseGrows(case, case')
  <2>1. case \in SalesCase
    BY <1>1 DEF TypeOK
  <2>2. QED BY <1>4, <2>1 DEF SalesCase, CaseStatus, CaseGrows
<1>9. Grows /\ RowsGrow /\ prices' = prices
  BY <1>1, <1>5, <1>7, <1>8 DEF Grows, RowsGrow, TypeOK
<1>10. Answered(j[1])'
  BY <1>1, <1>7, HumanAnswers DEF e
<1>11. QED BY <1>5, <1>6, <1>9, <1>10, NeverBegun

LEMMA BeginKeeps ==
    ASSUME QuoteInv, NEW w \in Workers, NEW j \in Jobs, Begin(w, j)
    PROVE  QuoteInv'
<1> DEFINE x == [Idle EXCEPT !.pc = "analyze", !.job = j, !.seen = case]
<1>1. TypeOK
  BY DEF QuoteInv, Records
<1>2. Grows /\ Troubles /\ RowsGrow /\ prices' = prices
  BY <1>1, BoundsKept, NothingCommitted DEF Begin, bounds
<1>3. JobBecomes(j, "RUNNING", jobs[j].attempts + 1)
  BY <1>1, JobForms DEF Begin
<1>4. worker' = [worker EXCEPT ![w] = x]
  BY DEF Begin
<1>5. Claims(w, j)
  BY DEF Begin
<1>6. Started(w, j)
  <2>1. WorkerBecomes(w, x)
    <3> HIDE DEF x
    <3>1. QED BY <1>1, <1>4 DEF TypeOK, WorkerBecomes
  <2>2. QED BY <1>3, <1>5, <2>1 DEF Claims, Started
<1>7. QED BY <1>2, <1>6, Begun

LEMMA UnsubscribeKeeps ==
    ASSUME QuoteInv, NEW w \in Workers, Unsubscribe(w)
    PROVE  QuoteInv'
<1>1. TypeOK /\ ~At(w, "idle")
  BY DEF QuoteInv, Records, Unsubscribe, At
<1>2. PICK e \in Emails : e = EmailOf(w)
  BY <1>1, BusyWorker
<1>3. Finishes(w, "DONE")
  BY <1>1, StopsDone DEF Unsubscribe
<1>4. Troubles /\ edits' = edits /\ UNCHANGED <<given, prices, rows, handoffs>>
  BY <1>1, BoundsKept DEF Unsubscribe, bounds
<1>5. CaseGrows(case, case') /\ case'.suppressed
  <2>1. case \in SalesCase /\ case' = [case EXCEPT !.suppressed = TRUE, !.status = "PAUSED"]
    BY <1>1 DEF TypeOK, Unsubscribe
  <2>2. QED BY <2>1 DEF SalesCase, CaseStatus, CaseGrows
<1>6. Grows /\ RowsGrow
  BY <1>1, <1>4, <1>5 DEF Grows, RowsGrow, TypeOK
<1>7. Answered(e)'
  BY <1>5 DEF Answered, InGoodHands
<1>8. QED BY <1>2, <1>3, <1>4, <1>6, <1>7, Finished

\* A worker that goes on to the answer.
LEMMA RoutesOn ==
    ASSUME QuoteInv, NEW w \in Workers, ~At(w, "idle"), UNCHANGED jobs, NEW kept \in BOOLEAN,
           worker' \in {[worker EXCEPT ![w].pc = "route"],
                        [worker EXCEPT ![w].pc = "route", ![w].staged = kept]}
    PROVE  GoesOn(w)
<1> DEFINE x == [worker[w] EXCEPT !.pc = "route"]
           y == [worker[w] EXCEPT !.pc = "route", !.staged = kept]
<1>1. worker \in [Workers -> WorkerState] /\ worker[w] \in WorkerState
  BY DEF QuoteInv, Records, TypeOK
<1>2. /\ x \in WorkerState /\ x.pc = "route" /\ x.job = worker[w].job /\ x.seen = worker[w].seen
      /\ y \in WorkerState /\ y.pc = "route" /\ y.job = worker[w].job /\ y.seen = worker[w].seen
  BY <1>1 DEF WorkerState
<1>3. worker' = [worker EXCEPT ![w] = x] \/ worker' = [worker EXCEPT ![w] = y]
  OBVIOUS
<1> HIDE DEF x, y
<1>4. WorkerBecomes(w, x) \/ WorkerBecomes(w, y)
  BY <1>1, <1>3 DEF WorkerBecomes
<1>5. QED BY <1>2, <1>4 DEF GoesOn

LEMMA PassOnKeeps ==
    ASSUME QuoteInv, NEW w \in Workers, PassOn(w)
    PROVE  QuoteInv'
<1>1. TypeOK /\ ~At(w, "idle")
  BY DEF QuoteInv, Records, PassOn, Analyzed, At
<1>2. Grows /\ Troubles /\ RowsGrow /\ prices' = prices
  BY <1>1, BoundsKept, NothingCommitted DEF PassOn, bounds
<1>3. GoesOn(w)
  BY <1>1, RoutesOn DEF PassOn
<1>4. QED BY <1>2, <1>3, GoneOn

LEMMA AskKeeps ==
    ASSUME QuoteInv, NEW w \in Workers, AskForCertificate(w)
    PROVE  QuoteInv'
<1>1. PICK found \in {"all", "none"} :
          LET outcome == Certificates(w, found) IN
          /\ Analyzed(w) /\ outcome.act = "human"
          /\ Handoff(w, outcome.what, Primary(EmailOf(w)))
          /\ IF Primary(EmailOf(w)) THEN Done(worker[w].job) /\ Stop(w)
             ELSE worker' = [worker EXCEPT ![w].pc = "route"] /\ UNCHANGED jobs
          /\ UNCHANGED <<given, prices, bounds>>
  BY DEF AskForCertificate
<1> DEFINE outcome == Certificates(w, found)
<1>2. ~At(w, "idle")
  BY <1>1 DEF Analyzed, At
<1>3. outcome.what \in Reasons
  <2>1. outcome \in Gate \cup {Draft("coa")}
    BY CertificateIsHandled DEF Certificates
  <2>2. QED BY <1>1, <2>1, HumansGetReasons
<1>4. PICK e \in Emails : e = EmailOf(w)
  BY <1>2, BusyWorker
<1>5. Grows /\ Troubles /\ RowsGrow /\ prices' = prices /\ handoffs'[e] # "none"
  <2> HIDE DEF outcome
  <2>1. Handoff(w, outcome.what, Primary(EmailOf(w))) /\ UNCHANGED <<given, prices, bounds>>
    BY <1>1 DEF outcome
  <2>2. QED BY <1>2, <1>3, <1>4, <2>1, HandoffGrows
<1>6. CASE Primary(EmailOf(w))
  <2>1. Finishes(w, "DONE")
    BY <1>1, <1>2, <1>6, StopsDone
  <2>2. Answered(e)'
    BY <1>5, HumanAnswers
  <2>3. QED BY <1>4, <1>5, <2>1, <2>2, Finished
<1>7. CASE ~Primary(EmailOf(w))
  <2>1. GoesOn(w)
    BY <1>1, <1>2, <1>7, RoutesOn
  <2>2. QED BY <1>5, <2>1, GoneOn
<1>8. QED BY <1>6, <1>7

LEMMA CertificateKey ==
    ASSUME NEW e \in Emails
    PROVE  /\ KeyOf(e, "coa") \in Key /\ KeyOf(e, "coa").kind = "coa" /\ KeyOf(e, "coa").email = e
  BY DEF KeyOf, Key, Kinds

LEMMA StageCertificateKeeps ==
    ASSUME QuoteInv, NEW w \in Workers, StageCertificate(w)
    PROVE  QuoteInv'
<1>1. TypeOK /\ ~At(w, "idle") /\ UNCHANGED <<given, prices, bounds>>
  BY DEF QuoteInv, Records, StageCertificate, Analyzed, At
<1>2. PICK e \in Emails : e = EmailOf(w)
  BY <1>1, BusyWorker
<1> DEFINE k == KeyOf(e, "coa")  r == [NoRow EXCEPT !.status = "PENDING"]
<1>3. PICK found \in {"all", "some"} :
          LET commits == found = "some" \/ Primary(e) IN
          /\ IF found = "some"
             THEN /\ handoffs' = [handoffs EXCEPT ![e] = "COA_REVIEW"]
                  /\ case' = HandedOff(case, w, Primary(e))
             ELSE UNCHANGED <<handoffs, case>>
          /\ rows' = IF commits THEN [rows EXCEPT ![k] = r] ELSE rows
          /\ IF Primary(e) THEN Done(worker[w].job) /\ Stop(w)
             ELSE /\ worker' = [worker EXCEPT ![w].pc = "route", ![w].staged = ~commits]
                  /\ UNCHANGED jobs
  BY <1>2 DEF StageCertificate
<1>4. k \in Key /\ k.kind = "coa" /\ k.email = e
  BY CertificateKey
<1>5. r \in Row /\ r.status = "PENDING"
  BY QuotationAssumption DEF NoRow, Row
<1>6. Troubles /\ edits' = edits
  BY <1>1, BoundsKept DEF bounds
<1> HIDE DEF k, r
<1>7. RowsGrow /\ (Primary(e) => rows'[k].status = "PENDING")
  <2>1. rows \in [Key -> Row]
    BY <1>1 DEF TypeOK
  <2>2. rows' = rows \/ rows' = [rows EXCEPT ![k] = r]
    BY <1>3
  <2>3. Primary(e) => rows' = [rows EXCEPT ![k] = r]
    BY <1>3
  <2>4. QED BY <1>4, <1>5, <2>1, <2>2, <2>3 DEF RowsGrow
<1>8. Grows
  <2>1. handoffs \in [Emails -> Reasons \cup {"none"}] /\ case \in SalesCase
    BY <1>1 DEF TypeOK
  <2>2. "COA_REVIEW" \in Reasons
    BY NamedReasons
  <2>3. handoffs' = handoffs \/ handoffs' = [handoffs EXCEPT ![e] = "COA_REVIEW"]
    BY <1>3
  <2>4. CaseGrows(case, case')
    <3>1. case' = case \/ case' = HandedOff(case, w, Primary(e))
      BY <1>3
    <3>2. CaseGrows(case, case) /\ CaseGrows(case, HandedOff(case, w, Primary(e)))
      BY <2>1, CasesGrow
    <3>3. QED BY <3>1, <3>2
  <2>5. QED BY <1>1, <1>6, <2>1, <2>2, <2>3, <2>4 DEF Grows, TypeOK
<1>9. CASE Primary(e)
  <2>1. Finishes(w, "DONE")
    BY <1>1, <1>3, <1>9, StopsDone
  <2>2. Answered(e)'
    BY <1>4, <1>7, <1>9 DEF Answered, Heard, KeysOf, Live
  <2>3. QED BY <1>1, <1>2, <1>6, <1>7, <1>8, <2>1, <2>2, Finished
<1>10. CASE ~Primary(e)
  <2>1. GoesOn(w)
    BY <1>1, <1>3, <1>10, RoutesOn
  <2>2. QED BY <1>1, <1>6, <1>7, <1>8, <2>1, GoneOn
<1>11. QED BY <1>9, <1>10

\* A key that is written holds a reply, or one that was cancelled for a reason.
LEMMA TakenKey ==
    ASSUME QuoteInv, NEW k \in Key, Written(k)
    PROVE  Heard(k.email) \/ (rows[k].status = "CANCELLED" /\ Excused(k))
<1>1. rows[k] \in Row /\ Excuses
  BY DEF QuoteInv, Records, Promise, TypeOK
<1>2. Live(k) \/ rows[k].status = "CANCELLED"
  BY <1>1 DEF Row, Live, Written
<1>3. QED BY <1>1, <1>2 DEF Heard, KeysOf, Excuses

LEMMA CertificateForm ==
    ASSUME TypeOK, NEW j \in Jobs, NEW primary \in BOOLEAN,
           jobs' = [jobs EXCEPT ![j] =
                        IF primary THEN [@ EXCEPT !.status = "DONE"] ELSE AfterFailure(@)]
    PROVE  /\ primary => JobBecomes(j, "DONE", jobs[j].attempts)
           /\ ~primary =>
                  JobBecomes(j, IF jobs[j].attempts < MaxAttempts THEN "PENDING" ELSE "FAILED",
                             jobs[j].attempts)
<1>1. jobs \in [Jobs -> JobRow] /\ jobs[j] \in JobRow
  BY DEF TypeOK
<1>2. jobs[j] = [status |-> jobs[j].status, attempts |-> jobs[j].attempts]
  BY <1>1 DEF JobRow
<1> DEFINE over == [status |-> "DONE", attempts |-> jobs[j].attempts]
           failed == [status |-> IF jobs[j].attempts < MaxAttempts THEN "PENDING" ELSE "FAILED",
                      attempts |-> jobs[j].attempts]
           next == IF primary THEN [jobs[j] EXCEPT !.status = "DONE"] ELSE AfterFailure(jobs[j])
<1>3. jobs' = [jobs EXCEPT ![j] = next]
  OBVIOUS
<1>4. [jobs[j] EXCEPT !.status = "DONE"] = over /\ AfterFailure(jobs[j]) = failed
  BY <1>1, <1>2 DEF AfterFailure
<1>5. next = IF primary THEN over ELSE failed
  BY <1>4
<1> HIDE DEF next
<1>6. jobs' = [i \in Jobs |-> IF i = j THEN next ELSE jobs[i]]
  BY <1>1, <1>3
<1>7. QED BY <1>5, <1>6 DEF JobBecomes

LEMMA CertificateTakenKeeps ==
    ASSUME QuoteInv, NEW w \in Workers, CertificateTaken(w)
    PROVE  QuoteInv'
<1>1. TypeOK /\ ~At(w, "idle")
  BY DEF QuoteInv, Records, CertificateTaken, Analyzed, At
<1>2. PICK e \in Emails : e = EmailOf(w)
  BY <1>1, BusyWorker
<1> DEFINE k == KeyOf(e, "coa")  j == worker[w].job
<1>3. k \in Key /\ k.kind = "coa" /\ k.email = e /\ Written(k)
  BY <1>2, CertificateKey DEF CertificateTaken
<1>4. Grows /\ Troubles /\ RowsGrow /\ prices' = prices
  BY <1>1, BoundsKept, NothingCommitted DEF CertificateTaken, bounds
<1>5. /\ jobs' = [jobs EXCEPT ![j] =
                      IF Primary(e) THEN [@ EXCEPT !.status = "DONE"] ELSE AfterFailure(@)]
      /\ Stop(w)
  BY <1>2 DEF CertificateTaken
<1>6. /\ j \in Jobs /\ jobs[j].attempts \in Nat /\ MaxAttempts \in Nat /\ crashes' \in Nat
      /\ j[1] = e
  BY <1>1, <1>2, <1>4, BusyWorker DEF Troubles, EmailOf
<1>7. WorkerBecomes(w, Idle)
  BY <1>1, <1>5, StopForm
<1>8. Answered(e)
  <2>1. Heard(e) \/ Excused(k)
    BY <1>3, TakenKey
  <2>2. ~IsQuote(k) /\ k.kind # "multi"
    BY <1>3 DEF IsQuote
  <2>3. QED BY <2>1, <2>2 DEF Excused, Answered
<1>9. CASE Primary(e)
  <2>2. JobBecomes(j, "DONE", jobs[j].attempts)
    BY <1>1, <1>5, <1>6, <1>9, CertificateForm
  <2>3. Finishes(w, "DONE")
    BY <1>1, <1>6, <1>7, <2>2 DEF Finishes
  <2>4. Answered(e)'
    <3>1. RowsStay /\ JobsStay
      <4>1. j \in Jobs /\ jobs[j].status = "RUNNING"
        BY <1>1 DEF QuoteInv, Records, JobsHeld, HoldsJob
      <4>2. QED BY <1>4, <2>2, <4>1, GrownRowsStay DEF JobBecomes, JobsStay
    <3>2. QED BY <1>1, <1>4, <1>8, <3>1, AnsweredStays
  <2>5. QED BY <1>2, <1>4, <2>3, <2>4, Finished
<1>10. CASE ~Primary(e)
  <2> DEFINE st == IF jobs[j].attempts < MaxAttempts THEN "PENDING" ELSE "FAILED"
  <2>2. JobBecomes(j, st, jobs[j].attempts)
    BY <1>1, <1>5, <1>6, <1>10, CertificateForm
  <2>3. st = "PENDING" => jobs[j].attempts < MaxAttempts + crashes'
    BY <1>6
  <2>4. st \in {"PENDING", "DONE", "FAILED"} /\ (st = "PENDING" \/ st = "FAILED")
    OBVIOUS
  <2> HIDE DEF st
  <2>5. Finishes(w, st)
    <3>1. jobs[j].attempts <= jobs[j].attempts
      BY <1>6
    <3>2. QED BY <1>1, <1>6, <1>7, <2>2, <2>3, <2>4, <3>1 DEF Finishes
  <2>6. st = "FAILED" => Answered(e)'
    <3>1. jobs'[j].status = st
      BY <1>6, <2>2 DEF JobBecomes
    <3>2. QED BY <1>6, <3>1 DEF Answered, LostRequest
  <2>7. QED BY <1>2, <1>4, <2>4, <2>5, <2>6, Finished
<1>11. QED BY <1>9, <1>10

LEMMA WaitKeeps ==
    ASSUME QuoteInv, NEW w \in Workers, At(w, "route"), NEW outcome, WaitForPrices(w, outcome)
    PROVE  QuoteInv'
<1> DEFINE j == worker[w].job
<1>1. TypeOK /\ ~At(w, "idle")
  BY DEF QuoteInv, Records, At
<1>2. PICK e \in Emails : e = EmailOf(w)
  BY <1>1, BusyWorker
<1>3. /\ j \in Jobs /\ jobs[j].attempts \in Nat /\ jobs[j].attempts >= 1 /\ MaxAttempts \in Nat
      /\ jobs[j].attempts <= MaxAttempts + crashes /\ crashes \in Nat
  BY <1>1, BusyWorker
<1>4. Troubles /\ edits' = edits /\ crashes' = crashes /\ UNCHANGED <<given, prices, handoffs>>
  BY <1>1, BoundsKept DEF WaitForPrices, bounds
<1>5. Finishes(w, "PENDING")
  <2>1. JobBecomes(j, "PENDING", jobs[j].attempts - 1)
    BY <1>1, <1>3, JobForms DEF WaitForPrices
  <2>2. WorkerBecomes(w, Idle)
    BY <1>1, StopForm DEF WaitForPrices
  <2>3. /\ jobs[j].attempts - 1 \in Nat /\ jobs[j].attempts - 1 <= jobs[j].attempts
        /\ jobs[j].attempts - 1 < MaxAttempts + crashes'
    BY <1>3, <1>4
  <2> DEFINE n == jobs[j].attempts - 1
  <2> HIDE DEF n
  <2>4. /\ n \in Nat /\ n <= jobs[j].attempts /\ n < MaxAttempts + crashes'
        /\ JobBecomes(j, "PENDING", n)
    BY <2>1, <2>3 DEF n
  <2>5. QED BY <1>1, <2>2, <2>4 DEF Finishes
<1>6. RowsGrow
  <2>1. rows' = rows \/ rows' = WithStaged(w, rows)
    BY DEF WaitForPrices
  <2>2. CASE rows' = rows
    BY <1>1, <2>2 DEF RowsGrow, TypeOK
  <2>3. CASE rows' = WithStaged(w, rows)
    BY <1>1, <1>2, <2>3, StagedGrow DEF RowsGrow
  <2>4. QED BY <2>1, <2>2, <2>3
<1>7. CaseGrows(case, case')
  <2>1. case' = case \/ case' = [case EXCEPT !.product = TRUE, !.category = TRUE]
    BY Zenon DEF WaitForPrices
  <2>2. case \in SalesCase
    BY <1>1 DEF TypeOK
  <2>3. CaseGrows(case, case) /\ CaseGrows(case, [case EXCEPT !.product = TRUE, !.category = TRUE])
    BY <2>2, CasesGrow
  <2>4. QED BY <2>1, <2>3
<1>8. Grows
  BY <1>1, <1>4, <1>7 DEF Grows, TypeOK
<1>9. QED BY <1>2, <1>4, <1>5, <1>6, <1>8, Finished

LEMMA BeginDraftKeeps ==
    ASSUME QuoteInv, NEW w \in Workers, At(w, "route"), NEW outcome \in Outcomes(w),
           BeginDraft(w, outcome)
    PROVE  QuoteInv'
<1> DEFINE e == EmailOf(w)
           learned == Learns(mail[e], worker[w].seen)
           policy == IF outcome.what \in Quotes THEN prices.policy ELSE 0
           x == [worker[w] EXCEPT !.pc = "draft", !.kind = outcome.what, !.learned = learned,
                                  !.policy = policy, !.week = prices.week]
<1>1. TypeOK /\ ~At(w, "idle")
  BY DEF QuoteInv, Records, At
<1>2. /\ worker \in [Workers -> WorkerState] /\ worker[w] \in WorkerState /\ mail[e] \in Reading
      /\ prices.week \in 0..MaxWeeks /\ prices.policy \in 0..MaxPrices
  BY <1>1, BusyWorker, QuotationAssumption DEF TypeOK, Prices, Weeks
<1>3. /\ outcome \in Verdict /\ outcome.act = "draft"
      /\ outcome \in Unquoted \/ worker[w].seen.product \/ learned
  <2>1. PICK o \in Observed(e) : outcome = Route(mail[e], worker[w].seen, setup, o)
    BY DEF Outcomes
  <2>2. QED BY <1>2, <2>1, RouteQuotesAProduct DEF BeginDraft
<1>4. /\ outcome.what \in Kinds \cup {"quote"}
      /\ outcome.what = "quote" => worker[w].seen.product \/ learned
  <2>1. "quote" \notin Kinds
    BY DEF Kinds
  <2>2. QED BY <1>3, <2>1, HumansGetReasons
<1>5. policy \in 0..MaxPrices /\ learned \in BOOLEAN
  <2>1. policy \in {prices.policy, 0}
    BY Zenon
  <2>2. learned \in BOOLEAN
    BY DEF Learns
  <2>3. QED BY <1>2, <2>1, <2>2, QuotationAssumption
<1>6. worker' = [worker EXCEPT ![w] = x]
  BY DEF BeginDraft
<1>7. /\ x \in WorkerState /\ x.pc = "draft" /\ x.job = worker[w].job /\ x.seen = worker[w].seen
      /\ x.kind = outcome.what /\ x.week = prices.week /\ x.learned = learned
  <2> HIDE DEF e, learned, policy
  <2>1. QED BY <1>2, <1>4, <1>5 DEF WorkerState
<1> HIDE DEF x, learned, policy, e
<1>8. WorkerBecomes(w, x)
  BY <1>2, <1>6 DEF WorkerBecomes
<1>9. GoesOn(w)
  BY <1>1, <1>4, <1>7, <1>8 DEF GoesOn, BeginDraft
<1>10. Grows /\ Troubles /\ RowsGrow /\ prices' = prices
  BY <1>1, BoundsKept, NothingCommitted DEF BeginDraft, bounds
<1>11. QED BY <1>9, <1>10, GoneOn

LEMMA AnswerKeeps ==
    ASSUME QuoteInv, NEW w \in Workers, Answer(w)
    PROVE  QuoteInv'
<1>1. PICK outcome \in Outcomes(w) :
          WaitForPrices(w, outcome) \/ ReachHuman(w, outcome) \/ BeginDraft(w, outcome)
  BY DEF Answer
<1>2. At(w, "route") /\ ~At(w, "idle")
  BY DEF Answer, At
<1>3. CASE ReachHuman(w, outcome)
  <2>1. PICK o \in Observed(EmailOf(w)) :
            outcome = Route(mail[EmailOf(w)], worker[w].seen, setup, o)
    BY DEF Outcomes
  <2>2. mail[EmailOf(w)] \in Reading
    BY <1>2, BusyWorker DEF QuoteInv, Records, TypeOK
  <2>3. outcome.what \in Reasons
    BY <1>3, <2>1, <2>2, RouteQuotesAProduct, HumansGetReasons DEF ReachHuman
  <2>4. QED BY <1>2, <1>3, <2>3, HandedOver DEF ReachHuman
<1>4. QED BY <1>1, <1>2, <1>3, WaitKeeps, BeginDraftKeeps

\* Unless it is a human's, the draft is of a key that is still to be written, or taken.
LEMMA DraftKey ==
    ASSUME QuoteInv, NEW w \in Workers, At(w, "draft")
    PROVE  /\ ReplyKey(w) \in Key /\ ReplyKey(w).email = EmailOf(w)
           /\ ReplyKey(w).kind = worker[w].kind
           /\ worker[w].kind = "quote" => ReplyKey(w).week = worker[w].week
<1>1. worker[w].kind \in Kinds \cup {"quote"} /\ worker[w].week \in Weeks /\ EmailOf(w) \in Emails
  BY BusyWorker DEF QuoteInv, Records, Drafts, At
<1>2. CASE worker[w].kind = "quote"
  <2>1. ReplyKey(w) = [email |-> EmailOf(w), kind |-> "quote", week |-> worker[w].week]
    BY <1>2 DEF ReplyKey
  <2>2. ReplyKey(w) \in [email : Emails, kind : {"quote"}, week : Weeks]
    BY <1>1, <2>1
  <2>3. QED BY <1>2, <2>1, <2>2 DEF Key
<1>3. CASE worker[w].kind # "quote"
  <2>1. ReplyKey(w) = [email |-> EmailOf(w), kind |-> worker[w].kind, week |-> 0]
    BY <1>3 DEF ReplyKey
  <2>2. ReplyKey(w) \in [email : Emails, kind : Kinds, week : {0}]
    BY <1>1, <1>3, <2>1
  <2>3. QED BY <1>3, <2>1, <2>2 DEF Key
<1>4. QED BY <1>2, <1>3

LEMMA StageKeeps ==
    ASSUME QuoteInv, NEW w \in Workers, Stage(w)
    PROVE  QuoteInv'
<1> DEFINE k == ReplyKey(w)
           r == [status |-> "PENDING", policy |-> worker[w].policy, week |-> worker[w].week]
           f == WithStaged(w, rows)
<1>1. TypeOK /\ At(w, "draft") /\ ~At(w, "idle") /\ Records /\ Promise
  BY DEF QuoteInv, Records, Stage, Stages, At
<1>2. PICK e \in Emails : e = EmailOf(w)
  BY <1>1, BusyWorker
<1>3. k \in Key /\ k.email = e /\ k.kind = worker[w].kind /\ ~Written(k)
  BY <1>1, <1>2, DraftKey DEF Stage
<1>4. r \in Row /\ r.status = "PENDING"
  BY <1>1 DEF TypeOK, WorkerState, Row
<1>5. /\ f \in [Key -> Row]
      /\ \A l \in Key : f[l] = rows[l] \/ (l.kind = "coa" /\ f[l].status = "PENDING")
  BY <1>1, <1>2, StagedGrow
<1>6. rows' = [f EXCEPT ![k] = r]
  BY DEF Stage
<1>7. Troubles /\ edits' = edits /\ UNCHANGED <<given, prices, handoffs>>
  BY <1>1, BoundsKept DEF Stage, bounds
<1>8. Grows
  <2>1. case \in SalesCase
    BY <1>1 DEF TypeOK
  <2>2. CaseGrows(case, case')
    BY <2>1, CasesGrow DEF Stage
  <2>3. QED BY <1>1, <1>7, <2>2 DEF Grows, TypeOK
<1>9. Finishes(w, "DONE")
  BY <1>1, StopsDone DEF Stage
<1> HIDE DEF k, r, f
<1>10. /\ rows' \in [Key -> Row] /\ rows'[k] = r
       /\ \A l \in Key : l # k => rows'[l] = f[l]
  BY <1>3, <1>4, <1>5, <1>6
<1>11. Answered(e)'
  BY <1>3, <1>4, <1>10 DEF Answered, Heard, KeysOf, Live
<1>12. CASE worker[w].kind # "quote"
  <2>1. RowsGrow
    BY <1>3, <1>4, <1>5, <1>10, <1>12 DEF RowsGrow
  <2>2. QED BY <1>2, <1>7, <1>8, <1>9, <1>11, <2>1, Finished
<1>13. CASE worker[w].kind = "quote"
  <2>1. RowsStay
    BY <1>3, <1>4, <1>5, <1>10 DEF RowsStay, Live, Quotes, Written
  <2>2. Keeps(w) /\ jobs'[worker[w].job].status = "DONE"
    BY <1>1, <1>2, <1>7, <1>8, <1>9, <1>11, <2>1, FinishKeeps
  <2>3. case'.product
    <3>1. worker[w].seen.product \/ worker[w].learned
      BY <1>1, <1>13 DEF Records, Drafts
    <3>2. CASE worker[w].learned
      <4>1. case' = [case EXCEPT !.product = TRUE, !.category = TRUE] /\ case \in SalesCase
        BY <1>1, <3>2 DEF Stage, WithLearned, TypeOK
      <4>2. QED BY <4>1 DEF SalesCase
    <3>3. CASE worker[w].seen.product
      <4>1. case.product
        BY <1>1, <3>3 DEF Promise, Products
      <4>2. QED BY <1>8, <4>1 DEF Grows, CaseGrows
    <3>4. QED BY <3>1, <3>2, <3>3
  <2>4. \A l \in Key : \/ rows'[l] = rows[l]
                       \/ l.kind = "coa" /\ rows'[l].status = "PENDING"
                       \/ l = k /\ rows'[l].status = "PENDING"
    BY <1>4, <1>5, <1>10
  <2>5. Promise'
    BY <1>1, <1>3, <1>13, <2>2, <2>3, <2>4, QuoteStaged DEF Stage, Stop, k
  <2>6. Records'
    BY <1>1, <1>7, <1>8, <1>9, <1>10, OthersGrow, RecordsEnd
  <2>7. QED BY <2>5, <2>6 DEF QuoteInv
<1>14. QED BY <1>12, <1>13

LEMMA KeyTakenKeeps ==
    ASSUME QuoteInv, NEW w \in Workers, KeyTaken(w)
    PROVE  QuoteInv'
<1> DEFINE k == ReplyKey(w)  j == worker[w].job
<1>1. TypeOK /\ At(w, "draft") /\ ~At(w, "idle") /\ Records /\ Promise
  BY DEF QuoteInv, Records, KeyTaken, Stages, At
<1>2. PICK e \in Emails : e = EmailOf(w)
  BY <1>1, BusyWorker
<1>3. /\ k \in Key /\ k.email = e /\ k.kind = worker[w].kind /\ Written(k)
      /\ IsQuote(k) => k.week = worker[w].week
  BY <1>1, <1>2, DraftKey DEF KeyTaken, IsQuote
<1>4. Grows /\ Troubles /\ RowsGrow /\ prices' = prices
  BY <1>1, BoundsKept, NothingCommitted DEF KeyTaken, bounds
<1>5. Finishes(w, "DONE")
  BY <1>1, StopsDone DEF KeyTaken
<1>6. j \in Jobs /\ jobs[j].status = "RUNNING" /\ j[1] = e /\ j = <<j[1], j[2]>>
  BY <1>1, <1>2, JobParts DEF Records, JobsHeld, HoldsJob, EmailOf
<1>7. jobs'[j].status = "DONE" /\ \A i \in Jobs : i # j => jobs'[i] = jobs[i]
  BY <1>1, <1>6 DEF KeyTaken, Done, TypeOK, JobRow
<1>8. RowsStay /\ JobsStay
  BY <1>4, <1>6, <1>7, GrownRowsStay DEF JobsStay
<1> HIDE DEF k, j
<1>9. Answered(e)'
  <2>1. CASE Answered(e)
    BY <1>1, <1>4, <1>8, <2>1, AnsweredStays
  <2>2. CASE ~Answered(e)
    <3>1. rows[k].status = "CANCELLED" /\ Excused(k) /\ ~InGoodHands /\ ~LostRequest(e)
      BY <1>3, <2>2, TakenKey DEF Answered
    <3>2. k.kind # "multi"
      BY <1>3, <3>1 DEF LostRequest, KeysOf
    <3>3. IsQuote(k)
      BY <3>1, <3>2 DEF Excused
    <3>4. PICK i \in Jobs : Enqueued(i) /\ i[1] = e /\ k.week <= i[2]
      BY <1>3, <3>1, <3>2 DEF Excused
    <3>5. i[2] <= k.week
      BY <1>1, <1>2, <1>3, <3>3, <3>4 DEF Promise, Calendar
    <3>6. i = <<e, k.week>>
      <4>1. i[2] \in 0..MaxWeeks /\ i = <<i[1], i[2]>>
        BY JobParts
      <4>2. k.week \in 1..MaxWeeks
        BY <1>3, <3>3, KeyParts DEF Weeks
      <4>3. i[2] = k.week
        BY <3>4, <3>5, <4>1, <4>2
      <4>4. QED BY <3>4, <4>1, <4>3
    <3>7. i = j
      <4>1. CASE Open(i)
        BY <1>1, <1>6, <3>4, <4>1 DEF Promise, Turns, Open
      <4>2. CASE ~Open(i)
        <5>1. jobs[i] \in JobRow
          BY <1>1 DEF TypeOK
        <5>2. jobs[i].status = "DONE" \/ jobs[i].status = "FAILED"
          BY <3>4, <4>2, <5>1 DEF JobRow, Open, Enqueued
        <5>3. LostRequest(e)
          BY <1>3, <3>1, <3>3, <3>4, <3>6, <5>2 DEF LostRequest, KeysOf, IsQuote
        <5>4. QED BY <3>1, <5>3
      <4>3. QED BY <4>1, <4>2
    <3>8. LostRequest(e)'
      <4>1. rows'[k].status = "CANCELLED"
        BY <3>1 DEF KeyTaken
      <4>2. jobs'[<<e, k.week>>].status = "DONE"
        BY <1>7, <3>6, <3>7
      <4>3. QED BY <1>3, <3>3, <4>1, <4>2 DEF LostRequest, KeysOf, IsQuote
    <3>9. QED BY <3>8 DEF Answered
  <2>3. QED BY <2>1, <2>2
<1>10. QED BY <1>2, <1>4, <1>5, <1>9, Finished

LEMMA CrashKeeps ==
    ASSUME QuoteInv, NEW w \in Workers, Crash(w)
    PROVE  QuoteInv'
<1> DEFINE j == worker[w].job
<1>1. TypeOK /\ ~At(w, "idle")
  BY DEF QuoteInv, Records, Crash
<1>2. PICK e \in Emails : e = EmailOf(w)
  BY <1>1, BusyWorker
<1>3. /\ j \in Jobs /\ jobs[j].attempts \in Nat /\ MaxAttempts \in Nat
      /\ jobs[j].attempts <= MaxAttempts + crashes /\ crashes \in Nat /\ crashes' = crashes + 1
      /\ edits \in Nat /\ edits' = edits /\ crashes + edits < MaxTroubles /\ MaxTroubles \in Nat
  BY <1>1, BusyWorker, QuotationAssumption DEF Crash, TypeOK
<1>4. crashes' \in Nat /\ crashes' >= crashes /\ crashes' + edits <= MaxTroubles
  BY <1>3
<1>5. Grows /\ Troubles /\ RowsGrow /\ prices' = prices
  BY <1>1, <1>4, NothingCommitted DEF Crash
<1>6. Finishes(w, "PENDING")
  <2>1. JobBecomes(j, "PENDING", jobs[j].attempts)
    BY <1>1, <1>3, JobForms DEF Crash
  <2>2. WorkerBecomes(w, Idle)
    BY <1>1, StopForm DEF Crash
  <2>3. jobs[j].attempts <= jobs[j].attempts /\ jobs[j].attempts < MaxAttempts + crashes'
    BY <1>3
  <2>4. QED BY <1>1, <1>3, <2>1, <2>2, <2>3 DEF Finishes
<1>7. QED BY <1>2, <1>5, <1>6, Finished

LEMMA WorkerStepKeeps ==
    ASSUME QuoteInv, NEW w \in Workers, WorkerStep(w)
    PROVE  QuoteInv'
<1>1. CASE AnalysisFails(w) \/ DraftFails(w)
  BY <1>1, NamedReasons, HandedOver DEF AnalysisFails, DraftFails, At
<1>2. CASE SubmitDraft(w)
  <2>1. Review(worker[w].kind).what \in Reasons
    BY NamedReasons DEF Review, ToHuman
  <2>2. QED BY <1>2, <2>1, HandedOver DEF SubmitDraft, At
<1>3. QED
  BY <1>1, <1>2, SkipKeeps, MachineKeeps, BeginKeeps, UnsubscribeKeeps, PassOnKeeps, AskKeeps,
     StageCertificateKeeps, CertificateTakenKeeps, AnswerKeeps, StageKeeps, KeyTakenKeeps
     DEF WorkerStep

\* Only the delivery and what it writes.
LEMMA RecordsDelivered ==
    ASSUME Records, rows' \in [Key -> Row],
           UNCHANGED <<given, case, prices, handoffs, jobs, worker, bounds>>
    PROVE  Records'
<1>1. TypeOK'
  BY DEF Records, TypeOK, given, bounds
<1>2. JobsHeld' /\ Drafts'
  BY DEF Records, JobsHeld, HoldsJob, Drafts, At
<1>3. AttemptsCounted'
  BY DEF Records, AttemptsCounted, bounds
<1>4. QED BY <1>1, <1>2, <1>3 DEF Records

LEMMA GateBlocksKeeps ==
    ASSUME QuoteInv, NEW k \in Key, GateBlocks(k)
    PROVE  QuoteInv'
<1>1. /\ Records /\ Promise /\ TypeOK /\ Waits(k)
      /\ UNCHANGED <<given, case, prices, handoffs, jobs, worker, bounds>>
  BY DEF QuoteInv, Records, GateBlocks, Waits
<1>2. RowTo(k, "CANCELLED")
  BY <1>1, SetIsRowTo DEF GateBlocks
<1>3. Records'
  BY <1>1, <1>2, RecordsDelivered DEF RowTo
<1>4. InGoodHands \/ k.kind = "multi"
  <2>1. CASE case.suppressed \/ case.status # "ACTIVE"
    BY <2>1 DEF InGoodHands
  <2>2. CASE k.kind \in Quotes /\ ~case.product
    <3>1. ~IsQuote(k)
      BY <1>1, <2>2 DEF Promise, Products, Written, Waits
    <3>2. QED BY <2>2, <3>1 DEF Quotes, IsQuote
  <2>3. QED BY <2>1, <2>2 DEF GateBlocks
<1>5. InGoodHands' <=> InGoodHands
  BY <1>1 DEF InGoodHands, bounds
<1>6. Excused(k)'
  BY <1>4, <1>5 DEF Excused
<1>7. PICK e \in Emails : e = k.email
  BY KeyParts
<1>8. Answered(e)'
  <2>1. CASE InGoodHands
    BY <1>5, <2>1 DEF Answered
  <2>2. CASE k.kind = "multi"
    BY <1>2, <1>7, <2>2 DEF Answered, LostRequest, KeysOf, RowTo
  <2>3. QED BY <1>4, <2>1, <2>2
<1>9. Promise'
  <2> DEFINE renewed == {}
  <2>1. /\ renewed \in SUBSET Jobs
        /\ \A j \in renewed : /\ j = <<k.email, prices.week>> /\ jobs[j].status = "ABSENT"
                              /\ jobs'[j].status = "PENDING"
        /\ \A j \in Jobs \ renewed : jobs'[j] = jobs[j]
        /\ renewed # {} => IsQuote(k)
    BY <1>1
  <2>2. UNCHANGED <<mail, setup, case, prices, handoffs, worker, edits>>
    BY <1>1 DEF given, bounds
  <2>3. Answered(k.email)' \/ renewed # {}
    BY <1>7, <1>8
  <2> HIDE DEF renewed
  <2>4. QED BY <1>1, <1>2, <1>6, <2>1, <2>2, <2>3, PromiseCancelled
<1>10. QED BY <1>3, <1>9 DEF QuoteInv

LEMMA CancelStaleKeeps ==
    ASSUME QuoteInv, NEW k \in Key, CancelStale(k)
    PROVE  QuoteInv'
<1> DEFINE e == k.email  again == <<k.email, prices.week>>
           renewed == IF IsQuote(k) /\ jobs[again].status = "ABSENT" THEN {again} ELSE {}
<1>1. /\ Records /\ Promise /\ TypeOK /\ Waits(k) /\ k.kind \in Quotes /\ jobs' = Requeued(k)
      /\ UNCHANGED <<given, case, prices, handoffs, worker, bounds>>
  BY DEF QuoteInv, Records, CancelStale, Passes, Waits
<1>2. RowTo(k, "CANCELLED")
  BY <1>1, SetIsRowTo DEF CancelStale
<1>3. again \in Jobs /\ prices.week \in 1..MaxWeeks /\ again[1] = e /\ again[2] = prices.week
  <2>1. prices.week \in 1..MaxWeeks
    BY <1>1 DEF TypeOK, Prices, Weeks
  <2>2. e \in Emails
    BY KeyParts
  <2>3. prices.week \in 0..MaxWeeks
    BY <2>1
  <2>4. QED BY <2>1, <2>2, <2>3 DEF Jobs
<1>4. jobs \in [Jobs -> JobRow]
  BY <1>1 DEF TypeOK
<1>5. /\ renewed # {} => jobs' = [jobs EXCEPT ![again].status = "PENDING"]
      /\ renewed = {} => jobs' = jobs
  BY <1>1 DEF Requeued, IsQuote
<1>6. renewed \in SUBSET {again} /\ (renewed # {} => IsQuote(k) /\ jobs[again].status = "ABSENT")
  OBVIOUS
<1>7. renewed = {} => ~IsQuote(k) \/ jobs[again].status # "ABSENT"
  OBVIOUS
<1> HIDE DEF renewed, again
<1>8. /\ \A j \in renewed : j = again /\ jobs[j].status = "ABSENT" /\ jobs'[j].status = "PENDING"
                            /\ jobs'[j].attempts = jobs[j].attempts
      /\ \A j \in Jobs \ renewed : jobs'[j] = jobs[j]
      /\ jobs' \in [Jobs -> JobRow]
  BY <1>3, <1>4, <1>5, <1>6 DEF JobRow
<1>9. Records'
  <2>1. /\ JobsHeld /\ Drafts /\ AttemptsCounted /\ crashes' = crashes /\ worker' = worker
        /\ MaxAttempts \in Nat /\ MaxAttempts > 0 /\ crashes \in Nat
    BY <1>1, QuotationAssumption DEF Records, bounds, TypeOK
  <2>2. TypeOK'
    BY <1>1, <1>2, <1>8 DEF TypeOK, given, bounds, RowTo
  <2>3. JobsHeld' /\ Drafts'
    BY <1>8, <2>1 DEF JobsHeld, HoldsJob, Drafts, At
  <2>4. AttemptsCounted'
    BY <1>8, <2>1 DEF AttemptsCounted
  <2>5. QED BY <2>2, <2>3, <2>4 DEF Records
<1>10. \A m, n \in 0..MaxWeeks : m <= n /\ n <= m => m = n
  BY QuotationAssumption
<1>11. Excused(k)'
  <2>1. CASE k.kind = "multi"
    BY <2>1 DEF Excused
  <2>2. CASE IsQuote(k)
    <3>1. k.week <= prices.week
      BY <1>1, <2>2 DEF Promise, Calendar, Written, Waits
    <3>2. Enqueued(again)'
      <4>1. jobs'[again].status # "ABSENT"
        BY <1>3, <1>6, <1>7, <1>8, <2>2
      <4>2. again' = again
        BY <1>1 DEF again
      <4>3. QED BY <4>1, <4>2 DEF Enqueued
    <3>3. \E j \in Jobs : Enqueued(j)' /\ j[1] = k.email /\ k.week <= j[2]
      <4>1. jobs'[again].status # "ABSENT"
        BY <1>3, <1>6, <1>7, <1>8, <2>2
      <4>2. QED BY <1>3, <3>1, <4>1 DEF Enqueued
    <3>4. QED BY <2>2, <3>3 DEF Excused
  <2>3. QED BY <1>1, <2>1, <2>2 DEF Quotes, IsQuote
<1>12. PICK x \in Emails : x = e
  BY KeyParts
<1>13. renewed # {} \/ Answered(x)'
  <2> SUFFICES ASSUME renewed = {} PROVE LostRequest(x)'
    BY DEF Answered
  <2>1. rows'[k].status = "CANCELLED" /\ jobs' = jobs
    BY <1>2, <1>5 DEF RowTo
  <2>2. CASE k.kind = "multi"
    BY <1>12, <2>1, <2>2 DEF LostRequest, KeysOf
  <2>3. CASE IsQuote(k)
    <3>1. Enqueued(again) /\ ~Open(again)
      BY <1>1, <1>3, <1>7, <2>3 DEF Promise, Turns, Enqueued
    <3>2. jobs[again].status \in {"DONE", "FAILED"}
      BY <1>3, <1>4, <3>1 DEF Enqueued, Open, JobRow
    <3>3. prices.week <= k.week /\ k.week <= prices.week
      BY <1>1, <1>3, <2>3, <3>1 DEF Promise, Calendar, Written, Waits
    <3>4. k.week = prices.week
      <4>1. k.week \in 1..MaxWeeks
        BY <2>3, KeyParts DEF Weeks
      <4>2. QED BY <1>3, <3>3, <4>1
    <3>5. again = <<x, k.week>>
      BY <1>12, <3>4 DEF again
    <3>6. jobs'[again].status = "DONE" => LostRequest(x)'
      BY <1>12, <2>1, <2>3, <3>5 DEF LostRequest, KeysOf, IsQuote
    <3>7. jobs'[again].status = "FAILED" => LostRequest(x)'
      <4>1. again \in Jobs /\ again[1] = x
        BY <1>3, <1>12
      <4>2. PICK j \in Jobs : j = again
        BY <4>1
      <4>3. QED BY <4>1, <4>2 DEF LostRequest
    <3>8. QED BY <2>1, <3>2, <3>6, <3>7
  <2>4. QED BY <1>1, <2>2, <2>3 DEF Quotes, IsQuote
<1>14. Promise'
  <2>1. /\ renewed \in SUBSET Jobs
        /\ \A j \in renewed : /\ j = <<k.email, prices.week>> /\ jobs[j].status = "ABSENT"
                              /\ jobs'[j].status = "PENDING"
        /\ \A j \in Jobs \ renewed : jobs'[j] = jobs[j]
        /\ renewed # {} => IsQuote(k)
    BY <1>3, <1>6, <1>8 DEF again
  <2>2. UNCHANGED <<mail, setup, case, prices, handoffs, worker, edits>>
    BY <1>1 DEF given, bounds
  <2>3. Answered(k.email)' \/ renewed # {}
    BY <1>12, <1>13
  <2>4. QED BY <1>1, <1>2, <1>11, <2>1, <2>2, <2>3, PromiseCancelled
<1>15. QED BY <1>9, <1>14 DEF QuoteInv

LEMMA DeliverKeeps ==
    ASSUME QuoteInv, NEW k \in Key, Deliver(k)
    PROVE  QuoteInv'
<1>1. CASE Claim(k) \/ Send(k)
  <2>1. /\ Records /\ Promise /\ TypeOK /\ Live(k)
        /\ UNCHANGED <<given, case, prices, handoffs, jobs, worker, bounds>>
    BY <1>1 DEF QuoteInv, Records, Claim, Passes, Send, Live
  <2>2. RowTo(k, "CLAIMED") \/ RowTo(k, "SENT")
    BY <1>1, <2>1, SetIsRowTo DEF Claim, Send
  <2>3. UNCHANGED <<mail, setup, case, prices, handoffs, jobs, worker, edits>>
    BY <2>1 DEF given, bounds
  <2>4. Promise'
    BY <2>1, <2>2, <2>3, PromiseDelivered
  <2>5. Records'
    BY <2>1, <2>2, RecordsDelivered DEF RowTo
  <2>6. QED BY <2>4, <2>5 DEF QuoteInv
<1>2. QED BY <1>1, GateBlocksKeeps, CancelStaleKeeps DEF Deliver

-----------------------------------------------------------------------------
\* Time passes, and lists are confirmed: nothing is of a later week for it.
LEMMA CommerceKeeps ==
    ASSUME QuoteInv, Commerce
    PROVE  QuoteInv'
<1>1. /\ UNCHANGED <<given, case, rows, handoffs, jobs, worker, bounds>>
      /\ Records /\ Promise /\ TypeOK /\ prices \in Prices
  BY DEF QuoteInv, Records, TypeOK, Commerce, ConfirmPrices, ConfirmInventory, NewWeek
<1>2. /\ prices' \in Prices /\ prices.week \in Nat /\ prices'.week \in Nat
      /\ prices.week <= prices'.week
  <2>1. /\ prices.week \in 1..MaxWeeks /\ prices.policy \in 0..MaxPrices
        /\ MaxWeeks \in Nat /\ MaxPrices \in Nat
    BY <1>1, QuotationAssumption DEF Prices, Weeks
  <2>2. CASE ConfirmPrices
    <3>1. PICK context \in {"NO_STOCK", "AVAILABLE"} :
              prices' = [prices EXCEPT !.policy = @ + 1, !.context = context]
      BY <2>2 DEF ConfirmPrices
    <3>2. prices.policy + 1 \in 0..MaxPrices
      BY <2>1, <2>2 DEF ConfirmPrices
    <3>3. prices' \in Prices /\ prices'.week = prices.week
      BY <1>1, <3>1, <3>2 DEF Prices
    <3>4. QED BY <2>1, <3>3
  <2>3. CASE ConfirmInventory
    <3>1. PICK context \in {"UNCOUNTED", "NO_STOCK", "AVAILABLE"} :
              prices' = [prices EXCEPT !.context = context]
      BY <2>3 DEF ConfirmInventory
    <3>2. prices' \in Prices /\ prices'.week = prices.week
      BY <1>1, <3>1 DEF Prices
    <3>3. QED BY <2>1, <3>2
  <2>4. CASE NewWeek
    <3>1. prices' = [prices EXCEPT !.week = @ + 1, !.context = "UNPRICED"] /\ prices.week < MaxWeeks
      BY <2>4 DEF NewWeek
    <3>2. prices.week + 1 \in 1..MaxWeeks
      BY <2>1, <3>1
    <3>3. prices' \in Prices /\ prices'.week = prices.week + 1
      BY <1>1, <3>1, <3>2 DEF Prices, Weeks
    <3>4. QED BY <2>1, <3>3
  <2>5. QED BY <2>2, <2>3, <2>4 DEF Commerce
<1>3. TypeOK'
  BY <1>1, <1>2 DEF TypeOK, given, bounds
<1>4. JobsHeld' /\ Drafts' /\ AttemptsCounted'
  BY <1>1 DEF Records, JobsHeld, HoldsJob, Drafts, At, AttemptsCounted, bounds
<1>5. InGoodHands' <=> InGoodHands
  BY <1>1 DEF InGoodHands, bounds
<1>6. Products' /\ Turns'
  BY <1>1 DEF Promise, Products, Turns, At, Written, Open, Waits
<1>7. Calendar'
  <2>1. \A n \in 0..MaxWeeks : n <= prices.week => n <= prices'.week
    BY <1>2, QuotationAssumption
  <2>2. \A j \in Jobs : j[2] \in 0..MaxWeeks
    BY JobParts
  <2>3. \A k \in Key : IsQuote(k) => k.week \in 0..MaxWeeks
    <3>1. \A n \in Weeks : n \in 0..MaxWeeks
      BY DEF Weeks
    <3>2. QED BY <3>1, KeyParts
  <2>4. \A w \in Workers : At(w, "draft") => worker[w].week \in 0..MaxWeeks
    BY <1>1 DEF TypeOK, WorkerState
  <2>5. QED BY <1>1, <2>1, <2>2, <2>3, <2>4
         DEF Promise, Calendar, At, Enqueued, Written, Waits, EmailOf
<1>8. Excuses'
  BY <1>1, <1>5 DEF Promise, Excuses, Excused, Enqueued
<1>9. Answers'
  BY <1>1, <1>5 DEF Promise, Answers, Answered, Heard, LostRequest, Open, Live, given
<1>10. QED BY <1>3, <1>4, <1>6, <1>7, <1>8, <1>9 DEF QuoteInv, Records, Promise

LEMMA TakeOverKeeps ==
    ASSUME QuoteInv, TakeOver
    PROVE  QuoteInv'
<1>1. /\ UNCHANGED <<given, prices, rows, handoffs, jobs, worker, crashes>>
      /\ Records /\ Promise /\ TypeOK /\ edits' = edits + 1 /\ crashes + edits < MaxTroubles
      /\ case' = [case EXCEPT !.status = "HUMAN_TAKEOVER"]
  BY DEF QuoteInv, Records, TakeOver
<1>2. /\ edits \in Nat /\ edits' \in Nat /\ edits' > 0 /\ crashes \in Nat
      /\ crashes + edits' <= MaxTroubles
  BY <1>1, QuotationAssumption DEF TypeOK
<1>3. case' \in SalesCase /\ case'.product = case.product
  BY <1>1 DEF TypeOK, SalesCase, CaseStatus
<1>4. InGoodHands'
  BY <1>2 DEF InGoodHands
<1>5. TypeOK'
  BY <1>1, <1>2, <1>3 DEF TypeOK, given
<1>6. JobsHeld' /\ Drafts' /\ AttemptsCounted'
  BY <1>1 DEF Records, JobsHeld, HoldsJob, Drafts, At, AttemptsCounted
<1>7. Products' /\ Turns' /\ Calendar'
  BY <1>1, <1>3 DEF Promise, Products, Turns, Calendar, At, Written, Open, Enqueued, Waits, EmailOf
<1>8. Excuses' /\ Answers'
  BY <1>4 DEF Excuses, Excused, Answers, Answered
<1>9. QED BY <1>5, <1>6, <1>7, <1>8 DEF QuoteInv, Records, Promise

LEMMA Unmoved == ASSUME QuoteInv, UNCHANGED vars PROVE QuoteInv'
<1>1. Records'
  BY DEF QuoteInv, Records, TypeOK, JobsHeld, HoldsJob, Drafts, At, AttemptsCounted, vars
<1>2. Promise'
  BY DEF QuoteInv, Promise, Products, Turns, Calendar, Excuses, Excused, Answers, Answered, At,
         Written, Open, Enqueued, Waits, EmailOf, Heard, InGoodHands, LostRequest, Live, vars
<1>3. QED BY <1>1, <1>2 DEF QuoteInv

LEMMA QuoteStep == QuoteInv /\ [NextStep]_vars => QuoteInv'
<1> SUFFICES ASSUME QuoteInv, [NextStep]_vars PROVE QuoteInv'
  OBVIOUS
<1>1. CASE Rest \/ UNCHANGED vars
  BY <1>1, Unmoved DEF Rest
<1>2. QED BY <1>1, WorkerStepKeeps, CrashKeeps, DeliverKeeps, CommerceKeeps, TakeOverKeeps
          DEF NextStep

LEMMA QuoteStart == Init => QuoteInv
<1> SUFFICES ASSUME Init PROVE QuoteInv
  OBVIOUS
<1>1. /\ \A k \in Key : rows[k] = NoRow
      /\ \A j \in Jobs : /\ jobs[j].status = IF j[2] = 0 THEN "PENDING" ELSE "ABSENT"
                         /\ jobs[j].attempts = 0
      /\ \A w \in Workers : worker[w] = Idle
  BY DEF Init
<1>2. /\ MaxAttempts \in Nat /\ MaxAttempts > 0 /\ MaxWeeks \in Nat /\ MaxWeeks > 0
      /\ MaxPrices \in Nat /\ MaxTroubles \in Nat
  BY QuotationAssumption
<1>3. TypeOK
  <2>1. mail \in [Emails -> Reading] /\ setup \in Settings /\ case \in SalesCase
    BY QuotationAssumption DEF Init
  <2>2. prices \in Prices
    BY <1>2 DEF Init, Prices, Weeks
  <2>3. rows \in [Key -> Row]
    BY <1>2 DEF Init, NoRow, Row
  <2>4. handoffs \in [Emails -> Reasons \cup {"none"}]
    BY DEF Init
  <2>5. jobs \in [Jobs -> JobRow]
    BY <1>2 DEF Init, JobRow
  <2>6. worker \in [Workers -> WorkerState]
    BY IdleIsWorker DEF Init
  <2>7. crashes \in Nat /\ edits \in Nat /\ crashes + edits <= MaxTroubles
    BY <1>2 DEF Init
  <2>8. QED BY <2>1, <2>2, <2>3, <2>4, <2>5, <2>6, <2>7 DEF TypeOK
<1>4. \A w \in Workers : At(w, "idle") /\ ~At(w, "draft")
  BY <1>1, IdleIsWorker DEF At
<1>5. \A k \in Key : rows[k].status = "ABSENT"
  BY <1>1 DEF NoRow
<1>6. crashes = 0 /\ prices.week = 1
  BY DEF Init
<1>7. JobsHeld /\ Drafts
  BY <1>4 DEF JobsHeld, Drafts
<1>8. AttemptsCounted
  BY <1>1, <1>2, <1>6 DEF AttemptsCounted
<1>9. \A j \in Jobs : Open(j) <=> j[2] = 0
  BY <1>1 DEF Open
<1>10. \A j \in Jobs : Enqueued(j) <=> j[2] = 0
  BY <1>1 DEF Enqueued
<1>11. Products
  BY <1>4, <1>5 DEF Products, Written
<1>12. Turns
  <2>1. \A i, j \in Jobs : Open(i) /\ Open(j) /\ i[1] = j[1] => i = j
    BY <1>9, JobParts
  <2>2. QED BY <1>5, <2>1 DEF Turns, Waits
<1>13. Calendar
  BY <1>4, <1>5, <1>6, <1>10 DEF Calendar, Written, Waits
<1>14. Excuses
  BY <1>5 DEF Excuses
<1>15. Answers
  <2> SUFFICES ASSUME NEW e \in Emails PROVE \E j \in Jobs : j[1] = e /\ Open(j)
    BY DEF Answers
  <2>1. <<e, 0>> \in Jobs /\ <<e, 0>>[1] = e /\ <<e, 0>>[2] = 0
    BY <1>2 DEF Jobs
  <2>2. QED BY <1>9, <2>1
<1>16. QED BY <1>3, <1>7, <1>8, <1>11, <1>12, <1>13, <1>14, <1>15 DEF QuoteInv, Records, Promise

\* Whatever the emails say and however the workers, the deliveries and the calendar overlap,
\* the records of the module hold what their columns may, and a job is attempted no more often
\* than MaxAttempts and the crashes allow.
THEOREM QuotationTypes == Spec => []TypeOK
<1>1. QuoteInv => TypeOK
  BY DEF QuoteInv, Records
<1>2. QED BY <1>1, QuoteStart, QuoteStep, PTL DEF Spec

\* process_inbound: an email whose jobs are done is answered, with a human or ignored on
\* purpose, through deferrals, repricing, taken keys and crashes, but for the three ways of
\* losing a request that LostRequest names.
THEOREM EveryEmailIsHeard == Spec => []NobodyForgotten
<1>1. QuoteInv => NobodyForgotten
  BY DEF QuoteInv, Promise, Answers, Answered, NobodyForgotten, SettledEmail, Open
<1>2. QED BY <1>1, QuoteStart, QuoteStep, PTL DEF Spec

\* The job of an email, the reprice jobs that cancel_stale_commercial_quote enqueues and the
\* quotes of the email take turns.  No two of its jobs are open at a time, none is while a quote for it
\* waits to be sent, and no two of its quotes wait.
THEOREM OneQuoteAtATime == Spec => []Turns
<1>1. QuoteInv => Turns
  BY DEF QuoteInv, Promise
<1>2. QED BY <1>1, QuoteStart, QuoteStep, PTL DEF Spec

\* The commercial gate and the withdrawals: a reply that was cancelled is of several products,
\* or its email is with a human or its case stopped, or it is a quote and a job of the same
\* or a later week was enqueued that prices it again.
THEOREM CancelledForAReason == Spec => []Excuses
<1>1. QuoteInv => Excuses
  BY DEF QuoteInv, Promise
<1>2. QED BY <1>1, QuoteStart, QuoteStep, PTL DEF Spec

-----------------------------------------------------------------------------
(* The prices of a quote that is being sent *)
\* A row has the three fields of Row, whatever is in them.
RowFields(r) == r = [status |-> r.status, policy |-> r.policy, week |-> r.week]
Table(f) == f = [k \in Key |-> f[k]] /\ \A k \in Key : RowFields(f[k])
PriceFields(p) == p = [week |-> p.week, policy |-> p.policy, context |-> p.context]

CurrentInv == Table(rows) /\ PriceFields(prices) /\ QuotesAreCurrent

\* A step that claims nothing: each row is the old one, or is not on its way.
ClaimsNothing(old, new) == \A k \in Key : new[k] = old[k] \/ new[k].status # "CLAIMED"

LEMMA SetStatus ==
    ASSUME NEW k \in Key, Table(rows), NEW s, Set(k, s)
    PROVE  /\ Table(rows')
           /\ rows'[k] = [status |-> s, policy |-> rows[k].policy, week |-> rows[k].week]
           /\ \A j \in Key : j # k => rows'[j] = rows[j]
<1>1. rows' = [j \in Key |-> IF j = k THEN [rows[k] EXCEPT !.status = s] ELSE rows[j]]
  BY DEF Table, Set
<1>2. rows[k] = [status |-> rows[k].status, policy |-> rows[k].policy, week |-> rows[k].week]
  BY DEF Table, RowFields
<1>3. [rows[k] EXCEPT !.status = s] =
          [status |-> s, policy |-> rows[k].policy, week |-> rows[k].week]
  BY <1>2
<1>4. \A j \in Key : rows'[j] = IF j = k
          THEN [status |-> s, policy |-> rows[k].policy, week |-> rows[k].week] ELSE rows[j]
  BY <1>1, <1>3
<1>5. \A j \in Key : RowFields(rows'[j])
  BY <1>4 DEF Table, RowFields
<1>6. rows' = [j \in Key |-> rows'[j]]
  BY <1>1
<1>7. QED BY <1>4, <1>5, <1>6 DEF Table

\* Putting a whole row in place keeps the table a table.
LEMMA PutRow ==
    ASSUME NEW f, Table(f), NEW k, NEW r, RowFields(r), r.status # "CLAIMED",
           NEW g, g = [f EXCEPT ![k] = r]
    PROVE  Table(g) /\ ClaimsNothing(f, g)
<1>1. g = [j \in Key |-> IF j = k THEN r ELSE f[j]]
  BY DEF Table
<1>2. \A j \in Key : g[j] = IF j = k THEN r ELSE f[j]
  BY <1>1
<1>3. \A j \in Key : RowFields(g[j])
  BY <1>2 DEF Table
<1>4. g = [j \in Key |-> g[j]]
  BY <1>1
<1>5. QED BY <1>2, <1>3, <1>4 DEF Table, ClaimsNothing

LEMMA StagedRow ==
    LET r == [NoRow EXCEPT !.status = "PENDING"] IN RowFields(r) /\ r.status # "CLAIMED"
BY DEF NoRow, RowFields

\* What a session writes with its commit claims nothing.
LEMMA StagedTable ==
    ASSUME NEW w, NEW f, Table(f)
    PROVE  Table(WithStaged(w, f)) /\ ClaimsNothing(f, WithStaged(w, f))
<1>1. CASE worker[w].staged
  <2> DEFINE r == [NoRow EXCEPT !.status = "PENDING"]  k == KeyOf(EmailOf(w), "coa")
  <2>1. WithStaged(w, f) = [f EXCEPT ![k] = r]
    BY <1>1 DEF WithStaged
  <2>2. RowFields(r) /\ r.status # "CLAIMED"
    BY StagedRow
  <2> HIDE DEF r, k
  <2>3. QED BY <2>1, <2>2, PutRow
<1>2. CASE ~worker[w].staged
  BY <1>2 DEF WithStaged, ClaimsNothing
<1>3. QED BY <1>1, <1>2

-----------------------------------------------------------------------------
(* The steps *)

\* With the policy as it was, a step that claims nothing keeps the invariant.
LEMMA Harmless ==
    ASSUME CurrentInv, Table(rows'), PriceFields(prices'), prices'.policy = prices.policy,
           ClaimsNothing(rows, rows')
    PROVE  CurrentInv'
<1>1. QuotesAreCurrent'
  BY DEF CurrentInv, QuotesAreCurrent, ClaimsNothing
<1>2. QED BY <1>1 DEF CurrentInv

LEMMA Untouched ==
    ASSUME CurrentInv, UNCHANGED <<rows, prices>>
    PROVE  CurrentInv'
BY DEF CurrentInv, QuotesAreCurrent, Table, PriceFields, RowFields

\* Steps that write what the session has staged, or nothing.
LEMMA Commits ==
    ASSUME CurrentInv, NEW w, rows' \in {rows, WithStaged(w, rows)}, UNCHANGED prices
    PROVE  CurrentInv'
<1>1. CASE rows' = rows
  BY <1>1, Untouched
<1>2. CASE rows' = WithStaged(w, rows)
  <2>1. Table(rows') /\ ClaimsNothing(rows, rows')
    BY <1>2, StagedTable DEF CurrentInv
  <2>2. QED BY <2>1, Harmless DEF CurrentInv
<1>3. QED BY <1>1, <1>2

LEMMA HandsOver ==
    ASSUME CurrentInv, NEW w, NEW reason, HandOffAndStop(w, reason)
    PROVE  CurrentInv'
<1>1. rows' = WithStaged(w, rows) /\ UNCHANGED prices
  BY DEF HandOffAndStop, Handoff
<1>2. QED BY <1>1, Commits

LEMMA StepOfWorker ==
    ASSUME CurrentInv, NEW w \in Workers, WorkerStep(w)
    PROVE  CurrentInv'
<1>1. CASE \E j \in Jobs : Skip(w, j) \/ Machine(w, j) \/ Begin(w, j)
  BY <1>1, Untouched DEF Skip, Machine, Begin
<1>2. CASE AnalysisFails(w)
  BY <1>2, HandsOver DEF AnalysisFails
<1>3. CASE Unsubscribe(w)
  BY <1>3, Untouched DEF Unsubscribe
<1>4. CASE PassOn(w)
  BY <1>4, Untouched DEF PassOn
<1>5. CASE AskForCertificate(w)
  <2>1. rows' = WithStaged(w, rows) /\ UNCHANGED prices
    BY <1>5 DEF AskForCertificate, Handoff
  <2>2. QED BY <2>1, Commits
<1>6. CASE StageCertificate(w)
  <2> DEFINE r == [NoRow EXCEPT !.status = "PENDING"]  k == KeyOf(EmailOf(w), "coa")
  <2>1. UNCHANGED prices /\ (rows' = rows \/ rows' = [rows EXCEPT ![k] = r])
    BY <1>6 DEF StageCertificate
  <2>2. RowFields(r) /\ r.status # "CLAIMED"
    BY StagedRow
  <2> HIDE DEF r, k
  <2>3. CASE rows' = [rows EXCEPT ![k] = r]
    <3>1. Table(rows') /\ ClaimsNothing(rows, rows')
      BY <2>2, <2>3, PutRow DEF CurrentInv
    <3>2. QED BY <2>1, <3>1, Harmless DEF CurrentInv
  <2>4. QED BY <2>1, <2>3, Untouched
<1>7. CASE CertificateTaken(w)
  BY <1>7, Untouched DEF CertificateTaken
<1>8. CASE Answer(w)
  <2>1. PICK outcome \in Outcomes(w) :
            WaitForPrices(w, outcome) \/ ReachHuman(w, outcome) \/ BeginDraft(w, outcome)
    BY <1>8 DEF Answer
  <2>2. CASE WaitForPrices(w, outcome)
    <3>1. rows' \in {rows, WithStaged(w, rows)} /\ UNCHANGED prices
      BY <2>2 DEF WaitForPrices
    <3>2. QED BY <3>1, Commits
  <2>3. CASE ReachHuman(w, outcome)
    BY <2>3, HandsOver DEF ReachHuman
  <2>4. CASE BeginDraft(w, outcome)
    BY <2>4, Untouched DEF BeginDraft
  <2>5. QED BY <2>1, <2>2, <2>3, <2>4
<1>9. CASE DraftFails(w)
  BY <1>9, HandsOver DEF DraftFails
<1>10. CASE SubmitDraft(w)
  BY <1>10, HandsOver DEF SubmitDraft
<1>11. CASE Stage(w)
  <2> DEFINE r == [status |-> "PENDING", policy |-> worker[w].policy, week |-> worker[w].week]
             k == ReplyKey(w)
             f == WithStaged(w, rows)
  <2>1. rows' = [f EXCEPT ![k] = r] /\ UNCHANGED prices
    BY <1>11 DEF Stage
  <2>2. RowFields(r) /\ r.status # "CLAIMED"
    BY DEF RowFields
  <2>3. Table(f) /\ ClaimsNothing(rows, f)
    BY StagedTable DEF CurrentInv
  <2> HIDE DEF r, k, f
  <2>4. Table(rows') /\ ClaimsNothing(f, rows')
    BY <2>1, <2>2, <2>3, PutRow
  <2>5. ClaimsNothing(rows, rows')
    BY <2>3, <2>4 DEF ClaimsNothing
  <2>6. QED BY <2>1, <2>4, <2>5, Harmless DEF CurrentInv
<1>12. CASE KeyTaken(w)
  BY <1>12, Untouched DEF KeyTaken
<1>13. QED
  BY <1>1, <1>2, <1>3, <1>4, <1>5, <1>6, <1>7, <1>8, <1>9, <1>10, <1>11, <1>12 DEF WorkerStep

\* A row whose status is set, but not to CLAIMED.
LEMMA Ends ==
    ASSUME CurrentInv, NEW k \in Key, NEW s, s # "CLAIMED", Set(k, s), UNCHANGED prices
    PROVE  CurrentInv'
<1>1. Table(rows)
  BY DEF CurrentInv
<1>2. /\ Table(rows')
      /\ rows'[k] = [status |-> s, policy |-> rows[k].policy, week |-> rows[k].week]
      /\ \A j \in Key : j # k => rows'[j] = rows[j]
  BY <1>1, SetStatus
<1>3. ClaimsNothing(rows, rows')
  BY <1>2 DEF ClaimsNothing
<1>4. QED BY <1>2, <1>3, Harmless DEF CurrentInv

LEMMA StepOfDelivery ==
    ASSUME CurrentInv, NEW k \in Key, Deliver(k)
    PROVE  CurrentInv'
<1>1. CASE GateBlocks(k)
  BY <1>1, Ends DEF GateBlocks
<1>2. CASE CancelStale(k)
  BY <1>2, Ends DEF CancelStale
<1>3. CASE Claim(k)
  <2>1. /\ UNCHANGED prices /\ Set(k, "CLAIMED")
        /\ k.kind \in Quotes => rows[k].policy = prices.policy
    BY <1>3 DEF Claim, SameVersion
  <2>2. Table(rows)
    BY DEF CurrentInv
  <2>3. /\ Table(rows')
        /\ rows'[k] = [status |-> "CLAIMED", policy |-> rows[k].policy, week |-> rows[k].week]
        /\ \A j \in Key : j # k => rows'[j] = rows[j]
    BY <2>1, <2>2, SetStatus
  <2>4. rows'[k].policy = rows[k].policy
    BY <2>3
  <2>5. QuotesAreCurrent'
    BY <2>1, <2>3, <2>4 DEF CurrentInv, QuotesAreCurrent
  <2>6. QED BY <2>1, <2>3, <2>5 DEF CurrentInv, PriceFields
<1>4. CASE Send(k)
  BY <1>4, Ends DEF Send
<1>5. QED BY <1>1, <1>2, <1>3, <1>4 DEF Deliver

LEMMA StepOfCommerce ==
    ASSUME CurrentInv, Commerce
    PROVE  CurrentInv'
<1>1. UNCHANGED rows /\ Table(rows')
  BY DEF Commerce, ConfirmPrices, ConfirmInventory, NewWeek, CurrentInv
<1>2. prices = [week |-> prices.week, policy |-> prices.policy, context |-> prices.context]
  BY DEF CurrentInv, PriceFields
<1>3. CASE ConfirmPrices
  <2>1. PICK context \in {"NO_STOCK", "AVAILABLE"} :
            prices' = [prices EXCEPT !.policy = @ + 1, !.context = context]
    BY <1>3 DEF ConfirmPrices
  <2>2. prices' = [week |-> prices.week, policy |-> prices.policy + 1, context |-> context]
    BY <1>2, <2>1
  <2>3. PriceFields(prices')
    BY <2>2 DEF PriceFields
  <2>4. QuotesAreCurrent'
    BY <1>1, <1>3 DEF ConfirmPrices, InFlight, QuotesAreCurrent
  <2>5. QED BY <1>1, <2>3, <2>4 DEF CurrentInv
<1>4. CASE ConfirmInventory
  <2>1. PICK context \in {"UNCOUNTED", "NO_STOCK", "AVAILABLE"} :
            prices' = [prices EXCEPT !.context = context]
    BY <1>4 DEF ConfirmInventory
  <2>2. prices' = [week |-> prices.week, policy |-> prices.policy, context |-> context]
    BY <1>2, <2>1
  <2>3. QED BY <1>1, <2>2, Harmless DEF PriceFields, ClaimsNothing
<1>5. CASE NewWeek
  <2>1. prices' = [prices EXCEPT !.week = @ + 1, !.context = "UNPRICED"]
    BY <1>5 DEF NewWeek
  <2>2. prices' = [week |-> prices.week + 1, policy |-> prices.policy, context |-> "UNPRICED"]
    BY <1>2, <2>1
  <2>3. QED BY <1>1, <2>2, Harmless DEF PriceFields, ClaimsNothing
<1>6. QED BY <1>3, <1>4, <1>5 DEF Commerce

LEMMA StartsCurrent == Init => CurrentInv
<1> SUFFICES ASSUME Init PROVE CurrentInv
  OBVIOUS
<1>1. rows = [k \in Key |-> NoRow]
  BY DEF Init
<1>2. \A k \in Key : rows[k] = [status |-> "ABSENT", policy |-> 0, week |-> 0]
  BY <1>1 DEF NoRow
<1>3. Table(rows)
  <2>1. \A k \in Key : RowFields(rows[k])
    BY <1>2 DEF RowFields
  <2>2. rows = [k \in Key |-> rows[k]]
    BY <1>1
  <2>3. QED BY <2>1, <2>2 DEF Table
<1>4. PriceFields(prices)
  BY DEF Init, PriceFields
<1>5. QuotesAreCurrent
  BY <1>2 DEF QuotesAreCurrent
<1>6. QED BY <1>3, <1>4, <1>5 DEF CurrentInv

LEMMA StaysCurrent == CurrentInv /\ [NextStep]_vars => CurrentInv'
<1> SUFFICES ASSUME CurrentInv, [NextStep]_vars PROVE CurrentInv'
  OBVIOUS
<1>1. CASE \E w \in Workers : WorkerStep(w) \/ Crash(w)
  <2>1. PICK w \in Workers : WorkerStep(w) \/ Crash(w)
    BY <1>1
  <2>2. CASE WorkerStep(w)
    BY <2>2, StepOfWorker
  <2>3. CASE Crash(w)
    BY <2>3, Untouched DEF Crash
  <2>4. QED BY <2>1, <2>2, <2>3
<1>2. CASE \E k \in Key : Deliver(k)
  BY <1>2, StepOfDelivery
<1>3. CASE Commerce
  BY <1>3, StepOfCommerce
<1>4. CASE TakeOver
  BY <1>4, Untouched DEF TakeOver
<1>5. CASE Rest \/ UNCHANGED vars
  <2>1. UNCHANGED <<rows, prices>>
    BY <1>5 DEF Rest, vars
  <2>2. QED BY <2>1, Untouched
<1>6. QED BY <1>1, <1>2, <1>3, <1>4, <1>5 DEF NextStep

\* lock_commercial_scope: however the jobs, the deliveries and the price requests overlap,
\* a quote that is being sent is priced as the list in force says.
THEOREM PricesHold == Spec => []QuotesAreCurrent
<1>1. CurrentInv => QuotesAreCurrent
  BY DEF CurrentInv
<1>2. QED BY <1>1, StartsCurrent, StaysCurrent, PTL DEF Spec
=============================================================================
