--------------------------- MODULE MCHandoffReview ---------------------------
(* HandoffReview with two handoffs of one case: two drafts of a quote, and   *)
(* the draft of an answer beside a message that could not be delivered.      *)
EXTENDS HandoffReview, TLC

Plain == [status |-> "OPEN", reason |-> "OTHER", sender |-> "first", cased |-> TRUE,
          prepared |-> {}, lines |-> {}, round |-> 0, policy |-> 1]
OneLine(p) == [Plain EXCEPT !.reason = "QUOTE_REVIEW", !.prepared = {"quote"}, !.lines = {p}]
AllLines == [Plain EXCEPT !.reason = "QUOTE_REVIEW", !.prepared = {"multi"}, !.lines = Products]
Certificate == [Plain EXCEPT !.reason = "COA_REVIEW", !.prepared = {"coa"}]
Bounce == [Plain EXCEPT !.reason = "BOUNCE_REVIEW", !.sender = "postmaster"]

Undelivered == [Plain EXCEPT !.reason = "EMAIL_DELIVERABILITY", !.sender = "nobody"]

MCHandoffs == {1, 2}
MCProducts == {"p", "q"}
MCDrafts ==
    {<<OneLine("p"), AllLines>>, <<OneLine("p"), Undelivered>>,
     <<Certificate, Bounce>>, <<[Plain EXCEPT !.cased = FALSE], [Plain EXCEPT !.cased = FALSE]>>}
MCCases == {NoCase, [status |-> "ACTIVE", product |-> "p", contact |-> "first"]}
Symmetry == Permutations(Clerks)
=============================================================================
