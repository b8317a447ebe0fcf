---------------------------- MODULE MCQuotations ----------------------------
(* Quotations with two emails of one case: one of every kind beside an      *)
(* order, which a human gets, and two requests for a quote.                 *)
EXTENDS Quotations

Plain ==
    [intent |-> "quote_request", auto |-> "none", product |-> "ours", quantity |-> TRUE,
     coa |-> FALSE, asks |-> {}, attachment |-> FALSE, sure |-> TRUE, standard |-> TRUE,
     explicit |-> TRUE, unsubscribe |-> FALSE]
Order == [Plain EXCEPT !.intent = "order"]
Odd ==
    {[Plain EXCEPT !.coa = TRUE],
     [Plain EXCEPT !.product = "none", !.quantity = FALSE], [Plain EXCEPT !.product = "many"],
     [Plain EXCEPT !.product = "other"],
     [Plain EXCEPT !.intent = "product_list_request"], [Plain EXCEPT !.intent = "coa_request"],
     [Plain EXCEPT !.auto = "quiet"], [Plain EXCEPT !.auto = "departed"],
     [Plain EXCEPT !.auto = "person"],
     [Plain EXCEPT !.unsubscribe = TRUE]}

MCEmails == {1, 2}
MCInbox == {<<odd, Order>> : odd \in Odd} \cup {<<Plain, [Plain EXCEPT !.quantity = FALSE]>>}
MCCases == {Fresh, [Fresh EXCEPT !.product = FALSE, !.category = FALSE]}
Manual == [coaCatalog |-> TRUE, coaAuto |-> FALSE, quoteAuto |-> FALSE, listAuto |-> FALSE,
           research |-> FALSE, dispositions |-> TRUE]
MCSetups == {Manual, [Manual EXCEPT !.coaAuto = TRUE, !.quoteAuto = TRUE, !.listAuto = TRUE]}
MCFaults == {"none", "text"}
=============================================================================
