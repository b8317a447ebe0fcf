--------------------------- MODULE MCMailboxSync ---------------------------
EXTENDS MailboxSync

Email(folder, party, replyTo) ==
  [folder |-> folder, party |-> party, replyTo |-> replyTo, references |-> {replyTo},
   copyOf |-> NoHeader, kind |-> "human", disposed |-> FALSE, bounces |-> 0, subject |-> "offer", re |-> TRUE,
   marker |-> FALSE, list |-> FALSE, codes |-> {"p"}]

MCMessages == 1 .. 3
MCMail == <<[Email("sent", "bob", NoHeader) EXCEPT !.copyOf = Campaign, !.re = FALSE],
            Email("inbox", "bob", Campaign), Email("inbox", "cyd", Campaign)>>
MCFirstCase == [contact |-> "bob", product |-> "p", category |-> "none", currency |-> "INR",
                subject |-> "order", status |-> "ACTIVE"]
MCPriceCurrencies == [p \in {"p"} |-> {"INR"}]
MCCompany == [a \in {"bob", "cyd"} |-> "B"]
MCInterests == [a \in {"bob", "cyd"} |-> {"c"}]
=============================================================================
