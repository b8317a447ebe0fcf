--------------------------- MODULE MCDispositions ---------------------------
(***************************************************************************)
(* Dispositions of two emails.  Either both are of the profiles that reach *)
(* every outcome, and administrators, workers and deliveries interleave,   *)
(* or one is of any profile that two cues and one answer of the model      *)
(* give, and a worker may apply it.                                        *)
(***************************************************************************)
EXTENDS Dispositions, TLC

\* Workers are interchangeable, and no liveness is checked.
Symmetry == Permutations(Workers)

Here == [from |-> "ann", known |-> TRUE, verified |-> FALSE, exact |-> FALSE, quoted |-> FALSE,
         domain |-> TRUE, returns |-> "none", twoCases |-> FALSE]

Answer == [answer |-> "answers", type |-> "DEPARTED", sure |-> TRUE, evidence |-> TRUE,
           referred |-> {"mate"}, forwarded |-> FALSE, list |-> FALSE]

Said(cues, named, ai, m, open) ==
    [cues |-> cues, named |-> named, ai |-> ai, m |-> m, open |-> open]

Off == [Answer EXCEPT !.answer = "off"]
Gone == Said({"departed", "header"}, {"mate"}, Off, Here, TRUE)
GoneByMate ==
    Said({"departed"}, {}, [Answer EXCEPT !.list = TRUE],
            [Here EXCEPT !.from = "mate", !.verified = TRUE, !.twoCases = TRUE], FALSE)
GoneByParent ==
    Said({"departed"}, {}, [Answer EXCEPT !.list = TRUE],
         [Here EXCEPT !.from = "none", !.known = FALSE, !.exact = TRUE], TRUE)
Away == Said({"away", "header"}, {}, Off, [Here EXCEPT !.returns = "future"], FALSE)
Referred == Said({"change"}, {}, [Answer EXCEPT !.type = "CONTACT_REFERRAL"], Here, TRUE)
Copied == Said({"copied"}, {"mate"}, Off, Here, FALSE)
NotTarget == Said({"nonTarget"}, {}, Off, Here, TRUE)
Doubtful == Said({}, {}, [Answer EXCEPT !.type = "UNCERTAIN"], Here, FALSE)

Main == {Gone, GoneByMate, GoneByParent, Away, Referred, Copied, NotTarget, Doubtful}

\* At most two cues, and one answer.
FewCues == {c \in SUBSET Cues : Cardinality(c) <= 2}
Answers ==
    {Off, [Off EXCEPT !.answer = "fails"]} \cup
    {[Answer EXCEPT !.type = t, !.sure = s, !.evidence = s \/ t = "DEPARTED"] :
        t \in {"DEPARTED", "NON_TARGET", "BUSINESS", "CONTACT_REFERRAL"}, s \in BOOLEAN}
Places ==
    {[Here EXCEPT !.from = f, !.known = k, !.quoted = q, !.verified = v] :
        f \in {"none", "ann", "mate"}, k \in BOOLEAN, q \in BOOLEAN, v \in BOOLEAN}
Wide ==
    {Said(c, {"mate"}, a, at, FALSE) :
        c \in FewCues, a \in Answers, at \in {p \in Places : p.verified => p.from = "mate"}}

MCInputs == Main \cup Wide

Emails2 == {"first", "second"}
Mail(f, s) == [e \in Emails2 |-> IF e = "first" THEN f ELSE s]

MCInit ==
    /\ \/ /\ profile \in {Mail(Profile(f), Profile(Gone)) : f \in Main \ {Referred}}
                          \cup {Mail(Profile(f), Profile(NotTarget)) :
                                    f \in {GoneByMate, GoneByParent, Referred, NotTarget}}
          /\ runs = 0 /\ requests = 0
       \/ /\ profile \in {Mail(f, Profile(Doubtful)) : f \in {Profile(i) : i \in Wide}}
          /\ runs = MaxRuns - 1 /\ requests = MaxRequests
    /\ NothingApplied

MCSpec == MCInit /\ [][Next]_vars
=============================================================================
