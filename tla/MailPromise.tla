---------------------------- MODULE MailPromise ----------------------------
(***************************************************************************)
(* What delivery promises to the outside: each message is accepted by the  *)
(* mail server at most once, and never for an address blocked before.      *)
(***************************************************************************)
EXTENDS Naturals

CONSTANTS Msgs, Recipients, RecipientOf

VARIABLES
    copies,   \* copies of each message the mail server has accepted
    blocked   \* the recipients no message may be sent to any more

promised == <<copies, blocked>>

PromiseInit == /\ copies = [m \in Msgs |-> 0]
               /\ blocked = [r \in Recipients |-> FALSE]

Accept(m) == /\ copies[m] = 0
             /\ ~blocked[RecipientOf[m]]
             /\ copies' = [copies EXCEPT ![m] = 1]
             /\ UNCHANGED blocked

Block(r) == /\ ~blocked[r]
            /\ blocked' = [blocked EXCEPT ![r] = TRUE]
            /\ UNCHANGED copies

PromiseNext == \/ \E m \in Msgs : Accept(m)
               \/ \E r \in Recipients : Block(r)

PromiseSpec == PromiseInit /\ [][PromiseNext]_promised
=============================================================================
