-------------------------- MODULE MCOutboxDelivery --------------------------
(* OutboxDelivery on two rows for one recipient: a reply approved by a      *)
(* human and a row of a reactivation campaign, or rows the agent wrote.     *)
EXTENDS OutboxDelivery

CONSTANTS r1

MCMsgs == {1, 2}
MCRecipients == {r1}
MCRecipientOf == [m \in MCMsgs |-> r1]
MCHuman == {1}
MCBulk == {2}
=============================================================================
