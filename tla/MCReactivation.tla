--------------------------- MODULE MCReactivation ---------------------------
(***************************************************************************)
(* Two campaigns that share a contact.                                     *)
(***************************************************************************)
EXTENDS Reactivation, TLC

MCRecipients == 1..2
MCCampaignOf == 1 :> "autumn" @@ 2 :> "winter"
MCContactOf == 1 :> "ann" @@ 2 :> "ann"

=============================================================================
