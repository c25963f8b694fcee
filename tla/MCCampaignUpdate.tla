--------------------------- MODULE MCCampaignUpdate ---------------------------
(* CampaignUpdate on small instances; see the cfg file for the bounds.      *)
EXTENDS CampaignUpdate

=============================================================================
