----------------------- MODULE MCCampaignPauseResume ------------------------
(* CampaignPauseResume on small instances; see the cfg files for the bounds. *)
EXTENDS CampaignPauseResume, TLC

(* Requests and deliveries are interchangeable (safety runs only). *)
ActorSymmetry == Permutations(Requests) \cup Permutations(Handlers)

=============================================================================
