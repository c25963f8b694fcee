-------------------------- MODULE MCCampaignImport --------------------------
(* Two campaigns of one of two ad accounts; see the cfg file for the bounds.*)
EXTENDS CampaignImport, TLC

CONSTANTS c1, c2, a1, a2

TwoCampaigns == {c1, c2}
TwoAccounts == {a1, a2}
InOneAccount == [c \in TwoCampaigns |-> a1]

(* Imports in progress, and the campaigns of one ad account, are           *)
(* interchangeable.                                                        *)
ActorSymmetry == Permutations(TwoCampaigns) \cup Permutations(Imports)
=============================================================================
