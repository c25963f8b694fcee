------------------------- MODULE MCCampaignCreation -------------------------
(* CampaignCreation on small instances; see the cfg files for the bounds.  *)
EXTENDS CampaignCreation, TLC, FiniteSetsExt

(* Rows, and deliveries, are interchangeable (safety runs only). *)
ActorSymmetry == Permutations(Rows) \cup Permutations(Handlers)

(* Bounds: a state with more than two messages, queued or in flight, or    *)
(* with a second disturbance after the rows have become stale, is still    *)
(* checked, and not continued.                                             *)
TwoMessages ==
  MapThenSumSet(LAMBDA m : queue[m], Messages)
    + Cardinality({h \in Handlers : handler[h].pc # "idle"}) <= 2
OnceStale == age = "fresh" \/ disturbances <= 1

=============================================================================
