--------------------------- MODULE CampaignStatus ---------------------------
(***************************************************************************)
(* The status column shared by a UACM campaign and its platform campaigns, *)
(* the transition table of campaign-status-machine.ts, and the rule by     *)
(* which the worker derives the parent's status from its children.         *)
(***************************************************************************)

Statuses == {"PENDING", "ACTIVE", "PAUSED", "ERROR"}

ValidTransitions ==
  [PENDING |-> {"ACTIVE", "ERROR"},
   ACTIVE  |-> {"PAUSED", "ERROR"},
   PAUSED  |-> {"ACTIVE", "ERROR"},
   ERROR   |-> {"PENDING", "ACTIVE", "ERROR"}]

IsValidTransition(from, to) == from = to \/ to \in ValidTransitions[from]

(* The status reconcileUacmCampaignStatus gives a parent whose status is   *)
(* `current' and whose children have the statuses S: one ACTIVE child      *)
(* decides, otherwise children that all agree decide, otherwise the parent *)
(* keeps its status.                                                       *)
ReconcileTarget(current, S) ==
  IF "ACTIVE" \in S THEN "ACTIVE"
  ELSE IF \E s \in Statuses : S = {s} THEN CHOOSE s \in Statuses : S = {s}
  ELSE current

=============================================================================
