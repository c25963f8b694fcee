--------------------------- MODULE CreationEvents ---------------------------
(***************************************************************************)
(* What the pipeline promises about `campaign.created' events, however     *)
(* many copies of an event there are and however often it is handled: the  *)
(* broker holds an event until its row is created at the platform or the   *)
(* event is in the dead-letter queue.  CampaignCreation implements it.     *)
(***************************************************************************)
CONSTANT Rows   \* the platform campaigns events are about

VARIABLES
  held,      \* rows with an event that is ready or not acknowledged
  created,   \* rows with the id of a campaign at the platform
  dead       \* rows with an event in the dead-letter queue

vars == <<held, created, dead>>

Init == held = {} /\ created = {} /\ dead = {}

(* A request, or a sweep. *)
Publish(R) == held' = held \cup R /\ UNCHANGED <<created, dead>>

(* Only on behalf of an event. *)
Create(r) == r \in held /\ created' = created \cup {r} /\ UNCHANGED <<held, dead>>
Bury(r) == r \in held /\ dead' = dead \cup {r} /\ UNCHANGED <<held, created>>

(* The last copy is acknowledged. *)
Forget(r) ==
  /\ r \in held /\ r \in created \cup dead
  /\ held' = held \ {r}
  /\ UNCHANGED <<created, dead>>

Next ==
  \/ \E R \in SUBSET Rows : Publish(R)
  \/ \E r \in Rows : Create(r) \/ Bury(r) \/ Forget(r)

Spec == Init /\ [][Next]_vars

=============================================================================
