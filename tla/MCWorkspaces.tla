---------------------------- MODULE MCWorkspaces ----------------------------
(* Workspaces on small instances; see the cfg files for the bounds.        *)
EXTENDS Workspaces, TLC

(* Users, and requests in progress, are interchangeable. *)
ActorSymmetry == Permutations(Users) \cup Permutations(Requests)

=============================================================================
