----------------------------- MODULE Workspaces -----------------------------
(***************************************************************************)
(* The members of one workspace (modules/workspaces/workspaces.service.ts) *)
(* under requests that overlap: a guard admits each request by its user's  *)
(* role (workspace-roles.guard.ts), the service reads what it needs with   *)
(* one query after the other, decides, and writes, without a transaction.  *)
(***************************************************************************)
EXTENDS Naturals, FiniteSets

CONSTANTS
  Users,        \* the users who may be members
  Roles,        \* the roles considered
  Requests,     \* requests in progress at the same time
  MaxRequests   \* bound: requests in all

ASSUME UsersAssumption == IsFiniteSet(Users) /\ Users # {}
ASSUME RolesAssumption ==
  /\ Roles \subseteq {"OWNER", "ADMIN", "MEDIA_BUYER", "ANALYST", "CLIENT_VIEWER"}
  /\ "OWNER" \in Roles
ASSUME RequestsAssumption == MaxRequests \in Nat

VARIABLES
  workspace,    \* "present", or "deleted"
  role,         \* WorkspaceMember.role by user; "none" without a membership
  row,          \* which membership of the user this is: a new one, a new id
  request,      \* the requests in progress
  asked,        \* bound: requests so far
  everOwner,    \* history: users who have been OWNER
  raced         \* history: a request wrote what another had overtaken

vars == <<workspace, role, row, request, asked, everOwner, raced>>

MemberRoles == Roles \cup {"none"}
Operations == {"add", "change", "remove", "delete"}

(* A request: who asks for whom to get which role, the membership it has   *)
(* read, and whether another request has written since.                    *)
Request == [pc : {"idle", "guard", "workspace", "member", "requester", "owners", "existing", "write"},
            op : Operations, by : Users, of : Users, to : MemberRoles,
            row : Nat, was : MemberRoles, overtaken : BOOLEAN]

NoRequest == [pc |-> "idle", op |-> "add", by |-> CHOOSE u \in Users : TRUE,
              of |-> CHOOSE u \in Users : TRUE, to |-> "none",
              row |-> 0, was |-> "none", overtaken |-> FALSE]

Owners == {u \in Users : role[u] = "OWNER"}

(* ROLE_HIERARCHY, and the level a route's @Roles ask for. *)
Level == [OWNER |-> 100, ADMIN |-> 80, MEDIA_BUYER |-> 60, ANALYST |-> 40,
          CLIENT_VIEWER |-> 20, none |-> 0]
RequiredLevel(op) == IF op = "delete" THEN Level["OWNER"] ELSE Level["ADMIN"]

TypeOK ==
  /\ workspace \in {"present", "deleted"}
  /\ role \in [Users -> MemberRoles]
  /\ row \in [Users -> Nat]
  /\ request \in [Requests -> Request]
  /\ asked \in 0..MaxRequests
  /\ everOwner \subseteq Users
  /\ raced \in BOOLEAN

(* A workspace begins with its creator as OWNER; earlier requests may have *)
(* added others and left any members with an OWNER among them.             *)
Init ==
  /\ workspace = "present"
  /\ role \in {f \in [Users -> MemberRoles] : \E u \in Users : f[u] = "OWNER"}
  /\ row = [u \in Users |-> 0]
  /\ request = [q \in Requests |-> NoRequest]
  /\ asked = 0
  /\ everOwner = Owners
  /\ raced = FALSE

-----------------------------------------------------------------------------
(* What a request reads                                                    *)

RequestOnly == UNCHANGED <<workspace, role, row, asked, everOwner, raced>>

Goto(q, pc) == request' = [request EXCEPT ![q].pc = pc]
End(q) == request' = [request EXCEPT ![q] = NoRequest]
Demotes(q) == request[q].was = "OWNER" /\ request[q].to # "OWNER"

Ask(q, op, by, of, to) ==
  /\ request[q].pc = "idle" /\ asked < MaxRequests
  /\ (to = "none") <=> (op \in {"remove", "delete"})
  /\ request' = [request EXCEPT ![q] =
       [NoRequest EXCEPT !.pc = "guard", !.op = op, !.by = by, !.of = of, !.to = to]]
  /\ asked' = asked + 1
  /\ UNCHANGED <<workspace, role, row, everOwner, raced>>

Guard(q) ==
  /\ request[q].pc = "guard"
  /\ IF Level[role[request[q].by]] >= RequiredLevel(request[q].op)
     THEN Goto(q, IF request[q].op \in {"change", "remove"} THEN "member" ELSE "workspace")
     ELSE End(q)
  /\ RequestOnly

FindWorkspace(q) ==
  /\ request[q].pc = "workspace"
  /\ IF workspace # "present" THEN End(q)
     ELSE Goto(q, IF request[q].op = "delete" THEN "write"
                  ELSE IF request[q].to = "OWNER" THEN "requester" ELSE "existing")
  /\ RequestOnly

(* By the id of the membership or of the user. *)
FindMember(q) ==
  /\ request[q].pc = "member"
  /\ IF role[request[q].of] = "none" THEN End(q)
     ELSE request' = [request EXCEPT ![q].pc = "requester", ![q].row = row[request[q].of],
                        ![q].was = role[request[q].of], ![q].overtaken = FALSE]
  /\ RequestOnly

(* Mutant: promoting to OWNER is checked, demoting one is not. *)
CheckRequester_Promotion(q) ==
  /\ request[q].pc = "requester"
  /\ IF role[request[q].by] # "OWNER" /\ request[q].to = "OWNER" THEN End(q)
     ELSE Goto(q, IF request[q].op = "add" THEN "existing"
                  ELSE IF Demotes(q) THEN "owners" ELSE "write")
  /\ RequestOnly

(* Mutant: demoting an OWNER is checked, promoting to one is not. *)
CheckRequester_Demotion(q) ==
  /\ request[q].pc = "requester"
  /\ IF role[request[q].by] # "OWNER" /\ request[q].was = "OWNER" THEN End(q)
     ELSE Goto(q, IF request[q].op = "add" THEN "existing"
                  ELSE IF Demotes(q) THEN "owners" ELSE "write")
  /\ RequestOnly

(* Only an OWNER makes an OWNER, or demotes or removes one. *)
CheckRequester(q) ==
  /\ request[q].pc = "requester"
  /\ IF role[request[q].by] # "OWNER" /\ "OWNER" \in {request[q].to, request[q].was} THEN End(q)
     ELSE Goto(q, IF request[q].op = "add" THEN "existing"
                  ELSE IF Demotes(q) THEN "owners" ELSE "write")
  /\ RequestOnly

(* Mutant: an off-by-one in the count. *)
CountOwners_AtLeastOne(q) ==
  /\ request[q].pc = "owners"
  /\ IF Cardinality(Owners) >= 1 THEN Goto(q, "write") ELSE End(q)
  /\ RequestOnly

(* The last OWNER of a workspace is not demoted or removed. *)
CountOwners(q) ==
  /\ request[q].pc = "owners"
  /\ IF Cardinality(Owners) > 1 THEN Goto(q, "write") ELSE End(q)
  /\ RequestOnly

FindExisting(q) ==
  /\ request[q].pc = "existing"
  /\ IF role[request[q].of] # "none" THEN End(q) ELSE Goto(q, "write")
  /\ RequestOnly

-----------------------------------------------------------------------------
(* What a request writes                                                   *)

(* Request q ends, and has overtaken those in progress. *)
EndAhead(q) ==
  request' = [p \in Requests |-> IF p = q THEN NoRequest
                                 ELSE [request[p] EXCEPT !.overtaken = request[p].pc # "idle"]]

(* workspaceMember.create: one membership per user, of a workspace that exists. *)
Create(q) ==
  /\ request[q].pc = "write" /\ request[q].op = "add"
  /\ workspace = "present" /\ role[request[q].of] = "none"
  /\ role' = [role EXCEPT ![request[q].of] = request[q].to]
  /\ row' = [row EXCEPT ![request[q].of] = @ + 1]
  /\ everOwner' = everOwner \cup (IF request[q].to = "OWNER" THEN {request[q].of} ELSE {})
  /\ EndAhead(q)
  /\ UNCHANGED <<workspace, asked, raced>>

(* workspaceMember.update or delete, by the id of the membership read. *)
Change(q) ==
  /\ request[q].pc = "write" /\ request[q].op \in {"change", "remove"}
  /\ role[request[q].of] # "none" /\ row[request[q].of] = request[q].row
  /\ role' = [role EXCEPT ![request[q].of] = request[q].to]
  /\ everOwner' = everOwner \cup (IF request[q].to = "OWNER" THEN {request[q].of} ELSE {})
  /\ raced' = (raced \/ request[q].overtaken)
  /\ EndAhead(q)
  /\ UNCHANGED <<workspace, row, asked>>

(* The workspace goes, and its members with it. *)
Delete(q) ==
  /\ request[q].pc = "write" /\ request[q].op = "delete"
  /\ workspace = "present"
  /\ workspace' = "deleted"
  /\ role' = [u \in Users |-> "none"]
  /\ EndAhead(q)
  /\ UNCHANGED <<row, asked, everOwner, raced>>

(* The database refuses: a second membership, or a row that is gone. *)
Refused(q) ==
  /\ request[q].pc = "write"
  /\ \/ workspace = "deleted"
     \/ request[q].op = "add" /\ role[request[q].of] # "none"
     \/ /\ request[q].op \in {"change", "remove"}
        /\ role[request[q].of] = "none" \/ row[request[q].of] # request[q].row
  /\ End(q)
  /\ RequestOnly

-----------------------------------------------------------------------------
Reads(q) == \/ Guard(q) \/ FindWorkspace(q) \/ FindMember(q) \/ CheckRequester(q)
            \/ CountOwners(q) \/ FindExisting(q)
Writes(q) == Create(q) \/ Change(q) \/ Delete(q) \/ Refused(q)

Next == \E q \in Requests :
  \/ \E op \in Operations, by, of \in Users, to \in MemberRoles : Ask(q, op, by, of, to)
  \/ Reads(q)
  \/ Writes(q)

Spec == Init /\ [][Next]_vars

-----------------------------------------------------------------------------
(* Properties                                                              *)

(* Unless a request writes what another request has overtaken, a workspace *)
(* keeps an OWNER, whoever adds, demotes, removes and returns              *)
(* (workspaces.service.ts, "Zero-owner protection").                       *)
OwnerRemains == workspace = "present" /\ ~raced => Owners # {}

(* An OWNER loses the role only to a request of somebody who is an OWNER   *)
(* at that moment, unless that request was overtaken (updateMemberRole,    *)
(* removeMember, delete).                                                  *)
OwnersYieldToOwners ==
  [][\A u \in Owners :
       role'[u] # "OWNER" /\ workspace' = "present" /\ ~raced'
         => \E q \in Requests : request[q].pc = "write" /\ request'[q].pc = "idle"
                                /\ request[q].of = u /\ request[q].by \in Owners]_vars

(* Whatever overlaps: who becomes an OWNER is made one by somebody who has *)
(* been an OWNER (addMember, updateMemberRole).                            *)
OwnersMakeOwners ==
  [][\A u \in Users \ Owners :
       role'[u] = "OWNER"
         => \E q \in Requests : request[q].pc = "write" /\ request'[q].pc = "idle"
                                /\ request[q].of = u /\ request[q].by \in everOwner]_vars

(* Why they hold: the parts of an inductive invariant. A request that was  *)
(* not overtaken decides from what still is, and the right to make or      *)
(* unmake an OWNER comes from one.                                         *)
Route(q) ==
  /\ request[q].pc \in {"member", "owners"} => request[q].op \in {"change", "remove"}
  /\ request[q].pc \in {"workspace", "existing"} => request[q].op \in {"add", "delete"}
  /\ request[q].op \in {"add", "delete"} => request[q].was = "none"
  /\ request[q].op = "delete" => request[q].to = "none"
ReadHolds(q) ==
  /\ request[q].pc \in {"requester", "owners", "write"}
  /\ request[q].op \in {"change", "remove"} /\ ~request[q].overtaken /\ workspace = "present"
  => role[request[q].of] = request[q].was
CountHolds(q) ==
  /\ request[q].pc = "write" /\ Demotes(q)
  /\ ~request[q].overtaken /\ workspace = "present"
  => \E u \in Owners : u # request[q].of
RightHolds(q) ==
  request[q].pc \in {"owners", "existing", "write"} /\ "OWNER" \in {request[q].to, request[q].was}
  => /\ request[q].by \in everOwner
     /\ ~request[q].overtaken => request[q].by \in Owners

RequestInv(q) == Route(q) /\ ReadHolds(q) /\ CountHolds(q) /\ RightHolds(q)
OwnerInv == /\ TypeOK /\ OwnerRemains /\ Owners \subseteq everOwner
            /\ \A q \in Requests : RequestInv(q)

(* "Zero-owner protection: cannot demote the last OWNER of a workspace"    *)
(* (workspaces.service.ts:312): it always has one.                         *)
AlwaysAnOwner == workspace = "present" => Owners # {}

=============================================================================
