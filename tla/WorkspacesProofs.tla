-------------------------- MODULE WorkspacesProofs --------------------------
(***************************************************************************)
(* Theorems about Workspaces, for any number of users, requests and roles. *)
(***************************************************************************)
EXTENDS Workspaces, FiniteSetTheorems, TLAPS

-----------------------------------------------------------------------------
(* Types                                                                   *)

(* The idle request is well typed. *)
LEMMA IdleType == NoRequest \in Request
<1>1. (CHOOSE u \in Users : TRUE) \in Users
  BY UsersAssumption
<1> QED BY <1>1 DEF NoRequest, Request, Operations, MemberRoles

(* A request that moves on, or ends, is a request. *)
LEMMA MoveType ==
  ASSUME TypeOK, NEW q \in Requests,
         NEW pc \in {"idle", "guard", "workspace", "member", "requester", "owners", "existing", "write"},
         Goto(q, pc) \/ End(q)
  PROVE  request' \in [Requests -> Request]
<1>1. CASE Goto(q, pc)
  BY <1>1 DEF Goto, TypeOK, Request
<1>2. CASE End(q)
  BY <1>2, IdleType DEF End, TypeOK
<1> QED BY <1>1, <1>2

(* So is every request after a write. *)
LEMMA AheadType ==
  ASSUME TypeOK, NEW q \in Requests, EndAhead(q)
  PROVE  request' \in [Requests -> Request]
<1>1. ASSUME NEW p \in Requests, p # q
      PROVE  [request[p] EXCEPT !.overtaken = request[p].pc # "idle"] \in Request
  BY <1>1 DEF TypeOK, Request
<1> QED BY <1>1, IdleType DEF EndAhead

(* Asking and reading keep every type. *)
LEMMA ReadType ==
  ASSUME TypeOK, NEW q \in Requests,
         Reads(q) \/ Refused(q) \/ \E op \in Operations, by, of \in Users, to \in MemberRoles :
                                     Ask(q, op, by, of, to)
  PROVE  TypeOK'
<1>1. ASSUME NEW op \in Operations, NEW by \in Users, NEW of \in Users, NEW to \in MemberRoles,
             Ask(q, op, by, of, to)
      PROVE  TypeOK'
  <2>1. [NoRequest EXCEPT !.pc = "guard", !.op = op, !.by = by, !.of = of, !.to = to] \in Request
    BY IdleType DEF Request
  <2>2. request' \in [Requests -> Request]
    BY <1>1, <2>1 DEF Ask, TypeOK
  <2>3. asked' \in 0..MaxRequests
    <3>1. asked' = asked + 1 /\ asked < MaxRequests
      BY <1>1 DEF Ask
    <3>2. asked \in 0..MaxRequests
      BY DEF TypeOK
    <3> QED BY <3>1, <3>2, RequestsAssumption
  <2> QED BY <1>1, <2>2, <2>3 DEF Ask, TypeOK
<1>2. ASSUME RequestOnly, request' \in [Requests -> Request]
      PROVE  TypeOK'
  BY <1>2 DEF RequestOnly, TypeOK
<1>3. CASE Guard(q)
  BY <1>2, <1>3, MoveType DEF Guard
<1>4. CASE FindWorkspace(q)
  BY <1>2, <1>4, MoveType DEF FindWorkspace
<1>5. CASE FindMember(q)
  <2>1. CASE End(q)
    BY <1>2, <1>5, <2>1, MoveType DEF FindMember
  <2>2. CASE ~End(q)
    <3>1. /\ row[request[q].of] \in Nat /\ role[request[q].of] \in MemberRoles
      BY DEF TypeOK, Request
    <3>2. [request[q] EXCEPT !.pc = "requester", !.row = row[request[q].of],
             !.was = role[request[q].of], !.overtaken = FALSE] \in Request
      BY <3>1 DEF TypeOK, Request
    <3>3. request' \in [Requests -> Request]
      BY <1>5, <2>2, <3>2 DEF FindMember, TypeOK
    <3> QED BY <1>2, <1>5, <3>3 DEF FindMember
  <2> QED BY <2>1, <2>2
<1>6. CASE CheckRequester(q)
  BY <1>2, <1>6, MoveType DEF CheckRequester
<1>7. CASE CountOwners(q)
  BY <1>2, <1>7, MoveType DEF CountOwners
<1>8. CASE FindExisting(q)
  BY <1>2, <1>8, MoveType DEF FindExisting
<1>9. CASE Refused(q)
  BY <1>2, <1>9, MoveType DEF Refused
<1> QED BY <1>1, <1>3, <1>4, <1>5, <1>6, <1>7, <1>8, <1>9 DEF Reads

(* Writing keeps every type. *)
LEMMA WriteType ==
  ASSUME TypeOK, NEW q \in Requests, Create(q) \/ Change(q) \/ Delete(q)
  PROVE  TypeOK'
<1>1. request[q] \in Request /\ request[q].of \in Users /\ request[q].to \in MemberRoles
  BY DEF TypeOK, Request
<1>2. request[q].overtaken \in BOOLEAN
  BY DEF TypeOK, Request
<1>3. request' \in [Requests -> Request]
  BY AheadType DEF Create, Change, Delete
<1>4. CASE Create(q)
  <2>1. role' \in [Users -> MemberRoles]
    BY <1>1, <1>4 DEF Create, TypeOK
  <2>2. row' \in [Users -> Nat]
    BY <1>1, <1>4 DEF Create, TypeOK
  <2>3. everOwner' \subseteq Users
    BY <1>1, <1>4 DEF Create, TypeOK
  <2> QED BY <1>3, <1>4, <2>1, <2>2, <2>3 DEF Create, TypeOK
<1>5. CASE Change(q)
  <2>1. role' \in [Users -> MemberRoles]
    BY <1>1, <1>5 DEF Change, TypeOK
  <2>2. everOwner' \subseteq Users
    BY <1>1, <1>5 DEF Change, TypeOK
  <2>3. raced' \in BOOLEAN
    BY <1>2, <1>5 DEF Change, TypeOK
  <2> QED BY <1>3, <1>5, <2>1, <2>2, <2>3 DEF Change, TypeOK
<1>6. CASE Delete(q)
  <2>1. role' \in [Users -> MemberRoles]
    BY <1>6 DEF Delete, MemberRoles
  <2> QED BY <1>3, <1>6, <2>1 DEF Delete, TypeOK
<1> QED BY <1>4, <1>5, <1>6

(* Every step keeps every type. *)
LEMMA TypeStep == TypeOK /\ [Next]_vars => TypeOK'
<1>1. ASSUME TypeOK, UNCHANGED vars PROVE TypeOK'
  BY <1>1 DEF vars, TypeOK
<1> QED BY <1>1, ReadType, WriteType DEF Next, Writes

(* A workspace with its first members is well typed. *)
LEMMA TypeInit == Init => TypeOK
<1> SUFFICES ASSUME Init PROVE TypeOK
  OBVIOUS
<1>1. raced \in BOOLEAN
  BY DEF Init
<1>2. request \in [Requests -> Request]
  BY IdleType DEF Init
<1>3. asked \in 0..MaxRequests
  BY RequestsAssumption DEF Init
<1> QED BY <1>1, <1>2, <1>3 DEF Init, TypeOK, Owners

(* Every variable keeps its type. *)
THEOREM TypeCorrect == Spec => []TypeOK
BY TypeInit, TypeStep, PTL DEF Spec

-----------------------------------------------------------------------------
(* Owners                                                                  *)

(* Of two OWNERs one is somebody else. *)
LEMMA AnotherOwner ==
  ASSUME NEW u \in Users, Cardinality(Owners) > 1
  PROVE  \E v \in Owners : v # u
<1> SUFFICES ASSUME \A v \in Owners : v = u PROVE FALSE
  OBVIOUS
<1>1. Owners \subseteq {u}
  OBVIOUS
<1>2. IsFiniteSet({u}) /\ Cardinality({u}) = 1
  BY FS_Singleton
<1>3. IsFiniteSet(Owners) /\ Cardinality(Owners) <= 1
  BY <1>1, <1>2, FS_Subset
<1>4. Cardinality(Owners) \in Nat
  BY <1>3, FS_CardinalityType
<1> QED BY <1>3, <1>4

(* Nothing is asked of a request that is not in progress. *)
LEMMA IdleHolds ==
  ASSUME NEW q \in Requests, request[q] = NoRequest
  PROVE  RequestInv(q)
BY DEF NoRequest, RequestInv, Route, ReadHolds, CountHolds, RightHolds

(* A request that another one's reading leaves alone. *)
LEMMA UntouchedKeeps ==
  ASSUME NEW p \in Requests, RequestInv(p), request'[p] = request[p],
         UNCHANGED <<workspace, role, everOwner>>
  PROVE  RequestInv(p)'
BY DEF RequestInv, Route, ReadHolds, CountHolds, RightHolds, Demotes, Owners

(* A request that another one's write overtakes. *)
LEMMA OvertakenKeeps ==
  ASSUME TypeOK, NEW q \in Requests, NEW p \in Requests, p # q, RequestInv(p), EndAhead(q),
         everOwner \subseteq everOwner'
  PROVE  RequestInv(p)'
<1>1. request'[p] = [request[p] EXCEPT !.overtaken = request[p].pc # "idle"]
  BY DEF EndAhead
<1>2. request[p] \in Request
  BY DEF TypeOK
<1>3. /\ request'[p].pc = request[p].pc /\ request'[p].op = request[p].op
      /\ request'[p].was = request[p].was /\ request'[p].to = request[p].to
      /\ request'[p].by = request[p].by
  BY <1>1, <1>2 DEF Request
<1>4. request[p].pc # "idle" => request'[p].overtaken
  BY <1>1, <1>2 DEF Request
<1>5. Route(p)'
  BY <1>3 DEF RequestInv, Route
<1>6. ReadHolds(p)' /\ CountHolds(p)'
  BY <1>3, <1>4 DEF ReadHolds, CountHolds
<1>7. RightHolds(p)'
  BY <1>3, <1>4 DEF RequestInv, RightHolds
<1> QED BY <1>5, <1>6, <1>7 DEF RequestInv

(* Nor of one that ends. *)
LEMMA EndKeeps ==
  ASSUME TypeOK, NEW q \in Requests, End(q)
  PROVE  RequestInv(q)'
<1>1. request'[q] = NoRequest
  BY DEF End, TypeOK
<1> QED BY <1>1 DEF NoRequest, RequestInv, Route, ReadHolds, CountHolds, RightHolds

(* A request that moves on keeps everything else. *)
LEMMA GotoShape ==
  ASSUME TypeOK, NEW q \in Requests, NEW pc, Goto(q, pc)
  PROVE  /\ request'[q].pc = pc /\ request'[q].op = request[q].op
         /\ request'[q].was = request[q].was /\ request'[q].to = request[q].to
         /\ request'[q].by = request[q].by /\ request'[q].of = request[q].of
         /\ request'[q].overtaken = request[q].overtaken
<1>1. request'[q] = [request[q] EXCEPT !.pc = pc]
  BY DEF Goto, TypeOK
<1> QED BY <1>1 DEF TypeOK, Request

(* Asking and reading keep what is known of the request itself. *)
LEMMA OwnReadKeeps ==
  ASSUME OwnerInv, NEW q \in Requests, Reads(q) \/ Refused(q)
  PROVE  RequestInv(q)'
<1>1. TypeOK /\ RequestInv(q)
  BY DEF OwnerInv
<1>2. UNCHANGED <<workspace, role, everOwner>>
  BY DEF Reads, Refused, RequestOnly, Guard, FindWorkspace, FindMember, CheckRequester,
         CountOwners, FindExisting
<1>3. CASE End(q)
  BY <1>1, <1>3, EndKeeps
<1>4. CASE Guard(q) /\ ~End(q)
  <2>1. \/ Goto(q, "member") /\ request[q].op \in {"change", "remove"}
        \/ Goto(q, "workspace") /\ request[q].op \notin {"change", "remove"}
    BY <1>4 DEF Guard
  <2>2. request[q].op \in Operations
    BY <1>1 DEF TypeOK, Request
  <2>3. CASE Goto(q, "member")
    <3>1. request'[q].pc = "member" /\ request'[q].op = request[q].op
      BY <1>1, <2>3, GotoShape
    <3>2. request[q].op \in {"change", "remove"}
      BY <2>1, <3>1, <1>1, GotoShape
    <3> QED BY <3>1, <3>2 DEF RequestInv, Route, ReadHolds, CountHolds, RightHolds
  <2>4. CASE Goto(q, "workspace")
    <3>1. /\ request'[q].pc = "workspace" /\ request'[q].op = request[q].op
          /\ request'[q].was = request[q].was /\ request'[q].to = request[q].to
      BY <1>1, <2>4, GotoShape
    <3>2. request[q].op \in {"add", "delete"}
      BY <2>1, <2>2, <3>1, <1>1, GotoShape DEF Operations
    <3> QED BY <1>1, <3>1, <3>2 DEF RequestInv, Route, ReadHolds, CountHolds, RightHolds
  <2> QED BY <2>1, <2>3, <2>4
<1>5. CASE FindWorkspace(q) /\ ~End(q)
  <2>1. request[q].op \in {"add", "delete"} /\ request[q].was = "none"
    BY <1>1, <1>5 DEF FindWorkspace, RequestInv, Route
  <2>2. \/ Goto(q, "write") /\ request[q].op = "delete"
        \/ Goto(q, "requester") /\ request[q].op = "add"
        \/ Goto(q, "existing") /\ request[q].to # "OWNER"
    BY <1>5, <2>1 DEF FindWorkspace
  <2>3. /\ request'[q].op = request[q].op /\ request'[q].was = request[q].was
        /\ request'[q].to = request[q].to /\ request'[q].pc \in {"write", "requester", "existing"}
        /\ request'[q].pc = "existing" => request[q].to # "OWNER"
        /\ request'[q].pc = "write" => request[q].op = "delete"
    BY <1>1, <2>2, GotoShape
  <2>4. request[q].op = "delete" => request[q].to = "none"
    BY <1>1 DEF RequestInv, Route
  <2>5. Route(q)' /\ ReadHolds(q)'
    BY <2>1, <2>3, <2>4 DEF Route, ReadHolds
  <2>6. CountHolds(q)' /\ RightHolds(q)'
    BY <2>1, <2>3, <2>4 DEF CountHolds, RightHolds, Demotes
  <2> QED BY <2>5, <2>6 DEF RequestInv
<1>6. CASE FindMember(q) /\ ~End(q)
  <2>1. request'[q] = [request[q] EXCEPT !.pc = "requester", !.row = row[request[q].of],
                         !.was = role[request[q].of], !.overtaken = FALSE]
    BY <1>1, <1>6 DEF FindMember, TypeOK
  <2>2. /\ request'[q].pc = "requester" /\ request'[q].was = role[request[q].of]
        /\ request'[q].op = request[q].op /\ request'[q].of = request[q].of
    BY <1>1, <2>1 DEF TypeOK, Request
  <2>3. request[q].op \in {"change", "remove"}
    BY <1>1, <1>6 DEF FindMember, RequestInv, Route
  <2> QED BY <1>2, <2>2, <2>3 DEF RequestInv, Route, ReadHolds, CountHolds, RightHolds
<1>7. CASE CheckRequester(q) /\ ~End(q)
  <2>1. /\ request[q].pc = "requester"
        /\ "OWNER" \in {request[q].to, request[q].was} => role[request[q].by] = "OWNER"
        /\ \/ Goto(q, "existing") /\ request[q].op = "add"
           \/ Goto(q, "owners") /\ Demotes(q)
           \/ Goto(q, "write") /\ request[q].op # "add" /\ ~Demotes(q)
    BY <1>7 DEF CheckRequester
  <2>2. "OWNER" \in {request[q].to, request[q].was}
        => request[q].by \in Owners /\ request[q].by \in everOwner
    BY <1>1, <2>1 DEF TypeOK, Request, Owners, OwnerInv
  <2>3. /\ request'[q].op = request[q].op /\ request'[q].was = request[q].was
        /\ request'[q].to = request[q].to /\ request'[q].by = request[q].by
        /\ request'[q].of = request[q].of /\ request'[q].overtaken = request[q].overtaken
        /\ request'[q].pc \in {"existing", "owners", "write"}
        /\ request'[q].pc = "existing" => request[q].op = "add"
        /\ request'[q].pc = "owners" => Demotes(q)
        /\ request'[q].pc = "write" => ~Demotes(q)
    BY <1>1, <2>1, GotoShape
  <2>4. request'[q].pc = "owners" => request[q].op \in {"change", "remove"}
    BY <1>1, <2>3 DEF RequestInv, Route, Demotes, TypeOK, Request, Operations
  <2>5. Route(q)' /\ ReadHolds(q)'
    BY <1>1, <1>2, <2>1, <2>3, <2>4 DEF RequestInv, Route, ReadHolds
  <2>6. CountHolds(q)' /\ RightHolds(q)'
    BY <1>2, <2>2, <2>3 DEF CountHolds, RightHolds, Demotes, Owners
  <2> QED BY <2>5, <2>6 DEF RequestInv
<1>8. CASE CountOwners(q) /\ ~End(q)
  <2>1. Goto(q, "write") /\ Cardinality(Owners) > 1 /\ request[q].pc = "owners"
    BY <1>8 DEF CountOwners
  <2>2. \E u \in Owners : u # request[q].of
    BY <1>1, <2>1, AnotherOwner DEF TypeOK, Request
  <2>3. /\ request'[q].pc = "write" /\ request'[q].of = request[q].of
    BY <1>1, <2>1, GotoShape
  <2>4. CountHolds(q)'
    BY <1>2, <2>2, <2>3 DEF CountHolds, Owners
  <2>5. /\ request'[q].op = request[q].op /\ request'[q].was = request[q].was
        /\ request'[q].to = request[q].to /\ request'[q].by = request[q].by
        /\ request'[q].overtaken = request[q].overtaken
    BY <1>1, <2>1, GotoShape
  <2>6. Route(q)'
    BY <1>1, <2>3, <2>5 DEF RequestInv, Route
  <2>7. ReadHolds(q)' /\ RightHolds(q)'
    BY <1>1, <1>2, <2>1, <2>3, <2>5 DEF RequestInv, ReadHolds, RightHolds, Owners
  <2> QED BY <2>4, <2>6, <2>7 DEF RequestInv
<1>9. CASE FindExisting(q) /\ ~End(q)
  <2>1. Goto(q, "write") /\ request[q].pc = "existing"
    BY <1>9 DEF FindExisting
  <2>2. /\ request'[q].pc = "write"
        /\ request'[q].op = request[q].op /\ request'[q].was = request[q].was
        /\ request'[q].to = request[q].to /\ request'[q].by = request[q].by
        /\ request'[q].overtaken = request[q].overtaken
    BY <1>1, <2>1, GotoShape
  <2>3. request[q].op \in {"add", "delete"} /\ request[q].was = "none"
    BY <1>1, <2>1 DEF RequestInv, Route
  <2>4. Route(q)' /\ ReadHolds(q)'
    BY <1>1, <2>2, <2>3 DEF RequestInv, Route, ReadHolds
  <2>5. CountHolds(q)' /\ RightHolds(q)'
    BY <1>1, <1>2, <2>1, <2>2, <2>3 DEF RequestInv, CountHolds, RightHolds, Demotes, Owners
  <2> QED BY <2>4, <2>5 DEF RequestInv
<1> QED BY <1>3, <1>4, <1>5, <1>6, <1>7, <1>8, <1>9 DEF Reads, Refused

(* Asking and reading keep the invariant. *)
LEMMA ReadKeeps ==
  ASSUME OwnerInv, NEW q \in Requests,
         Reads(q) \/ Refused(q) \/ \E op \in Operations, by, of \in Users, to \in MemberRoles :
                                     Ask(q, op, by, of, to)
  PROVE  OwnerInv'
<1>1. TypeOK /\ TypeOK'
  BY ReadType DEF OwnerInv
<1>2. UNCHANGED <<workspace, role, everOwner, raced>>
  BY DEF Reads, Refused, Ask, RequestOnly, Guard, FindWorkspace, FindMember, CheckRequester,
         CountOwners, FindExisting
<1>3. ASSUME NEW p \in Requests, p # q
      PROVE  request'[p] = request[p]
  BY <1>1, <1>3 DEF TypeOK, Reads, Refused, Ask, Guard, FindWorkspace, FindMember,
     CheckRequester, CountOwners, FindExisting, Goto, End
<1>4. RequestInv(q)'
  <2>1. ASSUME NEW op \in Operations, NEW by \in Users, NEW of \in Users, NEW to \in MemberRoles,
               Ask(q, op, by, of, to)
        PROVE  RequestInv(q)'
    <3>1. request'[q] = [NoRequest EXCEPT !.pc = "guard", !.op = op, !.by = by,
                                          !.of = of, !.to = to]
      BY <1>1, <2>1 DEF Ask, TypeOK
    <3>2. /\ request'[q].pc = "guard" /\ request'[q].op = op /\ request'[q].to = to
          /\ request'[q].was = "none"
      BY <3>1 DEF NoRequest
    <3>3. op = "delete" => to = "none"
      BY <2>1 DEF Ask
    <3> QED BY <3>2, <3>3 DEF RequestInv, Route, ReadHolds, CountHolds, RightHolds
  <2> QED BY <2>1, OwnReadKeeps
<1>5. ASSUME NEW p \in Requests PROVE RequestInv(p)'
  BY <1>2, <1>3, <1>4, UntouchedKeeps DEF OwnerInv
<1>6. OwnerRemains' /\ (Owners \subseteq everOwner)'
  BY <1>2 DEF OwnerInv, OwnerRemains, Owners
<1> QED BY <1>1, <1>5, <1>6 DEF OwnerInv

(* After a write every request keeps what is known of it. *)
LEMMA WriteRequests ==
  ASSUME OwnerInv, NEW q \in Requests, EndAhead(q), everOwner \subseteq everOwner'
  PROVE  \A p \in Requests : RequestInv(p)'
<1>1. request'[q] = NoRequest
  BY DEF EndAhead
<1>2. RequestInv(q)'
  BY <1>1 DEF NoRequest, RequestInv, Route, ReadHolds, CountHolds, RightHolds
<1> QED BY <1>2, OvertakenKeeps DEF OwnerInv

(* Adding a member keeps the invariant. *)
LEMMA CreateKeeps ==
  ASSUME OwnerInv, NEW q \in Requests, Create(q)
  PROVE  OwnerInv'
<1>1. TypeOK /\ TypeOK'
  BY WriteType DEF OwnerInv
<1>2. \A p \in Requests : RequestInv(p)'
  BY WriteRequests DEF Create
<1>3. request[q].of \in Users /\ role[request[q].of] = "none"
  BY <1>1 DEF Create, TypeOK, Request
<1>4. Owners \subseteq Owners'
  BY <1>1, <1>3 DEF Create, TypeOK, Owners
<1>5. Owners' \subseteq Owners \cup (IF request[q].to = "OWNER" THEN {request[q].of} ELSE {})
  BY <1>1, <1>3 DEF Create, TypeOK, Owners
<1>6. OwnerRemains'
  BY <1>4 DEF Create, OwnerInv, OwnerRemains
<1>7. (Owners \subseteq everOwner)'
  BY <1>5 DEF Create, OwnerInv
<1> QED BY <1>1, <1>2, <1>6, <1>7 DEF OwnerInv

(* The role of a user is the only one a change touches. *)
LEMMA ChangeShape ==
  ASSUME TypeOK, NEW q \in Requests, Change(q)
  PROVE  /\ request[q].of \in Users
         /\ \A u \in Users : role'[u] = IF u = request[q].of THEN request[q].to ELSE role[u]
BY DEF Change, TypeOK, Request

(* Changing or removing a member keeps the invariant. *)
LEMMA ChangeKeeps ==
  ASSUME OwnerInv, NEW q \in Requests, Change(q)
  PROVE  OwnerInv'
<1>1. TypeOK /\ TypeOK'
  BY WriteType DEF OwnerInv
<1>2. \A p \in Requests : RequestInv(p)'
  BY WriteRequests DEF Change
<1>3. /\ request[q].of \in Users
      /\ \A u \in Users : role'[u] = IF u = request[q].of THEN request[q].to ELSE role[u]
  BY <1>1, ChangeShape
<1>4. OwnerRemains'
  <2> SUFFICES ASSUME workspace' = "present", ~raced' PROVE Owners' # {}
    BY DEF OwnerRemains
  <2>1. workspace = "present" /\ ~raced /\ ~request[q].overtaken
    BY DEF Change
  <2>2. PICK v \in Users : role[v] = "OWNER"
    BY <2>1 DEF OwnerInv, OwnerRemains, Owners
  <2>3. CASE request[q].to = "OWNER"
    BY <1>3, <2>3 DEF Owners
  <2>4. CASE request[q].to # "OWNER" /\ request[q].was = "OWNER"
    <3>1. \E u \in Owners : u # request[q].of
      BY <2>1, <2>4 DEF OwnerInv, RequestInv, CountHolds, Demotes, Change
    <3> QED BY <1>3, <3>1 DEF Owners
  <2>5. CASE request[q].to # "OWNER" /\ request[q].was # "OWNER"
    <3>1. role[request[q].of] # "OWNER"
      BY <2>1, <2>5 DEF OwnerInv, RequestInv, ReadHolds, Change
    <3> QED BY <1>3, <2>2, <3>1 DEF Owners
  <2> QED BY <2>3, <2>4, <2>5
<1>5. Owners' \subseteq Owners \cup (IF request[q].to = "OWNER" THEN {request[q].of} ELSE {})
  BY <1>3 DEF Owners
<1>6. (Owners \subseteq everOwner)'
  BY <1>5 DEF Change, OwnerInv
<1> QED BY <1>1, <1>2, <1>4, <1>6 DEF OwnerInv

(* So does deleting the workspace. *)
LEMMA DeleteKeeps ==
  ASSUME OwnerInv, NEW q \in Requests, Delete(q)
  PROVE  OwnerInv'
<1>1. TypeOK'
  BY WriteType DEF OwnerInv
<1>2. \A p \in Requests : RequestInv(p)'
  BY WriteRequests DEF Delete
<1>3. OwnerRemains' /\ Owners' = {}
  BY DEF Delete, OwnerRemains, Owners
<1> QED BY <1>1, <1>2, <1>3 DEF OwnerInv

(* The invariant holds at first and is kept. *)
LEMMA OwnerInit == Init => OwnerInv
<1> SUFFICES ASSUME Init PROVE OwnerInv
  OBVIOUS
<1>1. TypeOK
  BY TypeInit
<1>2. OwnerRemains /\ Owners \subseteq everOwner
  BY DEF Init, OwnerRemains, Owners
<1>3. ASSUME NEW q \in Requests PROVE RequestInv(q)
  BY IdleHolds DEF Init
<1> QED BY <1>1, <1>2, <1>3 DEF OwnerInv

(* Every step keeps the invariant. *)
LEMMA OwnerStep == OwnerInv /\ [Next]_vars => OwnerInv'
<1>1. ASSUME OwnerInv, UNCHANGED vars PROVE OwnerInv'
  <2>1. ASSUME NEW p \in Requests PROVE RequestInv(p)'
    BY <1>1, UntouchedKeeps DEF vars, OwnerInv
  <2>2. TypeOK' /\ OwnerRemains' /\ (Owners \subseteq everOwner)'
    BY <1>1 DEF vars, OwnerInv, TypeOK, OwnerRemains, Owners
  <2> QED BY <2>1, <2>2 DEF OwnerInv
<1> QED BY <1>1, ReadKeeps, CreateKeeps, ChangeKeeps, DeleteKeeps DEF Next, Writes

(* As long as no request writes what another has overtaken, a workspace    *)
(* keeps an OWNER, however many users and requests there are               *)
(* (workspaces.service.ts, updateMemberRole, removeMember).                *)
THEOREM OwnerKept == Spec => []OwnerRemains
<1>1. OwnerInv => OwnerRemains
  BY DEF OwnerInv
<1> QED BY <1>1, OwnerInit, OwnerStep, PTL DEF Spec

(* A step that makes somebody an OWNER is the write of a request of one.   *)
LEMMA MakingStep ==
  ASSUME OwnerInv, [Next]_vars, NEW u \in Users \ Owners, role'[u] = "OWNER"
  PROVE  \E q \in Requests : request[q].pc = "write" /\ request'[q].pc = "idle"
                             /\ request[q].of = u /\ request[q].by \in everOwner
<1>1. role' # role
  BY DEF Owners
<1>2. PICK q \in Requests : Create(q) \/ Change(q) \/ Delete(q)
  BY <1>1 DEF Next, Writes, Reads, Refused, Ask, RequestOnly, Guard, FindWorkspace, FindMember,
     CheckRequester, CountOwners, FindExisting, vars
<1>3. ~Delete(q)
  BY DEF Delete
<1>4. request[q].of = u /\ request[q].to = "OWNER"
  BY <1>2, <1>3 DEF OwnerInv, TypeOK, Create, Change, Owners
<1>5. request[q].pc = "write" /\ request'[q].pc = "idle"
  BY <1>2 DEF Create, Change, Delete, EndAhead, NoRequest
<1>6. request[q].by \in everOwner
  BY <1>4, <1>5 DEF OwnerInv, RequestInv, RightHolds
<1> QED BY <1>4, <1>5, <1>6

(* Whatever requests overlap, nobody becomes an OWNER but through somebody *)
(* who has been one (addMember, updateMemberRole).                         *)
THEOREM OwnersBegetOwners == Spec => OwnersMakeOwners
<1>1. OwnerInv /\ [Next]_vars
      => [\A u \in Users \ Owners :
            role'[u] = "OWNER"
              => \E q \in Requests : request[q].pc = "write" /\ request'[q].pc = "idle"
                                     /\ request[q].of = u /\ request[q].by \in everOwner]_vars
  BY MakingStep
<1> QED BY <1>1, OwnerInit, OwnerStep, PTL DEF Spec, OwnersMakeOwners

(* A step that costs an OWNER the role is the write of a request of one.   *)
LEMMA UnmakingStep ==
  ASSUME OwnerInv, [Next]_vars, NEW u \in Owners,
         role'[u] # "OWNER", workspace' = "present", ~raced'
  PROVE  \E q \in Requests : request[q].pc = "write" /\ request'[q].pc = "idle"
                             /\ request[q].of = u /\ request[q].by \in Owners
<1>1. role' # role
  BY DEF Owners
<1>2. PICK q \in Requests : Create(q) \/ Change(q) \/ Delete(q)
  BY <1>1 DEF Next, Writes, Reads, Refused, Ask, RequestOnly, Guard, FindWorkspace, FindMember,
     CheckRequester, CountOwners, FindExisting, vars
<1>3. ~Delete(q)
  BY DEF Delete
<1>4. role[u] = "OWNER" /\ u \in Users
  BY DEF Owners
<1>5. ~Create(q)
  BY <1>4 DEF Create, OwnerInv, TypeOK
<1>6. Change(q)
  BY <1>2, <1>3, <1>5
<1>7. request[q].of = u /\ request[q].pc = "write" /\ request'[q].pc = "idle"
  BY <1>4, <1>6 DEF OwnerInv, TypeOK, Change, EndAhead, NoRequest
<1>8. workspace = "present" /\ ~request[q].overtaken /\ request[q].op \in {"change", "remove"}
  BY <1>6 DEF Change
<1>9. request[q].was = "OWNER"
  BY <1>4, <1>7, <1>8 DEF OwnerInv, RequestInv, ReadHolds
<1>10. request[q].by \in Owners
  BY <1>7, <1>8, <1>9 DEF OwnerInv, RequestInv, RightHolds
<1> QED BY <1>7, <1>10

(* An OWNER loses the role only to a request of an OWNER of that moment,   *)
(* unless the request was overtaken (updateMemberRole, removeMember).      *)
THEOREM OwnersUnmakeOwners == Spec => OwnersYieldToOwners
<1>1. OwnerInv /\ [Next]_vars
      => [\A u \in Owners :
            role'[u] # "OWNER" /\ workspace' = "present" /\ ~raced'
              => \E q \in Requests : request[q].pc = "write" /\ request'[q].pc = "idle"
                                     /\ request[q].of = u /\ request[q].by \in Owners]_vars
  BY UnmakingStep
<1> QED BY <1>1, OwnerInit, OwnerStep, PTL DEF Spec, OwnersYieldToOwners

=============================================================================
