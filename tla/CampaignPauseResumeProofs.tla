--------------------- MODULE CampaignPauseResumeProofs ----------------------
(***************************************************************************)
(* Theorems about CampaignPauseResume, for any number of rows, of requests *)
(* in progress, of deliveries, of retries and of disturbances.             *)
(***************************************************************************)
EXTENDS CampaignPauseResume, FiniteSetTheorems, TLAPS

-----------------------------------------------------------------------------
(* Types                                                                   *)

(* The idle delivery and the absent request are well typed. *)
LEMMA IdleType == Idle \in Delivery /\ NoRequest \in Request
<1>1. (CHOOSE r \in Rows : TRUE) \in Rows
  BY RowsAssumption
<1>2. Idle \in Delivery
  BY <1>1, RetriesAssumption DEF Idle, Delivery, Messages, Statuses, Kinds
<1>3. NoRequest \in Request
  BY DEF NoRequest, Request, Statuses, Kinds
<1> QED BY <1>2, <1>3

(* The status chosen for the parent is one of the four. *)
LEMMA TargetType ==
  ASSUME NEW c \in Statuses, NEW S
  PROVE  ReconcileTarget(c, S) \in Statuses
BY DEF ReconcileTarget, Statuses

(* Where the await of a delivery leads, with or without an error. *)
LEMMA MoveType ==
  ASSUME TypeOK, NEW h \in Handlers,
         NEW pc \in {"idle", "load", "account", "limit", "token", "call", "reconcile",
                     "write", "settle", "ack"},
         NEW o \in {"ok", "retry", "terminal"},
         Goto(h, pc) \/ Fail(h, pc, o)
  PROVE  handler' \in [Handlers -> Delivery]
BY DEF TypeOK, Goto, Fail, Delivery

(* A fault is counted, and adds to what was given up. *)
LEMMA DisturbType ==
  ASSUME TypeOK, NEW k, Disturb(k)
  PROVE  disturbances' \in 0..MaxDisturbances /\ abandoned' \subseteq {"request", "account", "order"}
<1>1. disturbances' \in 0..MaxDisturbances
  BY BoundsAssumption DEF Disturb, TypeOK
<1>2. Abandons(k) \subseteq {"request", "account"}
  BY DEF Abandons
<1>3. abandoned' = abandoned \cup Abandons(k)
  BY DEF Disturb
<1>4. abandoned \subseteq {"request", "account", "order"}
  BY DEF TypeOK
<1> QED BY <1>1, <1>2, <1>3, <1>4

(* One step of a request keeps every variable's type. *)
LEMMA RequestStepType ==
  ASSUME TypeOK, NEW q \in Requests,
         RequestStep(q) \/ (\E kind \in Kinds : Read(q, kind))
  PROVE  TypeOK'
<1> USE DEF RequestOnly, Undisturbed, accounts, Exists
<1>0. request[q] \in Request /\ NoRequest \in Request
  BY IdleType DEF TypeOK
<1>d. ASSUME NEW k, Disturb(k)
      PROVE disturbances' \in 0..MaxDisturbances /\ abandoned' \subseteq {"request", "account", "order"}
  BY <1>d, DisturbType
<1>1. ASSUME NEW kind \in Kinds, Read(q, kind) PROVE TypeOK'
  <2>1. uacm \in Statuses
    BY <1>1 DEF Read, From, Statuses, Kinds
  <2>2. request' \in [Requests -> Request]
    BY <1>1, <2>1 DEF Read, TypeOK, Request
  <2>3. issued' \in 0..MaxRequests
    BY <1>1, BoundsAssumption DEF Read, TypeOK
  <2>4. abandoned' \subseteq {"request", "account", "order"}
    BY <1>1 DEF Read, TypeOK
  <2> QED BY <1>1, <2>2, <2>3, <2>4 DEF Read, TypeOK
<1>2. CASE Commit(q)
  <2>1. To(request[q].kind) \in Statuses
    BY DEF To, Statuses
  <2> DEFINE moved == {r \in Rows : request[q].rows[r] = From(request[q].kind)}
             events == moved \cap created
  <2>2. status' = [r \in Rows |-> IF r \in moved THEN To(request[q].kind) ELSE status[r]]
    BY <1>2 DEF Commit
  <2>3. status' \in [Rows -> Statuses]
    BY <2>1, <2>2 DEF TypeOK
  <2>4. [request[q] EXCEPT !.pc = "publish", !.events = events] \in Request
    BY <1>0 DEF Request
  <2>5. request' = [request EXCEPT ![q] = IF events = {} THEN NoRequest
                      ELSE [request[q] EXCEPT !.pc = "publish", !.events = events]]
    BY <1>2 DEF Commit, TypeOK
  <2>6. request' \in [Requests -> Request]
    BY <1>0, <2>4, <2>5 DEF TypeOK
  <2> QED BY <1>2, <2>1, <2>3, <2>6 DEF Commit, TypeOK
<1>3. CASE Abort(q)
  <2>1. disturbances' \in 0..MaxDisturbances /\ abandoned' \subseteq {"request", "account", "order"}
    BY <1>3, <1>d DEF Abort, TypeOK
  <2> QED BY <1>0, <1>3, <2>1 DEF Abort, TypeOK
<1>4. CASE Rollback(q)
  BY <1>0, <1>4 DEF Rollback, TypeOK, Request
<1>5. CASE PublishFails(q)
  <2>1. disturbances' \in 0..MaxDisturbances /\ abandoned' \subseteq {"request", "account", "order"}
    BY <1>5, <1>d DEF PublishFails
  <2>2. request' \in [Requests -> Request]
    BY <1>0, <1>5 DEF PublishFails, TypeOK, Request
  <2> QED BY <1>5, <2>1, <2>2 DEF PublishFails, TypeOK
<1>6. ASSUME NEW r \in Rows, Publish(q, r) PROVE TypeOK'
  <2>1. [kind |-> request[q].kind, row |-> r, attempt |-> 1] \in Messages
    BY <1>0, RetriesAssumption DEF Request, Messages
  <2>2. queue' \in [Messages -> Nat]
    BY <1>6, <2>1 DEF Publish, TypeOK
  <2>3. [request[q] EXCEPT !.events = @ \ {r}] \in Request
    BY <1>0 DEF Request
  <2>5. request' \in [Requests -> Request]
    BY <1>0, <1>6, <2>3 DEF Publish, TypeOK
  <2> QED BY <1>6, <2>2, <2>5 DEF Publish, TypeOK
<1> QED BY <1>1, <1>2, <1>3, <1>4, <1>5, <1>6 DEF RequestStep

(* One await of a delivery, however it ends, keeps every variable's type. *)
LEMMA HandlerStepType ==
  ASSUME TypeOK, NEW h \in Handlers, HandlerStep(h)
  PROVE  TypeOK'
<1> USE DEF HandlerOnly, Undisturbed, accounts, RowOf, Exists
<1>0. handler[h] \in Delivery /\ RowOf(h) \in Rows /\ handler[h].msg \in Messages
      /\ handler[h].target \in Statuses
  BY DEF TypeOK, Delivery, Messages
<1>d. ASSUME NEW k, Disturb(k)
      PROVE disturbances' \in 0..MaxDisturbances /\ abandoned' \subseteq {"request", "account", "order"}
  BY <1>d, DisturbType
<1>1. CASE LoadRow(h)
  BY <1>1, MoveType DEF LoadRow, TypeOK
<1>2. CASE FindAccount(h)
  BY <1>0, <1>2 DEF FindAccount, TypeOK, Delivery
<1>3. CASE ReadFails(h)
  BY <1>3, <1>d, MoveType DEF ReadFails, TypeOK
<1>4. CASE EnforceRateLimit(h)
  BY <1>4, MoveType DEF EnforceRateLimit, TypeOK
<1>5. CASE RateLimitExceeded(h)
  BY <1>5, <1>d, MoveType DEF RateLimitExceeded, TypeOK
<1>6. CASE RequireToken(h)
  BY <1>6, MoveType DEF RequireToken, TypeOK
<1>7. CASE RefreshFails(h)
  BY <1>0, <1>7, <1>d, MoveType DEF RefreshFails, TypeOK
<1>8. CASE CallPlatform(h)
  BY <1>0, <1>8, MoveType DEF CallPlatform, Obey, TypeOK
<1>9. CASE CallRefused(h)
  BY <1>9, <1>d, MoveType DEF CallRefused, TypeOK
<1>10. CASE CallAnswerLost(h)
  BY <1>0, <1>10, <1>d, MoveType DEF CallAnswerLost, Obey, TypeOK
<1>11. CASE ReconcileRead(h)
  <2> DEFINE target == ReconcileTarget(uacm, {status[r] : r \in Rows})
  <2>1. handler' \in [Handlers -> Delivery]
    <3>1. CASE Exists /\ target # uacm
      <4>1. target \in Statuses
        BY <3>1, TargetType DEF TypeOK
      <4> QED BY <1>0, <1>11, <3>1, <4>1 DEF ReconcileRead, TypeOK, Delivery
    <3>2. CASE ~(Exists /\ target # uacm)
      BY <1>11, <3>2, MoveType DEF ReconcileRead, AfterReconcile
    <3> QED BY <3>1, <3>2
  <2> QED BY <1>11, <2>1 DEF ReconcileRead, TypeOK
<1>12. CASE ReconcileWrite(h)
  <2>1. handler' \in [Handlers -> Delivery]
    BY <1>0, <1>12 DEF ReconcileWrite, TypeOK, Delivery, AfterReconcile, Statuses
  <2> QED BY <1>0, <1>12, <2>1 DEF ReconcileWrite, TypeOK
<1>13. CASE ReconcileFails(h)
  <2>1. handler' \in [Handlers -> Delivery]
    BY <1>0, <1>13 DEF ReconcileFails, TypeOK, Delivery, AfterReconcile, Statuses
  <2>2. disturbances' \in 0..MaxDisturbances /\ abandoned' \subseteq {"request", "account", "order"}
    BY <1>13, <1>d DEF ReconcileFails
  <2> QED BY <1>13, <2>1, <2>2 DEF ReconcileFails, TypeOK
<1>14. CASE SettleRetry(h)
  <2>1. handler[h].msg.attempt \in 1..MaxRetries /\ handler[h].msg.attempt + 1 <= MaxRetries
    BY <1>0, <1>14, RetriesAssumption DEF SettleRetry, Exhausted, Messages
  <2>2. [handler[h].msg EXCEPT !.attempt = @ + 1] \in Messages
    BY <1>0, <2>1, RetriesAssumption DEF Messages
  <2>3. queue' \in [Messages -> Nat]
    BY <1>14, <2>2 DEF SettleRetry, TypeOK
  <2> QED BY <1>14, <2>3, MoveType DEF SettleRetry, TypeOK
<1>15. CASE SettleDead(h)
  BY <1>0, <1>15, MoveType DEF SettleDead, TypeOK
<1>16. CASE Ack(h)
  BY <1>16, IdleType DEF Ack, TypeOK
<1> QED
  BY <1>1, <1>2, <1>3, <1>4, <1>5, <1>6, <1>7, <1>8, <1>9, <1>10, <1>11, <1>12, <1>13,
     <1>14, <1>15, <1>16
  DEF HandlerStep

(* Every step of the system keeps every variable's type. *)
LEMMA TypeStep == TypeOK /\ [Next]_vars => TypeOK'
<1> SUFFICES ASSUME TypeOK, [Next]_vars PROVE TypeOK'
  OBVIOUS
<1> USE DEF Undisturbed, accounts, Exists
<1>d. ASSUME NEW k, Disturb(k)
      PROVE disturbances' \in 0..MaxDisturbances /\ abandoned' \subseteq {"request", "account", "order"}
  BY <1>d, DisturbType
<1>1. ASSUME NEW q \in Requests, RequestStep(q) \/ (\E kind \in Kinds : Read(q, kind))
      PROVE  TypeOK'
  BY <1>1, RequestStepType
<1>2. ASSUME NEW h \in Handlers, HandlerStep(h) PROVE TypeOK'
  BY <1>2, HandlerStepType
<1>3. ASSUME NEW h \in Handlers, NEW m \in Messages, Deliver(h, m) PROVE TypeOK'
  <2>1. [Idle EXCEPT !.pc = "load", !.msg = m] \in Delivery
    BY IdleType DEF Delivery
  <2> QED BY <1>3, <2>1 DEF Deliver, TypeOK
<1>4. ASSUME NEW r \in Rows, Disconnect(r) PROVE TypeOK'
  BY <1>4, <1>d DEF Disconnect, TypeOK
<1>5. ASSUME NEW r \in Rows, DisconnectPauses(r) PROVE TypeOK'
  BY <1>5 DEF DisconnectPauses, TypeOK, Statuses
<1>6. CASE Crash
  <2>1. \A S \in SUBSET Handlers : Cardinality(S) \in Nat
    BY ActorsAssumption, FS_Subset, FS_CardinalityType
  <2>2. queue' \in [Messages -> Nat]
    BY <1>6, <2>1 DEF Crash, TypeOK
  <2> QED BY <1>6, <1>d, <2>2, IdleType DEF Crash, TypeOK
<1>7. CASE Remove
  BY <1>7, <1>d DEF Remove, TypeOK
<1>8. CASE UNCHANGED vars
  BY <1>8 DEF vars, TypeOK
<1> QED
  BY <1>1, <1>2, <1>3, <1>4, <1>5, <1>6, <1>7, <1>8 DEF Next, DeliverAny

(* The campaign as creation leaves it is well typed. *)
LEMMA InitType == Init => TypeOK
<1> SUFFICES ASSUME Init PROVE TypeOK
  OBVIOUS
<1>1. /\ uacm \in Statuses \cup {"DELETED"} /\ status \in [Rows -> Statuses]
      /\ created \subseteq Rows /\ account \in [Rows -> {"usable", "unusable"}]
      /\ disconnecting \subseteq Rows /\ running \in [Rows -> {"on", "off", "created"}]
  BY AtFirstAssumption DEF Init, Statuses
<1>2. /\ request \in [Requests -> Request] /\ queue \in [Messages -> Nat]
      /\ dead \subseteq Rows /\ handler \in [Handlers -> Delivery]
  BY IdleType DEF Init
<1>3. issued \in 0..MaxRequests /\ disturbances \in 0..MaxDisturbances
  BY BoundsAssumption DEF Init
<1>4. abandoned \subseteq {"request", "account", "order"}
  BY DEF Init
<1> QED BY <1>1, <1>2, <1>3, <1>4 DEF TypeOK

(* Type correctness of pausing and resuming in every reachable state. *)
THEOREM TypeCorrect == Spec => []TypeOK
BY InitType, TypeStep, PTL DEF Spec

-----------------------------------------------------------------------------
(* The parent is honest                                                    *)

(* A reconcile that finds the rows agreeing with the parent keeps it. *)
LEMMA NothingToDecide ==
  ASSUME RowsAgree, Exists
  PROVE  ReconcileTarget(uacm, {status[r] : r \in Rows}) = uacm
<1> DEFINE S == {status[r] : r \in Rows}
<1>1. PICK r \in created : r \in Rows /\ status[r] = uacm
  BY DEF RowsAgree
<1>2. uacm \in S
  BY <1>1
<1>3. CASE uacm = "ACTIVE"
  BY <1>2, <1>3 DEF ReconcileTarget
<1>4. CASE uacm = "PAUSED"
  <2>1. "ACTIVE" \notin S
    BY <1>4 DEF RowsAgree
  <2>2. ASSUME NEW s \in Statuses, S = {s} PROVE s = uacm
    BY <1>2, <2>2
  <2> QED BY <1>4, <2>1, <2>2 DEF ReconcileTarget, Statuses
<1> QED BY <1>3, <1>4 DEF RowsAgree

(* What a request has read stays as it is until the request ends. *)
LEMMA ReadsKept ==
  ASSUME ReadsAgree, created' = created,
         \A q \in Requests :
           \/ request'[q].pc = "idle"
           \/ /\ request[q].pc # "idle"
              /\ request'[q].kind = request[q].kind
              /\ request'[q].parent = request[q].parent
              /\ request'[q].rows = request[q].rows
  PROVE  ReadsAgree'
<1> SUFFICES ASSUME NEW q \in Requests, request'[q].pc # "idle"
             PROVE  /\ request'[q].kind \in Kinds /\ request'[q].parent = From(request'[q].kind)
                    /\ \A r \in created : request'[q].rows[r] = request'[q].parent
                    /\ \A r \in Rows \ created : request'[q].rows[r] \in {"PENDING", "ERROR"}
  BY DEF ReadsAgree
<1> QED BY DEF ReadsAgree

(* One step of a request keeps the rows, the parent and every request's    *)
(* reading in agreement.                                                   *)
LEMMA RequestStepKeepsAgree ==
  ASSUME TypeOK, Agree, NEW q \in Requests,
         RequestStep(q) \/ (\E kind \in Kinds : Read(q, kind))
  PROVE  Agree'
<1> USE DEF RequestOnly, accounts, Exists
<1>0. created' = created /\ disconnecting' = disconnecting /\ handler' = handler
  BY DEF RequestStep, Read, Commit, Abort, Rollback, PublishFails, Publish
<1>1. NothingToRepair'
  BY <1>0 DEF Agree, NothingToRepair
<1>2. RowsAgree /\ ReadsAgree /\ NoRequest.pc = "idle"
  BY DEF Agree, NoRequest
<1>3. ASSUME NEW kind \in Kinds, Read(q, kind) PROVE RowsAgree' /\ ReadsAgree'
  <2>1. RowsAgree'
    BY <1>2, <1>3 DEF Read, RowsAgree
  <2>2. Exists
    BY <1>3 DEF Read, From
  <2>3. ReadsAgree'
    BY <1>2, <1>3, <2>2 DEF Read, ReadsAgree, RowsAgree, TypeOK
  <2> QED BY <2>1, <2>3
<1>4. CASE Commit(q)
  <2> DEFINE kind == request[q].kind
  <2>1. /\ kind \in Kinds
        /\ \A r \in created : request[q].rows[r] = From(kind)
        /\ \A r \in Rows \ created : request[q].rows[r] \in {"PENDING", "ERROR"}
    BY <1>2, <1>4 DEF Commit, ReadsAgree
  <2>2. \A r \in Rows : request[q].rows[r] = From(kind) <=> r \in created
    BY <2>1 DEF From
  <2>3. status' = [r \in Rows |-> IF r \in created THEN To(kind) ELSE status[r]]
    BY <1>4, <2>2 DEF Commit
  <2>4. uacm' = To(kind) /\ uacm' \in {"ACTIVE", "PAUSED"}
    BY <1>4 DEF Commit, To
  <2>5. RowsAgree'
    BY <1>0, <1>2, <1>4, <2>3, <2>4 DEF RowsAgree, Commit
  <2>9. ReadsAgree'
    BY <1>0, <1>2, <1>4, ReadsKept DEF Commit, TypeOK
  <2> QED BY <1>1, <2>5, <2>9 DEF Agree
<1>5. CASE Abort(q)
  <2>1. RowsAgree'
    BY <1>2, <1>5 DEF Abort, RowsAgree
  <2>2. ReadsAgree'
    BY <1>0, <1>2, <1>5, ReadsKept DEF Abort, TypeOK
  <2> QED BY <1>1, <2>1, <2>2 DEF Agree
<1>6. CASE Rollback(q)
  <2>1. request[q].pc # "idle" /\ uacm' = request[q].parent /\ status' = request[q].rows
    BY <1>6 DEF Rollback
  <2>2. RowsAgree'
    BY <1>0, <1>2, <2>1 DEF RowsAgree, ReadsAgree, From
  <2>3. ReadsAgree'
    BY <1>0, <1>2, <1>6, ReadsKept DEF Rollback, TypeOK
  <2> QED BY <1>1, <2>2, <2>3 DEF Agree
<1>7. CASE PublishFails(q)
  <2>1. RowsAgree'
    BY <1>2, <1>7 DEF PublishFails, RowsAgree
  <2>2. ReadsAgree'
    BY <1>0, <1>2, <1>7, ReadsKept DEF PublishFails, TypeOK
  <2> QED BY <1>1, <2>1, <2>2 DEF Agree
<1>8. ASSUME NEW r \in Rows, Publish(q, r) PROVE RowsAgree' /\ ReadsAgree'
  <2>1. RowsAgree'
    BY <1>2, <1>8 DEF Publish, RowsAgree
  <2>4. ReadsAgree'
    BY <1>0, <1>2, <1>8, ReadsKept DEF Publish, TypeOK
  <2> QED BY <2>1, <2>4
<1> QED BY <1>1, <1>3, <1>4, <1>5, <1>6, <1>7, <1>8 DEF RequestStep, Agree

(* A delivery finds nothing to repair in the parent, so it leaves the rows *)
(* and the parent alone.                                                   *)
LEMMA HandlerStepKeepsAgree ==
  ASSUME TypeOK, Agree, NEW h \in Handlers, HandlerStep(h)
  PROVE  Agree'
<1> USE DEF HandlerOnly, accounts
<1>0. RowsAgree /\ ReadsAgree /\ NothingToRepair /\ ~ReconcileWrite(h)
  BY DEF Agree, NothingToRepair, ReconcileWrite
<1>1. UNCHANGED <<uacm, status, created, disconnecting, request>>
  BY <1>0
  DEF HandlerStep, LoadRow, FindAccount, ReadFails, EnforceRateLimit, RateLimitExceeded,
      RequireToken, RefreshFails, CallPlatform, CallRefused, CallAnswerLost, ReconcileRead,
      ReconcileFails, SettleRetry, SettleDead, Ack
<1>2. RowsAgree' /\ ReadsAgree'
  BY <1>0, <1>1 DEF RowsAgree, ReadsAgree, Exists
<1>3. \A k \in Handlers \ {h} : handler'[k] = handler[k]
  BY DEF HandlerStep, LoadRow, FindAccount, ReadFails, EnforceRateLimit, RateLimitExceeded,
      RequireToken, RefreshFails, CallPlatform, CallRefused, CallAnswerLost, ReconcileRead,
      ReconcileWrite, ReconcileFails, SettleRetry, SettleDead, Ack, Goto, Fail, TypeOK
<1>4. handler'[h].pc # "write"
  <2>1. CASE ReconcileRead(h)
    <3>1. handler' = [handler EXCEPT ![h].pc = AfterReconcile(h)]
      BY <1>0, <2>1, NothingToDecide DEF ReconcileRead, Goto
    <3> QED BY <3>1 DEF AfterReconcile, TypeOK, Delivery
  <2>2. CASE ~ReconcileRead(h)
    BY <1>0, <2>2, IdleType
    DEF HandlerStep, LoadRow, FindAccount, ReadFails, EnforceRateLimit, RateLimitExceeded,
        RequireToken, RefreshFails, CallPlatform, CallRefused, CallAnswerLost,
        ReconcileFails, AfterReconcile, SettleRetry, SettleDead, Ack, Goto, Fail, Idle, TypeOK,
        Delivery
  <2> QED BY <2>1, <2>2
<1>5. NothingToRepair'
  BY <1>0, <1>3, <1>4 DEF NothingToRepair
<1> QED BY <1>2, <1>5 DEF Agree

(* What was given up stays given up. *)
LEMMA AbandonedGrows == [Next]_vars => abandoned \subseteq abandoned'
<1> SUFFICES ASSUME [Next]_vars PROVE abandoned \subseteq abandoned'
  OBVIOUS
<1> USE DEF Disturb, Undisturbed
<1>1. ASSUME NEW q \in Requests, RequestStep(q) \/ (\E kind \in Kinds : Read(q, kind))
      PROVE  abandoned \subseteq abandoned'
  BY <1>1 DEF RequestStep, Read, Commit, Abort, Rollback, PublishFails, Publish
<1>2. ASSUME NEW h \in Handlers, HandlerStep(h) PROVE abandoned \subseteq abandoned'
  BY <1>2
  DEF HandlerStep, LoadRow, FindAccount, ReadFails, EnforceRateLimit, RateLimitExceeded,
      RequireToken, RefreshFails, CallPlatform, CallRefused, CallAnswerLost, ReconcileRead,
      ReconcileWrite, ReconcileFails, SettleRetry, SettleDead, Ack
<1>3. CASE DeliverAny
  BY <1>3 DEF DeliverAny, Deliver
<1>4. ASSUME NEW r \in Rows, Disconnect(r) \/ DisconnectPauses(r)
      PROVE  abandoned \subseteq abandoned'
  BY <1>4 DEF Disconnect, DisconnectPauses
<1>5. CASE Crash \/ Remove
  BY <1>5 DEF Crash, Remove
<1>6. CASE UNCHANGED vars
  BY <1>6 DEF vars
<1> QED BY <1>1, <1>2, <1>3, <1>4, <1>5, <1>6 DEF Next

(* Every step keeps the agreement, until an account is disconnected. *)
LEMMA AgreeStep == TypeOK /\ AgreeInv /\ [Next]_vars => AgreeInv'
<1> SUFFICES ASSUME TypeOK, AgreeInv, [Next]_vars, "account" \notin abandoned'
             PROVE  Agree'
  BY DEF AgreeInv
<1> USE DEF accounts
<1>0. Agree /\ RowsAgree /\ ReadsAgree /\ NothingToRepair
  BY AbandonedGrows DEF AgreeInv, Agree
<1>1. ASSUME NEW q \in Requests, RequestStep(q) \/ (\E kind \in Kinds : Read(q, kind))
      PROVE  Agree'
  BY <1>0, <1>1, RequestStepKeepsAgree
<1>2. ASSUME NEW h \in Handlers, HandlerStep(h) PROVE Agree'
  BY <1>0, <1>2, HandlerStepKeepsAgree
<1>3. ASSUME NEW h \in Handlers, NEW m \in Messages, Deliver(h, m) PROVE Agree'
  BY <1>0, <1>3
  DEF Deliver, Agree, RowsAgree, ReadsAgree, NothingToRepair, Exists, Idle, TypeOK
<1>4. ASSUME NEW r \in Rows PROVE ~Disconnect(r) /\ ~DisconnectPauses(r)
  BY <1>0 DEF Disconnect, Disturb, Abandons, DisconnectPauses, RowsAgree
<1>5. CASE Crash
  BY <1>0, <1>5
  DEF Crash, Agree, RowsAgree, ReadsAgree, NothingToRepair, Exists, Idle, NoRequest
<1>6. CASE Remove
  BY <1>0, <1>6 DEF Remove, Agree, RowsAgree, ReadsAgree, NothingToRepair, Exists
<1>7. CASE UNCHANGED vars
  BY <1>0, <1>7 DEF vars, Agree, RowsAgree, ReadsAgree, NothingToRepair, Exists
<1> QED
  BY <1>1, <1>2, <1>3, <1>4, <1>5, <1>6, <1>7 DEF Next, DeliverAny

(* The campaign as creation leaves it agrees with its parent. *)
LEMMA AgreeInit == Init => AgreeInv
<1> SUFFICES ASSUME Init PROVE Agree
  BY DEF AgreeInv
<1>1. RowsAgree
  BY DEF Init, RowsAgree, Statuses
<1>2. ReadsAgree /\ NothingToRepair
  BY DEF Init, ReadsAgree, NothingToRepair, NoRequest, Idle
<1> QED BY <1>1, <1>2 DEF Agree

(* However pauses, resumes and their rollbacks overlap, and whatever fails *)
(* or crashes, the parent's status is the one its rows show, until an      *)
(* account is disconnected.                                                *)
THEOREM ParentHonest == Spec => []ParentIsHonest
<1>1. AgreeInv => ParentIsHonest
  BY DEF AgreeInv, Agree, RowsAgree, ParentIsHonest, Exists
<1> QED BY <1>1, AgreeStep, AgreeInit, TypeCorrect, PTL DEF Spec

-----------------------------------------------------------------------------
(* The platform follows                                                    *)

(* What an await does to a delivery, without an error ...                  *)
LEMMA GotoEffect ==
  ASSUME TypeOK, NEW h \in Handlers, NEW pc, Goto(h, pc)
  PROVE  /\ handler'[h].pc = pc /\ handler'[h].outcome = handler[h].outcome
         /\ handler'[h].msg = handler[h].msg
         /\ \A k \in Handlers \ {h} : handler'[k] = handler[k]
BY DEF Goto, TypeOK, Delivery

(* ... and with one.                                                       *)
LEMMA FailEffect ==
  ASSUME TypeOK, NEW h \in Handlers, NEW pc, NEW o, Fail(h, pc, o)
  PROVE  /\ handler'[h].pc = pc /\ handler'[h].outcome = o
         /\ handler'[h].msg = handler[h].msg
         /\ \A k \in Handlers \ {h} : handler'[k] = handler[k]
BY DEF Fail, TypeOK, Delivery

(* One await of a delivery leaves requests, rows and the other deliveries  *)
(* alone; it may publish its message again, and touch its own row's        *)
(* campaign.                                                               *)
LEMMA HandlerStepMoves ==
  ASSUME TypeOK, TypeOK', NEW h \in Handlers, HandlerStep(h)
  PROVE  /\ \A k \in Handlers \ {h} : handler'[k] = handler[k]
         /\ Ack(h) \/ handler'[h].msg = handler[h].msg
         /\ handler[h].pc # "idle" /\ RowOf(h) \in Rows
         /\ handler[h].msg \in Messages
         /\ request' = request /\ created' = created /\ status' = status
         /\ \A m \in Messages : queue[m] > 0 => queue'[m] > 0
         /\ \A m \in Messages : queue'[m] > 0 =>
              queue[m] > 0 \/ (m.row = RowOf(h) /\ m.kind = handler[h].msg.kind)
         /\ \A r \in Rows \ {RowOf(h)} :
              running'[r] = running[r] /\ (r \in dead' <=> r \in dead)
<1> USE DEF HandlerOnly
<1>0. handler[h] \in Delivery /\ RowOf(h) \in Rows /\ handler[h].msg \in Messages
  BY DEF TypeOK, RowOf, Delivery, Messages
<1>1. CASE \/ LoadRow(h) \/ EnforceRateLimit(h) \/ ReadFails(h) \/ RateLimitExceeded(h)
           \/ CallRefused(h)
  BY <1>0, <1>1, GotoEffect, FailEffect
  DEF LoadRow, EnforceRateLimit, ReadFails, RateLimitExceeded, CallRefused
<1>2. CASE FindAccount(h)
  BY <1>0, <1>2 DEF FindAccount, TypeOK, Delivery
<1>3. CASE RequireToken(h) \/ RefreshFails(h)
  BY <1>0, <1>3, GotoEffect, FailEffect DEF RequireToken, RefreshFails
<1>4. CASE CallPlatform(h) \/ CallAnswerLost(h)
  BY <1>0, <1>4, GotoEffect, FailEffect DEF CallPlatform, CallAnswerLost, Obey, TypeOK
<1>5. CASE ReconcileRead(h) \/ ReconcileWrite(h) \/ ReconcileFails(h)
  BY <1>0, <1>5, GotoEffect
  DEF ReconcileRead, ReconcileWrite, ReconcileFails, TypeOK, Delivery
<1>6. CASE SettleDead(h)
  BY <1>0, <1>6, GotoEffect DEF SettleDead
<1>7. CASE Ack(h)
  BY <1>0, <1>7 DEF Ack, TypeOK
<1>8. CASE SettleRetry(h)
  <2> DEFINE next == [handler[h].msg EXCEPT !.attempt = @ + 1]
  <2>1. next.row = RowOf(h) /\ next.kind = handler[h].msg.kind
    BY <1>0 DEF RowOf, Messages
  <2>2. queue' = [queue EXCEPT ![next] = @ + 1]
    BY <1>8 DEF SettleRetry
  <2> HIDE DEF next
  <2>3. /\ \A m \in Messages : queue[m] > 0 => queue'[m] > 0
        /\ \A m \in Messages : m # next => queue'[m] = queue[m]
    BY <2>2 DEF TypeOK
  <2> QED BY <1>0, <1>8, <2>1, <2>3, GotoEffect DEF SettleRetry
<1> QED
  BY <1>1, <1>2, <1>3, <1>4, <1>5, <1>6, <1>7, <1>8 DEF HandlerStep

(* Steps that leave the rows to the requests that own them.  A row whose   *)
(* campaign they touch has a message, and no row is left without one that  *)
(* the platform does not follow.                                           *)
LEMMA FollowKept ==
  ASSUME TypeOK, Following, created' = created, status' = status,
         \/ request' = request
         \/ \A q \in Requests :
              request'[q].pc = "idle" /\ \A r \in Rows : ~Owes(q, r),
         \A m \in Busy' : \E n \in Busy : n.row = m.row /\ n.kind = m.kind,
         \A r \in Rows : \/ running'[r] = running[r] /\ (r \in dead' <=> r \in dead)
                         \/ \E n \in Busy : n.row = r,
         \A r \in Rows : \/ r \in dead' \/ Follows(status[r], r)' \/ Awaited(r)'
                         \/ ~Awaited(r) /\ running'[r] = running[r] /\ r \notin dead
  PROVE  Following'
<1>0. OneRequest /\ MessagesAgree /\ RequestOwns /\ RowsFollow
  BY DEF Following
<1>1. OneRequest'
  BY <1>0 DEF OneRequest
<1>2. MessagesAgree'
  BY <1>0 DEF MessagesAgree
<1>3. ASSUME NEW q \in Requests, request' = request
      PROVE  /\ request[q].pc \in {"commit", "rollback"} => Busy' = {}
             /\ request[q].pc = "commit" => request[q].rows = status'
             /\ request[q].pc = "publish" =>
                  /\ request[q].events \subseteq created'
                  /\ \A r \in request[q].events : status'[r] = To(request[q].kind)
                  /\ \A m \in Busy' : m.row \notin request[q].events
             /\ \A r \in created' \ dead' : Owes(q, r)' => Follows(request[q].rows[r], r)'
  <2>1. request[q].pc \in {"commit", "rollback"} => Busy' = {}
    BY <1>0 DEF RequestOwns
  <2>2. request[q].pc = "publish" => \A m \in Busy' : m.row \notin request[q].events
    BY <1>0 DEF RequestOwns
  <2>3. ASSUME NEW r \in created', r \notin dead', Owes(q, r)'
        PROVE  Follows(request[q].rows[r], r)'
    <3>1. Owes(q, r)
      BY <1>3, <2>3 DEF Owes
    <3>2. ~\E n \in Busy : n.row = r
      BY <1>0, <3>1 DEF Owes, RequestOwns
    <3>3. running'[r] = running[r] /\ r \notin dead /\ r \in Rows
      BY <2>3, <3>2 DEF TypeOK
    <3>4. Follows(request[q].rows[r], r)
      BY <1>0, <2>3, <3>1, <3>3 DEF RequestOwns
    <3> QED BY <1>3, <3>3, <3>4 DEF Follows
  <2> QED BY <1>0, <2>1, <2>2, <2>3 DEF RequestOwns
<1>4. RequestOwns'
  <2>1. CASE request' = request
    BY <1>3, <2>1 DEF RequestOwns
  <2>2. CASE request' # request
    BY <2>2 DEF RequestOwns, Owes
  <2> QED BY <2>1, <2>2
<1>5. RowsFollow'
  <2> SUFFICES ASSUME NEW r \in created, r \notin dead', ~Follows(status[r], r)', ~Awaited(r)'
               PROVE  \E q \in Requests : Owes(q, r)'
    BY DEF RowsFollow
  <2>1. ~Awaited(r) /\ running'[r] = running[r] /\ r \notin dead /\ r \in Rows
    BY DEF TypeOK
  <2>2. ~Follows(status[r], r)
    BY <2>1 DEF Follows
  <2>3. PICK q \in Requests : Owes(q, r)
    BY <1>0, <2>1, <2>2 DEF RowsFollow
  <2>4. request' = request
    BY <2>1, <2>3
  <2> QED BY <2>3, <2>4 DEF Owes
<1> QED BY <1>1, <1>2, <1>4, <1>5 DEF Following

(* So one await of a delivery keeps the invariant when it leaves its row   *)
(* awaited, dead-lettered or followed, or had nothing to do with it.       *)
LEMMA MoveKeepsFollowing ==
  ASSUME TypeOK, TypeOK', Following, NEW h \in Handlers, HandlerStep(h),
         NEW row \in Rows, row = RowOf(h),
         \/ Unsettled(handler'[h])
         \/ \E m \in Messages : m.row = row /\ queue'[m] > 0
         \/ row \in dead'
         \/ Follows(status[row], row)'
         \/ ~Unsettled(handler[h]) /\ running' = running /\ dead' = dead
  PROVE  Following'
<1>0. /\ \A k \in Handlers \ {h} : handler'[k] = handler[k]
      /\ Ack(h) \/ handler'[h].msg = handler[h].msg
      /\ handler[h].pc # "idle" /\ row \in Rows /\ handler[h].msg \in Messages
      /\ request' = request /\ created' = created /\ status' = status
      /\ \A m \in Messages : queue[m] > 0 => queue'[m] > 0
      /\ \A m \in Messages : queue'[m] > 0 =>
           queue[m] > 0 \/ (m.row = row /\ m.kind = handler[h].msg.kind)
      /\ \A r \in Rows \ {row} : running'[r] = running[r] /\ (r \in dead' <=> r \in dead)
  BY HandlerStepMoves
<1>1. handler'[h].pc # "idle" => handler'[h].msg = handler[h].msg
  BY <1>0 DEF Ack, Idle, TypeOK
<1>2. handler[h].msg \in Busy
  BY <1>0 DEF Busy
<1>3. ASSUME NEW m \in Busy'
      PROVE  \E n \in Busy : n.row = m.row /\ n.kind = m.kind
  <2>1. m \in Messages
    BY DEF Busy
  <2>2. CASE queue'[m] > 0
    BY <1>0, <1>2, <2>1, <2>2 DEF Busy, RowOf
  <2>3. CASE \E k \in Handlers : handler'[k].pc # "idle" /\ handler'[k].msg = m
    <3>1. PICK k \in Handlers : handler'[k].pc # "idle" /\ handler'[k].msg = m
      BY <2>3
    <3>2. handler[k].pc # "idle" /\ handler[k].msg = m
      BY <1>0, <1>1, <3>1
    <3> QED BY <2>1, <3>2 DEF Busy
  <2> QED BY <2>2, <2>3 DEF Busy
<1>4. \A r \in Rows : \/ running'[r] = running[r] /\ (r \in dead' <=> r \in dead)
                      \/ \E n \in Busy : n.row = r
  BY <1>0, <1>2 DEF RowOf
<1>5. ASSUME NEW r \in Rows
      PROVE  \/ r \in dead' \/ Follows(status[r], r)' \/ Awaited(r)'
             \/ ~Awaited(r) /\ running'[r] = running[r] /\ r \notin dead
  <2>1. CASE r # row
    <3>1. Awaited(r) => Awaited(r)'
      BY <1>0, <2>1 DEF Awaited, RowOf
    <3> QED BY <1>0, <2>1, <3>1
  <2>2. CASE r = row
    <3>1. Unsettled(handler'[h]) => Awaited(r)'
      BY <1>0, <1>1, <2>2 DEF Awaited, RowOf, Unsettled
    <3>2. (\E m \in Messages : m.row = row /\ queue'[m] > 0) => Awaited(r)'
      BY <2>2 DEF Awaited
    <3>3. ~Unsettled(handler[h]) /\ running' = running /\ dead' = dead
            => \/ r \in dead' \/ Awaited(r)'
               \/ ~Awaited(r) /\ running'[r] = running[r] /\ r \notin dead
      BY <1>0 DEF Awaited, RowOf
    <3> QED BY <2>2, <3>1, <3>2, <3>3
  <2> QED BY <2>1, <2>2
<1> QED BY <1>0, <1>3, <1>4, <1>5, FollowKept

(* Every await of a delivery does one of these.                            *)
LEMMA HandlerStepKeepsFollowing ==
  ASSUME TypeOK, TypeOK', Exists, Following, NEW h \in Handlers, HandlerStep(h)
  PROVE  Following'
<1> USE DEF HandlerOnly
<1>0. handler[h] \in Delivery /\ RowOf(h) \in Rows /\ handler[h].msg \in Messages
  BY DEF TypeOK, RowOf, Delivery, Messages
<1> SUFFICES ASSUME NEW row \in Rows, row = RowOf(h) PROVE Following'
  BY <1>0
<1>1. row \in created /\ status[row] = To(handler[h].msg.kind)
  <2>1. handler[h].msg \in Busy
    BY <1>0, HandlerStepMoves DEF Busy
  <2> QED BY <2>1 DEF Following, MessagesAgree, RowOf
<1>2. CASE LoadRow(h)
  <2>1. handler'[h].pc = "account"
    BY <1>1, <1>2, GotoEffect DEF LoadRow
  <2> QED BY <2>1, MoveKeepsFollowing DEF Unsettled
<1>3. CASE FindAccount(h) \/ EnforceRateLimit(h)
  <2>1. handler'[h].pc \in {"limit", "token"}
    BY <1>0, <1>3, GotoEffect DEF FindAccount, EnforceRateLimit, TypeOK, Delivery
  <2> QED BY <2>1, MoveKeepsFollowing DEF Unsettled
<1>4. CASE ReadFails(h) \/ RateLimitExceeded(h) \/ RefreshFails(h) \/ CallRefused(h)
           \/ CallAnswerLost(h)
  <2>1. handler'[h].pc \in {"reconcile", "settle"} /\ handler'[h].outcome # "ok"
    BY <1>4, FailEffect
    DEF ReadFails, RateLimitExceeded, RefreshFails, CallRefused, CallAnswerLost
  <2> QED BY <2>1, MoveKeepsFollowing DEF Unsettled
<1>5. CASE RequireToken(h)
  <2>1. \/ handler'[h].pc = "call"
        \/ handler'[h].pc = "reconcile" /\ handler'[h].outcome # "ok"
    BY <1>5, GotoEffect, FailEffect DEF RequireToken
  <2> QED BY <2>1, MoveKeepsFollowing DEF Unsettled
(* The platform obeys, and the row says what it was told. *)
<1>6. CASE CallPlatform(h)
  <2>1. running'[row] = IF handler[h].msg.kind = "resume" THEN "on" ELSE "off"
    BY <1>0, <1>6 DEF CallPlatform, Obey, TypeOK
  <2>2. status'[row] = To(handler[h].msg.kind) /\ handler[h].msg.kind \in Kinds
    BY <1>0, <1>1, <1>6 DEF CallPlatform, Messages
  <2>3. Follows(status[row], row)'
    BY <2>1, <2>2 DEF Follows, To, Kinds
  <2> QED BY <2>3, MoveKeepsFollowing
<1>7. CASE ReconcileRead(h) \/ ReconcileWrite(h) \/ ReconcileFails(h)
  <2>1. /\ handler[h].pc \in {"reconcile", "write"}
        /\ handler'[h].outcome = handler[h].outcome
        /\ running' = running /\ dead' = dead
    BY <1>0, <1>7, GotoEffect
    DEF ReconcileRead, ReconcileWrite, ReconcileFails, TypeOK, Delivery
  <2>2. handler[h].outcome # "ok" => handler'[h].pc \in {"write", "settle"}
    BY <1>0, <1>7, GotoEffect
    DEF ReconcileRead, ReconcileWrite, ReconcileFails, AfterReconcile, TypeOK, Delivery
  <2>3. Unsettled(handler[h]) => Unsettled(handler'[h])
    BY <2>1, <2>2 DEF Unsettled
  <2> QED BY <2>1, <2>3, MoveKeepsFollowing
<1>8. CASE SettleRetry(h)
  <2> DEFINE next == [handler[h].msg EXCEPT !.attempt = @ + 1]
  <2>1. next \in Messages /\ next.row = row
    BY <1>0, <1>8, RetriesAssumption DEF SettleRetry, Exhausted, Messages, RowOf
  <2>2. queue'[next] > 0
    BY <1>8, <2>1 DEF SettleRetry, TypeOK
  <2> HIDE DEF next
  <2> QED BY <2>1, <2>2, MoveKeepsFollowing
<1>9. CASE SettleDead(h)
  <2>1. row \in dead'
    BY <1>9 DEF SettleDead
  <2> QED BY <2>1, MoveKeepsFollowing
<1>10. CASE Ack(h)
  <2>1. ~Unsettled(handler[h]) /\ running' = running /\ dead' = dead
    BY <1>10 DEF Ack, Unsettled
  <2> QED BY <2>1, MoveKeepsFollowing
<1> QED
  BY <1>2, <1>3, <1>4, <1>5, <1>6, <1>7, <1>8, <1>9, <1>10 DEF HandlerStep

(* A delivery is awaited as its message was.                               *)
LEMMA DeliverKeepsFollowing ==
  ASSUME TypeOK, Following, NEW h \in Handlers, NEW m \in Messages, Deliver(h, m)
  PROVE  Following'
<1>1. /\ handler[h].pc = "idle" /\ handler'[h].pc = "load" /\ handler'[h].msg = m
      /\ \A k \in Handlers \ {h} : handler'[k] = handler[k]
      /\ \A n \in Messages \ {m} : queue'[n] = queue[n]
      /\ queue[m] > 0
      /\ request' = request /\ created' = created /\ status' = status
      /\ running' = running /\ dead' = dead
  BY DEF Deliver, TypeOK, Idle
<1>2. Busy' \subseteq Busy
  BY <1>1 DEF Busy
<1>3. \A r \in Rows : Awaited(r) => Awaited(r)'
  <2> SUFFICES ASSUME NEW r \in Rows, Awaited(r) PROVE Awaited(r)'
    OBVIOUS
  <2>1. CASE r = m.row
    BY <1>1, <2>1 DEF Awaited, RowOf, Unsettled
  <2>2. CASE r # m.row
    <3>1. CASE \E n \in Messages : n.row = r /\ queue[n] > 0
      BY <1>1, <2>2, <3>1 DEF Awaited
    <3>2. CASE \E k \in Handlers : RowOf(k) = r /\ Unsettled(handler[k])
      <4>1. PICK k \in Handlers : RowOf(k) = r /\ Unsettled(handler[k])
        BY <3>2
      <4>2. handler'[k] = handler[k]
        BY <1>1, <4>1 DEF Unsettled
      <4> QED BY <4>1, <4>2 DEF Awaited, RowOf
    <3> QED BY <3>1, <3>2 DEF Awaited
  <2> QED BY <2>1, <2>2
<1> QED BY <1>1, <1>2, <1>3, FollowKept

(* A crash that cuts short no publication puts every message back.         *)
LEMMA CrashKeepsFollowing ==
  ASSUME TypeOK, Following, Crash, abandoned' = {}
  PROVE  Following'
<1>1. /\ \A h \in Handlers : handler'[h].pc = "idle"
      /\ \A q \in Requests : request'[q].pc = "idle"
      /\ created' = created /\ status' = status /\ running' = running /\ dead' = dead
  BY DEF Crash, Idle, NoRequest
<1>2. ASSUME NEW q \in Requests, NEW r \in Rows PROVE ~Owes(q, r)
  <2>1. Abandons("crash") = {}
    BY DEF Crash, Disturb
  <2> QED BY <2>1 DEF Abandons, Owes
<1>3. \A m \in Messages : queue'[m] > 0 <=> m \in Busy
  <2> SUFFICES ASSUME NEW m \in Messages PROVE queue'[m] > 0 <=> m \in Busy
    OBVIOUS
  <2> DEFINE S == {h \in Handlers : handler[h].pc # "idle" /\ handler[h].msg = m}
  <2>1. IsFiniteSet(S) /\ Cardinality(S) \in Nat
    BY ActorsAssumption, FS_Subset, FS_CardinalityType
  <2>2. queue[m] \in Nat /\ queue'[m] = queue[m] + Cardinality(S)
    BY DEF Crash, TypeOK
  <2>3. Cardinality(S) = 0 <=> S = {}
    BY <2>1, FS_EmptySet
  <2>4. m \in Busy <=> queue[m] > 0 \/ S # {}
    BY DEF Busy
  <2> HIDE DEF S
  <2> QED BY <2>1, <2>2, <2>3, <2>4
<1>4. Busy' \subseteq Busy
  BY <1>1, <1>3 DEF Busy
<1>5. ASSUME NEW r \in Rows, Awaited(r) PROVE Awaited(r)'
  <2>1. CASE \E n \in Messages : n.row = r /\ queue[n] > 0
    <3>1. PICK n \in Messages : n.row = r /\ queue[n] > 0
      BY <2>1
    <3>2. n \in Busy
      BY <3>1 DEF Busy
    <3> QED BY <1>3, <3>1, <3>2 DEF Awaited
  <2>2. CASE \E k \in Handlers : RowOf(k) = r /\ Unsettled(handler[k])
    <3>1. PICK k \in Handlers : RowOf(k) = r /\ Unsettled(handler[k])
      BY <2>2
    <3>2. handler[k].msg \in Busy /\ handler[k].msg.row = r
      BY <3>1 DEF Busy, RowOf, Unsettled, TypeOK, Delivery
    <3>3. handler[k].msg \in Messages /\ queue'[handler[k].msg] > 0
      BY <1>3, <3>2 DEF Busy
    <3> QED BY <3>2, <3>3 DEF Awaited
  <2> QED BY <1>5, <2>1, <2>2 DEF Awaited
<1> QED BY <1>1, <1>2, <1>4, <1>5, FollowKept

(* A request that waits for the others is sent when all is quiet; one that *)
(* does not is remembered as out of order.                                 *)
LEMMA ReadKeepsFollowing ==
  ASSUME TypeOK, Following, NEW q \in Requests, NEW kind \in Kinds, Read(q, kind),
         abandoned' = {}
  PROVE  Following'
<1> USE DEF RequestOnly
<1>1. /\ Quiet /\ queue' = queue /\ handler' = handler /\ status' = status
      /\ created' = created /\ running' = running /\ dead' = dead
      /\ request'[q].pc = "commit" /\ request'[q].rows = status
      /\ \A p \in Requests \ {q} : request'[p] = request[p] /\ request'[p].pc = "idle"
  BY DEF Read, Quiet, TypeOK
<1>2. Busy = {} /\ Busy' = {}
  BY <1>1 DEF Busy, Quiet
<1>3. \A r \in Rows : ~Awaited(r) /\ \A p \in Requests : ~Owes(p, r) /\ ~Owes(p, r)'
  BY <1>1 DEF Awaited, Quiet, Unsettled, Owes
<1>4. OneRequest' /\ MessagesAgree'
  BY <1>1, <1>2 DEF OneRequest, MessagesAgree
<1>5. RequestOwns'
  BY <1>1, <1>2, <1>3 DEF RequestOwns, TypeOK
<1>6. RowsFollow'
  <2>1. \A r \in created \ dead : Follows(status[r], r)
    BY <1>3 DEF Following, RowsFollow, TypeOK
  <2> QED BY <1>1, <2>1 DEF RowsFollow, Follows
<1> QED BY <1>4, <1>5, <1>6 DEF Following

(* The one request that owns the rows moves on, or ends: what remains to   *)
(* be shown is about it.                                                   *)
LEMMA OwnerMoves ==
  ASSUME TypeOK, Following, NEW q \in Requests, request[q].pc # "idle",
         \A p \in Requests \ {q} : request'[p] = request[p],
         created' = created, MessagesAgree', RowsFollow',
         request'[q].pc \in {"commit", "rollback"} => Busy' = {},
         request'[q].pc = "commit" => request'[q].rows = status',
         request'[q].pc = "publish" =>
           /\ request'[q].events \subseteq created
           /\ \A r \in request'[q].events : status'[r] = To(request'[q].kind)
           /\ \A m \in Busy' : m.row \notin request'[q].events,
         \A r \in created \ dead' : Owes(q, r)' => Follows(request[q].rows[r], r)'
  PROVE  Following'
<1>1. \A p \in Requests \ {q} : request'[p].pc = "idle"
  BY DEF Following, OneRequest
<1>2. OneRequest'
  BY <1>1 DEF OneRequest
<1>3. ASSUME NEW p \in Requests
      PROVE  /\ request'[p].pc \in {"commit", "rollback"} => Busy' = {}
             /\ request'[p].pc = "commit" => request'[p].rows = status'
             /\ request'[p].pc = "publish" =>
                  /\ request'[p].events \subseteq created'
                  /\ \A r \in request'[p].events : status'[r] = To(request'[p].kind)
                  /\ \A m \in Busy' : m.row \notin request'[p].events
             /\ \A r \in created' \ dead' : Owes(p, r)' => Follows(request[p].rows[r], r)'
  <2>1. CASE p # q
    BY <1>1, <2>1 DEF Owes
  <2>2. CASE p = q
    BY <2>2
  <2> QED BY <2>1, <2>2
<1>4. RequestOwns'
  BY <1>3 DEF RequestOwns
<1> QED BY <1>2, <1>4 DEF Following

(* The transaction moves every created row, so that all of them have an    *)
(* event, and what was read is what the platform still does.               *)
LEMMA CommitKeepsFollowing ==
  ASSUME TypeOK, Agree, Exists, Following, NEW q \in Requests, Commit(q)
  PROVE  Following'
<1> USE DEF RequestOnly
<1> DEFINE kind == request[q].kind
<1>1. /\ request[q].pc = "commit" /\ Busy = {} /\ request[q].rows = status
      /\ kind \in Kinds /\ created # {} /\ created \subseteq Rows
      /\ \A r \in created : request[q].rows[r] = From(kind)
      /\ \A r \in Rows \ created : request[q].rows[r] \in {"PENDING", "ERROR"}
  BY DEF Commit, Following, RequestOwns, Agree, ReadsAgree, RowsAgree
<1>2. {r \in Rows : request[q].rows[r] = From(kind)} = created
  BY <1>1 DEF From
<1>3. /\ status' = [r \in Rows |-> IF r \in created THEN To(kind) ELSE status[r]]
      /\ request' = [request EXCEPT ![q] = [request[q] EXCEPT !.pc = "publish", !.events = created]]
      /\ created' = created /\ queue' = queue /\ handler' = handler
      /\ running' = running /\ dead' = dead
  BY <1>1, <1>2 DEF Commit
<1>4. /\ request'[q].pc = "publish" /\ request'[q].events = created
      /\ request'[q].rows = status /\ request'[q].kind = kind
      /\ \A p \in Requests \ {q} : request'[p] = request[p]
  BY <1>1, <1>3 DEF TypeOK, Request
<1>5. Busy' = {}
  BY <1>1, <1>3 DEF Busy
<1>6. MessagesAgree' /\ RowsFollow'
  <2>1. MessagesAgree'
    BY <1>5 DEF MessagesAgree
  <2>2. \A r \in created' : Owes(q, r)'
    BY <1>3, <1>4 DEF Owes
  <2> QED BY <2>1, <2>2 DEF RowsFollow
<1>7. \A r \in created \ dead : Follows(status[r], r)
  <2> SUFFICES ASSUME NEW r \in created \ dead PROVE Follows(status[r], r)
    OBVIOUS
  <2>1. ~Awaited(r)
    <3>1. \A h \in Handlers : handler[h].pc = "idle"
      BY <1>1 DEF Busy, TypeOK, Delivery
    <3>2. \A m \in Messages : ~(queue[m] > 0)
      BY <1>1 DEF Busy
    <3> QED BY <3>1, <3>2 DEF Awaited, Unsettled
  <2>2. \A p \in Requests : ~Owes(p, r)
    BY <1>1 DEF Owes, Following, OneRequest
  <2> QED BY <2>1, <2>2 DEF Following, RowsFollow
<1>8. \A r \in created \ dead' : Follows(request[q].rows[r], r)'
  BY <1>3, <1>4, <1>7 DEF Follows
<1>9. \A r \in request'[q].events : status'[r] = To(request'[q].kind)
  BY <1>1, <1>3, <1>4
<1> HIDE DEF kind
<1> QED BY <1>1, <1>3, <1>4, <1>5, <1>6, <1>8, <1>9, OwnerMoves

(* A request that fails before its commit changes nothing.                 *)
LEMMA AbortKeepsFollowing ==
  ASSUME TypeOK, Exists, Following, NEW q \in Requests, Abort(q), abandoned' = {}
  PROVE  Following'
<1> USE DEF RequestOnly
<1>1. /\ status' = status /\ created' = created /\ queue' = queue /\ handler' = handler
      /\ running' = running /\ dead' = dead /\ request[q].pc # "idle"
      /\ request'[q].pc = "idle" /\ \A p \in Requests \ {q} : request'[p] = request[p]
  BY DEF Abort, TypeOK, NoRequest
<1>2. request[q].pc = "commit"
  BY DEF Abort, Disturb, Abandons
<1>3. MessagesAgree' /\ Busy' = Busy
  BY <1>1 DEF Following, MessagesAgree, Busy
<1>4. RowsFollow'
  <2>1. \A r \in Rows : \A p \in Requests : Owes(p, r) => Owes(p, r)'
    BY <1>1, <1>2 DEF Owes
  <2>2. \A r \in Rows : Awaited(r) <=> Awaited(r)'
    BY <1>1 DEF Awaited, RowOf
  <2>3. created \subseteq Rows
    BY DEF TypeOK
  <2> QED BY <1>1, <2>1, <2>2, <2>3 DEF Following, RowsFollow, Follows
<1>5. \A r \in Rows : ~Owes(q, r)'
  BY <1>1 DEF Owes
<1> QED BY <1>1, <1>3, <1>4, <1>5, OwnerMoves DEF TypeOK

(* A published event is awaited.                                           *)
LEMMA PublishKeepsFollowing ==
  ASSUME TypeOK, Exists, Following, NEW q \in Requests, NEW r \in Rows, Publish(q, r)
  PROVE  Following'
<1> USE DEF RequestOnly
<1> DEFINE m0 == [kind |-> request[q].kind, row |-> r, attempt |-> 1]
<1>1. /\ request[q].pc = "publish" /\ r \in request[q].events /\ request[q] \in Request
      /\ queue' = [queue EXCEPT ![m0] = @ + 1]
      /\ m0 \in Messages /\ m0.row = r /\ m0.kind = request[q].kind
      /\ status' = status /\ created' = created /\ handler' = handler
      /\ running' = running /\ dead' = dead
      /\ \A p \in Requests \ {q} : request'[p] = request[p]
  BY RetriesAssumption DEF Publish, TypeOK, Request, Messages
<1>2. /\ request[q].events = {r} => request'[q].pc = "idle"
      /\ request[q].events # {r} =>
           /\ request'[q].pc = "publish" /\ request'[q].events = request[q].events \ {r}
           /\ request'[q].kind = request[q].kind /\ request'[q].rows = request[q].rows
  BY <1>1 DEF Publish, TypeOK, Request, NoRequest
<1>3. /\ request[q].events \subseteq created
      /\ \A s \in request[q].events : status[s] = To(request[q].kind)
      /\ \A m \in Busy : m.row \notin request[q].events
      /\ \A s \in created \ dead : Owes(q, s) => Follows(request[q].rows[s], s)
  BY <1>1 DEF Following, RequestOwns
<1> HIDE DEF m0
<1>4. /\ queue'[m0] > 0
      /\ \A m \in Messages : queue[m] > 0 => queue'[m] > 0
      /\ \A m \in Messages : m # m0 => queue'[m] = queue[m]
  BY <1>1 DEF TypeOK
<1>5. Busy' \subseteq Busy \cup {m0}
  BY <1>1, <1>4 DEF Busy
<1>6. MessagesAgree'
  BY <1>1, <1>3, <1>5 DEF Following, MessagesAgree
<1>7. \A s \in Rows : (Awaited(s) => Awaited(s)') /\ Awaited(r)'
  BY <1>1, <1>4 DEF Awaited, RowOf
<1>8. RowsFollow'
  <2> SUFFICES ASSUME NEW s \in created, s \notin dead
               PROVE  Follows(status[s], s)' \/ Awaited(s)' \/ \E p \in Requests : Owes(p, s)'
    BY <1>1 DEF RowsFollow
  <2>1. s \in Rows
    BY DEF TypeOK
  <2>2. CASE s = r \/ Awaited(s)
    BY <1>7, <2>1, <2>2
  <2>3. CASE Follows(status[s], s)
    BY <1>1, <2>3 DEF Follows
  <2>4. ASSUME NEW p \in Requests, Owes(p, s), s # r PROVE Owes(p, s)'
    <3>1. p = q /\ s \in request[q].events
      BY <1>1, <2>4 DEF Owes, Following, OneRequest
    <3> QED BY <1>2, <2>4, <3>1 DEF Owes
  <2> QED BY <2>2, <2>3, <2>4 DEF Following, RowsFollow
<1>9. ASSUME NEW s \in created \ dead', Owes(q, s)'
      PROVE  Follows(request[q].rows[s], s)'
  <2>1. Owes(q, s) /\ request'[q].rows = request[q].rows
    BY <1>1, <1>2, <1>9 DEF Owes
  <2> QED BY <1>1, <1>3, <2>1 DEF Follows
<1>10. request'[q].pc = "publish" =>
         /\ request'[q].events \subseteq created
         /\ \A s \in request'[q].events : status'[s] = To(request'[q].kind)
         /\ \A m \in Busy' : m.row \notin request'[q].events
  BY <1>1, <1>2, <1>3, <1>5
<1>11. request'[q].pc \in {"idle", "publish"} /\ request[q].pc # "idle"
  BY <1>1, <1>2
<1> QED BY <1>1, <1>6, <1>8, <1>9, <1>10, <1>11, OwnerMoves

(* A publish that fails before any event went out leaves no message ...    *)
LEMMA PublishFailsKeepsFollowing ==
  ASSUME TypeOK, Agree, Exists, Following, NEW q \in Requests, PublishFails(q), abandoned' = {}
  PROVE  Following'
<1> USE DEF RequestOnly
<1>1. /\ request[q].pc = "publish" /\ request[q] \in Request
      /\ request'[q].pc = "rollback" /\ request'[q].rows = request[q].rows
      /\ status' = status /\ created' = created /\ handler' = handler /\ queue' = queue
      /\ running' = running /\ dead' = dead
      /\ \A p \in Requests \ {q} : request'[p] = request[p]
  BY DEF PublishFails, TypeOK, Request
<1>2. ~HasPublished(q)
  BY <1>1 DEF PublishFails, Disturb, Abandons
<1>3. created \subseteq request[q].events
  BY <1>1, <1>2 DEF HasPublished, Agree, ReadsAgree
<1>4. Busy = {} /\ Busy' = {}
  BY <1>1, <1>3 DEF Following, MessagesAgree, RequestOwns, Busy
<1>5. MessagesAgree' /\ RowsFollow'
  BY <1>1, <1>4 DEF MessagesAgree, RowsFollow, Owes
<1>6. \A r \in created \ dead' : Follows(request[q].rows[r], r)'
  BY <1>1, <1>3 DEF Following, RequestOwns, Owes, Follows
<1> QED BY <1>1, <1>4, <1>5, <1>6, OwnerMoves

(* ... and its rollback returns to what the platform still does.           *)
LEMMA RollbackKeepsFollowing ==
  ASSUME TypeOK, Exists, Following, NEW q \in Requests, Rollback(q)
  PROVE  Following'
<1> USE DEF RequestOnly
<1>1. /\ request[q].pc = "rollback" /\ request'[q].pc = "idle"
      /\ status' = request[q].rows /\ created' = created /\ handler' = handler
      /\ queue' = queue /\ running' = running /\ dead' = dead
      /\ \A p \in Requests \ {q} : request'[p] = request[p]
  BY DEF Rollback, TypeOK, NoRequest
<1>2. Busy' = {}
  BY <1>1 DEF Following, RequestOwns, Busy
<1>3. MessagesAgree'
  BY <1>2 DEF MessagesAgree
<1>4. RowsFollow'
  <2>1. \A r \in created \ dead : Follows(request[q].rows[r], r)
    BY <1>1 DEF Following, RequestOwns, Owes
  <2> QED BY <1>1, <2>1 DEF RowsFollow, Follows
<1>5. \A r \in created : ~Owes(q, r)'
  BY <1>1 DEF Owes
<1> QED BY <1>1, <1>2, <1>3, <1>4, <1>5, OwnerMoves

(* A campaign that was deleted does not come back.                         *)
LEMMA ExistsShrinks == [Next]_vars /\ Exists' => Exists
<1> SUFFICES ASSUME [Next]_vars, ~Exists PROVE ~Exists'
  OBVIOUS
<1> USE DEF Exists, RequestOnly, HandlerOnly
<1>1. ASSUME NEW q \in Requests, RequestStep(q) \/ (\E kind \in Kinds : Read(q, kind))
      PROVE  ~Exists'
  BY <1>1 DEF RequestStep, Read, From, Commit, Abort, Rollback, PublishFails, Publish
<1>2. ASSUME NEW h \in Handlers, HandlerStep(h) PROVE ~Exists'
  BY <1>2
  DEF HandlerStep, LoadRow, FindAccount, ReadFails, EnforceRateLimit, RateLimitExceeded,
      RequireToken, RefreshFails, CallPlatform, CallRefused, CallAnswerLost, ReconcileRead,
      ReconcileWrite, ReconcileFails, SettleRetry, SettleDead, Ack
<1>3. CASE DeliverAny
  BY <1>3 DEF DeliverAny, Deliver
<1>4. ASSUME NEW r \in Rows, Disconnect(r) \/ DisconnectPauses(r) PROVE ~Exists'
  BY <1>4 DEF Disconnect, DisconnectPauses
<1>5. CASE Crash \/ Remove
  BY <1>5 DEF Crash, Remove
<1>6. CASE UNCHANGED vars
  BY <1>6 DEF vars
<1> QED BY <1>1, <1>2, <1>3, <1>4, <1>5, <1>6 DEF Next

(* Every step keeps the invariant until something is given up.             *)
LEMMA FollowStep ==
  ASSUME TypeOK, AgreeInv, FollowInv, [Next]_vars
  PROVE  FollowInv'
<1> SUFFICES ASSUME Exists', abandoned' = {} PROVE Following'
  BY DEF FollowInv
<1>0. TypeOK' /\ Exists /\ abandoned = {} /\ Agree /\ Following /\ RowsAgree
  BY TypeStep, ExistsShrinks, AbandonedGrows DEF AgreeInv, FollowInv, Agree
<1>1. ASSUME NEW q \in Requests, NEW kind \in Kinds, Read(q, kind) PROVE Following'
  BY <1>0, <1>1, ReadKeepsFollowing
<1>2. ASSUME NEW q \in Requests, RequestStep(q) PROVE Following'
  BY <1>0, <1>2, CommitKeepsFollowing, AbortKeepsFollowing, PublishKeepsFollowing,
     PublishFailsKeepsFollowing, RollbackKeepsFollowing
  DEF RequestStep
<1>3. ASSUME NEW h \in Handlers, HandlerStep(h) PROVE Following'
  BY <1>0, <1>3, HandlerStepKeepsFollowing
<1>4. ASSUME NEW h \in Handlers, NEW m \in Messages, Deliver(h, m) PROVE Following'
  BY <1>0, <1>4, DeliverKeepsFollowing
<1>5. CASE Crash
  BY <1>0, <1>5, CrashKeepsFollowing
<1>6. ASSUME NEW r \in Rows PROVE ~Disconnect(r) /\ ~DisconnectPauses(r)
  BY <1>0 DEF Disconnect, Disturb, Abandons, DisconnectPauses, RowsAgree
<1>7. ~Remove
  BY DEF Remove, Exists
<1>8. CASE UNCHANGED vars
  BY <1>0, <1>8
  DEF vars, Following, OneRequest, MessagesAgree, RequestOwns, RowsFollow, Owes, Awaited,
      RowOf, Busy, Follows
<1> QED
  BY <1>1, <1>2, <1>3, <1>4, <1>5, <1>6, <1>7, <1>8 DEF Next, DeliverAny

(* The campaign as creation leaves it is followed by its platforms.        *)
LEMMA FollowInit == Init => FollowInv
<1> SUFFICES ASSUME Init PROVE Following
  BY DEF FollowInv
<1>1. (\A q \in Requests : request[q].pc = "idle") /\ Busy = {}
  <2>1. \A q \in Requests : request[q].pc = "idle"
    BY DEF Init, NoRequest
  <2>2. \A h \in Handlers : handler[h].pc = "idle"
    BY DEF Init, Idle
  <2>3. \A m \in Messages : ~(queue[m] > 0)
    BY DEF Init
  <2> QED BY <2>1, <2>2, <2>3 DEF Busy
<1>2. RowsFollow
  <2>1. \A r \in Rows : Follows(status[r], r)
    BY DEF Init, Follows
  <2> QED BY <2>1 DEF Init, RowsFollow
<1> QED BY <1>1, <1>2 DEF Following, OneRequest, MessagesAgree, RequestOwns, Owes

(* Once all is quiet every platform does what its row says, unless         *)
(* something was given up for good: a request's work, an account, or the   *)
(* order of requests that did not wait for each other.                     *)
THEOREM PlatformObeys == Spec => []PlatformFollows
<1>1. TypeOK /\ FollowInv => PlatformFollows
  <2> SUFFICES ASSUME TypeOK, Following, Quiet, NEW r \in created \ dead
               PROVE  Follows(status[r], r)
    BY DEF FollowInv, PlatformFollows
  <2>1. ~Awaited(r) /\ \A q \in Requests : ~Owes(q, r)
    BY DEF Quiet, Awaited, Unsettled, Owes
  <2> QED BY <2>1 DEF Following, RowsFollow
<1>2. TypeOK /\ AgreeInv /\ FollowInv /\ [Next]_vars => FollowInv'
  BY FollowStep
<1>3. Spec => [](TypeOK /\ AgreeInv)
  BY TypeCorrect, AgreeStep, AgreeInit, PTL DEF Spec
<1> QED BY <1>1, <1>2, <1>3, FollowInit, PTL DEF Spec

=============================================================================
