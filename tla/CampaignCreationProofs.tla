----------------------- MODULE CampaignCreationProofs -----------------------
(***************************************************************************)
(* Theorems about CampaignCreation, for any number of rows, of concurrent  *)
(* deliveries, of retries and of disturbances.                             *)
(***************************************************************************)
EXTENDS CampaignCreation, FiniteSetTheorems, TLAPS

-----------------------------------------------------------------------------
(* Types                                                                   *)

(* A message can always be published, so the idle delivery is well typed. *)
LEMMA IdleType == Idle \in Delivery /\ \A r \in Rows : FirstMessage(r) \in Messages
<1>1. \A r \in Rows : FirstMessage(r) \in Messages
  BY RetriesAssumption DEF FirstMessage, Messages
<1>2. (CHOOSE r \in Rows : TRUE) \in Rows
  BY RowsAssumption
<1> QED
  BY <1>1, <1>2 DEF Idle, Delivery, PCs, Statuses, Outcomes

(* Leaving a handler with an error keeps the deliveries well typed. *)
LEMMA ThrowType ==
  ASSUME TypeOK, NEW h \in Handlers, NEW pc \in PCs, NEW o \in Outcomes, Throw(h, pc, o)
  PROVE  handler' \in [Handlers -> Delivery]
BY IdleType DEF TypeOK, Throw, Delivery

(* So does moving on to another await. *)
LEMMA GotoType ==
  ASSUME TypeOK, NEW h \in Handlers, NEW pc \in PCs, Goto(h, pc)
  PROVE  handler' \in [Handlers -> Delivery]
BY DEF TypeOK, Goto, Delivery

(* A sweep adds messages to the bag. *)
LEMMA RepublishType ==
  ASSUME TypeOK, NEW R, Republish(R)
  PROVE  queue' \in [Messages -> Nat]
BY DEF TypeOK, Republish

(* The status chosen for the parent is one of the four. *)
LEMMA TargetType ==
  ASSUME NEW c \in Statuses, NEW S
  PROVE  ReconcileTarget(c, S) \in Statuses
BY DEF ReconcileTarget, Statuses

(* One await of a delivery, however it ends, keeps every variable's type. *)
LEMMA HandlerStepType ==
  ASSUME TypeOK, NEW h \in Handlers, HandlerStep(h)
  PROVE  TypeOK'
<1> USE DEF HandlerOnly, Undisturbed, Disturb, StatusWritten, db, env, requests, RowOf, Exists
<1>0. handler[h] \in Delivery /\ RowOf(h) \in Rows /\ handler[h].ext \in Nat
      /\ handler[h].msg \in Messages /\ handler[h].target \in Statuses
  BY DEF TypeOK, Delivery, Messages
<1>1. CASE CheckProcessed(h)
  BY <1>1, GotoType DEF CheckProcessed, TypeOK, PCs
<1>2. CASE LoadRow(h)
  <2>1. handler' \in [Handlers -> Delivery]
    <3>1. CASE Exists
      BY <1>0, <1>2, <3>1 DEF LoadRow, TypeOK, Delivery, PCs
    <3>2. CASE ~Exists
      BY <1>2, <3>2, ThrowType DEF LoadRow, PCs, Outcomes
    <3> QED BY <3>1, <3>2
  <2> QED BY <1>2, <2>1 DEF LoadRow, TypeOK
<1>3. CASE FindAccount(h)
  <2>1. handler' \in [Handlers -> Delivery]
    <3>1. CASE account[RowOf(h)] = "none"
      BY <1>3, <3>1, ThrowType DEF FindAccount, PCs, Outcomes
    <3>2. CASE account[RowOf(h)] # "none"
      BY <1>0, <1>3, <3>2 DEF FindAccount, TypeOK, Delivery, PCs
    <3> QED BY <3>1, <3>2
  <2> QED BY <1>3, <2>1 DEF FindAccount, TypeOK
<1>4. CASE ReadFails(h)
  BY <1>4, ThrowType DEF ReadFails, TypeOK, PCs, Outcomes
<1>5. CASE EnforceRateLimit(h)
  BY <1>5, GotoType DEF EnforceRateLimit, TypeOK, PCs
<1>6. CASE RateLimitExceeded(h)
  BY <1>6, ThrowType DEF RateLimitExceeded, TypeOK, PCs, Outcomes
<1>7. CASE RequireToken(h)
  <2>1. handler' \in [Handlers -> Delivery]
    BY <1>7, ThrowType, GotoType DEF RequireToken, PCs, Outcomes
  <2> QED BY <1>7, <2>1 DEF RequireToken, TypeOK
<1>8. CASE RefreshFails(h)
  <2>1. handler' \in [Handlers -> Delivery]
    BY <1>8, ThrowType DEF RefreshFails, PCs, Outcomes
  <2> QED BY <1>0, <1>8, <2>1 DEF RefreshFails, TypeOK
<1>9. CASE CreateOnPlatform(h)
  <2>1. handler' \in [Handlers -> Delivery]
    <3>1. platform[RowOf(h)] + 1 \in Nat
      BY <1>0 DEF TypeOK
    <3>2. [handler[h] EXCEPT !.pc = "persist", !.ext = platform[RowOf(h)] + 1] \in Delivery
      BY <1>0, <3>1 DEF Delivery, PCs
    <3> QED BY <1>9, <3>2 DEF CreateOnPlatform, TypeOK
  <2> QED BY <1>0, <1>9, <2>1 DEF CreateOnPlatform, TypeOK
<1>10. CASE CreateRefused(h)
  BY <1>10, ThrowType DEF CreateRefused, TypeOK, PCs, Outcomes
<1>11. CASE CreateAnswerLost(h)
  BY <1>0, <1>11, ThrowType DEF CreateAnswerLost, TypeOK, PCs, Outcomes
<1>12. CASE Persist(h)
  <2>1. handler' \in [Handlers -> Delivery]
    BY <1>0, <1>12 DEF Persist, TypeOK, Delivery, PCs, Statuses, Outcomes
  <2> QED BY <1>0, <1>12, <2>1 DEF Persist, TypeOK, Statuses
<1>13. CASE PersistGone(h)
  BY <1>0, <1>13, ThrowType DEF PersistGone, TypeOK, PCs, Outcomes
<1>14. CASE PersistFails(h)
  BY <1>0, <1>14, ThrowType DEF PersistFails, TypeOK, PCs, Outcomes
<1>15. CASE MarkError(h)
  BY <1>0, <1>15, GotoType DEF MarkError, TypeOK, PCs, Statuses
<1>16. CASE MarkErrorFails(h)
  BY <1>16, GotoType DEF MarkErrorFails, TypeOK, PCs
<1>17. CASE ReconcileRead(h)
  <2>1. handler' \in [Handlers -> Delivery]
    <3>1. CASE Exists /\ TargetNow # uacm
      <4>1. TargetNow \in Statuses
        BY <3>1, TargetType DEF TargetNow, TypeOK
      <4> QED BY <1>0, <1>17, <3>1, <4>1 DEF ReconcileRead, TypeOK, Delivery, PCs
    <3>2. CASE ~(Exists /\ TargetNow # uacm)
      BY <1>17, <3>2, GotoType DEF ReconcileRead, AfterReconcile, PCs
    <3> QED BY <3>1, <3>2
  <2> QED BY <1>17, <2>1 DEF ReconcileRead, TypeOK
<1>18. CASE ReconcileWrite(h)
  <2>1. handler' \in [Handlers -> Delivery]
    BY <1>0, <1>18 DEF ReconcileWrite, TypeOK, Delivery, AfterReconcile, PCs, Statuses
  <2> QED BY <1>0, <1>18, <2>1 DEF ReconcileWrite, TypeOK
<1>19. CASE ReconcileFails(h)
  <2>1. handler' \in [Handlers -> Delivery]
    BY <1>0, <1>19 DEF ReconcileFails, TypeOK, Delivery, AfterReconcile, PCs, Statuses
  <2> QED BY <1>0, <1>19, <2>1 DEF ReconcileFails, TypeOK
<1>20. CASE MarkProcessed(h)
  BY <1>0, <1>20, GotoType DEF MarkProcessed, TypeOK, PCs
<1>21. CASE MarkLookupFails(h)
  BY <1>21, ThrowType DEF MarkLookupFails, TypeOK, PCs, Outcomes
<1>22. CASE MarkInsertFails(h)
  BY <1>22, GotoType DEF MarkInsertFails, TypeOK, PCs
<1>23. CASE SettleRetry(h)
  <2>1. queue' \in [Messages -> Nat]
    <3>1. handler[h].msg.attempt \in 1..MaxRetries /\ handler[h].msg.attempt + 1 <= MaxRetries
      BY <1>0, <1>23, RetriesAssumption DEF SettleRetry, Exhausted, Messages
    <3>2. [handler[h].msg EXCEPT !.attempt = @ + 1] \in Messages
      BY <1>0, <3>1, RetriesAssumption DEF Messages
    <3> QED BY <1>23, <3>2 DEF SettleRetry, TypeOK
  <2> QED BY <1>23, <2>1, GotoType DEF SettleRetry, TypeOK, PCs
<1>24. CASE SettleDead(h)
  BY <1>0, <1>24, GotoType DEF SettleDead, TypeOK, PCs
<1>25. CASE Ack(h)
  BY <1>25, IdleType DEF Ack, TypeOK
<1> QED
  BY <1>1, <1>2, <1>3, <1>4, <1>5, <1>6, <1>7, <1>8, <1>9, <1>10, <1>11, <1>12, <1>13,
     <1>14, <1>15, <1>16, <1>17, <1>18, <1>19, <1>20, <1>21, <1>22, <1>23, <1>24, <1>25
  DEF HandlerStep

(* Every step of the system keeps every variable's type. *)
LEMMA TypeStep == TypeOK /\ [Next]_vars => TypeOK'
<1> SUFFICES ASSUME TypeOK, [Next]_vars PROVE TypeOK'
  OBVIOUS
<1> USE DEF Undisturbed, Disturb, db, env, requests, Exists
<1>1. ASSUME NEW h \in Handlers, HandlerStep(h) PROVE TypeOK'
  BY <1>1, HandlerStepType
<1>2. ASSUME NEW h \in Handlers, NEW m \in Messages, Deliver(h, m) PROVE TypeOK'
  <2>1. [Idle EXCEPT !.pc = "check", !.msg = m] \in Delivery
    BY IdleType DEF Delivery, PCs
  <2>2. m.row \in Rows
    BY DEF Messages
  <2> QED BY <1>2, <2>1, <2>2 DEF Deliver, TypeOK
<1>3. ASSUME NEW r \in Rows, PublishCreated(r) PROVE TypeOK'
  BY <1>3, IdleType DEF PublishCreated, TypeOK
<1>4. ASSUME NEW r \in Rows, PublishCreatedFails(r) PROVE TypeOK'
  BY <1>4 DEF PublishCreatedFails, TypeOK
<1>5. ASSUME NEW r \in Rows, DisconnectPauses(r) PROVE TypeOK'
  BY <1>5 DEF DisconnectPauses, TypeOK, Statuses
<1>6. ASSUME NEW r \in Rows, Disconnect(r) PROVE TypeOK'
  BY <1>6 DEF Disconnect, TypeOK
<1>7. ASSUME NEW r \in Rows, Link(r) PROVE TypeOK'
  BY <1>7 DEF Link, TypeOK
<1>8. CASE Age
  BY <1>8 DEF Age, TypeOK
<1>9. CASE PeriodicSweep
  BY <1>9, RepublishType DEF PeriodicSweep, TypeOK
<1>10. CASE StartupSweep
  <2>1. queue' \in [Messages -> Nat]
    BY <1>10, RepublishType DEF StartupSweep
  <2> QED BY <1>10, <2>1 DEF StartupSweep, TypeOK
<1>11. CASE Crash
  <2>1. \A S \in SUBSET Handlers : Cardinality(S) \in Nat
    BY HandlersAssumption, FS_Subset, FS_CardinalityType
  <2>2. queue' \in [Messages -> Nat]
    BY <1>11, <2>1 DEF Crash, TypeOK
  <2>3. lost' \in [Rows -> Nat]
    BY <1>11, <2>1 DEF Crash, TypeOK
  <2> QED BY <1>11, <2>2, <2>3, IdleType DEF Crash, TypeOK
<1>12. CASE Remove
  BY <1>12 DEF Remove, TypeOK
<1>13. CASE UNCHANGED vars
  BY <1>13 DEF vars, TypeOK
<1> QED
  BY <1>1, <1>2, <1>3, <1>4, <1>5, <1>6, <1>7, <1>8, <1>9, <1>10, <1>11, <1>12, <1>13
  DEF Next, DeliverAny, RequestStep, UserStep

(* The state right after the commit of the create request is well typed. *)
LEMMA InitType == Init => TypeOK
<1> SUFFICES ASSUME Init PROVE TypeOK
  OBVIOUS
<1>1. handler \in [Handlers -> Delivery]
  BY IdleType DEF Init
<1> QED BY <1>1 DEF Init, TypeOK, Statuses

(* Type correctness of the creation pipeline in every reachable state. *)
THEOREM TypeCorrect == Spec => []TypeOK
BY InitType, TypeStep, PTL DEF Spec

-----------------------------------------------------------------------------
(* Saved ids                                                               *)

(* What a delivery may do to the invariant: it moves to d, ids only grow,  *)
(* no row becomes ACTIVE, and only rows with an id become processed.       *)
LEMMA MoveKeepsSavedInv ==
  ASSUME TypeOK, TypeOK', SavedInv, NEW h \in Handlers, NEW d \in Delivery,
         handler' = [handler EXCEPT ![h] = d],
         ext' = ext,
         \A r \in Rows : platform[r] <= platform'[r],
         \A r \in Rows : status'[r] = "ACTIVE" => status[r] = "ACTIVE",
         \A r \in processed' : r \in processed \/ ext[r] # 0,
         d.ext <= platform'[d.msg.row],
         d.pc = "persist" => d.ext # 0,
         d.pc = "fail" => d.outcome # "ok",
         Succeeded(d) => ext[d.msg.row] # 0
  PROVE  SavedInv'
<1>1. /\ handler'[h] = d
      /\ \A k \in Handlers \ {h} : handler'[k] = handler[k]
      /\ \A k \in Handlers : handler[k] \in Delivery /\ handler[k].msg.row \in Rows
      /\ \A r \in Rows : ext[r] \in Nat /\ platform[r] \in Nat /\ platform'[r] \in Nat
  BY DEF TypeOK, Delivery, Messages
<1>2. IdsExist'
  <2>1. \A r \in Rows : ext'[r] <= platform'[r]
    BY <1>1 DEF SavedInv, IdsExist
  <2>2. ASSUME NEW k \in Handlers PROVE handler'[k].ext <= platform'[handler'[k].msg.row]
    <3>1. CASE k = h
      BY <1>1, <3>1
    <3>2. CASE k # h
      <4>1. handler[k].ext <= platform[handler[k].msg.row] /\ handler[k].ext \in Nat
        BY <1>1 DEF SavedInv, IdsExist, RowOf, Delivery
      <4> QED BY <1>1, <3>2, <4>1
    <3> QED BY <3>1, <3>2
  <2> QED BY <2>1, <2>2 DEF IdsExist, RowOf
<1>3. PersistHasId' /\ FailureIsError'
  BY <1>1 DEF SavedInv, PersistHasId, FailureIsError
<1>4. SuccessIsSaved'
  BY <1>1 DEF SavedInv, SuccessIsSaved, Succeeded, RowOf
<1>5. ActiveIsSaved' /\ ProcessedIsSaved'
  BY DEF SavedInv, ActiveIsSaved, ProcessedIsSaved, TypeOK
<1> QED BY <1>2, <1>3, <1>4, <1>5 DEF SavedInv

(* Leaving the straight line with an error forgets the id. *)
LEMMA ThrowKeepsSavedInv ==
  ASSUME TypeOK, TypeOK', SavedInv, NEW h \in Handlers,
         NEW pc \in {"fail", "settle"}, NEW o \in {"retry", "terminal"}, Throw(h, pc, o),
         ext' = ext, status' = status, processed' = processed,
         \A r \in Rows : platform[r] <= platform'[r]
  PROVE  SavedInv'
<1> DEFINE d == [Idle EXCEPT !.pc = pc, !.msg = handler[h].msg, !.outcome = o]
<1>1. d \in Delivery /\ d.pc = pc /\ d.ext = 0 /\ d.msg.row \in Rows /\ d.outcome = o
  BY IdleType DEF TypeOK, Delivery, Messages, Idle, PCs, Outcomes
<1>2. d.ext <= platform'[d.msg.row]
  BY <1>1 DEF TypeOK
<1>3. d.pc # "persist" /\ ~Succeeded(d)
  BY <1>1 DEF Succeeded
<1>4. handler' = [handler EXCEPT ![h] = d]
  BY DEF Throw
<1> HIDE DEF d
<1> QED BY <1>1, <1>2, <1>3, <1>4, MoveKeepsSavedInv

(* Moving to another await keeps the delivery's locals. *)
LEMMA GotoKeepsSavedInv ==
  ASSUME TypeOK, TypeOK', SavedInv, NEW h \in Handlers, NEW pc \in PCs \ {"fail"}, Goto(h, pc),
         ext' = ext, platform' = platform,
         \A r \in Rows : status'[r] = "ACTIVE" => status[r] = "ACTIVE",
         \A r \in processed' : r \in processed \/ ext[r] # 0,
         pc = "persist" => handler[h].ext # 0,
         pc = "mark" => ext[RowOf(h)] # 0,
         pc \in {"reconcile", "write"} => Succeeded(handler[h]) \/ handler[h].outcome # "ok"
  PROVE  SavedInv'
<1> DEFINE d == [handler[h] EXCEPT !.pc = pc]
<1>1. d \in Delivery /\ d.pc = pc /\ d.ext = handler[h].ext /\ d.msg = handler[h].msg
      /\ d.outcome = handler[h].outcome /\ d.msg.row \in Rows
  <2>1. handler[h] \in Delivery
    BY DEF TypeOK
  <2>2. handler[h].msg.row \in Rows
    BY <2>1 DEF Delivery, Messages
  <2>3. d \in Delivery
    BY <2>1 DEF Delivery
  <2> QED BY <2>1, <2>2, <2>3 DEF Delivery
<1>2. d.ext <= platform'[d.msg.row]
  BY <1>1 DEF SavedInv, IdsExist, RowOf
<1>3. Succeeded(d) => ext[d.msg.row] # 0
  BY <1>1 DEF Succeeded, SavedInv, SuccessIsSaved, RowOf
<1>4. handler' = [handler EXCEPT ![h] = d]
  BY DEF Goto
<1>5. \A r \in Rows : platform[r] <= platform'[r]
  BY DEF TypeOK
<1> HIDE DEF d
<1> QED BY <1>1, <1>2, <1>3, <1>4, <1>5, MoveKeepsSavedInv

(* One await of a delivery, however it ends, keeps the invariant. *)
LEMMA HandlerStepKeepsSavedInv ==
  ASSUME TypeOK, TypeOK', SavedInv, NEW h \in Handlers, HandlerStep(h)
  PROVE  SavedInv'
<1> USE DEF HandlerOnly, db, env
<1>0. handler[h] \in Delivery /\ RowOf(h) \in Rows /\ handler[h].ext \in Nat
      /\ (\A r \in Rows : ext[r] \in Nat /\ platform[r] \in Nat)
      /\ handler[h].ext <= platform[RowOf(h)]
      /\ handler[h].msg \in Messages /\ handler[h].msg.row = RowOf(h)
  BY DEF TypeOK, Delivery, Messages, SavedInv, IdsExist, RowOf
<1>1. CASE CheckProcessed(h)
  BY <1>1, GotoKeepsSavedInv DEF CheckProcessed, PCs
<1>2. CASE LoadRow(h)
  <2>1. CASE Exists
    <3> DEFINE d == [handler[h] EXCEPT !.pc = "account", !.ext = ext[RowOf(h)]]
    <3>1. d \in Delivery /\ d.pc = "account" /\ d.ext = ext[RowOf(h)] /\ d.msg = handler[h].msg
      BY <1>0 DEF Delivery, PCs
    <3>2. handler' = [handler EXCEPT ![h] = d]
      BY <1>2, <2>1 DEF LoadRow
    <3>3. d.ext <= platform[d.msg.row] /\ ~Succeeded(d)
      BY <1>0, <3>1 DEF SavedInv, IdsExist, Succeeded
    <3>4. ext' = ext /\ platform' = platform /\ status' = status /\ processed' = processed
      BY <1>2 DEF LoadRow
    <3>5. d.pc # "persist" /\ d.pc # "fail"
      BY <3>1
    <3>6. (\A r \in Rows : platform[r] <= platform'[r]) /\ d.ext <= platform'[d.msg.row]
      BY <1>0, <3>3, <3>4
    <3> HIDE DEF d
    <3> QED BY <3>1, <3>2, <3>3, <3>4, <3>5, <3>6, MoveKeepsSavedInv
  <2>2. CASE ~Exists
    BY <1>0, <1>2, <2>2, ThrowKeepsSavedInv DEF LoadRow
  <2> QED BY <2>1, <2>2
<1>3. CASE FindAccount(h)
  <2>1. CASE account[RowOf(h)] # "none"
    <3> DEFINE d == [handler[h] EXCEPT !.pc = "limit", !.usable = account[RowOf(h)] = "usable"]
    <3>1. d \in Delivery /\ d.pc = "limit" /\ d.ext = handler[h].ext /\ d.msg = handler[h].msg
      BY <1>0 DEF Delivery, PCs
    <3>2. handler' = [handler EXCEPT ![h] = d]
      BY <1>3, <2>1 DEF FindAccount
    <3>3. d.ext <= platform[d.msg.row] /\ ~Succeeded(d)
      BY <1>0, <3>1 DEF Succeeded
    <3>4. ext' = ext /\ platform' = platform /\ status' = status /\ processed' = processed
      BY <1>3 DEF FindAccount
    <3>5. d.pc # "persist" /\ d.pc # "fail"
      BY <3>1
    <3>6. (\A r \in Rows : platform[r] <= platform'[r]) /\ d.ext <= platform'[d.msg.row]
      BY <1>0, <3>3, <3>4
    <3> HIDE DEF d
    <3> QED BY <3>1, <3>2, <3>3, <3>4, <3>5, <3>6, MoveKeepsSavedInv
  <2>2. CASE account[RowOf(h)] = "none"
    BY <1>0, <1>3, <2>2, ThrowKeepsSavedInv DEF FindAccount
  <2> QED BY <2>1, <2>2
<1>4. CASE ReadFails(h)
  BY <1>0, <1>4, ThrowKeepsSavedInv DEF ReadFails
<1>5. CASE EnforceRateLimit(h)
  BY <1>5, GotoKeepsSavedInv DEF EnforceRateLimit, PCs
<1>6. CASE RateLimitExceeded(h)
  BY <1>0, <1>6, ThrowKeepsSavedInv DEF RateLimitExceeded
<1>7. CASE RequireToken(h)
  <2>1. CASE handler[h].usable
    BY <1>7, <2>1, GotoKeepsSavedInv DEF RequireToken, PCs
  <2>2. CASE ~handler[h].usable
    BY <1>0, <1>7, <2>2, ThrowKeepsSavedInv DEF RequireToken
  <2> QED BY <2>1, <2>2
<1>8. CASE RefreshFails(h)
  BY <1>0, <1>8, ThrowKeepsSavedInv DEF RefreshFails
<1>9. CASE CreateOnPlatform(h)
  <2> DEFINE d == [handler[h] EXCEPT !.pc = "persist", !.ext = platform[RowOf(h)] + 1]
  <2>1. d \in Delivery /\ d.pc = "persist" /\ d.ext = platform[RowOf(h)] + 1 /\ d.msg = handler[h].msg
    <3>1. platform[RowOf(h)] + 1 \in Nat
      BY <1>0
    <3> QED BY <1>0, <3>1 DEF Delivery, PCs
  <2>2. handler' = [handler EXCEPT ![h] = d]
    BY <1>9 DEF CreateOnPlatform
  <2>3. platform' = [platform EXCEPT ![RowOf(h)] = @ + 1]
    BY <1>9 DEF CreateOnPlatform
  <2>4. (\A r \in Rows : platform[r] <= platform'[r]) /\ d.ext <= platform'[d.msg.row]
    BY <1>0, <2>1, <2>3 DEF TypeOK
  <2>5. d.ext # 0 /\ d.pc # "fail" /\ ~Succeeded(d)
    BY <1>0, <2>1 DEF Succeeded
  <2> HIDE DEF d
  <2> QED BY <1>9, <2>1, <2>2, <2>4, <2>5, MoveKeepsSavedInv DEF CreateOnPlatform
<1>10. CASE CreateRefused(h)
  BY <1>0, <1>10, ThrowKeepsSavedInv DEF CreateRefused
<1>11. CASE CreateAnswerLost(h)
  <2>1. \A r \in Rows : platform[r] <= platform'[r]
    BY <1>0, <1>11 DEF CreateAnswerLost, TypeOK
  <2> QED BY <1>11, <2>1, ThrowKeepsSavedInv DEF CreateAnswerLost
<1>12. CASE Persist(h)
  <2>1. /\ handler' = [handler EXCEPT ![h].pc = "reconcile", ![h].outcome = "ok"]
        /\ ext' = [ext EXCEPT ![RowOf(h)] = handler[h].ext]
        /\ status' = [status EXCEPT ![RowOf(h)] = "ACTIVE"]
        /\ platform' = platform /\ processed' = processed
        /\ handler[h].ext # 0
    BY <1>12 DEF Persist, SavedInv, PersistHasId
  <2>2. /\ \A k \in Handlers : handler'[k].ext = handler[k].ext /\ handler'[k].msg = handler[k].msg
        /\ \A k \in Handlers \ {h} : handler'[k] = handler[k]
        /\ handler'[h].pc = "reconcile"
    BY <2>1 DEF TypeOK, Delivery
  <2>3. \A r \in Rows : ext'[r] = IF r = RowOf(h) THEN handler[h].ext ELSE ext[r]
    BY <2>1 DEF TypeOK
  <2>4. IdsExist'
    BY <1>0, <2>1, <2>2, <2>3 DEF SavedInv, IdsExist, RowOf
  <2>5. PersistHasId' /\ FailureIsError'
    BY <2>2 DEF SavedInv, PersistHasId, FailureIsError
  <2>6. SuccessIsSaved'
    <3> SUFFICES ASSUME NEW k \in Handlers, Succeeded(handler'[k]) PROVE ext'[handler'[k].msg.row] # 0
      BY DEF SuccessIsSaved, RowOf, Succeeded
    <3>1. handler[k].msg.row \in Rows
      BY DEF TypeOK, Delivery, Messages
    <3>2. CASE k = h
      <4>1. handler'[k].msg.row = RowOf(h)
        BY <1>0, <2>2, <3>2
      <4> QED BY <1>0, <2>1, <2>3, <4>1
    <3>3. CASE k # h
      <4>1. handler'[k] = handler[k]
        BY <2>2, <3>3
      <4>2. ext[handler[k].msg.row] # 0
        BY <4>1 DEF SavedInv, SuccessIsSaved, RowOf
      <4> QED BY <2>1, <2>3, <3>1, <4>1, <4>2
    <3> QED BY <3>2, <3>3
  <2>7. ActiveIsSaved' /\ ProcessedIsSaved'
    BY <2>1, <2>3 DEF SavedInv, ActiveIsSaved, ProcessedIsSaved, TypeOK
  <2> QED BY <2>4, <2>5, <2>6, <2>7 DEF SavedInv
<1>13. CASE PersistGone(h)
  BY <1>0, <1>13, ThrowKeepsSavedInv DEF PersistGone
<1>14. CASE PersistFails(h)
  BY <1>0, <1>14, ThrowKeepsSavedInv DEF PersistFails
<1>15. CASE MarkError(h)
  <2>1. \A r \in Rows : status'[r] = "ACTIVE" => status[r] = "ACTIVE"
    BY <1>15 DEF MarkError, TypeOK
  <2>2. handler[h].outcome # "ok"
    BY <1>15 DEF MarkError, SavedInv, FailureIsError
  <2> QED BY <1>15, <2>1, <2>2, GotoKeepsSavedInv DEF MarkError, PCs
<1>16. CASE MarkErrorFails(h)
  <2>1. handler[h].outcome # "ok"
    BY <1>16 DEF MarkErrorFails, SavedInv, FailureIsError
  <2> QED BY <1>16, <2>1, GotoKeepsSavedInv DEF MarkErrorFails, PCs
<1>17. CASE ReconcileRead(h)
  <2>1. handler[h].pc = "reconcile" /\ HandlerOnly
    BY <1>17 DEF ReconcileRead
  <2>2. CASE Exists /\ TargetNow # uacm
    <3> DEFINE d == [handler[h] EXCEPT !.pc = "write", !.target = TargetNow]
    <3>1. handler' = [handler EXCEPT ![h] = d]
      BY <1>17, <2>2 DEF ReconcileRead
    <3>2. TargetNow \in Statuses
      BY <2>2, TargetType DEF TargetNow, Exists, TypeOK
    <3>3. d \in Delivery /\ d.pc = "write" /\ d.ext = handler[h].ext /\ d.msg = handler[h].msg
          /\ d.outcome = handler[h].outcome
      BY <1>0, <3>2 DEF Delivery, PCs
    <3>4. Succeeded(d) => ext[d.msg.row] # 0
      BY <1>0, <2>1, <3>3 DEF Succeeded, SavedInv, SuccessIsSaved
    <3>5. (\A r \in Rows : platform[r] <= platform'[r]) /\ d.ext <= platform'[d.msg.row]
      BY <1>0, <2>1, <3>3
    <3>6. d.pc # "persist" /\ d.pc # "fail"
      BY <3>3
    <3>7. ext' = ext /\ status' = status /\ processed' = processed
      BY <2>1
    <3> HIDE DEF d
    <3> QED BY <3>1, <3>3, <3>4, <3>5, <3>6, <3>7, MoveKeepsSavedInv
  <2>3. CASE ~(Exists /\ TargetNow # uacm)
    <3>1. Goto(h, AfterReconcile(h))
      BY <1>17, <2>3 DEF ReconcileRead
    <3>2. AfterReconcile(h) \in {"mark", "settle"}
      BY DEF AfterReconcile
    <3>3. AfterReconcile(h) = "mark" => ext[RowOf(h)] # 0
      BY <2>1 DEF AfterReconcile, SavedInv, SuccessIsSaved, Succeeded
    <3> QED BY <2>1, <3>1, <3>2, <3>3, GotoKeepsSavedInv DEF PCs
  <2> QED BY <2>2, <2>3
<1>18. CASE ReconcileWrite(h) \/ ReconcileFails(h)
  <2> DEFINE d == [handler[h] EXCEPT !.pc = AfterReconcile(h), !.target = "PENDING"]
  <2>1. /\ handler' = [handler EXCEPT ![h] = d]
        /\ handler[h].pc \in {"reconcile", "write"}
        /\ ext' = ext /\ status' = status /\ processed' = processed /\ platform' = platform
    BY <1>18 DEF ReconcileWrite, ReconcileFails
  <2>2. AfterReconcile(h) \in {"mark", "settle"}
    BY DEF AfterReconcile
  <2>3. d \in Delivery /\ d.pc = AfterReconcile(h) /\ d.ext = handler[h].ext
        /\ d.msg = handler[h].msg
    BY <1>0, <2>2 DEF Delivery, PCs, Statuses
  <2>4. Succeeded(d) => ext[d.msg.row] # 0
    BY <1>0, <2>1, <2>2, <2>3 DEF AfterReconcile, Succeeded, SavedInv, SuccessIsSaved
  <2>5. (\A r \in Rows : platform[r] <= platform'[r]) /\ d.ext <= platform'[d.msg.row]
    BY <1>0, <2>1, <2>3
  <2>6. d.pc # "persist" /\ d.pc # "fail"
    BY <2>2, <2>3
  <2> HIDE DEF d
  <2> QED BY <2>1, <2>3, <2>4, <2>5, <2>6, MoveKeepsSavedInv
<1>19. CASE MarkProcessed(h)
  <2>1. ext[RowOf(h)] # 0
    BY <1>19 DEF MarkProcessed, SavedInv, SuccessIsSaved, Succeeded
  <2> QED BY <1>19, <2>1, GotoKeepsSavedInv DEF MarkProcessed, PCs
<1>20. CASE MarkLookupFails(h)
  BY <1>0, <1>20, ThrowKeepsSavedInv DEF MarkLookupFails
<1>21. CASE MarkInsertFails(h)
  BY <1>21, GotoKeepsSavedInv DEF MarkInsertFails, PCs
<1>22. CASE SettleRetry(h)
  BY <1>22, GotoKeepsSavedInv DEF SettleRetry, PCs
<1>23. CASE SettleDead(h)
  BY <1>23, GotoKeepsSavedInv DEF SettleDead, PCs
<1>24. CASE Ack(h)
  <2>1. Idle.pc = "idle" /\ Idle.ext = 0 /\ Idle.msg.row \in Rows
    BY IdleType DEF Idle, Delivery, Messages
  <2>2. ~Succeeded(Idle)
    BY <2>1 DEF Succeeded
  <2>3. (\A r \in Rows : platform[r] <= platform'[r]) /\ Idle.ext <= platform'[Idle.msg.row]
    BY <1>0, <1>24, <2>1 DEF Ack
  <2> QED BY <1>24, <2>1, <2>2, <2>3, IdleType, MoveKeepsSavedInv DEF Ack
<1> QED
  BY <1>1, <1>2, <1>3, <1>4, <1>5, <1>6, <1>7, <1>8, <1>9, <1>10, <1>11, <1>12, <1>13,
     <1>14, <1>15, <1>16, <1>17, <1>18, <1>19, <1>20, <1>21, <1>22, <1>23, <1>24
  DEF HandlerStep

(* Every step of the system keeps the invariant: outside the deliveries no *)
(* step touches an id, writes ACTIVE, or counts a row as processed.        *)
LEMMA SavedInvStep == TypeOK /\ SavedInv /\ [Next]_vars => SavedInv'
<1> SUFFICES ASSUME TypeOK, SavedInv, [Next]_vars PROVE SavedInv'
  OBVIOUS
<1>0. TypeOK'
  BY TypeStep
<1> DEFINE Calm == /\ handler' = handler /\ ext' = ext /\ processed' = processed
                   /\ platform' = platform
                   /\ \A r \in Rows : status'[r] = "ACTIVE" => status[r] = "ACTIVE"
<1>1. ASSUME Calm PROVE SavedInv'
  BY <1>1 DEF SavedInv, IdsExist, PersistHasId, FailureIsError, SuccessIsSaved,
              ActiveIsSaved, ProcessedIsSaved, RowOf
<1>2. ASSUME NEW h \in Handlers, HandlerStep(h) PROVE SavedInv'
  BY <1>0, <1>2, HandlerStepKeepsSavedInv
<1>3. ASSUME NEW h \in Handlers, NEW m \in Messages, Deliver(h, m) PROVE SavedInv'
  <2> DEFINE d == [Idle EXCEPT !.pc = "check", !.msg = m]
  <2>1. d \in Delivery /\ d.pc = "check" /\ d.ext = 0 /\ d.msg.row \in Rows
    BY IdleType DEF Delivery, PCs, Idle, Messages
  <2>2. ~Succeeded(d)
    BY <2>1 DEF Succeeded
  <2>3. /\ handler' = [handler EXCEPT ![h] = d]
        /\ ext' = ext /\ status' = status /\ processed' = processed /\ platform' = platform
    BY <1>3 DEF Deliver, db, env
  <2>4. (\A r \in Rows : platform[r] <= platform'[r]) /\ d.ext <= platform'[d.msg.row]
    BY <2>1, <2>3 DEF TypeOK
  <2> HIDE DEF d
  <2> QED BY <1>0, <2>1, <2>2, <2>3, <2>4, MoveKeepsSavedInv
<1>4. CASE Crash
  <2>1. handler' = [h \in Handlers |-> Idle] /\ UNCHANGED <<ext, status, processed, platform>>
    BY <1>4 DEF Crash, db
  <2>2. Idle.pc = "idle" /\ Idle.ext = 0 /\ Idle.msg.row \in Rows
    BY IdleType DEF Idle, Delivery, Messages
  <2>3. IdsExist'
    BY <2>1, <2>2 DEF SavedInv, IdsExist, RowOf, TypeOK
  <2>4. PersistHasId' /\ FailureIsError' /\ SuccessIsSaved'
    BY <2>1, <2>2 DEF PersistHasId, FailureIsError, SuccessIsSaved, Succeeded
  <2>5. ActiveIsSaved' /\ ProcessedIsSaved'
    BY <2>1 DEF SavedInv, ActiveIsSaved, ProcessedIsSaved
  <2> QED BY <2>3, <2>4, <2>5 DEF SavedInv
<1>5. ASSUME NEW r \in Rows, RequestStep(r) \/ UserStep(r) PROVE SavedInv'
  <2>1. CASE DisconnectPauses(r)
    BY <1>1, <2>1 DEF DisconnectPauses, env, TypeOK
  <2>2. CASE PublishCreated(r) \/ PublishCreatedFails(r)
    BY <1>1, <2>2 DEF PublishCreated, PublishCreatedFails, db, env
  <2>3. CASE Disconnect(r) \/ Link(r)
    BY <1>1, <2>3 DEF Disconnect, Link, db
  <2> QED BY <1>5, <2>1, <2>2, <2>3 DEF RequestStep, UserStep
<1>6. CASE Age \/ PeriodicSweep \/ StartupSweep
  BY <1>1, <1>6 DEF Age, PeriodicSweep, StartupSweep, db, env
<1>7. CASE Remove
  BY <1>1, <1>7 DEF Remove, env
<1>8. CASE UNCHANGED vars
  BY <1>1, <1>8 DEF vars
<1> QED
  BY <1>2, <1>3, <1>4, <1>5, <1>6, <1>7, <1>8 DEF Next, DeliverAny

(* Right after the commit of the create request nothing is saved yet. *)
LEMMA SavedInvInit == Init => SavedInv
<1>1. Idle.pc = "idle" /\ Idle.ext = 0 /\ Idle.msg.row \in Rows
  BY IdleType DEF Idle, Delivery, Messages
<1> QED
  BY <1>1 DEF Init, SavedInv, IdsExist, PersistHasId, FailureIsError, SuccessIsSaved,
              Succeeded, ActiveIsSaved, ProcessedIsSaved, RowOf

(* The inductive invariant behind the two theorems that follow. *)
THEOREM SavedInvariant == Spec => [](TypeOK /\ SavedInv)
<1>1. Init => TypeOK /\ SavedInv
  BY InitType, SavedInvInit
<1>2. TypeOK /\ SavedInv /\ [Next]_vars => (TypeOK /\ SavedInv)'
  BY TypeStep, SavedInvStep
<1> QED
  BY <1>1, <1>2, PTL DEF Spec

(* A row whose idempotency key is taken has its external id, whatever      *)
(* crashes, failures and duplicate deliveries the run had.                 *)
THEOREM ProcessedSaved == Spec => []ProcessedIsSaved
<1>1. SavedInv => ProcessedIsSaved
  BY DEF SavedInv
<1> QED
  BY <1>1, SavedInvariant, PTL

(* An ACTIVE row refers to a campaign that exists on the platform.         *)
THEOREM ActiveExists == Spec => []ActiveIsOnPlatform
<1>1. TypeOK /\ SavedInv => ActiveIsOnPlatform
  BY DEF SavedInv, IdsExist, ActiveIsSaved, ActiveIsOnPlatform, TypeOK
<1> QED
  BY <1>1, SavedInvariant, PTL

-----------------------------------------------------------------------------
(* No event is forgotten                                                   *)

(* A delivery that stays in progress with its message keeps every copy of  *)
(* every event; it may be acknowledged once its event is answered.         *)
LEMMA MoveKeepsEvents ==
  ASSUME TypeOK, AckIsDue, NEW h \in Handlers, NEW d \in Delivery,
         handler[h].pc # "idle", d.pc # "idle", d.msg = handler[h].msg,
         handler' = [handler EXCEPT ![h] = d],
         queue' = queue,
         Created \subseteq Created', dlq \subseteq dlq',
         d.pc = "ack" => RowOf(h) \in Created' \cup dlq'
  PROVE  AckIsDue' /\ Copies' = Copies
<1>1. /\ handler'[h] = d
      /\ \A k \in Handlers \ {h} : handler'[k] = handler[k]
      /\ \A k \in Handlers : handler'[k].msg = handler[k].msg
      /\ \A k \in Handlers : handler'[k].pc # "idle" <=> handler[k].pc # "idle"
  BY DEF TypeOK
<1>2. Copies' = Copies
  BY <1>1 DEF Copies, InFlight, RowOf
<1>3. AckIsDue'
  <2> SUFFICES ASSUME NEW g \in Handlers, handler'[g].pc = "ack"
               PROVE  Answered(g)' \/ CopyBeyond(g)'
    BY DEF AckIsDue
  <2>1. CASE g = h
    BY <1>1, <2>1 DEF Answered, RowOf
  <2>2. CASE g # h
    BY <1>1, <1>2, <2>2 DEF AckIsDue, Answered, CopyBeyond, RowOf
  <2> QED BY <2>1, <2>2
<1> QED BY <1>2, <1>3

(* What the pipeline holds is what its copies are about. *)
LEMMA SameEvents ==
  ASSUME Copies' = Copies, ext' = ext, dlq' = dlq
  PROVE  [Events!Next]_(Events!vars)
BY DEF Held, Created, Events!vars

(* A copy that nobody takes away stays. *)
LEMMA NewCopies ==
  ASSUME TypeOK, AckIsDue, handler' = handler,
         \A m \in Messages : queue[m] > 0 => queue'[m] > 0, ext' = ext, dlq' = dlq
  PROVE  /\ AckIsDue'
         /\ Copies \subseteq Copies'
<1>1. Copies \subseteq Copies'
  BY DEF Copies, InFlight, RowOf
<1>2. Created' = Created
  BY DEF Created
<1>3. AckIsDue'
  BY <1>1, <1>2 DEF AckIsDue, Answered, CopyBeyond, RowOf
<1> QED BY <1>1, <1>3

(* More copies are more events. *)
LEMMA Publishes ==
  ASSUME TypeOK, Copies \subseteq Copies', ext' = ext, dlq' = dlq
  PROVE  [Events!Next]_(Events!vars)
<1>1. Held \subseteq Held' /\ Held' \subseteq Rows
  BY DEF Held, Copies, Messages
<1>2. Created' = Created
  BY DEF Created
<1>3. Events!Publish(Held')
  BY <1>1, <1>2 DEF Events!Publish
<1> QED BY <1>1, <1>3 DEF Events!Next

(* An error on the way leaves the delivery in progress, not acknowledged. *)
LEMMA ThrowKeepsEvents ==
  ASSUME TypeOK, AckIsDue, NEW h \in Handlers, handler[h].pc # "idle",
         NEW pc \in PCs \ {"idle", "ack"}, NEW o \in Outcomes, Throw(h, pc, o),
         queue' = queue, ext' = ext, dlq' = dlq
  PROVE  AckIsDue' /\ [Events!Next]_(Events!vars)
<1> DEFINE d == [Idle EXCEPT !.pc = pc, !.msg = handler[h].msg, !.outcome = o]
<1>1. d \in Delivery /\ d.pc = pc /\ d.msg = handler[h].msg
  BY IdleType DEF TypeOK, Delivery
<1>2. handler' = [handler EXCEPT ![h] = d] /\ Created' = Created
  BY DEF Throw, Created
<1> HIDE DEF d
<1>3. AckIsDue' /\ Copies' = Copies
  BY <1>1, <1>2, MoveKeepsEvents
<1> QED BY <1>3, SameEvents

(* So does every other await that does not settle the delivery. *)
LEMMA GoKeepsEvents ==
  ASSUME TypeOK, TypeOK', AckIsDue, NEW h \in Handlers, handler[h].pc # "idle",
         handler' = [handler EXCEPT ![h] = handler'[h]],
         handler'[h].pc # "idle", handler'[h].msg = handler[h].msg,
         handler'[h].pc = "ack" => ext[RowOf(h)] # 0,
         queue' = queue, ext' = ext, dlq' = dlq
  PROVE  AckIsDue' /\ [Events!Next]_(Events!vars)
<1>1. handler'[h] \in Delivery /\ Created' = Created
  BY DEF TypeOK, Created
<1>2. RowOf(h) \in Rows
  BY DEF TypeOK, RowOf, Delivery, Messages
<1>3. handler'[h].pc = "ack" => RowOf(h) \in Created' \cup dlq'
  BY <1>1, <1>2 DEF Created
<1>4. AckIsDue' /\ Copies' = Copies
  BY <1>1, <1>3, MoveKeepsEvents
<1> QED BY <1>4, SameEvents

(* Deliveries up to the creation, ... *)
LEMMA EarlyStepsKeepEvents ==
  ASSUME EventInv, TypeOK', NEW h \in Handlers,
         \/ CheckProcessed(h) \/ LoadRow(h) \/ FindAccount(h) \/ ReadFails(h)
         \/ EnforceRateLimit(h) \/ RateLimitExceeded(h)
         \/ RequireToken(h) \/ RefreshFails(h)
         \/ CreateOnPlatform(h) \/ CreateRefused(h) \/ CreateAnswerLost(h)
  PROVE  AckIsDue' /\ [Events!Next]_(Events!vars)
<1> USE DEF HandlerOnly, db
<1>0. TypeOK /\ AckIsDue /\ handler[h] \in Delivery /\ RowOf(h) \in Rows
  BY DEF EventInv, TypeOK, RowOf, Delivery, Messages
<1>1. CASE CheckProcessed(h)
  <2>1. handler'[h].pc \in {"ack", "load"} /\ (handler'[h].pc = "ack" => ext[RowOf(h)] # 0)
    BY <1>0, <1>1 DEF CheckProcessed, Goto, TypeOK, EventInv, SavedInv, ProcessedIsSaved
  <2> QED BY <1>0, <1>1, <2>1, GoKeepsEvents DEF CheckProcessed, Goto, TypeOK, Delivery
<1>2. CASE LoadRow(h)
  <2>1. CASE Exists
    <3>1. handler' = [handler EXCEPT ![h] =
                        [handler[h] EXCEPT !.pc = "account", !.ext = ext[RowOf(h)]]]
      BY <1>0, <1>2, <2>1 DEF LoadRow, TypeOK
    <3>2. handler'[h].pc = "account" /\ handler'[h].msg = handler[h].msg
          /\ handler' = [handler EXCEPT ![h] = handler'[h]]
      BY <1>0, <3>1 DEF TypeOK, Delivery
    <3> QED BY <1>0, <1>2, <3>2, GoKeepsEvents DEF LoadRow
  <2>2. CASE ~Exists
    BY <1>0, <1>2, <2>2, ThrowKeepsEvents DEF LoadRow, PCs, Outcomes
  <2> QED BY <2>1, <2>2
<1>3. CASE FindAccount(h)
  <2>1. CASE account[RowOf(h)] = "none"
    BY <1>0, <1>3, <2>1, ThrowKeepsEvents DEF FindAccount, PCs, Outcomes
  <2>2. CASE account[RowOf(h)] # "none"
    <3>1. handler' = [handler EXCEPT ![h] =
                        [handler[h] EXCEPT !.pc = "limit", !.usable = account[RowOf(h)] = "usable"]]
      BY <1>0, <1>3, <2>2 DEF FindAccount, TypeOK
    <3>2. handler'[h].pc = "limit" /\ handler'[h].msg = handler[h].msg
          /\ handler' = [handler EXCEPT ![h] = handler'[h]]
      BY <1>0, <3>1 DEF TypeOK, Delivery
    <3> QED BY <1>0, <1>3, <3>2, GoKeepsEvents DEF FindAccount
  <2> QED BY <2>1, <2>2
<1>4. CASE ReadFails(h)
  BY <1>0, <1>4, ThrowKeepsEvents DEF ReadFails, PCs, Outcomes
<1>5. CASE EnforceRateLimit(h)
  BY <1>0, <1>5, GoKeepsEvents DEF EnforceRateLimit, Goto, TypeOK, Delivery
<1>6. CASE RateLimitExceeded(h)
  BY <1>0, <1>6, ThrowKeepsEvents DEF RateLimitExceeded, PCs, Outcomes
<1>7. CASE RequireToken(h)
  <2>1. CASE handler[h].usable
    <3>1. handler'[h].pc \in {"create", "persist"} /\ handler'[h].msg = handler[h].msg
          /\ handler' = [handler EXCEPT ![h] = handler'[h]]
      BY <1>0, <1>7, <2>1 DEF RequireToken, Goto, TypeOK, Delivery
    <3> QED BY <1>0, <1>7, <3>1, GoKeepsEvents DEF RequireToken
  <2>2. CASE ~handler[h].usable
    BY <1>0, <1>7, <2>2, ThrowKeepsEvents DEF RequireToken, PCs, Outcomes
  <2> QED BY <2>1, <2>2
<1>8. CASE RefreshFails(h)
  BY <1>0, <1>8, ThrowKeepsEvents DEF RefreshFails, PCs, Outcomes
<1>9. CASE CreateOnPlatform(h)
  <2>1. handler'[h].pc = "persist" /\ handler'[h].msg = handler[h].msg
        /\ handler' = [handler EXCEPT ![h] = handler'[h]]
    BY <1>0, <1>9 DEF CreateOnPlatform, TypeOK, Delivery
  <2> QED BY <1>0, <1>9, <2>1, GoKeepsEvents DEF CreateOnPlatform
<1>10. CASE CreateRefused(h)
  BY <1>0, <1>10, ThrowKeepsEvents DEF CreateRefused, PCs, Outcomes
<1>11. CASE CreateAnswerLost(h)
  BY <1>0, <1>11, ThrowKeepsEvents DEF CreateAnswerLost, PCs, Outcomes
<1> QED
  BY <1>1, <1>2, <1>3, <1>4, <1>5, <1>6, <1>7, <1>8, <1>9, <1>10, <1>11

(* ... saving the id, which creates the row, ... *)
LEMMA PersistKeepsEvents ==
  ASSUME EventInv, TypeOK', NEW h \in Handlers, Persist(h)
  PROVE  AckIsDue' /\ [Events!Next]_(Events!vars)
<1>0. TypeOK /\ AckIsDue /\ handler[h] \in Delivery /\ RowOf(h) \in Rows /\ handler[h].msg \in Messages
  BY DEF EventInv, TypeOK, RowOf, Delivery, Messages
<1>1. handler[h].pc = "persist" /\ handler[h].ext # 0
  BY DEF Persist, EventInv, SavedInv, PersistHasId
<1>2. /\ handler'[h] \in Delivery /\ handler'[h].pc = "reconcile"
      /\ handler'[h].msg = handler[h].msg
      /\ handler' = [handler EXCEPT ![h] = handler'[h]]
  BY <1>0 DEF Persist, TypeOK, Delivery
<1>3. Created' = Created \cup {RowOf(h)}
  BY <1>0, <1>1 DEF Persist, Created, TypeOK
<1>4. queue' = queue /\ dlq' = dlq
  BY DEF Persist
<1>5. AckIsDue' /\ Copies' = Copies
  BY <1>0, <1>1, <1>2, <1>3, <1>4, MoveKeepsEvents
<1>6. RowOf(h) \in Held /\ Held' = Held
  <2>1. handler[h].msg \in Copies
    BY <1>0, <1>1 DEF Copies, InFlight, RowOf
  <2> QED BY <1>5, <2>1 DEF Held, RowOf
<1>7. Events!Create(RowOf(h))
  BY <1>3, <1>4, <1>6 DEF Events!Create
<1> QED BY <1>0, <1>5, <1>7 DEF Events!Next

(* ... and the rest of the handler. *)
LEMMA LateStepsKeepEvents ==
  ASSUME EventInv, TypeOK', NEW h \in Handlers,
         \/ PersistGone(h) \/ PersistFails(h) \/ MarkError(h) \/ MarkErrorFails(h)
         \/ ReconcileRead(h) \/ ReconcileWrite(h) \/ ReconcileFails(h)
         \/ MarkProcessed(h) \/ MarkLookupFails(h) \/ MarkInsertFails(h)
  PROVE  AckIsDue' /\ [Events!Next]_(Events!vars)
<1> USE DEF HandlerOnly, db
<1>0. TypeOK /\ AckIsDue /\ handler[h] \in Delivery /\ RowOf(h) \in Rows
  BY DEF EventInv, TypeOK, RowOf, Delivery, Messages
<1>1. CASE PersistGone(h)
  BY <1>0, <1>1, ThrowKeepsEvents DEF PersistGone, PCs, Outcomes
<1>2. CASE PersistFails(h)
  BY <1>0, <1>2, ThrowKeepsEvents DEF PersistFails, PCs, Outcomes
<1>3. CASE MarkError(h) \/ MarkErrorFails(h)
  BY <1>0, <1>3, GoKeepsEvents DEF MarkError, MarkErrorFails, Goto, TypeOK, Delivery
<1>4. CASE ReconcileRead(h)
  <2>1. handler'[h].pc \in {"write", "mark", "settle"} /\ handler'[h].msg = handler[h].msg
        /\ handler' = [handler EXCEPT ![h] = handler'[h]]
    BY <1>0, <1>4 DEF ReconcileRead, AfterReconcile, Goto, TypeOK, Delivery
  <2> QED BY <1>0, <1>4, <2>1, GoKeepsEvents DEF ReconcileRead, AfterReconcile, Goto
<1>5. CASE ReconcileWrite(h)
  <2>1. handler'[h].pc \in {"mark", "settle"} /\ handler'[h].msg = handler[h].msg
        /\ handler' = [handler EXCEPT ![h] = handler'[h]]
    BY <1>0, <1>5 DEF ReconcileWrite, AfterReconcile, TypeOK, Delivery
  <2> QED BY <1>0, <1>5, <2>1, GoKeepsEvents DEF ReconcileWrite, AfterReconcile
<1>6. CASE ReconcileFails(h)
  <2>1. handler'[h].pc \in {"mark", "settle"} /\ handler'[h].msg = handler[h].msg
        /\ handler' = [handler EXCEPT ![h] = handler'[h]]
    BY <1>0, <1>6 DEF ReconcileFails, AfterReconcile, TypeOK, Delivery
  <2> QED BY <1>0, <1>6, <2>1, GoKeepsEvents DEF ReconcileFails, AfterReconcile
<1>7. CASE MarkLookupFails(h)
  BY <1>0, <1>7, ThrowKeepsEvents DEF MarkLookupFails, PCs, Outcomes
<1>8. CASE MarkProcessed(h) \/ MarkInsertFails(h)
  <2>1. ext[RowOf(h)] # 0
    BY <1>8 DEF MarkProcessed, MarkInsertFails, EventInv, SavedInv, SuccessIsSaved, Succeeded
  <2> QED BY <1>0, <1>8, <2>1, GoKeepsEvents DEF MarkProcessed, MarkInsertFails, Goto, TypeOK, Delivery
<1> QED
  BY <1>1, <1>2, <1>3, <1>4, <1>5, <1>6, <1>7, <1>8

(* A retry leaves a copy with a higher count. *)
LEMMA RetryKeepsEvents ==
  ASSUME EventInv, TypeOK', NEW h \in Handlers, SettleRetry(h)
  PROVE  AckIsDue' /\ [Events!Next]_(Events!vars)
<1> DEFINE next == [handler[h].msg EXCEPT !.attempt = @ + 1]
<1>0. TypeOK /\ AckIsDue /\ handler[h] \in Delivery /\ handler[h].msg \in Messages
  BY DEF EventInv, TypeOK, Delivery
<1>1. /\ next \in Messages /\ next.row = RowOf(h)
      /\ next.attempt > handler[h].msg.attempt
  BY <1>0, RetriesAssumption DEF SettleRetry, Exhausted, Messages, RowOf
<1> HIDE DEF next
<1>2. /\ handler' = [handler EXCEPT ![h].pc = "ack"] /\ handler[h].pc # "idle"
      /\ queue' = [queue EXCEPT ![next] = @ + 1] /\ ext' = ext /\ dlq' = dlq
  BY DEF SettleRetry, Goto, db, next
<1>3. /\ \A k \in Handlers : handler'[k].msg = handler[k].msg
      /\ \A k \in Handlers : handler'[k].pc # "idle" <=> handler[k].pc # "idle"
      /\ \A k \in Handlers : handler'[k].pc = "ack" => k = h \/ handler[k].pc = "ack"
  BY <1>0, <1>2 DEF TypeOK, Delivery
<1>4. queue'[next] > 0 /\ \A m \in Messages : queue[m] > 0 => queue'[m] > 0
  BY <1>0, <1>1, <1>2 DEF TypeOK
<1>5. Copies \subseteq Copies' /\ next \in Copies'
  BY <1>1, <1>3, <1>4 DEF Copies, InFlight, RowOf
<1>6. Created' = Created
  BY <1>2 DEF Created
<1>7. AckIsDue'
  <2> SUFFICES ASSUME NEW g \in Handlers, handler'[g].pc = "ack"
               PROVE  Answered(g)' \/ CopyBeyond(g)'
    BY DEF AckIsDue
  <2>1. CASE g = h
    BY <1>1, <1>3, <1>5, <2>1 DEF CopyBeyond, RowOf
  <2>2. CASE g # h
    <3>1. Answered(g) \/ CopyBeyond(g)
      BY <1>0, <1>3, <2>2 DEF AckIsDue
    <3> QED BY <1>2, <1>3, <1>5, <1>6, <3>1 DEF Answered, CopyBeyond, RowOf
  <2> QED BY <2>1, <2>2
<1> QED BY <1>0, <1>2, <1>5, <1>7, Publishes

(* A dead letter answers the event. *)
LEMMA DeadKeepsEvents ==
  ASSUME EventInv, TypeOK', NEW h \in Handlers, SettleDead(h)
  PROVE  AckIsDue' /\ [Events!Next]_(Events!vars)
<1>0. TypeOK /\ AckIsDue /\ handler[h] \in Delivery /\ RowOf(h) \in Rows /\ handler[h].msg \in Messages
  BY DEF EventInv, TypeOK, RowOf, Delivery, Messages
<1>1. /\ handler[h].pc = "settle" /\ dlq' = dlq \cup {RowOf(h)}
      /\ queue' = queue /\ ext' = ext
  BY DEF SettleDead, db
<1>2. /\ handler'[h] \in Delivery /\ handler'[h].pc = "ack"
      /\ handler'[h].msg = handler[h].msg
      /\ handler' = [handler EXCEPT ![h] = handler'[h]]
  BY <1>0 DEF SettleDead, Goto, TypeOK, Delivery
<1>3. Created' = Created
  BY <1>1 DEF Created
<1>4. AckIsDue' /\ Copies' = Copies
  BY <1>0, <1>1, <1>2, <1>3, MoveKeepsEvents
<1>5. RowOf(h) \in Held /\ Held' = Held
  <2>1. handler[h].msg \in Copies
    BY <1>0, <1>1 DEF Copies, InFlight, RowOf
  <2> QED BY <1>4, <2>1 DEF Held, RowOf
<1>6. Events!Bury(RowOf(h))
  BY <1>1, <1>3, <1>5 DEF Events!Bury
<1> QED BY <1>0, <1>4, <1>6 DEF Events!Next

(* Acknowledging takes one copy away.  If it was the last of its row, the  *)
(* row is created or dead.                                                 *)
LEMMA AckKeepsEvents ==
  ASSUME EventInv, TypeOK', NEW h \in Handlers, Ack(h)
  PROVE  AckIsDue' /\ [Events!Next]_(Events!vars)
<1>0. TypeOK /\ AckIsDue /\ handler[h] \in Delivery /\ RowOf(h) \in Rows /\ handler[h].msg \in Messages
  BY DEF EventInv, TypeOK, RowOf, Delivery, Messages
<1>1. /\ handler[h].pc = "ack" /\ handler' = [handler EXCEPT ![h] = Idle] /\ Idle.pc = "idle"
      /\ queue' = queue /\ ext' = ext /\ dlq' = dlq
  BY DEF Ack, HandlerOnly, db, Idle
<1>2. /\ \A k \in Handlers \ {h} : handler'[k] = handler[k]
      /\ handler'[h].pc = "idle"
  BY <1>0, <1>1 DEF TypeOK
<1>3. Created' = Created
  BY <1>1 DEF Created
<1>4. Copies' \subseteq Copies /\ Copies \subseteq Copies' \cup {handler[h].msg}
  BY <1>1, <1>2 DEF Copies, InFlight, RowOf
<1>5. Answered(h) \/ CopyBeyond(h)
  BY <1>0, <1>1 DEF AckIsDue
(* What a copy of h's message was good for, one beyond it is good for. *)
<1>6. ASSUME NEW m \in Copies, m.row = RowOf(h)
      PROVE  \/ RowOf(h) \in Created \cup dlq
             \/ \E n \in Copies' : n.row = RowOf(h) /\ n.attempt >= m.attempt
  <2>1. CASE m # handler[h].msg
    BY <1>4, <1>6, <2>1 DEF Copies, Messages
  <2>2. CASE m = handler[h].msg
    <3>1. CASE Answered(h)
      BY <3>1 DEF Answered
    <3>2. CASE CopyBeyond(h)
      <4>1. PICK n \in Copies : n.row = RowOf(h) /\ n.attempt > m.attempt
        BY <2>2, <3>2 DEF CopyBeyond
      <4>2. n \in Copies' /\ n.attempt >= m.attempt
        BY <1>0, <1>4, <2>2, <4>1 DEF Copies, Messages
      <4> QED BY <4>1, <4>2
    <3> QED BY <1>5, <3>1, <3>2
  <2> QED BY <2>1, <2>2
<1>7. AckIsDue'
  <2> SUFFICES ASSUME NEW g \in Handlers, handler'[g].pc = "ack"
               PROVE  Answered(g)' \/ CopyBeyond(g)'
    BY DEF AckIsDue
  <2>1. g # h /\ handler'[g] = handler[g] /\ handler[g].msg \in Messages
    BY <1>0, <1>2 DEF TypeOK, Delivery
  <2>2. CASE Answered(g)
    BY <1>1, <1>3, <2>1, <2>2 DEF Answered, RowOf
  <2>3. CASE CopyBeyond(g)
    <3>1. PICK m \in Copies : m.row = RowOf(g) /\ m.attempt > handler[g].msg.attempt
      BY <2>3 DEF CopyBeyond
    <3>2. CASE RowOf(g) # RowOf(h)
      <4>1. m \in Copies'
        BY <1>4, <3>1, <3>2 DEF RowOf
      <4> QED BY <2>1, <3>1, <4>1 DEF CopyBeyond, RowOf
    <3>3. CASE RowOf(g) = RowOf(h) /\ RowOf(h) \in Created \cup dlq
      BY <1>1, <1>3, <2>1, <3>3 DEF Answered, RowOf
    <3>4. CASE RowOf(g) = RowOf(h) /\ RowOf(h) \notin Created \cup dlq
      <4>1. PICK n \in Copies' : n.row = RowOf(h) /\ n.attempt >= m.attempt
        BY <1>6, <3>1, <3>4
      <4>2. n.attempt > handler[g].msg.attempt
        BY <1>4, <2>1, <3>1, <4>1 DEF Copies, Messages
      <4> QED BY <2>1, <3>4, <4>1, <4>2 DEF CopyBeyond, RowOf
    <3> QED BY <3>2, <3>3, <3>4
  <2> QED BY <1>0, <2>1, <2>2, <2>3 DEF AckIsDue
<1>8. Held' = Held \/ (Held' = Held \ {RowOf(h)} /\ RowOf(h) \in Created \cup dlq)
  <2>1. Held' \subseteq Held /\ Held \subseteq Held' \cup {RowOf(h)}
    BY <1>4 DEF Held, RowOf
  <2>2. CASE RowOf(h) \in Held'
    BY <2>1, <2>2
  <2>3. CASE RowOf(h) \notin Held'
    <3>1. handler[h].msg \in Copies /\ handler[h].msg.row = RowOf(h)
      BY <1>0, <1>1 DEF Copies, InFlight, RowOf
    <3>2. RowOf(h) \in Created \cup dlq
      BY <1>6, <2>3, <3>1 DEF Held
    <3> QED BY <2>1, <2>3, <3>2
  <2> QED BY <2>2, <2>3
<1>9. RowOf(h) \in Held
  BY <1>0, <1>1 DEF Held, Copies, InFlight, RowOf
<1>10. CASE Held' = Held
  BY <1>1, <1>3, <1>7, <1>10 DEF Events!vars
<1>11. CASE Held' = Held \ {RowOf(h)} /\ RowOf(h) \in Created \cup dlq
  <2>1. Events!Forget(RowOf(h))
    BY <1>1, <1>3, <1>9, <1>11 DEF Events!Forget
  <2> QED BY <1>0, <1>7, <2>1 DEF Events!Next
<1> QED BY <1>8, <1>10, <1>11

(* A delivery takes a message out of the queue and has it in progress. *)
LEMMA DeliverKeepsEvents ==
  ASSUME EventInv, TypeOK', NEW h \in Handlers, NEW m \in Messages, Deliver(h, m)
  PROVE  AckIsDue' /\ [Events!Next]_(Events!vars)
<1>0. TypeOK /\ AckIsDue
  BY DEF EventInv
<1>1. /\ handler[h].pc = "idle" /\ handler'[h].pc = "check" /\ handler'[h].msg = m
      /\ \A k \in Handlers \ {h} : handler'[k] = handler[k]
      /\ ext' = ext /\ dlq' = dlq
  BY <1>0 DEF Deliver, db, TypeOK, Idle
<1>2. \A n \in Messages \ {m} : queue'[n] = queue[n]
  BY <1>0 DEF Deliver, TypeOK
<1>3. Copies \subseteq Copies'
  BY <1>1, <1>2 DEF Copies, InFlight, RowOf
<1>4. Created' = Created
  BY <1>1 DEF Created
<1>5. AckIsDue'
  BY <1>0, <1>1, <1>3, <1>4 DEF AckIsDue, Answered, CopyBeyond, RowOf
<1> QED BY <1>0, <1>1, <1>3, <1>5, Publishes

(* A crash returns to the queue what was in progress. *)
LEMMA CrashKeepsEvents ==
  ASSUME EventInv, TypeOK', Crash
  PROVE  AckIsDue' /\ [Events!Next]_(Events!vars)
<1>0. TypeOK
  BY DEF EventInv
<1>1. /\ handler' = [h \in Handlers |-> Idle] /\ Idle.pc = "idle" /\ ext' = ext /\ dlq' = dlq
  BY DEF Crash, db, Idle
<1>2. AckIsDue'
  BY <1>1 DEF AckIsDue
<1>3. ASSUME NEW m \in Copies PROVE queue'[m] > 0
  <2> DEFINE S == {h \in Handlers : handler[h].pc # "idle" /\ handler[h].msg = m}
  <2>1. m \in Messages /\ queue[m] \in Nat
    BY <1>0 DEF Copies, TypeOK
  <2>2. S \subseteq Handlers
    OBVIOUS
  <2>3. IsFiniteSet(S) /\ Cardinality(S) \in Nat
    BY <2>2, HandlersAssumption, FS_Subset, FS_CardinalityType
  <2>4. queue'[m] = queue[m] + Cardinality(S)
    BY <2>1 DEF Crash
  <2>5. CASE queue[m] > 0
    BY <2>1, <2>3, <2>4, <2>5
  <2>6. CASE ~(queue[m] > 0)
    <3>1. S # {}
      BY <2>6 DEF Copies, InFlight
    <3>2. Cardinality(S) # 0
      BY <2>3, <3>1, FS_EmptySet
    <3> QED BY <2>1, <2>3, <2>4, <3>2
  <2> QED BY <2>5, <2>6
<1>4. Copies \subseteq Copies'
  BY <1>3 DEF Copies
<1> QED BY <1>0, <1>1, <1>2, <1>4, Publishes

(* Every step maps to a step of CreationEvents or to a stutter. *)
LEMMA EventStep == EventInv /\ [Next]_vars => EventInv' /\ [Events!Next]_(Events!vars)
<1> SUFFICES ASSUME EventInv, [Next]_vars
             PROVE  EventInv' /\ [Events!Next]_(Events!vars)
  OBVIOUS
<1>0. TypeOK /\ SavedInv /\ AckIsDue /\ TypeOK' /\ SavedInv'
  BY TypeStep, SavedInvStep DEF EventInv
<1> SUFFICES AckIsDue' /\ [Events!Next]_(Events!vars)
  BY <1>0 DEF EventInv
<1> DEFINE Adds == /\ handler' = handler /\ ext' = ext /\ dlq' = dlq
                   /\ \A m \in Messages : queue[m] > 0 => queue'[m] > 0
<1>1. ASSUME Adds PROVE AckIsDue' /\ [Events!Next]_(Events!vars)
  BY <1>0, <1>1, NewCopies, Publishes
<1>2. ASSUME NEW h \in Handlers, HandlerStep(h)
      PROVE  AckIsDue' /\ [Events!Next]_(Events!vars)
  BY <1>0, <1>2, EarlyStepsKeepEvents, PersistKeepsEvents, LateStepsKeepEvents,
     RetryKeepsEvents, DeadKeepsEvents, AckKeepsEvents DEF HandlerStep
<1>3. ASSUME NEW h \in Handlers, NEW m \in Messages, Deliver(h, m)
      PROVE  AckIsDue' /\ [Events!Next]_(Events!vars)
  BY <1>0, <1>3, DeliverKeepsEvents
<1>4. CASE Crash
  BY <1>0, <1>4, CrashKeepsEvents
<1>5. ASSUME NEW r \in Rows, RequestStep(r) \/ UserStep(r) PROVE Adds
  <2>1. CASE PublishCreated(r)
    <3>1. FirstMessage(r) \in Messages /\ \A m \in Messages : queue[m] \in Nat
      BY <1>0, IdleType DEF TypeOK
    <3> QED BY <1>0, <2>1, <3>1 DEF PublishCreated, db, TypeOK
  <2>2. CASE PublishCreatedFails(r) \/ DisconnectPauses(r) \/ Disconnect(r) \/ Link(r)
    BY <2>2 DEF PublishCreatedFails, DisconnectPauses, Disconnect, Link, db
  <2> QED BY <1>5, <2>1, <2>2 DEF RequestStep, UserStep
<1>6. CASE Age \/ Remove \/ UNCHANGED vars
  BY <1>1, <1>6 DEF Age, Remove, vars, db
<1>7. CASE PeriodicSweep \/ StartupSweep
  <2>1. \A m \in Messages : queue[m] \in Nat
    BY <1>0 DEF TypeOK
  <2>2. Adds
    BY <1>7, <2>1 DEF PeriodicSweep, StartupSweep, Republish, db
  <2> QED BY <1>1, <2>2
<1> HIDE DEF Adds
<1> QED
  BY <1>1, <1>2, <1>3, <1>4, <1>5, <1>6, <1>7 DEF Next, DeliverAny

(* No event is forgotten: the consumer with its retries, crashes and       *)
(* overlapping deliveries implements CreationEvents.                       *)
THEOREM EventsAnswered == Spec => EventsAreAnswered
<1>1. Init => EventInv /\ Events!Init
  <2> SUFFICES ASSUME Init PROVE EventInv /\ Events!Init
    OBVIOUS
  <2>1. TypeOK /\ SavedInv
    BY InitType, SavedInvInit
  <2>2. Idle.pc = "idle"
    BY DEF Idle
  <2>3. AckIsDue
    BY <2>2 DEF Init, AckIsDue
  <2>4. Copies = {} /\ Created = {} /\ dlq = {}
    BY <2>2 DEF Init, Copies, InFlight, Created
  <2>5. Held = {}
    BY <2>4 DEF Held
  <2> QED BY <2>1, <2>3, <2>4, <2>5 DEF EventInv, Events!Init
<1>2. EventInv /\ [Next]_vars => EventInv' /\ [Events!Next]_(Events!vars)
  BY EventStep
<1> QED
  BY <1>1, <1>2, PTL DEF Spec, EventsAreAnswered, Events!Spec

-----------------------------------------------------------------------------
(* Errors and dead letters                                                 *)

(* What leaving the handler with an error does to a delivery, ...          *)
LEMMA ThrowEffect ==
  ASSUME TypeOK, NEW h \in Handlers, NEW pc, NEW o, Throw(h, pc, o)
  PROVE  /\ handler'[h].pc = pc /\ handler'[h].outcome = o /\ handler'[h].ext = 0
         /\ handler'[h].msg = handler[h].msg
         /\ \A k \in Handlers \ {h} : handler'[k] = handler[k]
<1>1. handler'[h] = [Idle EXCEPT !.pc = pc, !.msg = handler[h].msg, !.outcome = o]
  BY DEF Throw, TypeOK
<1>2. \A k \in Handlers \ {h} : handler'[k] = handler[k]
  BY DEF Throw, TypeOK
<1>3. Idle = [pc |-> "idle", msg |-> Idle.msg, ext |-> 0,
              usable |-> FALSE, target |-> "PENDING", outcome |-> "ok"]
  BY DEF Idle
<1> QED BY <1>1, <1>2, <1>3

(* ... and what moving on to another await does.                           *)
LEMMA GotoEffect ==
  ASSUME TypeOK, NEW h \in Handlers, NEW pc, Goto(h, pc)
  PROVE  /\ handler'[h] = [handler[h] EXCEPT !.pc = pc]
         /\ handler'[h].pc = pc /\ handler'[h].outcome = handler[h].outcome
         /\ handler'[h].ext = handler[h].ext /\ handler'[h].msg = handler[h].msg
         /\ handler'[h].target = handler[h].target /\ handler'[h].usable = handler[h].usable
         /\ \A k \in Handlers \ {h} : handler'[k] = handler[k]
BY DEF Goto, TypeOK, Delivery

(* One await of a delivery: the others stay where they are, the delivery   *)
(* keeps its message until it is acknowledged, and no message is taken     *)
(* from the queue.                                                         *)
LEMMA HandlerStepMoves ==
  ASSUME TypeOK, TypeOK', NEW h \in Handlers, HandlerStep(h)
  PROVE  /\ \A k \in Handlers \ {h} : handler'[k] = handler[k]
         /\ Ack(h) \/ handler'[h].msg = handler[h].msg
         /\ handler[h].pc # "idle"
         /\ handler[h] \in Delivery /\ handler'[h] \in Delivery
         /\ RowOf(h) \in Rows
         /\ \A r \in Rows \ {RowOf(h)} : status'[r] = status[r]
         /\ dlq \subseteq dlq' /\ processed \subseteq processed'
         /\ \A m \in Messages : queue[m] > 0 => queue'[m] > 0
<1> USE DEF HandlerOnly, db
<1>0. /\ handler[h] \in Delivery /\ handler'[h] \in Delivery
      /\ RowOf(h) \in Rows /\ handler[h].msg \in Messages
  BY DEF TypeOK, RowOf, Delivery, Messages
<1>1. CASE CheckProcessed(h) \/ EnforceRateLimit(h)
  BY <1>0, <1>1, GotoEffect DEF CheckProcessed, EnforceRateLimit
<1>2. CASE LoadRow(h) \/ FindAccount(h)
  BY <1>0, <1>2, ThrowEffect DEF LoadRow, FindAccount, TypeOK, Delivery
<1>3. CASE ReadFails(h) \/ RateLimitExceeded(h) \/ RefreshFails(h) \/ CreateRefused(h)
  BY <1>0, <1>3, ThrowEffect DEF ReadFails, RateLimitExceeded, RefreshFails, CreateRefused
<1>4. CASE RequireToken(h)
  BY <1>0, <1>4, ThrowEffect, GotoEffect DEF RequireToken
<1>5. CASE CreateOnPlatform(h)
  BY <1>0, <1>5 DEF CreateOnPlatform, TypeOK, Delivery
<1>6. CASE CreateAnswerLost(h) \/ PersistGone(h) \/ PersistFails(h) \/ MarkLookupFails(h)
  BY <1>0, <1>6, ThrowEffect DEF CreateAnswerLost, PersistGone, PersistFails, MarkLookupFails
<1>7. CASE Persist(h)
  BY <1>0, <1>7 DEF Persist, TypeOK, Delivery
<1>8. CASE MarkError(h) \/ MarkErrorFails(h)
  BY <1>0, <1>8, GotoEffect DEF MarkError, MarkErrorFails, TypeOK
<1>9. CASE ReconcileRead(h) \/ ReconcileWrite(h) \/ ReconcileFails(h)
  BY <1>0, <1>9, GotoEffect DEF ReconcileRead, ReconcileWrite, ReconcileFails, TypeOK, Delivery
<1>10. CASE MarkProcessed(h) \/ MarkInsertFails(h) \/ SettleDead(h)
  BY <1>0, <1>10, GotoEffect DEF MarkProcessed, MarkInsertFails, SettleDead
<1>11. CASE Ack(h)
  BY <1>0, <1>11 DEF Ack, TypeOK
<1>12. CASE SettleRetry(h)
  <2>1. \A m \in Messages : queue[m] > 0 => queue'[m] > 0
    BY <1>0, <1>12 DEF SettleRetry, TypeOK
  <2> QED BY <1>0, <1>12, <2>1, GotoEffect DEF SettleRetry
<1> QED
  BY <1>1, <1>2, <1>3, <1>4, <1>5, <1>6, <1>7, <1>8, <1>9, <1>10, <1>11, <1>12
  DEF HandlerStep

(* A delivery keeps the errors due when it stays unfinished, when it       *)
(* settles its row, or when the row was no concern of it.                  *)
LEMMA MoveKeepsErrorsDue ==
  ASSUME TypeOK, TypeOK', ErrorIsDue, NEW h \in Handlers, HandlerStep(h),
         \/ Unfinished(handler'[h])
         \/ RowOf(h) \in dlq' \cup processed'
         \/ \E m \in Messages : m.row = RowOf(h) /\ queue'[m] > 0
         \/ status'[RowOf(h)] # "ERROR"
         \/ ~Unfinished(handler[h]) /\ status'[RowOf(h)] = status[RowOf(h)]
  PROVE  ErrorIsDue'
<1>0. /\ \A k \in Handlers \ {h} : handler'[k] = handler[k]
      /\ Ack(h) \/ handler'[h].msg = handler[h].msg
      /\ RowOf(h) \in Rows
      /\ \A r \in Rows \ {RowOf(h)} : status'[r] = status[r]
      /\ dlq \subseteq dlq' /\ processed \subseteq processed'
      /\ \A m \in Messages : queue[m] > 0 => queue'[m] > 0
  BY HandlerStepMoves
<1>1. Unfinished(handler'[h]) => handler'[h].msg = handler[h].msg
  BY <1>0 DEF Ack, Unfinished, Idle, TypeOK
<1> SUFFICES ASSUME NEW r \in Rows, status'[r] = "ERROR"
             PROVE  \/ r \in dlq' \cup processed'
                    \/ Queued(r)' # {}
                    \/ \E k \in Handlers : RowOf(k)' = r /\ Unfinished(handler'[k])
  BY DEF ErrorIsDue, Unfinished, Succeeded
<1>2. Queued(r) # {} => Queued(r)' # {}
  BY <1>0 DEF Queued
<1>3. CASE r # RowOf(h)
  BY <1>0, <1>2, <1>3 DEF ErrorIsDue, RowOf
<1>4. CASE r = RowOf(h)
  <2>1. CASE Unfinished(handler'[h])
    BY <1>1, <1>4, <2>1 DEF RowOf
  <2>2. CASE \E m \in Messages : m.row = RowOf(h) /\ queue'[m] > 0
    BY <1>4, <2>2 DEF Queued
  <2>3. CASE ~Unfinished(handler[h]) /\ status'[RowOf(h)] = status[RowOf(h)]
    BY <1>0, <1>2, <1>4, <2>3 DEF ErrorIsDue, RowOf
  <2> QED BY <1>4, <2>1, <2>2, <2>3
<1> QED BY <1>3, <1>4

(* Every await of a delivery does one of these. *)
LEMMA HandlerStepKeepsErrorsDue ==
  ASSUME TypeOK, TypeOK', SavedInv, ErrorIsDue, NEW h \in Handlers, HandlerStep(h)
  PROVE  ErrorIsDue'
<1> USE DEF HandlerOnly, db
<1>0. /\ handler[h] \in Delivery /\ RowOf(h) \in Rows /\ handler[h].msg \in Messages
  BY DEF TypeOK, RowOf, Delivery, Messages
<1> DEFINE Settles == \/ Unfinished(handler'[h])
                      \/ RowOf(h) \in dlq' \cup processed'
                      \/ \E m \in Messages : m.row = RowOf(h) /\ queue'[m] > 0
                      \/ status'[RowOf(h)] # "ERROR"
                      \/ ~Unfinished(handler[h]) /\ status'[RowOf(h)] = status[RowOf(h)]
<1>1. CASE CheckProcessed(h)
  <2>1. handler'[h].pc = IF RowOf(h) \in processed THEN "ack" ELSE "load"
    BY <1>1, GotoEffect DEF CheckProcessed
  <2> Settles
    BY <1>1, <2>1 DEF CheckProcessed, Unfinished, Succeeded
  <2> QED BY MoveKeepsErrorsDue
<1>2. CASE LoadRow(h) \/ FindAccount(h)
  <2> Settles
    BY <1>0, <1>2, ThrowEffect DEF LoadRow, FindAccount, TypeOK, Delivery, Unfinished, Succeeded
  <2> QED BY MoveKeepsErrorsDue
<1>3. CASE \/ ReadFails(h) \/ RateLimitExceeded(h) \/ RefreshFails(h) \/ CreateRefused(h)
           \/ CreateAnswerLost(h) \/ PersistGone(h) \/ PersistFails(h) \/ MarkLookupFails(h)
  <2> Settles
    BY <1>0, <1>3, ThrowEffect DEF ReadFails, RateLimitExceeded, RefreshFails, CreateRefused,
       CreateAnswerLost, PersistGone, PersistFails, MarkLookupFails, Unfinished, Succeeded
  <2> QED BY MoveKeepsErrorsDue
<1>4. CASE EnforceRateLimit(h) \/ RequireToken(h)
  <2>1. handler'[h].pc \in {"token", "create", "persist", "fail"}
    BY <1>4, ThrowEffect, GotoEffect DEF EnforceRateLimit, RequireToken
  <2> Settles
    BY <2>1 DEF Unfinished, Succeeded
  <2> QED BY MoveKeepsErrorsDue
<1>5. CASE CreateOnPlatform(h)
  <2> Settles
    BY <1>0, <1>5 DEF CreateOnPlatform, TypeOK, Delivery, Unfinished, Succeeded
  <2> QED BY MoveKeepsErrorsDue
<1>6. CASE Persist(h)
  <2> Settles
    BY <1>0, <1>6 DEF Persist, TypeOK
  <2> QED BY MoveKeepsErrorsDue
<1>7. CASE MarkError(h) \/ MarkErrorFails(h)
  <2>1. handler[h].outcome # "ok"
    BY <1>7 DEF MarkError, MarkErrorFails, SavedInv, FailureIsError
  <2>2. handler'[h].pc = "reconcile" /\ handler'[h].outcome = handler[h].outcome
    BY <1>7, GotoEffect DEF MarkError, MarkErrorFails
  <2> Settles
    BY <2>1, <2>2 DEF Unfinished, Succeeded
  <2> QED BY MoveKeepsErrorsDue
<1>8. CASE ReconcileRead(h)
  <2>1. /\ handler'[h].pc \in {"write", AfterReconcile(h)}
        /\ handler'[h].outcome = handler[h].outcome
    BY <1>0, <1>8, GotoEffect DEF ReconcileRead, TypeOK, Delivery
  <2> Settles
    BY <1>0, <1>8, <2>1 DEF ReconcileRead, AfterReconcile, Unfinished, Succeeded
  <2> QED BY MoveKeepsErrorsDue
<1>9. CASE ReconcileWrite(h) \/ ReconcileFails(h)
  <2>1. handler'[h].pc = AfterReconcile(h)
    BY <1>0, <1>9 DEF ReconcileWrite, ReconcileFails, TypeOK, Delivery
  <2> Settles
    BY <1>0, <1>9, <2>1 DEF ReconcileWrite, ReconcileFails, AfterReconcile, Unfinished, Succeeded
  <2> QED BY MoveKeepsErrorsDue
<1>10. CASE MarkProcessed(h) \/ MarkInsertFails(h) \/ SettleDead(h) \/ Ack(h)
  <2> Settles
    BY <1>0, <1>10 DEF MarkProcessed, MarkInsertFails, SettleDead, Ack, Unfinished, Succeeded
  <2> QED BY MoveKeepsErrorsDue
<1>11. CASE SettleRetry(h)
  <2> DEFINE next == [handler[h].msg EXCEPT !.attempt = @ + 1]
  <2>1. next \in Messages /\ next.row = RowOf(h)
    BY <1>0, <1>11, RetriesAssumption DEF SettleRetry, Exhausted, Messages, RowOf
  <2>2. queue'[next] > 0
    BY <1>11, <2>1 DEF SettleRetry, TypeOK
  <2> HIDE DEF next
  <2> QED BY <2>1, <2>2, MoveKeepsErrorsDue
<1> QED
  BY <1>1, <1>2, <1>3, <1>4, <1>5, <1>6, <1>7, <1>8, <1>9, <1>10, <1>11 DEF HandlerStep

(* So does every step: a delivery taken from the queue is unfinished, and  *)
(* a crash puts it back.                                                   *)
LEMMA ErrorsDueStep == TypeOK /\ SavedInv /\ ErrorIsDue /\ [Next]_vars => ErrorIsDue'
<1> SUFFICES ASSUME TypeOK, SavedInv, ErrorIsDue, [Next]_vars PROVE ErrorIsDue'
  OBVIOUS
<1>0. TypeOK'
  BY TypeStep
<1> DEFINE Keeps == /\ handler' = handler /\ dlq' = dlq /\ processed' = processed
                    /\ \A m \in Messages : queue[m] > 0 => queue'[m] > 0
                    /\ \A r \in Rows : status'[r] = "ERROR" => status[r] = "ERROR"
<1>1. ASSUME Keeps PROVE ErrorIsDue'
  BY <1>1 DEF ErrorIsDue, Queued, RowOf, Unfinished, Succeeded
<1>2. ASSUME NEW h \in Handlers, HandlerStep(h) PROVE ErrorIsDue'
  BY <1>0, <1>2, HandlerStepKeepsErrorsDue
<1>3. ASSUME NEW h \in Handlers, NEW m \in Messages, Deliver(h, m) PROVE ErrorIsDue'
  <2>1. /\ handler[h].pc = "idle" /\ handler'[h].pc = "check" /\ handler'[h].msg = m
        /\ \A k \in Handlers \ {h} : handler'[k] = handler[k]
        /\ \A n \in Messages \ {m} : queue'[n] = queue[n]
        /\ status' = status /\ dlq' = dlq /\ processed' = processed
    BY <1>3 DEF Deliver, db, TypeOK, Idle
  <2>2. Unfinished(handler'[h])
    BY <2>1 DEF Unfinished, Succeeded
  <2> SUFFICES ASSUME NEW r \in Rows, status[r] = "ERROR", r \notin dlq \cup processed
               PROVE  \/ Queued(r)' # {}
                      \/ \E k \in Handlers : RowOf(k)' = r /\ Unfinished(handler'[k])
    BY <2>1 DEF ErrorIsDue, Unfinished, Succeeded
  <2>3. CASE r = m.row
    BY <2>1, <2>2, <2>3 DEF RowOf
  <2>4. CASE r # m.row /\ Queued(r) # {}
    BY <2>1, <2>4 DEF Queued
  <2>5. ASSUME NEW k \in Handlers, RowOf(k) = r, Unfinished(handler[k])
        PROVE  RowOf(k)' = r /\ Unfinished(handler'[k])
    BY <2>1, <2>5 DEF RowOf, Unfinished
  <2> QED BY <2>3, <2>4, <2>5 DEF ErrorIsDue
<1>4. CASE Crash
  <2>1. \A m \in Messages : /\ queue[m] > 0 => queue'[m] > 0
                            /\ \A h \in Handlers : handler[h].pc # "idle" /\ handler[h].msg = m
                                                     => queue'[m] > 0
    <3> SUFFICES ASSUME NEW m \in Messages,
                        queue[m] > 0 \/ \E h \in Handlers : handler[h].pc # "idle" /\ handler[h].msg = m
                 PROVE  queue'[m] > 0
      OBVIOUS
    <3> DEFINE S == {h \in Handlers : handler[h].pc # "idle" /\ handler[h].msg = m}
    <3>1. IsFiniteSet(S) /\ Cardinality(S) \in Nat
      BY HandlersAssumption, FS_Subset, FS_CardinalityType
    <3>2. queue[m] \in Nat /\ queue'[m] = queue[m] + Cardinality(S)
      BY <1>4 DEF Crash, TypeOK
    <3>3. CASE queue[m] > 0
      BY <3>1, <3>2, <3>3
    <3>4. CASE S # {}
      <4>1. Cardinality(S) # 0
        BY <3>1, <3>4, FS_EmptySet
      <4> QED BY <3>1, <3>2, <4>1
    <3> QED BY <3>3, <3>4
  <2>2. status' = status /\ dlq' = dlq /\ processed' = processed
    BY <1>4 DEF Crash, db
  <2> SUFFICES ASSUME NEW r \in Rows, status[r] = "ERROR", r \notin dlq \cup processed
               PROVE  Queued(r)' # {}
    BY <2>2 DEF ErrorIsDue
  <2>3. CASE Queued(r) # {}
    BY <2>1, <2>3 DEF Queued
  <2>4. ASSUME NEW h \in Handlers, RowOf(h) = r, Unfinished(handler[h])
        PROVE  Queued(r)' # {}
    <3>1. handler[h].msg \in Messages /\ handler[h].msg.row = r /\ handler[h].pc # "idle"
      BY <2>4 DEF TypeOK, Delivery, RowOf, Unfinished
    <3> QED BY <2>1, <3>1 DEF Queued
  <2> QED BY <2>3, <2>4 DEF ErrorIsDue
<1>5. ASSUME NEW r \in Rows, RequestStep(r) \/ UserStep(r) PROVE Keeps
  <2>1. CASE PublishCreated(r)
    <3>1. FirstMessage(r) \in Messages /\ \A m \in Messages : queue[m] \in Nat
      BY IdleType DEF TypeOK
    <3> QED BY <2>1, <3>1 DEF PublishCreated, db, TypeOK
  <2>2. CASE PublishCreatedFails(r) \/ DisconnectPauses(r) \/ Disconnect(r) \/ Link(r)
    BY <2>2 DEF PublishCreatedFails, DisconnectPauses, Disconnect, Link, db, TypeOK
  <2> QED BY <1>5, <2>1, <2>2 DEF RequestStep, UserStep
<1>6. CASE Age \/ Remove \/ UNCHANGED vars
  BY <1>1, <1>6 DEF Age, Remove, vars, db
<1>7. CASE PeriodicSweep \/ StartupSweep
  <2>1. \A m \in Messages : queue[m] \in Nat
    BY DEF TypeOK
  <2>2. Keeps
    BY <1>7, <2>1 DEF PeriodicSweep, StartupSweep, Republish, db
  <2> QED BY <1>1, <2>2
<1> HIDE DEF Keeps
<1> QED
  BY <1>1, <1>2, <1>3, <1>4, <1>5, <1>6, <1>7 DEF Next, DeliverAny

(* Nothing fails silently: a row left in ERROR has a dead letter or was    *)
(* created by another delivery, once its messages are handled.             *)
THEOREM FailuresAreDeadLettered == Spec => []ErrorIsDeadLettered
<1>1. Init => ErrorIsDue
  BY DEF Init, ErrorIsDue
<1>2. TypeOK /\ SavedInv /\ ErrorIsDue /\ [Next]_vars => ErrorIsDue'
  BY ErrorsDueStep
<1>3. ErrorIsDue => ErrorIsDeadLettered
  BY DEF ErrorIsDue, ErrorIsDeadLettered, InFlight, Unfinished
<1>4. Spec => [](TypeOK /\ SavedInv)
  BY SavedInvariant
<1> QED BY <1>1, <1>2, <1>3, <1>4, PTL DEF Spec

-----------------------------------------------------------------------------
(* Deliveries that do not overlap                                          *)

(* No await of a delivery changes which rows have had two at a time, nor   *)
(* takes a row out of the processed ones or adds another to them.          *)
LEMMA HandlerStepHistory ==
  ASSUME NEW h \in Handlers, HandlerStep(h)
  PROVE  /\ overlapped' = overlapped
         /\ processed' \in {processed, processed \cup {RowOf(h)}}
<1> USE DEF Undisturbed, Disturb, StatusWritten, HandlerOnly, db
<1>1. CASE \/ CheckProcessed(h) \/ LoadRow(h) \/ FindAccount(h) \/ ReadFails(h)
           \/ EnforceRateLimit(h) \/ RateLimitExceeded(h) \/ RequireToken(h)
  BY <1>1 DEF CheckProcessed, LoadRow, FindAccount, ReadFails, EnforceRateLimit,
     RateLimitExceeded, RequireToken
<1>2. CASE \/ RefreshFails(h) \/ CreateOnPlatform(h) \/ CreateRefused(h) \/ CreateAnswerLost(h)
           \/ Persist(h) \/ PersistGone(h) \/ PersistFails(h)
  BY <1>2 DEF RefreshFails, CreateOnPlatform, CreateRefused, CreateAnswerLost, Persist,
     PersistGone, PersistFails
<1>3. CASE \/ MarkError(h) \/ MarkErrorFails(h) \/ ReconcileRead(h) \/ ReconcileWrite(h)
           \/ ReconcileFails(h) \/ MarkProcessed(h) \/ MarkLookupFails(h) \/ MarkInsertFails(h)
  BY <1>3 DEF MarkError, MarkErrorFails, ReconcileRead, ReconcileWrite, ReconcileFails,
     MarkProcessed, MarkLookupFails, MarkInsertFails
<1>4. CASE SettleRetry(h) \/ SettleDead(h) \/ Ack(h)
  BY <1>4 DEF SettleRetry, SettleDead, Ack
<1> QED BY <1>1, <1>2, <1>3, <1>4 DEF HandlerStep

(* A delivery that is alone with its row keeps the invariant when what it  *)
(* has become, and the row it leaves, agree with it; one that is not owes  *)
(* the invariant nothing.                                                  *)
LEMMA MoveKeepsSerial ==
  ASSUME TypeOK, TypeOK', SerialInv, NEW h \in Handlers, HandlerStep(h),
         Alone(h) =>
           /\ Working(handler'[h]) => RowOf(h) \notin processed'
           /\ Succeeded(handler'[h]) => status'[RowOf(h)] # "ERROR"
           /\ RowOf(h) \in processed' => status'[RowOf(h)] # "ERROR"
  PROVE  SerialInv'
<1>0. /\ \A k \in Handlers \ {h} : handler'[k] = handler[k]
      /\ handler'[h].pc # "idle" => handler'[h].msg = handler[h].msg
      /\ handler[h].pc # "idle" /\ RowOf(h) \in Rows
      /\ \A r \in Rows \ {RowOf(h)} : status'[r] = status[r] /\ (r \in processed' <=> r \in processed)
      /\ overlapped' = overlapped
  <2>1. Ack(h) => handler'[h].pc = "idle"
    BY DEF Ack, TypeOK, Idle
  <2> QED BY <2>1, HandlerStepMoves, HandlerStepHistory
<1>1. \A k \in Handlers : RowOf(k) \in Rows
  BY DEF TypeOK, RowOf, Delivery, Messages
<1>2. ProcessedIsNotError'
  BY <1>0 DEF SerialInv, ProcessedIsNotError, Alone
<1>3. ASSUME NEW k \in Handlers, Alone(k)', handler'[k].pc # "idle"
      PROVE  /\ InFlight(RowOf(k))' = {k}
             /\ Working(handler'[k]) => handler'[k].msg.row \notin processed'
             /\ Succeeded(handler'[k]) => status'[handler'[k].msg.row] # "ERROR"
  <2>1. handler'[k].msg = handler[k].msg /\ Alone(k) /\ handler[k].pc # "idle"
    BY <1>0, <1>3 DEF Alone, RowOf
  <2>2. InFlight(RowOf(k)) = {k}
    BY <2>1 DEF SerialInv
  <2>3. \A g \in Handlers : g # k /\ handler[g].pc # "idle" => handler[g].msg.row # RowOf(k)
    BY <2>2 DEF InFlight, RowOf
  <2>4. \A g \in Handlers : g # k /\ handler'[g].pc # "idle" => handler'[g].msg.row # RowOf(k)
    BY <1>0, <2>3
  <2>5. InFlight(RowOf(k))' = {k}
    BY <1>3, <2>1, <2>4 DEF InFlight, RowOf
  <2>6. CASE k = h
    BY <2>1, <2>5, <2>6 DEF RowOf
  <2>7. CASE k # h
    <3>1. RowOf(k) # RowOf(h)
      BY <1>0, <2>3, <2>7 DEF RowOf
    <3>2. /\ Working(handler[k]) => RowOf(k) \notin processed
          /\ Succeeded(handler[k]) => status[RowOf(k)] # "ERROR"
      BY <2>1 DEF SerialInv
    <3> QED BY <1>0, <1>1, <2>5, <2>7, <3>1, <3>2 DEF RowOf
  <2> QED BY <2>6, <2>7
<1> QED BY <1>2, <1>3 DEF SerialInv, RowOf, Working, Succeeded

(* Every await of a delivery that is alone does.                           *)
LEMMA AloneStaysSerial ==
  ASSUME TypeOK, TypeOK', SavedInv, SerialInv, NEW h \in Handlers, HandlerStep(h), Alone(h)
  PROVE  /\ Working(handler'[h]) => RowOf(h) \notin processed'
         /\ Succeeded(handler'[h]) => status'[RowOf(h)] # "ERROR"
         /\ RowOf(h) \in processed' => status'[RowOf(h)] # "ERROR"
<1> USE DEF HandlerOnly, db
<1> DEFINE row == handler[h].msg.row
<1> DEFINE Kept == /\ Working(handler'[h]) => row \notin processed'
                   /\ Succeeded(handler'[h]) => status'[row] # "ERROR"
                   /\ row \in processed' => status'[row] # "ERROR"
<1> SUFFICES Kept
  BY DEF RowOf
<1>0. /\ handler[h] \in Delivery /\ row \in Rows /\ RowOf(h) = row
      /\ Working(handler[h]) => row \notin processed
      /\ Succeeded(handler[h]) => status[row] # "ERROR"
      /\ row \in processed => status[row] # "ERROR"
  BY DEF TypeOK, RowOf, Delivery, Messages, SerialInv, ProcessedIsNotError, Alone, Working, Succeeded
<1> HIDE DEF row
<1>1. CASE CheckProcessed(h)
  <2>1. handler'[h].pc = IF row \in processed THEN "ack" ELSE "load"
    BY <1>0, <1>1, GotoEffect DEF CheckProcessed
  <2>2. handler'[h].msg.row = row
    BY <1>1, GotoEffect DEF CheckProcessed, row
  <2>3. status' = status /\ processed' = processed
    BY <1>1 DEF CheckProcessed
  <2> QED BY <1>0, <2>1, <2>2, <2>3 DEF Working, Succeeded
(* Before the row is written, or when nothing is written at all. *)
<1>2. ASSUME Working(handler[h]), handler'[h].msg.row = row, ~Succeeded(handler'[h]),
             status' = status, processed' = processed
      PROVE  Kept
  BY <1>0, <1>2
<1>3. CASE LoadRow(h) \/ FindAccount(h)
  BY <1>2, <1>3, ThrowEffect DEF LoadRow, FindAccount, TypeOK, Delivery, Working, Succeeded, row
<1>4. CASE ReadFails(h)
  <2>1. handler'[h].pc = "settle" /\ status' = status /\ processed' = processed
    BY <1>4, ThrowEffect DEF ReadFails
  <2> QED BY <1>0, <2>1 DEF Working, Succeeded
<1>5. CASE \/ RateLimitExceeded(h) \/ RefreshFails(h) \/ CreateRefused(h)
           \/ CreateAnswerLost(h) \/ PersistGone(h) \/ PersistFails(h) \/ MarkLookupFails(h)
  <2>1. Working(handler[h]) /\ status' = status /\ processed' = processed
    BY <1>5 DEF RateLimitExceeded, RefreshFails, CreateRefused, CreateAnswerLost,
       PersistGone, PersistFails, MarkLookupFails, Working
  <2>2. handler'[h].msg.row = row /\ handler'[h].pc \in {"fail", "settle"}
    BY <1>5, ThrowEffect DEF RateLimitExceeded, RefreshFails, CreateRefused,
       CreateAnswerLost, PersistGone, PersistFails, MarkLookupFails, row
  <2> QED BY <1>2, <2>1, <2>2 DEF Succeeded
<1>6. CASE EnforceRateLimit(h) \/ RequireToken(h)
  <2>1. Working(handler[h]) /\ status' = status /\ processed' = processed
    BY <1>6 DEF EnforceRateLimit, RequireToken, Working
  <2>2. handler'[h].pc \in {"token", "create", "persist", "fail"} /\ handler'[h].msg.row = row
    BY <1>6, ThrowEffect, GotoEffect DEF EnforceRateLimit, RequireToken, row
  <2> QED BY <1>2, <2>1, <2>2 DEF Succeeded
<1>7. CASE CreateOnPlatform(h)
  BY <1>0, <1>2, <1>7 DEF CreateOnPlatform, TypeOK, Delivery, Working, Succeeded, row
(* Success overwrites the error, whoever left it. *)
<1>8. CASE Persist(h)
  <2>1. /\ handler[h].pc = "persist" /\ handler'[h].msg.row = row
        /\ processed' = processed /\ status' = [status EXCEPT ![row] = "ACTIVE"]
    BY <1>0, <1>8 DEF Persist, TypeOK, Delivery, row
  <2>2. /\ status'[row] # "ERROR"
        /\ \A r \in Rows \ {row} : status'[r] = status[r]
    BY <1>0, <2>1 DEF TypeOK
  <2> QED BY <1>0, <2>1, <2>2 DEF Working
(* A failure marks a row that no other delivery has processed. *)
<1>9. CASE MarkError(h) \/ MarkErrorFails(h)
  <2>1. handler[h].outcome # "ok" /\ Working(handler[h]) /\ processed' = processed
    BY <1>9 DEF MarkError, MarkErrorFails, SavedInv, FailureIsError, Working
  <2>2. /\ handler'[h].pc = "reconcile" /\ handler'[h].outcome = handler[h].outcome
        /\ handler'[h].msg.row = row
    BY <1>9, GotoEffect DEF MarkError, MarkErrorFails, row
  <2>3. \A r \in Rows \ {row} : status'[r] = status[r]
    BY <1>0, <1>9 DEF MarkError, MarkErrorFails, TypeOK
  <2>4. ~Succeeded(handler'[h])
    BY <2>1, <2>2 DEF Succeeded
  <2> QED BY <1>0, <2>1, <2>2, <2>3, <2>4
<1>10. CASE ReconcileRead(h) \/ ReconcileWrite(h) \/ ReconcileFails(h)
  <2>1. /\ Working(handler[h]) /\ status' = status /\ processed' = processed
        /\ handler[h].pc \in {"reconcile", "write"}
    BY <1>10 DEF ReconcileRead, ReconcileWrite, ReconcileFails, Working
  <2>2. handler'[h].msg.row = row /\ handler'[h].outcome = handler[h].outcome
    BY <1>0, <1>10, GotoEffect DEF ReconcileRead, ReconcileWrite, ReconcileFails,
       TypeOK, Delivery, row
  <2>3. handler'[h].pc \in {"write", IF handler[h].outcome = "ok" THEN "mark" ELSE "settle"}
    BY <1>0, <1>10, GotoEffect DEF ReconcileRead, ReconcileWrite, ReconcileFails,
       AfterReconcile, TypeOK, Delivery
  <2>4. Succeeded(handler'[h]) => Succeeded(handler[h])
    BY <2>1, <2>2, <2>3 DEF Succeeded
  <2> QED BY <1>0, <2>1, <2>2, <2>4
<1>11. CASE MarkProcessed(h)
  <2>1. /\ Succeeded(handler[h]) /\ status' = status /\ processed' = processed \cup {row}
        /\ handler'[h].pc = "ack"
    BY <1>0, <1>11, GotoEffect DEF MarkProcessed, Succeeded
  <2> QED BY <1>0, <2>1 DEF Working, Succeeded
<1>12. CASE MarkInsertFails(h) \/ SettleRetry(h) \/ SettleDead(h) \/ Ack(h)
  <2>1. handler'[h].pc \in {"ack", "idle"} /\ status' = status /\ processed' = processed
    BY <1>12, GotoEffect DEF MarkInsertFails, SettleRetry, SettleDead, Ack, TypeOK, Idle
  <2> QED BY <1>0, <2>1 DEF Working, Succeeded
<1> QED
  BY <1>1, <1>3, <1>4, <1>5, <1>6, <1>7, <1>8, <1>9, <1>10, <1>11, <1>12 DEF HandlerStep

(* So does every step: a new delivery has read nothing yet, and is alone   *)
(* with its row or marks it as overlapped.                                 *)
LEMMA SerialStep ==
  ASSUME TypeOK, SavedInv, SerialInv, [Next]_vars
  PROVE  SerialInv'
<1> USE DEF db, Undisturbed, Disturb
<1>0. TypeOK'
  BY TypeStep
<1>1. ASSUME NEW h \in Handlers, HandlerStep(h) PROVE SerialInv'
  <2>1. Alone(h) =>
          /\ Working(handler'[h]) => RowOf(h) \notin processed'
          /\ Succeeded(handler'[h]) => status'[RowOf(h)] # "ERROR"
          /\ RowOf(h) \in processed' => status'[RowOf(h)] # "ERROR"
    BY <1>0, <1>1, AloneStaysSerial
  <2> QED BY <1>0, <1>1, <2>1, MoveKeepsSerial
<1>2. ASSUME NEW h \in Handlers, NEW m \in Messages, Deliver(h, m) PROVE SerialInv'
  <2>1. /\ handler'[h].pc = "check" /\ handler'[h].msg = m /\ handler[h].pc = "idle"
        /\ \A k \in Handlers \ {h} : handler'[k] = handler[k]
        /\ status' = status /\ processed' = processed
        /\ overlapped' = IF InFlight(m.row) = {} THEN overlapped ELSE overlapped \cup {m.row}
    BY <1>2 DEF Deliver, TypeOK, Idle
  <2>2. ProcessedIsNotError'
    BY <2>1 DEF SerialInv, ProcessedIsNotError
  <2>3. ASSUME NEW k \in Handlers, Alone(k)', handler'[k].pc # "idle"
        PROVE  /\ InFlight(RowOf(k))' = {k}
               /\ Working(handler'[k]) => handler'[k].msg.row \notin processed'
               /\ Succeeded(handler'[k]) => status'[handler'[k].msg.row] # "ERROR"
    <3>1. CASE k = h
      <4>1. InFlight(m.row) = {}
        BY <2>1, <2>3, <3>1 DEF Alone, RowOf
      <4>2. InFlight(m.row)' = {h}
        BY <2>1, <4>1 DEF InFlight, RowOf
      <4> QED BY <2>1, <3>1, <4>2 DEF RowOf, Working, Succeeded
    <3>2. CASE k # h
      <4>1. handler'[k] = handler[k] /\ Alone(k) /\ RowOf(k) = handler'[k].msg.row
        BY <2>1, <2>3, <3>2 DEF Alone, RowOf
      <4>2. /\ InFlight(RowOf(k)) = {k}
            /\ Working(handler[k]) => RowOf(k) \notin processed
            /\ Succeeded(handler[k]) => status[RowOf(k)] # "ERROR"
        BY <2>3, <4>1 DEF SerialInv
      <4>3. m.row # RowOf(k)
        <5>1. InFlight(RowOf(k)) # {}
          BY <4>2
        <5>2. RowOf(k) \notin overlapped'
          BY <2>3, <4>1 DEF Alone, RowOf
        <5> QED BY <2>1, <5>1, <5>2
      <4>4. InFlight(RowOf(k))' = {k}
        BY <2>1, <4>1, <4>2, <4>3 DEF InFlight, RowOf
      <4> QED BY <2>1, <4>1, <4>2, <4>4
    <3> QED BY <3>1, <3>2
  <2> QED BY <2>2, <2>3 DEF SerialInv, RowOf, Working, Succeeded
<1>3. ASSUME handler' = handler, processed' = processed, overlapped' = overlapped,
             \A r \in Rows : status'[r] = "ERROR" => status[r] = "ERROR"
      PROVE  SerialInv'
  <2>1. \A h \in Handlers : RowOf(h) \in Rows
    BY DEF TypeOK, RowOf, Delivery, Messages
  <2>2. \A h \in Handlers : RowOf(h)' = RowOf(h) /\ InFlight(RowOf(h))' = InFlight(RowOf(h))
    BY <1>3 DEF RowOf, InFlight
  <2> QED BY <1>3, <2>1, <2>2 DEF SerialInv, ProcessedIsNotError, Alone, Working, Succeeded
<1>4. ASSUME NEW r \in Rows, RequestStep(r) \/ UserStep(r) PROVE SerialInv'
  <2>1. CASE PublishCreated(r) \/ PublishCreatedFails(r) \/ Disconnect(r) \/ Link(r)
    BY <1>3, <2>1 DEF PublishCreated, PublishCreatedFails, Disconnect, Link
  <2>2. CASE DisconnectPauses(r)
    BY <1>3, <2>2 DEF DisconnectPauses, TypeOK
  <2> QED BY <1>4, <2>1, <2>2 DEF RequestStep, UserStep
<1>5. CASE Age \/ PeriodicSweep \/ StartupSweep \/ Remove \/ UNCHANGED vars
  BY <1>3, <1>5 DEF Age, PeriodicSweep, StartupSweep, Remove, vars
<1>6. CASE Crash
  <2>1. /\ \A h \in Handlers : handler'[h].pc = "idle"
        /\ status' = status /\ processed' = processed /\ overlapped' = overlapped
    BY <1>6 DEF Crash, Idle
  <2> QED BY <2>1 DEF SerialInv, ProcessedIsNotError
<1> QED
  BY <1>1, <1>2, <1>4, <1>5, <1>6 DEF Next, DeliverAny

(* A row counted as processed is never shown as failed, unless two of its  *)
(* deliveries were in flight at once: neither retries nor crashes, lost    *)
(* answers or sweeps can do it alone.                                      *)
THEOREM SuccessIsKept == Spec => []ProcessedIsNotError
<1>1. Init => SerialInv
  <2>1. Idle.pc = "idle"
    BY DEF Idle
  <2> QED BY <2>1 DEF Init, SerialInv, ProcessedIsNotError
<1>2. TypeOK /\ SavedInv /\ SerialInv /\ [Next]_vars => SerialInv'
  BY SerialStep
<1>3. SerialInv => ProcessedIsNotError
  BY DEF SerialInv
<1>4. Spec => [](TypeOK /\ SavedInv)
  BY SavedInvariant
<1> QED BY <1>1, <1>2, <1>3, <1>4, PTL DEF Spec

-----------------------------------------------------------------------------
(* Duplicates on the platform                                              *)

(* Counting deliveries.                                                    *)
LEMMA HandlersCount ==
  /\ IsFiniteSet(Handlers) /\ Cardinality(Handlers) \in Nat
  /\ \A S \in SUBSET Handlers :
       IsFiniteSet(S) /\ Cardinality(S) \in Nat /\ Cardinality(S) <= Cardinality(Handlers)
  /\ \A S, T \in SUBSET Handlers : S \subseteq T => Cardinality(S) <= Cardinality(T)
  /\ \A S \in SUBSET Handlers : \A h \in Handlers \ S : Cardinality(S \cup {h}) = Cardinality(S) + 1
<1>1. IsFiniteSet(Handlers) /\ Cardinality(Handlers) \in Nat
  BY HandlersAssumption, FS_CardinalityType
<1>2. ASSUME NEW S \in SUBSET Handlers
      PROVE  IsFiniteSet(S) /\ Cardinality(S) \in Nat /\ Cardinality(S) <= Cardinality(Handlers)
  BY <1>1, FS_Subset, FS_CardinalityType
<1>3. ASSUME NEW S \in SUBSET Handlers, NEW T \in SUBSET Handlers, S \subseteq T
      PROVE  Cardinality(S) <= Cardinality(T)
  BY <1>2, <1>3, FS_Subset
<1>4. ASSUME NEW S \in SUBSET Handlers, NEW h \in Handlers \ S
      PROVE  Cardinality(S \cup {h}) = Cardinality(S) + 1
  BY <1>2, FS_AddElement
<1> QED BY <1>1, <1>2, <1>3, <1>4

(* Deliveries that have an id at hand do not create another.               *)
LEMMA HoldersDoNotCreate ==
  ASSUME NEW r \in Rows
  PROVE  /\ Holding(r) \in SUBSET Handlers /\ Creating(r) \in SUBSET Handlers
         /\ Cardinality(Holding(r)) + Cardinality(Creating(r)) <= Cardinality(Handlers)
<1>1. Holding(r) \subseteq Handlers /\ Creating(r) \subseteq Handlers
  BY DEF Holding, Creating
<1>2. Holding(r) \cap Creating(r) = {}
  BY DEF Holding, Creating, HoldsUnsavedId, MayCreate
<1>3. IsFiniteSet(Holding(r)) /\ IsFiniteSet(Creating(r))
  BY <1>1, HandlersCount
<1>4. Cardinality({}) = 0
  BY FS_EmptySet
<1>5. Cardinality(Holding(r) \cup Creating(r))
        = Cardinality(Holding(r)) + Cardinality(Creating(r))
  <2>1. Cardinality(Holding(r) \cup Creating(r))
          = Cardinality(Holding(r)) + Cardinality(Creating(r))
              - Cardinality(Holding(r) \cap Creating(r))
    BY <1>3, FS_Union
  <2>2. Cardinality(Holding(r)) \in Nat /\ Cardinality(Creating(r)) \in Nat
    BY <1>1, HandlersCount
  <2>3. Cardinality(Holding(r) \cap Creating(r)) = 0
    BY <1>2, <1>4
  <2> QED BY <2>1, <2>2, <2>3
<1>6. Cardinality(Holding(r) \cup Creating(r)) <= Cardinality(Handlers)
  BY <1>1, HandlersCount
<1> QED BY <1>1, <1>5, <1>6

(* A step that creates nothing, saves nothing and drops no id keeps the    *)
(* count, if no delivery is misled about a saved id.                       *)
LEMMA QuietKeepsDuplicates ==
  ASSUME TypeOK, TypeOK', DuplicateInv, ext' = ext, platform' = platform,
         \A r \in Rows : lost[r] <= lost'[r],
         \A h \in Handlers : handler'[h].pc = "create" => handler'[h].ext = 0,
         \A r \in Rows : ext[r] = 0 => Holding(r) \subseteq Holding(r)',
         \A r \in Rows : ext[r] # 0 => Creating(r)' \subseteq Creating(r)
  PROVE  DuplicateInv'
<1> SUFFICES ASSUME NEW r \in Rows
             PROVE  /\ ext[r] = 0 => platform[r] <= lost'[r] + Cardinality(Holding(r)')
                    /\ ext[r] # 0 => platform[r] + Cardinality(Creating(r)')
                                       <= lost'[r] + Cardinality(Handlers)
  BY DEF DuplicateInv
<1>1. /\ Holding(r) \in SUBSET Handlers /\ Holding(r)' \in SUBSET Handlers
      /\ Creating(r) \in SUBSET Handlers /\ Creating(r)' \in SUBSET Handlers
  BY DEF Holding, Creating
<1>2. /\ platform[r] \in Nat /\ lost[r] \in Nat /\ lost'[r] \in Nat
      /\ lost[r] <= lost'[r] /\ Cardinality(Handlers) \in Nat
      /\ Cardinality(Holding(r)) \in Nat /\ Cardinality(Holding(r)') \in Nat
      /\ Cardinality(Creating(r)) \in Nat /\ Cardinality(Creating(r)') \in Nat
  BY <1>1, HandlersCount DEF TypeOK
<1>3. CASE ext[r] = 0
  <2>1. Cardinality(Holding(r)) <= Cardinality(Holding(r)')
    BY <1>1, <1>3, HandlersCount
  <2>2. platform[r] <= lost[r] + Cardinality(Holding(r))
    BY <1>3 DEF DuplicateInv
  <2> QED BY <1>2, <1>3, <2>1, <2>2
<1>4. CASE ext[r] # 0
  <2>1. Cardinality(Creating(r)') <= Cardinality(Creating(r))
    BY <1>1, <1>4, HandlersCount
  <2>2. platform[r] + Cardinality(Creating(r)) <= lost[r] + Cardinality(Handlers)
    BY <1>4 DEF DuplicateInv
  <2> QED BY <1>2, <1>4, <2>1, <2>2
<1> QED BY <1>3, <1>4

(* In particular a delivery that neither holds an id nor starts to create. *)
LEMMA MoveKeepsDuplicates ==
  ASSUME TypeOK, TypeOK', DuplicateInv, ext' = ext, platform' = platform, lost' = lost,
         NEW h \in Handlers, \A k \in Handlers \ {h} : handler'[k] = handler[k],
         ~HoldsUnsavedId(h) \/ ext[RowOf(h)] # 0,
         handler'[h].pc = "create" => handler'[h].ext = 0,
         MayCreate(handler'[h]) =>
           handler'[h].msg = handler[h].msg /\ (MayCreate(handler[h]) \/ ext[RowOf(h)] = 0)
  PROVE  DuplicateInv'
<1>1. \A k \in Handlers : handler'[k].pc = "create" => handler'[k].ext = 0
  BY DEF DuplicateInv
<1>2. \A r \in Rows : ext[r] = 0 => Holding(r) \subseteq Holding(r)'
  BY DEF Holding, HoldsUnsavedId, RowOf
<1>3. \A r \in Rows : ext[r] # 0 => Creating(r)' \subseteq Creating(r)
  BY DEF Creating, MayCreate, RowOf
<1>4. \A r \in Rows : lost[r] <= lost'[r]
  BY DEF TypeOK
<1> QED BY <1>1, <1>2, <1>3, <1>4, QuietKeepsDuplicates

(* A creation whose answer arrives puts its id in the delivery's hands.    *)
LEMMA CreateKeepsDuplicates ==
  ASSUME TypeOK, TypeOK', DuplicateInv, NEW h \in Handlers,
         CreateOnPlatform(h) \/ CreateAnswerLost(h)
  PROVE  DuplicateInv'
<1>0. /\ handler[h] \in Delivery /\ RowOf(h) \in Rows /\ handler[h].pc = "create"
      /\ handler[h].ext = 0
      /\ platform' = [platform EXCEPT ![RowOf(h)] = @ + 1] /\ ext' = ext
      /\ \A r \in Rows : platform[r] \in Nat /\ lost[r] \in Nat /\ ext[r] \in Nat
  BY DEF TypeOK, RowOf, Delivery, Messages, CreateOnPlatform, CreateAnswerLost, DuplicateInv, db
<1>1. /\ \A k \in Handlers \ {h} : handler'[k] = handler[k]
      /\ handler'[h].msg = handler[h].msg /\ handler'[h].pc \in {"persist", "fail"}
  BY <1>0, ThrowEffect DEF CreateOnPlatform, CreateAnswerLost, TypeOK, Delivery
<1>2. \A r \in Rows : r # RowOf(h) =>
        /\ Holding(r)' = Holding(r) /\ Creating(r)' = Creating(r)
        /\ platform'[r] = platform[r] /\ lost'[r] = lost[r]
  <2>1. \A r \in Rows : r # RowOf(h) => platform'[r] = platform[r] /\ lost'[r] = lost[r]
    BY <1>0 DEF CreateOnPlatform, CreateAnswerLost, TypeOK
  <2>2. \A r \in Rows : r # RowOf(h) => Holding(r)' = Holding(r)
    BY <1>0, <1>1 DEF Holding, HoldsUnsavedId, RowOf
  <2>3. \A r \in Rows : r # RowOf(h) => Creating(r)' = Creating(r)
    BY <1>1 DEF Creating, RowOf
  <2> QED BY <2>1, <2>2, <2>3
<1> SUFFICES ASSUME NEW r \in Rows, r = RowOf(h) PROVE DuplicateInv'
  BY <1>0
<1>3. platform'[r] = platform[r] + 1
  BY <1>0 DEF TypeOK
<1>4. /\ Holding(r) \in SUBSET Handlers /\ Holding(r)' \in SUBSET Handlers
      /\ Creating(r) \in SUBSET Handlers /\ Creating(r)' \in SUBSET Handlers
  BY DEF Holding, Creating
<1>5. h \notin Holding(r) /\ h \in Creating(r)
  BY <1>0 DEF Holding, HoldsUnsavedId, Creating, MayCreate
<1>6. Creating(r)' = Creating(r) \ {h}
  BY <1>0, <1>1 DEF Creating, MayCreate, RowOf
<1>7. Cardinality(Creating(r)') + 1 = Cardinality(Creating(r))
  <2>1. Creating(r) = Creating(r)' \cup {h} /\ h \in Handlers \ Creating(r)'
    BY <1>5, <1>6
  <2> QED BY <1>4, <2>1, HandlersCount
<1>8. ext[r] # 0 => platform'[r] + Cardinality(Creating(r)') <= lost'[r] + Cardinality(Handlers)
  <2>1. lost[r] <= lost'[r] /\ lost'[r] \in Nat
    BY <1>0 DEF CreateOnPlatform, CreateAnswerLost, TypeOK
  <2>2. ext[r] # 0 => platform[r] + Cardinality(Creating(r)) <= lost[r] + Cardinality(Handlers)
    BY <1>0 DEF DuplicateInv
  <2>3. Cardinality(Creating(r)') \in Nat /\ Cardinality(Handlers) \in Nat
    BY <1>4, HandlersCount
  <2> QED BY <1>0, <1>3, <1>7, <2>1, <2>2, <2>3
<1>9. ext[r] = 0 => platform'[r] <= lost'[r] + Cardinality(Holding(r)')
  <2> SUFFICES ASSUME ext[r] = 0 PROVE platform'[r] <= lost'[r] + Cardinality(Holding(r)')
    OBVIOUS
  <2>1. platform[r] <= lost[r] + Cardinality(Holding(r)) /\ Cardinality(Holding(r)) \in Nat
    BY <1>0, <1>4, HandlersCount DEF DuplicateInv
  <2>2. CASE CreateOnPlatform(h)
    <3>1. handler'[h].pc = "persist" /\ handler'[h].ext = platform[r] + 1 /\ lost' = lost
      BY <1>0, <2>2 DEF CreateOnPlatform, TypeOK, Delivery
    <3>2. Holding(r)' = Holding(r) \cup {h}
      BY <1>0, <1>1, <3>1 DEF Holding, HoldsUnsavedId, RowOf
    <3>3. Cardinality(Holding(r)') = Cardinality(Holding(r)) + 1
      BY <1>4, <1>5, <3>2, HandlersCount
    <3> QED BY <1>0, <1>3, <2>1, <3>1, <3>3
  <2>3. CASE CreateAnswerLost(h)
    <3>1. lost'[r] = lost[r] + 1 /\ handler'[h].pc = "fail"
      BY <1>0, <2>3, ThrowEffect DEF CreateAnswerLost, TypeOK
    <3>2. Holding(r)' = Holding(r)
      BY <1>0, <1>1, <3>1 DEF Holding, HoldsUnsavedId, RowOf
    <3> QED BY <1>0, <1>3, <2>1, <3>1, <3>2
  <2> QED BY <2>2, <2>3
<1>10. \A k \in Handlers : handler'[k].pc = "create" => handler'[k].ext = 0
  BY <1>1 DEF DuplicateInv
<1>11. ASSUME NEW s \in Rows
       PROVE  /\ ext[s] = 0 => platform'[s] <= lost'[s] + Cardinality(Holding(s)')
              /\ ext[s] # 0 => platform'[s] + Cardinality(Creating(s)')
                                 <= lost'[s] + Cardinality(Handlers)
  <2>1. CASE s = r
    BY <1>8, <1>9, <2>1
  <2>2. CASE s # r
    BY <1>2, <2>2 DEF DuplicateInv
  <2> QED BY <2>1, <2>2
<1> QED BY <1>0, <1>10, <1>11 DEF DuplicateInv

(* Saving an id: from then on only the deliveries that had read the row    *)
(* before may create, and none of those holds an id.                       *)
LEMMA PersistKeepsDuplicates ==
  ASSUME TypeOK, TypeOK', SavedInv, DuplicateInv, NEW h \in Handlers, Persist(h)
  PROVE  DuplicateInv'
<1>0. /\ handler[h] \in Delivery /\ RowOf(h) \in Rows /\ handler[h].pc = "persist"
      /\ handler[h].ext # 0
      /\ ext' = [ext EXCEPT ![RowOf(h)] = handler[h].ext]
      /\ platform' = platform /\ lost' = lost
  BY DEF TypeOK, RowOf, Delivery, Messages, Persist, SavedInv, PersistHasId, env
<1>1. /\ \A k \in Handlers \ {h} : handler'[k] = handler[k]
      /\ handler'[h].msg = handler[h].msg /\ handler'[h].pc = "reconcile"
  BY <1>0 DEF Persist, TypeOK, Delivery
<1>2. \A r \in Rows : Creating(r)' = Creating(r)
  BY <1>0, <1>1 DEF Creating, MayCreate, RowOf
<1>3. \A r \in Rows : r # RowOf(h) => Holding(r)' = Holding(r) /\ ext'[r] = ext[r]
  <2>1. \A r \in Rows : r # RowOf(h) => ext'[r] = ext[r]
    BY <1>0 DEF TypeOK
  <2> QED BY <1>0, <1>1, <2>1 DEF Holding, HoldsUnsavedId, RowOf
<1> SUFFICES ASSUME NEW r \in Rows, r = RowOf(h) PROVE DuplicateInv'
  BY <1>0
<1>4. ext'[r] # 0
  BY <1>0 DEF TypeOK
<1>5. platform[r] + Cardinality(Creating(r)) <= lost[r] + Cardinality(Handlers)
  <2>1. /\ platform[r] \in Nat /\ lost[r] \in Nat /\ Cardinality(Handlers) \in Nat
        /\ Cardinality(Holding(r)) \in Nat /\ Cardinality(Creating(r)) \in Nat
        /\ Cardinality(Holding(r)) + Cardinality(Creating(r)) <= Cardinality(Handlers)
    BY <1>0, HandlersCount, HoldersDoNotCreate DEF TypeOK
  <2>2. CASE ext[r] = 0
    <3>1. platform[r] <= lost[r] + Cardinality(Holding(r))
      BY <1>0, <2>2 DEF DuplicateInv
    <3> QED BY <2>1, <3>1
  <2>3. CASE ext[r] # 0
    BY <1>0, <2>3 DEF DuplicateInv
  <2> QED BY <2>2, <2>3
<1>6. \A k \in Handlers : handler'[k].pc = "create" => handler'[k].ext = 0
  BY <1>1 DEF DuplicateInv
<1> QED BY <1>0, <1>2, <1>3, <1>4, <1>5, <1>6 DEF DuplicateInv

(* A failed save loses the id the delivery held.                           *)
LEMMA LossKeepsDuplicates ==
  ASSUME TypeOK, TypeOK', DuplicateInv, NEW h \in Handlers, PersistGone(h) \/ PersistFails(h)
  PROVE  DuplicateInv'
<1>0. /\ handler[h] \in Delivery /\ RowOf(h) \in Rows /\ handler[h].pc = "persist"
      /\ ext' = ext /\ platform' = platform
      /\ lost' = [lost EXCEPT ![RowOf(h)] = @ + (IF HoldsUnsavedId(h) THEN 1 ELSE 0)]
      /\ \A r \in Rows : platform[r] \in Nat /\ lost[r] \in Nat
  BY DEF TypeOK, RowOf, Delivery, Messages, PersistGone, PersistFails, db
<1>1. /\ \A k \in Handlers \ {h} : handler'[k] = handler[k]
      /\ handler'[h].msg = handler[h].msg /\ handler'[h].pc = "fail"
  BY <1>0, ThrowEffect DEF PersistGone, PersistFails
<1>2. \A r \in Rows : Creating(r)' = Creating(r)
  BY <1>0, <1>1 DEF Creating, MayCreate, RowOf
<1>3. \A r \in Rows : Holding(r)' = Holding(r) \ {h}
  BY <1>0, <1>1 DEF Holding, HoldsUnsavedId, RowOf
<1>4. \A r \in Rows : lost[r] <= lost'[r] /\ lost'[r] \in Nat
  BY <1>0 DEF TypeOK
<1>5. ASSUME NEW r \in Rows, ext[r] = 0
      PROVE  platform[r] <= lost'[r] + Cardinality(Holding(r)')
  <2>1. platform[r] <= lost[r] + Cardinality(Holding(r))
    BY <1>5 DEF DuplicateInv
  <2>2. /\ Holding(r) \in SUBSET Handlers /\ Holding(r)' \in SUBSET Handlers
        /\ Cardinality(Holding(r)) \in Nat /\ Cardinality(Holding(r)') \in Nat
    BY <1>3, HandlersCount DEF Holding
  <2>3. CASE h \in Holding(r)
    <3>1. Cardinality(Holding(r)) = Cardinality(Holding(r)') + 1
      <4>1. Holding(r) = Holding(r)' \cup {h} /\ h \in Handlers \ Holding(r)'
        BY <1>3, <2>3
      <4> QED BY <2>2, <4>1, HandlersCount
    <3>2. lost'[r] = lost[r] + 1
      BY <1>0, <2>3 DEF Holding, TypeOK
    <3> QED BY <1>0, <2>1, <2>2, <3>1, <3>2
  <2>4. CASE h \notin Holding(r)
    <3>1. Holding(r)' = Holding(r)
      BY <1>3, <2>4
    <3> QED BY <1>0, <1>4, <2>1, <2>2, <3>1
  <2> QED BY <2>3, <2>4
<1>6. ASSUME NEW r \in Rows, ext[r] # 0
      PROVE  platform[r] + Cardinality(Creating(r)') <= lost'[r] + Cardinality(Handlers)
  <2>1. platform[r] + Cardinality(Creating(r)) <= lost[r] + Cardinality(Handlers)
    BY <1>6 DEF DuplicateInv
  <2>2. Cardinality(Creating(r)) \in Nat /\ Cardinality(Handlers) \in Nat
    BY HandlersCount DEF Creating
  <2> QED BY <1>0, <1>2, <1>4, <2>1, <2>2
<1>7. \A k \in Handlers : handler'[k].pc = "create" => handler'[k].ext = 0
  BY <1>1 DEF DuplicateInv
<1> QED BY <1>0, <1>5, <1>6, <1>7 DEF DuplicateInv

(* A crash loses every id that was at hand.                                *)
LEMMA CrashKeepsDuplicates ==
  ASSUME TypeOK, TypeOK', DuplicateInv, Crash
  PROVE  DuplicateInv'
<1>0. /\ ext' = ext /\ platform' = platform /\ Idle.pc = "idle"
      /\ \A h \in Handlers : handler'[h] = Idle
      /\ \A r \in Rows : lost'[r] = lost[r] + Cardinality(Holding(r))
      /\ \A r \in Rows : platform[r] \in Nat /\ lost[r] \in Nat
  BY DEF Crash, db, Holding, Idle, TypeOK
<1>1. \A r \in Rows : Holding(r)' = {} /\ Creating(r)' = {}
  BY <1>0 DEF Holding, HoldsUnsavedId, Creating, MayCreate
<1>2. Cardinality({}) = 0
  BY FS_EmptySet
<1>3. \A r \in Rows : /\ Cardinality(Holding(r)) \in Nat /\ Cardinality(Creating(r)) \in Nat
                      /\ Cardinality(Handlers) \in Nat
  BY HandlersCount DEF Holding, Creating
<1>4. ASSUME NEW r \in Rows
      PROVE  /\ ext[r] = 0 => platform[r] <= lost'[r] + 0
             /\ ext[r] # 0 => platform[r] + 0 <= lost'[r] + Cardinality(Handlers)
  BY <1>0, <1>3 DEF DuplicateInv
<1> QED BY <1>0, <1>1, <1>2, <1>4 DEF DuplicateInv

(* Every await of a delivery keeps the count.                              *)
LEMMA HandlerStepKeepsDuplicates ==
  ASSUME TypeOK, TypeOK', SavedInv, DuplicateInv, NEW h \in Handlers, HandlerStep(h)
  PROVE  DuplicateInv'
<1> USE DEF HandlerOnly, db, env
<1>0. handler[h] \in Delivery /\ RowOf(h) \in Rows
  BY DEF TypeOK, RowOf, Delivery, Messages
<1> DEFINE Quiet == /\ \A k \in Handlers \ {h} : handler'[k] = handler[k]
                    /\ handler[h].pc # "persist"
                    /\ ext' = ext /\ platform' = platform /\ lost' = lost
<1>1. CASE LoadRow(h)
  <2>1. CASE Exists
    <3>1. /\ Quiet /\ handler'[h].pc = "account" /\ handler'[h].ext = ext[RowOf(h)]
          /\ handler'[h].msg = handler[h].msg
      BY <1>0, <1>1, <2>1 DEF LoadRow, TypeOK, Delivery
    <3> QED BY <3>1, MoveKeepsDuplicates DEF MayCreate, HoldsUnsavedId
  <2>2. CASE ~Exists
    <3>1. Quiet /\ handler'[h].pc = "settle"
      BY <1>1, <2>2, ThrowEffect DEF LoadRow
    <3> QED BY <3>1, MoveKeepsDuplicates DEF MayCreate, HoldsUnsavedId
  <2> QED BY <2>1, <2>2
<1>2. CASE FindAccount(h)
  <2>1. /\ Quiet /\ handler'[h].msg = handler[h].msg
        /\ handler'[h].pc \in {"limit", "fail"}
        /\ handler'[h].pc = "limit" => handler'[h].ext = handler[h].ext
        /\ handler[h].pc = "account"
    BY <1>0, <1>2, ThrowEffect DEF FindAccount, TypeOK, Delivery
  <2> QED BY <2>1, MoveKeepsDuplicates DEF MayCreate, HoldsUnsavedId
<1>3. CASE EnforceRateLimit(h)
  <2>1. /\ Quiet /\ handler'[h].msg = handler[h].msg /\ handler'[h].pc = "token"
        /\ handler'[h].ext = handler[h].ext /\ handler[h].pc = "limit"
    BY <1>3, GotoEffect DEF EnforceRateLimit
  <2> QED BY <2>1, MoveKeepsDuplicates DEF MayCreate, HoldsUnsavedId
<1>4. CASE RequireToken(h)
  <2>1. /\ Quiet /\ handler'[h].msg = handler[h].msg
        /\ handler[h].pc = "token"
        /\ handler'[h].pc \in {"create", "persist", "fail"}
        /\ handler'[h].pc = "create" => handler[h].ext = 0 /\ handler'[h].ext = 0
    <3>1. CASE handler[h].usable /\ handler[h].ext = 0
      BY <1>4, <3>1, GotoEffect DEF RequireToken
    <3>2. CASE handler[h].usable /\ handler[h].ext # 0
      <4>1. Goto(h, "persist") /\ handler[h].pc = "token"
        BY <1>4, <3>2 DEF RequireToken
      <4>2. ext' = ext /\ platform' = platform /\ lost' = lost
        BY <1>4 DEF RequireToken
      <4> QED BY <4>1, <4>2, GotoEffect
    <3>3. CASE ~handler[h].usable
      BY <1>4, <3>3, ThrowEffect DEF RequireToken
    <3> QED BY <3>1, <3>2, <3>3
  <2> QED BY <2>1, MoveKeepsDuplicates DEF MayCreate, HoldsUnsavedId
<1>5. CASE \/ ReadFails(h) \/ RateLimitExceeded(h) \/ RefreshFails(h) \/ CreateRefused(h)
           \/ MarkLookupFails(h)
  <2>1. Quiet /\ handler'[h].pc \in {"settle", "fail"}
    BY <1>5, ThrowEffect DEF ReadFails, RateLimitExceeded, RefreshFails, CreateRefused,
       MarkLookupFails
  <2> QED BY <2>1, MoveKeepsDuplicates DEF MayCreate, HoldsUnsavedId
<1>6. CASE CheckProcessed(h)
  <2>1. Quiet /\ handler'[h].pc \in {"ack", "load"}
    BY <1>6, GotoEffect DEF CheckProcessed
  <2> QED BY <2>1, MoveKeepsDuplicates DEF MayCreate, HoldsUnsavedId
<1>7. CASE MarkError(h) \/ MarkErrorFails(h) \/ MarkProcessed(h) \/ MarkInsertFails(h)
           \/ SettleRetry(h) \/ SettleDead(h)
  <2>1. Quiet /\ handler'[h].pc \in {"reconcile", "ack"}
    BY <1>7, GotoEffect DEF MarkError, MarkErrorFails, MarkProcessed, MarkInsertFails,
       SettleRetry, SettleDead
  <2> QED BY <2>1, MoveKeepsDuplicates DEF MayCreate, HoldsUnsavedId
<1>8. CASE ReconcileRead(h) \/ ReconcileWrite(h) \/ ReconcileFails(h)
  <2>1. Quiet /\ handler'[h].pc \in {"write", "mark", "settle"}
    BY <1>0, <1>8, GotoEffect DEF ReconcileRead, ReconcileWrite, ReconcileFails,
       AfterReconcile, TypeOK, Delivery
  <2> QED BY <2>1, MoveKeepsDuplicates DEF MayCreate, HoldsUnsavedId
<1>9. CASE Ack(h)
  <2>1. Quiet /\ handler'[h].pc = "idle"
    BY <1>9 DEF Ack, TypeOK, Idle
  <2> QED BY <2>1, MoveKeepsDuplicates DEF MayCreate, HoldsUnsavedId
<1> QED
  BY <1>1, <1>2, <1>3, <1>4, <1>5, <1>6, <1>7, <1>8, <1>9, CreateKeepsDuplicates,
     PersistKeepsDuplicates, LossKeepsDuplicates
  DEF HandlerStep

(* So does every step.                                                     *)
LEMMA DuplicateStep == TypeOK /\ SavedInv /\ DuplicateInv /\ [Next]_vars => DuplicateInv'
<1> SUFFICES ASSUME TypeOK, SavedInv, DuplicateInv, [Next]_vars PROVE DuplicateInv'
  OBVIOUS
<1> USE DEF db, env
<1>0. TypeOK'
  BY TypeStep
<1>1. ASSUME NEW h \in Handlers, HandlerStep(h) PROVE DuplicateInv'
  BY <1>0, <1>1, HandlerStepKeepsDuplicates
<1>2. ASSUME NEW h \in Handlers, NEW m \in Messages, Deliver(h, m) PROVE DuplicateInv'
  <2>1. /\ handler'[h].pc = "check" /\ handler[h].pc = "idle"
        /\ \A k \in Handlers \ {h} : handler'[k] = handler[k]
        /\ ext' = ext /\ platform' = platform /\ lost' = lost
    BY <1>2 DEF Deliver, TypeOK, Idle
  <2> QED BY <1>0, <2>1, MoveKeepsDuplicates DEF MayCreate, HoldsUnsavedId
<1>3. ASSUME handler' = handler, ext' = ext, platform' = platform, lost' = lost
      PROVE  DuplicateInv'
  BY <1>3 DEF DuplicateInv, Holding, HoldsUnsavedId, Creating, RowOf, MayCreate
<1>4. ASSUME NEW r \in Rows, RequestStep(r) \/ UserStep(r) PROVE DuplicateInv'
  BY <1>3, <1>4 DEF RequestStep, UserStep, PublishCreated, PublishCreatedFails,
     DisconnectPauses, Disconnect, Link
<1>5. CASE Age \/ PeriodicSweep \/ StartupSweep \/ Remove \/ UNCHANGED vars
  BY <1>3, <1>5 DEF Age, PeriodicSweep, StartupSweep, Remove, vars
<1>6. CASE Crash
  BY <1>0, <1>6, CrashKeepsDuplicates
<1> QED
  BY <1>1, <1>2, <1>4, <1>5, <1>6 DEF Next, DeliverAny

(* Every campaign of the platform beyond one per concurrent delivery is an *)
(* id that was lost before it could be saved.                              *)
THEOREM DuplicatesAccounted == Spec => []DuplicatesAreAccounted
<1>1. Init => DuplicateInv
  <2> SUFFICES ASSUME Init PROVE DuplicateInv
    OBVIOUS
  <2>1. Idle.pc = "idle"
    BY DEF Idle
  <2>2. \A r \in Rows : Cardinality(Holding(r)) \in Nat
    BY HandlersCount DEF Holding
  <2> QED BY <2>1, <2>2 DEF Init, DuplicateInv
<1>2. TypeOK /\ SavedInv /\ DuplicateInv /\ [Next]_vars => DuplicateInv'
  BY DuplicateStep
<1>3. TypeOK /\ DuplicateInv => DuplicatesAreAccounted
  <2> SUFFICES ASSUME TypeOK, DuplicateInv, NEW r \in Rows
               PROVE  platform[r] <= lost[r] + Cardinality(Handlers)
    BY DEF DuplicatesAreAccounted
  <2>1. /\ platform[r] \in Nat /\ lost[r] \in Nat /\ Cardinality(Handlers) \in Nat
        /\ Cardinality(Creating(r)) \in Nat /\ Cardinality(Holding(r)) \in Nat
        /\ Cardinality(Holding(r)) <= Cardinality(Handlers)
    BY HandlersCount DEF TypeOK, Creating, Holding
  <2>2. CASE ext[r] = 0
    <3>1. platform[r] <= lost[r] + Cardinality(Holding(r))
      BY <2>2 DEF DuplicateInv
    <3> QED BY <2>1, <3>1
  <2>3. CASE ext[r] # 0
    <3>1. platform[r] + Cardinality(Creating(r)) <= lost[r] + Cardinality(Handlers)
      BY <2>3 DEF DuplicateInv
    <3> QED BY <2>1, <3>1
  <2> QED BY <2>2, <2>3
<1>4. Spec => [](TypeOK /\ SavedInv)
  BY SavedInvariant
<1> QED BY <1>1, <1>2, <1>3, <1>4, PTL DEF Spec

-----------------------------------------------------------------------------
(* The parent                                                              *)

(* Reconciling again what was just reconciled changes nothing. *)
LEMMA TargetIsStable ==
  ASSUME NEW u, NEW S
  PROVE  ReconcileTarget(ReconcileTarget(u, S), S) = ReconcileTarget(u, S)
BY DEF ReconcileTarget

(* If all rows agree, and none is active, the parent is to be as they are. *)
LEMMA TargetOfOne ==
  ASSUME NEW u, NEW x \in Statuses, x # "ACTIVE"
  PROVE  ReconcileTarget(u, {x}) = x
<1>1. (CHOOSE y \in Statuses : {x} = {y}) = x
  OBVIOUS
<1> QED BY <1>1 DEF ReconcileTarget

(* What the parent would become follows from the parent and the rows. *)
LEMMA SameTarget ==
  ASSUME uacm' = uacm, status' = status
  PROVE  TargetNow' = TargetNow /\ (Exists' <=> Exists)
BY DEF TargetNow, Exists

(* A step that writes neither parent nor rows may move a delivery that is  *)
(* not reconciling, not even to what it is about to write.                 *)
LEMMA MoveKeepsReconcile ==
  ASSUME ReconcileInv, NEW h \in Handlers,
         \A k \in Handlers \ {h} : handler'[k] = handler[k],
         uacm' = uacm, status' = status, disconnecting' = disconnecting, harmed => harmed',
         ~Reconciling(h), handler'[h].pc # "write"
  PROVE  ReconcileInv'
<1>1. TargetNow' = TargetNow /\ (Exists' <=> Exists)
  BY SameTarget
<1>2. \A k \in Handlers : Overtaken(k)' => Overtaken(k)
  BY <1>1 DEF Overtaken
<1>3. \A k \in Handlers : Reconciling(k) => Reconciling(k)'
  BY DEF Reconciling
<1> QED BY <1>1, <1>2, <1>3 DEF ReconcileInv

(* A row's status is written by a delivery that is about to reconcile; if  *)
(* another one's reconcile is overtaken, that is remembered.               *)
LEMMA WrittenKeepsReconcile ==
  ASSUME ReconcileInv, NEW h \in Handlers, StatusWritten, handler'[h].pc = "reconcile",
         disconnecting' = disconnecting
  PROVE  ReconcileInv'
<1>1. harmed => harmed'
  BY DEF StatusWritten
<1>2. ~harmed' => \A k \in Handlers : ~Overtaken(k)'
  BY DEF StatusWritten
<1>3. Reconciling(h)'
  BY DEF Reconciling
<1> QED BY <1>1, <1>2, <1>3 DEF ReconcileInv

(* Reconciling reads what the parent is to become, ...                     *)
LEMMA ReadKeepsReconcile ==
  ASSUME TypeOK, ReconcileInv, NEW h \in Handlers, ReconcileRead(h)
  PROVE  ReconcileInv'
<1>0. /\ handler[h].pc = "reconcile" /\ handler[h] \in Delivery
      /\ uacm' = uacm /\ status' = status /\ disconnecting' = disconnecting /\ harmed' = harmed
  BY DEF ReconcileRead, HandlerOnly, db, requests, Undisturbed, TypeOK
<1>1. TargetNow' = TargetNow /\ (Exists' <=> Exists)
  BY <1>0, SameTarget
<1>2. CASE Exists /\ TargetNow # uacm
  <2>1. /\ handler'[h].pc = "write" /\ handler'[h].target = TargetNow
        /\ \A k \in Handlers \ {h} : handler'[k] = handler[k]
    BY <1>0, <1>2 DEF ReconcileRead, TypeOK, Delivery
  <2>2. \A k \in Handlers : Overtaken(k)' => Overtaken(k)
    BY <1>1, <2>1 DEF Overtaken
  <2>3. Reconciling(h)'
    BY <2>1 DEF Reconciling
  <2> QED BY <1>0, <1>1, <2>2, <2>3 DEF ReconcileInv
<1>3. CASE ~(Exists /\ TargetNow # uacm)
  <2>1. Goto(h, AfterReconcile(h)) /\ AfterReconcile(h) \in {"mark", "settle"}
    BY <1>3 DEF ReconcileRead, AfterReconcile
  <2>2. handler'[h].pc # "write" /\ \A k \in Handlers \ {h} : handler'[k] = handler[k]
    BY <2>1, GotoEffect
  <2>3. \A k \in Handlers : Overtaken(k)' => Overtaken(k)
    BY <1>1, <2>2 DEF Overtaken
  <2> QED BY <1>0, <1>1, <1>3, <2>3 DEF ReconcileInv
<1> QED BY <1>2, <1>3

(* ... and writes it, which is right if it was not overtaken: every other  *)
(* reconcile that is under way is about to write the same.                 *)
LEMMA WriteKeepsReconcile ==
  ASSUME TypeOK, ReconcileInv, NEW h \in Handlers, ReconcileWrite(h)
  PROVE  ReconcileInv'
<1>0. /\ handler[h].pc = "write" /\ status' = status
      /\ disconnecting' = disconnecting /\ harmed' = harmed
      /\ uacm' = IF Exists THEN handler[h].target ELSE uacm
  BY DEF ReconcileWrite, requests, Undisturbed
<1>1. /\ \A k \in Handlers \ {h} : handler'[k] = handler[k]
      /\ handler'[h].pc \in {"mark", "settle"}
  BY DEF ReconcileWrite, AfterReconcile, TypeOK, Delivery
<1>2. ASSUME Exists', ~harmed'
      PROVE  uacm' = TargetNow' /\ \A k \in Handlers : ~Overtaken(k)'
  <2>1. Exists /\ ~harmed
    BY <1>0, <1>2 DEF Exists
  <2>2. \A k \in Handlers : ~Overtaken(k)
    BY <2>1 DEF ReconcileInv
  <2>3. uacm' = TargetNow
    BY <1>0, <2>1, <2>2 DEF Overtaken
  <2>4. TargetNow' = TargetNow
    <3>1. TargetNow' = ReconcileTarget(TargetNow, {status[r] : r \in Rows})
      BY <1>0, <2>3 DEF TargetNow
    <3> QED BY <3>1, TargetIsStable DEF TargetNow
  <2> QED BY <1>1, <2>2, <2>3, <2>4 DEF Overtaken
<1> QED BY <1>0, <1>2 DEF ReconcileInv

(* Every await of a delivery keeps the invariant.                          *)
LEMMA HandlerStepKeepsReconcile ==
  ASSUME TypeOK, ReconcileInv, NEW h \in Handlers, HandlerStep(h)
  PROVE  ReconcileInv'
<1> USE DEF HandlerOnly, db, requests, Undisturbed, Disturb
<1> DEFINE Moved == /\ \A k \in Handlers \ {h} : handler'[k] = handler[k]
                    /\ uacm' = uacm /\ status' = status /\ disconnecting' = disconnecting
                    /\ harmed => harmed'
                    /\ ~Reconciling(h) /\ handler'[h].pc # "write"
<1>0. handler[h] \in Delivery /\ harmed \in BOOLEAN
  BY DEF TypeOK
<1>1. CASE CheckProcessed(h) \/ EnforceRateLimit(h)
  <2>1. /\ handler'[h].pc \in {"ack", "load", "token"}
        /\ \A k \in Handlers \ {h} : handler'[k] = handler[k]
    BY <1>1, GotoEffect DEF CheckProcessed, EnforceRateLimit
  <2>2. Moved
    BY <1>1, <2>1 DEF CheckProcessed, EnforceRateLimit, Reconciling
  <2> QED BY <2>2, MoveKeepsReconcile
<1>2. CASE LoadRow(h) \/ FindAccount(h) \/ ReadFails(h) \/ RateLimitExceeded(h)
  <2>1. Moved
    BY <1>0, <1>2, ThrowEffect DEF LoadRow, FindAccount, ReadFails, RateLimitExceeded,
       Reconciling, TypeOK, Delivery
  <2> QED BY <2>1, MoveKeepsReconcile
<1>3. CASE RequireToken(h)
  <2>1. /\ handler'[h].pc \in {"create", "persist", "fail"}
        /\ \A k \in Handlers \ {h} : handler'[k] = handler[k]
    BY <1>3, GotoEffect, ThrowEffect DEF RequireToken
  <2>2. Moved
    BY <1>3, <2>1 DEF RequireToken, Reconciling
  <2> QED BY <2>2, MoveKeepsReconcile
<1>4. CASE RefreshFails(h) \/ CreateRefused(h) \/ CreateAnswerLost(h)
  <2>1. Moved
    BY <1>0, <1>4, ThrowEffect DEF RefreshFails, CreateRefused, CreateAnswerLost, Reconciling
  <2> QED BY <2>1, MoveKeepsReconcile
<1>5. CASE CreateOnPlatform(h)
  <2>1. Moved
    BY <1>0, <1>5 DEF CreateOnPlatform, Reconciling, TypeOK, Delivery
  <2> QED BY <2>1, MoveKeepsReconcile
<1>6. CASE PersistGone(h) \/ PersistFails(h) \/ MarkLookupFails(h)
  <2>1. Moved
    BY <1>0, <1>6, ThrowEffect DEF PersistGone, PersistFails, MarkLookupFails, Reconciling
  <2> QED BY <2>1, MoveKeepsReconcile
<1>7. CASE MarkErrorFails(h) \/ MarkProcessed(h) \/ MarkInsertFails(h)
           \/ SettleRetry(h) \/ SettleDead(h)
  <2>1. Moved
    BY <1>0, <1>7, GotoEffect DEF MarkErrorFails, MarkProcessed, MarkInsertFails, SettleRetry,
       SettleDead, Reconciling
  <2> QED BY <2>1, MoveKeepsReconcile
<1>8. CASE Ack(h)
  <2>1. Moved
    BY <1>0, <1>8 DEF Ack, Reconciling, TypeOK, Idle
  <2> QED BY <2>1, MoveKeepsReconcile
<1>9. CASE Persist(h) \/ MarkError(h)
  <2>1. StatusWritten /\ disconnecting' = disconnecting /\ handler'[h].pc = "reconcile"
    BY <1>0, <1>9, GotoEffect DEF Persist, MarkError, TypeOK, Delivery
  <2> QED BY <2>1, WrittenKeepsReconcile
<1>10. CASE ReconcileFails(h)
  <2>1. harmed'
    BY <1>10 DEF ReconcileFails
  <2> QED BY <2>1 DEF ReconcileInv
<1> QED
  BY <1>1, <1>2, <1>3, <1>4, <1>5, <1>6, <1>7, <1>8, <1>9, <1>10, ReadKeepsReconcile,
     WriteKeepsReconcile DEF HandlerStep

(* So does every step: a crash and a disconnect are remembered as harm.    *)
LEMMA ReconcileStep == TypeOK /\ ReconcileInv /\ [Next]_vars => ReconcileInv'
<1> SUFFICES ASSUME TypeOK, ReconcileInv, [Next]_vars PROVE ReconcileInv'
  OBVIOUS
<1> USE DEF db, requests, Undisturbed, Disturb
<1>1. ASSUME NEW h \in Handlers, HandlerStep(h) PROVE ReconcileInv'
  BY <1>1, HandlerStepKeepsReconcile
<1>2. ASSUME NEW h \in Handlers, NEW m \in Messages, Deliver(h, m) PROVE ReconcileInv'
  <2>1. /\ handler'[h].pc = "check" /\ handler[h].pc = "idle"
        /\ \A k \in Handlers \ {h} : handler'[k] = handler[k]
        /\ uacm' = uacm /\ status' = status /\ disconnecting' = disconnecting
        /\ harmed' = harmed
    BY <1>2 DEF Deliver, TypeOK, Idle
  <2> QED BY <2>1, MoveKeepsReconcile DEF Reconciling
<1>3. ASSUME handler' = handler, uacm' = uacm, status' = status,
             disconnecting' = disconnecting, harmed' = harmed
      PROVE  ReconcileInv'
  <2>1. TargetNow' = TargetNow /\ (Exists' <=> Exists)
    BY <1>3, SameTarget
  <2> QED BY <1>3, <2>1 DEF ReconcileInv, Reconciling, Overtaken
<1>4. ASSUME NEW r \in Rows, RequestStep(r) \/ UserStep(r) PROVE ReconcileInv'
  <2>1. CASE PublishCreated(r) \/ PublishCreatedFails(r) \/ Link(r)
    BY <1>3, <2>1 DEF PublishCreated, PublishCreatedFails, Link, TypeOK
  <2>2. CASE DisconnectPauses(r) \/ Disconnect(r)
    <3>1. harmed'
      BY <2>2 DEF DisconnectPauses, Disconnect, ReconcileInv
    <3> QED BY <3>1 DEF ReconcileInv
  <2> QED BY <1>4, <2>1, <2>2 DEF RequestStep, UserStep
<1>5. CASE Age \/ PeriodicSweep \/ StartupSweep \/ UNCHANGED vars
  BY <1>3, <1>5 DEF Age, PeriodicSweep, StartupSweep, vars
<1>6. CASE Crash
  BY <1>6 DEF Crash, ReconcileInv
<1>7. CASE Remove
  BY <1>7 DEF Remove, ReconcileInv, Exists, TypeOK
<1> QED
  BY <1>1, <1>2, <1>4, <1>5, <1>6, <1>7 DEF Next, DeliverAny

(* Whenever no delivery is in flight the parent has the status its rows    *)
(* determine, unless a reconcile was overtaken or cut short, or an account *)
(* disconnected.                                                           *)
THEOREM ParentFollows == Spec => []ParentAgrees
<1>1. Init => ReconcileInv
  <2> SUFFICES ASSUME Init PROVE ReconcileInv
    OBVIOUS
  <2>1. uacm = TargetNow
    <3>1. {status[r] : r \in Rows} = {"PENDING"}
      BY RowsAssumption DEF Init
    <3>2. ReconcileTarget("PENDING", {"PENDING"}) = "PENDING"
      BY TargetOfOne DEF Statuses
    <3> QED BY <3>1, <3>2 DEF TargetNow, Init
  <2>2. \A h \in Handlers : ~Overtaken(h)
    BY DEF Init, Idle, Overtaken
  <2> QED BY <2>1, <2>2 DEF Init, ReconcileInv
<1>2. TypeOK /\ ReconcileInv /\ [Next]_vars => ReconcileInv'
  BY ReconcileStep
<1>3. ReconcileInv => ParentAgrees
  BY DEF ReconcileInv, ParentAgrees, Reconciling
<1>4. Spec => []TypeOK
  BY TypeCorrect
<1> QED BY <1>1, <1>2, <1>3, <1>4, PTL DEF Spec

-----------------------------------------------------------------------------
(* The parent, as long as nothing fails                                    *)

(* What reconcileUacmCampaignStatus derives from rows none of which is     *)
(* paused.                                                                 *)
LEMMA TargetOfRows ==
  ASSUME NEW s \in [Rows -> Statuses], \A r \in Rows : s[r] # "PAUSED", NEW u
  PROVE  LET t == ReconcileTarget(u, {s[r] : r \in Rows})
         IN /\ (\E r \in Rows : s[r] = "ACTIVE") => t = "ACTIVE"
            /\ (\A r \in Rows : s[r] = "ERROR") => t = "ERROR"
            /\ \/ \E r \in Rows : s[r] = "ACTIVE"
               \/ \A r \in Rows : s[r] = "ERROR"
               \/ \A r \in Rows : s[r] = "PENDING"
               \/ t = u
<1> DEFINE S == {s[r] : r \in Rows}
           t == ReconcileTarget(u, S)
           Derived == /\ (\E r \in Rows : s[r] = "ACTIVE") => t = "ACTIVE"
                      /\ (\A r \in Rows : s[r] = "ERROR") => t = "ERROR"
                      /\ \/ \E r \in Rows : s[r] = "ACTIVE"
                         \/ \A r \in Rows : s[r] = "ERROR"
                         \/ \A r \in Rows : s[r] = "PENDING"
                         \/ t = u
<1> SUFFICES Derived
  OBVIOUS
<1>1. CASE \E r \in Rows : s[r] = "ACTIVE"
  <2>1. "ACTIVE" \in S
    BY <1>1
  <2>2. t = "ACTIVE"
    <3> HIDE DEF S
    <3> QED BY <2>1 DEF ReconcileTarget
  <2> QED BY <1>1, <2>2
<1>2. CASE \A r \in Rows : s[r] # "ACTIVE"
  <2>1. "ACTIVE" \notin S
    BY <1>2
  <2>2. CASE \E x \in Statuses : S = {x}
    <3>1. PICK x \in Statuses : S = {x}
      BY <2>2
    <3>2. t = x /\ x # "ACTIVE"
      <4>1. x # "ACTIVE"
        BY <2>1, <3>1
      <4> HIDE DEF S
      <4> QED BY <3>1, <4>1, TargetOfOne
    <3>3. \A r \in Rows : s[r] = x
      BY <3>1
    <3>4. x # "PAUSED"
      BY RowsAssumption, <3>3
    <3>5. x \in {"ERROR", "PENDING"}
      BY <3>2, <3>4 DEF Statuses
    <3> HIDE DEF S, t
    <3> QED BY RowsAssumption, <1>2, <3>2, <3>3, <3>5
  <2>3. CASE ~\E x \in Statuses : S = {x}
    <3>1. t = u
      <4> HIDE DEF S
      <4> QED BY <2>1, <2>3 DEF ReconcileTarget
    <3>2. ~\A r \in Rows : s[r] = "ERROR"
      BY RowsAssumption, <2>3 DEF Statuses
    <3> QED BY <1>2, <3>1, <3>2
  <2> QED BY <2>2, <2>3
<1> QED BY <1>1, <1>2

(* So a status that the rows have decided for good is what a reconcile     *)
(* chooses.                                                                *)
LEMMA DecidedIsTarget ==
  ASSUME NEW s \in [Rows -> Statuses], \A r \in Rows : s[r] # "PAUSED", NEW u, NEW x,
         \/ x = "ACTIVE" /\ \E r \in Rows : s[r] = "ACTIVE"
         \/ x = "ERROR" /\ \A r \in Rows : s[r] = "ERROR"
  PROVE  ReconcileTarget(u, {s[r] : r \in Rows}) = x
BY TargetOfRows

(* A delivery that is not about to move stays sound while neither the rows *)
(* it looks at nor the accounts change.                                    *)
LEMMA OthersStaySound ==
  ASSUME NEW k \in Handlers, Sound(k), handler'[k] = handler[k], account' = account,
         status[RowOf(k)] # "PENDING" => status'[RowOf(k)] # "PENDING",
         SomeActive => SomeActive', AllError => AllError'
  PROVE  Sound(k)'
BY DEF Sound, Decided, RowOf, Reconciling

(* A step that writes no row may move a delivery that is not reconciling.  *)
LEMMA MoveKeepsMild ==
  ASSUME MildInv, NEW h \in Handlers,
         \A k \in Handlers \ {h} : handler'[k] = handler[k],
         uacm' = uacm, status' = status, account' = account,
         disconnecting' = disconnecting, harmed' = harmed,
         handler'[h].pc \notin {"reconcile", "write"},
         handler'[h].pc \in {"limit", "token"} =>
           (handler'[h].usable <=> account[handler'[h].msg.row] = "usable"),
         handler'[h].pc \in {"create", "persist"} => account[handler'[h].msg.row] = "usable",
         handler'[h].pc = "fail" => account[handler'[h].msg.row] # "usable"
  PROVE  MildInv'
<1>1. (SomeActive' <=> SomeActive) /\ (AllError' <=> AllError) /\ (Exists' <=> Exists)
  BY DEF SomeActive, AllError, Exists
<1>2. ASSUME NEW k \in Handlers PROVE Sound(k)'
  <2>1. CASE k = h
    BY <2>1 DEF Sound, RowOf, Reconciling
  <2>2. CASE k # h
    BY <1>1, <2>2, OthersStaySound DEF MildInv
  <2> QED BY <2>1, <2>2
<1> QED BY <1>1, <1>2 DEF MildInv

(* A row is written by a delivery that goes on to reconcile. Whatever the  *)
(* other reconciles are about to write is decided, and so stays the        *)
(* target: none of them is overtaken.                                      *)
LEMMA WriteKeepsMild ==
  ASSUME TypeOK, TypeOK', MildInv, NEW h \in Handlers, StatusWritten,
         \A k \in Handlers \ {h} : handler'[k] = handler[k],
         handler'[h].pc = "reconcile", status'[handler'[h].msg.row] # "PENDING",
         uacm' = uacm, account' = account, disconnecting' = disconnecting,
         \A r \in Rows : /\ status'[r] = "ACTIVE" => account[r] = "usable"
                         /\ status'[r] = "ERROR" => account[r] # "usable"
                         /\ status'[r] # "PAUSED"
                         /\ status[r] # "PENDING" => status'[r] # "PENDING",
         SomeActive => SomeActive', AllError => AllError'
  PROVE  MildInv'
<1>1. ASSUME NEW k \in Handlers PROVE Sound(k)'
  <2>1. CASE k = h
    BY <2>1 DEF Sound, RowOf, Reconciling
  <2>2. CASE k # h
    <3>1. RowOf(k) \in Rows
      BY DEF TypeOK, RowOf, Delivery, Messages
    <3> QED BY <2>2, <3>1, OthersStaySound DEF MildInv
  <2> QED BY <2>1, <2>2
<1>2. ASSUME NEW k \in Handlers PROVE ~Overtaken(k)'
  <2>1. SUFFICES ASSUME handler'[k].pc = "write" PROVE handler'[k].target = TargetNow'
    BY DEF Overtaken
  <2>2. status' \in [Rows -> Statuses]
    BY DEF TypeOK
  <2>3. \/ handler'[k].target = "ACTIVE" /\ \E r \in Rows : status'[r] = "ACTIVE"
        \/ handler'[k].target = "ERROR" /\ \A r \in Rows : status'[r] = "ERROR"
    BY <1>1, <2>1 DEF Sound, Decided, SomeActive, AllError
  <2> QED BY <2>2, <2>3, DecidedIsTarget DEF TargetNow
<1>3. ~harmed'
  BY <1>2 DEF StatusWritten, MildInv
<1> QED BY <1>1, <1>3 DEF MildInv, Exists

(* Success, on an account that is still usable.                            *)
LEMMA PersistKeepsMild ==
  ASSUME TypeOK, TypeOK', MildInv, NEW h \in Handlers, Persist(h)
  PROVE  MildInv'
<1>0. /\ handler[h].pc = "persist" /\ RowOf(h) \in Rows /\ account[RowOf(h)] = "usable"
      /\ uacm' = uacm /\ account' = account /\ disconnecting' = disconnecting
      /\ StatusWritten /\ status' = [status EXCEPT ![RowOf(h)] = "ACTIVE"]
  BY DEF Persist, env, requests, MildInv, Sound, TypeOK, RowOf, Delivery, Messages
<1>1. /\ \A k \in Handlers \ {h} : handler'[k] = handler[k]
      /\ handler'[h].pc = "reconcile" /\ handler'[h].msg = handler[h].msg
  BY DEF Persist, TypeOK, Delivery
<1>2. /\ status'[RowOf(h)] = "ACTIVE" /\ handler'[h].msg.row = RowOf(h)
      /\ \A r \in Rows \ {RowOf(h)} : status'[r] = status[r]
  BY <1>0, <1>1 DEF TypeOK, RowOf
<1>3. SomeActive' /\ ~AllError
  <2>1. status[RowOf(h)] # "ERROR"
    BY <1>0 DEF MildInv
  <2> QED BY <1>0, <1>2, <2>1 DEF SomeActive, AllError
<1>4. \A r \in Rows : /\ status'[r] = "ACTIVE" => account[r] = "usable"
                      /\ status'[r] = "ERROR" => account[r] # "usable"
                      /\ status'[r] # "PAUSED"
                      /\ status[r] # "PENDING" => status'[r] # "PENDING"
  BY <1>0, <1>2 DEF MildInv
<1>5. status'[handler'[h].msg.row] # "PENDING"
  BY <1>2
<1> QED BY <1>0, <1>1, <1>3, <1>4, <1>5, WriteKeepsMild

(* Failure, on an account that is not.                                     *)
LEMMA MarkErrorKeepsMild ==
  ASSUME TypeOK, TypeOK', MildInv, NEW h \in Handlers, MarkError(h)
  PROVE  MildInv'
<1>0. /\ handler[h].pc = "fail" /\ RowOf(h) \in Rows /\ account[RowOf(h)] # "usable"
      /\ uacm' = uacm /\ account' = account /\ disconnecting' = disconnecting
      /\ StatusWritten /\ status' = [status EXCEPT ![RowOf(h)] = "ERROR"]
  BY DEF MarkError, env, requests, MildInv, Sound, TypeOK, RowOf, Delivery, Messages
<1>1. /\ \A k \in Handlers \ {h} : handler'[k] = handler[k]
      /\ handler'[h].pc = "reconcile" /\ handler'[h].msg = handler[h].msg
  BY GotoEffect DEF MarkError
<1>2. /\ status'[RowOf(h)] = "ERROR" /\ handler'[h].msg.row = RowOf(h)
      /\ \A r \in Rows \ {RowOf(h)} : status'[r] = status[r]
  BY <1>0, <1>1 DEF TypeOK, RowOf
<1>3. (SomeActive => SomeActive') /\ (AllError => AllError')
  <2>1. status[RowOf(h)] # "ACTIVE"
    BY <1>0 DEF MildInv
  <2> QED BY <1>0, <1>2, <2>1 DEF SomeActive, AllError
<1>4. \A r \in Rows : /\ status'[r] = "ACTIVE" => account[r] = "usable"
                      /\ status'[r] = "ERROR" => account[r] # "usable"
                      /\ status'[r] # "PAUSED"
                      /\ status[r] # "PENDING" => status'[r] # "PENDING"
  BY <1>0, <1>2 DEF MildInv
<1>5. status'[handler'[h].msg.row] # "PENDING"
  BY <1>2
<1> QED BY <1>0, <1>1, <1>3, <1>4, <1>5, WriteKeepsMild

(* Reconciling reads a target the rows have decided for good, ...          *)
LEMMA ReconcileReadKeepsMild ==
  ASSUME TypeOK, MildInv, NEW h \in Handlers, ReconcileRead(h)
  PROVE  MildInv'
<1>0. /\ handler[h].pc = "reconcile" /\ RowOf(h) \in Rows /\ status[RowOf(h)] # "PENDING"
      /\ handler[h] \in Delivery /\ Exists
      /\ uacm' = uacm /\ account' = account /\ disconnecting' = disconnecting
      /\ harmed' = harmed /\ status' = status
  BY DEF ReconcileRead, HandlerOnly, db, env, requests, Undisturbed, MildInv, Sound, TypeOK,
     RowOf, Delivery, Messages, Reconciling
<1>1. /\ \A k \in Handlers \ {h} : handler'[k] = handler[k]
      /\ handler'[h].msg = handler[h].msg
      /\ \/ handler'[h].pc = "write" /\ handler'[h].target = TargetNow /\ TargetNow # uacm
         \/ handler'[h].pc \in {"mark", "settle"}
  <2>1. CASE TargetNow # uacm
    BY <1>0, <2>1 DEF ReconcileRead, TypeOK, Delivery
  <2>2. CASE TargetNow = uacm
    <3>1. Goto(h, AfterReconcile(h)) /\ AfterReconcile(h) \in {"mark", "settle"}
      BY <2>2 DEF ReconcileRead, AfterReconcile
    <3> QED BY <2>2, <3>1, GotoEffect
  <2> QED BY <2>1, <2>2
<1>2. TargetNow # uacm => Decided(TargetNow)
  <2>1. /\ (\E r \in Rows : status[r] = "ACTIVE") => TargetNow = "ACTIVE"
        /\ (\A r \in Rows : status[r] = "ERROR") => TargetNow = "ERROR"
        /\ \/ \E r \in Rows : status[r] = "ACTIVE"
           \/ \A r \in Rows : status[r] = "ERROR"
           \/ \A r \in Rows : status[r] = "PENDING"
           \/ TargetNow = uacm
    BY TargetOfRows DEF TargetNow, TypeOK, MildInv
  <2> QED BY <1>0, <2>1 DEF Decided, SomeActive, AllError
<1>3. (SomeActive' <=> SomeActive) /\ (AllError' <=> AllError) /\ (Exists' <=> Exists)
  BY <1>0 DEF SomeActive, AllError, Exists
<1>4. ASSUME NEW k \in Handlers PROVE Sound(k)'
  <2>1. CASE k = h
    BY <1>0, <1>1, <1>2, <1>3, <2>1 DEF Sound, RowOf, Decided
  <2>2. CASE k # h
    BY <1>0, <1>1, <1>3, <2>2, OthersStaySound DEF MildInv
  <2> QED BY <2>1, <2>2
<1> QED BY <1>0, <1>3, <1>4 DEF MildInv

(* ... and writes it.                                                      *)
LEMMA ReconcileWriteKeepsMild ==
  ASSUME TypeOK, MildInv, NEW h \in Handlers, ReconcileWrite(h)
  PROVE  MildInv'
<1>0. /\ handler[h].pc = "write" /\ Decided(handler[h].target) /\ Exists
      /\ uacm' = handler[h].target /\ account' = account /\ disconnecting' = disconnecting
      /\ harmed' = harmed /\ status' = status
  BY DEF ReconcileWrite, env, requests, Undisturbed, MildInv, Sound
<1>1. /\ \A k \in Handlers \ {h} : handler'[k] = handler[k]
      /\ handler'[h].pc \in {"mark", "settle"}
  BY DEF ReconcileWrite, AfterReconcile, TypeOK, Delivery
<1>2. (SomeActive' <=> SomeActive) /\ (AllError' <=> AllError) /\ Exists'
  BY <1>0 DEF SomeActive, AllError, Decided, Exists
<1>3. ASSUME NEW k \in Handlers PROVE Sound(k)'
  <2>1. CASE k = h
    BY <1>1, <2>1 DEF Sound, Reconciling
  <2>2. CASE k # h
    BY <1>0, <1>1, <1>2, <2>2, OthersStaySound DEF MildInv
  <2> QED BY <2>1, <2>2
<1> QED BY <1>0, <1>2, <1>3 DEF MildInv

(* Every await of a delivery keeps the invariant while nothing fails.      *)
LEMMA HandlerStepKeepsMild ==
  ASSUME Mild, TypeOK, TypeOK', MildInv, NEW h \in Handlers, HandlerStep(h)
  PROVE  MildInv'
<1> USE DEF HandlerOnly, db, env, requests, Undisturbed
<1>0. /\ harmed \in BOOLEAN /\ handler[h] \in Delivery /\ RowOf(h) \in Rows /\ Sound(h) /\ Exists
  BY DEF TypeOK, RowOf, Delivery, Messages, MildInv
<1>1. ~ \/ RefreshFails(h) \/ CreateRefused(h) \/ CreateAnswerLost(h) \/ PersistGone(h)
        \/ PersistFails(h) \/ MarkErrorFails(h) \/ ReconcileFails(h)
        \/ MarkLookupFails(h) \/ MarkInsertFails(h)
  BY <1>0 DEF RefreshFails, CreateRefused, CreateAnswerLost, PersistGone, PersistFails,
     MarkErrorFails, ReconcileFails, MarkLookupFails, MarkInsertFails, Disturb, Mild
<1> DEFINE Quiet == /\ \A k \in Handlers \ {h} : handler'[k] = handler[k]
                    /\ uacm' = uacm /\ status' = status /\ account' = account
                    /\ disconnecting' = disconnecting /\ harmed' = harmed
<1>2. CASE CheckProcessed(h)
  <2>1. Quiet /\ handler'[h].pc \in {"ack", "load"}
    BY <1>2, GotoEffect DEF CheckProcessed
  <2> QED BY <2>1, MoveKeepsMild
<1>3. CASE LoadRow(h)
  <2>1. Quiet /\ handler'[h].pc = "account"
    BY <1>0, <1>3 DEF LoadRow, TypeOK, Delivery
  <2> QED BY <2>1, MoveKeepsMild
<1>4. CASE FindAccount(h)
  <2>1. /\ Quiet /\ handler'[h].msg.row = RowOf(h)
        /\ \/ handler'[h].pc = "fail" /\ account[RowOf(h)] # "usable"
           \/ /\ handler'[h].pc = "limit"
              /\ handler'[h].usable <=> account[RowOf(h)] = "usable"
    BY <1>0, <1>4, ThrowEffect DEF FindAccount, TypeOK, Delivery, RowOf
  <2> QED BY <2>1, MoveKeepsMild
<1>5. CASE ReadFails(h) \/ RateLimitExceeded(h)
  <2>1. Quiet /\ handler'[h].pc = "settle"
    BY <1>0, <1>5, ThrowEffect DEF ReadFails, RateLimitExceeded, Disturb
  <2> QED BY <2>1, MoveKeepsMild
<1>6. CASE EnforceRateLimit(h)
  <2>1. /\ Quiet /\ handler'[h].msg.row = RowOf(h) /\ handler'[h].pc = "token"
        /\ handler'[h].usable <=> account[RowOf(h)] = "usable"
    BY <1>0, <1>6, GotoEffect DEF EnforceRateLimit, Sound, RowOf
  <2> QED BY <2>1, MoveKeepsMild
<1>7. CASE RequireToken(h)
  <2>1. Quiet /\ (handler[h].usable <=> account[RowOf(h)] = "usable")
    BY <1>0, <1>7, GotoEffect, ThrowEffect DEF RequireToken, Sound
  <2>2. CASE handler[h].usable
    <3>1. handler'[h].msg.row = RowOf(h) /\ handler'[h].pc \in {"create", "persist"}
      BY <1>7, <2>2, GotoEffect DEF RequireToken, RowOf
    <3> QED BY <2>1, <2>2, <3>1, MoveKeepsMild
  <2>3. CASE ~handler[h].usable
    <3>1. handler'[h].msg.row = RowOf(h) /\ handler'[h].pc = "fail"
      BY <1>7, <2>3, ThrowEffect DEF RequireToken, RowOf
    <3> QED BY <2>1, <2>3, <3>1, MoveKeepsMild
  <2> QED BY <2>2, <2>3
<1>8. CASE CreateOnPlatform(h)
  <2>1. /\ Quiet /\ handler'[h].msg.row = RowOf(h) /\ handler'[h].pc = "persist"
        /\ account[RowOf(h)] = "usable"
    BY <1>0, <1>8 DEF CreateOnPlatform, TypeOK, Delivery, Sound, RowOf
  <2> QED BY <2>1, MoveKeepsMild
<1>9. CASE MarkProcessed(h) \/ SettleRetry(h) \/ SettleDead(h)
  <2>1. Quiet /\ handler'[h].pc = "ack"
    BY <1>9, GotoEffect DEF MarkProcessed, SettleRetry, SettleDead
  <2> QED BY <2>1, MoveKeepsMild
<1>10. CASE Ack(h)
  <2>1. Quiet /\ handler'[h].pc = "idle"
    BY <1>10 DEF Ack, TypeOK, Idle
  <2> QED BY <2>1, MoveKeepsMild
<1> HIDE DEF Quiet
<1> QED
  BY <1>1, <1>2, <1>3, <1>4, <1>5, <1>6, <1>7, <1>8, <1>9, <1>10, PersistKeepsMild,
     MarkErrorKeepsMild, ReconcileReadKeepsMild, ReconcileWriteKeepsMild
  DEF HandlerStep

(* So does every step: no crash, disconnect or removal is among them.      *)
LEMMA MildStep ==
  ASSUME Mild, TypeOK, MildInv, [Next]_vars
  PROVE  MildInv'
<1> USE DEF db, env, Undisturbed
<1>0. TypeOK'
  BY TypeStep
<1>1. ASSUME NEW h \in Handlers, HandlerStep(h) PROVE MildInv'
  BY <1>0, <1>1, HandlerStepKeepsMild
<1>2. ASSUME NEW h \in Handlers, NEW m \in Messages, Deliver(h, m) PROVE MildInv'
  <2>1. /\ handler'[h].pc = "check" /\ handler[h].pc = "idle"
        /\ \A k \in Handlers \ {h} : handler'[k] = handler[k]
        /\ uacm' = uacm /\ status' = status /\ account' = account
        /\ disconnecting' = disconnecting /\ harmed' = harmed
    BY <1>2 DEF Deliver, TypeOK, Idle, requests
  <2> QED BY <2>1, MoveKeepsMild
<1>3. ASSUME handler' = handler, uacm' = uacm, status' = status, account' = account,
             disconnecting' = disconnecting, harmed' = harmed
      PROVE  MildInv'
  <2>1. (SomeActive' <=> SomeActive) /\ (AllError' <=> AllError) /\ (Exists' <=> Exists)
    BY <1>3 DEF SomeActive, AllError, Exists
  <2>2. \A h \in Handlers : Sound(h)'
    BY <1>3, <2>1, OthersStaySound DEF MildInv
  <2> QED BY <1>3, <2>1, <2>2 DEF MildInv
<1>4. ASSUME NEW r \in Rows, RequestStep(r) \/ UserStep(r) PROVE MildInv'
  <2>1. CASE PublishCreated(r) \/ PublishCreatedFails(r)
    BY <1>3, <2>1 DEF PublishCreated, PublishCreatedFails, Disturb, TypeOK
  <2>2. ~(DisconnectPauses(r) \/ Disconnect(r) \/ Link(r))
    BY DEF DisconnectPauses, Disconnect, Link, Disturb, Mild, MildInv
  <2> QED BY <1>4, <2>1, <2>2 DEF RequestStep, UserStep
<1>5. CASE Age \/ PeriodicSweep \/ StartupSweep \/ UNCHANGED vars
  BY <1>3, <1>5 DEF Age, PeriodicSweep, StartupSweep, vars, requests
<1>6. ~(Crash \/ Remove)
  BY DEF Crash, Remove, Disturb, Mild
<1> QED
  BY <1>1, <1>2, <1>4, <1>5, <1>6 DEF Next, DeliverAny

(* As long as nothing fails, no reconcile is ever overtaken or cut short,  *)
(* so the parent always follows its rows, however many deliveries          *)
(* interleave.                                                             *)
THEOREM MildIsHarmless ==
  ASSUME Mild
  PROVE  Spec => []NotHarmed
<1>1. Init => MildInv
  <2>1. \A h \in Handlers : Init => handler[h].pc = "idle"
    BY DEF Init, Idle
  <2> QED BY <2>1 DEF Init, MildInv, Exists, Sound, Reconciling
<1>2. TypeOK /\ MildInv /\ [Next]_vars => MildInv'
  BY MildStep
<1>3. MildInv => NotHarmed
  BY DEF MildInv, NotHarmed
<1>4. Spec => []TypeOK
  BY TypeCorrect
<1> QED BY <1>1, <1>2, <1>3, <1>4, PTL DEF Spec

=============================================================================
