-------------------------- MODULE CampaignCreation --------------------------
(***************************************************************************)
(* The creation of one UACM campaign on its advertising platforms, from    *)
(* the commit of POST /campaigns to the last acknowledgement:              *)
(*                                                                         *)
(*  - the request publishes one `campaign.created' event per platform row  *)
(*    (campaigns.service.ts);                                              *)
(*  - the worker handles them concurrently (no prefetch is configured),    *)
(*    one action per await of handleCampaignCreated (campaigns.worker.ts); *)
(*  - the consumer of rabbitmq.service.ts acknowledges, republishes with a *)
(*    higher x-retry-count, or dead-letters;                               *)
(*  - the startup and the periodic sweep republish PENDING rows;           *)
(*  - meanwhile the process may crash, the database, the platform and the  *)
(*    rate limiter may refuse, and the user may disconnect the account,    *)
(*    link it again, or delete the campaign.                               *)
(*                                                                         *)
(* Pausing and resuming are the subject of CampaignPauseResume.            *)
(***************************************************************************)
EXTENDS Naturals, FiniteSets, CampaignStatus

CONSTANTS
  Rows,             \* the platform campaigns of the UACM campaign
  Handlers,         \* deliveries that can be in flight at the same time
  MaxRetries,       \* options.maxRetries of campaign_created_queue
  QueueCap,         \* bound: first-attempt messages a sweep may pile up per row
  Faults,           \* the kinds of fault and of user intervention considered
  MaxDisturbances   \* bound: how many of them a behaviour has

ASSUME RowsAssumption == IsFiniteSet(Rows) /\ Rows # {}
ASSUME HandlersAssumption == IsFiniteSet(Handlers) /\ Handlers # {}
ASSUME RetriesAssumption == MaxRetries \in Nat \ {0}
ASSUME FaultsAssumption ==
  Faults \subseteq {"publish", "read", "limit", "refresh", "platform", "answer", "update",
                    "reconcile", "mark", "crash", "disconnect", "link", "remove"}
ASSUME BoundsAssumption == QueueCap \in Nat /\ MaxDisturbances \in Nat

VARIABLES
  uacm,           \* UacmCampaign.status, or "DELETED" once the rows are gone
  status,         \* PlatformCampaign.status
  ext,            \* PlatformCampaign.platformCampaignId; 0 is null
  processed,      \* rows with an idempotency record `campaign:<id>'
  account,        \* the user's ConnectedAccount of the row's platform
  platform,       \* campaigns the platform holds for the row: ids 1..platform[r]
  lost,           \* history: ids created on the platform and never saved
  queue,          \* ready messages of campaign_created_queue, a bag
  dlq,            \* rows with a message in campaign_created_dlq
  handler,        \* the deliveries in progress
  unpublished,    \* rows whose event the create request has still to publish
  disconnecting,  \* rows a disconnect request has still to pause
  age,            \* createdAt of the rows, as the sweeps see it
  booting,        \* the process restarted and its startup sweep is due
  disturbances,   \* bound: disturbances so far
  overlapped,     \* history: rows two of whose deliveries were in flight at once
  harmed          \* history: a reconcile was overtaken or cut short, or an
                  \* account disconnected (which nothing reconciles)

db == <<uacm, status, ext, processed>>
env == <<account, platform, lost>>
requests == <<unpublished, disconnecting, age, booting>>
vars == <<uacm, status, ext, processed, account, platform, lost, queue, dlq,
          handler, unpublished, disconnecting, age, booting, disturbances, overlapped, harmed>>

Messages == [row : Rows, attempt : 1..MaxRetries]

PCs == {"idle", "check", "load", "account", "limit", "token", "create",
        "persist", "fail", "reconcile", "write", "mark", "settle", "ack"}

(* What the code has decided about the delivery: "ok" returns, "retry"     *)
(* throws an error that may be retried, "terminal" one that may not be.    *)
Outcomes == {"ok", "retry", "terminal"}

(* A delivery: its message, and what the handler keeps in local variables  *)
(* across awaits. `ext' is the external id it read or created, `usable'    *)
(* the status of the account row it read, `target' what reconcile chose.   *)
Delivery == [pc : PCs, msg : Messages, ext : Nat, usable : BOOLEAN,
             target : Statuses, outcome : Outcomes]

Exists == uacm # "DELETED"
RowOf(h) == handler[h].msg.row
InFlight(r) == {h \in Handlers : handler[h].pc # "idle" /\ RowOf(h) = r}
Queued(r) == {m \in Messages : m.row = r /\ queue[m] > 0}
(* The status reconcileUacmCampaignStatus would give the parent now, and a *)
(* reconcile that is about to write another.                               *)
TargetNow == ReconcileTarget(uacm, {status[r] : r \in Rows})
Overtaken(h) == handler[h].pc = "write" /\ handler[h].target # TargetNow

PendingRows == IF Exists THEN {r \in Rows : status[r] = "PENDING"} ELSE {}

(* An id the handler holds that no row refers to yet. *)
HoldsUnsavedId(h) == handler[h].pc = "persist" /\ handler[h].ext # ext[RowOf(h)]

TypeOK ==
  /\ uacm \in Statuses \cup {"DELETED"}
  /\ status \in [Rows -> Statuses]
  /\ ext \in [Rows -> Nat]
  /\ processed \subseteq Rows
  /\ account \in [Rows -> {"none", "usable", "unusable"}]
  /\ platform \in [Rows -> Nat]
  /\ lost \in [Rows -> Nat]
  /\ queue \in [Messages -> Nat]
  /\ dlq \subseteq Rows
  /\ handler \in [Handlers -> Delivery]
  /\ unpublished \subseteq Rows
  /\ disconnecting \subseteq Rows
  /\ age \in {"fresh", "stale", "expired"}
  /\ booting \in BOOLEAN
  /\ disturbances \in Nat
  /\ overlapped \subseteq Rows
  /\ harmed \in BOOLEAN

FirstMessage(r) == [row |-> r, attempt |-> 1]

Idle == [pc |-> "idle", msg |-> FirstMessage(CHOOSE r \in Rows : TRUE), ext |-> 0,
         usable |-> FALSE, target |-> "PENDING", outcome |-> "ok"]

(* The transaction of POST /campaigns has committed: every row is PENDING  *)
(* and nothing is published yet. The request does not look at the          *)
(* connected accounts, so each may be missing or need reauthorization.     *)
Init ==
  /\ uacm = "PENDING"
  /\ status = [r \in Rows |-> "PENDING"]
  /\ ext = [r \in Rows |-> 0]
  /\ processed = {}
  /\ account \in [Rows -> {"none", "usable", "unusable"}]
  /\ platform = [r \in Rows |-> 0]
  /\ lost = [r \in Rows |-> 0]
  /\ queue = [m \in Messages |-> 0]
  /\ dlq = {}
  /\ handler = [h \in Handlers |-> Idle]
  /\ unpublished = Rows
  /\ disconnecting = {}
  /\ age = "fresh"
  /\ booting = FALSE
  /\ disturbances = 0
  /\ overlapped = {}
  /\ harmed = FALSE

Disturb(kind) == /\ kind \in Faults
                 /\ disturbances < MaxDisturbances
                 /\ disturbances' = disturbances + 1
                 /\ harmed' = (harmed \/ kind \in {"reconcile", "crash", "disconnect"})
                 /\ UNCHANGED overlapped
Undisturbed == UNCHANGED <<disturbances, overlapped, harmed>>

(* A row's status is written, perhaps between the two queries of another   *)
(* delivery's reconcile.                                                   *)
StatusWritten == /\ harmed' = (harmed \/ \E h \in Handlers : Overtaken(h)')
                 /\ UNCHANGED <<disturbances, overlapped>>

-----------------------------------------------------------------------------
(* The create request: publishing, after the commit                        *)

PublishCreated(r) ==
  /\ r \in unpublished
  /\ unpublished' = unpublished \ {r}
  /\ queue' = [queue EXCEPT ![FirstMessage(r)] = @ + 1]
  /\ UNCHANGED <<db, env, dlq, handler, disconnecting, age, booting>> /\ Undisturbed

(* publishEvent gives up after three attempts; create ignores it. *)
PublishCreatedFails(r) ==
  /\ r \in unpublished
  /\ unpublished' = unpublished \ {r}
  /\ UNCHANGED <<db, env, queue, dlq, handler, disconnecting, age, booting>> /\ Disturb("publish")

-----------------------------------------------------------------------------
(* The sweeps                                                              *)

(* Publish one more first-attempt message for each row of R. *)
Republish(R) ==
  queue' = [m \in Messages |->
              IF m.row \in R /\ m.attempt = 1 THEN queue[m] + 1 ELSE queue[m]]

Age ==
  /\ age' = IF age = "fresh" THEN "stale" ELSE "expired"
  /\ age # "expired"
  /\ UNCHANGED <<db, env, queue, dlq, handler, unpublished, disconnecting, booting>>
  /\ Undisturbed

(* Mutant: the age filter of the periodic sweep the wrong way round. *)
PeriodicSweep_FreshOnly ==
  /\ ~booting /\ age = "fresh"
  /\ PendingRows # {}
  /\ \A r \in PendingRows : queue[FirstMessage(r)] < QueueCap
  /\ Republish(PendingRows)
  /\ UNCHANGED <<db, env, dlq, handler, requests>> /\ Undisturbed

(* Every SWEEP_INTERVAL_MS, for rows older than STALE_THRESHOLD_MS and     *)
(* younger than MAX_SWEEP_AGE_MS. QueueCap bounds the model, not the code. *)
PeriodicSweep ==
  /\ ~booting /\ age = "stale"
  /\ PendingRows # {}
  /\ \A r \in PendingRows : queue[FirstMessage(r)] < QueueCap
  /\ Republish(PendingRows)
  /\ UNCHANGED <<db, env, dlq, handler, requests>> /\ Undisturbed

(* onModuleInit, once the queues are consumed again. *)
StartupSweep ==
  /\ booting
  /\ booting' = FALSE
  /\ Republish(IF age = "expired" THEN {} ELSE PendingRows)
  /\ UNCHANGED <<db, env, dlq, handler, unpublished, disconnecting, age>> /\ Undisturbed

-----------------------------------------------------------------------------
(* handleCampaignCreated                                                   *)

HandlerOnly == UNCHANGED <<db, env, queue, dlq, requests>>

Goto(h, pc) == handler' = [handler EXCEPT ![h].pc = pc]

(* Leave the handler's straight line with an error; its locals are dead. *)
Throw(h, pc, outcome) ==
  handler' = [handler EXCEPT ![h] =
                [Idle EXCEPT !.pc = pc, !.msg = handler[h].msg, !.outcome = outcome]]

Deliver(h, m) ==
  /\ handler[h].pc = "idle"
  /\ queue[m] > 0
  /\ queue' = [queue EXCEPT ![m] = @ - 1]
  /\ handler' = [handler EXCEPT ![h] = [Idle EXCEPT !.pc = "check", !.msg = m]]
  /\ overlapped' = IF InFlight(m.row) = {} THEN overlapped ELSE overlapped \cup {m.row}
  /\ UNCHANGED <<db, env, dlq, requests, disturbances, harmed>>

(* Mutant: the key is reserved when the delivery starts. *)
CheckProcessed_MarksFirst(h) ==
  /\ handler[h].pc = "check"
  /\ Goto(h, IF RowOf(h) \in processed THEN "ack" ELSE "load")
  /\ processed' = processed \cup {RowOf(h)}
  /\ UNCHANGED <<uacm, status, ext, env, queue, dlq, requests>> /\ Undisturbed

(* Mutant: duplicates are handled again. *)
CheckProcessed_NoSkip(h) ==
  /\ handler[h].pc = "check"
  /\ Goto(h, "load")
  /\ HandlerOnly /\ Undisturbed

(* isProcessed: a row already handled is acknowledged without further work. *)
CheckProcessed(h) ==
  /\ handler[h].pc = "check"
  /\ Goto(h, IF RowOf(h) \in processed THEN "ack" ELSE "load")
  /\ HandlerOnly /\ Undisturbed

LoadRow(h) ==
  /\ handler[h].pc = "load"
  /\ IF Exists
     THEN handler' = [handler EXCEPT ![h].pc = "account", ![h].ext = ext[RowOf(h)]]
     ELSE Throw(h, "settle", "terminal")      \* "... not found"
  /\ HandlerOnly /\ Undisturbed

FindAccount(h) ==
  /\ handler[h].pc = "account"
  /\ IF account[RowOf(h)] = "none"
     THEN Throw(h, "fail", "terminal")        \* "No connected account ..."
     ELSE handler' = [handler EXCEPT ![h].pc = "limit",
                                     ![h].usable = account[RowOf(h)] = "usable"]
  /\ HandlerOnly /\ Undisturbed

(* These reads are awaited outside the try block: an error leaves the row alone. *)
ReadFails(h) ==
  /\ handler[h].pc \in {"check", "load", "account"}
  /\ Throw(h, "settle", "retry")
  /\ HandlerOnly /\ Disturb("read")

EnforceRateLimit(h) ==
  /\ handler[h].pc = "limit"
  /\ Goto(h, "token")
  /\ HandlerOnly /\ Undisturbed

RateLimitExceeded(h) ==
  /\ handler[h].pc = "limit"
  /\ Throw(h, "settle", "retry")
  /\ HandlerOnly /\ Disturb("limit")

(* Mutant: a saved external id does not prevent another creation. *)
RequireToken_AlwaysCreates(h) ==
  /\ handler[h].pc = "token"
  /\ IF handler[h].usable THEN Goto(h, "create") ELSE Throw(h, "fail", "retry")
  /\ HandlerOnly /\ Undisturbed

(* requireValidAccessToken judges the account row that was read earlier. *)
RequireToken(h) ==
  /\ handler[h].pc = "token"
  /\ IF handler[h].usable
     THEN Goto(h, IF handler[h].ext = 0 THEN "create" ELSE "persist")
     ELSE Throw(h, "fail", "retry")
  /\ HandlerOnly /\ Undisturbed

(* The token had expired and the platform refused to refresh it. *)
RefreshFails(h) ==
  /\ handler[h].pc = "token" /\ handler[h].usable
  /\ account' = [account EXCEPT ![RowOf(h)] = "unusable"]
  /\ Throw(h, "fail", "retry")
  /\ UNCHANGED <<db, platform, lost, queue, dlq, requests>> /\ Disturb("refresh")

CreateOnPlatform(h) ==
  /\ handler[h].pc = "create"
  /\ platform' = [platform EXCEPT ![RowOf(h)] = @ + 1]
  /\ handler' = [handler EXCEPT ![h].pc = "persist",
                                ![h].ext = platform[RowOf(h)] + 1]
  /\ UNCHANGED <<db, account, lost, queue, dlq, requests>> /\ Undisturbed

(* The platform refuses, with an error that may match isTerminalError. *)
CreateRefused(h) ==
  /\ handler[h].pc = "create"
  /\ \E o \in {"retry", "terminal"} : Throw(h, "fail", o)
  /\ HandlerOnly /\ Disturb("platform")

(* The platform creates the campaign and its answer never arrives. *)
CreateAnswerLost(h) ==
  /\ handler[h].pc = "create"
  /\ platform' = [platform EXCEPT ![RowOf(h)] = @ + 1]
  /\ lost' = [lost EXCEPT ![RowOf(h)] = @ + 1]
  /\ Throw(h, "fail", "retry")
  /\ UNCHANGED <<db, account, queue, dlq, requests>> /\ Disturb("answer")

(* Mutant: only the status is persisted. *)
Persist_NoId(h) ==
  /\ handler[h].pc = "persist" /\ Exists
  /\ status' = [status EXCEPT ![RowOf(h)] = "ACTIVE"]
  /\ handler' = [handler EXCEPT ![h].pc = "reconcile", ![h].outcome = "ok"]
  /\ UNCHANGED <<uacm, ext, processed, env, queue, dlq, requests>> /\ StatusWritten

(* Mutant: success does not reconcile the parent. *)
Persist_NoReconcile(h) ==
  /\ handler[h].pc = "persist" /\ Exists
  /\ status' = [status EXCEPT ![RowOf(h)] = "ACTIVE"]
  /\ ext' = [ext EXCEPT ![RowOf(h)] = handler[h].ext]
  /\ handler' = [handler EXCEPT ![h].pc = "mark", ![h].outcome = "ok"]
  /\ UNCHANGED <<uacm, processed, env, queue, dlq, requests>> /\ StatusWritten

(* Whatever the row's status is by now, it becomes ACTIVE. *)
Persist(h) ==
  /\ handler[h].pc = "persist" /\ Exists
  /\ status' = [status EXCEPT ![RowOf(h)] = "ACTIVE"]
  /\ ext' = [ext EXCEPT ![RowOf(h)] = handler[h].ext]
  /\ handler' = [handler EXCEPT ![h].pc = "reconcile", ![h].outcome = "ok"]
  /\ UNCHANGED <<uacm, processed, env, queue, dlq, requests>> /\ StatusWritten

(* The row is gone (an error whose text says "not found") ... *)
PersistGone(h) ==
  /\ handler[h].pc = "persist" /\ ~Exists
  /\ lost' = [lost EXCEPT ![RowOf(h)] = @ + (IF HoldsUnsavedId(h) THEN 1 ELSE 0)]
  /\ Throw(h, "fail", "terminal")
  /\ UNCHANGED <<db, account, platform, queue, dlq, requests>> /\ Undisturbed

(* ... or the database refuses the update. *)
PersistFails(h) ==
  /\ handler[h].pc = "persist"
  /\ lost' = [lost EXCEPT ![RowOf(h)] = @ + (IF HoldsUnsavedId(h) THEN 1 ELSE 0)]
  /\ Throw(h, "fail", "retry")
  /\ UNCHANGED <<db, account, platform, queue, dlq, requests>> /\ Disturb("update")

(* The catch block, and the branch without an account, write ERROR         *)
(* whatever the row's status is by now; a failure to do so is swallowed.   *)
MarkError(h) ==
  /\ handler[h].pc = "fail"
  /\ status' = IF Exists THEN [status EXCEPT ![RowOf(h)] = "ERROR"] ELSE status
  /\ Goto(h, "reconcile")
  /\ UNCHANGED <<uacm, ext, processed, env, queue, dlq, requests>> /\ StatusWritten

MarkErrorFails(h) ==
  /\ handler[h].pc = "fail"
  /\ Goto(h, "reconcile")
  /\ HandlerOnly /\ Disturb("update")

(* reconcileUacmCampaignStatus reads parent and children, then updates the *)
(* parent with a second query; errors of either are swallowed.             *)
AfterReconcile(h) == IF handler[h].outcome = "ok" THEN "mark" ELSE "settle"

ReconcileRead(h) ==
  /\ handler[h].pc = "reconcile"
  /\ IF Exists /\ TargetNow # uacm
     THEN handler' = [handler EXCEPT ![h].pc = "write", ![h].target = TargetNow]
     ELSE Goto(h, AfterReconcile(h))
  /\ HandlerOnly /\ Undisturbed

ReconcileWrite(h) ==
  /\ handler[h].pc = "write"
  /\ uacm' = IF Exists THEN handler[h].target ELSE uacm
  /\ handler' = [handler EXCEPT ![h].pc = AfterReconcile(h), ![h].target = "PENDING"]
  /\ UNCHANGED <<status, ext, processed, env, queue, dlq, requests>> /\ Undisturbed

ReconcileFails(h) ==
  /\ handler[h].pc \in {"reconcile", "write"}
  /\ handler' = [handler EXCEPT ![h].pc = AfterReconcile(h), ![h].target = "PENDING"]
  /\ HandlerOnly /\ Disturb("reconcile")

(* checkAndMarkProcessed. Its lookup may throw, inside the try block; an   *)
(* error of its insert reads as "already processed".                       *)
MarkProcessed(h) ==
  /\ handler[h].pc = "mark"
  /\ processed' = processed \cup {RowOf(h)}
  /\ Goto(h, "ack")
  /\ UNCHANGED <<uacm, status, ext, env, queue, dlq, requests>> /\ Undisturbed

MarkLookupFails(h) ==
  /\ handler[h].pc = "mark"
  /\ Throw(h, "fail", "retry")
  /\ HandlerOnly /\ Disturb("mark")

MarkInsertFails(h) ==
  /\ handler[h].pc = "mark"
  /\ Goto(h, "ack")
  /\ HandlerOnly /\ Disturb("mark")

-----------------------------------------------------------------------------
(* The consumer of rabbitmq.service.ts, after the handler threw            *)

Exhausted(h) == \/ handler[h].msg.attempt >= MaxRetries
                \/ handler[h].outcome = "terminal"

(* Mutant: the retry count is not incremented. *)
SettleRetry_SameCount(h) ==
  /\ handler[h].pc = "settle" /\ ~Exhausted(h)
  /\ queue' = [queue EXCEPT ![handler[h].msg] = @ + 1]
  /\ Goto(h, "ack")
  /\ UNCHANGED <<db, env, dlq, requests>> /\ Undisturbed

(* Mutant: the message is acknowledged and not published again. *)
SettleRetry_Forgets(h) ==
  /\ handler[h].pc = "settle" /\ ~Exhausted(h)
  /\ Goto(h, "ack")
  /\ HandlerOnly /\ Undisturbed

SettleRetry(h) ==
  /\ handler[h].pc = "settle" /\ ~Exhausted(h)
  /\ queue' = [queue EXCEPT ![[handler[h].msg EXCEPT !.attempt = @ + 1]] = @ + 1]
  /\ Goto(h, "ack")
  /\ UNCHANGED <<db, env, dlq, requests>> /\ Undisturbed

(* Mutant: no dead-letter queue is configured. *)
SettleDead_Drops(h) ==
  /\ handler[h].pc = "settle" /\ Exhausted(h)
  /\ Goto(h, "ack")
  /\ HandlerOnly /\ Undisturbed

SettleDead(h) ==
  /\ handler[h].pc = "settle" /\ Exhausted(h)
  /\ dlq' = dlq \cup {RowOf(h)}
  /\ Goto(h, "ack")
  /\ UNCHANGED <<db, env, queue, requests>> /\ Undisturbed

(* ack, or nack without requeue: the broker forgets the delivery. *)
Ack(h) ==
  /\ handler[h].pc = "ack"
  /\ handler' = [handler EXCEPT ![h] = Idle]
  /\ HandlerOnly /\ Undisturbed

-----------------------------------------------------------------------------
(* The process, and the user                                               *)

(* The broker requeues every delivery that was not acknowledged, retry     *)
(* count included; requests in progress are cut short.                     *)
Crash ==
  /\ queue' = [m \in Messages |->
       queue[m] + Cardinality({h \in Handlers : handler[h].pc # "idle" /\ handler[h].msg = m})]
  /\ lost' = [r \in Rows |->
       lost[r] + Cardinality({h \in Handlers : RowOf(h) = r /\ HoldsUnsavedId(h)})]
  /\ handler' = [h \in Handlers |-> Idle]
  /\ unpublished' = {}
  /\ disconnecting' = {}
  /\ booting' = TRUE
  /\ UNCHANGED <<db, account, platform, dlq, age>> /\ Disturb("crash")

(* accounts.service.ts disconnect: the account row, then, with a second    *)
(* query, the rows of its platform, whatever their status.                 *)
Disconnect(r) ==
  /\ account[r] # "none"
  /\ account' = [account EXCEPT ![r] = "unusable"]
  /\ disconnecting' = disconnecting \cup {r}
  /\ UNCHANGED <<db, platform, lost, queue, dlq, handler, unpublished, age, booting>>
  /\ Disturb("disconnect")

DisconnectPauses(r) ==
  /\ r \in disconnecting
  /\ disconnecting' = disconnecting \ {r}
  /\ status' = [status EXCEPT ![r] = IF Exists THEN "PAUSED" ELSE @]
  /\ UNCHANGED <<uacm, ext, processed, env, queue, dlq, handler, unpublished, age, booting>>
  /\ Undisturbed

(* completeLinking upserts the account as CONNECTED. *)
Link(r) ==
  /\ account[r] # "usable"
  /\ account' = [account EXCEPT ![r] = "usable"]
  /\ UNCHANGED <<db, platform, lost, queue, dlq, handler, requests>> /\ Disturb("link")

Remove ==
  /\ Exists
  /\ uacm' = "DELETED"
  /\ UNCHANGED <<status, ext, processed, env, queue, dlq, handler, requests>> /\ Disturb("remove")

-----------------------------------------------------------------------------
HandlerStep(h) ==
  \/ CheckProcessed(h) \/ LoadRow(h) \/ FindAccount(h) \/ ReadFails(h)
  \/ EnforceRateLimit(h) \/ RateLimitExceeded(h)
  \/ RequireToken(h) \/ RefreshFails(h)
  \/ CreateOnPlatform(h) \/ CreateRefused(h) \/ CreateAnswerLost(h)
  \/ Persist(h) \/ PersistGone(h) \/ PersistFails(h)
  \/ MarkError(h) \/ MarkErrorFails(h)
  \/ ReconcileRead(h) \/ ReconcileWrite(h) \/ ReconcileFails(h)
  \/ MarkProcessed(h) \/ MarkLookupFails(h) \/ MarkInsertFails(h)
  \/ SettleRetry(h) \/ SettleDead(h) \/ Ack(h)

DeliverAny == \E h \in Handlers, m \in Messages : Deliver(h, m)
RequestStep(r) == PublishCreated(r) \/ PublishCreatedFails(r) \/ DisconnectPauses(r)
UserStep(r) == Disconnect(r) \/ Link(r)

Next ==
  \/ \E h \in Handlers : HandlerStep(h)
  \/ DeliverAny
  \/ \E r \in Rows : RequestStep(r) \/ UserStep(r)
  \/ Age \/ PeriodicSweep \/ StartupSweep
  \/ Crash \/ Remove

Spec == Init /\ [][Next]_vars

(* Awaits resolve, the broker delivers to an idle consumer, timers fire    *)
(* and a crashed process is started again. Nothing obliges a fault, a user *)
(* action, or 24 hours to pass (Age out of "stale").                       *)
Fairness ==
  /\ \A h \in Handlers : WF_vars(HandlerStep(h))
  /\ WF_vars(DeliverAny)
  /\ \A r \in Rows : WF_vars(RequestStep(r))
  /\ WF_vars(age = "fresh" /\ Age)
  /\ WF_vars(PeriodicSweep) /\ WF_vars(StartupSweep)

FairSpec == Spec /\ Fairness

-----------------------------------------------------------------------------
(* Safety                                                                  *)

(* A row the worker will never look at again (its idempotency key is       *)
(* taken) has its external id: the key is written last, so no crash or     *)
(* duplicate delivery can lose a creation by skipping it.                  *)
ProcessedIsSaved == \A r \in Rows : r \in processed => ext[r] # 0

(* A row shown as ACTIVE refers to a campaign the platform really holds,   *)
(* whichever of the concurrent deliveries wrote it last.                   *)
ActiveIsOnPlatform ==
  \A r \in Rows : status[r] = "ACTIVE" => ext[r] \in 1..platform[r]

(* Every campaign beyond the first is accounted for: its id was lost       *)
(* before it could be saved, or another delivery was in flight. In         *)
(* particular a retry after the id was saved never creates another.        *)
DuplicatesAreAccounted ==
  \A r \in Rows : platform[r] <= lost[r] + Cardinality(Handlers)

(* Nothing fails silently: a row left in ERROR, with no delivery in flight *)
(* and none queued, has a dead letter, or was created by another delivery. *)
ErrorIsDeadLettered ==
  \A r \in Rows :
    Exists /\ status[r] = "ERROR" /\ InFlight(r) = {} /\ Queued(r) = {}
      => r \in dlq \cup processed

(* No event is ever forgotten: under crashes, retries, duplicates and      *)
(* overlapping deliveries the consumer implements CreationEvents, where an *)
(* event leaves the broker only once its row is created or it is dead.     *)
Copies == {m \in Messages : queue[m] > 0 \/ \E h \in InFlight(m.row) : handler[h].msg = m}
Held == {m.row : m \in Copies}
Created == {r \in Rows : ext[r] # 0}
Events == INSTANCE CreationEvents WITH held <- Held, created <- Created, dead <- dlq
EventsAreAnswered == Events!Spec

(* A row counted as processed is never shown as failed, unless two of its  *)
(* deliveries overlapped (the worker has no prefetch): retries, lost       *)
(* answers, crashes and sweeps alone cannot do it.                         *)
ProcessedIsNotError ==
  \A r \in Rows : r \in processed /\ status[r] = "ERROR" => r \in overlapped

(* Whenever no delivery is in flight, the parent has the status its rows   *)
(* determine, although each reconcile reads and writes separately          *)
(* (reconcileUacmCampaignStatus) and several interleave, unless a row      *)
(* changed what one was about to write, one failed or died with the        *)
(* process, or an account was disconnected.                                *)
ParentAgrees ==
  Exists /\ ~harmed /\ (\A h \in Handlers : handler[h].pc = "idle") => uacm = TargetNow

(* Why ProcessedIsSaved and ActiveIsOnPlatform hold: the parts of an       *)
(* inductive invariant. Ids name campaigns of the platform, an id is at    *)
(* hand when it is persisted, saved when success is reported, and failure  *)
(* is never mistaken for success.                                          *)
IdsExist ==
  /\ \A r \in Rows : ext[r] <= platform[r]
  /\ \A h \in Handlers : handler[h].ext <= platform[RowOf(h)]
PersistHasId == \A h \in Handlers : handler[h].pc = "persist" => handler[h].ext # 0
Succeeded(d) == \/ d.pc = "mark"
                \/ d.pc \in {"reconcile", "write"} /\ d.outcome = "ok"
SuccessIsSaved == \A h \in Handlers : Succeeded(handler[h]) => ext[RowOf(h)] # 0
ActiveIsSaved == \A r \in Rows : status[r] = "ACTIVE" => ext[r] # 0

FailureIsError == \A h \in Handlers : handler[h].pc = "fail" => handler[h].outcome # "ok"

SavedInv == IdsExist /\ PersistHasId /\ FailureIsError /\ SuccessIsSaved /\ ActiveIsSaved /\ ProcessedIsSaved

(* Why EventsAreAnswered holds: a delivery about to be acknowledged has     *)
(* created its row, is dead, or left a copy with a higher retry count.     *)
CopyBeyond(h) == \E m \in Copies : m.row = RowOf(h) /\ m.attempt > handler[h].msg.attempt
Answered(h) == RowOf(h) \in Created \cup dlq
AckIsDue == \A h \in Handlers : handler[h].pc = "ack" => Answered(h) \/ CopyBeyond(h)
EventInv == TypeOK /\ SavedInv /\ AckIsDue

(* Why ErrorIsDeadLettered holds: a row in ERROR that was neither dead-     *)
(* lettered nor created still has a message, or a delivery that has yet to *)
(* fail or to succeed.                                                     *)
Unfinished(d) == d.pc \notin {"idle", "ack"} /\ ~Succeeded(d)
ErrorIsDue ==
  \A r \in Rows : status[r] = "ERROR" =>
    \/ r \in dlq \cup processed
    \/ Queued(r) # {}
    \/ \E h \in Handlers : RowOf(h) = r /\ Unfinished(handler[h])

(* Why ProcessedIsNotError holds: a row whose deliveries never overlapped  *)
(* has one at a time, which does not work on a processed row and, once it  *)
(* has succeeded, meets no ERROR.                                          *)
Working(d) == d.pc \notin {"idle", "check", "settle", "ack"}
Alone(h) == RowOf(h) \notin overlapped
SerialInv ==
  /\ ProcessedIsNotError
  /\ \A h \in Handlers : Alone(h) /\ handler[h].pc # "idle" =>
       /\ InFlight(RowOf(h)) = {h}
       /\ Working(handler[h]) => RowOf(h) \notin processed
       /\ Succeeded(handler[h]) => status[RowOf(h)] # "ERROR"

(* Why DuplicatesAreAccounted holds: before the first id is saved, every   *)
(* campaign of the platform is lost or in a delivery's hands; from then on *)
(* only a delivery that had read the row before may create another.        *)
Holding(r) == {h \in Handlers : RowOf(h) = r /\ HoldsUnsavedId(h)}
MayCreate(d) == d.pc \in {"account", "limit", "token", "create"} /\ d.ext = 0
Creating(r) == {h \in Handlers : RowOf(h) = r /\ MayCreate(handler[h])}
DuplicateInv ==
  /\ \A h \in Handlers : handler[h].pc = "create" => handler[h].ext = 0
  /\ \A r \in Rows :
       /\ ext[r] = 0 => platform[r] <= lost[r] + Cardinality(Holding(r))
       /\ ext[r] # 0 => platform[r] + Cardinality(Creating(r)) <= lost[r] + Cardinality(Handlers)

(* Why ParentAgrees holds: a parent that is not what its rows say has a    *)
(* reconcile on its way, and what that one is about to write is right.     *)
Reconciling(h) == handler[h].pc \in {"reconcile", "write"}
ReconcileInv ==
  /\ disconnecting # {} => harmed
  /\ Exists /\ ~harmed =>
       /\ uacm = TargetNow \/ \E h \in Handlers : Reconciling(h)
       /\ \A h \in Handlers : ~Overtaken(h)

(* And why nothing is harmed as long as nothing fails: a row is written    *)
(* once, so what a reconcile has read of a decided parent stays true.      *)
Mild == Faults \subseteq {"publish", "read", "limit"}
NotHarmed == ~harmed
AllError == \A r \in Rows : status[r] = "ERROR"
SomeActive == \E r \in Rows : status[r] = "ACTIVE"
Decided(s) == \/ s = "ACTIVE" /\ SomeActive
              \/ s = "ERROR" /\ AllError
Sound(h) ==
  /\ Reconciling(h) => status[RowOf(h)] # "PENDING"
  /\ handler[h].pc = "write" => Decided(handler[h].target)
  /\ handler[h].pc \in {"limit", "token"} =>
       (handler[h].usable <=> account[RowOf(h)] = "usable")
  /\ handler[h].pc \in {"create", "persist"} => account[RowOf(h)] = "usable"
  /\ handler[h].pc = "fail" => account[RowOf(h)] # "usable"
MildInv ==
  /\ disconnecting = {} /\ Exists /\ ~harmed
  /\ \A r \in Rows : status[r] = "ACTIVE" => account[r] = "usable"
  /\ \A r \in Rows : status[r] = "ERROR" => account[r] # "usable"
  /\ \A r \in Rows : status[r] # "PAUSED"
  /\ \A h \in Handlers : Sound(h)

-----------------------------------------------------------------------------
(* Liveness                                                                *)

(* A failed publish, or a crash before it, does not lose the row: within   *)
(* the sweeps' 24 hours a PENDING row is created, fails, is paused by a    *)
(* disconnect, or is deleted.                                              *)
PendingIsResolved ==
  \A r \in Rows :
    r \in PendingRows ~> (r \notin PendingRows \/ age = "expired")

(* No poison message circulates for ever: retries end, and so do the       *)
(* messages the sweeps add.                                                *)
Settled == /\ \A h \in Handlers : handler[h].pc = "idle"
           /\ \A m \in Messages : queue[m] = 0
DeliveriesEnd == <>[]Settled

=============================================================================
