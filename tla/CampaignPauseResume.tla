------------------------ MODULE CampaignPauseResume -------------------------
(***************************************************************************)
(* Pausing and resuming a campaign that exists: the requests of            *)
(* campaigns.service.ts (read, transaction, publish after the commit, roll *)
(* back when a publish fails), the campaign.paused and campaign.resumed    *)
(* queues with their handlers in campaigns.worker.ts, and what the         *)
(* advertising platforms are really doing.                                 *)
(*                                                                         *)
(* Rows that are PENDING or in ERROR stay so here: CampaignCreation has    *)
(* their story.                                                            *)
(***************************************************************************)
EXTENDS Naturals, FiniteSets, CampaignStatus

CONSTANTS
  Rows,             \* the platform campaigns of the UACM campaign
  Requests,         \* HTTP requests that can be in progress at the same time
  Handlers,         \* deliveries that can be in flight at the same time
  MaxRetries,       \* options.maxRetries of both queues
  AtFirst,          \* what the platform does at first with an ACTIVE row's campaign
  MaxRequests,      \* bound: requests in a behaviour
  Faults,           \* the kinds of fault and of user intervention considered
  MaxDisturbances   \* bound: how many of them a behaviour has

ASSUME RowsAssumption == IsFiniteSet(Rows) /\ Rows # {}
ASSUME ActorsAssumption == IsFiniteSet(Requests) /\ IsFiniteSet(Handlers)
ASSUME AtFirstAssumption == AtFirst \subseteq {"on", "created"}
ASSUME RetriesAssumption == MaxRetries \in Nat \ {0}
ASSUME FaultsAssumption ==
  Faults \subseteq {"publish", "update", "read", "limit", "refresh", "platform",
                    "answer", "reconcile", "crash", "disconnect", "remove"}
ASSUME BoundsAssumption ==
  MaxRequests \in Nat /\ MaxDisturbances \in Nat

VARIABLES
  uacm,          \* UacmCampaign.status, or "DELETED"
  status,        \* PlatformCampaign.status
  created,       \* rows with an external id
  account,       \* the user's ConnectedAccount of the row's platform
  disconnecting, \* rows a disconnect request has still to pause
  running,       \* what the platform does with a row's campaign
  request,       \* the pause and resume requests in progress
  queue,         \* ready messages of both queues, a bag
  dead,          \* history: rows whose last control message was dead-lettered
  handler,       \* the deliveries in progress
  issued,        \* bound: requests so far
  disturbances,  \* bound: disturbances so far
  abandoned      \* history: what was given up for good, a request's work, an account,
                 \* or the order of requests that did not wait for each other

accounts == <<account, disconnecting>>
vars == <<uacm, status, created, account, disconnecting, running, request, queue,
          dead, handler, issued, disturbances, abandoned>>

Kinds == {"pause", "resume"}
From(kind) == IF kind = "pause" THEN "ACTIVE" ELSE "PAUSED"

To(kind) == IF kind = "pause" THEN "PAUSED" ELSE "ACTIVE"

Messages == [kind : Kinds, row : Rows, attempt : 1..MaxRetries]

(* A request: the campaign as findOwnedOrThrow read it, and the rows whose *)
(* event is still to be published.                                         *)
Request == [pc : {"idle", "commit", "publish", "rollback"}, kind : Kinds,
            parent : Statuses, rows : [Rows -> Statuses], events : SUBSET Rows]

Delivery == [pc : {"idle", "load", "account", "limit", "token", "call",
                   "reconcile", "write", "settle", "ack"},
             msg : Messages, usable : BOOLEAN, target : Statuses,
             outcome : {"ok", "retry", "terminal"}]

NoRequest == [pc |-> "idle", kind |-> "pause", parent |-> "PENDING",
              rows |-> [r \in Rows |-> "PENDING"], events |-> {}]
Idle == [pc |-> "idle",
         msg |-> [kind |-> "pause", row |-> CHOOSE r \in Rows : TRUE, attempt |-> 1],
         usable |-> FALSE, target |-> "PENDING", outcome |-> "ok"]

Exists == uacm # "DELETED"
RowOf(h) == handler[h].msg.row
Quiet == /\ \A q \in Requests : request[q].pc = "idle"
         /\ \A h \in Handlers : handler[h].pc = "idle"
         /\ \A m \in Messages : queue[m] = 0

TypeOK ==
  /\ uacm \in Statuses \cup {"DELETED"}
  /\ status \in [Rows -> Statuses]
  /\ created \subseteq Rows
  /\ account \in [Rows -> {"usable", "unusable"}]
  /\ disconnecting \subseteq Rows
  /\ running \in [Rows -> {"on", "off", "created"}]
  /\ request \in [Requests -> Request]
  /\ queue \in [Messages -> Nat]
  /\ dead \subseteq Rows
  /\ handler \in [Handlers -> Delivery]
  /\ issued \in 0..MaxRequests
  /\ disturbances \in 0..MaxDisturbances
  /\ abandoned \subseteq {"request", "account", "order"}

(* A campaign as creation leaves it, or as earlier pauses and resumes did: *)
(* the rows that were created are all ACTIVE, or all PAUSED.  Every adapter*)
(* creates its campaign paused, and nothing resumes it: an ACTIVE row's    *)
(* campaign is as "created" until the user pauses and resumes it.          *)
Init ==
  /\ status \in [Rows -> Statuses]
  /\ created = {r \in Rows : status[r] \in {"ACTIVE", "PAUSED"}}
  /\ uacm \in {"ACTIVE", "PAUSED"}
  /\ created # {} /\ \A r \in created : status[r] = uacm
  /\ account \in [Rows -> {"usable", "unusable"}]
  /\ disconnecting = {}
  /\ running \in [Rows -> AtFirst \cup {"off"}]
  /\ \A r \in Rows : running[r] = "off" <=> status[r] # "ACTIVE"
  /\ request = [q \in Requests |-> NoRequest]
  /\ queue = [m \in Messages |-> 0]
  /\ dead = {}
  /\ handler = [h \in Handlers |-> Idle]
  /\ issued = 0
  /\ disturbances = 0
  /\ abandoned = {}

(* A request one of whose events was published already. *)
HasPublished(q) ==
  \E r \in created \ request[q].events : request[q].rows[r] = From(request[q].kind)

(* A crash loses the events of a request, a rollback may fail in turn, or  *)
(* undo what an event that was published will do, and a disconnect has no  *)
(* events.                                                                 *)
Abandons(kind) ==
  {"request" : q \in {p \in Requests :
     \/ kind = "crash" /\ request[p].pc \in {"publish", "rollback"}
     \/ kind = "update" /\ request[p].pc = "rollback"
     \/ kind = "publish" /\ request[p].pc = "publish" /\ HasPublished(p)}}
  \cup (IF kind = "disconnect" THEN {"account"} ELSE {})
Disturb(kind) == /\ kind \in Faults
                 /\ disturbances < MaxDisturbances
                 /\ disturbances' = disturbances + 1
                 /\ abandoned' = abandoned \cup Abandons(kind)
Undisturbed == UNCHANGED <<disturbances, abandoned>>

-----------------------------------------------------------------------------
(* pause and resume                                                        *)

RequestOnly == UNCHANGED <<created, accounts, running, dead, handler>>

(* findOwnedOrThrow and the check of the parent's status. Nothing makes a  *)
(* request wait for the last one to take effect: pause and resume have a   *)
(* queue each, and a retry may come after a newer message.                 *)
Read(q, kind) ==
  /\ request[q].pc = "idle"
  /\ issued < MaxRequests
  /\ uacm = From(kind) /\ IsValidTransition(uacm, To(kind))
  /\ issued' = issued + 1
  /\ request' = [request EXCEPT ![q] =
       [pc |-> "commit", kind |-> kind, parent |-> uacm, rows |-> status, events |-> {}]]
  /\ abandoned' = abandoned \cup (IF Quiet THEN {} ELSE {"order"})
  /\ RequestOnly /\ UNCHANGED <<uacm, status, queue, disturbances>>

(* The transaction writes the parent and the rows that were in the source  *)
(* status when they were read; only created rows have an event.            *)
Commit(q) ==
  /\ request[q].pc = "commit" /\ Exists
  /\ LET moved == {r \in Rows : request[q].rows[r] = From(request[q].kind)}
         events == moved \cap created
     IN /\ status' = [r \in Rows |-> IF r \in moved THEN To(request[q].kind) ELSE status[r]]
        /\ request' = [request EXCEPT
             ![q] = IF events = {} THEN NoRequest
                    ELSE [request[q] EXCEPT !.pc = "publish", !.events = events]]
  /\ uacm' = To(request[q].kind)
  /\ RequestOnly /\ UNCHANGED <<queue, issued>> /\ Undisturbed

(* The transaction, or the rollback, throws: the request ends there. *)
Abort(q) ==
  /\ request[q].pc \in {"commit", "rollback"}
  /\ request' = [request EXCEPT ![q] = NoRequest]
  /\ RequestOnly /\ UNCHANGED <<uacm, status, queue, issued>>
  /\ IF Exists THEN Disturb("update") ELSE Undisturbed

Publish(q, r) ==
  /\ request[q].pc = "publish" /\ r \in request[q].events
  /\ queue' = [queue EXCEPT ![[kind |-> request[q].kind, row |-> r, attempt |-> 1]] = @ + 1]
  /\ request' = [request EXCEPT ![q] =
       IF request[q].events = {r} THEN NoRequest
               ELSE [request[q] EXCEPT !.events = @ \ {r}]]
  /\ RequestOnly /\ UNCHANGED <<uacm, status, issued>> /\ Undisturbed

(* Mutant: a failed publish is only logged, as create does. *)
PublishFails_Ignored(q) ==
  /\ request[q].pc = "publish"
  /\ request' = [request EXCEPT ![q] = NoRequest]
  /\ RequestOnly /\ UNCHANGED <<uacm, status, queue, issued>> /\ Disturb("publish")

(* publishEvent gives up after three attempts: nothing more is published. *)
PublishFails(q) ==
  /\ request[q].pc = "publish"
  /\ request' = [request EXCEPT ![q].pc = "rollback", ![q].events = {}]
  /\ RequestOnly /\ UNCHANGED <<uacm, status, queue, issued>> /\ Disturb("publish")

(* Mutant: only the parent is rolled back. *)
Rollback_ParentOnly(q) ==
  /\ request[q].pc = "rollback" /\ Exists
  /\ uacm' = request[q].parent
  /\ request' = [request EXCEPT ![q] = NoRequest]
  /\ RequestOnly /\ UNCHANGED <<status, queue, issued>> /\ Undisturbed

(* Every row, and the parent, return to what the request had read. *)
Rollback(q) ==
  /\ request[q].pc = "rollback" /\ Exists
  /\ uacm' = request[q].parent
  /\ status' = request[q].rows
  /\ request' = [request EXCEPT ![q] = NoRequest]
  /\ RequestOnly /\ UNCHANGED <<queue, issued>> /\ Undisturbed

-----------------------------------------------------------------------------
(* handleCampaignPaused and handleCampaignResumed                          *)

HandlerOnly == UNCHANGED <<uacm, status, created, accounts, running, request, queue, dead, issued>>

Goto(h, pc) == handler' = [handler EXCEPT ![h].pc = pc]
Fail(h, pc, outcome) == handler' = [handler EXCEPT ![h].pc = pc, ![h].outcome = outcome]

Deliver(h, m) ==
  /\ handler[h].pc = "idle" /\ queue[m] > 0
  /\ queue' = [queue EXCEPT ![m] = @ - 1]
  /\ handler' = [handler EXCEPT ![h] = [Idle EXCEPT !.pc = "load", !.msg = m]]
  /\ UNCHANGED <<uacm, status, created, accounts, running, request, dead, issued>> /\ Undisturbed

(* A row that is gone, or was never created on its platform, is skipped. *)
LoadRow(h) ==
  /\ handler[h].pc = "load"
  /\ Goto(h, IF Exists /\ RowOf(h) \in created THEN "account" ELSE "ack")
  /\ HandlerOnly /\ Undisturbed

(* The account row is there (it is never deleted): keep its status. *)
FindAccount(h) ==
  /\ handler[h].pc = "account"
  /\ handler' = [handler EXCEPT ![h].pc = "limit", ![h].usable = account[RowOf(h)] = "usable"]
  /\ HandlerOnly /\ Undisturbed

(* Awaited outside the try block, as is the rate limiter. *)
ReadFails(h) ==
  /\ handler[h].pc \in {"load", "account"}
  /\ Fail(h, "settle", "retry")
  /\ HandlerOnly /\ Disturb("read")

EnforceRateLimit(h) ==
  /\ handler[h].pc = "limit"
  /\ Goto(h, "token")
  /\ HandlerOnly /\ Undisturbed

RateLimitExceeded(h) ==
  /\ handler[h].pc = "limit"
  /\ Fail(h, "settle", "retry")
  /\ HandlerOnly /\ Disturb("limit")

RequireToken(h) ==
  /\ handler[h].pc = "token"
  /\ IF handler[h].usable THEN Goto(h, "call") ELSE Fail(h, "reconcile", "retry")
  /\ HandlerOnly /\ Undisturbed

(* The token had expired and the platform refused to refresh it. *)
RefreshFails(h) ==
  /\ handler[h].pc = "token" /\ handler[h].usable
  /\ account' = [account EXCEPT ![RowOf(h)] = "unusable"]
  /\ Fail(h, "reconcile", "retry")
  /\ UNCHANGED <<uacm, status, created, disconnecting, running, request, queue, dead, issued>>
  /\ Disturb("refresh")

(* adapter.pauseCampaign or adapter.resumeCampaign takes effect. *)
Obey(h) == running' = [running EXCEPT ![RowOf(h)] =
                         IF handler[h].msg.kind = "resume" THEN "on" ELSE "off"]

CallPlatform(h) ==
  /\ handler[h].pc = "call"
  /\ Obey(h)
  /\ dead' = dead \ {RowOf(h)}
  /\ Goto(h, "reconcile")
  /\ UNCHANGED <<uacm, status, created, accounts, request, queue, issued>> /\ Undisturbed

CallRefused(h) ==
  /\ handler[h].pc = "call"
  /\ \E o \in {"retry", "terminal"} : Fail(h, "reconcile", o)
  /\ HandlerOnly /\ Disturb("platform")

CallAnswerLost(h) ==
  /\ handler[h].pc = "call"
  /\ Obey(h)
  /\ Fail(h, "reconcile", "retry")
  /\ UNCHANGED <<uacm, status, created, accounts, request, queue, dead, issued>> /\ Disturb("answer")

(* reconcileUacmCampaignStatus: a read, then an update when it differs. *)
AfterReconcile(h) == IF handler[h].outcome = "ok" THEN "ack" ELSE "settle"

ReconcileRead(h) ==
  /\ handler[h].pc = "reconcile"
  /\ LET target == ReconcileTarget(uacm, {status[r] : r \in Rows})
     IN IF Exists /\ target # uacm
        THEN handler' = [handler EXCEPT ![h].pc = "write", ![h].target = target]
        ELSE Goto(h, AfterReconcile(h))
  /\ HandlerOnly /\ Undisturbed

ReconcileWrite(h) ==
  /\ handler[h].pc = "write"
  /\ uacm' = IF Exists THEN handler[h].target ELSE uacm
  /\ handler' = [handler EXCEPT ![h].pc = AfterReconcile(h), ![h].target = "PENDING"]
  /\ UNCHANGED <<status, created, accounts, running, request, queue, dead, issued>> /\ Undisturbed

ReconcileFails(h) ==
  /\ handler[h].pc \in {"reconcile", "write"}
  /\ handler' = [handler EXCEPT ![h].pc = AfterReconcile(h), ![h].target = "PENDING"]
  /\ HandlerOnly /\ Disturb("reconcile")

-----------------------------------------------------------------------------
(* The consumer of rabbitmq.service.ts                                     *)

Exhausted(h) == \/ handler[h].msg.attempt >= MaxRetries
                \/ handler[h].outcome = "terminal"

(* Mutant: the retry count is not incremented. *)
SettleRetry_SameCount(h) ==
  /\ handler[h].pc = "settle" /\ ~Exhausted(h)
  /\ queue' = [queue EXCEPT ![handler[h].msg] = @ + 1]
  /\ Goto(h, "ack")
  /\ UNCHANGED <<uacm, status, created, accounts, running, request, dead, issued>> /\ Undisturbed

SettleRetry(h) ==
  /\ handler[h].pc = "settle" /\ ~Exhausted(h)
  /\ queue' = [queue EXCEPT ![[handler[h].msg EXCEPT !.attempt = @ + 1]] = @ + 1]
  /\ Goto(h, "ack")
  /\ UNCHANGED <<uacm, status, created, accounts, running, request, dead, issued>> /\ Undisturbed

SettleDead(h) ==
  /\ handler[h].pc = "settle" /\ Exhausted(h)
  /\ dead' = dead \cup {RowOf(h)}
  /\ Goto(h, "ack")
  /\ UNCHANGED <<uacm, status, created, accounts, running, request, queue, issued>> /\ Undisturbed

Ack(h) ==
  /\ handler[h].pc = "ack"
  /\ handler' = [handler EXCEPT ![h] = Idle]
  /\ HandlerOnly /\ Undisturbed

-----------------------------------------------------------------------------
(* The process, and the user                                               *)

(* Requests are cut short; unacknowledged deliveries return to the queue. *)
Crash ==
  /\ queue' = [m \in Messages |->
       queue[m] + Cardinality({h \in Handlers : handler[h].pc # "idle" /\ handler[h].msg = m})]
  /\ handler' = [h \in Handlers |-> Idle]
  /\ request' = [q \in Requests |-> NoRequest]
  /\ disconnecting' = {}
  /\ UNCHANGED <<uacm, status, created, account, running, dead, issued>> /\ Disturb("crash")

(* accounts.service.ts disconnect: the account row, then, with a second    *)
(* query, the rows of its platform; the platform is not told.              *)
Disconnect(r) ==
  /\ account' = [account EXCEPT ![r] = "unusable"]
  /\ disconnecting' = disconnecting \cup {r}
  /\ UNCHANGED <<uacm, status, created, running, request, queue, dead, handler, issued>>
  /\ Disturb("disconnect")

DisconnectPauses(r) ==
  /\ r \in disconnecting
  /\ disconnecting' = disconnecting \ {r}
  /\ status' = [status EXCEPT ![r] = IF Exists THEN "PAUSED" ELSE @]
  /\ UNCHANGED <<uacm, created, account, running, request, queue, dead, handler, issued>>
  /\ Undisturbed

(* remove deletes the rows; the platform is not told. *)
Remove ==
  /\ Exists
  /\ uacm' = "DELETED"
  /\ UNCHANGED <<status, created, accounts, running, request, queue, dead, handler, issued>>
  /\ Disturb("remove")

-----------------------------------------------------------------------------
HandlerStep(h) ==
  \/ LoadRow(h) \/ FindAccount(h) \/ ReadFails(h) \/ EnforceRateLimit(h) \/ RateLimitExceeded(h)
  \/ RequireToken(h) \/ RefreshFails(h) \/ CallPlatform(h) \/ CallRefused(h) \/ CallAnswerLost(h)
  \/ ReconcileRead(h) \/ ReconcileWrite(h) \/ ReconcileFails(h)
  \/ SettleRetry(h) \/ SettleDead(h) \/ Ack(h)

RequestStep(q) == \/ Commit(q) \/ Abort(q) \/ Rollback(q) \/ PublishFails(q)
                  \/ \E r \in Rows : Publish(q, r)

DeliverAny == \E h \in Handlers, m \in Messages : Deliver(h, m)

Next ==
  \/ \E q \in Requests, kind \in Kinds : Read(q, kind)
  \/ \E q \in Requests : RequestStep(q)
  \/ \E h \in Handlers : HandlerStep(h)
  \/ DeliverAny
  \/ \E r \in Rows : Disconnect(r) \/ DisconnectPauses(r)
  \/ Crash \/ Remove

Spec == Init /\ [][Next]_vars

(* A request that was accepted runs on, awaits resolve, and the broker     *)
(* delivers to an idle consumer. No fault and no request has to happen.    *)
Fairness ==
  /\ \A q \in Requests : WF_vars(RequestStep(q))
  /\ \A h \in Handlers : WF_vars(HandlerStep(h))
  /\ \A r \in Rows : WF_vars(DisconnectPauses(r))
  /\ WF_vars(DeliverAny)

FairSpec == Spec /\ Fairness

-----------------------------------------------------------------------------
(* Safety                                                                  *)

(* Whatever requests overlap, and however their rollbacks interleave, the  *)
(* parent is never shown PAUSED over an ACTIVE row, nor ACTIVE over none,  *)
(* until an account is disconnected (which pauses rows behind the parent). *)
ParentIsHonest ==
  "account" \notin abandoned =>
    /\ uacm = "PAUSED" => \A r \in Rows : status[r] # "ACTIVE"
    /\ uacm = "ACTIVE" => \E r \in Rows : status[r] = "ACTIVE"

(* Once all is quiet, a platform delivers exactly the rows shown as        *)
(* ACTIVE, except where the campaign is still as it was created, a message *)
(* for the row was dead-lettered, a request lost its events or its         *)
(* rollback, or rolled back after its first event, a request did not wait  *)
(* for the last one to take effect, or an account was disconnected.        *)
Follows(s, r) == /\ s = "ACTIVE" => running[r] # "off"
                 /\ s = "PAUSED" => running[r] # "on"
PlatformFollows ==
  Exists /\ Quiet /\ abandoned = {} => \A r \in created \ dead : Follows(status[r], r)

(* Why ParentIsHonest holds: while no account has been disconnected, the   *)
(* rows that were created move together, in the database and in what every *)
(* request has read, so that no reconcile finds anything to repair.        *)
RowsAgree ==
  /\ created # {} /\ created \subseteq Rows /\ disconnecting = {}
  /\ Exists =>
       /\ uacm \in {"ACTIVE", "PAUSED"}
       /\ \A r \in created : status[r] = uacm
       /\ \A r \in Rows \ created : status[r] \in {"PENDING", "ERROR"}
ReadsAgree ==
  \A q \in Requests : request[q].pc # "idle" =>
    /\ request[q].kind \in Kinds /\ request[q].parent = From(request[q].kind)
    /\ \A r \in created : request[q].rows[r] = request[q].parent
    /\ \A r \in Rows \ created : request[q].rows[r] \in {"PENDING", "ERROR"}
NothingToRepair == \A h \in Handlers : handler[h].pc # "write"

Agree == RowsAgree /\ ReadsAgree /\ NothingToRepair
AgreeInv == "account" \in abandoned \/ Agree

(* Why PlatformFollows holds while nothing is abandoned: one request at a  *)
(* time owns the rows. What it has not published the platform still does   *)
(* as the request had read it; what it has published, a message or a       *)
(* delivery will do, as the row says.                                      *)
Busy == {m \in Messages : \/ queue[m] > 0
                          \/ \E h \in Handlers : handler[h].pc # "idle" /\ handler[h].msg = m}
Unsettled(d) ==
  \/ d.pc \in {"load", "account", "limit", "token", "call"}
  \/ d.pc \in {"reconcile", "write", "settle"} /\ d.outcome # "ok"
Awaited(r) == \/ \E m \in Messages : m.row = r /\ queue[m] > 0
              \/ \E h \in Handlers : RowOf(h) = r /\ Unsettled(handler[h])
Owes(q, r) == \/ request[q].pc = "rollback"
              \/ request[q].pc = "publish" /\ r \in request[q].events

OneRequest ==
  \A p, q \in Requests : request[p].pc # "idle" /\ request[q].pc # "idle" => p = q
MessagesAgree == \A m \in Busy : m.row \in created /\ status[m.row] = To(m.kind)
RequestOwns == \A q \in Requests :
  /\ request[q].pc \in {"commit", "rollback"} => Busy = {}
  /\ request[q].pc = "commit" => request[q].rows = status
  /\ request[q].pc = "publish" =>
       /\ request[q].events \subseteq created
       /\ \A r \in request[q].events : status[r] = To(request[q].kind)
       /\ \A m \in Busy : m.row \notin request[q].events
  /\ \A r \in created \ dead : Owes(q, r) => Follows(request[q].rows[r], r)
RowsFollow == \A r \in created \ dead :
  Follows(status[r], r) \/ Awaited(r) \/ \E q \in Requests : Owes(q, r)

Following == OneRequest /\ MessagesAgree /\ RequestOwns /\ RowsFollow
FollowInv == Exists /\ abandoned = {} => Following

-----------------------------------------------------------------------------
(* Liveness                                                                *)

(* Every accepted request and every message comes to an end. *)
EverythingEnds == []<>Quiet

(* A row that is shown PAUSED stops being delivered, unless it changes     *)
(* again, is deleted, its message becomes a dead letter or is abandoned.   *)
PauseTakesEffect ==
  \A r \in Rows :
    Exists /\ status[r] = "PAUSED"
      ~> ~Exists \/ status[r] # "PAUSED" \/ running[r] # "on" \/ r \in dead \/ abandoned # {}

=============================================================================
