---------------------------- MODULE CampaignUpdate ----------------------------
(***************************************************************************)
(* Changing the fields of a campaign (name, budget, dates) after it was    *)
(* created, on one of its platforms:                                       *)
(*                                                                         *)
(*  - PATCH /campaigns/:id commits the fields and then publishes           *)
(*    `campaign.updated', if the row has its external id by now;           *)
(*  - handleCampaignUpdated of campaigns.worker.ts reads the fields anew   *)
(*    and sends them to the platform; deliveries overlap;                  *)
(*  - the creation of the campaign, reduced to what an update can notice:  *)
(*    it sends the fields it had read and saves the id later.              *)
(*                                                                         *)
(* The fields are a number that each update increases: what matters is     *)
(* which of two values is the newer.                                       *)
(***************************************************************************)
EXTENDS Naturals, FiniteSets

CONSTANTS
  Requests,         \* update requests that can be in progress together
  Handlers,         \* deliveries that can be in flight together
  MaxRetries,       \* options.maxRetries of campaign_updated_queue
  MaxUpdates,       \* bound: updates of a behaviour
  Faults,           \* the kinds of fault and of intervention considered
  MaxDisturbances   \* bound: how many of them a behaviour has

ASSUME RequestsAssumption == IsFiniteSet(Requests) /\ Requests # {}
ASSUME HandlersAssumption == IsFiniteSet(Handlers) /\ Handlers # {}
ASSUME RetriesAssumption == MaxRetries \in Nat \ {0}
ASSUME FaultsAssumption ==
  Faults \subseteq {"create", "publish", "read", "limit", "token", "platform", "answer",
                    "crash", "disconnect", "link", "import", "remove"}
ASSUME BoundsAssumption == MaxUpdates \in Nat /\ MaxDisturbances \in Nat

VARIABLES
  exists,        \* the campaign was not removed
  fields,        \* UacmCampaign's name, budget and dates: the last value committed
  saved,         \* PlatformCampaign.platformCampaignId is set
  customer,      \* platformData names the ad customer the platform asks for
  connected,     \* ConnectedAccount.status is CONNECTED
  copy,          \* the fields as the platform has them; 0 before the creation
  creation,      \* the delivery that creates the campaign
  request,       \* the update requests in progress
  queue,         \* ready messages of campaign_updated_queue, by x-retry-count
  handler,       \* the deliveries in progress
  excuse,        \* history: why the platform may be behind
  disturbances   \* bound: disturbances so far

row == <<exists, fields, saved, customer>>
rest == <<connected, copy, creation>>
vars == <<exists, fields, saved, customer, connected, copy, creation, request,
          queue, handler, excuse, disturbances>>

Attempts == 1..MaxRetries

(* Why the platform may be behind the row, since they last agreed:         *)
(*  early       an update met a creation that had read the fields before;  *)
(*  unpublished its event could not be published, or the process stopped;  *)
(*  dead        its event is in campaign_updated_dlq;                      *)
(*  overtaken   a delivery sent older fields after another had sent newer. *)
Excuses == {"early", "unpublished", "dead", "overtaken"}

(* A delivery: its message, and what it has read. `overtaken' is history:  *)
(* another delivery has sent something to the platform since it read.      *)
Sending == {"limit", "token", "push"}
Delivery == [pc : {"idle", "load", "account", "settle", "ack"} \cup Sending,
             attempt : Attempts, fields : Nat, customer : BOOLEAN, connected : BOOLEAN,
             terminal : BOOLEAN, overtaken : BOOLEAN]
Idle == [pc |-> "idle", attempt |-> 1, fields |-> 0, customer |-> FALSE,
         connected |-> FALSE, terminal |-> FALSE, overtaken |-> FALSE]

HasRead(d) == d.pc \in Sending \cup {"account"}

TypeOK ==
  /\ exists \in BOOLEAN
  /\ fields \in Nat \ {0}
  /\ saved \in BOOLEAN
  /\ customer \in BOOLEAN
  /\ connected \in BOOLEAN
  /\ copy \in Nat
  /\ creation \in [pc : {"waiting", "create", "over"}, fields : Nat]
  /\ request \in [Requests -> {"idle", "publish"}]
  /\ queue \in [Attempts -> Nat]
  /\ handler \in [Handlers -> Delivery]
  /\ \A h \in Handlers : HasRead(handler[h]) => handler[h].fields # 0
  /\ excuse \subseteq Excuses
  /\ disturbances \in Nat

Init ==
  /\ exists = TRUE
  /\ fields = 1
  /\ saved = FALSE
  /\ customer = TRUE
  /\ connected = TRUE
  /\ copy = 0
  /\ creation = [pc |-> "waiting", fields |-> 0]
  /\ request = [q \in Requests |-> "idle"]
  /\ queue = [a \in Attempts |-> 0]
  /\ handler = [h \in Handlers |-> Idle]
  /\ excuse = {}
  /\ disturbances = 0

Disturb(kind) == /\ kind \in Faults
                 /\ disturbances < MaxDisturbances
                 /\ disturbances' = disturbances + 1
Undisturbed == UNCHANGED disturbances

-----------------------------------------------------------------------------
(* The creation, one delivery after the other (see CampaignCreation)       *)

CreationReads ==
  /\ creation.pc = "waiting" /\ exists /\ connected
  /\ creation' = [pc |-> "create", fields |-> fields]
  /\ excuse' = excuse \ {"early"}
  /\ UNCHANGED <<row, connected, copy, request, queue, handler>> /\ Undisturbed

(* The campaign is on the platform and its id is saved. *)
CreationSaves ==
  /\ creation.pc = "create" /\ exists
  /\ creation' = [creation EXCEPT !.pc = "over"]
  /\ saved' = TRUE
  /\ copy' = creation.fields
  /\ UNCHANGED <<exists, fields, customer, connected, request, queue, handler, excuse>>
  /\ Undisturbed

(* It failed, or its id was lost; a later delivery creates it anew. *)
CreationFails ==
  /\ creation.pc = "create"
  /\ creation' = [pc |-> "waiting", fields |-> 0]
  /\ UNCHANGED <<row, connected, copy, request, queue, handler, excuse>> /\ Disturb("create")

-----------------------------------------------------------------------------
(* CampaignsService.update                                                 *)

(* The transaction reads the row again, and by that reading the request    *)
(* decides whether there is anything to publish. The update may bring new  *)
(* platform data, which names a customer or does not.                      *)
Update(q) ==
  /\ request[q] = "idle" /\ exists /\ fields <= MaxUpdates
  /\ fields' = fields + 1
  /\ customer' \in BOOLEAN
  /\ request' = [request EXCEPT ![q] = IF saved THEN "publish" ELSE "idle"]
  /\ excuse' = excuse \cup (IF creation.pc = "create" THEN {"early"} ELSE {})
  /\ UNCHANGED <<exists, saved, rest, queue, handler>> /\ Undisturbed

PublishUpdated(q) ==
  /\ request[q] = "publish"
  /\ queue' = [queue EXCEPT ![1] = @ + 1]
  /\ request' = [request EXCEPT ![q] = "idle"]
  /\ UNCHANGED <<row, rest, handler, excuse>> /\ Undisturbed

(* publishEvent gives up after three attempts; update ignores it. *)
PublishUpdatedFails(q) ==
  /\ request[q] = "publish"
  /\ request' = [request EXCEPT ![q] = "idle"]
  /\ excuse' = excuse \cup {"unpublished"}
  /\ UNCHANGED <<row, rest, queue, handler>> /\ Disturb("publish")

-----------------------------------------------------------------------------
(* handleCampaignUpdated                                                   *)

HandlerOnly == UNCHANGED <<row, rest, request, queue, excuse>>
Goto(h, pc) == handler' = [handler EXCEPT ![h].pc = pc]
Throw(h, terminal) ==
  handler' = [handler EXCEPT ![h] =
                [Idle EXCEPT !.pc = "settle", !.attempt = handler[h].attempt, !.terminal = terminal]]

Deliver(h, a) ==
  /\ handler[h].pc = "idle" /\ queue[a] > 0
  /\ queue' = [queue EXCEPT ![a] = @ - 1]
  /\ handler' = [handler EXCEPT ![h] = [Idle EXCEPT !.pc = "load", !.attempt = a]]
  /\ UNCHANGED <<row, rest, request, excuse>> /\ Undisturbed

(* What the query finds: row and campaign, or nothing. *)
Found == IF exists THEN fields ELSE 0
Loaded(h, f) == handler' = [handler EXCEPT ![h].pc = "account", ![h].fields = f,
                                           ![h].customer = customer]

(* Mutant: the row is read from a replica that may lag one update behind. *)
LoadRow_FromReplica(h) ==
  /\ handler[h].pc = "load"
  /\ IF exists THEN \E f \in {fields, fields - 1} \ {0} : Loaded(h, f) ELSE Goto(h, "ack")
  /\ HandlerOnly /\ Undisturbed

(* A row that is gone is nothing to update. (One without an id is skipped  *)
(* too, but events are published for those with one, and ids stay.)        *)
LoadRow(h) ==
  /\ handler[h].pc = "load"
  /\ IF exists THEN Loaded(h, Found) ELSE Goto(h, "ack")
  /\ HandlerOnly /\ Undisturbed

(* Accounts are disconnected, never deleted: there is one, as there was    *)
(* when the campaign was created.                                          *)
FindAccount(h) ==
  /\ handler[h].pc = "account"
  /\ handler' = [handler EXCEPT ![h].pc = "limit", ![h].connected = connected]
  /\ HandlerOnly /\ Undisturbed

ReadFails(h) ==
  /\ handler[h].pc \in {"load", "account"}
  /\ Throw(h, FALSE)
  /\ HandlerOnly /\ Disturb("read")

EnforceRateLimit(h) ==
  /\ handler[h].pc = "limit"
  /\ Goto(h, "token")
  /\ HandlerOnly /\ Undisturbed

RateLimitExceeded(h) ==
  /\ handler[h].pc = "limit"
  /\ Throw(h, FALSE)
  /\ HandlerOnly /\ Disturb("limit")

(* requireValidAccessToken judges the account row that was read earlier. *)
RequireToken(h) ==
  /\ handler[h].pc = "token"
  /\ IF handler[h].connected THEN Goto(h, "push") ELSE Throw(h, FALSE)
  /\ HandlerOnly /\ Undisturbed

(* The token had expired and the platform refused to refresh it. *)
RefreshFails(h) ==
  /\ handler[h].pc = "token" /\ handler[h].connected
  /\ connected' = FALSE
  /\ Throw(h, FALSE)
  /\ UNCHANGED <<row, copy, creation, request, queue, excuse>> /\ Disturb("token")

(* The platform now has what the delivery had read, and every other        *)
(* delivery that has read is overtaken.                                    *)
Applied(h) ==
  /\ copy' = handler[h].fields
  /\ excuse' = IF handler[h].fields = fields THEN {}
               ELSE excuse \cup (IF handler[h].overtaken THEN {"overtaken"} ELSE {})
Overtaking(h, d) ==
  handler' = [g \in Handlers |-> IF g = h THEN d
                                 ELSE [handler[g] EXCEPT !.overtaken = @ \/ HasRead(handler[g])]]

Push(h) ==
  /\ handler[h].pc = "push" /\ handler[h].customer
  /\ Applied(h)
  /\ Overtaking(h, [Idle EXCEPT !.pc = "ack", !.attempt = handler[h].attempt])
  /\ UNCHANGED <<row, connected, creation, request, queue>> /\ Undisturbed

(* GoogleAdapter.updateCampaign: "customerId is required ...". *)
PushWithoutCustomer(h) ==
  /\ handler[h].pc = "push" /\ ~handler[h].customer
  /\ Throw(h, FALSE)
  /\ HandlerOnly /\ Undisturbed

(* The platform refuses, with an error that may match isTerminalError. *)
PushRefused(h) ==
  /\ handler[h].pc = "push" /\ handler[h].customer
  /\ \E terminal \in BOOLEAN : Throw(h, terminal)
  /\ HandlerOnly /\ Disturb("platform")

PushAnswerLost(h) ==
  /\ handler[h].pc = "push" /\ handler[h].customer
  /\ Applied(h)
  /\ Overtaking(h, [Idle EXCEPT !.pc = "settle", !.attempt = handler[h].attempt])
  /\ UNCHANGED <<row, connected, creation, request, queue>> /\ Disturb("answer")

-----------------------------------------------------------------------------
(* The consumer of rabbitmq.service.ts                                     *)

Exhausted(h) == handler[h].attempt >= MaxRetries \/ handler[h].terminal

(* Mutant: the retry count is not incremented. *)
SettleRetry_SameCount(h) ==
  /\ handler[h].pc = "settle" /\ ~Exhausted(h)
  /\ queue' = [queue EXCEPT ![handler[h].attempt] = @ + 1]
  /\ Goto(h, "ack")
  /\ UNCHANGED <<row, rest, request, excuse>> /\ Undisturbed

SettleRetry(h) ==
  /\ handler[h].pc = "settle" /\ ~Exhausted(h)
  /\ queue' = [queue EXCEPT ![handler[h].attempt + 1] = @ + 1]
  /\ Goto(h, "ack")
  /\ UNCHANGED <<row, rest, request, excuse>> /\ Undisturbed

SettleDead(h) ==
  /\ handler[h].pc = "settle" /\ Exhausted(h)
  /\ excuse' = excuse \cup {"dead"}
  /\ Goto(h, "ack")
  /\ UNCHANGED <<row, rest, request, queue>> /\ Undisturbed

Ack(h) ==
  /\ handler[h].pc = "ack"
  /\ handler' = [handler EXCEPT ![h] = Idle]
  /\ HandlerOnly /\ Undisturbed

-----------------------------------------------------------------------------
(* The process, and the user                                               *)

InFlight(a) == {h \in Handlers : handler[h].pc # "idle" /\ handler[h].attempt = a}
Publishing == {q \in Requests : request[q] = "publish"}

Stopped ==
  /\ handler' = [h \in Handlers |-> Idle]
  /\ request' = [q \in Requests |-> "idle"]
  /\ creation' = IF creation.pc = "create" THEN [pc |-> "waiting", fields |-> 0] ELSE creation
  /\ excuse' = excuse \cup (IF Publishing = {} THEN {} ELSE {"unpublished"})

(* Mutant: the queue is consumed without acknowledgements. *)
Crash_NoAck ==
  /\ Stopped
  /\ UNCHANGED <<row, connected, copy, queue>> /\ Disturb("crash")

(* The broker requeues every delivery that was not acknowledged. *)
Crash ==
  /\ Stopped
  /\ queue' = [a \in Attempts |-> queue[a] + Cardinality(InFlight(a))]
  /\ UNCHANGED <<row, connected, copy>> /\ Disturb("crash")

Disconnect ==
  /\ connected
  /\ connected' = FALSE
  /\ UNCHANGED <<row, copy, creation, request, queue, handler, excuse>> /\ Disturb("disconnect")

Link ==
  /\ ~connected
  /\ connected' = TRUE
  /\ UNCHANGED <<row, copy, creation, request, queue, handler, excuse>> /\ Disturb("link")

(* An import replaces the row's platformData by its own, which has none of *)
(* the keys in which the adapters look for the customer.                   *)
Import ==
  /\ exists /\ saved
  /\ customer' = FALSE
  /\ UNCHANGED <<exists, fields, saved, rest, request, queue, handler, excuse>> /\ Disturb("import")

Remove ==
  /\ exists
  /\ exists' = FALSE
  /\ UNCHANGED <<fields, saved, customer, rest, request, queue, handler, excuse>>
  /\ Disturb("remove")

-----------------------------------------------------------------------------
HandlerStep(h) ==
  \/ LoadRow(h) \/ FindAccount(h) \/ ReadFails(h)
  \/ EnforceRateLimit(h) \/ RateLimitExceeded(h)
  \/ RequireToken(h) \/ RefreshFails(h)
  \/ Push(h) \/ PushWithoutCustomer(h) \/ PushRefused(h) \/ PushAnswerLost(h)
  \/ SettleRetry(h) \/ SettleDead(h) \/ Ack(h)
DeliverAny == \E h \in Handlers, a \in Attempts : Deliver(h, a)
CreationStep == CreationReads \/ CreationSaves \/ CreationFails
Publish(q) == PublishUpdated(q) \/ PublishUpdatedFails(q)
UserStep == Disconnect \/ Link \/ Import \/ Remove

Next ==
  \/ CreationStep
  \/ \E q \in Requests : Update(q) \/ Publish(q)
  \/ DeliverAny
  \/ \E h \in Handlers : HandlerStep(h)
  \/ Crash \/ UserStep

Spec == Init /\ [][Next]_vars

(* Awaits resolve and the broker delivers to an idle consumer. Nothing     *)
(* obliges a creation, an update, a fault or a user action to happen.      *)
Fairness ==
  /\ \A h \in Handlers : WF_vars(HandlerStep(h))
  /\ WF_vars(DeliverAny)
  /\ \A q \in Requests : WF_vars(Publish(q))

FairSpec == Spec /\ Fairness

-----------------------------------------------------------------------------
Behind == exists /\ saved /\ copy # fields

(* What will still bring the fields to the platform: a request about to    *)
(* publish, a message, a delivery that has yet to read, that has read the  *)
(* last fields, or that goes back to the queue.                            *)
Bringing(d) == \/ d.pc \in {"load", "settle"}
               \/ HasRead(d) /\ d.fields = fields
OnItsWay == \/ Publishing # {}
            \/ \E a \in Attempts : queue[a] > 0
            \/ \E h \in Handlers : Bringing(handler[h])

(* No update disappears: where the platform is behind the row, an event is *)
(* on its way that will bring the last fields, whatever older delivery     *)
(* still sends its own, or there is an excuse.                             *)
UpdateIsOnItsWay == Behind => OnItsWay \/ excuse # {}

(* Fields that reached the platform are taken back only by a delivery that *)
(* another one has overtaken.                                              *)
NoStepBack ==
  [][copy' < copy => \E h \in Handlers : handler[h].pc = "push" /\ handler[h].overtaken]_vars

(* Why both hold: the parts of an inductive invariant. Nobody knows fields *)
(* that were not committed; a delivery that nobody has overtaken is not    *)
(* older than what the platform has; what a creation will send is the last *)
(* value or known to be early; and no event exists before the id.          *)
Committed ==
  /\ copy <= fields
  /\ \A h \in Handlers : HasRead(handler[h]) => handler[h].fields <= fields
NotOlder == \A h \in Handlers :
  HasRead(handler[h]) /\ ~handler[h].overtaken => copy <= handler[h].fields
CreationIsKnown == creation.pc = "create" =>
  creation.fields <= fields /\ (creation.fields = fields \/ "early" \in excuse)
QuietBeforeId ==
  /\ saved <=> creation.pc = "over"
  /\ ~saved => /\ copy = 0 /\ Publishing = {}
               /\ \A a \in Attempts : queue[a] = 0
               /\ \A h \in Handlers : handler[h].pc = "idle"
UpdateInv == TypeOK /\ Committed /\ NotOlder /\ CreationIsKnown /\ QuietBeforeId /\ UpdateIsOnItsWay

(* Once updates and faults end, the platform has the fields of the row, or *)
(* there is an excuse. *)
EventuallyInStep == <>[](Behind => excuse # {})

=============================================================================
