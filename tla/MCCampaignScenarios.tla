------------------------ MODULE MCCampaignScenarios -------------------------
(***************************************************************************)
(* Two small scenarios of one campaign, each with the whole next-state     *)
(* relation of its component:                                              *)
(*                                                                         *)
(*  - control: one row, one pause or resume request at a time;             *)
(*  - serial: its creation, one delivery at a time, every fault.           *)
(*                                                                         *)
(* A behaviour belongs to one scenario from its first state on, and the    *)
(* variables of the other component rest.  Those of CampaignCreation have  *)
(* a trailing underscore where CampaignPauseResume has the name.           *)
(***************************************************************************)
EXTENDS CampaignPauseResume

CONSTANTS r1, h1

VARIABLES
  scenario,
  uacm_, status_, ext, processed, account_, platform, lost, queue_, dlq, handler_,
  unpublished, disconnecting_, age, booting, disturbances_, overlapped, harmed

CreationFaults == {"publish", "read", "limit", "refresh", "platform", "answer", "update",
                   "reconcile", "mark", "crash", "disconnect", "link", "remove"}

Serial == INSTANCE CampaignCreation
  WITH Rows <- {r1}, Handlers <- {h1}, MaxRetries <- 2, QueueCap <- 1,
       Faults <- CreationFaults, MaxDisturbances <- 2,
       uacm <- uacm_, status <- status_, account <- account_, queue <- queue_,
       handler <- handler_, disconnecting <- disconnecting_, disturbances <- disturbances_

creation == <<uacm_, status_, ext, processed, account_, platform, lost, queue_, dlq, handler_,
              unpublished, disconnecting_, age, booting, disturbances_, overlapped, harmed>>

(* A campaign deleted before anything was published. *)
CreationRests ==
  /\ uacm_ = "DELETED" /\ status_ = [r \in {r1} |-> "PENDING"] /\ ext = [r \in {r1} |-> 0]
  /\ processed = {} /\ account_ = [r \in {r1} |-> "none"]
  /\ platform = [r \in {r1} |-> 0] /\ lost = [r \in {r1} |-> 0]
  /\ queue_ = [m \in Serial!Messages |-> 0] /\ dlq = {}
  /\ handler_ = [h \in {h1} |-> Serial!Idle]
  /\ unpublished = {} /\ disconnecting_ = {} /\ age = "expired" /\ booting = FALSE
  /\ disturbances_ = 0 /\ overlapped = {} /\ harmed = FALSE

(* A paused campaign that nobody asks anything of. *)
ControlRests == uacm = "PAUSED" /\ \A r \in Rows : account[r] = "usable"

ScenarioInit ==
  /\ \/ scenario = "control" /\ CreationRests
     \/ scenario = "serial" /\ Serial!Init
  /\ Init /\ (scenario # "control" => ControlRests)

(* Bound: a request that does not wait for the last one leaves room for    *)
(* one disturbance in all.                                                 *)
HasteBound == "order" \in abandoned' => disturbances' <= 1

ControlStep == scenario = "control" /\ Next /\ HasteBound /\ UNCHANGED <<scenario, creation>>
SerialStep == scenario = "serial" /\ Serial!Next /\ UNCHANGED <<scenario, vars>>
ScenarioNext == ControlStep \/ SerialStep

(* The fairness of each component (its Fairness), in its own scenario. The *)
(* one handler of serial is either busy or waits for a delivery.           *)
ScenarioFairness ==
  /\ \A q \in Requests : WF_vars(scenario = "control" /\ RequestStep(q))
  /\ \A h \in Handlers : WF_vars(scenario = "control" /\ HandlerStep(h))
  /\ \A r \in Rows : WF_vars(scenario = "control" /\ DisconnectPauses(r))
  /\ WF_vars(scenario = "control" /\ DeliverAny)
  /\ WF_creation(scenario = "serial" /\ (Serial!HandlerStep(h1) \/ Serial!DeliverAny))
  /\ WF_creation(scenario = "serial" /\ Serial!RequestStep(r1))
  /\ WF_creation(scenario = "serial" /\ age = "fresh" /\ Serial!Age)
  /\ WF_creation(scenario = "serial" /\ Serial!PeriodicSweep)
  /\ WF_creation(scenario = "serial" /\ Serial!StartupSweep)

ScenarioSpec ==
  ScenarioInit /\ [][ScenarioNext]_<<scenario, vars, creation>> /\ ScenarioFairness

-----------------------------------------------------------------------------
(* The liveness of creation, beside PauseTakesEffect, and of both.         *)

(* A PENDING row is resolved, even if its event was never published.       *)
PendingIsResolved == scenario = "serial" => Serial!PendingIsResolved

(* Deliveries, retries, sweeps and requests all come to an end, once no     *)
(* more requests are sent.                                                 *)
WorkEnds == <>[](/\ scenario = "serial" => Serial!Settled
                 /\ scenario = "control" => Quiet)

=============================================================================
