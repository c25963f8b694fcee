------------------------- MODULE MCServiceScenarios -------------------------
(***************************************************************************)
(* Small scenarios of the components around the campaigns, each with the   *)
(* whole next-state relation of its component: the sessions, and those of  *)
(* Services.  A behaviour belongs to one scenario from its first state on, *)
(* and the other components rest in it.                                    *)
(***************************************************************************)
EXTENDS Sessions, Services, TLC

CONSTANTS c1, c2

VARIABLE scenario

AllPlatforms == {"META", "GOOGLE", "LINKEDIN", "X", "SNAPCHAT", "TIKTOK"}
ExistingCampaigns == <<"u1", "u2">>
Amount(u, d, p) == [units |-> u, decimals |-> d, plain |-> p]
TypedAmounts ==
  {Amount(0, <<5>>, TRUE), Amount(1, <<0, 7>>, TRUE), Amount(2, <<5>>, TRUE),
   Amount(3, <<0, 0, 5>>, TRUE), Amount(9, <<>>, FALSE), Amount(7, <<>>, TRUE)}
CampaignsPlatforms == {<<"META", "SNAPCHAT">>, <<"GOOGLE", "X">>, <<"LINKEDIN", "TIKTOK">>}

-----------------------------------------------------------------------------
(* Without its scenario, a component has one state to begin in: a user who *)
(* has not registered and never does, an ad account with nothing to list,  *)
(* one campaign to call about, and one to ask the insights of.             *)
ScenarioInit ==
  /\ scenario \in {"sessions", "crud", "linking", "pages", "calls", "limiter", "throttle",
                   "store", "form", "metrics"}
  /\ scenario # "pages" => lister = "X" /\ atPlatform = {}
  /\ scenario # "calls" => adapter = "X" /\ currency = "USD" /\ connected = None
  /\ scenario # "calls" => platformData = [k \in Adapters!DataKeys |-> None]
  /\ scenario # "calls" => adapted = [known |-> FALSE, status |-> "ACTIVE", budget |-> 300]
  /\ scenario # "metrics" => rows = <<[platform |-> "META", saved |-> FALSE],
                                     [platform |-> "SNAPCHAT", saved |-> FALSE]>>
  /\ scenario # "metrics" => accounts = [p \in {"META", "SNAPCHAT"} |-> "off"]
  /\ Init /\ (scenario # "sessions" => account = Nobody)
  /\ ServicesInit /\ (scenario # "limiter" => ~mock)

SessionsStep == scenario = "sessions" /\ Next /\ UNCHANGED <<scenario, servicesVars>>

ServicesStep ==
  /\ \/ scenario = "crud" /\ CrudActs
     \/ scenario = "linking" /\ LinkingActs
     \/ scenario = "pages" /\ PagesActs
     \/ scenario = "calls" /\ AdaptersActs
     \/ scenario = "limiter" /\ LimiterActs
     \/ scenario = "throttle" /\ ThrottleActs
     \/ scenario = "store" /\ StoreActs
     \/ scenario = "form" /\ FormActs
     \/ scenario = "metrics" /\ MetricsActs
  /\ UNCHANGED <<scenario, vars>>

ScenarioNext == SessionsStep \/ ServicesStep

ScenarioSpec ==
  ScenarioInit /\ [][ScenarioNext]_<<scenario, vars, servicesVars>>

(* Requests are interchangeable, and so are callbacks. *)
Interchangeable == Permutations(Requests) \cup Permutations({c1, c2})

=============================================================================
