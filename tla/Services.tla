------------------------------ MODULE Services ------------------------------
(***************************************************************************)
(* What is around the campaigns, side by side: the requests on their       *)
(* collection (Crud), the linking of an account (Linking), a connector     *)
(* that lists an ad account (Pages), an adapter that calls a platform      *)
(* (Adapters), the limit on the calls to a platform (Limiter), the limit   *)
(* on the requests of a client (Throttle), the store in memory that may    *)
(* stand in for the database (Store), the form of the web application      *)
(* (Form), and the insights of a campaign (Metrics).  They share no state: *)
(* their steps interleave, and each belongs to one of them.                *)
(***************************************************************************)
EXTENDS Integers, Sequences, FiniteSets

CONSTANTS
  None,
  Users, Keys, Existing, Dates, PageLimit, MaxAsked, Faults, MaxFaults,   \* Crud
  Platforms, Flows, Callbacks, AdAccounts, Actions, MaxActions,           \* Linking
  Listers, LastListed, PageSize, MaxPages, MaxChanges,                    \* Pages
  Adapted, Held, Placeholder, Budgets, Interventions, MaxInterventions, MaxSent,  \* Adapters
  Calls, CallLimit, Interval,                                             \* Limiter
  Incoming, RequestLimit, Window, MaxFailedExpires,                       \* Throttle
  MaxTime,                                                                \* both limits
  Emails, Slugs, IdemKeys, Checkers, Draws, MaxRows, MaxMillis, MaxUpdates,       \* Store
  Amounts, MinHeadlines, MaxHeadlines, MinDescriptions, MaxDescriptions, MaxEdits, \* Form
  Campaigns, MaxDeliveries, Incidents, MaxIncidents, MaxRequested         \* Metrics

VARIABLES
  campaigns, records, asked, lost, faults,
  platform, linked, state, payload, code, callback, consumed, shared, latest, overtaken, actions,
  lister, atPlatform, totals, listing, pagesAsked, cursor, offset, listed, throughout, shifts,
  changes,
  adapter, currency, connected, platformData, adapted, remote, calling, told, imported, sent,
  interventions,
  mock, now, members, phase, read, at, disturbed,
  clock, count, resetAt, stage, passed, failedExpires,
  millis, created, updates, store, ideal, tx, check, troubles,
  form, tab, submitted, errors, submission, edits,
  rows, accounts, truth, logs, answering, answer, deliveries, incidents, requested

Crud == INSTANCE CampaignRequests
  WITH Limit <- PageLimit, MaxRequests <- MaxAsked, request <- asked
Linking == INSTANCE AccountLinking WITH account <- linked, used <- consumed
Pages == INSTANCE Listing
  WITH Platforms <- Listers, Last <- LastListed, platform <- lister, there <- atPlatform,
       pc <- listing, page <- pagesAsked, after <- cursor, start <- offset
Adapters == INSTANCE PlatformCalls
  WITH Platforms <- Adapted, AdAccounts <- Held, Actions <- Interventions,
       MaxActions <- MaxInterventions, MaxCalls <- MaxSent,
       platform <- adapter, bound <- connected, data <- platformData, row <- adapted,
       call <- calling, reading <- imported, calls <- sent, actions <- interventions
Limiter == INSTANCE RateLimiter WITH Limit <- CallLimit, pc <- phase
Throttle == INSTANCE ThrottleGuard
  WITH Requests <- Incoming, Limit <- RequestLimit, MaxFailures <- MaxFailedExpires,
       now <- clock, pc <- stage, at <- passed, failures <- failedExpires
Store == INSTANCE MockStore WITH MaxTime <- MaxMillis, now <- millis
Form == INSTANCE CampaignForm WITH result <- submission
Metrics == INSTANCE Insights
  WITH Actions <- Incidents, MaxActions <- MaxIncidents, MaxRequests <- MaxRequested,
       request <- answering, actions <- incidents, requests <- requested

crudVars == <<campaigns, records, asked, lost, faults>>
linkingVars == <<platform, linked, state, payload, code, callback, consumed, shared, latest,
                 overtaken, actions>>
pagesVars == <<lister, atPlatform, totals, listing, pagesAsked, cursor, offset, listed,
               throughout, shifts, changes>>
adaptersVars == <<adapter, currency, connected, platformData, adapted, remote, calling, told,
                  imported, sent, interventions>>
limiterVars == <<mock, now, members, phase, read, at, disturbed>>
throttleVars == <<clock, count, resetAt, stage, passed, failedExpires>>
storeVars == <<millis, created, updates, store, ideal, tx, check, troubles>>
formVars == <<form, tab, submitted, errors, submission, edits>>
metricsVars ==
  <<rows, accounts, truth, logs, answering, answer, deliveries, incidents, requested>>
apiVars == <<crudVars, linkingVars, pagesVars, adaptersVars, limiterVars, throttleVars>>
servicesVars == <<apiVars, storeVars, formVars, metricsVars>>

(* What the constants are assumed to be: campaigns exist of the users who  *)
(* make the requests and of others, no key, account, status or field is    *)
(* None, adapters are those of AdapterFactory, budgets are not negative,   *)
(* sets of calls and requests are finite, limits, pages and windows are at *)
(* least one, amounts have digits, a list has room for what it needs, and  *)
(* campaigns are on platforms there are.                                   *)
Owners == Users \cup {Existing[i] : i \in DOMAIN Existing}
CrudConstants ==
  /\ Existing \in Seq(Owners) /\ Dates \subseteq Int /\ None \notin Keys
  /\ PageLimit \in Nat \ {0}
PagesConstants == LastListed \in Nat /\ PageSize \in Nat \ {0}
BudgetNames == {"daily_budget", "dailyBudget", "daily_budget_amount_local_micro",
                "daily_budget_micro", "budget"}
AdapterConstants ==
  /\ Adapted \subseteq {"META", "GOOGLE", "LINKEDIN", "X", "SNAPCHAT", "TIKTOK"}
  /\ Budgets \subseteq Nat
  /\ None \notin Held \cup {"ACTIVE", "PAUSED"} \cup Int \cup [name : BudgetNames, amount : Int]
LimiterConstants ==
  IsFiniteSet(Calls) /\ CallLimit \in Nat /\ Interval \in Nat /\ MaxTime \in Nat \ {0}
ThrottleConstants ==
  /\ IsFiniteSet(Incoming) /\ RequestLimit \in Nat \ {0} /\ Window \in Nat \ {0}
  /\ MaxTime \in Nat \ {0} /\ MaxFailedExpires \in Nat
FormConstants ==
  /\ Amounts \subseteq [units : Nat, decimals : Seq(0..9), plain : BOOLEAN]
  /\ MinHeadlines \in Nat /\ MaxHeadlines \in Nat /\ MinHeadlines <= MaxHeadlines
  /\ MinDescriptions \in Nat /\ MaxDescriptions \in Nat /\ MinDescriptions <= MaxDescriptions
MetricsConstants ==
  Campaigns \subseteq Seq({"META", "GOOGLE", "LINKEDIN", "X", "SNAPCHAT", "TIKTOK"})
ASSUME ServicesAssumption ==
  /\ CrudConstants /\ PagesConstants /\ AdapterConstants
  /\ LimiterConstants /\ ThrottleConstants /\ FormConstants /\ MetricsConstants

ServicesInit ==
  /\ Crud!Init /\ Linking!Init /\ Pages!Init /\ Adapters!Init
  /\ Limiter!Init /\ Throttle!Init /\ Store!Init /\ Form!Init /\ Metrics!Init

CrudActs ==
  /\ Crud!Next
  /\ UNCHANGED <<linkingVars, pagesVars, adaptersVars, limiterVars, throttleVars, storeVars, formVars,
                 metricsVars>>
LinkingActs ==
  /\ Linking!Next
  /\ UNCHANGED <<crudVars, pagesVars, adaptersVars, limiterVars, throttleVars, storeVars, formVars,
                 metricsVars>>
PagesActs ==
  /\ Pages!Next
  /\ UNCHANGED <<crudVars, linkingVars, adaptersVars, limiterVars, throttleVars, storeVars, formVars,
                 metricsVars>>
AdaptersActs ==
  /\ Adapters!Next
  /\ UNCHANGED <<crudVars, linkingVars, pagesVars, limiterVars, throttleVars, storeVars, formVars,
                 metricsVars>>
LimiterActs ==
  /\ Limiter!Next
  /\ UNCHANGED <<crudVars, linkingVars, pagesVars, adaptersVars, throttleVars, storeVars, formVars,
                 metricsVars>>
ThrottleActs ==
  /\ Throttle!Next
  /\ UNCHANGED <<crudVars, linkingVars, pagesVars, adaptersVars, limiterVars, storeVars, formVars,
                 metricsVars>>
StoreActs == Store!Next /\ UNCHANGED <<apiVars, formVars, metricsVars>>
FormActs == Form!Next /\ UNCHANGED <<apiVars, storeVars, metricsVars>>
MetricsActs == Metrics!Next /\ UNCHANGED <<apiVars, storeVars, formVars>>

ServicesNext ==
  \/ CrudActs \/ LinkingActs \/ PagesActs \/ AdaptersActs
  \/ LimiterActs \/ ThrottleActs \/ StoreActs \/ FormActs \/ MetricsActs

ServicesSpec == ServicesInit /\ [][ServicesNext]_servicesVars

-----------------------------------------------------------------------------
(* Properties                                                              *)

(* An Idempotency-Key creates one campaign more than those whose creation  *)
(* was reported as failed ("a second call with the same key is rejected    *)
(* with 409 instead of creating a duplicate campaign").                    *)
OneCampaignPerKey == Crud!OneCampaignPerKey

(* A campaign ends after it starts, but for one whose start alone was      *)
(* moved.                                                                  *)
DatesStayOrdered == Crud!DatesStayOrdered

(* A state token is consumed by one callback, unless two overlap.          *)
StateIsConsumedOnce == Linking!StateIsConsumedOnce

(* A client that reads all the pages misses no campaign that was there all *)
(* the time.                                                               *)
WalkIsComplete == Crud!WalkIsComplete

(* The row holds the last refresh token that was obtained, unless it       *)
(* changed between a linking's read and its write.                         *)
RefreshTokenIsLatest == Linking!RefreshTokenIsLatest

(* A listing that ends misses no campaign that was there all the time, but *)
(* one for each that was removed from the pages it had passed.             *)
ListingIsComplete == Pages!ListingIsComplete

(* The platform is what the calls that succeeded said, but for Google's    *)
(* budgets and TikTok's refusals.                                          *)
CallsTakeEffectElsewhere == Adapters!CallsTakeEffectElsewhere

(* An import reads the campaign as the adapter wrote it. *)
ImportReadsWhatWasWritten == Adapters!ImportReadsWhatWasWritten

(* The mock of the database agrees with a database. *)
StoreAgrees == Store!StoreAgrees

(* A submission is exact, and a form with errors can be corrected. *)
FormHolds == Form!SubmissionIsExact /\ Form!FormIsCorrigible

(* The totals of the insights are those of what the platforms delivered,   *)
(* none of it older than the request.                                      *)
InsightsHold == Metrics!TotalsAddUp /\ Metrics!AnswerIsRecent

(* No more requests are let through in a window, or platform calls in an   *)
(* interval, than its limit allows.                                        *)
RatesHold == Throttle!WindowHolds /\ Limiter!LimitHolds

=============================================================================
