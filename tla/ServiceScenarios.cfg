\* One behaviour is one scenario: see MCServiceScenarios for the other bounds.
\* Sessions: two requests at a time, three in all, one of them cut short.
SPECIFICATION ScenarioSpec
CONSTANTS
  Requests = {q1, q2}
  MaxRequests = 3
  Passwords = {1, 2}
  MaxSessions = 3
  MaxLinks = 2
  MaxSecrets = 2
  MaxCodes = 4
  CodeCount = 2
  MaxStates = 1
  MaxFailures = 1
  None = none
  Users = {"u1"}
  Keys = {"k1"}
  Existing <- ExistingCampaigns
  Dates = {0, 1}
  PageLimit = 1
  MaxAsked = 3
  Faults = {"fail", "lost", "crash"}
  MaxFaults = 1
  Platforms = {"X"}
  Flows = {f1, f2}
  Callbacks = {c1, c2}
  AdAccounts = {a1}
  Actions = {"exchange", "fail", "disconnect"}
  MaxActions = 2
  Listers <- AllPlatforms
  LastListed = 5
  PageSize = 2
  MaxPages = 4
  MaxChanges = 2
  Adapted <- AllPlatforms
  Held = {a1, a2}
  Placeholder = sample
  Budgets = {300, 500}
  Interventions = {"refuse", "timeout", "console", "remove"}
  MaxInterventions = 2
  MaxSent = 4
  Calls = {1, 2, 3}
  CallLimit = 1
  Interval = 2
  Incoming = {1, 2, 3, 4}
  RequestLimit = 2
  Window = 2
  MaxFailedExpires = 1
  MaxTime = 4
  Emails = {e1, e2}
  Slugs = {s1}
  IdemKeys = {k1}
  Checkers = {c1, c2}
  Draws = {0, 1}
  MaxRows = 4
  MaxMillis = 2
  MaxUpdates = 1
  Amounts <- TypedAmounts
  MinHeadlines = 3
  MaxHeadlines = 5
  MinDescriptions = 2
  MaxDescriptions = 3
  MaxEdits = 4
  Campaigns <- CampaignsPlatforms
  MaxDeliveries = 2
  Incidents = {"save", "store", "disconnect", "fail"}
  MaxIncidents = 1
  MaxRequested = 1
  c1 = c1
  c2 = c2
SYMMETRY Interchangeable
INVARIANTS SessionsAreEntitled WorksOnce
INVARIANTS  ImportReadsWhatWasWritten StateIsConsumedOnce
INVARIANTS  ListingIsComplete  StoreAgrees  InsightsHold
INVARIANTS  DatesStayOrdered WalkIsComplete
\* Everything may come to rest: the user may stop asking.
CHECK_DEADLOCK FALSE
