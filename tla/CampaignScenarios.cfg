\* One behaviour is one scenario: these are the bounds of "control", see
\* MCCampaignScenarios for those of "serial".
SPECIFICATION ScenarioSpec
CONSTANTS
  r1 = r1
  h1 = h1
  Rows = {r1}
  Requests = {q1}
  Handlers = {h1, h2}
  MaxRetries = 2
  AtFirst = {"on", "created"}
  MaxRequests = 2
  Faults = {"publish", "update", "read", "limit", "refresh", "platform", "answer", "reconcile", "crash", "disconnect", "remove"}
  MaxDisturbances = 3
INVARIANTS PlatformFollows
PROPERTIES PendingIsResolved PauseTakesEffect WorkEnds
\* Work ends: nothing is left to deliver or to sweep, and the user may stop asking.
CHECK_DEADLOCK FALSE
