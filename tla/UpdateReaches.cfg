\* Two deliveries, two requests, two updates; every fault, two of them.
SPECIFICATION FairSpec
CONSTANTS
  Requests = {q1, q2}
  Handlers = {h1, h2}
  MaxRetries = 2
  MaxUpdates = 2
  Faults = {"create", "publish", "read", "limit", "token", "platform", "answer", "crash", "disconnect", "link", "import", "remove"}
  MaxDisturbances = 2
INVARIANTS UpdateIsOnItsWay
PROPERTIES NoStepBack EventuallyInStep
\* The work ends: updates are used up, every delivery settled.
CHECK_DEADLOCK FALSE
