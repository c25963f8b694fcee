\* Two requests at a time on two rows, a retry, and every fault.
SPECIFICATION Spec
CONSTANTS
  Rows = {r1, r2}
  Requests = {q1, q2}
  Handlers = {h1}
  MaxRetries = 2
  AtFirst = {"on"}
  MaxRequests = 2
  Faults = {"publish", "update", "read", "limit", "refresh", "platform", "answer", "reconcile", "crash", "disconnect", "remove"}
  MaxDisturbances = 2
SYMMETRY ActorSymmetry
INVARIANTS ParentIsHonest
\* The user may stop asking.
CHECK_DEADLOCK FALSE
