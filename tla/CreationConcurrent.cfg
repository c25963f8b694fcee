\* Two rows, two deliveries in flight at once, every kind of fault.
SPECIFICATION Spec
CONSTANTS
  Rows = {r1, r2}
  Handlers = {h1, h2}
  MaxRetries = 2
  QueueCap = 1
  Faults = {"publish", "read", "limit", "refresh", "platform", "answer", "update", "reconcile", "mark", "crash", "disconnect", "link", "remove"}
  MaxDisturbances = 2
CONSTRAINTS TwoMessages OnceStale
SYMMETRY ActorSymmetry
INVARIANTS ProcessedIsSaved ActiveIsOnPlatform  DuplicatesAreAccounted ProcessedIsNotError ParentAgrees
PROPERTIES EventsAreAnswered
\* The work ends: every delivery settled and nothing left to sweep.
CHECK_DEADLOCK FALSE
