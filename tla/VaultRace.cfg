SPECIFICATION Spec
CONSTANTS
  c1 = c1
  c2 = c2
  Callers <- TwoCallers
  LockTTL = 3
  MaxWait = 2
  CallTimeout = 3
  Rotating = TRUE
  MaxTokens = 3
  Faults <- NoFaults
  MaxDisturbances = 0
INVARIANT RefreshIsSingleFlight
