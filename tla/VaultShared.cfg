SPECIFICATION FairSpec
CONSTANTS
  c1 = c1
  c2 = c2
  Callers <- TwoCallers
  LockTTL = 3
  MaxWait = 2
  CallTimeout = 3
  Rotating = FALSE
  MaxTokens = 3
  Faults <- SharedFaults
  MaxDisturbances = 1
PROPERTY HandsOutRenewed
PROPERTY EveryCallEnds
