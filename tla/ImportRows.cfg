\* Two campaigns of one ad account, two imports at a time.
SPECIFICATION Spec
CONSTANTS
  c1 = c1
  c2 = c2
  a1 = a1
  a2 = a2
  None = None
  Campaigns <- TwoCampaigns
  PlatformAccounts <- TwoAccounts
  AccountOf <- InOneAccount
  MaxRows = 3
  Imports = {i1, i2}
  Actions = {"read", "write", "platform", "publish", "crash", "disconnect", "remove", "console", "control", "create"}
  MaxRequests = 2
  MaxActions = 1
SYMMETRY ActorSymmetry
INVARIANTS OneRowPerCampaign  ChosenAccountIsKept
PROPERTIES ImportIsComplete
\* The user may stop asking.
CHECK_DEADLOCK FALSE
