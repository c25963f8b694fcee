\* One Google campaign and its budget: what the platform has after updateBudget.
SPECIFICATION Spec
CONSTANTS
 Platforms = {"GOOGLE"}
 AdAccounts = {a1, a2}
 Placeholder = sample
 None = none
 Budgets = {300, 500}
 Actions = {}
 MaxActions = 0
 MaxCalls = 4
INVARIANT CallsTakeEffect
CHECK_DEADLOCK FALSE
