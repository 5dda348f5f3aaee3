SPECIFICATION Spec
CONSTANTS
  Hyp = {h1, h2}
  Gather = {"cluster_failures"}
  Quota <- SmallQuota
  None = None
  MaxActions = 8
  MaxStreak = 3
  TokenBudget = 0
  TimeBudget = FALSE
  HeldOut = FALSE
INVARIANT SuccessIsVerified
\* a run ends
CHECK_DEADLOCK FALSE
