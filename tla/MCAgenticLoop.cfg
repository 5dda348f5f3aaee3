SPECIFICATION Spec
CONSTANTS
  Hyp = {h1, h2}
  Gather = {"cluster_failures"}
  Quota <- SmallQuota
  None = None
  MaxActions = 8
  MaxStreak = 2
  TokenBudget = 1
  TimeBudget = TRUE
  HeldOut = TRUE
INVARIANTS
  TypeOK
  TestedOnce
  DiscoveryKept
  FixServesVerified
  BoardAgrees
  FinalScoredOnce
PROPERTIES
  TestsAdjudicated
  Terminates
\* a run ends
CHECK_DEADLOCK FALSE
