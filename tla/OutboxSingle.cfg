SPECIFICATION FairSpec
CONSTANTS
  Case = {c1}
  Rounds = 2
  Deferred = {}
  Worker = {w1}
  Operator = {o1}
  Sweeper = {}
  MaxAttempts = 3
  MaxDispatches = 1
  MaxReplays = 2
  MaxCrashes = 2
INVARIANTS OneRecordPerIntent BudgetHolds
PROPERTIES SentIsFinal EveryIntentResolves NoLinkIsForgotten
CHECK_DEADLOCK FALSE
