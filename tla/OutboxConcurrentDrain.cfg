SPECIFICATION Spec
CONSTANTS
  Case = {c1}
  Rounds = 1
  Deferred = {}
  Worker = {w1, w2}
  Operator = {}
  Sweeper = {}
  MaxAttempts = 2
  MaxDispatches = 1
  MaxReplays = 0
  MaxCrashes = 0
INVARIANT OneRecordPerIntent
CHECK_DEADLOCK FALSE
