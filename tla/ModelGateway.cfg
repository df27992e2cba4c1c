SPECIFICATION Spec
CONSTANTS
  None = None
  Caller = {a, b}
  Key = {k}
  rpm_limit = 2
  rpd_limit = 3
  Minute = 3
  Day = 4
  wait_for_slot = 1
  record = TRUE
  MaxTime = 5
  MaxCalls = 4
  MaxRestarts = 1
INVARIANTS TypeOK BudgetsAreExact AnswersAreHonest
PROPERTIES EveryCallIsAnswered
CHECK_DEADLOCK FALSE
