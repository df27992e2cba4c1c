SPECIFICATION FairSpec
CONSTANTS
  p1 = p1
  Cases = 3
  Control = {1}
  Size = 2
  Poller = {p1}
  Limit = 3
  MaxRuns = 2
  MaxResets = 1
  MaxFaults = 1
INVARIANTS TypeOK CountedIsOursAndPaid WebhookKeepsTheWindow
PROPERTY PaidIsSettled
CHECK_DEADLOCK FALSE
