SPECIFICATION Spec
CONSTANTS
  p1 = p1
  Cases = 2
  Control = {1}
  Size = 2
  Poller = {p1}
  Limit = 2
  MaxRuns = 1
  MaxResets = 0
  MaxFaults = 0
INVARIANT ProvenCountsAgree
CHECK_DEADLOCK FALSE
