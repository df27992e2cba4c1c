SPECIFICATION Spec
CONSTANTS
  None = None
  Case = {c1, c2}
  Action = {a1, a2}
  Request = {r1, r2}
  TTL = 1
  MaxTime = 2
  MaxRuns = 2
  MaxFaults = 0
SYMMETRY Symmetry
INVARIANTS OneDecisionEach
CHECK_DEADLOCK FALSE
