SPECIFICATION Spec
CONSTANTS
  None = None
  Case = {c1, c2}
  Action = {a1, a2}
  Request = {r1, r2}
  TTL = 1
  MaxTime = 2
  MaxRuns = 2
  MaxFaults = 1
SYMMETRY Symmetry
INVARIANTS TypeOK DecisionsAreProven CasesFollowDecisions UndisturbedDecisionsAgree
CHECK_DEADLOCK FALSE
