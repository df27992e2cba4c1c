SPECIFICATION Spec
CONSTANTS
  None = None
  NaN = NaN
  Day = 24
  max_attempts_per_case = 2
  max_discount_bearing_attempts = 1
  max_contacts_24h = 1
  max_contacts_48h = 2
  quiet_hours_start = 21
  quiet_hours_end = 9
  promise_freeze_h = 4
  daily_action_budget = 2
  monthly_discount_exposure = 100
  Whole = 100
  max_autonomous_amount = 1000
  hitl_dual_signal_amount = 2000
  max_discount_pct = 7
  default_discount_pct = 5
  max_discount_absolute = 60
  link_expiry = 30
  link_expiry_min = 15
  link_expiry_max = 100
  Proposals <- ModelProposals
  Openings <- CaseOpenings
  Hours = {19, 23, 30, 40, 60}
  MaxEvents = 2
INVARIANTS TypeOK AppliedIsBounded ReductionsAreRecorded NobodyIsOverruled HoldsEndOnTime
CHECK_DEADLOCK FALSE
