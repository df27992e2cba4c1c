SPECIFICATION Spec
CONSTANTS
  None = None
  NaN = NaN
  Day = 24
  max_attempts_per_case = 2
  max_discount_bearing_attempts = 1
  max_contacts_24h = 1
  max_contacts_48h = 2
  quiet_hours_start = 21
  quiet_hours_end = 9
  promise_freeze_h = 24
  daily_action_budget = 1
  monthly_discount_exposure = 20
  Whole = 100
  max_autonomous_amount = 1000
  hitl_dual_signal_amount = 2000
  max_discount_pct = 15
  default_discount_pct = 5
  max_discount_absolute = 40
  link_expiry = 30
  link_expiry_min = 15
  link_expiry_max = 100
  Batches = {batch}
  Requests = {tm}
  Attempts = 2
  Corpus <- MCCorpus
  Days = {1, 2}
  DiagnosisAnswers <- MCDiagnosisAnswers
  ProposalAnswers <- MCProposalAnswers
  Adapter = TRUE
  MAX_NODE_VISITS = 9
  max_llm_calls = 3
  MaxToggles = 1
  MaxLaunches = 2
INVARIANTS TypeOK CasesAreAccountedFor OutcomesAreHonest BudgetsHold PlaybooksAreKept
  SurfacesAgree
PROPERTIES EveryRunEnds
CHECK_DEADLOCK FALSE
