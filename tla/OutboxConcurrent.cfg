SPECIFICATION Spec
CONSTANTS
  Case = {c1}
  Rounds = 1
  Deferred = {c1}
  Worker = {w1, w2}
  Operator = {o1}
  Sweeper = {s1}
  MaxAttempts = 2
  MaxDispatches = 2
  MaxReplays = 1
  MaxCrashes = 1
SYMMETRY Symmetry
INVARIANTS TypeOK IntentBeforeLink SentIsTrue DeadIsVisible
PROPERTIES TerminalCasesGoQuiet ImplementsExactlyOnce
CHECK_DEADLOCK FALSE
