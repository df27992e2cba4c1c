------------------------------ MODULE Reports ------------------------------
(***************************************************************************)
(* What the dashboard says about the money: each endpoint of               *)
(* routers/metrics.py and routers/briefing.py, with the services it calls  *)
(* (services/attribution.py, metrics.py, reconciliation.py and the         *)
(* holdout's report in workers/experiment.py), as a function of the rows   *)
(* it reads.                                                               *)
(*                                                                         *)
(* db maps the id of every RecoveryCase to its columns: status, amount,    *)
(* recovered and via (recovered_amount_paise, recovery_verified_via), rule *)
(* (stopping_rule_fired), demo; to the arm of its ExperimentAssignment;    *)
(* and to whether an unexpired PENDING approval waits for it.  "NONE" is a *)
(* NULL.                                                                   *)
(***************************************************************************)
EXTENDS Integers, FiniteSets, FiniteSetsExt

TERMINAL_STATUSES ==
  {"RECOVERED", "RESOLVED_ORGANIC", "OBSERVED_NO_ACTION", "EXPIRED", "SUPPRESSED",
   "REJECTED", "FAILED_PERMANENT"}

SETTLED  == {"RECOVERED", "RESOLVED_ORGANIC"}
RAZORPAY == {"WEBHOOK", "API_RECONCILIATION"}

Amount(db, C)    == MapThenSumSet(LAMBDA c : db[c].amount, C)
Recovered(db, C) == MapThenSumSet(LAMBDA c : db[c].recovered, C)

WithStatus(db, S) == {c \in DOMAIN db : db[c].status \in S}
ProvenBy(db, V)   == {c \in DOMAIN db : db[c].via \in V}
Intercepted(db)   == {c \in DOMAIN db : db[c].rule # "NONE"}
HeldOut(db)       == {c \in DOMAIN db : db[c].arm = "CONTROL"}

-----------------------------------------------------------------------------
(* GET /metrics/attribution.                                               *)

MutPaidIsTerminal(db) ==
  [c \in DOMAIN db |->
     [arm |-> IF db[c].arm = "NONE" THEN "TREATMENT" ELSE db[c].arm,
      paid |-> db[c].status \in TERMINAL_STATUSES, amount |-> db[c].amount,
      recovered |-> db[c].via # "NONE", discount |-> 0, inference |-> 0,
      is_demo |-> db[c].demo]]

\* _outcomes: a case without an assignment counts as treated, and what a case
\* cost nobody fills in.
Outcomes(db) ==
  [c \in DOMAIN db |->
     [arm |-> IF db[c].arm = "NONE" THEN "TREATMENT" ELSE db[c].arm,
      paid |-> db[c].status \in SETTLED, amount |-> db[c].amount,
      recovered |-> db[c].via # "NONE", discount |-> 0, inference |-> 0,
      is_demo |-> db[c].demo]]

ArmStats(o, C) ==
  [cases |-> Cardinality(C), paid |-> Cardinality({c \in C : o[c].paid}),
   amount |-> Amount(o, C)]

\* recovery_report: demonstrations are left out, and of the held-out cases
\* nothing is recovered.
RecoveryReport(o) ==
  LET measured  == {c \in DOMAIN o : ~o[c].is_demo}
      Arm(a)    == {c \in measured : o[c].arm = a}
      recovered == {c \in Arm("TREATMENT") : o[c].recovered} IN
  [treatment |-> ArmStats(o, Arm("TREATMENT")), control |-> ArmStats(o, Arm("CONTROL")),
   gross |-> Amount(o, recovered),
   discount_cost  |-> MapThenSumSet(LAMBDA c : o[c].discount, recovered),
   inference_cost |-> MapThenSumSet(LAMBDA c : o[c].inference, measured),
   excluded |-> Cardinality(DOMAIN o \ measured)]

Attribution(db) == RecoveryReport(Outcomes(db))

\* int() of a quotient.
TowardZero(a, b) == IF a >= 0 THEN a \div b ELSE -((-a) \div b)

\* The lift times the treated exposure; nothing without a control arm.
Incremental(report) ==
  LET t == report.treatment
      c == report.control IN
  IF c.cases = 0 \/ t.cases = 0 THEN 0
  ELSE TowardZero((t.paid * c.cases - c.paid * t.cases) * t.amount, t.cases * c.cases)

Cost(report) == report.discount_cost + report.inference_cost \div 10000

NetIncremental(report) == Incremental(report) - Cost(report)

-----------------------------------------------------------------------------
(* GET /metrics/reconciliation, /overview, /stopping-rules, /claims,       *)
(* /proof, /holdout and GET /briefing/today.                               *)

\* money_ledger, and the identity it is read by.
MoneyLedger(db) ==
  LET measured == {c \in DOMAIN db : ~db[c].demo}
      driven   == WithStatus(db, {"RECOVERED"}) \cap measured
      organic  == WithStatus(db, {"RESOLVED_ORGANIC"}) \cap measured
      demo     == WithStatus(db, {"RECOVERED"}) \ measured
      report   == Attribution(db) IN
  [driven |-> Recovered(db, driven), driven_cases |-> Cardinality(driven),
   organic |-> Amount(db, organic), organic_cases |-> Cardinality(organic),
   demo_verified |-> Recovered(db, demo),
   arrived |-> Recovered(db, driven) + Amount(db, organic),
   arrived_cases |-> Cardinality(driven) + Cardinality(organic),
   incremental |-> NetIncremental(report), cost |-> Cost(report)]

\* The headline tiles.
AtRisk(db) == {c \in DOMAIN db : db[c].status \notin TERMINAL_STATUSES}

Overview(db) ==
  [at_risk |-> Amount(db, AtRisk(db)), open_cases |-> Cardinality(AtRisk(db)),
   gross_recovered |-> Recovered(db, ProvenBy(db, RAZORPAY)),
   gross_simulated |-> Recovered(db, ProvenBy(db, {"SIMULATOR"})),
   net_incremental |-> NetIncremental(Attribution(db)),
   control_cases |-> Cardinality(HeldOut(db)),
   interceptions |-> Cardinality(Intercepted(db)),
   pending_approvals |-> Cardinality({c \in DOMAIN db : db[c].waiting})]

\* Every rule is listed, also one that never fired.
StoppingRuleCounts(db, rules) ==
  [r \in rules |-> Cardinality({c \in DOMAIN db : db[c].rule = r})]

\* What Razorpay proved is claimed by its proof, what arrived by itself is not
\* claimed by its status.
Claims(db) ==
  LET organic == WithStatus(db, {"RESOLVED_ORGANIC"}) IN
  [claimed |-> ProvenBy(db, RAZORPAY),
   claimed_total |-> Recovered(db, ProvenBy(db, RAZORPAY)),
   not_claimed |-> organic, not_claimed_total |-> Amount(db, organic)]

\* Which of the four levels is reached, given the z-test's verdict.
Proof(db, significant) ==
  LET verified == ProvenBy(db, RAZORPAY) # {} IN
  [VERIFIED |-> verified, ELIGIBLE |-> verified,
   INCREMENTAL |-> Attribution(db).control.cases > 0 /\ significant,
   CLAIMABLE |-> verified]

\* holdout_report, over the cases of the live experiment.
HoldoutReport(db) ==
  [arm \in {"TREATMENT", "CONTROL"} |->
     LET C        == {c \in DOMAIN db : db[c].arm = arm}
         verified == {c \in WithStatus(db, {"RECOVERED"}) \cap C : db[c].via # "NONE"} IN
     [cases |-> Cardinality(C), verified |-> Cardinality(verified),
      organic |-> Cardinality(WithStatus(db, {"RESOLVED_ORGANIC"}) \cap C),
      paise |-> Recovered(db, verified)]]

\* today: "I did not contact" is said of every case at which a rule fired.
Briefing(db) ==
  LET tiles == Overview(db) IN
  [at_risk |-> tiles.at_risk, open_cases |-> tiles.open_cases,
   gross_simulated |-> tiles.gross_simulated,
   recovered_cases |-> Cardinality(WithStatus(db, {"RECOVERED"})),
   net_incremental |-> NetIncremental(Attribution(db)),
   held |-> Cardinality(HeldOut(db)),
   not_contacted |-> Intercepted(db),
   waiting |-> tiles.pending_approvals]
=============================================================================
