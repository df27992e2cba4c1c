-------------------------- MODULE CaseGraphProofs --------------------------
(***************************************************************************)
(* Proofs about CaseGraph, for any batches, requests, corpus and answers   *)
(* of a model, any policy, and any bounds on the run of a case.  Only what *)
(* is said of the budgets is said of one batch at a time.                  *)
(***************************************************************************)
EXTENDS CaseGraph, RulesProofs, FiniteSetTheorems, WellFoundedInduction

Blocked(f) == f.error_source = "business"

DeadMandate(f) ==
  /\ ~Blocked(f) /\ f.playbook # "CHECKOUT_ABANDON"
  /\ MatchReason(f.error_reason) = "MANDATE_INVALID"

Kinds    == {"PAYMENT_FAILURE", "CHECKOUT_ABANDON", "SUBSCRIPTION", "RECEIVABLE"}
NoLever  == {"SUBSCRIPTION", "RECEIVABLE"}
Statuses == TERMINAL_STATUSES \cup {"MONITORING", "AWAITING_APPROVAL"}

\* What no model can change of a diagnosis.
DiagnosisKept(d, f) ==
  /\ Blocked(f) => ~d.requires_reauth /\ d.category = "RISK_BLOCKED"
  /\ DeadMandate(f) => d.requires_reauth /\ d.category # "RISK_BLOCKED"

\* What holds of a strategy whoever proposed it.
StrategyKept(strategy, f) ==
  /\ Blocked(f) => strategy = "NO_ACTION"
  /\ DeadMandate(f) => strategy \in {"MANDATE_REAUTH", "INVOICE_REMINDER"}
  /\ f.playbook \in NoLever => strategy \notin OneOffLinks

ProposalKept(p, f) ==
  p \in Proposal /\ StrategyKept(p.strategy, f) /\ (f.playbook \in NoLever => p.discount <= 0)

AppliedKept(a, f) ==
  /\ a.pct \in Int /\ a.discount \in Int
  /\ f.playbook \in NoLever => a.discount = 0

Fields ==
  {"case", "status", "switch", "actions_today", "exposure", "diagnosis", "proposal",
   "decision", "rule", "attempt_no", "discounts", "llm_calls", "visits"}

\* A case that has been through the graph.
Final(s, f) ==
  /\ s.status \in Statuses \ {"RECOVERED"}
  /\ s.status = "MONITORING" =>
       /\ f.arm = "TREATMENT" /\ s.attempt_no = 1
       /\ ProposalKept(s.proposal, f) /\ AppliedKept(s.decision.applied, f)
  /\ s.status # "MONITORING" => s.attempt_no = 0
  /\ s.status = "AWAITING_APPROVAL" => f.arm = "TREATMENT" /\ s.decision.applied # None
  /\ s.status = "OBSERVED_NO_ACTION" => f.arm = "CONTROL"
  /\ f.arm = "CONTROL" /\ s.diagnosis # None =>
       s.status \in {"OBSERVED_NO_ACTION", "FAILED_PERMANENT"}

\* What the nodes before it leave for a node.
Ready(node, s, f) ==
  /\ node \in {"ENRICH", "TRIAGE"} =>
       s.status = "DETECTED" /\ s.diagnosis = None /\ s.attempt_no = 0
  /\ node \in {"DIAGNOSE", "STRATEGISE", "POLICY", "EXECUTE", "ESCALATE"} => s.attempt_no = 0
  /\ node = "STRATEGISE" => DiagnosisKept(s.diagnosis, f)
  /\ node \in {"POLICY", "EXECUTE"} => ProposalKept(s.proposal, f)
  /\ node = "EXECUTE" => AppliedKept(s.decision.applied, f)
  /\ node \in {"EXECUTE", "ESCALATE"} => f.arm = "TREATMENT"
  /\ node = "ESCALATE" => s.decision.applied # None
  /\ node \in {"AUDIT", "ended"} => Final(s, f)

\* Whoever diagnosed a case named a category.
Categorised(s) == s.diagnosis # None => s.diagnosis.category \in Categories

\* A run of a case at a node, or at its end; a request runs its own.
InGraph(r, node, s) ==
  /\ DOMAIN s = Fields /\ s.case \in CaseIds
  /\ r \in Requests => s.case = r
  /\ r \in Batches => s.case \notin Requests
  /\ facts[s.case].playbook \in Kinds
  /\ Ready(node, s, facts[s.case]) /\ Categorised(s)

RowKept(row, f) ==
  /\ row.status \in Statuses
  /\ row.status = "RECOVERED" <=> row.paid /\ row.action # None
  /\ row.status = "RESOLVED_ORGANIC" <=> row.paid /\ row.action = None
  /\ row.action # None =>
       /\ row.attempt_no > 0 /\ StrategyKept(row.action.strategy, f)
       /\ f.playbook \in NoLever => row.action.discount = 0
  /\ f.arm = "CONTROL" =>
       /\ row.action = None /\ row.approval = None /\ row.attempt_no = 0
       /\ ~row.paid /\ row.category # None =>
            row.status \in {"OBSERVED_NO_ACTION", "FAILED_PERMANENT"}
  /\ row.status = "OBSERVED_NO_ACTION" => f.arm = "CONTROL"
  /\ row.status = "AWAITING_APPROVAL" => row.approval # None

Shapes ==
  /\ \A c \in CaseIds : facts[c] \in Corpus(c)
  /\ toggles \in 0 .. MaxToggles /\ launches \in 0 .. MaxLaunches /\ autopilot \in BOOLEAN
  /\ links \subseteq Requests
  /\ outbox \in [Requests -> {None, "SENDING", "PENDING", "SENT", "DELETED"}]
  /\ DOMAIN cases = CaseIds /\ DOMAIN at = Runners /\ DOMAIN run = Runners
  /\ DOMAIN batch = Batches
  /\ \A b \in Batches :
       /\ DOMAIN batch[b] = {"created", "next", "switch", "acts", "given"}
       /\ batch[b].next \in Nat \ {0}

RunsKept == \A r \in Runners : at[r] \in Nodes \cup {"ended"} => InGraph(r, at[r], run[r])

RowsKept ==
  \A c \in CaseIds : cases[c] # None =>
    /\ RowKept(cases[c], facts[c])
    /\ cases[c].status = "MONITORING" => cases[c].action # None \/ c \in Requests

\* A request calls Razorpay only once its case and its intent are committed, and the
\* two stand or are deleted together.
Calling == {"call", "record", "fail"}

IntentKept(q) ==
  /\ q \in links \/ at[q] \in Calling => outbox[q] # None
  /\ at[q] = "record" \/ outbox[q] = "SENT" => q \in links
  /\ Intended(q) => cases[q] # None /\ cases[q].status = "MONITORING"
  /\ ~Intended(q) => cases[q] = None

IntentsKept == \A q \in Requests : IntentKept(q)

GInv == Shapes /\ RunsKept /\ RowsKept /\ IntentsKept

-----------------------------------------------------------------------------
(* Diagnosis and proposal.                                                 *)

\* The two answers of the rule table that no model is asked about.
LEMMA CertainDiagnoses ==
  ASSUME NEW f, f.playbook = "CHECKOUT_ABANDON" => ~Blocked(f)
  PROVE  Blocked(f) \/ DeadMandate(f) =>
           ~NeedsReview(RuleTable(f)) /\ DiagnosisKept(RuleTable(f), f)
<1>1. CASE Blocked(f)
  <2>1. RuleTable(f) \in {Build("RISK_BLOCKED", 65, FALSE), Build("RISK_BLOCKED", 95, FALSE)}
    BY <1>1 DEF Blocked, RuleTable, Classify, ErrorSources
  <2>2. PICK k \in {65, 95} : RuleTable(f) = Build("RISK_BLOCKED", k, FALSE)
    BY <2>1
  <2>3. ~NeedsReview(RuleTable(f))
    BY <2>2 DEF NeedsReview, Build
  <2>4. ~RuleTable(f).requires_reauth /\ RuleTable(f).category = "RISK_BLOCKED"
    <3>1. RuleTable(f).requires_reauth = RequiresReauth("RISK_BLOCKED")
      BY <2>2 DEF Build
    <3>2. RequiresReauth("RISK_BLOCKED") = FALSE
      BY DEF RequiresReauth
    <3> QED BY <2>2, <3>1, <3>2 DEF Build
  <2> QED BY <1>1, <2>3, <2>4 DEF DiagnosisKept, DeadMandate
<1>2. CASE DeadMandate(f)
  <2>1. "MANDATE_INVALID" # None
    BY GraphLimitsOK DEF GraphLimitsOK
  <2>2. RuleTable(f) \in {Build("MANDATE_INVALID", 60, FALSE),
                          Build("MANDATE_INVALID", 95, FALSE)}
    BY <1>2, <2>1 DEF DeadMandate, Blocked, RuleTable, Classify
  <2>3. PICK k \in {60, 95} : RuleTable(f) = Build("MANDATE_INVALID", k, FALSE)
    BY <2>2
  <2>4. ~NeedsReview(RuleTable(f))
    BY <2>3 DEF NeedsReview, Build
  <2>5. RuleTable(f).requires_reauth /\ RuleTable(f).category = "MANDATE_INVALID"
    <3>1. RuleTable(f).requires_reauth = RequiresReauth("MANDATE_INVALID")
      BY <2>3 DEF Build
    <3>2. RequiresReauth("MANDATE_INVALID") = TRUE
      BY DEF RequiresReauth
    <3> QED BY <2>3, <3>1, <3>2 DEF Build
  <2> QED BY <1>2, <2>4, <2>5 DEF DiagnosisKept, DeadMandate
<1> QED BY <1>1, <1>2

\* A proposal made without a model.
LEMMA ProposeIsKept ==
  ASSUME NEW strategy \in RecoveryStrategy, NEW f, StrategyKept(strategy, f)
  PROVE  ProposalKept(Propose(strategy), f)
<1>1. Propose(strategy) \in Proposal /\ Propose(strategy).strategy = strategy
      /\ Propose(strategy).discount = 0
  BY MoneyLimitsOK DEF Propose, Proposal, MessageClass
<1> QED BY <1>1 DEF ProposalKept

\* The playbook's own strategy is one it permits.
LEMMA SelectStrategyIsKept ==
  ASSUME NEW f, NEW d, f.playbook \in Kinds, DiagnosisKept(d, f)
  PROVE  /\ SelectStrategy(f.playbook, d, None) \in RecoveryStrategy
         /\ StrategyKept(SelectStrategy(f.playbook, d, None), f)
<1>1. CASE d.category = "RISK_BLOCKED"
  <2>1. SelectStrategy(f.playbook, d, None) = "NO_ACTION"
    BY <1>1 DEF SelectStrategy
  <2> QED BY <1>1, <2>1 DEF StrategyKept, DiagnosisKept, OneOffLinks, RecoveryStrategy
<1>2. CASE d.category # "RISK_BLOCKED" /\ f.playbook = "SUBSCRIPTION"
  <2>1. SelectStrategy(f.playbook, d, None) =
          IF d.requires_reauth \/ d.category = "MANDATE_INVALID"
          THEN "MANDATE_REAUTH" ELSE "MANDATE_RETRY"
    BY <1>2 DEF SelectStrategy, DiscountPermitted
  <2> QED BY <1>2, <2>1 DEF StrategyKept, DiagnosisKept, OneOffLinks, RecoveryStrategy
<1>3. CASE d.category # "RISK_BLOCKED" /\ f.playbook = "RECEIVABLE"
  <2>1. SelectStrategy(f.playbook, d, None) = "INVOICE_REMINDER"
    BY <1>3 DEF SelectStrategy, DiscountPermitted
  <2> QED BY <1>3, <2>1 DEF StrategyKept, DiagnosisKept, OneOffLinks, RecoveryStrategy
<1>4. CASE d.category # "RISK_BLOCKED" /\ f.playbook \in DiscountPermitted
  <2>1. f.playbook \notin NoLever /\ f.playbook \notin {"SUBSCRIPTION", "RECEIVABLE"}
    BY <1>4 DEF DiscountPermitted, NoLever
  <2>2. d.requires_reauth => SelectStrategy(f.playbook, d, None) = "MANDATE_REAUTH"
    BY <1>4, <2>1 DEF SelectStrategy
  <2>3. SelectStrategy(f.playbook, d, None) \in
          {"MANDATE_REAUTH", "FRESH_LINK_SAME_RAIL", "FRESH_LINK_ALT_RAIL"}
    BY <1>4, <2>1 DEF SelectStrategy
  <2>4. ~Blocked(f)
    BY <1>4 DEF DiagnosisKept
  <2>5. DeadMandate(f) => SelectStrategy(f.playbook, d, None) = "MANDATE_REAUTH"
    BY <2>2 DEF DiagnosisKept
  <2> HIDE DEF SelectStrategy
  <2> QED BY <2>1, <2>3, <2>4, <2>5 DEF StrategyKept, RecoveryStrategy
<1> QED BY <1>1, <1>2, <1>3, <1>4 DEF Kinds, DiscountPermitted

\* Nothing a model says gets past the playbook.
LEMMA UnforbiddenIsKept ==
  ASSUME NEW f, NEW p \in Proposal, NEW reauth, ~Blocked(f), ~DeadMandate(f),
         ~Violates(f.playbook, p.strategy, p.discount, reauth)
  PROVE  ProposalKept(p, f)
<1>1. p.discount \in Int
  BY DEF Proposal
<1>2. f.playbook \in NoLever => p.strategy \notin OneOffLinks /\ p.discount <= 0
  BY <1>1 DEF Violates, Forbidden, NoLever, DiscountPermitted
<1> QED BY <1>2 DEF ProposalKept, StrategyKept

-----------------------------------------------------------------------------
(* The firewall.                                                           *)

LEMMA AbsoluteCapIsInt ==
  ASSUME NEW pct \in Int, NEW amount \in Int
  PROVE  /\ AbsoluteCap(pct, amount).pct \in Int /\ AbsoluteCap(pct, amount).paise \in Int
         /\ pct <= 0 => AbsoluteCap(pct, amount).paise = 0
<1>1. CASE pct <= 0 \/ amount <= 0
  BY <1>1 DEF AbsoluteCap
<1>2. CASE pct > 0 /\ amount > 0
  <2>1. Paise(pct, amount) \in Int
    <3>1. amount * pct \in Int /\ Whole \in Nat \ {0}
      BY MoneyLimitsOK
    <3> QED BY <3>1 DEF Paise
  <2>2. Nearest(max_discount_absolute, amount) \in Int
    <3>1. 2 * max_discount_absolute * Whole + amount \in Int /\ 2 * amount \in Nat \ {0}
      <4>1. max_discount_absolute \in Int /\ Whole \in Int
        BY MoneyLimitsOK
      <4>2. 2 * max_discount_absolute * Whole \in Int
        BY <4>1
      <4> QED BY <1>2, <4>2
    <3> QED BY <3>1 DEF Nearest
  <2> QED BY <1>2, <2>1, <2>2, MoneyLimitsOK DEF AbsoluteCap
<1> QED BY <1>1, <1>2

\* What is applied is a number, and no discount where it is no lever.
LEMMA AppliedIsKept ==
  ASSUME NEW p, NEW c, NEW verdict, NEW f, ProposalKept(p, f), c.amount \in Int
  PROVE  AppliedKept(Applied(p, c, verdict), f)
<1>1. p.discount \in Int /\ NaN \notin Int
  BY MoneyLimitsOK DEF ProposalKept, Proposal
<1>2. SanePct(p.discount) \in Int /\ (p.discount <= 0 => SanePct(p.discount) = 0)
  BY <1>1, MoneyLimitsOK DEF SanePct, SafeDefault
<1> DEFINE carried == IF EffectiveClass(p, verdict) = "TRANSACTIONAL" THEN 0
                      ELSE SanePct(p.discount)
           capped == AbsoluteCap(carried, c.amount)
<1>3. carried \in Int /\ (p.discount <= 0 => carried = 0)
  BY <1>2
<1>4. /\ capped.pct \in Int /\ capped.paise \in Int /\ (p.discount <= 0 => capped.paise = 0)
  <2> HIDE DEF carried
  <2> QED BY <1>3, AbsoluteCapIsInt
<1>5. /\ Discount(p, c, verdict).pct \in {0, capped.pct}
      /\ Discount(p, c, verdict).paise \in {0, capped.paise}
  BY DEF Discount
<1>6. /\ Applied(p, c, verdict).pct = Discount(p, c, verdict).pct
      /\ Applied(p, c, verdict).discount = Discount(p, c, verdict).paise
  BY DEF Applied
<1> HIDE DEF capped
<1> QED BY <1>4, <1>5, <1>6 DEF AppliedKept, ProposalKept

\* What is applied is an action a reviewer can read.
LEMMA AppliedIsAction ==
  ASSUME NEW p \in Proposal, NEW c, c.amount \in Int, c.attempt_no \in Int, NEW verdict,
         verdict.decision = "DEFER" => verdict.until \in Int
  PROVE  Applied(p, c, verdict) \in AppliedAction
<1> DEFINE a == Applied(p, c, verdict)
<1>1. /\ p.discount \in Int /\ p.expiry \in Int /\ p.strategy \in RecoveryStrategy
      /\ p.class \in MessageClass
  BY DEF Proposal
<1>2. EffectiveClass(p, verdict) \in MessageClass
  BY <1>1 DEF EffectiveClass, MessageClass
<1>3. SaneExpiry(p.expiry) \in Int
  BY <1>1, MoneyLimitsOK DEF SaneExpiry
<1>4. Discount(p, c, verdict).pct \in Int /\ Discount(p, c, verdict).paise \in Int
  <2>1. SanePct(p.discount) \in Int
    BY <1>1, MoneyLimitsOK DEF SanePct, SafeDefault
  <2> DEFINE carried == IF EffectiveClass(p, verdict) = "TRANSACTIONAL" THEN 0
                        ELSE SanePct(p.discount)
             capped == AbsoluteCap(carried, c.amount)
  <2>2. carried \in Int
    BY <2>1
  <2>3. capped.pct \in Int /\ capped.paise \in Int
    <3> HIDE DEF carried
    <3> QED BY <2>2, AbsoluteCapIsInt
  <2>4. /\ Discount(p, c, verdict).pct \in {0, capped.pct}
        /\ Discount(p, c, verdict).paise \in {0, capped.paise}
    BY DEF Discount
  <2> HIDE DEF capped
  <2> QED BY <2>3, <2>4
<1>5. \A amount, pct, clamps :
        Rung(p.strategy, amount, pct, clamps) \in {"A0", "A1", "A2", "A3"}
  BY DEF Rung
<1> QED BY <1>1, <1>2, <1>3, <1>4, <1>5 DEF Applied, AppliedAction

\* The firewall's verdict: whoever is held out is blocked, and only then for it.
LEMMA FirewallVerdict ==
  ASSUME NEW p, NEW c
  PROVE  LET d == EvaluatePolicy(p, c) IN
         /\ d.verdict \in {"BLOCKED", "PASSED", "ESCALATE_HITL"}
         /\ d.verdict # "BLOCKED" =>
              /\ c.arm # "CONTROL"
              /\ d.applied = Applied(p, c, Evaluate(StoppingContext(p, c)))
         /\ "control" \in d.blocks <=> c.arm = "CONTROL"
<1> DEFINE verdict == Evaluate(StoppingContext(p, c))
           d == EvaluatePolicy(p, c)
<1>1. "control" \in Blocks(p, c, verdict) <=> c.arm = "CONTROL"
  BY DEF Blocks
<1>2. d.blocks = Blocks(p, c, verdict)
  BY DEF EvaluatePolicy
<1>3. d.verdict \in {"BLOCKED", "PASSED", "ESCALATE_HITL"}
  BY DEF EvaluatePolicy
<1>4. d.verdict # "BLOCKED" => Blocks(p, c, verdict) = {} /\ d.applied = Applied(p, c, verdict)
  BY DEF EvaluatePolicy
<1> QED BY <1>1, <1>2, <1>3, <1>4

-----------------------------------------------------------------------------
(* The graph.                                                              *)

\* What a customer, a corpus and a proposal may be.
LEMMA FactsAreKept ==
  ASSUME GInv, NEW c \in CaseIds, facts[c].playbook # None
  PROVE  /\ facts[c].playbook \in Kinds /\ facts[c].arm \in {"TREATMENT", "CONTROL"}
         /\ facts[c].amount \in Int
         /\ facts[c].playbook = "CHECKOUT_ABANDON" => ~Blocked(facts[c])
  BY InputsOK DEF InputsOK, GInv, Shapes, Kinds, Blocked

\* Where a run of a case stands.
LEMMA AtNode ==
  ASSUME GInv, NEW r \in Runners, at[r] \in Nodes \cup {"ended"}
  PROVE  /\ DOMAIN run[r] = Fields /\ run[r].case \in CaseIds
         /\ r \in Requests => run[r].case = r
         /\ r \in Batches => run[r].case \notin Requests
         /\ Ready(at[r], run[r], facts[run[r].case]) /\ Categorised(run[r])
         /\ facts[run[r].case].playbook \in Kinds
         /\ facts[run[r].case].arm \in {"TREATMENT", "CONTROL"}
         /\ facts[run[r].case].amount \in Int /\ facts[run[r].case].now \in Int
         /\ facts[run[r].case].playbook = "CHECKOUT_ABANDON" => ~Blocked(facts[run[r].case])
<1>1. InGraph(r, at[r], run[r])
  BY DEF GInv, RunsKept
<1> QED BY <1>1, InputsOK DEF InGraph, InputsOK, GInv, Shapes, Kinds, Blocked

\* Visits decide nothing of what a node needs.
LEMMA VisitsAside ==
  ASSUME NEW s, NEW t, NEW f, NEW node \in Nodes \cup {"ended"},
         t.status = s.status, t.attempt_no = s.attempt_no, t.diagnosis = s.diagnosis,
         t.proposal = s.proposal, t.decision = s.decision
  PROVE  /\ Ready(node, s, f) => Ready(node, t, f)
         /\ NextNode(node, t) = NextNode(node, s)
<1>1. Final(s, f) => Final(t, f)
  BY DEF Final
<1>2. Ready(node, s, f) => Ready(node, t, f)
  BY <1>1 DEF Ready
<1>3. NextNode(node, t) = NextNode(node, s)
  BY DEF NextNode
<1> QED BY <1>2, <1>3

\* One runner moves, and nothing else of the invariant is touched.
LEMMA RunnerKeeps ==
  ASSUME GInv, NEW r \in Runners, NEW a, NEW s,
         at' = [at EXCEPT ![r] = a], run' = [run EXCEPT ![r] = s] \/ run' = run,
         run' = run => s = run[r],
         UNCHANGED facts, a \in Nodes \cup {"ended"} => InGraph(r, a, s)
  PROVE  RunsKept' /\ DOMAIN at' = Runners /\ DOMAIN run' = Runners
<1>1. DOMAIN at' = Runners /\ DOMAIN run' = Runners
  BY DEF GInv, Shapes
<1>2. at'[r] = a /\ run'[r] = s
  BY DEF GInv, Shapes
<1>3. ASSUME NEW q \in Runners, at'[q] \in Nodes \cup {"ended"}
      PROVE  InGraph(q, at[q], run[q])'
  <2>1. InGraph(q, at'[q], run'[q])
    <3>1. CASE q = r
      BY <1>2, <1>3, <3>1
    <3>2. CASE q # r
      <4>1. at'[q] = at[q] /\ run'[q] = run[q]
        BY <3>2 DEF GInv, Shapes
      <4> QED BY <1>3, <4>1 DEF GInv, RunsKept
    <3> QED BY <3>1, <3>2
  <2> QED BY <2>1 DEF InGraph
<1> QED BY <1>1, <1>3 DEF RunsKept

\* And none calls Razorpay without an intent.
LEMMA IntentsKeep ==
  ASSUME GInv, NEW r \in Runners, NEW a, at' = [at EXCEPT ![r] = a], a \notin Calling,
         UNCHANGED <<links, outbox>>, \A q \in Requests : cases'[q] = cases[q]
  PROVE  IntentsKept'
<1>1. ASSUME NEW q \in Requests
      PROVE  IntentKept(q)'
  <2>1. at'[q] \in Calling => at'[q] = at[q]
    BY DEF GInv, Shapes, Runners
  <2>2. IntentKept(q)
    BY DEF GInv, IntentsKept
  <2> QED BY <2>1, <2>2 DEF IntentKept, Intended, Calling
<1> QED BY <1>1 DEF IntentsKept

\* What is left to show of a node: that the next one finds what it needs.
LEMMA AdvanceKeeps ==
  ASSUME GInv, NEW r \in Runners, at[r] \in Nodes, NEW left, Advance(r, left),
         DOMAIN left = Fields, left.case = run[r].case, Categorised(left),
         NEW node \in Nodes \cup {"ended"},
         NextNode(at[r], left) = (IF node = "ended" THEN None ELSE node),
         Ready(node, left, facts[run[r].case])
  PROVE  GInv'
<1> DEFINE s == [left EXCEPT !.visits = @ + 1]
<1>1. PICK n \in {NextNode(at[r], s)} :
        /\ run' = [run EXCEPT ![r] = s]
        /\ at' = [at EXCEPT ![r] =
             IF \/ s.llm_calls > max_llm_calls
                \/ n # None /\ s.visits >= MAX_NODE_VISITS THEN "raised"
             ELSE IF n = None THEN "ended" ELSE n]
  BY DEF Advance
<1>2. /\ DOMAIN s = Fields /\ s.case = left.case /\ s.status = left.status
      /\ s.attempt_no = left.attempt_no /\ s.diagnosis = left.diagnosis
      /\ s.proposal = left.proposal /\ s.decision = left.decision
  BY DEF Fields
<1> HIDE DEF s
<1>3. Ready(node, s, facts[run[r].case])
  BY <1>2, VisitsAside
<1>4. NextNode(at[r], s) = NextNode(at[r], left)
  BY <1>2, VisitsAside
<1>5. InGraph(r, node, s)
  BY <1>2, <1>3, AtNode DEF InGraph, Categorised
<1>6. None \notin Nodes
  BY GraphLimitsOK DEF GraphLimitsOK
<1>7. (IF n = None THEN "ended" ELSE n) = node
  BY <1>1, <1>4, <1>6
<1>8. PICK a : a \in {"raised", node} /\ at' = [at EXCEPT ![r] = a]
  BY <1>1, <1>7
<1>9. "raised" \notin Nodes \cup {"ended"}
  BY DEF Nodes
<1>10. UNCHANGED <<facts, autopilot, toggles, launches, cases, outbox, links, batch>>
  BY DEF Advance
<1>11. a \in Nodes \cup {"ended"} => InGraph(r, a, s)
  BY <1>5, <1>8, <1>9
<1>12. RunsKept' /\ DOMAIN at' = Runners /\ DOMAIN run' = Runners
  <2>1. run' = run => s = run[r]
    BY <1>1 DEF GInv, Shapes
  <2> QED BY <1>1, <1>8, <1>10, <1>11, <2>1, RunnerKeeps
<1>13. IntentsKept'
  <2>1. a \notin Calling
    BY <1>8 DEF Calling, Nodes
  <2> QED BY <1>8, <1>10, <2>1, IntentsKeep
<1> QED BY <1>10, <1>12, <1>13 DEF GInv, Shapes, RowsKept

LEMMA EnrichKeeps == ASSUME GInv, NEW r \in Runners, Enrich(r) PROVE GInv'
<1>1. at[r] = "ENRICH" /\ Advance(r, run[r]) /\ "ENRICH" \in Nodes /\ "TRIAGE" \in Nodes
  BY DEF Enrich, Nodes
<1>2. NextNode("ENRICH", run[r]) = "TRIAGE"
  BY DEF NextNode
<1>3. Ready("TRIAGE", run[r], facts[run[r].case])
  BY <1>1, AtNode DEF Ready
<1> QED BY <1>1, <1>2, <1>3, AtNode, AdvanceKeeps

\* The rules may stop a case as over, but never as one that was paid.
LEMMA TriageKeeps == ASSUME GInv, NEW r \in Runners, Triage(r) PROVE GInv'
<1> DEFINE s == run[r]
           f == facts[s.case]
<1>1. at[r] = "TRIAGE" /\ "TRIAGE" \in Nodes
  BY DEF Triage, Nodes
<1>2. /\ s.status = "DETECTED" /\ s.diagnosis = None /\ s.attempt_no = 0
      /\ DOMAIN s = Fields
  BY <1>1, AtNode DEF Ready
<1>3. PICK verdict \in {Evaluate(Context(s))} :
        Advance(r, IF verdict.decision # "STOP" THEN [s EXCEPT !.status = "TRIAGED"]
                   ELSE [s EXCEPT !.rule = verdict.rule, !.status =
                     IF verdict.status = None THEN "SUPPRESSED" ELSE verdict.status])
  BY DEF Triage
<1> HIDE DEF s
<1>4. CASE verdict.decision # "STOP"
  <2> DEFINE left == [s EXCEPT !.status = "TRIAGED"]
  <2>1. /\ DOMAIN left = Fields /\ left.case = s.case /\ left.status = "TRIAGED"
        /\ left.attempt_no = 0 /\ Categorised(left)
    BY <1>2 DEF Fields, Categorised
  <2>2. Advance(r, left)
    BY <1>3, <1>4
  <2> HIDE DEF left
  <2>3. NextNode("TRIAGE", left) = "DIAGNOSE" /\ "DIAGNOSE" \in Nodes
    BY <2>1 DEF NextNode, TERMINAL_STATUSES, Nodes
  <2>4. Ready("DIAGNOSE", left, f)
    BY <2>1 DEF Ready
  <2> QED BY <1>1, <2>1, <2>2, <2>3, <2>4, AdvanceKeeps DEF s
<1>5. CASE verdict.decision = "STOP"
  <2> DEFINE left == [s EXCEPT !.rule = verdict.rule, !.status =
                        IF verdict.status = None THEN "SUPPRESSED" ELSE verdict.status]
  <2>1. Context(s).order_status # "paid"
        /\ Context(s).case_status \notin {"RECOVERED", "RESOLVED_ORGANIC"}
    BY <1>2 DEF Context
  <2>2. verdict.status \in {None, "EXPIRED", "SUPPRESSED"}
    BY <1>3, <1>5, <2>1, StopsWithStatus
  <2>3. /\ DOMAIN left = Fields /\ left.case = s.case /\ left.attempt_no = 0
        /\ left.diagnosis = None /\ left.status \in {"EXPIRED", "SUPPRESSED"}
        /\ Categorised(left)
    BY <1>2, <2>2 DEF Fields, Categorised
  <2>4. Advance(r, left)
    BY <1>3, <1>5
  <2> HIDE DEF left
  <2>5. NextNode("TRIAGE", left) = "AUDIT" /\ "AUDIT" \in Nodes
    BY <2>3 DEF NextNode, TERMINAL_STATUSES, Nodes
  <2>6. Ready("AUDIT", left, f)
    BY <2>3 DEF Ready, Final, Statuses, TERMINAL_STATUSES
  <2> QED BY <1>1, <2>3, <2>4, <2>5, <2>6, AdvanceKeeps DEF s
<1> QED BY <1>4, <1>5

\* What the table names.
LEMMA ReasonIsNamed ==
  ASSUME NEW reason, reason \subseteq {Specificity[i] : i \in 1 .. 5},
         MatchReason(reason) # None
  PROVE  MatchReason(reason) \in Categories
<1> DEFINE Leads(i) == /\ i \in DOMAIN Specificity /\ Specificity[i] \in reason
                       /\ \A j \in 1 .. i - 1 : Specificity[j] \notin reason
<1>1. DOMAIN Specificity = 1 .. 5
  BY DEF Specificity
<1>2. \E i \in 1 .. 5 : Specificity[i] \in reason
  BY DEF MatchReason
<1>3. \E i \in 1 .. 5 : Leads(i)
  <2>1. CASE Specificity[1] \in reason
    BY <1>1, <2>1
  <2>2. CASE Specificity[1] \notin reason /\ Specificity[2] \in reason
    BY <1>1, <2>2
  <2>3. CASE (\A j \in 1 .. 2 : Specificity[j] \notin reason) /\ Specificity[3] \in reason
    BY <1>1, <2>3
  <2>4. CASE (\A j \in 1 .. 3 : Specificity[j] \notin reason) /\ Specificity[4] \in reason
    BY <1>1, <2>4
  <2>5. CASE (\A j \in 1 .. 4 : Specificity[j] \notin reason) /\ Specificity[5] \in reason
    BY <1>1, <2>5
  <2> HIDE DEF Leads
  <2> QED BY <1>2, <2>1, <2>2, <2>3, <2>4, <2>5
<1>4. PICK i \in 1 .. 5 : MatchReason(reason) = Specificity[i]
  BY <1>1, <1>3 DEF MatchReason
<1> QED BY <1>4 DEF Specificity, Categories

LEMMA RuleTableNames ==
  ASSUME NEW f, f.error_reason = None \/ f.error_reason \subseteq {Specificity[i] : i \in 1 .. 5}
  PROVE  \E category \in Categories : \E confidence, conflict :
           RuleTable(f) = Build(category, confidence, conflict)
<1> DEFINE named == MatchReason(f.error_reason)
<1>1. named = None \/ named \in Categories
  BY ReasonIsNamed DEF MatchReason
<1> HIDE DEF named
<1>2. {"UNKNOWN", "RISK_BLOCKED", "MANDATE_INVALID", "INTENT_DECAY", "PRICE_RESISTANCE"}
        \subseteq Categories
  BY DEF Categories
<1>3. \A source, step : SourceStep(source, step) \in Categories
                        /\ SourceOnly(source) \in Categories
  BY DEF SourceStep, SourceOnly, Categories
<1>4. CASE f.playbook = "CHECKOUT_ABANDON"
  BY <1>2, <1>4 DEF RuleTable, ClassifyAbandoned
<1>5. CASE f.playbook # "CHECKOUT_ABANDON"
  BY <1>1, <1>2, <1>3, <1>5 DEF RuleTable, Classify, named
<1> QED BY <1>4, <1>5

\* Where a model may be asked, the table was not certain.
LEMMA DiagnoseKeeps == ASSUME GInv, NEW r \in Runners, Diagnose(r) PROVE GInv'
<1> DEFINE s == run[r]
           f == facts[s.case]
<1>1. at[r] = "DIAGNOSE" /\ "DIAGNOSE" \in Nodes
  BY DEF Diagnose, Nodes
<1>2. s.attempt_no = 0 /\ DOMAIN s = Fields /\ (f.playbook = "CHECKOUT_ABANDON" => ~Blocked(f))
  BY <1>1, AtNode DEF Ready
<1>3. PICK routed :
        /\ \/ routed.diagnosis = RuleTable(f)
           \/ /\ ~Unreviewed(RuleTable(f), MayAsk(s))
              /\ \E answer \in DiagnosisAnswers(r) \cup {FloorDiagnosis(RuleTable(f))} :
                   routed = Routed(RuleTable(f), answer)
        /\ Advance(r, [s EXCEPT !.status = "DIAGNOSING", !.diagnosis = routed.diagnosis,
                                !.llm_calls = @ + IF routed.consulted THEN 1 ELSE 0])
  BY DEF Diagnose
<1> DEFINE left == [s EXCEPT !.status = "DIAGNOSING", !.diagnosis = routed.diagnosis,
                             !.llm_calls = @ + IF routed.consulted THEN 1 ELSE 0]
<1>4. DiagnosisKept(routed.diagnosis, f)
  <2>1. CASE Blocked(f) \/ DeadMandate(f)
    <3>1. ~NeedsReview(RuleTable(f)) /\ DiagnosisKept(RuleTable(f), f)
      BY <1>2, <2>1, CertainDiagnoses
    <3> QED BY <1>3, <3>1 DEF Unreviewed
  <2>2. CASE ~Blocked(f) /\ ~DeadMandate(f)
    BY <2>2 DEF DiagnosisKept
  <2> QED BY <2>1, <2>2
<1>5. Advance(r, left)
  BY <1>3
<1>6. /\ DOMAIN left = Fields /\ left.case = s.case /\ left.attempt_no = 0
      /\ left.diagnosis = routed.diagnosis
  BY <1>2 DEF Fields
<1>9. Categorised(left)
  <2>1. /\ RuleTable(f).category \in Categories
        /\ \A output : Merge(RuleTable(f), output).category = output.category
    <3>1. f.error_reason = None \/ f.error_reason \subseteq {Specificity[i] : i \in 1 .. 5}
      BY <1>1, AtNode, InputsOK DEF InputsOK, GInv, Shapes
    <3>2. PICK category \in Categories : \E confidence, conflict :
            RuleTable(f) = Build(category, confidence, conflict)
      BY <3>1, RuleTableNames
    <3> QED BY <3>2 DEF Build, Merge
  <2>2. CASE routed.diagnosis = RuleTable(f)
    BY <1>6, <2>1, <2>2 DEF Categorised
  <2>3. ASSUME NEW answer \in DiagnosisAnswers(r) \cup {FloorDiagnosis(RuleTable(f))},
               routed = Routed(RuleTable(f), answer)
        PROVE  Categorised(left)
    <3>1. answer.output = None \/ answer.output.category \in Categories
      BY <2>1, InputsOK DEF InputsOK, FloorDiagnosis
    <3>2. routed.diagnosis = RuleTable(f) \/ routed.diagnosis = Merge(RuleTable(f), answer.output)
      BY <2>3 DEF Routed
    <3> QED BY <1>6, <2>1, <2>3, <3>1, <3>2 DEF Categorised, Routed
  <2> QED BY <1>3, <2>2, <2>3
<1> HIDE DEF left
<1>7. NextNode("DIAGNOSE", left) = "STRATEGISE" /\ "STRATEGISE" \in Nodes
  BY DEF NextNode, Nodes
<1>8. Ready("STRATEGISE", left, f)
  BY <1>4, <1>6 DEF Ready
<1> QED BY <1>1, <1>5, <1>6, <1>7, <1>8, <1>9, AdvanceKeeps

\* Whoever forms the strategy, it is one the playbook permits.
LEMMA StrategiseKeeps == ASSUME GInv, NEW r \in Runners, Strategise(r) PROVE GInv'
<1> DEFINE s == run[r]
           f == facts[s.case]
<1>1. at[r] = "STRATEGISE" /\ "STRATEGISE" \in Nodes
  BY DEF Strategise, Nodes
<1>2. /\ s.attempt_no = 0 /\ DOMAIN s = Fields /\ f.playbook \in Kinds
      /\ DiagnosisKept(s.diagnosis, f)
  BY <1>1, AtNode DEF Ready
<1>3. ProposalKept(Fallback(s), f)
  BY <1>2, SelectStrategyIsKept, ProposeIsKept DEF Fallback
<1>4. PICK p, calls :
        /\ ProposalKept(p, f)
        /\ Advance(r, [s EXCEPT !.status = "STRATEGY_FORMED",
                                !.proposal = p, !.llm_calls = @ + calls])
  <2> DEFINE Form(p, calls) == Advance(r, [s EXCEPT !.status = "STRATEGY_FORMED",
                                                    !.proposal = p, !.llm_calls = @ + calls])
  <2>1. CASE Form(Fallback(s), 0)
    BY <1>3, <2>1
  <2>2. CASE /\ ~s.diagnosis.requires_reauth /\ s.diagnosis.category = "RISK_BLOCKED"
             /\ Form(Propose("NO_ACTION"), 0)
    <3>1. StrategyKept("NO_ACTION", f)
      BY <1>2, <2>2 DEF DiagnosisKept, StrategyKept, OneOffLinks
    <3>2. ProposalKept(Propose("NO_ACTION"), f)
      BY <3>1, ProposeIsKept DEF RecoveryStrategy
    <3> QED BY <2>2, <3>2
  <2>3. CASE /\ ~s.diagnosis.requires_reauth /\ s.diagnosis.category # "RISK_BLOCKED"
             /\ \E answer \in ProposalAnswers(r) \cup {FloorProposal(s)} :
                  LET p     == answer.output
                      calls == IF OfModel(answer) THEN 1 ELSE 0 IN
                  IF p = None \/ Violates(f.playbook, p.strategy, p.discount,
                                          s.diagnosis.requires_reauth)
                  THEN Form(Fallback(s), calls) ELSE Form(p, calls)
    <3> DEFINE Bad(p) == p = None \/ Violates(f.playbook, p.strategy, p.discount,
                                              s.diagnosis.requires_reauth)
    <3>1. PICK answer \in ProposalAnswers(r) \cup {FloorProposal(s)}, calls \in {0, 1} :
            IF Bad(answer.output) THEN Form(Fallback(s), calls) ELSE Form(answer.output, calls)
      <4> HIDE DEF Form
      <4> QED BY <2>3
    <3>2. CASE Bad(answer.output)
      <4> HIDE DEF Bad
      <4> QED BY <1>3, <3>1, <3>2
    <3>3. CASE ~Bad(answer.output)
      <4>1. FloorProposal(s).output \in Proposal
        BY MoneyLimitsOK DEF FloorProposal, FloorStrategy, Propose, Proposal,
                             RecoveryStrategy, MessageClass
      <4>2. answer.output \in Proposal
        BY <3>3, <4>1, InputsOK DEF InputsOK
      <4>3. ~Blocked(f) /\ ~DeadMandate(f)
        BY <1>2, <2>3 DEF DiagnosisKept
      <4>4. ProposalKept(answer.output, f)
        BY <3>3, <4>2, <4>3, UnforbiddenIsKept
      <4> HIDE DEF Bad
      <4> QED BY <3>1, <3>3, <4>4
    <3> QED BY <3>2, <3>3
  <2>4. \/ Form(Fallback(s), 0)
        \/ /\ ~s.diagnosis.requires_reauth /\ s.diagnosis.category = "RISK_BLOCKED"
           /\ Form(Propose("NO_ACTION"), 0)
        \/ /\ ~s.diagnosis.requires_reauth /\ s.diagnosis.category # "RISK_BLOCKED"
           /\ \E answer \in ProposalAnswers(r) \cup {FloorProposal(s)} :
                LET p     == answer.output
                    calls == IF OfModel(answer) THEN 1 ELSE 0 IN
                IF p = None \/ Violates(f.playbook, p.strategy, p.discount,
                                        s.diagnosis.requires_reauth)
                THEN Form(Fallback(s), calls) ELSE Form(p, calls)
    BY DEF Strategise
  <2> QED BY <2>1, <2>2, <2>3, <2>4
<1> DEFINE left == [s EXCEPT !.status = "STRATEGY_FORMED",
                             !.proposal = p, !.llm_calls = @ + calls]
<1>5. Advance(r, left)
  BY <1>4
<1>6. /\ DOMAIN left = Fields /\ left.case = s.case /\ left.attempt_no = 0
      /\ left.proposal = p /\ left.diagnosis = s.diagnosis
  BY <1>2 DEF Fields
<1> HIDE DEF left
<1>9. Categorised(left)
  BY <1>1, <1>6, AtNode DEF Categorised
<1>7. NextNode("STRATEGISE", left) = "POLICY" /\ "POLICY" \in Nodes
  BY DEF NextNode, Nodes
<1>8. Ready("POLICY", left, f)
  BY <1>4, <1>6 DEF Ready
<1> QED BY <1>1, <1>5, <1>6, <1>7, <1>8, <1>9, AdvanceKeeps

\* Only the treated are acted on or escalated, and only the held-out observed.
LEMMA PolicyKeeps == ASSUME GInv, NEW r \in Runners, Policy(r) PROVE GInv'
<1> DEFINE s == run[r]
           f == facts[s.case]
           c == [amount |-> f.amount, attempt_no |-> s.attempt_no + 1, arm |-> f.arm,
                 stopping |-> Context(s), approved |-> None]
           d == EvaluatePolicy(s.proposal, c)
           left == [s EXCEPT !.decision = d, !.rule = d.stopping.rule, !.status =
                      CASE d.verdict = "PASSED"        -> "EXECUTING"
                        [] d.verdict = "ESCALATE_HITL" -> "AWAITING_APPROVAL"
                        [] d.verdict = "BLOCKED"       -> BlockedStatus(d)]
<1>1. at[r] = "POLICY" /\ "POLICY" \in Nodes
  BY DEF Policy, Nodes
<1>2. /\ s.attempt_no = 0 /\ DOMAIN s = Fields /\ ProposalKept(s.proposal, f)
      /\ f.amount \in Int /\ f.now \in Int /\ f.arm \in {"TREATMENT", "CONTROL"}
  BY <1>1, AtNode DEF Ready
<1>3. Advance(r, left)
  BY DEF Policy
<1>4. c.amount \in Int /\ c.attempt_no \in Int /\ c.arm = f.arm
  BY <1>2
<1>5. Applied(s.proposal, c, Evaluate(StoppingContext(s.proposal, c))) # None
  <2> DEFINE ctx == StoppingContext(s.proposal, c)
  <2>1. ctx.now \in Int /\ ctx.last_contact = None /\ ctx.promised_at = None
    BY <1>2 DEF StoppingContext, Context
  <2> HIDE DEF c, ctx
  <2>2. Evaluate(ctx).decision = "DEFER" => Evaluate(ctx).until \in Int
    BY <2>1, HoldsAreQuietHours
  <2>3. Applied(s.proposal, c, Evaluate(ctx)) \in AppliedAction
    BY <1>2, <1>4, <2>2, AppliedIsAction DEF ProposalKept
  <2> QED BY <2>3, GraphLimitsOK DEF GraphLimitsOK, ctx
<1> HIDE DEF c
<1>6. /\ d.verdict \in {"BLOCKED", "PASSED", "ESCALATE_HITL"}
      /\ d.verdict # "BLOCKED" => /\ f.arm = "TREATMENT" /\ AppliedKept(d.applied, f)
                                 /\ d.applied # None
      /\ "control" \in d.blocks <=> f.arm = "CONTROL"
  BY <1>2, <1>4, <1>5, FirewallVerdict, AppliedIsKept
<1> HIDE DEF d
<1>7. /\ DOMAIN left = Fields /\ left.case = s.case /\ left.attempt_no = 0
      /\ left.proposal = s.proposal /\ left.decision = d /\ left.diagnosis = s.diagnosis
      /\ left.status = CASE d.verdict = "PASSED"        -> "EXECUTING"
                         [] d.verdict = "ESCALATE_HITL" -> "AWAITING_APPROVAL"
                         [] d.verdict = "BLOCKED"       -> BlockedStatus(d)
  BY <1>2 DEF Fields
<1> HIDE DEF left
<1>11. Categorised(left)
  BY <1>1, <1>7, AtNode DEF Categorised
<1>8. CASE d.verdict = "PASSED"
  <2>1. NextNode("POLICY", left) = "EXECUTE" /\ "EXECUTE" \in Nodes
    BY <1>7, <1>8 DEF NextNode, Nodes
  <2>2. Ready("EXECUTE", left, f)
    BY <1>2, <1>6, <1>7, <1>8 DEF Ready
  <2> QED BY <1>1, <1>3, <1>7, <1>11, <2>1, <2>2, AdvanceKeeps
<1>9. CASE d.verdict = "ESCALATE_HITL"
  <2>1. NextNode("POLICY", left) = "ESCALATE" /\ "ESCALATE" \in Nodes
    BY <1>7, <1>9 DEF NextNode, Nodes
  <2>2. Ready("ESCALATE", left, f)
    BY <1>6, <1>7, <1>9 DEF Ready
  <2> QED BY <1>1, <1>3, <1>7, <1>11, <2>1, <2>2, AdvanceKeeps
<1>10. CASE d.verdict = "BLOCKED"
  <2>1. NextNode("POLICY", left) = "AUDIT" /\ "AUDIT" \in Nodes
    BY <1>7, <1>10 DEF NextNode, Nodes
  <2>2. left.status = BlockedStatus(d)
    BY <1>7, <1>10
  <2>3. CASE f.arm = "CONTROL"
    <3>1. left.status = "OBSERVED_NO_ACTION"
      BY <1>6, <2>2, <2>3 DEF BlockedStatus
    <3>2. Ready("AUDIT", left, f)
      BY <1>7, <2>3, <3>1 DEF Ready, Final, Statuses, TERMINAL_STATUSES
    <3> QED BY <1>1, <1>3, <1>7, <1>11, <2>1, <3>2, AdvanceKeeps
  <2>4. CASE f.arm = "TREATMENT"
    <3>1. left.status \in {"RESOLVED_ORGANIC", "EXPIRED", "SUPPRESSED"}
      BY <1>6, <2>2, <2>4 DEF BlockedStatus
    <3>2. Ready("AUDIT", left, f)
      BY <1>7, <2>4, <3>1 DEF Ready, Final, Statuses, TERMINAL_STATUSES
    <3> QED BY <1>1, <1>3, <1>7, <1>11, <2>1, <3>2, AdvanceKeeps
  <2> QED BY <1>2, <2>3, <2>4
<1> QED BY <1>6, <1>8, <1>9, <1>10

LEMMA ExecuteKeeps == ASSUME GInv, NEW r \in Runners, Execute(r) PROVE GInv'
<1> DEFINE s == run[r]
           f == facts[s.case]
<1>1. at[r] = "EXECUTE" /\ "EXECUTE" \in Nodes /\ "AUDIT" \in Nodes
  BY DEF Execute, Nodes
<1>2. /\ s.attempt_no = 0 /\ DOMAIN s = Fields /\ f.arm = "TREATMENT"
      /\ ProposalKept(s.proposal, f) /\ AppliedKept(s.decision.applied, f)
  BY <1>1, AtNode DEF Ready
<1>3. PICK left :
        /\ Advance(r, left)
        /\ \/ left = [s EXCEPT !.status = "SUPPRESSED"]
           \/ left = [s EXCEPT !.status = "MONITORING", !.attempt_no = @ + 1,
                        !.discounts = @ + IF s.decision.applied.pct > 0 THEN 1 ELSE 0]
  BY DEF Execute
<1>4. /\ DOMAIN left = Fields /\ left.case = s.case /\ left.proposal = s.proposal
      /\ left.decision = s.decision /\ left.diagnosis = s.diagnosis
      /\ \/ left.status = "SUPPRESSED" /\ left.attempt_no = 0
         \/ left.status = "MONITORING" /\ left.attempt_no = 1
  <2>1. CASE left = [s EXCEPT !.status = "SUPPRESSED"]
    BY <1>2, <2>1 DEF Fields
  <2>2. CASE left = [s EXCEPT !.status = "MONITORING", !.attempt_no = @ + 1,
                       !.discounts = @ + IF s.decision.applied.pct > 0 THEN 1 ELSE 0]
    <3>1. left.attempt_no = s.attempt_no + 1
      BY <1>2, <2>2 DEF Fields
    <3>2. DOMAIN left = Fields /\ left.case = s.case /\ left.proposal = s.proposal
          /\ left.decision = s.decision /\ left.diagnosis = s.diagnosis
          /\ left.status = "MONITORING"
      BY <1>2, <2>2 DEF Fields
    <3> QED BY <1>2, <3>1, <3>2
  <2> QED BY <1>3, <2>1, <2>2
<1>5. NextNode("EXECUTE", left) = "AUDIT"
  BY DEF NextNode
<1>6. Ready("AUDIT", left, f)
  BY <1>2, <1>4 DEF Ready, Final, Statuses, TERMINAL_STATUSES
<1>7. Categorised(left)
  BY <1>1, <1>4, AtNode DEF Categorised
<1> QED BY <1>1, <1>3, <1>4, <1>5, <1>6, <1>7, AdvanceKeeps

LEMMA EscalateKeeps == ASSUME GInv, NEW r \in Runners, Escalate(r) PROVE GInv'
<1> DEFINE left == [run[r] EXCEPT !.status = "AWAITING_APPROVAL"]
<1>1. at[r] = "ESCALATE" /\ "ESCALATE" \in Nodes /\ "AUDIT" \in Nodes /\ Advance(r, left)
  BY DEF Escalate, Nodes
<1>2. /\ run[r].attempt_no = 0 /\ DOMAIN run[r] = Fields
      /\ facts[run[r].case].arm = "TREATMENT" /\ run[r].decision.applied # None
  BY <1>1, AtNode DEF Ready
<1>3. /\ DOMAIN left = Fields /\ left.case = run[r].case /\ left.decision = run[r].decision
      /\ left.status = "AWAITING_APPROVAL" /\ left.attempt_no = 0
      /\ left.diagnosis = run[r].diagnosis
  BY <1>2 DEF Fields
<1> HIDE DEF left
<1>4. NextNode("ESCALATE", left) = "AUDIT"
  BY DEF NextNode
<1>5. Ready("AUDIT", left, facts[run[r].case])
  BY <1>2, <1>3 DEF Ready, Final, Statuses, TERMINAL_STATUSES
<1>6. Categorised(left)
  BY <1>1, <1>3, AtNode DEF Categorised
<1> QED BY <1>1, <1>3, <1>4, <1>5, <1>6, AdvanceKeeps

LEMMA AuditKeeps == ASSUME GInv, NEW r \in Runners, Audit(r) PROVE GInv'
<1>1. at[r] = "AUDIT" /\ "AUDIT" \in Nodes /\ Advance(r, run[r])
  BY DEF Audit, Nodes
<1>2. NextNode("AUDIT", run[r]) = None
  BY DEF NextNode
<1>3. Ready("ended", run[r], facts[run[r].case])
  BY <1>1, AtNode DEF Ready
<1> QED BY <1>1, <1>2, <1>3, AtNode, AdvanceKeeps

LEMMA NodeRaisesKeeps == ASSUME GInv, NEW r \in Runners, NodeRaises(r) PROVE GInv'
<1> DEFINE s == [run[r] EXCEPT !.status = "FAILED_PERMANENT", !.visits = @ + 2]
<1>1. at[r] \in {"DIAGNOSE", "STRATEGISE"} /\ at[r] \in Nodes
  BY DEF NodeRaises, Nodes
<1>2. run' = [run EXCEPT ![r] = s] /\ at' = [at EXCEPT ![r] = "ended"]
  BY DEF NodeRaises, GInv, Shapes
<1>3. run[r].attempt_no = 0 /\ DOMAIN run[r] = Fields
  BY <1>1, AtNode DEF Ready
<1>4. /\ DOMAIN s = Fields /\ s.case = run[r].case /\ s.status = "FAILED_PERMANENT"
      /\ s.attempt_no = 0 /\ s.diagnosis = run[r].diagnosis
  BY <1>3 DEF Fields
<1> HIDE DEF s
<1>5. Ready("ended", s, facts[s.case])
  BY <1>4 DEF Ready, Final, Statuses, TERMINAL_STATUSES
<1>6. InGraph(r, "ended", s)
  BY <1>1, <1>4, <1>5, AtNode DEF InGraph, Categorised
<1>7. UNCHANGED <<facts, autopilot, toggles, launches, cases, outbox, links, batch>>
  BY DEF NodeRaises
<1>8. RunsKept' /\ DOMAIN at' = Runners /\ DOMAIN run' = Runners
  <2>1. run' = run => s = run[r]
    BY <1>2 DEF GInv, Shapes
  <2> QED BY <1>2, <1>6, <1>7, <2>1, RunnerKeeps
<1>9. IntentsKept'
  BY <1>2, <1>7, IntentsKeep DEF Calling
<1> QED BY <1>7, <1>8, <1>9 DEF GInv, Shapes, RowsKept

LEMMA NodeKeeps == ASSUME GInv, NEW r \in Runners, Node(r) PROVE GInv'
  BY EnrichKeeps, TriageKeeps, DiagnoseKeeps, StrategiseKeeps, PolicyKeeps, ExecuteKeeps,
     EscalateKeeps, AuditKeeps, NodeRaisesKeeps DEF Node

-----------------------------------------------------------------------------
(* What a runner makes of a case.                                          *)

\* The rows tell of the case what the graph decided and the customer did.
LEMMA RowIsKept ==
  ASSUME NEW s, NEW paid \in BOOLEAN, Final(s, facts[s.case]),
         facts[s.case].arm \in {"TREATMENT", "CONTROL"}
  PROVE  /\ RowKept(Row(s, paid), facts[s.case])
         /\ Row(s, paid).status = "MONITORING" => Row(s, paid).action # None
<1> DEFINE f == facts[s.case]
           row == Row(s, paid)
           made == [strategy |-> s.proposal.strategy, class |-> s.proposal.class,
                    pct |-> s.decision.applied.pct,
                    discount |-> s.decision.applied.discount]
<1>1. /\ row.status = Settled(s, paid) /\ row.paid = paid /\ row.attempt_no = s.attempt_no
      /\ row.category = CategoryOf(s)
      /\ row.action = (IF Acted(s) /\ s.proposal # None THEN made ELSE None)
      /\ row.approval = (IF Settled(s, paid) = "AWAITING_APPROVAL" THEN s.decision.applied
                         ELSE None)
  BY DEF Row
<1>2. Acted(s) => /\ s.attempt_no = 1 /\ ProposalKept(s.proposal, f)
                  /\ AppliedKept(s.decision.applied, f)
  BY DEF Acted, Final
<1>3. Acted(s) => s.proposal # None /\ made \in Action
  BY <1>2, GraphLimitsOK DEF ProposalKept, AppliedKept, Proposal, Action, GraphLimitsOK
<1>4. /\ Acted(s) => row.action = made /\ row.action # None
      /\ ~Acted(s) => row.action = None
  BY <1>1, <1>3, GraphLimitsOK DEF GraphLimitsOK
<1>5. Acted(s) => /\ StrategyKept(made.strategy, f)
                  /\ f.playbook \in NoLever => made.discount = 0
  BY <1>2 DEF ProposalKept, AppliedKept
<1>6. /\ paid /\ Acted(s) => row.status = "RECOVERED"
      /\ paid /\ ~Acted(s) => row.status = "RESOLVED_ORGANIC"
      /\ ~paid => row.status = IF s.status = "RESOLVED_ORGANIC" THEN "EXPIRED" ELSE s.status
  BY <1>1 DEF Settled
<1>7. /\ ~Acted(s) /\ f.arm = "TREATMENT" => s.status # "MONITORING"
      /\ f.arm = "CONTROL" => s.status # "MONITORING" /\ ~Acted(s) /\ s.attempt_no = 0
      /\ row.status = "AWAITING_APPROVAL" => f.arm = "TREATMENT"
  BY <1>6 DEF Acted, Final, Statuses, TERMINAL_STATUSES
<1> HIDE DEF row, made
<1>8. row.status \in Statuses
  BY <1>6 DEF Final, Statuses, TERMINAL_STATUSES
<1>9. /\ row.status = "RECOVERED" <=> row.paid /\ row.action # None
      /\ row.status = "RESOLVED_ORGANIC" <=> row.paid /\ row.action = None
  BY <1>1, <1>4, <1>6 DEF Final, Statuses, TERMINAL_STATUSES
<1>10. row.action # None =>
         /\ row.attempt_no > 0 /\ StrategyKept(row.action.strategy, f)
         /\ f.playbook \in NoLever => row.action.discount = 0
  BY <1>1, <1>2, <1>4, <1>5
<1>11. f.arm = "CONTROL" =>
         /\ row.action = None /\ row.approval = None /\ row.attempt_no = 0
         /\ ~row.paid /\ row.category # None =>
              row.status \in {"OBSERVED_NO_ACTION", "FAILED_PERMANENT"}
  BY <1>1, <1>4, <1>6, <1>7 DEF Final, CategoryOf
<1>12. row.status = "OBSERVED_NO_ACTION" => f.arm = "CONTROL"
  BY <1>6 DEF Final
<1>13. row.status = "AWAITING_APPROVAL" => row.approval # None
  BY <1>1, <1>6 DEF Final
<1>14. row.status = "MONITORING" => row.action # None
  BY <1>4, <1>6, <1>7 DEF Final, Statuses, TERMINAL_STATUSES
<1>15. RowKept(row, f)
  BY <1>8, <1>9, <1>10, <1>11, <1>12, <1>13 DEF RowKept
<1> QED BY <1>14, <1>15 DEF row

\* The rows of a request tell of a customer who was contacted.
LEMMA IntentRowIsKept ==
  ASSUME NEW row, NEW f, f.arm = "TREATMENT", row.status = "MONITORING",
         row.paid = FALSE, row.action = None
  PROVE  RowKept(row, f)
  BY DEF RowKept, Statuses

\* A row is written, or none.
LEMMA RowsKeep ==
  ASSUME GInv, UNCHANGED facts, NEW c \in CaseIds, NEW row, RowKept(row, facts[c]),
         row.status = "MONITORING" => row.action # None \/ c \in Requests,
         cases' = [cases EXCEPT ![c] = row]
  PROVE  RowsKept' /\ DOMAIN cases' = CaseIds
<1>1. DOMAIN cases = CaseIds
  BY DEF GInv, Shapes
<1>2. ASSUME NEW d \in CaseIds, cases'[d] # None
      PROVE  /\ RowKept(cases'[d], facts'[d])
             /\ cases'[d].status = "MONITORING" => cases'[d].action # None \/ d \in Requests
  <2>1. CASE d = c
    BY <1>1, <2>1
  <2>2. CASE d # c
    BY <1>1, <1>2, <2>2 DEF GInv, RowsKept
  <2> QED BY <2>1, <2>2
<1> QED BY <1>1, <1>2 DEF RowsKept

-----------------------------------------------------------------------------
(* Every step keeps the invariant.                                         *)

LEMMA InitGInv == ASSUME Init PROVE GInv
<1>1. RunsKept /\ RowsKept
  BY DEF Init, RunsKept, RowsKept, Nodes
<1>4. IntentsKept
  <2>1. ASSUME NEW q \in Requests
        PROVE  at[q] = "off" /\ outbox[q] = None /\ links = {} /\ cases[q] = None
    BY DEF Init, Runners, CaseIds
  <2> QED BY <2>1, GraphLimitsOK DEF GraphLimitsOK, IntentsKept, IntentKept, Intended, Calling
<1>2. \A b \in Batches : DOMAIN batch[b] = {"created", "next", "switch", "acts", "given"}
                         /\ batch[b].next \in Nat \ {0}
  BY DEF Init, NoBatch
<1>3. toggles \in 0 .. MaxToggles /\ launches \in 0 .. MaxLaunches
  BY GraphLimitsOK DEF GraphLimitsOK, Init
<1> QED BY <1>1, <1>2, <1>3, <1>4 DEF Init, GInv, Shapes

\* A step that moves a runner outside the graph.
LEMMA OutsideKeeps ==
  ASSUME GInv, NEW r \in Runners, NEW a, a \notin Nodes \cup {"ended"},
         at' = [at EXCEPT ![r] = a], run' = [run EXCEPT ![r] = None] \/ run' = run,
         UNCHANGED facts
  PROVE  RunsKept' /\ DOMAIN at' = Runners /\ DOMAIN run' = Runners
<1>1. CASE run' = run
  BY <1>1, RunnerKeeps
<1>2. CASE run' # run /\ run' = [run EXCEPT ![r] = None]
  BY <1>2, RunnerKeeps
<1> QED BY <1>1, <1>2

LEMMA Outside ==
  /\ \A a \in {"off", "cleared", "next", "done", "dead", "raised", "call", "record", "fail"} :
       a \notin Nodes \cup {"ended"}
  /\ \A a \in Nodes \cup {"ended", "off", "cleared", "next", "done", "dead", "raised"} :
       a \notin Calling
  BY DEF Nodes, Calling

LEMMA ClearKeeps == ASSUME GInv, NEW b \in Batches, Clear(b) PROVE GInv'
<1>1. RunsKept' /\ DOMAIN at' = Runners /\ DOMAIN run' = Runners
  BY OutsideKeeps, Outside DEF Clear, Runners
<1>2. RowsKept' /\ DOMAIN cases' = CaseIds
  <2>1. cases' = NoCases /\ UNCHANGED facts
    BY DEF Clear
  <2>2. ASSUME NEW c \in CaseIds, cases'[c] # None
        PROVE  /\ RowKept(cases'[c], facts'[c])
               /\ cases'[c].status = "MONITORING" =>
                    cases'[c].action # None \/ c \in Requests
    BY <2>1, <2>2 DEF NoCases, GInv, RowsKept
  <2> QED BY <2>1, <2>2 DEF NoCases, RowsKept
<1>3. launches' \in 0 .. MaxLaunches
  BY GraphLimitsOK DEF GraphLimitsOK, Clear, GInv, Shapes
<1>4. IntentsKept'
  <2>1. ASSUME NEW q \in Requests
        PROVE  IntentKept(q)'
    <3>1. at'[q] = at[q] /\ UNCHANGED links
      BY GraphLimitsOK DEF GraphLimitsOK, Clear, GInv, Shapes
    <3>2. cases'[q] = None
      BY DEF Clear, NoCases, CaseIds
    <3>3. outbox'[q] = IF outbox[q] = None THEN None ELSE "DELETED"
      BY DEF Clear, Cascaded
    <3>4. None # "DELETED" /\ IntentKept(q)
      BY GraphLimitsOK DEF GraphLimitsOK, GInv, IntentsKept
    <3> QED BY <3>1, <3>2, <3>3, <3>4 DEF IntentKept, Intended, Calling
  <2> QED BY <2>1 DEF IntentsKept
<1>5. outbox' \in [Requests -> {None, "SENDING", "PENDING", "SENT", "DELETED"}]
  BY DEF Clear, Cascaded
<1> QED BY <1>1, <1>2, <1>3, <1>4, <1>5 DEF Clear, GInv, Shapes

LEMMA LoadMerchantsKeeps == ASSUME GInv, NEW b \in Batches, LoadMerchants(b) PROVE GInv'
<1>1. RunsKept' /\ DOMAIN at' = Runners /\ DOMAIN run' = Runners
  BY OutsideKeeps, Outside DEF LoadMerchants, Runners
<1>2. \A d \in Batches : DOMAIN batch'[d] = {"created", "next", "switch", "acts", "given"}
                         /\ batch'[d].next \in Nat \ {0}
  BY DEF LoadMerchants, NoBatch, GInv, Shapes
<1>3. IntentsKept'
  BY IntentsKeep, Outside DEF LoadMerchants, Runners
<1> QED BY <1>1, <1>2, <1>3 DEF LoadMerchants, GInv, Shapes, RowsKept

LEMMA SkipAttemptKeeps == ASSUME GInv, NEW b \in Batches, SkipAttempt(b) PROVE GInv'
<1>1. \A d \in Batches : DOMAIN batch'[d] = {"created", "next", "switch", "acts", "given"}
                         /\ batch'[d].next \in Nat \ {0}
  BY DEF SkipAttempt, GInv, Shapes
<1>2. RunsKept'
  BY DEF SkipAttempt, GInv, RunsKept, InGraph
<1>3. IntentsKept'
  BY DEF SkipAttempt, GInv, IntentsKept, IntentKept, Intended
<1> QED BY <1>1, <1>2, <1>3 DEF SkipAttempt, GInv, Shapes, RowsKept

\* A case begins where nothing is known of it.
LEMMA NewStateIsKept ==
  ASSUME GInv, NEW r, NEW c \in CaseIds, facts[c].playbook # None,
         r \in Requests => c = r, r \in Batches => c \notin Requests,
         NEW switch, NEW acts, NEW given
  PROVE  InGraph(r, "ENRICH", NewState(c, switch, acts, given))
<1> DEFINE s == NewState(c, switch, acts, given)
<1>1. /\ DOMAIN s = Fields /\ s.case = c /\ s.status = "DETECTED" /\ s.diagnosis = None
      /\ s.attempt_no = 0
  BY DEF NewState, Fields
<1> HIDE DEF s
<1>2. Ready("ENRICH", s, facts[c])
  BY <1>1 DEF Ready
<1> QED BY <1>1, <1>2, FactsAreKept DEF InGraph, Categorised, s

LEMMA BeginCaseKeeps == ASSUME GInv, NEW b \in Batches, BeginCase(b) PROVE GInv'
<1> DEFINE c == batch[b].next
           s == NewState(c, batch[b].switch, batch[b].acts[facts[c].day], batch[b].given)
<1>1. c \in CaseIds /\ facts[c].playbook # None /\ b \notin Requests /\ c \notin Requests
  BY GraphLimitsOK DEF GraphLimitsOK, BeginCase, CaseIds, GInv, Shapes
<1>2. InGraph(b, "ENRICH", s)
  BY <1>1, NewStateIsKept
<1>3. RunsKept' /\ DOMAIN at' = Runners /\ DOMAIN run' = Runners
  <2>1. at' = [at EXCEPT ![b] = "ENRICH"] /\ run' = [run EXCEPT ![b] = s] /\ UNCHANGED facts
    BY DEF BeginCase
  <2>2. run' = run => s = run[b]
    BY <2>1 DEF GInv, Shapes, Runners
  <2> QED BY <1>2, <2>1, <2>2, RunnerKeeps DEF Runners
<1>4. \A d \in Batches : DOMAIN batch'[d] = {"created", "next", "switch", "acts", "given"}
                         /\ batch'[d].next \in Nat \ {0}
  BY DEF BeginCase, GInv, Shapes
<1>5. IntentsKept'
  BY IntentsKeep, Outside DEF BeginCase, Runners, Nodes
<1> QED BY <1>3, <1>4, <1>5 DEF BeginCase, GInv, Shapes, RowsKept

\* What a batch counts leaves its place in the corpus alone.
LEMMA CountedKeeps ==
  ASSUME GInv, NEW b \in Batches, NEW s
  PROVE  /\ DOMAIN Counted(b, s) = Batches
         /\ \A d \in Batches :
              /\ DOMAIN Counted(b, s)[d] = {"created", "next", "switch", "acts", "given"}
              /\ Counted(b, s)[d].next \in Nat \ {0}
<1>1. CASE Acted(s)
  BY <1>1 DEF Counted, GInv, Shapes
<1>2. CASE ~Acted(s)
  BY <1>2 DEF Counted, GInv, Shapes
<1> QED BY <1>1, <1>2

LEMMA PersistCaseKeeps == ASSUME GInv, NEW b \in Batches, PersistCase(b) PROVE GInv'
<1> DEFINE s == run[b]
<1>1. at[b] = "ended" /\ b \in Runners /\ UNCHANGED facts
  BY DEF PersistCase, Runners
<1>2. RunsKept' /\ DOMAIN at' = Runners /\ DOMAIN run' = Runners
  BY <1>1, OutsideKeeps, Outside DEF PersistCase
<1>3. RowsKept' /\ DOMAIN cases' = CaseIds
  <2>1. CASE \E paid \in BOOLEAN : cases' = [cases EXCEPT ![s.case] = Row(s, paid)]
    <3>1. PICK paid \in BOOLEAN : cases' = [cases EXCEPT ![s.case] = Row(s, paid)]
      BY <2>1
    <3>2. /\ s.case \in CaseIds /\ Final(s, facts[s.case])
          /\ facts[s.case].arm \in {"TREATMENT", "CONTROL"}
      BY <1>1, AtNode DEF Ready
    <3>3. /\ RowKept(Row(s, paid), facts[s.case])
          /\ Row(s, paid).status = "MONITORING" => Row(s, paid).action # None
      BY <3>2, RowIsKept
    <3> QED BY <1>1, <3>1, <3>2, <3>3, RowsKeep
  <2>2. CASE UNCHANGED cases
    BY <1>1, <2>2 DEF GInv, RowsKept, Shapes
  <2> QED BY <2>1, <2>2 DEF PersistCase
<1>4. batch' = Counted(b, s) \/ batch' = batch
  BY DEF PersistCase
<1>5. /\ DOMAIN batch' = Batches
      /\ \A d \in Batches : DOMAIN batch'[d] = {"created", "next", "switch", "acts", "given"}
                            /\ batch'[d].next \in Nat \ {0}
  <2>1. CASE batch' = Counted(b, s)
    BY <2>1, CountedKeeps
  <2>2. CASE batch' = batch
    BY <2>2 DEF GInv, Shapes
  <2> QED BY <1>4, <2>1, <2>2
<1>6. IntentsKept'
  <2>1. s.case \notin Requests
    BY <1>1, AtNode
  <2>2. \A q \in Requests : cases'[q] = cases[q]
    BY <2>1 DEF PersistCase, GInv, Shapes, CaseIds
  <2>3. PICK a \in {"next", "dead"} : at' = [at EXCEPT ![b] = a]
    BY DEF PersistCase
  <2> QED BY <1>1, <2>2, <2>3, IntentsKeep, Outside DEF PersistCase
<1> QED BY <1>2, <1>3, <1>5, <1>6 DEF PersistCase, GInv, Shapes

LEMMA PersistLostKeeps == ASSUME GInv, NEW b \in Batches, PersistLost(b) PROVE GInv'
<1>1. RunsKept' /\ DOMAIN at' = Runners /\ DOMAIN run' = Runners
  BY OutsideKeeps, Outside DEF PersistLost, Runners
<1>2. /\ DOMAIN batch' = Batches
      /\ \A d \in Batches : DOMAIN batch'[d] = {"created", "next", "switch", "acts", "given"}
                            /\ batch'[d].next \in Nat \ {0}
  <2>1. batch' = Counted(b, run[b])
    BY DEF PersistLost
  <2> QED BY <2>1, CountedKeeps
<1>3. IntentsKept'
  BY IntentsKeep, Outside DEF PersistLost, Runners
<1> QED BY <1>1, <1>2, <1>3 DEF PersistLost, GInv, Shapes, RowsKept

LEMMA BatchCompleteKeeps == ASSUME GInv, NEW b \in Batches, BatchComplete(b) PROVE GInv'
<1>1. RunsKept' /\ DOMAIN at' = Runners /\ DOMAIN run' = Runners
  BY OutsideKeeps, Outside DEF BatchComplete, Runners
<1>2. IntentsKept'
  BY IntentsKeep, Outside DEF BatchComplete, Runners
<1> QED BY <1>1, <1>2 DEF BatchComplete, GInv, Shapes, RowsKept

LEMMA RecoverKeeps == ASSUME GInv, NEW q \in Requests, Recover(q) PROVE GInv'
<1> DEFINE s == NewState(q, autopilot, 0, 0)
<1>1. q \in CaseIds /\ q \in Runners /\ q \notin Batches
  BY GraphLimitsOK DEF GraphLimitsOK, CaseIds, Runners
<1>2. facts[q].playbook \in Kinds
  BY <1>1, InputsOK DEF InputsOK, GInv, Shapes, Kinds
<1>3. InGraph(q, "ENRICH", s)
  <2>1. CASE facts[q].playbook # None
    BY <1>1, <2>1, NewStateIsKept
  <2>2. CASE facts[q].playbook = None
    <3>1. /\ DOMAIN s = Fields /\ s.case = q /\ s.status = "DETECTED" /\ s.diagnosis = None
          /\ s.attempt_no = 0
      BY DEF NewState, Fields
    <3> HIDE DEF s
    <3> QED BY <1>1, <1>2, <3>1 DEF InGraph, Ready, Categorised
  <2> QED BY <2>1, <2>2
<1>4. RunsKept' /\ DOMAIN at' = Runners /\ DOMAIN run' = Runners
  <2>1. at' = [at EXCEPT ![q] = "ENRICH"] /\ run' = [run EXCEPT ![q] = s] /\ UNCHANGED facts
    BY DEF Recover
  <2>2. run' = run => s = run[q]
    BY <1>1, <2>1 DEF GInv, Shapes
  <2> QED BY <1>1, <1>3, <2>1, <2>2, RunnerKeeps
<1>5. IntentsKept'
  BY <1>1, IntentsKeep, Outside DEF Recover, Nodes
<1> QED BY <1>4, <1>5 DEF Recover, GInv, Shapes, RowsKept

LEMMA CommitIntentKeeps == ASSUME GInv, NEW q \in Requests, CommitIntent(q) PROVE GInv'
<1> DEFINE row == IntentRow(CategoryOf(run[q]))
<1>1. /\ at[q] = "ended" /\ run[q].status = "MONITORING" /\ q \in Runners
      /\ q \in CaseIds /\ UNCHANGED facts
  BY DEF CommitIntent, Runners, CaseIds
<1>2. RunsKept' /\ DOMAIN at' = Runners /\ DOMAIN run' = Runners
  BY <1>1, OutsideKeeps, Outside DEF CommitIntent
<1>3. row.status = "MONITORING" /\ row.paid = FALSE /\ row.action = None
  BY DEF IntentRow
<1> HIDE DEF row
<1>4. run[q].case = q
  BY <1>1, AtNode
<1>5. facts[q].arm = "TREATMENT"
  BY <1>1, <1>4, AtNode DEF Ready, Final
<1>6. RowsKept' /\ DOMAIN cases' = CaseIds
  BY <1>1, <1>3, <1>5, IntentRowIsKept, RowsKeep DEF CommitIntent, row
<1>7. outbox' \in [Requests -> {None, "SENDING", "PENDING", "SENT", "DELETED"}]
  BY DEF CommitIntent, GInv, Shapes
<1>8. IntentsKept'
  <2>1. /\ outbox'[q] = "SENDING" /\ cases'[q] = row /\ at'[q] = "call"
        /\ UNCHANGED links
    BY <1>1 DEF CommitIntent, row, GInv, Shapes
  <2>2. cases'[q] # None
    <3>1. CategoryOf(run[q]) \in Categories \cup {None}
      BY <1>1, AtNode DEF CategoryOf, Categorised
    <3> QED BY <2>1, <3>1, GraphLimitsOK DEF GraphLimitsOK, row
  <2>3. ASSUME NEW p \in Requests, p # q
        PROVE  at'[p] = at[p] /\ outbox'[p] = outbox[p] /\ cases'[p] = cases[p]
    BY <1>1, <2>3 DEF CommitIntent, GInv, Shapes, Runners, CaseIds
  <2>4. IntentKept(q)'
    BY <1>3, <2>1, <2>2, GraphLimitsOK DEF GraphLimitsOK, IntentKept, Intended, Calling
  <2>5. ASSUME NEW p \in Requests, p # q
        PROVE  IntentKept(p)'
    BY <2>1, <2>3, <2>5 DEF GInv, IntentsKept, IntentKept, Intended
  <2> QED BY <2>4, <2>5 DEF IntentsKept
<1> QED BY <1>2, <1>6, <1>7, <1>8 DEF CommitIntent, GInv, Shapes

LEMMA RequestEndsKeep ==
  ASSUME GInv, NEW q \in Requests,
         Refuse(q) \/ CallRazorpay(q) \/ RecordSent(q) \/ RecordRefusal(q) \/ UpdateNothing(q)
  PROVE  GInv'
<1>1. RunsKept' /\ DOMAIN at' = Runners /\ DOMAIN run' = Runners
  BY OutsideKeeps, Outside
     DEF Refuse, CallRazorpay, RecordSent, RecordRefusal, UpdateNothing, Runners
<1>2. outbox' \in [Requests -> {None, "SENDING", "PENDING", "SENT", "DELETED"}]
      /\ links' \subseteq Requests
  BY DEF Refuse, CallRazorpay, RecordSent, RecordRefusal, UpdateNothing, GInv, Shapes
<1>3. IntentsKept'
  <2>1. CASE Refuse(q) \/ UpdateNothing(q)
    <3>1. PICK a \in {"done", "dead"} : at' = [at EXCEPT ![q] = a]
      BY <2>1 DEF Refuse, UpdateNothing
    <3>2. UNCHANGED <<links, outbox, cases>>
      BY <2>1 DEF Refuse, UpdateNothing
    <3> QED BY <3>1, <3>2, IntentsKeep, Outside DEF Runners
  <2>2. CASE CallRazorpay(q)
    <3>1. PICK made \in BOOLEAN, heard \in BOOLEAN :
            /\ heard => made
            /\ links' = IF made THEN links \cup {q} ELSE links
            /\ at' = [at EXCEPT ![q] = IF heard THEN "record" ELSE "fail"]
      BY <2>2 DEF CallRazorpay
    <3>2. at[q] = "call" /\ UNCHANGED <<outbox, cases>>
      BY <2>2 DEF CallRazorpay
    <3>3. ASSUME NEW p \in Requests
          PROVE  IntentKept(p)'
      <4>1. IntentKept(p)
        BY DEF GInv, IntentsKept
      <4>2. CASE p = q
        <5>1. at'[q] = IF heard THEN "record" ELSE "fail"
          BY <3>1 DEF GInv, Shapes, Runners
        <5> QED BY <3>1, <3>2, <4>1, <4>2, <5>1 DEF IntentKept, Intended, Calling
      <4>3. CASE p # q
        <5>1. at'[p] = at[p]
          BY <3>1, <4>3 DEF GInv, Shapes, Runners
        <5> QED BY <3>1, <3>2, <4>1, <4>3, <5>1 DEF IntentKept, Intended
      <4> QED BY <4>2, <4>3
    <3> QED BY <3>3 DEF IntentsKept
  <2>3. CASE RecordSent(q) \/ RecordRefusal(q)
    <3>1. /\ at' = [at EXCEPT ![q] = "done"] /\ outbox[q] # "DELETED"
          /\ UNCHANGED <<links, cases>>
      BY <2>3 DEF RecordSent, RecordRefusal
    <3>2. \/ outbox' = outbox
          \/ at[q] = "record" /\ outbox' = [outbox EXCEPT ![q] = "SENT"]
          \/ outbox' = [outbox EXCEPT ![q] = "PENDING"]
      BY <2>3 DEF RecordSent, RecordRefusal
    <3>3. at[q] \in Calling
      BY <2>3 DEF RecordSent, RecordRefusal, Calling
    <3>4. ASSUME NEW p \in Requests
          PROVE  IntentKept(p)'
      <4>1. IntentKept(p)
        BY DEF GInv, IntentsKept
      <4>2. CASE p = q
        <5>1. at'[q] = "done"
          BY <3>1 DEF GInv, Shapes, Runners
        <5>2. \/ outbox'[q] = outbox[q] \/ outbox'[q] = "PENDING"
              \/ at[q] = "record" /\ outbox'[q] = "SENT"
          BY <3>2 DEF GInv, Shapes
        <5>3. Intended(q) /\ None \notin {"SENT", "PENDING"}
          BY <3>1, <3>3, <4>1, <4>2, GraphLimitsOK DEF GraphLimitsOK, IntentKept, Intended
        <5> QED BY <3>1, <4>1, <4>2, <5>1, <5>2, <5>3 DEF IntentKept, Intended, Calling
      <4>3. CASE p # q
        <5>1. at'[p] = at[p] /\ outbox'[p] = outbox[p]
          BY <3>1, <3>2, <4>3 DEF GInv, Shapes, Runners
        <5> QED BY <3>1, <4>1, <5>1 DEF IntentKept, Intended
      <4> QED BY <4>2, <4>3
    <3> QED BY <3>4 DEF IntentsKept
  <2> QED BY <2>1, <2>2, <2>3
<1> QED BY <1>1, <1>2, <1>3
        DEF Refuse, CallRazorpay, RecordSent, RecordRefusal, UpdateNothing, GInv, Shapes, RowsKept

LEMMA OthersKeep ==
  ASSUME GInv, ToggleAutopilot \/ \E r \in Runners : Die(r) PROVE GInv'
<1>1. CASE ToggleAutopilot
  <2>1. toggles' \in 0 .. MaxToggles /\ autopilot' \in BOOLEAN
    BY <1>1, GraphLimitsOK DEF GraphLimitsOK, ToggleAutopilot, GInv, Shapes
  <2>2. RunsKept'
    BY <1>1 DEF ToggleAutopilot, GInv, RunsKept, InGraph
  <2>3. IntentsKept'
    BY <1>1 DEF ToggleAutopilot, GInv, IntentsKept, IntentKept, Intended
  <2> QED BY <1>1, <2>1, <2>2, <2>3 DEF ToggleAutopilot, GInv, Shapes, RowsKept
<1>2. CASE \E r \in Runners : Die(r)
  <2>1. RunsKept' /\ DOMAIN at' = Runners /\ DOMAIN run' = Runners
    BY <1>2, OutsideKeeps, Outside DEF Die
  <2>2. IntentsKept'
    BY <1>2, IntentsKeep, Outside DEF Die
  <2> QED BY <1>2, <2>1, <2>2 DEF Die, GInv, Shapes, RowsKept
<1> QED BY <1>1, <1>2

-----------------------------------------------------------------------------
(* The theorems.                                                           *)

LEMMA GInvHolds == Spec => []GInv
<1>1. Init => GInv
  BY InitGInv
<1>2. GInv /\ [Next]_vars => GInv'
  <2> SUFFICES ASSUME GInv, [Next]_vars PROVE GInv'
    OBVIOUS
  <2>1. CASE UNCHANGED vars
    BY <2>1 DEF vars, GInv, Shapes, RunsKept, InGraph, RowsKept, IntentsKept, IntentKept,
               Intended
  <2>2. ASSUME NEW b \in Batches, Clear(b) \/ BatchStep(b) PROVE GInv'
    <3>1. b \in Runners
      BY DEF Runners
    <3> QED BY <2>2, <3>1, ClearKeeps, LoadMerchantsKeeps, SkipAttemptKeeps, BeginCaseKeeps,
               NodeKeeps, PersistCaseKeeps, PersistLostKeeps, BatchCompleteKeeps
            DEF BatchStep
  <2>3. ASSUME NEW q \in Requests, Recover(q) \/ RequestStep(q) PROVE GInv'
    <3>1. q \in Runners
      BY DEF Runners
    <3> QED BY <2>3, <3>1, RecoverKeeps, NodeKeeps, CommitIntentKeeps, RequestEndsKeep
            DEF RequestStep
  <2> QED BY <2>1, <2>2, <2>3, OthersKeep DEF Next
<1> QED BY <1>1, <1>2, PTL DEF Spec

\* Types, and that a committed case is over or waits for a customer or a reviewer,
\* for any corpus, any answers of a model and any number of runners (run_case).
THEOREM TypeCorrect == Spec => []TypeOK
<1>1. GInv => TypeOK
  BY DEF GInv, Shapes, RunsKept, RowsKept, InGraph, RowKept, Statuses, TypeOK, Rows
<1> QED BY <1>1, GInvHolds, PTL

\* No case is lost between the graph and its end: a committed case is over, or was
\* contacted, or has something a reviewer can approve.  A request's case and intent
\* stand or are deleted together, whenever a batch is started, a SENT intent names a
\* link, and no link was made before its intent was committed (run_case, _clear,
\* test_recovery).
THEOREM CasesAreAlwaysAccountedFor == Spec => []CasesAreAccountedFor
<1>1. GInv => CasesAreAccountedFor
  <2> SUFFICES ASSUME GInv PROVE CasesAreAccountedFor
    OBVIOUS
  <2>1. ASSUME NEW c \in Rows
        PROVE  \/ cases[c].status \in TERMINAL_STATUSES
               \/ cases[c].status = "MONITORING" /\ (cases[c].action # None \/ c \in Requests)
               \/ cases[c].status = "AWAITING_APPROVAL" /\ cases[c].approval # None
    BY DEF GInv, RowsKept, RowKept, Statuses, Rows
  <2>2. ASSUME NEW q \in Requests
        PROVE  /\ IF Intended(q) THEN cases[q] # None /\ cases[q].status = "MONITORING"
                                 ELSE cases[q] = None
               /\ outbox[q] = "SENT" => q \in links
               /\ q \in links => outbox[q] # None
    BY DEF GInv, IntentsKept, IntentKept
  <2> QED BY <2>1, <2>2 DEF CasesAreAccountedFor
<1> QED BY <1>1, GInvHolds, PTL

\* RECOVERED is a payment after an executed action and RESOLVED_ORGANIC one without,
\* and whoever is held out is observed and nothing else, whatever the corpus, the
\* model, the policy, the kill switch and the crashes (INC-018).
THEOREM OutcomesAreAlwaysHonest == Spec => []OutcomesAreHonest
<1>1. GInv => OutcomesAreHonest
  BY DEF GInv, RowsKept, RowKept, OutcomesAreHonest, Rows
<1> QED BY <1>1, GInvHolds, PTL

\* No answer of a model, however it is argued, becomes an action the playbook of the
\* case forbids (classify, routing, violations, evaluate_policy).
THEOREM PlaybooksAreAlwaysKept == Spec => []PlaybooksAreKept
<1>1. GInv => PlaybooksAreKept
  BY DEF GInv, RowsKept, RowKept, StrategyKept, Blocked, DeadMandate, NoLever,
         PlaybooksAreKept, Rows
<1> QED BY <1>1, GInvHolds, PTL

-----------------------------------------------------------------------------
(* Sums over finite sets, as FiniteSetsExt adds them up.  The library's    *)
(* induction rules take the formula to be proved as a parameter; here it   *)
(* is the set of what satisfies it.                                        *)

\* Induction over the natural numbers.
LEMMA NumbersByInduction ==
  ASSUME NEW N, 0 \in N, \A n \in Nat : n \in N => n + 1 \in N
  PROVE  Nat \subseteq N
<1> SUFFICES ASSUME Nat \ N # {}
             PROVE  FALSE
  OBVIOUS
<1>1. PICK n \in Nat \ N : \A m \in Nat \ N : ~(<<m, n>> \in OpToRel(<, Nat))
  BY NatLessThanWellFounded, WFMin
<1>2. \A m \in Nat \ N : ~(m < n)
  BY <1>1 DEF OpToRel
<1>3. n # 0
  OBVIOUS
<1>4. n - 1 \in Nat /\ n - 1 < n /\ (n - 1) + 1 = n
  BY <1>3
<1> QED
  BY <1>2, <1>4

\* Induction over the subsets of a finite set, an element at a time.
LEMMA SubsetsByInduction ==
  ASSUME NEW S, IsFiniteSet(S), NEW P, {} \in P,
         \A T \in SUBSET S : \A x \in S : T \in P /\ x \notin T => T \cup {x} \in P
  PROVE  SUBSET S \subseteq P
<1> DEFINE N == {n \in Nat : \A T \in SUBSET S : Cardinality(T) = n => T \in P}
<1>1. \A T \in SUBSET S : IsFiniteSet(T) /\ Cardinality(T) \in Nat
  BY FS_Subset, FS_CardinalityType
<1>2. 0 \in N
  BY <1>1, FS_EmptySet
<1>3. ASSUME NEW n \in Nat, n \in N
      PROVE  n + 1 \in N
  <2> SUFFICES ASSUME NEW T \in SUBSET S, Cardinality(T) = n + 1
               PROVE  T \in P
    OBVIOUS
  <2>1. IsFiniteSet(T) /\ T # {}
    BY <1>1, FS_EmptySet
  <2>2. PICK x \in T : Cardinality(T \ {x}) = Cardinality(T) - 1
    BY <2>1, FS_RemoveElement
  <2>3. T \ {x} \in P
    <3>1. Cardinality(T \ {x}) = n
      BY <2>2
    <3> QED
      BY <1>3, <3>1
  <2>4. T = (T \ {x}) \cup {x}
    OBVIOUS
  <2> QED
    BY <2>3, <2>4
<1> HIDE DEF N
<1>4. Nat \subseteq N
  BY <1>2, <1>3, NumbersByInduction
<1> QED
  BY <1>1, <1>4 DEF N

AnyOf(s) == CHOOSE x \in s : TRUE

\* The partial sums by which the library adds up f over S.
PartialSums(g, f, S) ==
  g = [s \in SUBSET S |-> IF s = {} THEN 0 ELSE f[AnyOf(s)] + g[s \ {AnyOf(s)}]]

LEMMA HeadLeavesLess ==
  ASSUME NEW S, IsFiniteSet(S), NEW s \in SUBSET S, s # {}
  PROVE  /\ AnyOf(s) \in s /\ s \ {AnyOf(s)} \in SUBSET S /\ IsFiniteSet(s)
         /\ Cardinality(s) \in Nat /\ Cardinality(s \ {AnyOf(s)}) = Cardinality(s) - 1
<1>1. AnyOf(s) \in s
  BY DEF AnyOf
<1> QED
  BY <1>1, FS_Subset, FS_CardinalityType, FS_RemoveElement

LEMMA PartialSumsExist ==
  ASSUME NEW S, IsFiniteSet(S), NEW f, \A x \in S : f[x] \in Int
  PROVE  \E g \in [SUBSET S -> Int] : PartialSums(g, f, S)
<1> DEFINE Below(g, n) == \A s \in SUBSET S : Cardinality(s) <= n =>
                            g[s] = IF s = {} THEN 0 ELSE f[AnyOf(s)] + g[s \ {AnyOf(s)}]
           N == {n \in Nat : \E g \in [SUBSET S -> Int] : Below(g, n)}
<1>1. \A s \in SUBSET S : s # {} =>
        /\ AnyOf(s) \in s /\ s \ {AnyOf(s)} \in SUBSET S
        /\ Cardinality(s) \in Nat /\ Cardinality(s \ {AnyOf(s)}) = Cardinality(s) - 1
  BY HeadLeavesLess
<1>2. 0 \in N
  <2> DEFINE g == [s \in SUBSET S |-> 0]
  <2>1. g \in [SUBSET S -> Int]
    OBVIOUS
  <2>2. \A s \in SUBSET S : Cardinality(s) <= 0 => s = {}
    <3>1. \A s \in SUBSET S : IsFiniteSet(s) /\ Cardinality(s) \in Nat
      BY FS_Subset, FS_CardinalityType
    <3>2. \A s \in SUBSET S : Cardinality(s) <= 0 => Cardinality(s) = 0
      BY <3>1
    <3> QED
      BY <3>1, <3>2, FS_EmptySet
  <2> QED
    BY <2>1, <2>2
<1>3. ASSUME NEW n \in Nat, n \in N
      PROVE  n + 1 \in N
  <2>1. PICK g \in [SUBSET S -> Int] : Below(g, n)
    BY <1>3
  <2> DEFINE h == [s \in SUBSET S |-> IF s = {} THEN 0 ELSE f[AnyOf(s)] + g[s \ {AnyOf(s)}]]
  <2>2. h \in [SUBSET S -> Int]
    <3>1. \A s \in SUBSET S : s # {} => f[AnyOf(s)] \in Int /\ g[s \ {AnyOf(s)}] \in Int
      BY <1>1
    <3>2. \A s \in SUBSET S : s # {} => f[AnyOf(s)] + g[s \ {AnyOf(s)}] \in Int
      BY <3>1
    <3> QED
      BY <3>2
  <2>3. \A s \in SUBSET S : Cardinality(s) <= n => h[s] = g[s]
    BY <2>1
  <2>4. \A s \in SUBSET S : h[s] = IF s = {} THEN 0 ELSE f[AnyOf(s)] + g[s \ {AnyOf(s)}]
    OBVIOUS
  <2> HIDE DEF h
  <2>5. Below(h, n + 1)
    <3> SUFFICES ASSUME NEW s \in SUBSET S, Cardinality(s) <= n + 1
                 PROVE  h[s] = IF s = {} THEN 0 ELSE f[AnyOf(s)] + h[s \ {AnyOf(s)}]
      OBVIOUS
    <3>1. CASE s = {}
      BY <2>4, <3>1
    <3>2. CASE s # {}
      <4>1. s \ {AnyOf(s)} \in SUBSET S /\ Cardinality(s \ {AnyOf(s)}) <= n
        BY <1>1, <3>2
      <4>2. h[s \ {AnyOf(s)}] = g[s \ {AnyOf(s)}]
        BY <2>3, <4>1
      <4> QED
        BY <2>4, <3>2, <4>2
    <3> QED
      BY <3>1, <3>2
  <2> HIDE DEF Below
  <2>6. \E k \in [SUBSET S -> Int] : Below(k, n + 1)
    BY <2>2, <2>5
  <2> QED
    BY <2>6
<1> HIDE DEF N
<1>4. Cardinality(S) \in N
  BY <1>2, <1>3, NumbersByInduction, FS_CardinalityType
<1>5. PICK g \in [SUBSET S -> Int] : Below(g, Cardinality(S))
  BY <1>4 DEF N
<1>6. \A s \in SUBSET S : Cardinality(s) <= Cardinality(S)
  BY FS_Subset
<1>7. g = [s \in SUBSET S |-> IF s = {} THEN 0 ELSE f[AnyOf(s)] + g[s \ {AnyOf(s)}]]
  BY <1>5, <1>6
<1> QED
  BY <1>7 DEF PartialSums

LEMMA PartialSumsAgree ==
  ASSUME NEW S, IsFiniteSet(S), NEW T \in SUBSET S, NEW f, NEW g, NEW h,
         PartialSums(g, f, S), PartialSums(h, f, T)
  PROVE  \A s \in SUBSET T : g[s] = h[s]
<1> DEFINE N == {n \in Nat : \A s \in SUBSET T : Cardinality(s) = n => g[s] = h[s]}
<1>1. \A s \in SUBSET T : Cardinality(s) \in Nat
  BY FS_Subset, FS_CardinalityType
<1>2. \A s \in SUBSET T : s # {} =>
        s \ {AnyOf(s)} \in SUBSET T /\ Cardinality(s \ {AnyOf(s)}) = Cardinality(s) - 1
  BY HeadLeavesLess
<1>3. \A s \in SUBSET T :
        /\ g[s] = IF s = {} THEN 0 ELSE f[AnyOf(s)] + g[s \ {AnyOf(s)}]
        /\ h[s] = IF s = {} THEN 0 ELSE f[AnyOf(s)] + h[s \ {AnyOf(s)}]
  BY DEF PartialSums
<1>4. 0 \in N
  <2>1. \A s \in SUBSET T : Cardinality(s) = 0 => s = {}
    BY FS_Subset, FS_EmptySet
  <2> QED
    BY <1>3, <2>1
<1>5. ASSUME NEW n \in Nat, n \in N
      PROVE  n + 1 \in N
  <2> SUFFICES ASSUME NEW s \in SUBSET T, Cardinality(s) = n + 1
               PROVE  g[s] = h[s]
    OBVIOUS
  <2>1. CASE s = {}
    BY <1>3, <2>1
  <2>2. CASE s # {}
    <3>1. g[s \ {AnyOf(s)}] = h[s \ {AnyOf(s)}]
      BY <1>2, <1>5, <2>2
    <3> QED
      BY <1>3, <2>2, <3>1
  <2> QED
    BY <2>1, <2>2
<1> HIDE DEF N
<1>6. Nat \subseteq N
  BY <1>4, <1>5, NumbersByInduction
<1> QED
  BY <1>1, <1>6 DEF N

Total(f, S) == SumFunctionOnSet(f, S)

Tabulates(g, f, S) ==
  PartialSums(g, f, S) /\ \A T \in SUBSET S : Total(f, T) = g[T]

LEMMA SumsArePartialSums ==
  ASSUME NEW S, IsFiniteSet(S), NEW f, \A x \in S : f[x] \in Int
  PROVE  \E g \in [SUBSET S -> Int] : Tabulates(g, f, S)
<1>1. PICK g \in [SUBSET S -> Int] : PartialSums(g, f, S)
  BY PartialSumsExist
<1>2. ASSUME NEW T \in SUBSET S
      PROVE  Total(f, T) = g[T]
  <2> DEFINE h == CHOOSE k : PartialSums(k, f, T)
  <2>1. Total(f, T) = h[T]
    BY DEF Total, SumFunctionOnSet, FoldFunctionOnSet, MapThenFoldSet, PartialSums, AnyOf
  <2>2. IsFiniteSet(T) /\ \A x \in T : f[x] \in Int
    BY FS_Subset
  <2>3. \E k : PartialSums(k, f, T)
    BY <2>2, PartialSumsExist
  <2>4. PartialSums(h, f, T)
    BY <2>3
  <2> HIDE DEF h
  <2>5. g[T] = h[T]
    BY <1>1, <2>4, PartialSumsAgree
  <2> QED
    BY <2>1, <2>5
<1> QED
  BY <1>1, <1>2 DEF Tabulates

\* The sum over nothing, and over a set by one of its elements.
LEMMA SumOfNone ==
  ASSUME NEW f
  PROVE  Total(f, {}) = 0
<1>1. IsFiniteSet({}) /\ \A x \in {} : f[x] \in Int
  BY FS_EmptySet
<1>2. PICK g \in [SUBSET {} -> Int] : Tabulates(g, f, {})
  BY <1>1, SumsArePartialSums
<1> QED
  BY <1>2 DEF Tabulates, PartialSums

LEMMA SumByHead ==
  ASSUME NEW S, IsFiniteSet(S), NEW f, \A x \in S : f[x] \in Int
  PROVE  /\ Total(f, S) \in Int
         /\ S # {} => Total(f, S)
                        = f[AnyOf(S)] + Total(f, S \ {AnyOf(S)})
<1>1. PICK g \in [SUBSET S -> Int] : Tabulates(g, f, S)
  BY SumsArePartialSums
<1>2. g[S] \in Int /\ (S # {} => g[S] = f[AnyOf(S)] + g[S \ {AnyOf(S)}])
  BY <1>1 DEF Tabulates, PartialSums
<1> QED
  BY <1>1, <1>2 DEF Tabulates

LEMMA SumByElement ==
  ASSUME NEW S, IsFiniteSet(S), NEW f, \A x \in S : f[x] \in Int
  PROVE  \A x \in S : Total(f, S) = f[x] + Total(f, S \ {x})
<1> DEFINE N == {n \in Nat : \A T \in SUBSET S : Cardinality(T) = n =>
                               \A x \in T : Total(f, T) = f[x] + Total(f, T \ {x})}
<1>1. \A T \in SUBSET S : /\ IsFiniteSet(T) /\ Cardinality(T) \in Nat
                          /\ \A x \in T : Cardinality(T \ {x}) = Cardinality(T) - 1
  BY FS_Subset, FS_CardinalityType, FS_RemoveElement
<1>2. \A T \in SUBSET S : Total(f, T) \in Int
  BY <1>1, SumByHead
<1>3. \A T \in SUBSET S : T # {} => AnyOf(T) \in T /\ Total(f, T) = f[AnyOf(T)] + Total(f, T \ {AnyOf(T)})
  BY <1>1, SumByHead, HeadLeavesLess
<1>4. 0 \in N
  BY <1>1, FS_EmptySet
<1>5. ASSUME NEW n \in Nat, n \in N
      PROVE  n + 1 \in N
  <2> SUFFICES ASSUME NEW T \in SUBSET S, Cardinality(T) = n + 1, NEW x \in T
               PROVE  Total(f, T) = f[x] + Total(f, T \ {x})
    OBVIOUS
  <2>1. PICK h \in T : h = AnyOf(T) /\ Total(f, T) = f[h] + Total(f, T \ {h})
    BY <1>3
  <2>2. CASE x = h
    BY <2>1, <2>2
  <2>3. CASE x # h
    <3>1. /\ T \ {h} \in SUBSET S /\ Cardinality(T \ {h}) = n /\ x \in T \ {h}
          /\ T \ {x} \in SUBSET S /\ Cardinality(T \ {x}) = n /\ h \in T \ {x}
      BY <1>1, <2>3
    <3>2. Total(f, T \ {h}) = f[x] + Total(f, (T \ {h}) \ {x})
      BY <1>5, <3>1
    <3>3. Total(f, T \ {x}) = f[h] + Total(f, (T \ {x}) \ {h})
      BY <1>5, <3>1
    <3>4. (T \ {h}) \ {x} = (T \ {x}) \ {h}
      OBVIOUS
    <3>5. Total(f, (T \ {h}) \ {x}) \in Int /\ f[x] \in Int /\ f[h] \in Int
      BY <1>2
    <3>6. Total(f, T \ {h}) \in Int /\ Total(f, T \ {x}) \in Int
      BY <1>2, <3>1
    <3>7. Total(f, T) = f[h] + (f[x] + Total(f, (T \ {h}) \ {x}))
      BY <2>1, <3>2
    <3>8. f[x] + Total(f, T \ {x}) = f[x] + (f[h] + Total(f, (T \ {h}) \ {x}))
      BY <3>3, <3>4
    <3> QED
      BY <3>5, <3>7, <3>8
  <2> QED
    BY <2>2, <2>3
<1> HIDE DEF N
<1>6. Cardinality(S) \in N
  BY <1>1, <1>4, <1>5, NumbersByInduction
<1> QED
  BY <1>6 DEF N

LEMMA TotalIsInt ==
  ASSUME NEW S, IsFiniteSet(S), NEW f, \A x \in S : f[x] \in Int
  PROVE  Total(f, S) \in Int
BY SumByHead

LEMMA TotalWithElement ==
  ASSUME NEW S, IsFiniteSet(S), NEW f, \A y \in S : f[y] \in Int,
         NEW x, x \notin S, f[x] \in Int
  PROVE  Total(f, S \cup {x}) = Total(f, S) + f[x]
<1>1. IsFiniteSet(S \cup {x}) /\ \A y \in S \cup {x} : f[y] \in Int
  BY FS_AddElement
<1>2. Total(f, S \cup {x}) = f[x] + Total(f, (S \cup {x}) \ {x})
  BY <1>1, SumByElement
<1>3. (S \cup {x}) \ {x} = S
  OBVIOUS
<1>4. Total(f, S) \in Int
  BY TotalIsInt
<1>5. Total(f, S \cup {x}) = f[x] + Total(f, S)
  BY <1>2, <1>3
<1> QED
  BY <1>4, <1>5

\* The total of a function that agrees on S, by whatever name.
LEMMA TotalsAgree ==
  ASSUME NEW S, IsFiniteSet(S), NEW f, \A x \in S : f[x] \in Int,
         NEW g, \A x \in S : g[x] = f[x]
  PROVE  Total(g, S) = Total(f, S)
<1> DEFINE P == {T \in SUBSET S : Total(g, T) = Total(f, T)}
<1>1. {} \in P
  BY SumOfNone
<1>2. ASSUME NEW T \in SUBSET S, NEW x \in S, T \in P, x \notin T
      PROVE  T \cup {x} \in P
  <2>1. IsFiniteSet(T)
    BY FS_Subset
  <2>2. Total(f, T \cup {x}) = Total(f, T) + f[x]
    BY <2>1, <1>2, TotalWithElement
  <2>3. Total(g, T \cup {x}) = Total(g, T) + g[x]
    BY <2>1, <1>2, TotalWithElement
  <2> QED
    BY <1>2, <2>2, <2>3
<1> HIDE DEF P
<1>3. SUBSET S \subseteq P
  BY <1>1, <1>2, SubsetsByInduction
<1> QED
  BY <1>3 DEF P

\* Two disjoint sets are added up apart.
LEMMA TotalOfParts ==
  ASSUME NEW S, IsFiniteSet(S), NEW f, NEW R, IsFiniteSet(R), R \cap S = {},
         \A x \in R \cup S : f[x] \in Int
  PROVE  Total(f, R \cup S) = Total(f, R) + Total(f, S)
<1> DEFINE P == {T \in SUBSET S : Total(f, R \cup T) = Total(f, R) + Total(f, T)}
<1>1. Total(f, R) \in Int /\ \A T \in SUBSET S : IsFiniteSet(T) /\ Total(f, T) \in Int
  BY FS_Subset, TotalIsInt
<1>2. {} \in P
  <2>1. R \cup {} = R
    OBVIOUS
  <2> QED
    BY <1>1, <2>1, SumOfNone
<1>3. ASSUME NEW T \in SUBSET S, NEW x \in S, T \in P, x \notin T
      PROVE  T \cup {x} \in P
  <2>1. IsFiniteSet(R \cup T) /\ x \notin R \cup T /\ f[x] \in Int
    BY <1>1, <1>3, FS_Union
  <2>2. Total(f, (R \cup T) \cup {x}) = Total(f, R \cup T) + f[x]
    BY <2>1, TotalWithElement
  <2>3. Total(f, T \cup {x}) = Total(f, T) + f[x]
    BY <1>1, <1>3, <2>1, TotalWithElement
  <2>4. (R \cup T) \cup {x} = R \cup (T \cup {x})
    OBVIOUS
  <2>5. Total(f, R \cup T) = Total(f, R) + Total(f, T)
    BY <1>3
  <2>6. Total(f, R) + Total(f, T) + f[x] = Total(f, R) + (Total(f, T) + f[x])
    BY <1>1, <2>1
  <2>7. Total(f, R \cup (T \cup {x})) = Total(f, R) + Total(f, T \cup {x})
    BY <2>2, <2>3, <2>4, <2>5, <2>6
  <2> QED
    BY <2>7
<1> HIDE DEF P
<1>4. SUBSET S \subseteq P
  BY <1>2, <1>3, SubsetsByInduction
<1> QED
  BY <1>4 DEF P

\* Two disjoint sets are counted apart.
LEMMA CountOfParts ==
  ASSUME NEW R, NEW S, IsFiniteSet(R), IsFiniteSet(S), R \cap S = {}
  PROVE  Cardinality(R \cup S) = Cardinality(R) + Cardinality(S)
<1>1. /\ Cardinality(R) \in Nat /\ Cardinality(S) \in Nat /\ Cardinality(R \cap S) = 0
  BY FS_CardinalityType, FS_EmptySet
<1>2. Cardinality(R \cup S) = Cardinality(R) + Cardinality(S) - Cardinality(R \cap S)
  BY FS_Union
<1> QED
  BY <1>1, <1>2

\* Counting the elements of S class by class.
LEMMA CountByClass ==
  ASSUME NEW S, IsFiniteSet(S), NEW K, IsFiniteSet(K), NEW class
  PROVE  Cardinality({x \in S : class[x] \in K})
           = Total([k \in K |-> Cardinality({x \in S : class[x] = k})], K)
<1> DEFINE count == [k \in K |-> Cardinality({x \in S : class[x] = k})]
           Of(L) == {x \in S : class[x] \in L}
           P == {L \in SUBSET K : Cardinality(Of(L)) = Total(count, L)}
<1>1. \A L \in SUBSET K : IsFiniteSet(Of(L)) /\ Cardinality(Of(L)) \in Nat
  BY FS_Subset, FS_CardinalityType
<1>2. ASSUME NEW k \in K
      PROVE  count[k] = Cardinality(Of({k})) /\ count[k] \in Int
  <2>1. Of({k}) = {x \in S : class[x] = k} /\ {k} \in SUBSET K
    OBVIOUS
  <2>2. count[k] = Cardinality(Of({k}))
    BY <2>1
  <2> HIDE DEF count, Of
  <2> QED
    BY <1>1, <2>1, <2>2
<1>3. {} \in P
  BY SumOfNone, FS_EmptySet
<1> HIDE DEF count
<1>4. ASSUME NEW L \in SUBSET K, NEW k \in K, L \in P, k \notin L
      PROVE  L \cup {k} \in P
  <2>1. Total(count, L \cup {k}) = Total(count, L) + count[k]
    <3>1. IsFiniteSet(L) /\ \A l \in L : count[l] \in Int
      BY <1>2, FS_Subset
    <3>2. count[k] \in Int /\ k \notin L
      BY <1>2, <1>4
    <3> QED
      BY <3>1, <3>2, TotalWithElement
  <2>2. Of(L \cup {k}) = Of(L) \cup Of({k}) /\ Of(L) \cap Of({k}) = {}
    BY <1>4
  <2>3. Cardinality(Of(L \cup {k})) = Cardinality(Of(L)) + Cardinality(Of({k}))
    <3> HIDE DEF Of
    <3>1. IsFiniteSet(Of(L)) /\ IsFiniteSet(Of({k}))
      BY <1>1
    <3> QED
      BY <2>2, <3>1, CountOfParts
  <2> HIDE DEF Of
  <2> QED
    BY <1>2, <1>4, <2>1, <2>3
<1> HIDE DEF P, Of
<1>5. SUBSET K \subseteq P
  BY <1>3, <1>4, SubsetsByInduction
<1> QED
  BY <1>5 DEF P, Of, count

-----------------------------------------------------------------------------
(* What a node leaves of a run.                                            *)

Named == RuleNames \cup {None}

LEMMA AdvanceCarries ==
  ASSUME GInv, NEW r \in Runners, NEW left, Advance(r, left), DOMAIN left = Fields
  PROVE  /\ run'[r].case = left.case /\ run'[r].actions_today = left.actions_today
         /\ run'[r].exposure = left.exposure /\ run'[r].rule = left.rule
         /\ run'[r].status = left.status /\ run'[r].decision = left.decision
         /\ run'[r].attempt_no = left.attempt_no
         /\ at'[r] \in {"raised", "ended"} \cup ({NextNode(at[r], left)} \ {None})
<1> DEFINE s == [left EXCEPT !.visits = @ + 1]
<1>1. PICK n \in {NextNode(at[r], s)} :
        /\ run' = [run EXCEPT ![r] = s]
        /\ at' = [at EXCEPT ![r] =
             IF \/ s.llm_calls > max_llm_calls
                \/ n # None /\ s.visits >= MAX_NODE_VISITS THEN "raised"
             ELSE IF n = None THEN "ended" ELSE n]
  BY DEF Advance
<1>2. /\ s.case = left.case /\ s.status = left.status /\ s.rule = left.rule
      /\ s.attempt_no = left.attempt_no /\ s.diagnosis = left.diagnosis
      /\ s.proposal = left.proposal /\ s.decision = left.decision
      /\ s.actions_today = left.actions_today /\ s.exposure = left.exposure
  BY DEF Fields
<1> HIDE DEF s
<1>3. NextNode(at[r], s) = NextNode(at[r], left)
  BY <1>2 DEF NextNode
<1>4. run'[r] = s
  BY <1>1 DEF GInv, Shapes
<1>5. at'[r] \in {"raised", "ended"} \cup ({n} \ {None})
  BY <1>1 DEF GInv, Shapes
<1> QED BY <1>1, <1>2, <1>3, <1>4, <1>5

\* The proposal of a case is decided upon in the light of its facts.
Asked(s) == [amount |-> facts[s.case].amount, attempt_no |-> s.attempt_no + 1,
             arm |-> facts[s.case].arm, stopping |-> Context(s), approved |-> None]

Carries(r, left) ==
  /\ left.case = run[r].case /\ left.actions_today = run[r].actions_today
  /\ left.exposure = run[r].exposure
  /\ left.rule \in Named \cup {run[r].rule}
  /\ at[r] # "EXECUTE" => left.attempt_no = run[r].attempt_no
  /\ at[r] = "AUDIT" => left.status = run[r].status
  /\ at[r] \in {"EXECUTE", "AUDIT"} => left.decision = run[r].decision
  /\ at[r] = "POLICY" => left.decision = EvaluatePolicy(run[r].proposal, Asked(run[r]))

LEMMA NodeCarries ==
  ASSUME GInv, NEW r \in Runners, Node(r)
  PROVE  /\ at[r] \in Nodes
         /\ \E left : /\ DOMAIN left = Fields /\ Carries(r, left)
                      /\ Advance(r, left) \/ (NodeRaises(r) /\ run'[r] = left)
<1> DEFINE s == run[r]
           Leaves(left) == DOMAIN left = Fields /\ Carries(r, left) /\ Advance(r, left)
<1>1. at[r] \in Nodes
  BY DEF Node, Nodes, Enrich, Triage, Diagnose, Strategise, Policy, Execute, Escalate, Audit,
         NodeRaises
<1>2. DOMAIN s = Fields
  BY <1>1, AtNode
<1>3. CASE Enrich(r) \/ Audit(r)
  <2>1. Advance(r, s) /\ at[r] \in {"ENRICH", "AUDIT"}
    BY <1>3 DEF Enrich, Audit
  <2>2. Leaves(s)
    BY <1>2, <2>1 DEF Carries
  <2> QED BY <1>1, <2>2
<1>4. CASE Triage(r)
  <2>1. PICK v \in {Evaluate(Context(s))} :
          Advance(r, IF v.decision # "STOP" THEN [s EXCEPT !.status = "TRIAGED"]
                     ELSE [s EXCEPT !.rule = v.rule, !.status =
                       IF v.status = None THEN "SUPPRESSED" ELSE v.status])
    BY <1>4 DEF Triage
  <2>2. v.rule \in Named /\ at[r] = "TRIAGE"
    BY <1>4, <2>1, VerdictIsNamed DEF Triage, Named
  <2>3. CASE v.decision # "STOP"
    <3> DEFINE left == [s EXCEPT !.status = "TRIAGED"]
    <3>1. Advance(r, left)
      BY <2>1, <2>3
    <3>2. DOMAIN left = Fields /\ Carries(r, left)
      BY <1>2, <2>2 DEF Carries, Fields
    <3> HIDE DEF left
    <3> QED BY <1>1, <3>1, <3>2
  <2>4. CASE v.decision = "STOP"
    <3> DEFINE left == [s EXCEPT !.rule = v.rule, !.status =
                          IF v.status = None THEN "SUPPRESSED" ELSE v.status]
    <3>1. Advance(r, left)
      BY <2>1, <2>4
    <3>2. DOMAIN left = Fields /\ Carries(r, left)
      BY <1>2, <2>2 DEF Carries, Fields
    <3> HIDE DEF left
    <3> QED BY <1>1, <3>1, <3>2
  <2> QED BY <2>3, <2>4
<1>5. CASE Diagnose(r)
  <2>1. PICK diagnosis, calls :
          Advance(r, [s EXCEPT !.status = "DIAGNOSING", !.diagnosis = diagnosis,
                               !.llm_calls = @ + calls])
    BY <1>5 DEF Diagnose
  <2> DEFINE left == [s EXCEPT !.status = "DIAGNOSING", !.diagnosis = diagnosis,
                               !.llm_calls = @ + calls]
  <2>2. at[r] = "DIAGNOSE"
    BY <1>5 DEF Diagnose
  <2>3. DOMAIN left = Fields /\ Carries(r, left)
    BY <1>2, <2>2 DEF Carries, Fields
  <2>4. Advance(r, left)
    BY <2>1
  <2> HIDE DEF left
  <2> QED BY <1>1, <2>3, <2>4
<1>6. CASE Strategise(r)
  <2>1. PICK p, calls :
          Advance(r, [s EXCEPT !.status = "STRATEGY_FORMED", !.proposal = p,
                               !.llm_calls = @ + calls])
    BY <1>6 DEF Strategise
  <2> DEFINE left == [s EXCEPT !.status = "STRATEGY_FORMED", !.proposal = p,
                               !.llm_calls = @ + calls]
  <2>2. at[r] = "STRATEGISE"
    BY <1>6 DEF Strategise
  <2>3. DOMAIN left = Fields /\ Carries(r, left)
    BY <1>2, <2>2 DEF Carries, Fields
  <2>4. Advance(r, left)
    BY <2>1
  <2> HIDE DEF left
  <2> QED BY <1>1, <2>3, <2>4
<1>7. CASE Policy(r)
  <2> DEFINE d == EvaluatePolicy(s.proposal, Asked(s))
             left == [s EXCEPT !.decision = d, !.rule = d.stopping.rule, !.status =
                        CASE d.verdict = "PASSED"        -> "EXECUTING"
                          [] d.verdict = "ESCALATE_HITL" -> "AWAITING_APPROVAL"
                          [] d.verdict = "BLOCKED"       -> BlockedStatus(d)]
  <2>1. at[r] = "POLICY" /\ Advance(r, left)
    BY <1>7 DEF Policy, Asked
  <2>2. d.stopping.rule \in Named
    <3>1. d.stopping = Evaluate(StoppingContext(s.proposal, Asked(s)))
      BY DEF EvaluatePolicy
    <3> QED BY <3>1, VerdictIsNamed DEF Named
  <2> HIDE DEF d
  <2>3. DOMAIN left = Fields /\ left.decision = d /\ left.rule = d.stopping.rule
        /\ left.case = s.case /\ left.actions_today = s.actions_today
        /\ left.exposure = s.exposure /\ left.attempt_no = s.attempt_no
    BY <1>2 DEF Fields
  <2> HIDE DEF left
  <2>4. Carries(r, left)
    BY <2>1, <2>2, <2>3 DEF Carries, d
  <2> QED BY <1>1, <2>1, <2>3, <2>4
<1>8. CASE Execute(r)
  <2>1. PICK left : /\ Advance(r, left)
                    /\ \/ left = [s EXCEPT !.status = "SUPPRESSED"]
                       \/ left = [s EXCEPT !.status = "MONITORING", !.attempt_no = @ + 1,
                            !.discounts = @ + IF s.decision.applied.pct > 0 THEN 1 ELSE 0]
    BY <1>8 DEF Execute
  <2>2. at[r] = "EXECUTE"
    BY <1>8 DEF Execute
  <2>3. DOMAIN left = Fields /\ Carries(r, left)
    <3>1. CASE left = [s EXCEPT !.status = "SUPPRESSED"]
      BY <1>2, <2>2, <3>1 DEF Carries, Fields
    <3>2. CASE left = [s EXCEPT !.status = "MONITORING", !.attempt_no = @ + 1,
                         !.discounts = @ + IF s.decision.applied.pct > 0 THEN 1 ELSE 0]
      <4>1. /\ DOMAIN left = Fields /\ left.case = s.case
            /\ left.actions_today = s.actions_today /\ left.exposure = s.exposure
            /\ left.rule = s.rule /\ left.decision = s.decision
        BY <1>2, <3>2 DEF Fields
      <4> QED BY <2>2, <4>1 DEF Carries
    <3> QED BY <2>1, <3>1, <3>2
  <2> QED BY <1>1, <2>1, <2>3
<1>9. CASE Escalate(r)
  <2> DEFINE left == [s EXCEPT !.status = "AWAITING_APPROVAL"]
  <2>1. at[r] = "ESCALATE" /\ Advance(r, left)
    BY <1>9 DEF Escalate
  <2>2. DOMAIN left = Fields /\ Carries(r, left)
    BY <1>2, <2>1 DEF Carries, Fields
  <2> HIDE DEF left
  <2> QED BY <1>1, <2>1, <2>2
<1>10. CASE NodeRaises(r)
  <2> DEFINE left == [s EXCEPT !.status = "FAILED_PERMANENT", !.visits = @ + 2]
  <2>1. run'[r] = left /\ at[r] \in {"DIAGNOSE", "STRATEGISE"}
    BY <1>10 DEF NodeRaises, GInv, Shapes
  <2>2. DOMAIN left = Fields /\ Carries(r, left)
    BY <1>2, <2>1 DEF Carries, Fields
  <2> HIDE DEF left
  <2> QED BY <1>1, <1>10, <2>1, <2>2
<1> QED BY <1>3, <1>4, <1>5, <1>6, <1>7, <1>8, <1>9, <1>10 DEF Node

Running(r) == at[r] \in Nodes \cup {"ended"}

LEMMA NodeLeaves ==
  ASSUME GInv, GInv', NEW r \in Runners, Node(r)
  PROVE  /\ Running(r)
         /\ run'[r].case = run[r].case /\ run'[r].actions_today = run[r].actions_today
         /\ run'[r].exposure = run[r].exposure
         /\ run'[r].rule \in Named \cup {run[r].rule}
         /\ at'[r] \in Nodes \cup {"ended", "raised"}
         /\ at'[r] = "EXECUTE" =>
              /\ at[r] = "POLICY"
              /\ run'[r].decision = EvaluatePolicy(run[r].proposal, Asked(run[r]))
              /\ run'[r].decision.verdict = "PASSED"
         /\ at'[r] \in {"AUDIT", "ended"} /\ run'[r].status = "MONITORING" =>
              /\ at[r] = "EXECUTE" \/ (at[r] = "AUDIT" /\ run[r].status = "MONITORING")
              /\ run'[r].decision = run[r].decision
         /\ \A q \in Runners \ {r} : at'[q] = at[q] /\ run'[q] = run[q]
         /\ UNCHANGED <<facts, cases, batch>>
<1>1. at[r] \in Nodes
  BY NodeCarries
<1>2. PICK left : /\ DOMAIN left = Fields /\ Carries(r, left)
                  /\ Advance(r, left) \/ (NodeRaises(r) /\ run'[r] = left)
  BY NodeCarries
<1>3. \A q \in Runners \ {r} : at'[q] = at[q] /\ run'[q] = run[q]
  BY <1>2 DEF Advance, NodeRaises, GInv, Shapes
<1>4. UNCHANGED <<facts, cases, batch>>
  BY <1>2 DEF Advance, NodeRaises
<1>5. /\ run'[r].case = left.case /\ run'[r].actions_today = left.actions_today
      /\ run'[r].exposure = left.exposure /\ run'[r].rule = left.rule
      /\ run'[r].status = left.status /\ run'[r].decision = left.decision
      /\ run'[r].attempt_no = left.attempt_no
  BY <1>2, AdvanceCarries
<1>6. /\ at'[r] \in Nodes \cup {"ended", "raised"}
      /\ at'[r] = "EXECUTE" => at[r] = "POLICY" /\ left.decision.verdict = "PASSED"
  <2>1. CASE Advance(r, left)
    <3>1. at'[r] \in {"raised", "ended"} \cup ({NextNode(at[r], left)} \ {None})
      BY <1>2, <2>1, AdvanceCarries
    <3>2. NextNode(at[r], left) = "EXECUTE" =>
            at[r] = "POLICY" /\ left.decision.verdict = "PASSED"
      BY <1>1, GraphLimitsOK DEF NextNode, Nodes, GraphLimitsOK
    <3>3. NextNode(at[r], left) \in Nodes \cup {None}
      BY <1>1 DEF NextNode, Nodes
    <3> QED BY <3>1, <3>2, <3>3
  <2>2. CASE NodeRaises(r)
    BY <2>2 DEF NodeRaises, GInv, Shapes
  <2> QED BY <1>2, <2>1, <2>2
<1>7. at'[r] \in {"AUDIT", "ended"} /\ run'[r].status = "MONITORING" =>
         at[r] = "EXECUTE" \/ (at[r] = "AUDIT" /\ run[r].status = "MONITORING")
  <2> SUFFICES ASSUME at'[r] \in {"AUDIT", "ended"}, run'[r].status = "MONITORING",
                      at[r] # "EXECUTE"
               PROVE  at[r] = "AUDIT" /\ run[r].status = "MONITORING"
    OBVIOUS
  <2>1. run'[r].attempt_no = 1
    <3>1. InGraph(r, at[r], run[r])'
      BY DEF GInv, RunsKept, Nodes
    <3>2. Final(run'[r], facts'[run'[r].case])
      BY <3>1 DEF InGraph, Ready
    <3> QED BY <3>2 DEF Final
  <2>2. run[r].attempt_no = 1
    BY <1>2, <1>5, <2>1 DEF Carries
  <2>3. at[r] = "AUDIT"
    <3>1. Ready(at[r], run[r], facts[run[r].case])
      BY <1>1, AtNode
    <3> QED BY <1>1, <2>2, <3>1 DEF Ready, Nodes
  <2> QED BY <1>2, <1>5, <2>3 DEF Carries
<1> QED BY <1>1, <1>2, <1>3, <1>4, <1>5, <1>6, <1>7 DEF Carries, Running

-----------------------------------------------------------------------------
(* The books.                                                              *)

\* What the columns of a row say of the money, the reviewer and the rule.
Booked(row, amount) ==
  /\ row.recovered = (IF row.status = "RECOVERED" THEN amount ELSE 0)
  /\ row.via = (IF row.status = "RECOVERED" THEN "SIMULATOR" ELSE "NONE")
  /\ row.approval # None <=> row.status = "AWAITING_APPROVAL"
  /\ row.rule \in Named

RowsBooked ==
  /\ IsFiniteSet(Rows)
  /\ \A c \in Rows : Booked(cases[c], facts[c].amount) /\ (c \in Requests => ~cases[c].paid)

RunsNamed == \A r \in Runners : Running(r) => run[r].rule \in Named

LEMMA RunsStayNamed ==
  ASSUME RunsNamed, NEW r \in Runners,
         \A q \in Runners \ {r} : at'[q] = at[q] /\ run'[q] = run[q],
         at'[r] \in Nodes \cup {"ended"} => run'[r].rule \in Named
  PROVE  RunsNamed'
<1>1. ASSUME NEW q \in Runners, at'[q] \in Nodes \cup {"ended"}
      PROVE  run'[q].rule \in Named
  BY <1>1 DEF RunsNamed, Running
<1> QED BY <1>1 DEF RunsNamed, Running, Named

\* A row is written.
LEMMA RowIsBooked ==
  ASSUME GInv, RowsBooked, UNCHANGED facts, NEW c \in CaseIds, NEW row,
         cases' = [cases EXCEPT ![c] = row],
         Booked(row, facts[c].amount), c \in Requests => ~row.paid
  PROVE  RowsBooked'
<1>1. \A d \in CaseIds : cases'[d] = IF d = c THEN row ELSE cases[d]
  BY DEF GInv, Shapes
<1>2. IsFiniteSet(Rows')
  <2>1. Rows' \in SUBSET (Rows \cup {c})
    BY <1>1 DEF Rows
  <2> QED BY <2>1, FS_AddElement, FS_Subset DEF RowsBooked
<1>3. ASSUME NEW d \in Rows'
      PROVE  Booked(cases'[d], facts'[d].amount) /\ (d \in Requests => ~cases'[d].paid)
  BY <1>1 DEF Rows, RowsBooked
<1> QED BY <1>2, <1>3 DEF RowsBooked, Booked, Named

LEMMA RowsStayBooked ==
  ASSUME RowsBooked, UNCHANGED <<facts, cases>>
  PROVE  RowsBooked'
BY DEF RowsBooked, Rows, Booked, Named

LEMMA BatchKeepsBooks ==
  ASSUME GInv, GInv', RowsBooked, RunsNamed, NEW b \in Batches, Clear(b) \/ BatchStep(b)
  PROVE  RowsBooked' /\ RunsNamed'
<1>0. b \in Runners
  BY DEF Runners
<1>1. CASE Clear(b)
  <2>1. \A c \in CaseIds : cases'[c] = None
    BY <1>1 DEF Clear, NoCases
  <2>2. Rows' \in SUBSET Rows /\ \A c \in Rows' : cases'[c] = cases[c]
    BY <2>1 DEF Rows
  <2>3. UNCHANGED facts
    BY <1>1 DEF Clear
  <2>4. RowsBooked'
    <3>1. IsFiniteSet(Rows')
      BY <2>2, FS_Subset DEF RowsBooked
    <3> QED BY <2>2, <2>3, <3>1 DEF RowsBooked, Booked, Named
  <2>5. /\ \A q \in Runners \ {b} : at'[q] = at[q] /\ run'[q] = run[q]
        /\ at'[b] \notin Nodes \cup {"ended"}
    BY <1>0, <1>1 DEF Clear, GInv, Shapes, Nodes
  <2> QED BY <1>0, <2>4, <2>5, RunsStayNamed
<1>2. CASE LoadMerchants(b) \/ SkipAttempt(b) \/ BatchComplete(b) \/ PersistLost(b)
  <2>1. /\ \A q \in Runners \ {b} : at'[q] = at[q] /\ run'[q] = run[q]
        /\ at'[b] \notin Nodes \cup {"ended"}
    BY <1>0, <1>2
       DEF LoadMerchants, SkipAttempt, BatchComplete, PersistLost, GInv, Shapes, Nodes
  <2>2. UNCHANGED <<facts, cases>>
    BY <1>2 DEF LoadMerchants, SkipAttempt, BatchComplete, PersistLost
  <2> QED BY <1>0, <2>1, <2>2, RunsStayNamed, RowsStayBooked
<1>3. CASE BeginCase(b)
  <2>1. /\ \A q \in Runners \ {b} : at'[q] = at[q] /\ run'[q] = run[q]
        /\ run'[b].rule = None
    BY <1>0, <1>3 DEF BeginCase, NewState, GInv, Shapes
  <2>2. UNCHANGED <<facts, cases>>
    BY <1>3 DEF BeginCase
  <2> QED BY <1>0, <2>1, <2>2, RunsStayNamed, RowsStayBooked DEF Named
<1>4. CASE Node(b)
  <2>1. run'[b].rule \in Named
    BY <1>0, <1>4, NodeLeaves DEF RunsNamed
  <2>2. \A q \in Runners \ {b} : at'[q] = at[q] /\ run'[q] = run[q]
    BY <1>0, <1>4, NodeLeaves
  <2>3. UNCHANGED <<facts, cases>>
    BY <1>0, <1>4, NodeLeaves
  <2> QED BY <1>0, <2>1, <2>2, <2>3, RunsStayNamed, RowsStayBooked
<1>5. CASE PersistCase(b)
  <2> DEFINE s == run[b]
  <2>1. /\ \A q \in Runners \ {b} : at'[q] = at[q] /\ run'[q] = run[q]
        /\ at'[b] \notin Nodes \cup {"ended"}
    BY <1>0, <1>5 DEF PersistCase, GInv, Shapes, Nodes
  <2>2. RowsBooked'
    <3>1. CASE UNCHANGED cases
      BY <1>5, <3>1, RowsStayBooked DEF PersistCase
    <3>2. CASE \E paid \in BOOLEAN : cases' = [cases EXCEPT ![s.case] = Row(s, paid)]
      <4>1. PICK paid \in BOOLEAN : cases' = [cases EXCEPT ![s.case] = Row(s, paid)]
        BY <3>2
      <4> DEFINE row == Row(s, paid)
      <4>2. at[b] = "ended" /\ UNCHANGED facts
        BY <1>5 DEF PersistCase
      <4>3. /\ s.case \in CaseIds \ Requests /\ Final(s, facts[s.case])
            /\ facts[s.case].arm \in {"TREATMENT", "CONTROL"} /\ s.rule \in Named
        BY <1>0, <4>2, AtNode DEF Ready, RunsNamed, Running
      <4>4. /\ row.status = Settled(s, paid) /\ row.rule = s.rule
            /\ row.recovered = (IF paid /\ Acted(s) THEN facts[s.case].amount ELSE 0)
            /\ row.via = (IF paid /\ Acted(s) THEN "SIMULATOR" ELSE "NONE")
            /\ row.approval = (IF Settled(s, paid) = "AWAITING_APPROVAL"
                               THEN s.decision.applied ELSE None)
        BY DEF Row
      <4>5. Settled(s, paid) = "RECOVERED" <=> paid /\ Acted(s)
        BY <4>3 DEF Settled, Final, Statuses, TERMINAL_STATUSES
      <4>6. Settled(s, paid) = "AWAITING_APPROVAL" => s.decision.applied # None
        BY <4>3 DEF Settled, Final
      <4> HIDE DEF row
      <4>7. Booked(row, facts[s.case].amount)
        BY <4>3, <4>4, <4>5, <4>6 DEF Booked
      <4> QED BY <4>1, <4>2, <4>3, <4>7, RowIsBooked DEF row
    <3> QED BY <1>5, <3>1, <3>2 DEF PersistCase
  <2> QED BY <1>0, <2>1, <2>2, RunsStayNamed
<1> QED BY <1>1, <1>2, <1>3, <1>4, <1>5 DEF BatchStep

LEMMA RequestKeepsBooks ==
  ASSUME GInv, GInv', RowsBooked, RunsNamed, NEW q \in Requests, Recover(q) \/ RequestStep(q)
  PROVE  RowsBooked' /\ RunsNamed'
<1>0. q \in Runners /\ q \in CaseIds
  BY DEF Runners, CaseIds
<1>1. CASE Recover(q)
  <2>1. /\ \A r \in Runners \ {q} : at'[r] = at[r] /\ run'[r] = run[r]
        /\ run'[q].rule = None
    BY <1>0, <1>1 DEF Recover, NewState, GInv, Shapes
  <2>2. UNCHANGED <<facts, cases>>
    BY <1>1 DEF Recover
  <2> QED BY <1>0, <2>1, <2>2, RunsStayNamed, RowsStayBooked DEF Named
<1>2. CASE Node(q)
  <2>1. run'[q].rule \in Named
    BY <1>0, <1>2, NodeLeaves DEF RunsNamed
  <2>2. \A r \in Runners \ {q} : at'[r] = at[r] /\ run'[r] = run[r]
    BY <1>0, <1>2, NodeLeaves
  <2>3. UNCHANGED <<facts, cases>>
    BY <1>0, <1>2, NodeLeaves
  <2> QED BY <1>0, <2>1, <2>2, <2>3, RunsStayNamed, RowsStayBooked
<1>3. CASE \/ Refuse(q) \/ CallRazorpay(q) \/ RecordSent(q) \/ RecordRefusal(q)
           \/ UpdateNothing(q)
  <2>1. /\ \A r \in Runners \ {q} : at'[r] = at[r] /\ run'[r] = run[r]
        /\ at'[q] \notin Nodes \cup {"ended"}
    BY <1>0, <1>3
       DEF Refuse, CallRazorpay, RecordSent, RecordRefusal, UpdateNothing, GInv, Shapes, Nodes
  <2>2. UNCHANGED <<facts, cases>>
    BY <1>3 DEF Refuse, CallRazorpay, RecordSent, RecordRefusal, UpdateNothing
  <2> QED BY <1>0, <2>1, <2>2, RunsStayNamed, RowsStayBooked
<1>4. CASE CommitIntent(q)
  <2> DEFINE row == IntentRow(CategoryOf(run[q]))
  <2>1. /\ \A r \in Runners \ {q} : at'[r] = at[r] /\ run'[r] = run[r]
        /\ at'[q] \notin Nodes \cup {"ended"}
    BY <1>0, <1>4 DEF CommitIntent, GInv, Shapes, Nodes
  <2>2. /\ row.status = "MONITORING" /\ row.recovered = 0 /\ row.via = "NONE"
        /\ row.approval = None /\ row.rule = None /\ row.paid = FALSE
    BY DEF IntentRow
  <2>3. cases' = [cases EXCEPT ![q] = row] /\ UNCHANGED facts
    BY <1>4 DEF CommitIntent
  <2> HIDE DEF row
  <2>4. Booked(row, facts[q].amount)
    BY <2>2 DEF Booked, Named
  <2> QED BY <1>0, <2>1, <2>2, <2>3, <2>4, RunsStayNamed, RowIsBooked
<1> QED BY <1>1, <1>2, <1>3, <1>4 DEF RequestStep

LEMMA BooksHold == Spec => [](RowsBooked /\ RunsNamed)
<1>1. Init => RowsBooked /\ RunsNamed
  <2> SUFFICES ASSUME Init PROVE RowsBooked /\ RunsNamed
    OBVIOUS
  <2>1. Rows = {}
    BY DEF Init, Rows
  <2> QED BY <2>1, FS_EmptySet DEF Init, RowsBooked, RunsNamed, Running, Nodes
<1>2. GInv /\ GInv' /\ RowsBooked /\ RunsNamed /\ [Next]_vars => (RowsBooked /\ RunsNamed)'
  <2> SUFFICES ASSUME GInv, GInv', RowsBooked, RunsNamed, [Next]_vars
               PROVE  RowsBooked' /\ RunsNamed'
    OBVIOUS
  <2>1. CASE UNCHANGED vars
    BY <2>1, RowsStayBooked DEF vars, RunsNamed, Running
  <2>2. CASE \E b \in Batches : Clear(b) \/ BatchStep(b)
    BY <2>2, BatchKeepsBooks
  <2>3. CASE \E q \in Requests : Recover(q) \/ RequestStep(q)
    BY <2>3, RequestKeepsBooks
  <2>4. CASE \E r \in Runners : Die(r)
    <3>1. PICK r \in Runners : Die(r)
      BY <2>4
    <3>2. /\ \A q \in Runners \ {r} : at'[q] = at[q] /\ run'[q] = run[q]
          /\ at'[r] \notin Nodes \cup {"ended"}
      BY <3>1 DEF Die, GInv, Shapes, Nodes
    <3> QED BY <3>1, <3>2, RunsStayNamed, RowsStayBooked DEF Die
  <2>5. CASE ToggleAutopilot
    BY <2>5, RowsStayBooked DEF ToggleAutopilot, RunsNamed, Running
  <2> QED BY <2>1, <2>2, <2>3, <2>4, <2>5 DEF Next
<1> QED BY <1>1, <1>2, GInvHolds, PTL DEF Spec

-----------------------------------------------------------------------------
(* The surfaces.                                                           *)

Won     == {c \in Rows : cases[c].status = "RECOVERED"}
Organic == {c \in Rows : cases[c].status = "RESOLVED_ORGANIC"}
Asks    == [c \in Rows |-> facts[c].amount]

LEMMA Columns ==
  ASSUME NEW c \in Rows
  PROVE  /\ Db[c].status = cases[c].status /\ Db[c].amount = facts[c].amount
         /\ Db[c].recovered = cases[c].recovered /\ Db[c].via = cases[c].via
         /\ Db[c].arm = (IF c \in Requests THEN "NONE" ELSE facts[c].arm)
         /\ Db[c].rule = (IF cases[c].rule = None THEN "NONE" ELSE cases[c].rule)
         /\ Db[c].demo = (c \in Requests) /\ Db[c].waiting = (cases[c].approval # None)
BY DEF Db

LEMMA Tables == DOMAIN Db = Rows
BY DEF Db

\* Each amount a report adds up is a total of what the cases asked for.
LEMMA AsksAreInts ==
  ASSUME GInv, RowsBooked, NEW C \in SUBSET Rows
  PROVE  IsFiniteSet(C) /\ \A c \in C : Asks[c] \in Int /\ Asks[c] = facts[c].amount
<1>1. IsFiniteSet(C)
  BY FS_Subset DEF RowsBooked
<1>2. \A c \in Rows : facts[c].amount \in Int
  BY InputsOK DEF InputsOK, GInv, Shapes, Rows
<1> QED BY <1>1, <1>2 DEF Asks

LEMMA AmountIsTotal ==
  ASSUME GInv, RowsBooked, NEW C \in SUBSET Rows, NEW db, \A c \in C : db[c].amount = Asks[c]
  PROVE  Amount(db, C) = Total(Asks, C)
<1> DEFINE Sums(k) == k = [s \in SUBSET C |-> IF s = {} THEN 0
                                              ELSE db[AnyOf(s)].amount + k[s \ {AnyOf(s)}]]
           h == CHOOSE k : Sums(k)
<1>1. Amount(db, C) = h[C]
  BY DEF Amount, MapThenSumSet, MapThenFoldSet, AnyOf
<1>2. \A s \in SUBSET C : s # {} => db[AnyOf(s)].amount = Asks[AnyOf(s)]
  BY DEF AnyOf
<1>3. ASSUME NEW k PROVE Sums(k) <=> PartialSums(k, Asks, C)
  <2>1. [s \in SUBSET C |-> IF s = {} THEN 0 ELSE db[AnyOf(s)].amount + k[s \ {AnyOf(s)}]]
          = [s \in SUBSET C |-> IF s = {} THEN 0 ELSE Asks[AnyOf(s)] + k[s \ {AnyOf(s)}]]
    BY <1>2
  <2> QED BY <2>1 DEF PartialSums
<1>4. IsFiniteSet(C) /\ \A c \in C : Asks[c] \in Int
  BY AsksAreInts
<1>5. PICK g \in [SUBSET C -> Int] : Tabulates(g, Asks, C)
  BY <1>4, SumsArePartialSums
<1>6. PartialSums(g, Asks, C) /\ Total(Asks, C) = g[C] /\ C \in SUBSET C
  BY <1>5 DEF Tabulates
<1> HIDE DEF Sums
<1>7. PartialSums(h, Asks, C)
  BY <1>3, <1>6
<1> HIDE DEF h
<1>8. g[C] = h[C]
  BY <1>4, <1>6, <1>7, PartialSumsAgree
<1> QED BY <1>1, <1>6, <1>8

LEMMA RecoveredIsTotal ==
  ASSUME GInv, RowsBooked, NEW C \in SUBSET Rows, NEW db, \A c \in C : db[c].recovered = Asks[c]
  PROVE  Recovered(db, C) = Total(Asks, C)
<1> DEFINE Sums(k) == k = [s \in SUBSET C |-> IF s = {} THEN 0
                                              ELSE db[AnyOf(s)].recovered + k[s \ {AnyOf(s)}]]
           h == CHOOSE k : Sums(k)
<1>1. Recovered(db, C) = h[C]
  BY DEF Recovered, MapThenSumSet, MapThenFoldSet, AnyOf
<1>2. \A s \in SUBSET C : s # {} => db[AnyOf(s)].recovered = Asks[AnyOf(s)]
  BY DEF AnyOf
<1>3. ASSUME NEW k PROVE Sums(k) <=> PartialSums(k, Asks, C)
  <2>1. [s \in SUBSET C |-> IF s = {} THEN 0 ELSE db[AnyOf(s)].recovered + k[s \ {AnyOf(s)}]]
          = [s \in SUBSET C |-> IF s = {} THEN 0 ELSE Asks[AnyOf(s)] + k[s \ {AnyOf(s)}]]
    BY <1>2
  <2> QED BY <2>1 DEF PartialSums
<1>4. IsFiniteSet(C) /\ \A c \in C : Asks[c] \in Int
  BY AsksAreInts
<1>5. PICK g \in [SUBSET C -> Int] : Tabulates(g, Asks, C)
  BY <1>4, SumsArePartialSums
<1>6. PartialSums(g, Asks, C) /\ Total(Asks, C) = g[C] /\ C \in SUBSET C
  BY <1>5 DEF Tabulates
<1> HIDE DEF Sums
<1>7. PartialSums(h, Asks, C)
  BY <1>3, <1>6
<1> HIDE DEF h
<1>8. g[C] = h[C]
  BY <1>4, <1>6, <1>7, PartialSumsAgree
<1> QED BY <1>1, <1>6, <1>8

\* The populations of the reports.
LEMMA Populations ==
  ASSUME GInv, RowsBooked
  PROVE  /\ WithStatus(Db, {"RECOVERED"}) = Won
         /\ WithStatus(Db, {"RESOLVED_ORGANIC"}) = Organic
         /\ {c \in DOMAIN Db : ~Db[c].demo} = Rows \ Requests
         /\ Won \cap Requests = {} /\ Organic \cap Requests = {}
         /\ {c \in Rows : cases[c].paid} = Won \cup Organic /\ Won \cap Organic = {}
         /\ {c \in Won \cup Organic : cases[c].action # None} = Won
         /\ ProvenBy(Db, RAZORPAY) = {} /\ ProvenBy(Db, {"SIMULATOR"}) = Won
         /\ \A c \in Won : facts[c].arm = "TREATMENT"
         /\ \A c \in Rows : facts[c].arm \in {"TREATMENT", "CONTROL"}
<1>1. \A c \in Rows : RowKept(cases[c], facts[c]) /\ Booked(cases[c], facts[c].amount)
                      /\ (c \in Requests => ~cases[c].paid)
  BY DEF GInv, RowsKept, Rows, RowsBooked
<1>2. \A c \in Rows : facts[c].arm \in {"TREATMENT", "CONTROL"}
  BY InputsOK DEF InputsOK, GInv, Shapes, Rows
<1>3. WithStatus(Db, {"RECOVERED"}) = Won /\ WithStatus(Db, {"RESOLVED_ORGANIC"}) = Organic
  BY Columns, Tables DEF WithStatus, Won, Organic
<1>4. {c \in DOMAIN Db : ~Db[c].demo} = Rows \ Requests
  BY Columns, Tables
<1>5. /\ \A c \in Rows : cases[c].paid <=> c \in Won \cup Organic
      /\ \A c \in Won : cases[c].action # None
      /\ \A c \in Organic : cases[c].action = None
  BY <1>1 DEF Won, Organic, RowKept
<1>6. Won \cap Requests = {} /\ Organic \cap Requests = {} /\ Won \cap Organic = {}
  BY <1>1, <1>5 DEF Won, Organic
<1>7. {c \in Rows : cases[c].paid} = Won \cup Organic
  BY <1>5 DEF Won, Organic
<1>8. \A c \in Rows : Db[c].via = (IF c \in Won THEN "SIMULATOR" ELSE "NONE")
  BY <1>1, Columns DEF Booked, Won
<1>9. ProvenBy(Db, RAZORPAY) = {} /\ ProvenBy(Db, {"SIMULATOR"}) = Won
  BY <1>8, Tables DEF ProvenBy, RAZORPAY, Won
<1>10. \A c \in Won : facts[c].arm = "TREATMENT"
  BY <1>1, <1>2, <1>5 DEF RowKept, Won
<1>11. {c \in Won \cup Organic : cases[c].action # None} = Won
  BY <1>5
<1> QED BY <1>2, <1>3, <1>4, <1>6, <1>7, <1>9, <1>10, <1>11

\* The ledger.
LEMMA LedgerCounts ==
  ASSUME GInv, RowsBooked
  PROVE  LET ledger == MoneyLedger(Db) IN
         /\ ledger.driven = Total(Asks, Won) /\ ledger.organic = Total(Asks, Organic)
         /\ ledger.arrived = Total(Asks, Won) + Total(Asks, Organic)
         /\ ledger.driven_cases = Cardinality(Won)
         /\ ledger.arrived_cases = Cardinality(Won) + Cardinality(Organic)
<1>1. \A c \in Won : Db[c].recovered = Asks[c]
  BY Columns DEF RowsBooked, Booked, Won, Asks
<1>2. Recovered(Db, Won) = Total(Asks, Won)
  BY <1>1, RecoveredIsTotal DEF Won
<1>3. Amount(Db, Organic) = Total(Asks, Organic)
  BY Columns, AmountIsTotal DEF Organic, Asks
<1>4. /\ WithStatus(Db, {"RECOVERED"}) \cap {c \in DOMAIN Db : ~Db[c].demo} = Won
      /\ WithStatus(Db, {"RESOLVED_ORGANIC"}) \cap {c \in DOMAIN Db : ~Db[c].demo} = Organic
  BY Populations DEF Won, Organic
<1>5. /\ MoneyLedger(Db).driven = Recovered(Db, Won)
      /\ MoneyLedger(Db).organic = Amount(Db, Organic)
      /\ MoneyLedger(Db).arrived = Recovered(Db, Won) + Amount(Db, Organic)
      /\ MoneyLedger(Db).driven_cases = Cardinality(Won)
      /\ MoneyLedger(Db).arrived_cases = Cardinality(Won) + Cardinality(Organic)
  BY <1>4 DEF MoneyLedger
<1> QED BY <1>2, <1>3, <1>5

\* The lift and the tiles.
LEMMA ReportCounts ==
  ASSUME GInv, RowsBooked
  PROVE  LET report == Attribution(Db)
             tiles  == Overview(Db) IN
         /\ report.gross = Total(Asks, Won) /\ tiles.gross_simulated = Total(Asks, Won)
         /\ report.treatment.paid + report.control.paid = Cardinality(Won) + Cardinality(Organic)
         /\ report.control.cases = tiles.control_cases /\ tiles.gross_recovered = 0
<1> DEFINE o == Outcomes(Db)
           measured == {c \in DOMAIN o : ~o[c].is_demo}
           Arm(a) == {c \in measured : o[c].arm = a}
           recovered == {c \in Arm("TREATMENT") : o[c].recovered}
           Paid(a) == {c \in Arm(a) : o[c].paid}
<1>1. /\ DOMAIN o = Rows
      /\ \A c \in Rows :
           /\ o[c].arm = (IF Db[c].arm = "NONE" THEN "TREATMENT" ELSE Db[c].arm)
           /\ o[c].paid = (Db[c].status \in SETTLED) /\ o[c].amount = Db[c].amount
           /\ o[c].recovered = (Db[c].via # "NONE") /\ o[c].is_demo = Db[c].demo
  BY Tables DEF Outcomes
<1>2. /\ Attribution(Db).gross = Amount(o, recovered)
      /\ Attribution(Db).treatment.paid = Cardinality(Paid("TREATMENT"))
      /\ Attribution(Db).control.paid = Cardinality(Paid("CONTROL"))
      /\ Attribution(Db).control.cases = Cardinality(Arm("CONTROL"))
  BY DEF Attribution, RecoveryReport, ArmStats
<1> HIDE DEF o
<1>3. measured = Rows \ Requests
  BY <1>1, Columns
<1>4. \A c \in Rows \ Requests :
        /\ o[c].arm = facts[c].arm /\ o[c].paid = (c \in Won \cup Organic)
        /\ o[c].recovered = (c \in Won) /\ o[c].amount = Asks[c]
  <2>1. \A c \in Rows : cases[c].via = (IF c \in Won THEN "SIMULATOR" ELSE "NONE")
    BY DEF RowsBooked, Booked, Won
  <2> QED BY <1>1, <2>1, Columns, Populations DEF SETTLED, Won, Organic, Asks
<1>5. recovered = Won
  <2>1. Won \subseteq Rows \ Requests /\ \A c \in Won : facts[c].arm = "TREATMENT"
    BY Populations DEF Won
  <2> QED BY <1>3, <1>4, <2>1
<1>6. Amount(o, Won) = Total(Asks, Won)
  BY <1>4, Populations, AmountIsTotal DEF Won
<1>7. Paid("TREATMENT") \cup Paid("CONTROL") = Won \cup Organic
      /\ Paid("TREATMENT") \cap Paid("CONTROL") = {}
  <2>1. /\ Won \cup Organic \subseteq Rows \ Requests
        /\ \A c \in Rows : facts[c].arm \in {"TREATMENT", "CONTROL"}
    BY Populations DEF Won, Organic
  <2> QED BY <1>3, <1>4, <2>1
<1>8. Cardinality(Paid("TREATMENT")) + Cardinality(Paid("CONTROL"))
        = Cardinality(Won) + Cardinality(Organic)
  <2>1. /\ IsFiniteSet(Paid("TREATMENT")) /\ IsFiniteSet(Paid("CONTROL"))
        /\ IsFiniteSet(Won) /\ IsFiniteSet(Organic)
    BY <1>3, AsksAreInts DEF Won, Organic
  <2>2. Cardinality(Won \cup Organic) = Cardinality(Won) + Cardinality(Organic)
    BY <2>1, Populations, CountOfParts
  <2>3. Cardinality(Paid("TREATMENT") \cup Paid("CONTROL"))
          = Cardinality(Paid("TREATMENT")) + Cardinality(Paid("CONTROL"))
    <3> HIDE DEF Paid
    <3> QED BY <1>7, <2>1, CountOfParts
  <2> QED BY <1>7, <2>2, <2>3
<1>9. Arm("CONTROL") = HeldOut(Db)
  BY <1>3, <1>4, Columns, Tables DEF HeldOut
<1>10. Overview(Db).gross_recovered = 0 /\ Overview(Db).gross_simulated = Total(Asks, Won)
       /\ Overview(Db).control_cases = Cardinality(HeldOut(Db))
  <2>1. \A c \in Won : Db[c].recovered = Asks[c]
    BY Columns DEF RowsBooked, Booked, Won, Asks
  <2>2. Recovered(Db, Won) = Total(Asks, Won)
    BY <2>1, RecoveredIsTotal DEF Won
  <2>3. Recovered(Db, {}) = 0
    BY RecoveredIsTotal, SumOfNone
  <2> QED BY <2>2, <2>3, Populations DEF Overview
<1> QED BY <1>2, <1>5, <1>6, <1>8, <1>9, <1>10

\* The rules that fired, one by one and all together.
LEMMA InterceptionsCount ==
  ASSUME GInv, RowsBooked
  PROVE  Overview(Db).interceptions
           = MapThenSumSet(LAMBDA r : StoppingRuleCounts(Db, RuleNames)[r], RuleNames)
<1> DEFINE rule == [c \in Rows |-> Db[c].rule]
           count == [r \in RuleNames |-> Cardinality({c \in Rows : rule[c] = r})]
<1>1. IsFiniteSet(Rows) /\ IsFiniteSet(RuleNames)
  <2>1. DOMAIN Authority = 1 .. 12 /\ Authority = [i \in 1 .. 12 |-> Authority[i]]
    BY DEF Authority
  <2>2. Authority \in Surjection(1 .. 12, RuleNames)
    BY <2>1 DEF Surjection, RuleNames
  <2>3. IsFiniteSet(RuleNames)
    BY <2>2, FS_NatSurjection DEF ExistsSurjection
  <2> QED BY <2>3 DEF RowsBooked
<1>2. Cardinality({c \in Rows : rule[c] \in RuleNames}) = Total(count, RuleNames)
  <2> HIDE DEF rule
  <2> QED BY <1>1, CountByClass
<1>3. {c \in Rows : rule[c] \in RuleNames} = Intercepted(Db)
  <2>1. "NONE" \notin RuleNames
    BY DEF RuleNames, Authority
  <2>2. \A c \in Rows : rule[c] = Db[c].rule /\ cases[c].rule \in Named
    BY DEF RowsBooked, Booked
  <2> HIDE DEF rule
  <2> QED BY <2>1, <2>2, Columns, Tables DEF Intercepted, Named
<1>4. StoppingRuleCounts(Db, RuleNames) = count
  BY Tables DEF StoppingRuleCounts
<1> HIDE DEF count
<1>5. MapThenSumSet(LAMBDA r : StoppingRuleCounts(Db, RuleNames)[r], RuleNames)
        = Total(count, RuleNames)
  BY <1>4 DEF Total, SumFunctionOnSet, FoldFunctionOnSet, MapThenFoldSet, MapThenSumSet
<1>6. Overview(Db).interceptions = Cardinality(Intercepted(Db))
  BY DEF Overview
<1> QED BY <1>2, <1>3, <1>5, <1>6

LEMMA SurfacesFollow == ASSUME GInv, RowsBooked PROVE SurfacesAgree
<1> DEFINE paid == {c \in Rows : cases[c].paid}
           ours == {c \in paid : cases[c].action # None}
<1>1. paid = Won \cup Organic /\ ours = Won /\ paid \ ours = Organic
  BY Populations
<1>2. Amount(Db, Won) = Total(Asks, Won) /\ Amount(Db, Organic) = Total(Asks, Organic)
  BY Columns, AmountIsTotal DEF Won, Organic, Asks
<1>3. Amount(Db, Won \cup Organic) = Total(Asks, Won) + Total(Asks, Organic)
  <2>1. Won \cup Organic \in SUBSET Rows
    BY DEF Won, Organic
  <2>2. Amount(Db, Won \cup Organic) = Total(Asks, Won \cup Organic)
    BY <2>1, Columns, AmountIsTotal DEF Asks
  <2>3. /\ IsFiniteSet(Won) /\ IsFiniteSet(Organic) /\ Won \cap Organic = {}
        /\ \A c \in Won \cup Organic : Asks[c] \in Int
    BY <2>1, AsksAreInts, Populations DEF Won, Organic
  <2> QED BY <2>2, <2>3, TotalOfParts
<1>4. Claims(Db).not_claimed_total = Total(Asks, Organic) /\ Claims(Db).not_claimed = Organic
      /\ Claims(Db).claimed = {}
  BY <1>2, Populations DEF Claims
<1>5. paid \cap AtRisk(Db) = {}
  BY <1>1, Columns, Tables DEF AtRisk, Won, Organic, TERMINAL_STATUSES
<1>6. ~Proof(Db, TRUE).VERIFIED
  BY Populations DEF Proof
<1>7. Overview(Db).pending_approvals = Cardinality(WithStatus(Db, {"AWAITING_APPROVAL"}))
  <2>1. {c \in DOMAIN Db : Db[c].waiting} = WithStatus(Db, {"AWAITING_APPROVAL"})
    <3>1. \A c \in Rows : Db[c].waiting <=> Db[c].status \in {"AWAITING_APPROVAL"}
      BY Columns DEF RowsBooked, Booked
    <3> QED BY <3>1, Tables DEF WithStatus
  <2> QED BY <2>1 DEF Overview
<1>8. Briefing(Db).recovered_cases = Cardinality(Won)
  BY Populations DEF Briefing
<1>9. Overview(Db).interceptions
        = MapThenSumSet(LAMBDA r : StoppingRuleCounts(Db, {Authority[i] : i \in DOMAIN Authority})[r],
                        {Authority[i] : i \in DOMAIN Authority})
  BY InterceptionsCount DEF RuleNames
<1>10. /\ MoneyLedger(Db).arrived = Amount(Db, paid) /\ MoneyLedger(Db).driven = Amount(Db, ours)
       /\ MoneyLedger(Db).driven = Attribution(Db).gross
       /\ MoneyLedger(Db).driven = Overview(Db).gross_simulated
  BY <1>1, <1>2, <1>3, LedgerCounts, ReportCounts
<1>11. /\ MoneyLedger(Db).arrived_cases
             = Attribution(Db).treatment.paid + Attribution(Db).control.paid
       /\ MoneyLedger(Db).organic = Claims(Db).not_claimed_total
       /\ Claims(Db).not_claimed = paid \ ours
       /\ Attribution(Db).control.cases = Overview(Db).control_cases
  BY <1>1, <1>4, LedgerCounts, ReportCounts
<1>12. Overview(Db).gross_recovered = 0 /\ Briefing(Db).recovered_cases
                                           = MoneyLedger(Db).driven_cases
  BY <1>8, LedgerCounts, ReportCounts
<1> QED BY <1>4, <1>5, <1>6, <1>7, <1>9, <1>10, <1>11, <1>12 DEF SurfacesAgree

\* However many cases of whatever amounts: the ledger, the tiles, the lift, the claims
\* and the briefing add up to the same payments at every moment of every batch, count
\* each once, and promote none to Razorpay's proof (metrics.py, test_money_ledger.py).
THEOREM SurfacesAlwaysAgree == Spec => []SurfacesAgree
<1>1. GInv /\ RowsBooked => SurfacesAgree
  BY SurfacesFollow
<1> QED BY <1>1, GInvHolds, BooksHold, PTL

-----------------------------------------------------------------------------
(* The budgets.                                                            *)

\* One batch runs at a time.
OneBatch == \A a, b \in Batches : a = b

\* The cases a batch acted on, and what it gave each of them.
Treated == {c \in Rows \ Requests : cases[c].action # None}
Offers  == [c \in Treated |-> cases[c].action.discount]

CountersKept ==
  \A b \in Batches :
    /\ DOMAIN batch[b].acts = Days
    /\ \A d \in Days : batch[b].acts[d] \in 0 .. daily_action_budget
    /\ batch[b].given \in Nat
    /\ batch[b].given > 0 =>
         batch[b].given < monthly_discount_exposure + max_discount_absolute

\* There is room for one more action, of this discount.
Room(b, c, applied) ==
  /\ batch[b].acts[facts[c].day] < daily_action_budget
  /\ batch[b].given < monthly_discount_exposure
  /\ applied.discount \in 0 .. max_discount_absolute

\* A run sees the counters as they are, and acts only where they leave room.
RunsInBudget ==
  \A b \in Batches : Running(b) =>
    /\ run[b].actions_today = batch[b].acts[facts[run[b].case].day]
    /\ run[b].exposure = batch[b].given
    /\ at[b] = "EXECUTE" \/ (at[b] \in {"AUDIT", "ended"} /\ run[b].status = "MONITORING")
         => Room(b, run[b].case, run[b].decision.applied)

\* No case counts that the counters have not counted.
SpentIsCounted ==
  /\ \A c \in Treated : Offers[c] \in 0 .. max_discount_absolute
  /\ (\A b \in Batches : at[b] \in {"off", "cleared"}) => Rows \subseteq Requests
  /\ \A b \in Batches :
       /\ \A d \in Days : Cardinality({c \in Treated : facts[c].day = d}) <= batch[b].acts[d]
       /\ Total(Offers, Treated) <= batch[b].given

SpendInv == CountersKept /\ RunsInBudget /\ SpentIsCounted

LEMMA DaysAreDays == ASSUME GInv, NEW c \in CaseIds PROVE facts[c].day \in Days
BY InputsOK DEF InputsOK, GInv, Shapes

\* What the firewall lets through is within the budgets it was told of.
LEMMA PassedHasRoom ==
  ASSUME NEW p, NEW c, EvaluatePolicy(p, c).verdict = "PASSED"
  PROVE  /\ ~(c.stopping.actions_today >= daily_action_budget)
         /\ ~(c.stopping.exposure >= monthly_discount_exposure)
<1> DEFINE ctx == StoppingContext(p, c)
           v == Evaluate(ctx)
<1>1. Blocks(p, c, v) = {}
  BY DEF EvaluatePolicy
<1>2. v.decision # "STOP"
  <2>1. v.decision = "STOP" => "stopping" \in Blocks(p, c, v)
    BY DEF Blocks
  <2> QED BY <1>1, <2>1
<1>3. S11(ctx).decision # "STOP"
  <2> HIDE DEF ctx
  <2>1. S11(ctx) \in Results(ctx)
    BY DEF Results
  <2> QED BY <1>2, <2>1, OneStopStops
<1>4. ctx.actions_today = c.stopping.actions_today /\ ctx.exposure = c.stopping.exposure
  BY DEF StoppingContext
<1>5. Stop("S-11", "SUPPRESSED").decision = "STOP"
  BY DEF Stop
<1> HIDE DEF ctx
<1> QED BY <1>3, <1>4, <1>5 DEF S11

\* And its discount is within the rupee ceiling.
LEMMA OfferIsCapped ==
  ASSUME NEW p \in Proposal, NEW c, NEW verdict, c.amount \in Int
  PROVE  Applied(p, c, verdict).discount \in 0 .. max_discount_absolute
<1>1. SanePct(p.discount) \in Int
  BY MoneyLimitsOK DEF SanePct, SafeDefault, Proposal
<1> DEFINE carried == IF EffectiveClass(p, verdict) = "TRANSACTIONAL" THEN 0
                      ELSE SanePct(p.discount)
           capped == AbsoluteCap(carried, c.amount)
<1>2. carried \in Int
  BY <1>1
<1>3. capped.paise \in 0 .. max_discount_absolute
  <2> HIDE DEF carried
  <2>1. CASE carried <= 0 \/ c.amount <= 0
    BY <2>1, MoneyLimitsOK DEF AbsoluteCap
  <2>2. CASE carried > 0 /\ c.amount > 0
    <3>1. Paise(carried, c.amount) \in Nat
      <4>1. c.amount * carried \in Nat /\ Whole \in Nat \ {0}
        BY <1>2, <2>2, MoneyLimitsOK
      <4>2. (c.amount * carried) \div Whole \in Nat
        BY <4>1
      <4> QED BY <1>2, <2>2, <4>2 DEF Paise
    <3> QED BY <1>2, <2>2, <3>1, MoneyLimitsOK DEF AbsoluteCap
  <2> QED BY <1>2, <2>1, <2>2
<1>4. Discount(p, c, verdict).paise \in {0, capped.paise}
  BY DEF Discount
<1>5. Applied(p, c, verdict).discount = Discount(p, c, verdict).paise
  BY DEF Applied
<1> HIDE DEF capped
<1> QED BY <1>3, <1>4, <1>5, MoneyLimitsOK

\* The action of a row is that of its run.
LEMMA ActionOfRow ==
  ASSUME NEW s, NEW paid, Final(s, facts[s.case])
  PROVE  /\ Acted(s) => /\ Row(s, paid).action # None
                        /\ Row(s, paid).action.discount = s.decision.applied.discount
         /\ ~Acted(s) => Row(s, paid).action = None
<1> DEFINE f == facts[s.case]
           made == [strategy |-> s.proposal.strategy, class |-> s.proposal.class,
                    pct |-> s.decision.applied.pct,
                    discount |-> s.decision.applied.discount]
<1>1. Row(s, paid).action = IF Acted(s) /\ s.proposal # None THEN made ELSE None
  BY DEF Row
<1>2. Acted(s) => ProposalKept(s.proposal, f) /\ AppliedKept(s.decision.applied, f)
  BY DEF Acted, Final
<1>3. Acted(s) => s.proposal # None /\ made \in Action
  BY <1>2, GraphLimitsOK DEF ProposalKept, AppliedKept, Proposal, Action, GraphLimitsOK
<1>4. made.discount = s.decision.applied.discount
  OBVIOUS
<1> HIDE DEF made
<1> QED BY <1>1, <1>3, <1>4, GraphLimitsOK DEF GraphLimitsOK

-----------------------------------------------------------------------------
(* Steps that count nothing.                                               *)

LEMMA CountersStay ==
  ASSUME CountersKept,
         \A b \in Batches : batch'[b].acts = batch[b].acts /\ batch'[b].given = batch[b].given
  PROVE  CountersKept'
BY DEF CountersKept

\* Where no batch has begun, none has counted.
LEMMA SpentStays ==
  ASSUME SpentIsCounted, UNCHANGED facts,
         \A c \in CaseIds \ Requests : cases'[c] = cases[c],
         \A b \in Batches : batch'[b].acts = batch[b].acts /\ batch'[b].given = batch[b].given,
         (\A b \in Batches : at'[b] \in {"off", "cleared"})
           => \A b \in Batches : at[b] \in {"off", "cleared"}
  PROVE  SpentIsCounted'
<1>1. Treated' = Treated /\ Rows' \ Requests = Rows \ Requests
  BY DEF Treated, Rows
<1>2. Offers' = Offers
  BY <1>1 DEF Offers, Treated, Rows
<1>3. Total(Offers, Treated)' = Total(Offers, Treated)
  BY <1>1, <1>2
<1>4. \A d \in Days : {c \in Treated : facts[c].day = d}' = {c \in Treated : facts[c].day = d}
  BY <1>1
<1> QED BY <1>1, <1>2, <1>3, <1>4 DEF SpentIsCounted

\* A batch in the graph is one that has begun.
LEMMA RunsStayInBudget ==
  ASSUME RunsInBudget, OneBatch, NEW r \in Runners, UNCHANGED <<facts, batch>>,
         \A q \in Runners \ {r} : at'[q] = at[q] /\ run'[q] = run[q],
         r \in Batches => at'[r] \notin Nodes \cup {"ended"}
  PROVE  RunsInBudget'
<1>1. ASSUME NEW b \in Batches, at'[b] \in Nodes \cup {"ended"}
      PROVE  b # r /\ at'[b] = at[b] /\ run'[b] = run[b]
  BY <1>1 DEF Runners
<1>2. ASSUME NEW b \in Batches, Running(b)'
      PROVE  /\ Running(b) /\ at'[b] = at[b] /\ run'[b] = run[b]
             /\ batch' = batch /\ facts' = facts
  BY <1>1, <1>2 DEF Running
<1>3. ASSUME NEW b \in Batches, Running(b)'
      PROVE  /\ run'[b].actions_today = batch'[b].acts[facts'[run'[b].case].day]
             /\ run'[b].exposure = batch'[b].given
  BY <1>2, <1>3 DEF RunsInBudget
<1>4. ASSUME NEW b \in Batches, Running(b)',
             at'[b] = "EXECUTE" \/ (at'[b] \in {"AUDIT", "ended"} /\ run'[b].status = "MONITORING")
      PROVE  /\ batch'[b].acts[facts'[run'[b].case].day] < daily_action_budget
             /\ batch'[b].given < monthly_discount_exposure
             /\ run'[b].decision.applied.discount \in 0 .. max_discount_absolute
  <2>1. Room(b, run[b].case, run[b].decision.applied)
    BY <1>2, <1>4 DEF RunsInBudget
  <2> QED BY <1>2, <1>4, <2>1 DEF Room
<1> QED BY <1>3, <1>4 DEF RunsInBudget, Room

LEMMA RequestKeepsSpend ==
  ASSUME GInv, GInv', OneBatch, SpendInv, NEW q \in Requests,
         Recover(q) \/ RequestStep(q) \/ Die(q)
  PROVE  SpendInv'
<1>1. q \in Runners /\ q \notin Batches
  BY GraphLimitsOK DEF GraphLimitsOK, Runners
<1>2. \A r \in Runners \ {q} : at'[r] = at[r] /\ run'[r] = run[r]
  <2>1. CASE Node(q)
    BY <1>1, <2>1, NodeLeaves
  <2>2. CASE ~Node(q)
    BY <1>1, <2>2 DEF RequestStep, Recover, Refuse, CommitIntent, CallRazorpay, RecordSent,
                      RecordRefusal, UpdateNothing, Die, GInv, Shapes
  <2> QED BY <2>1, <2>2
<1>3. UNCHANGED <<facts, batch>>
  BY <1>1, NodeLeaves DEF RequestStep, Recover, Refuse, CommitIntent, CallRazorpay, RecordSent,
                          RecordRefusal, UpdateNothing, Die
<1>4. \A c \in CaseIds \ Requests : cases'[c] = cases[c]
  <2>1. CASE CommitIntent(q)
    BY <2>1 DEF CommitIntent, GInv, Shapes
  <2>2. CASE Node(q)
    BY <1>1, <2>2, NodeLeaves
  <2>3. CASE ~CommitIntent(q) /\ ~Node(q)
    BY <2>3 DEF RequestStep, Recover, Refuse, CallRazorpay, RecordSent, RecordRefusal,
                UpdateNothing, Die
  <2> QED BY <2>1, <2>2, <2>3
<1>5. \A b \in Batches : at'[b] = at[b]
  BY <1>1, <1>2 DEF Runners
<1> QED BY <1>1, <1>2, <1>3, <1>4, <1>5, CountersStay, SpentStays, RunsStayInBudget DEF SpendInv

-----------------------------------------------------------------------------
(* A batch's own steps.                                                    *)

LEMMA StartKeepsSpend ==
  ASSUME GInv, OneBatch, SpendInv, NEW b \in Batches, Clear(b) \/ LoadMerchants(b)
  PROVE  SpendInv'
<1>1. \A d \in Batches : d = b
  BY DEF OneBatch
<1>2. at'[b] \notin Nodes \cup {"ended"}
  BY DEF Clear, LoadMerchants, GInv, Shapes, Runners, Nodes
<1>3. RunsInBudget'
  BY <1>1, <1>2 DEF RunsInBudget, Running
<1>4. Rows' \subseteq Requests
  <2>1. CASE Clear(b)
    BY <2>1 DEF Clear, NoCases, Rows
  <2>2. CASE LoadMerchants(b)
    BY <1>1, <2>2 DEF LoadMerchants, Rows, SpendInv, SpentIsCounted
  <2> QED BY <2>1, <2>2
<1>5. Treated' = {}
  BY <1>4 DEF Treated
<1>6. CountersKept'
  <2>1. CASE Clear(b)
    BY <2>1, CountersStay DEF Clear, SpendInv
  <2>2. CASE LoadMerchants(b)
    <3>1. batch'[b].acts = [d \in Days |-> 0] /\ batch'[b].given = 0
      BY <2>2 DEF LoadMerchants, NoBatch, GInv, Shapes
    <3> QED BY <1>1, <3>1, PolicyLimitsOK DEF CountersKept
  <2> QED BY <2>1, <2>2
<1>7. SpentIsCounted'
  <2>1. Total(Offers, Treated)' = 0
    BY <1>5, SumOfNone
  <2>2. \A d \in Days : {c \in Treated : facts[c].day = d}' = {}
    BY <1>5
  <2> QED BY <1>4, <1>5, <1>6, <2>1, <2>2, FS_EmptySet DEF SpentIsCounted, CountersKept
<1> QED BY <1>3, <1>6, <1>7 DEF SpendInv

LEMMA BeginKeepsSpend ==
  ASSUME GInv, OneBatch, SpendInv, NEW b \in Batches,
         SkipAttempt(b) \/ BeginCase(b) \/ BatchComplete(b) \/ Die(b)
  PROVE  SpendInv'
<1>0. b \in Runners /\ UNCHANGED <<facts, cases>> /\ \A d \in Batches : d = b
  BY DEF SkipAttempt, BeginCase, BatchComplete, Die, Runners, OneBatch
<1>1. batch'[b].acts = batch[b].acts /\ batch'[b].given = batch[b].given
  BY DEF SkipAttempt, BeginCase, BatchComplete, Die, GInv, Shapes
<1>2. CountersKept'
  BY <1>0, <1>1, CountersStay DEF SpendInv
<1>3. at'[b] \in {"off", "cleared"} => at[b] \in {"off", "cleared"}
  BY <1>0 DEF SkipAttempt, BeginCase, BatchComplete, Die, GInv, Shapes
<1>4. SpentIsCounted'
  BY <1>0, <1>1, <1>3, SpentStays DEF SpendInv
<1>5. RunsInBudget'
  <2>1. CASE BeginCase(b)
    <3>1. /\ at'[b] = "ENRICH" /\ run'[b].case = batch[b].next
          /\ run'[b].actions_today = batch[b].acts[facts[batch[b].next].day]
          /\ run'[b].exposure = batch[b].given
      BY <1>0, <2>1 DEF BeginCase, NewState, GInv, Shapes
    <3> QED BY <1>0, <1>1, <3>1 DEF RunsInBudget
  <2>2. CASE ~BeginCase(b)
    <3>1. at'[b] \notin Nodes \cup {"ended"}
      BY <1>0, <2>2 DEF SkipAttempt, BatchComplete, Die, GInv, Shapes, Nodes
    <3> QED BY <1>0, <3>1 DEF RunsInBudget, Running
  <2> QED BY <2>1, <2>2
<1> QED BY <1>2, <1>4, <1>5 DEF SpendInv

LEMMA GraphKeepsSpend ==
  ASSUME GInv, GInv', OneBatch, SpendInv, NEW b \in Batches, Node(b)
  PROVE  SpendInv'
<1>0. b \in Runners /\ \A d \in Batches : d = b
  BY DEF Runners, OneBatch
<1>1. UNCHANGED <<facts, cases, batch>> /\ Running(b)
  BY <1>0, NodeLeaves
<1>2. CountersKept'
  BY <1>1, CountersStay DEF SpendInv
<1>3. at'[b] \notin {"off", "cleared"}
  BY <1>0, NodeLeaves DEF Nodes
<1>4. SpentIsCounted'
  BY <1>0, <1>1, <1>3, SpentStays DEF SpendInv
<1>5. /\ run[b].actions_today = batch[b].acts[facts[run[b].case].day]
      /\ run[b].exposure = batch[b].given
      /\ run'[b].case = run[b].case /\ run'[b].actions_today = run[b].actions_today
      /\ run'[b].exposure = run[b].exposure
  BY <1>0, <1>1, NodeLeaves DEF SpendInv, RunsInBudget
<1>6. ASSUME at'[b] = "EXECUTE"
      PROVE  Room(b, run[b].case, run'[b].decision.applied)
  <2>1. /\ run'[b].decision = EvaluatePolicy(run[b].proposal, Asked(run[b]))
        /\ EvaluatePolicy(run[b].proposal, Asked(run[b])).verdict = "PASSED"
        /\ at[b] = "POLICY"
    BY <1>0, <1>6, NodeLeaves
  <2>2. /\ Asked(run[b]).stopping.actions_today = run[b].actions_today
        /\ Asked(run[b]).stopping.exposure = run[b].exposure
        /\ Asked(run[b]).amount = facts[run[b].case].amount
    BY DEF Asked, Context
  <2>3. /\ run[b].case \in CaseIds /\ facts[run[b].case].amount \in Int
        /\ run[b].proposal \in Proposal
    BY <1>0, <2>1, AtNode DEF Nodes, Ready, ProposalKept
  <2>4. facts[run[b].case].day \in Days
    BY <2>3, DaysAreDays
  <2>5. /\ batch[b].acts[facts[run[b].case].day] < daily_action_budget
        /\ batch[b].given < monthly_discount_exposure
    <3>1. /\ batch[b].acts[facts[run[b].case].day] \in Nat /\ batch[b].given \in Nat
      BY <2>4 DEF SpendInv, CountersKept
    <3>2. /\ ~(batch[b].acts[facts[run[b].case].day] >= daily_action_budget)
          /\ ~(batch[b].given >= monthly_discount_exposure)
      BY <1>5, <2>1, <2>2, PassedHasRoom
    <3> QED BY <3>1, <3>2, PolicyLimitsOK
  <2>6. run'[b].decision.applied.discount \in 0 .. max_discount_absolute
    <3>1. run'[b].decision.applied
            = Applied(run[b].proposal, Asked(run[b]),
                      Evaluate(StoppingContext(run[b].proposal, Asked(run[b]))))
      BY <2>1, FirewallVerdict
    <3> QED BY <2>2, <2>3, <3>1, OfferIsCapped
  <2> QED BY <2>5, <2>6 DEF Room
<1>7. ASSUME at'[b] \in {"AUDIT", "ended"}, run'[b].status = "MONITORING"
      PROVE  Room(b, run[b].case, run'[b].decision.applied)
  <2>1. /\ at[b] = "EXECUTE" \/ (at[b] = "AUDIT" /\ run[b].status = "MONITORING")
        /\ run'[b].decision = run[b].decision
    BY <1>0, <1>7, NodeLeaves
  <2> QED BY <1>1, <2>1 DEF SpendInv, RunsInBudget
<1>8. RunsInBudget'
  BY <1>0, <1>1, <1>5, <1>6, <1>7 DEF RunsInBudget, Room
<1> QED BY <1>2, <1>4, <1>8 DEF SpendInv

\* What a batch counts for a case it acted on.
LEMMA CountedIs ==
  ASSUME GInv, CountersKept, OneBatch, NEW b \in Batches, NEW s, s.case \in CaseIds
  PROVE  /\ ~Acted(s) => Counted(b, s) = batch
         /\ Acted(s) =>
              /\ DOMAIN Counted(b, s)[b].acts = Days
              /\ \A d \in Days : Counted(b, s)[b].acts[d] =
                   batch[b].acts[d] + (IF d = facts[s.case].day THEN 1 ELSE 0)
              /\ Counted(b, s)[b].given = batch[b].given + s.decision.applied.discount
<1> DEFINE day == facts[s.case].day
           next == [batch EXCEPT ![b].acts[day] = @ + 1,
                                 ![b].given = @ + s.decision.applied.discount]
<1>1. CASE ~Acted(s)
  BY <1>1 DEF Counted
<1>2. CASE Acted(s)
  <2>1. day \in Days /\ DOMAIN batch[b].acts = Days /\ \A d \in Days : batch[b].acts[d] \in Nat
    BY DaysAreDays DEF CountersKept
  <2>2. next[b].acts = [batch[b].acts EXCEPT ![day] = @ + 1]
    BY DEF GInv, Shapes
  <2>3. next[b].given = batch[b].given + s.decision.applied.discount
    BY DEF GInv, Shapes
  <2>4. Counted(b, s) = next
    BY <1>2 DEF Counted
  <2> HIDE DEF next
  <2>5. \A d \in Days : next[b].acts[d] = batch[b].acts[d] + (IF d = day THEN 1 ELSE 0)
    BY <2>1, <2>2
  <2> QED BY <1>2, <2>1, <2>2, <2>3, <2>4, <2>5
<1> QED BY <1>1, <1>2

\* A case that was acted on is counted while there is room for it.
LEMMA CountingKeepsCounters ==
  ASSUME GInv, CountersKept, RunsInBudget, OneBatch, NEW b \in Batches, at[b] = "ended",
         batch' = Counted(b, run[b])
  PROVE  /\ CountersKept'
         /\ Acted(run[b]) => run[b].decision.applied.discount \in 0 .. max_discount_absolute
<1> DEFINE s == run[b]
           day == facts[s.case].day
           discount == s.decision.applied.discount
<1>1. s.case \in CaseIds /\ day \in Days /\ \A d \in Batches : d = b
  BY AtNode, DaysAreDays DEF Runners, OneBatch
<1>2. CASE ~Acted(s)
  <2>1. UNCHANGED batch
    BY <1>1, <1>2, CountedIs
  <2> QED BY <1>2, <2>1, CountersStay
<1>3. CASE Acted(s)
  <2>1. Room(b, s.case, s.decision.applied)
    BY <1>3 DEF RunsInBudget, Running, Acted
  <2>2. /\ batch[b].acts[day] < daily_action_budget /\ discount \in 0 .. max_discount_absolute
        /\ batch[b].given < monthly_discount_exposure
    BY <2>1 DEF Room
  <2>3. /\ DOMAIN batch'[b].acts = Days
        /\ \A d \in Days : batch'[b].acts[d] = batch[b].acts[d] + (IF d = day THEN 1 ELSE 0)
        /\ batch'[b].given = batch[b].given + discount
    BY <1>1, <1>3, CountedIs
  <2>4. /\ \A d \in Days : batch[b].acts[d] \in 0 .. daily_action_budget
        /\ batch[b].given \in Nat
    BY DEF CountersKept
  <2> HIDE DEF s, day, discount
  <2>5. \A d \in Days : batch'[b].acts[d] \in 0 .. daily_action_budget
    BY <2>2, <2>3, <2>4, PolicyLimitsOK
  <2>6. /\ batch'[b].given \in Nat
        /\ batch'[b].given < monthly_discount_exposure + max_discount_absolute
    BY <2>2, <2>3, <2>4, PolicyLimitsOK, MoneyLimitsOK
  <2>7. CountersKept'
    BY <1>1, <2>3, <2>5, <2>6 DEF CountersKept
  <2> QED BY <2>2, <2>7 DEF s, discount
<1> QED BY <1>2, <1>3

\* The cases counted are finitely many, and so are those of a day.
LEMMA CountsAreInts ==
  ASSUME RowsBooked, SpentIsCounted
  PROVE  /\ IsFiniteSet(Treated) /\ \A c \in Treated : Offers[c] \in Int
         /\ Total(Offers, Treated) \in Int
         /\ \A d \in Days : /\ IsFiniteSet({c \in Treated : facts[c].day = d})
                            /\ Cardinality({c \in Treated : facts[c].day = d}) \in Nat
<1>1. IsFiniteSet(Treated)
  <2>1. Treated \in SUBSET Rows
    BY DEF Treated
  <2> QED BY <2>1, FS_Subset DEF RowsBooked
<1>2. \A c \in Treated : Offers[c] \in Int
  BY MoneyLimitsOK DEF SpentIsCounted
<1>3. Total(Offers, Treated) \in Int
  BY <1>1, <1>2, TotalIsInt
<1>4. ASSUME NEW d \in Days
      PROVE  /\ IsFiniteSet({c \in Treated : facts[c].day = d})
             /\ Cardinality({c \in Treated : facts[c].day = d}) \in Nat
  <2>1. {c \in Treated : facts[c].day = d} \in SUBSET Treated
    OBVIOUS
  <2>2. IsFiniteSet({c \in Treated : facts[c].day = d})
    BY <1>1, <2>1, FS_Subset
  <2> QED BY <2>2, FS_CardinalityType
<1> QED BY <1>1, <1>2, <1>3, <1>4

\* Counting only ever adds.
LEMMA CountersGrow ==
  ASSUME GInv, CountersKept, CountersKept', OneBatch, NEW b \in Batches, NEW s, s.case \in CaseIds,
         batch' = Counted(b, s),
         Acted(s) => s.decision.applied.discount \in 0 .. max_discount_absolute
  PROVE  /\ \A d \in Days : batch'[b].acts[d] \in Nat /\ batch[b].acts[d] \in Nat
                          /\ batch'[b].acts[d] >= batch[b].acts[d]
         /\ batch'[b].given \in Nat /\ batch[b].given \in Nat
         /\ batch'[b].given >= batch[b].given
<1>1. /\ \A d \in Days : batch[b].acts[d] \in Nat /\ batch'[b].acts[d] \in Nat
      /\ batch[b].given \in Nat /\ batch'[b].given \in Nat
  BY DEF CountersKept
<1>2. CASE ~Acted(s)
  <2>1. UNCHANGED batch
    BY <1>2, CountedIs
  <2> QED BY <1>1, <2>1
<1>3. CASE Acted(s)
  <2>1. /\ \A d \in Days : batch'[b].acts[d] =
             batch[b].acts[d] + (IF d = facts[s.case].day THEN 1 ELSE 0)
        /\ batch'[b].given = batch[b].given + s.decision.applied.discount
    BY <1>3, CountedIs
  <2>2. s.decision.applied.discount \in Nat
    BY <1>3, MoneyLimitsOK
  <2> QED BY <1>1, <2>1, <2>2
<1> QED BY <1>2, <1>3

\* The row of a case that was acted on is the one the counters grow by.
LEMMA CaseIsCounted ==
  ASSUME GInv, RowsBooked, CountersKept, SpentIsCounted, OneBatch, UNCHANGED facts,
         NEW b \in Batches, NEW s, s.case \in CaseIds, Acted(s), batch' = Counted(b, s),
         at'[b] \in {"next", "dead"}, s.case \notin Treated, Treated' = Treated \cup {s.case},
         s.decision.applied.discount \in 0 .. max_discount_absolute,
         \A x \in Treated : Offers'[x] = Offers[x],
         Offers'[s.case] = s.decision.applied.discount
  PROVE  SpentIsCounted'
<1> DEFINE discount == s.decision.applied.discount
           day == facts[s.case].day
<1>1. \A d \in Batches : d = b
  BY DEF OneBatch
<1>2. /\ \A d \in Days : batch'[b].acts[d] = batch[b].acts[d] + (IF d = day THEN 1 ELSE 0)
      /\ batch'[b].given = batch[b].given + discount
  BY CountedIs
<1>3. /\ \A d \in Days : batch[b].acts[d] \in Nat
      /\ batch[b].given \in Nat /\ discount \in Nat
  BY MoneyLimitsOK DEF CountersKept
<1>4. \A x \in Treated' : Offers'[x] \in 0 .. max_discount_absolute
  BY DEF SpentIsCounted
<1>5. Total(Offers, Treated)' = Total(Offers, Treated) + discount
  <2>1. \A x \in Treated' : Offers'[x] \in Int
    BY <1>4, MoneyLimitsOK
  <2>2. IsFiniteSet(Treated')
    BY CountsAreInts, FS_AddElement
  <2>3. Total(Offers', Treated) = Total(Offers, Treated)
    BY CountsAreInts, TotalsAgree
  <2>4. Total(Offers', Treated \cup {s.case}) = Total(Offers', Treated) + Offers'[s.case]
    BY <2>1, CountsAreInts, TotalWithElement
  <2> QED BY <2>3, <2>4
<1>6. ASSUME NEW d \in Days
      PROVE  Cardinality({x \in Treated' : facts'[x].day = d}) <= batch'[b].acts[d]
  <2> DEFINE old == {x \in Treated : facts[x].day = d}
             new == {x \in Treated' : facts'[x].day = d}
  <2>1. IsFiniteSet(old) /\ Cardinality(old) \in Nat /\ Cardinality(old) <= batch[b].acts[d]
    BY CountsAreInts DEF SpentIsCounted
  <2>2. new = IF d = day THEN old \cup {s.case} ELSE old
    OBVIOUS
  <2>3. s.case \notin old
    OBVIOUS
  <2> HIDE DEF old, new, day
  <2>4. Cardinality(new) = Cardinality(old) + (IF d = day THEN 1 ELSE 0)
    <3>1. Cardinality(old \cup {s.case}) = Cardinality(old) + 1
      BY <2>1, <2>3, FS_AddElement
    <3> QED BY <2>1, <2>2, <3>1
  <2>5. Cardinality(new) <= batch'[b].acts[d]
    BY <1>2, <1>3, <2>1, <2>4
  <2> QED BY <2>5 DEF new
<1>7. Total(Offers, Treated)' <= batch'[b].given
  <2>1. Total(Offers, Treated) \in Int /\ Total(Offers, Treated) <= batch[b].given
    BY CountsAreInts DEF SpentIsCounted
  <2> HIDE DEF discount
  <2> QED BY <1>2, <1>3, <1>5, <2>1
<1> QED BY <1>1, <1>4, <1>6, <1>7 DEF SpentIsCounted

\* Lost with its rows, a case is counted all the same.
LEMMA PersistLostKeepsSpend ==
  ASSUME GInv, RowsBooked, OneBatch, SpendInv, NEW b \in Batches, PersistLost(b)
  PROVE  SpendInv'
<1> DEFINE s == run[b]
<1>0. /\ b \in Runners /\ \A d \in Batches : d = b /\ at[b] = "ended" /\ s.case \in CaseIds
      /\ UNCHANGED <<facts, cases>> /\ batch' = Counted(b, s)
  BY AtNode DEF PersistLost, Runners, OneBatch
<1>1. CountersKept' /\ (Acted(s) => s.decision.applied.discount \in 0 .. max_discount_absolute)
  BY <1>0, CountingKeepsCounters DEF SpendInv
<1>2. at'[b] = "next"
  BY <1>0 DEF PersistLost, GInv, Shapes
<1>3. RunsInBudget'
  BY <1>0, <1>2 DEF RunsInBudget, Running, Nodes
<1>4. /\ \A d \in Days : batch'[b].acts[d] \in Nat /\ batch[b].acts[d] \in Nat
                       /\ batch'[b].acts[d] >= batch[b].acts[d]
      /\ batch'[b].given \in Nat /\ batch[b].given \in Nat
      /\ batch'[b].given >= batch[b].given
  BY <1>0, <1>1, CountersGrow DEF SpendInv
<1>5. SpentIsCounted'
  <2>1. Treated' = Treated /\ Offers' = Offers /\ Rows' = Rows
    BY <1>0 DEF Treated, Offers, Rows
  <2>3. /\ Total(Offers, Treated) \in Int
        /\ \A d \in Days : Cardinality({c \in Treated : facts[c].day = d}) \in Nat
    BY CountsAreInts DEF SpendInv
  <2>5. /\ \A d \in Days : Cardinality({c \in Treated : facts[c].day = d}) <= batch'[b].acts[d]
        /\ Total(Offers, Treated) <= batch'[b].given
    BY <1>4, <2>3 DEF SpendInv, SpentIsCounted
  <2> QED BY <1>0, <1>2, <2>1, <2>5 DEF SpendInv, SpentIsCounted
<1> QED BY <1>1, <1>3, <1>5 DEF SpendInv

\* The row of a case that was acted on is the one the counters grew by.
LEMMA PersistCaseKeepsSpend ==
  ASSUME GInv, RowsBooked, OneBatch, SpendInv, NEW b \in Batches, PersistCase(b)
  PROVE  SpendInv'
<1> DEFINE s == run[b]
           c == s.case
<1>0. /\ b \in Runners /\ \A d \in Batches : d = b /\ at[b] = "ended"
      /\ c \in CaseIds \ Requests /\ Final(s, facts[c]) /\ UNCHANGED facts
  BY AtNode DEF PersistCase, Runners, OneBatch, Ready
<1>1. at'[b] \in {"next", "dead"}
  BY <1>0 DEF PersistCase, GInv, Shapes
<1>2. RunsInBudget'
  BY <1>0, <1>1 DEF RunsInBudget, Running, Nodes
<1>3. CASE UNCHANGED <<cases, batch>>
  BY <1>0, <1>1, <1>2, <1>3, CountersStay, SpentStays DEF SpendInv
<1>4. CASE /\ cases[c] = None /\ batch' = Counted(b, s)
           /\ \E paid \in BOOLEAN : cases' = [cases EXCEPT ![c] = Row(s, paid)]
  <2>1. PICK paid \in BOOLEAN : cases' = [cases EXCEPT ![c] = Row(s, paid)]
    BY <1>4
  <2> DEFINE row == Row(s, paid)
  <2>2. \A x \in CaseIds : cases'[x] = IF x = c THEN row ELSE cases[x]
    BY <2>1 DEF GInv, Shapes
  <2>3. CountersKept' /\ (Acted(s) => s.decision.applied.discount \in 0 .. max_discount_absolute)
    BY <1>0, <1>4, CountingKeepsCounters DEF SpendInv
  <2>4. /\ Acted(s) => row.action # None /\ row.action.discount = s.decision.applied.discount
        /\ ~Acted(s) => row.action = None
    BY <1>0, ActionOfRow
  <2>5. c \notin Rows /\ Treated \subseteq Rows
    BY <1>4 DEF Rows, Treated
  <2> HIDE DEF row
  <2>6. CASE ~Acted(s)
    <3>1. UNCHANGED batch
      BY <1>0, <1>4, <2>6, CountedIs DEF SpendInv
    <3>2. Treated' = Treated
      BY <2>2, <2>4, <2>5, <2>6 DEF Treated, Rows
    <3>3. Offers' = Offers
      BY <2>2, <2>5, <3>2 DEF Offers, Treated, Rows
    <3>4. SpentIsCounted'
      BY <1>0, <1>1, <3>1, <3>2, <3>3 DEF SpendInv, SpentIsCounted
    <3> QED BY <1>2, <2>3, <3>4 DEF SpendInv
  <2>7. CASE Acted(s) /\ row = None
    <3>1. \A x \in CaseIds : cases'[x] = cases[x]
      BY <1>4, <2>2, <2>7
    <3>2. Treated' = Treated /\ Offers' = Offers
      BY <3>1 DEF Treated, Offers, Rows
    <3>3. /\ \A d \in Days : batch'[b].acts[d] \in Nat /\ batch[b].acts[d] \in Nat
                           /\ batch'[b].acts[d] >= batch[b].acts[d]
          /\ batch'[b].given \in Nat /\ batch[b].given \in Nat
          /\ batch'[b].given >= batch[b].given
      BY <1>0, <1>4, <2>3, <2>7, CountersGrow DEF SpendInv
    <3>4. /\ \A d \in Days : Cardinality({x \in Treated : facts[x].day = d}) <= batch'[b].acts[d]
          /\ Total(Offers, Treated) <= batch'[b].given
      <4>1. /\ \A d \in Days : Cardinality({x \in Treated : facts[x].day = d}) \in Nat
            /\ Total(Offers, Treated) \in Int
        BY CountsAreInts DEF SpendInv
      <4> QED BY <1>0, <3>3, <4>1 DEF SpendInv, SpentIsCounted
    <3>5. SpentIsCounted'
      BY <1>0, <1>1, <3>2, <3>4 DEF SpendInv, SpentIsCounted
    <3> QED BY <1>2, <2>3, <3>5 DEF SpendInv
  <2>8. CASE Acted(s) /\ row # None
    <3>1. /\ c \notin Treated /\ Treated' = Treated \cup {c}
          /\ \A x \in Treated : cases'[x] = cases[x]
      <4>1. row.action # None
        BY <2>4, <2>8
      <4> QED BY <1>0, <2>2, <2>5, <2>8, <4>1 DEF Treated, Rows
    <3>2. /\ \A x \in Treated : Offers'[x] = Offers[x]
          /\ Offers'[c] = s.decision.applied.discount
      BY <1>0, <2>2, <2>4, <2>8, <3>1 DEF Offers
    <3> QED BY <1>0, <1>1, <1>2, <1>4, <2>3, <2>8, <3>1, <3>2, CaseIsCounted DEF SpendInv
  <2> QED BY <2>6, <2>7, <2>8
<1> QED BY <1>3, <1>4 DEF PersistCase

LEMMA SpendStarts ==
  ASSUME Init
  PROVE  SpendInv
<1>1. Rows = {} /\ Treated = {}
  BY DEF Init, Rows, Treated
<1>2. \A b \in Batches : /\ at[b] = "off" /\ batch[b].acts = [d \in Days |-> 0]
                         /\ batch[b].given = 0
  BY DEF Init, NoBatch, Runners
<1>3. CountersKept
  BY <1>2, PolicyLimitsOK DEF CountersKept
<1>4. RunsInBudget
  BY <1>2 DEF RunsInBudget, Running, Nodes
<1>5. Total(Offers, Treated) = 0
  BY <1>1, SumOfNone
<1>6. \A d \in Days : {c \in Treated : facts[c].day = d} = {}
  BY <1>1
<1>7. SpentIsCounted
  BY <1>1, <1>2, <1>5, <1>6, FS_EmptySet DEF SpentIsCounted
<1> QED BY <1>3, <1>4, <1>7 DEF SpendInv

LEMMA StepKeepsSpend ==
  ASSUME GInv, GInv', RowsBooked, OneBatch, SpendInv, [Next]_vars
  PROVE  SpendInv'
<1>1. ASSUME NEW b \in Batches, Clear(b) \/ BatchStep(b)
      PROVE  SpendInv'
  <2>1. CASE Clear(b) \/ LoadMerchants(b)
    BY <2>1, StartKeepsSpend
  <2>2. CASE SkipAttempt(b) \/ BeginCase(b) \/ BatchComplete(b)
    BY <2>2, BeginKeepsSpend
  <2>3. CASE Node(b)
    BY <2>3, GraphKeepsSpend
  <2>4. CASE PersistCase(b)
    BY <2>4, PersistCaseKeepsSpend
  <2>5. CASE PersistLost(b)
    BY <2>5, PersistLostKeepsSpend
  <2> QED BY <1>1, <2>1, <2>2, <2>3, <2>4, <2>5 DEF BatchStep
<1>2. ASSUME NEW q \in Requests, Recover(q) \/ RequestStep(q)
      PROVE  SpendInv'
  BY <1>2, RequestKeepsSpend
<1>3. ASSUME NEW r \in Runners, Die(r)
      PROVE  SpendInv'
  BY <1>3, BeginKeepsSpend, RequestKeepsSpend DEF Runners
<1>4. CASE ToggleAutopilot \/ UNCHANGED vars
  <2>1. UNCHANGED <<facts, cases, at, run, batch>>
    BY <1>4 DEF ToggleAutopilot, vars
  <2>2. CountersKept' /\ SpentIsCounted'
    BY <2>1, CountersStay, SpentStays DEF SpendInv
  <2>3. RunsInBudget'
    BY <2>1 DEF SpendInv, RunsInBudget, Running, Room
  <2> QED BY <2>2, <2>3 DEF SpendInv
<1> QED BY <1>1, <1>2, <1>3, <1>4 DEF Next

\* What is given to the cases of the month is the total of the offers.
LEMMA GivenIsTotal ==
  ASSUME RowsBooked, SpentIsCounted
  PROVE  Given(Treated) = Total(Offers, Treated)
<1> DEFINE discounts == [c \in Treated |-> cases[c].action.discount]
<1>1. Given(Treated) = Total(discounts, Treated)
  BY DEF Given, Total, SumFunctionOnSet, FoldFunctionOnSet, MapThenFoldSet, MapThenSumSet
<1> QED BY <1>1 DEF Offers

LEMMA SpendIsWithinBudgets ==
  ASSUME GInv, RowsBooked, OneBatch, SpendInv
  PROVE  BudgetsHold
<1>1. \A d \in Days : OfDay(d) = {c \in Treated : facts[c].day = d}
  BY DEF OfDay, Treated
<1>2. UNION {OfDay(d) : d \in Days} = Treated
  <2>1. \A c \in Treated : facts[c].day \in Days
    BY DaysAreDays DEF Treated, Rows
  <2> QED BY <1>1, <2>1
<1>3. Given(Treated) = Total(Offers, Treated)
  BY GivenIsTotal DEF SpendInv
<1>4. CASE Batches = {}
  <2>1. Treated = {}
    BY <1>4 DEF SpendInv, SpentIsCounted, Treated
  <2>2. Total(Offers, Treated) = 0
    BY <2>1, SumOfNone
  <2>3. \A d \in Days : OfDay(d) = {}
    BY <1>1, <2>1
  <2>4. \A d \in Days : Cardinality(OfDay(d)) <= daily_action_budget
    BY <2>3, FS_EmptySet, PolicyLimitsOK
  <2>5. Given(UNION {OfDay(d) : d \in Days}) = 0
    <3>1. Given(Treated) = 0
      BY <1>3, <2>2
    <3> QED BY <1>2, <3>1
  <2> QED BY <2>4, <2>5 DEF BudgetsHold
<1>5. ASSUME NEW b \in Batches
      PROVE  BudgetsHold
  <2>1. /\ \A d \in Days : /\ Cardinality({c \in Treated : facts[c].day = d}) \in Nat
                           /\ Cardinality({c \in Treated : facts[c].day = d}) <= batch[b].acts[d]
                           /\ batch[b].acts[d] \in 0 .. daily_action_budget
        /\ Total(Offers, Treated) \in Int /\ Total(Offers, Treated) <= batch[b].given
    BY CountsAreInts DEF SpendInv, SpentIsCounted, CountersKept
  <2>2. /\ batch[b].given \in Nat
        /\ batch[b].given > 0 =>
             batch[b].given < monthly_discount_exposure + max_discount_absolute
    BY DEF SpendInv, CountersKept
  <2>3. \A d \in Days : Cardinality(OfDay(d)) <= daily_action_budget
    BY <1>1, <2>1, PolicyLimitsOK
  <2>4. Total(Offers, Treated) > 0 =>
          Total(Offers, Treated) < monthly_discount_exposure + max_discount_absolute
    BY <2>1, <2>2, PolicyLimitsOK, MoneyLimitsOK
  <2> QED BY <1>2, <1>3, <2>3, <2>4 DEF BudgetsHold
<1> QED BY <1>4, <1>5

\* No day sees more actions than its budget, and the month's exposure is passed by less
\* than one discount, whatever is lost, dies or is started again.  Two batches that run
\* at the same time count apart, so one is assumed, which nothing in run_batch enforces.
THEOREM BudgetsAlwaysHold ==
  ASSUME OneBatch
  PROVE  Spec => []BudgetsHold
<1>1. Init => SpendInv
  BY SpendStarts
<1>2. GInv /\ GInv' /\ RowsBooked /\ SpendInv /\ [Next]_vars => SpendInv'
  BY StepKeepsSpend
<1>3. GInv /\ RowsBooked /\ SpendInv => BudgetsHold
  BY SpendIsWithinBudgets
<1>4. Spec => []GInv
  BY GInvHolds
<1>5. Spec => [](RowsBooked /\ RunsNamed)
  BY BooksHold
<1> QED BY <1>1, <1>2, <1>3, <1>4, <1>5, PTL DEF Spec
=============================================================================
