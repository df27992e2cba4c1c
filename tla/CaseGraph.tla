----------------------------- MODULE CaseGraph -----------------------------
(***************************************************************************)
(* Cases on their way through the agent (agent/graph.py, agent/nodes.py)   *)
(* and what their runners commit: batches (workers/batch.py), which take   *)
(* the corpus through the graph case by case and simulate the customers,   *)
(* and requests (routers/testmode.py), which end in a real payment link.   *)
(* Meanwhile the operator throws the kill switch and processes die.        *)
(*                                                                         *)
(* Diagnosis says what a failure is, PolicyEngine what may be done, and    *)
(* Reports what the dashboard makes of the rows.                           *)
(***************************************************************************)
EXTENDS PolicyEngine, Reports
INSTANCE Diagnosis

CONSTANTS
  Batches,            \* batch runs: a CLI call, a POST /simulation/batch
  Requests,           \* POST /testmode/recover; each makes a case of its name
  Attempts,           \* the corpus is the payment attempts 1 .. Attempts
  Corpus(_),          \* what may be known of an attempt, or of a request's case
  Days,
  DiagnosisAnswers(_),   \* what the adapter of a runner may say to DIAGNOSE
  ProposalAnswers(_),    \* and to STRATEGISE
  Adapter,            \* whether there is an adapter to ask
  MAX_NODE_VISITS, max_llm_calls,
  MaxToggles,         \* bound: times the operator uses the kill switch
  MaxLaunches         \* bound: times a batch is started

Runners == Batches \cup Requests
CaseIds == 1 .. Attempts \cup Requests

RecoveryStrategy ==
  {"FRESH_LINK_SAME_RAIL", "FRESH_LINK_ALT_RAIL", "INCENTIVISED_LINK", "INVOICE_REMINDER",
   "MANDATE_RETRY", "MANDATE_REAUTH", "STATIC_UPI_QR", "NO_ACTION"}
MessageClass == {"TRANSACTIONAL", "MARKETING"}

\* RecoveryProposal, and what a RecoveryAction keeps of it.
Proposal == [strategy : RecoveryStrategy, class : MessageClass, discount : Int, expiry : Int]
Action   == [strategy : RecoveryStrategy, class : MessageClass, pct : Int, discount : Int]

\* AppliedAction.
AppliedAction ==
  [strategy : RecoveryStrategy, amount : Int, pct : Int, discount : Int, charge : Int,
   expiry : Int, class : MessageClass, attempt : Int, rung : {"A0", "A1", "A2", "A3"},
   send_after : Int \cup {None}]

\* The row of a case that a request has authorised: contacted, with no action of its
\* own.
IntentRow(category) ==
  [status |-> "MONITORING", paid |-> FALSE, attempt_no |-> 1, recovered |-> 0,
   via |-> "NONE", rule |-> None, category |-> category, action |-> None,
   approval |-> None]

Nodes == {"ENRICH", "TRIAGE", "DIAGNOSE", "STRATEGISE", "POLICY", "EXECUTE", "ESCALATE",
          "AUDIT"}

ASSUME GraphLimitsOK ==
  /\ Attempts \in Nat /\ MAX_NODE_VISITS \in Nat /\ max_llm_calls \in Nat
  /\ MaxToggles \in Nat /\ MaxLaunches \in Nat
  /\ Batches \cap Requests = {} /\ (1 .. Attempts) \cap Requests = {}
  /\ None \notin Nodes \cup {"MANDATE_INVALID", "SENDING", "PENDING", "SENT", "DELETED"}
  /\ None \notin Proposal \cup Action \cup AppliedAction
  /\ \A category \in Categories \cup {None} : None # IntentRow(category)

\* An abandoned checkout carries no error of the merchant's rules; a request is
\* about a payment that failed.  Days are those of the corpus.  A diagnosis and a
\* proposal have the shape of their schemas.
ASSUME InputsOK ==
  /\ \A c \in CaseIds : \A f \in Corpus(c) :
       /\ f.arm \in {"TREATMENT", "CONTROL"} /\ f.amount \in Int /\ f.now \in Int
       /\ f.day \in Days
       /\ f.playbook \in {"PAYMENT_FAILURE", "CHECKOUT_ABANDON", "SUBSCRIPTION",
                          "RECEIVABLE"} \cup {p \in {None} : c \notin Requests}
       /\ f.playbook = "CHECKOUT_ABANDON" => f.error_source # "business"
       /\ f.error_reason = None \/ f.error_reason \subseteq {Specificity[i] : i \in 1 .. 5}
  /\ \A r \in Runners : \A answer \in DiagnosisAnswers(r) :
       answer.output = None \/ answer.output.category \in Categories
  /\ \A r \in Runners : \A answer \in ProposalAnswers(r) :
       answer.output \in Proposal \cup {None}

VARIABLES
  facts,       \* the attempt, its customer, consent and experiment arm
  autopilot,   \* Merchant.autopilot_enabled
  toggles,
  launches,
  cases,       \* RecoveryCase rows, with their RecoveryAction and ApprovalRequest
  outbox,      \* the Outbox row of a request; "DELETED" once a batch deleted it
  links,       \* requests for which Razorpay holds a link
  at,          \* where each runner is: a node, or a step of its own
  run,         \* RecoveryState of the case it is running
  batch        \* what a batch carries from case to case

vars == <<facts, autopilot, toggles, launches, cases, outbox, links, at, run, batch>>

NoBatch == [created |-> 0, next |-> 1, switch |-> TRUE, acts |-> [d \in Days |-> 0],
            given |-> 0]

Init ==
  /\ facts \in {f \in [CaseIds -> UNION {Corpus(c) : c \in CaseIds}] :
                  \A c \in CaseIds : f[c] \in Corpus(c)}
  /\ autopilot = TRUE /\ toggles = 0 /\ launches = 0
  /\ cases = [c \in CaseIds |-> None] /\ outbox = [q \in Requests |-> None]
  /\ links = {}
  /\ at = [r \in Runners |-> "off"] /\ run = [r \in Runners |-> None]
  /\ batch = [b \in Batches |-> NoBatch]

-----------------------------------------------------------------------------
(* The state of one case.                                                  *)

\* RecoveryState as a runner builds it.
NewState(c, switch, acts, given) ==
  [case |-> c, status |-> "DETECTED", switch |-> switch, actions_today |-> acts,
   exposure |-> given, diagnosis |-> None, proposal |-> None, decision |-> None,
   rule |-> None, attempt_no |-> 0, discounts |-> 0, llm_calls |-> 0, visits |-> 0]

\* _stopping_context.  Nobody counts a customer's contacts, and no caller knows
\* when a promise falls due.
Context(s) ==
  LET f == facts[s.case] IN
  [now |-> f.now, window |-> f.window, order_status |-> "created",
   case_status |-> s.status, attempt_no |-> s.attempt_no, discount_attempts |-> s.discounts,
   opted_out |-> f.opted_out, dnd |-> f.dnd, marketing |-> f.marketing,
   transactional |-> f.transactional, contacts_24h |-> 0, contacts_48h |-> 0,
   last_contact |-> None, promise_active |-> f.promise, promised_at |-> None,
   autopilot |-> s.switch, actions_today |-> s.actions_today, exposure |-> s.exposure,
   class |-> "TRANSACTIONAL", discount |-> 0, outbound |-> TRUE]

\* next_node: the whole control flow.
MutRetryPolicy(node, s) ==
  CASE node = "ENRICH"     -> "TRIAGE"
    [] node = "TRIAGE"     -> IF s.status \in TERMINAL_STATUSES THEN "AUDIT" ELSE "DIAGNOSE"
    [] node = "DIAGNOSE"   -> "STRATEGISE"
    [] node = "STRATEGISE" -> "POLICY"
    [] node = "POLICY"     ->
         CASE s.decision.verdict = "PASSED"        -> "EXECUTE"
           [] s.decision.verdict = "ESCALATE_HITL" -> "ESCALATE"
           [] OTHER                                -> "STRATEGISE"
    [] node \in {"EXECUTE", "ESCALATE"} -> "AUDIT"
    [] node = "AUDIT" -> None

NextNode(node, s) ==
  CASE node = "ENRICH"     -> "TRIAGE"
    [] node = "TRIAGE"     -> IF s.status \in TERMINAL_STATUSES THEN "AUDIT" ELSE "DIAGNOSE"
    [] node = "DIAGNOSE"   -> "STRATEGISE"
    [] node = "STRATEGISE" -> "POLICY"
    [] node = "POLICY"     ->
         CASE s.decision.verdict = "PASSED"        -> "EXECUTE"
           [] s.decision.verdict = "ESCALATE_HITL" -> "ESCALATE"
           [] OTHER                                -> "AUDIT"
    [] node \in {"EXECUTE", "ESCALATE"} -> "AUDIT"
    [] node = "AUDIT" -> None

\* run_case: a node left the state s; the bounds raise out of the run.
Advance(r, left) ==
  /\ \E s \in {[left EXCEPT !.visits = @ + 1]} : \E node \in {NextNode(at[r], s)} :
       /\ run' = [run EXCEPT ![r] = s]
       /\ at' = [at EXCEPT ![r] =
            IF \/ s.llm_calls > max_llm_calls
               \/ node # None /\ s.visits >= MAX_NODE_VISITS THEN "raised"
            ELSE IF node = None THEN "ended" ELSE node]
  /\ UNCHANGED <<facts, autopilot, toggles, launches, cases, outbox, links, batch>>

-----------------------------------------------------------------------------
(* The nodes.                                                              *)

Enrich(r) == at[r] = "ENRICH" /\ Advance(r, run[r])

Triage(r) ==
  /\ at[r] = "TRIAGE"
  /\ \E verdict \in {Evaluate(Context(run[r]))} :
       Advance(r, IF verdict.decision # "STOP" THEN [run[r] EXCEPT !.status = "TRIAGED"]
                  ELSE [run[r] EXCEPT !.rule = verdict.rule, !.status =
                    IF verdict.status = None THEN "SUPPRESSED" ELSE verdict.status])

\* Whether a model is asked; a run may spend max_llm_calls answers.
MayAsk(s) == Adapter /\ s.llm_calls < max_llm_calls

Diagnose(r) ==
  LET s == run[r] IN
  /\ at[r] = "DIAGNOSE"
  /\ \E rule \in {RuleTable(facts[s.case])} :
     \E routed \in IF Unreviewed(rule, MayAsk(s))
                   THEN {[diagnosis |-> rule, consulted |-> FALSE]}
                   ELSE {Routed(rule, answer) :
                           answer \in DiagnosisAnswers(r) \cup {FloorDiagnosis(rule)}} :
       Advance(r, [s EXCEPT !.status = "DIAGNOSING", !.diagnosis = routed.diagnosis,
                            !.llm_calls = @ + IF routed.consulted THEN 1 ELSE 0])

\* RecoveryProposal without a model: at no discount.
Propose(strategy) ==
  [strategy |-> strategy, class |-> "TRANSACTIONAL", discount |-> 0, expiry |-> link_expiry]

\* No caller ever names an alternative rail.
Fallback(s) == Propose(SelectStrategy(facts[s.case].playbook, s.diagnosis, None))

FloorProposal(s) ==
  [source |-> "DETERMINISTIC", output |-> Propose(FloorStrategy(s.diagnosis))]

\* A dead mandate and a risk block are not asked about; a proposal the playbook
\* forbids is replaced by the playbook's own.
Strategise(r) ==
  LET s == run[r]
      playbook == facts[s.case].playbook
      Form(p, calls) == Advance(r, [s EXCEPT !.status = "STRATEGY_FORMED",
                                             !.proposal = p, !.llm_calls = @ + calls]) IN
  /\ at[r] = "STRATEGISE"
  /\ \/ s.diagnosis.requires_reauth /\ Form(Fallback(s), 0)
     \/ /\ ~s.diagnosis.requires_reauth /\ s.diagnosis.category = "RISK_BLOCKED"
        /\ Form(Propose("NO_ACTION"), 0)
     \/ /\ ~s.diagnosis.requires_reauth /\ s.diagnosis.category # "RISK_BLOCKED"
        /\ \/ ~MayAsk(s) /\ Form(Fallback(s), 0)
           \/ /\ MayAsk(s)
              /\ \E answer \in ProposalAnswers(r) \cup {FloorProposal(s)} :
                   LET p     == answer.output
                       calls == IF OfModel(answer) THEN 1 ELSE 0 IN
                   IF p = None \/ Violates(playbook, p.strategy, p.discount,
                                           s.diagnosis.requires_reauth)
                   THEN Form(Fallback(s), calls) ELSE Form(p, calls)

\* _blocked_status: a block is not one thing (INC-018).
MutBlockIsOrganic(d) ==
  CASE "control" \in d.blocks \/ d.stopping.rule = "S-01" -> "RESOLVED_ORGANIC"
    [] OTHER -> "SUPPRESSED"

BlockedStatus(d) ==
  CASE "control" \in d.blocks     -> "OBSERVED_NO_ACTION"
    [] "control" \notin d.blocks /\ d.stopping.rule = "S-01" -> "RESOLVED_ORGANIC"
    [] "control" \notin d.blocks /\ d.stopping.rule = "S-06" -> "EXPIRED"
    [] OTHER -> "SUPPRESSED"

\* policy_node: the rules are evaluated again, on the same snapshot.
Policy(r) ==
  LET s == run[r]
      f == facts[s.case] IN
  /\ at[r] = "POLICY"
  /\ \E d \in {EvaluatePolicy(s.proposal,
                 [amount |-> f.amount, attempt_no |-> s.attempt_no + 1, arm |-> f.arm,
                  stopping |-> Context(s), approved |-> None])} :
       Advance(r, [s EXCEPT !.decision = d, !.rule = d.stopping.rule, !.status =
         CASE d.verdict = "PASSED"        -> "EXECUTING"
           [] d.verdict = "ESCALATE_HITL" -> "AWAITING_APPROVAL"
           [] d.verdict = "BLOCKED"       -> BlockedStatus(d)])

MutForgetStatus(r) ==
  /\ at[r] = "EXECUTE"
  /\ Advance(r, [run[r] EXCEPT !.attempt_no = @ + 1])

\* execute_node; every runner leaves the executor out, so authorised is where it
\* ends.
Execute(r) ==
  LET s == run[r] IN
  /\ at[r] = "EXECUTE"
  /\ Advance(r, IF s.decision.token = None THEN [s EXCEPT !.status = "SUPPRESSED"]
                ELSE [s EXCEPT !.status = "MONITORING", !.attempt_no = @ + 1,
                               !.discounts = @ + IF s.decision.applied.pct > 0
                                                 THEN 1 ELSE 0])

Escalate(r) ==
  at[r] = "ESCALATE" /\ Advance(r, [run[r] EXCEPT !.status = "AWAITING_APPROVAL"])

Audit(r) == at[r] = "AUDIT" /\ Advance(r, run[r])

\* An adapter that raises, against its contract: the case is finalised.
NodeRaises(r) ==
  /\ at[r] \in {"DIAGNOSE", "STRATEGISE"} /\ MayAsk(run[r])
  /\ at[r] = "DIAGNOSE" => NeedsReview(RuleTable(facts[run[r].case]))
  /\ at[r] = "STRATEGISE" => /\ ~run[r].diagnosis.requires_reauth
                             /\ run[r].diagnosis.category # "RISK_BLOCKED"
  /\ run' = [run EXCEPT ![r].status = "FAILED_PERMANENT", ![r].visits = @ + 2]
  /\ at' = [at EXCEPT ![r] = "ended"]
  /\ UNCHANGED <<facts, autopilot, toggles, launches, cases, outbox, links, batch>>

Node(r) ==
  \/ Enrich(r) \/ Triage(r) \/ Diagnose(r) \/ Strategise(r) \/ Policy(r)
  \/ Execute(r) \/ Escalate(r) \/ Audit(r) \/ NodeRaises(r)

-----------------------------------------------------------------------------
(* A batch.                                                                *)

\* No case of this module is one that Razorpay has proven (Settlement has those), so
\* the whole table goes, the cases of requests too,
NoCases == [c \in CaseIds |-> None]

\* and what refers to a deleted case goes with it.
Cascaded == [q \in Requests |-> IF outbox[q] = None THEN None ELSE "DELETED"]

MutNoCascade(b) ==
  /\ Attempts > 0
  /\ at[b] \in {"off", "done", "dead"} /\ at' = [at EXCEPT ![b] = "cleared"]
  /\ launches < MaxLaunches /\ launches' = launches + 1
  /\ cases' = NoCases
  /\ UNCHANGED <<facts, autopilot, toggles, outbox, links, run, batch>>

\* _clear, which an empty corpus does not reach.  Links at Razorpay stay.
Clear(b) ==
  /\ Attempts > 0
  /\ at[b] \in {"off", "done", "dead"} /\ at' = [at EXCEPT ![b] = "cleared"]
  /\ launches < MaxLaunches /\ launches' = launches + 1
  /\ cases' = NoCases /\ outbox' = Cascaded
  /\ UNCHANGED <<facts, autopilot, toggles, links, run, batch>>

\* The merchants, loaded once.
LoadMerchants(b) ==
  /\ at[b] = "cleared" /\ at' = [at EXCEPT ![b] = "next"]
  /\ batch' = [batch EXCEPT ![b] = [NoBatch EXCEPT !.switch = autopilot]]
  /\ UNCHANGED <<facts, autopilot, toggles, launches, cases, outbox, links, run>>

\* PLAYBOOK_FOR knows no playbook for a payment that did not fail.
SkipAttempt(b) ==
  /\ at[b] = "next" /\ batch[b].next <= Attempts
  /\ facts[batch[b].next].playbook = None
  /\ batch' = [batch EXCEPT ![b].next = @ + 1]
  /\ UNCHANGED <<facts, autopilot, toggles, launches, cases, outbox, links, at, run>>

BeginCase(b) ==
  LET c == batch[b].next IN
  /\ at[b] = "next" /\ c <= Attempts /\ facts[c].playbook # None
  /\ at' = [at EXCEPT ![b] = "ENRICH"]
  /\ run' = [run EXCEPT ![b] = NewState(c, batch[b].switch,
                                        batch[b].acts[facts[c].day], batch[b].given)]
  /\ batch' = [batch EXCEPT ![b].next = @ + 1, ![b].created = @ + 1]
  /\ UNCHANGED <<facts, autopilot, toggles, launches, cases, outbox, links>>

\* Acted on: treated, and through the firewall.
Acted(s) == facts[s.case].arm = "TREATMENT" /\ s.status = "MONITORING"

\* What the simulated customer makes of the case.
Settled(s, paid) ==
  CASE paid /\ Acted(s)  -> "RECOVERED"
    [] paid /\ ~Acted(s) -> "RESOLVED_ORGANIC"
    [] ~paid -> IF s.status = "RESOLVED_ORGANIC" THEN "EXPIRED" ELSE s.status

\* What the row says of the diagnosis; triage may have ended the case before one.
CategoryOf(s) == IF s.diagnosis = None THEN None ELSE s.diagnosis.category

MutNoApprovalRow(s, paid) ==
  [status |-> Settled(s, paid), paid |-> paid, attempt_no |-> s.attempt_no,
   recovered |-> IF paid /\ Acted(s) THEN facts[s.case].amount ELSE 0,
   via |-> IF paid /\ Acted(s) THEN "SIMULATOR" ELSE "NONE", rule |-> s.rule,
   category |-> CategoryOf(s),
   action |-> IF Acted(s) /\ s.proposal # None
              THEN [strategy |-> s.proposal.strategy, class |-> s.proposal.class,
                    pct |-> s.decision.applied.pct, discount |-> s.decision.applied.discount]
              ELSE None,
   approval |-> None]

\* The rows one case becomes: RecoveryCase, RecoveryAction (with the proposal's
\* class), ApprovalRequest.
Row(s, paid) ==
  [status |-> Settled(s, paid), paid |-> paid, attempt_no |-> s.attempt_no,
   recovered |-> IF paid /\ Acted(s) THEN facts[s.case].amount ELSE 0,
   via |-> IF paid /\ Acted(s) THEN "SIMULATOR" ELSE "NONE", rule |-> s.rule,
   category |-> CategoryOf(s),
   action |-> IF Acted(s) /\ s.proposal # None
              THEN [strategy |-> s.proposal.strategy, class |-> s.proposal.class,
                    pct |-> s.decision.applied.pct, discount |-> s.decision.applied.discount]
              ELSE None,
   approval |-> IF Settled(s, paid) = "AWAITING_APPROVAL" THEN s.decision.applied ELSE None]

\* What the batch counts as it goes, whether or not the commit survives.
MutCountNothing(b, s) == batch

Counted(b, s) ==
  IF Acted(s)
  THEN [batch EXCEPT ![b].acts[facts[s.case].day] = @ + 1,
                     ![b].given = @ + s.decision.applied.discount]
  ELSE batch

\* All rows and the audit block in one commit; a case id that is taken, by a
\* batch that runs at the same time, ends this one.
PersistCase(b) ==
  LET s == run[b] IN
  /\ at[b] = "ended" /\ b \in Batches
  /\ run' = [run EXCEPT ![b] = None]
  /\ \/ /\ cases[s.case] = None
        /\ \E paid \in BOOLEAN : cases' = [cases EXCEPT ![s.case] = Row(s, paid)]
        /\ batch' = Counted(b, s) /\ at' = [at EXCEPT ![b] = "next"]
     \/ /\ cases[s.case] # None
        /\ at' = [at EXCEPT ![b] = "dead"] /\ UNCHANGED <<cases, batch>>
  /\ UNCHANGED <<facts, autopilot, toggles, launches, outbox, links>>

\* AuditChain.append loses a race for its index: its rollback takes the case's
\* rows with it, and its retry commits the block alone.
PersistLost(b) ==
  /\ at[b] = "ended" /\ b \in Batches /\ cases[run[b].case] = None
  /\ \E other \in Runners \ {b} : at[other] # "off"
  /\ run' = [run EXCEPT ![b] = None] /\ at' = [at EXCEPT ![b] = "next"]
  /\ batch' = Counted(b, run[b])
  /\ UNCHANGED <<facts, autopilot, toggles, launches, cases, outbox, links>>

BatchComplete(b) ==
  /\ at[b] = "next" /\ batch[b].next > Attempts
  /\ at' = [at EXCEPT ![b] = "done"]
  /\ UNCHANGED <<facts, autopilot, toggles, launches, cases, outbox, links, run, batch>>

-----------------------------------------------------------------------------
(* A request: POST /testmode/recover.                                      *)

Recover(q) ==
  /\ at[q] = "off" /\ at' = [at EXCEPT ![q] = "ENRICH"]
  /\ run' = [run EXCEPT ![q] = NewState(q, autopilot, 0, 0)]
  /\ UNCHANGED <<facts, autopilot, toggles, launches, cases, outbox, links, batch>>

\* Not authorised: nothing is written.
Refuse(q) ==
  /\ at[q] = "ended" /\ q \in Requests /\ run[q].status # "MONITORING"
  /\ at' = [at EXCEPT ![q] = "done"] /\ run' = [run EXCEPT ![q] = None]
  /\ UNCHANGED <<facts, autopilot, toggles, launches, cases, outbox, links, batch>>

\* The case and the reference are committed before Razorpay is called.
MutCallFirst(q) ==
  /\ at[q] = "ended" /\ q \in Requests /\ run[q].status = "MONITORING"
  /\ at' = [at EXCEPT ![q] = "call"] /\ links' = links \cup {q}
  /\ UNCHANGED <<facts, autopilot, toggles, launches, cases, outbox, run, batch>>

CommitIntent(q) ==
  /\ at[q] = "ended" /\ q \in Requests /\ run[q].status = "MONITORING"
  /\ at' = [at EXCEPT ![q] = "call"]
  /\ cases' = [cases EXCEPT ![q] = IntentRow(CategoryOf(run[q]))]
  /\ outbox' = [outbox EXCEPT ![q] = "SENDING"]
  /\ UNCHANGED <<facts, autopilot, toggles, launches, links, run, batch>>

\* Razorpay makes the link, refuses, or makes it and the answer is lost.
CallRazorpay(q) ==
  /\ at[q] = "call"
  /\ \E made, heard \in BOOLEAN :
       /\ heard => made
       /\ links' = IF made THEN links \cup {q} ELSE links
       /\ at' = [at EXCEPT ![q] = IF heard THEN "record" ELSE "fail"]
  /\ UNCHANGED <<facts, autopilot, toggles, launches, cases, outbox, run, batch>>

\* SENT with its audit block; or the append's rollback leaves SENDING.
RecordSent(q) ==
  /\ at[q] = "record" /\ outbox[q] # "DELETED"
  /\ \/ outbox' = [outbox EXCEPT ![q] = "SENT"]
     \/ /\ \E other \in Runners \ {q} : at[other] # "off"
        /\ UNCHANGED outbox
  /\ at' = [at EXCEPT ![q] = "done"] /\ run' = [run EXCEPT ![q] = None]
  /\ UNCHANGED <<facts, autopilot, toggles, launches, cases, links, batch>>

RecordRefusal(q) ==
  /\ at[q] = "fail" /\ outbox[q] # "DELETED"
  /\ outbox' = [outbox EXCEPT ![q] = "PENDING"]
  /\ at' = [at EXCEPT ![q] = "done"] /\ run' = [run EXCEPT ![q] = None]
  /\ UNCHANGED <<facts, autopilot, toggles, launches, cases, links, batch>>

\* A batch has deleted the row meanwhile: the UPDATE matches nothing, the flush
\* raises, and the request ends without having recorded what Razorpay did.
UpdateNothing(q) ==
  /\ at[q] \in {"record", "fail"} /\ outbox[q] = "DELETED"
  /\ at' = [at EXCEPT ![q] = "dead"] /\ run' = [run EXCEPT ![q] = None]
  /\ UNCHANGED <<facts, autopilot, toggles, launches, cases, outbox, links, batch>>

-----------------------------------------------------------------------------
(* The others.                                                             *)

ToggleAutopilot ==
  /\ toggles < MaxToggles /\ toggles' = toggles + 1
  /\ autopilot' = ~autopilot
  /\ UNCHANGED <<facts, launches, cases, outbox, links, at, run, batch>>

\* The process of a runner dies; what it had not committed is gone.
Die(r) ==
  /\ at[r] \notin {"off", "done", "dead", "raised"}
  /\ at' = [at EXCEPT ![r] = "dead"] /\ run' = [run EXCEPT ![r] = None]
  /\ UNCHANGED <<facts, autopilot, toggles, launches, cases, outbox, links, batch>>

BatchStep(b) ==
  \/ LoadMerchants(b) \/ SkipAttempt(b) \/ BeginCase(b) \/ Node(b) \/ PersistCase(b)
  \/ PersistLost(b) \/ BatchComplete(b)

RequestStep(q) ==
  \/ Node(q) \/ Refuse(q) \/ CommitIntent(q) \/ CallRazorpay(q) \/ RecordSent(q)
  \/ RecordRefusal(q) \/ UpdateNothing(q)

Next ==
  \/ \E b \in Batches : Clear(b) \/ BatchStep(b)
  \/ \E q \in Requests : Recover(q) \/ RequestStep(q)
  \/ \E r \in Runners : Die(r)
  \/ ToggleAutopilot

\* A runner that has started and has not come to its end.
Started(r) == at[r] \notin {"off", "done", "dead", "raised"}

Moves(r) == at'[r] # at[r] \/ (r \in Batches /\ batch'[r] # batch[r])

\* A started runner runs on, its coroutine is awaited: weak fairness of its steps,
\* which are enabled exactly while it is started, and of nobody else's.
Fairness == \A r \in Runners : []<>(~Started(r)) \/ []<><<Moves(r)>>_vars

Spec == Init /\ [][Next]_vars /\ Fairness

-----------------------------------------------------------------------------
(* Properties.                                                             *)

Rows == {c \in CaseIds : cases[c] # None}

\* Types, and where a state is held.
TypeOK ==
  /\ toggles \in 0 .. MaxToggles /\ launches \in 0 .. MaxLaunches /\ autopilot \in BOOLEAN
  /\ links \subseteq Requests
  /\ outbox \in [Requests -> {None, "SENDING", "PENDING", "SENT", "DELETED"}]
  /\ \A r \in Runners : at[r] \in Nodes \cup {"ended"} => run[r].case \in CaseIds
  /\ \A c \in Rows : cases[c].status \in TERMINAL_STATUSES \cup
                                         {"MONITORING", "AWAITING_APPROVAL"}

\* A request's intent is in the table.
Intended(q) == outbox[q] \notin {None, "DELETED"}

\* "Every case is accounted for": a committed case is over, or waits for a
\* customer who was contacted, or waits for a reviewer who has something to
\* approve.  A request's case and intent stand or are deleted together, a SENT
\* intent names a link, and no link was made whose intent had not been committed,
\* though a batch may have deleted it since (run_case, _clear, test_recovery).
CasesAreAccountedFor ==
  /\ \A c \in Rows :
       \/ cases[c].status \in TERMINAL_STATUSES
       \/ cases[c].status = "MONITORING" /\ (cases[c].action # None \/ c \in Requests)
       \/ cases[c].status = "AWAITING_APPROVAL" /\ cases[c].approval # None
  /\ \A q \in Requests :
       /\ IF Intended(q) THEN cases[q] # None /\ cases[q].status = "MONITORING"
                         ELSE cases[q] = None
       /\ outbox[q] = "SENT" => q \in links
       /\ q \in links => outbox[q] # None

\* The counterfactual (INC-018): RECOVERED is a payment after an executed action,
\* RESOLVED_ORGANIC a payment without one, and whoever is held out is never acted
\* on and, if the payment never came, observed and nothing else.
OutcomesAreHonest ==
  \A c \in Rows :
    LET row == cases[c] IN
    /\ row.status = "RECOVERED" <=> row.paid /\ row.action # None
    /\ row.status = "RESOLVED_ORGANIC" <=> row.paid /\ row.action = None
    /\ row.action # None => row.attempt_no > 0
    /\ facts[c].arm = "CONTROL" =>
         /\ row.action = None /\ row.approval = None /\ row.attempt_no = 0
         /\ ~row.paid /\ row.category # None =>
              row.status \in {"OBSERVED_NO_ACTION", "FAILED_PERMANENT"}
    /\ row.status = "OBSERVED_NO_ACTION" => facts[c].arm = "CONTROL"

\* Of what the cases of one day and month spend: at most daily_action_budget
\* actions a day, and no discount once the month's exposure is reached.
OfDay(d) == {c \in Rows \ Requests : cases[c].action # None /\ facts[c].day = d}

Given(C) == MapThenSumSet(LAMBDA c : cases[c].action.discount, C)

\* S-11 holds over the cases of a batch, although each is evaluated on its own:
\* the counters travel from case to case (run_batch).  The exposure may be passed
\* by the one discount that reaches it.
BudgetsHold ==
  LET given == Given(UNION {OfDay(d) : d \in Days}) IN
  /\ \A d \in Days : Cardinality(OfDay(d)) <= daily_action_budget
  /\ given > 0 => given < monthly_discount_exposure + max_discount_absolute

\* Whatever a model says, an action keeps to the playbook: a payment blocked by the
\* merchant's own rules is not asked for again, a mandate Razorpay calls dead is
\* not presented again, no one-off link replaces a mandate or an invoice, and no
\* discount is given where none is a lever (classify, violations).
PlaybooksAreKept ==
  \A c \in Rows :
    LET f == facts[c]
        a == cases[c].action IN
    a # None =>
      /\ f.error_source = "business" => a.strategy = "NO_ACTION"
      /\ (/\ f.error_source # "business" /\ f.playbook # "CHECKOUT_ABANDON"
          /\ MatchReason(f.error_reason) = "MANDATE_INVALID")
           => a.strategy \in {"MANDATE_REAUTH", "INVOICE_REMINDER"}
      /\ f.playbook \in {"SUBSCRIPTION", "RECEIVABLE"} =>
           a.strategy \notin OneOffLinks /\ a.discount = 0

\* No run is cut off by a bound, and no batch or request stays half way unless its
\* process dies (run_case: "the one outcome the stopping rules cannot rescue").
EveryRunEnds ==
  \A r \in Runners : at[r] \in Nodes \cup {"ended", "next"} ~> at[r] \in {"done", "dead"}

\* The tables as the reports read them: amounts as they stand, an assignment and a
\* demonstration flag for the cases of a batch and of a request.
Db ==
  [c \in Rows |->
     [status |-> cases[c].status, amount |-> facts[c].amount,
      recovered |-> cases[c].recovered, via |-> cases[c].via,
      arm |-> IF c \in Requests THEN "NONE" ELSE facts[c].arm,
      rule |-> IF cases[c].rule = None THEN "NONE" ELSE cases[c].rule,
      demo |-> c \in Requests, waiting |-> cases[c].approval # None]]

\* "Three surfaces reporting three slightly different totals is how a demo loses an
\* argument" (metrics.py), "two independent queries of one quantity, which must
\* agree" (test_money_ledger.py): at every moment of every batch the ledger, the
\* tiles, the lift and the claims count the payments that customers made, each
\* once, credit the acted-on ones alone, and promote none to Razorpay's proof.
SurfacesAgree ==
  LET db     == Db
      ledger == MoneyLedger(db)
      tiles  == Overview(db)
      report == Attribution(db)
      claims == Claims(db)
      rules  == {Authority[i] : i \in DOMAIN Authority}
      paid   == {c \in Rows : cases[c].paid}
      ours   == {c \in paid : cases[c].action # None} IN
  /\ ledger.arrived = Amount(db, paid) /\ ledger.driven = Amount(db, ours)
  /\ ledger.driven = report.gross /\ ledger.driven = tiles.gross_simulated
  /\ ledger.arrived_cases = report.treatment.paid + report.control.paid
  /\ ledger.organic = claims.not_claimed_total /\ claims.not_claimed = paid \ ours
  /\ report.control.cases = tiles.control_cases
  /\ paid \cap AtRisk(db) = {}
  /\ tiles.gross_recovered = 0 /\ claims.claimed = {} /\ ~Proof(db, TRUE).VERIFIED
  /\ tiles.pending_approvals = Cardinality(WithStatus(db, {"AWAITING_APPROVAL"}))
  /\ tiles.interceptions = MapThenSumSet(LAMBDA r : StoppingRuleCounts(db, rules)[r], rules)
  /\ Briefing(db).recovered_cases = ledger.driven_cases

\* _clear "deletes the cases this batch created", and a committed reference makes
\* every crash after it recoverable (test_recovery): a link has its case and intent.
LinksKeepTheirIntents == \A q \in links : Intended(q)

\* control.py: the switch takes effect "at the next stopping-rule evaluation (S-12,
\* evaluated first)", the first of each case of a batch among them.
SwitchIsFelt ==
  [][\A b \in Batches : Triage(b) /\ ~autopilot => run'[b].rule = "S-12"]_vars

\* briefing.py: "I did not contact ..." whoever a stopping rule fired for.
RestraintIsNoContact ==
  \A c \in Briefing(Db).not_contacted \ Requests : cases[c].action = None

\* briefing.py: "were in quiet hours and are queued for 09:05".
QuietHoursAreQueued ==
  \A c \in Rows : cases[c].rule = "S-09" => cases[c].status \notin TERMINAL_STATUSES

\* classifier.py: "Deliberately blocked. Escalate to a human; never route around it."
BlockedPaymentsAreLeftAlone ==
  \A c \in Rows : facts[c].error_source = "business" => cases[c].action = None
=============================================================================
