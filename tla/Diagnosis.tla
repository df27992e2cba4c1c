----------------------------- MODULE Diagnosis -----------------------------
(***************************************************************************)
(* Why a payment failed: the rule table of agent/classifier.py, the        *)
(* routing of llm/routing.py that consults a model where the table is      *)
(* unsure, and the playbooks of agent/playbooks.py, which say what may be  *)
(* done about it.  Pure.                                                   *)
(*                                                                         *)
(* An error_reason is a string in which marker words are searched; here it *)
(* is the set of groups of markers it contains, None when there is none.   *)
(* Confidence is in percent.                                               *)
(***************************************************************************)
EXTENDS Integers

CONSTANT None     \* an absent field, and an absent answer

\* FailureCategory.
Categories ==
  {"RAIL_FAULT", "INSUFFICIENT_FUNDS", "AUTHENTICATION_ABANDONED", "MANDATE_INVALID",
   "PRICE_RESISTANCE", "INTENT_DECAY", "RISK_BLOCKED", "UNKNOWN"}

\* Groups of markers, the most specific first: a word naming a mechanism must
\* never outrank a phrase naming the actor (INC-003).
Specificity ==
  <<"MANDATE_INVALID", "AUTHENTICATION_ABANDONED", "INSUFFICIENT_FUNDS",
    "RISK_BLOCKED", "RAIL_FAULT">>

MatchReason(reason) ==
  IF reason \in {None, {}} THEN None
  ELSE Specificity[CHOOSE i \in DOMAIN Specificity :
         /\ Specificity[i] \in reason
         /\ \A j \in 1 .. i - 1 : Specificity[j] \notin reason]

\* Any other string is an unrecognised source or step, and is treated as none.
ErrorSources == {"bank", "gateway", "internal", "customer", "business", "nbfc"}
ErrorSteps ==
  {"payment_initiation", "payment_authentication", "payment_authorization",
   "payment_response"}

SourceStep(source, step) ==
  CASE source = "customer" /\ step = "payment_authorization" -> "INSUFFICIENT_FUNDS"
    [] source = "customer" -> "AUTHENTICATION_ABANDONED"
    [] source = "business" -> "RISK_BLOCKED"
    [] source = "nbfc" /\ step = "payment_authorization" -> "INSUFFICIENT_FUNDS"
    [] OTHER -> "RAIL_FAULT"

SourceOnly(source) ==
  CASE source = "customer" -> "AUTHENTICATION_ABANDONED"
    [] source = "business" -> "RISK_BLOCKED"
    [] OTHER -> "RAIL_FAULT"

\* _IMPLICATIONS: what each category means for the recovery.
Recoverable(category)       == category # "RISK_BLOCKED"
RetrySameRail(category)     == category \notin {"RAIL_FAULT", "MANDATE_INVALID", "RISK_BLOCKED"}
RequiresReauth(category)    == category = "MANDATE_INVALID"
DiscountCouldHelp(category) ==
  category \in {"INSUFFICIENT_FUNDS", "PRICE_RESISTANCE", "INTENT_DECAY"}

Build(category, confidence, conflict) ==
  [category |-> category, confidence |-> confidence, signals_conflict |-> conflict,
   is_recoverable |-> Recoverable(category), retry_same_rail |-> RetrySameRail(category),
   requires_reauth |-> RequiresReauth(category),
   discount_could_help |-> DiscountCouldHelp(category)]

\* The reason outranks the table whoever Razorpay blames.
MutReasonFirst(source, step, reason) ==
  LET named == MatchReason(reason) IN
  IF named # None THEN Build(named, 60, FALSE)
  ELSE IF source \notin ErrorSources THEN Build("UNKNOWN", 25, FALSE)
  ELSE Build(SourceOnly(source), 65, FALSE)

\* A block by the merchant's own risk rules is checked before any reason may
\* reverse it, a dead mandate before any source may.
Classify(source, step, reason) ==
  LET named == MatchReason(reason) IN
  IF source \notin ErrorSources
  THEN IF named = None THEN Build("UNKNOWN", 25, FALSE) ELSE Build(named, 60, FALSE)
  ELSE IF source = "business"
  THEN Build("RISK_BLOCKED", IF reason = None THEN 65 ELSE 95, FALSE)
  ELSE IF named = "MANDATE_INVALID" THEN Build(named, 95, FALSE)
  ELSE IF step \in ErrorSteps /\ named # None
  THEN IF SourceStep(source, step) = named
       THEN Build(named, 95, FALSE) ELSE Build(named, 45, TRUE)
  ELSE IF step \in ErrorSteps THEN Build(SourceStep(source, step), 85, FALSE)
  ELSE Build(IF named = None THEN SourceOnly(source) ELSE named, 65, FALSE)

\* An abandoned checkout has no error: only the customer's history speaks.
ClassifyAbandoned(ltv, prior_orders, cart) ==
  IF prior_orders < 2 \/ ltv <= 0 THEN Build("INTENT_DECAY", 45, FALSE)
  ELSE IF cart > 2 * (ltv \div prior_orders) THEN Build("PRICE_RESISTANCE", 65, FALSE)
  ELSE Build("INTENT_DECAY", 65, FALSE)

NeedsReview(d) == d.signals_conflict \/ d.confidence < 60

RuleTable(f) ==
  IF f.playbook = "CHECKOUT_ABANDON"
  THEN ClassifyAbandoned(f.ltv, f.prior_orders, f.amount)
  ELSE Classify(f.error_source, f.error_step, f.error_reason)

\* routing.diagnose.  The model names the category; what a category means stays
\* with the rule table, but for the dead mandate a model may add.
Merge(rule, output) ==
  [rule EXCEPT !.category = output.category, !.confidence = output.confidence,
               !.is_recoverable = output.is_recoverable /\ rule.category # "RISK_BLOCKED",
               !.requires_reauth = @ \/ output.category = "MANDATE_INVALID"]

\* An answer: from whom, and the output if it has the right shape.
OfModel(answer) == answer.source \in {"LIVE", "CACHED"}

\* Whether a rule-table answer is taken as it is.
Unreviewed(rule, adapter) == ~adapter \/ ~NeedsReview(rule)

Routed(rule, answer) ==
  IF answer.output = None THEN [diagnosis |-> rule, consulted |-> FALSE]
  ELSE [diagnosis |-> Merge(rule, answer.output), consulted |-> OfModel(answer)]

\* The deterministic adapter beneath every model: it never offers a discount.
FloorDiagnosis(rule) ==
  [source |-> "DETERMINISTIC",
   output |-> [category |-> rule.category, confidence |-> rule.confidence,
               is_recoverable |-> rule.is_recoverable]]

FloorStrategy(d) ==
  IF d.requires_reauth THEN "MANDATE_REAUTH"
  ELSE IF d.category = "RISK_BLOCKED" THEN "NO_ACTION"
  ELSE IF d.retry_same_rail THEN "FRESH_LINK_SAME_RAIL" ELSE "FRESH_LINK_ALT_RAIL"

-----------------------------------------------------------------------------
(* Playbooks.                                                              *)

DiscountPermitted == {"PAYMENT_FAILURE", "CHECKOUT_ABANDON"}
PreferredChannel(playbook) == IF playbook = "RECEIVABLE" THEN "EMAIL" ELSE "WHATSAPP"
OneOffLinks == {"FRESH_LINK_SAME_RAIL", "FRESH_LINK_ALT_RAIL", "INCENTIVISED_LINK"}

\* The deterministic strategy: total, and at no discount.
SelectStrategy(playbook, d, alternative) ==
  LET dead == d.requires_reauth \/ d.category = "MANDATE_INVALID" IN
  CASE d.category = "RISK_BLOCKED" -> "NO_ACTION"
    [] d.category # "RISK_BLOCKED" /\ playbook = "SUBSCRIPTION" ->
         IF dead THEN "MANDATE_REAUTH" ELSE "MANDATE_RETRY"
    [] d.category # "RISK_BLOCKED" /\ playbook = "RECEIVABLE" -> "INVOICE_REMINDER"
    [] d.category # "RISK_BLOCKED" /\ playbook \in DiscountPermitted ->
         IF dead THEN "MANDATE_REAUTH"
         ELSE IF /\ playbook = "PAYMENT_FAILURE" /\ alternative # None
                 /\ d.category = "RAIL_FAULT" \/ ~d.retry_same_rail
         THEN "FRESH_LINK_ALT_RAIL" ELSE "FRESH_LINK_SAME_RAIL"

Forbidden(playbook) ==
  IF playbook \in {"SUBSCRIPTION", "RECEIVABLE"} THEN OneOffLinks ELSE {}

MutNoForbidden(playbook, strategy, discount, requires_reauth) ==
  \/ discount > 0 /\ playbook \notin DiscountPermitted
  \/ requires_reauth /\ strategy = "MANDATE_RETRY"

\* What a playbook forbids, however well it is argued.
Violates(playbook, strategy, discount, requires_reauth) ==
  \/ strategy \in Forbidden(playbook)
  \/ discount > 0 /\ playbook \notin DiscountPermitted
  \/ requires_reauth /\ strategy = "MANDATE_RETRY"
=============================================================================
