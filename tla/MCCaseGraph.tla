---------------------------- MODULE MCCaseGraph ----------------------------
(* A small instance of CaseGraph for TLC. *)
EXTENDS CaseGraph

Attempt(playbook, source, step, reason, amount, day) ==
  [playbook |-> playbook, error_source |-> source, error_step |-> step,
   error_reason |-> reason, ltv |-> 300, prior_orders |-> 2, amount |-> amount,
   arm |-> "TREATMENT", day |-> day, now |-> 12, window |-> 36, opted_out |-> FALSE,
   marketing |-> TRUE, dnd |-> FALSE, transactional |-> TRUE, promise |-> FALSE]

Plain == Attempt("PAYMENT_FAILURE", "bank", "payment_response", None, 500, 1)

\* One of each kind: agreeing, conflicting and missing telemetry, every playbook,
\* a held-out customer, two at night (one too late), one who wants no offers, a
\* large order.  The plain one comes second.
Varied ==
  {[Plain EXCEPT !.arm = "CONTROL"], [Plain EXCEPT !.now = 22, !.window = 30],
   [Plain EXCEPT !.now = 22], [Plain EXCEPT !.amount = 1500],
   [Plain EXCEPT !.marketing = FALSE],
   Attempt("PAYMENT_FAILURE", "business", "payment_initiation", {"RAIL_FAULT"}, 500, 1),
   Attempt("PAYMENT_FAILURE", "bank", "payment_authorization", {"RISK_BLOCKED"}, 500, 1),
   Attempt("CHECKOUT_ABANDON", None, None, None, 500, 2),
   Attempt("RECEIVABLE", "other", None, {}, 500, 1),
   Attempt("SUBSCRIPTION", "customer", "payment_response",
           {"MANDATE_INVALID", "RAIL_FAULT"}, 500, 1),
   Attempt(None, "bank", None, None, 500, 1)}

Tested == Attempt("PAYMENT_FAILURE", "customer", "payment_authentication",
                  {"AUTHENTICATION_ABANDONED"}, 100, 1)

MCCorpus(c) ==
  CASE c = 1 -> Varied
    [] c = 2 -> {[Plain EXCEPT !.amount = 700]}
    [] OTHER -> {Tested}

Answer(source, output) == [source |-> source, output |-> output]

\* A model that contradicts the rule table, and one that is not understood.
\* A request is given recorded answers only.
MCDiagnosisAnswers(r) ==
  {Answer("CACHED", [category |-> "PRICE_RESISTANCE", confidence |-> 70,
                     is_recoverable |-> TRUE])}
  \cup IF r \in Requests THEN {}
       ELSE {Answer("LIVE", [category |-> "MANDATE_INVALID", confidence |-> 90,
                             is_recoverable |-> TRUE]),
             Answer("LIVE", None)}

Offer(pct) ==
  [strategy |-> "INCENTIVISED_LINK", class |-> "MARKETING", discount |-> pct,
   expiry |-> link_expiry]

MCProposalAnswers(r) ==
  {Answer("CACHED", Offer(5))}
  \cup IF r \in Requests THEN {}
       ELSE {Answer("LIVE", Offer(50)),
             Answer("LIVE", [strategy |-> "MANDATE_RETRY", class |-> "TRANSACTIONAL",
                             discount |-> 0, expiry |-> link_expiry])}
=============================================================================
