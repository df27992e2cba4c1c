------------------------------ MODULE Firewall ------------------------------
(***************************************************************************)
(* One case before the policy firewall.  A model proposes, policy_node     *)
(* (agent/nodes.py) evaluates, a reviewer may approve what was shown, and  *)
(* meanwhile the facts the rules look at change: the hour, the order, the  *)
(* customer's consent, the contact ledger, the merchant's switches.        *)
(***************************************************************************)
EXTENDS PolicyEngine

CONSTANTS
  Proposals,   \* what a model may propose
  Openings,    \* the policy contexts in which a case may start
  Hours,       \* hours the clock may show
  MaxEvents    \* bound: changes of the facts

Facts ==
  [now : Int, window : Int \cup {None}, order_status : {"created", "paid"},
   case_status : {"DETECTED", "RECOVERED"}, attempt_no : Int,
   discount_attempts : Int, opted_out : BOOLEAN, dnd : BOOLEAN, marketing : BOOLEAN,
   transactional : BOOLEAN, contacts_24h : Int, contacts_48h : Int,
   last_contact : Int \cup {None}, promise_active : BOOLEAN, promised_at : Int \cup {None},
   autopilot : BOOLEAN, actions_today : Int, exposure : Int,
   class : {"MARKETING", "TRANSACTIONAL"}, discount : Int, outbound : BOOLEAN]

\* A model's numbers may be anything.  Carts of a size at which the rupee ceiling
\* is less than half of the smallest percentage are left out.
ASSUME FirewallParametersOK ==
  /\ Proposals \subseteq
       [strategy : STRING, class : {"MARKETING", "TRANSACTIONAL"},
        discount : Int \cup {NaN}, expiry : Int \cup {NaN}]
  /\ Openings \subseteq
       [amount : Int, arm : {"TREATMENT", "CONTROL"}, attempt_no : Int, stopping : Facts,
        approved : {None}]
  /\ max_discount_absolute > 0 =>
       \A c \in Openings : c.amount <= 2 * max_discount_absolute * Whole
  /\ Hours \subseteq Int /\ MaxEvents \in Nat

VARIABLES
  ctx,         \* PolicyContext
  proposal,
  decision,    \* the answer to the last evaluation, None once anything changed
  events

vars == <<ctx, proposal, decision, events>>

Init ==
  /\ ctx \in Openings /\ proposal \in Proposals
  /\ decision = None /\ events = 0

-----------------------------------------------------------------------------
(* The facts.                                                              *)

S == ctx.stopping

Happens(facts) ==
  /\ events < MaxEvents /\ events' = events + 1
  /\ facts # S
  /\ ctx' = [ctx EXCEPT !.stopping = facts]
  /\ decision' = None
  /\ UNCHANGED proposal

Elapse(t)        == t > S.now /\ Happens([S EXCEPT !.now = t])
OrderIsPaid      == Happens([S EXCEPT !.order_status = "paid"])
CaseIsResolved   == Happens([S EXCEPT !.case_status = "RECOVERED"])
OptOut           == Happens([S EXCEPT !.opted_out = TRUE])
RegisterDnd      == Happens([S EXCEPT !.dnd = TRUE])
OptInToMarketing == Happens([S EXCEPT !.marketing = TRUE])
RevokeConsent    == Happens([S EXCEPT !.transactional = FALSE])
Promise(t)       == Happens([S EXCEPT !.promise_active = TRUE, !.promised_at = t])
ToggleAutopilot  == Happens([S EXCEPT !.autopilot = ~@])
SpendBudget      == Happens([S EXCEPT !.actions_today = daily_action_budget])
SpendDiscounts   == Happens([S EXCEPT !.exposure = monthly_discount_exposure])

\* Somebody contacts the customer; the timestamp may be missing.
Contact(t) ==
  Happens([S EXCEPT !.contacts_24h = @ + 1, !.contacts_48h = @ + 1, !.last_contact = t])

\* An attempt, with a discount or without.
Attempt(bearing) ==
  Happens([S EXCEPT !.attempt_no = @ + 1, !.discount_attempts = @ + bearing])

Fact ==
  \/ OrderIsPaid \/ CaseIsResolved \/ OptOut \/ RegisterDnd \/ OptInToMarketing
  \/ RevokeConsent \/ ToggleAutopilot \/ SpendBudget \/ SpendDiscounts
  \/ \E t \in Hours : Elapse(t) \/ Promise(t)
  \/ \E t \in {S.now, None} : Contact(t)
  \/ \E bearing \in {0, 1} : Attempt(bearing)

-----------------------------------------------------------------------------
Propose(p) ==
  /\ events < MaxEvents /\ events' = events + 1
  /\ proposal' = p /\ p # proposal /\ decision' = None
  /\ UNCHANGED ctx

\* policy_node.
Evaluation ==
  /\ decision = None
  /\ decision' = EvaluatePolicy(proposal, [ctx EXCEPT !.attempt_no = S.attempt_no + 1])
  /\ UNCHANGED <<ctx, proposal, events>>

\* A reviewer approves the action that was escalated, by its hash.
Approve ==
  /\ decision # None /\ decision.verdict = "ESCALATE_HITL"
  /\ ctx' = [ctx EXCEPT !.approved = decision.applied]
  /\ decision' = None
  /\ UNCHANGED <<proposal, events>>

Next == Fact \/ (\E p \in Proposals : Propose(p)) \/ Evaluation \/ Approve

Spec == Init /\ [][Next]_vars

-----------------------------------------------------------------------------
(* Properties.                                                             *)

Verdicts == {"PASSED", "ESCALATE_HITL", "BLOCKED"}
Decided  == decision # None
Shown    == Decided /\ decision.applied # None
Passed   == Decided /\ decision.verdict = "PASSED"
Asked    == StoppingContext(proposal, ctx)

\* Types; only a PASSED verdict carries a token, and for the action it shows.
TypeOK ==
  /\ events \in 0 .. MaxEvents /\ proposal \in Proposals
  /\ Decided =>
       /\ decision.verdict \in Verdicts
       /\ Passed = (decision.token # None)
       /\ Passed => decision.token = decision.applied
       /\ (decision.verdict = "BLOCKED") = (decision.blocks # {})

\* However percentage, rupee cap, safe default and rounding combine, the customer
\* is asked for a positive amount, never pays less than the ceiling in percent
\* and in rupees allow, and gets a link that lives within its bounds
\* (evaluate_policy, _apply_absolute_cap).
AppliedIsBounded ==
  Shown =>
    LET a == decision.applied IN
    /\ a.charge + a.discount = ctx.amount /\ a.charge > 0 /\ a.discount >= 0
    /\ a.discount * Whole <= max_discount_pct * ctx.amount
    /\ a.discount <= max_discount_absolute
    /\ a.pct \in 0 .. max_discount_pct
    /\ a.pct = 0 => a.discount = 0
    /\ a.expiry \in link_expiry_min .. link_expiry_max

\* "Every reduction is recorded", and nothing is ever raised: what was proposed
\* and what is applied differ only where a clamp says so, in the safe direction.
ReductionsAreRecorded ==
  Shown =>
    LET a == decision.applied
        touched == {r.field : r \in decision.clamps} IN
    /\ proposal.class # a.class => "class" \in touched /\ a.class = "TRANSACTIONAL"
    /\ proposal.discount # a.pct => "discount" \in touched
    /\ proposal.discount \in Nat => a.pct <= proposal.discount
    /\ proposal.expiry # a.expiry => "expiry" \in touched

\* A PASSED action has everybody's leave: the merchant's (autopilot, budgets), the
\* customer's (no opt-out, consent for its class), the experiment's (not held
\* out), a reviewer's when the amount or a breached bound asks for one, and it is
\* not too late.
NobodyIsOverruled ==
  Passed =>
    LET a == decision.applied IN
    /\ S.autopilot /\ S.actions_today < daily_action_budget
    /\ S.exposure < monthly_discount_exposure /\ ctx.arm = "TREATMENT"
    /\ S.order_status # "paid" /\ S.case_status # "RECOVERED"
    /\ S.attempt_no < max_attempts_per_case
    /\ S.window # None => S.now < S.window
    /\ S.outbound => /\ ~S.opted_out /\ S.transactional
                     /\ S.contacts_48h < max_contacts_48h
                     /\ a.class = "MARKETING" => S.marketing /\ ~S.dnd
    /\ a.class = "TRANSACTIONAL" \/ a.strategy = "NO_ACTION" => a.discount = 0
    /\ \/ a.strategy = "NO_ACTION"
       \/ a.amount < max_autonomous_amount /\ proposal.discount \in 0 .. max_discount_pct
       \/ ctx.approved = a

\* When nothing holds a message at hour t.
Free(c, t) ==
  /\ ~(c.outbound /\ InQuietHours(t))
  /\ c.outbound /\ c.contacts_24h >= max_contacts_24h => t >= c.last_contact + Day
  /\ c.promise_active /\ c.promised_at # None => t >= c.promised_at + promise_freeze_h

\* Following the holds, each to its end, at most twice.
Hop(c) ==
  LET v == Evaluate(c) IN IF v.decision = "DEFER" THEN [c EXCEPT !.now = v.until] ELSE c

\* Held "never dropped", and never early: a deferred action that is looked at
\* again at the end of each hold goes out at the first hour at which nothing holds
\* it, or the case expires because that hour lies after its window
\* (evaluate, next_quiet_hours_release).
HoldsEndOnTime ==
  Decided /\ Evaluate(Asked).decision = "DEFER" =>
    LET then == Hop(Hop(Asked))
        v    == Evaluate(then) IN
    \/ v.decision = "STOP" /\ v.rule = "S-06"
       /\ \A t \in S.now .. S.window - 1 : ~Free(S, t)
    \/ /\ MayAct(v) /\ Free(S, then.now)
       /\ \A t \in S.now .. then.now - 1 : ~Free(S, t)

\* S-03: "the discount is stripped and the recovery still goes out at 0%".
DiscountBudgetHolds ==
  Shown /\ S.discount_attempts >= max_discount_bearing_attempts =>
    decision.applied.discount = 0
=============================================================================
