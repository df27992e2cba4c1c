--------------------------- MODULE FirewallProofs ---------------------------
(***************************************************************************)
(* Proofs about Firewall, for any proposals and facts, any limits and any  *)
(* number of events.                                                       *)
(***************************************************************************)
EXTENDS Firewall, RulesProofs

Assumptions == PolicyLimitsOK /\ MoneyLimitsOK /\ FirewallParametersOK

Suggestions ==
  [strategy : STRING, class : {"MARKETING", "TRANSACTIONAL"},
   discount : Int \cup {NaN}, expiry : Int \cup {NaN}]

\* Contexts; of an approval nothing is known.
Contexts(approved) ==
  [amount : Int, arm : {"TREATMENT", "CONTROL"}, attempt_no : Int, stopping : Facts,
   approved : {approved}]

\* What policy_node hands to the firewall.
Handed(c) == [c EXCEPT !.attempt_no = c.stopping.attempt_no + 1]

AmountIsUsual == max_discount_absolute > 0 => ctx.amount <= 2 * max_discount_absolute * Whole

\* A decision that stands is the answer about the facts as they are.
FInv ==
  /\ ctx \in Contexts(ctx.approved) /\ AmountIsUsual
  /\ proposal \in Proposals /\ events \in 0 .. MaxEvents
  /\ decision # None => decision = EvaluatePolicy(proposal, Handed(ctx))

-----------------------------------------------------------------------------
(* The invariant.                                                          *)

LEMMA InitFInv == ASSUME Assumptions, Init PROVE FInv
<1>1. ctx \in [amount : Int, arm : {"TREATMENT", "CONTROL"}, attempt_no : Int,
               stopping : Facts, approved : {None}]
  BY DEF Init, Assumptions, FirewallParametersOK
<1>2. ctx \in Contexts(ctx.approved)
  BY <1>1 DEF Contexts
<1> QED BY <1>2 DEF Init, FInv, Assumptions, FirewallParametersOK, AmountIsUsual

LEMMA HappensKeeps ==
  ASSUME Assumptions, FInv, NEW facts \in Facts, Happens(facts) PROVE FInv'
<1>1. ctx' = [ctx EXCEPT !.stopping = facts] /\ decision' = None /\ proposal' = proposal
  BY DEF Happens
<1>2. ctx' \in Contexts(ctx'.approved) /\ ctx'.amount = ctx.amount
  BY <1>1 DEF FInv, Contexts
<1>3. events' \in 0 .. MaxEvents
  BY DEF Happens, FInv, Assumptions, FirewallParametersOK
<1> QED BY <1>1, <1>2, <1>3 DEF FInv, AmountIsUsual

LEMMA FactKeeps == ASSUME Assumptions, FInv, Fact PROVE FInv'
<1>1. S \in Facts
  BY DEF FInv, Contexts, S
<1>2. CASE OrderIsPaid
  <2>1. [S EXCEPT !.order_status = "paid"] \in Facts
    BY <1>1 DEF Facts
  <2> QED BY <1>2, <2>1, HappensKeeps DEF OrderIsPaid
<1>3. CASE CaseIsResolved
  <2>1. [S EXCEPT !.case_status = "RECOVERED"] \in Facts
    BY <1>1 DEF Facts
  <2> QED BY <1>3, <2>1, HappensKeeps DEF CaseIsResolved
<1>4. CASE OptOut
  <2>1. [S EXCEPT !.opted_out = TRUE] \in Facts
    BY <1>1 DEF Facts
  <2> QED BY <1>4, <2>1, HappensKeeps DEF OptOut
<1>5. CASE RegisterDnd
  <2>1. [S EXCEPT !.dnd = TRUE] \in Facts
    BY <1>1 DEF Facts
  <2> QED BY <1>5, <2>1, HappensKeeps DEF RegisterDnd
<1>6. CASE OptInToMarketing
  <2>1. [S EXCEPT !.marketing = TRUE] \in Facts
    BY <1>1 DEF Facts
  <2> QED BY <1>6, <2>1, HappensKeeps DEF OptInToMarketing
<1>7. CASE RevokeConsent
  <2>1. [S EXCEPT !.transactional = FALSE] \in Facts
    BY <1>1 DEF Facts
  <2> QED BY <1>7, <2>1, HappensKeeps DEF RevokeConsent
<1>8. CASE ToggleAutopilot
  <2>2. \A b \in BOOLEAN : [S EXCEPT !.autopilot = b] \in Facts
    <3> TAKE b \in BOOLEAN
    <3> QED BY <1>1 DEF Facts
  <2>3. (~S.autopilot) \in BOOLEAN
    OBVIOUS
  <2>1. [S EXCEPT !.autopilot = ~@] \in Facts
    BY <2>2, <2>3
  <2> QED BY <1>8, <2>1, HappensKeeps DEF ToggleAutopilot
<1>9. CASE SpendBudget
  <2>1. [S EXCEPT !.actions_today = daily_action_budget] \in Facts
    BY <1>1 DEF Facts, Assumptions, PolicyLimitsOK
  <2> QED BY <1>9, <2>1, HappensKeeps DEF SpendBudget
<1>10. CASE SpendDiscounts
  <2>1. [S EXCEPT !.exposure = monthly_discount_exposure] \in Facts
    BY <1>1 DEF Facts, Assumptions, PolicyLimitsOK
  <2> QED BY <1>10, <2>1, HappensKeeps DEF SpendDiscounts
<1>11. CASE \E t \in Hours : Elapse(t) \/ Promise(t)
  <2>1. PICK t \in Hours : Elapse(t) \/ Promise(t)
    BY <1>11
  <2>2. t \in Int
    BY DEF Assumptions, FirewallParametersOK
  <2>3. [S EXCEPT !.now = t] \in Facts
    BY <1>1, <2>2 DEF Facts
  <2>4. [S EXCEPT !.promise_active = TRUE, !.promised_at = t] \in Facts
    BY <1>1, <2>2 DEF Facts
  <2> QED BY <2>1, <2>3, <2>4, HappensKeeps DEF Elapse, Promise
<1>12. CASE \E t \in {S.now, None} : Contact(t)
  <2>1. PICK t \in {S.now, None} : Contact(t)
    BY <1>12
  <2>2. t \in Int \cup {None} /\ S.contacts_24h + 1 \in Int /\ S.contacts_48h + 1 \in Int
    BY <1>1 DEF Facts
  <2>3. [S EXCEPT !.contacts_24h = S.contacts_24h + 1, !.contacts_48h = S.contacts_48h + 1,
                  !.last_contact = t] \in Facts
    BY <1>1, <2>2 DEF Facts
  <2>4. Happens([S EXCEPT !.contacts_24h = S.contacts_24h + 1,
                          !.contacts_48h = S.contacts_48h + 1, !.last_contact = t])
    BY <2>1 DEF Contact
  <2> QED BY <2>3, <2>4, HappensKeeps
<1>13. CASE \E bearing \in {0, 1} : Attempt(bearing)
  <2>1. PICK bearing \in {0, 1} : Attempt(bearing)
    BY <1>13
  <2>2. S.attempt_no + 1 \in Int /\ S.discount_attempts + bearing \in Int
    BY <1>1 DEF Facts
  <2>3. [S EXCEPT !.attempt_no = S.attempt_no + 1,
                  !.discount_attempts = S.discount_attempts + bearing] \in Facts
    BY <1>1, <2>2 DEF Facts
  <2>4. Happens([S EXCEPT !.attempt_no = S.attempt_no + 1,
                          !.discount_attempts = S.discount_attempts + bearing])
    BY <2>1 DEF Attempt
  <2> QED BY <2>3, <2>4, HappensKeeps
<1> QED
  BY <1>2, <1>3, <1>4, <1>5, <1>6, <1>7, <1>8, <1>9, <1>10, <1>11, <1>12, <1>13 DEF Fact

LEMMA StepKeepsFInv == ASSUME Assumptions, FInv, [Next]_vars PROVE FInv'
<1>1. CASE Fact
  BY <1>1, FactKeeps
<1>2. CASE \E p \in Proposals : Propose(p)
  BY <1>2 DEF Propose, FInv, AmountIsUsual, Assumptions, FirewallParametersOK
<1>3. CASE Evaluation
  BY <1>3 DEF Evaluation, FInv, AmountIsUsual, Handed, S
<1>4. CASE Approve
  <2>1. ctx' = [ctx EXCEPT !.approved = decision.applied] /\ proposal' = proposal
        /\ decision' = None /\ events' = events
    BY <1>4 DEF Approve
  <2>2. ctx' \in Contexts(ctx'.approved) /\ ctx'.amount = ctx.amount
    BY <2>1 DEF FInv, Contexts
  <2> QED BY <2>1, <2>2 DEF FInv, AmountIsUsual
<1>5. CASE UNCHANGED vars
  BY <1>5 DEF vars, FInv, AmountIsUsual
<1> QED BY <1>1, <1>2, <1>3, <1>4, <1>5 DEF Next

-----------------------------------------------------------------------------
(* The stopping rules.                                                     *)

\* What each rule asks for, when none stops.
LEMMA NoRuleStops ==
  ASSUME NEW c \in Facts, Evaluate(c).decision # "STOP", Assumptions
  PROVE  /\ c.order_status # "paid" /\ c.case_status # "RECOVERED"
         /\ c.attempt_no < max_attempts_per_case
         /\ c.outbound => c.contacts_48h < max_contacts_48h
         /\ c.window # None => c.now < c.window
         /\ c.outbound => ~c.opted_out /\ c.transactional
         /\ c.actions_today < daily_action_budget /\ c.exposure < monthly_discount_exposure
         /\ c.autopilot
<1>1. \A n, s : Stop(n, s).decision = "STOP"
  BY DEF Stop, Proceed
<1>2. \A r \in Results(c) : r.decision # "STOP"
  BY OneStopStops
<1>3. c.order_status # "paid" /\ c.case_status # "RECOVERED"
  BY <1>1, <1>2 DEF Results, S01
<1>4. c.attempt_no < max_attempts_per_case
  <2>1. ~(c.attempt_no >= max_attempts_per_case)
    BY <1>1, <1>2 DEF Results, S02
  <2> QED BY <2>1 DEF Facts, Assumptions, PolicyLimitsOK
<1>5. c.outbound => c.contacts_48h < max_contacts_48h
  <2>1. c.outbound => ~(c.contacts_48h >= max_contacts_48h)
    BY <1>1, <1>2 DEF Results, S05
  <2> QED BY <2>1 DEF Facts, Assumptions, PolicyLimitsOK
<1>6. c.window # None => c.now < c.window
  <2>1. c.window # None => ~(c.now >= c.window)
    BY <1>1, <1>2 DEF Results, S06
  <2> QED BY <2>1 DEF Facts
<1>7. c.outbound => ~c.opted_out /\ c.transactional
  BY <1>1, <1>2 DEF Results, S07, S08
<1>8. c.actions_today < daily_action_budget /\ c.exposure < monthly_discount_exposure
  <2>1. ~(c.actions_today >= daily_action_budget) /\ ~(c.exposure >= monthly_discount_exposure)
    BY <1>1, <1>2 DEF Results, S11
  <2> QED BY <2>1 DEF Facts, Assumptions, PolicyLimitsOK
<1>9. c.autopilot
  BY <1>1, <1>2 DEF Results, S12
<1> QED BY <1>3, <1>4, <1>5, <1>6, <1>7, <1>8, <1>9

-----------------------------------------------------------------------------
(* The sanitisers.                                                         *)

\* However percentage and rupee ceiling and rounding combine, the discount is
\* within both ceilings and the percentage shown is no more than the one asked for.
LEMMA CapIsBounded ==
  ASSUME Assumptions, NEW pct \in 0 .. max_discount_pct, NEW amount \in Int,
         max_discount_absolute > 0 => amount <= 2 * max_discount_absolute * Whole
  PROVE  LET d == AbsoluteCap(pct, amount) IN
         /\ d.pct \in 0 .. pct /\ d.paise \in 0 .. max_discount_absolute
         /\ amount > 0 => d.paise * Whole <= pct * amount
         /\ d.pct = 0 => d.paise = 0
         /\ d.pct # pct /\ amount > 0 => d.clamps = {Reduction("discount")}
<1> DEFINE d == AbsoluteCap(pct, amount)
<1>1. /\ pct \in Nat /\ Whole \in Nat \ {0} /\ max_discount_absolute \in Nat
      /\ max_discount_pct \in Nat
  BY DEF Assumptions, MoneyLimitsOK
<1>2. CASE pct <= 0 \/ amount <= 0
  BY <1>1, <1>2 DEF AbsoluteCap
<1>3. CASE pct > 0 /\ amount > 0
  <2> DEFINE product == amount * pct
             paise == product \div Whole
  <2>1. Paise(pct, amount) = paise
    BY <1>1, <1>3 DEF Paise
  <2>2. product \in Nat /\ product >= pct
    BY <1>1, <1>3
  <2>3. paise \in Nat /\ paise * Whole <= product
    <3> HIDE DEF product
    <3> QED BY <1>1, <2>2
  <2> HIDE DEF paise
  <2>4. CASE paise <= max_discount_absolute
    <3>1. d = [pct |-> pct, paise |-> paise, clamps |-> {}]
      BY <1>1, <1>3, <2>1, <2>4 DEF AbsoluteCap
    <3> QED BY <1>1, <1>3, <2>3, <2>4, <3>1
  <2>5. CASE paise > max_discount_absolute
    <3> DEFINE cap == max_discount_absolute
               near == Nearest(cap, amount)
               top == 2 * cap * Whole + amount
    <3>1. d = [pct |-> near, paise |-> cap, clamps |-> {Reduction("discount")}]
      BY <1>1, <1>3, <2>1, <2>3, <2>5 DEF AbsoluteCap
    <3>2. (cap + 1) * Whole <= paise * Whole
      BY <1>1, <2>3, <2>5
    <3>3. cap * Whole < product
      BY <1>1, <2>2, <2>3, <3>2
    <3>4. top < 2 * amount * (pct + 1)
      BY <1>1, <1>3, <3>3
    <3>5. near = top \div (2 * amount)
      BY DEF Nearest
    <3>6. near <= pct /\ near >= 0
      BY <1>1, <1>3, <3>4, <3>5
    <3>7. near = 0 => cap = 0
      <4>1. ASSUME cap > 0 PROVE top >= 2 * amount
        BY <1>1, <1>3, <4>1
      <4>2. ASSUME cap > 0 PROVE near >= 1
        BY <1>1, <1>3, <4>1, <4>2, <3>5
      <4> QED BY <1>1, <4>2
    <3> QED BY <1>1, <1>3, <2>2, <3>1, <3>3, <3>5, <3>6, <3>7
  <2> QED BY <1>1, <2>3, <2>4, <2>5
<1> QED BY <1>1, <1>2, <1>3

\* A discount is cut to a safe one, and every cut is noted.
LEMMA SanePctIsSafe ==
  ASSUME Assumptions, NEW pct \in Int \cup {NaN}
  PROVE  /\ SanePct(pct) \in 0 .. max_discount_pct
         /\ pct \in Nat => SanePct(pct) <= pct
         /\ SanePct(pct) # pct => PctClamps(pct) = {Violation("discount")}
         /\ PctClamps(pct) = {} => pct \in 0 .. max_discount_pct
<1>1. SafeDefault \in 0 .. max_discount_pct
  BY DEF SafeDefault, Assumptions, MoneyLimitsOK
<1> QED BY <1>1 DEF SanePct, PctClamps, Assumptions, MoneyLimitsOK

LEMMA SaneExpiryIsSafe ==
  ASSUME Assumptions, NEW minutes \in Int \cup {NaN}
  PROVE  /\ SaneExpiry(minutes) \in link_expiry_min .. link_expiry_max
         /\ SaneExpiry(minutes) # minutes => ExpiryClamps(minutes) = {Reduction("expiry")}
BY DEF SaneExpiry, ExpiryClamps, Assumptions, MoneyLimitsOK

-----------------------------------------------------------------------------
(* A decision that stands.                                                 *)

Case == Handed(ctx)
Ruling == Evaluate(StoppingContext(proposal, Case))

\* What is shown is not blocked, and neither is what passed.
Allowed == Decided /\ (Shown \/ decision.verdict # "BLOCKED")

\* The rules see the facts with the proposal's own class and discount.
LEMMA RulesSeeTheFacts ==
  ASSUME Assumptions, FInv
  PROVE  /\ StoppingContext(proposal, Case) \in Facts
         /\ LET k == StoppingContext(proposal, Case) IN
              /\ k.order_status = S.order_status /\ k.case_status = S.case_status
              /\ k.attempt_no = S.attempt_no /\ k.contacts_48h = S.contacts_48h
              /\ k.outbound = S.outbound /\ k.window = S.window /\ k.now = S.now
              /\ k.opted_out = S.opted_out /\ k.transactional = S.transactional
              /\ k.actions_today = S.actions_today /\ k.exposure = S.exposure
              /\ k.autopilot = S.autopilot /\ k.class = proposal.class
              /\ k.marketing = S.marketing /\ k.dnd = S.dnd
<1> DEFINE d == IF proposal.discount = NaN THEN 0 ELSE proposal.discount
<1>1. S \in Facts /\ Case.stopping = S
  BY DEF FInv, Contexts, S, Case, Handed
<1>2. proposal \in Suggestions
  BY DEF FInv, Assumptions, FirewallParametersOK, Suggestions
<1>3. d \in Int /\ proposal.class \in {"MARKETING", "TRANSACTIONAL"}
  BY <1>2 DEF Suggestions
<1>4. StoppingContext(proposal, Case) = [S EXCEPT !.class = proposal.class, !.discount = d]
  BY <1>1 DEF StoppingContext
<1> HIDE DEF d
<1>5. StoppingContext(proposal, Case) \in Facts
  <2>1. \A n \in Int : [S EXCEPT !.discount = n] \in Facts
    BY <1>1 DEF Facts
  <2>2. \A f \in Facts : [f EXCEPT !.class = proposal.class] \in Facts
    BY <1>3 DEF Facts
  <2>3. [S EXCEPT !.discount = d] \in Facts
    BY <1>3, <2>1
  <2>4. [[S EXCEPT !.discount = d] EXCEPT !.class = proposal.class] \in Facts
    BY <2>2, <2>3
  <2>5. [[S EXCEPT !.discount = d] EXCEPT !.class = proposal.class]
          = [S EXCEPT !.class = proposal.class, !.discount = d]
    BY <1>1 DEF Facts
  <2> QED BY <1>4, <2>4, <2>5
<1> QED BY <1>1, <1>4, <1>5 DEF Facts

\* What is shown is what the clamps made of the proposal, and nothing blocked it.
LEMMA AllowedIsApplied ==
  ASSUME Assumptions, FInv, Allowed
  PROVE  /\ decision.applied = Applied(proposal, Case, Ruling)
         /\ decision.clamps = Clamps(proposal, Case, Ruling)
         /\ ctx.amount > 0 /\ Case.amount = ctx.amount /\ ctx.amount \in Int
         /\ Ruling.decision # "STOP" /\ ctx.arm # "CONTROL"
         /\ Passed => \/ ~NeedsHuman(decision.applied.rung)
                      \/ ctx.approved = decision.applied
<1> DEFINE blocks == Blocks(proposal, Case, Ruling)
           answer == [verdict |-> "BLOCKED", applied |-> None, token |-> None,
                      clamps |-> {r \in {Reduction("class")} :
                                    EffectiveClass(proposal, Ruling) # proposal.class},
                      blocks |-> blocks, stopping |-> Ruling]
           applied == Applied(proposal, Case, Ruling)
           open == [answer EXCEPT !.applied = applied,
                                  !.clamps = Clamps(proposal, Case, Ruling)]
           human == NeedsHuman(applied.rung) /\ ~Approved(proposal, Case, Ruling)
<1>1. decision = EvaluatePolicy(proposal, Case)
  BY DEF FInv, Allowed, Decided, Case
<1>2. decision = IF blocks # {} THEN answer
                 ELSE IF human THEN [open EXCEPT !.verdict = "ESCALATE_HITL"]
                 ELSE [open EXCEPT !.verdict = "PASSED", !.token = applied]
  BY <1>1 DEF EvaluatePolicy, Ruling
<1> HIDE DEF blocks, applied, human
<1>3. blocks = {}
  BY <1>2 DEF Allowed, Shown
<1>4. /\ decision.applied = applied
      /\ decision.clamps = Clamps(proposal, Case, Ruling)
      /\ Passed => ~human
  BY <1>2, <1>3 DEF Passed
<1>5. /\ Case.amount = ctx.amount /\ ctx.amount \in Int /\ Case.arm = ctx.arm
      /\ Case.approved = ctx.approved
  BY DEF FInv, Contexts, Case, Handed
<1>6. ~(Case.amount <= 0) /\ Ruling.decision # "STOP" /\ Case.arm # "CONTROL"
  BY <1>3 DEF Blocks, blocks
<1>7. Passed => ~NeedsHuman(applied.rung) \/ Case.approved = applied
  BY <1>4 DEF human, Approved, applied
<1> QED BY <1>4, <1>5, <1>6, <1>7 DEF applied

\* The discount of what is shown.
LEMMA DiscountIsSafe ==
  ASSUME Assumptions, FInv, Allowed
  PROVE  LET d == Discount(proposal, Case, Ruling) IN
         /\ d.pct \in 0 .. max_discount_pct /\ d.paise \in 0 .. max_discount_absolute
         /\ d.paise * Whole <= max_discount_pct * ctx.amount /\ d.paise < ctx.amount
         /\ d.pct = 0 => d.paise = 0
         /\ proposal.discount \in Nat => d.pct <= proposal.discount
         /\ \/ EffectiveClass(proposal, Ruling) = "TRANSACTIONAL"
            \/ proposal.strategy = "NO_ACTION"
            => d.paise = 0
         /\ PctClamps(proposal.discount) \subseteq d.clamps
         /\ proposal.discount # d.pct => \E r \in d.clamps : r.field = "discount"
<1> DEFINE sane == SanePct(proposal.discount)
           carried == IF EffectiveClass(proposal, Ruling) = "TRANSACTIONAL" THEN 0 ELSE sane
           capped == AbsoluteCap(carried, ctx.amount)
           idle == proposal.strategy = "NO_ACTION" /\ (capped.pct # 0 \/ capped.paise # 0)
           d == Discount(proposal, Case, Ruling)
<1>1. proposal.discount \in Int \cup {NaN}
  BY DEF FInv, Assumptions, FirewallParametersOK
<1>2. ctx.amount \in Int /\ ctx.amount > 0 /\ Case.amount = ctx.amount
  BY AllowedIsApplied
<1>3. /\ max_discount_pct \in Nat /\ Whole \in Nat /\ max_discount_pct < Whole
      /\ max_discount_absolute \in Nat
  BY DEF Assumptions, MoneyLimitsOK
<1>4. /\ sane \in 0 .. max_discount_pct
      /\ proposal.discount \in Nat => sane <= proposal.discount
      /\ sane # proposal.discount => PctClamps(proposal.discount) = {Violation("discount")}
  BY <1>1, SanePctIsSafe
<1>5. carried \in 0 .. max_discount_pct /\ carried <= sane
  BY <1>3, <1>4
<1>6. /\ capped.pct \in 0 .. carried /\ capped.paise \in 0 .. max_discount_absolute
      /\ capped.paise * Whole <= carried * ctx.amount
      /\ capped.pct = 0 => capped.paise = 0
      /\ capped.pct # carried => capped.clamps = {Reduction("discount")}
  <2> HIDE DEF carried
  <2> QED BY <1>2, <1>5, CapIsBounded DEF FInv, AmountIsUsual
<1>7. /\ d.pct = IF idle THEN 0 ELSE capped.pct
      /\ d.paise = IF idle THEN 0 ELSE capped.paise
      /\ d.clamps = PctClamps(proposal.discount) \cup capped.clamps
                    \cup {r \in {Reduction("discount")} : carried # sane \/ idle}
  BY <1>2 DEF Discount
<1>8. carried = 0 => capped.paise = 0
  <2> HIDE DEF carried, capped
  <2> QED BY <1>3, <1>6
<1>9. \/ EffectiveClass(proposal, Ruling) = "TRANSACTIONAL"
      \/ proposal.strategy = "NO_ACTION"
      => d.paise = 0
  <2>1. CASE EffectiveClass(proposal, Ruling) = "TRANSACTIONAL"
    <3>1. capped.paise = 0
      BY <2>1, <1>8
    <3> QED BY <3>1, <1>7
  <2>2. CASE proposal.strategy = "NO_ACTION"
    <3> HIDE DEF capped
    <3> QED BY <2>2, <1>7
  <2> QED BY <2>1, <2>2
<1>10. proposal.discount # d.pct => \E r \in d.clamps : r.field = "discount"
  <2>0. Reduction("discount").field = "discount" /\ Violation("discount").field = "discount"
    BY DEF Reduction, Violation
  <2>1. CASE sane # proposal.discount
    BY <2>0, <2>1, <1>4, <1>7
  <2>2. CASE carried # sane \/ idle
    <3> HIDE DEF carried, sane, idle, capped
    <3> QED BY <2>0, <2>2, <1>7
  <2>3. CASE sane = proposal.discount /\ carried = sane /\ ~idle
    <3> HIDE DEF carried, sane, idle, capped
    <3>1. d.pct = capped.pct
      BY <2>3, <1>7
    <3> QED BY <2>0, <2>3, <3>1, <1>6, <1>7
  <2> QED BY <2>1, <2>2, <2>3
<1>11. d.paise * Whole <= max_discount_pct * ctx.amount /\ d.paise < ctx.amount
  <2> HIDE DEF carried, capped, idle, d
  <2>1. carried * ctx.amount <= max_discount_pct * ctx.amount
    BY <1>2, <1>3, <1>5
  <2>2. d.paise \in Nat /\ d.paise * Whole <= max_discount_pct * ctx.amount
    BY <1>2, <1>3, <1>5, <1>6, <1>7, <2>1
  <2>3. max_discount_pct * ctx.amount < Whole * ctx.amount
    BY <1>2, <1>3
  <2>4. ASSUME d.paise >= ctx.amount PROVE FALSE
    <3>1. d.paise * Whole >= ctx.amount * Whole
      BY <1>2, <1>3, <2>2, <2>4
    <3> QED BY <1>2, <1>3, <2>2, <2>3, <3>1
  <2> QED BY <1>2, <2>2, <2>4
<1>12. /\ d.pct \in 0 .. max_discount_pct /\ d.paise \in 0 .. max_discount_absolute
       /\ d.pct = 0 => d.paise = 0
       /\ d.pct <= sane
  <2> HIDE DEF carried, capped, d, sane
  <2> QED BY <1>3, <1>4, <1>5, <1>6, <1>7
<1>13. proposal.discount \in Nat => d.pct <= proposal.discount
  <2> HIDE DEF d, sane
  <2> QED BY <1>3, <1>4, <1>12
<1>14. PctClamps(proposal.discount) \subseteq d.clamps
  BY <1>7
<1> HIDE DEF d
<1> QED BY <1>9, <1>10, <1>11, <1>12, <1>13, <1>14 DEF d

LEMMA FieldsOfApplied ==
  ASSUME Assumptions, FInv, Allowed
  PROVE  LET a == decision.applied
             d == Discount(proposal, Case, Ruling) IN
         /\ a.strategy = proposal.strategy /\ a.amount = ctx.amount
         /\ a.pct = d.pct /\ a.discount = d.paise /\ a.charge = ctx.amount - d.paise
         /\ a.expiry = SaneExpiry(proposal.expiry)
         /\ a.class = EffectiveClass(proposal, Ruling)
         /\ a.rung = Rung(proposal.strategy, ctx.amount, d.pct, Clamps(proposal, Case, Ruling))
BY AllowedIsApplied DEF Applied

LEMMA BoundedFollows == ASSUME Assumptions, FInv PROVE AppliedIsBounded
<1> SUFFICES ASSUME Shown PROVE AppliedIsBounded
  BY DEF AppliedIsBounded
<1>0. Allowed
  BY DEF Allowed, Shown
<1> DEFINE d == Discount(proposal, Case, Ruling)
<1>1. proposal.expiry \in Int \cup {NaN}
  BY DEF FInv, Assumptions, FirewallParametersOK
<1>2. decision.applied.expiry \in link_expiry_min .. link_expiry_max
  BY <1>1, <1>0, FieldsOfApplied, SaneExpiryIsSafe
<1>3. /\ ctx.amount \in Int /\ ctx.amount > 0
      /\ max_discount_pct \in Nat /\ max_discount_absolute \in Nat
  BY <1>0, AllowedIsApplied DEF Assumptions, MoneyLimitsOK
<1>4. /\ d.pct \in 0 .. max_discount_pct /\ d.paise \in 0 .. max_discount_absolute
      /\ d.paise * Whole <= max_discount_pct * ctx.amount /\ d.paise < ctx.amount
      /\ d.pct = 0 => d.paise = 0
  BY <1>0, DiscountIsSafe
<1>5. /\ decision.applied.pct = d.pct /\ decision.applied.discount = d.paise
      /\ decision.applied.charge = ctx.amount - d.paise
  BY <1>0, FieldsOfApplied
<1> HIDE DEF d
<1> QED BY <1>2, <1>3, <1>4, <1>5 DEF AppliedIsBounded

LEMMA RecordedFollows == ASSUME Assumptions, FInv PROVE ReductionsAreRecorded
<1> SUFFICES ASSUME Shown PROVE ReductionsAreRecorded
  BY DEF ReductionsAreRecorded
<1>0. Allowed
  BY DEF Allowed, Shown
<1> DEFINE d == Discount(proposal, Case, Ruling)
           class == EffectiveClass(proposal, Ruling)
           clamps == Clamps(proposal, Case, Ruling)
           touched == {r.field : r \in decision.clamps}
<1>1. /\ proposal.expiry \in Int \cup {NaN}
      /\ proposal.class \in {"MARKETING", "TRANSACTIONAL"}
  BY DEF FInv, Assumptions, FirewallParametersOK
<1>2. decision.clamps = clamps
  BY <1>0, AllowedIsApplied
<1>3. /\ d.clamps \subseteq clamps /\ ExpiryClamps(proposal.expiry) \subseteq clamps
      /\ class # proposal.class => Reduction("class") \in clamps
  BY DEF Clamps
<1>4. \A f : Reduction(f).field = f
  BY DEF Reduction
<1>5. class \in {"TRANSACTIONAL", proposal.class}
  BY DEF EffectiveClass
<1>6. class # proposal.class => "class" \in touched /\ class = "TRANSACTIONAL"
  <2> HIDE DEF class, clamps
  <2> QED BY <1>2, <1>3, <1>4, <1>5
<1>7. proposal.discount # d.pct => "discount" \in touched
  <2>1. proposal.discount # d.pct => \E r \in d.clamps : r.field = "discount"
    BY <1>0, DiscountIsSafe
  <2> HIDE DEF d, clamps
  <2> QED BY <2>1, <1>2, <1>3
<1>8. proposal.expiry # SaneExpiry(proposal.expiry) => "expiry" \in touched
  <2>1. proposal.expiry # SaneExpiry(proposal.expiry)
        => Reduction("expiry") \in ExpiryClamps(proposal.expiry)
    BY <1>1, SaneExpiryIsSafe
  <2> HIDE DEF clamps
  <2> QED BY <2>1, <1>2, <1>3, <1>4
<1>9. proposal.discount \in Nat => d.pct <= proposal.discount
  BY <1>0, DiscountIsSafe
<1>10. /\ decision.applied.pct = d.pct /\ decision.applied.class = class
       /\ decision.applied.expiry = SaneExpiry(proposal.expiry)
  BY <1>0, FieldsOfApplied
<1> HIDE DEF d, class, touched
<1> QED BY <1>6, <1>7, <1>8, <1>9, <1>10 DEF ReductionsAreRecorded, touched

LEMMA LeaveFollows == ASSUME Assumptions, FInv PROVE NobodyIsOverruled
<1> SUFFICES ASSUME Passed PROVE NobodyIsOverruled
  BY DEF NobodyIsOverruled
<1> DEFINE a == decision.applied
           d == Discount(proposal, Case, Ruling)
           k == StoppingContext(proposal, Case)
           class == EffectiveClass(proposal, Ruling)
           clamps == Clamps(proposal, Case, Ruling)
<1>0. Allowed
  BY DEF Allowed, Passed
<1>1. k \in Facts /\ Ruling = Evaluate(k) /\ Ruling.decision # "STOP"
  BY <1>0, RulesSeeTheFacts, AllowedIsApplied DEF Ruling
<1>2. /\ S.autopilot /\ S.actions_today < daily_action_budget
      /\ S.exposure < monthly_discount_exposure
      /\ S.order_status # "paid" /\ S.case_status # "RECOVERED"
      /\ S.attempt_no < max_attempts_per_case
      /\ S.window # None => S.now < S.window
      /\ S.outbound => ~S.opted_out /\ S.transactional /\ S.contacts_48h < max_contacts_48h
  <2> HIDE DEF k
  <2>1. /\ k.order_status # "paid" /\ k.case_status # "RECOVERED"
        /\ k.attempt_no < max_attempts_per_case
        /\ k.outbound => k.contacts_48h < max_contacts_48h
        /\ k.window # None => k.now < k.window
        /\ k.outbound => ~k.opted_out /\ k.transactional
        /\ k.actions_today < daily_action_budget /\ k.exposure < monthly_discount_exposure
        /\ k.autopilot
    BY <1>1, NoRuleStops
  <2> QED BY <2>1, RulesSeeTheFacts DEF k
<1>3. ctx.arm = "TREATMENT"
  BY <1>0, AllowedIsApplied DEF FInv, Contexts
<1>4. /\ a.strategy = proposal.strategy /\ a.amount = ctx.amount /\ a.discount = d.paise
      /\ a.class = class /\ a.rung = Rung(proposal.strategy, ctx.amount, d.pct, clamps)
  BY <1>0, FieldsOfApplied
<1>5. S.outbound /\ a.class = "MARKETING" => S.marketing /\ ~S.dnd
  <2> SUFFICES ASSUME S.outbound, a.class = "MARKETING", ~S.marketing \/ S.dnd PROVE FALSE
    BY RulesSeeTheFacts, <1>1 DEF Facts, k
  <2>1. "class" \notin Ruling.degrade /\ proposal.class = "MARKETING"
    BY <1>4 DEF EffectiveClass
  <2>2. k.outbound /\ OfferWithoutConsent(k)
    BY <2>1, RulesSeeTheFacts DEF OfferWithoutConsent
  <2>3. S08(k) \in Results(k) /\ "STOP" = Stop("S-08", "SUPPRESSED").decision
    BY DEF Results, Stop, Proceed
  <2>4. S08(k) = Degrade("S-08", {"class", "discount"})
    <3> HIDE DEF k
    <3>1. S08(k).decision # "STOP"
      BY <1>1, <2>3, OneStopStops
    <3> QED BY <2>2, <2>3, <3>1 DEF S08
  <2>5. "class" \in S08(k).degrade
    BY <2>4 DEF Degrade, Proceed
  <2> QED BY <1>1, <2>1, <2>3, <2>5, ReductionsStand
<1>6. a.class = "TRANSACTIONAL" \/ a.strategy = "NO_ACTION" => a.discount = 0
  BY <1>0, <1>4, DiscountIsSafe
<1>7. \/ a.strategy = "NO_ACTION"
      \/ a.amount < max_autonomous_amount /\ proposal.discount \in 0 .. max_discount_pct
      \/ ctx.approved = a
  <2> SUFFICES ASSUME a.strategy # "NO_ACTION", ctx.approved # a
               PROVE  a.amount < max_autonomous_amount
                      /\ proposal.discount \in 0 .. max_discount_pct
    OBVIOUS
  <2>1. ~NeedsHuman(a.rung)
    BY <1>0, AllowedIsApplied
  <2>2. ~(ctx.amount >= max_autonomous_amount) /\ \A c \in clamps : ~c.violation
    <3> HIDE DEF clamps, d, a
    <3> QED BY <1>4, <2>1 DEF Rung, NeedsHuman
  <2>3. PctClamps(proposal.discount) \subseteq clamps
    BY <1>0, DiscountIsSafe DEF Clamps
  <2>4. PctClamps(proposal.discount) = {}
    <3> HIDE DEF clamps
    <3> QED BY <2>2, <2>3 DEF PctClamps, Violation
  <2>5. proposal.discount \in Int \cup {NaN}
    BY DEF FInv, Assumptions, FirewallParametersOK
  <2>6. proposal.discount \in 0 .. max_discount_pct
    BY <2>4, <2>5, SanePctIsSafe
  <2>7. ctx.amount \in Int /\ max_autonomous_amount \in Int
    BY <1>0, AllowedIsApplied DEF Assumptions, MoneyLimitsOK
  <2> QED BY <1>4, <2>2, <2>6, <2>7
<1> HIDE DEF a
<1> QED BY <1>2, <1>3, <1>5, <1>6, <1>7 DEF NobodyIsOverruled, a

-----------------------------------------------------------------------------
(* The types.                                                              *)

\* The facts under which the rules are asked are typed.
LEMMA RulesAreAskedInTime ==
  ASSUME Assumptions, FInv
  PROVE  /\ Timed(StoppingContext(proposal, Case)) /\ PolicyLimitsOK
         /\ StoppingContext(proposal, Case) = StoppingContext(proposal, ctx)
<1>1. StoppingContext(proposal, Case) \in Facts
  BY RulesSeeTheFacts
<1>2. Case.stopping = ctx.stopping
  BY DEF FInv, Contexts, Case, Handed
<1> QED BY <1>1, <1>2 DEF Timed, Facts, Assumptions, StoppingContext

\* What would be applied is an action, and no action is None.
LEMMA AppliedIsAnAction ==
  ASSUME Assumptions, FInv
  PROVE  Applied(proposal, Case, Ruling) \in AppliedActions
<1> DEFINE d == Discount(proposal, Case, Ruling)
           class == EffectiveClass(proposal, Ruling)
           clamps == Clamps(proposal, Case, Ruling)
           after == IF Ruling.decision = "DEFER" THEN Ruling.until ELSE None
           rung == Rung(proposal.strategy, Case.amount, d.pct, clamps)
<1>1. proposal \in Suggestions
  BY DEF FInv, Assumptions, FirewallParametersOK, Suggestions
<1>2. Case.amount \in Int /\ Case.attempt_no \in Int
  BY DEF FInv, Contexts, Case, Handed, Facts
<1>3. class \in {"MARKETING", "TRANSACTIONAL"}
  BY <1>1 DEF EffectiveClass, Suggestions
<1>4. d.pct \in Int /\ d.paise \in Int
  <2> DEFINE sane == SanePct(proposal.discount)
             carried == IF class = "TRANSACTIONAL" THEN 0 ELSE sane
             capped == AbsoluteCap(carried, Case.amount)
             idle == proposal.strategy = "NO_ACTION" /\ (capped.pct # 0 \/ capped.paise # 0)
  <2>1. sane \in Int
    <3>1. proposal.discount \in Int \cup {NaN} /\ max_discount_pct \in Int /\ SafeDefault \in Int
      BY <1>1 DEF Suggestions, SafeDefault, Assumptions, MoneyLimitsOK
    <3> QED BY <3>1 DEF SanePct
  <2>2. carried \in Int
    BY <2>1
  <2> HIDE DEF carried
  <2>3. capped.pct \in Int /\ capped.paise \in Int
    <3>1. Whole \in Nat \ {0} /\ max_discount_absolute \in Nat
      BY DEF Assumptions, MoneyLimitsOK
    <3>2. Paise(carried, Case.amount) \in Int
      BY <1>2, <2>2, <3>1 DEF Paise
    <3>3. Case.amount > 0 => Nearest(max_discount_absolute, Case.amount) \in Int
      BY <1>2, <3>1 DEF Nearest
    <3> QED BY <1>2, <2>2, <3>1, <3>2, <3>3 DEF AbsoluteCap
  <2>4. d.pct = (IF idle THEN 0 ELSE capped.pct) /\ d.paise = (IF idle THEN 0 ELSE capped.paise)
    BY DEF Discount, carried
  <2> HIDE DEF capped, d, idle
  <2> QED BY <2>3, <2>4
<1>5. SaneExpiry(proposal.expiry) \in Int
  BY <1>1 DEF SaneExpiry, Suggestions, Assumptions, MoneyLimitsOK
<1>6. rung \in {"A0", "A1", "A2", "A3"}
  BY DEF Rung
<1>7. after \in Int \cup {None}
  BY RulesAreAskedInTime, HeldUntilTheLastEnd DEF Ruling
<1>8. proposal.strategy \in STRING
  BY <1>1 DEF Suggestions
<1>9. Applied(proposal, Case, Ruling) =
        [strategy |-> proposal.strategy, amount |-> Case.amount, pct |-> d.pct,
         discount |-> d.paise, charge |-> Case.amount - d.paise,
         expiry |-> SaneExpiry(proposal.expiry), class |-> class,
         attempt |-> Case.attempt_no, rung |-> rung, send_after |-> after]
  BY DEF Applied
<1> HIDE DEF d, class, clamps, after, rung
<1>10. Case.amount - d.paise \in Int
  BY <1>2, <1>4
<1> QED BY <1>2, <1>3, <1>4, <1>5, <1>6, <1>7, <1>8, <1>9, <1>10 DEF AppliedActions

LEMMA TypesFollow ==
  ASSUME Assumptions, FInv, Decided
  PROVE  /\ decision.verdict \in Verdicts
         /\ Passed = (decision.token # None)
         /\ Passed => decision.token = decision.applied
         /\ (decision.verdict = "BLOCKED") = (decision.blocks # {})
<1> DEFINE blocks == Blocks(proposal, Case, Ruling)
           clamped == {r \in {Reduction("class")} :
                         EffectiveClass(proposal, Ruling) # proposal.class}
           answer == [verdict |-> "BLOCKED", applied |-> None, token |-> None,
                      clamps |-> clamped, blocks |-> blocks, stopping |-> Ruling]
           applied == Applied(proposal, Case, Ruling)
           clamps == Clamps(proposal, Case, Ruling)
           open == [answer EXCEPT !.applied = applied, !.clamps = clamps]
           human == NeedsHuman(applied.rung) /\ ~Approved(proposal, Case, Ruling)
<1>1. decision = EvaluatePolicy(proposal, Case)
  BY DEF FInv, Decided, Case
<1>2. decision = IF blocks # {} THEN answer
                 ELSE IF human THEN [open EXCEPT !.verdict = "ESCALATE_HITL"]
                 ELSE [open EXCEPT !.verdict = "PASSED", !.token = applied]
  BY <1>1 DEF EvaluatePolicy, Ruling
<1>3. applied # None
  BY AppliedIsAnAction DEF Assumptions, MoneyLimitsOK
<1> HIDE DEF blocks, clamped, applied, clamps, human
<1>4. \/ /\ decision.verdict = "BLOCKED" /\ decision.token = None
         /\ decision.blocks = blocks /\ blocks # {}
      \/ /\ decision.verdict = "ESCALATE_HITL" /\ decision.token = None
         /\ decision.blocks = blocks /\ blocks = {}
      \/ /\ decision.verdict = "PASSED" /\ decision.token = applied
         /\ decision.applied = applied /\ decision.blocks = blocks /\ blocks = {}
  BY <1>2
<1>5. Passed <=> decision.verdict = "PASSED"
  BY DEF Passed
<1> QED BY <1>3, <1>4, <1>5 DEF Verdicts

-----------------------------------------------------------------------------
(* Holds.                                                                  *)

\* Looking again at the end of a hold changes nothing but the hour.
LEMMA LookingAgain ==
  ASSUME NEW c \in Facts, NEW t \in Int
  PROVE  /\ [c EXCEPT !.now = t] \in Facts /\ [c EXCEPT !.now = t].now = t
         /\ SameButNow(c, [c EXCEPT !.now = t]) /\ Timed([c EXCEPT !.now = t])
  BY DEF Facts, SameButNow, Timed

\* Until a hold has ended nothing may go out.
LEMMA HeldIsNotFree ==
  ASSUME PolicyLimitsOK, NEW c \in Facts, NEW m \in Ends(c), NEW t \in c.now .. m - 1
  PROVE  ~Free(c, t)
<1>1. Timed(c) /\ c.now \in Int /\ c.outbound \in BOOLEAN
  BY DEF Facts, Timed
<1>2. m \in Int /\ t \in Int /\ t < m /\ t >= c.now
  BY <1>1, EndsLieAhead
<1>3. CASE CapHolds(c) /\ m = c.last_contact + Day
  <2>1. c.contacts_24h >= max_contacts_24h
    BY <1>3 DEF CapHolds, CapIsReached, Facts, PolicyLimitsOK
  <2> QED BY <1>2, <1>3, <2>1 DEF Free, CapHolds, CapIsReached
<1>4. CASE QuietHolds(c) /\ m = Release(c.now)
  BY <1>1, <1>2, <1>4, QuietUntilRelease DEF Free, QuietHolds
<1>5. CASE PromiseHolds(c) /\ m = c.promised_at + promise_freeze_h
  BY <1>2, <1>5 DEF Free, PromiseHolds
<1> QED BY <1>3, <1>4, <1>5 DEF Ends

\* With no hold left the action may go out.
LEMMA NoHoldIsFree ==
  ASSUME PolicyLimitsOK, NEW c \in Facts, Ends(c) = {}, NobodyStops(c)
  PROVE  Free(c, c.now)
<1>1. Timed(c) /\ c.now \in Int /\ c.outbound \in BOOLEAN /\ c.promise_active \in BOOLEAN
  BY DEF Facts, Timed
<1>2. ~QuietHolds(c)
  BY <1>1, QuietUntilRelease DEF Ends, QuietHolds
<1>3. ~CapHolds(c) /\ ~PromiseHolds(c)
  BY <1>1 DEF Ends, CapHolds, PromiseHolds, Timed, PolicyLimitsOK
<1>4. CapIsReached(c) => c.last_contact # None
  <2>1. S04(c).decision # "STOP" /\ Stop("S-04", "SUPPRESSED").decision = "STOP"
    BY DEF NobodyStops, Results, Stop, Proceed
  <2> QED BY <2>1 DEF S04, CapIsReached
<1>5. c.outbound /\ c.contacts_24h >= max_contacts_24h => c.now >= c.last_contact + Day
  <2> SUFFICES ASSUME c.outbound, c.contacts_24h >= max_contacts_24h
               PROVE  c.now >= c.last_contact + Day
    OBVIOUS
  <2>1. CapIsReached(c)
    BY DEF CapIsReached, Facts, PolicyLimitsOK
  <2>2. c.last_contact \in Int
    BY <1>4, <2>1 DEF Facts
  <2> QED BY <1>1, <1>3, <1>4, <2>1, <2>2 DEF CapHolds, PolicyLimitsOK
<1>6. c.promise_active /\ c.promised_at # None => c.now >= c.promised_at + promise_freeze_h
  BY <1>1, <1>3 DEF PromiseHolds, Facts, PolicyLimitsOK
<1> QED BY <1>2, <1>5, <1>6 DEF Free, QuietHolds

\* At the end of the last hold at most quiet hours still hold, and at the end of
\* those nothing does.
LEMMA QuietHoursComeLast ==
  ASSUME PolicyLimitsOK, NEW c \in Facts, NEW m \in Ends(c), \A u \in Ends(c) : u <= m,
         NEW t \in Int, t >= m
  PROVE  LET d == [c EXCEPT !.now = t] IN
         /\ ~CapHolds(d) /\ ~PromiseHolds(d)
         /\ \A u \in Ends(d) : QuietHolds(d) /\ u = Release(t)
<1> DEFINE d == [c EXCEPT !.now = t]
<1>1. SameButNow(c, d) /\ d.now = t /\ Timed(c) /\ Timed(d) /\ c.now \in Int
  BY LookingAgain DEF Facts, Timed
<1>2. m \in Int /\ m > c.now /\ Day \in Int /\ promise_freeze_h \in Int
  BY <1>1, EndsLieAhead DEF PolicyLimitsOK
<1> HIDE DEF d
<1>3. ~CapHolds(d)
  <2> SUFFICES ASSUME CapHolds(d) PROVE FALSE
    OBVIOUS
  <2>1. c.last_contact \in Int /\ c.last_contact # None /\ CapIsReached(c)
        /\ t < c.last_contact + Day
    BY <1>1 DEF CapHolds, CapIsReached, SameButNow, Timed
  <2>2. CapHolds(c)
    BY <1>1, <1>2, <2>1 DEF CapHolds
  <2>3. c.last_contact + Day \in Ends(c)
    BY <1>2, <2>1, <2>2 DEF Ends
  <2> QED BY <1>2, <2>1, <2>3
<1>4. ~PromiseHolds(d)
  <2> SUFFICES ASSUME PromiseHolds(d) PROVE FALSE
    OBVIOUS
  <2>1. c.promised_at \in Int /\ c.promised_at # None /\ c.promise_active
        /\ t < c.promised_at + promise_freeze_h
    BY <1>1 DEF PromiseHolds, SameButNow, Timed
  <2>2. PromiseHolds(c)
    BY <1>1, <1>2, <2>1 DEF PromiseHolds
  <2>3. c.promised_at + promise_freeze_h \in Ends(c)
    BY <1>2, <2>1, <2>2 DEF Ends
  <2> QED BY <1>2, <2>1, <2>3
<1>5. \A u \in Ends(d) : QuietHolds(d) /\ u = Release(t)
  BY <1>1, <1>3, <1>4 DEF Ends
<1> QED BY <1>3, <1>4, <1>5 DEF d

\* Two looks are enough: the first at the end of the last hold, the second at the
\* end of the quiet hours into which that may fall.
LEMMA HoldsFollow == ASSUME Assumptions, FInv PROVE HoldsEndOnTime
<1> SUFFICES ASSUME Decided, Evaluate(Asked).decision = "DEFER" PROVE HoldsEndOnTime
  BY DEF HoldsEndOnTime
<1> DEFINE m  == Evaluate(Asked).until
           c1 == [Asked EXCEPT !.now = m]
           n  == Release(m)
           c2 == [c1 EXCEPT !.now = n]
           then == Hop(Hop(Asked))
           v  == Evaluate(then)
<1>1. /\ PolicyLimitsOK /\ Asked \in Facts /\ Timed(Asked)
      /\ Asked.now = S.now /\ Asked.window = S.window /\ S.now \in Int
  <2>1. PolicyLimitsOK /\ Asked = StoppingContext(proposal, Case) /\ Timed(Asked)
    BY RulesAreAskedInTime DEF Asked
  <2>2. Asked.now \in Int
    BY <2>1 DEF Timed
  <2> QED BY <2>1, <2>2, RulesSeeTheFacts
<1>2. \A t : Free(Asked, t) <=> Free(S, t)
  <2>1. ctx.stopping \in Facts /\ S = ctx.stopping
    BY DEF FInv, Contexts, S
  <2> DEFINE d == IF proposal.discount = NaN THEN 0 ELSE proposal.discount
  <2>2. Asked = [S EXCEPT !.class = proposal.class, !.discount = d]
    BY <2>1 DEF Asked, StoppingContext
  <2> HIDE DEF d
  <2>3. /\ Asked.outbound = S.outbound /\ Asked.contacts_24h = S.contacts_24h
        /\ Asked.last_contact = S.last_contact /\ Asked.promise_active = S.promise_active
        /\ Asked.promised_at = S.promised_at
    BY <2>1, <2>2 DEF Facts
  <2> QED BY <2>3 DEF Free
<1>3. /\ NobodyStops(Asked) /\ m \in Ends(Asked) /\ m \in Int /\ m > Asked.now
      /\ \A u \in Ends(Asked) : u <= m
      /\ S.window # None => m < S.window
  BY <1>1, HeldUntilTheLastEnd, EndsLieAhead
<1>4. Hop(Asked) = c1
  BY DEF Hop
<1> HIDE DEF m
<1>5. /\ c1 \in Facts /\ c1.now = m /\ Timed(c1) /\ c1.window = S.window
      /\ SameButNow(Asked, c1)
  BY <1>1, <1>3, LookingAgain DEF SameButNow
<1>6. NobodyStops(c1)
  BY <1>1, <1>3, <1>5, TimeStopsNothing
<1>7. ~CapHolds(c1) /\ ~PromiseHolds(c1) /\ \A u \in Ends(c1) : QuietHolds(c1) /\ u = n
  <2>1. m >= m
    BY <1>3
  <2> QED BY <1>1, <1>3, <2>1, QuietHoursComeLast
<1>8. \A t \in S.now .. m - 1 : ~Free(S, t)
  BY <1>1, <1>2, <1>3, HeldIsNotFree
<1>9. \A t : Free(c1, t) <=> Free(S, t)
  BY <1>2, <1>5 DEF Free, SameButNow
<1>10. CASE Ends(c1) = {}
  <2>1. MayAct(Evaluate(c1)) /\ Free(c1, m)
    BY <1>1, <1>5, <1>6, <1>10, LastHoldCounts, NoHoldIsFree
  <2>2. then = c1
    BY <1>4, <2>1 DEF Hop, MayAct
  <2> HIDE DEF c1, then
  <2> QED BY <1>5, <1>8, <1>9, <2>1, <2>2 DEF HoldsEndOnTime, then
<1>11. CASE Ends(c1) # {}
  <2>1. n \in Ends(c1) /\ \A u \in Ends(c1) : u <= n
    <3>1. \A u \in Ends(c1) : u = n /\ u \in Int
      BY <1>7 DEF Ends
    <3> QED BY <1>11, <3>1
  <2>2. n \in Int /\ n > m
    BY <1>1, <1>5, <2>1, EndsLieAhead
  <2>3. \A t \in m .. n - 1 : ~Free(S, t)
    BY <1>1, <1>5, <1>9, <2>1, HeldIsNotFree
  <2>4. \A t \in S.now .. n - 1 : ~Free(S, t)
    <3>1. \A t \in S.now .. n - 1 : t \in S.now .. m - 1 \/ t \in m .. n - 1
      BY <1>1, <1>3, <2>2
    <3> QED BY <1>8, <2>3, <3>1
  <2>5. CASE S.window # None /\ n >= S.window
    <3>1. Evaluate(c1).decision = "STOP" /\ Evaluate(c1).rule = "S-06"
      BY <1>1, <1>5, <1>6, <2>1, <2>5, LastHoldCounts
    <3>2. then = c1
      BY <1>4, <3>1 DEF Hop
    <3>3. \A t \in S.now .. S.window - 1 : ~Free(S, t)
      <4>1. S.window \in Int
        BY <1>1, <2>5 DEF Timed
      <4>2. \A t \in S.now .. S.window - 1 : t \in S.now .. n - 1
        BY <1>1, <2>2, <2>5, <4>1
      <4> QED BY <2>4, <4>2
    <3> HIDE DEF c1, then
    <3> QED BY <3>1, <3>2, <3>3 DEF HoldsEndOnTime, then
  <2>6. CASE ~(S.window # None /\ n >= S.window)
    <3>1. Evaluate(c1).decision = "DEFER" /\ Evaluate(c1).until = n
      BY <1>1, <1>5, <1>6, <2>1, <2>6, LastHoldCounts
    <3>2. then = c2
      BY <1>4, <3>1 DEF Hop
    <3>3. /\ c2 \in Facts /\ c2.now = n /\ Timed(c2) /\ SameButNow(c1, c2)
      BY <1>5, <2>2, LookingAgain
    <3>4. NobodyStops(c2)
      <4>1. c1.window # None => n < c1.window
        BY <1>1, <1>5, <2>2, <2>6 DEF Timed
      <4> HIDE DEF c1, c2
      <4> QED BY <1>6, <3>3, <4>1, TimeStopsNothing
    <3>5. Ends(c2) = {}
      <4>1. \A u \in Ends(c2) : QuietHolds(c2)
        <5>1. n >= n
          BY <2>2
        <5> QED BY <1>1, <1>5, <2>1, <2>2, <5>1, QuietHoursComeLast
      <4>2. ~QuietHolds(c2)
        <5>1. InQuietHours(m)
          BY <1>5, <1>7, <2>1 DEF QuietHolds
        <5>2. ~InQuietHours(n)
          BY <1>1, <1>3, <5>1, QuietUntilRelease
        <5> QED BY <3>3, <5>2 DEF QuietHolds
      <4> QED BY <4>1, <4>2
    <3>6. MayAct(Evaluate(c2)) /\ Free(c2, n)
      BY <1>1, <3>3, <3>4, <3>5, LastHoldCounts, NoHoldIsFree
    <3>7. Free(S, n)
      BY <1>9, <3>3, <3>6 DEF Free, SameButNow
    <3> HIDE DEF c1, c2, then
    <3> QED BY <2>4, <3>2, <3>3, <3>6, <3>7 DEF HoldsEndOnTime, then
  <2> QED BY <2>5, <2>6
<1> QED BY <1>10, <1>11

-----------------------------------------------------------------------------
(* Bad news, and what an approval is worth.                                *)

\* evaluate_policy blocks exactly where one of its blocks applies.
LEMMA VerdictOfBlocks ==
  ASSUME NEW p, NEW c
  PROVE  EvaluatePolicy(p, c).verdict = "BLOCKED"
           <=> Blocks(p, c, Evaluate(StoppingContext(p, c))) # {}
BY DEF EvaluatePolicy

\* The proposal's own fields do not make the facts any better.
LEMMA NoBetterAsProposed ==
  ASSUME NEW f \in Facts, NEW g \in Facts, NoBetter(g, f), NEW class, NEW n
  PROVE  NoBetter([g EXCEPT !.class = class, !.discount = n],
                  [f EXCEPT !.class = class, !.discount = n])
BY DEF Facts, NoBetter

\* Facts that speak against sending; an attempt that was made is one of them. A
\* contact is not: with its time known S-04 may hold where it stopped before.
BadNews ==
  \/ OrderIsPaid \/ CaseIsResolved \/ OptOut \/ RegisterDnd \/ RevokeConsent
  \/ S.autopilot /\ ToggleAutopilot
  \/ SpendBudget \/ SpendDiscounts
  \/ \E bearing \in {0, 1} : Attempt(bearing)

\* Whatever was blocked stays blocked, whatever was stopped or held is not let go,
\* and no hold ends sooner.
NotLetGo ==
  /\ EvaluatePolicy(proposal, Case).verdict = "BLOCKED" =>
       EvaluatePolicy(proposal, Case').verdict = "BLOCKED"
  /\ ~MayAct(Ruling) => ~MayAct(Ruling')
  /\ Ruling.decision = "DEFER" /\ Ruling'.decision = "DEFER" => Ruling.until <= Ruling'.until

OnlyDiffers(g, f, field) ==
  \A other \in DOMAIN f \ {field} : g[other] = f[other]

\* A consent withdrawn, a flag that stops or holds, and nothing else.
LEMMA FlagIsBad ==
  ASSUME NEW f \in Facts, NEW g \in Facts,
         \/ OnlyDiffers(g, f, "opted_out") /\ g.opted_out = TRUE
         \/ OnlyDiffers(g, f, "dnd") /\ g.dnd = TRUE
         \/ OnlyDiffers(g, f, "transactional") /\ g.transactional = FALSE
         \/ OnlyDiffers(g, f, "autopilot") /\ g.autopilot = FALSE
  PROVE  NoBetter(g, f)
<1>1. DOMAIN f = {"now", "window", "order_status", "case_status", "attempt_no",
                  "discount_attempts", "opted_out", "dnd", "marketing", "transactional",
                  "contacts_24h", "contacts_48h", "last_contact", "promise_active",
                  "promised_at", "autopilot", "actions_today", "exposure", "class",
                  "discount", "outbound"}
  BY DEF Facts
<1>2. /\ g.now = f.now /\ g.window = f.window /\ g.last_contact = f.last_contact
      /\ g.promised_at = f.promised_at /\ g.promise_active = f.promise_active
      /\ g.class = f.class /\ g.discount = f.discount /\ g.outbound = f.outbound
      /\ g.order_status = f.order_status /\ g.case_status = f.case_status
      /\ g.marketing = f.marketing
      /\ g.attempt_no = f.attempt_no /\ g.discount_attempts = f.discount_attempts
      /\ g.contacts_24h = f.contacts_24h /\ g.contacts_48h = f.contacts_48h
      /\ g.actions_today = f.actions_today /\ g.exposure = f.exposure
  BY <1>1 DEF OnlyDiffers
<1>3. /\ g.opted_out = f.opted_out \/ g.opted_out = TRUE
      /\ g.dnd = f.dnd \/ g.dnd = TRUE
      /\ g.transactional = f.transactional \/ g.transactional = FALSE
      /\ g.autopilot = f.autopilot \/ g.autopilot = FALSE
  BY <1>1 DEF OnlyDiffers
<1>4. /\ (f.opted_out => g.opted_out) /\ (f.dnd => g.dnd)
      /\ (g.transactional => f.transactional) /\ (g.autopilot => f.autopilot)
  BY <1>3
<1> QED BY <1>2, <1>4 DEF NoBetter

LEMMA WorseFactsKeep ==
  ASSUME Assumptions, FInv, NEW facts \in Facts, Happens(facts), NoBetter(facts, S)
  PROVE  NotLetGo
<1> DEFINE n   == IF proposal.discount = NaN THEN 0 ELSE proposal.discount
           old == [S EXCEPT !.class = proposal.class, !.discount = n]
           new == [facts EXCEPT !.class = proposal.class, !.discount = n]
<1>1. /\ S \in Facts /\ Case.stopping = S
      /\ ctx \in Contexts(ctx.approved)
  BY DEF FInv, Contexts, S, Case, Handed
<1>2. /\ ctx' = [ctx EXCEPT !.stopping = facts] /\ proposal' = proposal
  BY DEF Happens
<1>3. /\ Case'.stopping = facts /\ Case'.amount = Case.amount /\ Case'.arm = Case.arm
  BY <1>1, <1>2 DEF Contexts, Case, Handed
<1>4. StoppingContext(proposal, Case) = old /\ StoppingContext(proposal, Case') = new
  BY <1>1, <1>3 DEF StoppingContext
<1>5. Ruling = Evaluate(old) /\ Ruling' = Evaluate(new)
  BY <1>2, <1>4 DEF Ruling
<1>6. Timed(old)
  BY <1>1 DEF Facts, Timed
<1> HIDE DEF n
<1>7. NoBetter(new, old)
  BY <1>1, NoBetterAsProposed
<1> HIDE DEF old, new
<1>8. /\ Severity[Ruling.decision] <= Severity[Ruling'.decision]
      /\ Ruling.decision = "DEFER" /\ Ruling'.decision = "DEFER" => Ruling.until <= Ruling'.until
  BY <1>5, <1>6, <1>7, BadNewsNeverHelps
<1>9. Ruling.decision \in Decisions /\ Ruling'.decision \in Decisions
  BY <1>5, EvaluateDecides
<1>10. /\ Severity["STOP"] = 3 /\ Severity["DEFER"] = 2
       /\ Severity["DEGRADE"] = 1 /\ Severity["PROCEED"] = 0
  BY DEF Severity
<1>11. /\ Ruling.decision = "STOP" => Ruling'.decision = "STOP"
       /\ ~MayAct(Ruling) => ~MayAct(Ruling')
  BY <1>8, <1>9, <1>10 DEF Decisions, MayAct
<1>12. Blocks(proposal, Case, Ruling) # {} => Blocks(proposal, Case', Ruling') # {}
  BY <1>3, <1>11 DEF Blocks
<1>13. /\ EvaluatePolicy(proposal, Case).verdict = "BLOCKED" <=> Blocks(proposal, Case, Ruling) # {}
       /\ EvaluatePolicy(proposal, Case').verdict = "BLOCKED" <=> Blocks(proposal, Case', Ruling') # {}
  BY <1>4, <1>5, VerdictOfBlocks
<1> QED BY <1>8, <1>11, <1>12, <1>13 DEF NotLetGo

LEMMA BadNewsKeeps == ASSUME Assumptions, FInv, BadNews PROVE NotLetGo
<1>1. S \in Facts
  BY DEF FInv, Contexts, S
<1>2. CASE OrderIsPaid
  <2>1. /\ [S EXCEPT !.order_status = "paid"] \in Facts
        /\ NoBetter([S EXCEPT !.order_status = "paid"], S)
    BY <1>1 DEF Facts, NoBetter
  <2> QED BY <1>2, <2>1, WorseFactsKeep DEF OrderIsPaid
<1>3. CASE CaseIsResolved
  <2>1. /\ [S EXCEPT !.case_status = "RECOVERED"] \in Facts
        /\ NoBetter([S EXCEPT !.case_status = "RECOVERED"], S)
    BY <1>1 DEF Facts, NoBetter
  <2> QED BY <1>3, <2>1, WorseFactsKeep DEF CaseIsResolved
<1>4. CASE OptOut
  <2>1. /\ [S EXCEPT !.opted_out = TRUE] \in Facts
        /\ NoBetter([S EXCEPT !.opted_out = TRUE], S)
    <3> DEFINE g == [S EXCEPT !.opted_out = TRUE]
    <3>1. g \in Facts /\ g.opted_out = TRUE
      BY <1>1 DEF Facts
    <3>2. OnlyDiffers(g, S, "opted_out")
      BY <1>1 DEF Facts, OnlyDiffers
    <3> HIDE DEF g
    <3>3. NoBetter(g, S)
      BY <1>1, <3>1, <3>2, FlagIsBad
    <3> QED BY <3>1, <3>3 DEF g
  <2> QED BY <1>4, <2>1, WorseFactsKeep DEF OptOut
<1>5. CASE RegisterDnd
  <2>1. /\ [S EXCEPT !.dnd = TRUE] \in Facts
        /\ NoBetter([S EXCEPT !.dnd = TRUE], S)
    <3> DEFINE g == [S EXCEPT !.dnd = TRUE]
    <3>1. g \in Facts /\ g.dnd = TRUE
      BY <1>1 DEF Facts
    <3>2. OnlyDiffers(g, S, "dnd")
      BY <1>1 DEF Facts, OnlyDiffers
    <3> HIDE DEF g
    <3>3. NoBetter(g, S)
      BY <1>1, <3>1, <3>2, FlagIsBad
    <3> QED BY <3>1, <3>3 DEF g
  <2> QED BY <1>5, <2>1, WorseFactsKeep DEF RegisterDnd
<1>6. CASE RevokeConsent
  <2>1. /\ [S EXCEPT !.transactional = FALSE] \in Facts
        /\ NoBetter([S EXCEPT !.transactional = FALSE], S)
    <3> DEFINE g == [S EXCEPT !.transactional = FALSE]
    <3>1. g \in Facts /\ g.transactional = FALSE
      BY <1>1 DEF Facts
    <3>2. OnlyDiffers(g, S, "transactional")
      BY <1>1 DEF Facts, OnlyDiffers
    <3> HIDE DEF g
    <3>3. NoBetter(g, S)
      BY <1>1, <3>1, <3>2, FlagIsBad
    <3> QED BY <3>1, <3>3 DEF g
  <2> QED BY <1>6, <2>1, WorseFactsKeep DEF RevokeConsent
<1>7. CASE S.autopilot /\ ToggleAutopilot
  <2>1. /\ [S EXCEPT !.autopilot = FALSE] \in Facts
        /\ NoBetter([S EXCEPT !.autopilot = FALSE], S)
    <3> DEFINE g == [S EXCEPT !.autopilot = FALSE]
    <3>1. g \in Facts /\ g.autopilot = FALSE
      BY <1>1 DEF Facts
    <3>2. OnlyDiffers(g, S, "autopilot")
      BY <1>1 DEF Facts, OnlyDiffers
    <3> HIDE DEF g
    <3>3. NoBetter(g, S)
      BY <1>1, <3>1, <3>2, FlagIsBad
    <3> QED BY <3>1, <3>3 DEF g
  <2>2. (~S.autopilot) = FALSE
    BY <1>7
  <2>3. Happens([S EXCEPT !.autopilot = FALSE])
    BY <1>7, <2>2 DEF ToggleAutopilot
  <2> QED BY <2>1, <2>3, WorseFactsKeep
<1>8. CASE SpendBudget
  <2>1. /\ daily_action_budget \in Int /\ daily_action_budget >= daily_action_budget
    BY DEF Assumptions, PolicyLimitsOK
  <2>2. [S EXCEPT !.actions_today = daily_action_budget] \in Facts
    BY <1>1, <2>1 DEF Facts
  <2>3. NoBetter([S EXCEPT !.actions_today = daily_action_budget], S)
    BY <1>1, <2>1 DEF Facts, NoBetter
  <2> QED BY <1>8, <2>2, <2>3, WorseFactsKeep DEF SpendBudget
<1>9. CASE SpendDiscounts
  <2>1. /\ monthly_discount_exposure \in Int
        /\ monthly_discount_exposure >= monthly_discount_exposure
    BY DEF Assumptions, PolicyLimitsOK
  <2>2. [S EXCEPT !.exposure = monthly_discount_exposure] \in Facts
    BY <1>1, <2>1 DEF Facts
  <2>3. NoBetter([S EXCEPT !.exposure = monthly_discount_exposure], S)
    BY <1>1, <2>1 DEF Facts, NoBetter
  <2> QED BY <1>9, <2>2, <2>3, WorseFactsKeep DEF SpendDiscounts
<1>10. CASE \E bearing \in {0, 1} : Attempt(bearing)
  <2>1. PICK bearing \in {0, 1} : Attempt(bearing)
    BY <1>10
  <2> DEFINE a == S.attempt_no + 1
             b == S.discount_attempts + bearing
  <2>2. /\ a \in Int /\ b \in Int /\ S.attempt_no \in Int /\ S.discount_attempts \in Int
        /\ S.attempt_no <= a /\ S.discount_attempts <= b
    BY <1>1 DEF Facts
  <2>3. Happens([S EXCEPT !.attempt_no = a, !.discount_attempts = b])
    BY <2>1 DEF Attempt
  <2> HIDE DEF a, b
  <2>4. [S EXCEPT !.attempt_no = a, !.discount_attempts = b] \in Facts
    BY <1>1, <2>2 DEF Facts
  <2>5. /\ S.attempt_no >= max_attempts_per_case => a >= max_attempts_per_case
        /\ S.discount_attempts >= max_discount_bearing_attempts =>
             b >= max_discount_bearing_attempts
    BY <2>2 DEF Assumptions, PolicyLimitsOK
  <2>6. NoBetter([S EXCEPT !.attempt_no = a, !.discount_attempts = b], S)
    BY <1>1, <2>5 DEF Facts, NoBetter
  <2> QED BY <2>3, <2>4, <2>6, WorseFactsKeep
<1> QED BY <1>2, <1>3, <1>4, <1>5, <1>6, <1>7, <1>8, <1>9, <1>10 DEF BadNews

-----------------------------------------------------------------------------
(* The theorems.                                                           *)

LEMMA FInvHolds == ASSUME Assumptions PROVE Spec => []FInv
<1>1. Init => FInv
  BY InitFInv
<1>2. FInv /\ [Next]_vars => FInv'
  BY StepKeepsFInv
<1> QED BY <1>1, <1>2, PTL DEF Spec

LEMMA Assumed == Assumptions
BY PolicyLimitsOK, MoneyLimitsOK, FirewallParametersOK DEF Assumptions

\* Whatever a model proposes and however the facts change, the action that
\* evaluate_policy shows keeps to the ceilings in percent, in rupees and in time,
\* and the customer pays a positive amount.
THEOREM ActionsAreBounded == Spec => []AppliedIsBounded
<1>1. FInv => AppliedIsBounded
  BY Assumed, BoundedFollows
<1>2. Spec => []FInv
  BY Assumed, FInvHolds
<1> QED BY <1>1, <1>2, PTL

\* What evaluate_policy changes of a proposal it reduces, and it says so.
THEOREM EveryReductionIsRecorded == Spec => []ReductionsAreRecorded
<1>1. FInv => ReductionsAreRecorded
  BY Assumed, RecordedFollows
<1>2. Spec => []FInv
  BY Assumed, FInvHolds
<1> QED BY <1>1, <1>2, PTL

\* A capability token is minted only with the leave of the merchant, the
\* customer, the experiment and, where one is asked, the reviewer of this action.
THEOREM EverybodyAgreed == Spec => []NobodyIsOverruled
<1>1. FInv => NobodyIsOverruled
  BY Assumed, LeaveFollows
<1>2. Spec => []FInv
  BY Assumed, FInvHolds
<1> QED BY <1>1, <1>2, PTL

\* Verdict, token and reasons of a decision agree: only what passed carries a
\* capability token, for the action that is shown.
THEOREM TypeCorrect == Spec => []TypeOK
<1>1. FInv => TypeOK
  <2> SUFFICES ASSUME FInv PROVE TypeOK
    OBVIOUS
  <2>1. proposal \in Proposals /\ events \in 0 .. MaxEvents
    BY DEF FInv
  <2>2. Decided => /\ decision.verdict \in Verdicts
                   /\ Passed = (decision.token # None)
                   /\ Passed => decision.token = decision.applied
                   /\ (decision.verdict = "BLOCKED") = (decision.blocks # {})
    BY Assumed, TypesFollow
  <2> QED BY <2>1, <2>2 DEF TypeOK
<1>2. Spec => []FInv
  BY Assumed, FInvHolds
<1> QED BY <1>1, <1>2, PTL

\* A held action goes out in the first hour in which nothing holds it, or not at
\* all because its case expires first; it is looked at no more than twice again.
THEOREM HeldActionsGoOutOnTime == Spec => []HoldsEndOnTime
<1>1. FInv => HoldsEndOnTime
  BY Assumed, HoldsFollow
<1>2. Spec => []FInv
  BY Assumed, FInvHolds
<1> QED BY <1>1, <1>2, PTL

\* However often a case is evaluated: a payment, a closed case, an opt-out, a
\* withdrawn consent, a spent budget, another attempt or the kill switch never
\* frees an action that evaluate_policy blocked, nor one that a rule stopped or held.
THEOREM BadNewsNeverFrees == Spec => [][BadNews => NotLetGo]_vars
<1>1. FInv /\ [Next]_vars => [BadNews => NotLetGo]_vars
  BY Assumed, BadNewsKeeps
<1>2. Spec => []FInv
  BY Assumed, FInvHolds
<1> QED BY <1>1, <1>2, PTL DEF Spec

\* approved_action_hash: an escalated action that a reviewer approved goes out as it
\* was shown if nothing else changed, and no other approval lets it through.
THEOREM ApprovalIsForOneAction ==
  ASSUME NEW p, NEW old, NEW c \in Contexts(old), NEW approved,
         EvaluatePolicy(p, c).verdict = "ESCALATE_HITL"
  PROVE  LET shown == EvaluatePolicy(p, c).applied
             again == EvaluatePolicy(p, [c EXCEPT !.approved = approved]) IN
           /\ again.applied = shown
           /\ approved = shown  => again.verdict = "PASSED" /\ again.token = shown
           /\ approved # shown => again.verdict = "ESCALATE_HITL" /\ again.token = None
<1> DEFINE d == [c EXCEPT !.approved = approved]
           verdict == Evaluate(StoppingContext(p, c))
           applied == Applied(p, c, verdict)
<1>1. /\ d.stopping = c.stopping /\ d.amount = c.amount /\ d.arm = c.arm
      /\ d.attempt_no = c.attempt_no /\ d.approved = approved
  BY DEF Contexts
<1> HIDE DEF d
<1>2. StoppingContext(p, d) = StoppingContext(p, c)
  BY <1>1 DEF StoppingContext
<1>3. Blocks(p, d, verdict) = Blocks(p, c, verdict)
  BY <1>1 DEF Blocks
<1>4. Discount(p, d, verdict) = Discount(p, c, verdict)
  BY <1>1 DEF Discount
<1>5. Clamps(p, d, verdict) = Clamps(p, c, verdict)
  BY <1>4 DEF Clamps
<1>6. Applied(p, d, verdict) = applied
  BY <1>1, <1>4, <1>5 DEF Applied
<1>7. Approved(p, d, verdict) <=> approved = applied
  BY <1>1, <1>6 DEF Approved
<1> HIDE DEF verdict, applied
<1>8. /\ Blocks(p, c, verdict) = {} /\ NeedsHuman(applied.rung)
      /\ EvaluatePolicy(p, c).applied = applied
  BY DEF EvaluatePolicy, verdict, applied
<1>9. /\ EvaluatePolicy(p, d).applied = applied
      /\ approved = applied => /\ EvaluatePolicy(p, d).verdict = "PASSED"
                               /\ EvaluatePolicy(p, d).token = applied
      /\ approved # applied => /\ EvaluatePolicy(p, d).verdict = "ESCALATE_HITL"
                               /\ EvaluatePolicy(p, d).token = None
  <2>1. Evaluate(StoppingContext(p, d)) = verdict
    BY <1>2 DEF verdict
  <2> QED BY <1>3, <1>6, <1>7, <1>8, <2>1 DEF EvaluatePolicy
<1> QED BY <1>8, <1>9 DEF d
=============================================================================
