---------------------------- MODULE PolicyEngine ----------------------------
(***************************************************************************)
(* guardrails/policy_engine.py: the firewall between a proposal, which a   *)
(* model may have written, and an action that may be executed; with the    *)
(* capability token and the content hash of guardrails/token.py.  Pure.    *)
(*                                                                         *)
(* Percentages are integers in units of which Whole make 100 %             *)
(* (10^6 for the four decimals the code rounds to); rupees are paise.      *)
(* The HMAC is taken as unforgeable: a token is what it signs, and a       *)
(* content hash is its content.                                            *)
(***************************************************************************)
EXTENDS StoppingRules

CONSTANTS
  NaN,                        \* a number that is not one: NaN, infinity, text
  Whole,                      \* 100 %
  max_autonomous_amount,      \* PolicyLimitsFull
  hitl_dual_signal_amount,
  max_discount_pct, default_discount_pct,
  max_discount_absolute,
  link_expiry, link_expiry_min, link_expiry_max

\* The type of AppliedAction.
AppliedActions ==
  [strategy : STRING, amount : Int, pct : Int, discount : Int, charge : Int, expiry : Int,
   class : {"MARKETING", "TRANSACTIONAL"}, attempt : Int,
   rung : {"A0", "A1", "A2", "A3"}, send_after : Int \cup {None}]

ASSUME MoneyLimitsOK ==
  /\ None \notin AppliedActions
  /\ NaN \notin Int /\ Whole \in Nat \ {0}
  /\ max_autonomous_amount \in Nat /\ hitl_dual_signal_amount \in Nat
  /\ max_discount_pct \in 0 .. Whole - 1 /\ default_discount_pct \in Nat
  /\ max_discount_absolute \in Nat
  /\ link_expiry_min \in Nat /\ link_expiry_max \in Nat
  /\ link_expiry \in link_expiry_min .. link_expiry_max

\* A clamp: what was reduced, and whether a hard bound was breached.
Reduction(what) == [field |-> what, violation |-> FALSE]
Violation(what) == [field |-> what, violation |-> TRUE]

-----------------------------------------------------------------------------
(* The sanitisers.                                                         *)

SafeDefault ==
  IF default_discount_pct <= max_discount_pct THEN default_discount_pct ELSE max_discount_pct

\* Beyond the ceiling the safe default, not the ceiling.
SanePct(pct) ==
  IF pct = NaN THEN 0
  ELSE IF pct < 0 THEN 0
  ELSE IF pct > max_discount_pct THEN SafeDefault
  ELSE pct

PctClamps(pct) ==
  IF pct \in 0 .. max_discount_pct THEN {} ELSE {Violation("discount")}

\* int(amount * pct / 100).
Paise(pct, amount) ==
  IF pct <= 0 \/ amount <= 0 THEN 0 ELSE (amount * pct) \div Whole

\* round(capped * 100 / amount, 4).
Nearest(paise, amount) == (2 * paise * Whole + amount) \div (2 * amount)

MutNoAbsoluteCap(pct, amount) ==
  IF pct <= 0 \/ amount <= 0 THEN [pct |-> 0, paise |-> 0, clamps |-> {}]
  ELSE [pct |-> pct, paise |-> Paise(pct, amount), clamps |-> {}]

\* The rupee ceiling makes the percentage ceiling meaningful on large carts.
AbsoluteCap(pct, amount) ==
  IF pct <= 0 \/ amount <= 0 THEN [pct |-> 0, paise |-> 0, clamps |-> {}]
  ELSE IF Paise(pct, amount) <= max_discount_absolute
  THEN [pct |-> pct, paise |-> Paise(pct, amount), clamps |-> {}]
  ELSE [pct |-> Nearest(max_discount_absolute, amount),
        paise |-> max_discount_absolute, clamps |-> {Reduction("discount")}]

SaneExpiry(minutes) ==
  IF minutes = NaN THEN link_expiry
  ELSE IF minutes < link_expiry_min THEN link_expiry_min
  ELSE IF minutes > link_expiry_max THEN link_expiry_max
  ELSE minutes

ExpiryClamps(minutes) ==
  IF minutes \in link_expiry_min .. link_expiry_max THEN {} ELSE {Reduction("expiry")}

-----------------------------------------------------------------------------
(* The authority ladder.                                                   *)

Rung(strategy, amount, pct, clamps) ==
  IF strategy = "NO_ACTION" THEN "A0"
  ELSE IF amount >= hitl_dual_signal_amount THEN "A3"
  ELSE IF amount >= max_autonomous_amount \/ \E c \in clamps : c.violation THEN "A2"
  ELSE IF pct > 0 THEN "A1" ELSE "A0"

NeedsHuman(rung) == rung \in {"A2", "A3"}

-----------------------------------------------------------------------------
(* evaluate_policy.                                                        *)

\* The proposal's own fields replace those of the caller's context (INC-007).
StoppingContext(p, c) ==
  [c.stopping EXCEPT !.class = p.class,
                     !.discount = IF p.discount = NaN THEN 0 ELSE p.discount]

Blocks(p, c, verdict) ==
  {b \in {"amount", "stopping", "control"} :
     \/ b = "amount"   /\ c.amount <= 0
     \/ b = "stopping" /\ verdict.decision = "STOP"
     \/ b = "control"  /\ c.arm = "CONTROL"}

EffectiveClass(p, verdict) ==
  IF "class" \in verdict.degrade THEN "TRANSACTIONAL" ELSE p.class

MutSilentlyZero(p, c, verdict) ==
  LET sane    == SanePct(p.discount)
      carried == IF EffectiveClass(p, verdict) = "TRANSACTIONAL" THEN 0 ELSE sane
      capped  == AbsoluteCap(carried, c.amount)
      idle    == p.strategy = "NO_ACTION" IN
  [pct    |-> IF idle THEN 0 ELSE capped.pct,
   paise  |-> IF idle THEN 0 ELSE capped.paise,
   clamps |-> PctClamps(p.discount) \cup capped.clamps
              \cup {r \in {Reduction("discount")} : carried # sane}]

\* A transactional message cannot carry an offer, and for NO_ACTION there is
\* nothing to discount.
Discount(p, c, verdict) ==
  LET sane    == SanePct(p.discount)
      carried == IF EffectiveClass(p, verdict) = "TRANSACTIONAL" THEN 0 ELSE sane
      capped  == AbsoluteCap(carried, c.amount)
      idle    == p.strategy = "NO_ACTION" /\ (capped.pct # 0 \/ capped.paise # 0) IN
  [pct    |-> IF idle THEN 0 ELSE capped.pct,
   paise  |-> IF idle THEN 0 ELSE capped.paise,
   clamps |-> PctClamps(p.discount) \cup capped.clamps
              \cup {r \in {Reduction("discount")} : carried # sane \/ idle}]

Clamps(p, c, verdict) ==
  Discount(p, c, verdict).clamps \cup ExpiryClamps(p.expiry)
  \cup {r \in {Reduction("class")} : EffectiveClass(p, verdict) # p.class}

\* AppliedAction: what will execute, after every clamp.
Applied(p, c, verdict) ==
  LET d == Discount(p, c, verdict) IN
  [strategy |-> p.strategy, amount |-> c.amount, pct |-> d.pct, discount |-> d.paise,
   charge |-> c.amount - d.paise, expiry |-> SaneExpiry(p.expiry),
   class |-> EffectiveClass(p, verdict), attempt |-> c.attempt_no,
   rung |-> Rung(p.strategy, c.amount, d.pct, Clamps(p, c, verdict)),
   send_after |-> IF verdict.decision = "DEFER" THEN verdict.until ELSE None]

MutAnyApproval(p, c, verdict) ==
  c.approved # None

\* Approving one action and executing another is what the hash prevents.
Approved(p, c, verdict) == c.approved = Applied(p, c, verdict)

MutMintFirst(p, c) ==
  LET verdict == Evaluate(StoppingContext(p, c))
      blocks  == Blocks(p, c, verdict)
      applied == Applied(p, c, verdict) IN
  [verdict |-> IF blocks # {} THEN "BLOCKED"
               ELSE IF NeedsHuman(applied.rung) /\ ~Approved(p, c, verdict)
               THEN "ESCALATE_HITL" ELSE "PASSED",
   applied |-> IF blocks # {} THEN None ELSE applied, token |-> applied,
   clamps |-> Clamps(p, c, verdict), blocks |-> blocks, stopping |-> verdict]

EvaluatePolicy(p, c) ==
  LET verdict == Evaluate(StoppingContext(p, c))
      blocks  == Blocks(p, c, verdict)
      applied == Applied(p, c, verdict)
      answer  == [verdict |-> "BLOCKED", applied |-> None, token |-> None,
                  clamps |-> {r \in {Reduction("class")} :
                                EffectiveClass(p, verdict) # p.class},
                  blocks |-> blocks, stopping |-> verdict]
      open    == [answer EXCEPT !.applied = applied, !.clamps = Clamps(p, c, verdict)] IN
  IF blocks # {} THEN answer
  ELSE IF NeedsHuman(applied.rung) /\ ~Approved(p, c, verdict)
  THEN [open EXCEPT !.verdict = "ESCALATE_HITL"]
  ELSE [open EXCEPT !.verdict = "PASSED", !.token = applied]
=============================================================================
