--------------------------- MODULE StoppingRules ---------------------------
(***************************************************************************)
(* guardrails/stopping_rules.py: the twelve rules that may stop, defer or  *)
(* reduce an action, and how their answers are combined.  Pure: a context  *)
(* goes in, a verdict comes out.                                           *)
(*                                                                         *)
(* Times are whole hours in IST, so now % Day is the hour of the day; the  *)
(* five minutes between the end of quiet hours and the release are left    *)
(* out.  Amounts are integers.                                             *)
(***************************************************************************)
EXTENDS Integers

CONSTANTS
  None,                             \* no time, no status, no rule
  Day,                              \* hours in a day: 24
  max_attempts_per_case,
  max_discount_bearing_attempts,
  max_contacts_24h, max_contacts_48h,
  quiet_hours_start, quiet_hours_end,
  promise_freeze_h,
  daily_action_budget,
  monthly_discount_exposure

ASSUME PolicyLimitsOK ==
  /\ None \notin Int /\ Day \in Nat \ {0}
  /\ quiet_hours_start \in 0 .. Day - 1 /\ quiet_hours_end \in 0 .. Day - 1
  /\ promise_freeze_h \in Nat
  /\ max_attempts_per_case \in Nat /\ max_discount_bearing_attempts \in Nat
  /\ max_contacts_24h \in Nat /\ max_contacts_48h \in Nat
  /\ daily_action_budget \in Nat /\ monthly_discount_exposure \in Nat

\* The order of RULES: the most authoritative first.
Authority == <<"S-12", "S-01", "S-07", "S-06", "S-02", "S-11", "S-05", "S-08",
               "S-10", "S-04", "S-09", "S-03">>

Severity == [PROCEED |-> 0, DEGRADE |-> 1, DEFER |-> 2, STOP |-> 3]

\* RuleResult.  degrade names what of the proposed action is reduced.
Proceed(r) == [rule |-> r, decision |-> "PROCEED", status |-> None, until |-> None,
               degrade |-> {}]
Stop(r, status) == [Proceed(r) EXCEPT !.decision = "STOP", !.status = status]
Defer(r, until) == [Proceed(r) EXCEPT !.decision = "DEFER", !.until = until]
Degrade(r, what) == [Proceed(r) EXCEPT !.decision = "DEGRADE", !.degrade = what]

-----------------------------------------------------------------------------
(* Quiet hours.                                                            *)

\* A window from 21 to 9 wraps midnight; equal hours switch it off.
InQuietHours(t) ==
  /\ quiet_hours_start # quiet_hours_end
  /\ IF quiet_hours_start > quiet_hours_end
     THEN t % Day >= quiet_hours_start \/ t % Day < quiet_hours_end
     ELSE t % Day >= quiet_hours_start /\ t % Day < quiet_hours_end

\* The end of quiet hours today, or tomorrow if that is past.
Release(t) ==
  LET today == t - (t % Day) + quiet_hours_end IN
  IF today > t THEN today ELSE today + Day

-----------------------------------------------------------------------------
(* The rules.                                                              *)

S01(ctx) ==
  IF ctx.order_status = "paid" THEN Stop("S-01", "RESOLVED_ORGANIC")
  ELSE IF ctx.case_status \in {"RECOVERED", "RESOLVED_ORGANIC"}
  THEN Stop("S-01", ctx.case_status)
  ELSE Proceed("S-01")

S02(ctx) ==
  IF ctx.attempt_no >= max_attempts_per_case
  THEN Stop("S-02", "EXPIRED") ELSE Proceed("S-02")

S03(ctx) ==
  IF ctx.discount > 0 /\ ctx.discount_attempts >= max_discount_bearing_attempts
  THEN Degrade("S-03", {"discount"}) ELSE Proceed("S-03")

\* The count and the timestamp of the last contact may disagree: the timestamp
\* is believed.
S04(ctx) ==
  IF ~ctx.outbound \/ ctx.contacts_24h < max_contacts_24h THEN Proceed("S-04")
  ELSE IF ctx.last_contact = None THEN Stop("S-04", "SUPPRESSED")
  ELSE IF ctx.last_contact + Day <= ctx.now THEN Proceed("S-04")
  ELSE Defer("S-04", ctx.last_contact + Day)

S05(ctx) ==
  IF ctx.outbound /\ ctx.contacts_48h >= max_contacts_48h
  THEN Stop("S-05", "SUPPRESSED") ELSE Proceed("S-05")

S06(ctx) ==
  IF ctx.window # None /\ ctx.now >= ctx.window
  THEN Stop("S-06", "EXPIRED") ELSE Proceed("S-06")

S07(ctx) ==
  IF ctx.opted_out /\ ctx.outbound
  THEN Stop("S-07", "SUPPRESSED") ELSE Proceed("S-07")

OfferWithoutConsent(ctx) == ctx.class = "MARKETING" /\ (~ctx.marketing \/ ctx.dnd)

S08(ctx) ==
  IF ctx.outbound /\ ~ctx.transactional THEN Stop("S-08", "SUPPRESSED")
  ELSE IF ctx.outbound /\ OfferWithoutConsent(ctx)
  THEN Degrade("S-08", {"class", "discount"})
  ELSE Proceed("S-08")

S09(ctx) ==
  IF ctx.outbound /\ InQuietHours(ctx.now)
  THEN Defer("S-09", Release(ctx.now)) ELSE Proceed("S-09")

S10(ctx) ==
  IF /\ ctx.promise_active /\ ctx.promised_at # None
     /\ ctx.now < ctx.promised_at + promise_freeze_h
  THEN Defer("S-10", ctx.promised_at + promise_freeze_h) ELSE Proceed("S-10")

S11(ctx) ==
  IF \/ ctx.actions_today >= daily_action_budget
     \/ ctx.exposure >= monthly_discount_exposure
  THEN Stop("S-11", "SUPPRESSED") ELSE Proceed("S-11")

S12(ctx) ==
  IF ctx.autopilot THEN Proceed("S-12") ELSE Stop("S-12", "SUPPRESSED")

-----------------------------------------------------------------------------
(* evaluate().                                                             *)

Results(ctx) ==
  {S01(ctx), S02(ctx), S03(ctx), S04(ctx), S05(ctx), S06(ctx),
   S07(ctx), S08(ctx), S09(ctx), S10(ctx), S11(ctx), S12(ctx)}

Worst(results) ==
  CHOOSE d \in {r.decision : r \in results} :
    \A r \in results : Severity[r.decision] <= Severity[d]

\* The first rule in the order of authority that reached the decision.
BlockingRule(results, d) ==
  LET who == {i \in DOMAIN Authority :
                \E r \in results : r.rule = Authority[i] /\ r.decision = d} IN
  IF d = "PROCEED" THEN None
  ELSE Authority[CHOOSE i \in who : \A j \in who : i <= j]

MutFirstHold(results) ==
  (CHOOSE r \in results : r.rule = BlockingRule(results, "DEFER")).until

\* Of several holds the latest, "or we would send while another cap is still in
\* force".
LatestHold(results) ==
  LET holds == {r.until : r \in {h \in results : h.decision = "DEFER"}} IN
  CHOOSE t \in holds : \A u \in holds : u <= t

Degradations(results) == UNION {r.degrade : r \in results}

\* A hold that would end after the window is a stop; one that does not move the
\* clock is dropped.
Evaluate(ctx) ==
  LET results == Results(ctx)
      worst   == Worst(results)
      reduce  == Degradations(results)
      rule    == BlockingRule(results, worst)
      verdict == [decision |-> worst, rule |-> rule, status |-> None, until |-> None,
                  degrade |-> reduce]
      until   == LatestHold(results) IN
  IF worst = "STOP"
  THEN [verdict EXCEPT !.status = (CHOOSE r \in results : r.rule = rule).status]
  ELSE IF worst # "DEFER" THEN verdict
  ELSE IF until <= ctx.now
  THEN LET left == IF reduce # {} THEN "DEGRADE" ELSE "PROCEED" IN
       [verdict EXCEPT !.decision = left, !.rule = BlockingRule(results, left)]
  ELSE IF ctx.window # None /\ until >= ctx.window
  THEN [verdict EXCEPT !.decision = "STOP", !.rule = "S-06", !.status = "EXPIRED"]
  ELSE [verdict EXCEPT !.until = until]

MayAct(v) == v.decision \in {"PROCEED", "DEGRADE"}
=============================================================================
