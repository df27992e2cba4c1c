---------------------------- MODULE RulesProofs ----------------------------
(***************************************************************************)
(* Facts about StoppingRules that hold for every context and every limit.  *)
(***************************************************************************)
EXTENDS StoppingRules, TLAPS

Decisions == {"PROCEED", "DEGRADE", "DEFER", "STOP"}
RuleNames == {Authority[i] : i \in DOMAIN Authority}

\* Every rule gives one of the four answers.
LEMMA RulesAnswer == ASSUME NEW c, NEW r \in Results(c) PROVE r.decision \in Decisions
<1>1. \A n, s : Proceed(n).decision \in Decisions /\ Stop(n, s).decision \in Decisions
                /\ Defer(n, s).decision \in Decisions /\ Degrade(n, s).decision \in Decisions
  BY DEF Proceed, Stop, Defer, Degrade, Decisions
<1>2. /\ S01(c).decision \in Decisions /\ S02(c).decision \in Decisions
      /\ S03(c).decision \in Decisions /\ S04(c).decision \in Decisions
      /\ S05(c).decision \in Decisions /\ S06(c).decision \in Decisions
      /\ S07(c).decision \in Decisions /\ S08(c).decision \in Decisions
      /\ S09(c).decision \in Decisions /\ S10(c).decision \in Decisions
      /\ S11(c).decision \in Decisions /\ S12(c).decision \in Decisions
  BY <1>1 DEF S01, S02, S03, S04, S05, S06, S07, S08, S09, S10, S11, S12
<1> QED BY <1>2 DEF Results

\* One rule that stops is enough.
LEMMA OneStopStops ==
  ASSUME NEW c, Evaluate(c).decision # "STOP", NEW r \in Results(c)
  PROVE  r.decision # "STOP"
<1> SUFFICES ASSUME r.decision = "STOP" PROVE FALSE
  OBVIOUS
<1> DEFINE answers == {q.decision : q \in Results(c)}
           Worse(d) == \A q \in Results(c) : Severity[q.decision] <= Severity[d]
           worst == CHOOSE d \in answers : Worse(d)
<1>1. "STOP" \in answers /\ answers \subseteq Decisions
  BY RulesAnswer
<1>2. /\ Severity["STOP"] = 3 /\ Severity["DEFER"] = 2
      /\ Severity["DEGRADE"] = 1 /\ Severity["PROCEED"] = 0
  BY DEF Severity
<1>3. Worse("STOP")
  BY <1>2, RulesAnswer DEF Decisions
<1>4. worst \in answers /\ Worse(worst)
  <2> HIDE DEF answers, Worse
  <2> QED BY <1>1, <1>3
<1>5. 3 <= Severity[worst]
  <2> HIDE DEF worst
  <2> QED BY <1>2, <1>4
<1>6. worst = "STOP"
  <2> HIDE DEF worst, answers
  <2> QED BY <1>1, <1>2, <1>4, <1>5 DEF Decisions
<1>7. Worst(Results(c)) = "STOP"
  BY <1>6 DEF Worst
<1> QED BY <1>7 DEF Evaluate

\* However the answers combine, nothing that a rule takes away is given back.
LEMMA ReductionsStand ==
  ASSUME NEW c, NEW r \in Results(c)
  PROVE  r.degrade \subseteq Evaluate(c).degrade
<1>1. Evaluate(c).degrade = Degradations(Results(c))
  BY DEF Evaluate
<1> QED BY <1>1 DEF Degradations

\* The worst answer is one of those given, and none is worse.
LEMMA WorstIsGiven ==
  ASSUME NEW c
  PROVE  /\ Worst(Results(c)) \in Decisions
         /\ \E r \in Results(c) : r.decision = Worst(Results(c))
         /\ \A r \in Results(c) : Severity[r.decision] <= Severity[Worst(Results(c))]
<1> DEFINE answers == {q.decision : q \in Results(c)}
           Worse(d) == \A e \in answers : Severity[e] <= Severity[d]
<1>1. answers \subseteq Decisions /\ S12(c).decision \in answers
  BY RulesAnswer DEF Results
<1>2. /\ Severity["STOP"] = 3 /\ Severity["DEFER"] = 2
      /\ Severity["DEGRADE"] = 1 /\ Severity["PROCEED"] = 0
  BY DEF Severity
<1>3. \E d \in answers : Worse(d)
  <2> HIDE DEF answers
  <2>1. CASE "STOP" \in answers
    BY <1>1, <1>2, <2>1 DEF Decisions
  <2>2. CASE "STOP" \notin answers /\ "DEFER" \in answers
    BY <1>1, <1>2, <2>2 DEF Decisions
  <2>3. CASE "STOP" \notin answers /\ "DEFER" \notin answers /\ "DEGRADE" \in answers
    BY <1>1, <1>2, <2>3 DEF Decisions
  <2>4. CASE answers \subseteq {"PROCEED"}
    <3>1. answers = {"PROCEED"}
      BY <1>1, <2>4
    <3>2. Worse("PROCEED")
      BY <1>2, <3>1
    <3> QED BY <3>1, <3>2
  <2> QED BY <1>1, <2>1, <2>2, <2>3, <2>4 DEF Decisions
<1>4. Worst(Results(c)) = CHOOSE d \in answers : \A r \in Results(c) :
                            Severity[r.decision] <= Severity[d]
  BY DEF Worst
<1>5. \E d \in answers : \A r \in Results(c) : Severity[r.decision] <= Severity[d]
  BY <1>3
<1>6. /\ Worst(Results(c)) \in answers
      /\ \A r \in Results(c) : Severity[r.decision] <= Severity[Worst(Results(c))]
  <2> HIDE DEF answers
  <2> QED BY <1>4, <1>5
<1> QED BY <1>1, <1>6

\* The smallest of a few numbers.
LEMMA LeastOfTwelve ==
  ASSUME NEW W, W # {}, W \subseteq 1 .. 12
  PROVE  \E i \in W : \A j \in W : i <= j
<1>1. SUFFICES ASSUME \A i \in W : \E j \in W : ~(i <= j) PROVE FALSE
  OBVIOUS
<1>2. \A i \in W : \E j \in W : j < i
  BY <1>1
<1>3. 1 \notin W /\ 2 \notin W /\ 3 \notin W /\ 4 \notin W
  BY <1>2
<1>4. 5 \notin W /\ 6 \notin W /\ 7 \notin W /\ 8 \notin W
  BY <1>2, <1>3
<1>5. 9 \notin W /\ 10 \notin W /\ 11 \notin W /\ 12 \notin W
  BY <1>2, <1>3, <1>4
<1>6. PICK w \in W : w \in 1 .. 12
  OBVIOUS
<1>7. \/ w \in {1, 2, 3, 4} \/ w \in {5, 6, 7, 8} \/ w \in {9, 10, 11, 12}
  BY <1>6
<1> QED BY <1>3, <1>4, <1>5, <1>6, <1>7

\* Every rule answers under its own name.
LEMMA RulesAreNamed == ASSUME NEW c, NEW r \in Results(c) PROVE r.rule \in RuleNames
<1>1. \A n : /\ \A s : Stop(n, s).rule = n
             /\ \A t : Defer(n, t).rule = n
             /\ \A w : Degrade(n, w).rule = n
             /\ Proceed(n).rule = n
  BY DEF Stop, Defer, Degrade, Proceed
<1>2. \A n \in {"S-12", "S-01", "S-07", "S-06", "S-02", "S-11", "S-05", "S-08",
                "S-10", "S-04", "S-09", "S-03"} : n \in RuleNames
  BY DEF Authority, RuleNames
<1>3. /\ S01(c).rule = "S-01" /\ S02(c).rule = "S-02" /\ S03(c).rule = "S-03"
      /\ S04(c).rule = "S-04" /\ S05(c).rule = "S-05" /\ S06(c).rule = "S-06"
      /\ S07(c).rule = "S-07" /\ S08(c).rule = "S-08" /\ S09(c).rule = "S-09"
      /\ S10(c).rule = "S-10" /\ S11(c).rule = "S-11" /\ S12(c).rule = "S-12"
  BY <1>1 DEF S01, S02, S03, S04, S05, S06, S07, S08, S09, S10, S11, S12
<1> QED BY <1>2, <1>3 DEF Results

\* The rule that is named for an answer is one that gave it.
LEMMA BlockingIsNamed ==
  ASSUME NEW c, NEW d, d # "PROCEED", NEW q \in Results(c), q.decision = d
  PROVE  /\ BlockingRule(Results(c), d) \in RuleNames
         /\ \E r \in Results(c) : r.rule = BlockingRule(Results(c), d)
<1> DEFINE results == Results(c)
           who == {i \in DOMAIN Authority :
                     \E r \in results : r.rule = Authority[i] /\ r.decision = d}
<1>1. q.rule \in RuleNames
  BY RulesAreNamed
<1>2. who # {} /\ who \subseteq 1 .. 12
  <2>1. DOMAIN Authority = 1 .. 12
    BY DEF Authority
  <2> QED BY <1>1, <2>1 DEF RuleNames
<1>3. \E i \in who : \A j \in who : i <= j
  <2> HIDE DEF who
  <2> QED BY <1>2, LeastOfTwelve
<1>4. PICK i \in who : BlockingRule(results, d) = Authority[i]
  <2>1. BlockingRule(results, d) = Authority[CHOOSE i \in who : \A j \in who : i <= j]
    BY DEF BlockingRule
  <2> HIDE DEF who
  <2> QED BY <1>3, <2>1
<1> QED BY <1>4 DEF RuleNames

\* A verdict names one of the twelve rules, or none.
LEMMA VerdictIsNamed == ASSUME NEW c PROVE Evaluate(c).rule \in RuleNames \cup {None}
<1> DEFINE results == Results(c)
           worst == Worst(results)
           until == LatestHold(results)
           reduce == Degradations(results)
           left == IF reduce # {} THEN "DEGRADE" ELSE "PROCEED"
<1>1. BlockingRule(results, worst) \in RuleNames \cup {None}
  <2>1. CASE worst = "PROCEED"
    BY <2>1 DEF BlockingRule
  <2>2. CASE worst # "PROCEED"
    BY <2>2, WorstIsGiven, BlockingIsNamed
  <2> QED BY <2>1, <2>2
<1>2. BlockingRule(results, left) \in RuleNames \cup {None}
  <2>1. CASE reduce = {}
    BY <2>1 DEF BlockingRule
  <2>2. CASE reduce # {}
    <3>1. PICK r \in results : r.degrade # {}
      BY <2>2 DEF Degradations
    <3>2. r.decision = "DEGRADE"
      <4>1. \A n : /\ \A s : Stop(n, s).degrade = {}
                   /\ \A t : Defer(n, t).degrade = {}
                   /\ \A w : Degrade(n, w).decision = "DEGRADE"
                   /\ Proceed(n).degrade = {}
        BY DEF Stop, Defer, Degrade, Proceed
      <4>2. \A x \in results : x.degrade = {} \/ x.decision = "DEGRADE"
        BY <4>1 DEF Results, S01, S02, S03, S04, S05, S06, S07, S08, S09, S10, S11, S12
      <4> QED BY <3>1, <4>2
    <3> QED BY <2>2, <3>2, BlockingIsNamed
  <2> QED BY <2>1, <2>2
<1>3. Evaluate(c).rule \in {BlockingRule(results, worst), BlockingRule(results, left), "S-06"}
  BY DEF Evaluate
<1>4. "S-06" \in RuleNames
  BY DEF RuleNames, Authority
<1> QED BY <1>1, <1>2, <1>3, <1>4

\* A case that is neither paid nor settled is stopped as expired or suppressed.
LEMMA StopsWithStatus ==
  ASSUME NEW c, c.order_status # "paid",
         c.case_status \notin {"RECOVERED", "RESOLVED_ORGANIC"},
         Evaluate(c).decision = "STOP"
  PROVE  Evaluate(c).status \in {None, "EXPIRED", "SUPPRESSED"}
<1> DEFINE results == Results(c)
           worst == Worst(results)
           rule == BlockingRule(results, worst)
<1>1. \A n : /\ \A s : Stop(n, s).status = s
             /\ \A t : Defer(n, t).status = None
             /\ \A w : Degrade(n, w).status = None
             /\ Proceed(n).status = None
  BY DEF Stop, Defer, Degrade, Proceed
<1>2. \A r \in results : r.status \in {None, "EXPIRED", "SUPPRESSED"}
  BY <1>1 DEF Results, S01, S02, S03, S04, S05, S06, S07, S08, S09, S10, S11, S12
<1>3. CASE worst = "STOP"
  <2>1. \E r \in results : r.rule = rule
    BY <1>3, WorstIsGiven, BlockingIsNamed
  <2>2. (CHOOSE r \in results : r.rule = rule) \in results
    <3> HIDE DEF results, rule
    <3> QED BY <2>1
  <2>3. Evaluate(c).status = (CHOOSE r \in results : r.rule = rule).status
    BY <1>3 DEF Evaluate
  <2> QED BY <1>2, <2>2, <2>3
<1>4. CASE worst # "STOP"
  <2>1. worst \in Decisions
    BY WorstIsGiven
  <2> HIDE DEF worst
  <2> QED BY <1>4, <2>1 DEF Evaluate, Decisions, worst
<1> QED BY <1>3, <1>4

\* Where no contact and no promise is known, a hold is that of the quiet hours.
LEMMA HoldsAreQuietHours ==
  ASSUME NEW c, c.now \in Int, c.last_contact = None, c.promised_at = None,
         Evaluate(c).decision = "DEFER"
  PROVE  Evaluate(c).until \in Int
<1> DEFINE results == Results(c)
           holds == {r.until : r \in {h \in results : h.decision = "DEFER"}}
<1>1. Worst(results) = "DEFER" /\ Evaluate(c).until = LatestHold(results)
  BY DEF Evaluate
<1>2. /\ \A n : Proceed(n).decision = "PROCEED" /\ Proceed(n).until = None
      /\ \A n, s : Stop(n, s).decision = "STOP"
      /\ \A n, w : Degrade(n, w).decision = "DEGRADE"
      /\ \A n, t : Defer(n, t).decision = "DEFER" /\ Defer(n, t).until = t
  BY DEF Proceed, Stop, Degrade, Defer
<1>3. \A r \in results : r.decision = "DEFER" => r.until = Release(c.now)
  <2>1. /\ S01(c).decision # "DEFER" /\ S02(c).decision # "DEFER"
        /\ S03(c).decision # "DEFER" /\ S05(c).decision # "DEFER"
        /\ S06(c).decision # "DEFER" /\ S07(c).decision # "DEFER"
        /\ S08(c).decision # "DEFER" /\ S11(c).decision # "DEFER"
        /\ S12(c).decision # "DEFER"
    BY <1>2 DEF S01, S02, S03, S05, S06, S07, S08, S11, S12
  <2>2. S04(c).decision # "DEFER" /\ S10(c).decision # "DEFER"
    BY <1>2 DEF S04, S10
  <2>3. S09(c).decision = "DEFER" => S09(c).until = Release(c.now)
    BY <1>2 DEF S09
  <2> QED BY <2>1, <2>2, <2>3 DEF Results
<1>4. PICK q \in results : q.decision = "DEFER"
  BY <1>1, WorstIsGiven
<1>5. holds = {Release(c.now)}
  BY <1>3, <1>4
<1>6. Release(c.now) \in Int
  BY PolicyLimitsOK DEF Release
<1>7. LatestHold(results) = CHOOSE t \in holds : \A u \in holds : u <= t
  BY DEF LatestHold
<1> HIDE DEF holds
<1>8. LatestHold(results) = Release(c.now)
  BY <1>5, <1>6, <1>7
<1> QED BY <1>1, <1>6, <1>8

-----------------------------------------------------------------------------
(* Quiet hours.                                                            *)

\* Counting on within a day adds to the hour of the day.
LEMMA SameDay ==
  ASSUME NEW D \in Nat \ {0}, NEW t \in Int, NEW d \in Nat, (t % D) + d < D
  PROVE  (t + d) % D = (t % D) + d
OBVIOUS

\* The hours of the next day.
LEMMA NextDay ==
  ASSUME NEW D \in Nat \ {0}, NEW t \in Int, NEW h \in 0 .. D - 1
  PROVE  (t - (t % D) + D + h) % D = h
<1>1. t - (t % D) + D + h = D * ((t \div D) + 1) + h
  OBVIOUS
<1>2. ASSUME NEW q \in Int PROVE (D * q + h) % D = h
  OBVIOUS
<1>3. (t \div D) + 1 \in Int
  OBVIOUS
<1> QED BY <1>1, <1>2, <1>3

\* A message held for quiet hours is held to their end, and not a moment longer.
LEMMA QuietUntilRelease ==
  ASSUME PolicyLimitsOK, NEW t \in Int, InQuietHours(t)
  PROVE  /\ Release(t) \in Int /\ Release(t) > t /\ ~InQuietHours(Release(t))
         /\ \A u \in t .. Release(t) - 1 : InQuietHours(u)
<1> DEFINE h == t % Day
           a == quiet_hours_start
           b == quiet_hours_end
<1>1. /\ Day \in Nat \ {0} /\ h \in 0 .. Day - 1 /\ a \in 0 .. Day - 1 /\ b \in 0 .. Day - 1
  BY DEF PolicyLimitsOK
<1>2. Release(t) = IF h < b THEN t + (b - h) ELSE t + (Day - h) + b
  <2> HIDE DEF h
  <2>1. Release(t) = LET today == t - h + b IN IF today > t THEN today ELSE today + Day
    BY DEF Release, h
  <2> QED BY <1>1, <2>1
<1>3. Release(t) \in Int /\ Release(t) > t
  <2> HIDE DEF h
  <2> QED BY <1>1, <1>2
<1>4. Release(t) % Day = b
  <2>1. CASE h < b
    <3>1. b - h \in Nat /\ h + (b - h) < Day
      <4> HIDE DEF h
      <4> QED BY <1>1, <2>1
    <3>2. (t + (b - h)) % Day = h + (b - h)
      BY <1>1, <3>1, SameDay
    <3>3. h + (b - h) = b
      <4> HIDE DEF h
      <4> QED BY <1>1
    <3> HIDE DEF h
    <3> QED BY <1>2, <2>1, <3>2, <3>3
  <2>2. CASE ~(h < b)
    <3>1. (t - h + Day + b) % Day = b
      BY <1>1, NextDay
    <3>2. t + (Day - h) + b = t - h + Day + b
      <4> HIDE DEF h
      <4> QED BY <1>1
    <3> HIDE DEF h
    <3> QED BY <1>2, <2>2, <3>1, <3>2
  <2> QED BY <2>1, <2>2
<1>5. ~InQuietHours(Release(t))
  <2> HIDE DEF h
  <2> QED BY <1>1, <1>4 DEF InQuietHours
<1>6. ASSUME NEW u \in t .. Release(t) - 1 PROVE InQuietHours(u)
  <2>1. u \in Int /\ u >= t
    BY <1>3
  <2>2. CASE u - t < Day - h
    <3>1. (t + (u - t)) % Day = h + (u - t)
      <4>1. u - t \in Nat /\ h + (u - t) < Day
        <5> HIDE DEF h
        <5> QED BY <1>1, <2>1, <2>2
      <4> QED BY <1>1, <4>1, SameDay
    <3>2. t + (u - t) = u
      BY <2>1
    <3>3. u % Day = h + (u - t) /\ h + (u - t) >= h
      <4> HIDE DEF h
      <4> QED BY <1>1, <2>1, <3>1, <3>2
    <3>4. h < b => u % Day < b
      <4> HIDE DEF h
      <4> QED BY <1>1, <1>2, <2>1, <3>3
    <3>5. InQuietHours(t)
      OBVIOUS
    <3>6. u % Day \in Int
      BY <1>1, <2>1
    <3>7. a # b /\ (IF a > b THEN h >= a \/ h < b ELSE h >= a /\ h < b)
      BY <3>5 DEF InQuietHours
    <3>8. IF a > b THEN u % Day >= a \/ u % Day < b ELSE u % Day >= a /\ u % Day < b
      <4> HIDE DEF h
      <4> QED BY <1>1, <3>3, <3>4, <3>6, <3>7
    <3> QED BY <3>7, <3>8 DEF InQuietHours
  <2>3. CASE ~(u - t < Day - h)
    <3> DEFINE e == u - t - (Day - h)
    <3>1. ~(h < b) /\ e \in 0 .. b - 1
      <4> HIDE DEF h
      <4> QED BY <1>1, <1>2, <1>3, <2>1, <2>3
    <3>2. (t - h + Day + e) % Day = e
      <4>1. e \in 0 .. Day - 1
        BY <1>1, <3>1
      <4> HIDE DEF e
      <4> QED BY <1>1, <4>1, NextDay
    <3>3. t - h + Day + e = u
      <4> HIDE DEF h
      <4> QED BY <1>1, <2>1
    <3>4. u % Day = e
      BY <3>2, <3>3
    <3>5. a # b /\ (IF a > b THEN h >= a \/ h < b ELSE h >= a /\ h < b)
      BY DEF InQuietHours
    <3>6. a > b
      <4> HIDE DEF h
      <4> QED BY <1>1, <3>1, <3>5
    <3> HIDE DEF e
    <3> QED BY <1>1, <3>1, <3>4, <3>5, <3>6 DEF InQuietHours
  <2> QED BY <2>2, <2>3
<1> QED BY <1>3, <1>5, <1>6

-----------------------------------------------------------------------------
(* Holds.                                                                  *)

\* The times in a context are hours, if they are known.
Timed(c) ==
  /\ c.now \in Int /\ c.window \in Int \cup {None} /\ c.last_contact \in Int \cup {None}
  /\ c.promised_at \in Int \cup {None}

CapIsReached(c) == c.outbound /\ ~(c.contacts_24h < max_contacts_24h)

CapHolds(c)     == CapIsReached(c) /\ c.last_contact # None /\ c.now < c.last_contact + Day
QuietHolds(c)   == c.outbound /\ InQuietHours(c.now)
PromiseHolds(c) == c.promise_active /\ c.promised_at # None
                   /\ c.now < c.promised_at + promise_freeze_h

\* When the holds of a context end.
Ends(c) ==
  {t \in Int : \/ CapHolds(c) /\ t = c.last_contact + Day
               \/ QuietHolds(c) /\ t = Release(c.now)
               \/ PromiseHolds(c) /\ t = c.promised_at + promise_freeze_h}

NobodyStops(c) == \A r \in Results(c) : r.decision # "STOP"

\* Three rules defer, each until the end of its own hold.
LEMMA EndsAreTheHolds ==
  ASSUME PolicyLimitsOK, NEW c, Timed(c), NobodyStops(c)
  PROVE  /\ {r.until : r \in {h \in Results(c) : h.decision = "DEFER"}} = Ends(c)
         /\ (\E r \in Results(c) : r.decision = "DEFER") <=> Ends(c) # {}
<1> DEFINE holds == {r.until : r \in {h \in Results(c) : h.decision = "DEFER"}}
<1>1. /\ \A n : Proceed(n).decision = "PROCEED"
      /\ \A n, s : Stop(n, s).decision = "STOP"
      /\ \A n, w : Degrade(n, w).decision = "DEGRADE"
      /\ \A n, t : Defer(n, t).decision = "DEFER" /\ Defer(n, t).until = t
  BY DEF Proceed, Stop, Degrade, Defer
<1>2. \A r \in Results(c) : r.decision = "DEFER" => r \in {S04(c), S09(c), S10(c)}
  <2>1. /\ S01(c).decision # "DEFER" /\ S02(c).decision # "DEFER"
        /\ S03(c).decision # "DEFER" /\ S05(c).decision # "DEFER"
        /\ S06(c).decision # "DEFER" /\ S07(c).decision # "DEFER"
        /\ S08(c).decision # "DEFER" /\ S11(c).decision # "DEFER"
        /\ S12(c).decision # "DEFER"
    BY <1>1 DEF S01, S02, S03, S05, S06, S07, S08, S11, S12
  <2> QED BY <2>1 DEF Results
<1>3. /\ S04(c).decision = "DEFER" <=> CapHolds(c)
      /\ CapHolds(c) => S04(c).until = c.last_contact + Day /\ c.last_contact + Day \in Int
  <2>1. Day \in Int
    BY DEF PolicyLimitsOK
  <2> QED BY <1>1, <2>1 DEF S04, CapHolds, CapIsReached, Timed
<1>4. /\ S09(c).decision = "DEFER" <=> QuietHolds(c)
      /\ QuietHolds(c) => S09(c).until = Release(c.now) /\ Release(c.now) \in Int
  <2>1. InQuietHours(c.now) => Release(c.now) \in Int
    BY QuietUntilRelease DEF Timed
  <2> QED BY <1>1, <2>1 DEF S09, QuietHolds
<1>5. /\ S10(c).decision = "DEFER" <=> PromiseHolds(c)
      /\ PromiseHolds(c) => /\ S10(c).until = c.promised_at + promise_freeze_h
                            /\ c.promised_at + promise_freeze_h \in Int
  <2>1. promise_freeze_h \in Int
    BY DEF PolicyLimitsOK
  <2> QED BY <1>1, <2>1 DEF S10, PromiseHolds, Timed
<1>6. S04(c) \in Results(c) /\ S09(c) \in Results(c) /\ S10(c) \in Results(c)
  BY DEF Results
<1>7. holds \subseteq Ends(c)
  BY <1>2, <1>3, <1>4, <1>5 DEF Ends
<1>8. \A t \in Ends(c) : \E r \in Results(c) : r.decision = "DEFER" /\ r.until = t
  BY <1>3, <1>4, <1>5, <1>6 DEF Ends
<1> QED BY <1>7, <1>8

\* Every hold ends later than now, and of some holds one is the last.
LEMMA EndsLieAhead ==
  ASSUME PolicyLimitsOK, NEW c, Timed(c)
  PROVE  /\ \A t \in Ends(c) : t \in Int /\ t > c.now
         /\ Ends(c) # {} => \E t \in Ends(c) : \A u \in Ends(c) : u <= t
<1>1. \A t \in Ends(c) : t \in Int /\ t > c.now
  <2>1. QuietHolds(c) => Release(c.now) > c.now
    BY QuietUntilRelease DEF QuietHolds, Timed
  <2>2. CapHolds(c) => c.last_contact + Day > c.now
    BY DEF CapHolds, Timed, PolicyLimitsOK
  <2>3. PromiseHolds(c) => c.promised_at + promise_freeze_h > c.now
    BY DEF PromiseHolds, Timed, PolicyLimitsOK
  <2> QED BY <2>1, <2>2, <2>3 DEF Ends
<1>2. ASSUME Ends(c) # {} PROVE \E t \in Ends(c) : \A u \in Ends(c) : u <= t
  <2> DEFINE x == c.last_contact + Day
             y == Release(c.now)
             z == c.promised_at + promise_freeze_h
  <2>1. Ends(c) \subseteq {x, y, z} /\ Ends(c) \subseteq Int
    BY DEF Ends
  <2> HIDE DEF x, y, z
  <2>2. \A u, v \in Ends(c) : u <= v \/ v <= u
    BY <2>1
  <2> QED BY <1>2, <2>1, <2>2
<1> QED BY <1>1, <1>2

\* What evaluate() makes of the holds when no rule stops: with none the action may
\* go out; otherwise it waits for the last, or the case expires before that.
LEMMA LastHoldCounts ==
  ASSUME PolicyLimitsOK, NEW c, Timed(c), NobodyStops(c)
  PROVE  /\ Ends(c) = {} => MayAct(Evaluate(c))
         /\ \A m \in Ends(c) :
              (\A u \in Ends(c) : u <= m) =>
                IF c.window # None /\ m >= c.window
                THEN Evaluate(c).decision = "STOP" /\ Evaluate(c).rule = "S-06"
                ELSE Evaluate(c).decision = "DEFER" /\ Evaluate(c).until = m
<1> DEFINE results == Results(c)
           worst == Worst(results)
<1>1. worst \in Decisions /\ worst # "STOP"
  BY WorstIsGiven DEF NobodyStops
<1>2. ASSUME Ends(c) = {} PROVE MayAct(Evaluate(c))
  <2>1. worst # "DEFER"
    BY <1>2, WorstIsGiven, EndsAreTheHolds
  <2>2. Evaluate(c).decision = worst
    BY <1>1, <2>1 DEF Evaluate
  <2> HIDE DEF worst
  <2> QED BY <1>1, <2>1, <2>2 DEF MayAct, Decisions
<1>3. ASSUME NEW m \in Ends(c), \A u \in Ends(c) : u <= m
      PROVE  IF c.window # None /\ m >= c.window
             THEN Evaluate(c).decision = "STOP" /\ Evaluate(c).rule = "S-06"
             ELSE Evaluate(c).decision = "DEFER" /\ Evaluate(c).until = m
  <2>1. worst = "DEFER"
    <3>1. PICK q \in results : q.decision = "DEFER"
      BY <1>3, EndsAreTheHolds
    <3>2. Severity["DEFER"] <= Severity[worst]
      BY <3>1, WorstIsGiven
    <3>3. Severity["DEFER"] = 2 /\ Severity["DEGRADE"] = 1 /\ Severity["PROCEED"] = 0
      BY DEF Severity
    <3> HIDE DEF worst
    <3> QED BY <1>1, <3>2, <3>3 DEF Decisions
  <2>2. LatestHold(results) = m
    <3>1. LatestHold(results) = CHOOSE t \in Ends(c) : \A u \in Ends(c) : u <= t
      BY EndsAreTheHolds DEF LatestHold
    <3>2. \A t \in Ends(c) : t \in Int
      BY EndsLieAhead
    <3>3. \A t \in Ends(c) : (\A u \in Ends(c) : u <= t) => t = m
      BY <1>3, <3>2
    <3> QED BY <1>3, <3>1, <3>3
  <2>3. ~(m <= c.now)
    BY EndsLieAhead DEF Timed
  <2> DEFINE verdict == [decision |-> worst, rule |-> BlockingRule(results, worst),
                         status |-> None, until |-> None, degrade |-> Degradations(results)]
  <2>4. Evaluate(c) = IF c.window # None /\ m >= c.window
                      THEN [verdict EXCEPT !.decision = "STOP", !.rule = "S-06",
                                           !.status = "EXPIRED"]
                      ELSE [verdict EXCEPT !.until = m]
    BY <2>1, <2>2, <2>3 DEF Evaluate
  <2> HIDE DEF worst, results
  <2> QED BY <2>1, <2>4
<1> QED BY <1>2, <1>3

\* Time alone makes no rule stop an action, as long as the window is open.
SameButNow(c, d) ==
  /\ d.order_status = c.order_status /\ d.case_status = c.case_status
  /\ d.attempt_no = c.attempt_no /\ d.discount_attempts = c.discount_attempts
  /\ d.opted_out = c.opted_out /\ d.dnd = c.dnd /\ d.marketing = c.marketing
  /\ d.transactional = c.transactional /\ d.contacts_24h = c.contacts_24h
  /\ d.contacts_48h = c.contacts_48h /\ d.last_contact = c.last_contact
  /\ d.promise_active = c.promise_active /\ d.promised_at = c.promised_at
  /\ d.autopilot = c.autopilot /\ d.actions_today = c.actions_today
  /\ d.exposure = c.exposure /\ d.class = c.class /\ d.outbound = c.outbound
  /\ d.window = c.window /\ d.discount = c.discount

LEMMA TimeStopsNothing ==
  ASSUME NEW c, NEW d, Timed(d), NobodyStops(c), SameButNow(c, d),
         c.window # None => d.now < c.window
  PROVE  NobodyStops(d)
<1>1. /\ \A n : Proceed(n).decision = "PROCEED"
      /\ \A n, s : Stop(n, s).decision = "STOP"
      /\ \A n, w : Degrade(n, w).decision = "DEGRADE"
      /\ \A n, t : Defer(n, t).decision = "DEFER"
  BY DEF Proceed, Stop, Degrade, Defer
<1>2. /\ S01(d) = S01(c) /\ S02(d) = S02(c) /\ S03(d) = S03(c) /\ S05(d) = S05(c)
      /\ S07(d) = S07(c) /\ S08(d) = S08(c) /\ S11(d) = S11(c) /\ S12(d) = S12(c)
  BY DEF SameButNow, S01, S02, S03, S05, S07, S08, OfferWithoutConsent, S11, S12
<1>3. S06(d).decision # "STOP"
  BY <1>1 DEF S06, SameButNow, Timed
<1>4. S04(d).decision # "STOP"
  <2>1. S04(c).decision # "STOP"
    BY DEF NobodyStops, Results
  <2> QED BY <1>1, <2>1 DEF S04, SameButNow
<1>5. S09(d).decision # "STOP" /\ S10(d).decision # "STOP"
  BY <1>1 DEF S09, S10
<1> QED BY <1>2, <1>3, <1>4, <1>5 DEF NobodyStops, Results

\* A hold is the last of those in force, and it ends within the window.
LEMMA HeldUntilTheLastEnd ==
  ASSUME PolicyLimitsOK, NEW c, Timed(c), Evaluate(c).decision = "DEFER"
  PROVE  /\ NobodyStops(c)
         /\ Evaluate(c).until \in Ends(c) /\ Evaluate(c).until \in Int
         /\ \A u \in Ends(c) : u <= Evaluate(c).until
         /\ c.window # None => Evaluate(c).until < c.window
<1>1. NobodyStops(c)
  BY OneStopStops DEF NobodyStops
<1>2. Ends(c) # {}
  BY <1>1, LastHoldCounts DEF MayAct
<1>3. PICK m \in Ends(c) : \A u \in Ends(c) : u <= m
  BY <1>2, EndsLieAhead
<1>4. Evaluate(c).until = m /\ (c.window # None => ~(m >= c.window))
  BY <1>1, <1>3, LastHoldCounts
<1>5. m \in Int
  BY <1>3 DEF Ends
<1> QED BY <1>1, <1>3, <1>4, <1>5 DEF Timed

-----------------------------------------------------------------------------
(* Bad news.                                                               *)

\* Nothing speaks for sending under d that did not under c: at the same hour every
\* limit that c has reached d has reached too, and no consent has been added.
NoBetter(d, c) ==
  /\ d.now = c.now /\ d.window = c.window /\ d.last_contact = c.last_contact
  /\ d.promised_at = c.promised_at /\ (c.promise_active => d.promise_active)
  /\ d.class = c.class /\ d.discount = c.discount /\ d.outbound = c.outbound
  /\ c.order_status = "paid" => d.order_status = "paid"
  /\ c.case_status \in {"RECOVERED", "RESOLVED_ORGANIC"} =>
       d.case_status \in {"RECOVERED", "RESOLVED_ORGANIC"}
  /\ (c.opted_out => d.opted_out) /\ (c.dnd => d.dnd)
  /\ (d.marketing => c.marketing) /\ (d.transactional => c.transactional)
  /\ d.autopilot => c.autopilot
  /\ c.attempt_no >= max_attempts_per_case => d.attempt_no >= max_attempts_per_case
  /\ c.discount_attempts >= max_discount_bearing_attempts =>
       d.discount_attempts >= max_discount_bearing_attempts
  /\ d.contacts_24h < max_contacts_24h => c.contacts_24h < max_contacts_24h
  /\ c.contacts_48h >= max_contacts_48h => d.contacts_48h >= max_contacts_48h
  /\ c.actions_today >= daily_action_budget => d.actions_today >= daily_action_budget
  /\ c.exposure >= monthly_discount_exposure => d.exposure >= monthly_discount_exposure

\* Where no rule stops under d, each rule asks under c for no more than under d.
LEMMA RulesAskNoLess ==
  ASSUME NEW c, NEW d, NoBetter(d, c), NobodyStops(d)
  PROVE  /\ NobodyStops(c)
         /\ \A r \in Results(c) : r.decision = "DEGRADE" =>
              \E q \in Results(d) : q.decision = "DEGRADE"
<1>1. /\ \A n : Proceed(n).decision = "PROCEED"
      /\ \A n, s : Stop(n, s).decision = "STOP"
      /\ \A n, w : Degrade(n, w).decision = "DEGRADE"
      /\ \A n, t : Defer(n, t).decision = "DEFER"
  BY DEF Proceed, Stop, Degrade, Defer
<1>2. /\ S01(d).decision # "STOP" /\ S02(d).decision # "STOP" /\ S04(d).decision # "STOP"
      /\ S05(d).decision # "STOP" /\ S06(d).decision # "STOP" /\ S07(d).decision # "STOP"
      /\ S08(d).decision # "STOP" /\ S11(d).decision # "STOP" /\ S12(d).decision # "STOP"
  BY DEF NobodyStops, Results
<1>3. S01(c).decision # "STOP" /\ S02(c).decision # "STOP" /\ S05(c).decision # "STOP"
  BY <1>1, <1>2 DEF NoBetter, S01, S02, S05
<1>4. S04(c).decision # "STOP"
  BY <1>1, <1>2 DEF NoBetter, S04
<1>5. S06(c).decision # "STOP" /\ S07(c).decision # "STOP"
  BY <1>1, <1>2 DEF NoBetter, S06, S07
<1>6. S08(c).decision # "STOP"
  BY <1>1, <1>2 DEF NoBetter, S08
<1>7. S11(c).decision # "STOP" /\ S12(c).decision # "STOP"
  BY <1>1, <1>2 DEF NoBetter, S11, S12
<1>8. /\ S03(c).decision # "STOP" /\ S09(c).decision # "STOP" /\ S10(c).decision # "STOP"
      /\ \A r \in Results(c) : r.decision = "DEGRADE" => r = S03(c) \/ r = S08(c)
  BY <1>1 DEF Results, S01, S02, S03, S04, S05, S06, S07, S08, S09, S10, S11, S12
<1>9. S03(c).decision = "DEGRADE" => S03(d).decision = "DEGRADE"
  BY <1>1 DEF NoBetter, S03
<1>10. S08(c).decision = "DEGRADE" => S08(d).decision = "DEGRADE"
  <2>1. S08(c).decision = "DEGRADE" => c.outbound /\ OfferWithoutConsent(c)
    BY <1>1 DEF S08
  <2>2. OfferWithoutConsent(c) => OfferWithoutConsent(d)
    BY DEF NoBetter, OfferWithoutConsent
  <2>3. d.outbound /\ OfferWithoutConsent(d) => S08(d).decision \in {"STOP", "DEGRADE"}
    BY <1>1 DEF S08
  <2> QED BY <1>2, <2>1, <2>2, <2>3 DEF NoBetter
<1>11. NobodyStops(c)
  BY <1>3, <1>4, <1>5, <1>6, <1>7, <1>8 DEF NobodyStops, Results
<1>12. S03(d) \in Results(d) /\ S08(d) \in Results(d)
  BY DEF Results
<1> QED BY <1>8, <1>9, <1>10, <1>11, <1>12

\* Every hold in force under c is in force under d, until the same hour.
LEMMA HoldsStay ==
  ASSUME NEW c, NEW d, NoBetter(d, c)
  PROVE  Ends(c) \subseteq Ends(d)
<1>1. CapHolds(c) => CapHolds(d)
  BY DEF NoBetter, CapHolds, CapIsReached
<1>2. QuietHolds(c) => QuietHolds(d)
  BY DEF NoBetter, QuietHolds
<1>3. PromiseHolds(c) => PromiseHolds(d)
  BY DEF NoBetter, PromiseHolds
<1> QED BY <1>1, <1>2, <1>3 DEF NoBetter, Ends

\* The answer is one of the four.
LEMMA EvaluateDecides ==
  ASSUME NEW c PROVE Evaluate(c).decision \in Decisions
<1> DEFINE worst == Worst(Results(c))
<1>1. worst \in Decisions
  BY WorstIsGiven
<1>2. Evaluate(c).decision \in {worst, "PROCEED", "DEGRADE", "STOP"}
  BY DEF Evaluate
<1> QED BY <1>1, <1>2 DEF Decisions

\* Where no rule stops and nothing holds, the answer is DEGRADE if a rule reduces
\* the action, and PROCEED if none does.
LEMMA FreeAnswer ==
  ASSUME PolicyLimitsOK, NEW c, Timed(c), NobodyStops(c), Ends(c) = {}
  PROVE  /\ Evaluate(c).decision \in {"PROCEED", "DEGRADE"}
         /\ Evaluate(c).decision = "DEGRADE" <=>
              \E r \in Results(c) : r.decision = "DEGRADE"
<1> DEFINE worst == Worst(Results(c))
<1>1. /\ worst \in Decisions /\ (\E r \in Results(c) : r.decision = worst)
      /\ \A r \in Results(c) : Severity[r.decision] <= Severity[worst]
  BY WorstIsGiven
<1>2. worst # "STOP" /\ worst # "DEFER"
  BY <1>1, EndsAreTheHolds DEF NobodyStops
<1>3. Evaluate(c).decision = worst
  BY <1>2 DEF Evaluate
<1> HIDE DEF worst
<1>4. Severity["DEGRADE"] = 1 /\ Severity["PROCEED"] = 0
  BY DEF Severity
<1> QED BY <1>1, <1>2, <1>3, <1>4 DEF Decisions

\* Where no rule stops under d, what is reduced under c is reduced under d.
LEMMA ReductionsStay ==
  ASSUME NEW c, NEW d, NoBetter(d, c), NobodyStops(d)
  PROVE  Evaluate(c).degrade \subseteq Evaluate(d).degrade
<1>1. /\ \A n : Proceed(n).degrade = {} /\ Proceed(n).decision = "PROCEED"
      /\ \A n, s : Stop(n, s).degrade = {} /\ Stop(n, s).decision = "STOP"
      /\ \A n, w : Degrade(n, w).degrade = w
      /\ \A n, t : Defer(n, t).degrade = {}
  BY DEF Proceed, Stop, Degrade, Defer
<1>2. \A r \in Results(c) : r.degrade = {} \/ r = S03(c) \/ r = S08(c)
  BY <1>1 DEF Results, S01, S02, S04, S05, S06, S07, S09, S10, S11, S12
<1>3. S03(c).degrade \subseteq S03(d).degrade
  BY <1>1 DEF NoBetter, S03
<1>4. S08(c).degrade \subseteq S08(d).degrade
  <2>1. S08(c).degrade = {} \/ (c.outbound /\ OfferWithoutConsent(c)
                                /\ S08(c).degrade = {"class", "discount"})
    BY <1>1 DEF S08
  <2>2. OfferWithoutConsent(c) => OfferWithoutConsent(d)
    BY DEF NoBetter, OfferWithoutConsent
  <2>3. S08(d).decision # "STOP"
    BY DEF NobodyStops, Results
  <2>4. d.outbound /\ OfferWithoutConsent(d) => S08(d).degrade = {"class", "discount"}
    BY <1>1, <2>3 DEF S08
  <2> QED BY <2>1, <2>2, <2>4 DEF NoBetter
<1>5. S03(d) \in Results(d) /\ S08(d) \in Results(d)
  BY DEF Results
<1>6. S03(d).degrade \cup S08(d).degrade \subseteq Evaluate(d).degrade
  BY <1>5, ReductionsStand
<1>7. \A r \in Results(c) : r.degrade \subseteq Evaluate(d).degrade
  BY <1>2, <1>3, <1>4, <1>6
<1>8. Evaluate(c).degrade = Degradations(Results(c))
  BY DEF Evaluate
<1> QED BY <1>7, <1>8 DEF Degradations

\* evaluate() is monotone: bad news never turns a stop or a hold into leave to send
\* and never ends a hold sooner; and, short of a stop, whatever was to be reduced of
\* the action, its discount or its class, stays reduced.
THEOREM BadNewsNeverHelps ==
  ASSUME NEW c, NEW d, Timed(c), NoBetter(d, c)
  PROVE  /\ Severity[Evaluate(c).decision] <= Severity[Evaluate(d).decision]
         /\ Evaluate(c).decision = "DEFER" /\ Evaluate(d).decision = "DEFER" =>
              Evaluate(c).until <= Evaluate(d).until
         /\ Evaluate(d).decision # "STOP" => Evaluate(c).degrade \subseteq Evaluate(d).degrade
<1>0. PolicyLimitsOK /\ Timed(d)
  BY PolicyLimitsOK DEF NoBetter, Timed
<1>1. /\ Severity["STOP"] = 3 /\ Severity["DEFER"] = 2
      /\ Severity["DEGRADE"] = 1 /\ Severity["PROCEED"] = 0
  BY DEF Severity
<1>2. Evaluate(c).decision \in Decisions
  BY <1>0, EvaluateDecides
<1>3. Evaluate(d).decision # "STOP" => Evaluate(c).degrade \subseteq Evaluate(d).degrade
  BY OneStopStops, ReductionsStay DEF NobodyStops
<1>4. SUFFICES /\ Severity[Evaluate(c).decision] <= Severity[Evaluate(d).decision]
               /\ Evaluate(c).decision = "DEFER" /\ Evaluate(d).decision = "DEFER" =>
                    Evaluate(c).until <= Evaluate(d).until
  BY <1>3
<1>5. CASE ~NobodyStops(d)
  <2>1. Evaluate(d).decision = "STOP"
    BY <1>5, OneStopStops DEF NobodyStops
  <2> QED BY <1>1, <1>2, <2>1 DEF Decisions
<1>6. CASE NobodyStops(d) /\ Ends(d) = {}
  <2>1. NobodyStops(c) /\ Ends(c) = {}
    BY <1>6, RulesAskNoLess, HoldsStay
  <2>2. Evaluate(c).decision = "DEGRADE" => Evaluate(d).decision = "DEGRADE"
    BY <1>0, <1>6, <2>1, FreeAnswer, RulesAskNoLess
  <2>3. /\ Evaluate(c).decision \in {"PROCEED", "DEGRADE"}
        /\ Evaluate(d).decision \in {"PROCEED", "DEGRADE"}
    BY <1>0, <1>6, <2>1, FreeAnswer
  <2> QED BY <1>1, <2>2, <2>3
<1>7. CASE NobodyStops(d) /\ Ends(d) # {}
  <2>1. PICK m \in Ends(d) : \A u \in Ends(d) : u <= m
    BY <1>0, <1>7, EndsLieAhead
  <2>2. /\ m \in Int
        /\ IF d.window # None /\ m >= d.window
           THEN Evaluate(d).decision = "STOP"
           ELSE Evaluate(d).decision = "DEFER" /\ Evaluate(d).until = m
    BY <1>0, <1>7, <2>1, LastHoldCounts, EndsLieAhead
  <2>3. NobodyStops(c) /\ Ends(c) \subseteq Ends(d)
    BY <1>7, RulesAskNoLess, HoldsStay
  <2>4. CASE Ends(c) = {}
    BY <1>0, <1>1, <2>2, <2>3, <2>4, FreeAnswer
  <2>5. CASE Ends(c) # {}
    <3>1. PICK n \in Ends(c) : \A u \in Ends(c) : u <= n
      BY <1>0, <2>5, EndsLieAhead
    <3>2. /\ n \in Int /\ n <= m
          /\ IF c.window # None /\ n >= c.window
             THEN Evaluate(c).decision = "STOP"
             ELSE Evaluate(c).decision = "DEFER" /\ Evaluate(c).until = n
      BY <1>0, <2>1, <2>3, <3>1, LastHoldCounts, EndsLieAhead
    <3>3. d.window = c.window /\ c.window \in Int \cup {None}
      BY DEF NoBetter, Timed
    <3> QED BY <1>1, <2>2, <3>2, <3>3
  <2> QED BY <2>4, <2>5
<1> QED BY <1>5, <1>6, <1>7
=============================================================================
