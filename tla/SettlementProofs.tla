-------------------------- MODULE SettlementProofs --------------------------
(***************************************************************************)
(* Proofs about Settlement, for any number of cases and polls, any arms    *)
(* and any bounds.                                                         *)
(***************************************************************************)
EXTENDS Settlement, TLAPS, FiniteSetTheorems

\* What is counted is ours and in time.
Credit == CountedIsOursAndPaid /\ WebhookKeepsTheWindow /\ paidLate \subseteq late

\* What is known of decisions that are not committed yet: a control case has no
\* outbox row, an event is about a paid link, a verdict to count is about a
\* treated case paid in time, and a poll settles only what Razorpay holds as paid.
InHand ==
  /\ \A c \in Control : row[c] = "NONE"
  /\ \A c \in Case : task[c] # "none" => link[c] = "PAID"
  /\ \A c \in Case : task[c] = "count" => c \in Treated /\ c \notin paidLate
  /\ \A p \in Poller :
       /\ poll[p].todo \subseteq Treated
       /\ poll[p].at = "settle" => poll[p].cur \in Treated /\ link[poll[p].cur] = "PAID"

SInv == TypeOK /\ Credit /\ InHand

-----------------------------------------------------------------------------
LEMMA InitSInv == ASSUME SettlementParametersOK, Init PROVE SInv
<1>1. TypeOK
  BY DEF Init, TypeOK, Exists, Statuses, Vias, NoExperiment, NoReset, NotPolling
<1>2. Credit
  BY DEF Init, Credit, CountedIsOursAndPaid, WebhookKeepsTheWindow
<1>3. InHand
  BY DEF Init, InHand, NotPolling, SettlementParametersOK
<1> QED BY <1>1, <1>2, <1>3 DEF SInv

\* The next experiment stays within the numbered cases.
LEMMA StartKeeps == ASSUME SettlementParametersOK, SInv, StartExperiment PROVE SInv'
<1> DEFINE some == {c \in Case : Exists(c)}
           existing == Cardinality(some)
<1>1. existing \in Nat
  <2>1. IsFiniteSet(Case)
    BY FS_Interval DEF Case, SettlementParametersOK
  <2>2. IsFiniteSet(some)
    BY <2>1, FS_Subset
  <2> QED BY <2>2, FS_CardinalityType
<1>2. /\ existing + Size <= Cases /\ runs' = runs + 1
      /\ exp' = [at |-> "persist", id |-> existing + 1, last |-> existing + Size]
      /\ UNCHANGED <<cases, link, task, poll, reset, resets, faults>>
  BY DEF StartExperiment
<1> HIDE DEF existing
<1>3. TypeOK'
  BY <1>1, <1>2 DEF SInv, TypeOK, cases, Exists, Case, SettlementParametersOK
<1>4. Credit' /\ InHand'
  BY <1>2 DEF SInv, Credit, CountedIsOursAndPaid, WebhookKeepsTheWindow, InHand, cases
<1> QED BY <1>3, <1>4 DEF SInv

\* Steps within an experiment keep to its cases.
LEMMA NextCaseKeeps ==
  ASSUME SettlementParametersOK, TypeOK, exp.at # "idle", NextCase
  PROVE  /\ exp' \in [at : {"idle", "persist", "call", "record", "failed"}, id : Nat, last : Nat]
         /\ exp'.at # "idle" => exp'.id \in Case /\ exp'.last \in Case /\ exp'.id <= exp'.last
<1>1. exp.id \in Case /\ exp.last \in Case /\ exp.id <= exp.last /\ exp.id \in Nat
  BY DEF TypeOK
<1>2. CASE exp.id = exp.last
  BY <1>2 DEF NextCase, NoExperiment
<1>3. CASE exp.id # exp.last
  <2>1. exp' = [at |-> "persist", id |-> exp.id + 1, last |-> exp.last]
    BY <1>3 DEF NextCase
  <2>2. exp.id + 1 <= exp.last /\ exp.id + 1 \in Case
    BY <1>1, <1>3 DEF Case, SettlementParametersOK
  <2> QED BY <1>1, <2>1, <2>2 DEF Case
<1> QED BY <1>2, <1>3

LEMMA GoToKeeps ==
  ASSUME TypeOK, exp.at # "idle", NEW step \in {"call", "record", "failed"}, GoTo(step)
  PROVE  /\ exp' \in [at : {"idle", "persist", "call", "record", "failed"}, id : Nat, last : Nat]
         /\ exp'.at # "idle" => exp'.id \in Case /\ exp'.last \in Case /\ exp'.id <= exp'.last
  BY DEF TypeOK, GoTo

LEMMA PersistKeeps == ASSUME SettlementParametersOK, SInv, Persist PROVE SInv'
<1> DEFINE c == exp.id
<1>1. /\ exp.at = "persist" /\ ~Exists(c) /\ c \in Case
      /\ UNCHANGED <<link, task, poll, reset, counters>>
  BY DEF Persist, SInv, TypeOK
<1>2. PICK st \in {"MONITORING", "STOPPED"}, out \in {"SENDING", "NONE"} :
        NewCase(c, st, out) /\ (out = "SENDING" => c \in Treated)
  BY DEF Persist
<1>3. GoTo("call") \/ NextCase
  BY DEF Persist
<1>4. /\ exp' \in [at : {"idle", "persist", "call", "record", "failed"}, id : Nat, last : Nat]
      /\ exp'.at # "idle" => exp'.id \in Case /\ exp'.last \in Case /\ exp'.id <= exp'.last
  BY <1>1, <1>3, GoToKeeps, NextCaseKeeps DEF SInv
<1> HIDE DEF c
<1>5. TypeOK'
  BY <1>1, <1>2, <1>4 DEF SInv, TypeOK, NewCase, Exists, Statuses, counters
<1>6. Credit'
  BY <1>1, <1>2 DEF SInv, TypeOK, Credit, CountedIsOursAndPaid, WebhookKeepsTheWindow, NewCase
<1>7. InHand'
  BY <1>1, <1>2 DEF SInv, TypeOK, InHand, NewCase, Treated
<1> QED BY <1>5, <1>6, <1>7 DEF SInv

LEMMA CreateLinkKeeps == ASSUME SettlementParametersOK, SInv, CreateLink PROVE SInv'
<1> DEFINE c == exp.id
<1>1. /\ exp.at = "call" /\ c \in Case
      /\ UNCHANGED <<cases, task, poll, reset, runs, resets>>
  BY DEF CreateLink, SInv, TypeOK
<1>2. link' = link \/ \E l \in {"NONE", "UNKNOWN", "OPEN"} :
                        link[c] = "NONE" /\ link' = [link EXCEPT ![c] = l]
  BY DEF CreateLink
<1>3. GoTo("record") \/ GoTo("failed")
  BY DEF CreateLink
<1>4. /\ exp' \in [at : {"idle", "persist", "call", "record", "failed"}, id : Nat, last : Nat]
      /\ exp'.at # "idle" => exp'.id \in Case /\ exp'.last \in Case /\ exp'.id <= exp'.last
  BY <1>1, <1>3, GoToKeeps DEF SInv
<1>5. faults' \in Nat
  BY DEF CreateLink, Fault, SInv, TypeOK
<1> HIDE DEF c
<1>6. /\ link' \in [Case -> {"NONE", "UNKNOWN", "OPEN", "PAID"}]
      /\ \A d \in Case : link[d] = "PAID" => link'[d] = "PAID"
  BY <1>1, <1>2 DEF SInv, TypeOK
<1>7. TypeOK'
  BY <1>1, <1>4, <1>5, <1>6 DEF SInv, TypeOK, cases, Exists
<1>8. Credit'
  BY <1>1, <1>6 DEF SInv, Credit, CountedIsOursAndPaid, WebhookKeepsTheWindow, cases
<1>9. InHand'
  BY <1>1, <1>6 DEF SInv, TypeOK, InHand, cases, Treated
<1> QED BY <1>7, <1>8, <1>9 DEF SInv

\* The row of a treated case changes its status and never comes into being here.
LEMMA RecordKeeps ==
  ASSUME SettlementParametersOK, SInv, RecordLink \/ RecordFailure PROVE SInv'
<1> DEFINE c == exp.id
<1>1. /\ exp.at # "idle" /\ c \in Case /\ faults' \in Nat
      /\ UNCHANGED <<status, via, late, paidLate, link, task, poll, reset, runs, resets>>
  BY DEF RecordLink, RecordFailure, SInv, TypeOK, Fault, counters
<1>2. row' = row \/ \E out \in {"SENT", "PENDING"} :
                      row[c] # "NONE" /\ row' = [row EXCEPT ![c] = out]
  <2>1. CASE RecordLink
    BY <2>1 DEF RecordLink
  <2>2. CASE RecordFailure
    BY <1>1, <2>2 DEF RecordFailure, SInv, TypeOK
  <2> QED BY <2>1, <2>2
<1>3. NextCase \/ exp' = NoExperiment
  BY DEF RecordLink, RecordFailure
<1>4. /\ exp' \in [at : {"idle", "persist", "call", "record", "failed"}, id : Nat, last : Nat]
      /\ exp'.at # "idle" => exp'.id \in Case /\ exp'.last \in Case /\ exp'.id <= exp'.last
  BY <1>1, <1>3, NextCaseKeeps DEF SInv, NoExperiment
<1> HIDE DEF c
<1>5. /\ row' \in [Case -> {"NONE", "SENDING", "PENDING", "SENT"}]
      /\ \A d \in Case : row[d] = "NONE" => row'[d] = "NONE"
  BY <1>1, <1>2 DEF SInv, TypeOK
<1>6. TypeOK'
  BY <1>1, <1>4, <1>5 DEF SInv, TypeOK, Exists
<1>7. Credit'
  BY <1>1 DEF SInv, Credit, CountedIsOursAndPaid, WebhookKeepsTheWindow
<1>8. InHand'
  BY <1>1, <1>5 DEF SInv, InHand, SettlementParametersOK
<1> QED BY <1>6, <1>7, <1>8 DEF SInv

LEMMA ExperimentEndsKeeps ==
  ASSUME SInv, PersistCollides \/ ExperimentDies PROVE SInv'
<1>1. /\ exp' = NoExperiment /\ faults' \in Nat
      /\ UNCHANGED <<cases, link, task, poll, reset, runs, resets>>
  BY DEF PersistCollides, ExperimentDies, Fault, counters, SInv, TypeOK
<1>2. TypeOK'
  BY <1>1 DEF SInv, TypeOK, cases, Exists, NoExperiment
<1>3. Credit' /\ InHand'
  BY <1>1 DEF SInv, Credit, CountedIsOursAndPaid, WebhookKeepsTheWindow, InHand, cases
<1> QED BY <1>2, <1>3 DEF SInv

LEMMA PayKeeps == ASSUME SettlementParametersOK, SInv, NEW c \in Case, Pay(c) PROVE SInv'
<1>1. /\ link[c] = "OPEN" /\ link' = [link EXCEPT ![c] = "PAID"]
      /\ UNCHANGED <<status, via, row, late, exp, task, poll, reset, runs, resets, faults>>
      /\ paidLate' \subseteq paidLate \cup {c} /\ paidLate' \subseteq late
  BY DEF Pay, counters, SInv, Credit
<1>2. TypeOK'
  BY <1>1 DEF SInv, TypeOK, Exists
<1>3. Credit'
  BY <1>1 DEF SInv, TypeOK, Credit, CountedIsOursAndPaid, WebhookKeepsTheWindow
<1>4. InHand'
  BY <1>1 DEF SInv, TypeOK, InHand, Treated
<1> QED BY <1>2, <1>3, <1>4 DEF SInv

LEMMA WindowClosesKeeps == ASSUME SInv, NEW c \in Case, WindowCloses(c) PROVE SInv'
<1>1. /\ late' = late \cup {c}
      /\ UNCHANGED <<status, via, row, paidLate, link, exp, task, poll, reset, counters>>
  BY DEF WindowCloses
<1>2. TypeOK'
  BY <1>1 DEF SInv, TypeOK, Exists, counters
<1>3. Credit' /\ InHand'
  BY <1>1 DEF SInv, Credit, CountedIsOursAndPaid, WebhookKeepsTheWindow, InHand
<1> QED BY <1>2, <1>3 DEF SInv

\* The life of an event: stored, decided, lost.
LEMMA EventKeeps ==
  ASSUME SInv, ServerDies \/ \E c \in Case : Deliver(c) \/ Decide(c) PROVE SInv'
<1>1. /\ faults' \in Nat /\ UNCHANGED <<cases, link, exp, poll, reset, runs, resets>>
  BY DEF ServerDies, Deliver, Decide, Fault, counters, SInv, TypeOK
<1>2. /\ task' \in [Case -> {"none", "queued", "count", "organic", "done", "lost"}]
      /\ \A d \in Case : task'[d] # "none" => link[d] = "PAID"
      /\ \A d \in Case : task'[d] = "count" => d \in Treated /\ d \notin paidLate
  <2>1. CASE ServerDies
    BY <2>1 DEF ServerDies, SInv, TypeOK, InHand
  <2>2. ASSUME NEW c \in Case, Deliver(c)
        PROVE  /\ task' \in [Case -> {"none", "queued", "count", "organic", "done", "lost"}]
               /\ \A d \in Case : task'[d] # "none" => link[d] = "PAID"
               /\ \A d \in Case : task'[d] = "count" => d \in Treated /\ d \notin paidLate
    BY <2>2 DEF Deliver, SInv, TypeOK, InHand
  <2>3. ASSUME NEW c \in Case, Decide(c)
        PROVE  /\ task' \in [Case -> {"none", "queued", "count", "organic", "done", "lost"}]
               /\ \A d \in Case : task'[d] # "none" => link[d] = "PAID"
               /\ \A d \in Case : task'[d] = "count" => d \in Treated /\ d \notin paidLate
    <3>1. PICK v \in {"count", "organic", "done"} : task' = [task EXCEPT ![c] = v]
      BY <2>3 DEF Decide
    <3>2. task[c] = "queued" /\ (task'[c] = "count" => Counts(c))
      BY <2>3 DEF Decide, SInv, TypeOK
    <3>3. Counts(c) => c \in Treated /\ c \notin paidLate
      BY DEF Counts, Issued, SInv, Credit
    <3> QED BY <3>1, <3>2, <3>3 DEF SInv, TypeOK, InHand
  <2> QED BY <2>1, <2>2, <2>3
<1>3. TypeOK'
  BY <1>1, <1>2 DEF SInv, TypeOK, cases, Exists
<1>4. Credit'
  BY <1>1 DEF SInv, Credit, CountedIsOursAndPaid, WebhookKeepsTheWindow, cases
<1>5. InHand'
  BY <1>1, <1>2 DEF SInv, InHand, cases
<1> QED BY <1>3, <1>4, <1>5 DEF SInv

LEMMA CommitVerdictKeeps ==
  ASSUME SettlementParametersOK, SInv, NEW c \in Case, CommitVerdict(c) PROVE SInv'
<1>1. /\ task[c] \in {"count", "organic"} /\ task' = [task EXCEPT ![c] = "done"]
      /\ faults' \in Nat
      /\ UNCHANGED <<row, late, paidLate, link, exp, poll, reset, runs, resets>>
  BY DEF CommitVerdict, Fault, SInv, TypeOK
<1>2. \/ UNCHANGED <<status, via>>
      \/ /\ Exists(c) /\ task[c] = "count"
         /\ status' = [status EXCEPT ![c] = "RECOVERED"]
         /\ via' = [via EXCEPT ![c] = "WEBHOOK"]
      \/ /\ Exists(c) /\ UNCHANGED via
         /\ status' = [status EXCEPT ![c] = "RESOLVED_ORGANIC"]
  BY DEF CommitVerdict
<1>3. TypeOK'
  BY <1>1, <1>2 DEF SInv, TypeOK, Exists, Statuses, Vias
<1>4. Credit'
  BY <1>1, <1>2 DEF SInv, TypeOK, InHand, Credit, CountedIsOursAndPaid, WebhookKeepsTheWindow
<1>5. InHand'
  BY <1>1 DEF SInv, TypeOK, InHand
<1> QED BY <1>3, <1>4, <1>5 DEF SInv

\* A poll's list holds references that we issued.
LEMMA PollListKeeps ==
  ASSUME SettlementParametersOK, SInv, NEW p \in Poller, PollList(p) PROVE SInv'
<1>1. PICK todo \in SUBSET Outstanding :
        poll' = [poll EXCEPT ![p] = [at |-> "ask", todo |-> todo, cur |-> 1]]
  BY DEF PollList
<1>2. UNCHANGED <<cases, link, exp, task, reset, counters>>
  BY DEF PollList
<1>3. todo \subseteq Treated /\ todo \subseteq Case
  BY DEF Outstanding, SInv, InHand, Treated
<1>4. TypeOK'
  BY <1>1, <1>2, <1>3 DEF SInv, TypeOK, cases, counters, Exists
<1>5. Credit'
  BY <1>2 DEF SInv, Credit, CountedIsOursAndPaid, WebhookKeepsTheWindow, cases
<1>6. InHand'
  BY <1>1, <1>2, <1>3 DEF SInv, TypeOK, InHand, cases
<1> QED BY <1>4, <1>5, <1>6 DEF SInv

\* What a poll may hold after a step, whatever the step.
LEMMA PollUpdate ==
  ASSUME TypeOK, NEW p \in Poller, NEW a \in {"idle", "ask", "settle"},
         NEW d \in SUBSET Case, NEW u \in Nat,
         poll' = [poll EXCEPT ![p] = [at |-> a, todo |-> d, cur |-> u]]
  PROVE  /\ poll' \in [Poller -> [at : {"idle", "ask", "settle"}, todo : SUBSET Case, cur : Nat]]
         /\ \A q \in Poller : q # p => poll'[q] = poll[q]
         /\ poll'[p].at = a /\ poll'[p].todo = d /\ poll'[p].cur = u
<1> DEFINE t == [at |-> a, todo |-> d, cur |-> u]
<1>1. /\ t \in [at : {"idle", "ask", "settle"}, todo : SUBSET Case, cur : Nat]
      /\ t.at = a /\ t.todo = d /\ t.cur = u
  OBVIOUS
<1>2. poll' = [poll EXCEPT ![p] = t]
  OBVIOUS
<1> HIDE DEF t
<1> QED BY <1>1, <1>2 DEF TypeOK

LEMMA PollAskKeeps ==
  ASSUME SettlementParametersOK, SInv, NEW p \in Poller, NEW c \in Case, PollAsk(p, c)
  PROVE  SInv'
<1> DEFINE rest == poll[p].todo \ {c}
<1>1. /\ c \in poll[p].todo /\ faults' \in Nat
      /\ UNCHANGED <<cases, link, exp, task, reset, runs, resets>>
  BY DEF PollAsk, Fault, SInv, TypeOK
<1>2. c \in Treated /\ rest \subseteq Treated /\ rest \in SUBSET Case /\ c \in Nat
  BY <1>1 DEF SInv, InHand, Treated, Case, SettlementParametersOK
<1>3. \/ /\ link[c] = "PAID"
         /\ poll' = [poll EXCEPT ![p] = [at |-> "settle", todo |-> rest, cur |-> c]]
      \/ poll' = [poll EXCEPT ![p] = [at |-> "ask", todo |-> rest, cur |-> 1]]
  BY DEF PollAsk
<1> HIDE DEF rest
<1>4. /\ poll' \in [Poller -> [at : {"idle", "ask", "settle"}, todo : SUBSET Case, cur : Nat]]
      /\ \A q \in Poller : q # p => poll'[q] = poll[q]
      /\ poll'[p].todo = rest
      /\ poll'[p].at = "settle" => link[c] = "PAID" /\ poll'[p].cur = c
  <2>1. CASE poll' = [poll EXCEPT ![p] = [at |-> "ask", todo |-> rest, cur |-> 1]]
    BY <1>2, <2>1, PollUpdate DEF SInv
  <2>2. CASE /\ link[c] = "PAID"
             /\ poll' = [poll EXCEPT ![p] = [at |-> "settle", todo |-> rest, cur |-> c]]
    BY <1>2, <2>2, PollUpdate DEF SInv
  <2> QED BY <1>3, <2>1, <2>2
<1>5. TypeOK'
  BY <1>1, <1>4 DEF SInv, TypeOK, cases, Exists
<1>6. Credit'
  BY <1>1 DEF SInv, Credit, CountedIsOursAndPaid, WebhookKeepsTheWindow, cases
<1>7. InHand'
  BY <1>1, <1>2, <1>4 DEF SInv, InHand, cases
<1> QED BY <1>5, <1>6, <1>7 DEF SInv

LEMMA PollSettleKeeps ==
  ASSUME SettlementParametersOK, SInv, NEW p \in Poller, PollSettle(p) PROVE SInv'
<1> DEFINE c == poll[p].cur
<1>1. /\ poll[p].at = "settle" /\ faults' \in Nat
      /\ UNCHANGED <<row, late, paidLate, link, exp, task, reset, runs, resets>>
  BY DEF PollSettle, Fault, SInv, TypeOK
<1>2. \/ UNCHANGED <<status, via>>
      \/ /\ Exists(c)
         /\ status' = [status EXCEPT ![c] = "RECOVERED"]
         /\ via' = [via EXCEPT ![c] = "API_RECONCILIATION"]
  BY DEF PollSettle
<1>3. \/ poll' = [poll EXCEPT ![p] = [at |-> "ask", todo |-> poll[p].todo, cur |-> 1]]
      \/ poll' = [poll EXCEPT ![p] = [at |-> "idle", todo |-> {}, cur |-> 1]]
  BY DEF PollSettle, NotPolling
<1>4. c \in Treated /\ c \in Case /\ link[c] = "PAID" /\ poll[p].todo \subseteq Treated
  BY <1>1 DEF SInv, InHand, Treated
<1>5. /\ poll' \in [Poller -> [at : {"idle", "ask", "settle"}, todo : SUBSET Case, cur : Nat]]
      /\ \A q \in Poller : q # p => poll'[q] = poll[q]
      /\ poll'[p].at # "settle" /\ poll'[p].todo \subseteq Treated
  <2>1. poll[p].todo \in SUBSET Case
    BY <1>4 DEF Treated
  <2>2. CASE poll' = [poll EXCEPT ![p] = [at |-> "ask", todo |-> poll[p].todo, cur |-> 1]]
    <3>1. "ask" \in {"idle", "ask", "settle"} /\ 1 \in Nat /\ TypeOK
      BY DEF SInv
    <3>2. /\ poll' \in [Poller -> [at : {"idle", "ask", "settle"}, todo : SUBSET Case, cur : Nat]]
          /\ \A q \in Poller : q # p => poll'[q] = poll[q]
          /\ poll'[p].at = "ask" /\ poll'[p].todo = poll[p].todo
      BY <2>1, <2>2, <3>1, PollUpdate
    <3> QED BY <1>4, <3>2
  <2>3. CASE poll' = [poll EXCEPT ![p] = [at |-> "idle", todo |-> {}, cur |-> 1]]
    <3>1. "idle" \in {"idle", "ask", "settle"} /\ 1 \in Nat /\ {} \in SUBSET Case /\ TypeOK
      BY DEF SInv
    <3>2. /\ poll' \in [Poller -> [at : {"idle", "ask", "settle"}, todo : SUBSET Case, cur : Nat]]
          /\ \A q \in Poller : q # p => poll'[q] = poll[q]
          /\ poll'[p].at = "idle" /\ poll'[p].todo = {}
      BY <2>3, <3>1, PollUpdate
    <3> QED BY <3>2
  <2> QED BY <1>3, <2>2, <2>3
<1> HIDE DEF c
<1>6. TypeOK'
  <2>1. status' \in [Case -> Statuses] /\ via' \in [Case -> Vias]
    BY <1>2 DEF SInv, TypeOK, Statuses, Vias
  <2>2. \A d \in Case : ~Exists(d)' => row'[d] = "NONE" /\ via'[d] = "NONE"
    BY <1>1, <1>2, <1>4 DEF SInv, TypeOK, Exists
  <2> QED BY <1>1, <1>5, <2>1, <2>2 DEF SInv, TypeOK, Exists
<1>7. Credit'
  BY <1>1, <1>2, <1>4 DEF SInv, TypeOK, Credit, CountedIsOursAndPaid, WebhookKeepsTheWindow
<1>8. InHand'
  BY <1>1, <1>5 DEF SInv, InHand
<1> QED BY <1>6, <1>7, <1>8 DEF SInv

LEMMA PollEndsKeeps ==
  ASSUME SInv, NEW p \in Poller, PollDone(p) \/ PollDies(p) PROVE SInv'
<1>1. /\ poll' = [poll EXCEPT ![p] = NotPolling] /\ faults' \in Nat
      /\ UNCHANGED <<cases, link, exp, task, reset, runs, resets>>
  BY DEF PollDone, PollDies, Fault, counters, SInv, TypeOK
<1>2. TypeOK'
  BY <1>1 DEF SInv, TypeOK, cases, Exists, NotPolling
<1>3. Credit'
  BY <1>1 DEF SInv, Credit, CountedIsOursAndPaid, WebhookKeepsTheWindow, cases
<1>4. InHand'
  BY <1>1 DEF SInv, TypeOK, InHand, cases, NotPolling
<1> QED BY <1>2, <1>3, <1>4 DEF SInv

LEMMA DeleteKeeps == ASSUME SettlementParametersOK, SInv, DeleteTheRest PROVE SInv'
<1>1. /\ reset' = NoReset /\ UNCHANGED <<late, paidLate, link, exp, task, poll, counters>>
      /\ \A c \in Case : \/ status'[c] = status[c] /\ via'[c] = via[c] /\ row'[c] = row[c]
                         \/ status'[c] = "ABSENT" /\ via'[c] = "NONE" /\ row'[c] = "NONE"
  BY DEF DeleteTheRest
<1>2. /\ status' \in [Case -> Statuses] /\ via' \in [Case -> Vias]
      /\ row' \in [Case -> {"NONE", "SENDING", "PENDING", "SENT"}]
  BY DEF DeleteTheRest, SInv, TypeOK, Statuses, Vias
<1>3. TypeOK'
  BY <1>1, <1>2 DEF SInv, TypeOK, Exists, NoReset, counters
<1>4. Credit'
  BY <1>1 DEF SInv, TypeOK, Credit, CountedIsOursAndPaid, WebhookKeepsTheWindow
<1>5. InHand'
  BY <1>1 DEF SInv, InHand, SettlementParametersOK
<1> QED BY <1>3, <1>4, <1>5 DEF SInv

LEMMA ResetKeeps == ASSUME SInv, ReadPreserved \/ ResetDies PROVE SInv'
<1>1. /\ reset' \in [at : {"idle", "delete"}, keep : SUBSET Case]
      /\ resets' \in Nat /\ faults' \in Nat
      /\ UNCHANGED <<cases, link, exp, task, poll, runs>>
  BY DEF ReadPreserved, ResetDies, NoReset, Fault, SInv, TypeOK
<1>2. TypeOK'
  BY <1>1 DEF SInv, TypeOK, cases, Exists
<1>3. Credit' /\ InHand'
  BY <1>1 DEF SInv, Credit, CountedIsOursAndPaid, WebhookKeepsTheWindow, InHand, cases
<1> QED BY <1>2, <1>3 DEF SInv

-----------------------------------------------------------------------------
LEMMA NextKeepsSInv == ASSUME SettlementParametersOK, SInv, [Next]_vars PROVE SInv'
<1>1. CASE UNCHANGED vars
  BY <1>1 DEF SInv, TypeOK, Credit, CountedIsOursAndPaid, WebhookKeepsTheWindow, InHand,
              vars, cases, counters, Exists
<1>2. CASE Next
  <2>1. CASE StartExperiment \/ Experiment \/ ExperimentDies
    BY <2>1, StartKeeps, PersistKeeps, CreateLinkKeeps, RecordKeeps, ExperimentEndsKeeps
       DEF Experiment
  <2>2. CASE ServerDies \/ \E c \in Case : \/ Pay(c) \/ WindowCloses(c) \/ Deliver(c)
                                           \/ Decide(c) \/ CommitVerdict(c)
    BY <2>2, PayKeeps, WindowClosesKeeps, EventKeeps, CommitVerdictKeeps
  <2>3. CASE \E p \in Poller : Poll(p) \/ PollDies(p)
    BY <2>3, PollListKeeps, PollAskKeeps, PollSettleKeeps, PollEndsKeeps DEF Poll
  <2>4. CASE ReadPreserved \/ DeleteTheRest \/ ResetDies
    BY <2>4, DeleteKeeps, ResetKeeps
  <2> QED BY <1>2, <2>1, <2>2, <2>3, <2>4 DEF Next
<1> QED BY <1>1, <1>2

LEMMA SInvInvariant == Spec => []SInv
<1>1. Init => SInv
  BY InitSInv, SettlementParametersOK
<1>2. SInv /\ [Next]_vars => SInv'
  BY NextKeepsSInv, SettlementParametersOK
<1> QED BY <1>1, <1>2, PTL DEF Spec

\* The types of all variables, and no outbox row or proof without its case.
THEOREM TypeCorrect == Spec => []TypeOK
<1>1. SInv => TypeOK
  BY DEF SInv
<1> QED BY <1>1, SInvInvariant, PTL

\* However webhooks, polls, resets, crashes and lost answers interleave, credit
\* is taken only for treated cases whose link Razorpay holds as paid.
THEOREM CreditIsEarned == Spec => []CountedIsOursAndPaid
<1>1. SInv => CountedIsOursAndPaid
  BY DEF SInv, Credit
<1> QED BY <1>1, SInvInvariant, PTL

\* The webhook path never claims a payment made after the attribution window.
THEOREM WindowIsKept == Spec => []WebhookKeepsTheWindow
<1>1. SInv => WebhookKeepsTheWindow
  BY DEF SInv, Credit
<1> QED BY <1>1, SInvInvariant, PTL
=============================================================================
