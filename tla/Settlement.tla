----------------------------- MODULE Settlement -----------------------------
(***************************************************************************)
(* Who gets the credit for a payment.  The live experiment                 *)
(* (workers/experiment.py) opens cases and links at Razorpay, customers    *)
(* pay, and a payment reaches the case as a webhook (routers/webhooks.py,  *)
(* ingest/settle.py, services/attribution.py) or as the answer to a poll   *)
(* (workers/reconcile.py), while the batch (workers/batch.py) clears what  *)
(* Razorpay did not prove.                                                 *)
(*                                                                         *)
(* Each session loads a case, decides, and commits later: the load and the *)
(* commit are two steps, and a commit writes the columns that it changes,  *)
(* whatever other sessions wrote to them meanwhile.                        *)
(***************************************************************************)
EXTENDS Integers, FiniteSets

CONSTANTS
  Cases,      \* bound: cases are numbered 1 .. Cases, RC-XP0001 and so on
  Control,    \* assign_arm: the held-out cases, fixed by their numbers
  Size,       \* cases per experiment
  Poller,     \* runs of reconcile_outstanding that may overlap
  Limit,      \* references per poll
  MaxRuns, MaxResets, MaxFaults   \* bounds

Case    == 1 .. Cases
Treated == Case \ Control

ASSUME SettlementParametersOK ==
  /\ Cases \in Nat /\ Size \in Nat \ {0} /\ Limit \in Nat \ {0}
  /\ Control \subseteq Case
  /\ MaxRuns \in Nat /\ MaxResets \in Nat /\ MaxFaults \in Nat

VARIABLES
  status,     \* Case -> recovery_cases.status, ABSENT for no row
  via,        \* Case -> recovery_verified_via, set together with _by
  row,        \* Case -> status of the outbox row of its reference
  late,       \* cases whose window and its grace are over
  link,       \* Case -> the payment link at Razorpay
  paidLate,   \* cases whose link was paid when they were late
  exp,        \* the running experiment
  task,       \* Case -> what became of the payment_link.paid event of its link
  poll,       \* Poller -> what it still has to ask, and to settle
  reset,      \* the batch's _clear
  runs, resets, faults

cases    == <<status, via, row, late, paidLate>>
counters == <<runs, resets, faults>>
vars     == <<cases, link, exp, task, poll, reset, counters>>

Exists(c) == status[c] # "ABSENT"

\* A lost answer, a failed lookup, a crash, a write lock that times out, a
\* rollback inside AuditChain.append: MaxFaults of them.
Fault == faults < MaxFaults /\ faults' = faults + 1

NoExperiment == [at |-> "idle", id |-> 1, last |-> 0]
NoReset      == [at |-> "idle", keep |-> {}]
NotPolling   == [at |-> "idle", todo |-> {}, cur |-> 1]

Init ==
  /\ status = [c \in Case |-> "ABSENT"] /\ via = [c \in Case |-> "NONE"]
  /\ row = [c \in Case |-> "NONE"] /\ late = {} /\ paidLate = {}
  /\ link = [c \in Case |-> "NONE"]
  /\ exp = NoExperiment /\ reset = NoReset
  /\ task = [c \in Case |-> "none"] /\ poll = [p \in Poller |-> NotPolling]
  /\ runs = 0 /\ resets = 0 /\ faults = 0

-----------------------------------------------------------------------------
(* run_testmode_experiment.                                                *)

\* case ids count on from the cases that exist.
StartExperiment ==
  LET existing == Cardinality({c \in Case : Exists(c)}) IN
  /\ exp.at = "idle" /\ runs < MaxRuns /\ existing + Size <= Cases
  /\ exp' = [at |-> "persist", id |-> existing + 1, last |-> existing + Size]
  /\ runs' = runs + 1
  /\ UNCHANGED <<cases, link, task, poll, reset, resets, faults>>

GoTo(step) == exp' = [at |-> step, id |-> exp.id, last |-> exp.last]

NextCase ==
  exp' = IF exp.id = exp.last THEN NoExperiment
         ELSE [at |-> "persist", id |-> exp.id + 1, last |-> exp.last]

NewCase(c, st, out) ==
  /\ status' = [status EXCEPT ![c] = st]
  /\ row' = [row EXCEPT ![c] = out]
  /\ late' = late \ {c} /\ paidLate' = paidLate \ {c}
  /\ UNCHANGED via

\* The case, and for the treated arm the outbox row with its reference, are
\* committed before the provider call; a treated case may be stopped by the
\* firewall.
Persist ==
  LET c == exp.id IN
  /\ exp.at = "persist" /\ ~Exists(c)
  /\ \/ c \in Treated /\ NewCase(c, "MONITORING", "SENDING") /\ GoTo("call")
     \/ c \in Treated /\ NewCase(c, "STOPPED", "NONE") /\ NextCase
     \/ c \in Control /\ NewCase(c, "MONITORING", "NONE") /\ GoTo("call")
  /\ UNCHANGED <<link, task, poll, reset, counters>>

\* The primary key is taken: the IntegrityError ends the experiment.
PersistCollides ==
  /\ exp.at = "persist" /\ Exists(exp.id)
  /\ exp' = NoExperiment
  /\ UNCHANGED <<cases, link, task, poll, reset, counters>>

\* Razorpay refuses a second link for a reference; a failed call may have
\* created a link whose URL nobody was told.
CreateLink ==
  LET c == exp.id IN
  /\ exp.at = "call"
  /\ \/ link[c] = "NONE" /\ link' = [link EXCEPT ![c] = "OPEN"] /\ GoTo("record")
        /\ UNCHANGED faults
     \/ /\ link[c] = "NONE" /\ Fault /\ GoTo("failed")
        /\ \E l \in {"NONE", "UNKNOWN"} : link' = [link EXCEPT ![c] = l]
     \/ link[c] # "NONE" /\ GoTo("failed") /\ UNCHANGED <<link, faults>>
  /\ UNCHANGED <<cases, task, poll, reset, runs, resets>>

\* A treated case's row goes SENT with its action and audit block, unless the
\* rollback inside append() loses the change; a row cleared meanwhile is an
\* error that ends the experiment. A control case has nothing to record.
RecordLink ==
  LET c == exp.id IN
  /\ exp.at = "record"
  /\ \/ c \in Control /\ NextCase /\ UNCHANGED <<row, faults>>
     \/ c \in Treated /\ row[c] = "NONE" /\ exp' = NoExperiment /\ UNCHANGED <<row, faults>>
     \/ /\ c \in Treated /\ row[c] # "NONE" /\ NextCase
        /\ \/ row' = [row EXCEPT ![c] = "SENT"] /\ UNCHANGED faults
           \/ Fault /\ UNCHANGED row
  /\ UNCHANGED <<status, via, late, paidLate, link, task, poll, reset, runs, resets>>

RecordFailure ==
  LET c == exp.id IN
  /\ exp.at = "failed"
  /\ row' = [row EXCEPT ![c] = IF @ = "NONE" THEN @ ELSE "PENDING"]
  /\ NextCase
  /\ UNCHANGED <<status, via, late, paidLate, link, task, poll, reset, counters>>

ExperimentDies ==
  /\ exp.at # "idle" /\ Fault
  /\ exp' = NoExperiment
  /\ UNCHANGED <<cases, link, task, poll, reset, runs, resets>>

-----------------------------------------------------------------------------
(* The customer and the clock.                                             *)

Pay(c) ==
  /\ link[c] = "OPEN"
  /\ link' = [link EXCEPT ![c] = "PAID"]
  /\ paidLate' = IF c \in late THEN paidLate \cup {c} ELSE paidLate
  /\ UNCHANGED <<status, via, row, late, exp, task, poll, reset, counters>>

WindowCloses(c) ==
  /\ Exists(c) /\ c \notin late
  /\ late' = late \cup {c}
  /\ UNCHANGED <<status, via, row, paidLate, link, exp, task, poll, reset, counters>>

-----------------------------------------------------------------------------
(* razorpay_webhook and its background task.                               *)

\* UNIQUE(event_id): only the first delivery is stored and gets a task. The row
\* outlives the task.
Deliver(c) ==
  /\ link[c] = "PAID" /\ task[c] = "none"
  /\ task' = [task EXCEPT ![c] = "queued"]
  /\ UNCHANGED <<cases, link, exp, poll, reset, counters>>

\* _find_case: by the reference on the outbox row, or by the control arm's own.
Found(c) == IF c \in Control THEN Exists(c) ELSE row[c] # "NONE"

MutIssued(c) == TRUE

\* The reference is one that we issued to a customer.
Issued(c) == c \in Treated

MutCounts(c) ==
  /\ Issued(c) /\ status[c] = "MONITORING" /\ via[c] = "NONE"

\* The conditions of attribute() that a stored payment_link.paid may fail.
Counts(c) ==
  /\ Issued(c) /\ status[c] = "MONITORING" /\ c \notin late /\ via[c] = "NONE"

ResolvesOrganically(c) ==
  /\ ~Issued(c) \/ status[c] # "MONITORING" \/ c \in late
  /\ status[c] \notin {"RECOVERED", "RESOLVED_ORGANIC"}

\* process_settlement up to the verdict, which is about the case as loaded.
Decide(c) ==
  /\ task[c] = "queued"
  /\ task' = [task EXCEPT ![c] = IF ~Found(c) THEN "done"
                                 ELSE IF Counts(c) THEN "count"
                                 ELSE IF ResolvesOrganically(c) THEN "organic"
                                 ELSE "done"]
  /\ UNCHANGED <<cases, link, exp, poll, reset, counters>>

\* The commit of a verdict. A case that was cleared meanwhile fails it, and so
\* may the audit append; either way the exception is swallowed.
CommitVerdict(c) ==
  /\ task[c] \in {"count", "organic"}
  /\ \/ /\ Exists(c) /\ task[c] = "count"
        /\ status' = [status EXCEPT ![c] = "RECOVERED"]
        /\ via' = [via EXCEPT ![c] = "WEBHOOK"]
        /\ UNCHANGED faults
     \/ /\ Exists(c) /\ task[c] = "organic"
        /\ status' = [status EXCEPT ![c] = "RESOLVED_ORGANIC"]
        /\ UNCHANGED <<via, faults>>
     \/ ~Exists(c) /\ UNCHANGED <<status, via, faults>>
     \/ Fault /\ UNCHANGED <<status, via>>
  /\ task' = [task EXCEPT ![c] = "done"]
  /\ UNCHANGED <<row, late, paidLate, link, exp, poll, reset, runs, resets>>

\* The server stops: background tasks exist in memory only.
ServerDies ==
  /\ Fault
  /\ task' = [c \in Case |-> IF task[c] \in {"queued", "count", "organic"} THEN "lost"
                             ELSE task[c]]
  /\ UNCHANGED <<cases, link, exp, poll, reset, runs, resets>>

-----------------------------------------------------------------------------
(* reconcile_outstanding.                                                  *)

MutOutstanding == {c \in Case : row[c] = "SENDING" /\ status[c] = "MONITORING" /\ via[c] = "NONE"}

Outstanding ==
  {c \in Case : row[c] \in {"SENT", "SENDING"} /\ status[c] = "MONITORING" /\ via[c] = "NONE"}

\* outstanding[:limit] of a query without ORDER BY.
PollList(p) ==
  /\ poll[p].at = "idle" /\ Outstanding # {}
  /\ \E todo \in SUBSET Outstanding :
       /\ Cardinality(todo) <= Limit
       /\ todo = Outstanding \/ Cardinality(todo) = Limit
       /\ poll' = [poll EXCEPT ![p] = [at |-> "ask", todo |-> todo, cur |-> 1]]
  /\ UNCHANGED <<cases, link, exp, task, reset, counters>>

\* The lookup; and for a paid link, the fresh load of the case, of which only
\* recovery_verified_by is looked at. A failed lookup is skipped.
PollAsk(p, c) ==
  /\ poll[p].at = "ask" /\ c \in poll[p].todo
  /\ LET rest == poll[p].todo \ {c} IN
     \/ /\ link[c] = "PAID" /\ Exists(c) /\ via[c] = "NONE"
        /\ poll' = [poll EXCEPT ![p] = [at |-> "settle", todo |-> rest, cur |-> c]]
        /\ UNCHANGED faults
     \/ /\ (link[c] # "PAID" \/ ~Exists(c) \/ via[c] # "NONE") /\ UNCHANGED faults
        /\ poll' = [poll EXCEPT ![p] = [at |-> "ask", todo |-> rest, cur |-> 1]]
     \/ /\ Fault
        /\ poll' = [poll EXCEPT ![p] = [at |-> "ask", todo |-> rest, cur |-> 1]]
  /\ UNCHANGED <<cases, link, exp, task, reset, runs, resets>>

\* A case that was cleared meanwhile ends the poll with an error; a rollback
\* inside append() loses the change and the poll goes on.
PollSettle(p) ==
  LET c == poll[p].cur IN
  /\ poll[p].at = "settle"
  /\ \/ /\ Exists(c)
        /\ status' = [status EXCEPT ![c] = "RECOVERED"]
        /\ via' = [via EXCEPT ![c] = "API_RECONCILIATION"]
        /\ poll' = [poll EXCEPT ![p] = [at |-> "ask", todo |-> poll[p].todo, cur |-> 1]]
        /\ UNCHANGED faults
     \/ /\ ~Exists(c) /\ UNCHANGED <<status, via, faults>>
        /\ poll' = [poll EXCEPT ![p] = NotPolling]
     \/ /\ Exists(c) /\ Fault /\ UNCHANGED <<status, via>>
        /\ poll' = [poll EXCEPT ![p] = [at |-> "ask", todo |-> poll[p].todo, cur |-> 1]]
  /\ UNCHANGED <<row, late, paidLate, link, exp, task, reset, runs, resets>>

PollDone(p) ==
  /\ poll[p].at = "ask" /\ poll[p].todo = {}
  /\ poll' = [poll EXCEPT ![p] = NotPolling]
  /\ UNCHANGED <<cases, link, exp, task, reset, counters>>

PollDies(p) ==
  /\ poll[p].at # "idle" /\ Fault
  /\ poll' = [poll EXCEPT ![p] = NotPolling]
  /\ UNCHANGED <<cases, link, exp, task, reset, runs, resets>>

-----------------------------------------------------------------------------
(* _clear.                                                                 *)

\* The SELECT of the cases to preserve runs before the first DELETE takes the
\* write lock.
ReadPreserved ==
  /\ reset.at = "idle" /\ resets < MaxResets
  /\ reset' = [at |-> "delete", keep |-> {c \in Case : via[c] # "NONE"}]
  /\ resets' = resets + 1
  /\ UNCHANGED <<cases, link, exp, task, poll, runs, faults>>

MutKeepRows ==
  /\ reset.at = "delete"
  /\ status' = [c \in Case |-> IF c \in reset.keep THEN status[c] ELSE "ABSENT"]
  /\ via' = [c \in Case |-> IF c \in reset.keep THEN via[c] ELSE "NONE"]
  /\ reset' = NoReset
  /\ UNCHANGED <<row, late, paidLate, link, exp, task, poll, counters>>

\* One transaction; outbox rows go with their case (ON DELETE CASCADE).
DeleteTheRest ==
  /\ reset.at = "delete"
  /\ status' = [c \in Case |-> IF c \in reset.keep THEN status[c] ELSE "ABSENT"]
  /\ via' = [c \in Case |-> IF c \in reset.keep THEN via[c] ELSE "NONE"]
  /\ row' = [c \in Case |-> IF c \in reset.keep THEN row[c] ELSE "NONE"]
  /\ reset' = NoReset
  /\ UNCHANGED <<late, paidLate, link, exp, task, poll, counters>>

ResetDies ==
  /\ reset.at # "idle" /\ Fault
  /\ reset' = NoReset
  /\ UNCHANGED <<cases, link, exp, task, poll, runs, resets>>

-----------------------------------------------------------------------------
Experiment ==
  \/ Persist \/ PersistCollides \/ CreateLink \/ RecordLink \/ RecordFailure

Poll(p) == PollList(p) \/ PollSettle(p) \/ PollDone(p) \/ \E c \in Case : PollAsk(p, c)

Next ==
  \/ StartExperiment \/ Experiment \/ ExperimentDies
  \/ \E c \in Case : Pay(c) \/ WindowCloses(c) \/ Deliver(c) \/ Decide(c) \/ CommitVerdict(c)
  \/ ServerDies
  \/ \E p \in Poller : Poll(p) \/ PollDies(p)
  \/ ReadPreserved \/ DeleteTheRest \/ ResetDies

Spec == Init /\ [][Next]_vars

\* A poll that was started goes on, and somebody starts one again and again:
\* it is a command, and the only answer to a lost webhook.
Fairness == \A p \in Poller : WF_vars(Poll(p))

FairSpec == Spec /\ Fairness

-----------------------------------------------------------------------------
(* Properties.                                                             *)

Statuses == {"ABSENT", "STOPPED", "MONITORING", "RECOVERED", "RESOLVED_ORGANIC"}
Vias     == {"NONE", "WEBHOOK", "API_RECONCILIATION"}

\* Types of all variables; a case that does not exist has no outbox row
\* (FOREIGN KEY) and no proof.
TypeOK ==
  /\ status \in [Case -> Statuses] /\ via \in [Case -> Vias]
  /\ row \in [Case -> {"NONE", "SENDING", "PENDING", "SENT"}]
  /\ link \in [Case -> {"NONE", "UNKNOWN", "OPEN", "PAID"}]
  /\ task \in [Case -> {"none", "queued", "count", "organic", "done", "lost"}]
  /\ late \subseteq Case /\ paidLate \subseteq Case
  /\ exp \in [at : {"idle", "persist", "call", "record", "failed"}, id : Nat, last : Nat]
  /\ exp.at # "idle" => exp.id \in Case /\ exp.last \in Case /\ exp.id <= exp.last
  /\ poll \in [Poller -> [at : {"idle", "ask", "settle"}, todo : SUBSET Case, cur : Nat]]
  /\ reset \in [at : {"idle", "delete"}, keep : SUBSET Case]
  /\ runs \in Nat /\ resets \in Nat /\ faults \in Nat
  /\ \A c \in Case : ~Exists(c) => row[c] = "NONE" /\ via[c] = "NONE"

\* "The line between attribution and coincidence": a proof stands only on a case
\* we contacted and whose link Razorpay holds as paid, and RECOVERED only on a
\* proof; never on the control arm, which is the counterfactual.
CountedIsOursAndPaid ==
  \A c \in Case :
    /\ via[c] # "NONE" => c \in Treated /\ link[c] = "PAID"
    /\ status[c] = "RECOVERED" => via[c] # "NONE"

\* Condition 5 of attribute(): a payment made after the window and its grace is
\* never claimed by the webhook, however late or early its event is handled.
WebhookKeepsTheWindow == \A c \in paidLate : via[c] # "WEBHOOK"

\* "A lost webhook cannot cost us a recovery": with polls going on, a paid link
\* whose reference is outstanding gets its case out of MONITORING, whatever
\* webhooks are lost, unless the batch clears the case.
PaidIsSettled ==
  \A c \in Treated :
    (link[c] = "PAID" /\ row[c] \in {"SENDING", "SENT"})
      ~> ~(status[c] = "MONITORING" /\ row[c] \in {"SENDING", "SENT"})

\* enums.py, TERMINAL_STATUSES: "A case in one of these may never transition
\* again." (A case the batch deletes has no status.)
TerminalIsFinal ==
  [][\A c \in Case : status[c] \notin {"ABSENT", "MONITORING"} =>
                       status'[c] \in {status[c], "ABSENT"}]_vars

\* _clear: "never a case Razorpay itself proved" is deleted.
ProvenCaseSurvives == [][\A c \in Case : via[c] # "NONE" => via'[c] # "NONE"]_vars

\* reconcile_outstanding: "exactly one of the two paths should win".
OnePathWins ==
  [][\A c \in Case : via[c] # "NONE" /\ via'[c] # "NONE" => via'[c] = via[c]]_vars
=============================================================================
