# RevPilot (Aegis-Merchant): a TLA+ verification project

RevPilot is a payment-recovery agent. A failed or abandoned payment becomes a
*recovery case*; an agent diagnoses it, proposes an action, a deterministic
policy firewall clamps and authorises it, an outbox sends a payment link through
Razorpay, and webhooks or polls decide whether the customer's payment counts as
a recovery. Every step is recorded in a hash-chained audit ledger. This
directory models the parts of that program whose correctness depends on the
order of events: what concurrent sessions, crashes, retries and late answers can
do to the committed state.

Paths below are relative to `src/apps/api/app/`.

## 1. Inventory

| Component | State it keeps | Operations | What is hard | What makes it correct |
|---|---|---|---|---|
| Outbox executor `tools/outbox.py` | `outbox`, `recovery_actions`, `contact_ledger`, `dead_letters` rows | `execute`: phase one, provider call, phase two, retry, dead letter | crash between call and commit; timeouts that hide a success; two executions of one row | at most one link per reference; no link without a committed intent; nothing lost, nothing silently dead |
| Drainer and boot reconciler `workers/drainer.py` | none of its own (a list of rows per pass) | `drain_once`, `reconcile_on_startup`, `_mark_dead` | stale list; case ends while a row waits; passes that overlap | a finished case is left alone; every intent is resolved |
| Payment provider `tools/{provider,mock_provider,razorpay_client}.py` | links by reference | create, look up | outcome unknown after a timeout | references are unique |
| Dead-letter replay `routers/dlq.py` | `dead_letters` | `replay` | double click; races the workers | one re-queue per dead letter, original reference |
| Scheduler `services/scheduler.py` | none | expire approvals, kill stale deferrals | acts on rows it read earlier | the human's decision and the sent row win |
| Audit chain `tools/audit.py`, `routers/audit.py` | `audit_blocks` | `append`, `verify`, `tamper` | head read and insert are two steps; rollback inside `append` | the chain verifies unless tampered with; block and change commit together |
| Settlement `ingest/settle.py`, `services/attribution.py`, `routers/webhooks.py` | `webhook_events`, case status and proof | ingest, attribute, settle | duplicates, reordering, crash after the acknowledgement | a payment is counted once, only if ours, never for the control arm |
| Poll `workers/reconcile.py` | none | `reconcile_outstanding` | races the webhook | exactly one of the two paths settles a case |
| Approvals `routers/approvals.py` | `approval_requests`, case status | approve, reject, expire | double click, expiry race | one decision, and the case follows it |
| Policy firewall `guardrails/` | none (a token per action) | 12 stopping rules, clamping, token | combination and order of rules, rounding | no action beyond the merchant's bounds |
| Case graph `agent/` | one case's state | seven nodes | loops, exceptions | ends, and never executes an unauthorised action |
| Model gateway `llm/` | cache, quota counters | cached, live and fallback answers | two quotas, corrupt cache lines | never over quota; a bad answer is never used |
| Event stream `routers/stream.py` | a bounded queue per client | publish, subscribe | overflow | order kept; loss is reported |
| Batch and experiments `workers/{batch,experiment,benchmark}.py`, `routers/testmode.py` | all tables | run the corpus, hold out a control arm, dispatch directly | reset under running sessions; a second dispatcher of the outbox | evidence of real payments survives a reset |
| Kill switch and policy bounds `routers/control.py` | `merchants` | switch, tighten | takes effect between two steps of a case | the next action obeys it |
| Views `routers/{metrics,briefing}.py`, `services/{metrics,reconciliation}.py` | none | nine reports over the same rows | each counts by another column: status, proof, arm | they count each payment once, the same in all of them |
| Seed, offline tools, dashboard | none | offline or presentation | – | – |

How they interact. The graph, the drainer and the boot pass call the executor;
the executor, the replay endpoint and the sweep write the same `outbox` rows;
the webhook task, the poll, the approvals endpoint and the sweep write the same
`recovery_cases` rows; nearly all of them append to one audit chain. There is no
shared memory to speak of: the components meet in one SQLite database (WAL, one
writer), through SQLAlchemy sessions with `autoflush=False`. Two facts of
`db/session.py` shape every model here:

* a read does not begin a transaction, the first INSERT or UPDATE does. So
  "load, decide, commit" is two atomic steps with a snapshot between them, and
  other sessions commit in that gap;
* the ORM writes only the columns whose new value differs from the *loaded*
  value. The operator `Written(now, seen, new)` of `Outbox` is that rule.

In the repository `OutboxExecutor`, `OutboxDrainer` and `Scheduler` are
constructed only by tests (their loops are not started by `main.py`). They are
modelled as their docstrings and tests deploy them: several coroutines, and more
than one process, on one database.

The hazards, each with its source line and the properties aimed at it, are
listed in `PROJECT.json`.

## 2. Plan

Order of work, the most important behaviour first.

1. `Outbox` with `ExactlyOnce` as its abstract specification, and `OutboxProofs`.
2. `AuditChain`: concurrent appends, reset, verification; `AuditChainProofs`.
3. `Settlement`: the live experiment, webhook ingestion and its background task,
   `attribute`, the poll, and the batch's clearing of cases; `SettlementProofs`.
4. `Approvals`: batches, reviewers, expiry branch and sweep on `approval_requests`
   and case status; `ApprovalsProofs`.
5. `StoppingRules` and `PolicyEngine`, pure, and `Firewall`, in which the facts
   they read change; `FirewallProofs`.
6. `Diagnosis`, pure, and `CaseGraph`, which composes it with `PolicyEngine`: the
   nodes, the bounds, exceptions, the kill switch, what batches and Test Mode
   requests commit; `CaseGraphProofs`.
7. `ModelGateway`: cache, quota, live adapter, fallback, with `GatewayProofs`.
8. `Reports`, pure, read from `CaseGraph`'s rows and, as `LiveReports`, from
   `Settlement`'s.

All of these are done. Which module stands on which:

    StoppingRules <- PolicyEngine <- Firewall
                     PolicyEngine, Diagnosis, Reports <- CaseGraph
    Settlement, Reports <- LiveReports
    Outbox <- (INSTANCE) ExactlyOnce

Every safety invariant and action property of the passing runs has its theorem (section
6); what is left to TLC is liveness.
What could still be modelled, of less weight: the event stream's bounded queues,
consent and message rendering, the rail-health counters (section 7).

## 3. Modules

### `Outbox`

State. `row` is the `outbox` table keyed by `reference_id` (a function of case
and attempt number, `db/ids.py`); `NONE` stands for no row. Of the times only
what the code compares is kept: `due` (`next_attempt_at` has passed) and `late`
(it lies after the case's `window_expires_at`). `links` is the provider's side.
`recorded` counts `RecoveryAction` rows, which share their commit with the
`ContactLedger` row. `dlq` is the list of dead letters of a row, `cancelled` the
references with an `outbox.deferral_cancelled` block, `over` the cases in a
terminal status. `work`, `todo`, `click` and `sweep` are what the coroutines
hold in memory, snapshots included; `Crash` forgets a worker's part.

Actions. `Dispatch`, `DrainOnce`, `ReconcileOnStartup` and `Rebuild` start an
execution; `PhaseOne`, `CreateLink`, `RefuseDuplicate`, `FindExisting`,
`FailTransiently` and `FailPermanently` are `execute` up to the provider's
answer; `Load` reads the row at the head of each closing transaction and
`PhaseTwo`, `ScheduleRetry`, `DeadLetter` and `MarkDead` commit it. `Abort` is
the `IntegrityError` that leaves `execute` (the second UNIQUE of the table) and
with it the pass. `ReplayLoad`/`ReplayCommit`/`ReplayLost` are the replay
endpoint and `SweepLoad`/`SweepCommit`/`SweepLost` the sweep; the `Lost` forms
are the index conflict inside `AuditChain.append`, which rolls the caller's
changes back. `EndCase`, `Elapse`, `ShutWindow` and `Release` are the case and
the clock.

Abstracted: amounts, payloads, error texts, HTTP codes, the length of back-off
(a row waits, then it is due), the contact-ledger row's content. No batch reset is here:
that `_clear` deletes a row with its case is in `CaseGraph` for the intents of Test Mode
requests and in `Settlement` for those of the experiment. The provider
refuses a second link for a reference; a transient failure may or may not have
created the link.

### `ExactlyOnce`

The promise of `OutboxExecutor`'s docstring as a state machine over sets of
references: an intent is committed, then at most one link is issued for it, then
it becomes known. `Outbox` implements it under the mapping in `Abstract`.

### `AuditChain`

State. `chain` is the committed table, `tx` each session's transaction (queue of
changes still to record, changes made in memory, blocks flushed but not
committed, the head it read), `writer` SQLite's write lock, `mutex` the
`asyncio.Lock` of each `AuditChain` object, `tampered` the history of corrupted
blocks. `InstanceOf` says which sessions share an `AuditChain` object: request
handlers build one each, so their lock excludes nobody; a `Scheduler` keeps one.

Actions. `Begin` is a handler that has changed its objects; `AcquireLock`,
`ReadHead`, `Conflict`, `Flush` are the body of `append`; `BusyTimeout` is
SQLite's `busy_timeout`; `AppendNext` and `Commit` are the caller. `Reset` is
the batch's `_clear` followed by `_record_carried_over`, `Tamper` the endpoint.
`Position`, `Broken`, `Valid` and `FirstDivergence` are `verify_blocks`.
SHA-256 is taken as free of collisions: a hash is the tuple of what was hashed.

### `Settlement`

State. `status` and `via` are the columns of `recovery_cases` that settlement
writes (`recovery_verified_by` and `_via` are always set together; `ABSENT` is no
row), `row` the status of the case's outbox row, `link` Razorpay's side. `task`
follows the one `payment_link.paid` event of a link: its `webhook_events` row
exists when it is not `none`, its background task is `queued`, then holds a
verdict (`count`, `organic`) that is not committed yet, and is `done`, or `lost`
with the process. `exp`, `poll` and `reset` are what the experiment, each poll and
the batch hold in memory. `late` are the cases whose window and grace are over and
`paidLate` those that were paid then: the window only has to be told apart from
its end. A case stopped by the firewall, whatever its terminal status, is
`STOPPED`.

A case is a number because its id is one: ids count on from the number of cases
that exist, so after a reset an id, and with it the arm and the reference, is used
again while the old link, event or poll is still about. Customers pay only a link
whose creation succeeded (`OPEN`); an `UNKNOWN` one was created by a call that
failed, and nobody was told its URL.

Actions. `StartExperiment`, `Persist`, `PersistCollides`, `CreateLink`,
`RecordLink`, `RecordFailure` and `ExperimentDies` are `workers/experiment.py`,
both arms. `Deliver` stores an event, `Decide` is the background task up to its
verdict about the case as loaded (`Found`, `Issued`, `Counts`,
`ResolvesOrganically`), `CommitVerdict` its commit. `PollList`, `PollAsk`,
`PollSettle`, `PollDone` and `PollDies` are `reconcile_outstanding`, and
`ReadPreserved`, `DeleteTheRest`, `ResetDies` the batch's `_clear`. `Pay` and
`WindowCloses` are the customer and the clock.

Abstracted: amounts (the case's own is recorded whatever the event says),
signatures and the replay window (they only decide whether an event arrives), the
audit blocks, whose interleavings are `AuditChain`'s: here the rollback inside
`append` is a fault that loses the change. A `PENDING` row is left alone, as in the
repository, where nothing starts the drainer.

### `LiveReports`

`Settlement` with `Reports` read from its rows (`LiveDb`): what the dashboard says
while webhooks, polls and resets are at work.

### `StoppingRules`, `PolicyEngine`

Pure. `S01` to `S12` are the rules of `guardrails/stopping_rules.py`, each from a
context to a verdict; `Evaluate` combines them (the worst decision, the latest hold,
the union of the reductions, the rule named by the order of authority), with
`InQuietHours` and `Release` for the quiet hours. `EvaluatePolicy` is
`evaluate_policy`: the sanitisers, the rupee cap, the clamps it records, the
authority ladder, approval by content hash, the token. Times are whole hours in
IST, percentages integers of which `Whole` make 100 %, money paise; `NaN` stands for
every value of a model that is not a number. An HMAC is taken as unforgeable: a
token is what it signs.

### `Firewall`

State. `ctx` is the `PolicyContext` of one case, `proposal` what a model last
proposed, `decision` the answer of the last evaluation, dropped as soon as anything
it was about changes. Actions: `Evaluation` is `policy_node`, `Approve` a reviewer's
approval of what was shown, `Propose` another proposal, and each fact the rules read
has an action that changes it. `HoldsEndOnTime` compares the holds with a reference
definition, the first hour at which nothing holds the message (`Free`).

### `Diagnosis`

Pure. `Classify` and `ClassifyAbandoned` are the rule table of
`agent/classifier.py`, `Merge` and `Routed` what `llm/routing.py` makes of a model's
answer, `SelectStrategy` and `Violates` the playbooks. An `error_reason` is the set
of groups of marker words found in it, since only that decides.

### `CaseGraph`

State. `facts` is what is true of each payment attempt and never changes; `cases`
the committed `RecoveryCase` with its `RecoveryAction` and `ApprovalRequest`;
`outbox` and `links` belong to Test Mode requests. A runner (a batch or a request) is
at a node of the graph or at a step of its own (`at`), holds a `RecoveryState`
(`run`) and, a batch, counters it carries from case to case (`batch`).

Actions. One per node (`Enrich` ... `Audit`), each followed by `Advance`, which is
`run_case` with its two bounds and `next_node`; `NodeRaises` is an adapter's exception
and `_finalise`. `Clear`, `LoadMerchants`, `SkipAttempt`, `BeginCase`, `PersistCase`,
`PersistLost`, `BatchComplete` are `run_batch`; `Recover`, `Refuse`, `CommitIntent`,
`CallRazorpay`, `RecordSent`, `RecordRefusal`, `UpdateNothing` are
`POST /testmode/recover`. `ToggleAutopilot` is the kill switch, `Die` the end of a process.

`Clear` deletes the whole table (`NoCases`): `_clear` spares only cases that Razorpay has
proven, and there is none in this module (`Settlement` has them). The cases of requests
go too, whatever its docstring says of "the cases this batch created", and by
`ondelete=CASCADE` with `foreign_keys=ON` so do their intents (`Cascaded`; the value
`"DELETED"` remembers that there was one). Links stay at Razorpay. A request whose row is
gone updates nothing: the ORM raises, and the request ends without having recorded what
Razorpay did (`UpdateNothing`). Hence `CasesAreAccountedFor` says of a request that case
and intent stand or go together and that no link precedes its intent, and not that every
link still has one (`LinksKeepTheirIntents`, which is false).

The contacts of a customer and the time of a promise are constants of the context
because no runner fills them in (a finding). A simulated customer pays or not
whatever was done. Two batches at once are allowed by the module, and the second
dies on the first id they share; the run has one, since `BudgetsHold` is about one.

### `Reports`

Pure. `Attribution`, `MoneyLedger`, `Overview`, `StoppingRuleCounts`, `Claims`,
`Proof`, `HoldoutReport` and `Briefing` are the endpoints of `routers/metrics.py` and
`routers/briefing.py` with the services they call, each as a function of the rows it
reads, by the column it reads. An endpoint is one snapshot; in the code each of its
SELECTs sees its own. The z-test is a parameter.

### `Approvals`

State. `approval` and `case` are the rows, the action's hash being the action
itself; `ledger` counts the audit blocks by verdict; `screen` is every card ever shown
to a reviewer, so that a page may be of any age. `req` and `sweep` are what the
sessions hold. `disturbed` is history: cases that two sessions were deciding at one
time, or whose change was lost to the rollback inside `append`.

Actions. `StartBatch` and `AskForApproval` are the batch, `ListPending` the list,
`LoadApproval`, `LoadCase`, `Commit` and `LoseDecision` the endpoint, `SelectExpired`,
`LoadFirstCase`, `ExpireAll` and `LoseExpiry` the sweep, of which the first flush takes
the write lock: only the first case is read before it.

### `ModelGateway`

State. The bucket (`tokens`, `last_refill`), the store of daily `counts`, the `cache`
and the `file` it is loaded from, and what each caller waits for. `admitted`,
`answered` and `started` are history. Actions: `Ask` is the cache in front, `Acquire`,
`Wake`, `TakeSlot` and `LeaveSlot` the limiter, `AskModel` the live adapter with its one
retry and its fallback, `Return` the way back through the cache, `Save` and `Restart`
the process. A prompt is a key. Time is in ticks, and the bucket counts in
`Minute`-ths of a request, so that refilling stays in integers.

## 4. Runs

Bounds are small but each makes the interesting case happen; every run explores
its whole state space.

| Run | Question | Bounds and why they are enough |
|---|---|---|
| `outbox_concurrent` | safety under full concurrency, and refinement | one row, two workers, one operator, one sweeper, two dispatches, one crash, one replay, budget 2. All interference is on one row; two workers give every pair of overlapping steps. Workers are interchangeable (symmetry; no liveness is checked here). 2.65 million states |
| `outbox_single` | what holds when only one worker runs, and liveness | two attempts of one case (for the second UNIQUE), budget 3, two crashes, two replays, so that a crash during recovery and a replay after a replay occur |
| `outbox_concurrent_drain` | *violation*: two drains of one row | two workers, one dispatch, nothing else |
| `audit_chain` | transactions, deadlock, reset | three sessions, two sharing an `AuditChain`: the smallest setting with both a lock-order deadlock and an index conflict that repeats; two retries instead of three |
| `audit_verify` | the verifier | up to three blocks and two corruptions at any moment: a first, a middle and a last block |
| `settlement` | who gets the credit, and that payments get settled | three cases, one held out, two experiments of two cases, one poll, one reset, one fault: enough for an id to be used again after a reset, for a webhook, a poll and a reset to meet on one case, and for a lost webhook. One poll, because two add no action that a webhook and a poll do not have. 1.09 million states |
| `settle_surfaces` | *violation*: the reports disagree about a proof | one experiment of two cases, no reset, no fault |
| `firewall` | what an authorised action may be | proposals on both sides of every bound and not numbers at all, amounts on both sides of every threshold, openings in which a contact or a promise holds, hours before, in and after quiet hours, a window that ends in them; two changes of facts between evaluations. `promise_freeze_h` and the percentages are small: only their order matters |
| `case_graph` | what the agent commits | an attempt of each kind (agreeing, conflicting and missing telemetry, every playbook, held out, at night, no marketing, a large order) before a plain one, so that the first spends what the second may need (a budget of one action a day); two launches, so that the second clears the table before, in and after a request, one request at the same time, one toggle; models that contradict, offend, answer nothing or raise. 0.69 million states |
| `approvals` | who decided, and does the case follow | two cases (one sweep takes both), two actions (a hash can be wrong), two requests, two batches (an id outlives its case), one commit lost. Symmetry; safety only |
| `approvals_double_click` | *violation*: one approval, two decisions | as before, no fault |
| `gateway` | quota, honesty of answers, every call answered | two requests a minute and three a day, days that are four ticks long and minutes of three, so that a full bucket, its refill and the day's limit each refuse a call and a caller who waits for a slot gets it; two callers, four calls, a restart, a cache that may be corrupt, with and without an API key. 0.78 million states |

`CHECK_DEADLOCK FALSE` in all of them: the bounds on dispatches, crashes,
replays and begins let every run stop, and an idle system is a legal end.

The model is deliberately the code's: where the code's own concurrency breaks a
property, the property is checked in the setting where it holds and the race is
a run of its own, or a finding. `OneRecordPerIntent` and `SentIsFinal` hold for one
worker (`outbox_single`) and fail with two; `EveryIntentResolves` exempts a row whose
retry counter collides with another row of its case (`Stuck`), which is what the
second UNIQUE does; `VerificationIsExact` is checked without resets;
`UndisturbedDecisionsAgree` says exactly when approval, case and ledger may differ;
`BudgetsHold` is about one batch at a time, because two carry separate counters;
`BudgetsAreExact` is about one process, from its start, because a restart forgets what
was spent; `PaidIsSettled` needs a poll whose limit covers every outstanding link.

### What the expected violations show

* `outbox_concurrent_drain`: `drain_once` is "safe to run concurrently with
  itself" for the payment link, not for the records: the status check of phase
  two reads a snapshot, so two passes write two `RecoveryAction` and two
  `ContactLedger` rows and spend two contacts of the customer's budget.
* `settle_surfaces`: a webhook's verdict that a payment was organic (paid after the
  window) is committed over a case a poll has just settled. Status says organic, the
  proof stays: the attribution and the claims count it, the ledger does not.
* `approvals_double_click`: the status of the approval is checked on a row read before
  the write transaction begins, and the UPDATE names only the primary key, so two
  clicks that overlap append two blocks, even one approval and one rejection.

### Disagreements without a run of their own

Each of these is stated as a formula in its module, TLC refutes it in the smallest
setting of that module's runs, and `PROJECT.json` quotes the line it contradicts. They
have no run of their own, to keep the list of runs to distinct questions.

| Formula | Module | What happens |
|---|---|---|
| `RefusedInsertHasARow` | `Outbox` | rows start at `attempt = 0` and `UNIQUE(case_id, action_type, attempt)` refuses the second attempt's intent while the first is at 0; `_phase_one` takes it for a lost race, finds no row and raises |
| `HeldUntilRelease` | `Outbox` | S-09's `send_after` is never read by the executor, which inserts the row as due and calls the provider at once |
| `BlockTellsTheTruth` | `AuditChain` | the rollback inside `append` discards the caller's change, the retry commits its block |
| `OnlyTamperingBreaksTheChain` | `AuditChain` | a session reads the head, `_clear` deletes the chain, the session inserts at the old index: the rebuilt chain starts in the middle and does not verify |
| `ProvenCaseSurvives` | `Settlement` | `_clear` reads which cases are proven before its first DELETE takes the write lock |
| `PaidIsSettled` with a `Limit` below the number of links | `Settlement` | a poll takes the first 50 of a query without an order; the same unpaid ones may be asked for ever |
| `OnePathWins`, `TerminalIsFinal` | `Settlement` | webhook and poll both commit; there is no `transition()` helper |
| `ListsAreDisjoint` | `LiveReports` | a payment is on both lists of `/metrics/claims` |
| `HumanDecisionStands` | `Approvals` | the sweep writes EXPIRED over a decision made after it read the row |
| `DiscountBudgetHolds` | `Firewall` | S-03's reduction is computed into a context of which only the class is read; the second discount goes out |
| `LinksKeepTheirIntents` | `CaseGraph` | a batch start deletes every case Razorpay has not proven; a Test Mode request's case and intent are among them, its link is not |
| `SwitchIsFelt` | `CaseGraph` | the merchants are loaded once per batch and the switch is copied into each case's state; S-12 sees the old value until the batch ends |
| `BlockedPaymentsAreLeftAlone` | `CaseGraph` | a RISK_BLOCKED payment is given NO_ACTION, passes, and is committed as acted on and monitored |
| `RestraintIsNoContact`, `QuietHoursAreQueued` | `CaseGraph` | the briefing says "I did not contact" of degraded actions that went out, and "queued" of deferred cases that are SUPPRESSED |
| `DayIsPersisted` | `ModelGateway` | the only quota store is in memory; a restart begins the day anew |

Also, by reading: the poll ignores the attribution window, which is why
`WebhookKeepsTheWindow` speaks of the webhook only, and a Test Mode intent whose payload
`"{}"` never parses aborts every drain that finds it due (payloads are not modelled). The
remaining findings in `PROJECT.json` are about code that is never called (`Scheduler`)
and values never passed (promises, contacts).

## 5. Fairness

`Outbox`: weak fairness of each worker's executor and drain steps together (the
drain loop runs for ever, `run_forever`), of an operator's and a sweeper's
commit once begun (a session that began ends), of `Elapse` and `ShutWindow`
(time passes). None for `Dispatch`, replays, sweeps, crashes or the end of a
case: nothing promises them. Failures are not unfair either: a provider may fail
until the budget is spent.

`AuditChain`: weak fairness of a session's own steps (a coroutine that can run is
run; a lock wait ends by `busy_timeout`), strong fairness of acquiring
`asyncio.Lock`, which wakes its waiters in turn. None for `Begin`, `Reset`,
`Tamper` or `Crash`.

`Settlement`: weak fairness of each poll, its start included. `reconcile` is a
command, not a service, so its being run again and again is an assumption about
the operator, and `PaidIsSettled` says what the code does with it. None for
deliveries, background tasks, the experiment or the batch: webhooks may be lost,
tasks die with the process.

`CaseGraph`: a runner that has started runs on, that is, it either stops for good or
moves again and again. It is weak fairness of the runner's own steps, written without
ENABLED because some step of a started runner is always enabled. None for starting a
batch or a request, for the kill switch or for deaths.

`ModelGateway`: weak fairness of time and of each call's own steps (a sleeper wakes; the
client has a timeout, so the provider answers or fails). None for new calls, saving
or restarts.

`Firewall` and `Approvals` state none and claim no liveness: nothing in the repository
promises that a held action is looked at again, or that anybody decides (the
`Scheduler` is started by tests only). `HoldsEndOnTime` says what happens if it is.

## 6. Proofs

`OutboxProofs` proves for every value of the constants that satisfy
`ParametersOK` (any number of cases, attempts, workers, operators, sweepers; any
bounds):

| Theorem | Property |
|---|---|
| `TypeCorrect` | `TypeOK` |
| `IntentComesFirst` | `IntentBeforeLink` |
| `SentNamesALink` | `SentIsTrue` |
| `DeadStaysVisible` | `DeadIsVisible` |
| `TerminalCasesStayQuiet` | `TerminalCasesGoQuiet` |
| `OutboxImplementsExactlyOnce` | `ImplementsExactlyOnce` |
| `OneRecord`, under `OneOfEach` | `OneRecordPerIntent` |
| `BudgetIsKept`, under `OneOfEach` | `BudgetHolds` |
| `SentStaysSent`, under `OneOfEach` | `SentIsFinal` |

The invariant. None of the properties is inductive: they speak of the tables,
and what an action writes depends on a snapshot some coroutine took earlier.
`IInv` adds what is known of work in hand: a worker past phase one works on a
committed row (`InHand`), a worker about to record holds a link the provider has
issued (`LinkInHand`), and recorded references have links (`Records`).
`DeadInv` adds that a cancellation in hand is of a finished case
(`CancelIsOver`), that an operator's dead letter exists (`EntryHeld`), and that
a row about to go dead under an operator's or a sweep's snapshot stays explained
(`DeadIsKept`). For each the proof has `Init => Inv`, one step per action of
`Next`, and a temporal step by PTL. `OutboxImplementsExactlyOnce` uses `IInv` to
show that each step maps to `Commit`, `Issue`, `Learn` or a stutter.

The last three theorems assume `OneOfEach`: one worker, one operator, no sweep, and a
graph that executes a reference once. That is a deployment with one process and its
start-up reconciler, the one `outbox_single` checks; the number of cases, attempts,
replays and crashes is left open. Without it the three are false: a second worker, a
second replay or a sweep commits what it computed from a snapshot of a row that has
become SENT meanwhile. `SingleInv` is the invariant. A row has a record exactly when it
is SENT (`Counted`) and one open dead letter at most, only while it is DEAD
(`Lettered`); the operator's click is of that letter (`Replaying`); and what the worker
has loaded or has on its list is still pending as it was loaded (`Handling`), which is
what a second actor would break.

`AuditChainProofs` proves for every value of the constants that satisfy
`AuditParametersOK` (any sessions, any sharing of `AuditChain` objects, any
number of retries, begins, corruptions and resets):

| Theorem | Property |
|---|---|
| `TypeCorrect` | `TypeOK`, which includes that only the holder of SQLite's write lock has uncommitted blocks |
| `NoChangeWithoutItsBlock` | `ChangeBringsItsBlock` |
| `CommittedBlocksStay` | `ChainOnlyGrows` |
| `VerifierIsExact` | `VerificationIsExact` |

The invariant `WInv` adds to the types what a session has in hand (`Staging`):
each change it would make visible is still in its queue or has its block among
the blocks it flushed, those blocks are not in the table yet, their indices are
free there, and a session about to commit holds the write lock. The write lock
is what makes the last two survive other sessions' commits: while one session
has flushed blocks nobody else adds to the table. `StepKeeps` and `LeaveKeeps`
state once what a step of one session must respect; each action then has a lemma
that cites one of them, except `Commit`, `Reset` and `Tamper`, which change the
table itself.

`VerifierIsExact` rests on `Chained`, of the table and of what each session sees of it:
there is a block for every index up to the last (`Dense`), each is as `append` stored it
but for what the tamper endpoint changed (`Sealed`), and holds the hash of its
predecessor if neither was corrupted (`Linked`). The delicate part is a session that has
read the head and not yet flushed: that block may be corrupted before its successor is
written, and the successor then holds a hash that is gone (`HeadFits`). The verifier
still names the corrupted one, because it comes first.

`SettlementProofs` proves for every value of the constants that satisfy
`SettlementParametersOK` (any number of cases, any held-out set, any experiment
size, polls, limit and bounds):

| Theorem | Property |
|---|---|
| `TypeCorrect` | `TypeOK` |
| `CreditIsEarned` | `CountedIsOursAndPaid` |
| `WindowIsKept` | `WebhookKeepsTheWindow` |

The two properties say nothing of a verdict that was reached and not committed,
or of a poll that has had its answer. `InHand` adds that: any event is about a paid
link, a verdict `count` in hand is about a treated case that was not paid late, a
poll has only treated cases on its list and is about to settle only a paid one
(which needs that control cases have no outbox row). `Credit` joins the two
properties with `paidLate \subseteq late`. `SInv` survives the reset, after which a
number stands for another case, because links are at Razorpay and are not taken
back: "paid" is stable, so a verdict about the case as it was is still right for
the case that has its number now.

`FirewallProofs` proves for every value of the constants that satisfy
`PolicyLimitsOK`, `MoneyLimitsOK` and `FirewallParametersOK` (any policy limits, any
proposals, any openings, any amounts up to the size at which the rupee ceiling is less
than half of the smallest percentage):

| Theorem | Property |
|---|---|
| `ActionsAreBounded` | `AppliedIsBounded` |
| `EveryReductionIsRecorded` | `ReductionsAreRecorded` |
| `EverybodyAgreed` | `NobodyIsOverruled` |
| `TypeCorrect` | `TypeOK` |
| `HeldActionsGoOutOnTime` | `HoldsEndOnTime` |

The invariant `FInv` says that facts and proposal are of the kinds the assumptions
allow, and that a decision that stands is `EvaluatePolicy` of the facts as they are.
The three properties then follow from lemmas about the pure operators, stated once:
what `Evaluate` must have found if it lets something act (each of the twelve rules
proceeded or degraded), that the cap rounded to the nearest percentage stays below the
one it replaces, that a value outside a bound leaves a clamp. `TypeCorrect` needs
one thing of the constant `None`, that it is no `AppliedAction`.

`HeldActionsGoOutOnTime` is about three evaluations in a row. `RulesProofs` shows what
the passing of time changes: no rule but S-06 begins to stop (`TimeStopsNothing`), the
hold that is given is the latest of those in force (`EndsAreTheHolds`, `LastHoldCounts`),
nothing is free before it ends (`HeldUntilTheLastEnd`), and only quiet hours can hold
what has been held to such an end, once (`QuietUntilRelease`, by cases on the hour of the
day and on whether quiet hours pass midnight). In the reference definition `Free` a
promise holds only if it has a date, as in S-10.

Three more theorems speak of the code without a property of a run:

- `RulesProofs!BadNewsNeverHelps`: `evaluate()` is monotone. `NoBetter(d, c)` says that
  context `d` is as `c` at the same hour, but for flags that speak against sending and for
  limits that are reached now. Then the decision for `d` is at least as severe; if both
  are holds, the one for `d` ends no sooner; and if `d` is not stopped, what was to be
  reduced for `c` (the discount, the class) is reduced for `d` too. With twelve rules that each find something
  different, and a combination that takes first the most severe and then the latest hold,
  this is not a matter of course. The proof compares rule by rule who stops
  (`RulesAskNoLess`), who holds until when (`HoldsStay`) and who reduces what
  (`ReductionsStay`), and the combination by cases on the worst answer.
- `FirewallProofs!BadNewsNeverFrees` is the same of the steps of a session: a payment, a
  closed case, an opt-out, a DND entry, a withdrawn consent, the kill switch, a spent
  budget and a further attempt leave blocked what was blocked, and held what was held at
  least as long. A further *contact* is not among them, because it would be false: S-04
  stops a case whose contact was counted but whose time is not known, and only holds it
  once the time is known, and a new contact makes it known.
- `FirewallProofs!ApprovalIsForOneAction`: `approved_action_hash` lets through the action
  that was shown to the reviewer, as it was shown. With any other hash the same proposal
  is escalated again and gets no token.

`ApprovalsProofs` proves for every value of the constants that satisfy
`ApprovalParametersOK` (any cases, actions, requests, TTL and bounds):

| Theorem | Property |
|---|---|
| `TypeCorrect` | `TypeOK` |
| `DecisionsAreAlwaysProven` | `DecisionsAreProven` |
| `CasesAlwaysFollow` | `CasesFollowDecisions` |
| `UndisturbedAlwaysAgree` | `UndisturbedDecisionsAgree` |

`AInv` adds to them what sessions know: no card, session or sweep is of a later batch
than the current one (`Past`); a request about to write a verdict of the current batch
has seen the card and read the clock in time (`Checked`); and a case nobody disturbed
and somebody holds is still PENDING and unrecorded, with one holder at most (`Lone`).

`GatewayProofs` proves for every value of the constants that satisfy
`GatewayParametersOK` (any callers, keys, quota, clock and bounds):

| Theorem | Property |
|---|---|
| `TypeCorrect` | `TypeOK` |
| `AnswersAreAlwaysHonest` | `AnswersAreHonest` |
| `BudgetsAreAlwaysExact` | `BudgetsAreExact` |

`GInv` adds that cache and file hold as recorded only what the model has said
(`Kept`), and that a call comes past the cache only with an API key, to the model only
with a slot, and has no source before it is answered (`CallOK`).

`BudgetsAreAlwaysExact` is about one process, from its start: `Restart` empties bucket,
counts and `admitted` alike, as the in-memory store does, and across it nothing is
claimed (`DayIsPersisted` would be, and is false). It is about every stretch of time since
then, of which the
bucket remembers nothing; `admitted`, the log of the times at which requests were let
through, does. `Accounts` relates the two: since any moment, tokens left and requests
admitted are at most a full bucket and its refill, and since the moment the bucket was
last full they are exactly that. The first half gives the bound on bursts, the second
that a refusal was earned; a refill that overflows the bucket loses tokens and with them
the old moment, but makes the present one exact. Requests of a day are counted by the
same log (`DaysCounted`).

`CaseGraphProofs` proves for every value of the constants that satisfy
`GraphLimitsOK`, `InputsOK`, `PolicyLimitsOK` and `MoneyLimitsOK` (any corpus whose
abandoned checkouts carry no business block and whose error reasons are sets of groups of
marker words, any answers of a model that have the shape of their schema, so name a
category there is, any policy, any number of runners; `None` is no row):

| Theorem | Property |
|---|---|
| `TypeCorrect` | `TypeOK` |
| `CasesAreAlwaysAccountedFor` | `CasesAreAccountedFor` |
| `OutcomesAreAlwaysHonest` | `OutcomesAreHonest` |
| `PlaybooksAreAlwaysKept` | `PlaybooksAreKept` |
| `SurfacesAlwaysAgree` | `SurfacesAgree` |
| `BudgetsAlwaysHold`, under `OneBatch` | `BudgetsHold` |

The first four are about committed rows only, and say nothing of a run in flight;
`GInv` is what makes them inductive. It says what each node may rely on when it is
reached (`Ready`): no treatment without the arm, at STRATEGISE a diagnosis no model has
turned (`DiagnosisKept`), at POLICY a strategy the playbook permits (`StrategyKept`), at
EXECUTE integers for discounts and none where a discount is no lever (`AppliedKept`),
and at the end a status that agrees with arm, attempt and diagnosis (`Final`). It also
says that a request calls Razorpay only behind an intent it has committed, which a batch
may have deleted since, with its case (`IntentsKept`), and of every row what the three
properties ask (`RowKept`). The lemmas it rests on are about
the pure modules: the two diagnoses the rule table is certain of (`CertainDiagnoses`),
the playbook's own strategy (`SelectStrategyIsKept`), the verdict of the firewall for
the held-out (`FirewallVerdict`), and, in `RulesProofs`, which statuses a stop can carry
(`StopsWithStatus`) and which hold is possible when neither a contact nor a promise is
known (`HoldsAreQuietHours`).

The two theorems about sums need induction over the rows. The library's induction rules
take the formula to be proved as a parameter, which no prover here can instantiate; so
`CaseGraphProofs` first proves them for sets (`NumbersByInduction`, `SubsetsByInduction`:
a set that holds the least and with each the next holds all), from the well-foundedness
of the naturals, and from them what the fold of FiniteSetsExt computes: that the function
it chooses exists and is the only one (`PartialSumsExist`, `PartialSumsAgree`), that a
total does not depend on the order (`SumByElement`), that disjoint parts are added up
apart (`TotalOfParts`), that elements can be counted class by class (`CountByClass`).

`SurfacesAlwaysAgree` then rests on `RowsBooked`: a row's amount recovered, its proof, its
waiting for a reviewer and its rule are what its status says. Each report reads another
of these columns, so each total is one of the same two, that of the cases recovered
(`Won`) and of those paid anyhow (`Organic`); the tile of interceptions counts rows, the
page of rules counts rule by rule, and `CountByClass` makes them equal because a row's
rule is one of the twelve (`VerdictIsNamed`, `RunsNamed`).

`BudgetsAlwaysHold` is about the whole batch, while each case is judged alone. `SpendInv`
carries the counters: a run holds the counters as they are, and where it is through the
firewall they leave room for one action more (`RunsInBudget`, `Room`), until the action
is counted; and nothing is among the rows that is not counted (`SpentIsCounted`), whether
the commit was lost or not. It assumes `OneBatch`, which is what `case_graph` checks.
Nothing in `run_batch` or its callers enforces it: a batch started while another runs
counts from zero, and with two elements in `Batches` TLC finds a day above its budget.
With both limits at zero the exposure is zero and not below zero, hence `given > 0` in
the property.

Model-checked only. Liveness (`EveryIntentResolves`, `NoLinkIsForgotten`,
`EverySessionEnds`, `PaidIsSettled`, `EveryRunEnds`, `EveryCallIsAnswered`) and anything
with ENABLED, which TLAPS does not reason about here. `Firewall`'s and `CaseGraph`'s pure
operators are proved about in `RulesProofs` and in the two proof modules, each as far as
a theorem needs it; of `Reports` only what `SurfacesAgree` names.

## 7. Not modelled

* Event stream (`routers/stream.py`): a bounded queue per client that drops the oldest
  entry; nothing in the core depends on its delivery.
* Consent and rendering: templates, escaping, channel formats. That consent is asked
  is in `StoppingRules`; the text of a message is not.
* Rail health, the retry curves and playbook texts: floating-point and data. No
  caller of the graph passes an alternative rail, so the graph's behaviour does not
  depend on it.
* Wilson bounds, the z-test, power and sample sizes, the cost report: floating-point
  statistics over numbers `Reports` supplies. The incremental estimate multiplies the
  lift by the mean treated amount and may therefore exceed the gross.
* Adversarial and simulation endpoints, benchmark, seed, command line tools: they call
  the modelled operations on prepared data, or write files offline.
* HTTP details, signatures, prompts, dashboards.

Known limits of what is modelled. Each SELECT of a report sees its own snapshot, and the
briefing computes the attribution twice; `Reports` reads one. `POST /policy` writes a
tightened policy nobody reads back. `policy_node` never passes `approved_action_hash`,
so an approved action cannot come out of `CaseGraph`; `Firewall` models the approval
because `evaluate_policy` accepts it. `RecoveryAction.message_class` is the proposal's
class also when S-08 degraded it.
