------------------------------- MODULE Outbox -------------------------------
(***************************************************************************)
(* The two-phase outbox that dispatches an authorised recovery action to   *)
(* the payment provider (tools/outbox.py), the drainer and start-up        *)
(* reconciler that retry its rows (workers/drainer.py), the dead-letter    *)
(* replay endpoint (routers/dlq.py) and the stale-deferral sweep           *)
(* (services/scheduler.py), all working on the same rows.                  *)
(*                                                                         *)
(* Each of these opens a session, loads a row, decides, and commits.  The  *)
(* load is not part of the writing transaction (SQLite begins one at the   *)
(* first INSERT or UPDATE), and the ORM writes only the columns whose new  *)
(* value differs from the loaded one, so a load and a commit are two steps *)
(* with a snapshot in between.                                             *)
(***************************************************************************)
EXTENDS Integers, Sequences

CONSTANTS
  Case,           \* recovery cases
  Rounds,         \* dispatches a case may have one after another (attempt_no)
  Deferred,       \* cases whose actions are authorised with a later send_after
  Worker,         \* coroutines that run the executor: graph, drainer, boot
  Operator,       \* sessions serving POST /dlq/{id}/replay
  Sweeper,        \* sessions running Scheduler.sweep
  MaxAttempts,    \* OutboxExecutor.max_attempts
  MaxDispatches,  \* bound: times the graph executes one reference
  MaxReplays,     \* bound: replay requests
  MaxCrashes      \* bound: crashes of a worker

ASSUME ParametersOK ==
  /\ Deferred \subseteq Case
  /\ Rounds \in Nat \ {0} /\ MaxAttempts \in Nat \ {0}
  /\ MaxDispatches \in Nat /\ MaxReplays \in Nat /\ MaxCrashes \in Nat

\* make_reference_id: a function of the case and of its attempt_no.
Ref == Case \X (0 .. Rounds - 1)

CaseOf(r)  == r[1]
RoundOf(r) == r[2]

VARIABLES
  row,        \* outbox: Ref -> the row, status "NONE" when absent
  links,      \* references for which the provider holds a live payment link
  recorded,   \* Ref -> number of RecoveryAction (and ContactLedger) rows
  dlq,        \* Ref -> statuses of its dead letters, oldest first
  cancelled,  \* references with an outbox.deferral_cancelled audit block
  over,       \* cases in a terminal status
  shut,       \* cases whose recovery window has closed
  held,       \* cases whose send_after has not arrived yet
  work,       \* Worker -> what the coroutine is doing
  todo,       \* Worker -> rows listed by drain_once and not yet handled
  click,      \* Operator -> the replay in progress
  sweep,      \* Sweeper -> rows loaded by _kill_stale_deferrals
  dispatches, replays, crashes   \* counters for the bounds

dbVars   == <<row, recorded, dlq, cancelled>>
timeVars == <<over, shut, held>>
bounds   == <<dispatches, replays, crashes>>
vars     == <<dbVars, links, timeVars, work, todo, click, sweep, bounds>>

Status == {"NONE", "PENDING", "SENT", "DEAD"}

\* due: next_attempt_at has passed.  late: it lies after window_expires_at.
Row == [status: Status, attempt: Nat, due: BOOLEAN, late: BOOLEAN]

NoRow == [status |-> "NONE", attempt |-> 0, due |-> FALSE, late |-> FALSE]

Idle == [at |-> "idle"]
Down == [at |-> "down"]

\* The transactions of the executor and drainer that load a row and commit.
Txn     == {"record", "retry", "bury", "cancel"}
Step    == {"intent", "call", "lookup"} \cup Txn
Busy    == [at: Step, ref: Ref]
Loaded  == [at: {"commit"}, txn: Txn, ref: Ref, seen: Status, attempt: Nat]

Work  == {Idle, Down} \cup Busy \cup Loaded
Click == {Idle} \cup [at: {"replay"}, ref: Ref, entry: Nat, seen: Status]

(***************************************************************************)
(* The value a column holds after the flush of an object loaded with value *)
(* `seen' and assigned `new', when the table holds `now'.                  *)
(***************************************************************************)
Written(now, seen, new) == IF seen = new THEN now ELSE new

Pending(r) == row[r].status = "PENDING"

MutDueAnyStatus   == {r \in Ref : row[r].status # "NONE" /\ row[r].due}
MutDueFirstTimers == {r \in Ref : Pending(r) /\ row[r].due /\ row[r].attempt = 0}
Due        == {r \in Ref : Pending(r) /\ row[r].due}
Waiting    == {r \in Ref : Pending(r) /\ ~row[r].due}

\* UNIQUE (case_id, action_type, attempt): another row of the case holds n.
Clash(r, n) ==
  \E q \in Ref \ {r} : CaseOf(q) = CaseOf(r) /\ row[q].status # "NONE" /\ row[q].attempt = n

At(w, step)    == work[w].at = step
Loading(w, t)  == At(w, "commit") /\ work[w].txn = t
GoTo(w, step)  == work' = [work EXCEPT ![w] = [at |-> step, ref |-> work[w].ref]]
Finish(w)      == work' = [work EXCEPT ![w] = Idle]

-----------------------------------------------------------------------------
Init ==
  /\ row = [r \in Ref |-> NoRow]
  /\ links = {} /\ cancelled = {} /\ over = {} /\ shut = {}
  /\ recorded = [r \in Ref |-> 0]
  /\ dlq = [r \in Ref |-> <<>>]
  /\ held = Deferred
  /\ work = [w \in Worker |-> Idle]
  /\ todo = [w \in Worker |-> {}]
  /\ click = [o \in Operator |-> Idle]
  /\ sweep = [s \in Sweeper |-> {}]
  /\ dispatches = [r \in Ref |-> 0] /\ replays = 0 /\ crashes = 0

-----------------------------------------------------------------------------
(* Where an execution starts: the graph, the drainer, the start-up pass.   *)

\* execute() called by the EXECUTE node for a case that is not terminal; a
\* recorded dispatch is what moves the case to its next attempt_no.
Dispatch(w, r) ==
  /\ At(w, "idle") /\ todo[w] = {}
  /\ CaseOf(r) \notin over /\ dispatches[r] < MaxDispatches
  /\ RoundOf(r) > 0 => recorded[<<CaseOf(r), RoundOf(r) - 1>>] > 0
  /\ dispatches' = [dispatches EXCEPT ![r] = @ + 1]
  /\ work' = [work EXCEPT ![w] = [at |-> "intent", ref |-> r]]
  /\ UNCHANGED <<dbVars, links, timeVars, todo, click, sweep, replays, crashes>>

\* drain_once() lists the due rows; the list is not read again.
DrainOnce(w) ==
  /\ At(w, "idle") /\ todo[w] = {} /\ Due # {}
  /\ todo' = [todo EXCEPT ![w] = Due]
  /\ UNCHANGED <<dbVars, links, timeVars, work, click, sweep, bounds>>

\* reconcile_on_startup() adds the rows older than stale_after_s, in backoff or not.
ReconcileOnStartup(w) ==
  /\ At(w, "down")
  /\ \E stale \in SUBSET Waiting : todo' = [todo EXCEPT ![w] = Due \cup stale]
  /\ Finish(w)
  /\ UNCHANGED <<dbVars, links, timeVars, click, sweep, bounds>>

MutTrustList(w, r) ==
  /\ At(w, "idle") /\ r \in todo[w]
  /\ todo' = [todo EXCEPT ![w] = @ \ {r}]
  /\ work' = [work EXCEPT ![w] = [at |-> "intent", ref |-> r]]
  /\ UNCHANGED <<dbVars, links, timeVars, click, sweep, bounds>>

\* _rebuild_state() reads the case again, not the row.
Rebuild(w, r) ==
  /\ At(w, "idle") /\ r \in todo[w]
  /\ todo' = [todo EXCEPT ![w] = @ \ {r}]
  /\ work' = [work EXCEPT ![w] = [at |-> IF CaseOf(r) \in over THEN "cancel" ELSE "intent", ref |-> r]]
  /\ UNCHANGED <<dbVars, links, timeVars, click, sweep, bounds>>

-----------------------------------------------------------------------------
(* The executor.                                                           *)

MutCallFirst(w) ==
  /\ At(w, "intent")
  /\ GoTo(w, "call")
  /\ UNCHANGED <<dbVars, links, timeVars, todo, click, sweep, bounds>>

MutInsertSending(w) ==
  /\ At(w, "intent")
  /\ row' = [row EXCEPT ![work[w].ref] = [@ EXCEPT !.status = "SENDING"]]
  /\ GoTo(w, "call")
  /\ UNCHANGED <<links, recorded, dlq, cancelled, timeVars, todo, click, sweep, bounds>>

\* The row is inserted PENDING and due; an existing row is reused whatever its
\* status, also when the UNIQUE on reference_id reports it only at the INSERT.
PhaseOne(w) ==
  LET r == work[w].ref IN
  /\ At(w, "intent")
  /\ IF row[r].status = "NONE"
     THEN /\ ~Clash(r, 0)
          /\ row' = [row EXCEPT ![r] = [status |-> "PENDING", attempt |-> 0, due |-> TRUE,
                                        late |-> CaseOf(r) \in shut]]
     ELSE UNCHANGED row
  /\ GoTo(w, "call")
  /\ UNCHANGED <<links, recorded, dlq, cancelled, timeVars, todo, click, sweep, bounds>>

CreateLink(w) ==
  /\ At(w, "call") /\ work[w].ref \notin links
  /\ links' = links \cup {work[w].ref}
  /\ GoTo(w, "record")
  /\ UNCHANGED <<dbVars, timeVars, todo, click, sweep, bounds>>

MutDuplicateIsDone(w) ==
  /\ At(w, "call") /\ work[w].ref \in links
  /\ Finish(w)
  /\ UNCHANGED <<dbVars, links, timeVars, todo, click, sweep, bounds>>

\* DuplicateReference: the provider refuses a second link for the reference.
RefuseDuplicate(w) ==
  /\ At(w, "call") /\ work[w].ref \in links
  /\ GoTo(w, "lookup")
  /\ UNCHANGED <<dbVars, links, timeVars, todo, click, sweep, bounds>>

FindExisting(w) ==
  /\ At(w, "lookup")
  /\ GoTo(w, "record")
  /\ UNCHANGED <<dbVars, links, timeVars, todo, click, sweep, bounds>>

MutTimeoutIsSuccess(w) ==
  /\ At(w, "call")
  /\ links' \in {links, links \cup {work[w].ref}}
  /\ GoTo(w, "record")
  /\ UNCHANGED <<dbVars, timeVars, todo, click, sweep, bounds>>

\* ProviderRetryable: a timeout may hide a link that was created, and a link
\* reported as duplicate may not be retrievable.
FailTransiently(w) ==
  /\ \/ At(w, "call") /\ links' \in {links, links \cup {work[w].ref}}
     \/ At(w, "lookup") /\ UNCHANGED links
  /\ GoTo(w, "retry")
  /\ UNCHANGED <<dbVars, timeVars, todo, click, sweep, bounds>>

MutRecordRefusal(w) ==
  /\ At(w, "call") \/ At(w, "lookup")
  /\ GoTo(w, "record")
  /\ UNCHANGED <<dbVars, links, timeVars, todo, click, sweep, bounds>>

\* ProviderPermanent: no link comes of this call.
FailPermanently(w) ==
  /\ At(w, "call") \/ At(w, "lookup")
  /\ GoTo(w, "bury")
  /\ UNCHANGED <<dbVars, links, timeVars, todo, click, sweep, bounds>>

\* session.get(Outbox, id) at the head of each closing transaction.  A row
\* already SENT ends phase two here.
Load(w) ==
  LET r == work[w].ref IN
  /\ work[w].at \in Txn
  /\ IF At(w, "record") /\ row[r].status = "SENT"
     THEN Finish(w)
     ELSE work' = [work EXCEPT ![w] = [at |-> "commit", txn |-> work[w].at, ref |-> r,
                                       seen |-> row[r].status, attempt |-> row[r].attempt]]
  /\ UNCHANGED <<dbVars, links, timeVars, todo, click, sweep, bounds>>

MutForgetStatus(w) ==
  /\ Loading(w, "record")
  /\ recorded' = [recorded EXCEPT ![work[w].ref] = @ + 1]
  /\ Finish(w)
  /\ UNCHANGED <<row, links, dlq, cancelled, timeVars, todo, click, sweep, bounds>>

PhaseTwo(w) ==
  LET r == work[w].ref IN
  /\ Loading(w, "record")
  /\ row' = [row EXCEPT ![r].status = Written(@, work[w].seen, "SENT")]
  /\ recorded' = [recorded EXCEPT ![r] = @ + 1]
  /\ Finish(w)
  /\ UNCHANGED <<links, dlq, cancelled, timeVars, todo, click, sweep, bounds>>

MutNoDeadLetter(w) ==
  /\ row' = [row EXCEPT ![work[w].ref].status = Written(@, work[w].seen, "DEAD"),
                        ![work[w].ref].attempt = work[w].attempt + 1]
  /\ UNCHANGED dlq

\* The row goes DEAD and its dead letter is inserted in the same commit.
CommitDead(w) ==
  LET r == work[w].ref IN
  /\ ~Clash(r, work[w].attempt + 1)
  /\ row' = [row EXCEPT ![r].status = Written(@, work[w].seen, "DEAD"),
                        ![r].attempt = work[w].attempt + 1]
  /\ dlq' = [dlq EXCEPT ![r] = Append(@, "OPEN")]

MutSpentLate(w) == work[w].attempt >= MaxAttempts

\* The failure about to be counted is the last the budget allows.
Spent(w) == work[w].attempt + 1 >= MaxAttempts

\* _schedule_retry: the budget decides between back-off and dead letter.
ScheduleRetry(w) ==
  LET r == work[w].ref IN
  /\ Loading(w, "retry")
  /\ \/ Spent(w) /\ CommitDead(w)
     \/ /\ ~Spent(w) /\ ~Clash(r, work[w].attempt + 1)
        /\ \E late \in BOOLEAN :
             /\ CaseOf(r) \in shut => late
             /\ row' = [row EXCEPT ![r] = [status |-> Written(@.status, work[w].seen, "PENDING"),
                                           attempt |-> work[w].attempt + 1,
                                           due |-> FALSE, late |-> late]]
        /\ UNCHANGED dlq
  /\ Finish(w)
  /\ UNCHANGED <<links, recorded, cancelled, timeVars, todo, click, sweep, bounds>>

\* _dead_letter after ProviderPermanent: no further attempt.
DeadLetter(w) ==
  /\ Loading(w, "bury")
  /\ CommitDead(w)
  /\ Finish(w)
  /\ UNCHANGED <<links, recorded, cancelled, timeVars, todo, click, sweep, bounds>>

\* _mark_dead: the case is terminal, so the row goes DEAD with no dead letter.
MarkDead(w) ==
  LET r == work[w].ref IN
  /\ Loading(w, "cancel")
  /\ row' = [row EXCEPT ![r].status = Written(@, work[w].seen, "DEAD")]
  /\ Finish(w)
  /\ UNCHANGED <<links, recorded, dlq, cancelled, timeVars, todo, click, sweep, bounds>>

\* An IntegrityError that is not about the reference_id leaves execute() and
\* with it the whole pass: nothing is written and the rest of the list dropped.
Abort(w) ==
  LET r == work[w].ref IN
  /\ \/ At(w, "intent") /\ row[r].status = "NONE" /\ Clash(r, 0)
     \/ /\ Loading(w, "retry") \/ Loading(w, "bury")
        /\ Clash(r, work[w].attempt + 1)
  /\ Finish(w)
  /\ todo' = [todo EXCEPT ![w] = {}]
  /\ UNCHANGED <<dbVars, links, timeVars, click, sweep, bounds>>

\* The process stops between two steps; what was not committed is lost.
Crash(w) ==
  /\ ~At(w, "down") /\ crashes < MaxCrashes
  /\ crashes' = crashes + 1
  /\ work' = [work EXCEPT ![w] = Down]
  /\ todo' = [todo EXCEPT ![w] = {}]
  /\ UNCHANGED <<dbVars, links, timeVars, click, sweep, dispatches, replays>>

-----------------------------------------------------------------------------
(* The dead-letter queue and the sweep.                                    *)

\* replay() reads the dead letter (409 when REPLAYED) and then its row.
ReplayLoad(o, r, i) ==
  /\ click[o] = Idle /\ replays < MaxReplays
  /\ i \in DOMAIN dlq[r] /\ dlq[r][i] = "OPEN"
  /\ replays' = replays + 1
  /\ click' = [click EXCEPT ![o] = [at |-> "replay", ref |-> r, entry |-> i,
                                    seen |-> row[r].status]]
  /\ UNCHANGED <<dbVars, links, timeVars, work, todo, sweep, dispatches, crashes>>

\* attempt is not reset: a replayed row gets one more failure, not a new budget.
ReplayCommit(o) ==
  LET r == click[o].ref IN
  /\ click[o] # Idle
  /\ row' = [row EXCEPT ![r].status = Written(@, click[o].seen, "PENDING"),
                        ![r].due = TRUE, ![r].late = CaseOf(r) \in shut]
  /\ dlq' = [dlq EXCEPT ![r][click[o].entry] = "REPLAYED"]
  /\ click' = [click EXCEPT ![o] = Idle]
  /\ UNCHANGED <<links, recorded, cancelled, timeVars, work, todo, sweep, bounds>>

\* The audit append of replay() met another writer's block: its rollback drops
\* both updates, and only a block that claims the replay is committed.
ReplayLost(o) ==
  /\ click[o] # Idle
  /\ click' = [click EXCEPT ![o] = Idle]
  /\ UNCHANGED <<dbVars, links, timeVars, work, todo, sweep, bounds>>

\* _kill_stale_deferrals selects only rows that are still waiting.
SweepLoad(s) ==
  LET stale == {r \in Waiting : CaseOf(r) \in over \/ row[r].late} IN
  /\ sweep[s] = {} /\ stale # {}
  /\ sweep' = [sweep EXCEPT ![s] = stale]
  /\ UNCHANGED <<dbVars, links, timeVars, work, todo, click, bounds>>

SweepCommit(s) ==
  /\ sweep[s] # {}
  /\ row' = [r \in Ref |-> IF r \in sweep[s] THEN [row[r] EXCEPT !.status = "DEAD"] ELSE row[r]]
  /\ cancelled' = cancelled \cup sweep[s]
  /\ sweep' = [sweep EXCEPT ![s] = {}]
  /\ UNCHANGED <<links, recorded, dlq, timeVars, work, todo, click, bounds>>

\* The same conflict in the sweep: no row changes, and the next row's expired
\* attributes end the sweep, so a block is committed only for a single row.
SweepLost(s) ==
  /\ sweep[s] # {}
  /\ cancelled' = cancelled \cup {r \in sweep[s] : sweep[s] = {r}}
  /\ sweep' = [sweep EXCEPT ![s] = {}]
  /\ UNCHANGED <<row, links, recorded, dlq, timeVars, work, todo, click, bounds>>

-----------------------------------------------------------------------------
(* The case and the clock.                                                 *)

\* A settlement, an approval or a stopping rule ends the case.
EndCase(c) ==
  /\ c \notin over
  /\ over' = over \cup {c}
  /\ UNCHANGED <<dbVars, links, shut, held, work, todo, click, sweep, bounds>>

\* now passes next_attempt_at; the window shuts first if it ends before that.
Elapse(r) ==
  /\ r \in Waiting /\ (row[r].late => CaseOf(r) \in shut)
  /\ row' = [row EXCEPT ![r].due = TRUE]
  /\ UNCHANGED <<links, recorded, dlq, cancelled, timeVars, work, todo, click, sweep, bounds>>

ShutWindow(c) ==
  /\ c \notin shut
  /\ shut' = shut \cup {c}
  /\ row' = [r \in Ref |-> IF CaseOf(r) = c /\ r \in Waiting
                           THEN [row[r] EXCEPT !.late = TRUE] ELSE row[r]]
  /\ UNCHANGED <<links, recorded, dlq, cancelled, over, held, work, todo, click, sweep, bounds>>

Release(c) ==
  /\ c \in held
  /\ held' = held \ {c}
  /\ UNCHANGED <<dbVars, links, over, shut, work, todo, click, sweep, bounds>>

-----------------------------------------------------------------------------
Closing(w) == PhaseTwo(w) \/ ScheduleRetry(w) \/ DeadLetter(w) \/ MarkDead(w)

Execute(w) ==
  \/ PhaseOne(w) \/ CreateLink(w) \/ RefuseDuplicate(w) \/ FindExisting(w)
  \/ FailTransiently(w) \/ FailPermanently(w) \/ Load(w) \/ Closing(w) \/ Abort(w)

Drain(w) == DrainOnce(w) \/ ReconcileOnStartup(w) \/ \E r \in Ref : Rebuild(w, r)

Next ==
  \/ \E w \in Worker : Execute(w) \/ Drain(w) \/ Crash(w)
  \/ \E w \in Worker, r \in Ref : Dispatch(w, r)
  \/ \E o \in Operator : ReplayCommit(o) \/ ReplayLost(o)
  \/ \E o \in Operator, r \in Ref : \E i \in DOMAIN dlq[r] : ReplayLoad(o, r, i)
  \/ \E s \in Sweeper : SweepLoad(s) \/ SweepCommit(s) \/ SweepLost(s)
  \/ \E r \in Ref : Elapse(r)
  \/ \E c \in Case : EndCase(c) \/ ShutWindow(c) \/ Release(c)

Spec == Init /\ [][Next]_vars

\* The drain loop runs for ever, a session that began ends, and time passes.
Fairness ==
  /\ \A w \in Worker : WF_vars(Execute(w) \/ Drain(w))
  /\ \A o \in Operator : WF_vars(ReplayCommit(o) \/ ReplayLost(o))
  /\ \A s \in Sweeper : WF_vars(SweepCommit(s) \/ SweepLost(s))
  /\ \A r \in Ref : WF_vars(Elapse(r))
  /\ \A c \in Case : WF_vars(ShutWindow(c))

FairSpec == Spec /\ Fairness

-----------------------------------------------------------------------------
(* Properties.                                                             *)

\* Types of all variables; a worker's snapshot and an operator's are well formed.
TypeOK ==
  /\ row \in [Ref -> Row]
  /\ links \subseteq Ref /\ cancelled \subseteq Ref
  /\ over \subseteq Case /\ shut \subseteq Case /\ held \subseteq Case
  /\ recorded \in [Ref -> Nat]
  /\ dlq \in [Ref -> Seq({"OPEN", "REPLAYED"})]
  /\ work \in [Worker -> Work]
  /\ todo \in [Worker -> SUBSET Ref]
  /\ click \in [Operator -> Click]
  /\ sweep \in [Sweeper -> SUBSET Ref]
  /\ dispatches \in [Ref -> Nat] /\ replays \in Nat /\ crashes \in Nat

\* "reference_id is committed before the call" (_phase_one): whatever crashes
\* and races happen, the provider holds no link whose reference has no row.
IntentBeforeLink == \A r \in links : row[r].status # "NONE"

\* A row says SENT only of a link the provider holds, and only together with
\* its RecoveryAction and ContactLedger rows (_phase_two is one commit).
SentIsTrue ==
  \A r \in Ref : row[r].status = "SENT" => r \in links /\ recorded[r] > 0

\* "Never silently discarded" (_dlq_row): a DEAD row has a dead letter still
\* open to replay, or its case is over, or a sweep audited its cancellation.
DeadIsVisible ==
  \A r \in Ref : row[r].status = "DEAD" =>
    \/ \E i \in DOMAIN dlq[r] : dlq[r][i] = "OPEN"
    \/ CaseOf(r) \in over \/ r \in cancelled

\* The graph, the drainer and the boot pass between them record an intent's
\* dispatch, and spend a contact of the customer's budget, once.
OneRecordPerIntent == \A r \in Ref : recorded[r] <= 1

\* What was sent stays SENT: no retry, replay or sweep takes a row back.
SentIsFinal ==
  [][\A r \in Ref : row[r].status = "SENT" => row'[r].status = "SENT"]_vars

Replayed(r) == \E i \in DOMAIN dlq[r] : dlq[r][i] = "REPLAYED"

\* _schedule_retry ends: without a replay no row waits for a further attempt
\* once its budget is spent, and each failure is counted.
BudgetHolds ==
  \A r \in Ref : ~Replayed(r) =>
    /\ row[r].attempt <= MaxAttempts
    /\ Pending(r) => row[r].attempt < MaxAttempts

\* Nobody is past the check of the case and about to call the provider.
Quiet(r) == \A w \in Worker : work[w].at \in {"intent", "call"} => work[w].ref # r

\* _rebuild_state: once a case is over and the executions that began before
\* have left, no drain, boot pass or replay starts another provider call.
TerminalCasesGoQuiet ==
  [][\A r \in Ref : CaseOf(r) \in over /\ Quiet(r) =>
       Quiet(r)' /\ (r \in links' <=> r \in links)]_vars

\* No link is created before the send_after the firewall authorised (S-09).
HeldUntilRelease ==
  [][\A r \in Ref : r \in links' \ links => CaseOf(r) \notin held]_vars

Abstract == INSTANCE ExactlyOnce WITH
  intent <- {r \in Ref : row[r].status # "NONE"},
  issued <- links,
  known  <- {r \in Ref : recorded[r] > 0}

\* "Exactly once, or not at all" (OutboxExecutor): intent, link and record
\* follow one another for each reference, and none is ever taken back.
ImplementsExactlyOnce == Abstract!Spec

\* The next failure of r cannot be counted: its attempt number is taken.
Stuck(r) == Clash(r, row[r].attempt + 1)

\* Every committed intent is resolved, sent or dead, unless its retries can no
\* longer be counted: the drain loop, back-off and boot pass leave none behind.
EveryIntentResolves ==
  \A r \in Ref : Pending(r) ~> row[r].status \in {"SENT", "DEAD"} \/ Stuck(r)

\* "would mean the UNIQUE lied" (_phase_one): when the INSERT of an intent is
\* refused, a row with its reference_id is there to be found.
RefusedInsertHasARow ==
  \A w \in Worker : At(w, "intent") =>
    row[work[w].ref].status # "NONE" \/ ~Clash(work[w].ref, 0)

\* A link the provider holds is learned of locally, or its row is dead or can
\* no longer be counted: a crash between the call and phase two loses nothing.
NoLinkIsForgotten ==
  \A r \in Ref : r \in links ~> recorded[r] > 0 \/ row[r].status = "DEAD" \/ Stuck(r)
=============================================================================
