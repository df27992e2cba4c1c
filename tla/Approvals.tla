----------------------------- MODULE Approvals -----------------------------
(***************************************************************************)
(* Actions that wait for a human: the approvals a batch leaves behind      *)
(* (workers/batch.py), the endpoint that decides them                      *)
(* (routers/approvals.py, security/auth.py) and the sweep that expires     *)
(* them (services/scheduler.py; only the tests call it).                   *)
(*                                                                         *)
(* A session reads what is committed at that moment and takes SQLite's     *)
(* write lock with its first flush, so that others commit between its      *)
(* reads and its commit, which writes the columns it changed.              *)
(***************************************************************************)
EXTENDS Integers

CONSTANTS
  Case,       \* cases that a batch escalates
  Action,     \* policy_applied: what the action would do; its hash is itself
  Request,    \* POST /approvals/{id}/action
  TTL,        \* approval_ttl_minutes
  None,       \* no row, no time
  MaxTime, MaxRuns, MaxFaults   \* bounds

Verdict == {"APPROVED", "REJECTED", "EXPIRED"}
Status  == {"AWAITING_APPROVAL", "STRATEGY_FORMED", "REJECTED", "EXPIRED"}
Row     == [status : Verdict \cup {"PENDING"}, action : Action, expires : Nat,
            reviewed_at : Nat \cup {None}]

ASSUME ApprovalParametersOK ==
  /\ TTL \in Nat \ {0} /\ None \notin Nat \cup Status \cup Row \cup Case
  /\ MaxTime \in Nat /\ MaxRuns \in Nat /\ MaxFaults \in Nat

VARIABLES
  now,
  batch,      \* the batch: its number, its time
  approval,   \* Case -> its ApprovalRequest; the id is the case and the batch
  case,       \* Case -> RecoveryCase.status
  ledger,     \* Case -> how many audit blocks say it was approved, rejected, expired
  screen,     \* what reviewers were shown, by list_pending
  req, sweep, \* sessions
  disturbed,  \* history: cases that two sessions decided at a time, or whose
              \* change was lost to AuditChain.append's rollback
  faults

vars == <<now, batch, approval, case, ledger, screen, req, sweep, disturbed, faults>>

NoBlocks == [c \in Case |-> [v \in Verdict |-> 0]]

Idle     == [at |-> "idle", case |-> None, batch |-> 0, status |-> "EXPIRED", time |-> 0,
             moves |-> FALSE]
Answered == [Idle EXCEPT !.at = "answered"]
Asleep   == [at |-> "idle", todo |-> {}, batch |-> 0, time |-> 0, first |-> None,
             moves |-> FALSE]

Init ==
  /\ now = 0 /\ batch = [no |-> 0, time |-> 0]
  /\ approval = [c \in Case |-> None] /\ case = [c \in Case |-> None]
  /\ ledger = NoBlocks /\ screen = {}
  /\ req = [r \in Request |-> Idle] /\ sweep = Asleep
  /\ disturbed = {} /\ faults = 0

\* Approvals that a session loaded as PENDING and will write.
Held == {c \in Case : \E r \in Request : req[r].at \in {"case", "write"} /\ req[r].case = c}
        \cup sweep.todo

\* A block that says so of each of the cases.
Record(C, v) == [c \in Case |-> [ledger[c] EXCEPT ![v] = @ + IF c \in C THEN 1 ELSE 0]]

\* The row as the session loaded it is still there: otherwise its UPDATE matches
\* no row, and the session fails.
Same(c, no) == approval[c] # None /\ batch.no = no

-----------------------------------------------------------------------------
(* The batch.                                                              *)

Tick ==
  /\ now < MaxTime /\ now' = now + 1
  /\ UNCHANGED <<batch, approval, case, ledger, screen, req, sweep, disturbed, faults>>

MutKeepCases ==
  /\ batch.no < MaxRuns /\ batch' = [no |-> batch.no + 1, time |-> now]
  /\ approval' = [c \in Case |-> None]
  /\ ledger' = NoBlocks /\ disturbed' = {}
  /\ UNCHANGED <<now, case, screen, req, sweep, faults>>

\* _clear: approvals go with their cases, and the chain begins anew.
StartBatch ==
  /\ batch.no < MaxRuns /\ batch' = [no |-> batch.no + 1, time |-> now]
  /\ approval' = [c \in Case |-> None] /\ case' = [c \in Case |-> None]
  /\ ledger' = NoBlocks /\ disturbed' = {}
  /\ UNCHANGED <<now, screen, req, sweep, faults>>

\* The TTL counts from the start of the batch.
AskForApproval(c) ==
  /\ batch.no > 0 /\ case[c] = None
  /\ case' = [case EXCEPT ![c] = "AWAITING_APPROVAL"]
  /\ \E a \in Action :
       approval' = [approval EXCEPT ![c] =
         [status |-> "PENDING", action |-> a, expires |-> batch.time + TTL,
          reviewed_at |-> None]]
  /\ UNCHANGED <<now, batch, ledger, screen, req, sweep, disturbed, faults>>

-----------------------------------------------------------------------------
(* Reviewers.                                                              *)

\* Expired ones are listed too, and said to be expired.
ListPending ==
  /\ screen' = screen \cup {[case |-> c, batch |-> batch.no, action |-> approval[c].action] :
                              c \in {d \in Case : approval[d] # None
                                                  /\ approval[d].status = "PENDING"}}
  /\ screen' # screen
  /\ UNCHANGED <<now, batch, approval, case, ledger, req, sweep, disturbed, faults>>

Decide(r, c, status, step) ==
  req' = [req EXCEPT ![r] = [Idle EXCEPT !.at = step, !.case = c, !.batch = batch.no,
                                         !.status = status, !.time = now]]

MutNoStatusCheck(r) ==
  /\ req[r].at = "idle"
  /\ \E card, other \in screen, status \in {"APPROVED", "REJECTED"} :
       IF ~Same(card.case, card.batch)
       THEN req' = [req EXCEPT ![r] = Answered]
       ELSE IF approval[card.case].expires <= now
       THEN Decide(r, card.case, "EXPIRED", "write")
       ELSE IF other.action # approval[card.case].action
       THEN req' = [req EXCEPT ![r] = Answered]
       ELSE Decide(r, card.case, status, "case")
  /\ disturbed' = disturbed \cup {c \in Held : req'[r].at # "answered" /\ req'[r].case = c}
  /\ UNCHANGED <<now, batch, approval, case, ledger, screen, sweep, faults>>

MutNoExpiryCheck(r) ==
  /\ req[r].at = "idle"
  /\ \E card, other \in screen, status \in {"APPROVED", "REJECTED"} :
       IF \/ ~Same(card.case, card.batch)
          \/ approval[card.case].status # "PENDING"
          \/ other.action # approval[card.case].action
       THEN req' = [req EXCEPT ![r] = Answered]
       ELSE Decide(r, card.case, status, "case")
  /\ disturbed' = disturbed \cup {c \in Held : req'[r].at # "answered" /\ req'[r].case = c}
  /\ UNCHANGED <<now, batch, approval, case, ledger, screen, sweep, faults>>

\* action_approval: the approval of one card, with the hash of that card or, by a
\* stale page, of another.  404, 409 for a decided one, 409 for a wrong hash; one
\* past its TTL is marked before the hash is looked at.
LoadApproval(r) ==
  /\ req[r].at = "idle"
  /\ \E card, other \in screen, status \in {"APPROVED", "REJECTED"} :
       IF ~Same(card.case, card.batch) \/ approval[card.case].status # "PENDING"
       THEN req' = [req EXCEPT ![r] = Answered]
       ELSE IF approval[card.case].expires <= now
       THEN Decide(r, card.case, "EXPIRED", "write")
       ELSE IF other.action # approval[card.case].action
       THEN req' = [req EXCEPT ![r] = Answered]
       ELSE Decide(r, card.case, status, "case")
  /\ disturbed' = disturbed \cup {c \in Held : req'[r].at # "answered" /\ req'[r].case = c}
  /\ UNCHANGED <<now, batch, approval, case, ledger, screen, sweep, faults>>

LoadCase(r) ==
  /\ req[r].at = "case"
  /\ req' = [req EXCEPT ![r].at = "write",
                        ![r].moves = case[req[r].case] = "AWAITING_APPROVAL"]
  /\ UNCHANGED <<now, batch, approval, case, ledger, screen, sweep, disturbed, faults>>

Outcome == [APPROVED |-> "STRATEGY_FORMED", REJECTED |-> "REJECTED", EXPIRED |-> "EXPIRED"]

Reviewed(a, status, time) == [a EXCEPT !.status = status, !.reviewed_at = time]

MutForgetCase(r) ==
  LET q == req[r]
      c == q.case IN
  /\ q.at = "write" /\ req' = [req EXCEPT ![r] = Answered]
  /\ IF ~Same(c, q.batch) THEN UNCHANGED <<approval, ledger>>
     ELSE /\ approval' = [approval EXCEPT ![c] = Reviewed(@, q.status, q.time)]
          /\ ledger' = IF q.status = "EXPIRED" THEN ledger
                       ELSE Record({c}, q.status)
  /\ UNCHANGED <<now, batch, case, screen, sweep, disturbed, faults>>

\* The decision, the case and the audit block in one commit; an expired approval
\* is committed alone, without its case and without a block.
Commit(r) ==
  LET q == req[r]
      c == q.case IN
  /\ q.at = "write" /\ req' = [req EXCEPT ![r] = Answered]
  /\ IF ~Same(c, q.batch) THEN UNCHANGED <<approval, case, ledger>>
     ELSE /\ approval' = [approval EXCEPT ![c] = Reviewed(@, q.status, q.time)]
          /\ case' = IF q.moves THEN [case EXCEPT ![c] = Outcome[q.status]] ELSE case
          /\ ledger' = IF q.status = "EXPIRED" THEN ledger
                       ELSE Record({c}, q.status)
  /\ UNCHANGED <<now, batch, screen, sweep, disturbed, faults>>

\* An index conflict inside append() rolls the change back and commits the block
\* alone; a busy database or a crash commits nothing.
LoseDecision(r) ==
  LET q == req[r] IN
  /\ q.at = "write" /\ faults < MaxFaults /\ faults' = faults + 1
  /\ req' = [req EXCEPT ![r] = Answered] /\ disturbed' = disturbed \cup {q.case}
  /\ \/ UNCHANGED ledger
     \/ /\ q.status # "EXPIRED" /\ Same(q.case, q.batch)
        /\ ledger' = Record({q.case}, q.status)
  /\ UNCHANGED <<now, batch, approval, case, screen, sweep>>

-----------------------------------------------------------------------------
(* The sweep.                                                              *)

SelectExpired ==
  LET due == {c \in Case : approval[c] # None /\ approval[c].status = "PENDING"
                           /\ approval[c].expires <= now} IN
  /\ sweep.at = "idle" /\ due # {}
  /\ sweep' = [Asleep EXCEPT !.at = "case", !.todo = due, !.batch = batch.no, !.time = now]
  /\ disturbed' = disturbed \cup (due \cap Held)
  /\ UNCHANGED <<now, batch, approval, case, ledger, screen, req, faults>>

\* The case of the first row; the others are read once the write lock is held.
LoadFirstCase ==
  /\ sweep.at = "case"
  /\ \E c \in sweep.todo :
       sweep' = [sweep EXCEPT !.at = "write", !.first = c,
                              !.moves = case[c] = "AWAITING_APPROVAL"]
  /\ UNCHANGED <<now, batch, approval, case, ledger, screen, req, disturbed, faults>>

\* "The status guard is re-asserted per row": on the row as it was loaded.
ExpireAll ==
  LET moved == {c \in sweep.todo : IF c = sweep.first THEN sweep.moves
                                   ELSE case[c] = "AWAITING_APPROVAL"} IN
  /\ sweep.at = "write" /\ sweep' = Asleep
  /\ IF \E c \in sweep.todo : ~Same(c, sweep.batch) THEN UNCHANGED <<approval, case, ledger>>
     ELSE /\ approval' = [c \in Case |-> IF c \in sweep.todo
                                         THEN Reviewed(approval[c], "EXPIRED", sweep.time)
                                         ELSE approval[c]]
          /\ case' = [c \in Case |-> IF c \in moved THEN "EXPIRED" ELSE case[c]]
          /\ ledger' = Record(sweep.todo, "EXPIRED")
  /\ UNCHANGED <<now, batch, screen, req, disturbed, faults>>

\* After the rollback of the only row its block is committed alone; with more rows
\* the next one can no longer be read, and nothing is committed.
LoseExpiry ==
  /\ sweep.at = "write" /\ faults < MaxFaults /\ faults' = faults + 1
  /\ sweep' = Asleep /\ disturbed' = disturbed \cup sweep.todo
  /\ \/ UNCHANGED ledger
     \/ /\ sweep.todo = {sweep.first} /\ Same(sweep.first, sweep.batch)
        /\ ledger' = Record({sweep.first}, "EXPIRED")
  /\ UNCHANGED <<now, batch, approval, case, screen, req>>

Next ==
  \/ Tick \/ StartBatch \/ ListPending
  \/ \E c \in Case : AskForApproval(c)
  \/ \E r \in Request : LoadApproval(r) \/ LoadCase(r) \/ Commit(r) \/ LoseDecision(r)
  \/ SelectExpired \/ LoadFirstCase \/ ExpireAll \/ LoseExpiry

Spec == Init /\ [][Next]_vars

-----------------------------------------------------------------------------
(* Properties.                                                             *)

Sessions ==
  [at : {"idle", "case", "write", "answered"}, case : Case \cup {None}, batch : 0 .. MaxRuns,
   status : Verdict, time : 0 .. MaxTime, moves : BOOLEAN]
Sweeps ==
  [at : {"idle", "case", "write"}, todo : SUBSET Case, batch : 0 .. MaxRuns,
   time : 0 .. MaxTime, first : Case \cup {None}, moves : BOOLEAN]

\* Types; a case and its approval come and go together.
TypeOK ==
  /\ now \in 0 .. MaxTime /\ faults \in 0 .. MaxFaults
  /\ batch \in [no : 0 .. MaxRuns, time : 0 .. MaxTime]
  /\ approval \in [Case -> Row \cup {None}] /\ case \in [Case -> Status \cup {None}]
  /\ \A c \in Case : (approval[c] = None) = (case[c] = None)
  /\ ledger \in [Case -> [Verdict -> Nat]]
  /\ screen \subseteq [case : Case, batch : 0 .. MaxRuns, action : Action]
  /\ req \in [Request -> Sessions] /\ sweep \in Sweeps
  /\ disturbed \subseteq Case

Recorded(c, v) == ledger[c][v] > 0

\* However decisions, sweeps and lost commits interleave: who decided had seen this
\* very action, in time, and the ledger records the decision with the action; and
\* an approval is EXPIRED only after its TTL (action_approval, verify_approval_hash).
DecisionsAreProven ==
  \A c \in Case : approval[c] # None =>
    LET a == approval[c] IN
    /\ a.status \in {"APPROVED", "REJECTED"} =>
         /\ Recorded(c, a.status) /\ a.reviewed_at < a.expires
         /\ \E card \in screen : /\ card.case = c /\ card.batch = batch.no
                                 /\ card.action = a.action
    /\ a.status = "EXPIRED" => a.reviewed_at >= a.expires

\* No case moves without a recorded decision, none moves while its approval is
\* open, and none is left waiting behind a human decision.
CasesFollowDecisions ==
  \A c \in Case : approval[c] # None =>
    /\ \A v \in Verdict : case[c] = Outcome[v] => Recorded(c, v)
    /\ approval[c].status = "PENDING" => case[c] = "AWAITING_APPROVAL"
    /\ case[c] = "AWAITING_APPROVAL" => approval[c].status \in {"PENDING", "EXPIRED"}

\* A second block about the same approval.
DecidedTwice(c) ==
  \/ \E v \in Verdict : ledger[c][v] > 1
  \/ \E v, w \in Verdict : v # w /\ Recorded(c, v) /\ Recorded(c, w)

\* Only sessions that overlap, or a rolled-back append, decide twice or leave the
\* approval and its case at odds.
UndisturbedDecisionsAgree ==
  \A c \in Case \ disturbed : approval[c] # None =>
    /\ ~DecidedTwice(c)
    /\ \A v \in Verdict : Recorded(c, v) => /\ approval[c].status = v
                                           /\ case[c] = Outcome[v]

\* approvals.py: "a double-clicked Approve must not produce two audit blocks
\* claiming two separate decisions".
OneDecisionEach ==
  \A c \in Case : ~DecidedTwice(c)

\* scheduler.py: "two overlapping sweeps cannot double-expire a row or overwrite a
\* decision a human just made".
HumanDecisionStands ==
  [][\A c \in Case :
       batch' = batch /\ approval[c] # None /\ approval[c].status \in {"APPROVED", "REJECTED"}
         => approval'[c].status = approval[c].status]_vars
=============================================================================
