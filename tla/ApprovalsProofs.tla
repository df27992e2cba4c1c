-------------------------- MODULE ApprovalsProofs --------------------------
(***************************************************************************)
(* Proofs about Approvals, for any number of cases, actions and requests   *)
(* and any bounds.                                                         *)
(***************************************************************************)
EXTENDS Approvals, TLAPS

\* Sessions of this batch that hold an approval.
Holds(r, c) == /\ req[r].at \in {"case", "write"} /\ req[r].case = c
               /\ req[r].batch = batch.no
InSweep(c) == sweep.at # "idle" /\ c \in sweep.todo /\ sweep.batch = batch.no

ShownTo(c) == \E card \in screen : /\ card.case = c /\ card.batch = batch.no
                                   /\ card.action = approval[c].action

\* A batch does not come back, a session holds cases that exist, and no block is
\* about an approval that does not; a card shows an approval as it is.
Past ==
  /\ \A r \in Request : req[r].at \in {"case", "write"} =>
       req[r].case \in Case /\ req[r].batch <= batch.no
  /\ sweep.at # "idle" => sweep.batch <= batch.no
  /\ sweep.at = "idle" => sweep.todo = {}
  /\ sweep.at = "write" => sweep.first \in sweep.todo
  /\ \A c \in Case : approval[c] = None => \A v \in Verdict : ~Recorded(c, v)
  /\ \A card \in screen :
       /\ card.batch <= batch.no
       /\ card.batch = batch.no => /\ approval[card.case] # None
                                   /\ card.action = approval[card.case].action

\* What a session checked remains true until it commits.
Checked ==
  /\ \A c \in Case : \A r \in Request : Holds(r, c) =>
       /\ approval[c] # None
       /\ req[r].status = "EXPIRED" => /\ req[r].at = "write" /\ ~req[r].moves
                                       /\ approval[c].expires <= req[r].time
       /\ req[r].status # "EXPIRED" => req[r].time < approval[c].expires /\ ShownTo(c)
       /\ req[r].status # "EXPIRED" /\ req[r].at = "write" /\ ~req[r].moves =>
            case[c] # "AWAITING_APPROVAL"
  /\ \A c \in Case : InSweep(c) =>
       approval[c] # None /\ approval[c].expires <= sweep.time

\* A session that nobody disturbs is alone with its approval, which stays open
\* with its case until it commits.
Alone ==
  \A c \in Case \ disturbed : approval[c] # None =>
    /\ approval[c].status = "PENDING" => \A v \in Verdict : ~Recorded(c, v)
    /\ \A r \in Request : Holds(r, c) =>
         /\ approval[c].status = "PENDING" /\ ~InSweep(c)
         /\ req[r].at = "write" /\ req[r].status # "EXPIRED" => req[r].moves
         /\ \A s \in Request : Holds(s, c) => s = r
    /\ InSweep(c) => /\ approval[c].status = "PENDING"
                     /\ sweep.at = "write" /\ sweep.first = c => sweep.moves

Proven == DecisionsAreProven /\ CasesFollowDecisions
Lone   == Alone /\ UndisturbedDecisionsAgree
AInv   == TypeOK /\ Past /\ Checked /\ Proven /\ Lone

-----------------------------------------------------------------------------
LEMMA InitAInv == ASSUME ApprovalParametersOK, Init PROVE AInv
<1>1. TypeOK
  BY DEF Init, TypeOK, ApprovalParametersOK, NoBlocks, Idle, Asleep, Verdict, Sessions, Sweeps
<1>2. Past /\ Checked
  BY DEF Init, Past, Checked, Holds, InSweep, Idle, Asleep, Recorded, NoBlocks
<1>3. Proven /\ Lone
  BY DEF Init, Proven, Lone, DecisionsAreProven, CasesFollowDecisions, Alone,
         UndisturbedDecisionsAgree
<1> QED BY <1>1, <1>2, <1>3 DEF AInv

\* Blocks are only added.
Adds(C, v) ==
  /\ ledger' \in [Case -> [Verdict -> Nat]]
  /\ \A c \in Case, w \in Verdict :
       ledger'[c][w] = IF c \in C /\ w = v THEN ledger[c][w] + 1 ELSE ledger[c][w]

LEMMA RecordAdds ==
  ASSUME NEW C \in SUBSET Case, NEW v \in Verdict, TypeOK, ledger' = Record(C, v)
  PROVE  Adds(C, v)
<1>1. ledger \in [Case -> [Verdict -> Nat]]
  BY DEF TypeOK
<1>2. \A c \in Case : ledger'[c] = [ledger[c] EXCEPT ![v] = @ + IF c \in C THEN 1 ELSE 0]
  BY DEF Record
<1> QED BY <1>1, <1>2 DEF Record, Adds

LEMMA TickKeeps == ASSUME ApprovalParametersOK, AInv, Tick PROVE AInv'
<1>1. TypeOK'
  BY DEF AInv, TypeOK, Tick, ApprovalParametersOK
<1>2. Past' /\ Checked'
  BY DEF AInv, Past, Checked, Holds, InSweep, ShownTo, Recorded, Tick
<1>3. Proven'
  BY DEF AInv, Proven, DecisionsAreProven, CasesFollowDecisions, Recorded, Tick
<1>4. Lone'
  BY DEF AInv, Lone, Alone, UndisturbedDecisionsAgree, Recorded, DecidedTwice, Holds, InSweep,
         Tick
<1> QED BY <1>1, <1>2, <1>3, <1>4 DEF AInv

LEMMA StartBatchKeeps == ASSUME ApprovalParametersOK, AInv, StartBatch PROVE AInv'
<1>1. /\ batch' = [no |-> batch.no + 1, time |-> now] /\ batch.no + 1 \in 0 .. MaxRuns
      /\ batch.no \in Nat
  BY DEF AInv, TypeOK, StartBatch, ApprovalParametersOK
<1>2. TypeOK'
  BY <1>1 DEF AInv, TypeOK, StartBatch, NoBlocks
<1>3. Past'
  <2>1. \A card \in screen' : card.batch <= batch.no /\ card.batch \in Int
    BY DEF AInv, TypeOK, Past, StartBatch
  <2>2. \A card \in screen' : card.batch < batch'.no
    BY <1>1, <2>1
  <2>3. \A card \in screen' : card.batch <= batch'.no /\ card.batch # batch'.no
    BY <1>1, <2>1, <2>2
  <2>4. \A r \in Request : req[r].batch \in Int
    BY DEF AInv, TypeOK, Sessions
  <2>5. sweep.batch \in Int
    BY DEF AInv, TypeOK, Sweeps
  <2> QED BY <1>1, <2>3, <2>4, <2>5 DEF AInv, Past, StartBatch, Recorded, NoBlocks
<1>4. \A c \in Case : ~InSweep(c)' /\ \A r \in Request : ~Holds(r, c)'
  BY <1>1 DEF AInv, Past, TypeOK, StartBatch, Holds, InSweep
<1>5. \A c \in Case : approval'[c] = None
  BY DEF StartBatch
<1>6. Checked'
  BY <1>4 DEF Checked
<1>7. Proven' /\ Lone'
  BY <1>5 DEF Proven, Lone, Alone, DecisionsAreProven, CasesFollowDecisions,
     UndisturbedDecisionsAgree
<1> QED BY <1>2, <1>3, <1>6, <1>7 DEF AInv

LEMMA AskKeeps ==
  ASSUME ApprovalParametersOK, AInv, NEW c \in Case, AskForApproval(c) PROVE AInv'
<1>1. PICK a \in Action :
        approval' = [approval EXCEPT ![c] =
          [status |-> "PENDING", action |-> a, expires |-> batch.time + TTL,
           reviewed_at |-> None]]
  BY DEF AskForApproval
<1>2. /\ case' = [case EXCEPT ![c] = "AWAITING_APPROVAL"] /\ case[c] = None
      /\ approval[c] = None
      /\ UNCHANGED <<now, batch, ledger, screen, req, sweep, disturbed, faults>>
  BY DEF AskForApproval, AInv, TypeOK
<1>3. approval'[c] \in Row /\ approval'[c].status = "PENDING" /\ approval'[c] # None
  BY <1>1 DEF AInv, TypeOK, Row, ApprovalParametersOK
<1>4. TypeOK'
  <2>1. approval' \in [Case -> Row \cup {None}]
    BY <1>1, <1>3 DEF AInv, TypeOK
  <2>2. case' \in [Case -> Status \cup {None}] /\ case'[c] # None
    BY <1>2 DEF AInv, TypeOK, Status, ApprovalParametersOK
  <2>3. \A d \in Case : (approval'[d] = None) = (case'[d] = None)
    BY <1>1, <1>2, <1>3, <2>2 DEF AInv, TypeOK
  <2> QED BY <1>2, <2>1, <2>2, <2>3 DEF AInv, TypeOK
<1>5. \A d \in Case : d # c => approval'[d] = approval[d] /\ case'[d] = case[d]
  BY <1>1, <1>2 DEF AInv, TypeOK
<1>6. ~InSweep(c) /\ \A r \in Request : ~Holds(r, c)
  BY <1>2 DEF AInv, Checked
<1>7. /\ \A r \in Request, d \in Case : Holds(r, d)' = Holds(r, d)
      /\ \A d \in Case : InSweep(d)' = InSweep(d) /\ (d # c => ShownTo(d)' = ShownTo(d))
      /\ \A d \in Case, v \in Verdict : Recorded(d, v)' = Recorded(d, v)
  BY <1>2, <1>5 DEF Holds, InSweep, ShownTo, Recorded
<1>8. case'[c] = "AWAITING_APPROVAL" /\ \A v \in Verdict : ~Recorded(c, v)
  BY <1>2 DEF AInv, TypeOK, Past
<1>9. Past' /\ Checked'
  <2>1. \A card \in screen : card.batch = batch.no => card.case # c
    BY <1>2 DEF AInv, Past
  <2>2. \A card \in screen : card.case \in Case
    BY DEF AInv, TypeOK
  <2>3. \A card \in screen' :
          /\ card.batch <= batch'.no
          /\ card.batch = batch'.no => /\ approval'[card.case] # None
                                       /\ card.action = approval'[card.case].action
    BY <1>2, <1>5, <2>1, <2>2 DEF AInv, Past
  <2>4. Past'
    BY <1>2, <1>3, <1>5, <1>7, <2>3 DEF AInv, Past
  <2>5. Checked'
    BY <1>2, <1>3, <1>5, <1>6, <1>7 DEF AInv, Checked
  <2> QED BY <2>4, <2>5
<1>10. Proven'
  BY <1>2, <1>3, <1>5, <1>7, <1>8 DEF AInv, Proven, DecisionsAreProven, CasesFollowDecisions,
     Outcome, Verdict
<1>11. Alone'
  BY <1>2, <1>3, <1>5, <1>6, <1>7, <1>8 DEF AInv, Lone, Alone
<1>12. \A d \in Case : DecidedTwice(d)' = DecidedTwice(d) /\ ~DecidedTwice(c)
  BY <1>2, <1>8 DEF DecidedTwice, Recorded, AInv, TypeOK
<1>13. UndisturbedDecisionsAgree'
  BY <1>2, <1>5, <1>7, <1>8, <1>12 DEF AInv, Lone, UndisturbedDecisionsAgree
<1> QED BY <1>4, <1>9, <1>10, <1>11, <1>13 DEF AInv, Lone

\* What reviewers are shown is only added to.
LEMMA ListKeeps == ASSUME ApprovalParametersOK, AInv, ListPending PROVE AInv'
<1>1. UNCHANGED <<now, batch, approval, case, ledger, req, sweep, disturbed, faults>>
  BY DEF ListPending
<1>2. screen \subseteq screen'
  BY DEF ListPending
<1>3. TypeOK'
  <2>1. \A c \in Case : approval[c] # None => approval[c].action \in Action
    BY DEF AInv, TypeOK, Row
  <2>2. batch.no \in 0 .. MaxRuns
    BY DEF AInv, TypeOK
  <2>3. screen' \subseteq [case : Case, batch : 0 .. MaxRuns, action : Action]
    BY <2>1, <2>2 DEF AInv, TypeOK, ListPending
  <2> QED BY <1>1, <2>3 DEF AInv, TypeOK
<1>4. /\ \A c \in Case : InSweep(c)' = InSweep(c) /\ (ShownTo(c) => ShownTo(c)')
      /\ \A c \in Case, r \in Request : Holds(r, c)' = Holds(r, c)
  BY <1>1, <1>2 DEF InSweep, ShownTo, Holds
<1>5. Past' /\ Checked'
  <2>1. \A card \in screen' \ screen :
          /\ card.batch = batch.no
          /\ approval[card.case] # None /\ card.action = approval[card.case].action
    BY DEF ListPending
  <2>2. batch.no \in Int
    BY DEF AInv, TypeOK
  <2>3. Past'
    BY <1>1, <2>1, <2>2 DEF AInv, Past, Recorded
  <2>4. Checked'
    BY <1>1, <1>4 DEF AInv, Checked
  <2> QED BY <2>3, <2>4
<1>6. DecisionsAreProven'
  BY <1>1, <1>2 DEF AInv, Proven, DecisionsAreProven, Recorded
<1>7. CasesFollowDecisions' /\ Lone'
  BY <1>1, <1>4 DEF AInv, Proven, CasesFollowDecisions, Recorded, Lone, Alone,
     UndisturbedDecisionsAgree, DecidedTwice
<1> QED BY <1>3, <1>5, <1>6, <1>7 DEF AInv, Proven

-----------------------------------------------------------------------------
(* Reviewers.                                                              *)

Taken(step, c, no, status, time) ==
  [Idle EXCEPT !.at = step, !.case = c, !.batch = no, !.status = status, !.time = time]

LEMMA AnsweredTyped == ASSUME ApprovalParametersOK PROVE Answered \in Sessions
<1> DEFINE times == 0 .. MaxTime
           batches == 0 .. MaxRuns
<1> HIDE DEF times, batches
<1>1. 0 \in times /\ 0 \in batches
  BY DEF times, batches, ApprovalParametersOK
<1>2. Answered \in [at : {"idle", "case", "write", "answered"}, case : Case \cup {None},
                    batch : batches, status : Verdict, time : times, moves : BOOLEAN]
  BY <1>1 DEF Answered, Idle, Verdict
<1> QED BY <1>2 DEF Sessions, times, batches

\* A request that is answered, or loses its decision, leaves the others alone.
LEMMA AnsweredKeeps ==
  ASSUME ApprovalParametersOK, AInv, NEW r \in Request,
         req' = [req EXCEPT ![r] = Answered], disturbed' \in SUBSET Case,
         disturbed \subseteq disturbed',
         UNCHANGED <<now, batch, approval, case, ledger, screen, sweep>>,
         faults' \in 0 .. MaxFaults
  PROVE  AInv'
<1>1. /\ \A s \in Request : s # r => req'[s] = req[s]
      /\ req'[r] = Answered /\ req'[r].at = "answered"
  BY DEF AInv, TypeOK, Answered, Idle
<1>2. TypeOK'
  <2>1. Answered \in Sessions
    BY AnsweredTyped
  <2> HIDE DEF Answered
  <2> QED BY <2>1 DEF AInv, TypeOK
<1>3. /\ \A c \in Case : ~Holds(r, c)'
      /\ \A c \in Case, s \in Request : s # r => Holds(s, c)' = Holds(s, c)
      /\ \A c \in Case : InSweep(c)' = InSweep(c) /\ ShownTo(c)' = ShownTo(c)
  BY <1>1 DEF Holds, InSweep, ShownTo
<1>4. Past' /\ Checked'
  BY <1>1, <1>3 DEF AInv, Past, Checked, Recorded
<1>5. Proven'
  BY DEF AInv, Proven, DecisionsAreProven, CasesFollowDecisions, Recorded
<1>6. Lone'
  BY <1>1, <1>3 DEF AInv, Lone, Alone, UndisturbedDecisionsAgree, Recorded, DecidedTwice
<1> QED BY <1>2, <1>4, <1>5, <1>6 DEF AInv

LEMMA TakenTyped ==
  ASSUME NEW time \in 0 .. MaxTime, NEW no \in 0 .. MaxRuns, NEW c \in Case,
         NEW status \in Verdict, NEW step \in {"case", "write"}
  PROVE  Taken(step, c, no, status, time) \in Sessions
<1> DEFINE times == 0 .. MaxTime
           batches == 0 .. MaxRuns
<1> HIDE DEF times, batches
<1>1. time \in times /\ no \in batches
  BY DEF times, batches
<1>2. Taken(step, c, no, status, time)
        \in [at : {"idle", "case", "write", "answered"}, case : Case \cup {None},
            batch : batches, status : Verdict, time : times, moves : BOOLEAN]
  BY <1>1 DEF Taken, Idle
<1> QED BY <1>2 DEF Sessions, times, batches

\* A request takes up an open approval; if another session has it too, both are
\* disturbed.
LEMMA DecideKeeps ==
  ASSUME ApprovalParametersOK, AInv, NEW r \in Request, NEW c \in Case,
         NEW status \in Verdict, NEW step \in {"case", "write"},
         Decide(r, c, status, step), approval[c] # None, approval[c].status = "PENDING",
         status = "EXPIRED" => step = "write" /\ approval[c].expires <= now,
         status # "EXPIRED" => step = "case" /\ now < approval[c].expires /\ ShownTo(c),
         disturbed \subseteq disturbed', disturbed' \in SUBSET Case,
         c \in Held => c \in disturbed',
         UNCHANGED <<now, batch, approval, case, ledger, screen, sweep, faults>>
  PROVE  AInv'
<1> DEFINE taken == Taken(step, c, batch.no, status, now)
<1>1. req' = [req EXCEPT ![r] = taken]
  BY DEF Decide, Taken
<1>2. taken \in Sessions
  <2>1. batch.no \in 0 .. MaxRuns /\ now \in 0 .. MaxTime
    BY DEF AInv, TypeOK
  <2> QED BY <2>1, TakenTyped
<1>3. /\ taken.at = step /\ taken.case = c /\ taken.batch = batch.no /\ taken.status = status
      /\ taken.time = now /\ taken.moves = FALSE
  BY DEF Idle, Taken
<1> HIDE DEF taken
<1>4. TypeOK'
  BY <1>1, <1>2 DEF AInv, TypeOK
<1>5. req'[r] = taken /\ \A s \in Request : s # r => req'[s] = req[s]
  BY <1>1 DEF AInv, TypeOK
<1>6. /\ Holds(r, c)' /\ \A d \in Case : d # c => ~Holds(r, d)'
      /\ \A d \in Case, s \in Request : s # r => Holds(s, d)' = Holds(s, d)
      /\ \A d \in Case : InSweep(d)' = InSweep(d) /\ ShownTo(d)' = ShownTo(d)
  BY <1>3, <1>5 DEF Holds, InSweep, ShownTo
<1>7. batch.no \in Int /\ now \in Int
  BY DEF AInv, TypeOK, ApprovalParametersOK
<1>8. Past'
  BY <1>3, <1>5, <1>7 DEF AInv, Past, Recorded
<1>9. Checked'
  BY <1>3, <1>5, <1>6 DEF AInv, Checked
<1>10. Proven'
  BY DEF AInv, Proven, DecisionsAreProven, CasesFollowDecisions, Recorded
<1>11. c \notin disturbed' => ~InSweep(c) /\ \A s \in Request : ~Holds(s, c)
  BY DEF Held, Holds, InSweep
<1>12. Alone'
  BY <1>3, <1>5, <1>6, <1>11 DEF AInv, Lone, Alone, Recorded
<1>13. UndisturbedDecisionsAgree'
  BY DEF AInv, Lone, UndisturbedDecisionsAgree, Recorded, DecidedTwice
<1> QED BY <1>4, <1>8, <1>9, <1>10, <1>12, <1>13 DEF AInv, Lone

LEMMA LoadApprovalKeeps ==
  ASSUME ApprovalParametersOK, AInv, NEW r \in Request, LoadApproval(r) PROVE AInv'
<1>1. PICK card \in screen, other \in screen, status \in {"APPROVED", "REJECTED"} :
        IF ~Same(card.case, card.batch) \/ approval[card.case].status # "PENDING"
        THEN req' = [req EXCEPT ![r] = Answered]
        ELSE IF approval[card.case].expires <= now
        THEN Decide(r, card.case, "EXPIRED", "write")
        ELSE IF other.action # approval[card.case].action
        THEN req' = [req EXCEPT ![r] = Answered]
        ELSE Decide(r, card.case, status, "case")
  BY DEF LoadApproval
<1> DEFINE c == card.case
<1>2. c \in Case
  BY DEF AInv, TypeOK
<1>3. /\ UNCHANGED <<now, batch, approval, case, ledger, screen, sweep, faults>>
      /\ disturbed' = disturbed \cup {d \in Held : req'[r].at # "answered" /\ req'[r].case = d}
  BY DEF LoadApproval
<1>4. Held \subseteq Case /\ disturbed \subseteq Case /\ faults' \in 0 .. MaxFaults
  <2>1. sweep.todo \subseteq Case
    BY DEF AInv, TypeOK, Sweeps
  <2> QED BY <1>3, <2>1 DEF Held, AInv, TypeOK
<1>5. disturbed \subseteq disturbed' /\ disturbed' \in SUBSET Case
  BY <1>3, <1>4
<1>6. CASE req' = [req EXCEPT ![r] = Answered]
  BY <1>3, <1>4, <1>5, <1>6, AnsweredKeeps
<1>7. CASE req' # [req EXCEPT ![r] = Answered]
  <2>1. Same(c, card.batch) /\ approval[c].status = "PENDING"
    BY <1>1, <1>7
  <2>2. approval[c] # None /\ card.batch = batch.no
    BY <2>1 DEF Same
  <2>3. ASSUME NEW status2 \in Verdict, NEW step \in {"case", "write"},
               Decide(r, c, status2, step)
        PROVE  c \in Held => c \in disturbed'
    <3>1. req'[r].at = step /\ req'[r].case = c
      BY <2>3 DEF Decide, Idle, AInv, TypeOK
    <3> QED BY <3>1, <1>3
  <2>4. CASE approval[c].expires <= now
    <3>1. Decide(r, c, "EXPIRED", "write")
      BY <1>1, <1>7, <2>1, <2>4
    <3>2. c \in Held => c \in disturbed'
      BY <3>1, <2>3 DEF Verdict
    <3> QED BY <1>2, <1>3, <1>5, <2>1, <2>2, <2>4, <3>1, <3>2, DecideKeeps DEF Verdict
  <2>5. CASE ~(approval[c].expires <= now)
    <3>1. Decide(r, c, status, "case") /\ other.action = approval[c].action
      BY <1>1, <1>7, <2>1, <2>5
    <3>2. c \in Held => c \in disturbed'
      BY <3>1, <2>3 DEF Verdict
    <3>3. approval[c].expires \in Nat /\ now \in Nat
      BY <1>2, <2>2 DEF AInv, TypeOK, Row
    <3>4. now < approval[c].expires
      BY <2>5, <3>3
    <3>5. ShownTo(c)
      BY <2>2 DEF ShownTo, AInv, Past
    <3> QED BY <1>2, <1>3, <1>5, <2>1, <2>2, <3>1, <3>2, <3>4, <3>5, DecideKeeps DEF Verdict
  <2> QED BY <2>4, <2>5
<1> QED BY <1>6, <1>7

LEMMA LoadCaseKeeps ==
  ASSUME ApprovalParametersOK, AInv, NEW r \in Request, LoadCase(r) PROVE AInv'
<1>0. PICK c : c = req[r].case
  OBVIOUS
<1> DEFINE loaded == [req[r] EXCEPT !.at = "write", !.moves = case[c] = "AWAITING_APPROVAL"]
<1>1. /\ req[r].at = "case" /\ req' = [req EXCEPT ![r] = loaded]
      /\ UNCHANGED <<now, batch, approval, case, ledger, screen, sweep, disturbed, faults>>
  BY <1>0 DEF LoadCase
<1>2. req \in [Request -> Sessions] /\ req[r] \in Sessions
  BY DEF AInv, TypeOK
<1>3. /\ loaded \in Sessions /\ loaded.at = "write" /\ loaded.case = c
      /\ loaded.batch = req[r].batch /\ loaded.status = req[r].status
      /\ loaded.time = req[r].time /\ loaded.moves = (case[c] = "AWAITING_APPROVAL")
  BY <1>0, <1>2 DEF Sessions
<1> HIDE DEF loaded
<1>4. req'[r] = loaded /\ \A s \in Request : s # r => req'[s] = req[s]
  BY <1>1, <1>2
<1>5. TypeOK'
  BY <1>1, <1>2, <1>3 DEF AInv, TypeOK
<1>6. /\ \A d \in Case, s \in Request : Holds(s, d)' = Holds(s, d)
      /\ \A d \in Case : InSweep(d)' = InSweep(d) /\ ShownTo(d)' = ShownTo(d)
  BY <1>0, <1>1, <1>3, <1>4 DEF Holds, InSweep, ShownTo
<1>7. Past'
  BY <1>0, <1>1, <1>3, <1>4 DEF AInv, Past, Recorded
<1>8. \A d \in Case : Holds(r, d) => d = c
  BY <1>0 DEF Holds
<1>9. Checked'
  <2>1. Holds(r, c) => req[r].status # "EXPIRED"
    <3>1. c \in Case
      BY <1>0, <1>1 DEF AInv, Past
    <3> QED BY <1>1, <3>1 DEF AInv, Checked
  <2>2. \A d \in Case, s \in Request : s # r /\ Holds(s, d)' => Holds(s, d) /\ req'[s] = req[s]
    BY <1>4, <1>6
  <2>3. \A d \in Case : Holds(r, d)' => Holds(r, d) /\ d = c
    BY <1>6, <1>8
  <2>4. req'[r].moves <=> case[c] = "AWAITING_APPROVAL"
    BY <1>3, <1>4
  <2>5. req'[r].status = req[r].status /\ req'[r].time = req[r].time /\ req'[r].at = "write"
    BY <1>3, <1>4
  <2> QED BY <1>1, <1>6, <2>1, <2>2, <2>3, <2>4, <2>5 DEF AInv, Checked
<1>10. Proven'
  BY <1>1 DEF AInv, Proven, DecisionsAreProven, CasesFollowDecisions, Recorded
<1>11. \A d \in Case : approval[d] # None /\ approval[d].status = "PENDING"
                       => case[d] = "AWAITING_APPROVAL"
  BY DEF AInv, Proven, CasesFollowDecisions
<1>12. Alone'
  <2>1. \A d \in Case, s \in Request : s # r /\ Holds(s, d)' => Holds(s, d) /\ req'[s] = req[s]
    BY <1>4, <1>6
  <2>2. \A d \in Case : Holds(r, d)' => Holds(r, d) /\ d = c
    BY <1>6, <1>8
  <2>3. req'[r].moves <=> case[c] = "AWAITING_APPROVAL"
    BY <1>3, <1>4
  <2>4. \A d \in Case, v \in Verdict : Recorded(d, v)' = Recorded(d, v)
    BY <1>1 DEF Recorded
  <2> QED BY <1>1, <1>6, <1>11, <2>1, <2>2, <2>3, <2>4 DEF AInv, Lone, Alone
<1>13. UndisturbedDecisionsAgree'
  BY <1>1 DEF AInv, Lone, UndisturbedDecisionsAgree, Recorded, DecidedTwice
<1> QED BY <1>5, <1>7, <1>9, <1>10, <1>12, <1>13 DEF AInv, Lone

\* A review changes the status and the time.
LEMMA ReviewedIs ==
  ASSUME NEW a \in Row, NEW status \in Verdict, NEW time \in Nat
  PROVE  LET b == Reviewed(a, status, time) IN
         /\ b \in Row /\ b.status = status /\ b.reviewed_at = time
         /\ b.action = a.action /\ b.expires = a.expires
BY DEF Reviewed, Row

LEMMA CommitKeeps ==
  ASSUME ApprovalParametersOK, AInv, NEW r \in Request, Commit(r) PROVE AInv'
<1>0. PICK q, c : q = req[r] /\ c = q.case
  OBVIOUS
<1>1. /\ q.at = "write" /\ req' = [req EXCEPT ![r] = Answered]
      /\ UNCHANGED <<now, batch, screen, sweep, disturbed, faults>>
  BY <1>0 DEF Commit
<1>2. /\ q.status \in Verdict /\ q.time \in Nat /\ q.moves \in BOOLEAN /\ c \in Case
      /\ faults \in 0 .. MaxFaults /\ disturbed \in SUBSET Case
  BY <1>0, <1>1 DEF AInv, TypeOK, Past, Sessions, ApprovalParametersOK
<1>3. CASE ~Same(c, q.batch)
  <2>1. UNCHANGED <<approval, case, ledger>>
    BY <1>0, <1>3 DEF Commit
  <2> QED BY <1>1, <1>2, <2>1, AnsweredKeeps
<1>4. CASE Same(c, q.batch)
  <2>1. /\ approval' = [approval EXCEPT ![c] = Reviewed(@, q.status, q.time)]
        /\ case' = IF q.moves THEN [case EXCEPT ![c] = Outcome[q.status]] ELSE case
        /\ ledger' = IF q.status = "EXPIRED" THEN ledger ELSE Record({c}, q.status)
    BY <1>0, <1>4 DEF Commit
  <2>2. /\ approval[c] # None /\ Holds(r, c)
    BY <1>0, <1>1, <1>4 DEF Same, Holds
  <2>3. approval[c] \in Row
    BY <1>2, <2>2 DEF AInv, TypeOK
  <2>4. /\ approval'[c] \in Row /\ approval'[c].status = q.status
        /\ approval'[c].reviewed_at = q.time /\ approval'[c].action = approval[c].action
        /\ approval'[c].expires = approval[c].expires
        /\ \A d \in Case : d # c => approval'[d] = approval[d] /\ case'[d] = case[d]
    <3>1. /\ approval'[c] = Reviewed(approval[c], q.status, q.time)
          /\ \A d \in Case : d # c => approval'[d] = approval[d] /\ case'[d] = case[d]
      BY <1>2, <2>1 DEF AInv, TypeOK
    <3> QED BY <1>2, <2>3, <3>1, ReviewedIs
  <2>5. /\ Outcome[q.status] \in Status /\ Outcome[q.status] # "AWAITING_APPROVAL"
        /\ \A v, w \in Verdict : Outcome[v] = Outcome[w] => v = w
    BY <1>2 DEF Outcome, Status, Verdict
  <2>6. case'[c] = IF q.moves THEN Outcome[q.status] ELSE case[c]
    BY <1>2, <2>1 DEF AInv, TypeOK
  <2>7. /\ ledger' \in [Case -> [Verdict -> Nat]]
        /\ \A d \in Case, v \in Verdict :
             ledger'[d][v] = IF d = c /\ v = q.status /\ q.status # "EXPIRED"
                             THEN ledger[d][v] + 1 ELSE ledger[d][v]
    <3>1. CASE q.status = "EXPIRED"
      BY <2>1, <3>1 DEF AInv, TypeOK
    <3>2. CASE q.status # "EXPIRED"
      <4> DEFINE C == {c}
      <4>1. C \in SUBSET Case /\ TypeOK /\ q.status \in Verdict
        BY <1>2 DEF AInv
      <4>2. ledger' = Record(C, q.status)
        BY <2>1, <3>2
      <4> HIDE DEF C
      <4>3. Adds(C, q.status)
        BY <4>1, <4>2, RecordAdds
      <4> QED BY <3>2, <4>3 DEF C, Adds
    <3> QED BY <3>1, <3>2
  <2>8. ledger \in [Case -> [Verdict -> Nat]]
    BY DEF AInv, TypeOK
  <2>9. /\ \A d \in Case, v \in Verdict : Recorded(d, v) => Recorded(d, v)'
        /\ \A d \in Case, v \in Verdict : d # c => Recorded(d, v)' = Recorded(d, v)
        /\ q.status # "EXPIRED" => Recorded(c, q.status)'
    BY <1>2, <2>7, <2>8 DEF Recorded
  <2>10. None \notin Row /\ None \notin Status
    BY DEF ApprovalParametersOK
  <2>11. TypeOK'
    <3>1. approval' \in [Case -> Row \cup {None}]
      BY <2>1, <2>4 DEF AInv, TypeOK
    <3>2. case' \in [Case -> Status \cup {None}]
      BY <2>1, <2>5 DEF AInv, TypeOK
    <3>3. \A d \in Case : (approval'[d] = None) = (case'[d] = None)
      BY <2>2, <2>4, <2>5, <2>6, <2>10 DEF AInv, TypeOK
    <3>4. req' \in [Request -> Sessions]
      BY <1>1, AnsweredTyped DEF AInv, TypeOK
    <3> QED BY <1>1, <2>7, <3>1, <3>2, <3>3, <3>4 DEF AInv, TypeOK
  <2>12. /\ req'[r].at = "answered" /\ \A s \in Request : s # r => req'[s] = req[s]
    BY <1>1 DEF AInv, TypeOK, Answered, Idle
  <2>13. /\ \A d \in Case : ~Holds(r, d)'
         /\ \A d \in Case, s \in Request : s # r => Holds(s, d)' = Holds(s, d)
         /\ \A d \in Case : InSweep(d)' = InSweep(d) /\ ShownTo(d)' = ShownTo(d)
    BY <1>1, <2>4, <2>12 DEF Holds, InSweep, ShownTo
  <2>14. /\ approval'[c] # None
         /\ \A d \in Case : approval'[d] = None <=> approval[d] = None
    BY <2>2, <2>4, <2>10
  <2>15. Past'
    <3>1. \A card \in screen : card.case \in Case
      BY DEF AInv, TypeOK
    <3>2. \A card \in screen' :
            /\ card.batch <= batch'.no
            /\ card.batch = batch'.no => /\ approval'[card.case] # None
                                         /\ card.action = approval'[card.case].action
      BY <1>1, <2>4, <2>14, <3>1 DEF AInv, Past
    <3> QED BY <1>1, <2>9, <2>12, <2>14, <3>2 DEF AInv, Past
  <2>16. Checked'
    BY <1>1, <2>4, <2>5, <2>6, <2>12, <2>13, <2>14 DEF AInv, Checked
  <2>17. /\ q.status = "EXPIRED" => ~q.moves /\ approval[c].expires <= q.time
         /\ q.status # "EXPIRED" => q.time < approval[c].expires /\ ShownTo(c)
         /\ q.status # "EXPIRED" /\ ~q.moves => case[c] # "AWAITING_APPROVAL"
    BY <1>0, <1>1, <1>2, <2>2 DEF AInv, Checked
  <2>18. DecisionsAreProven'
    <3> SUFFICES ASSUME NEW d \in Case, approval'[d] # None
                 PROVE  /\ approval'[d].status \in {"APPROVED", "REJECTED"} =>
                             /\ ledger'[d][approval'[d].status] > 0
                             /\ approval'[d].reviewed_at < approval'[d].expires
                             /\ ShownTo(d)'
                        /\ approval'[d].status = "EXPIRED" =>
                             approval'[d].reviewed_at >= approval'[d].expires
      BY DEF DecisionsAreProven, ShownTo, Recorded
    <3>1. CASE d = c
      <4>1. q.time \in Int /\ approval[c].expires \in Int
        BY <1>2, <2>3 DEF Row
      <4>2. q.status # "EXPIRED" => ledger'[c][q.status] > 0
        BY <1>2, <2>7, <2>8
      <4> QED BY <1>2, <2>4, <2>13, <2>17, <3>1, <4>1, <4>2 DEF Verdict
    <3>2. CASE d # c
      <4>1. approval'[d] = approval[d] /\ ShownTo(d)' = ShownTo(d) /\ ledger'[d] = ledger[d]
        BY <2>4, <2>7, <2>8, <2>13, <3>2
      <4>2. /\ approval[d].status \in {"APPROVED", "REJECTED"} =>
                 /\ ledger[d][approval[d].status] > 0
                 /\ approval[d].reviewed_at < approval[d].expires /\ ShownTo(d)
            /\ approval[d].status = "EXPIRED" => approval[d].reviewed_at >= approval[d].expires
        BY <4>1 DEF AInv, Proven, DecisionsAreProven, ShownTo, Recorded
      <4> QED BY <4>1, <4>2
    <3> QED BY <3>1, <3>2
  <2>19. CasesFollowDecisions'
    <3> SUFFICES ASSUME NEW d \in Case, approval'[d] # None
                 PROVE  /\ \A v \in Verdict : case'[d] = Outcome[v] => Recorded(d, v)'
                        /\ approval'[d].status = "PENDING" => case'[d] = "AWAITING_APPROVAL"
                        /\ case'[d] = "AWAITING_APPROVAL" =>
                             approval'[d].status \in {"PENDING", "EXPIRED"}
      BY DEF CasesFollowDecisions
    <3>1. CASE d = c
      <4>1. \A v \in Verdict : case[c] = Outcome[v] => Recorded(c, v)
        BY <1>2, <2>2 DEF AInv, Proven, CasesFollowDecisions
      <4> QED BY <1>2, <2>4, <2>5, <2>6, <2>9, <2>17, <3>1, <4>1 DEF Verdict
    <3>2. CASE d # c
      BY <2>4, <2>9, <2>14, <3>2 DEF AInv, Proven, CasesFollowDecisions
    <3> QED BY <3>1, <3>2
  <2>20. c \notin disturbed =>
           /\ approval[c].status = "PENDING" /\ ~InSweep(c)
           /\ q.status # "EXPIRED" => q.moves
           /\ \A s \in Request : Holds(s, c) => s = r
           /\ \A v \in Verdict : ~Recorded(c, v)
    BY <1>0, <1>1, <1>2, <2>2 DEF AInv, Lone, Alone
  <2>21. Alone'
    BY <1>1, <1>2, <2>4, <2>9, <2>12, <2>13, <2>14, <2>20 DEF AInv, Lone, Alone, Verdict
  <2>22. UndisturbedDecisionsAgree'
    <3> SUFFICES ASSUME NEW d \in Case \ disturbed, approval'[d] # None
                 PROVE  /\ ~DecidedTwice(d)'
                        /\ \A v \in Verdict : Recorded(d, v)' => approval'[d].status = v
                                                                 /\ case'[d] = Outcome[v]
      BY <1>1 DEF UndisturbedDecisionsAgree
    <3>1. CASE d = c
      <4>1. \A v \in Verdict : ledger[c][v] = 0
        BY <1>2, <2>8, <2>20, <3>1 DEF Recorded
      <4>2. \A v \in Verdict : ledger'[c][v] = IF v = q.status /\ q.status # "EXPIRED"
                                               THEN 1 ELSE 0
        BY <1>2, <2>7, <4>1
      <4>3. \A v \in Verdict : Recorded(c, v)' => v = q.status /\ q.status # "EXPIRED"
        BY <4>2 DEF Recorded
      <4>4. ~DecidedTwice(c)'
        BY <4>2, <4>3 DEF DecidedTwice
      <4> QED BY <2>4, <2>6, <2>20, <3>1, <4>3, <4>4
    <3>2. CASE d # c
      <4>1. \A v \in Verdict : ledger'[d][v] = ledger[d][v]
        BY <2>7, <3>2
      <4>2. DecidedTwice(d)' = DecidedTwice(d)
        BY <4>1 DEF DecidedTwice, Recorded
      <4> QED BY <2>4, <2>9, <2>14, <3>2, <4>2 DEF AInv, Lone, UndisturbedDecisionsAgree
    <3> QED BY <3>1, <3>2
  <2> QED BY <2>11, <2>15, <2>16, <2>18, <2>19, <2>21, <2>22 DEF AInv, Proven, Lone
<1> QED BY <1>3, <1>4

\* A block without its change: the rest is as before, and the cases are disturbed.
LEMMA LossKeeps ==
  ASSUME ApprovalParametersOK, AInv, NEW C \in SUBSET Case, NEW v \in Verdict,
         Adds(C, v), C \subseteq disturbed', disturbed \subseteq disturbed',
         disturbed' \in SUBSET Case, \A c \in C : approval[c] # None,
         UNCHANGED <<now, batch, approval, case, screen>>, faults' \in 0 .. MaxFaults,
         req' \in [Request -> Sessions], sweep' \in Sweeps,
         \A r \in Request : req'[r] = req[r] \/ req'[r].at = "answered",
         sweep' = sweep \/ sweep' = Asleep
  PROVE  AInv'
<1>1. TypeOK'
  BY DEF AInv, TypeOK, Adds
<1>2. /\ \A c \in Case, r \in Request : Holds(r, c)' => Holds(r, c) /\ req'[r] = req[r]
      /\ \A c \in Case : InSweep(c)' => InSweep(c) /\ sweep' = sweep
      /\ \A c \in Case : ShownTo(c)' = ShownTo(c)
  BY DEF Holds, InSweep, ShownTo, Asleep
<1>3. ledger \in [Case -> [Verdict -> Nat]]
  BY DEF AInv, TypeOK
<1>4. /\ \A c \in Case, w \in Verdict : Recorded(c, w) => Recorded(c, w)'
      /\ \A c \in Case \ C, w \in Verdict : ledger'[c][w] = ledger[c][w]
  BY <1>3 DEF Recorded, Adds
<1>5. \A c \in Case \ C, w \in Verdict : Recorded(c, w)' = Recorded(c, w)
  BY <1>4 DEF Recorded
<1>6. Past'
  BY <1>5 DEF AInv, Past, Asleep
<1>7. Checked'
  BY <1>2 DEF AInv, Checked
<1>8. DecisionsAreProven'
  <2> SUFFICES ASSUME NEW d \in Case, approval[d] # None
               PROVE  /\ approval[d].status \in {"APPROVED", "REJECTED"} =>
                           /\ ledger'[d][approval[d].status] > 0
                           /\ approval[d].reviewed_at < approval[d].expires
                           /\ ShownTo(d)
                      /\ approval[d].status = "EXPIRED" =>
                           approval[d].reviewed_at >= approval[d].expires
    BY DEF DecisionsAreProven, ShownTo, Recorded
  <2>1. /\ approval[d].status \in {"APPROVED", "REJECTED"} =>
             /\ ledger[d][approval[d].status] > 0
             /\ approval[d].reviewed_at < approval[d].expires /\ ShownTo(d)
        /\ approval[d].status = "EXPIRED" => approval[d].reviewed_at >= approval[d].expires
    BY DEF AInv, Proven, DecisionsAreProven, ShownTo, Recorded
  <2>2. \A w \in Verdict : ledger[d][w] > 0 => ledger'[d][w] > 0
    BY <1>4 DEF Recorded
  <2> QED BY <2>1, <2>2 DEF Verdict
<1>9. CasesFollowDecisions'
  BY <1>4 DEF AInv, Proven, CasesFollowDecisions
<1>10. Alone'
  BY <1>2, <1>5 DEF AInv, Lone, Alone
<1>11. UndisturbedDecisionsAgree'
  <2>1. \A d \in Case \ C : DecidedTwice(d)' = DecidedTwice(d)
    BY <1>4, <1>5 DEF DecidedTwice
  <2> QED BY <1>5, <2>1 DEF AInv, Lone, UndisturbedDecisionsAgree
<1> QED BY <1>1, <1>6, <1>7, <1>8, <1>9, <1>10, <1>11 DEF AInv, Proven, Lone

LEMMA LoseDecisionKeeps ==
  ASSUME ApprovalParametersOK, AInv, NEW r \in Request, LoseDecision(r) PROVE AInv'
<1>0. PICK q, c : q = req[r] /\ c = q.case
  OBVIOUS
<1>1. /\ q.at = "write" /\ req' = [req EXCEPT ![r] = Answered]
      /\ faults' \in 0 .. MaxFaults /\ disturbed' = disturbed \cup {c}
      /\ UNCHANGED <<now, batch, approval, case, screen, sweep>>
      /\ \/ UNCHANGED ledger
         \/ q.status # "EXPIRED" /\ Same(c, q.batch) /\ ledger' = Record({c}, q.status)
  BY <1>0 DEF LoseDecision, AInv, TypeOK, ApprovalParametersOK
<1>2. q.status \in Verdict /\ c \in Case
  BY <1>0, <1>1 DEF AInv, TypeOK, Past, Sessions
<1>3. disturbed' \in SUBSET Case
  BY <1>1, <1>2 DEF AInv, TypeOK
<1>4. CASE UNCHANGED ledger
  BY <1>1, <1>3, <1>4, AnsweredKeeps
<1>5. CASE Same(c, q.batch) /\ ledger' = Record({c}, q.status)
  <2> DEFINE C == {c}
  <2>1. C \in SUBSET Case /\ C \subseteq disturbed' /\ \A d \in C : approval[d] # None
    BY <1>1, <1>2, <1>5 DEF Same
  <2>2. ledger' = Record(C, q.status)
    BY <1>5
  <2> HIDE DEF C
  <2>3. Adds(C, q.status)
    BY <1>2, <2>1, <2>2, RecordAdds DEF AInv
  <2>4. Answered.at = "answered"
    BY DEF Answered, Idle
  <2>5. req' \in [Request -> Sessions]
        /\ \A s \in Request : req'[s] = req[s] \/ req'[s].at = "answered"
    BY <1>1, <2>4, AnsweredTyped DEF AInv, TypeOK
  <2>6. sweep' \in Sweeps /\ sweep' = sweep
    BY <1>1 DEF AInv, TypeOK
  <2> QED BY <1>1, <1>2, <1>3, <2>1, <2>3, <2>5, <2>6, LossKeeps
<1> QED BY <1>1, <1>4, <1>5

-----------------------------------------------------------------------------
(* The sweep.                                                              *)

Selection(due, no, time) ==
  [Asleep EXCEPT !.at = "case", !.todo = due, !.batch = no, !.time = time]

LEMMA SweepsTyped ==
  ASSUME NEW due \in SUBSET Case, NEW no \in 0 .. MaxRuns, NEW time \in 0 .. MaxTime
  PROVE  Selection(due, no, time) \in Sweeps
<1> DEFINE times == 0 .. MaxTime
           batches == 0 .. MaxRuns
<1> HIDE DEF times, batches
<1>1. no \in batches /\ time \in times
  BY DEF times, batches
<1>2. Selection(due, no, time)
        \in [at : {"idle", "case", "write"}, todo : SUBSET Case, batch : batches,
            time : times, first : Case \cup {None}, moves : BOOLEAN]
  BY <1>1 DEF Selection, Asleep
<1> QED BY <1>2 DEF Sweeps, times, batches

LEMMA AsleepTyped == ASSUME ApprovalParametersOK PROVE Asleep \in Sweeps
<1> DEFINE times == 0 .. MaxTime
           batches == 0 .. MaxRuns
<1> HIDE DEF times, batches
<1>1. 0 \in times /\ 0 \in batches
  BY DEF times, batches, ApprovalParametersOK
<1>2. Asleep \in [at : {"idle", "case", "write"}, todo : SUBSET Case, batch : batches,
                  time : times, first : Case \cup {None}, moves : BOOLEAN]
  BY <1>1 DEF Asleep
<1> QED BY <1>2 DEF Sweeps, times, batches

LEMMA SelectKeeps == ASSUME ApprovalParametersOK, AInv, SelectExpired PROVE AInv'
<1>0. PICK due : due = {c \in Case : approval[c] # None /\ approval[c].status = "PENDING"
                                     /\ approval[c].expires <= now}
  OBVIOUS
<1>1. /\ sweep' = Selection(due, batch.no, now)
      /\ disturbed' = disturbed \cup (due \cap Held)
      /\ UNCHANGED <<now, batch, approval, case, ledger, screen, req, faults>>
  BY <1>0 DEF SelectExpired, Selection
<1>2. due \in SUBSET Case /\ batch.no \in 0 .. MaxRuns /\ now \in 0 .. MaxTime
  BY <1>0 DEF AInv, TypeOK
<1>3. sweep' \in Sweeps
  BY <1>1, <1>2, SweepsTyped
<1>4. /\ sweep'.at = "case" /\ sweep'.todo = due /\ sweep'.batch = batch.no
      /\ sweep'.time = now
  BY <1>1 DEF Selection, Asleep
<1>5. TypeOK'
  BY <1>1, <1>2, <1>3 DEF AInv, TypeOK
<1>6. /\ \A c \in Case, r \in Request : Holds(r, c)' = Holds(r, c)
      /\ \A c \in Case : (InSweep(c)' <=> c \in due) /\ ShownTo(c)' = ShownTo(c)
  BY <1>1, <1>4 DEF Holds, InSweep, ShownTo
<1>7. batch.no \in Int
  BY <1>2
<1>8. Past'
  BY <1>1, <1>4, <1>7 DEF AInv, Past, Recorded
<1>9. Checked'
  <2>1. \A c \in due : approval'[c] # None /\ approval'[c].expires <= sweep'.time
    BY <1>0, <1>1, <1>4
  <2>2. \A c \in Case : InSweep(c)' =>
          approval'[c] # None /\ approval'[c].expires <= sweep'.time
    BY <1>6, <2>1
  <2>3. \A c \in Case : \A r \in Request : Holds(r, c)' =>
          /\ approval'[c] # None
          /\ req'[r].status = "EXPIRED" => /\ req'[r].at = "write" /\ ~req'[r].moves
                                           /\ approval'[c].expires <= req'[r].time
          /\ req'[r].status # "EXPIRED" => req'[r].time < approval'[c].expires /\ ShownTo(c)'
          /\ req'[r].status # "EXPIRED" /\ req'[r].at = "write" /\ ~req'[r].moves =>
               case'[c] # "AWAITING_APPROVAL"
    BY <1>1, <1>6 DEF AInv, Checked
  <2> QED BY <2>2, <2>3 DEF Checked
<1>10. Proven'
  BY <1>1 DEF AInv, Proven, DecisionsAreProven, CasesFollowDecisions, Recorded
<1>11. \A c \in due, r \in Request : Holds(r, c) => c \in disturbed'
  BY <1>1, <1>2 DEF Held, Holds
<1>12. Alone'
  BY <1>0, <1>1, <1>4, <1>6, <1>11 DEF AInv, Lone, Alone, Recorded
<1>13. UndisturbedDecisionsAgree'
  BY <1>1 DEF AInv, Lone, UndisturbedDecisionsAgree, Recorded, DecidedTwice
<1> QED BY <1>5, <1>8, <1>9, <1>10, <1>12, <1>13 DEF AInv, Lone

LEMMA LoadFirstCaseKeeps == ASSUME ApprovalParametersOK, AInv, LoadFirstCase PROVE AInv'
<1>1. PICK c \in sweep.todo :
        sweep' = [sweep EXCEPT !.at = "write", !.first = c,
                               !.moves = case[c] = "AWAITING_APPROVAL"]
  BY DEF LoadFirstCase
<1>2. /\ sweep.at = "case"
      /\ UNCHANGED <<now, batch, approval, case, ledger, screen, req, disturbed, faults>>
  BY DEF LoadFirstCase
<1>3. sweep \in Sweeps /\ c \in Case
  BY DEF AInv, TypeOK, Sweeps
<1>4. /\ sweep' \in Sweeps /\ sweep'.at = "write" /\ sweep'.first = c
      /\ sweep'.moves = (case[c] = "AWAITING_APPROVAL")
      /\ sweep'.todo = sweep.todo /\ sweep'.batch = sweep.batch /\ sweep'.time = sweep.time
  BY <1>1, <1>3 DEF Sweeps
<1>5. TypeOK'
  BY <1>2, <1>4 DEF AInv, TypeOK
<1>6. /\ \A d \in Case, r \in Request : Holds(r, d)' = Holds(r, d)
      /\ \A d \in Case : InSweep(d)' = InSweep(d) /\ ShownTo(d)' = ShownTo(d)
  BY <1>2, <1>4 DEF Holds, InSweep, ShownTo
<1>7. Past'
  BY <1>1, <1>2, <1>4 DEF AInv, Past, Recorded
<1>8. Checked'
  BY <1>2, <1>4, <1>6 DEF AInv, Checked
<1>9. Proven'
  BY <1>2 DEF AInv, Proven, DecisionsAreProven, CasesFollowDecisions, Recorded
<1>10. \A d \in Case : approval[d] # None /\ approval[d].status = "PENDING"
                       => case[d] = "AWAITING_APPROVAL"
  BY DEF AInv, Proven, CasesFollowDecisions
<1>11. Alone'
  <2>1. sweep'.moves <=> case[c] = "AWAITING_APPROVAL"
    BY <1>4
  <2>2. \A d \in Case, v \in Verdict : Recorded(d, v)' = Recorded(d, v)
    BY <1>2 DEF Recorded
  <2> QED BY <1>2, <1>4, <1>6, <1>10, <2>1, <2>2 DEF AInv, Lone, Alone
<1>12. UndisturbedDecisionsAgree'
  BY <1>2 DEF AInv, Lone, UndisturbedDecisionsAgree, Recorded, DecidedTwice
<1> QED BY <1>5, <1>7, <1>8, <1>9, <1>11, <1>12 DEF AInv, Lone

LEMMA LoseExpiryKeeps == ASSUME ApprovalParametersOK, AInv, LoseExpiry PROVE AInv'
<1>0. PICK C : C = sweep.todo
  OBVIOUS
<1>1. /\ sweep.at = "write" /\ sweep' = Asleep /\ faults' \in 0 .. MaxFaults
      /\ disturbed' = disturbed \cup C
      /\ UNCHANGED <<now, batch, approval, case, screen, req>>
      /\ \/ UNCHANGED ledger
         \/ C = {sweep.first} /\ Same(sweep.first, sweep.batch)
            /\ ledger' = Record({sweep.first}, "EXPIRED")
  BY <1>0 DEF LoseExpiry, AInv, TypeOK, ApprovalParametersOK
<1>2. C \in SUBSET Case /\ disturbed' \in SUBSET Case
  BY <1>0, <1>1 DEF AInv, TypeOK, Sweeps
<1>3. /\ req' \in [Request -> Sessions] /\ sweep' \in Sweeps
      /\ \A r \in Request : req'[r] = req[r]
  BY <1>1, AsleepTyped DEF AInv, TypeOK
<1>4. CASE UNCHANGED ledger
  <2> DEFINE E == {}
  <2>1. ledger \in [Case -> [Verdict -> Nat]]
    BY DEF AInv, TypeOK
  <2>2. E \in SUBSET Case /\ E \subseteq disturbed' /\ \A c \in E : approval[c] # None
    OBVIOUS
  <2>3. "EXPIRED" \in Verdict /\ Adds(E, "EXPIRED")
    BY <1>4, <2>1 DEF Adds, Verdict
  <2> HIDE DEF E
  <2> QED BY <1>1, <1>2, <1>3, <2>2, <2>3, LossKeeps
<1>5. CASE C = {sweep.first} /\ Same(sweep.first, sweep.batch)
           /\ ledger' = Record({sweep.first}, "EXPIRED")
  <2>1. ledger' = Record(C, "EXPIRED") /\ \A c \in C : approval[c] # None
    BY <1>5 DEF Same
  <2>2. "EXPIRED" \in Verdict
    BY DEF Verdict
  <2>3. Adds(C, "EXPIRED")
    BY <1>2, <2>1, <2>2, RecordAdds DEF AInv
  <2>4. C \subseteq disturbed' /\ disturbed \subseteq disturbed'
    BY <1>1
  <2> QED BY <1>1, <1>2, <1>3, <2>1, <2>2, <2>3, <2>4, LossKeeps
<1> QED BY <1>1, <1>4, <1>5

LEMMA ExpireAllKeeps == ASSUME ApprovalParametersOK, AInv, ExpireAll PROVE AInv'
<1>0. PICK C, first, moves, time :
        C = sweep.todo /\ first = sweep.first /\ moves = sweep.moves /\ time = sweep.time
  OBVIOUS
<1>1. /\ sweep.at = "write" /\ sweep' = Asleep
      /\ UNCHANGED <<now, batch, screen, req, disturbed, faults>>
  BY DEF ExpireAll
<1>2. /\ C \in SUBSET Case /\ first \in C /\ time \in Nat /\ moves \in BOOLEAN
      /\ disturbed \in SUBSET Case /\ faults \in 0 .. MaxFaults
  BY <1>0, <1>1 DEF AInv, TypeOK, Past, Sweeps, ApprovalParametersOK
<1>3. /\ req \in [Request -> Sessions] /\ sweep' \in Sweeps /\ Asleep.at = "idle"
      /\ Asleep.todo = {}
  BY <1>1, AsleepTyped DEF AInv, TypeOK, Asleep
<1>4. CASE \E c \in C : ~Same(c, sweep.batch)
  <2> DEFINE E == {}
  <2>1. UNCHANGED <<approval, case, ledger>>
    BY <1>0, <1>4 DEF ExpireAll
  <2>2. ledger \in [Case -> [Verdict -> Nat]]
    BY DEF AInv, TypeOK
  <2>3. E \in SUBSET Case /\ E \subseteq disturbed' /\ \A c \in E : approval[c] # None
    OBVIOUS
  <2>4. "EXPIRED" \in Verdict /\ Adds(E, "EXPIRED")
    BY <2>1, <2>2 DEF Adds, Verdict
  <2> HIDE DEF E
  <2>5. faults' \in 0 .. MaxFaults /\ disturbed' \in SUBSET Case /\ req' = req
    BY <1>1, <1>2
  <2> QED BY <1>1, <1>2, <1>3, <2>1, <2>3, <2>4, <2>5, LossKeeps
<1>5. CASE \A c \in C : Same(c, sweep.batch)
  <2>1. PICK moved : moved = {c \in C : IF c = first THEN moves
                                        ELSE case[c] = "AWAITING_APPROVAL"}
    OBVIOUS
  <2>2. /\ approval' = [c \in Case |-> IF c \in C THEN Reviewed(approval[c], "EXPIRED", time)
                                       ELSE approval[c]]
        /\ case' = [c \in Case |-> IF c \in moved THEN "EXPIRED" ELSE case[c]]
        /\ ledger' = Record(C, "EXPIRED")
    BY <1>0, <1>5, <2>1 DEF ExpireAll
  <2>3. /\ \A c \in C : approval[c] # None /\ InSweep(c) /\ approval[c] \in Row
        /\ "EXPIRED" \in Verdict /\ moved \subseteq C
    BY <1>0, <1>1, <1>2, <1>5, <2>1 DEF Same, InSweep, AInv, TypeOK, Verdict
  <2>4. /\ \A c \in C : /\ approval'[c] \in Row /\ approval'[c].status = "EXPIRED"
                        /\ approval'[c].reviewed_at = time
                        /\ approval'[c].action = approval[c].action
                        /\ approval'[c].expires = approval[c].expires
        /\ \A c \in Case \ C : approval'[c] = approval[c]
    BY <1>2, <2>2, <2>3, ReviewedIs
  <2>5. /\ \A c \in moved : case'[c] = "EXPIRED"
        /\ \A c \in Case \ moved : case'[c] = case[c]
    BY <1>2, <2>2, <2>3
  <2>6. Adds(C, "EXPIRED")
    BY <1>2, <2>2, <2>3, RecordAdds DEF AInv
  <2>7. ledger \in [Case -> [Verdict -> Nat]]
    BY DEF AInv, TypeOK
  <2>8. /\ \A c \in Case, v \in Verdict : Recorded(c, v) => Recorded(c, v)'
        /\ \A c \in Case \ C, v \in Verdict : ledger'[c][v] = ledger[c][v]
        /\ \A c \in C : ledger'[c]["EXPIRED"] > 0
    BY <1>2, <2>3, <2>6, <2>7 DEF Recorded, Adds
  <2>9. /\ \A c \in Case \ C, v \in Verdict : Recorded(c, v)' = Recorded(c, v)
        /\ \A c \in C : Recorded(c, "EXPIRED")'
    BY <2>8 DEF Recorded
  <2>10. None \notin Row /\ None \notin Status /\ "EXPIRED" \in Status
    BY DEF ApprovalParametersOK, Status
  <2>11. \A c \in Case : approval'[c] = None <=> approval[c] = None
    BY <2>3, <2>4, <2>10
  <2>12. TypeOK'
    <3>1. approval' \in [Case -> Row \cup {None}]
      BY <2>2, <2>4 DEF AInv, TypeOK
    <3>2. case' \in [Case -> Status \cup {None}]
      BY <2>2, <2>10 DEF AInv, TypeOK
    <3>3. \A c \in C : case[c] # None
      BY <1>2, <2>3 DEF AInv, TypeOK
    <3>4. \A c \in Case : (approval'[c] = None) = (case'[c] = None)
      BY <2>3, <2>5, <2>10, <2>11, <3>3 DEF AInv, TypeOK
    <3>5. ledger' \in [Case -> [Verdict -> Nat]]
      BY <2>6 DEF Adds
    <3> QED BY <1>1, <1>3, <3>1, <3>2, <3>4, <3>5 DEF AInv, TypeOK
  <2>13. /\ \A c \in Case, r \in Request : Holds(r, c)' = Holds(r, c)
         /\ \A c \in Case : ~InSweep(c)' /\ ShownTo(c)' = ShownTo(c)
    BY <1>1, <1>3, <2>4 DEF Holds, InSweep, ShownTo
  <2>14. Past'
    <3>1. \A card \in screen : card.case \in Case
      BY DEF AInv, TypeOK
    <3>2. \A card \in screen : approval[card.case] # None =>
                                 approval'[card.case].action = approval[card.case].action
      BY <2>4, <3>1
    <3>3. \A card \in screen' :
            /\ card.batch <= batch'.no
            /\ card.batch = batch'.no => /\ approval'[card.case] # None
                                         /\ card.action = approval'[card.case].action
      BY <1>1, <2>11, <3>1, <3>2 DEF AInv, Past
    <3>4. \A c \in Case : approval'[c] = None => c \notin C
      BY <2>3, <2>11
    <3> QED BY <1>1, <1>3, <2>9, <2>11, <3>3, <3>4 DEF AInv, Past
  <2>15. Checked'
    <3>1. \A c \in Case : case'[c] = "AWAITING_APPROVAL" => case[c] = "AWAITING_APPROVAL"
      BY <2>5
    <3>2. \A c \in Case : approval[c] # None => approval'[c].expires = approval[c].expires
      BY <2>4
    <3> QED BY <1>1, <2>11, <2>13, <3>1, <3>2 DEF AInv, Checked
  <2>16. DecisionsAreProven'
    <3> SUFFICES ASSUME NEW d \in Case, approval'[d] # None
                 PROVE  /\ approval'[d].status \in {"APPROVED", "REJECTED"} =>
                             /\ ledger'[d][approval'[d].status] > 0
                             /\ approval'[d].reviewed_at < approval'[d].expires
                             /\ ShownTo(d)'
                        /\ approval'[d].status = "EXPIRED" =>
                             approval'[d].reviewed_at >= approval'[d].expires
      BY DEF DecisionsAreProven, ShownTo, Recorded
    <3>1. CASE d \in C
      <4>1. approval[d].expires <= time /\ time \in Int /\ approval[d].expires \in Int
        BY <1>0, <1>2, <2>3, <3>1 DEF AInv, Checked, Row
      <4> QED BY <2>4, <3>1, <4>1
    <3>2. CASE d \notin C
      <4>1. approval'[d] = approval[d] /\ ShownTo(d)' = ShownTo(d)
            /\ \A v \in Verdict : ledger'[d][v] = ledger[d][v]
        BY <2>4, <2>8, <2>13, <3>2
      <4>2. /\ approval[d].status \in {"APPROVED", "REJECTED"} =>
                 /\ ledger[d][approval[d].status] > 0
                 /\ approval[d].reviewed_at < approval[d].expires /\ ShownTo(d)
            /\ approval[d].status = "EXPIRED" => approval[d].reviewed_at >= approval[d].expires
        BY <4>1 DEF AInv, Proven, DecisionsAreProven, ShownTo, Recorded
      <4> QED BY <4>1, <4>2 DEF Verdict
    <3> QED BY <3>1, <3>2
  <2>17. CasesFollowDecisions'
    <3> SUFFICES ASSUME NEW d \in Case, approval'[d] # None
                 PROVE  /\ \A v \in Verdict : case'[d] = Outcome[v] => Recorded(d, v)'
                        /\ approval'[d].status = "PENDING" => case'[d] = "AWAITING_APPROVAL"
                        /\ case'[d] = "AWAITING_APPROVAL" =>
                             approval'[d].status \in {"PENDING", "EXPIRED"}
      BY DEF CasesFollowDecisions
    <3>1. \A v \in Verdict : Outcome[v] = "EXPIRED" => v = "EXPIRED"
      BY DEF Outcome, Verdict
    <3>2. \A v \in Verdict : case[d] = Outcome[v] => Recorded(d, v)
      BY <2>11 DEF AInv, Proven, CasesFollowDecisions
    <3>3. CASE d \in C
      BY <2>4, <2>5, <2>8, <2>9, <3>1, <3>2, <3>3
    <3>4. CASE d \notin C
      BY <2>3, <2>4, <2>5, <2>8, <2>11, <3>4 DEF AInv, Proven, CasesFollowDecisions
    <3> QED BY <3>3, <3>4
  <2>18. \A c \in C \ disturbed :
           /\ approval[c].status = "PENDING" /\ case[c] = "AWAITING_APPROVAL"
           /\ c = first => moves
           /\ \A r \in Request : ~Holds(r, c)
           /\ \A v \in Verdict : ~Recorded(c, v)
    <3> SUFFICES ASSUME NEW c \in C \ disturbed
                 PROVE  /\ approval[c].status = "PENDING" /\ case[c] = "AWAITING_APPROVAL"
                        /\ c = first => moves
                        /\ \A r \in Request : ~Holds(r, c)
                        /\ \A v \in Verdict : ~Recorded(c, v)
      OBVIOUS
    <3>1. c \in Case \ disturbed /\ approval[c] # None /\ InSweep(c)
      BY <1>2, <2>3
    <3>2. approval[c].status = "PENDING" /\ \A v \in Verdict : ~Recorded(c, v)
      BY <3>1 DEF AInv, Lone, Alone
    <3>5. sweep.at = "write" /\ sweep.first = c => sweep.moves
      BY <3>1 DEF AInv, Lone, Alone
    <3>4. \A r \in Request : Holds(r, c) => ~InSweep(c)
      BY <3>1 DEF AInv, Lone, Alone
    <3>3. approval[c].status = "PENDING" => case[c] = "AWAITING_APPROVAL"
      BY <3>1 DEF AInv, Proven, CasesFollowDecisions
    <3> QED BY <1>0, <1>1, <3>1, <3>2, <3>3, <3>4, <3>5
  <2>19. \A c \in C \ disturbed : case'[c] = "EXPIRED"
    BY <2>1, <2>5, <2>18
  <2>20. Alone'
    BY <1>1, <1>2, <2>4, <2>9, <2>11, <2>13, <2>18 DEF AInv, Lone, Alone
  <2>21. UndisturbedDecisionsAgree'
    <3> SUFFICES ASSUME NEW d \in Case \ disturbed, approval'[d] # None
                 PROVE  /\ ~DecidedTwice(d)'
                        /\ \A v \in Verdict : Recorded(d, v)' => approval'[d].status = v
                                                                 /\ case'[d] = Outcome[v]
      BY <1>1 DEF UndisturbedDecisionsAgree
    <3>1. CASE d \in C
      <4>1. \A v \in Verdict : ledger[d][v] = 0
        BY <2>7, <2>18, <3>1 DEF Recorded
      <4>2. \A v \in Verdict : ledger'[d][v] = IF v = "EXPIRED" THEN 1 ELSE 0
        BY <2>6, <3>1, <4>1 DEF Adds
      <4>3. \A v \in Verdict : Recorded(d, v)' => v = "EXPIRED"
        BY <4>2 DEF Recorded
      <4>4. ~DecidedTwice(d)'
        BY <4>2, <4>3 DEF DecidedTwice
      <4>5. Outcome["EXPIRED"] = "EXPIRED"
        BY DEF Outcome
      <4> QED BY <2>4, <2>19, <3>1, <4>3, <4>4, <4>5
    <3>2. CASE d \notin C
      <4>1. DecidedTwice(d)' = DecidedTwice(d)
        BY <2>8, <3>2 DEF DecidedTwice, Recorded
      <4> QED BY <2>3, <2>4, <2>5, <2>9, <2>11, <3>2, <4>1
              DEF AInv, Lone, UndisturbedDecisionsAgree
    <3> QED BY <3>1, <3>2
  <2> QED BY <2>12, <2>14, <2>15, <2>16, <2>17, <2>20, <2>21 DEF AInv, Proven, Lone
<1> QED BY <1>0, <1>4, <1>5

-----------------------------------------------------------------------------
(* The theorems.                                                           *)

LEMMA StepKeepsAInv == ASSUME ApprovalParametersOK, AInv, [Next]_vars PROVE AInv'
<1>1. CASE UNCHANGED vars
  <2>1. UNCHANGED <<now, batch, approval, case, ledger, screen, req, sweep, disturbed, faults>>
    BY <1>1 DEF vars
  <2>2. TypeOK' /\ Past' /\ Checked'
    BY <2>1 DEF AInv, TypeOK, Past, Checked, Holds, InSweep, ShownTo, Recorded
  <2>3. Proven' /\ Lone'
    BY <2>1 DEF AInv, Proven, Lone, DecisionsAreProven, CasesFollowDecisions, Alone,
       UndisturbedDecisionsAgree, Recorded, DecidedTwice, Holds, InSweep
  <2> QED BY <2>2, <2>3 DEF AInv
<1>2. CASE Next
  BY <1>2, TickKeeps, StartBatchKeeps, ListKeeps, AskKeeps, LoadApprovalKeeps, LoadCaseKeeps,
     CommitKeeps, LoseDecisionKeeps, SelectKeeps, LoadFirstCaseKeeps, ExpireAllKeeps,
     LoseExpiryKeeps DEF Next
<1> QED BY <1>1, <1>2

LEMMA AInvHolds == Spec => []AInv
<1>1. Init => AInv
  BY ApprovalParametersOK, InitAInv
<1>2. AInv /\ [Next]_vars => AInv'
  BY ApprovalParametersOK, StepKeepsAInv
<1> QED BY <1>1, <1>2, PTL DEF Spec

\* Types of rows and sessions; a case and its approval come and go together.
THEOREM TypeCorrect == Spec => []TypeOK
<1>1. AInv => TypeOK
  BY DEF AInv
<1> QED BY <1>1, AInvHolds, PTL

\* However decisions, sweeps and lost commits interleave: an approval is decided by
\* one who saw this action, in time, and on the ledger (action_approval).
THEOREM DecisionsAreAlwaysProven == Spec => []DecisionsAreProven
<1>1. AInv => DecisionsAreProven
  BY DEF AInv, Proven
<1> QED BY <1>1, AInvHolds, PTL

\* No case moves without a recorded decision, and none waits behind a human one
\* (action_approval, _expire_approvals).
THEOREM CasesAlwaysFollow == Spec => []CasesFollowDecisions
<1>1. AInv => CasesFollowDecisions
  BY DEF AInv, Proven
<1> QED BY <1>1, AInvHolds, PTL

\* Only overlapping sessions or a rolled-back append decide an approval twice or
\* leave it at odds with its case.
THEOREM UndisturbedAlwaysAgree == Spec => []UndisturbedDecisionsAgree
<1>1. AInv => UndisturbedDecisionsAgree
  BY DEF AInv, Lone
<1> QED BY <1>1, AInvHolds, PTL
=============================================================================
