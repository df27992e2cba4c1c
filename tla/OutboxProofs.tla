---------------------------- MODULE OutboxProofs ----------------------------
(***************************************************************************)
(* Proofs about Outbox, for any sets of references, workers, operators and *)
(* sweepers, any budget and any bounds; the last section says what one     *)
(* worker and one operator can rely on and several cannot.                 *)
(***************************************************************************)
EXTENDS Outbox, TLAPS, SequenceTheorems

-----------------------------------------------------------------------------
(* Shapes of a worker's record.                                            *)

\* A worker at a step of the executor has a reference in hand.
LEMMA BusyShape ==
  ASSUME TypeOK, NEW w \in Worker, work[w].at \in Step
  PROVE  work[w] \in Busy /\ work[w].ref \in Ref
BY DEF TypeOK, Work, Idle, Down, Loaded, Busy, Step, Txn

\* A worker about to commit holds the snapshot it loaded.
LEMMA LoadedShape ==
  ASSUME TypeOK, NEW w \in Worker, work[w].at = "commit"
  PROVE  /\ work[w] \in Loaded
         /\ work[w].ref \in Ref /\ work[w].txn \in Txn
         /\ work[w].seen \in Status /\ work[w].attempt \in Nat
<1>1. work[w] \in Work
  BY DEF TypeOK
<1>2. work[w] # Idle /\ work[w] # Down /\ work[w] \notin Busy
  BY DEF Idle, Down, Busy, Step, Txn
<1>3. work[w] \in Loaded
  BY <1>1, <1>2 DEF Work
<1> QED
  BY <1>3 DEF Loaded

\* The value written to a status column is a status.
LEMMA WrittenType ==
  ASSUME NEW now \in Status, NEW seen, NEW new \in Status
  PROVE  Written(now, seen, new) \in {now, new}
BY DEF Written

-----------------------------------------------------------------------------
(* Type correctness.                                                       *)

LEMMA TypeInit == Init => TypeOK
BY ParametersOK DEF Init, TypeOK, Row, NoRow, Status, Work, Click, Idle, Down

LEMMA TypeExecute ==
  ASSUME TypeOK, NEW w \in Worker, Execute(w)
  PROVE  TypeOK'
<1> DEFINE r == work[w].ref
<1>1. CASE PhaseOne(w)
  <2>1. r \in Ref /\ [at |-> "call", ref |-> r] \in Work
    BY <1>1, BusyShape DEF PhaseOne, At, Step, Txn, Work, Busy
  <2>2. [status |-> "PENDING", attempt |-> 0, due |-> TRUE, late |-> CaseOf(r) \in shut] \in Row
    BY DEF Row, Status
  <2>3. row' \in [Ref -> Row]
    BY <1>1, <2>1, <2>2 DEF TypeOK, PhaseOne
  <2> QED
    BY <1>1, <2>1, <2>3 DEF TypeOK, PhaseOne, GoTo, timeVars, bounds
<1>2. CASE CreateLink(w)
  BY <1>2, BusyShape DEF TypeOK, CreateLink, At, GoTo, Work, Busy, Step, Txn, dbVars, timeVars, bounds
<1>3. CASE RefuseDuplicate(w)
  BY <1>3, BusyShape DEF TypeOK, RefuseDuplicate, At, GoTo, Work, Busy, Step, Txn, dbVars, timeVars, bounds
<1>4. CASE FindExisting(w)
  BY <1>4, BusyShape DEF TypeOK, FindExisting, At, GoTo, Work, Busy, Step, Txn, dbVars, timeVars, bounds
<1>5. CASE FailTransiently(w)
  BY <1>5, BusyShape DEF TypeOK, FailTransiently, At, GoTo, Work, Busy, Step, Txn, dbVars, timeVars, bounds
<1>6. CASE FailPermanently(w)
  BY <1>6, BusyShape DEF TypeOK, FailPermanently, At, GoTo, Work, Busy, Step, Txn, dbVars, timeVars, bounds
<1>7. CASE Load(w)
  <2>1. r \in Ref /\ work[w].at \in Txn /\ row[r].status \in Status /\ row[r].attempt \in Nat
    BY <1>7, BusyShape DEF TypeOK, Load, Step, Row
  <2>2. [at |-> "commit", txn |-> work[w].at, ref |-> r,
         seen |-> row[r].status, attempt |-> row[r].attempt] \in Work
    BY <2>1 DEF Work, Loaded
  <2>3. work' \in [Worker -> Work]
    BY <1>7, <2>2 DEF TypeOK, Load, Finish, Work
  <2> QED
    BY <1>7, <2>3 DEF TypeOK, Load, dbVars, timeVars, bounds
<1>8. CASE PhaseTwo(w)
  <2>1. r \in Ref
    BY <1>8, LoadedShape DEF PhaseTwo, Loading, At
  <2>2. row[r] \in Row /\ Written(row[r].status, work[w].seen, "SENT") \in Status
    BY <2>1 DEF TypeOK, Row, Status, Written
  <2>3. row' \in [Ref -> Row]
    BY <1>8, <2>1, <2>2 DEF TypeOK, PhaseTwo, Row
  <2>4. recorded' \in [Ref -> Nat]
    BY <1>8, <2>1 DEF TypeOK, PhaseTwo
  <2> QED
    BY <1>8, <2>3, <2>4 DEF TypeOK, PhaseTwo, Finish, Work, timeVars, bounds
<1>9. ASSUME CommitDead(w), At(w, "commit")
      PROVE  row' \in [Ref -> Row] /\ dlq' \in [Ref -> Seq({"OPEN", "REPLAYED"})]
  <2>1. r \in Ref /\ work[w].attempt + 1 \in Nat
    BY <1>9, LoadedShape DEF At
  <2>2. row' \in [Ref -> Row]
    <3>1. row[r] \in Row /\ Written(row[r].status, work[w].seen, "DEAD") \in Status
      BY <2>1 DEF TypeOK, Row, Status, Written
    <3> QED
      BY <1>9, <2>1, <3>1 DEF TypeOK, CommitDead, Row
  <2>3. Append(dlq[r], "OPEN") \in Seq({"OPEN", "REPLAYED"})
    BY <2>1 DEF TypeOK
  <2> QED
    BY <1>9, <2>1, <2>2, <2>3 DEF TypeOK, CommitDead
<1>10. CASE ScheduleRetry(w)
  <2>1. r \in Ref /\ work[w].attempt + 1 \in Nat
    BY <1>10, LoadedShape DEF ScheduleRetry, Loading, At
  <2>2. row' \in [Ref -> Row] /\ dlq' \in [Ref -> Seq({"OPEN", "REPLAYED"})]
    <3>1. CASE CommitDead(w)
      BY <1>10, <1>9, <3>1 DEF ScheduleRetry, Loading
    <3>2. CASE ~CommitDead(w)
      <4>1. PICK late \in BOOLEAN :
              row' = [row EXCEPT ![r] = [status |-> Written(@.status, work[w].seen, "PENDING"),
                                         attempt |-> work[w].attempt + 1,
                                         due |-> FALSE, late |-> late]]
        BY <1>10, <3>2 DEF ScheduleRetry
      <4>2. Written(row[r].status, work[w].seen, "PENDING") \in Status
        BY <2>1 DEF TypeOK, Row, Status, Written
      <4>3. row' \in [Ref -> Row]
        BY <4>1, <4>2, <2>1 DEF TypeOK, Row
      <4> QED
        BY <1>10, <3>2, <4>3 DEF ScheduleRetry, TypeOK
    <3> QED
      BY <3>1, <3>2
  <2> QED
    BY <1>10, <2>2 DEF TypeOK, ScheduleRetry, Finish, Work, timeVars, bounds
<1>11. CASE DeadLetter(w)
  BY <1>9, <1>11 DEF TypeOK, DeadLetter, Loading, Finish, Work, timeVars, bounds
<1>12. CASE MarkDead(w)
  <2>1. r \in Ref
    BY <1>12, LoadedShape DEF MarkDead, Loading, At
  <2>2. row' \in [Ref -> Row]
    <3>1. row[r] \in Row /\ Written(row[r].status, work[w].seen, "DEAD") \in Status
      BY <2>1 DEF TypeOK, Row, Status, Written
    <3>2. [row[r] EXCEPT !.status = Written(row[r].status, work[w].seen, "DEAD")] \in Row
      BY <3>1 DEF Row
    <3>3. row' = [row EXCEPT ![r] = [row[r] EXCEPT !.status = Written(row[r].status, work[w].seen, "DEAD")]]
      BY <1>12, <2>1 DEF MarkDead, TypeOK
    <3> QED
      BY <2>1, <3>2, <3>3 DEF TypeOK
  <2> QED
    BY <1>12, <2>2 DEF TypeOK, MarkDead, Finish, Work, timeVars, bounds
<1>13. CASE Abort(w)
  BY <1>13 DEF TypeOK, Abort, Finish, Work, dbVars, timeVars, bounds
<1> QED
  BY <1>1, <1>2, <1>3, <1>4, <1>5, <1>6, <1>7, <1>8, <1>10, <1>11, <1>12, <1>13 DEF Execute, Closing

LEMMA TypeDrain ==
  ASSUME TypeOK, NEW w \in Worker, Drain(w) \/ Crash(w) \/ \E r \in Ref : Dispatch(w, r)
  PROVE  TypeOK'
<1>1. Due \subseteq Ref /\ Waiting \subseteq Ref
  BY DEF Due, Waiting
<1>2. CASE DrainOnce(w)
  BY <1>1, <1>2 DEF TypeOK, DrainOnce, dbVars, timeVars, bounds
<1>3. CASE ReconcileOnStartup(w)
  BY <1>1, <1>3 DEF TypeOK, ReconcileOnStartup, Finish, Work, dbVars, timeVars, bounds
<1>4. ASSUME NEW r \in Ref, Rebuild(w, r)
      PROVE  TypeOK'
  <2>1. [at |-> IF CaseOf(r) \in over THEN "cancel" ELSE "intent", ref |-> r] \in Work
    BY DEF Work, Busy, Step, Txn
  <2> QED
    BY <1>4, <2>1 DEF TypeOK, Rebuild, dbVars, timeVars, bounds
<1>5. CASE Crash(w)
  BY <1>5 DEF TypeOK, Crash, Work, dbVars, timeVars
<1>6. ASSUME NEW r \in Ref, Dispatch(w, r)
      PROVE  TypeOK'
  <2>1. [at |-> "intent", ref |-> r] \in Work
    BY DEF Work, Busy, Step
  <2> QED
    BY <1>6, <2>1 DEF TypeOK, Dispatch, dbVars, timeVars
<1> QED
  BY <1>2, <1>3, <1>4, <1>5, <1>6 DEF Drain

\* An operator's session that has begun holds the dead letter it read.
\* Marking an entry replayed leaves the sequence of entries as long as it was,
\* and every other entry as it stood.
LEMMA EntryIsMarked ==
  ASSUME NEW s \in Seq({"OPEN", "REPLAYED"}), NEW e,
         NEW t, t = [s EXCEPT ![e] = "REPLAYED"]
  PROVE  /\ t \in Seq({"OPEN", "REPLAYED"}) /\ DOMAIN t = DOMAIN s /\ Len(t) = Len(s)
         /\ \A i \in DOMAIN s : t[i] = s[i] \/ i = e
         /\ t # <<>> <=> s # <<>>
<1>1. /\ Len(s) \in Nat /\ DOMAIN s = 1 .. Len(s)
      /\ s \in [1 .. Len(s) -> {"OPEN", "REPLAYED"}]
  OBVIOUS
<1>2. t \in [1 .. Len(s) -> {"OPEN", "REPLAYED"}] /\ DOMAIN t = 1 .. Len(s)
  BY <1>1
<1>3. t \in Seq({"OPEN", "REPLAYED"})
  BY <1>1, <1>2, SeqDef
<1>4. Len(t) = Len(s)
  BY <1>1, <1>2, <1>3
<1>5. \A i \in DOMAIN s : t[i] = s[i] \/ i = e
  BY <1>1
<1>6. t # <<>> <=> s # <<>>
  BY <1>3, <1>4
<1> QED
  BY <1>1, <1>2, <1>3, <1>4, <1>5, <1>6

\* What a committed sweep makes of a row: the selected ones die, the others stay.
LEMMA SweepRow ==
  ASSUME TypeOK, NEW s \in Sweeper, SweepCommit(s), NEW q \in Ref
  PROVE  /\ row'[q] \in Row
         /\ q \in sweep[s] => row'[q].status = "DEAD"
         /\ q \notin sweep[s] => row'[q] = row[q]
         /\ row'[q].attempt = row[q].attempt
<1>1. row[q] \in Row
  BY DEF TypeOK
<1>2. row'[q] = IF q \in sweep[s] THEN [row[q] EXCEPT !.status = "DEAD"] ELSE row[q]
  BY DEF SweepCommit
<1>3. [row[q] EXCEPT !.status = "DEAD"] \in Row
  BY <1>1 DEF Row, Status
<1> QED
  BY <1>1, <1>2, <1>3 DEF Row

\* What the closing of a contact window makes of a row.
LEMMA WindowRow ==
  ASSUME TypeOK, NEW c \in Case, ShutWindow(c), NEW q \in Ref
  PROVE  /\ row'[q] \in Row
         /\ row'[q].status = row[q].status /\ row'[q].attempt = row[q].attempt
         /\ row'[q].due = row[q].due
<1>1. row[q] \in Row
  BY DEF TypeOK
<1>2. row'[q] = IF CaseOf(q) = c /\ q \in Waiting THEN [row[q] EXCEPT !.late = TRUE] ELSE row[q]
  BY DEF ShutWindow
<1>3. [row[q] EXCEPT !.late = TRUE] \in Row
  BY <1>1 DEF Row
<1> QED
  BY <1>1, <1>2, <1>3 DEF Row

LEMMA ClickShape ==
  ASSUME TypeOK, NEW o \in Operator, click[o] # Idle
  PROVE  /\ click[o].ref \in Ref /\ click[o].entry \in Nat /\ click[o].seen \in Status
         /\ click[o] \in [at: {"replay"}, ref: Ref, entry: Nat, seen: Status]
BY DEF TypeOK, Click

\* A replay marks the one entry it was about; every other entry stays.
LEMMA ReplayEntries ==
  ASSUME TypeOK, NEW o \in Operator, ReplayCommit(o), NEW q \in Ref
  PROVE  /\ DOMAIN dlq'[q] = DOMAIN dlq[q]
         /\ \A i \in DOMAIN dlq[q] : dlq'[q][i] = dlq[q][i]
              \/ (q = click[o].ref /\ i = click[o].entry)
         /\ dlq'[q] # <<>> <=> dlq[q] # <<>>
         /\ dlq'[q] \in Seq({"OPEN", "REPLAYED"})
<1>1. click[o].ref \in Ref /\ dlq[q] \in Seq({"OPEN", "REPLAYED"})
  BY ClickShape DEF ReplayCommit, TypeOK
<1>2. CASE q # click[o].ref
  <2>1. dlq'[q] = dlq[q]
    BY <1>1, <1>2 DEF ReplayCommit, TypeOK
  <2> QED
    BY <1>1, <2>1
<1>3. CASE q = click[o].ref
  <2>1. dlq'[q] = [dlq[q] EXCEPT ![click[o].entry] = "REPLAYED"]
    BY <1>1, <1>3 DEF ReplayCommit, TypeOK
  <2>2. PICK s \in Seq({"OPEN", "REPLAYED"}) : s = dlq[q]
    BY <1>1
  <2>3. PICK e : e = click[o].entry
    OBVIOUS
  <2>4. PICK u : u = dlq'[q]
    OBVIOUS
  <2>5. u = [s EXCEPT ![e] = "REPLAYED"]
    BY <2>1, <2>2, <2>3, <2>4
  <2>6. /\ u \in Seq({"OPEN", "REPLAYED"}) /\ DOMAIN u = DOMAIN s
        /\ \A i \in DOMAIN s : u[i] = s[i] \/ i = e
        /\ u # <<>> <=> s # <<>>
    BY <2>5, EntryIsMarked
  <2> QED
    BY <1>3, <2>2, <2>3, <2>4, <2>6
<1> QED
  BY <1>2, <1>3

\* The row of a replay, and that of every other reference.
LEMMA ReplayRow ==
  ASSUME TypeOK, NEW o \in Operator, ReplayCommit(o), NEW q \in Ref
  PROVE  /\ row'[q] \in Row
         /\ q = click[o].ref =>
              row'[q].status = Written(row[q].status, click[o].seen, "PENDING")
         /\ q # click[o].ref => row'[q] = row[q]
<1>1. row[q] \in Row /\ click[o].ref \in Ref /\ click[o].seen \in Status
  BY ClickShape DEF ReplayCommit, TypeOK
<1>2. CASE q # click[o].ref
  BY <1>1, <1>2 DEF ReplayCommit, TypeOK
<1>3. CASE q = click[o].ref
  <2> DEFINE st == Written(row[q].status, click[o].seen, "PENDING")
             late == CaseOf(q) \in shut
  <2>1. row'[q] = [row[q] EXCEPT !.status = st, !.due = TRUE, !.late = late]
    BY <1>1, <1>3 DEF ReplayCommit, TypeOK
  <2>2. st \in Status /\ late \in BOOLEAN
    BY <1>1 DEF Written, Row, Status
  <2> HIDE DEF st, late
  <2>3. row'[q] \in Row /\ row'[q].status = st
    BY <1>1, <2>1, <2>2 DEF Row
  <2> QED
    BY <1>3, <2>3 DEF st
<1> QED
  BY <1>2, <1>3

LEMMA TypeOther ==
  ASSUME TypeOK,
         \/ \E o \in Operator : ReplayCommit(o) \/ ReplayLost(o)
         \/ \E o \in Operator, r \in Ref : \E i \in DOMAIN dlq[r] : ReplayLoad(o, r, i)
         \/ \E s \in Sweeper : SweepLoad(s) \/ SweepCommit(s) \/ SweepLost(s)
         \/ \E r \in Ref : Elapse(r)
         \/ \E c \in Case : EndCase(c) \/ ShutWindow(c) \/ Release(c)
  PROVE  TypeOK'
<1>1. ASSUME NEW o \in Operator, ReplayCommit(o)
      PROVE  TypeOK'
  <2> DEFINE r == click[o].ref
  <2>1. r \in Ref /\ click[o].entry \in Nat
    BY <1>1, ClickShape DEF ReplayCommit
  <2>4. row' \in [Ref -> Row]
    <3>1. row' = [q \in Ref |-> row'[q]]
      BY <1>1 DEF TypeOK, ReplayCommit
    <3> QED
      BY <1>1, <3>1, ReplayRow
  <2>6. dlq' \in [Ref -> Seq({"OPEN", "REPLAYED"})]
    <3>1. dlq' = [q \in Ref |-> dlq'[q]]
      BY <1>1 DEF TypeOK, ReplayCommit
    <3> QED
      BY <1>1, <3>1, ReplayEntries
  <2>7. click' \in [Operator -> Click]
    BY <1>1 DEF TypeOK, ReplayCommit, Click
  <2> QED
    BY <1>1, <2>4, <2>6, <2>7 DEF TypeOK, ReplayCommit, timeVars, bounds
<1>2. ASSUME NEW o \in Operator, NEW r \in Ref, NEW i \in DOMAIN dlq[r], ReplayLoad(o, r, i)
      PROVE  TypeOK'
  <2>1. i \in Nat /\ row[r].status \in Status
    BY DEF TypeOK, Row
  <2>2. [at |-> "replay", ref |-> r, entry |-> i, seen |-> row[r].status] \in Click
    BY <2>1 DEF Click
  <2> QED
    BY <1>2, <2>2 DEF TypeOK, ReplayLoad, dbVars, timeVars
<1>3. ASSUME NEW s \in Sweeper, SweepLoad(s)
      PROVE  TypeOK'
  BY <1>3 DEF TypeOK, SweepLoad, Waiting, dbVars, timeVars, bounds
<1>4. ASSUME NEW s \in Sweeper, SweepCommit(s)
      PROVE  TypeOK'
  <2>1. row' \in [Ref -> Row]
    <3>1. row' = [q \in Ref |-> row'[q]]
      BY <1>4 DEF SweepCommit
    <3> QED
      BY <1>4, <3>1, SweepRow
  <2>2. cancelled' \subseteq Ref /\ sweep' \in [Sweeper -> SUBSET Ref]
    BY <1>4 DEF TypeOK, SweepCommit
  <2> QED
    BY <1>4, <2>1, <2>2 DEF TypeOK, SweepCommit, timeVars, bounds
<1>9. ASSUME NEW s \in Sweeper, SweepLost(s)
      PROVE  TypeOK'
  BY <1>9 DEF TypeOK, SweepLost, timeVars, bounds
<1>8. ASSUME NEW o \in Operator, ReplayLost(o)
      PROVE  TypeOK'
  BY <1>8 DEF TypeOK, ReplayLost, Click, dbVars, timeVars, bounds
<1>5. ASSUME NEW c \in Case, EndCase(c) \/ Release(c)
      PROVE  TypeOK'
  BY <1>5 DEF TypeOK, EndCase, Release, dbVars, bounds
<1>6. ASSUME NEW r \in Ref, Elapse(r)
      PROVE  TypeOK'
  BY <1>6 DEF TypeOK, Elapse, Row, timeVars, bounds
<1>7. ASSUME NEW c \in Case, ShutWindow(c)
      PROVE  TypeOK'
  <2>1. row' \in [Ref -> Row]
    <3>1. row' = [q \in Ref |-> row'[q]]
      BY <1>7 DEF ShutWindow
    <3> QED
      BY <1>7, <3>1, WindowRow
  <2> QED
    BY <1>7, <2>1 DEF TypeOK, ShutWindow, bounds
<1> QED
  BY <1>1, <1>2, <1>3, <1>4, <1>5, <1>6, <1>7, <1>8, <1>9

LEMMA TypeStep == TypeOK /\ [Next]_vars => TypeOK'
<1> SUFFICES ASSUME TypeOK, [Next]_vars
             PROVE  TypeOK'
  OBVIOUS
<1>1. CASE UNCHANGED vars
  BY <1>1 DEF TypeOK, vars, dbVars, timeVars, bounds
<1> QED
  BY <1>1, TypeExecute, TypeDrain, TypeOther DEF Next

\* Every variable keeps its type, and a worker or an operator in the middle of
\* an operation always holds a well-formed snapshot.
THEOREM TypeCorrect == Spec => []TypeOK
BY TypeInit, TypeStep, PTL DEF Spec

-----------------------------------------------------------------------------
(* What is never taken back.                                               *)

Committed(r) == row[r].status # "NONE"

\* No step removes a row, a link, a record or a dead letter.
LEMMA NothingIsTakenBack ==
  ASSUME TypeOK, [Next]_vars, NEW r \in Ref
  PROVE  /\ Committed(r) => Committed(r)'
         /\ links \subseteq links'
         /\ recorded[r] > 0 => recorded'[r] > 0
<1> DEFINE Kept == /\ Committed(r) => Committed(r)'
                   /\ links \subseteq links'
                   /\ recorded[r] > 0 => recorded'[r] > 0
<1>1. ASSUME NEW w \in Worker, Execute(w)
      PROVE  Kept
  <2>1. CASE PhaseOne(w)
    BY <2>1 DEF TypeOK, PhaseOne, Committed
  <2>2. CASE CreateLink(w) \/ FailTransiently(w)
    BY <2>2 DEF CreateLink, FailTransiently, Committed, dbVars
  <2>3. CASE RefuseDuplicate(w) \/ FindExisting(w) \/ FailPermanently(w) \/ Load(w)
    BY <2>3 DEF RefuseDuplicate, FindExisting, FailPermanently, Load, Committed, dbVars
  <2>4. CASE PhaseTwo(w)
    <3>1. work[w].ref \in Ref
      BY <2>4, LoadedShape DEF PhaseTwo, Loading, At
    <3>2. Committed(r) => Committed(r)'
      BY <2>4, <3>1 DEF TypeOK, PhaseTwo, Written, Committed, Row
    <3>3. recorded[r] > 0 => recorded'[r] > 0
      BY <2>4, <3>1 DEF TypeOK, PhaseTwo
    <3> QED
      BY <2>4, <3>2, <3>3 DEF PhaseTwo
  <2>5. ASSUME CommitDead(w), At(w, "commit")
        PROVE  Committed(r) => Committed(r)'
    <3>1. work[w].ref \in Ref
      BY <2>5, LoadedShape DEF At
    <3> QED
      BY <2>5, <3>1 DEF TypeOK, CommitDead, Written, Committed, Row
  <2>6. CASE ScheduleRetry(w)
    <3>1. work[w].ref \in Ref
      BY <2>6, LoadedShape DEF ScheduleRetry, Loading, At
    <3>2. Committed(r) => Committed(r)'
      <4>1. CASE CommitDead(w)
        BY <2>5, <2>6, <4>1 DEF ScheduleRetry, Loading
      <4>2. CASE ~CommitDead(w)
        <5>1. PICK late \in BOOLEAN :
                row' = [row EXCEPT ![work[w].ref] =
                         [status |-> Written(@.status, work[w].seen, "PENDING"),
                          attempt |-> work[w].attempt + 1, due |-> FALSE, late |-> late]]
          BY <2>6, <4>2 DEF ScheduleRetry
        <5> QED
          BY <3>1, <5>1 DEF TypeOK, Written, Committed
      <4> QED
        BY <4>1, <4>2
    <3> QED
      BY <2>6, <3>2 DEF ScheduleRetry
  <2>7. CASE DeadLetter(w)
    BY <2>5, <2>7 DEF DeadLetter, Loading
  <2>8. CASE MarkDead(w)
    <3>1. work[w].ref \in Ref
      BY <2>8, LoadedShape DEF MarkDead, Loading, At
    <3>2. Committed(r) => Committed(r)'
      BY <2>8, <3>1 DEF TypeOK, MarkDead, Written, Committed, Row
    <3> QED
      BY <2>8, <3>2 DEF MarkDead
  <2>9. CASE Abort(w)
    BY <2>9 DEF Abort, Committed, dbVars
  <2> QED
    BY <1>1, <2>1, <2>2, <2>3, <2>4, <2>6, <2>7, <2>8, <2>9 DEF Execute, Closing
<1>2. ASSUME NEW w \in Worker, Drain(w) \/ Crash(w)
      PROVE  Kept
  BY <1>2 DEF Committed, Drain, DrainOnce, ReconcileOnStartup, Rebuild, Crash, dbVars
<1>8. ASSUME NEW w \in Worker, NEW q \in Ref, Dispatch(w, q)
      PROVE  Kept
  BY <1>8 DEF Committed, Dispatch, dbVars
<1>3. ASSUME NEW o \in Operator, ReplayCommit(o)
      PROVE  Kept
  <2>1. click[o].ref \in Ref
    BY <1>3, ClickShape DEF ReplayCommit
  <2> QED
    <3>1. Committed(r) => Committed(r)'
      BY <1>3, ReplayRow DEF Written, Committed
    <3> QED
      BY <1>3, <3>1 DEF ReplayCommit
<1>10. ASSUME NEW o \in Operator, ReplayLost(o)
       PROVE  Kept
  BY <1>10 DEF ReplayLost, Committed, dbVars
<1>4. ASSUME NEW o \in Operator, NEW q \in Ref, NEW i \in DOMAIN dlq[q], ReplayLoad(o, q, i)
      PROVE  Kept
  BY <1>4 DEF ReplayLoad, Committed, dbVars
<1>5. ASSUME NEW s \in Sweeper, SweepLoad(s) \/ SweepCommit(s) \/ SweepLost(s)
      PROVE  Kept
  <2>1. CASE SweepLoad(s)
    BY <2>1 DEF SweepLoad, Committed, dbVars
  <2>2. CASE SweepCommit(s)
    <3>1. Committed(r) => Committed(r)'
      BY <2>2, SweepRow DEF Committed
    <3> QED
      BY <2>2, <3>1 DEF SweepCommit
  <2>3. CASE SweepLost(s)
    BY <2>3 DEF SweepLost, Committed
  <2> QED
    BY <1>5, <2>1, <2>2, <2>3
<1>6. ASSUME NEW q \in Ref, Elapse(q)
      PROVE  Kept
  BY <1>6 DEF TypeOK, Elapse, Committed, Row
<1>9. ASSUME NEW c \in Case, EndCase(c) \/ ShutWindow(c) \/ Release(c)
      PROVE  Kept
  <2>1. CASE EndCase(c) \/ Release(c)
    BY <2>1 DEF EndCase, Release, Committed, dbVars
  <2>2. CASE ShutWindow(c)
    BY <2>2 DEF TypeOK, ShutWindow, Committed, Row
  <2> QED
    BY <1>9, <2>1, <2>2
<1>7. CASE UNCHANGED vars
  BY <1>7 DEF vars, dbVars, Committed
<1> QED
  BY <1>1, <1>2, <1>3, <1>4, <1>5, <1>6, <1>7, <1>8, <1>9, <1>10 DEF Next

-----------------------------------------------------------------------------
(* The inductive invariant.                                                *)

\* Past phase one a worker's reference has its row, and so has whatever the
\* drainer or the sweep has listed and whatever was dead-lettered.
InHand ==
  /\ \A w \in Worker :
       work[w].at \in {"call", "lookup", "commit"} \cup Txn => Committed(work[w].ref)
  /\ \A w \in Worker : \A r \in todo[w] : Committed(r)
  /\ \A s \in Sweeper : \A r \in sweep[s] : Committed(r)
  /\ \A r \in Ref : dlq[r] # <<>> => Committed(r)

\* A worker that is about to look a link up or to record it knows it exists.
LinkInHand ==
  \A w \in Worker :
    At(w, "lookup") \/ At(w, "record") \/ Loading(w, "record") => work[w].ref \in links

Records == IntentBeforeLink /\ SentIsTrue

IInv == TypeOK /\ InHand /\ LinkInHand /\ Records

LEMMA InvInit == Init => IInv
<1> SUFFICES ASSUME Init PROVE IInv
  OBVIOUS
<1>1. InHand
  BY DEF Init, InHand, Idle, Txn
<1>2. LinkInHand
  BY DEF Init, LinkInHand, Idle, At, Loading
<1>3. Records
  BY DEF Init, Records, IntentBeforeLink, SentIsTrue, NoRow
<1> QED
  BY TypeInit, <1>1, <1>2, <1>3 DEF IInv

\* What a worker carries wherever a step leaves it.
LEMMA HandStep ==
  ASSUME IInv, [Next]_vars
  PROVE  InHand' /\ LinkInHand'
<1> USE DEF IInv
<1> DEFINE Goal == InHand' /\ LinkInHand'
<1>1. \A r \in Ref : Committed(r) => Committed(r)'
  BY NothingIsTakenBack
<1>2. links \subseteq links'
  BY NothingIsTakenBack DEF TypeOK
<1>0. /\ \A v \in Worker : work[v].at \in {"call", "lookup", "commit"} \cup Txn
                              => row'[work[v].ref].status # "NONE"
      /\ \A v \in Worker : \A r \in todo[v] : Committed(r)'
      /\ \A s \in Sweeper : \A r \in sweep[s] : Committed(r)'
      /\ \A r \in Ref : dlq[r] # <<>> => Committed(r)'
  <2>1. \A v \in Worker : work[v].at \in {"call", "lookup", "commit"} \cup Txn
                          => work[v].ref \in Ref
    BY BusyShape, LoadedShape DEF Step
  <2>2. \A r \in Ref : row[r].status # "NONE" => row'[r].status # "NONE"
    BY <1>1 DEF Committed
  <2> QED
    BY <2>1, <2>2 DEF InHand, TypeOK, Committed
<1>3. ASSUME NEW w \in Worker, UNCHANGED <<todo, sweep, dlq>>, work[w].ref \in Ref,
             row'[work[w].ref].status # "NONE", NEW step \in {"lookup", "call"} \cup Txn,
             step \in {"lookup", "record"} => work[w].ref \in links', GoTo(w, step)
      PROVE  Goal
  <2>1. InHand'
    BY <1>0, <1>3 DEF TypeOK, InHand, Committed, GoTo, Txn
  <2>2. LinkInHand'
    BY <1>2, <1>3 DEF TypeOK, LinkInHand, GoTo, At, Loading, Txn
  <2> QED
    BY <2>1, <2>2
<1>4. ASSUME NEW w \in Worker, UNCHANGED <<todo, sweep>>, Finish(w),
             \A r \in Ref : dlq'[r] # <<>> => Committed(r)'
      PROVE  Goal
  <2>1. InHand'
    BY <1>0, <1>4 DEF TypeOK, InHand, Committed, Finish, Idle, Txn
  <2>2. LinkInHand'
    BY <1>2, <1>4 DEF TypeOK, LinkInHand, Finish, Idle, At, Loading, Txn
  <2> QED
    BY <2>1, <2>2
<1>5. ASSUME NEW w \in Worker, Execute(w)
      PROVE  Goal
  <2>1. CASE PhaseOne(w)
    <3>1. work[w].ref \in Ref
      BY <2>1, BusyShape DEF PhaseOne, At, Step
    <3>2. row'[work[w].ref].status # "NONE"
      BY <2>1, <3>1 DEF PhaseOne, TypeOK
    <3> QED
      BY <1>3, <2>1, <3>1, <3>2 DEF PhaseOne
  <2>2. ASSUME work[w].at \in {"call", "lookup"}
        PROVE  work[w].ref \in Ref /\ row'[work[w].ref].status # "NONE"
    BY <1>0, <2>2, BusyShape DEF Step
  <2>3. CASE CreateLink(w)
    BY <1>3, <2>2, <2>3 DEF CreateLink, At, dbVars, TypeOK, Txn
  <2>4. CASE RefuseDuplicate(w)
    BY <1>3, <2>2, <2>4 DEF RefuseDuplicate, At, dbVars, Txn
  <2>5. CASE FindExisting(w)
    BY <1>2, <1>3, <2>2, <2>5 DEF FindExisting, At, dbVars, LinkInHand, Txn
  <2>6. CASE FailTransiently(w)
    BY <1>3, <2>2, <2>6 DEF FailTransiently, At, dbVars, Txn
  <2>7. CASE FailPermanently(w)
    BY <1>3, <2>2, <2>7 DEF FailPermanently, At, dbVars, Txn
  <2>8. CASE Load(w)
    <3>1. CASE Finish(w)
      BY <1>0, <1>4, <2>8, <3>1 DEF Load, dbVars
    <3>2. CASE ~Finish(w)
      <4>1. /\ work' = [work EXCEPT ![w] = [at |-> "commit", txn |-> work[w].at,
                          ref |-> work[w].ref, seen |-> row[work[w].ref].status,
                          attempt |-> row[work[w].ref].attempt]]
            /\ UNCHANGED <<row, todo, sweep, dlq, links>> /\ work[w].at \in Txn
        BY <2>8, <3>2 DEF Load, dbVars
      <4>2. InHand'
        BY <1>0, <4>1 DEF TypeOK, InHand, Committed, Txn
      <4>3. LinkInHand'
        BY <4>1 DEF TypeOK, LinkInHand, At, Loading, Txn
      <4> QED
        BY <4>2, <4>3
    <3> QED
      BY <3>1, <3>2
  <2>9. CASE PhaseTwo(w) \/ MarkDead(w)
    BY <1>0, <1>4, <2>9 DEF PhaseTwo, MarkDead
  <2>10. ASSUME CommitDead(w), At(w, "commit"), NEW r \in Ref, dlq'[r] # <<>>
         PROVE  Committed(r)'
    BY <1>0, <2>10, LoadedShape DEF CommitDead, Committed, At, TypeOK
  <2>11. CASE ScheduleRetry(w) \/ DeadLetter(w)
    BY <1>0, <1>4, <2>10, <2>11 DEF ScheduleRetry, DeadLetter, Loading
  <2>12. CASE Abort(w)
    <3>1. /\ work' = [work EXCEPT ![w] = Idle] /\ todo' = [todo EXCEPT ![w] = {}]
          /\ UNCHANGED <<row, sweep, dlq, links>>
      BY <2>12 DEF Abort, Finish, dbVars
    <3>2. InHand'
      BY <1>0, <3>1 DEF TypeOK, InHand, Committed, Idle, Txn
    <3>3. LinkInHand'
      BY <3>1 DEF TypeOK, LinkInHand, Idle, At, Loading
    <3> QED
      BY <3>2, <3>3
  <2> QED
    BY <1>5, <2>1, <2>3, <2>4, <2>5, <2>6, <2>7, <2>8, <2>9, <2>11, <2>12 DEF Execute, Closing
<1>6. ASSUME NEW w \in Worker, Drain(w) \/ Crash(w)
      PROVE  Goal
  <2>1. CASE DrainOnce(w)
    <3>1. \A r \in Due : row[r].status # "NONE"
      BY DEF Due, Pending
    <3>2. InHand'
      BY <1>0, <2>1, <3>1 DEF DrainOnce, InHand, Committed, TypeOK, dbVars, Due
    <3> QED
      BY <2>1, <3>2 DEF DrainOnce, LinkInHand, At, Loading
  <2>2. CASE ReconcileOnStartup(w)
    <3>1. PICK stale \in SUBSET Waiting : todo' = [todo EXCEPT ![w] = Due \cup stale]
      BY <2>2 DEF ReconcileOnStartup
    <3>2. \A r \in Due \cup stale : row[r].status # "NONE"
      BY <3>1 DEF Due, Waiting, Pending
    <3>3. InHand'
      BY <1>0, <2>2, <3>1, <3>2 DEF ReconcileOnStartup, Finish, Idle, InHand, Committed, TypeOK, dbVars, Txn
    <3> QED
      BY <2>2, <3>3 DEF ReconcileOnStartup, Finish, Idle, LinkInHand, At, Loading, TypeOK
  <2>3. ASSUME NEW r \in Ref, Rebuild(w, r)
        PROVE  Goal
    <3>1. row[r].status # "NONE"
      BY <2>3 DEF Rebuild, InHand, Committed
    <3>2. InHand'
      BY <1>0, <2>3, <3>1 DEF Rebuild, InHand, Committed, TypeOK, dbVars, Txn
    <3>3. LinkInHand'
      BY <2>3 DEF Rebuild, LinkInHand, At, Loading, TypeOK
    <3> QED
      BY <3>2, <3>3
  <2>4. CASE Crash(w)
    <3>1. InHand'
      BY <1>0, <2>4 DEF Crash, InHand, Committed, Down, TypeOK, dbVars, Txn
    <3> QED
      BY <2>4, <3>1 DEF Crash, LinkInHand, Down, At, Loading, TypeOK
  <2> QED
    BY <1>6, <2>1, <2>2, <2>3, <2>4 DEF Drain
<1>7. ASSUME NEW w \in Worker, NEW r \in Ref, Dispatch(w, r)
      PROVE  Goal
  <2>1. InHand'
    BY <1>0, <1>7 DEF Dispatch, InHand, Committed, TypeOK, dbVars, Txn
  <2> QED
    BY <1>7, <2>1 DEF Dispatch, LinkInHand, At, Loading, TypeOK
<1>8. ASSUME UNCHANGED <<work, todo, links>>,
             \A s \in Sweeper : \A r \in sweep'[s] : row'[r].status # "NONE",
             \A r \in Ref : dlq'[r] # <<>> => row'[r].status # "NONE"
      PROVE  Goal
  BY <1>0, <1>8 DEF InHand, LinkInHand, Committed, At, Loading
<1>9. ASSUME NEW o \in Operator, ReplayCommit(o)
      PROVE  Goal
  <2>1. click[o].ref \in Ref
    BY <1>9, ClickShape DEF ReplayCommit
  <2>2. \A r \in Ref : dlq'[r] # <<>> => row'[r].status # "NONE"
    BY <1>0, <1>9, ReplayEntries DEF Committed
  <2> QED
    BY <1>0, <1>8, <1>9, <2>2 DEF ReplayCommit, Committed
<1>15. ASSUME NEW o \in Operator, ReplayLost(o)
       PROVE  Goal
  BY <1>0, <1>8, <1>15 DEF ReplayLost, dbVars, Committed
<1>10. ASSUME NEW o \in Operator, NEW r \in Ref, NEW i \in DOMAIN dlq[r], ReplayLoad(o, r, i)
       PROVE  Goal
  BY <1>0, <1>8, <1>10 DEF ReplayLoad, dbVars, Committed
<1>11. ASSUME NEW s \in Sweeper, SweepLoad(s) \/ SweepCommit(s) \/ SweepLost(s)
       PROVE  Goal
  <2>1. \A v \in Sweeper : \A r \in sweep'[v] : row'[r].status # "NONE"
    <3>1. CASE SweepLoad(s)
      <4>1. \A r \in Waiting : Committed(r)'
        BY <3>1 DEF Waiting, Pending, SweepLoad, dbVars, Committed
      <4>2. ASSUME NEW v \in Sweeper, NEW r \in sweep'[v]
            PROVE  Committed(r)'
        <5>1. r \in sweep[v] \/ r \in Waiting
          BY <3>1, <4>2 DEF SweepLoad, TypeOK
        <5> QED
          BY <1>0, <4>1, <5>1
      <4> QED
        BY <4>2 DEF Committed
    <3>2. CASE SweepCommit(s) \/ SweepLost(s)
      <4>1. \A v \in Sweeper : sweep'[v] \subseteq sweep[v]
        BY <3>2 DEF SweepCommit, SweepLost, TypeOK
      <4> QED
        BY <1>0, <4>1 DEF Committed
    <3> QED
      BY <1>11, <3>1, <3>2
  <2>2. UNCHANGED <<work, todo, links, dlq>>
    BY <1>11 DEF SweepLoad, SweepCommit, SweepLost, dbVars
  <2> QED
    BY <1>0, <1>8, <2>1, <2>2 DEF Committed
<1>12. ASSUME NEW r \in Ref, Elapse(r)
       PROVE  Goal
  BY <1>0, <1>8, <1>12 DEF Elapse, Committed
<1>14. ASSUME NEW c \in Case, EndCase(c) \/ ShutWindow(c) \/ Release(c)
       PROVE  Goal
  BY <1>0, <1>8, <1>14 DEF EndCase, ShutWindow, Release, dbVars, Committed
<1>13. CASE UNCHANGED vars
  BY <1>0, <1>8, <1>13 DEF vars, dbVars, Committed
<1> QED
  BY <1>5, <1>6, <1>7, <1>9, <1>10, <1>11, <1>12, <1>13, <1>14, <1>15 DEF Next

\* New links come only from a call made for a committed row.
LEMMA LinkStep ==
  ASSUME IInv, [Next]_vars, NEW r \in links' \ links
  PROVE  /\ r \in Ref /\ row[r].status # "NONE"
         /\ \E w \in Worker : At(w, "call") /\ work[w].ref = r /\ links' = links \cup {r}
<1> USE DEF IInv
<1>1. ASSUME NEW w \in Worker, Execute(w)
      PROVE  At(w, "call") /\ work[w].ref = r /\ links' = links \cup {r}
  BY <1>1 DEF Execute, Closing, PhaseOne, CreateLink, RefuseDuplicate, FindExisting,
              FailTransiently, FailPermanently, Load, PhaseTwo, ScheduleRetry, DeadLetter, MarkDead, Abort
<1>2. UNCHANGED links \/ \E w \in Worker : Execute(w)
  BY DEF Next, vars, Drain, DrainOnce, ReconcileOnStartup, Rebuild, Crash, Dispatch,
         ReplayCommit, ReplayLost, ReplayLoad, SweepLoad, SweepCommit, SweepLost, EndCase, Elapse, ShutWindow, Release
<1>3. PICK w \in Worker : At(w, "call") /\ work[w].ref = r /\ links' = links \cup {r}
  BY <1>1, <1>2
<1>4. r \in Ref /\ row[r].status # "NONE"
  BY <1>3, BusyShape DEF InHand, At, Step, Committed
<1> QED
  BY <1>3, <1>4

\* Phase one leaves a row as it is or makes it PENDING.
LEMMA PhaseOneRow ==
  ASSUME TypeOK, NEW w \in Worker, PhaseOne(w), NEW r \in Ref
  PROVE  row'[r] = row[r] \/ row'[r].status = "PENDING"
<1>1. CASE row[work[w].ref].status = "NONE"
  BY <1>1 DEF PhaseOne, TypeOK
<1>2. CASE row[work[w].ref].status # "NONE"
  BY <1>2 DEF PhaseOne
<1> QED
  BY <1>1, <1>2

\* Only phase two makes a row SENT, and it records the dispatch with it.
LEMMA SentStep ==
  ASSUME IInv, [Next]_vars, NEW r \in Ref, row'[r].status = "SENT"
  PROVE  row[r].status = "SENT" \/ (r \in links /\ recorded'[r] > 0)
<1> USE DEF IInv
<1>1. ASSUME NEW w \in Worker, Execute(w)
      PROVE  row[r].status = "SENT" \/ (r \in links /\ recorded'[r] > 0)
  <2>1. CASE PhaseOne(w)
    BY <2>1, PhaseOneRow
  <2>2. CASE \/ CreateLink(w) \/ RefuseDuplicate(w) \/ FindExisting(w)
             \/ FailTransiently(w) \/ FailPermanently(w) \/ Load(w) \/ Abort(w)
    BY <2>2 DEF CreateLink, RefuseDuplicate, FindExisting, FailTransiently, FailPermanently, Load, Abort, dbVars
  <2>3. CASE PhaseTwo(w)
    <3>1. work[w].ref \in Ref
      BY <2>3, LoadedShape DEF PhaseTwo, Loading, At
    <3>2. work[w].ref \in links
      BY <2>3 DEF LinkInHand, PhaseTwo
    <3>3. recorded'[work[w].ref] > 0
      BY <2>3, <3>1 DEF PhaseTwo, TypeOK
    <3>4. CASE r = work[w].ref
      BY <3>2, <3>3, <3>4
    <3>5. CASE r # work[w].ref
      BY <2>3, <3>5 DEF PhaseTwo, TypeOK
    <3> QED
      BY <3>4, <3>5
  <2>4. ASSUME CommitDead(w), At(w, "commit")
        PROVE  row[r].status = "SENT"
    BY <2>4, LoadedShape DEF CommitDead, Written, TypeOK, Row, At
  <2>5. CASE ScheduleRetry(w) /\ ~CommitDead(w)
    <3>1. work[w].ref \in Ref
      BY <2>5, LoadedShape DEF ScheduleRetry, Loading, At
    <3>2. PICK late \in BOOLEAN :
            row' = [row EXCEPT ![work[w].ref] =
                     [status |-> Written(@.status, work[w].seen, "PENDING"),
                      attempt |-> work[w].attempt + 1, due |-> FALSE, late |-> late]]
      BY <2>5 DEF ScheduleRetry
    <3> QED
      BY <3>1, <3>2 DEF Written, TypeOK
  <2>6. CASE MarkDead(w)
    BY <2>6, LoadedShape DEF MarkDead, Loading, At, Written, TypeOK, Row
  <2> QED
    BY <1>1, <2>1, <2>2, <2>3, <2>4, <2>5, <2>6 DEF Execute, Closing, ScheduleRetry, DeadLetter, Loading
<1>2. ASSUME NEW o \in Operator, ReplayCommit(o)
      PROVE  row[r].status = "SENT"
  BY <1>2, ReplayRow DEF Written
<1>3. ASSUME NEW s \in Sweeper, SweepCommit(s)
      PROVE  row[r].status = "SENT"
  BY <1>3, SweepRow
<1>4. ASSUME NEW q \in Ref, Elapse(q)
      PROVE  row[r].status = "SENT"
  BY <1>4 DEF Elapse, TypeOK, Row
<1>6. ASSUME NEW c \in Case, ShutWindow(c)
      PROVE  row[r].status = "SENT"
  BY <1>6 DEF ShutWindow, TypeOK, Row
<1>5. \/ row' = row
      \/ \E w \in Worker : Execute(w)
      \/ \E o \in Operator : ReplayCommit(o)
      \/ \E s \in Sweeper : SweepCommit(s)
      \/ \E q \in Ref : Elapse(q)
      \/ \E c \in Case : ShutWindow(c)
  BY DEF Next, vars, dbVars, Drain, DrainOnce, ReconcileOnStartup, Rebuild, Crash, Dispatch,
         ReplayLost, ReplayLoad, SweepLoad, SweepLost, EndCase, Release
<1> QED
  BY <1>1, <1>2, <1>3, <1>4, <1>5, <1>6

LEMMA InvStep == IInv /\ [Next]_vars => IInv'
<1> SUFFICES ASSUME IInv, [Next]_vars
             PROVE  IInv'
  OBVIOUS
<1>1. TypeOK' /\ InHand' /\ LinkInHand'
  BY TypeStep, HandStep DEF IInv
<1>2. IntentBeforeLink'
  <2>1. ASSUME NEW r \in links' PROVE row'[r].status # "NONE"
    <3>1. r \in Ref /\ row[r].status # "NONE"
      BY LinkStep DEF IInv, Records, IntentBeforeLink, TypeOK
    <3> QED
      BY <3>1, NothingIsTakenBack DEF IInv, Committed
  <2> QED
    BY <2>1 DEF IntentBeforeLink
<1>3. SentIsTrue'
  <2>1. ASSUME NEW r \in Ref, row'[r].status = "SENT"
        PROVE  r \in links' /\ recorded'[r] > 0
    BY <2>1, SentStep, NothingIsTakenBack DEF IInv, Records, SentIsTrue
  <2> QED
    BY <2>1 DEF SentIsTrue
<1> QED
  BY <1>1, <1>2, <1>3 DEF IInv, Records

LEMMA Invariance == Spec => []IInv
BY InvInit, InvStep, PTL DEF Spec

\* The provider never holds a link whose idempotency key was not committed
\* first, whatever crashes, races and replays happen (_phase_one).
THEOREM IntentComesFirst == Spec => []IntentBeforeLink
BY Invariance, PTL DEF IInv, Records

\* A row that says SENT names a link that exists and has been recorded
\* (_phase_two), under any interleaving of workers, replays and sweeps.
THEOREM SentNamesALink == Spec => []SentIsTrue
BY Invariance, PTL DEF IInv, Records

-----------------------------------------------------------------------------
(* A dead row stays visible.                                               *)

CancelIsOver ==
  \A w \in Worker : At(w, "cancel") \/ Loading(w, "cancel") => CaseOf(work[w].ref) \in over

EntryHeld ==
  \A o \in Operator : click[o] # Idle => click[o].entry \in DOMAIN dlq[click[o].ref]

\* Entry i can keep a dead row visible: it is open, and a replay that would
\* close it has seen the row dead, so it will revive the row as well.
Keeps(r, i) ==
  /\ i \in DOMAIN dlq[r] /\ dlq[r][i] = "OPEN"
  /\ \A o \in Operator :
       click[o] # Idle /\ click[o].ref = r /\ click[o].entry = i => click[o].seen = "DEAD"

DeadIsKept ==
  \A r \in Ref : row[r].status = "DEAD" =>
    CaseOf(r) \in over \/ r \in cancelled \/ \E i \in DOMAIN dlq[r] : Keeps(r, i)

DeadInv == CancelIsOver /\ EntryHeld /\ DeadIsKept

LEMMA DeadInit == Init => DeadInv
BY DEF Init, DeadInv, CancelIsOver, EntryHeld, DeadIsKept, At, Loading, Idle, NoRow

LEMMA CancelStep ==
  ASSUME TypeOK, CancelIsOver, [Next]_vars
  PROVE  CancelIsOver'
<1> USE DEF CancelIsOver, At, Loading
<1>1. over \subseteq over'
  BY DEF Next, vars, timeVars, Execute, Closing, PhaseOne, CreateLink, RefuseDuplicate, FindExisting,
         FailTransiently, FailPermanently, Load, PhaseTwo, ScheduleRetry, DeadLetter, MarkDead, Abort,
         Drain, DrainOnce, ReconcileOnStartup, Rebuild, Crash, Dispatch,
         ReplayCommit, ReplayLost, ReplayLoad, SweepLoad, SweepCommit, SweepLost, EndCase, Elapse, ShutWindow, Release
<1>2. CASE UNCHANGED work
  BY <1>1, <1>2
<1>3. ASSUME NEW w \in Worker, Execute(w)
      PROVE  CancelIsOver'
  <2>1. ASSUME NEW step \in {"call", "lookup", "record", "retry", "bury"}, GoTo(w, step)
        PROVE  CancelIsOver'
    BY <1>1, <2>1 DEF GoTo, TypeOK
  <2>2. CASE Finish(w)
    BY <1>1, <2>2 DEF Finish, Idle, TypeOK
  <2>3. CASE Load(w) /\ ~Finish(w)
    <3>1. \E seen, attempt :
            work' = [work EXCEPT ![w] = [at |-> "commit", txn |-> work[w].at, ref |-> work[w].ref,
                                         seen |-> seen, attempt |-> attempt]]
      BY <2>3 DEF Load
    <3> QED
      BY <1>1, <3>1 DEF TypeOK
  <2>4. CASE \/ PhaseOne(w) \/ CreateLink(w) \/ RefuseDuplicate(w) \/ FindExisting(w)
             \/ FailTransiently(w) \/ FailPermanently(w)
    <3>1. \E step \in {"call", "lookup", "record", "retry", "bury"} : GoTo(w, step)
      BY <2>4 DEF PhaseOne, CreateLink, RefuseDuplicate, FindExisting, FailTransiently, FailPermanently
    <3> QED
      BY <2>1, <3>1
  <2>5. CASE Closing(w) \/ Abort(w)
    BY <2>2, <2>5 DEF Closing, PhaseTwo, ScheduleRetry, DeadLetter, MarkDead, Abort
  <2> QED
    BY <1>3, <2>2, <2>3, <2>4, <2>5 DEF Execute
<1>4. ASSUME NEW w \in Worker, Drain(w) \/ Crash(w)
      PROVE  CancelIsOver'
  <2>1. CASE DrainOnce(w)
    BY <1>1, <2>1 DEF DrainOnce
  <2>2. CASE ReconcileOnStartup(w)
    BY <1>1, <2>2 DEF ReconcileOnStartup, Finish, Idle, TypeOK
  <2>3. ASSUME NEW r \in Ref, Rebuild(w, r)
        PROVE  CancelIsOver'
    BY <1>1, <2>3 DEF Rebuild, TypeOK
  <2>4. CASE Crash(w)
    BY <1>1, <2>4 DEF Crash, Down, TypeOK
  <2> QED
    BY <1>4, <2>1, <2>2, <2>3, <2>4 DEF Drain
<1>5. ASSUME NEW w \in Worker, NEW r \in Ref, Dispatch(w, r)
      PROVE  CancelIsOver'
  BY <1>1, <1>5 DEF Dispatch, TypeOK
<1>6. \/ UNCHANGED work
      \/ \E w \in Worker : Execute(w) \/ Drain(w) \/ Crash(w)
      \/ \E w \in Worker, r \in Ref : Dispatch(w, r)
  BY DEF Next, vars, ReplayCommit, ReplayLost, ReplayLoad, SweepLoad, SweepCommit, SweepLost, EndCase, Elapse, ShutWindow, Release
<1> QED
  BY <1>2, <1>3, <1>4, <1>5, <1>6

\* Only these steps change a row's status, its dead letters or a replay.
LEMMA DeadStep ==
  ASSUME TypeOK, TypeOK', CancelIsOver, EntryHeld, DeadIsKept, [Next]_vars
  PROVE  EntryHeld' /\ DeadIsKept'
<1> DEFINE Goal == EntryHeld' /\ DeadIsKept'
\* A step that leaves the dead letters alone and makes no row dead.
<1>1. ASSUME UNCHANGED <<dlq, click>>, over \subseteq over', cancelled \subseteq cancelled',
             \A r \in Ref : row'[r].status = "DEAD" =>
               row[r].status = "DEAD" \/ CaseOf(r) \in over' \/ r \in cancelled'
      PROVE  Goal
  BY <1>1 DEF EntryHeld, DeadIsKept, Keeps
<1>2. ASSUME NEW w \in Worker, CommitDead(w), At(w, "commit"), UNCHANGED <<click, over, cancelled>>,
             NEW r, r = work[w].ref, NEW n, n = Len(dlq[r]) + 1
      PROVE  Goal
  <2>1. r \in Ref /\ dlq[r] \in Seq({"OPEN", "REPLAYED"})
    BY <1>2, LoadedShape DEF At, TypeOK
  <2>2. dlq' = [dlq EXCEPT ![r] = Append(dlq[r], "OPEN")]
    BY <1>2 DEF CommitDead
  <2>3. /\ n \in DOMAIN dlq'[r] /\ dlq'[r][n] = "OPEN" /\ n \notin DOMAIN dlq[r]
        /\ \A i \in DOMAIN dlq[r] : i \in DOMAIN dlq'[r] /\ dlq'[r][i] = dlq[r][i]
    BY <1>2, <2>1, <2>2 DEF TypeOK
  <2>4. \A q \in Ref : q # r => dlq'[q] = dlq[q] /\ row'[q] = row[q]
    BY <1>2, <2>1, <2>2 DEF TypeOK, CommitDead
  <2>5. EntryHeld'
    <3>1. ASSUME NEW o \in Operator, click[o] # Idle
          PROVE  click[o].entry \in DOMAIN dlq'[click[o].ref]
      <4>1. click[o].ref \in Ref
        BY <3>1, ClickShape
      <4> QED
        BY <3>1, <4>1, <2>3, <2>4 DEF EntryHeld
    <3> QED
      BY <1>2, <3>1 DEF EntryHeld
  <2>6. Keeps(r, n)'
    <3>1. ASSUME NEW o \in Operator, click[o] # Idle, click[o].ref = r
          PROVE  click[o].entry # n
      BY <3>1, <2>3 DEF EntryHeld
    <3> QED
      BY <1>2, <2>3, <3>1 DEF Keeps
  <2>7. DeadIsKept'
    <3>1. ASSUME NEW q \in Ref, q # r, row'[q].status = "DEAD"
          PROVE  (CaseOf(q) \in over \/ q \in cancelled \/ \E i \in DOMAIN dlq[q] : Keeps(q, i))'
      BY <1>2, <2>4, <3>1 DEF DeadIsKept, Keeps
    <3> QED
      BY <2>3, <2>6, <3>1 DEF DeadIsKept
  <2> QED
    BY <2>5, <2>7
<1>3. ASSUME NEW w \in Worker, Execute(w)
      PROVE  Goal
  <2>1. CASE PhaseOne(w)
    <3>1. UNCHANGED <<dlq, click, over, cancelled>>
      BY <2>1 DEF PhaseOne, timeVars
    <3> QED
      BY <1>1, <2>1, <3>1, PhaseOneRow
  <2>2. CASE \/ CreateLink(w) \/ RefuseDuplicate(w) \/ FindExisting(w)
             \/ FailTransiently(w) \/ FailPermanently(w) \/ Load(w) \/ Abort(w)
    BY <1>1, <2>2 DEF CreateLink, RefuseDuplicate, FindExisting, FailTransiently,
                      FailPermanently, Load, Abort, dbVars, timeVars
  <2>3. CASE PhaseTwo(w)
    <3>1. work[w].ref \in Ref
      BY <2>3, LoadedShape DEF PhaseTwo, Loading, At
    <3>2. \A r \in Ref : row'[r].status = "DEAD" => row[r].status = "DEAD"
      BY <2>3, <3>1 DEF PhaseTwo, Written, TypeOK, Row
    <3> QED
      BY <1>1, <2>3, <3>2 DEF PhaseTwo, timeVars
  <2>4. CASE ScheduleRetry(w) /\ ~CommitDead(w)
    <3>1. work[w].ref \in Ref
      BY <2>4, LoadedShape DEF ScheduleRetry, Loading, At
    <3>2. UNCHANGED dlq /\ \E late \in BOOLEAN :
            row' = [row EXCEPT ![work[w].ref] =
                     [status |-> Written(@.status, work[w].seen, "PENDING"),
                      attempt |-> work[w].attempt + 1, due |-> FALSE, late |-> late]]
      BY <2>4 DEF ScheduleRetry
    <3>3. \A r \in Ref : row'[r].status = "DEAD" => row[r].status = "DEAD"
      BY <3>1, <3>2 DEF Written, TypeOK
    <3> QED
      BY <1>1, <2>4, <3>2, <3>3 DEF ScheduleRetry, timeVars
  <2>5. CASE (ScheduleRetry(w) \/ DeadLetter(w)) /\ CommitDead(w)
    BY <1>2, <2>5 DEF ScheduleRetry, DeadLetter, Loading, timeVars
  <2>6. CASE MarkDead(w)
    <3>1. CaseOf(work[w].ref) \in over /\ work[w].ref \in Ref
      BY <2>6, LoadedShape DEF MarkDead, CancelIsOver, Loading, At
    <3>2. \A r \in Ref : row'[r].status = "DEAD" => row[r].status = "DEAD" \/ CaseOf(r) \in over
      BY <2>6, <3>1 DEF MarkDead, TypeOK, Row
    <3> QED
      BY <1>1, <2>6, <3>2 DEF MarkDead, timeVars
  <2> QED
    BY <1>3, <2>1, <2>2, <2>3, <2>4, <2>5, <2>6 DEF Execute, Closing, DeadLetter
<1>4. ASSUME NEW o \in Operator, ReplayCommit(o), NEW r, r = click[o].ref
      PROVE  Goal
  <2>1. r \in Ref /\ dlq[r] \in Seq({"OPEN", "REPLAYED"})
    BY <1>4, ClickShape DEF ReplayCommit, TypeOK
  <2>2. /\ dlq' = [dlq EXCEPT ![r][click[o].entry] = "REPLAYED"]
        /\ click' = [click EXCEPT ![o] = Idle]
        /\ UNCHANGED <<over, cancelled>>
    BY <1>4 DEF ReplayCommit, timeVars
  <2>3. \A q \in Ref : /\ DOMAIN dlq'[q] = DOMAIN dlq[q]
                       /\ \A i \in DOMAIN dlq[q] : dlq'[q][i] = dlq[q][i]
                            \/ (q = r /\ i = click[o].entry)
    BY <1>4, ReplayEntries
  <2>4. EntryHeld'
    <3>1. ASSUME NEW p \in Operator, click'[p] # Idle
          PROVE  click'[p] = click[p]
      BY <2>2, <3>1 DEF TypeOK
    <3>2. ASSUME NEW p \in Operator, click'[p] # Idle
          PROVE  click'[p].entry \in DOMAIN dlq'[click'[p].ref]
      <4>1. click[p] # Idle /\ click'[p] = click[p]
        BY <3>1, <3>2
      <4>2. click[p].ref \in Ref /\ click[p].entry \in DOMAIN dlq[click[p].ref]
        BY <4>1, ClickShape DEF EntryHeld
      <4> QED
        BY <2>3, <4>1, <4>2
    <3> QED
      BY <3>2 DEF EntryHeld
  <2>5. ASSUME NEW q \in Ref, row'[q].status = "DEAD"
        PROVE  row[q].status = "DEAD" /\ (q = r => click[o].seen = "PENDING")
    BY <1>4, <2>5, ReplayRow DEF Written
  <2>6. ASSUME NEW q \in Ref, NEW i \in DOMAIN dlq[q], Keeps(q, i), row'[q].status = "DEAD"
        PROVE  Keeps(q, i)'
    <3>1. row[q].status = "DEAD" /\ (q = r => click[o].seen = "PENDING") /\ click[o] # Idle
      BY <1>4, <2>5, <2>6 DEF ReplayCommit
    <3>2. ~(q = r /\ i = click[o].entry)
      BY <1>4, <2>6, <3>1 DEF Keeps
    <3>3. i \in DOMAIN dlq'[q] /\ dlq'[q][i] = "OPEN"
      BY <2>3, <2>6, <3>2 DEF Keeps
    <3>4. \A p \in Operator : click'[p] # Idle => click'[p] = click[p]
      BY <2>2 DEF TypeOK
    <3> QED
      BY <2>6, <3>3, <3>4 DEF Keeps
  <2>7. DeadIsKept'
    BY <2>2, <2>3, <2>5, <2>6 DEF DeadIsKept
  <2> QED
    BY <2>4, <2>7
<1>5. ASSUME NEW o \in Operator, NEW r \in Ref, NEW i \in DOMAIN dlq[r], ReplayLoad(o, r, i)
      PROVE  Goal
  <2>1. /\ click' = [click EXCEPT ![o] = [at |-> "replay", ref |-> r, entry |-> i,
                                         seen |-> row[r].status]]
        /\ UNCHANGED <<row, dlq, over, cancelled>>
    BY <1>5 DEF ReplayLoad, dbVars, timeVars
  <2>2. EntryHeld'
    BY <2>1 DEF EntryHeld, TypeOK
  <2>3. ASSUME NEW q \in Ref, NEW j \in DOMAIN dlq[q], Keeps(q, j), row[q].status = "DEAD"
        PROVE  Keeps(q, j)'
    BY <2>1, <2>3 DEF Keeps, TypeOK
  <2>4. DeadIsKept'
    BY <2>1, <2>3 DEF DeadIsKept
  <2> QED
    BY <2>2, <2>4
<1>6. ASSUME NEW s \in Sweeper, SweepLoad(s) \/ SweepCommit(s) \/ SweepLost(s)
      PROVE  Goal
  BY <1>1, <1>6 DEF SweepLoad, SweepCommit, SweepLost, TypeOK, dbVars, timeVars
<1>10. ASSUME NEW o \in Operator, ReplayLost(o)
       PROVE  Goal
  BY <1>10 DEF ReplayLost, EntryHeld, DeadIsKept, Keeps, TypeOK, dbVars, timeVars
<1>7. ASSUME NEW q \in Ref, Elapse(q)
      PROVE  Goal
  BY <1>1, <1>7 DEF Elapse, TypeOK, Row, timeVars
<1>9. ASSUME NEW c \in Case, EndCase(c) \/ ShutWindow(c) \/ Release(c)
      PROVE  Goal
  <2>1. CASE EndCase(c) \/ Release(c)
    BY <1>1, <2>1 DEF EndCase, Release, dbVars
  <2>2. CASE ShutWindow(c)
    BY <1>1, <2>2 DEF ShutWindow, TypeOK, Row
  <2> QED
    BY <1>9, <2>1, <2>2
<1>8. \/ UNCHANGED <<row, dlq, click, over, cancelled>>
      \/ \E w \in Worker : Execute(w)
      \/ \E o \in Operator : ReplayCommit(o) \/ ReplayLost(o)
      \/ \E o \in Operator, r \in Ref : \E i \in DOMAIN dlq[r] : ReplayLoad(o, r, i)
      \/ \E s \in Sweeper : SweepLoad(s) \/ SweepCommit(s) \/ SweepLost(s)
      \/ \E q \in Ref : Elapse(q)
      \/ \E c \in Case : EndCase(c) \/ ShutWindow(c) \/ Release(c)
  BY DEF Next, vars, dbVars, timeVars, Drain, DrainOnce, ReconcileOnStartup, Rebuild, Crash, Dispatch
<1> QED
  BY <1>1, <1>3, <1>4, <1>5, <1>6, <1>7, <1>8, <1>9, <1>10

LEMMA DeadInvariance == Spec => [](TypeOK /\ DeadInv)
<1>1. Init => TypeOK /\ DeadInv
  BY TypeInit, DeadInit
<1>2. TypeOK /\ DeadInv /\ [Next]_vars => TypeOK' /\ DeadInv'
  BY TypeStep, CancelStep, DeadStep DEF DeadInv
<1> QED
  BY <1>1, <1>2, PTL DEF Spec

\* "Never silently discarded" (_dlq_row): a dead row has an open dead letter,
\* or its case is over, or a sweep audited its cancellation, even when replays,
\* retries and sweeps of the same row overlap.
THEOREM DeadStaysVisible == Spec => []DeadIsVisible
<1>1. DeadInv => DeadIsVisible
  BY DEF DeadInv, DeadIsKept, DeadIsVisible, Keeps
<1> QED
  BY <1>1, DeadInvariance, PTL

-----------------------------------------------------------------------------
(* The outbox implements exactly-once dispatch.                            *)

\* Rows come into being in phase one and nowhere else.
LEMMA RowStep ==
  ASSUME IInv, EntryHeld, [Next]_vars, NEW r \in Ref,
         row[r].status = "NONE", row'[r].status # "NONE"
  PROVE  \E w \in Worker : PhaseOne(w) /\ work[w].ref = r
<1> USE DEF IInv
<1>1. ASSUME NEW w \in Worker, Execute(w)
      PROVE  PhaseOne(w) /\ work[w].ref = r
  <2>1. CASE PhaseOne(w)
    BY <2>1 DEF PhaseOne, TypeOK
  <2>2. CASE \/ CreateLink(w) \/ RefuseDuplicate(w) \/ FindExisting(w)
             \/ FailTransiently(w) \/ FailPermanently(w) \/ Load(w) \/ Abort(w)
    BY <2>2 DEF CreateLink, RefuseDuplicate, FindExisting, FailTransiently, FailPermanently, Load, Abort, dbVars
  <2>3. CASE Closing(w)
    <3>1. At(w, "commit")
      BY <2>3 DEF Closing, PhaseTwo, ScheduleRetry, DeadLetter, MarkDead, Loading
    <3>2. work[w].ref \in Ref /\ row[work[w].ref].status # "NONE"
      BY <3>1, LoadedShape DEF InHand, Committed, At
    <3>3. \/ row' = [row EXCEPT ![work[w].ref] = row'[work[w].ref]]
      <4>1. CASE PhaseTwo(w) \/ MarkDead(w)
        BY <3>2, <4>1 DEF PhaseTwo, MarkDead, TypeOK
      <4>2. CASE CommitDead(w)
        BY <3>2, <4>2 DEF CommitDead, TypeOK
      <4>3. CASE ScheduleRetry(w) /\ ~CommitDead(w)
        BY <3>2, <4>3 DEF ScheduleRetry, TypeOK
      <4> QED
        BY <2>3, <4>1, <4>2, <4>3 DEF Closing, DeadLetter
    <3> QED
      BY <3>2, <3>3 DEF TypeOK
  <2> QED
    BY <1>1, <2>1, <2>2, <2>3 DEF Execute
<1>2. ASSUME NEW o \in Operator, ReplayCommit(o)
      PROVE  FALSE
  <2>1. click[o].ref \in Ref /\ dlq[click[o].ref] # <<>>
    <3>1. click[o] # Idle /\ click[o].ref \in Ref
      BY <1>2, ClickShape DEF ReplayCommit
    <3>2. click[o].entry \in DOMAIN dlq[click[o].ref]
      BY <3>1 DEF EntryHeld
    <3> QED
      BY <3>1, <3>2
  <2> QED
    BY <1>2, <2>1 DEF ReplayCommit, InHand, Committed, TypeOK
<1>3. ASSUME NEW s \in Sweeper, SweepCommit(s)
      PROVE  FALSE
  BY <1>3 DEF SweepCommit, InHand, Committed, TypeOK
<1>4. ASSUME NEW q \in Ref, Elapse(q)
      PROVE  FALSE
  BY <1>4 DEF Elapse, TypeOK, Row
<1>6. ASSUME NEW c \in Case, ShutWindow(c)
      PROVE  FALSE
  BY <1>6 DEF ShutWindow, TypeOK, Row
<1>5. \/ row' = row
      \/ \E w \in Worker : Execute(w)
      \/ \E o \in Operator : ReplayCommit(o)
      \/ \E s \in Sweeper : SweepCommit(s)
      \/ \E q \in Ref : Elapse(q)
      \/ \E c \in Case : ShutWindow(c)
  BY DEF Next, vars, dbVars, Drain, DrainOnce, ReconcileOnStartup, Rebuild, Crash, Dispatch,
         ReplayLost, ReplayLoad, SweepLoad, SweepLost, EndCase, Release
<1> QED
  BY <1>1, <1>2, <1>3, <1>4, <1>5, <1>6

\* A dispatch becomes known in phase two and nowhere else.
LEMMA KnownStep ==
  ASSUME IInv, [Next]_vars, recorded' # recorded
  PROVE  \E w \in Worker : PhaseTwo(w) /\ work[w].ref \in links
<1>1. PICK w \in Worker : Execute(w)
  BY DEF Next, vars, dbVars, Drain, DrainOnce, ReconcileOnStartup, Rebuild, Crash, Dispatch,
         ReplayCommit, ReplayLost, ReplayLoad, SweepLoad, SweepCommit, SweepLost, EndCase, Elapse, ShutWindow, Release
<1>2. PhaseTwo(w)
  BY <1>1 DEF Execute, Closing, PhaseOne, CreateLink, RefuseDuplicate, FindExisting,
              FailTransiently, FailPermanently, Load, ScheduleRetry, DeadLetter, MarkDead, Abort, dbVars
<1> QED
  BY <1>2 DEF PhaseTwo, IInv, LinkInHand

Intents == {r \in Ref : row[r].status # "NONE"}
Known   == {r \in Ref : recorded[r] > 0}

\* Every step commits one intent, issues one link, learns of one, or none of these.
LEMMA AbstractStep ==
  ASSUME IInv, EntryHeld, [Next]_vars
  PROVE  \/ UNCHANGED <<Intents, links, Known>>
         \/ \E r \in Ref :
              \/ /\ r \notin Intents /\ Intents' = Intents \cup {r}
                 /\ UNCHANGED <<links, Known>>
              \/ /\ r \in Intents \ links /\ links' = links \cup {r}
                 /\ UNCHANGED <<Intents, Known>>
              \/ /\ r \in links \ Known /\ Known' = Known \cup {r}
                 /\ UNCHANGED <<Intents, links>>
<1> USE DEF IInv
<1>1. Intents \subseteq Intents'
  BY NothingIsTakenBack DEF Intents, Committed
<1>2. CASE \E r \in Ref : r \in Intents' \ Intents
  <2>1. PICK r \in Ref : r \in Intents' \ Intents
    BY <1>2
  <2>2. PICK w \in Worker : PhaseOne(w) /\ work[w].ref = r
    BY <2>1, RowStep DEF Intents
  <2>3. Intents' = Intents \cup {r}
    BY <1>1, <2>1, <2>2 DEF Intents, PhaseOne, TypeOK
  <2>4. UNCHANGED <<links, Known>>
    BY <2>2 DEF PhaseOne, Known
  <2> QED
    BY <2>1, <2>3, <2>4
<1>3. CASE links' # links
  <2>1. PICK r : r \in links' \ links
    BY <1>3, NothingIsTakenBack, TypeStep DEF TypeOK
  <2>2. r \in Ref /\ r \in Intents /\ links' = links \cup {r}
    BY <2>1, LinkStep DEF Intents
  <2>3. PICK w \in Worker : Execute(w)
    BY <1>3 DEF Next, vars, Drain, DrainOnce, ReconcileOnStartup, Rebuild, Crash, Dispatch,
         ReplayCommit, ReplayLost, ReplayLoad, SweepLoad, SweepCommit, SweepLost, EndCase, Elapse, ShutWindow, Release
  <2>4. UNCHANGED <<row, recorded>>
    BY <1>3, <2>3 DEF Execute, Closing, PhaseOne, CreateLink, RefuseDuplicate, FindExisting,
           FailTransiently, FailPermanently, Load, PhaseTwo, ScheduleRetry, DeadLetter, MarkDead, Abort, dbVars
  <2> QED
    BY <2>1, <2>2, <2>4 DEF Intents, Known
<1>4. CASE Known' # Known
  <2>1. PICK w \in Worker : PhaseTwo(w) /\ work[w].ref \in links
    BY <1>4, KnownStep DEF Known
  <2>2. work[w].ref \in Ref
    BY <2>1, LoadedShape DEF PhaseTwo, Loading, At
  <2>3. Known' = Known \cup {work[w].ref}
    BY <2>1, <2>2 DEF Known, PhaseTwo, TypeOK
  <2>4. UNCHANGED links
    BY <2>1 DEF PhaseTwo
  <2>5. UNCHANGED Intents
    <3>1. \A r \in Ref : r \notin Intents' \ Intents
      <4>1. ~\E r \in Ref : r \in Intents' \ Intents
        <5>1. SUFFICES ASSUME NEW r \in Ref, r \in Intents' \ Intents PROVE FALSE
          OBVIOUS
        <5>2. \E v \in Worker : PhaseOne(v) /\ work[v].ref = r
          BY <5>1, RowStep DEF Intents
        <5> QED
          BY <1>4, <5>2 DEF PhaseOne, Known
      <4> QED
        BY <4>1
    <3> QED
      BY <1>1, <3>1 DEF Intents
  <2> QED
    BY <1>4, <2>2, <2>3, <2>4, <2>5, <2>1
<1>5. CASE UNCHANGED <<links, Known>> /\ ~\E r \in Ref : r \in Intents' \ Intents
  BY <1>1, <1>5 DEF Intents
<1> QED
  BY <1>2, <1>3, <1>4, <1>5

\* "Exactly once, or not at all" (OutboxExecutor): under crashes, duplicate
\* workers, retries and replays, every step of the outbox is a step of
\* ExactlyOnce or changes nothing it can see.
THEOREM OutboxImplementsExactlyOnce == Spec => ImplementsExactlyOnce
<1>1. Init => Abstract!Init
  BY DEF Init, Abstract!Init, NoRow
<1>2. IInv /\ EntryHeld /\ [Next]_vars => [Abstract!Next]_(Abstract!absVars)
  BY AbstractStep DEF Intents, Known, Abstract!Next, Abstract!Commit, Abstract!Issue,
                      Abstract!Learn, Abstract!absVars
<1> QED
  BY <1>1, <1>2, Invariance, DeadInvariance, PTL
     DEF Spec, ImplementsExactlyOnce, Abstract!Spec, DeadInv

-----------------------------------------------------------------------------
(* Terminal cases.                                                         *)

\* "If the case reached a terminal state while the row was waiting, the retry
\* must not happen at all" (_rebuild_state): once the executions that began
\* before have left, nothing starts another call for the case.
THEOREM TerminalCasesStayQuiet == Spec => TerminalCasesGoQuiet
<1>1. ASSUME TypeOK, [Next]_vars, NEW r \in Ref, CaseOf(r) \in over, Quiet(r)
      PROVE  Quiet(r)' /\ (r \in links' <=> r \in links)
  <2>1. CASE UNCHANGED <<work, links>>
    BY <1>1, <2>1 DEF Quiet
  <2>2. ASSUME NEW w \in Worker, Execute(w)
        PROVE  Quiet(r)' /\ (r \in links' <=> r \in links)
    <3>1. CASE PhaseOne(w)
      BY <1>1, <3>1 DEF PhaseOne, GoTo, At, Quiet, TypeOK
    <3>2. ASSUME NEW step \in {"lookup", "record", "retry", "bury"}, GoTo(w, step)
          PROVE  Quiet(r)'
      BY <1>1, <3>2 DEF GoTo, Quiet, TypeOK
    <3>3. CASE \/ CreateLink(w) \/ RefuseDuplicate(w) \/ FindExisting(w)
               \/ FailTransiently(w) \/ FailPermanently(w)
      <4>1. \E step \in {"lookup", "record", "retry", "bury"} : GoTo(w, step)
        BY <3>3 DEF CreateLink, RefuseDuplicate, FindExisting, FailTransiently, FailPermanently
      <4>2. links' = links \/ (At(w, "call") /\ links' = links \cup {work[w].ref})
        BY <3>3 DEF CreateLink, RefuseDuplicate, FindExisting, FailTransiently, FailPermanently
      <4>3. r \in links' <=> r \in links
        BY <1>1, <4>2 DEF Quiet, At
      <4> QED
        BY <3>2, <4>1, <4>3
    <3>4. CASE Finish(w) /\ UNCHANGED links
      BY <1>1, <3>4 DEF Finish, Idle, Quiet, TypeOK
    <3>5. CASE Load(w) /\ ~Finish(w)
      <4>1. UNCHANGED links /\ \E seen, attempt :
              work' = [work EXCEPT ![w] = [at |-> "commit", txn |-> work[w].at, ref |-> work[w].ref,
                                           seen |-> seen, attempt |-> attempt]]
        BY <3>5 DEF Load
      <4> QED
        BY <1>1, <4>1 DEF Quiet, TypeOK
    <3> QED
      BY <2>2, <3>1, <3>3, <3>4, <3>5
         DEF Execute, Closing, Load, PhaseTwo, ScheduleRetry, DeadLetter, MarkDead, Abort
  <2>3. ASSUME NEW w \in Worker, Drain(w) \/ Crash(w)
        PROVE  Quiet(r)' /\ UNCHANGED links
    <3>1. CASE DrainOnce(w)
      BY <1>1, <3>1 DEF DrainOnce, Quiet
    <3>2. CASE ReconcileOnStartup(w)
      BY <1>1, <3>2 DEF ReconcileOnStartup, Finish, Idle, Quiet, TypeOK
    <3>3. ASSUME NEW q \in Ref, Rebuild(w, q)
          PROVE  Quiet(r)' /\ UNCHANGED links
      BY <1>1, <3>3 DEF Rebuild, Quiet, TypeOK
    <3>4. CASE Crash(w)
      BY <1>1, <3>4 DEF Crash, Down, Quiet, TypeOK
    <3> QED
      BY <2>3, <3>1, <3>2, <3>3, <3>4 DEF Drain
  <2>4. ASSUME NEW w \in Worker, NEW q \in Ref, Dispatch(w, q)
        PROVE  Quiet(r)' /\ UNCHANGED links
    BY <1>1, <2>4 DEF Dispatch, Quiet, TypeOK
  <2>5. \/ UNCHANGED <<work, links>>
        \/ \E w \in Worker : Execute(w) \/ Drain(w) \/ Crash(w)
        \/ \E w \in Worker, q \in Ref : Dispatch(w, q)
    BY <1>1 DEF Next, vars, ReplayCommit, ReplayLost, ReplayLoad, SweepLoad, SweepCommit, SweepLost, EndCase, Elapse,
                ShutWindow, Release
  <2> QED
    BY <2>1, <2>2, <2>3, <2>4, <2>5
<1>2. TypeOK /\ [Next]_vars =>
        [\A r \in Ref : CaseOf(r) \in over /\ Quiet(r) =>
           Quiet(r)' /\ (r \in links' <=> r \in links)]_vars
  BY <1>1
<1> QED
  BY <1>2, TypeCorrect, PTL DEF Spec, TerminalCasesGoQuiet

-----------------------------------------------------------------------------
(* One of each: what a process that does one thing at a time can rely on.  *)

\* One coroutine runs the executor, one session replays dead letters, no sweep
\* runs meanwhile, and the graph executes a reference once.
OneOfEach ==
  /\ \A v, w \in Worker : v = w
  /\ \A o, p \in Operator : o = p
  /\ Sweeper = {} /\ MaxDispatches <= 1

\* A record is written with the row's SENT, and rows come from dispatches only.
Counted(r) ==
  /\ recorded[r] = IF row[r].status = "SENT" THEN 1 ELSE 0
  /\ dispatches[r] = 0 => row[r].status = "NONE"

\* A dead letter is open while its row is dead, and a row has one such letter.
Lettered(r) ==
  \A i \in DOMAIN dlq[r] : dlq[r][i] = "OPEN" =>
    /\ row[r].status = "DEAD"
    /\ \A j \in DOMAIN dlq[r] : dlq[r][j] = "OPEN" => i = j

\* A replay in progress has the open letter it loaded, and its dead row.
Replaying(o) ==
  click[o] # Idle =>
    /\ click[o].entry \in DOMAIN dlq[click[o].ref]
    /\ dlq[click[o].ref][click[o].entry] = "OPEN" /\ click[o].seen = "DEAD"

\* What the coroutine has in hand, or has yet to do, is pending and as it was loaded.
Handling(w) ==
  /\ \A r \in todo[w] : Pending(r)
  /\ work[w].at \in Step \cup {"commit"} =>
       LET r == work[w].ref IN
       /\ r \notin todo[w] /\ dispatches[r] > 0
       /\ Pending(r) \/ (work[w].at = "intent" /\ row[r].status = "NONE")
       /\ work[w].at = "commit" => work[w].seen = "PENDING" /\ work[w].attempt = row[r].attempt

\* A budget of attempts is spent by failures that were counted, one by one.
InBudget(r) ==
  ~Replayed(r) =>
    /\ row[r].attempt <= MaxAttempts
    /\ Pending(r) => row[r].attempt < MaxAttempts

SingleInv ==
  /\ TypeOK
  /\ \A r \in Ref : Counted(r) /\ Lettered(r) /\ InBudget(r)
  /\ \A o \in Operator : Replaying(o)
  /\ \A w \in Worker : Handling(w)

LEMMA SingleInit == Init => SingleInv
<1> SUFFICES ASSUME Init PROVE SingleInv
  OBVIOUS
<1>1. \A r \in Ref : Counted(r) /\ Lettered(r) /\ InBudget(r)
  BY ParametersOK DEF Init, NoRow, Counted, Lettered, InBudget, Pending
<1>2. \A o \in Operator : Replaying(o)
  BY DEF Init, Replaying
<1>3. \A w \in Worker : Handling(w)
  BY DEF Init, Handling, Idle, Step, Txn
<1> QED
  BY TypeInit, <1>1, <1>2, <1>3 DEF SingleInv

\* What the invariant says of one row, and what it says of those who use it.
RowHolds(r) == Counted(r) /\ Lettered(r) /\ InBudget(r)

\* A row whose status, attempts and letters do not change stays as it should be.
LEMMA RowIsKept ==
  ASSUME NEW r, RowHolds(r),
         row'[r].status = row[r].status, row'[r].attempt = row[r].attempt,
         dlq'[r] = dlq[r], recorded'[r] = recorded[r],
         dispatches'[r] = 0 => dispatches[r] = 0
  PROVE  RowHolds(r)'
BY DEF RowHolds, Counted, Lettered, InBudget, Pending, Replayed

\* The invariant at a reference r that only the worker w has in hand.
LEMMA InHandIsPending ==
  ASSUME OneOfEach, SingleInv, NEW w \in Worker, work[w].at \in Step \cup {"commit"}
  PROVE  LET r == work[w].ref IN
         /\ r \in Ref /\ row[r] \in Row /\ dispatches[r] \in Nat \ {0}
         /\ work[w].at # "intent" => Pending(r) /\ recorded[r] = 0
         /\ At(w, "commit") => work[w].seen = "PENDING" /\ work[w].attempt = row[r].attempt
         /\ Pending(r) => \A i \in DOMAIN dlq[r] : dlq[r][i] # "OPEN"
         /\ \A o \in Operator : click[o] # Idle => click[o].ref # r
<1> DEFINE r == work[w].ref
<1>1. r \in Ref /\ Handling(w) /\ Counted(r) /\ Lettered(r)
  BY BusyShape, LoadedShape DEF SingleInv
<1>2. row[r] \in Row /\ dispatches[r] \in Nat
  BY <1>1 DEF SingleInv, TypeOK
<1>3. ASSUME NEW o \in Operator, click[o] # Idle
      PROVE  click[o].ref # r
  <2>1. click[o].ref \in Ref /\ Lettered(click[o].ref) /\ Replaying(o)
    BY <1>3, ClickShape DEF SingleInv
  <2>2. row[click[o].ref].status = "DEAD"
    BY <1>3, <2>1 DEF Lettered, Replaying
  <2> QED
    BY <1>1, <2>2 DEF Handling, Pending
<1> QED
  BY <1>1, <1>2, <1>3 DEF Handling, Counted, Lettered, Pending, At

\* A step that leaves the rows and letters to the others keeps their part.
LEMMA OthersAreKept ==
  ASSUME SingleInv, NEW r \in Ref, UNCHANGED <<click, dispatches>>,
         \A q \in Ref \ {r} : row'[q] = row[q] /\ dlq'[q] = dlq[q] /\ recorded'[q] = recorded[q],
         \A o \in Operator : click[o] # Idle => click[o].ref # r
  PROVE  /\ \A q \in Ref \ {r} : RowHolds(q)'
         /\ \A o \in Operator : Replaying(o)'
<1>1. ASSUME NEW q \in Ref \ {r}
      PROVE  RowHolds(q)'
  BY <1>1, RowIsKept DEF SingleInv, RowHolds
<1>2. ASSUME NEW o \in Operator
      PROVE  Replaying(o)'
  <2>1. CASE click[o] = Idle
    BY <2>1 DEF Replaying
  <2>2. CASE click[o] # Idle
    <3>1. click[o].ref \in Ref \ {r} /\ Replaying(o)
      BY <2>2, ClickShape DEF SingleInv
    <3> QED
      BY <2>2, <3>1 DEF Replaying
  <2> QED
    BY <2>1, <2>2
<1> QED
  BY <1>1, <1>2

\* A worker that closes its transaction leaves its row and no other.
LEMMA SingleClosing ==
  ASSUME OneOfEach, SingleInv, NEW w \in Worker, Closing(w) \/ PhaseOne(w),
         NEW r, r = work[w].ref
  PROVE  /\ \A q \in Ref : RowHolds(q)'
         /\ \A o \in Operator : Replaying(o)'
         /\ \A v \in Worker : Handling(v)'
<1>0. work[w].at \in Step \cup {"commit"}
  BY DEF Closing, PhaseOne, PhaseTwo, ScheduleRetry, DeadLetter, MarkDead, Loading, At, Step
<1>1. /\ r \in Ref /\ row[r] \in Row /\ dispatches[r] \in Nat \ {0}
      /\ work[w].at # "intent" => Pending(r) /\ recorded[r] = 0
      /\ At(w, "commit") => work[w].seen = "PENDING" /\ work[w].attempt = row[r].attempt
      /\ Pending(r) => \A i \in DOMAIN dlq[r] : dlq[r][i] # "OPEN"
      /\ \A o \in Operator : click[o] # Idle => click[o].ref # r
  BY <1>0, InHandIsPending
<1>2. Handling(w) /\ RowHolds(r) /\ TypeOK
  BY <1>1 DEF SingleInv, RowHolds
<1>3. r \notin todo[w] /\ todo[w] \subseteq Ref /\ \A q \in todo[w] : Pending(q)
  BY <1>0, <1>2 DEF Handling, TypeOK
<1>4. \A v \in Worker : v = w
  BY DEF OneOfEach
<1>5. dlq[r] \in Seq({"OPEN", "REPLAYED"}) /\ recorded[r] \in Nat
  BY <1>1, <1>2 DEF TypeOK
<1> DEFINE Others == /\ \A q \in Ref \ {r} : row'[q] = row[q] /\ dlq'[q] = dlq[q] /\ recorded'[q] = recorded[q]
                     /\ UNCHANGED <<click, dispatches, todo>>
<1>6. ASSUME Others, RowHolds(r)', Handling(w)'
      PROVE  /\ \A q \in Ref : RowHolds(q)'
             /\ \A o \in Operator : Replaying(o)'
             /\ \A v \in Worker : Handling(v)'
  <2>1. /\ \A q \in Ref \ {r} : RowHolds(q)'
        /\ \A o \in Operator : Replaying(o)'
    BY <1>1, <1>6, OthersAreKept
  <2> QED
    BY <1>4, <1>6, <2>1
<1>7. ASSUME Others, work'[w] = Idle
      PROVE  Handling(w)'
  <2>1. \A q \in todo[w] : Pending(q)'
    BY <1>3, <1>7 DEF Pending
  <2> QED
    BY <1>7, <2>1 DEF Handling, Idle, Step, Txn
<1>8. CASE PhaseOne(w)
  <2>1. Others /\ work'[w] = [at |-> "call", ref |-> r]
    BY <1>1, <1>2, <1>8 DEF PhaseOne, GoTo, TypeOK, bounds
  <2>2. RowHolds(r)'
    <3>1. CASE row[r].status = "NONE"
      <4>1. row'[r].status = "PENDING" /\ row'[r].attempt = 0
        BY <1>1, <1>2, <1>8, <3>1 DEF PhaseOne, TypeOK
      <4>2. dlq' = dlq /\ recorded' = recorded /\ dispatches' = dispatches
        BY <1>8 DEF PhaseOne, bounds
      <4> QED
        BY <1>1, <1>2, <3>1, <4>1, <4>2, ParametersOK
        DEF RowHolds, Counted, Lettered, InBudget, Pending
    <3>2. CASE row[r].status # "NONE"
      BY <1>2, <1>8, <3>2, RowIsKept DEF PhaseOne, bounds
    <3> QED
      BY <3>1, <3>2
  <2>3. Pending(r)'
    BY <1>0, <1>1, <1>2, <1>8 DEF PhaseOne, Handling, Pending, TypeOK, At, Step, Txn
  <2>4. \A q \in todo[w] : Pending(q)'
    BY <1>3, <2>1 DEF Pending
  <2>5. dispatches'[r] > 0
    BY <1>1, <2>1
  <2>6. Handling(w)'
    BY <1>3, <2>1, <2>3, <2>4, <2>5 DEF Handling
  <2> QED
    BY <1>6, <2>1, <2>2, <2>6
<1>9. CASE PhaseTwo(w)
  <2>0. At(w, "commit") /\ work[w].at # "intent"
    BY <1>9 DEF PhaseTwo, Loading, At
  <2>1. Others /\ work'[w] = Idle
    BY <1>1, <1>2, <1>9 DEF PhaseTwo, Finish, TypeOK, bounds
  <2>2. row'[r].status = "SENT" /\ recorded'[r] = 1 /\ dlq' = dlq
    BY <1>1, <1>2, <1>9, <2>0 DEF PhaseTwo, Written, Pending, TypeOK, Row
  <2>3. row'[r].attempt = row[r].attempt
    BY <1>1, <1>2, <1>9 DEF PhaseTwo, TypeOK, Row
  <2>4. RowHolds(r)'
    BY <1>1, <1>2, <2>0, <2>1, <2>2, <2>3
    DEF RowHolds, Counted, Lettered, InBudget, Pending, Replayed
  <2> QED
    BY <1>6, <1>7, <2>1, <2>4
<1>10. CASE MarkDead(w)
  <2>0. At(w, "commit") /\ work[w].at # "intent"
    BY <1>10 DEF MarkDead, Loading, At
  <2>1. Others /\ work'[w] = Idle
    BY <1>1, <1>2, <1>10 DEF MarkDead, Finish, TypeOK, bounds
  <2>2. row'[r].status = "DEAD" /\ row'[r].attempt = row[r].attempt /\ dlq' = dlq /\ recorded' = recorded
    BY <1>1, <1>2, <1>10, <2>0 DEF MarkDead, Written, Pending, TypeOK, Row
  <2>3. RowHolds(r)'
    BY <1>1, <1>2, <2>0, <2>1, <2>2
    DEF RowHolds, Counted, Lettered, InBudget, Pending, Replayed
  <2> QED
    BY <1>6, <1>7, <2>1, <2>3
<1>11. ASSUME CommitDead(w), At(w, "commit"), Finish(w),
              UNCHANGED <<recorded, todo, click, bounds>>
       PROVE  Others /\ work'[w] = Idle /\ RowHolds(r)'
  <2>0. work[w].at # "intent"
    BY <1>11 DEF At
  <2>1. Others /\ work'[w] = Idle
    BY <1>1, <1>2, <1>11 DEF CommitDead, Finish, TypeOK, bounds
  <2>2. row'[r].status = "DEAD" /\ row'[r].attempt = row[r].attempt + 1
    BY <1>1, <1>2, <1>11, <2>0 DEF CommitDead, Written, Pending, TypeOK, Row
  <2>3. dlq'[r] = Append(dlq[r], "OPEN")
    BY <1>1, <1>2, <1>11 DEF CommitDead, TypeOK
  <2>4. /\ DOMAIN dlq[r] = 1 .. Len(dlq[r]) /\ Len(dlq[r]) \in Nat
        /\ DOMAIN dlq'[r] = 1 .. (Len(dlq[r]) + 1)
        /\ \A i \in 1 .. Len(dlq[r]) : dlq'[r][i] = dlq[r][i]
        /\ dlq'[r][Len(dlq[r]) + 1] = "OPEN"
    BY <1>5, <2>3
  <2>5. Lettered(r)'
    <3>1. \A i \in DOMAIN dlq'[r] : dlq'[r][i] = "OPEN" => i = Len(dlq[r]) + 1
      BY <1>1, <2>0, <2>4
    <3> QED
      BY <2>2, <3>1 DEF Lettered
  <2>6. ~Replayed(r)' => ~Replayed(r)
    BY <2>4 DEF Replayed
  <2>7. ~Replayed(r)' => row'[r].attempt <= MaxAttempts
    BY <1>1, <1>2, <2>0, <2>2, <2>6, ParametersOK DEF RowHolds, InBudget, Row
  <2> QED
    BY <1>1, <1>2, <1>11, <2>0, <2>1, <2>2, <2>5, <2>7
    DEF RowHolds, Counted, InBudget, Pending
<1>12. CASE DeadLetter(w)
  <2>1. Others /\ work'[w] = Idle /\ RowHolds(r)'
    BY <1>11, <1>12 DEF DeadLetter, Loading
  <2> QED
    BY <1>6, <1>7, <2>1
<1>13. CASE ScheduleRetry(w)
  <2>0. At(w, "commit") /\ work[w].at # "intent"
    BY <1>13 DEF ScheduleRetry, Loading, At
  <2>1. CASE CommitDead(w)
    <3>1. Others /\ work'[w] = Idle /\ RowHolds(r)'
      BY <1>11, <1>13, <2>1 DEF ScheduleRetry, Loading
    <3> QED
      BY <1>6, <1>7, <3>1
  <2>2. CASE ~CommitDead(w)
    <3>1. PICK late \in BOOLEAN :
            /\ row' = [row EXCEPT ![r] = [status |-> Written(@.status, work[w].seen, "PENDING"),
                                          attempt |-> work[w].attempt + 1,
                                          due |-> FALSE, late |-> late]]
            /\ UNCHANGED dlq /\ ~Spent(w)
      BY <1>13, <2>2 DEF ScheduleRetry
    <3>2. Others /\ work'[w] = Idle
      BY <1>1, <1>2, <1>13, <3>1 DEF ScheduleRetry, Finish, TypeOK, bounds
    <3>3. row'[r].status = "PENDING" /\ row'[r].attempt = row[r].attempt + 1
      BY <1>1, <1>2, <2>0, <3>1 DEF Written, Pending, TypeOK
    <3>4. row'[r].attempt < MaxAttempts
      BY <1>1, <2>0, <3>1, <3>3, ParametersOK DEF Spent, Row
    <3>5. recorded' = recorded
      BY <1>13 DEF ScheduleRetry
    <3>6. RowHolds(r)'
      <4>1. Counted(r)'
        BY <1>1, <1>2, <2>0, <3>2, <3>3, <3>5 DEF RowHolds, Counted
      <4>2. Lettered(r)'
        BY <1>1, <2>0, <3>1 DEF Lettered
      <4>3. InBudget(r)'
        BY <1>1, <3>3, <3>4, ParametersOK DEF InBudget, Pending, Row
      <4> QED
        BY <4>1, <4>2, <4>3 DEF RowHolds
    <3> QED
      BY <1>6, <1>7, <3>2, <3>6
  <2> QED
    BY <2>1, <2>2
<1> QED
  BY <1>8, <1>9, <1>10, <1>12, <1>13 DEF Closing

\* What the worker takes in hand next is a pending row, or a new intent.
LEMMA SingleTaking ==
  ASSUME OneOfEach, SingleInv, NEW w \in Worker,
         Drain(w) \/ Crash(w) \/ Abort(w) \/ \E r \in Ref : Dispatch(w, r)
  PROVE  /\ \A r \in Ref : RowHolds(r)'
         /\ \A o \in Operator : Replaying(o)'
         /\ \A v \in Worker : Handling(v)'
<1>1. \A v \in Worker : v = w
  BY DEF OneOfEach
<1>2. TypeOK /\ Handling(w) /\ \A r \in Ref : RowHolds(r)
  BY DEF SingleInv, RowHolds
<1>3. ASSUME UNCHANGED <<dbVars, click>>, \A r \in Ref : dispatches'[r] = 0 => dispatches[r] = 0,
             Handling(w)'
      PROVE  /\ \A r \in Ref : RowHolds(r)'
             /\ \A o \in Operator : Replaying(o)'
             /\ \A v \in Worker : Handling(v)'
  <2>1. \A r \in Ref : RowHolds(r)'
    BY <1>2, <1>3, RowIsKept DEF dbVars
  <2>2. \A o \in Operator : Replaying(o)'
    BY <1>3 DEF SingleInv, Replaying, dbVars
  <2> QED
    BY <1>1, <1>3, <2>1, <2>2
<1>4. ASSUME work[w].at \notin Step \cup {"commit"} \/ work'[w] \in {Idle, Down},
             \A r \in todo'[w] : Pending(r), UNCHANGED row,
             work'[w] \in {Idle, Down, work[w]}
      PROVE  Handling(w)'
  <2>1. \A r \in todo'[w] : Pending(r)'
    BY <1>4 DEF Pending
  <2>2. work'[w].at \notin Step \cup {"commit"}
    BY <1>4 DEF Idle, Down, Step, Txn
  <2> QED
    BY <2>1, <2>2 DEF Handling
<1>5. CASE DrainOnce(w)
  <2>1. Handling(w)'
    BY <1>2, <1>4, <1>5 DEF DrainOnce, At, Due, TypeOK, dbVars, Step, Txn
  <2> QED
    BY <1>3, <1>5, <2>1 DEF DrainOnce, bounds
<1>6. CASE ReconcileOnStartup(w)
  <2>1. Handling(w)'
    BY <1>2, <1>4, <1>6 DEF ReconcileOnStartup, Finish, Due, Waiting, TypeOK, dbVars
  <2> QED
    BY <1>3, <1>6, <2>1 DEF ReconcileOnStartup, bounds
<1>7. CASE Abort(w)
  <2>1. Handling(w)'
    BY <1>2, <1>4, <1>7 DEF Abort, Finish, TypeOK, dbVars
  <2> QED
    BY <1>3, <1>7, <2>1 DEF Abort, bounds
<1>8. CASE Crash(w)
  <2>1. Handling(w)'
    BY <1>2, <1>4, <1>8 DEF Crash, TypeOK, dbVars
  <2> QED
    BY <1>3, <1>8, <2>1 DEF Crash
<1>9. ASSUME NEW r \in Ref, NEW at \in {"intent", "cancel"},
             work' = [work EXCEPT ![w] = [at |-> at, ref |-> r]], UNCHANGED row,
             r \notin todo'[w], \A q \in todo'[w] : Pending(q), dispatches'[r] > 0,
             Pending(r) \/ (at = "intent" /\ row[r].status = "NONE")
      PROVE  Handling(w)'
  <2>1. work'[w] = [at |-> at, ref |-> r]
    BY <1>2, <1>9 DEF TypeOK
  <2>2. \A q \in todo'[w] : Pending(q)'
    BY <1>9 DEF Pending
  <2>3. Pending(r)' <=> Pending(r)
    BY <1>9 DEF Pending
  <2> QED
    BY <1>9, <2>1, <2>2, <2>3 DEF Handling
<1>10. ASSUME NEW r \in Ref, Rebuild(w, r)
       PROVE  Handling(w)'
  <2>1. Pending(r) /\ dispatches[r] > 0
    BY <1>2, <1>10 DEF Rebuild, Handling, RowHolds, Counted, Pending, TypeOK
  <2>2. todo'[w] = todo[w] \ {r}
    BY <1>2, <1>10 DEF Rebuild, TypeOK
  <2> QED
    BY <1>2, <1>9, <1>10, <2>1, <2>2 DEF Rebuild, Handling, dbVars, bounds
<1>11. ASSUME NEW r \in Ref, Dispatch(w, r)
       PROVE  Handling(w)' /\ \A q \in Ref : dispatches'[q] = 0 => dispatches[q] = 0
  <2>1. dispatches[r] = 0
    BY <1>2, <1>11, ParametersOK DEF OneOfEach, Dispatch, TypeOK
  <2>2. row[r].status = "NONE" /\ dispatches'[r] = 1
    BY <1>2, <1>11, <2>1 DEF RowHolds, Counted, Dispatch, TypeOK
  <2>3. todo'[w] = {} /\ UNCHANGED row
    BY <1>11 DEF Dispatch, dbVars
  <2>4. Handling(w)'
    <3>1. work'[w] = [at |-> "intent", ref |-> r]
      BY <1>2, <1>11 DEF Dispatch, TypeOK
    <3> QED
      BY <2>2, <2>3, <3>1 DEF Handling
  <2>5. \A q \in Ref : dispatches'[q] = 0 => dispatches[q] = 0
    BY <1>2, <1>11, <2>2 DEF Dispatch, TypeOK
  <2> QED
    BY <2>4, <2>5
<1>12. ASSUME NEW r \in Ref, Rebuild(w, r)
       PROVE  UNCHANGED <<dbVars, click, dispatches>>
  BY <1>12 DEF Rebuild, bounds
<1>13. ASSUME NEW r \in Ref, Dispatch(w, r)
       PROVE  UNCHANGED <<dbVars, click>>
  BY <1>13 DEF Dispatch
<1> QED
  BY <1>3, <1>5, <1>6, <1>7, <1>8, <1>10, <1>11, <1>12, <1>13 DEF Drain

\* The provider's answers and the load move one worker and no row.
LEMMA SingleCalling ==
  ASSUME OneOfEach, SingleInv, NEW w \in Worker,
         \/ CreateLink(w) \/ RefuseDuplicate(w) \/ FindExisting(w)
         \/ FailTransiently(w) \/ FailPermanently(w) \/ Load(w)
  PROVE  /\ \A r \in Ref : RowHolds(r)'
         /\ \A o \in Operator : Replaying(o)'
         /\ \A v \in Worker : Handling(v)'
<1>1. \A v \in Worker : v = w
  BY DEF OneOfEach
<1>2. TypeOK /\ Handling(w) /\ \A r \in Ref : RowHolds(r)
  BY DEF SingleInv, RowHolds
<1>3. UNCHANGED <<dbVars, todo, click, dispatches>>
  BY DEF CreateLink, RefuseDuplicate, FindExisting, FailTransiently, FailPermanently, Load, bounds
<1>4. \A r \in Ref : RowHolds(r)'
  BY <1>2, <1>3, RowIsKept DEF dbVars
<1>5. \A o \in Operator : Replaying(o)'
  BY <1>3 DEF SingleInv, Replaying, dbVars
<1>6. work[w].at \in Step /\ work[w].at # "intent"
  BY DEF CreateLink, RefuseDuplicate, FindExisting, FailTransiently, FailPermanently, Load,
         At, Step, Txn
<1>7. /\ Pending(work[w].ref) /\ work[w].ref \notin todo[w] /\ dispatches[work[w].ref] > 0
      /\ \A q \in todo[w] : Pending(q)
  BY <1>2, <1>6 DEF Handling
<1>8. \/ work'[w] = Idle
      \/ work'[w].ref = work[w].ref /\ work'[w].at \in Step
      \/ /\ work'[w].ref = work[w].ref /\ work'[w].at = "commit"
         /\ work'[w].seen = "PENDING" /\ work'[w].attempt = row[work[w].ref].attempt
  <2>1. CASE Load(w)
    BY <1>2, <1>7, <2>1 DEF Load, Finish, TypeOK, Pending
  <2>2. CASE ~Load(w)
    <3>1. \E step \in {"lookup", "record", "retry", "bury"} : GoTo(w, step)
      BY <2>2 DEF CreateLink, RefuseDuplicate, FindExisting, FailTransiently, FailPermanently
    <3> QED
      BY <1>2, <3>1 DEF GoTo, TypeOK, Step, Txn
  <2> QED
    BY <2>1, <2>2
<1>9. row' = row /\ todo' = todo /\ dispatches' = dispatches
  BY <1>3 DEF dbVars
<1>10. \A q \in Ref \cup {work[w].ref} : Pending(q)' <=> Pending(q)
  BY <1>9 DEF Pending
<1>11. Handling(w)'
  <2>1. \A q \in todo'[w] : Pending(q)'
    BY <1>2, <1>7, <1>9, <1>10 DEF TypeOK
  <2>2. CASE work'[w] = Idle
    BY <2>1, <2>2 DEF Handling, Idle, Step, Txn
  <2>3. CASE work'[w] # Idle
    <3>1. work'[w].ref = work[w].ref
      BY <1>8, <2>3
    <3>2. row'[work'[w].ref].status = "PENDING"
      BY <1>7, <1>9, <3>1 DEF Pending
    <3>3. work'[w].at = "commit" => work'[w].seen = "PENDING" /\ work'[w].attempt = row'[work'[w].ref].attempt
      BY <1>8, <1>9, <2>3 DEF Step, Txn
    <3> QED
      BY <1>7, <1>9, <2>1, <3>1, <3>2, <3>3 DEF Handling, Pending
  <2> QED
    BY <2>2, <2>3
<1> QED
  BY <1>1, <1>4, <1>5, <1>11

\* A replay revives its dead row and closes its letter; the clock moves no status.
LEMMA SingleOther ==
  ASSUME OneOfEach, SingleInv,
         \/ \E o \in Operator : ReplayCommit(o) \/ ReplayLost(o)
         \/ \E o \in Operator, r \in Ref : \E i \in DOMAIN dlq[r] : ReplayLoad(o, r, i)
         \/ \E r \in Ref : Elapse(r)
         \/ \E c \in Case : EndCase(c) \/ ShutWindow(c) \/ Release(c)
         \/ UNCHANGED vars
  PROVE  /\ \A r \in Ref : RowHolds(r)'
         /\ \A o \in Operator : Replaying(o)'
         /\ \A w \in Worker : Handling(w)'
<1> DEFINE Goal == /\ \A r \in Ref : RowHolds(r)'
                   /\ \A o \in Operator : Replaying(o)'
                   /\ \A w \in Worker : Handling(w)'
<1>1. TypeOK /\ \A r \in Ref : RowHolds(r)
  BY DEF SingleInv, RowHolds
<1>2. UNCHANGED <<work, todo, recorded, dispatches>>
  BY DEF ReplayCommit, ReplayLost, ReplayLoad, Elapse, EndCase, ShutWindow, Release,
         vars, dbVars, bounds
<1>3. ASSUME \A r \in Ref : /\ row'[r].attempt = row[r].attempt
                            /\ row'[r].status = row[r].status
                               \/ (row[r].status = "DEAD" /\ row'[r].status = "PENDING")
      PROVE  \A w \in Worker : Handling(w)'
  <2> SUFFICES ASSUME NEW w \in Worker
               PROVE  Handling(w)'
    OBVIOUS
  <2>1. Handling(w) /\ todo[w] \subseteq Ref
    BY <1>1 DEF SingleInv, TypeOK
  <2>2. \A q \in Ref : Pending(q) => Pending(q)'
    BY <1>3 DEF Pending
  <2>3. \A q \in todo'[w] : Pending(q)'
    BY <1>2, <2>1, <2>2 DEF Handling
  <2>4. CASE work[w].at \in Step \cup {"commit"}
    <3>1. PICK r \in Ref : r = work[w].ref
      BY <1>1, <2>4, BusyShape, LoadedShape
    <3>2. /\ r \notin todo'[w] /\ dispatches'[r] > 0
          /\ Pending(r)' \/ (work'[w].at = "intent" /\ row'[r].status = "NONE")
          /\ work'[w].at = "commit" => work'[w].seen = "PENDING" /\ work'[w].attempt = row'[r].attempt
      BY <1>2, <1>3, <2>1, <2>2, <2>4, <3>1 DEF Handling
    <3> QED
      BY <1>2, <2>3, <3>1, <3>2 DEF Handling
  <2>5. CASE work[w].at \notin Step \cup {"commit"}
    BY <1>2, <2>3, <2>5 DEF Handling
  <2> QED
    BY <2>4, <2>5
<1>4. ASSUME UNCHANGED <<dlq, click>>,
             \A r \in Ref : row'[r].status = row[r].status /\ row'[r].attempt = row[r].attempt
      PROVE  Goal
  <2>1. \A r \in Ref : RowHolds(r)'
    BY <1>1, <1>2, <1>4, RowIsKept
  <2>2. \A o \in Operator : Replaying(o)'
    BY <1>4 DEF SingleInv, Replaying
  <2> QED
    BY <1>3, <1>4, <2>1, <2>2
<1>5. ASSUME NEW o \in Operator, ReplayCommit(o)
      PROVE  Goal
  <2>1. PICK r \in Ref : r = click[o].ref
    BY <1>1, <1>5, ClickShape DEF ReplayCommit
  <2>2. /\ click[o].entry \in DOMAIN dlq[r] /\ dlq[r][click[o].entry] = "OPEN"
        /\ click[o].seen = "DEAD" /\ row[r].status = "DEAD" /\ row[r] \in Row
    BY <1>1, <1>5, <2>1 DEF SingleInv, Replaying, ReplayCommit, RowHolds, Lettered, TypeOK
  <2>3. /\ row'[r].status = "PENDING" /\ row'[r].attempt = row[r].attempt
        /\ \A q \in Ref \ {r} : row'[q] = row[q] /\ dlq'[q] = dlq[q]
    BY <1>1, <1>5, <2>1, <2>2 DEF ReplayCommit, Written, TypeOK, Row
  <2>4. dlq'[r] = [dlq[r] EXCEPT ![click[o].entry] = "REPLAYED"]
    BY <1>1, <1>5, <2>1 DEF ReplayCommit, TypeOK
  <2>5. DOMAIN dlq'[r] = DOMAIN dlq[r] /\ Replayed(r)'
    BY <2>2, <2>4 DEF Replayed
  <2>6. \A i \in DOMAIN dlq'[r] : dlq'[r][i] # "OPEN"
    BY <1>1, <2>2, <2>4 DEF RowHolds, Lettered
  <2>7. RowHolds(r)'
    BY <1>1, <1>2, <2>2, <2>3, <2>5, <2>6 DEF RowHolds, Counted, Lettered, InBudget
  <2>8. \A q \in Ref \ {r} : RowHolds(q)'
    BY <1>1, <1>2, <2>3, RowIsKept
  <2>9. \A p \in Operator : Replaying(p)'
    BY <1>1, <1>5 DEF OneOfEach, ReplayCommit, Replaying, TypeOK
  <2> QED
    BY <1>3, <2>2, <2>3, <2>7, <2>8, <2>9
<1>6. ASSUME NEW o \in Operator, ReplayLost(o)
      PROVE  Goal
  <2>1. UNCHANGED dbVars /\ \A p \in Operator : click'[p] = Idle
    BY <1>1, <1>6 DEF OneOfEach, ReplayLost, TypeOK
  <2>2. \A p \in Operator : Replaying(p)'
    BY <2>1 DEF Replaying
  <2>3. \A r \in Ref : RowHolds(r)'
    BY <1>1, <1>2, <2>1, RowIsKept DEF dbVars
  <2> QED
    BY <1>3, <2>1, <2>2, <2>3 DEF dbVars
<1>7. ASSUME NEW o \in Operator, NEW r \in Ref, NEW i \in DOMAIN dlq[r], ReplayLoad(o, r, i)
      PROVE  Goal
  <2>1. UNCHANGED dbVars
    BY <1>7 DEF ReplayLoad
  <2>2. row[r].status = "DEAD"
    BY <1>1, <1>7 DEF ReplayLoad, RowHolds, Lettered
  <2>3. \A p \in Operator : Replaying(p)'
    BY <1>1, <1>7, <2>1, <2>2 DEF OneOfEach, ReplayLoad, Replaying, TypeOK, dbVars
  <2>4. \A q \in Ref : RowHolds(q)'
    BY <1>1, <1>2, <2>1, RowIsKept DEF dbVars
  <2> QED
    BY <1>3, <2>1, <2>3, <2>4 DEF dbVars
<1>8. ASSUME NEW r \in Ref, Elapse(r)
      PROVE  Goal
  BY <1>1, <1>4, <1>8 DEF Elapse, TypeOK, Row
<1>9. ASSUME NEW c \in Case, ShutWindow(c)
      PROVE  Goal
  BY <1>1, <1>4, <1>9 DEF ShutWindow, TypeOK, Row
<1>10. ASSUME NEW c \in Case, EndCase(c) \/ Release(c)
       PROVE  Goal
  BY <1>4, <1>10 DEF EndCase, Release, dbVars
<1>11. CASE UNCHANGED vars
  BY <1>4, <1>11 DEF vars, dbVars
<1> QED
  BY <1>5, <1>6, <1>7, <1>8, <1>9, <1>10, <1>11

LEMMA SingleStep == OneOfEach /\ SingleInv /\ [Next]_vars => SingleInv'
<1> SUFFICES ASSUME OneOfEach, SingleInv, [Next]_vars
             PROVE  SingleInv'
  OBVIOUS
<1>1. TypeOK'
  BY TypeStep DEF SingleInv
<1>2. Sweeper = {}
  BY DEF OneOfEach
<1>3. /\ \A r \in Ref : RowHolds(r)'
      /\ \A o \in Operator : Replaying(o)'
      /\ \A w \in Worker : Handling(w)'
  BY <1>2, SingleClosing, SingleTaking, SingleCalling, SingleOther DEF Next, Execute
<1> QED
  BY <1>1, <1>3 DEF SingleInv, RowHolds

LEMMA SingleHolds ==
  ASSUME OneOfEach
  PROVE  Spec => []SingleInv
<1>1. SingleInv /\ [Next]_vars => SingleInv'
  BY SingleStep
<1> QED
  BY SingleInit, <1>1, PTL DEF Spec

\* The executor's promise, "exactly once", where the process keeps to what it was
\* written for: one coroutine at a time, each reference executed once, no sweep.
\* However it crashes, restarts, retries and is replayed, an intent is recorded,
\* and the customer's budget charged, at most once.
THEOREM OneRecord ==
  ASSUME OneOfEach
  PROVE  Spec => []OneRecordPerIntent
<1>1. SingleInv => OneRecordPerIntent
  BY DEF SingleInv, Counted, OneRecordPerIntent
<1> QED
  BY SingleHolds, <1>1, PTL

\* _schedule_retry ends: every failure is counted once, so a row that was not
\* replayed never waits for more attempts than OutboxExecutor.max_attempts.
THEOREM BudgetIsKept ==
  ASSUME OneOfEach
  PROVE  Spec => []BudgetHolds
<1>1. SingleInv => BudgetHolds
  BY DEF SingleInv, InBudget, BudgetHolds
<1> QED
  BY SingleHolds, <1>1, PTL

\* A row that says SENT says so for ever: neither a late failure of the same
\* worker nor the replay of one of its dead letters takes it back.
THEOREM SentStaysSent ==
  ASSUME OneOfEach
  PROVE  Spec => SentIsFinal
<1>1. SingleInv /\ SingleInv' /\ [Next]_vars =>
        [\A r \in Ref : row[r].status = "SENT" => row'[r].status = "SENT"]_vars
  <2> SUFFICES ASSUME SingleInv, SingleInv', [Next]_vars, NEW r \in Ref, row[r].status = "SENT"
               PROVE  row'[r].status = "SENT"
    OBVIOUS
  <2>1. recorded[r] > 0
    BY DEF SingleInv, Counted
  <2>2. recorded'[r] > 0
    BY <2>1, NothingIsTakenBack DEF SingleInv
  <2> QED
    BY <2>2 DEF SingleInv, Counted
<1> QED
  BY SingleHolds, <1>1, PTL DEF Spec, SentIsFinal
=============================================================================
