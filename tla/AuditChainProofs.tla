-------------------------- MODULE AuditChainProofs --------------------------
(***************************************************************************)
(* Proofs about AuditChain, for any number of sessions and AuditChain      *)
(* objects and any bounds.                                                 *)
(***************************************************************************)
EXTENDS AuditChain, TLAPS, FiniteSetTheorems, FunctionTheorems, WellFoundedInduction

\* A transaction is a record with exactly these fields.
Shape(t) ==
  t = [at |-> t.at, queue |-> t.queue, dirty |-> t.dirty, staged |-> t.staged,
       tries |-> t.tries, head |-> t.head]

Shapes == tx = [s \in Session |-> tx[s]] /\ \A s \in Session : Shape(tx[s])

\* A block is a record with exactly these fields.
BlockShape(b) ==
  b = [index |-> b.index, prev |-> b.prev, payload |-> b.payload,
       digest |-> b.digest, at |-> b.at, hash |-> b.hash]

HasTop(blocks) == blocks # {} => \E b \in blocks : \A d \in blocks : d.index <= b.index

OneBlockPerIndex(blocks) == \A b, d \in blocks : b.index = d.index => b = d

\* What a session has written is its own, fits the chain, and holds a block for
\* each change that it would make visible.
Staging(s) ==
  /\ tx[s].dirty \subseteq tx[s].queue \cup Payloads(tx[s].staged)
  /\ \A b \in tx[s].staged : b.index \in Nat /\ b.payload \in Change /\ b \notin chain
                              /\ BlockShape(b)
  /\ OneBlockPerIndex(Visible(s)) /\ HasTop(Visible(s))
  /\ At(s, "open") => writer = s
  /\ tx[s].head.index \in Int /\ tx[s].head.index >= -1

Written ==
  /\ OneBlockPerIndex(chain) /\ HasTop(chain) /\ \A b \in chain : BlockShape(b)
  /\ \A s \in Session : Staging(s)

WInv == TypeOK /\ Shapes /\ Written

\* Up to its last block a chain has a block for every index.
Dense(blocks) == \A b \in blocks : \A i \in 0 .. b.index : Taken(blocks, i)

\* A block is as append() stored it, but for what the tamper endpoint changes in
\* the blocks whose indices are in marked; no later change hides that.
Sealed(b, marked) ==
  /\ b.index \in Nat /\ b.digest \in Change /\ b.at \in Int /\ b.at <= 0
  /\ b.payload \in {b.digest, "tampered"}
  /\ b.hash \in {FORGED, Hash(b.prev, b.digest, b.index, 0)}
  /\ b.index \in marked <=> b.payload = "tampered" \/ b.at < 0 \/ b.hash = FORGED

\* A block holds the hash of its predecessor, if neither was corrupted.
Linked(b, blocks, marked) ==
  b.index \notin marked =>
    /\ b.index = 0 => b.prev = GENESIS
    /\ \A d \in blocks : d.index = b.index - 1 /\ d.index \notin marked => b.prev = d.hash

Sound(blocks, marked) ==
  Dense(blocks) /\ \A b \in blocks : Sealed(b, marked) /\ Linked(b, blocks, marked)

\* The head a session has read is in the chain it sees; its hash is still the
\* one that was read, unless it was corrupted.
HeadFits(head, blocks, marked) ==
  \/ head = Before
  \/ \E d \in blocks : d.index = head.index /\ (d.index \notin marked => d.hash = head.hash)

Chained ==
  resets = 0 =>
    /\ Sound(chain, tampered) /\ \A i \in tampered : Taken(chain, i)
    /\ \A s \in Session :
         /\ Sound(Visible(s), tampered)
         /\ At(s, "flush") => HeadFits(tx[s].head, Visible(s), tampered)

-----------------------------------------------------------------------------
(* Lemmas.                                                                 *)

\* The last block of a non-empty table is one of its blocks.
LEMMA TopIsABlock ==
  ASSUME NEW blocks, HasTop(blocks), blocks # {}
  PROVE  Top(blocks) \in blocks /\ \A d \in blocks : d.index <= Top(blocks).index
  BY DEF HasTop, Top

\* Adding a block keeps a highest one.
LEMMA AddKeepsTop ==
  ASSUME NEW blocks, HasTop(blocks), NEW b, b.index \in Int,
         \A d \in blocks : d.index \in Int
  PROVE  HasTop(blocks \cup {b})
<1>1. CASE blocks = {}
  BY <1>1 DEF HasTop
<1>2. CASE blocks # {}
  <2>1. PICK top \in blocks : \A d \in blocks : d.index <= top.index
    BY <1>2 DEF HasTop
  <2>2. CASE b.index <= top.index
    BY <2>1, <2>2 DEF HasTop
  <2>3. CASE ~(b.index <= top.index)
    <3>1. \A d \in blocks \cup {b} : d.index <= b.index
      BY <2>1, <2>3
    <3> QED BY <3>1 DEF HasTop
  <2> QED BY <2>2, <2>3
<1> QED BY <1>1, <1>2

\* Assigning to a field keeps a transaction's shape.
LEMMA FieldKeepsShape ==
  ASSUME NEW t, Shape(t), NEW v
  PROVE  /\ Shape([t EXCEPT !.at = v]) /\ Shape([t EXCEPT !.queue = v])
         /\ Shape([t EXCEPT !.dirty = v]) /\ Shape([t EXCEPT !.staged = v])
         /\ Shape([t EXCEPT !.tries = v]) /\ Shape([t EXCEPT !.head = v])
  BY DEF Shape

\* Replacing one session's transaction leaves the others alone.
LEMMA TxUpdate ==
  ASSUME Shapes, NEW s \in Session, NEW t, Shape(t), tx' = [tx EXCEPT ![s] = t]
  PROVE  /\ Shapes' /\ tx'[s] = t
         /\ \A q \in Session \ {s} : tx'[q] = tx[q]
<1>1. tx'[s] = t /\ \A q \in Session \ {s} : tx'[q] = tx[q]
  BY DEF Shapes
<1>2. tx' = [q \in Session |-> tx'[q]]
  BY DEF Shapes
<1>3. \A q \in Session : Shape(tx'[q])
  BY <1>1 DEF Shapes
<1>4. Shapes'
  BY <1>2, <1>3 DEF Shapes, Shape
<1> QED BY <1>1, <1>4

\* Index conditions of a session whose transaction and tables do not change.
LEMMA StagingStays ==
  ASSUME NEW q \in Session, Staging(q), tx'[q] = tx[q], chain' = chain,
         writer = q => writer' = q
  PROVE  Staging(q)'
  BY DEF Staging, Visible, At

\* A session that leaves takes nothing with it.
LEMMA LeaveKeeps ==
  ASSUME WInv, AuditParametersOK, NEW s \in Session, Leave(s),
         chain' = chain, applied' = applied,
         begins' = begins, tampers' = tampers, resets' = resets
  PROVE  WInv'
<1> USE DEF WInv
<1>1. Shape(Idle)
  BY DEF Shape, Idle
<1>2. /\ Shapes' /\ tx'[s] = Idle
      /\ \A q \in Session \ {s} : tx'[q] = tx[q]
  BY <1>1, TxUpdate DEF Leave
<1>3. writer' \in Session \cup {None} /\ writer' # s
  BY DEF Leave, TypeOK, AuditParametersOK
<1>4. \A q \in Session \ {s} : writer = q => writer' = q
  BY DEF Leave
<1>5. TypeOK'
  <2>1. mutex' \in [Instance -> Session \cup {None}]
    BY DEF Leave, TypeOK
  <2>2. \A q \in Session \ {s} :
          /\ tx'[q].at \in Steps /\ tx'[q].tries \in 0 .. Retries - 1
          /\ tx'[q].queue \subseteq Change /\ tx'[q].dirty \subseteq Change
          /\ tx'[q].staged # {} => writer' = q
          /\ tx'[q].at = "idle" => tx'[q] = Idle /\ writer' # q
    BY <1>2, <1>4 DEF TypeOK, Leave, At, AuditParametersOK
  <2>3. /\ Idle.at \in Steps /\ Idle.tries \in 0 .. Retries - 1
        /\ Idle.queue \subseteq Change /\ Idle.dirty \subseteq Change
        /\ Idle.staged = {}
    BY DEF Idle, Steps, AuditParametersOK
  <2> QED BY <1>2, <1>3, <2>1, <2>2, <2>3 DEF TypeOK, At
<1>6. Staging(s)'
  <2>1. Visible(s)' = chain
    BY <1>2 DEF Visible, Idle
  <2>2. Idle.dirty = {} /\ Idle.staged = {} /\ Idle.at = "idle" /\ Idle.head.index = -1
    BY DEF Idle, Before
  <2> QED BY <1>2, <2>1, <2>2 DEF Staging, At, Written
<1>7. \A q \in Session \ {s} : Staging(q)'
  BY <1>2, <1>4, StagingStays DEF Written
<1> QED BY <1>2, <1>5, <1>6, <1>7 DEF Written

\* A step of one session that touches neither the tables nor the locks held by
\* others keeps WInv when its own transaction stays well formed.
LEMMA StepKeeps ==
  ASSUME WInv, AuditParametersOK, NEW s \in Session, NEW t, Shape(t),
         tx' = [tx EXCEPT ![s] = t],
         chain' = chain, applied' = applied, tampers' = tampers, resets' = resets,
         begins' \in Nat, mutex' \in [Instance -> Session \cup {None}],
         writer' \in Session \cup {None},
         \A q \in Session \ {s} : writer = q <=> writer' = q,
         t.at \in Steps \ {"idle"}, t.tries \in 0 .. Retries - 1,
         t.queue \subseteq Change, t.dirty \subseteq Change,
         t.staged # {} => writer' = s,
         Staging(s)'
  PROVE  WInv'
<1> USE DEF WInv
<1>1. /\ Shapes' /\ tx'[s] = t
      /\ \A q \in Session \ {s} : tx'[q] = tx[q]
  BY TxUpdate
<1>2. \A q \in Session \ {s} : Staging(q)'
  BY <1>1, StagingStays DEF Written
<1>3. \A q \in Session \ {s} :
        /\ tx'[q].at \in Steps /\ tx'[q].tries \in 0 .. Retries - 1
        /\ tx'[q].queue \subseteq Change /\ tx'[q].dirty \subseteq Change
        /\ tx'[q].staged # {} => writer' = q
        /\ tx'[q].at = "idle" => tx'[q] = Idle /\ writer' # q
  BY <1>1 DEF TypeOK, At
<1>4. TypeOK'
  BY <1>1, <1>3 DEF TypeOK, At
<1> QED BY <1>1, <1>2, <1>4 DEF Written

LEMMA BeginKeeps ==
  ASSUME WInv, AuditParametersOK, NEW s \in Session,
         NEW changes \in SUBSET Change, Begin(s, changes)
  PROVE  WInv'
<1> DEFINE t == [Idle EXCEPT !.at = "lock", !.queue = changes, !.dirty = changes]
<1>2. /\ t.at = "lock" /\ t.queue = changes /\ t.dirty = changes
      /\ t.staged = {} /\ t.tries = 0 /\ t.head = Before
  BY DEF Idle
<1>1. Shape(t)
  <2>1. Shape(Idle)
    BY DEF Shape, Idle
  <2>2. t = [[[Idle EXCEPT !.at = "lock"] EXCEPT !.queue = changes] EXCEPT !.dirty = changes]
    OBVIOUS
  <2> QED BY <2>1, <2>2, FieldKeepsShape
<1>3. tx' = [tx EXCEPT ![s] = t]
  BY DEF Begin
<1>4. tx'[s] = t
  BY <1>1, <1>3, TxUpdate DEF WInv
<1>5. Visible(s)' = chain
  BY <1>2, <1>4 DEF Visible, Begin
<1>6. Staging(s)'
  BY <1>2, <1>4, <1>5 DEF Staging, WInv, Written, At, Before
<1>7. writer' \in {writer, s} /\ \A q \in Session \ {s} : writer = q <=> writer' = q
  BY DEF Begin, WInv, TypeOK, AuditParametersOK
<1>8. /\ writer' \in Session \cup {None} /\ begins' \in Nat
      /\ mutex' \in [Instance -> Session \cup {None}]
  BY <1>7 DEF Begin, WInv, TypeOK
<1>9. /\ t.at \in Steps \ {"idle"} /\ t.tries \in 0 .. Retries - 1
      /\ t.queue \subseteq Change /\ t.dirty \subseteq Change
      /\ t.staged # {} => writer' = s
  BY <1>2 DEF Steps, AuditParametersOK
<1>10. /\ chain' = chain /\ applied' = applied /\ tampers' = tampers /\ resets' = resets
  BY DEF Begin
<1> HIDE DEF t
<1> QED BY <1>1, <1>3, <1>6, <1>7, <1>8, <1>9, <1>10, StepKeeps

LEMMA AcquireLockKeeps ==
  ASSUME WInv, AuditParametersOK, NEW s \in Session, AcquireLock(s)
  PROVE  WInv'
<1> DEFINE t == [tx[s] EXCEPT !.at = "head"]
<1>1. Shape(tx[s])
  BY DEF WInv, Shapes
<1>2. /\ Shape(t) /\ t.at = "head" /\ t.queue = tx[s].queue /\ t.dirty = tx[s].dirty
      /\ t.staged = tx[s].staged /\ t.tries = tx[s].tries /\ t.head = tx[s].head
  BY <1>1 DEF Shape
<1>3. tx' = [tx EXCEPT ![s] = t]
  BY DEF AcquireLock
<1>4. tx'[s] = t
  BY <1>2, <1>3, TxUpdate DEF WInv
<1>5. Visible(s)' = Visible(s)
  BY <1>2, <1>4 DEF Visible, AcquireLock
<1>6. Staging(s)'
  BY <1>2, <1>4, <1>5 DEF Staging, WInv, Written, At, AcquireLock
<1>7. /\ writer' = writer /\ writer' \in Session \cup {None} /\ begins' \in Nat
      /\ mutex' \in [Instance -> Session \cup {None}]
  BY DEF AcquireLock, WInv, TypeOK, counters
<1>8. /\ t.at \in Steps \ {"idle"} /\ t.tries \in 0 .. Retries - 1
      /\ t.queue \subseteq Change /\ t.dirty \subseteq Change
      /\ t.staged # {} => writer' = s
  BY <1>2, <1>7 DEF Steps, WInv, TypeOK
<1>9. /\ chain' = chain /\ applied' = applied /\ tampers' = tampers /\ resets' = resets
  BY DEF AcquireLock, counters
<1> HIDE DEF t
<1> QED BY <1>2, <1>3, <1>6, <1>7, <1>8, <1>9, StepKeeps

LEMMA ReadHeadKeeps ==
  ASSUME WInv, AuditParametersOK, NEW s \in Session, ReadHead(s)
  PROVE  WInv'
<1> DEFINE t == [tx[s] EXCEPT !.at = "flush", !.head = Top(Visible(s))]
<1>1. Shape(tx[s])
  BY DEF WInv, Shapes
<1>2. /\ Shape(t) /\ t.at = "flush" /\ t.queue = tx[s].queue /\ t.dirty = tx[s].dirty
      /\ t.staged = tx[s].staged /\ t.tries = tx[s].tries /\ t.head = Top(Visible(s))
  <2>1. /\ t.at = "flush" /\ t.queue = tx[s].queue /\ t.dirty = tx[s].dirty
        /\ t.staged = tx[s].staged /\ t.tries = tx[s].tries /\ t.head = Top(Visible(s))
    BY <1>1 DEF Shape
  <2>2. t = [[tx[s] EXCEPT !.at = "flush"] EXCEPT !.head = Top(Visible(s))]
    OBVIOUS
  <2> QED BY <1>1, <2>1, <2>2, FieldKeepsShape
<1>3. tx' = [tx EXCEPT ![s] = t]
  BY DEF ReadHead
<1>4. tx'[s] = t
  BY <1>2, <1>3, TxUpdate DEF WInv
<1>5. Visible(s)' = Visible(s)
  BY <1>2, <1>4 DEF Visible, ReadHead
<1>6. Top(Visible(s)).index \in Int /\ Top(Visible(s)).index >= -1
  <2>1. \A b \in Visible(s) : b.index \in Nat
    BY DEF Visible, WInv, TypeOK, Written, Staging
  <2>2. CASE Visible(s) = {}
    BY <2>2 DEF Top, Before
  <2>3. CASE Visible(s) # {}
    BY <2>1, <2>3, TopIsABlock DEF WInv, Written, Staging
  <2> QED BY <2>2, <2>3
<1>7. Staging(s)'
  BY <1>2, <1>4, <1>5, <1>6 DEF Staging, WInv, Written, At, ReadHead
<1>8. /\ writer' = writer /\ writer' \in Session \cup {None} /\ begins' \in Nat
      /\ mutex' \in [Instance -> Session \cup {None}]
  BY DEF ReadHead, WInv, TypeOK, counters
<1>9. /\ t.at \in Steps \ {"idle"} /\ t.tries \in 0 .. Retries - 1
      /\ t.queue \subseteq Change /\ t.dirty \subseteq Change
      /\ t.staged # {} => writer' = s
  BY <1>2, <1>8 DEF Steps, WInv, TypeOK
<1>10. /\ chain' = chain /\ applied' = applied /\ tampers' = tampers /\ resets' = resets
  BY DEF ReadHead, counters
<1> HIDE DEF t
<1> QED BY <1>2, <1>3, <1>7, <1>8, <1>9, <1>10, StepKeeps

LEMMA ConflictKeeps ==
  ASSUME WInv, AuditParametersOK, NEW s \in Session, Conflict(s)
  PROVE  WInv'
<1> USE DEF counters
<1>1. /\ chain' = chain /\ applied' = applied /\ begins' = begins
      /\ tampers' = tampers /\ resets' = resets
  BY DEF Conflict
<1>2. CASE tx[s].tries + 1 = Retries
  BY <1>1, <1>2, LeaveKeeps DEF Conflict
<1>3. CASE tx[s].tries + 1 # Retries
  <2> DEFINE t == [tx[s] EXCEPT !.at = "head", !.dirty = {}, !.staged = {}, !.tries = @ + 1]
  <2>1. Shape(tx[s])
    BY DEF WInv, Shapes
  <2>2. /\ t.at = "head" /\ t.queue = tx[s].queue /\ t.dirty = {} /\ t.staged = {}
        /\ t.tries = tx[s].tries + 1 /\ t.head = tx[s].head
    BY <2>1 DEF Shape
  <2>3. Shape(t)
    <3>1. t = [[[[tx[s] EXCEPT !.at = "head"] EXCEPT !.dirty = {}] EXCEPT !.staged = {}]
                 EXCEPT !.tries = tx[s].tries + 1]
      BY <2>1 DEF Shape
    <3> QED BY <2>1, <3>1, FieldKeepsShape
  <2>4. tx' = [tx EXCEPT ![s] = t]
    BY <1>3 DEF Conflict
  <2>5. tx'[s] = t
    BY <2>3, <2>4, TxUpdate DEF WInv
  <2>6. Visible(s)' = chain
    BY <1>1, <2>2, <2>5 DEF Visible
  <2>7. Staging(s)'
    BY <1>1, <2>2, <2>5, <2>6 DEF Staging, WInv, Written, At
  <2>8. /\ writer' = None /\ writer \in {None, s}
        /\ mutex' \in [Instance -> Session \cup {None}] /\ begins' \in Nat
    BY <1>1, <1>3 DEF Conflict, WInv, TypeOK
  <2>9. /\ t.at \in Steps \ {"idle"} /\ t.tries \in 0 .. Retries - 1
        /\ t.queue \subseteq Change /\ t.dirty \subseteq Change
        /\ t.staged # {} => writer' = s
    BY <1>3, <2>2 DEF Steps, WInv, TypeOK, AuditParametersOK
  <2>10. \A q \in Session \ {s} : writer = q <=> writer' = q
    BY <2>8 DEF AuditParametersOK
  <2> HIDE DEF t
  <2> QED BY <1>1, <2>3, <2>4, <2>7, <2>8, <2>9, <2>10, StepKeeps
<1> QED BY <1>2, <1>3

LEMMA FlushKeeps ==
  ASSUME WInv, AuditParametersOK, NEW s \in Session, NEW c \in Change, Flush(s, c)
  PROVE  WInv'
<1> DEFINE b == NewBlock(tx[s].head, c)
           t == [tx[s] EXCEPT !.at = "open", !.queue = @ \ {c}, !.staged = @ \cup {b}]
<1>1. /\ chain' = chain /\ applied' = applied /\ begins' = begins
      /\ tampers' = tampers /\ resets' = resets /\ writer' = s /\ writer \in {None, s}
      /\ ~Taken(Visible(s), tx[s].head.index + 1) /\ c \in tx[s].queue
  BY DEF Flush, counters
<1>2. Shape(tx[s]) /\ Staging(s)
  BY DEF WInv, Shapes, Written
<1>3. b.index = tx[s].head.index + 1 /\ b.index \in Nat /\ b.payload = c /\ BlockShape(b)
  BY <1>2 DEF NewBlock, Staging, BlockShape
<1>4. \A d \in Visible(s) : d.index # b.index
  BY <1>1, <1>3 DEF Taken
<1> HIDE DEF b
<1>5. /\ t.at = "open" /\ t.queue = tx[s].queue \ {c} /\ t.dirty = tx[s].dirty
      /\ t.staged = tx[s].staged \cup {b} /\ t.tries = tx[s].tries /\ t.head = tx[s].head
  BY <1>2 DEF Shape
<1>6. Shape(t)
  <2>1. t = [[[tx[s] EXCEPT !.at = "open"] EXCEPT !.queue = tx[s].queue \ {c}]
               EXCEPT !.staged = tx[s].staged \cup {b}]
    BY <1>2 DEF Shape
  <2> QED BY <1>2, <2>1, FieldKeepsShape
<1>7. tx' = [tx EXCEPT ![s] = t]
  BY DEF Flush, b
<1>8. tx'[s] = t
  BY <1>6, <1>7, TxUpdate DEF WInv
<1>9. Visible(s)' = Visible(s) \cup {b}
  BY <1>1, <1>5, <1>8 DEF Visible
<1>10. Staging(s)'
  <2>1. tx'[s].dirty \subseteq tx'[s].queue \cup Payloads(tx'[s].staged)
    <3>1. c \in Payloads(tx'[s].staged) /\ Payloads(tx[s].staged) \subseteq Payloads(tx'[s].staged)
      BY <1>3, <1>5, <1>8 DEF Payloads
    <3> QED BY <1>2, <1>5, <1>8, <3>1 DEF Staging
  <2>2. b \notin chain
    BY <1>4 DEF Visible
  <2>3. OneBlockPerIndex(Visible(s) \cup {b})
    BY <1>2, <1>4 DEF Staging, OneBlockPerIndex
  <2>4. \A d \in Visible(s) : d.index \in Int
    BY <1>2 DEF Visible, Staging, WInv, TypeOK
  <2>5. HasTop(Visible(s) \cup {b})
    BY <1>2, <1>3, <2>4, AddKeepsTop DEF Staging
  <2>6. \A d \in tx'[s].staged : d.index \in Nat /\ d.payload \in Change /\ d \notin chain'
                                   /\ BlockShape(d)
    BY <1>1, <1>2, <1>3, <1>5, <1>8, <2>2 DEF Staging
  <2> QED BY <1>1, <1>2, <1>5, <1>8, <1>9, <2>1, <2>3, <2>5, <2>6 DEF Staging
<1>11. /\ writer' \in Session \cup {None} /\ begins' \in Nat
       /\ mutex' \in [Instance -> Session \cup {None}]
  BY <1>1 DEF Flush, WInv, TypeOK
<1>12. /\ t.at \in Steps \ {"idle"} /\ t.tries \in 0 .. Retries - 1
       /\ t.queue \subseteq Change /\ t.dirty \subseteq Change
       /\ t.staged # {} => writer' = s
  BY <1>1, <1>5 DEF Steps, WInv, TypeOK
<1>13. \A q \in Session \ {s} : writer = q <=> writer' = q
  BY <1>1 DEF AuditParametersOK
<1> HIDE DEF t
<1> QED BY <1>1, <1>6, <1>7, <1>10, <1>11, <1>12, <1>13, StepKeeps

LEMMA AppendNextKeeps ==
  ASSUME WInv, AuditParametersOK, NEW s \in Session, AppendNext(s)
  PROVE  WInv'
<1>1. /\ chain' = chain /\ applied' = applied /\ begins' = begins
      /\ tampers' = tampers /\ resets' = resets
  BY DEF AppendNext, counters
<1>2. CASE tx[s].tries # 0
  BY <1>1, <1>2, LeaveKeeps DEF AppendNext
<1>3. CASE tx[s].tries = 0
  <2> DEFINE t == [tx[s] EXCEPT !.at = "lock"]
  <2>1. Shape(tx[s])
    BY DEF WInv, Shapes
  <2>2. /\ Shape(t) /\ t.at = "lock" /\ t.queue = tx[s].queue /\ t.dirty = tx[s].dirty
        /\ t.staged = tx[s].staged /\ t.tries = tx[s].tries /\ t.head = tx[s].head
    BY <2>1 DEF Shape
  <2>3. tx' = [tx EXCEPT ![s] = t] /\ writer' = writer /\ mutex' = mutex
    BY <1>3 DEF AppendNext
  <2>4. tx'[s] = t
    BY <2>2, <2>3, TxUpdate DEF WInv
  <2>5. Visible(s)' = Visible(s)
    BY <1>1, <2>2, <2>4 DEF Visible
  <2>6. Staging(s)'
    BY <1>1, <2>2, <2>4, <2>5 DEF Staging, WInv, Written, At
  <2>7. /\ writer' \in Session \cup {None} /\ begins' \in Nat
        /\ mutex' \in [Instance -> Session \cup {None}]
    BY <1>1, <2>3 DEF WInv, TypeOK
  <2>8. /\ t.at \in Steps \ {"idle"} /\ t.tries \in 0 .. Retries - 1
        /\ t.queue \subseteq Change /\ t.dirty \subseteq Change
        /\ t.staged # {} => writer' = s
    BY <2>2, <2>3 DEF Steps, WInv, TypeOK
  <2> HIDE DEF t
  <2> QED BY <1>1, <2>2, <2>3, <2>6, <2>7, <2>8, StepKeeps
<1> QED BY <1>2, <1>3

LEMMA CommitKeeps ==
  ASSUME WInv, AuditParametersOK, NEW s \in Session, Commit(s)
  PROVE  WInv'
<1> USE DEF WInv
<1>1. /\ chain' = chain \cup tx[s].staged /\ applied' = applied \cup tx[s].dirty
      /\ begins' = begins /\ tampers' = tampers /\ resets' = resets
      /\ Leave(s) /\ At(s, "open")
  BY DEF Commit, counters
<1>2. Shape(Idle) /\ Staging(s)
  BY DEF Shape, Idle, Written
<1>3. /\ Shapes' /\ tx'[s] = Idle
      /\ \A q \in Session \ {s} : tx'[q] = tx[q]
  BY <1>1, <1>2, TxUpdate DEF Leave
<1>4. writer = s /\ writer' = None /\ mutex' \in [Instance -> Session \cup {None}]
  BY <1>1, <1>2 DEF Staging, Leave, TypeOK
<1>5. \A q \in Session \ {s} : tx[q].staged = {} /\ tx[q].at # "open"
  BY <1>4 DEF TypeOK, Written, Staging, At
<1>6. OneBlockPerIndex(chain') /\ HasTop(chain') /\ \A b \in chain' : BlockShape(b)
  BY <1>1, <1>2 DEF Staging, Visible, Written
<1>7. \A q \in Session : Staging(q)'
  <2>1. Staging(s)'
    <3>1. /\ Idle.dirty = {} /\ Idle.staged = {} /\ Idle.at = "idle"
          /\ Idle.head.index = -1
      BY DEF Idle, Before
    <3>2. Visible(s)' = chain'
      BY <1>3, <3>1 DEF Visible
    <3> QED BY <1>3, <1>6, <3>1, <3>2 DEF Staging, At
  <2>2. ASSUME NEW q \in Session \ {s} PROVE Staging(q)'
    <3>1. Visible(q)' = chain'
      BY <1>3, <1>5 DEF Visible
    <3>2. Staging(q)
      BY DEF Written
    <3> QED BY <1>3, <1>5, <1>6, <3>1, <3>2 DEF Staging, At
  <2> QED BY <2>1, <2>2
<1>8. TypeOK'
  <2>1. applied' \subseteq Change /\ \A b \in chain' : b.index \in Nat /\ b.payload \in Payload
    BY <1>1, <1>2 DEF TypeOK, Staging, Payload
  <2>2. /\ Idle.at \in Steps /\ Idle.tries \in 0 .. Retries - 1
        /\ Idle.queue \subseteq Change /\ Idle.dirty \subseteq Change
        /\ Idle.staged = {}
    BY DEF Idle, Steps, AuditParametersOK
  <2>3. \A q \in Session \ {s} :
          /\ tx'[q].at \in Steps /\ tx'[q].tries \in 0 .. Retries - 1
          /\ tx'[q].queue \subseteq Change /\ tx'[q].dirty \subseteq Change
          /\ tx'[q].staged = {}
          /\ tx'[q].at = "idle" => tx'[q] = Idle
    BY <1>3, <1>5 DEF TypeOK, At
  <2>4. \A q \in Session : None # q
    BY DEF AuditParametersOK
  <2> QED BY <1>1, <1>3, <1>4, <2>1, <2>2, <2>3, <2>4 DEF TypeOK, At
<1> QED BY <1>3, <1>6, <1>7, <1>8 DEF Written

LEMMA ResetKeeps ==
  ASSUME WInv, AuditParametersOK, NEW s \in Session, Reset(s)
  PROVE  WInv'
<1> USE DEF WInv
<1> DEFINE carried == [Idle EXCEPT !.at = "lock", !.queue = applied']
           t == IF applied' = {} THEN Idle ELSE carried
<1>1. /\ chain' = {} /\ applied' \subseteq applied /\ writer = None /\ writer' = None
      /\ mutex' = mutex /\ begins' = begins /\ tampers' = tampers /\ resets' = resets + 1
  BY DEF Reset
<1>2. /\ carried.at = "lock" /\ carried.queue = applied' /\ carried.dirty = {}
      /\ carried.staged = {} /\ carried.tries = 0 /\ carried.head = Before
  BY DEF Idle
<1>3. Shape(Idle) /\ Shape(carried)
  <2>1. Shape(Idle)
    BY DEF Shape, Idle
  <2>2. carried = [[Idle EXCEPT !.at = "lock"] EXCEPT !.queue = applied']
    OBVIOUS
  <2> QED BY <2>1, <2>2, FieldKeepsShape
<1>4. tx' = [tx EXCEPT ![s] = t]
  BY DEF Reset
<1>5. /\ t.dirty = {} /\ t.staged = {} /\ t.at \in {"idle", "lock"} /\ t.tries = 0
      /\ t.queue \subseteq applied /\ t.head = Before /\ (t.at = "idle" => t = Idle)
  <2>1. /\ Idle.at = "idle" /\ Idle.queue = {} /\ Idle.dirty = {} /\ Idle.staged = {}
        /\ Idle.tries = 0 /\ Idle.head = Before
    BY DEF Idle
  <2> HIDE DEF carried
  <2> QED BY <1>1, <1>2, <2>1
<1>6. Shape(t)
  BY <1>3
<1> HIDE DEF t
<1>7. Shapes' /\ tx'[s] = t /\ \A q \in Session \ {s} : tx'[q] = tx[q]
  BY <1>4, <1>6, TxUpdate
<1>8. \A q \in Session : tx'[q].staged = {} /\ tx'[q].at # "open"
  <2>1. \A q \in Session \ {s} : tx[q].staged = {} /\ tx[q].at # "open"
    BY <1>1 DEF TypeOK, Written, Staging, At, AuditParametersOK
  <2> QED BY <1>5, <1>7, <2>1
<1>9. \A q \in Session : Staging(q)'
  <2> SUFFICES ASSUME NEW q \in Session PROVE Staging(q)'
    OBVIOUS
  <2>1. Visible(q)' = {}
    BY <1>1, <1>8 DEF Visible
  <2>2. tx[q].staged = {} \/ q = s
    BY <1>7, <1>8
  <2>3. /\ tx'[q].dirty \subseteq tx'[q].queue \cup Payloads(tx'[q].staged)
        /\ tx'[q].head.index \in Int /\ tx'[q].head.index >= -1
    <3>1. CASE q = s
      BY <1>5, <1>7, <3>1 DEF Before
    <3>2. CASE q # s
      <4>1. Staging(q)
        BY DEF Written
      <4> QED BY <1>7, <2>2, <3>2, <4>1 DEF Staging, Payloads
    <3> QED BY <3>1, <3>2
  <2>4. OneBlockPerIndex({}) /\ HasTop({})
    BY DEF OneBlockPerIndex, HasTop
  <2> QED BY <1>8, <2>1, <2>3, <2>4 DEF Staging, At
<1>10. TypeOK'
  <2>1. \A q \in Session \ {s} :
          /\ tx'[q].at \in Steps /\ tx'[q].tries \in 0 .. Retries - 1
          /\ tx'[q].queue \subseteq Change /\ tx'[q].dirty \subseteq Change
          /\ tx'[q].at = "idle" => tx'[q] = Idle
    BY <1>7 DEF TypeOK, At
  <2>2. /\ t.at \in Steps /\ t.tries \in 0 .. Retries - 1 /\ t.queue \subseteq Change
        /\ t.dirty \subseteq Change
    BY <1>5 DEF Steps, TypeOK, AuditParametersOK
  <2>3. \A q \in Session : None # q
    BY DEF AuditParametersOK
  <2> QED BY <1>1, <1>5, <1>7, <1>8, <2>1, <2>2, <2>3 DEF TypeOK, At
<1>11. OneBlockPerIndex(chain') /\ HasTop(chain')
  BY <1>1 DEF OneBlockPerIndex, HasTop
<1> QED BY <1>1, <1>7, <1>9, <1>10, <1>11 DEF Written

LEMMA TamperKeeps ==
  ASSUME WInv, AuditParametersOK, NEW b \in chain, Tamper(b)
  PROVE  WInv'
<1> USE DEF WInv
<1>1. PICK bad \in {[b EXCEPT !.payload = "tampered"], [b EXCEPT !.hash = FORGED],
                    [b EXCEPT !.at = @ - 1]} : chain' = (chain \ {b}) \cup {bad}
  BY DEF Tamper
<1>2. /\ bad.index = b.index /\ bad.payload \in {b.payload, "tampered"}
      /\ \A d \in chain' : BlockShape(d)
  <2>1. BlockShape(b)
    BY DEF Written
  <2>2. /\ bad.index = b.index /\ bad.payload \in {b.payload, "tampered"} /\ BlockShape(bad)
    BY <1>1, <2>1 DEF BlockShape
  <2> QED BY <1>1, <2>2 DEF Written
<1>3. /\ applied' = applied /\ writer' = writer /\ writer = None /\ mutex' = mutex
      /\ tx' = tx /\ begins' = begins /\ tampers' = tampers + 1 /\ resets' = resets
  BY DEF Tamper
<1>4. OneBlockPerIndex(chain')
  BY <1>1, <1>2 DEF OneBlockPerIndex, Written
<1>5. HasTop(chain')
  <2>1. PICK top \in chain : \A d \in chain : d.index <= top.index
    BY DEF HasTop, Written
  <2>2. \A d \in chain' : d.index <= top.index
    BY <1>1, <1>2, <2>1
  <2>3. \E other \in chain' : other.index = top.index
    BY <1>1, <1>2, <2>1
  <2> QED BY <2>2, <2>3 DEF HasTop
<1>6. \A q \in Session : Staging(q)'
  <2> SUFFICES ASSUME NEW q \in Session PROVE Staging(q)'
    OBVIOUS
  <2>1. tx[q].staged = {} /\ tx[q].at # "open" /\ Staging(q)
    BY <1>3 DEF TypeOK, Written, Staging, At, AuditParametersOK
  <2>2. Visible(q)' = chain'
    BY <1>3, <2>1 DEF Visible
  <2> QED BY <1>3, <1>4, <1>5, <2>1, <2>2 DEF Staging, At
<1>7. TypeOK'
  <2>1. \A d \in chain' : d.index \in Nat /\ d.payload \in Payload
    BY <1>1, <1>2 DEF TypeOK, Payload
  <2> QED BY <1>3, <2>1 DEF TypeOK, At
<1> QED BY <1>2, <1>3, <1>4, <1>5, <1>6, <1>7 DEF Written, Shapes

-----------------------------------------------------------------------------
(* What verify_blocks computes over a sound chain.                         *)

\* With no gap below it, a block's place in the chain is its index.
LEMMA PositionIsIndex ==
  ASSUME Dense(chain), OneBlockPerIndex(chain), NEW b \in chain,
         \A d \in chain : d.index \in Nat
  PROVE  Position(b) = b.index
<1> DEFINE S == 0 .. b.index - 1
           f == [i \in S |-> CHOOSE d \in chain : d.index = i]
<1>1. \A i \in S : f[i] \in Earlier(b) /\ f[i].index = i
  <2>1. \A i \in S : \E d \in chain : d.index = i
    BY DEF Dense, Taken
  <2> QED BY <2>1 DEF Earlier
<1>2. \A d \in Earlier(b) : d.index \in S /\ f[d.index] = d
  <2>1. \A d \in Earlier(b) : d.index \in S /\ d \in chain
    BY DEF Earlier
  <2>2. \A d \in Earlier(b) : f[d.index] \in chain /\ f[d.index].index = d.index
    BY <1>1, <2>1 DEF Earlier
  <2> QED BY <2>1, <2>2 DEF OneBlockPerIndex
<1>3. f \in Bijection(S, Earlier(b))
  <2>1. f \in [S -> Earlier(b)]
    BY <1>1
  <2>2. \A i, j \in S : f[i] = f[j] => i = j
    BY <1>1
  <2>3. \A d \in Earlier(b) : \E i \in S : f[i] = d
    BY <1>2
  <2> HIDE DEF f
  <2> QED BY <2>1, <2>2, <2>3, Fun_IsBij
<1>4. IsFiniteSet(S) /\ Cardinality(S) = b.index
  <2>1. /\ IsFiniteSet(0 .. b.index - 1)
        /\ Cardinality(0 .. b.index - 1)
             = IF 0 > b.index - 1 THEN 0 ELSE (b.index - 1) - 0 + 1
    <3>1. 0 \in Int /\ b.index - 1 \in Int
      OBVIOUS
    <3> QED BY <3>1, FS_Interval, Zenon
  <2>2. b.index = IF 0 > b.index - 1 THEN 0 ELSE (b.index - 1) - 0 + 1
    OBVIOUS
  <2> QED BY <2>1, <2>2
<1>5. ExistsBijection(S, Earlier(b))
  BY <1>3 DEF ExistsBijection
<1> HIDE DEF S
<1> QED BY <1>4, <1>5, FS_Bijection DEF Position

\* The hash a block is compared with is its predecessor's.
LEMMA TopBelow ==
  ASSUME Dense(chain), OneBlockPerIndex(chain), NEW b \in chain,
         \A d \in chain : d.index \in Nat
  PROVE  /\ b.index = 0 => Top(Earlier(b)) = Before
         /\ \A d \in chain : d.index = b.index - 1 => Top(Earlier(b)) = d
<1>1. b.index = 0 => Earlier(b) = {}
  BY DEF Earlier
<1>2. ASSUME NEW d \in chain, d.index = b.index - 1
      PROVE  Top(Earlier(b)) = d
  <2>1. d \in Earlier(b) /\ \A e \in Earlier(b) : e.index <= d.index /\ e \in chain
    BY <1>2 DEF Earlier
  <2>2. HasTop(Earlier(b)) /\ Earlier(b) # {}
    BY <2>1 DEF HasTop
  <2>3. Top(Earlier(b)) \in Earlier(b) /\ d.index <= Top(Earlier(b)).index
    BY <2>1, <2>2, TopIsABlock
  <2>4. Top(Earlier(b)).index = d.index /\ Top(Earlier(b)) \in chain
    BY <2>1, <2>3
  <2> QED BY <2>4 DEF OneBlockPerIndex
<1> QED BY <1>1, <1>2 DEF Top

\* Every corrupted block fails its own check.
LEMMA CorruptedIsBroken ==
  ASSUME Sound(chain, tampered), "tampered" \notin Change,
         NEW b \in chain, b.index \in tampered
  PROVE  Broken(b)
<1>1. Sealed(b, tampered)
  BY DEF Sound
<1>2. CASE b.payload = "tampered"
  BY <1>1, <1>2 DEF Sealed, Broken
<1>3. CASE b.at < 0 /\ b.hash # FORGED
  BY <1>1, <1>3 DEF Sealed, Broken, Hash
<1>4. CASE b.hash = FORGED
  BY <1>4 DEF Broken, Hash, FORGED
<1> QED BY <1>1, <1>2, <1>3, <1>4 DEF Sealed

\* A block fails its check only if it or its predecessor was corrupted.
LEMMA BrokenIsNextToCorrupted ==
  ASSUME Sound(chain, tampered), OneBlockPerIndex(chain), NEW b \in chain,
         b.index \notin tampered, b.index - 1 \notin tampered
  PROVE  ~Broken(b)
<1>1. Sealed(b, tampered) /\ Linked(b, chain, tampered) /\ Dense(chain)
  BY DEF Sound
<1>2. \A d \in chain : d.index \in Nat
  BY DEF Sound, Sealed
<1>3. b.index = Position(b)
  BY <1>1, <1>2, PositionIsIndex
<1>4. /\ b.digest = b.payload /\ b.at = 0
      /\ b.hash = Hash(b.prev, b.payload, b.index, b.at)
  BY <1>1 DEF Sealed
<1>5. b.prev = Top(Earlier(b)).hash
  <2>1. CASE b.index = 0
    BY <1>1, <1>2, <2>1, TopBelow DEF Linked, Before
  <2>2. CASE b.index # 0
    <3>1. b.index - 1 \in 0 .. b.index
      BY <1>2, <2>2
    <3>2. PICK d \in chain : d.index = b.index - 1
      BY <1>1, <3>1 DEF Dense, Taken
    <3>3. b.prev = d.hash
      BY <1>1, <3>2 DEF Linked
    <3> QED BY <1>1, <1>2, <3>2, <3>3, TopBelow
  <2> QED BY <2>1, <2>2
<1> QED BY <1>3, <1>4, <1>5 DEF Broken

\* Over a sound chain verify_blocks is exact.
LEMMA SoundIsVerified ==
  ASSUME Sound(chain, tampered), OneBlockPerIndex(chain), "tampered" \notin Change,
         \A i \in tampered : Taken(chain, i)
  PROVE  /\ Valid <=> tampered = {}
         /\ ~Valid => /\ FirstDivergence \in tampered
                      /\ \A i \in tampered : FirstDivergence <= i
<1> DEFINE broken == {b \in chain : Broken(b)}
           places == {Position(b) : b \in broken}
<1>1. \A b \in chain : Position(b) = b.index /\ b.index \in Nat
  BY PositionIsIndex DEF Sound, Sealed
<1>2. \A i \in tampered : i \in places
  <2> SUFFICES ASSUME NEW i \in tampered PROVE i \in places
    OBVIOUS
  <2>1. PICK b \in chain : b.index = i
    BY DEF Taken
  <2>2. Broken(b)
    BY <2>1, CorruptedIsBroken
  <2> QED BY <1>1, <2>1, <2>2
<1>3. \A b \in broken : b.index \in tampered \/ b.index - 1 \in tampered
  BY BrokenIsNextToCorrupted
<1>4. Valid <=> broken = {}
  BY DEF Valid
<1>5. broken = {} <=> tampered = {}
  BY <1>2, <1>3
<1>6. ASSUME ~Valid
      PROVE  FirstDivergence \in tampered /\ \A i \in tampered : FirstDivergence <= i
  <2>1. places \subseteq Nat /\ places # {}
    BY <1>1, <1>4, <1>6
  <2>2. \E n \in places : \A m \in places : n <= m
    <3> HIDE DEF places
    <3>1. PICK n \in places : \A m \in places : <<m, n>> \notin OpToRel(<, Nat)
      BY <2>1, NatLessThanWellFounded, WFMin
    <3>2. \A m \in places : ~(m < n)
      BY <2>1, <3>1 DEF OpToRel
    <3> QED BY <2>1, <3>2
  <2>3. FirstDivergence \in places /\ \A m \in places : FirstDivergence <= m
    <3>1. \E n \in places : \A b \in broken : n <= Position(b)
      BY <2>2
    <3>2. FirstDivergence = CHOOSE n \in places : \A b \in broken : n <= Position(b)
      BY DEF FirstDivergence
    <3> QED BY <3>1, <3>2
  <2>4. PICK b \in broken : FirstDivergence = b.index
    BY <1>1, <2>3
  <2>5. b.index \in Nat
    BY <1>1
  <2>6. b.index - 1 \notin tampered
    <3> SUFFICES ASSUME b.index - 1 \in tampered PROVE FALSE
      OBVIOUS
    <3>1. b.index <= b.index - 1
      BY <1>2, <2>3, <2>4
    <3> QED BY <2>5, <3>1
  <2>7. b.index \in tampered
    BY <1>3, <2>6
  <2> QED BY <1>2, <2>3, <2>4, <2>7
<1> HIDE DEF broken
<1> QED BY <1>4, <1>5, <1>6

-----------------------------------------------------------------------------
(* What the sessions do to a sound chain.                                  *)

\* A block on top of the head that was read fits, if its index is free.
LEMMA NewBlockFits ==
  ASSUME AuditParametersOK, NEW blocks, NEW marked, Sound(blocks, marked),
         OneBlockPerIndex(blocks), NEW c \in Change,
         NEW head, head.index \in Int, head.index >= -1, HeadFits(head, blocks, marked),
         ~Taken(blocks, head.index + 1), head.index + 1 \notin marked
  PROVE  Sound(blocks \cup {NewBlock(head, c)}, marked)
<1> DEFINE b == NewBlock(head, c)
<1>1. /\ b.index = head.index + 1 /\ b.prev = head.hash /\ b.payload = c /\ b.digest = c
      /\ b.at = 0 /\ b.hash = Hash(head.hash, c, head.index + 1, 0)
  BY DEF NewBlock
<1> HIDE DEF b
<1>2. \A d \in blocks : d.index \in Nat /\ d.index < head.index + 1
  <2> SUFFICES ASSUME NEW d \in blocks, ~(d.index < head.index + 1) PROVE FALSE
    BY DEF Sound, Sealed
  <2>1. d.index \in Nat /\ head.index + 1 \in 0 .. d.index
    BY DEF Sound, Sealed
  <2> QED BY <2>1 DEF Sound, Dense
<1>3. head.index = -1 => blocks = {}
  BY <1>2
<1>4. Dense(blocks \cup {b})
  <2>1. ASSUME NEW i \in 0 .. b.index PROVE Taken(blocks \cup {b}, i)
    <3>1. CASE i = b.index
      BY <3>1 DEF Taken
    <3>2. CASE i # b.index
      <4>1. head # Before
        BY <1>1, <3>2 DEF Before
      <4>2. PICK d \in blocks : d.index = head.index
        BY <4>1 DEF HeadFits
      <4>3. i \in 0 .. d.index
        BY <1>1, <3>2, <4>2
      <4> QED BY <4>2, <4>3 DEF Sound, Dense, Taken
    <3> QED BY <3>1, <3>2
  <2> QED BY <2>1 DEF Sound, Dense, Taken
<1>5. Sealed(b, marked)
  <2>1. FORGED # Hash(head.hash, c, head.index + 1, 0)
    BY DEF FORGED, Hash
  <2>2. c # "tampered" /\ b.index \notin marked /\ b.index \in Nat
    BY <1>1 DEF AuditParametersOK
  <2> HIDE DEF b
  <2> QED BY <1>1, <2>1, <2>2 DEF Sealed
<1>6. Linked(b, blocks \cup {b}, marked)
  <2>1. b.index = 0 => b.prev = GENESIS
    <3> SUFFICES ASSUME b.index = 0 PROVE b.prev = GENESIS
      OBVIOUS
    <3>1. head = Before
      BY <1>1, <1>3 DEF HeadFits
    <3> QED BY <1>1, <3>1 DEF Before
  <2>2. ASSUME NEW d \in blocks \cup {b}, d.index = b.index - 1, d.index \notin marked
        PROVE  b.prev = d.hash
    <3>1. d \in blocks /\ d.index = head.index
      BY <1>1, <2>2
    <3>2. head # Before
      BY <1>2, <3>1 DEF Before
    <3>3. d.hash = head.hash
      BY <2>2, <3>1, <3>2 DEF HeadFits, OneBlockPerIndex
    <3> QED BY <1>1, <3>3
  <2> QED BY <2>1, <2>2 DEF Linked
<1>7. ASSUME NEW d \in blocks PROVE Sealed(d, marked) /\ Linked(d, blocks \cup {b}, marked)
  <2>1. d.index - 1 # b.index
    BY <1>1, <1>2
  <2> QED BY <2>1 DEF Sound, Linked
<1> QED BY <1>4, <1>5, <1>6, <1>7 DEF Sound, b

\* The tamper endpoint leaves the chain sound, with one more index marked.
LEMMA TamperedIsSound ==
  ASSUME NEW blocks, NEW marked, Sound(blocks, marked), OneBlockPerIndex(blocks),
         NEW b \in blocks, BlockShape(b),
         NEW bad \in {[b EXCEPT !.payload = "tampered"], [b EXCEPT !.hash = FORGED],
                      [b EXCEPT !.at = @ - 1]}
  PROVE  /\ bad.index = b.index
         /\ Sound((blocks \ {b}) \cup {bad}, marked \cup {b.index})
<1>1. /\ bad.index = b.index /\ bad.digest = b.digest /\ bad.prev = b.prev
      /\ \/ bad.payload = "tampered" /\ bad.hash = b.hash /\ bad.at = b.at
         \/ bad.payload = b.payload /\ bad.hash = FORGED /\ bad.at = b.at
         \/ bad.payload = b.payload /\ bad.hash = b.hash /\ bad.at = b.at - 1
  BY DEF BlockShape
<1>2. Sealed(b, marked) /\ Dense(blocks)
  BY DEF Sound
<1> DEFINE after == (blocks \ {b}) \cup {bad}
           more  == marked \cup {b.index}
<1>3. Sealed(bad, more)
  BY <1>1, <1>2 DEF Sealed
<1>4. \A d \in blocks \ {b} : d.index # b.index
  BY DEF OneBlockPerIndex
<1>5. \A d \in after : Sealed(d, more)
  BY <1>3, <1>4 DEF Sound, Sealed
<1>6. \A d \in after : Linked(d, after, more)
  BY <1>1, <1>4 DEF Sound, Linked
<1>7. Dense(after)
  <2>1. \A i : Taken(blocks, i) => Taken(after, i)
    BY <1>1 DEF Taken
  <2>2. \A d \in after : \E e \in blocks : e.index = d.index
    BY <1>1
  <2> HIDE DEF after
  <2> QED BY <1>2, <2>1, <2>2 DEF Dense
<1> QED BY <1>1, <1>5, <1>6, <1>7 DEF Sound

\* Steps that write nothing to a table, and in which no session comes to hold a
\* head it did not read, leave everything as it was.
LEMMA ChainedStays ==
  ASSUME WInv, Chained, chain' = chain, tampered' = tampered, resets' = resets,
         \A q \in Session :
           \/ tx'[q] = tx[q]
           \/ tx'[q].staged \in {{}, tx[q].staged} /\ tx'[q].at # "flush"
  PROVE  Chained'
<1> SUFFICES ASSUME resets = 0 PROVE Chained'
  BY DEF Chained
<1>1. /\ Sound(chain', tampered') /\ \A i \in tampered' : Taken(chain', i)
  BY DEF Chained
<1>2. ASSUME NEW q \in Session
      PROVE  /\ Sound(Visible(q)', tampered')
             /\ At(q, "flush")' => HeadFits(tx'[q].head, Visible(q)', tampered')
  <2>1. /\ Sound(Visible(q), tampered) /\ Sound(chain, tampered)
        /\ At(q, "flush") => HeadFits(tx[q].head, Visible(q), tampered)
    BY DEF Chained
  <2>2. CASE tx'[q] = tx[q]
    <3>1. Visible(q)' = Visible(q) /\ At(q, "flush")' = At(q, "flush")
      BY <2>2 DEF Visible, At
    <3> QED BY <2>1, <2>2, <3>1
  <2>3. CASE tx'[q].staged \in {{}, tx[q].staged} /\ tx'[q].at # "flush"
    <3>1. Visible(q)' \in {chain, Visible(q)} /\ ~At(q, "flush")'
      BY <2>3 DEF Visible, At
    <3> QED BY <2>1, <3>1
  <2> QED BY <2>2, <2>3
<1> QED BY <1>1, <1>2 DEF Chained

LEMMA LeaveChains ==
  ASSUME WInv, Chained, NEW s \in Session, Leave(s),
         chain' = chain, tampered' = tampered, resets' = resets
  PROVE  Chained'
<1>1. Idle.at = "idle" /\ Idle.staged = {}
  BY DEF Idle
<1>2. tx'[s] = Idle /\ \A q \in Session \ {s} : tx'[q] = tx[q]
  BY DEF Leave, WInv, Shapes
<1> QED BY <1>1, <1>2, ChainedStays

LEMMA BeginChains ==
  ASSUME WInv, Chained, NEW s \in Session, NEW changes \in SUBSET Change, Begin(s, changes)
  PROVE  Chained'
<1> DEFINE t == [Idle EXCEPT !.at = "lock", !.queue = changes, !.dirty = changes]
<1>1. t.at = "lock" /\ t.staged = {}
  BY DEF Idle
<1> HIDE DEF t
<1>2. tx'[s] = t /\ \A q \in Session \ {s} : tx'[q] = tx[q]
  BY DEF Begin, WInv, Shapes, t
<1> QED BY <1>1, <1>2, ChainedStays DEF Begin

LEMMA AcquireLockChains ==
  ASSUME WInv, Chained, NEW s \in Session, AcquireLock(s)
  PROVE  Chained'
<1>1. tx'[s] = [tx[s] EXCEPT !.at = "head"] /\ \A q \in Session \ {s} : tx'[q] = tx[q]
  BY DEF AcquireLock, WInv, Shapes
<1>2. tx'[s].at = "head" /\ tx'[s].staged = tx[s].staged
  BY <1>1 DEF WInv, Shapes, Shape
<1> QED BY <1>1, <1>2, ChainedStays DEF AcquireLock, counters

LEMMA ConflictChains ==
  ASSUME WInv, Chained, NEW s \in Session, Conflict(s)
  PROVE  Chained'
<1>1. chain' = chain /\ tampered' = tampered /\ resets' = resets
  BY DEF Conflict, counters
<1>2. CASE tx[s].tries + 1 = Retries
  BY <1>1, <1>2, LeaveChains DEF Conflict
<1>3. CASE tx[s].tries + 1 # Retries
  <2>1. /\ tx'[s] = [tx[s] EXCEPT !.at = "head", !.dirty = {}, !.staged = {}, !.tries = @ + 1]
        /\ \A q \in Session \ {s} : tx'[q] = tx[q]
    BY <1>3 DEF Conflict, WInv, Shapes
  <2>2. tx'[s].at = "head" /\ tx'[s].staged = {}
    BY <2>1 DEF WInv, Shapes, Shape
  <2> QED BY <1>1, <2>1, <2>2, ChainedStays
<1> QED BY <1>2, <1>3

LEMMA AppendNextChains ==
  ASSUME WInv, Chained, NEW s \in Session, AppendNext(s)
  PROVE  Chained'
<1>1. chain' = chain /\ tampered' = tampered /\ resets' = resets
  BY DEF AppendNext, counters
<1>2. CASE tx[s].tries # 0
  BY <1>1, <1>2, LeaveChains DEF AppendNext
<1>3. CASE tx[s].tries = 0
  <2>1. /\ tx'[s] = [tx[s] EXCEPT !.at = "lock"]
        /\ \A q \in Session \ {s} : tx'[q] = tx[q]
    BY <1>3 DEF AppendNext, WInv, Shapes
  <2>2. tx'[s].at = "lock" /\ tx'[s].staged = tx[s].staged
    BY <2>1 DEF WInv, Shapes, Shape
  <2> QED BY <1>1, <2>1, <2>2, ChainedStays
<1> QED BY <1>2, <1>3

\* The head that is read is the last block of what the session sees.
LEMMA ReadHeadChains ==
  ASSUME WInv, Chained, NEW s \in Session, ReadHead(s)
  PROVE  Chained'
<1> SUFFICES ASSUME resets = 0, resets' = 0 PROVE Chained'
  BY DEF Chained, ReadHead, counters
<1>1. /\ tx'[s] = [tx[s] EXCEPT !.at = "flush", !.head = Top(Visible(s))]
      /\ \A q \in Session \ {s} : tx'[q] = tx[q]
  BY DEF ReadHead, WInv, Shapes
<1>2. tx'[s].head = Top(Visible(s)) /\ tx'[s].staged = tx[s].staged
  BY <1>1 DEF WInv, Shapes, Shape
<1>3. chain' = chain /\ tampered' = tampered
  BY DEF ReadHead
<1>4. \A q \in Session : Visible(q)' = Visible(q)
  BY <1>1, <1>2, <1>3 DEF Visible
<1>5. HeadFits(Top(Visible(s)), Visible(s), tampered)
  <2>1. CASE Visible(s) = {}
    BY <2>1 DEF HeadFits, Top
  <2>2. CASE Visible(s) # {}
    <3>1. Top(Visible(s)) \in Visible(s)
      BY <2>2, TopIsABlock DEF WInv, Written, Staging
    <3> QED BY <3>1 DEF HeadFits
  <2> QED BY <2>1, <2>2
<1>6. ASSUME NEW q \in Session
      PROVE  /\ Sound(Visible(q)', tampered')
             /\ At(q, "flush")' => HeadFits(tx'[q].head, Visible(q)', tampered')
  <2>1. CASE q = s
    BY <1>2, <1>3, <1>4, <1>5, <2>1 DEF Chained
  <2>2. CASE q # s
    <3>1. tx'[q] = tx[q]
      BY <1>1, <2>2
    <3>2. At(q, "flush")' = At(q, "flush")
      BY <3>1 DEF At
    <3> QED BY <1>3, <1>4, <3>1, <3>2 DEF Chained
  <2> QED BY <2>1, <2>2
<1> QED BY <1>3, <1>6 DEF Chained

\* The block goes on top of the head that was read, which no other session can
\* have built on: it holds the write lock, and the index was free.
LEMMA FlushChains ==
  ASSUME WInv, AuditParametersOK, Chained, NEW s \in Session, NEW c \in Change, Flush(s, c)
  PROVE  Chained'
<1> SUFFICES ASSUME resets = 0, resets' = 0 PROVE Chained'
  BY DEF Chained, Flush, counters
<1> DEFINE b == NewBlock(tx[s].head, c)
<1>1. /\ tx'[s] = [tx[s] EXCEPT !.at = "open", !.queue = @ \ {c}, !.staged = @ \cup {b}]
      /\ \A q \in Session \ {s} : tx'[q] = tx[q]
  BY DEF Flush, WInv, Shapes
<1> HIDE DEF b
<1>2. tx'[s].at = "open" /\ tx'[s].staged = tx[s].staged \cup {b}
  BY <1>1 DEF WInv, Shapes, Shape
<1>3. chain' = chain /\ tampered' = tampered
  BY DEF Flush
<1>4. Visible(s)' = Visible(s) \cup {b}
  BY <1>2, <1>3 DEF Visible
<1>5. Sound(Visible(s) \cup {b}, tampered)
  <2>1. /\ ~Taken(Visible(s), tx[s].head.index + 1)
        /\ Sound(Visible(s), tampered) /\ HeadFits(tx[s].head, Visible(s), tampered)
    BY DEF Flush, Chained
  <2>2. /\ tx[s].head.index \in Int /\ tx[s].head.index >= -1
        /\ OneBlockPerIndex(Visible(s))
    BY DEF WInv, Written, Staging
  <2>3. tx[s].head.index + 1 \notin tampered
    BY <2>1 DEF Chained, Taken, Visible
  <2> QED BY <2>1, <2>2, <2>3, NewBlockFits DEF b
<1>6. ASSUME NEW q \in Session
      PROVE  /\ Sound(Visible(q)', tampered')
             /\ At(q, "flush")' => HeadFits(tx'[q].head, Visible(q)', tampered')
  <2>1. CASE q = s
    BY <1>2, <1>3, <1>4, <1>5, <2>1 DEF At
  <2>2. CASE q # s
    <3>1. tx'[q] = tx[q]
      BY <1>1, <2>2
    <3>2. At(q, "flush")' = At(q, "flush") /\ Visible(q)' = Visible(q)
      BY <1>3, <3>1 DEF At, Visible
    <3> QED BY <1>3, <3>1, <3>2 DEF Chained
  <2> QED BY <2>1, <2>2
<1> QED BY <1>3, <1>6 DEF Chained

\* The session that commits is the only one with blocks of its own.
LEMMA CommitChains ==
  ASSUME WInv, AuditParametersOK, Chained, NEW s \in Session, Commit(s)
  PROVE  Chained'
<1> SUFFICES ASSUME resets = 0, resets' = 0 PROVE Chained'
  BY DEF Chained, Commit, counters
<1>1. Idle.at = "idle" /\ Idle.staged = {}
  BY DEF Idle
<1>2. tx'[s] = Idle /\ \A q \in Session \ {s} : tx'[q] = tx[q]
  BY DEF Commit, Leave, WInv, Shapes
<1>3. chain' = Visible(s) /\ tampered' = tampered
  BY DEF Commit, Visible
<1>4. \A q \in Session \ {s} : tx[q].staged = {}
  <2>1. writer = s
    BY DEF Commit, WInv, Written, Staging
  <2> QED BY <2>1 DEF WInv, TypeOK
<1>5. \A q \in Session : Visible(q)' = chain'
  BY <1>1, <1>2, <1>4 DEF Visible
<1>6. Sound(chain', tampered')
  BY <1>3 DEF Chained
<1>7. \A i \in tampered' : Taken(chain', i)
  BY <1>3 DEF Chained, Taken, Visible
<1>8. ASSUME NEW q \in Session, At(q, "flush")'
      PROVE  HeadFits(tx'[q].head, Visible(q)', tampered')
  <2>1. q # s /\ tx'[q] = tx[q]
    BY <1>1, <1>2, <1>8 DEF At
  <2>2. HeadFits(tx[q].head, Visible(q), tampered)
    BY <1>8, <2>1 DEF At, Chained
  <2>3. Visible(q) \subseteq Visible(q)'
    BY <1>3, <1>4, <1>5, <2>1 DEF Visible
  <2> QED BY <1>3, <2>1, <2>2, <2>3 DEF HeadFits
<1> QED BY <1>5, <1>6, <1>7, <1>8 DEF Chained

\* The tamper endpoint needs the write lock: no block is waiting for a commit.
LEMMA TamperChains ==
  ASSUME WInv, AuditParametersOK, Chained, NEW b \in chain, Tamper(b)
  PROVE  Chained'
<1> SUFFICES ASSUME resets = 0, resets' = 0 PROVE Chained'
  BY DEF Chained, Tamper
<1>1. PICK bad \in {[b EXCEPT !.payload = "tampered"], [b EXCEPT !.hash = FORGED],
                    [b EXCEPT !.at = @ - 1]} : chain' = (chain \ {b}) \cup {bad}
  BY DEF Tamper
<1>2. tampered' = tampered \cup {b.index} /\ tx' = tx /\ writer = None
  BY DEF Tamper
<1>3. bad.index = b.index /\ Sound(chain', tampered')
  <2>1. Sound(chain, tampered) /\ OneBlockPerIndex(chain) /\ BlockShape(b)
    BY DEF Chained, WInv, Written
  <2> QED BY <1>1, <1>2, <2>1, TamperedIsSound
<1>4. \A i \in tampered' : Taken(chain', i)
  BY <1>1, <1>2, <1>3 DEF Chained, Taken
<1>5. ASSUME NEW q \in Session
      PROVE  Visible(q) = chain /\ Visible(q)' = chain'
  <2>1. tx[q].staged = {}
    BY <1>2 DEF WInv, TypeOK, AuditParametersOK
  <2> QED BY <1>2, <2>1 DEF Visible
<1>6. ASSUME NEW q \in Session, At(q, "flush")'
      PROVE  HeadFits(tx'[q].head, chain', tampered')
  <2>1. HeadFits(tx[q].head, chain, tampered)
    BY <1>2, <1>5, <1>6 DEF Chained, At
  <2> QED BY <1>1, <1>2, <1>3, <2>1 DEF HeadFits
<1> QED BY <1>3, <1>4, <1>5, <1>6 DEF Chained

-----------------------------------------------------------------------------
(* The invariant and the theorems.                                         *)

LEMMA InitWInv == ASSUME AuditParametersOK, Init PROVE WInv
<1>1. Shape(Idle)
  BY DEF Shape, Idle
<1>2. /\ Idle.at = "idle" /\ Idle.queue = {} /\ Idle.dirty = {} /\ Idle.staged = {}
      /\ Idle.tries = 0 /\ Idle.head.index = -1
  BY DEF Idle, Before
<1>3. \A s \in Session : tx[s] = Idle
  BY DEF Init
<1>4. Shapes
  BY <1>1, <1>3 DEF Init, Shapes
<1>5. TypeOK
  BY <1>2, <1>3 DEF Init, TypeOK, At, Steps, AuditParametersOK
<1>6. \A s \in Session : Visible(s) = {}
  BY <1>2, <1>3 DEF Init, Visible
<1>7. OneBlockPerIndex({}) /\ HasTop({})
  BY DEF OneBlockPerIndex, HasTop
<1>8. Written
  BY <1>2, <1>3, <1>6, <1>7 DEF Init, Written, Staging, At
<1> QED BY <1>4, <1>5, <1>8 DEF WInv

LEMMA NextKeepsWInv == ASSUME AuditParametersOK, WInv, [Next]_vars PROVE WInv'
<1>1. CASE UNCHANGED vars
  <2>1. \A s \in Session : Staging(s)' = Staging(s)
    BY <1>1 DEF Staging, Visible, At, vars
  <2> QED BY <1>1, <2>1 DEF WInv, TypeOK, Shapes, Written, vars, counters, At
<1>2. CASE Next
  <2>1. ASSUME NEW s \in Session, BusyTimeout(s) PROVE WInv'
    BY <2>1, LeaveKeeps DEF BusyTimeout, counters
  <2>2. ASSUME NEW s \in Session, Crash(s) PROVE WInv'
    BY <2>2, LeaveKeeps DEF Crash, counters
  <2>3. ASSUME NEW s \in Session, Progress(s) PROVE WInv'
    BY <2>1, <2>3, ReadHeadKeeps, ConflictKeeps, AppendNextKeeps, CommitKeeps, FlushKeeps
       DEF Progress
  <2> QED
    BY <1>2, <2>2, <2>3, AcquireLockKeeps, ResetKeeps, BeginKeeps, TamperKeeps DEF Next
<1> QED BY <1>1, <1>2

LEMMA WInvInvariant == Spec => []WInv
<1>1. Init => WInv
  BY InitWInv, AuditParametersOK
<1>2. WInv /\ [Next]_vars => WInv'
  BY NextKeepsWInv, AuditParametersOK
<1> QED BY <1>1, <1>2, PTL DEF Spec

\* The types of all variables, and at most one session, the one that holds
\* SQLite's write lock, has blocks written and not committed.
THEOREM TypeCorrect == Spec => []TypeOK
<1>1. WInv => TypeOK
  BY DEF WInv
<1> QED BY <1>1, WInvInvariant, PTL

\* Whatever sessions do, whichever step fails and however often it is retried,
\* a change becomes visible together with the block that records it.
THEOREM NoChangeWithoutItsBlock == Spec => ChangeBringsItsBlock
<1>1. WInv /\ [Next]_vars => [applied' \ applied \subseteq Payloads(chain' \ chain)]_vars
  <2> SUFFICES ASSUME WInv, Next
               PROVE  applied' \ applied \subseteq Payloads(chain' \ chain)
    OBVIOUS
  <2>1. CASE \E s \in Session : Commit(s)
    <3>1. PICK s \in Session : Commit(s)
      BY <2>1
    <3>2. /\ chain' = chain \cup tx[s].staged /\ applied' = applied \cup tx[s].dirty
          /\ tx[s].queue = {} /\ Staging(s)
      BY <3>1 DEF Commit, WInv, Written
    <3>3. tx[s].dirty \subseteq Payloads(tx[s].staged) /\ tx[s].staged \cap chain = {}
      BY <3>2 DEF Staging
    <3> QED BY <3>2, <3>3 DEF Payloads
  <2>2. CASE ~ \E s \in Session : Commit(s)
    <3>1. ASSUME NEW s \in Session, AcquireLock(s) \/ Progress(s) \/ Crash(s) \/ Reset(s)
          PROVE  applied' \subseteq applied
      <4>1. CASE Reset(s)
        BY <4>1 DEF Reset
      <4>2. CASE AcquireLock(s) \/ Progress(s) \/ Crash(s)
        BY <2>2, <4>2 DEF AcquireLock, Progress, Crash, ReadHead, Conflict, BusyTimeout,
                          AppendNext, Flush
      <4> QED BY <3>1, <4>1, <4>2
    <3> QED BY <3>1 DEF Next, Begin, Tamper
  <2> QED BY <2>1, <2>2
<1> QED BY <1>1, WInvInvariant, PTL DEF Spec, ChangeBringsItsBlock

\* But for the tamper endpoint and a reset, no step rewrites or removes a
\* committed block, and no two blocks ever share an index.
THEOREM CommittedBlocksStay == Spec => ChainOnlyGrows
<1>1. WInv /\ WInv' /\ [Next]_vars
        => [UNCHANGED <<tampers, resets>> =>
              /\ chain \subseteq chain'
              /\ \A b, d \in chain' : b.index = d.index => b = d]_vars
  <2> SUFFICES ASSUME WInv, WInv', Next, UNCHANGED <<tampers, resets>>
               PROVE  /\ chain \subseteq chain'
                      /\ \A b, d \in chain' : b.index = d.index => b = d
    OBVIOUS
  <2>1. \A b, d \in chain' : b.index = d.index => b = d
    BY DEF WInv, Written, OneBlockPerIndex
  <2>2. tampers \in Nat /\ resets \in Nat
    BY DEF WInv, TypeOK
  <2>3. ASSUME NEW s \in Session, AcquireLock(s) \/ Progress(s) \/ Crash(s) \/ Reset(s)
        PROVE  chain \subseteq chain'
    <3>1. ~Reset(s)
      BY <2>2 DEF Reset
    <3>2. CASE Commit(s)
      BY <3>2 DEF Commit
    <3>3. CASE AcquireLock(s) \/ Crash(s) \/ (Progress(s) /\ ~Commit(s))
      BY <3>3 DEF AcquireLock, Progress, Crash, ReadHead, Conflict, BusyTimeout,
                  AppendNext, Flush
    <3> QED BY <2>3, <3>1, <3>2, <3>3
  <2>4. \A b \in chain : ~Tamper(b)
    BY <2>2 DEF Tamper
  <2>5. chain \subseteq chain'
    BY <2>3, <2>4 DEF Next, Begin
  <2> QED BY <2>1, <2>5
<1> QED BY <1>1, WInvInvariant, PTL DEF Spec, ChainOnlyGrows

\* The invariant holds initially and every step keeps it.
LEMMA InitChained == ASSUME Init PROVE Chained
<1>1. \A s \in Session : Visible(s) = {} /\ ~At(s, "flush")
  BY DEF Init, Visible, At, Idle
<1>2. Sound({}, {}) /\ chain = {} /\ tampered = {}
  BY DEF Init, Sound, Dense
<1> QED BY <1>1, <1>2 DEF Chained

LEMMA NextKeepsChained ==
  ASSUME AuditParametersOK, WInv, Chained, [Next]_vars
  PROVE  Chained'
<1>1. CASE UNCHANGED vars
  <2>1. \A q \in Session : tx'[q] = tx[q]
    BY <1>1 DEF vars
  <2> QED BY <1>1, <2>1, ChainedStays DEF vars, counters
<1>2. CASE Next
  <2>1. ASSUME NEW s \in Session, BusyTimeout(s) \/ Crash(s) PROVE Chained'
    BY <2>1, LeaveChains DEF BusyTimeout, Crash, counters
  <2>2. ASSUME NEW s \in Session, Reset(s) PROVE Chained'
    <3>1. resets' # 0
      BY <2>2 DEF Reset, WInv, TypeOK
    <3> QED BY <3>1 DEF Chained
  <2>3. ASSUME NEW s \in Session, Progress(s) PROVE Chained'
    BY <2>1, <2>3, ReadHeadChains, ConflictChains, AppendNextChains, CommitChains, FlushChains
       DEF Progress
  <2> QED BY <1>2, <2>1, <2>2, <2>3, AcquireLockChains, BeginChains, TamperChains DEF Next
<1> QED BY <1>1, <1>2

\* verify_blocks is exact as long as no batch reset rewrites the chain: however
\* appends overlap, fail and are retried, the chain verifies if and only if no
\* block was corrupted, and the block it names is the first corrupted one, also
\* after blocks were appended on top of corrupted ones.
THEOREM VerifierIsExact == Spec => []VerificationIsExact
<1>1. Init => Chained
  BY InitChained
<1>2. WInv /\ Chained /\ [Next]_vars => Chained'
  BY NextKeepsChained, AuditParametersOK
<1>3. Spec => []Chained
  BY <1>1, <1>2, WInvInvariant, PTL DEF Spec
<1>4. WInv /\ Chained => VerificationIsExact
  <2> SUFFICES ASSUME WInv, Chained, resets = 0 PROVE VerificationIsExact
    BY DEF VerificationIsExact
  <2>1. /\ Sound(chain, tampered) /\ OneBlockPerIndex(chain) /\ "tampered" \notin Change
        /\ \A i \in tampered : Taken(chain, i)
    BY AuditParametersOK DEF WInv, Written, Chained, AuditParametersOK
  <2>2. /\ Valid <=> tampered = {}
        /\ ~Valid => /\ FirstDivergence \in tampered
                     /\ \A i \in tampered : FirstDivergence <= i
    BY <2>1, SoundIsVerified
  <2> QED BY <2>2 DEF VerificationIsExact
<1> QED BY <1>3, <1>4, WInvInvariant, PTL
=============================================================================
