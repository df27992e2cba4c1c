----------------------------- MODULE AuditChain -----------------------------
(***************************************************************************)
(* The hash-chained audit ledger (tools/audit.py) and the sessions that    *)
(* append to it, each with the change its block records: control, DLQ and  *)
(* approval endpoints, settlement, reconciler, sweep, experiment and batch *)
(* run, whose reset deletes the whole chain (workers/batch.py).            *)
(*                                                                         *)
(* The session factory has autoflush off and SQLite begins a transaction   *)
(* at the first INSERT or UPDATE, so reading the head and inserting the    *)
(* block are two steps, and other sessions commit between them.            *)
(***************************************************************************)
EXTENDS Integers, FiniteSets

CONSTANTS
  Session,      \* database sessions that append
  Instance,     \* AuditChain objects, each with its asyncio.Lock
  InstanceOf,   \* the AuditChain object each session uses
  Change,       \* changes that sessions record
  Verified,     \* the changes a batch reset preserves (_clear, keep_ids)
  None,         \* no session
  Retries,      \* _APPEND_RETRIES
  MaxBegins, MaxTampers, MaxResets   \* bounds

ASSUME AuditParametersOK ==
  /\ InstanceOf \in [Session -> Instance] /\ Verified \subseteq Change
  /\ None \notin Session /\ "tampered" \notin Change /\ Retries \in Nat \ {0}
  /\ MaxBegins \in Nat /\ MaxTampers \in Nat /\ MaxResets \in Nat

VARIABLES
  chain,      \* the committed audit_blocks rows
  applied,    \* the changes committed to the other tables
  writer,     \* the session that holds SQLite's write lock, or None
  mutex,      \* Instance -> session inside append(), or None
  tx,         \* Session -> its transaction
  tampered,   \* indices of the blocks corrupted since the chain began
  begins, tampers, resets

counters == <<begins, tampers, resets>>
vars     == <<chain, applied, writer, mutex, tx, tampered, counters>>

\* SHA-256 taken as free of collisions: a hash is what was hashed.
Hash(prev, payload, index, at) == <<prev, payload, index, at>>
GENESIS == <<>>
FORGED  == <<"forged">>

Before == [index |-> -1, hash |-> GENESIS]

Top(blocks) ==
  IF blocks = {} THEN Before
  ELSE CHOOSE b \in blocks : \A d \in blocks : d.index <= b.index

\* compute_block_hash over the fields append() is about to store.
NewBlock(head, c) ==
  LET index == head.index + 1 IN
  [index |-> index, prev |-> head.hash, payload |-> c, digest |-> c, at |-> 0,
   hash |-> Hash(head.hash, c, index, 0)]

\* UNIQUE (block_index).
MutNotTaken(blocks, index) == FALSE
Taken(blocks, index) == \E b \in blocks : b.index = index

Idle == [at |-> "idle", queue |-> {}, dirty |-> {}, staged |-> {}, tries |-> 0,
         head |-> Before]

At(s, step) == tx[s].at = step
Visible(s)  == chain \cup tx[s].staged

MutLeaveLocked(s) ==
  /\ tx' = [tx EXCEPT ![s] = Idle]
  /\ UNCHANGED <<mutex, writer>>

\* The session ends without a commit: its locks are released, its work is lost.
Leave(s) ==
  /\ tx' = [tx EXCEPT ![s] = Idle]
  /\ mutex' = [i \in Instance |-> IF mutex[i] = s THEN None ELSE mutex[i]]
  /\ writer' = IF writer = s THEN None ELSE writer

-----------------------------------------------------------------------------
Init ==
  /\ chain = {} /\ applied = {} /\ tampered = {}
  /\ writer = None /\ mutex = [i \in Instance |-> None]
  /\ tx = [s \in Session |-> Idle]
  /\ begins = 0 /\ tampers = 0 /\ resets = 0

\* A handler has changed its objects and is about to append a block for each.
\* The batch flushes its rows first, and so takes the write lock here.
Begin(s, changes) ==
  /\ At(s, "idle") /\ begins < MaxBegins
  /\ changes # {} /\ changes \cap applied = {}
  /\ begins' = begins + 1
  /\ tx' = [tx EXCEPT ![s] = [Idle EXCEPT !.at = "lock", !.queue = changes, !.dirty = changes]]
  /\ writer' \in {writer} \cup (IF writer = None THEN {s} ELSE {})
  /\ UNCHANGED <<chain, applied, mutex, tampered, tampers, resets>>

\* async with self._lock.
AcquireLock(s) ==
  /\ At(s, "lock") /\ mutex[InstanceOf[s]] = None
  /\ mutex' = [mutex EXCEPT ![InstanceOf[s]] = s]
  /\ tx' = [tx EXCEPT ![s].at = "head"]
  /\ UNCHANGED <<chain, applied, writer, tampered, counters>>

\* _head: the session sees its own flushed blocks and what others committed.
ReadHead(s) ==
  /\ At(s, "head")
  /\ tx' = [tx EXCEPT ![s].at = "flush", ![s].head = Top(Visible(s))]
  /\ UNCHANGED <<chain, applied, writer, mutex, tampered, counters>>

MutReplaceBlock(s) ==
  /\ At(s, "flush") /\ writer \in {None, s}
  /\ Taken(Visible(s), tx[s].head.index + 1)
  /\ chain' = {b \in chain : b.index # tx[s].head.index + 1}
  /\ UNCHANGED <<applied, writer, mutex, tx, tampered, counters>>

\* The index is taken: the rollback drops the caller's changes too, and the
\* loop tries again with the block alone, or raises on its last attempt.
Conflict(s) ==
  /\ At(s, "flush") /\ writer \in {None, s}
  /\ Taken(Visible(s), tx[s].head.index + 1)
  /\ IF tx[s].tries + 1 = Retries
     THEN Leave(s)
     ELSE /\ tx' = [tx EXCEPT ![s].at = "head", ![s].dirty = {}, ![s].staged = {},
                              ![s].tries = @ + 1]
          /\ writer' = None
          /\ UNCHANGED mutex
  /\ UNCHANGED <<chain, applied, tampered, counters>>

\* The changes and the block are written, not committed; append() returns.
Flush(s, c) ==
  /\ At(s, "flush") /\ writer \in {None, s} /\ c \in tx[s].queue
  /\ ~Taken(Visible(s), tx[s].head.index + 1)
  /\ tx' = [tx EXCEPT ![s].at = "open", ![s].queue = @ \ {c},
                      ![s].staged = @ \cup {NewBlock(tx[s].head, c)}]
  /\ writer' = s
  /\ mutex' = [mutex EXCEPT ![InstanceOf[s]] = None]
  /\ UNCHANGED <<chain, applied, tampered, counters>>

MutNoTimeout(s) == FALSE /\ Leave(s)

\* busy_timeout: "database is locked" is no IntegrityError and leaves append().
BusyTimeout(s) ==
  /\ At(s, "flush") /\ writer \notin {None, s}
  /\ Leave(s)
  /\ UNCHANGED <<chain, applied, tampered, counters>>

\* A caller with more to record appends again; after a rollback its objects are
\* expired and reading them ends the loop with an error.
AppendNext(s) ==
  /\ At(s, "open") /\ tx[s].queue # {}
  /\ IF tx[s].tries = 0
     THEN /\ tx' = [tx EXCEPT ![s].at = "lock"]
          /\ UNCHANGED <<writer, mutex>>
     ELSE Leave(s)
  /\ UNCHANGED <<chain, applied, tampered, counters>>

MutHalfCommit(s) ==
  /\ At(s, "open") /\ tx[s].queue = {}
  /\ applied' = applied \cup tx[s].dirty
  /\ Leave(s)
  /\ UNCHANGED <<chain, tampered, counters>>

\* "The caller commits."
Commit(s) ==
  /\ At(s, "open") /\ tx[s].queue = {}
  /\ chain' = chain \cup tx[s].staged
  /\ applied' = applied \cup tx[s].dirty
  /\ Leave(s)
  /\ UNCHANGED <<tampered, counters>>

\* The process stops, or the handler fails, before the commit.
Crash(s) ==
  /\ ~At(s, "idle")
  /\ Leave(s)
  /\ UNCHANGED <<chain, applied, tampered, counters>>

\* _clear deletes the chain and what Razorpay did not prove, and commits; then
\* _record_carried_over appends a block for each case that was preserved.
Reset(s) ==
  /\ At(s, "idle") /\ writer = None /\ resets < MaxResets
  /\ resets' = resets + 1
  /\ chain' = {} /\ tampered' = {}
  /\ applied' = applied \cap Verified
  /\ tx' = [tx EXCEPT ![s] = IF applied' = {} THEN Idle
                             ELSE [Idle EXCEPT !.at = "lock", !.queue = applied']]
  /\ UNCHANGED <<writer, mutex, begins, tampers>>

\* POST /audit/tamper: one field of one stored block; UNIQUE (current_hash).
Tamper(b) ==
  /\ writer = None /\ tampers < MaxTampers
  /\ \E bad \in {[b EXCEPT !.payload = "tampered"], [b EXCEPT !.hash = FORGED],
                 [b EXCEPT !.at = @ - 1]} :
       /\ bad # b /\ \A d \in chain \ {b} : d.hash # bad.hash
       /\ chain' = (chain \ {b}) \cup {bad}
  /\ tampered' = tampered \cup {b.index}
  /\ tampers' = tampers + 1
  /\ UNCHANGED <<applied, writer, mutex, tx, begins, resets>>

-----------------------------------------------------------------------------
(* verify_blocks: the chain read in the order of block_index.              *)

Earlier(b)  == {d \in chain : d.index < b.index}
Position(b) == Cardinality(Earlier(b))

MutTrustStored(b) ==
  \/ b.index # Position(b)
  \/ b.digest # b.payload
  \/ b.prev # Top(Earlier(b)).hash

Broken(b) ==
  \/ b.index # Position(b)
  \/ b.digest # b.payload
  \/ b.prev # Top(Earlier(b)).hash
  \/ b.hash # Hash(b.prev, b.payload, b.index, b.at)

Valid == \A b \in chain : ~Broken(b)

\* first_divergence_index, when the chain is not valid.
FirstDivergence ==
  LET broken == {b \in chain : Broken(b)} IN
  CHOOSE n \in {Position(b) : b \in broken} : \A b \in broken : n <= Position(b)

-----------------------------------------------------------------------------
Progress(s) ==
  \/ ReadHead(s) \/ Conflict(s) \/ BusyTimeout(s) \/ AppendNext(s) \/ Commit(s)
  \/ \E c \in Change : Flush(s, c)

Next ==
  \/ \E s \in Session : AcquireLock(s) \/ Progress(s) \/ Crash(s) \/ Reset(s)
  \/ \E s \in Session, changes \in SUBSET Change : Begin(s, changes)
  \/ \E b \in chain : Tamper(b)

Spec == Init /\ [][Next]_vars

\* A coroutine that can run is run, and asyncio.Lock serves its waiters in turn.
Fairness == \A s \in Session : WF_vars(Progress(s)) /\ SF_vars(AcquireLock(s))

FairSpec == Spec /\ Fairness

-----------------------------------------------------------------------------
(* Properties.                                                             *)

Payload == Change \cup {"tampered"}
Steps   == {"idle", "lock", "head", "flush", "open"}

\* Types of all variables; only the session that holds the write lock has
\* blocks written and not committed.
TypeOK ==
  /\ applied \subseteq Change
  /\ \A b \in chain : b.index \in Nat /\ b.payload \in Payload
  /\ writer \in Session \cup {None}
  /\ mutex \in [Instance -> Session \cup {None}]
  /\ \A s \in Session :
       /\ tx[s].at \in Steps /\ tx[s].tries \in 0 .. Retries - 1
       /\ tx[s].queue \subseteq Change /\ tx[s].dirty \subseteq Change
       /\ tx[s].staged # {} => writer = s
       /\ At(s, "idle") => tx[s] = Idle /\ writer # s
  /\ begins \in Nat /\ tampers \in Nat /\ resets \in Nat

\* UNIQUE(block_index) "is the guarantee, and it holds across processes where
\* the lock does not", and verify_blocks is "a real verifier rather than one that
\* always returns true": however appends, conflicts, timeouts and crashes overlap, a
\* chain nobody tampered with or reset verifies; and of any other, whatever was
\* appended on top and corrupted since, the first corrupted block is named.
VerificationIsExact ==
  resets = 0 =>
    /\ Valid <=> tampered = {}
    /\ ~Valid => /\ FirstDivergence \in tampered
                 /\ \A i \in tampered : FirstDivergence <= i

Payloads(blocks) == {b.payload : b \in blocks}

\* A change never becomes visible without its block (AuditChain.append: "the
\* same transaction as the change it records"), whatever fails on the way.
ChangeBringsItsBlock ==
  [][applied' \ applied \subseteq Payloads(chain' \ chain)]_vars

\* Append-only: but for a reset and the tamper endpoint no committed block is
\* rewritten or removed, and a block's index is never reused.
ChainOnlyGrows ==
  [][UNCHANGED <<tampers, resets>> =>
       /\ chain \subseteq chain'
       /\ \A b, d \in chain' : b.index = d.index => b = d]_vars

\* Each AuditChain object has one lock and SQLite one writer, and sessions take
\* them in either order: none of them waits for ever.
EverySessionEnds == \A s \in Session : ~At(s, "idle") ~> At(s, "idle")

\* "... or an audit block for a change that rolled back" (AuditChain.append):
\* no block tells of a change that was not made.
BlockTellsTheTruth == Payloads(chain) \subseteq applied \cup {"tampered"}

\* Rebuilding from scratch leaves no "chain that fails verification for a reason
\* that has nothing to do with tampering" (_clear).
OnlyTamperingBreaksTheChain == tampered = {} => Valid
=============================================================================
