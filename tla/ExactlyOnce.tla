----------------------------- MODULE ExactlyOnce -----------------------------
(***************************************************************************)
(* What the outbox promises of one authorised action (tools/outbox.py,     *)
(* OutboxExecutor): the intent is committed, then at most one link exists  *)
(* for it, then the merchant's records know of that link.                  *)
(***************************************************************************)
CONSTANT Ref

VARIABLES
  intent,   \* references whose idempotency key is committed
  issued,   \* references with a live link at the provider
  known     \* references whose link our records show

absVars == <<intent, issued, known>>

Init == intent = {} /\ issued = {} /\ known = {}

Commit(r) ==
  /\ r \notin intent
  /\ intent' = intent \cup {r}
  /\ UNCHANGED <<issued, known>>

Issue(r) ==
  /\ r \in intent \ issued
  /\ issued' = issued \cup {r}
  /\ UNCHANGED <<intent, known>>

Learn(r) ==
  /\ r \in issued \ known
  /\ known' = known \cup {r}
  /\ UNCHANGED <<intent, issued>>

Next == \E r \in Ref : Commit(r) \/ Issue(r) \/ Learn(r)

Spec == Init /\ [][Next]_absVars
=============================================================================
