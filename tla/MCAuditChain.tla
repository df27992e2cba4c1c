---------------------------- MODULE MCAuditChain ----------------------------
(* Small instances of AuditChain for TLC. *)
EXTENDS AuditChain, TLC

CONSTANTS s1, s2, s3, chainA, chainB

\* Two handlers, each with an AuditChain object of its own.
Apart == (s1 :> chainA) @@ (s2 :> chainB)

\* Two sessions share an AuditChain object, as two sweeps of one Scheduler do;
\* a third has its own, as every request handler has.
Mixed == (s1 :> chainA) @@ (s2 :> chainA) @@ (s3 :> chainB)
=============================================================================
