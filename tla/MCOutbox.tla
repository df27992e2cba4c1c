------------------------------ MODULE MCOutbox ------------------------------
(* Small instances of Outbox for TLC. *)
EXTENDS Outbox, TLC

\* Cases and workers are interchangeable in the safety runs.
Symmetry == Permutations(Case) \cup Permutations(Worker)
=============================================================================
