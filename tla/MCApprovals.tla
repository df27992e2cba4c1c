---------------------------- MODULE MCApprovals ----------------------------
(* A small instance of Approvals for TLC. *)
EXTENDS Approvals, TLC

Symmetry == Permutations(Case) \cup Permutations(Action) \cup Permutations(Request)
=============================================================================
