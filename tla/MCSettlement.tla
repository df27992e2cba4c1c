---------------------------- MODULE MCSettlement ----------------------------
(* Small instances of Settlement and of the reports over it for TLC: cases are
   numbers, and the arms are given by the odd ones out. *)
EXTENDS LiveReports
=============================================================================
