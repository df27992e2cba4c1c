-------------------------- MODULE MCModelGateway --------------------------
(* A small instance of ModelGateway for TLC. *)
EXTENDS ModelGateway
=============================================================================
