------------------------------ MODULE MCListener ------------------------------
(* Listener on a small instance. *)
EXTENDS Listener
=============================================================================
