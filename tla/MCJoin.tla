-------------------------------- MODULE MCJoin --------------------------------
(* Join on a small instance. *)
EXTENDS Join
=============================================================================
