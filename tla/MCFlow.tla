------------------------------- MODULE MCFlow -------------------------------
(* ChannelFlow on small instances. *)
EXTENDS ChannelFlow
=============================================================================
