------------------------------- MODULE MCVhost -------------------------------
(* Vhost on small instances: a name and the wildcard that matches it. *)
EXTENDS Vhost

WithWildcard == [h \in Hosts |-> IF h = "*.b" THEN <<h>> ELSE <<h, "*.b">>]
=============================================================================
