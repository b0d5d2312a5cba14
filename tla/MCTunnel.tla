------------------------------- MODULE MCTunnel -------------------------------
(* Tunnel on small instances: the limits of the subscription types; a type *)
(* that config.json does not list has the limit 0.                         *)
EXTENDS Tunnel

NoWildcards == [h \in Hosts |-> <<h>>]

TightLimit == [s \in Subs |-> CASE s = "free" -> 1 [] s = "high" -> 2 [] OTHER -> 0]
=============================================================================
