---------------------------- MODULE MCNetChecks ----------------------------
(* NetChecks for TLC: the operator writes down an address, or a machine's  *)
(* MAC and an address.  DHCP gives that machine one address or the other,  *)
(* and another machine the first when it is free. *)
EXTENDS NetChecks

CONSTANTS a1, a2, m1, m2

Either == {[addr |-> a1, mac |-> m, learned |-> FALSE] : m \in {m1, None}}
ReachBoth == [m \in Machines |-> IF m = m1 THEN Addrs ELSE {a1}]
=============================================================================
