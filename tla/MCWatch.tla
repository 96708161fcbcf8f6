------------------------------- MODULE MCWatch -------------------------------
(* Four machines of the hub's watch over hosts and devices for TLC in one  *)
(* run: alerts with services and fixes (the module extended), the SNMP     *)
(* poll and browser, the device's own JSON, and the network map.  They     *)
(* share no state; a behaviour is one of the four at work, the others      *)
(* standing where they begin. *)
EXTENDS Alerting, TLC

CONSTANTS Devices, W, MaxLost, MaxMoved   \* the poll
CONSTANTS Addresses, Block, Docs, Known, Stations, Nobody   \* the map
CONSTANTS A, B, G, G2, K, U   \* addresses
CONSTANTS MaxEdits, MaxLogins, MaxExpiries   \* the JSON

VARIABLES dev, setting, on, count, polling, version, info, prev, stale, moved, early, whole, browse
VARIABLES creds, good, held, live, logins, expired, at, snap, jar, again, served, shown, cert
VARIABLES doc, stations, drawing, nodes, edges, root, leaves, unclaimed
VARIABLE part   \* the machine at work

readings == <<dev, setting, on, count, polling, version, info, prev, stale, moved, early, whole, browse>>
status == <<creds, good, held, live, logins, expired, at, snap, jar, again, served, shown, cert>>
map == <<doc, stations, drawing, nodes, edges, root, leaves, unclaimed>>

-----------------------------------------------------------------------------
(* Devices: a switch with three interfaces, one of them not a socket; one  *)
(* that counts octets; a printer that only speaks v1; a firewall with all  *)
(* that is known of a host; and a UPS. *)
Row(t, i, v) == <<t, i>> :> v
Box(size, used) == [size |-> size, used |-> used]
Switch ==
  [speaks |-> {"1", "2c"}, ports |-> {}, settings |-> {"auto"},
   value |-> Row("oper", 1, 1) @@ Row("oper", 2, 2) @@ Row("oper", 3, 1) @@ Row("type", 1, 6)
               @@ Row("type", 3, 24) @@ Row("poe", 1, 30)]
Busy == [speaks |-> {"2c"}, ports |-> {1, 2}, settings |-> {"2c"}, value |-> <<>>]
Printer ==
  [speaks |-> {"1"}, ports |-> {}, settings |-> {"auto", "1"},
   value |-> Row("desc", 1, 0) @@ Row("level", 1, 40) @@ Row("max", 1, -2) @@ Row("unit", 1, 19)
               @@ Row("desc", 2, 0) @@ Row("level", 2, -3) @@ Row("max", 2, 50) @@ Row("pages", 1, 7)]
Firewall ==
  [speaks |-> {"2c"}, ports |-> {}, settings |-> {"2c"},
   value |-> Row("ucd", 1, [idle |-> 80, size |-> 10, free |-> 4]) @@ Row("ucdDisk", 1, 30)
               @@ Row("cpu", 1, 20) @@ Row("cpu", 2, 50) @@ Row("ram", 1, Box(10, 5))
               @@ Row("disk", 1, Box(10, 7)) @@ Row("disk", 2, Box(0, 0))]
Ups ==
  [speaks |-> {"3"}, ports |-> {}, settings |-> {"3"},
   value |-> Row("ups", 1, [status |-> 3, seconds |-> 5, charge |-> 40]) @@ Row("load", 1, 30) @@ Row("load", 2, 20)]
SomeDevices == {Switch, Busy, Printer, Firewall, Ups}

(* A device's own JSON: two rows in either order, or with a field missing. *)
Named(n) == [name |-> n, value |-> n]
SomeTables ==
  {<<Named("tmp"), Named("ph")>>, <<Named("ph"), Named("tmp")>>,
   <<[name |-> "tmp", value |-> ""], [name |-> "", value |-> "ph"]>>}

(* The map: A and B are the controller's, G is a gateway and G2 another in *)
(* its block, K is on the dashboard and U is not. *)
Blocks == A :> 1 @@ B :> 2 @@ G :> 3 @@ G2 :> 3 @@ K :> 4 @@ U :> 5
Device(mac, gateway) == [mac |-> mac, gateway |-> gateway]
Up(of, peer, remote, named) ==
  <<[of |-> of, source |-> "uplink", peer |-> peer, port |-> 1, remote |-> remote, named |-> named]>>
Lldp(of, peer, port) ==
  <<[of |-> of, source |-> "lldp", peer |-> peer, port |-> port, remote |-> 0, named |-> FALSE]>>
At(of, peer, port) == <<[of |-> of, peer |-> peer, port |-> port]>>
SomeDocs ==
  {[devices |-> <<Device(A, g), Device(B, g2)>>, links |-> u \o l \o u2 \o l2, seen |-> s \o s2] :
     g \in {Nobody, G},
     u \in {<<>>, Up(A, B, 0, FALSE), Up(A, B, 2, TRUE), Up(A, G, 0, TRUE), Up(A, G, 2, FALSE)},
     l \in {<<>>, Lldp(A, B, 2), Lldp(A, G2, 0), Lldp(A, G2, 2)},
     s \in {<<>>, At(A, B, 1), At(A, G, 1), At(A, K, 1), At(A, K, 1) \o At(A, U, 2), At(A, K, 1) \o At(A, K, 2)},
     g2 \in {Nobody, G, G2}, u2 \in {<<>>, Up(B, G2, 2, FALSE)}, l2 \in {<<>>, Lldp(B, A, 2), Lldp(B, B, 2)},
     s2 \in {<<>>, At(B, K, 1), At(B, A, 2) \o At(B, U, 1), At(B, B, 1)}}
SomeStations == {<<>>, <<[mac |-> K, ap |-> A], [mac |-> U, ap |-> B], [mac |-> K, ap |-> B]>>}

-----------------------------------------------------------------------------
N == INSTANCE SnmpPoll WITH pc <- polling
J == INSTANCE StatusProbe WITH Tables <- SomeTables, Wanted <- "tmp"
T == INSTANCE Topology WITH pc <- drawing

ASSUME RulesAssumption /\ TimesAssumption
ASSUME N!PollAssumption /\ J!ProbeAssumption /\ T!TopologyAssumption

AlertsAtRest == Init /\ up = [h \in Hosts |-> TRUE]
ReadingsAtRest == N!Init /\ dev = Ups
StatusAtRest == J!Init /\ good = {0} /\ served = <<Named("tmp"), Named("ph")>>
MapAtRest ==
  /\ T!Init /\ stations = <<>>
  /\ doc.links = <<>> /\ doc.seen = <<>> /\ \A d \in T!ToSet(doc.devices) : d.gateway = Nobody

WatchInit ==
  \/ part = "alerts" /\ Init /\ ReadingsAtRest /\ StatusAtRest /\ MapAtRest
  \/ part = "readings" /\ AlertsAtRest /\ N!Init /\ StatusAtRest /\ MapAtRest
  \/ part = "status" /\ AlertsAtRest /\ ReadingsAtRest /\ J!Init /\ MapAtRest
  \/ part = "map" /\ AlertsAtRest /\ ReadingsAtRest /\ StatusAtRest /\ T!Init

(* The browser shares nothing with the poll but the device, so that it is  *)
(* let loose only on those that count no octets. *)
WatchNext ==
  \/ part = "alerts" /\ Next /\ UNCHANGED <<part, readings, status, map>>
  \/ part = "readings" /\ N!Poll /\ UNCHANGED <<part, vars, status, map>>
  \/ part = "readings" /\ dev.ports = {} /\ N!Browser /\ UNCHANGED <<part, vars, status, map>>
  \/ part = "status" /\ J!Next /\ UNCHANGED <<part, vars, readings, map>>
  \/ part = "map" /\ T!Next /\ UNCHANGED <<part, vars, readings, status>>

WatchSpec == WatchInit /\ [][WatchNext]_<<part, vars, readings, status, map>>

-----------------------------------------------------------------------------
(* The properties of the machines not extended, stated in their modules. *)

ReadingsAreReal == N!ReadingsAreReal
ProbeIsSound == J!ProbeIsSound
MapIsTrue == T!MapIsTrue
=============================================================================
