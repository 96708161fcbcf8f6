------------------------------ MODULE Topology ------------------------------
(***************************************************************************)
(* The network map of topology.go, from one answer of the controller: what *)
(* its devices report of their links, what was seen on their ports, the    *)
(* gateway they name, and then the devices and hosts of the dashboard and  *)
(* the wireless clients put on it.                                         *)
(*                                                                         *)
(* Abstracted: MAC addresses to Addresses, the block of five bytes two of  *)
(* them may share to Block; names, models, speeds and IP addresses are     *)
(* left out.  Go walks maps in any order: which of several gateways is the *)
(* root is a choice.  What the devices tell of links and of sightings are  *)
(* two lists, in the order of the devices.                                 *)
(* External: the controller's answer, any of Docs.                         *)
(* Operators named Action_Fault are single-fault variants of Action.       *)
(***************************************************************************)
EXTENDS Naturals, FiniteSets, SequencesExt

CONSTANTS
  Addresses, Block,  \* Block: [Addresses -> blocks]
  Docs,      \* answers: [devices, links, seen], in the order they are told.  A
             \* device has a gateway; an uplink or lldp neighbour is a record of
             \* whose it is, its peer and the port, an uplink with the remote
             \* port and whether it names its peer besides; a sighting is one of
             \* whose port, its peer and the port
  Known,     \* the addresses of monitored devices and of hosts
  Stations,  \* lists of wireless clients: sequences of [mac, ap]
  Nobody     \* no address

TopologyAssumption ==
  /\ Block \in [Addresses -> Nat] /\ Known \subseteq Addresses /\ Nobody \notin Addresses
  /\ Stations \subseteq Seq([mac : Addresses, ap : Addresses])
  /\ \A d \in Docs :
       /\ d.devices \in Seq([mac : Addresses, gateway : Addresses \cup {Nobody}])
       /\ d.links \in Seq([of : Addresses, source : {"uplink", "lldp"}, peer : Addresses, port : Nat,
                           remote : Nat, named : BOOLEAN])
       /\ d.seen \in Seq([of : Addresses, peer : Addresses, port : Nat])
       /\ \A x \in ToSet(d.links) \cup ToSet(d.seen) : \E n \in ToSet(d.devices) : n.mac = x.of

VARIABLES
  doc, stations,  \* what the controller answered
  pc,             \* "extract", "known", "wireless", "drawn"
  nodes, edges,   \* Topology.Nodes and Edges
  root,           \* Topology.Root
  leaves,         \* Leaves of each node
  unclaimed       \* sightings of addresses that are on no map yet

vars == <<doc, stations, pc, nodes, edges, root, leaves, unclaimed>>

Init ==
  /\ doc \in Docs /\ stations \in Stations /\ pc = "extract"
  /\ nodes = {} /\ edges = {} /\ root = Nobody /\ leaves = [a \in Addresses |-> 0] /\ unclaimed = <<>>

-----------------------------------------------------------------------------
(* What the answer says: links the devices report, and sightings.          *)

Managed == {d.mac : d \in ToSet(doc.devices)}
Edge(from, to, fromPort, toPort, source) ==
  [from |-> from, to |-> to, fromPort |-> fromPort, toPort |-> toPort, source |-> source]

Report(links, x) ==
  IF x.peer = x.of THEN links
  ELSE Append(links, IF x.source = "uplink" THEN Edge(x.peer, x.of, x.remote, x.port, "uplink")
                     ELSE Edge(x.of, x.peer, x.port, 0, "lldp"))
Reported == FoldLeft(Report, <<>>, doc.links)

(* A device that is someone's uplink and is named by it is on the map too. *)
Named == {x.peer : x \in {l \in ToSet(doc.links) : l.source = "uplink" /\ l.named /\ l.peer # l.of}}

(* Ports that carry a link see whatever is beyond it.                      *)
Transit(links) ==
  {<<e.from, e.fromPort>> : e \in {x \in links : x.fromPort > 0}}
    \cup {<<e.to, e.toPort>> : e \in {x \in links : x.toPort > 0}}
Ends(links) == UNION {{e.from, e.to} : e \in links}

NamedBy(g) == Cardinality({i \in DOMAIN doc.devices : doc.devices[i].gateway = g})
Gateways == {d.gateway : d \in ToSet(doc.devices)} \ {Nobody}

(* A sighting of a device or a gateway that nothing reports is a link; of  *)
(* anything else it is a leaf.                                             *)
Link(acc, e) == [acc EXCEPT !.links = Append(@, e), !.attached = @ \cup {e.to}]
Leaf(acc, e) == [acc EXCEPT !.unclaimed = Append(@, e), !.leaves[e.from] = @ + 1]
Sighting(x) == Edge(x.of, x.peer, x.port, 0, "seen")
Claim_Facts(acc, x) ==   \* a bug: a guess is drawn beside a fact
  IF x.peer = x.of \/ <<x.of, x.port>> \in acc.transit THEN acc
  ELSE IF x.peer \in Managed \cup Named \cup Gateways THEN Link(acc, Sighting(x)) ELSE Leaf(acc, Sighting(x))
Claim(acc, x) ==
  IF x.peer = x.of \/ <<x.of, x.port>> \in acc.transit \/ x.peer \in acc.attached THEN acc
  ELSE IF x.peer \in Managed \cup Named \cup Gateways THEN Link(acc, Sighting(x)) ELSE Leaf(acc, Sighting(x))

Claimed ==
  FoldLeft(Claim,
    [links |-> Reported, transit |-> Transit(ToSet(Reported)), attached |-> Ends(ToSet(Reported)),
     unclaimed |-> <<>>, leaves |-> [a \in Addresses |-> 0]],
    doc.seen)

-----------------------------------------------------------------------------
(* The map. *)

(* What links point at, and a gateway two devices name, is invented.       *)
Invented(links) ==
  (Ends(ToSet(links)) \cup {g \in Gateways : NamedBy(g) >= 2}) \ (Managed \cup Named)

(* An invented neighbour of the root's block is the root.                  *)
Folds(a, r, invented) == r # Nobody /\ a \in invented \ Gateways /\ a # r /\ Block[a] = Block[r]
Fold(e, r, invented) ==
  [e EXCEPT !.from = IF Folds(@, r, invented) THEN r ELSE @, !.to = IF Folds(@, r, invented) THEN r ELSE @]

Detail(e) ==
  (IF e.source = "uplink" THEN 4 ELSE 0) + (IF e.fromPort > 0 THEN 1 ELSE 0) + (IF e.toPort > 0 THEN 1 ELSE 0)

(* One line per pair, the first of those with the most detail.             *)
Pair(e) == {e.from, e.to}
Lines(links) ==
  {links[i] : i \in {i \in DOMAIN links :
     \A j \in DOMAIN links : Pair(links[j]) = Pair(links[i]) =>
       \/ Detail(links[j]) < Detail(links[i])
       \/ Detail(links[j]) = Detail(links[i]) /\ i <= j}}

Degree(a, lines) == Cardinality({e \in lines : a \in Pair(e)})

(* unifiTopology *)
Extract ==
  LET claimed == Claimed
      invented == Invented(claimed.links)
      known == Managed \cup Named \cup invented
      roots == Gateways \cap known
  IN
  /\ pc = "extract" /\ pc' = "known"
  /\ \E r \in IF roots = {} THEN {Nobody} ELSE roots :
       LET links == [i \in DOMAIN claimed.links |-> Fold(claimed.links[i], r, invented)]
           lines == Lines(links)
           kept == {a \in known : ~Folds(a, r, invented) /\ (a \in invented => Degree(a, lines) > 0)}
       IN
       /\ nodes' = kept /\ edges' = lines
       /\ root' \in IF r \in kept THEN {r}
                    ELSE IF kept = {} THEN {Nobody}
                    ELSE {a \in kept : \A b \in kept : Degree(b, lines) <= Degree(a, lines)}
  /\ leaves' = claimed.leaves /\ unclaimed' = claimed.unclaimed
  /\ UNCHANGED <<doc, stations>>

-----------------------------------------------------------------------------
(* The dashboard's own devices and hosts, where they were sighted, and     *)
(* wireless clients at their access points.                                *)

Place(acc, e) ==
  IF <<e.from, e.fromPort>> \in Transit(edges) \/ e.to \notin Known \/ e.to \in acc.nodes THEN acc
  ELSE [nodes |-> acc.nodes \cup {e.to}, edges |-> acc.edges \cup {e},
        leaves |-> [acc.leaves EXCEPT ![e.from] = IF @ > 0 THEN @ - 1 ELSE @]]

Hang(acc, s) ==
  IF s.ap \notin acc.nodes \/ s.mac \in acc.nodes THEN acc
  ELSE IF s.mac \notin Known THEN [acc EXCEPT !.leaves[s.ap] = @ + 1]
  ELSE [acc EXCEPT !.nodes = @ \cup {s.mac}, !.edges = @ \cup {Edge(s.ap, s.mac, 0, 0, "wifi")}]

Attach(step, next, drawn) ==
  /\ pc = step /\ pc' = next
  /\ nodes' = drawn.nodes /\ edges' = drawn.edges /\ leaves' = drawn.leaves
  /\ UNCHANGED <<doc, stations, root, unclaimed>>

Drawn == [nodes |-> nodes, edges |-> edges, leaves |-> leaves]
AttachKnown == Attach("known", "wireless", FoldLeft(Place, Drawn, unclaimed))
AttachWireless == Attach("wireless", "drawn", FoldLeft(Hang, Drawn, stations))

Next == Extract \/ AttachKnown \/ AttachWireless

Spec == Init /\ [][Next]_vars

-----------------------------------------------------------------------------
(* The map holds together: every line joins two devices on it, no two      *)
(* lines join the same, every device of the controller is on it, and it    *)
(* hangs from one of its own.                                              *)
HoldsTogether ==
  pc # "extract" =>
    /\ Ends(edges) \subseteq nodes /\ Managed \subseteq nodes
    /\ \A e, f \in edges : Pair(e) = Pair(f) => e = f
    /\ nodes # {} => root \in nodes

(* A guess never stands beside a fact: what the devices report a link of   *)
(* has no line that rests on a sighting or on a wireless client's word,    *)
(* and what has none hangs in one place (topology.go:17-24, 383-391).  The *)
(* root is excepted, which may be two addresses folded into one.           *)
GuessesYield ==
  pc # "extract" =>
    \A e \in edges : e.source \in {"seen", "wifi"} /\ e.to # root =>
      /\ \A f \in edges : f.source \in {"uplink", "lldp"} => e.to \notin Pair(f)
      /\ \A f \in edges : f.source \in {"seen", "wifi"} /\ f.to = e.to => f = e

(* Leaves counts the addresses on a device's ports that are not on the     *)
(* map, as long as each is sighted on one port (topology.go:38-41).        *)
LeavesAreOffMap ==
  pc \in {"known", "wireless"} /\ (\A i, j \in DOMAIN unclaimed : unclaimed[i].to = unclaimed[j].to => i = j) =>
    \A a \in nodes : leaves[a] = Cardinality({i \in DOMAIN unclaimed : unclaimed[i].from = a /\ unclaimed[i].to \notin nodes})

MapIsTrue == HoldsTogether /\ GuessesYield /\ LeavesAreOffMap
=============================================================================
