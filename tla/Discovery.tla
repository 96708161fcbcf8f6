----------------------------- MODULE Discovery -----------------------------
(* How the hub finds what is on its network: the index of MAC addresses    *)
(* (arp.go), refreshed by the loop of the network checks when it looks for *)
(* a device that moves, and by every request for the list of devices       *)
(* (discover.go), which then asks each address for its name (hostname.go)  *)
(* and its open ports.  The requests and the loop refresh at the same      *)
(* time; a lock protects each access to the index and no refresh as a      *)
(* whole.                                                                  *)
(*                                                                         *)
(* Abstracted: the vendor of a MAC, which is a table; the open ports, read *)
(* from an address as its name is; which devices are marked as monitored;  *)
(* the order of the list.  External: the kernel's neighbour table, which a *)
(* connection attempt makes it fill and which keeps an address that no     *)
(* longer answers for a while; the devices, which move.                    *)
(* Operators named Action_Fault are single-fault variants of Action.       *)
(***************************************************************************)
EXTENDS Naturals, FiniteSets

CONSTANTS
  Machines, Ips,
  Tracked,    \* the machines checks identify by MAC
  Loop,       \* the round of the checks
  Requests,   \* requests for the list
  Says,       \* per machine and source: its own name, a name that is none, or nothing
  Heard,      \* the sources that may answer in time: a set of sets
  MaxMoves,   \* bound
  None

DiscoveryAssumption ==
  /\ Tracked \subseteq Machines /\ Loop \notin Requests /\ None \notin Machines /\ None \notin Ips
  /\ Says \in [Machines -> [{"ptr", "mdns", "netbios"} -> {"own", "gateway", ""}]]

Refreshers == Requests \cup {Loop}

(* In half minutes: freshFor and minSweep. *)
FreshFor == 1
MinSweep == 2
Older(age, limit) == IF age < limit THEN age + 1 ELSE age

VARIABLES
  place,   \* per machine: its address, or None
  arp,     \* the kernel's table, by address
  byMAC,   \* macIndex.byMAC
  read,    \* the age of macIndex.updated
  swept,   \* the age of macIndex.swept
  pc,      \* per refresher
  todo,    \* per refresher: the addresses it has still to provoke
  table,   \* per refresher: what it read, then the entries still to be named
  rows,    \* per request: its list
  last,    \* history: the age of the last sweep
  many,    \* history: a sweep began within a minute of another
  whole,   \* history, per request: its own sweep reached every address
  moves,   \* bounded
  still    \* history, per request: the machines that kept their address since it began, and no other was known

index == <<byMAC, read, swept>>
work == <<pc, todo, table, rows>>
history == <<last, many, whole, still>>
vars == <<place, moves, arp, index, work, history>>

Nothing == [m \in {} |-> None]
Alone(m, i) == \A n \in Machines : place[n] = i => n = m

Init ==
  /\ place \in [Machines -> Ips \cup {None}] /\ \A m \in Machines : place[m] # None => Alone(m, place[m])
  /\ moves = 0 /\ arp = [i \in Ips |-> None] /\ byMAC = Nothing /\ read = FreshFor /\ swept = MinSweep
  /\ pc = [p \in Refreshers |-> "idle"] /\ todo = [p \in Refreshers |-> {}]
  /\ table = [p \in Refreshers |-> Nothing] /\ rows = [r \in Requests |-> {}]
  /\ last = MinSweep /\ many = FALSE
  /\ whole = [r \in Requests |-> FALSE] /\ still = [r \in Requests |-> {}]

-----------------------------------------------------------------------------
(* macIndex.refresh. *)

Unresolved == \E m \in Tracked : m \notin DOMAIN byMAC

(* A machine the kernel knows at its address, or nowhere, and whose        *)
(* address it knows to be no other's.                                      *)
Settled(m) ==
  /\ place[m] # None /\ arp[place[m]] \in {m, None}
  /\ \A i \in Ips : arp[i] = m => i = place[m]

(* A request always looks, the round of the checks when a MAC it needs is  *)
(* unknown; otherwise a table read lately will do.                         *)
Begin(p) ==
  /\ pc[p] = "idle"
  /\ p \in Requests \/ Unresolved \/ read >= FreshFor
  /\ pc' = [pc EXCEPT ![p] = IF p \in Requests \/ Unresolved THEN "looking" ELSE "reading"]
  /\ still' = [r \in Requests |-> IF r = p THEN {m \in Machines : Settled(m)} ELSE still[r]]
  /\ UNCHANGED <<place, moves, arp, index, todo, table, rows, last, many, whole>>

(* Once a minute, whoever asks: swept is tested and set under one lock.    *)
Claim(p) ==
  /\ pc[p] = "looking"
  /\ \/ swept < MinSweep /\ pc' = [pc EXCEPT ![p] = "reading"] /\ UNCHANGED <<swept, todo, many, last>>
     \/ /\ swept >= MinSweep /\ swept' = 0
        /\ todo' = [todo EXCEPT ![p] = Ips] /\ pc' = [pc EXCEPT ![p] = "sweeping"]
        /\ many' = (many \/ last < MinSweep) /\ last' = 0
  /\ UNCHANGED <<place, moves, arp, byMAC, read, table, rows, whole, still>>

(* sweepLocalNets: the attempt makes the kernel resolve the address; an    *)
(* entry it has already may stay as it is.                                 *)
Holder(i) == IF \E m \in Machines : place[m] = i THEN CHOOSE m \in Machines : place[m] = i ELSE None
Provoke(p, i) ==
  /\ pc[p] = "sweeping" /\ i \in todo[p] /\ todo' = [todo EXCEPT ![p] = @ \ {i}]
  /\ \/ arp' = [arp EXCEPT ![i] = Holder(i)]
     \/ arp[i] \notin {None, Holder(i)} /\ UNCHANGED arp
  /\ UNCHANGED <<place, moves, index, pc, table, rows, history>>
EndSweep(p) ==   \* swept clean, or cut short by its eight seconds or by the request's end
  /\ pc[p] = "sweeping" /\ pc' = [pc EXCEPT ![p] = "reading"]
  /\ whole' = [r \in Requests |-> IF r = p THEN todo[p] = {} ELSE whole[r]]
  /\ todo' = [todo EXCEPT ![p] = {}] /\ UNCHANGED <<place, moves, arp, index, table, rows, last, many, still>>

(* readARP: of a machine at two addresses, the one listed last.            *)
TablesOf(a) ==
  LET known == {a[i] : i \in Ips} \ {None}
  IN {t \in [known -> Ips] : \A m \in known : a[t[m]] = m}
ReadARP(p) ==
  /\ pc[p] = "reading" /\ pc' = [pc EXCEPT ![p] = "storing"]
  /\ \E t \in TablesOf(arp) : table' = [table EXCEPT ![p] = t]
  /\ UNCHANGED <<place, moves, arp, index, todo, rows, history>>

Replaced_Merged(t) == [m \in DOMAIN t \cup DOMAIN byMAC |-> IF m \in DOMAIN t THEN t[m] ELSE byMAC[m]]   \* a bug
Replaced(t) == t

(* History: the requests whose own table is no longer the index's.         *)
Store(p) ==
  /\ pc[p] = "storing" /\ byMAC' = Replaced(table[p]) /\ read' = 0
  /\ pc' = [pc EXCEPT ![p] = IF p \in Requests THEN "listing" ELSE "idle"]
  /\ table' = [table EXCEPT ![p] = Nothing]
  /\ still' = [r \in Requests |-> IF r # p /\ pc[r] = "listing" THEN {} ELSE still[r]]
  /\ UNCHANGED <<place, moves, arp, swept, todo, rows, last, many, whole>>

-----------------------------------------------------------------------------
(* handleDiscover. *)

Snapshot(r) ==
  /\ pc[r] = "listing" /\ table' = [table EXCEPT ![r] = byMAC] /\ pc' = [pc EXCEPT ![r] = "naming"]
  /\ UNCHANGED <<place, moves, arp, index, todo, rows, history>>

(* tidyHostname, of mDNS and NetBIOS names; nameOf, of what was heard in   *)
(* time.                                                                   *)
Tidy(name) == IF name = "gateway" THEN "" ELSE name
NameOf(m, heard) ==
  LET said(s) == IF m = None \/ s \notin heard THEN "" ELSE Says[m][s]
  IN CASE said("ptr") # "" -> said("ptr")
       [] said("ptr") = "" /\ Tidy(said("mdns")) # "" -> Tidy(said("mdns"))
       [] OTHER -> Tidy(said("netbios"))

Row(r, m) ==
  /\ pc[r] = "naming" /\ m \in DOMAIN table[r]
  /\ \E heard \in Heard :
       LET ip == table[r][m]
       IN rows' = [rows EXCEPT ![r] = @ \cup {[mac |-> m, ip |-> ip, named |-> NameOf(Holder(ip), heard), by |-> Holder(ip)]}]
  /\ table' = [table EXCEPT ![r] = [n \in DOMAIN @ \ {m} |-> @[n]]]
  /\ UNCHANGED <<place, moves, arp, index, pc, todo, history>>

Answer(r) ==
  /\ pc[r] = "naming" /\ DOMAIN table[r] = {} /\ pc' = [pc EXCEPT ![r] = "idle"]
  /\ rows' = [rows EXCEPT ![r] = {}] /\ whole' = [whole EXCEPT ![r] = FALSE] /\ still' = [still EXCEPT ![r] = {}]
  /\ UNCHANGED <<place, moves, arp, index, todo, table, last, many>>

-----------------------------------------------------------------------------
(* External. *)

Move(m) ==
  /\ moves < MaxMoves /\ moves' = moves + 1
  /\ \E i \in (Ips \cup {None}) \ {place[m]} : (i = None \/ \A n \in Machines : place[n] # i) /\ place' = [place EXCEPT ![m] = i]
  /\ still' = [r \in Requests |-> still[r] \ {m}]
  /\ UNCHANGED <<arp, index, work, last, many, whole>>

(* The kernel drops an entry, though none an attempt has just made it      *)
(* fill.                                                                   *)
Forget(i) ==
  /\ arp[i] # None /\ (arp[i] # Holder(i) \/ \A p \in Refreshers : pc[p] \notin {"sweeping", "reading"})
  /\ arp' = [arp EXCEPT ![i] = None]
  /\ UNCHANGED <<place, moves, index, work, history>>

TimePasses ==
  /\ read' = Older(read, FreshFor) /\ swept' = Older(swept, MinSweep) /\ last' = Older(last, MinSweep)
  /\ UNCHANGED <<place, moves, arp, byMAC, work, many, whole, still>>

Refresh(p) == Begin(p) \/ Claim(p) \/ (\E i \in Ips : Provoke(p, i)) \/ EndSweep(p) \/ ReadARP(p) \/ Store(p)
Discover(r) == Snapshot(r) \/ (\E m \in Machines : Row(r, m)) \/ Answer(r)
Next ==
  \/ TimePasses \/ (\E m \in Machines : Move(m)) \/ (\E i \in Ips : Forget(i))
  \/ (\E p \in Refreshers : Refresh(p)) \/ (\E r \in Requests : Discover(r))

Spec == Init /\ [][Next]_vars

-----------------------------------------------------------------------------
(* The hub sweeps its networks at most once a minute, however many ask     *)
(* (minSweep).                                                             *)
SweepsAreFew == ~many

Listed(r) == pc[r] = "naming" /\ DOMAIN table[r] = {}

(* A list shows a machine that kept its address while the list was made in *)
(* at most one row, which is the only one with that address and has no     *)
(* name but the machine's own; it does show it if the request's own sweep  *)
(* reached the whole network.  That holds although other refreshes run and *)
(* devices come, go and take each other's addresses, unless another        *)
(* refresh ends between this one's end and its list.                       *)
RowsAreTrue ==
  \A r \in Requests : Listed(r) =>
    \A m \in still[r] :
      LET about == {row \in rows[r] : row.mac = m \/ row.ip = place[m]}
      IN /\ about = {} => ~whole[r]
         /\ \A row \in about : about = {row} /\ row.mac = m /\ row.ip = place[m] /\ row.by = m

DiscoveryIsTrue == SweepsAreFew /\ RowsAreTrue

-----------------------------------------------------------------------------
(* Not so: "Showing it would be reporting a name that the device does not  *)
(* have" (tidyHostname), of a name that came from reverse DNS. *)
NamesAreNames == \A r \in Requests : \A row \in rows[r] : row.named # "gateway"
=============================================================================
