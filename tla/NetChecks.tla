----------------------------- MODULE NetChecks -----------------------------
(***************************************************************************)
(* Agentless checks (server/netcheck.go, with the MAC index of             *)
(* server/arp.go): the hub's loop probes what is due, records the results, *)
(* learns which machine answers at an address, saves what it learned and   *)
(* announces changes; meanwhile operators edit and delete checks, DHCP     *)
(* moves the machines, and the hub restarts from the file.                 *)
(*                                                                         *)
(* Abstracted: a device answers a probe exactly when some machine holds    *)
(* the address (a refusal is an answer), and the probe corrects the        *)
(* address's entry in the ARP table; links, certificates, SNMP and JSON    *)
(* readings, secrets; apps, whose MAC is never learned.  Intervals: a      *)
(* check that has a result may or may not be due.  os.WriteFile is one     *)
(* step here.  Operators named Action_Fault are single-fault variants.     *)
(***************************************************************************)
EXTENDS FiniteSets, Functions

CONSTANTS
  Ids, Addrs, Machines, None,
  Reach,      \* Reach[m]: the addresses machine m may be given
  Editors,    \* requests that create, edit or delete checks
  Written     \* what they write: a subset of Configs

Configs == [addr : Addrs, mac : Machines \cup {None}, learned : BOOLEAN]
ASSUME WrittenAssumption == Written \subseteq {c \in Configs : ~c.learned}
ASSUME ReachAssumption == Reach \in [Machines -> SUBSET Addrs]
ASSUME NamesAssumption == None \notin Machines \cup Addrs /\ "loop" \notin Editors

Savers == Editors \cup {"loop"}

VARIABLES
  at,       \* at[m]: the address machine m holds
  arp,      \* the kernel's ARP table
  index,    \* macIndex.byMAC, as last read
  checks,   \* netChecks.checks
  state,    \* netChecks.state: the configuration probed and its outcome
  disk,     \* netchecks.json
  seen,     \* Server.netSeen
  pc,       \* the loop
  due,      \* the copies of checks still to be probed in this round
  results,  \* [cfg, found, up, who] of those probed; who answered is history
  changed,  \* [id, up] to be announced
  saving,   \* saving[p]: "no", "must" (save was called) or "writing"
  image,    \* image[p]: what p is writing
  told,     \* history: what the operator last heard of a check
  wrong     \* history: checks bound to a machine other than the one that answered

net == <<at, arp>>
files == <<disk, saving, image>>
round == <<pc, due, results, changed>>
history == <<told, wrong>>
vars == <<net, index, checks, state, files, seen, round, history>>

Empty == [i \in {} |-> 0]
Nowhere == [m \in Machines |-> None]
Without(f, i) == Restrict(f, DOMAIN f \ {i})
With(f, i, v) == [j \in DOMAIN f \cup {i} |-> IF j = i THEN v ELSE f[j]]

Init ==
  /\ at = Nowhere /\ arp = Nowhere /\ index = Nowhere
  /\ checks = Empty /\ state = Empty /\ disk = Empty /\ seen = {}
  /\ pc = "idle" /\ due = Empty /\ results = Empty /\ changed = {}
  /\ saving = [p \in Savers |-> "no"] /\ image = [p \in Savers |-> Empty]
  /\ told = [i \in Ids |-> "nothing"] /\ wrong = {}

Holder(table, a) == {m \in Machines : table[m] = a}

-----------------------------------------------------------------------------
(* netCheckLoop and runChecks. *)

Unresolved(cs) == \E i \in DOMAIN cs : cs[i].mac # None /\ index[cs[i].mac] = None

(* refresh: skipped while fresh; the sweep makes the kernel resolve every  *)
(* address, at most once a minute. *)
Refresh(cs) ==
  \/ UNCHANGED <<arp, index>>
  \/ arp' = arp /\ index' = arp
  \/ Unresolved(cs) /\ arp' = at /\ index' = at

StartRound ==
  /\ pc = "idle"
  /\ \E picked \in SUBSET DOMAIN checks :
       /\ DOMAIN checks \ DOMAIN state \subseteq picked /\ picked # {}
       /\ due' = Restrict(checks, picked)
  /\ Refresh(due')
  /\ pc' = "probing"
  /\ UNCHANGED <<at, checks, state, files, seen, results, changed, history>>

(* The kernel resolves an address to use it, or finds that nobody has it. *)
Resolve(table, a) ==
  [m \in Machines |-> IF at[m] = a THEN a ELSE IF table[m] = a THEN None ELSE table[m]]

Dialled(i) ==
  LET c == due[i]
      ip == IF c.mac = None THEN None ELSE index[c.mac]
      a == IF ip = None THEN c.addr ELSE ip
  IN [cfg |-> [c EXCEPT !.addr = a], found |-> ip # None, up |-> Holder(at, a) # {}, who |-> Holder(at, a)]

(* One probe, of the address the MAC resolves to or else the one recorded. *)
Probe(i) ==
  /\ pc = "probing" /\ i \in DOMAIN due
  /\ results' = With(results, i, Dialled(i))
  /\ arp' = Resolve(arp, Dialled(i).cfg.addr)
  /\ due' = Without(due, i)
  /\ UNCHANGED <<at, index, checks, state, files, seen, pc, changed, history>>

(* A typed-in MAC that is not found is a device that is not there. *)
Up_AnyAnswer(r) == r.up
Up(r) == r.up /\ (r.cfg.mac # None /\ ~r.cfg.learned => r.found)

IsChange_NotFirst(i, r) == i \in DOMAIN state /\ state[i].up # Up(r)
IsChange(i, r) == i \in DOMAIN state => state[i].up # Up(r)

Learns(i, r) ==
  /\ i \in DOMAIN checks /\ checks[i].mac = None /\ Up(r)
  /\ Holder(index, checks[i].addr) # {}

(* The results are recorded under one lock. *)
Record ==
  /\ pc = "probing" /\ DOMAIN due = {}
  /\ \E m \in [Ids -> Machines] :
       LET learning == {i \in DOMAIN results : Learns(i, results[i])}
           bound(i, c) == IF i \in learning THEN [c EXCEPT !.mac = m[i], !.learned = TRUE] ELSE c
       IN /\ \A i \in Ids : i \in learning => m[i] \in Holder(index, checks[i].addr)
          /\ checks' = [i \in DOMAIN checks |-> bound(i, checks[i])]
          /\ state' = [i \in DOMAIN results \cup DOMAIN state |->
               IF i \in DOMAIN results THEN [cfg |-> bound(i, results[i].cfg), up |-> Up(results[i])] ELSE state[i]]
          /\ saving' = [saving EXCEPT !["loop"] = IF learning = {} THEN @ ELSE "must"]
          /\ wrong' = wrong \cup {i \in learning : m[i] \notin results[i].who}
  /\ changed' = {[id |-> i, up |-> Up(results[i])] : i \in {j \in DOMAIN results : IsChange(j, results[j])}}
  /\ results' = Empty
  /\ pc' = "announcing"
  /\ UNCHANGED <<net, index, disk, image, seen, due, told>>

(* A first result that is up is not news; netFirstSeen is asked, and       *)
(* answers for good, only about results that are up. *)
Announce(c) ==
  /\ pc = "announcing" /\ saving["loop"] = "no" /\ c \in changed
  /\ told' = IF c.up /\ c.id \notin seen THEN told
             ELSE [told EXCEPT ![c.id] = IF c.up THEN "up" ELSE "down"]
  /\ seen' = IF c.up THEN seen \cup {c.id} ELSE seen
  /\ changed' = changed \ {c}
  /\ UNCHANGED <<net, index, checks, state, files, pc, due, results, wrong>>

EndRound ==
  /\ pc = "announcing" /\ saving["loop"] = "no" /\ changed = {}
  /\ pc' = "idle"
  /\ UNCHANGED <<net, index, checks, state, files, seen, due, results, changed, history>>

-----------------------------------------------------------------------------
(* handleNetChecks, and save. *)

Put(e, i) ==
  /\ saving[e] = "no"
  /\ \E c \in Written : checks' = With(checks, i, c)
  /\ state' = Without(state, i)
  /\ saving' = [saving EXCEPT ![e] = "must"]
  /\ wrong' = wrong \ {i}
  /\ UNCHANGED <<net, index, disk, image, seen, round, told>>

Delete(e, i) ==
  /\ saving[e] = "no" /\ i \in DOMAIN checks
  /\ checks' = Without(checks, i)
  /\ state' = Without(state, i)
  /\ saving' = [saving EXCEPT ![e] = "must"]
  /\ wrong' = wrong \ {i}
  /\ UNCHANGED <<net, index, disk, image, seen, round, told>>

(* save lists the checks under the lock, and writes them outside it. *)
Snapshot(p) ==
  /\ saving[p] = "must"
  /\ image' = [image EXCEPT ![p] = checks]
  /\ saving' = [saving EXCEPT ![p] = "writing"]
  /\ UNCHANGED <<net, index, checks, state, disk, seen, round, history>>

Write(p) ==
  /\ saving[p] = "writing"
  /\ disk' = image[p]
  /\ image' = [image EXCEPT ![p] = Empty]
  /\ saving' = [saving EXCEPT ![p] = "no"]
  /\ UNCHANGED <<net, index, checks, state, seen, round, history>>

(* The hub stops and starts: newNetChecks reads the file. *)
Restart ==
  /\ checks' = disk
  /\ state' = Empty /\ index' = Nowhere /\ seen' = {}
  /\ pc' = "idle" /\ due' = Empty /\ results' = Empty /\ changed' = {}
  /\ saving' = [p \in Savers |-> "no"] /\ image' = [p \in Savers |-> Empty]
  /\ wrong' = {i \in wrong : i \in DOMAIN disk /\ disk[i].learned}
  /\ UNCHANGED <<net, disk, told>>

(* A machine takes a free address, or leaves the network. *)
Move(m) ==
  /\ \E a \in Reach[m] \cup {None} :
       /\ a # None => Holder(at, a) = {}
       /\ at' = [at EXCEPT ![m] = a]
  /\ UNCHANGED <<arp, index, checks, state, files, seen, round, history>>

-----------------------------------------------------------------------------
Loop ==
  \/ StartRound \/ Record \/ EndRound
  \/ \E i \in Ids : Probe(i)
  \/ \E c \in changed : Announce(c)

Save(p) == Snapshot(p) \/ Write(p)

Next ==
  \/ Loop \/ Restart
  \/ \E p \in Savers : Save(p)
  \/ \E e \in Editors, i \in Ids : Put(e, i) \/ Delete(e, i)
  \/ \E m \in Machines : Move(m)

Spec == Init /\ [][Next]_vars

(* The loop runs, and no check, nor the reading of the ARP table, is       *)
(* passed over for ever. *)
Checks(i) == StartRound /\ i \in DOMAIN due'
Rereads == StartRound /\ index' = arp'
Sweeps == StartRound /\ index' = at /\ arp' = at
FairSpec ==
  /\ Spec
  /\ WF_vars(Loop) /\ WF_vars(Save("loop"))
  /\ SF_vars(Rereads) /\ SF_vars(Sweeps) /\ \A i \in Ids : SF_vars(Checks(i))

-----------------------------------------------------------------------------
Bindings == [Machines -> Addrs \cup {None}]

TypeOK ==
  /\ at \in Bindings /\ arp \in Bindings /\ index \in Bindings
  /\ \A f \in {checks, disk, due} \cup {image[p] : p \in Savers} :
       DOMAIN f \subseteq Ids /\ \A i \in DOMAIN f : f[i] \in Configs
  /\ DOMAIN state \subseteq Ids /\ \A i \in DOMAIN state : state[i] \in [cfg : Configs, up : BOOLEAN]
  /\ seen \subseteq Ids /\ wrong \subseteq Ids
  /\ pc \in {"idle", "probing", "announcing"}
  /\ DOMAIN results \subseteq Ids \ DOMAIN due
  /\ changed \subseteq [id : Ids, up : BOOLEAN]
  /\ saving \in [Savers -> {"no", "must", "writing"}]
  /\ told \in [Ids -> {"nothing", "down", "up"}]

(* A device shown as down has been announced as down, whatever edits and   *)
(* rounds came before, and the hub's restarts.                             *)
OutageIsAnnounced ==
  pc = "idle" => \A i \in DOMAIN state : ~state[i].up => told[i] = "down"

(* Once the operators leave a check alone and the hub stays up:            *)
Undisturbed(i, m) ==
  /\ i \in DOMAIN checks /\ checks[i].mac = m /\ ~checks[i].learned
  /\ \A e \in Editors : saving[e] = "no"
StaysUp == <>[][~Restart]_vars

(* a check bound to a machine that has left for good ends up down, even    *)
(* when other machines take the addresses it held;                         *)
GoneDeviceGoesDown ==
  StaysUp => \A i \in Ids, m \in Machines :
    <>[](Undisturbed(i, m) /\ at[m] = None) => <>[](i \in DOMAIN state /\ ~state[i].up)

(* and one whose machine stays at some address ends up up, wherever it is. *)
PresentDeviceComesUp ==
  StaysUp => \A i \in Ids, m \in Machines, a \in Addrs :
    <>[](Undisturbed(i, m) /\ at[m] = a) => <>[](i \in DOMAIN state /\ state[i].up)

(* A check by MAC is about its machine, not about an address (checkMAC).   *)
FollowsTheMachine == GoneDeviceGoesDown /\ PresentDeviceComesUp

-----------------------------------------------------------------------------
(* What comments and tests say, and the code does not do. *)

(* netCheckLoop: "A first observation of a device that is up is not news;  *)
(* every other transition is."  So the operator who was told it is down    *)
(* hears that it came back.                                                *)
RecoveryIsAnnounced ==
  pc = "idle" => \A i \in DOMAIN state : state[i].up => told[i] # "down"

(* runChecks: "returns the checks whose state changed, so the alerter can  *)
(* notify on transitions only".                                            *)
OnlyOutagesRecover == [][\A i \in Ids : told[i] = "nothing" => told'[i] # "up"]_vars

(* handleNetChecks: "an edited check re-probes rather than showing stale   *)
(* state".                                                                 *)
ResultIsOfThisCheck ==
  \A i \in DOMAIN state : i \in DOMAIN checks /\ (checks[i].mac = None => state[i].cfg.addr = checks[i].addr)

(* "Only for a device that answered: ... binding a check to the wrong      *)
(* machine permanently is worse than not binding it at all."               *)
LearnedFromTheAnswer == wrong = {}

(* netcheck_test.go: "Checks must survive a hub restart."                  *)
SavedChecksSurvive == (\A p \in Savers : saving[p] = "no") => disk = checks

=============================================================================
