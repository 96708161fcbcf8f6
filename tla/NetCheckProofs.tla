--------------------------- MODULE NetCheckProofs ---------------------------
(***************************************************************************)
(* A device shown as down has been announced as down, for any checks,      *)
(* addresses, machines and editors.                                        *)
(***************************************************************************)
EXTENDS NetChecks, TLAPS

IsTable(f) == DOMAIN f \subseteq Ids /\ \A i \in DOMAIN f : f[i] \in Configs

States == [cfg : Configs, up : BOOLEAN]
Outcomes == [cfg : Configs, found : BOOLEAN, up : BOOLEAN, who : SUBSET Machines]

(* The network and the kernel's table, the hub's tables and its file, and  *)
(* what a round carries from one of its steps to the next. *)
NetShape == at \in Bindings /\ arp \in Bindings /\ index \in Bindings
SavesShape ==
  /\ saving \in [Savers -> {"no", "must", "writing"}]
  /\ DOMAIN image = Savers /\ \A p \in Savers : IsTable(image[p])
TablesShape ==
  /\ IsTable(checks) /\ IsTable(disk)
  /\ DOMAIN state \subseteq Ids /\ \A i \in DOMAIN state : state[i] \in States
  /\ seen \subseteq Ids /\ wrong \subseteq Ids /\ told \in [Ids -> {"nothing", "down", "up"}]
RoundShape ==
  /\ pc \in {"idle", "probing", "announcing"}
  /\ IsTable(due) /\ DOMAIN results \subseteq Ids \ DOMAIN due
  /\ \A i \in DOMAIN results : results[i] \in Outcomes
  /\ changed \subseteq [id : Ids, up : BOOLEAN]
  /\ pc # "announcing" => changed = {}
  /\ pc # "probing" => DOMAIN results = {}
Shape == NetShape /\ SavesShape /\ TablesShape /\ RoundShape

Outage(i) == [id |-> i, up |-> FALSE]

(* An outage is told or waits to be told, and what waits to be told of a   *)
(* check is one thing, the outcome shown. *)
OutageIsKnown ==
  /\ \A i \in DOMAIN state : ~state[i].up => told[i] = "down" \/ Outage(i) \in changed
  /\ \A c \in changed : c.id \in DOMAIN state => c.up = state[c.id].up
  /\ \A c, d \in changed : c.id = d.id => c = d

IInv == Shape /\ OutageIsKnown

(* The operator hears that a check is down from the loop alone, and only   *)
(* while the loop announces what a round found (netcheck.go: runChecks     *)
(* returns the changes, netCheckLoop tells them); nothing unsays it but    *)
(* the news that it is up.                                                 *)
NewsIsOfARound ==
  \A i \in Ids : told'[i] # told[i] =>
    /\ pc = "announcing"
    /\ \E c \in changed : c.id = i /\ told'[i] = IF c.up THEN "up" ELSE "down"

Safely == IInv' /\ NewsIsOfARound
-----------------------------------------------------------------------------
(* A table without an entry, one that keeps some, the empty one. *)
LEMMA EntryTaken ==
  ASSUME NEW f, NEW i
  PROVE  /\ DOMAIN Without(f, i) = DOMAIN f \ {i}
         /\ \A j \in DOMAIN f \ {i} : Without(f, i)[j] = f[j]
  BY DEF Without, Restrict

LEMMA RestrictedIs ==
  ASSUME NEW f, NEW S \in SUBSET DOMAIN f
  PROVE  DOMAIN Restrict(f, S) = S /\ \A i \in S : Restrict(f, S)[i] = f[i]
  BY DEF Restrict

LEMMA EmptyIsTable == DOMAIN Empty = {} /\ IsTable(Empty)
  BY DEF Empty, IsTable

LEMMA NowhereIsBinding == Nowhere \in Bindings
  BY DEF Nowhere, Bindings

(* What leaves the outcomes, the news and the loop alone. *)
LEMMA Elsewhere ==
  ASSUME IInv, UNCHANGED <<state, pc, due, results, changed, told>>,
         NetShape', SavesShape',
         IsTable(checks'), IsTable(disk'), seen' \subseteq Ids, wrong' \subseteq Ids
  PROVE  Safely
<1>1. TablesShape' /\ RoundShape'
  BY DEF IInv, Shape, TablesShape, RoundShape, IsTable
<1>2. OutageIsKnown' /\ NewsIsOfARound
  BY DEF IInv, OutageIsKnown, Outage, NewsIsOfARound
<1> QED
  BY <1>1, <1>2 DEF Safely, IInv, Shape

(* An edit forgets the outcome, so that there is no outage to tell of. *)
LEMMA OutcomeForgotten ==
  ASSUME IInv, NEW i \in Ids, NEW e \in Editors, state' = Without(state, i), IsTable(checks'),
         saving' = [saving EXCEPT ![e] = "must"], wrong' = wrong \ {i},
         UNCHANGED <<net, index, disk, image, seen, round, told>>
  PROVE  Safely
<1>1. DOMAIN state' = DOMAIN state \ {i} /\ \A j \in DOMAIN state' : state'[j] = state[j]
  BY EntryTaken
<1>2. SavesShape'
  BY DEF IInv, Shape, SavesShape, IsTable, Savers
<1>3. TablesShape'
  BY <1>1 DEF IInv, Shape, TablesShape, IsTable
<1>4. NetShape' /\ RoundShape'
  BY DEF IInv, Shape, NetShape, RoundShape, IsTable, net, round
<1>5. OutageIsKnown'
  BY <1>1 DEF IInv, OutageIsKnown, Outage, round
<1>6. NewsIsOfARound
  BY DEF NewsIsOfARound
<1> QED
  BY <1>2, <1>3, <1>4, <1>5, <1>6 DEF Safely, IInv, Shape

LEMMA PutStep == ASSUME WrittenAssumption, IInv, NEW e \in Editors, NEW i \in Ids, Put(e, i) PROVE Safely
<1>1. PICK c \in Written : checks' = With(checks, i, c)
  BY DEF Put
<1>2. c \in Configs
  BY WrittenAssumption
<1>3. DOMAIN checks' = DOMAIN checks \cup {i} /\ checks'[i] = c
      /\ \A j \in DOMAIN checks \ {i} : checks'[j] = checks[j]
  BY <1>1 DEF With
<1>4. IsTable(checks')
  BY <1>2, <1>3 DEF IInv, Shape, TablesShape, IsTable
<1> QED
  BY <1>4, OutcomeForgotten DEF Put

LEMMA DeleteStep == ASSUME IInv, NEW e \in Editors, NEW i \in Ids, Delete(e, i) PROVE Safely
<1>1. DOMAIN checks' = DOMAIN checks \ {i} /\ \A j \in DOMAIN checks' : checks'[j] = checks[j]
  BY EntryTaken DEF Delete
<1>2. IsTable(checks')
  BY <1>1 DEF IInv, Shape, TablesShape, IsTable
<1> QED
  BY <1>2, OutcomeForgotten DEF Delete

LEMMA StartRoundStep == ASSUME IInv, StartRound PROVE Safely
<1>1. PICK picked \in SUBSET DOMAIN checks : due' = Restrict(checks, picked)
  BY DEF StartRound
<1>2. IsTable(due')
  BY <1>1, RestrictedIs DEF IInv, Shape, TablesShape, IsTable
<1>3. pc = "idle" /\ pc' = "probing" /\ UNCHANGED <<at, checks, state, files, seen, results, changed, history>>
  BY DEF StartRound
<1>4. NetShape'
  BY DEF StartRound, Refresh, IInv, Shape, NetShape
<1>5. SavesShape' /\ TablesShape'
  BY <1>3 DEF IInv, Shape, SavesShape, TablesShape, IsTable, files, history
<1>6. RoundShape'
  BY <1>2, <1>3 DEF IInv, Shape, RoundShape
<1>7. OutageIsKnown' /\ NewsIsOfARound
  BY <1>3 DEF IInv, OutageIsKnown, Outage, NewsIsOfARound, history
<1> QED
  BY <1>4, <1>5, <1>6, <1>7 DEF Safely, IInv, Shape

(* What a probe finds, and what it leaves in the kernel's table. *)
LEMMA ProbeFinds ==
  ASSUME Shape, NEW i \in DOMAIN due
  PROVE  Dialled(i) \in Outcomes /\ Resolve(arp, Dialled(i).cfg.addr) \in Bindings
<1> DEFINE c == due[i]
           ip == IF c.mac = None THEN None ELSE index[c.mac]
           a == IF ip = None THEN c.addr ELSE ip
<1>1. c \in Configs
  BY DEF Shape, RoundShape, IsTable
<1>2. c.addr \in Addrs /\ (c.mac # None => c.mac \in Machines)
  BY <1>1 DEF Configs
<1>3. a \in Addrs
  BY <1>2 DEF Shape, NetShape, Bindings
<1>4. [c EXCEPT !.addr = a] \in Configs /\ [c EXCEPT !.addr = a].addr = a
  <2> HIDE DEF a
  <2> QED
    BY <1>1, <1>3 DEF Configs
<1>5. Dialled(i) = [cfg |-> [c EXCEPT !.addr = a], found |-> ip # None, up |-> Holder(at, a) # {}, who |-> Holder(at, a)]
  BY DEF Dialled
<1>6. Holder(at, a) \in SUBSET Machines
  BY DEF Holder
<1>7. Dialled(i) \in Outcomes /\ Dialled(i).cfg.addr = a
  <2>1. \A g \in Configs, x, y \in BOOLEAN, w \in SUBSET Machines :
          [cfg |-> g, found |-> x, up |-> y, who |-> w] \in Outcomes
    BY DEF Outcomes
  <2>2. (ip # None) \in BOOLEAN /\ (Holder(at, a) # {}) \in BOOLEAN
    OBVIOUS
  <2>3. Dialled(i).cfg = [c EXCEPT !.addr = a]
    BY <1>5
  <2> HIDE DEF a, c, ip
  <2>4. Dialled(i) \in Outcomes
    BY <1>4, <1>5, <1>6, <2>1, <2>2
  <2> QED
    BY <1>4, <2>3, <2>4
<1>8. Resolve(arp, a) \in Bindings
  <2> HIDE DEF a
  <2> QED
    BY <1>3 DEF Resolve, Bindings, Shape, NetShape
<1> QED
  BY <1>7, <1>8

LEMMA ProbeStep == ASSUME IInv, NEW i \in Ids, Probe(i) PROVE Safely
<1>1. i \in DOMAIN due /\ pc = "probing" /\ results' = With(results, i, Dialled(i)) /\ due' = Without(due, i)
      /\ arp' = Resolve(arp, Dialled(i).cfg.addr)
      /\ UNCHANGED <<at, index, checks, state, files, seen, pc, changed, history>>
  BY DEF Probe
<1>2. Dialled(i) \in Outcomes /\ arp' \in Bindings
  BY <1>1, ProbeFinds DEF IInv
<1>3. DOMAIN results' = DOMAIN results \cup {i} /\ results'[i] = Dialled(i)
      /\ \A j \in DOMAIN results \ {i} : results'[j] = results[j]
  BY <1>1 DEF With
<1>4. DOMAIN due' = DOMAIN due \ {i} /\ \A j \in DOMAIN due' : due'[j] = due[j]
  BY <1>1, EntryTaken
<1>5. NetShape'
  BY <1>1, <1>2 DEF IInv, Shape, NetShape
<1>6. SavesShape' /\ TablesShape'
  BY <1>1 DEF IInv, Shape, SavesShape, TablesShape, IsTable, files, history
<1>7. RoundShape'
  <2>1. \A j \in DOMAIN results' : results'[j] \in Outcomes
    BY <1>2, <1>3 DEF IInv, Shape, RoundShape
  <2> QED
    BY <1>1, <1>3, <1>4, <2>1 DEF IInv, Shape, RoundShape, IsTable
<1>8. OutageIsKnown' /\ NewsIsOfARound
  BY <1>1 DEF IInv, OutageIsKnown, Outage, NewsIsOfARound, history
<1> QED
  BY <1>5, <1>6, <1>7, <1>8 DEF Safely, IInv, Shape

(* Recording: a check that learns its machine is still a check, and an     *)
(* outcome is news unless it is what was shown. *)
LEMMA UpIsBoolean == ASSUME NEW r \in Outcomes PROVE Up(r) \in BOOLEAN
  BY DEF Up, Outcomes

LEMMA LearnedIsConfig ==
  ASSUME NEW c \in Configs, NEW m \in Machines
  PROVE  [c EXCEPT !.mac = m, !.learned = TRUE] \in Configs
  BY DEF Configs

LEMMA RecordShapes == ASSUME Shape, Record PROVE SavesShape' /\ TablesShape'
<1> DEFINE learning == {i \in DOMAIN results : Learns(i, results[i])}
           bound(m, i, c) == IF i \in learning THEN [c EXCEPT !.mac = m[i], !.learned = TRUE] ELSE c
           shown(m, i) == [cfg |-> bound(m, i, results[i].cfg), up |-> Up(results[i])]
<1>1. PICK m \in [Ids -> Machines] :
        /\ checks' = [i \in DOMAIN checks |-> bound(m, i, checks[i])]
        /\ state' = [i \in DOMAIN results \cup DOMAIN state |-> IF i \in DOMAIN results THEN shown(m, i) ELSE state[i]]
        /\ saving' = [saving EXCEPT !["loop"] = IF learning = {} THEN @ ELSE "must"]
        /\ wrong' = wrong \cup {i \in learning : m[i] \notin results[i].who}
  BY DEF Record
<1>2. DOMAIN results \subseteq Ids /\ learning \subseteq Ids
  BY DEF Shape, RoundShape
<1>3. \A i \in Ids, c \in Configs : bound(m, i, c) \in Configs
  BY LearnedIsConfig
<1>4. \A i \in DOMAIN results : shown(m, i) \in States
  <2> SUFFICES ASSUME NEW i \in DOMAIN results PROVE shown(m, i) \in States
    OBVIOUS
  <2>1. results[i] \in Outcomes
    BY DEF Shape, RoundShape
  <2>2. results[i].cfg \in Configs
    BY <2>1 DEF Outcomes
  <2>3. bound(m, i, results[i].cfg) \in Configs /\ Up(results[i]) \in BOOLEAN
    BY <1>2, <1>3, <2>1, <2>2, UpIsBoolean
  <2> HIDE DEF bound
  <2> QED
    BY <2>3 DEF States
<1>5. IsTable(checks')
  <2>1. DOMAIN checks' = DOMAIN checks /\ \A i \in DOMAIN checks : checks'[i] = bound(m, i, checks[i])
    BY <1>1
  <2> HIDE DEF bound
  <2> QED
    BY <1>3, <2>1 DEF Shape, TablesShape, IsTable
<1>6. DOMAIN state' \subseteq Ids /\ \A i \in DOMAIN state' : state'[i] \in States
  <2> HIDE DEF shown, learning
  <2> QED
    BY <1>1, <1>2, <1>4 DEF Shape, TablesShape
<1>7. wrong' \subseteq Ids
  BY <1>1, <1>2 DEF Shape, TablesShape
<1>8. SavesShape'
  <2>1. saving' \in [Savers -> {"no", "must", "writing"}]
    <3> HIDE DEF learning
    <3> QED
      BY <1>1 DEF Shape, SavesShape
  <2> QED
    BY <2>1 DEF Record, Shape, SavesShape, IsTable
<1> QED
  BY <1>5, <1>6, <1>7, <1>8 DEF Record, Shape, TablesShape, IsTable

LEMMA RecordStep == ASSUME IInv, Record PROVE Safely
<1>1. pc = "probing" /\ changed = {} /\ pc' = "announcing" /\ results' = Empty
      /\ UNCHANGED <<net, index, disk, image, seen, due, told>>
  BY DEF Record, IInv, Shape, RoundShape
<1>2. /\ DOMAIN state' = DOMAIN results \cup DOMAIN state
      /\ \A i \in DOMAIN results : state'[i].up = Up(results[i])
      /\ \A i \in DOMAIN state \ DOMAIN results : state'[i] = state[i]
  <2> DEFINE learning == {i \in DOMAIN results : Learns(i, results[i])}
             bound(m, i, c) == IF i \in learning THEN [c EXCEPT !.mac = m[i], !.learned = TRUE] ELSE c
  <2>1. PICK m \in [Ids -> Machines] :
          state' = [i \in DOMAIN results \cup DOMAIN state |->
            IF i \in DOMAIN results THEN [cfg |-> bound(m, i, results[i].cfg), up |-> Up(results[i])] ELSE state[i]]
    BY DEF Record
  <2> HIDE DEF bound, learning
  <2> QED
    BY <2>1
<1>3. \A c : c \in changed' <=> \E i \in DOMAIN results : IsChange(i, results[i]) /\ c = [id |-> i, up |-> Up(results[i])]
  BY DEF Record
<1>4. SavesShape' /\ TablesShape'
  BY RecordShapes DEF IInv
<1>5. changed' \subseteq [id : Ids, up : BOOLEAN]
  BY <1>3, UpIsBoolean DEF IInv, Shape, RoundShape
<1>6. NetShape' /\ RoundShape'
  BY <1>1, <1>5, EmptyIsTable DEF IInv, Shape, NetShape, RoundShape, IsTable, net
<1>7. \A i \in DOMAIN state' : ~state'[i].up => told'[i] = "down" \/ Outage(i) \in changed'
  <2> SUFFICES ASSUME NEW i \in DOMAIN state', ~state'[i].up PROVE told[i] = "down" \/ Outage(i) \in changed'
    BY <1>1
  <2>1. CASE i \notin DOMAIN results
    BY <1>1, <1>2, <2>1 DEF IInv, OutageIsKnown
  <2>2. CASE i \in DOMAIN results /\ ~IsChange(i, results[i])
    <3>1. i \in DOMAIN state /\ state[i].up = Up(results[i])
      BY <2>2 DEF IsChange
    <3> QED
      BY <1>1, <1>2, <2>2, <3>1 DEF IInv, OutageIsKnown
  <2>3. CASE i \in DOMAIN results /\ IsChange(i, results[i])
    <3>1. Up(results[i]) = FALSE
      BY <1>2, <2>3, UpIsBoolean DEF IInv, Shape, RoundShape
    <3>2. [id |-> i, up |-> Up(results[i])] \in changed'
      BY <1>3, <2>3
    <3> QED
      BY <3>1, <3>2 DEF Outage
  <2> QED
    BY <2>1, <2>2, <2>3
<1>8. \A c \in changed' : c.up = Up(results[c.id]) /\ c.id \in DOMAIN results /\ c = [id |-> c.id, up |-> Up(results[c.id])]
  BY <1>3
<1>9. OutageIsKnown'
  BY <1>2, <1>7, <1>8 DEF OutageIsKnown
<1>10. NewsIsOfARound
  BY <1>1 DEF NewsIsOfARound
<1> QED
  BY <1>4, <1>6, <1>9, <1>10 DEF Safely, IInv, Shape

LEMMA AnnounceStep == ASSUME IInv, NEW c \in changed, Announce(c) PROVE Safely
<1>1. pc = "announcing" /\ changed' = changed \ {c}
      /\ UNCHANGED <<net, index, checks, state, files, pc, due, results, wrong>>
  BY DEF Announce
<1>2. c.id \in Ids /\ c.up \in BOOLEAN /\ c = [id |-> c.id, up |-> c.up]
  BY DEF IInv, Shape, RoundShape
<1>3. /\ \A i \in Ids \ {c.id} : told'[i] = told[i]
      /\ ~c.up => told'[c.id] = "down"
      /\ c.up => told'[c.id] \in {told[c.id], "up"}
      /\ told' \in [Ids -> {"nothing", "down", "up"}]
  BY <1>2 DEF Announce, IInv, Shape, TablesShape
<1>4. seen' \subseteq Ids
  BY <1>2 DEF Announce, IInv, Shape, TablesShape
<1>5. Shape'
  <2>1. NetShape' /\ SavesShape'
    BY <1>1 DEF IInv, Shape, NetShape, SavesShape, IsTable, net, files
  <2>2. TablesShape'
    BY <1>1, <1>3, <1>4 DEF IInv, Shape, TablesShape, IsTable, files
  <2>3. RoundShape'
    BY <1>1 DEF IInv, Shape, RoundShape, IsTable
  <2> QED
    BY <2>1, <2>2, <2>3 DEF Shape
<1>6. \A i \in DOMAIN state : ~state[i].up => told'[i] = "down" \/ Outage(i) \in changed'
  <2> SUFFICES ASSUME NEW i \in DOMAIN state, ~state[i].up PROVE told'[i] = "down" \/ Outage(i) \in changed'
    OBVIOUS
  <2>1. CASE i = c.id
    BY <1>3, <2>1 DEF IInv, OutageIsKnown
  <2>2. CASE i # c.id
    <3>1. i \in Ids /\ Outage(i) # c
      BY <2>2 DEF IInv, Shape, TablesShape, Outage
    <3> QED
      BY <1>1, <1>3, <2>2, <3>1 DEF IInv, OutageIsKnown
  <2> QED
    BY <2>1, <2>2
<1>7. OutageIsKnown'
  BY <1>1, <1>6 DEF IInv, OutageIsKnown, Outage
<1>8. NewsIsOfARound
  BY <1>1, <1>2, <1>3 DEF NewsIsOfARound
<1> QED
  BY <1>5, <1>7, <1>8 DEF Safely, IInv

LEMMA EndRoundStep == ASSUME IInv, EndRound PROVE Safely
<1>1. pc = "announcing" /\ changed = {} /\ pc' = "idle" /\ changed' = {}
      /\ UNCHANGED <<net, index, checks, state, files, seen, due, results, history>>
  BY DEF EndRound
<1>2. NetShape' /\ SavesShape' /\ TablesShape'
  BY <1>1 DEF IInv, Shape, NetShape, SavesShape, TablesShape, IsTable, net, files, history
<1>3. RoundShape'
  BY <1>1 DEF IInv, Shape, RoundShape, IsTable
<1>4. OutageIsKnown' /\ NewsIsOfARound
  BY <1>1 DEF IInv, OutageIsKnown, Outage, NewsIsOfARound, history
<1> QED
  BY <1>2, <1>3, <1>4 DEF Safely, IInv, Shape

LEMMA SnapshotStep == ASSUME IInv, NEW p \in Savers, Snapshot(p) PROVE Safely
<1>1. SavesShape'
  BY DEF Snapshot, IInv, Shape, SavesShape, TablesShape, IsTable
<1>2. NetShape' /\ IsTable(checks') /\ IsTable(disk') /\ seen' \subseteq Ids /\ wrong' \subseteq Ids
  BY DEF Snapshot, IInv, Shape, NetShape, TablesShape, IsTable, net, history
<1> QED
  BY <1>1, <1>2, Elsewhere DEF Snapshot, round, history

LEMMA WriteStep == ASSUME IInv, NEW p \in Savers, Write(p) PROVE Safely
<1>1. SavesShape'
  BY EmptyIsTable DEF Write, IInv, Shape, SavesShape, IsTable
<1>2. NetShape' /\ IsTable(checks') /\ IsTable(disk') /\ seen' \subseteq Ids /\ wrong' \subseteq Ids
  BY DEF Write, IInv, Shape, NetShape, SavesShape, TablesShape, IsTable, net, history
<1> QED
  BY <1>1, <1>2, Elsewhere DEF Write, round, history

LEMMA MoveStep == ASSUME ReachAssumption, IInv, NEW m \in Machines, Move(m) PROVE Safely
<1>1. PICK a \in Reach[m] \cup {None} : at' = [at EXCEPT ![m] = a]
  BY DEF Move
<1>2. a \in Addrs \cup {None}
  BY ReachAssumption
<1>3. NetShape'
  BY <1>1, <1>2 DEF Move, IInv, Shape, NetShape, Bindings
<1>4. SavesShape' /\ IsTable(checks') /\ IsTable(disk') /\ seen' \subseteq Ids /\ wrong' \subseteq Ids
  BY DEF Move, IInv, Shape, SavesShape, TablesShape, IsTable, files, history
<1> QED
  BY <1>3, <1>4, Elsewhere DEF Move, round, history

(* The hub starts: only the file is left, so that no outcome is shown. *)
LEMMA RestartStep == ASSUME IInv, Restart PROVE Safely
<1>1. DOMAIN state' = {} /\ changed' = {} /\ DOMAIN results' = {} /\ pc' = "idle"
  BY EmptyIsTable DEF Restart
<1>2. NetShape'
  BY NowhereIsBinding DEF Restart, IInv, Shape, NetShape, net
<1>3. SavesShape'
  BY EmptyIsTable DEF Restart, SavesShape, IsTable
<1>4. TablesShape'
  BY <1>1 DEF Restart, IInv, Shape, TablesShape, IsTable
<1>5. RoundShape'
  BY <1>1, EmptyIsTable DEF Restart, RoundShape, IsTable
<1>6. OutageIsKnown' /\ NewsIsOfARound
  BY <1>1 DEF Restart, OutageIsKnown, NewsIsOfARound
<1> QED
  BY <1>2, <1>3, <1>4, <1>5, <1>6 DEF Safely, IInv, Shape

LEMMA InitIsSound == Init => IInv
<1> SUFFICES ASSUME Init PROVE IInv
  OBVIOUS
<1>1. DOMAIN state = {} /\ changed = {} /\ DOMAIN results = {} /\ pc = "idle"
  BY EmptyIsTable DEF Init
<1>2. NetShape
  BY NowhereIsBinding DEF Init, NetShape
<1>3. SavesShape
  BY EmptyIsTable DEF Init, SavesShape, IsTable
<1>4. TablesShape
  BY <1>1, EmptyIsTable DEF Init, TablesShape, IsTable
<1>5. RoundShape
  BY <1>1, EmptyIsTable DEF Init, RoundShape, IsTable
<1>6. OutageIsKnown
  BY <1>1 DEF OutageIsKnown
<1> QED
  BY <1>2, <1>3, <1>4, <1>5, <1>6 DEF IInv, Shape

LEMMA StepIsSound == IInv /\ [Next]_vars => Safely
<1> SUFFICES ASSUME IInv, [Next]_vars PROVE Safely
  OBVIOUS
<1>1. CASE StartRound
  BY <1>1, StartRoundStep
<1>2. CASE Record
  BY <1>2, RecordStep
<1>3. CASE EndRound
  BY <1>3, EndRoundStep
<1>4. ASSUME NEW i \in Ids, Probe(i) PROVE Safely
  BY <1>4, ProbeStep
<1>5. ASSUME NEW c \in changed, Announce(c) PROVE Safely
  BY <1>5, AnnounceStep
<1>6. CASE Restart
  BY <1>6, RestartStep
<1>7. ASSUME NEW p \in Savers, Save(p) PROVE Safely
  BY <1>7, SnapshotStep, WriteStep DEF Save
<1>8. ASSUME NEW e \in Editors, NEW i \in Ids, Put(e, i) \/ Delete(e, i) PROVE Safely
  BY <1>8, PutStep, DeleteStep, WrittenAssumption
<1>9. ASSUME NEW m \in Machines, Move(m) PROVE Safely
  BY <1>9, MoveStep, ReachAssumption
<1>10. CASE UNCHANGED vars
  <2>1. NetShape' /\ SavesShape' /\ IsTable(checks') /\ IsTable(disk') /\ seen' \subseteq Ids /\ wrong' \subseteq Ids
    BY <1>10 DEF vars, IInv, Shape, NetShape, SavesShape, TablesShape, IsTable, net, files, history
  <2> QED
    BY <1>10, <2>1, Elsewhere DEF vars, round, history
<1> QED
  BY <1>1, <1>2, <1>3, <1>4, <1>5, <1>6, <1>7, <1>8, <1>9, <1>10 DEF Next, Loop

LEMMA Inductive == Spec => []IInv
<1>1. IInv /\ [Next]_vars => IInv'
  BY StepIsSound DEF Safely
<1> QED
  BY <1>1, InitIsSound, PTL DEF Spec

-----------------------------------------------------------------------------
(* Every table of the checks, in memory, on its way to the file and in it, *)
(* holds checks, and the network and the round are as they are meant to    *)
(* (netcheck.go, arp.go).                                                  *)
THEOREM NetCheckTypes == Spec => []TypeOK
<1>1. IInv => TypeOK
  BY DEF IInv, Shape, NetShape, SavesShape, TablesShape, RoundShape, IsTable, TypeOK, States
<1> QED
  BY <1>1, Inductive, PTL

(* When the loop rests, the operator has heard of every device that is     *)
(* shown as down that it is (netcheck.go: runChecks, netCheckLoop).        *)
THEOREM OutagesAreAnnounced == Spec => []OutageIsAnnounced
<1>1. IInv => OutageIsAnnounced
  BY DEF IInv, Shape, RoundShape, OutageIsKnown, OutageIsAnnounced
<1> QED
  BY <1>1, Inductive, PTL

(* What the operator hears of a check is what a round found, one thing for *)
(* each (netcheck.go: runChecks, netCheckLoop).                            *)
THEOREM NewsComesFromRounds == Spec => [][NewsIsOfARound]_vars
<1>1. IInv /\ [Next]_vars => [NewsIsOfARound]_vars
  BY StepIsSound DEF Safely
<1> QED
  BY <1>1, Inductive, PTL DEF Spec
=============================================================================
