---------------------------- MODULE ControlProofs ---------------------------
(***************************************************************************)
(* What holds of a control connection.  The registry's invariants, and     *)
(* that its handlers implement the directory of channels, for any hosts,   *)
(* connections, pushers and queue capacity.  The work asked for on a       *)
(* connection goes on without it, for any connections.  And what the hub   *)
(* shows of a machine it has measured, for any number of intervals.        *)
(***************************************************************************)
EXTENDS MCHostRegistry, TLAPS

-----------------------------------------------------------------------------
(* The registry (HostRegistry). *)

LEMMA TypeStep == ASSUME TypeOK, [Next]_vars PROVE TypeOK'
<1> USE NoneIsNotAConn, QueueCapIsPositive DEF TypeOK
<1>1. ASSUME NEW c \in Conns, Register(c) PROVE TypeOK'
  <2>1. PICK m \in Hello :
          /\ hosts' = hosts \cup {m.agent}
          /\ slot' = [slot EXCEPT ![m.agent][m.role] = c]
          /\ reg' = [reg EXCEPT ![m.agent] = IF AdoptsIdentity(m.agent, m.role) THEN c ELSE @]
          /\ online' = [online EXCEPT ![m.agent] = AnyConn(slot'[m.agent])]
          /\ hello' = [hello EXCEPT ![c] = m]
          /\ old' = [old EXCEPT ![c] = slot[m.agent][m.role]]
          /\ pc' = [pc EXCEPT ![c] = IF slot[m.agent][m.role] = None
                                       THEN "reading" ELSE "displacing"]
          /\ UNCHANGED <<done, queue, pending>>
    BY <1>1 DEF Register
  <2>2. m.agent \in Hosts /\ m.role \in Roles
    BY DEF Hello
  <2>3. AnyConn(slot'[m.agent]) \in BOOLEAN
    BY DEF AnyConn
  <2>4. slot' \in [Hosts -> [Roles -> Conns \cup {None}]]
    BY <2>1, <2>2
  <2>5. reg' \in [Hosts -> Conns \cup {None}] /\ online' \in [Hosts -> BOOLEAN]
    BY <2>1, <2>3
  <2> QED
    BY <2>1, <2>2, <2>4, <2>5
<1>2. ASSUME NEW c \in Conns, CloseDisplaced(c) PROVE TypeOK'
  BY <1>2 DEF CloseDisplaced
<1>3. ASSUME NEW c \in Conns, ReadFails(c) PROVE TypeOK'
  BY <1>3 DEF ReadFails
<1>4. ASSUME NEW c \in Conns, Disconnect(c) PROVE TypeOK'
  <2>1. CASE hello[c].agent \in hosts
    <3>1. slot' = [slot EXCEPT ![hello[c].agent] = Cleared(@, c)]
      BY <1>4, <2>1 DEF Disconnect
    <3>2. AnyConn(slot'[hello[c].agent]) \in BOOLEAN
      BY DEF AnyConn
    <3>3. Cleared(slot[hello[c].agent], c) \in [Roles -> Conns \cup {None}]
      BY <2>1 DEF Cleared
    <3>4. online' = [online EXCEPT ![hello[c].agent] = AnyConn(slot'[hello[c].agent])]
      BY <1>4, <2>1 DEF Disconnect
    <3>5. /\ slot' \in [Hosts -> [Roles -> Conns \cup {None}]]
          /\ online' \in [Hosts -> BOOLEAN]
      BY <3>1, <3>2, <3>3, <3>4
    <3> QED
      BY <1>4, <3>5 DEF Disconnect
  <2>2. CASE hello[c].agent \notin hosts
    BY <1>4, <2>2 DEF Disconnect
  <2> QED
    BY <2>1, <2>2
<1>5. ASSUME NEW c \in Conns, WritePump(c) PROVE TypeOK'
  <2>1. queue' \in [Conns -> 0 .. QueueCap]
    <3>1. CASE queue[c] > 0 /\ queue' = [queue EXCEPT ![c] = @ - 1]
      BY <3>1
    <3>2. CASE queue' = queue
      BY <3>2
    <3>3. CASE queue' = [queue EXCEPT ![c] = IF @ > 0 THEN @ - 1 ELSE 0]
      BY <3>3
    <3> QED
      BY <1>5, <3>1, <3>2, <3>3 DEF WritePump
  <2>2. done' \in [Conns -> BOOLEAN]
    BY <1>5 DEF WritePump
  <2> QED
    BY <1>5, <2>1, <2>2 DEF WritePump
<1>6. ASSUME NEW h \in Hosts, Remove(h) PROVE TypeOK'
  BY <1>6 DEF Remove, NoSlots, Roles
<1>7. ASSUME NEW p \in Pushers, TakeRecipients(p) PROVE TypeOK'
  <2>1. PICK cs \in Recipients : pending' = [pending EXCEPT ![p] = cs]
    BY <1>7 DEF TakeRecipients
  <2>2. cs \subseteq Conns
    BY <2>1 DEF Recipients, OnlineConns, ControlConns, ScreenConn, ExecConn, Roles
  <2> QED
    BY <1>7, <2>1, <2>2 DEF TakeRecipients
<1>8. ASSUME NEW p \in Pushers, NEW c \in Conns, SendTo(p, c) PROVE TypeOK'
  <2>1. queue' \in [Conns -> 0 .. QueueCap]
    <3>1. CASE queue[c] < QueueCap /\ queue' = [queue EXCEPT ![c] = @ + 1]
      BY <3>1
    <3> QED
      BY <1>8, <3>1 DEF SendTo
  <2>2. done' \in [Conns -> BOOLEAN]
    BY <1>8 DEF SendTo
  <2>3. pending' \in [Pushers -> SUBSET Conns]
    BY <1>8 DEF SendTo
  <2> QED
    BY <1>8, <2>1, <2>2, <2>3 DEF SendTo
<1>9. CASE UNCHANGED vars
  BY <1>9 DEF vars
<1> QED
  BY <1>1, <1>2, <1>3, <1>4, <1>5, <1>6, <1>7, <1>8, <1>9 DEF Next

(* Every variable keeps its type; in particular no send queue outgrows its *)
(* capacity (sendJSON).                                                    *)
THEOREM TypeCorrect == Spec => []TypeOK
<1>1. Init => TypeOK
  BY NoneIsNotAConn, QueueCapIsPositive DEF Init, TypeOK, NoSlots, Roles
<1> QED
  BY <1>1, TypeStep, PTL DEF Spec

-----------------------------------------------------------------------------
(* A connection that has dialled in has said who it is. *)
HelloKnown == \A c \in Conns : pc[c] # "dialing" => hello[c] \in Hello

IInv == TypeOK /\ HelloKnown /\ SlotsAreLive /\ AttachedOrClosing

(* Register(c), with the hello it brings. *)
RegistersAs(c, m) ==
  /\ m.agent \in Hosts
  /\ m.role \in Roles
  /\ pc[c] = "dialing"
  /\ hosts' = hosts \cup {m.agent}
  /\ slot' = [slot EXCEPT ![m.agent][m.role] = c]
  /\ reg' = [reg EXCEPT ![m.agent] = IF AdoptsIdentity(m.agent, m.role) THEN c ELSE @]
  /\ online' = [online EXCEPT ![m.agent] = AnyConn(slot'[m.agent])]
  /\ hello' = [hello EXCEPT ![c] = m]
  /\ old' = [old EXCEPT ![c] = slot[m.agent][m.role]]
  /\ pc' = [pc EXCEPT ![c] = IF slot[m.agent][m.role] = None
                               THEN "reading" ELSE "displacing"]
  /\ UNCHANGED <<done, queue, pending>>

LEMMA RegisterStep ==
  ASSUME NEW c \in Conns, Register(c)
  PROVE  \E m \in Hello : RegistersAs(c, m)
  BY DEF Register, RegistersAs, Hello

(* What a slot holds, with its type. *)
LEMMA SlotHolder ==
  ASSUME TypeOK, SlotsAreLive, NEW h \in Hosts, NEW r \in Roles, slot[h][r] # None
  PROVE  /\ slot[h][r] \in Conns
         /\ pc[slot[h][r]] \in {"displacing", "reading", "detaching"}
         /\ h \in hosts
         /\ hello[slot[h][r]].agent = h
         /\ hello[slot[h][r]].role = r
  BY DEF TypeOK, SlotsAreLive, Live

(* Steps that leave the registry, the handlers and what they said alone,   *)
(* and that only ever close connections, keep the invariant.               *)
LEMMA QuietSteps ==
  ASSUME IInv, TypeOK', UNCHANGED <<hosts, slot, hello, pc, old>>,
         \A c \in Conns : done[c] => done'[c]
  PROVE  IInv'
  BY DEF IInv, HelloKnown, SlotsAreLive, AttachedOrClosing, Live, Attached

LEMMA InvariantStep == ASSUME IInv, [Next]_vars PROVE IInv'
<1> USE NoneIsNotAConn
<1>0. TypeOK'
  BY TypeStep DEF IInv
<1>1. ASSUME NEW c \in Conns, Register(c) PROVE IInv'
  <2>0. PICK m \in Hello : RegistersAs(c, m)
    BY <1>1, RegisterStep
  <2>1. /\ m.agent \in Hosts
        /\ m.role \in Roles
        /\ pc[c] = "dialing"
        /\ hosts' = hosts \cup {m.agent}
        /\ slot' = [slot EXCEPT ![m.agent][m.role] = c]
        /\ hello' = [hello EXCEPT ![c] = m]
        /\ old' = [old EXCEPT ![c] = slot[m.agent][m.role]]
        /\ pc' = [pc EXCEPT ![c] = IF slot[m.agent][m.role] = None
                                     THEN "reading" ELSE "displacing"]
        /\ done' = done
    BY <2>0 DEF RegistersAs
  <2>2. HelloKnown'
    BY <2>1 DEF IInv, TypeOK, HelloKnown
  <2>3. SlotsAreLive'
    <3>1. Live(c)' /\ hello'[c] = m /\ m.agent \in hosts'
      BY <2>1 DEF IInv, TypeOK, Live
    <3>2. ASSUME NEW h \in Hosts, NEW r \in Roles, slot'[h][r] # None, slot'[h][r] # c
          PROVE  /\ h \in hosts' /\ Live(slot[h][r])'
                 /\ hello'[slot'[h][r]].agent = h /\ hello'[slot'[h][r]].role = r
      <4>1. slot'[h][r] = slot[h][r]
        BY <2>1, <3>2 DEF IInv, TypeOK
      <4>2. hello'[slot[h][r]] = hello[slot[h][r]] /\ pc'[slot[h][r]] = pc[slot[h][r]]
        BY <2>1, <3>2, <4>1 DEF IInv, TypeOK
      <4> QED
        <5>1. slot[h][r] # None
          BY <3>2, <4>1
        <5>2. /\ slot[h][r] \in Conns /\ h \in hosts
              /\ pc[slot[h][r]] \in {"displacing", "reading", "detaching"}
              /\ hello[slot[h][r]].agent = h /\ hello[slot[h][r]].role = r
          BY <5>1, SlotHolder DEF IInv
        <5> QED
          BY <2>1, <4>1, <4>2, <5>2 DEF Live
    <3>3. ASSUME NEW h \in Hosts, NEW r \in Roles, slot'[h][r] = c
          PROVE  h = m.agent /\ r = m.role
      <4>1. slot[h][r] # c
        BY <2>1, SlotHolder DEF IInv
      <4> QED
        BY <2>1, <3>3, <4>1 DEF IInv, TypeOK
    <3>4. ASSUME NEW h \in Hosts, NEW r \in Roles, slot'[h][r] = c
          PROVE  /\ h \in hosts' /\ Live(slot[h][r])'
                 /\ hello'[slot'[h][r]].agent = h /\ hello'[slot'[h][r]].role = r
      BY <3>1, <3>3, <3>4
    <3> QED
      BY <3>2, <3>4 DEF SlotsAreLive
  <2>4. AttachedOrClosing'
    <3>1. Attached(c)'
      BY <2>1 DEF IInv, TypeOK, Attached
    <3>2. ASSUME NEW d \in Conns, d # c, Live(d)
          PROVE  Attached(d)' \/ done'[d] \/ \E e \in Conns : pc'[e] = "displacing" /\ old'[e] = d
      <4>1. hello'[d] = hello[d] /\ pc'[d] = pc[d]
        BY <2>1, <3>2 DEF IInv, TypeOK
      <4>2. hello[d].agent \in Hosts /\ hello[d].role \in Roles
        BY <3>2 DEF IInv, HelloKnown, Live, Hello
      <4>3. CASE Attached(d) /\ slot[m.agent][m.role] = d
        BY <2>1, <4>3 DEF IInv, TypeOK
      <4>4. CASE Attached(d) /\ slot[m.agent][m.role] # d
        BY <2>1, <4>1, <4>2, <4>4 DEF IInv, TypeOK, Attached
      <4>5. CASE done[d]
        BY <2>1, <4>5
      <4>6. CASE \E e \in Conns : pc[e] = "displacing" /\ old[e] = d
        BY <2>1, <4>6 DEF IInv, TypeOK
      <4> QED
        BY <3>2, <4>3, <4>4, <4>5, <4>6 DEF IInv, AttachedOrClosing
    <3>3. \A d \in Conns : d # c => (Live(d)' <=> Live(d))
      BY <2>1 DEF IInv, TypeOK, Live
    <3> QED
      BY <3>1, <3>2, <3>3 DEF AttachedOrClosing
  <2> QED
    BY <1>0, <2>2, <2>3, <2>4 DEF IInv
<1>2. ASSUME NEW c \in Conns, CloseDisplaced(c) PROVE IInv'
  <2>1. HelloKnown' /\ SlotsAreLive'
    BY <1>2 DEF IInv, TypeOK, CloseDisplaced, HelloKnown, SlotsAreLive, Live
  <2>2. AttachedOrClosing'
    BY <1>2 DEF IInv, TypeOK, CloseDisplaced, AttachedOrClosing, Live, Attached
  <2> QED
    BY <1>0, <2>1, <2>2 DEF IInv
<1>3. ASSUME NEW c \in Conns, ReadFails(c) PROVE IInv'
  <2>1. HelloKnown' /\ SlotsAreLive'
    BY <1>3 DEF IInv, TypeOK, ReadFails, HelloKnown, SlotsAreLive, Live
  <2>2. AttachedOrClosing'
    BY <1>3 DEF IInv, TypeOK, ReadFails, AttachedOrClosing, Live, Attached
  <2> QED
    BY <1>0, <2>1, <2>2 DEF IInv
<1>4. ASSUME NEW c \in Conns, Disconnect(c) PROVE IInv'
  <2> DEFINE g == hello[c].agent
  <2>1. /\ pc[c] = "detaching" /\ pc' = [pc EXCEPT ![c] = "gone"]
        /\ UNCHANGED <<hosts, hello, old, done>>
    BY <1>4 DEF Disconnect
  <2>2. \A h \in Hosts, r \in Roles :
          slot'[h][r] = IF slot[h][r] = c THEN None ELSE slot[h][r]
    BY <1>4 DEF Disconnect, Cleared, IInv, TypeOK, SlotsAreLive
  <2>3. HelloKnown'
    BY <2>1 DEF IInv, TypeOK, HelloKnown
  <2>4. SlotsAreLive'
    BY <2>1, <2>2 DEF IInv, TypeOK, SlotsAreLive, Live
  <2>5. AttachedOrClosing'
    <3>1. ASSUME NEW d \in Conns, d # c, Attached(d), Live(d) PROVE Attached(d)'
      <4>1. hello[d].agent \in Hosts /\ hello[d].role \in Roles
        BY <3>1 DEF IInv, HelloKnown, Live, Hello
      <4> QED
        BY <2>1, <2>2, <3>1, <4>1 DEF IInv, TypeOK, Attached
    <3> QED
      BY <2>1, <3>1 DEF IInv, TypeOK, AttachedOrClosing, Live
  <2> QED
    BY <1>0, <2>3, <2>4, <2>5 DEF IInv
<1>5. ASSUME NEW c \in Conns, WritePump(c) PROVE IInv'
  BY <1>0, <1>5, QuietSteps DEF WritePump, IInv, TypeOK
<1>6. ASSUME NEW h \in Hosts, Remove(h) PROVE IInv'
  <2>1. slot' = slot
    BY <1>6 DEF Remove, AnyConn, NoSlots, IInv, TypeOK
  <2>2. HelloKnown' /\ SlotsAreLive'
    BY <1>6, <2>1 DEF Remove, AnyConn, IInv, TypeOK, HelloKnown, SlotsAreLive, Live
  <2>3. AttachedOrClosing'
    BY <1>6, <2>1 DEF Remove, IInv, TypeOK, AttachedOrClosing, Live, Attached
  <2> QED
    BY <1>0, <2>2, <2>3 DEF IInv
<1>7. ASSUME NEW p \in Pushers, TakeRecipients(p) PROVE IInv'
  BY <1>0, <1>7, QuietSteps DEF TakeRecipients
<1>8. ASSUME NEW p \in Pushers, NEW c \in Conns, SendTo(p, c) PROVE IInv'
  BY <1>0, <1>8, QuietSteps DEF SendTo, IInv, TypeOK
<1>9. CASE UNCHANGED vars
  BY <1>0, <1>9, QuietSteps DEF vars
<1> QED
  BY <1>1, <1>2, <1>3, <1>4, <1>5, <1>6, <1>7, <1>8, <1>9 DEF Next

LEMMA Invariance == Spec => []IInv
<1>1. Init => IInv
  BY NoneIsNotAConn, QueueCapIsPositive
  DEF Init, IInv, TypeOK, NoSlots, Roles, HelloKnown, SlotsAreLive, AttachedOrClosing, Live
<1> QED
  BY <1>1, InvariantStep, PTL DEF Spec

(* No slot points at a connection whose handler has ended, or at one of    *)
(* another host or role (register, disconnect, remove).                    *)
THEOREM SlotsStayLive == Spec => []SlotsAreLive
  BY Invariance, PTL DEF IInv

(* No connection is forgotten while its handler runs (handleAgentControl). *)
THEOREM NothingForgotten == Spec => []AttachedOrClosing
  BY Invariance, PTL DEF IInv

-----------------------------------------------------------------------------
(* The cached online flag and the adopted identity need no strengthening   *)
(* beyond the types: each function that changes a slot restores them.      *)

LEMMA CachedStep == ASSUME IInv, CachedFacts, [Next]_vars PROVE CachedFacts'
<1> USE NoneIsNotAConn DEF IInv, TypeOK
<1>1. ASSUME NEW c \in Conns, Register(c) PROVE CachedFacts'
  <2>0. PICK m \in Hello : RegistersAs(c, m)
    BY <1>1, RegisterStep
  <2>1. OnlineIsAccurate'
    <3>1. AnyConn(slot[m.agent])' \in BOOLEAN
      BY DEF AnyConn
    <3>2. online'[m.agent] = AnyConn(slot'[m.agent])
      BY <2>0, <3>1 DEF RegistersAs
    <3>3. \A h \in Hosts : h # m.agent => online'[h] = online[h] /\ slot'[h] = slot[h]
      BY <2>0 DEF RegistersAs
    <3> QED
      BY <3>2, <3>3 DEF CachedFacts, OnlineIsAccurate
  <2>2. UserIdentityWins'
    <3> SUFFICES ASSUME NEW h \in Hosts, slot'[h]["user"] # None
                 PROVE  reg'[h] = slot'[h]["user"]
      BY DEF UserIdentityWins
    <3>0. "user" \in Roles
      BY DEF Roles
    <3>1. CASE h # m.agent
      BY <2>0, <3>1 DEF RegistersAs, CachedFacts, UserIdentityWins
    <3>2. CASE h = m.agent /\ m.role = "user"
      BY <2>0, <3>2 DEF RegistersAs, AdoptsIdentity
    <3>3. CASE h = m.agent /\ m.role # "user"
      BY <2>0, <3>0, <3>3 DEF RegistersAs, AdoptsIdentity, CachedFacts, UserIdentityWins
    <3> QED
      BY <3>1, <3>2, <3>3
  <2> QED
    BY <2>1, <2>2 DEF CachedFacts
<1>2. ASSUME NEW c \in Conns, Disconnect(c) PROVE CachedFacts'
  <2> DEFINE g == hello[c].agent
  <2>1. CASE g \in hosts
    <3>1. /\ slot' = [slot EXCEPT ![g] = Cleared(@, c)]
          /\ online' = [online EXCEPT ![g] = AnyConn(slot'[g])]
          /\ reg' = reg
      BY <1>2, <2>1 DEF Disconnect
    <3>2. AnyConn(slot[g])' \in BOOLEAN
      BY DEF AnyConn
    <3>3. online'[g] = AnyConn(slot'[g])
      BY <2>1, <3>1, <3>2
    <3>4. \A h \in Hosts : h # g => online'[h] = online[h] /\ slot'[h] = slot[h]
      BY <3>1
    <3>5. OnlineIsAccurate'
      BY <3>3, <3>4 DEF CachedFacts, OnlineIsAccurate
    <3>6. UserIdentityWins'
      BY <2>1, <3>1 DEF CachedFacts, UserIdentityWins, Cleared, Roles
    <3> QED
      BY <3>5, <3>6 DEF CachedFacts
  <2>2. CASE g \notin hosts
    BY <1>2, <2>2 DEF Disconnect, CachedFacts, OnlineIsAccurate, UserIdentityWins, AnyConn
  <2> QED
    BY <2>1, <2>2
<1>3. ASSUME NEW h \in Hosts, Remove(h) PROVE CachedFacts'
  BY <1>3 DEF Remove, CachedFacts, OnlineIsAccurate, UserIdentityWins, AnyConn, NoSlots, Roles
<1>4. ASSUME UNCHANGED <<slot, reg, online>> PROVE CachedFacts'
  BY <1>4 DEF CachedFacts, OnlineIsAccurate, UserIdentityWins, AnyConn
<1> QED
  BY <1>1, <1>2, <1>3, <1>4
  DEF Next, vars, CloseDisplaced, ReadFails, WritePump, TakeRecipients, SendTo

LEMMA CachedInvariance == Spec => []CachedFacts
<1>1. Init => CachedFacts
  BY DEF Init, CachedFacts, OnlineIsAccurate, UserIdentityWins, AnyConn, NoSlots, Roles
<1> QED
  BY <1>1, CachedStep, Invariance, PTL DEF Spec

(* host.online always says whether any channel of the host is attached,    *)
(* and the user-session agent's Register is the host's while it is.        *)
THEOREM CachedFactsCorrect == Spec => []CachedFacts
  BY CachedInvariance, PTL

(* The two together: the registry accounts for the connections it serves   *)
(* and shows of a host what they say (Store).                              *)
THEOREM RegistrySound == Spec => []RegistryIsSound
<1>1. AttachedOrClosing /\ CachedFacts => RegistryIsSound
  BY DEF RegistryIsSound
<1> QED
  BY <1>1, NothingForgotten, CachedFactsCorrect, PTL

-----------------------------------------------------------------------------
LEMMA VacateStep ==
  ASSUME IInv, [Next]_vars, NEW h \in Hosts, NEW r \in Roles,
         slot[h][r] # None, slot'[h][r] = None
  PROVE  pc[slot[h][r]] = "detaching" /\ pc'[slot[h][r]] = "gone"
<1> USE NoneIsNotAConn DEF IInv, TypeOK
<1>1. ASSUME NEW c \in Conns, Register(c) PROVE FALSE
  <2>0. PICK m \in Hello : RegistersAs(c, m)
    BY <1>1, RegisterStep
  <2> QED
    BY <2>0 DEF RegistersAs
<1>2. ASSUME NEW c \in Conns, Disconnect(c)
      PROVE  pc[slot[h][r]] = "detaching" /\ pc'[slot[h][r]] = "gone"
  <2>1. slot[h][r] = c
    BY <1>2 DEF Disconnect, Cleared
  <2> QED
    BY <1>2, <2>1 DEF Disconnect
<1>3. ASSUME NEW g \in Hosts, Remove(g) PROVE FALSE
  BY <1>3 DEF Remove, AnyConn, NoSlots
<1> QED
  BY <1>1, <1>2, <1>3
  DEF Next, vars, CloseDisplaced, ReadFails, WritePump, TakeRecipients, SendTo

(* A slot is emptied only by the last step of the handler of the           *)
(* connection it holds (disconnect).                                       *)
THEOREM NeverDetachedByAnother == Spec => VacatedOnlyByItself
<1>1. IInv /\ [Next]_vars =>
        [\A h \in Hosts, r \in Roles :
           (slot[h][r] # None /\ slot'[h][r] = None) =>
              pc[slot[h][r]] = "detaching" /\ pc'[slot[h][r]] = "gone"]_vars
  BY VacateStep
<1> QED
  BY <1>1, Invariance, PTL DEF Spec, VacatedOnlyByItself

-----------------------------------------------------------------------------
Fresh == {c \in Conns : pc[c] = "dialing"}
Ended == {c \in Conns : pc[c] = "gone"}

LEMMA DirectoryStep ==
  ASSUME IInv, [Next]_vars PROVE [Directory!Next]_(Directory!dvars)
<1> USE NoneIsNotAConn DEF IInv, TypeOK
<1>1. ASSUME NEW c \in Conns, Register(c) PROVE Directory!Next
  <2>0. PICK m \in Hello : RegistersAs(c, m)
    BY <1>1, RegisterStep
  <2>1. Fresh' = Fresh \ {c} /\ Ended' = Ended /\ c \in Fresh
    BY <2>0 DEF RegistersAs, Fresh, Ended
  <2>2. Directory!Claim(c, m.agent, m.role)
    BY <2>0, <2>1 DEF RegistersAs, Directory!Claim, Fresh, Ended
  <2> QED
    BY <2>0, <2>2 DEF RegistersAs, Directory!Next
<1>2. ASSUME NEW c \in Conns, Disconnect(c) PROVE Directory!Next
  <2>1. \A h \in Hosts, r \in Roles :
          slot'[h][r] = IF slot[h][r] = c THEN None ELSE slot[h][r]
    BY <1>2 DEF Disconnect, Cleared, SlotsAreLive
  <2>2. slot' \in [Hosts -> [Roles -> Conns \cup {None}]]
    BY TypeStep
  <2>3. slot' = [h \in Hosts |->
                   [r \in Roles |-> IF slot[h][r] = c THEN None ELSE slot[h][r]]]
    BY <2>1, <2>2
  <2>4. Ended' = Ended \cup {c} /\ Fresh' = Fresh /\ c \in Conns \ (Fresh \cup Ended)
    BY <1>2 DEF Disconnect, Fresh, Ended
  <2>5. Directory!End(c)
    BY <1>2, <2>3, <2>4 DEF Disconnect, Directory!End, Fresh, Ended
  <2> QED
    BY <2>5 DEF Directory!Next
<1>3. ASSUME NEW h \in Hosts, Remove(h) PROVE Directory!Next
  <2>1. slot' = slot
    BY <1>3 DEF Remove, AnyConn, NoSlots
  <2>2. Directory!Forget(h)
    BY <1>3, <2>1 DEF Remove, AnyConn, Directory!Forget
  <2> QED
    BY <2>2 DEF Directory!Next
<1>4. ASSUME UNCHANGED <<hosts, slot>>, Fresh' = Fresh, Ended' = Ended
      PROVE  UNCHANGED Directory!dvars
  BY <1>4 DEF Directory!dvars, Fresh, Ended
<1>5. ASSUME NEW c \in Conns, CloseDisplaced(c) \/ ReadFails(c)
      PROVE  UNCHANGED Directory!dvars
  BY <1>4, <1>5 DEF CloseDisplaced, ReadFails, Fresh, Ended
<1>6. ASSUME UNCHANGED <<hosts, slot, pc>> PROVE UNCHANGED Directory!dvars
  BY <1>4, <1>6 DEF Fresh, Ended
<1> QED
  BY <1>1, <1>2, <1>3, <1>5, <1>6 DEF Next, vars, WritePump, TakeRecipients, SendTo

(* The handlers, in every interleaving, implement the directory: each step *)
(* is a claim, an end, a forgetting, or nothing the directory can see.     *)
THEOREM RefinesDirectory == Spec => ImplementsDirectory
<1>1. Init => Directory!Init
  BY DEF Init, Directory!Init, NoSlots
<1> QED
  BY <1>1, DirectoryStep, Invariance, PTL DEF Spec, ImplementsDirectory, Directory!Spec

-----------------------------------------------------------------------------
(* The work of an agent (AgentLink). *)

Answered == {"none", "collect", "stop", "start", "reply"}

(* A session is on the agent's own context; and the two parts of what is   *)
(* claimed. *)
WorkInv ==
  /\ job \in [Links -> Answered]
  /\ media.is # "none" => media.of = "root"
  /\ L!WorkOutlivesLink

LEMMA WorkStart == ASSUME L!Init PROVE WorkInv
BY DEF L!Init, WorkInv, Answered, L!NoMedia, L!WorkOutlivesLink, L!MediaOutlivesLink, L!ProcessComesBack

LEMMA WorkStep == ASSUME L!LinkAssumption, WorkInv, [L!Next]_(L!vars) PROVE WorkInv'
<1> USE DEF WorkInv, Answered, L!WorkOutlivesLink, L!MediaOutlivesLink, L!ProcessComesBack
<1>1. CASE UNCHANGED <<L!work, media>>
  BY <1>1 DEF L!work
<1>2. ASSUME NEW c \in Links, L!StartSession(c) PROVE WorkInv'
  BY <1>2 DEF L!StartSession, L!SessionCtx, L!work
<1>3. CASE L!SessionEnds
  <2>1. media.of \notin Links
    BY <1>3 DEF L!SessionEnds, L!LinkAssumption
  <2>2. media' = L!NoMedia /\ UNCHANGED L!work
    BY <1>3, <2>1 DEF L!SessionEnds
  <2> QED BY <2>2 DEF L!NoMedia, L!work
<1>4. ASSUME NEW c \in Links, L!Request(c) \/ L!Collect(c) \/ L!Reply(c) PROVE WorkInv'
  BY <1>4 DEF L!Request, L!Heard, L!Collect, L!Reply
<1>5. ASSUME NEW c \in Links, L!Stop(c) PROVE WorkInv'
  BY <1>5 DEF L!Stop
<1>6. ASSUME NEW c \in Links, L!Start(c) PROVE WorkInv'
  BY <1>6 DEF L!Start
<1>7. CASE L!Die
  BY <1>7 DEF L!Die, L!NoMedia
<1> QED
  BY <1>1, <1>2, <1>3, <1>4, <1>5, <1>6, <1>7
     DEF L!Next, L!Loop, L!OfConn, L!vars, L!Dial, L!DialFails, L!Register, L!ReadFails, L!Lost, L!BackoffEnds,
       L!WaitForDisplay, L!CloseSocket, L!WriterEnds, L!Fill, L!Drain, L!Greet, L!GreetFails, L!HubReadFails,
       L!Cut, L!Release, L!NetworkTurns, L!DisplayAppears, L!Begin

(* A screen session keeps running when the control connection it was asked *)
(* for on is lost, and a process stopped to be restarted is being started, *)
(* unless that failed and is told, or the agent died (rootCtx,             *)
(* restartProc). *)
THEOREM WorkGoesOn == ASSUME L!LinkAssumption PROVE L!Spec => []WorkOutlivesLink
<1>1. L!Init => WorkInv
  BY WorkStart
<1>2. WorkInv /\ [L!Next]_(L!vars) => WorkInv'
  BY WorkStep
<1>3. WorkInv => WorkOutlivesLink
  BY DEF WorkInv, WorkOutlivesLink
<1> QED BY <1>1, <1>2, <1>3, PTL DEF L!Spec

-----------------------------------------------------------------------------
(* The measures (Telemetry). *)

TheProcs == {"user", "helper"}
Readings == UNION {[ds -> {"well", "sick"}] : ds \in SUBSET {"disk"}}

(* What a process remembers of the counter: it has moved by at most the    *)
(* intervals since. *)
Counted ==
  /\ now \in Nat /\ counter \in Nat
  /\ began \in [TheProcs -> Nat] /\ seen \in [TheProcs -> {None} \cup [time : Nat, count : Nat]]
  /\ \A p \in TheProcs : began[p] <= now
  /\ \A p \in TheProcs : seen[p] # None => /\ seen[p].time \in Nat /\ seen[p].count \in Nat
                                           /\ seen[p].time <= now /\ counter - seen[p].count <= now - seen[p].time

(* A drive a process has read to be sick is sick in what it will tell; a   *)
(* process that may not ask knows nothing. *)
Carries ==
  /\ present \subseteq {"disk"} /\ health \in [{"disk"} -> {"well", "sick"}]
  /\ asked \in [TheProcs -> SUBSET present] /\ cache \in [TheProcs -> Readings]
  /\ \A p \in TheProcs : \A d \in asked[p] : d \in DOMAIN cache[p] /\ cache[p][d] = "sick"
  /\ asked["user"] = {} /\ cache["user"] = M!NoDrives

(* A sample that was taken quickly has a rate the link can carry, and one  *)
(* that has drives has all that were known to be sick. *)
Honest(s) ==
  /\ s.quick => s.rate <= 1
  /\ s.smart # M!NoDrives => \A d \in s.knew : d \in DOMAIN s.smart /\ s.smart[d] = "sick"

MeasureInv ==
  /\ Counted /\ Carries
  /\ DOMAIN sample = TheProcs /\ \A p \in TheProcs : sample[p] # None => Honest(sample[p])
  /\ metrics # None => Honest(metrics)

LEMMA Quotient == ASSUME NEW n \in Nat, NEW d \in Nat, n <= d, d > 0 PROVE n \div d <= 1
OBVIOUS

LEMMA NoneIsAReading == M!NoDrives \in Readings
BY DEF M!NoDrives, Readings

LEMMA MeasureStart == ASSUME M!Init PROVE MeasureInv
<1> USE DEF M!Init, TheProcs
<1>1. Counted
  BY DEF Counted
<1>3. Carries
  BY NoneIsAReading DEF Carries
<1> QED BY <1>1, <1>3 DEF MeasureInv

(* What the steps that neither collect nor count leave as it was. *)
LEMMA Unmeasured ==
  ASSUME MeasureInv, UNCHANGED <<now, counter, health, present, began, seen, cache, asked>>,
         DOMAIN sample' = TheProcs,
         \A p \in TheProcs : sample'[p] = sample[p] \/ sample'[p] = None,
         metrics' = metrics \/ metrics' = None \/ \E p \in TheProcs : sample[p] # None /\ metrics' = sample[p]
  PROVE  MeasureInv'
<1>1. Counted'
  BY DEF MeasureInv, Counted
<1>2. Carries'
  BY DEF MeasureInv, Carries
<1> HIDE DEF Honest
<1>3. \A p \in TheProcs : sample'[p] # None => Honest(sample'[p])
  BY DEF MeasureInv
<1>4. metrics' # None => Honest(metrics')
  BY DEF MeasureInv
<1> QED BY <1>1, <1>2, <1>3, <1>4 DEF MeasureInv

LEMMA Rated ==
  ASSUME Counted, NEW p \in TheProcs, now = began[p]
  PROVE  M!Rate(p) <= 1
<1>1. CASE seen[p] # None /\ began[p] > seen[p].time /\ counter >= seen[p].count
  <2>1. /\ seen[p].time \in Nat /\ seen[p].count \in Nat /\ now \in Nat /\ counter \in Nat
        /\ counter - seen[p].count <= now - seen[p].time
    BY <1>1 DEF Counted
  <2>2. counter - seen[p].count \in Nat /\ now - seen[p].time \in Nat /\ now - seen[p].time > 0
    BY <1>1, <2>1
  <2>3. (counter - seen[p].count) \div (now - seen[p].time) <= 1
    BY <2>1, <2>2, Quotient
  <2> QED BY <1>1, <2>3 DEF M!Rate
<1>2. CASE ~(seen[p] # None /\ began[p] > seen[p].time /\ counter >= seen[p].count)
  <2>1. M!Rate(p) = 0
    BY <1>2 DEF M!Rate
  <2> QED BY <2>1
<1> QED BY <1>1, <1>2

LEMMA SmartStep ==
  ASSUME Carries, NEW p \in TheProcs, M!CollectSmart(p), UNCHANGED <<health, present>>
  PROVE  Carries'
<1> USE DEF Carries, TheProcs
<1>1. CASE ~stale[p]
  BY <1>1 DEF M!CollectSmart
<1>2. CASE cache' = [cache EXCEPT ![p] = M!NoDrives] /\ asked' = [asked EXCEPT ![p] = {}]
  BY <1>2, NoneIsAReading
<1>3. ASSUME NEW answers \in SUBSET (IF p \in {"helper"} THEN present \ asleep ELSE {}),
             cache' = [cache EXCEPT ![p] = [d \in answers \cup M!Carried(p, answers) |->
                                              IF d \in answers THEN health[d] ELSE cache[p][d]]],
             asked' = [asked EXCEPT ![p] = {d \in answers : health[d] = "sick"} \cup ((asked[p] \cap present) \ answers)]
      PROVE  Carries'
  <2> DEFINE new == [d \in answers \cup M!Carried(p, answers) |-> IF d \in answers THEN health[d] ELSE cache[p][d]]
             knows == {d \in answers : health[d] = "sick"} \cup ((asked[p] \cap present) \ answers)
  <2>1. answers \subseteq present /\ M!Carried(p, answers) = (present \ answers) \cap DOMAIN cache[p]
    BY DEF M!Carried
  <2>2. PICK ds \in SUBSET {"disk"} : cache[p] \in [ds -> {"well", "sick"}]
    BY DEF Readings
  <2>3. new \in [answers \cup M!Carried(p, answers) -> {"well", "sick"}]
    BY <2>1, <2>2
  <2>4. answers \cup M!Carried(p, answers) \in SUBSET {"disk"}
    BY <2>1
  <2>5. new \in Readings
    BY <2>3, <2>4 DEF Readings
  <2>6. knows \subseteq present /\ \A d \in knows : d \in DOMAIN new /\ new[d] = "sick"
    BY <2>1
  <2>7. p = "user" => new = M!NoDrives /\ knows = {}
    <3> SUFFICES ASSUME p = "user" PROVE new = M!NoDrives /\ knows = {}
      OBVIOUS
    <3>1. answers = {} /\ asked[p] = {} /\ DOMAIN cache[p] = {}
      BY DEF M!NoDrives
    <3> QED BY <2>1, <3>1 DEF M!NoDrives
  <2> HIDE DEF new, knows
  <2>8. cache' = [cache EXCEPT ![p] = new] /\ asked' = [asked EXCEPT ![p] = knows]
    BY <1>3 DEF new, knows
  <2> QED BY <2>5, <2>6, <2>7, <2>8
<1> QED BY <1>1, <1>2, <1>3 DEF M!CollectSmart

LEMMA CollectStep ==
  ASSUME MeasureInv, NEW p \in TheProcs, M!Collect(p) PROVE MeasureInv'
<1>1. UNCHANGED <<now, counter, health, present, began, metrics>> /\ M!CollectSmart(p)
      /\ seen' = [seen EXCEPT ![p] = M!Remembered(p)]
  BY DEF M!Collect, M!machine, M!hub
<1>2. Counted'
  BY <1>1 DEF MeasureInv, Counted, M!Remembered
<1>3. Carries'
  BY <1>1, SmartStep DEF MeasureInv
<1>4. M!Sample(p).quick => M!Sample(p).rate <= 1
  BY Rated DEF M!Sample, MeasureInv
<1>5. M!Sample(p).smart # M!NoDrives => \A d \in M!Sample(p).knew : d \in DOMAIN M!Sample(p).smart /\ M!Sample(p).smart[d] = "sick"
  <2> SUFFICES ASSUME cache'[p] # M!NoDrives, NEW d \in UNION {asked'[q] : q \in TheProcs}
               PROVE  d \in DOMAIN cache'[p] /\ cache'[p][d] = "sick"
    BY DEF M!Sample, TheProcs
  <2>1. p = "helper" /\ d \in asked'["helper"]
    BY <1>3 DEF Carries, TheProcs
  <2> QED BY <1>3, <2>1 DEF Carries, TheProcs
<1>6. Honest(M!Sample(p))
  BY <1>4, <1>5 DEF Honest
<1>7. \/ sample' = sample
      \/ sample' = [sample EXCEPT ![p] = M!Sample(p)]
  BY DEF M!Collect
<1> HIDE DEF Honest
<1>8. DOMAIN sample' = TheProcs /\ \A q \in TheProcs : sample'[q] # None => Honest(sample'[q])
  BY <1>6, <1>7 DEF MeasureInv
<1> QED BY <1>1, <1>2, <1>3, <1>8 DEF MeasureInv

LEMMA MeasureStep == ASSUME MeasureInv, [M!Next]_(M!vars) PROVE MeasureInv'
<1>1. ASSUME NEW p \in TheProcs, M!Start(p) \/ M!Begin(p) PROVE MeasureInv'
  <2>1. Counted'
    BY <1>1 DEF M!Start, M!Begin, M!machine, MeasureInv, Counted
  <2>2. Carries'
    BY <1>1 DEF M!Start, M!Begin, M!machine, MeasureInv, Carries
  <2> QED BY <1>1, <2>1, <2>2 DEF M!Start, M!Begin, M!hub, MeasureInv
<1>2. ASSUME NEW p \in TheProcs, M!Stop(p) PROVE MeasureInv'
  <2>1. Counted'
    BY <1>2 DEF M!Stop, M!machine, MeasureInv, Counted
  <2>2. Carries'
    BY <1>2, NoneIsAReading DEF M!Stop, M!machine, MeasureInv, Carries, TheProcs
  <2> QED BY <1>2, <2>1, <2>2 DEF M!Stop, M!hub, MeasureInv
<1>3. ASSUME NEW p \in TheProcs, M!Collect(p) PROVE MeasureInv'
  BY <1>3, CollectStep
<1>4. ASSUME NEW p \in TheProcs, M!TenMinutesPass(p) \/ M!UpdateMetrics(p) \/ M!LoseSample(p) PROVE MeasureInv'
  <2>1. UNCHANGED <<now, counter, health, present, began, seen, cache, asked>>
    BY <1>4 DEF M!TenMinutesPass, M!UpdateMetrics, M!LoseSample, M!machine, M!collector
  <2>2. DOMAIN sample' = TheProcs /\ \A q \in TheProcs : sample'[q] = sample[q] \/ sample'[q] = None
    BY <1>4 DEF M!TenMinutesPass, M!UpdateMetrics, M!LoseSample, MeasureInv
  <2>3. metrics' = metrics \/ \E q \in TheProcs : sample[q] # None /\ metrics' = sample[q]
    BY <1>4 DEF M!TenMinutesPass, M!UpdateMetrics, M!LoseSample, M!hub
  <2> QED BY <2>1, <2>2, <2>3, Unmeasured
<1>5. CASE M!Evaluate \/ M!HubRestarts \/ UNCHANGED M!vars
  <2>1. UNCHANGED <<now, counter, health, present, began, seen, cache, asked>>
    BY <1>5 DEF M!Evaluate, M!HubRestarts, M!machine, M!collector, M!vars
  <2>2. DOMAIN sample' = TheProcs /\ \A q \in TheProcs : sample'[q] = sample[q] \/ sample'[q] = None
    BY <1>5 DEF M!Evaluate, M!HubRestarts, M!vars, MeasureInv, TheProcs
  <2>3. metrics' = metrics \/ metrics' = None
    BY <1>5 DEF M!Evaluate, M!HubRestarts, M!vars, M!hub
  <2> QED BY <2>1, <2>2, <2>3, Unmeasured
<1>6. CASE M!TimePasses \/ M!CounterRestarts
  <2>1. Counted'
    BY <1>6 DEF M!TimePasses, M!CounterRestarts, M!collector, MeasureInv, Counted
  <2>2. Carries'
    BY <1>6 DEF M!TimePasses, M!CounterRestarts, M!collector, MeasureInv, Carries
  <2> QED BY <1>6, <2>1, <2>2 DEF M!TimePasses, M!CounterRestarts, M!hub, MeasureInv
<1>7. ASSUME NEW d \in {"disk"}, M!OfDrive(d) PROVE MeasureInv'
  <2>1. Counted'
    BY <1>7 DEF M!OfDrive, M!Sicken, M!SleepOrWake, M!Replace, M!collector, MeasureInv, Counted
  <2>2. Carries'
    <3>1. UNCHANGED <<present, cache>> /\ health' \in [{"disk"} -> {"well", "sick"}]
      BY <1>7 DEF M!OfDrive, M!Sicken, M!SleepOrWake, M!Replace, M!collector, MeasureInv, Carries
    <3>2. asked' = asked \/ asked' = [p \in TheProcs |-> asked[p] \ {d}]
      BY <1>7 DEF M!OfDrive, M!Sicken, M!SleepOrWake, M!Replace, M!collector, TheProcs
    <3>3. asked' \in [TheProcs -> SUBSET present] /\ \A p \in TheProcs : asked'[p] \subseteq asked[p]
      BY <3>2 DEF MeasureInv, Carries
    <3> QED BY <3>1, <3>3 DEF MeasureInv, Carries, TheProcs
  <2> QED BY <1>7, <2>1, <2>2 DEF M!OfDrive, M!Sicken, M!SleepOrWake, M!Replace, M!hub, MeasureInv
<1> QED
  BY <1>1, <1>2, <1>3, <1>4, <1>5, <1>6, <1>7 DEF M!Next, M!OfProc, TheProcs

(* Whatever samples are lost and whenever the counter starts over, a rate  *)
(* taken quickly is one the link can carry; and the alert for failing      *)
(* drives does not resolve while a drive the agent had read to be sick is  *)
(* there (collectNet, querySmart, rulesFor).                               *)
THEOREM MeasuresAreTrue == M!Spec => TelemetryIsTrue
<1>1. M!Init => MeasureInv
  BY MeasureStart
<1>2. MeasureInv /\ [M!Next]_(M!vars) => MeasureInv'
  BY MeasureStep
<1>3. MeasureInv /\ MeasureInv' /\ [M!Next]_(M!vars) => [M!RateIsReal' /\ M!DriveStaysReported]_(M!vars)
  <2> SUFFICES ASSUME MeasureInv, MeasureInv', M!Next PROVE M!RateIsReal' /\ M!DriveStaysReported
    OBVIOUS
  <2>1. M!RateIsReal'
    BY DEF MeasureInv, Honest, M!RateIsReal
  <2>2. firing /\ ~firing' => metrics' = None \/ M!Evaluate
    BY DEF M!Next, M!OfProc, M!OfDrive, M!HubRestarts, M!TimePasses, M!CounterRestarts, M!Start, M!Stop, M!Begin,
      M!Collect, M!TenMinutesPass, M!UpdateMetrics, M!LoseSample, M!Sicken, M!SleepOrWake, M!Replace, M!hub
  <2>3. M!Evaluate /\ ~firing' => \A d \in present \cap metrics.knew : health[d] # "sick"
    BY DEF M!Evaluate, M!HasRule, M!Failing, MeasureInv, Honest
  <2> QED BY <2>2, <2>3, <2>1 DEF M!DriveStaysReported
<1> QED BY <1>1, <1>2, <1>3, PTL DEF M!Spec, TelemetryIsTrue, M!TelemetryIsTrue

=============================================================================
