---------------------------- MODULE HostRegistry ----------------------------
(***************************************************************************)
(* The hub's live registry of hosts (server/store.go) and the control      *)
(* connections attached to it (server/agentconn.go, handleAgentControl in  *)
(* server/http.go).                                                        *)
(*                                                                         *)
(* A host is a record with three slots, one per channel its agents may     *)
(* hold open: the user-session agent, the elevated helper, the console     *)
(* worker.  Each connection is served by a goroutine that registers it,    *)
(* closes the connection it displaced, reads until the socket fails and    *)
(* then detaches it; between any two of those steps other connections'     *)
(* handlers, and the API handlers that push messages to agents, run.       *)
(*                                                                         *)
(* A connection is used once: it dials, says who it is, and ends.  A       *)
(* Register message is identified with the connection that brought it.     *)
(*                                                                         *)
(* Operators named Action_Fault are single-fault variants of Action, kept  *)
(* to show that each property notices the fault; no specification here     *)
(* uses them.                                                              *)
(***************************************************************************)
EXTENDS Naturals, FiniteSets

CONSTANTS
  Hosts,      \* agent ids
  Conns,      \* control connections, each used once
  Pushers,    \* hub goroutines that push messages to agents
  None,       \* the nil connection
  QueueCap    \* capacity of agentConn.send (16 in the code)

ASSUME NoneIsNotAConn == None \notin Conns
ASSUME QueueCapIsPositive == QueueCap \in Nat \ {0}

Roles == {"user", "elevated", "console"}

(* The parts of protocol.Register the registry acts on.  The elevated      *)
(* helper runs in session 0 and never registers as streamable.             *)
Hello == {r \in [agent : Hosts, role : Roles, stream : BOOLEAN, exec : BOOLEAN] :
            r.role = "elevated" => ~r.stream}

NoHello == [agent |-> None]

VARIABLES
  hosts,    \* keys of Store.hosts
  slot,     \* slot[h][role]: host.conn, host.elevConn, host.consConn
  reg,      \* reg[h]: the connection whose Register is host.reg
  online,   \* host.online
  hello,    \* hello[c]: what c registered with
  pc,       \* where c's handler is
  old,      \* the connection c's handler displaced and has yet to close
  done,     \* agentConn.done is closed
  queue,    \* number of messages in agentConn.send
  pending   \* pending[p]: connections p still has to send to

vars == <<hosts, slot, reg, online, hello, pc, old, done, queue, pending>>

NoSlots == [r \in Roles |-> None]

Init ==
  /\ hosts = {}
  /\ slot = [h \in Hosts |-> NoSlots]
  /\ reg = [h \in Hosts |-> None]
  /\ online = [h \in Hosts |-> FALSE]
  /\ hello = [c \in Conns |-> NoHello]
  /\ pc = [c \in Conns |-> "dialing"]
  /\ old = [c \in Conns |-> None]
  /\ done = [c \in Conns |-> FALSE]
  /\ queue = [c \in Conns |-> 0]
  /\ pending = [p \in Pushers |-> {}]

-----------------------------------------------------------------------------
(* What the handlers ask of the registry. *)

AnyConn(slots) == \E r \in Roles : slots[r] # None

ScreenConn(h) == IF slot[h]["console"] # None THEN slot[h]["console"] ELSE slot[h]["user"]

ExecConn(h) == IF slot[h]["elevated"] # None THEN slot[h]["elevated"] ELSE slot[h]["user"]

(* host.reg.CanStream and host.reg.CanExec: the zero Register has neither. *)
RegStreams(h) == reg[h] # None /\ hello[reg[h]].stream
RegExecs(h) == reg[h] # None /\ hello[reg[h]].exec

CanStream(h) == h \in hosts /\ ScreenConn(h) # None /\ RegStreams(h)

CanExec(h) == h \in hosts /\ (slot[h]["elevated"] # None \/ (online[h] /\ RegExecs(h)))

StillConnected(h) == h \in hosts /\ AnyConn(slot[h])

OnlineConns == {slot[h][r] : h \in hosts, r \in Roles} \ {None}

ControlConns(h) == {slot[h]["user"], slot[h]["elevated"]} \ {None}

-----------------------------------------------------------------------------
(* The registration a connection brings replaces the host's own when it is *)
(* the user-session agent's, or when no user-session agent is attached.    *)
AdoptsIdentity(h, r) == r = "user" \/ slot[h]["user"] = None

(* Store.register under the store's lock. *)
Register(c) ==
  /\ pc[c] = "dialing"
  /\ \E m \in Hello :
       LET h == m.agent
           prev == slot[h][m.role]
       IN /\ hosts' = hosts \cup {h}
          /\ slot' = [slot EXCEPT ![h][m.role] = c]
          /\ reg' = [reg EXCEPT ![h] = IF AdoptsIdentity(h, m.role) THEN c ELSE @]
          /\ online' = [online EXCEPT ![h] = AnyConn(slot'[h])]
          /\ hello' = [hello EXCEPT ![c] = m]
          /\ old' = [old EXCEPT ![c] = prev]
          /\ pc' = [pc EXCEPT ![c] = IF prev = None THEN "reading" ELSE "displacing"]
  /\ UNCHANGED <<done, queue, pending>>

(* The newcomer's handler closes the connection it displaced, outside the  *)
(* lock, before it starts its own write pump and read loop.                *)
CloseDisplaced(c) ==
  /\ pc[c] = "displacing"
  /\ done' = [done EXCEPT ![old[c]] = TRUE]
  /\ old' = [old EXCEPT ![c] = None]
  /\ pc' = [pc EXCEPT ![c] = "reading"]
  /\ UNCHANGED <<hosts, slot, reg, online, hello, queue, pending>>

(* ReadMessage fails: the peer went away, the 45 s read deadline passed,   *)
(* or somebody closed the connection.  The deferred close comes first.     *)
ReadFails(c) ==
  /\ pc[c] = "reading"
  /\ done' = [done EXCEPT ![c] = TRUE]
  /\ pc' = [pc EXCEPT ![c] = "detaching"]
  /\ UNCHANGED <<hosts, slot, reg, online, hello, old, queue, pending>>

(* Every slot of the host that still holds c is cleared. *)
Cleared(slots, c) == [r \in Roles |-> IF slots[r] = c THEN None ELSE slots[r]]

Disconnect_OnlineIsUser(c) ==
  LET h == hello[c].agent
  IN /\ pc[c] = "detaching"
     /\ IF h \in hosts
          THEN /\ slot' = [slot EXCEPT ![h] = Cleared(@, c)]
               /\ online' = [online EXCEPT ![h] = slot'[h]["user"] # None]
          ELSE UNCHANGED <<slot, online>>
     /\ pc' = [pc EXCEPT ![c] = "gone"]
     /\ UNCHANGED <<hosts, reg, hello, old, done, queue, pending>>

(* Store.disconnect, the second deferred step of readLoop. *)
Disconnect(c) ==
  LET h == hello[c].agent
  IN /\ pc[c] = "detaching"
     /\ IF h \in hosts
          THEN /\ slot' = [slot EXCEPT ![h] = Cleared(@, c)]
               /\ online' = [online EXCEPT ![h] = AnyConn(slot'[h])]
          ELSE UNCHANGED <<slot, online>>
     /\ pc' = [pc EXCEPT ![c] = "gone"]
     /\ UNCHANGED <<hosts, reg, hello, old, done, queue, pending>>

Remove_NoCheck(h) ==
  /\ h \in hosts
  /\ hosts' = hosts \ {h}
  /\ slot' = [slot EXCEPT ![h] = NoSlots]
  /\ reg' = [reg EXCEPT ![h] = None]
  /\ online' = [online EXCEPT ![h] = FALSE]
  /\ UNCHANGED <<hello, pc, old, done, queue, pending>>

(* Store.remove: refused while anything of the host is attached. *)
Remove(h) ==
  /\ h \in hosts
  /\ ~AnyConn(slot[h])
  /\ hosts' = hosts \ {h}
  /\ slot' = [slot EXCEPT ![h] = NoSlots]
  /\ reg' = [reg EXCEPT ![h] = None]
  /\ online' = [online EXCEPT ![h] = FALSE]
  /\ UNCHANGED <<hello, pc, old, done, queue, pending>>

-----------------------------------------------------------------------------
(* A hub goroutine picks its recipients under the lock and sends to them   *)
(* after releasing it: the update push takes onlineConns, an uninstall     *)
(* takes controlConns, a session or an inventory takes connFor, a command  *)
(* takes execConn.                                                         *)
Recipients ==
  {OnlineConns} \cup
  {cs \in UNION {{ControlConns(h), {ScreenConn(h)}, {ExecConn(h)}} : h \in hosts} :
     None \notin cs}

TakeRecipients(p) ==
  /\ pending[p] = {}
  /\ \E cs \in Recipients : pending' = [pending EXCEPT ![p] = cs]
  /\ UNCHANGED <<hosts, slot, reg, online, hello, pc, old, done, queue>>

(* agentConn.sendJSON: a full queue closes the connection instead of       *)
(* holding the sender; a closed one may still take the message if there is *)
(* room, since select chooses among the ready cases.                       *)
SendTo(p, c) ==
  /\ c \in pending[p]
  /\ pending' = [pending EXCEPT ![p] = @ \ {c}]
  /\ \/ /\ queue[c] < QueueCap
        /\ queue' = [queue EXCEPT ![c] = @ + 1]
        /\ UNCHANGED done
     \/ /\ done[c]
        /\ UNCHANGED <<queue, done>>
     \/ /\ queue[c] = QueueCap
        /\ ~done[c]
        /\ done' = [done EXCEPT ![c] = TRUE]
        /\ UNCHANGED queue
  /\ UNCHANGED <<hosts, slot, reg, online, hello, pc, old>>

(* writePump writes a queued message or a ping; a write that fails closes  *)
(* the connection.                                                         *)
WritePump(c) ==
  /\ pc[c] \in {"reading", "detaching", "gone"}
  /\ ~done[c]
  /\ \/ /\ queue[c] > 0
        /\ queue' = [queue EXCEPT ![c] = @ - 1]
        /\ UNCHANGED done
     \/ /\ queue' \in {queue, [queue EXCEPT ![c] = IF @ > 0 THEN @ - 1 ELSE 0]}
        /\ done' = [done EXCEPT ![c] = TRUE]
  /\ UNCHANGED <<hosts, slot, reg, online, hello, pc, old, pending>>

-----------------------------------------------------------------------------
Next ==
  \/ \E c \in Conns : \/ Register(c)
                      \/ CloseDisplaced(c)
                      \/ ReadFails(c)
                      \/ Disconnect(c)
                      \/ WritePump(c)
  \/ \E h \in Hosts : Remove(h)
  \/ \E p \in Pushers : \/ TakeRecipients(p)
                        \/ \E c \in Conns : SendTo(p, c)

Spec == Init /\ [][Next]_vars

-----------------------------------------------------------------------------
TypeOK ==
  /\ hosts \subseteq Hosts
  /\ slot \in [Hosts -> [Roles -> Conns \cup {None}]]
  /\ reg \in [Hosts -> Conns \cup {None}]
  /\ online \in [Hosts -> BOOLEAN]
  /\ hello \in [Conns -> Hello \cup {NoHello}]
  /\ pc \in [Conns -> {"dialing", "displacing", "reading", "detaching", "gone"}]
  /\ old \in [Conns -> Conns \cup {None}]
  /\ done \in [Conns -> BOOLEAN]
  /\ queue \in [Conns -> 0 .. QueueCap]
  /\ pending \in [Pushers -> SUBSET Conns]

Live(c) == pc[c] \in {"displacing", "reading", "detaching"}

(* c is the connection its host's slot for its role holds. *)
Attached(c) == pc[c] # "dialing" /\ slot[hello[c].agent][hello[c].role] = c

(* Whatever a slot holds is a connection of that host and that role whose  *)
(* handler is still running, so an instruction routed through the registry *)
(* never goes to a connection that has already ended, and the host is      *)
(* known.  (register and disconnect in store.go.)                          *)
SlotsAreLive ==
  \A h \in Hosts, r \in Roles :
    LET c == slot[h][r]
    IN c # None => /\ h \in hosts
                   /\ Live(c)
                   /\ hello[c].agent = h
                   /\ hello[c].role = r

(* No connection is forgotten: while a handler runs, its connection is     *)
(* either the one its slot holds, or closed, or about to be closed by the  *)
(* handler of the connection that took its slot.  (handleAgentControl's    *)
(* old.close, and disconnect's check that the slot still holds conn.)      *)
AttachedOrClosing ==
  \A c \in Conns :
    Live(c) => \/ Attached(c)
               \/ done[c]
               \/ \E d \in Conns : pc[d] = "displacing" /\ old[d] = c

(* A host is shown online exactly while some channel of it is attached:    *)
(* host.online is a cached value that three functions must keep up.        *)
OnlineIsAccurate ==
  \A h \in Hosts : online[h] <=> AnyConn(slot[h])

(* While the user-session agent is attached the host's identity is the one *)
(* it registered, whatever order the helper and the console worker come    *)
(* and go in.                                                              *)
UserIdentityWins ==
  \A h \in Hosts : slot[h]["user"] # None => reg[h] = slot[h]["user"]

(* What the dashboard reads of a host without looking at its connections.  *)
CachedFacts == OnlineIsAccurate /\ UserIdentityWins

(* Every connection that is served is accounted for, and what is shown of  *)
(* a host is what its connections say (Store, agentConn).                  *)
RegistryIsSound == AttachedOrClosing /\ CachedFacts

(* A connection loses its slot only to a newer connection of the same host *)
(* and role, or by its own handler's last step: the late disconnect of a   *)
(* displaced connection never detaches its successor.                      *)
VacatedOnlyByItself ==
  [][\A h \in Hosts, r \in Roles :
       (slot[h][r] # None /\ slot'[h][r] = None) =>
          pc[slot[h][r]] = "detaching" /\ pc'[slot[h][r]] = "gone"]_vars

(* The registry seen as the directory of channels it implements. *)
Directory == INSTANCE ChannelDirectory WITH
  known <- hosts,
  holder <- slot,
  fresh <- {c \in Conns : pc[c] = "dialing"},
  ended <- {c \in Conns : pc[c] = "gone"}

(* The handlers, with every interleaving of registering, closing what was  *)
(* displaced and detaching, are that directory.                            *)
ImplementsDirectory == Directory!Spec

(* store.go, canStream: "reports whether a host can serve a screen session *)
(* right now".  With nobody signed in, a console worker that registered as *)
(* streamable is what screen sessions are served by.                       *)
StreamableWorkerIsOffered ==
  \A h \in Hosts :
    LET c == slot[h]["console"]
    IN c # None /\ slot[h]["user"] = None /\ hello[c].stream => CanStream(h)

(* store.go, canExec: "reports whether a host can run commands (via its    *)
(* elevated helper if present, else the interactive agent)".               *)
ExecutableHasConnection ==
  \A h \in Hosts : CanExec(h) => ExecConn(h) # None

=============================================================================
