----------------------------- MODULE AgentLink -----------------------------
(***************************************************************************)
(* An agent's control connection from both ends (agent/agent.go,           *)
(* server/agentconn.go): the agent's loop dials, registers and serves      *)
(* until the connection is lost, beside it a writer, a closer, a watch for *)
(* a display that appears, and goroutines that answer requests; the hub's  *)
(* handler greets, attaches and reads.  Either end may be the only one     *)
(* that is left, and an agent stops and starts again.                      *)
(*                                                                         *)
(* Abstracted: telemetry, which only fills the queue; how long a backoff   *)
(* is and what cuts it short (Refresh); deadlines, which pass when nothing *)
(* can come any more; the commands of CommandExchange and the sessions of  *)
(* the other modules.  The agent is of a user session.  External: the      *)
(* network, the display, a process that is to be restarted.                *)
(* Operators named Action_Fault are single-fault variants of Action.       *)
(***************************************************************************)
EXTENDS Naturals, FiniteSets

CONSTANTS
  Conns,   \* bound: connections that one of the ends still has
  Asks,    \* bound: what the hub asks of the agent
  None

LinkAssumption == Asks \subseteq {"session", "inventory", "restart"} /\ None \notin Conns /\ "root" \notin Conns

VARIABLES
  alive, network, display,
  run,       \* Agent.Run: "off", "dial", "register", "serve", "lost", "backoff"
  link,      \* the agent's connection
  wire,      \* per connection: "none", "up", "cut" and nobody was told, "closed"
  ctx,       \* "none", "live", "over"
  writer,    \* "none", "runs", "ended"
  full,      \* its queue is full
  wait,      \* waitForDisplay runs
  told,      \* CanStream of its registration: "unsent", "no", "yes"
  served,    \* the hub's end: "none", "greets", "reads", "over"
  job,       \* a request being answered: "none", "collect", "stop", "start", "reply"
  attached,  \* the hub's slot
  stream,    \* the hub takes the host to be streamable
  media,     \* a screen session: [is: "none", "runs", "over", of: its context]
  proc,      \* external: "runs", "stopped", "lingers", "two" of it
  why        \* history: why it is stopped: "restart", "told", "died"

world == <<alive, network, display>>
agent == <<run, link>>
ends == <<ctx, writer, full, wait, told>>
hub == <<served, attached, stream>>
work == <<job, proc, why>>
vars == <<world, agent, wire, ends, hub, work, media>>

NoMedia == [is |-> "none", of |-> None]

Init ==
  /\ alive = TRUE /\ network = TRUE /\ display \in BOOLEAN
  /\ run = "dial" /\ link = None
  /\ wire = [c \in Conns |-> "none"] /\ ctx = [c \in Conns |-> "none"] /\ writer = [c \in Conns |-> "none"]
  /\ full = [c \in Conns |-> FALSE] /\ wait = [c \in Conns |-> FALSE] /\ told = [c \in Conns |-> "unsent"]
  /\ served = [c \in Conns |-> "none"] /\ attached = None /\ stream = FALSE
  /\ job = [c \in Conns |-> "none"] /\ proc = "runs" /\ why = "restart" /\ media = NoMedia

Shut(c, w) == IF w[c] = "up" THEN [w EXCEPT ![c] = "closed"] ELSE w

-----------------------------------------------------------------------------
(* The agent's loop. *)

Dial(c) ==
  /\ run = "dial" /\ network /\ wire[c] = "none" /\ served[c] = "none" /\ ctx[c] = "none" /\ job[c] = "none"
  /\ run' = "register" /\ link' = c
  /\ wire' = [wire EXCEPT ![c] = "up"] /\ served' = [served EXCEPT ![c] = "greets"]
  /\ UNCHANGED <<world, ends, attached, stream, work, media>>
DialFails ==
  /\ run = "dial" /\ ~network /\ run' = "backoff"
  /\ UNCHANGED <<world, link, wire, ends, hub, work, media>>

(* What the agent can do is settled here, once for the connection.         *)
Register ==
  /\ run = "register"
  /\ IF wire[link] = "closed" THEN run' = "lost" /\ UNCHANGED ends
     ELSE /\ run' = "serve" /\ told' = [told EXCEPT ![link] = IF display THEN "yes" ELSE "no"]
          /\ ctx' = [ctx EXCEPT ![link] = "live"] /\ writer' = [writer EXCEPT ![link] = "runs"]
          /\ wait' = [wait EXCEPT ![link] = ~display] /\ UNCHANGED full
  /\ UNCHANGED <<world, link, wire, hub, work, media>>

WaitSees_Nothing(c) == UNCHANGED ctx   \* a bug: the display is seen and nothing done
WaitSees(c) == ctx' = [ctx EXCEPT ![c] = "over"]

WaitForDisplay(c) ==
  /\ wait[c] /\ wait' = [wait EXCEPT ![c] = FALSE]
  /\ IF ctx[c] = "live" THEN display /\ WaitSees(c) ELSE UNCHANGED ctx
  /\ UNCHANGED <<world, agent, wire, writer, full, told, hub, work, media>>

(* The closer: a context that is over closes the socket under the reader.  *)
CloseSocket(c) ==
  /\ ctx[c] = "over" /\ run = "serve" /\ link = c /\ wire[c] = "up"
  /\ wire' = [wire EXCEPT ![c] = "closed"]
  /\ UNCHANGED <<world, agent, ends, hub, work, media>>

(* The read loop ends with its socket, or with silence past the deadline.  *)
ReadFails ==
  /\ run = "serve" /\ wire[link] # "up" /\ run' = "lost"
  /\ UNCHANGED <<world, link, wire, ends, hub, work, media>>

Lost ==
  /\ run = "lost" /\ run' = "backoff" /\ link' = None
  /\ wire' = Shut(link, wire) /\ ctx' = [ctx EXCEPT ![link] = IF @ = "none" THEN @ ELSE "over"]
  /\ UNCHANGED <<world, writer, full, wait, told, hub, work, media>>

BackoffEnds ==
  /\ run = "backoff" /\ run' = "dial"
  /\ UNCHANGED <<world, link, wire, ends, hub, work, media>>
(* The writer ends with the context or a write that fails; nobody is told. *)
WriterEnds(c) ==
  /\ writer[c] = "runs" /\ (ctx[c] = "over" \/ wire[c] # "up" \/ ~network)
  /\ writer' = [writer EXCEPT ![c] = "ended"]
  /\ UNCHANGED <<world, agent, wire, ctx, full, wait, told, hub, work, media>>
Fill(c) ==   \* telemetry and pongs, dropped once it is full; it matters to an answer
  /\ ctx[c] = "live" /\ job[c] # "none" /\ ~full[c] /\ full' = [full EXCEPT ![c] = TRUE]
  /\ UNCHANGED <<world, agent, wire, ctx, writer, wait, told, hub, work, media>>
Drain(c) ==
  /\ writer[c] = "runs" /\ full[c] /\ full' = [full EXCEPT ![c] = FALSE]
  /\ UNCHANGED <<world, agent, wire, ctx, writer, wait, told, hub, work, media>>

-----------------------------------------------------------------------------
(* Requests. *)

Heard(c) == run = "serve" /\ link = c /\ wire[c] = "up" /\ served[c] = "reads"

(* A session runs on the agent's context and not on the connection's.      *)
SessionCtx_Conn(c) == c   \* a bug
SessionCtx(c) == "root"
StartSession(c) ==
  /\ "session" \in Asks /\ Heard(c) /\ media.is = "none" /\ media' = [is |-> "runs", of |-> SessionCtx(c)]
  /\ UNCHANGED <<world, agent, wire, ends, hub, work>>
SessionEnds ==   \* on its own, or with its context
  /\ media.is = "runs"
  /\ media' = IF media.of \in Conns /\ ctx[media.of] # "live" THEN [media EXCEPT !.is = "over"] ELSE NoMedia
  /\ UNCHANGED <<world, agent, wire, ends, hub, work>>

Request(c) ==
  /\ Heard(c) /\ job[c] = "none"
  /\ \/ "inventory" \in Asks /\ job' = [job EXCEPT ![c] = "collect"]
     \/ "restart" \in Asks /\ job' = [job EXCEPT ![c] = "stop"]
  /\ UNCHANGED <<world, agent, wire, ends, hub, proc, why, media>>

Collect(c) ==
  /\ job[c] = "collect" /\ job' = [job EXCEPT ![c] = "reply"]
  /\ UNCHANGED <<world, agent, wire, ends, hub, proc, why, media>>

(* restartProc: on no context at all.  One that cannot be found, read or   *)
(* stopped is left alone; one that takes too long is started beside.       *)
Stop(c) ==
  /\ job[c] = "stop"
  /\ \/ job' = [job EXCEPT ![c] = "reply"] /\ UNCHANGED <<proc, why>>
     \/ /\ proc \in {"runs", "two"} /\ job' = [job EXCEPT ![c] = "start"]
        /\ proc' \in {"stopped", "lingers"} /\ why' = "restart"
  /\ UNCHANGED <<world, agent, wire, ends, hub, media>>
Start(c) ==
  /\ job[c] = "start" /\ job' = [job EXCEPT ![c] = "reply"]
  /\ \/ proc' = (IF proc = "lingers" THEN "two" ELSE "runs") /\ UNCHANGED why
     \/ why' = "told" /\ proc' = IF proc = "lingers" THEN "runs" ELSE proc
  /\ UNCHANGED <<world, agent, wire, ends, hub, media>>

Reply(c) ==
  /\ job[c] = "reply" /\ (ctx[c] = "over" \/ ~full[c]) /\ job' = [job EXCEPT ![c] = "none"]
  /\ full' = [full EXCEPT ![c] = ctx[c] = "live" \/ @]
  /\ UNCHANGED <<world, agent, wire, ctx, writer, wait, told, hub, proc, why, media>>

-----------------------------------------------------------------------------
(* The hub. *)

Greet(c) ==
  /\ served[c] = "greets" /\ told[c] # "unsent"
  /\ served' = [served EXCEPT ![c] = "reads"] /\ attached' = c /\ stream' = (told[c] = "yes")
  /\ wire' = IF attached # None THEN [wire EXCEPT ![attached] = "closed"] ELSE wire
  /\ UNCHANGED <<world, agent, ends, work, media>>
GreetFails(c) ==
  /\ served[c] = "greets" /\ wire[c] # "up"
  /\ served' = [served EXCEPT ![c] = "over"] /\ wire' = Shut(c, wire)
  /\ UNCHANGED <<world, agent, ends, attached, stream, work, media>>

(* Nothing comes when the wire is gone, or when the agent's writer is.     *)
HubSilence(c) == wire[c] # "up" \/ writer[c] # "runs"

HubReadFails(c) ==
  /\ served[c] = "reads" /\ HubSilence(c)
  /\ served' = [served EXCEPT ![c] = "over"] /\ wire' = Shut(c, wire)
  /\ attached' = IF attached = c THEN None ELSE attached
  /\ UNCHANGED <<world, agent, ends, stream, work, media>>

-----------------------------------------------------------------------------
(* External, and what is left of a connection when both ends are over. *)

NetworkTurns ==
  /\ network' = ~network
  /\ UNCHANGED <<alive, display, agent, wire, ends, hub, work, media>>
Cut(c) ==
  /\ ~network /\ wire[c] = "up" /\ wire' = [wire EXCEPT ![c] = "cut"]
  /\ UNCHANGED <<world, agent, ends, hub, work, media>>
DisplayAppears ==
  /\ ~display /\ display' = TRUE
  /\ UNCHANGED <<alive, network, agent, wire, ends, hub, work, media>>

Die ==   \* told, or with the power
  /\ alive /\ alive' = FALSE /\ run' = "off" /\ link' = None
  /\ wire' = IF link = None THEN wire
             ELSE IF network THEN Shut(link, wire) ELSE [wire EXCEPT ![link] = IF @ = "up" THEN "cut" ELSE @]
  /\ ctx' = [c \in Conns |-> IF ctx[c] = "none" THEN "none" ELSE "over"]
  /\ writer' = [c \in Conns |-> IF writer[c] = "none" THEN "none" ELSE "ended"]
  /\ wait' = [c \in Conns |-> FALSE] /\ job' = [c \in Conns |-> "none"] /\ media' = NoMedia
  /\ why' = IF proc = "stopped" /\ why = "restart" THEN "died" ELSE why
  /\ proc' = IF proc = "lingers" THEN "runs" ELSE proc
  /\ UNCHANGED <<network, display, full, told, hub>>
Begin ==
  /\ ~alive /\ alive' = TRUE /\ run' = "dial"
  /\ UNCHANGED <<network, display, link, wire, ends, hub, work, media>>

Release(c) ==
  /\ served[c] = "over" /\ link # c /\ job[c] = "none" /\ writer[c] # "runs" /\ ~wait[c]
  /\ served' = [served EXCEPT ![c] = "none"] /\ wire' = [wire EXCEPT ![c] = "none"]
  /\ ctx' = [ctx EXCEPT ![c] = "none"] /\ writer' = [writer EXCEPT ![c] = "none"]
  /\ full' = [full EXCEPT ![c] = FALSE] /\ told' = [told EXCEPT ![c] = "unsent"]
  /\ UNCHANGED <<world, agent, wait, attached, stream, work, media>>

Loop == DialFails \/ Register \/ ReadFails \/ Lost \/ BackoffEnds \/ \E c \in Conns : Dial(c)
OfConn(c) ==
  \/ WaitForDisplay(c) \/ CloseSocket(c) \/ WriterEnds(c) \/ Fill(c) \/ Drain(c) \/ StartSession(c) \/ Request(c)
  \/ Collect(c) \/ Stop(c) \/ Start(c) \/ Reply(c) \/ Greet(c) \/ GreetFails(c) \/ HubReadFails(c) \/ Cut(c) \/ Release(c)
Next ==
  \/ Loop \/ SessionEnds \/ NetworkTurns \/ DisplayAppears \/ Die \/ Begin
  \/ \E c \in Conns : OfConn(c)

(* Every goroutine goes on, and deadlines pass: of the steps a connection  *)
(* takes but once, each is taken, and its requests are worked on.          *)
EndsMove(c) ==
  \/ WaitForDisplay(c) \/ CloseSocket(c) \/ (ctx[c] = "over" /\ WriterEnds(c))
  \/ Greet(c) \/ GreetFails(c) \/ HubReadFails(c) \/ Release(c)
WorkMoves(c) == Collect(c) \/ Stop(c) \/ Start(c) \/ Reply(c)
Fairness ==
  /\ WF_vars(Loop)
  /\ \A c \in Conns : WF_vars(EndsMove(c)) /\ WF_vars(WorkMoves(c))

Spec == Init /\ [][Next]_vars
FairSpec == Spec /\ Fairness

-----------------------------------------------------------------------------
(* However connections were cut, half of them or all, once the agent stays *)
(* up and the network with it, the hub has the agent's connection, nothing *)
(* on it is stuck, and the host is streamable if it has a display, whenever*)
(* that appeared (waitForDisplay).                                         *)
Settled ==
  /\ run = "serve" /\ attached = link /\ served[link] = "reads" /\ wire[link] = "up" /\ writer[link] = "runs"
  /\ display => stream
LinkSettles == <>[](alive /\ network) => <>[]Settled

(* A screen session does not end with the control connection it was asked  *)
(* for on (Agent.rootCtx), and a process that a restart has stopped is     *)
(* being started, unless that failed and is told, or the agent died.       *)
MediaOutlivesLink == media.is # "over"
ProcessComesBack == proc = "stopped" /\ why = "restart" => \E c \in Conns : job[c] = "start"
WorkOutlivesLink == MediaOutlivesLink /\ ProcessComesBack

-----------------------------------------------------------------------------
(* Not so, for a process that does not end within five seconds: "stops a   *)
(* process and relaunches it" (restartProc). *)
OneProcess == proc # "two"
=============================================================================
