---------------------------- MODULE SessionRelay ----------------------------
(***************************************************************************)
(* How a viewer and an agent meet on the hub (server/session.go and the    *)
(* session handlers of server/http.go).                                    *)
(*                                                                         *)
(* The dashboard creates a session; a viewer opens it over a media socket, *)
(* whose handler asks the agent, over its control channel, to dial a media *)
(* socket of its own; the agent's handler hands that socket over through   *)
(* the session's one-place channel; the viewer's handler gives up after    *)
(* 12 s, or copies both ways until either side stops, and takes the        *)
(* session off the registry on its way out.  A second pair of sockets may  *)
(* carry input.  Every handler is a goroutine, and the registry lock is    *)
(* held for single lookups only.                                           *)
(*                                                                         *)
(* The sockets an agent dials are named after the viewer whose             *)
(* StartSession they answer.  Abstracted: tickets (an expired one is a     *)
(* refusal), codec negotiation, what is relayed.                           *)
(*                                                                         *)
(* Operators named Action_Fault are single-fault variants of Action.       *)
(***************************************************************************)
CONSTANTS
  Sessions,
  Viewers,    \* viewer pages, each opening a media and an input socket
  None

ASSUME NoneIsNotAViewer == None \notin Viewers

VARIABLES
  registry,   \* keys of sessionRegistry.m
  viewer,     \* viewer[v]: where v's media handler is
  sess,       \* sess[v]: the session v opens
  agentCh,    \* session.agentCh: the viewer the buffered socket is named after
  media,      \* media[v]: what became of the media socket the agent dialled for v
  peer,       \* peer[v]: the agent's media socket v's handler relays
  viewerOpen, \* v's media socket is open
  agentOpen,  \* the agent's media socket named after v is open
  pumps,      \* pumps[v]: which of relay's two pumps still run
  inputView,  \* inputView[v]: where the handler of v's input socket is
  inputCh,    \* session.inputCh
  input       \* input[v]: what became of the input socket the agent dialled for v

mediaVars == <<viewer, agentCh, media, peer, viewerOpen, agentOpen, pumps>>
inputVars == <<inputView, inputCh, input>>
vars == <<registry, sess, mediaVars, inputVars>>

Init ==
  /\ registry = {}
  /\ viewer = [v \in Viewers |-> "away"]
  /\ sess \in [Viewers -> Sessions]
  /\ agentCh = [s \in Sessions |-> None]
  /\ media = [v \in Viewers |-> "none"]
  /\ peer = [v \in Viewers |-> None]
  /\ viewerOpen = [v \in Viewers |-> FALSE]
  /\ agentOpen = [v \in Viewers |-> FALSE]
  /\ pumps = [v \in Viewers |-> {}]
  /\ inputView = [v \in Viewers |-> "away"]
  /\ inputCh = [s \in Sessions |-> None]
  /\ input = [v \in Viewers |-> "none"]

(* A session id is used once: created before anyone can know it. *)
Unused(s) == \A v \in Viewers : sess[v] = s => viewer[v] = "away"

(* handleCreateSession. *)
Create(s) ==
  /\ s \notin registry
  /\ Unused(s)
  /\ registry' = registry \cup {s}
  /\ UNCHANGED <<sess, mediaVars, inputVars>>

-----------------------------------------------------------------------------
(* handleClientSession, media. *)

(* The session is looked up and the socket upgraded; from here on the      *)
(* deferred remove runs, however the handler ends.  (A failed upgrade has  *)
(* the effect of OpenViewer and HostOffline together.)                     *)
OpenViewer(v) ==
  /\ viewer[v] = "away"
  /\ sess[v] \in registry
  /\ viewer' = [viewer EXCEPT ![v] = "opened"]
  /\ viewerOpen' = [viewerOpen EXCEPT ![v] = TRUE]
  /\ UNCHANGED <<registry, sess, agentCh, media, peer, agentOpen, pumps, inputVars>>

(* The deferred calls: the viewer's socket is closed and the session       *)
(* removed. *)
Leave(v) ==
  /\ viewer' = [viewer EXCEPT ![v] = "gone"]
  /\ viewerOpen' = [viewerOpen EXCEPT ![v] = FALSE]
  /\ registry' = registry \ {sess[v]}

(* Without a connection that can serve the session the viewer is told so. *)
HostOffline(v) ==
  /\ viewer[v] = "opened"
  /\ Leave(v)
  /\ UNCHANGED <<sess, agentCh, media, peer, agentOpen, pumps, inputVars>>

(* StartSession is queued on the agent's control connection.  It may be    *)
(* lost with that connection: then the agent never dials.                  *)
AskAgent(v) ==
  /\ viewer[v] = "opened"
  /\ viewer' = [viewer EXCEPT ![v] = "waiting"]
  /\ media' = [media EXCEPT ![v] = "asked"]
  /\ UNCHANGED <<registry, sess, agentCh, peer, viewerOpen, agentOpen, pumps, inputVars>>

TakeAgent_LeavesIt(v) ==
  /\ viewer[v] = "waiting"
  /\ agentCh[sess[v]] # None
  /\ viewer' = [viewer EXCEPT ![v] = "relaying"]
  /\ peer' = [peer EXCEPT ![v] = agentCh[sess[v]]]
  /\ media' = [media EXCEPT ![agentCh[sess[v]]] = "relayed"]
  /\ pumps' = [pumps EXCEPT ![v] = {"up", "down"}]
  /\ UNCHANGED <<registry, sess, agentCh, viewerOpen, agentOpen, inputVars>>

(* A socket is waiting in the session's channel: relay starts. *)
TakeAgent(v) ==
  /\ viewer[v] = "waiting"
  /\ agentCh[sess[v]] # None
  /\ viewer' = [viewer EXCEPT ![v] = "relaying"]
  /\ peer' = [peer EXCEPT ![v] = agentCh[sess[v]]]
  /\ media' = [media EXCEPT ![agentCh[sess[v]]] = "relayed"]
  /\ agentCh' = [agentCh EXCEPT ![sess[v]] = None]
  /\ pumps' = [pumps EXCEPT ![v] = {"up", "down"}]
  /\ UNCHANGED <<registry, sess, viewerOpen, agentOpen, inputVars>>

(* 12 s pass first. *)
GiveUp(v) ==
  /\ viewer[v] = "waiting"
  /\ Leave(v)
  /\ UNCHANGED <<sess, agentCh, media, peer, agentOpen, pumps, inputVars>>

-----------------------------------------------------------------------------
(* handleAgentSession, for the media socket dialled on v's behalf. *)

FindSession(v) ==
  /\ media[v] = "asked"
  /\ \/ /\ sess[v] \in registry
        /\ media' = [media EXCEPT ![v] = "found"]
        /\ agentOpen' = [agentOpen EXCEPT ![v] = TRUE]
     \/ /\ media' = [media EXCEPT ![v] = "refused"]
        /\ UNCHANGED agentOpen
  /\ UNCHANGED <<registry, sess, viewer, agentCh, peer, viewerOpen, pumps, inputVars>>

(* deliverAgent: into the channel if there is room, closed otherwise.  By  *)
(* now the session may have left the registry. *)
DeliverAgent(v) ==
  /\ media[v] = "found"
  /\ IF agentCh[sess[v]] = None
       THEN /\ agentCh' = [agentCh EXCEPT ![sess[v]] = v]
            /\ media' = [media EXCEPT ![v] = "buffered"]
            /\ UNCHANGED agentOpen
       ELSE /\ media' = [media EXCEPT ![v] = "closed"]
            /\ agentOpen' = [agentOpen EXCEPT ![v] = FALSE]
            /\ UNCHANGED agentCh
  /\ UNCHANGED <<registry, sess, viewer, peer, viewerOpen, pumps, inputVars>>

-----------------------------------------------------------------------------
(* relay and its two pumps. *)

(* The agent's end of v's relay is open. *)
PeerOpen(v) == \E w \in Viewers : w = peer[v] /\ agentOpen[w]

(* A pump's read fails as soon as its source is closed; its write fails    *)
(* only if there is something to copy, or 90 s of silence pass.            *)
ReadEnds(v, dir) ==
  /\ dir \in pumps[v]
  /\ IF dir = "up" THEN ~viewerOpen[v] ELSE ~PeerOpen(v)
  /\ pumps' = [pumps EXCEPT ![v] = @ \ {dir}]
  /\ UNCHANGED <<registry, sess, viewer, agentCh, media, peer, viewerOpen, agentOpen, inputVars>>

WriteEnds(v, dir) ==
  /\ dir \in pumps[v]
  /\ pumps' = [pumps EXCEPT ![v] = @ \ {dir}]
  /\ UNCHANGED <<registry, sess, viewer, agentCh, media, peer, viewerOpen, agentOpen, inputVars>>

RelayCloses_OnlyAgent(v) ==
  /\ viewer[v] = "relaying" /\ pumps[v] # {"up", "down"}
  /\ PeerOpen(v)
  /\ agentOpen' = [agentOpen EXCEPT ![peer[v]] = FALSE]
  /\ UNCHANGED <<registry, sess, viewer, agentCh, media, peer, viewerOpen, pumps, inputVars>>

(* The first pump to stop makes relay close both sockets. *)
RelayCloses(v) ==
  /\ viewer[v] = "relaying" /\ pumps[v] # {"up", "down"}
  /\ viewerOpen[v] \/ PeerOpen(v)
  /\ viewerOpen' = [viewerOpen EXCEPT ![v] = FALSE]
  /\ agentOpen' = [agentOpen EXCEPT ![peer[v]] = FALSE]
  /\ UNCHANGED <<registry, sess, viewer, agentCh, media, peer, pumps, inputVars>>

(* relay returns once both pumps have, and the handler with it. *)
RelayReturns(v) ==
  /\ viewer[v] = "relaying" /\ pumps[v] = {}
  /\ ~PeerOpen(v)
  /\ Leave(v)
  /\ UNCHANGED <<sess, agentCh, media, peer, agentOpen, pumps, inputVars>>

(* Either end may go away at any moment, noticed or not. *)
ViewerLeaves(v) ==
  /\ viewerOpen[v]
  /\ viewerOpen' = [viewerOpen EXCEPT ![v] = FALSE]
  /\ UNCHANGED <<registry, sess, viewer, agentCh, media, peer, agentOpen, pumps, inputVars>>

AgentLeaves(v) ==
  /\ agentOpen[v]
  /\ agentOpen' = [agentOpen EXCEPT ![v] = FALSE]
  /\ UNCHANGED <<registry, sess, viewer, agentCh, media, peer, viewerOpen, pumps, inputVars>>

-----------------------------------------------------------------------------
(* The input pair: handleClientSession with ch=input is relayInput. *)

OpenInput(v) ==
  /\ inputView[v] = "away"
  /\ sess[v] \in registry
  /\ inputView' = [inputView EXCEPT ![v] = "waiting"]
  /\ UNCHANGED <<registry, sess, mediaVars, inputCh, input>>

(* The agent dials it once its media socket and pipeline are up. *)
FindInput(v) ==
  /\ input[v] = "none"
  /\ media[v] \in {"buffered", "relayed"} /\ agentOpen[v]
  /\ input' = [input EXCEPT ![v] = IF sess[v] \in registry THEN "found" ELSE "refused"]
  /\ UNCHANGED <<registry, sess, mediaVars, inputView, inputCh>>

DeliverInput(v) ==
  /\ input[v] = "found"
  /\ IF inputCh[sess[v]] = None
       THEN /\ inputCh' = [inputCh EXCEPT ![sess[v]] = v]
            /\ input' = [input EXCEPT ![v] = "buffered"]
       ELSE /\ input' = [input EXCEPT ![v] = "closed"]
            /\ UNCHANGED inputCh
  /\ UNCHANGED <<registry, sess, mediaVars, inputView>>

(* The viewer is told "inputready", then the two are relayed; if it cannot *)
(* be told, it has gone. *)
TakeInput(v) ==
  /\ inputView[v] = "waiting"
  /\ inputCh[sess[v]] # None
  /\ inputView' \in {[inputView EXCEPT ![v] = "ready"], [inputView EXCEPT ![v] = "gone"]}
  /\ input' = [input EXCEPT ![inputCh[sess[v]]] = "relayed"]
  /\ inputCh' = [inputCh EXCEPT ![sess[v]] = None]
  /\ UNCHANGED <<registry, sess, mediaVars>>

(* 12 s pass, or the relay of the input pair ends. *)
EndInput(v) ==
  /\ inputView[v] \in {"waiting", "ready"}
  /\ inputView' = [inputView EXCEPT ![v] = "gone"]
  /\ UNCHANGED <<registry, sess, mediaVars, inputCh, input>>

-----------------------------------------------------------------------------
Next ==
  \/ \E s \in Sessions : Create(s)
  \/ \E v \in Viewers :
       \/ OpenViewer(v) \/ HostOffline(v) \/ AskAgent(v) \/ TakeAgent(v) \/ GiveUp(v)
       \/ FindSession(v) \/ DeliverAgent(v)
       \/ \E dir \in {"up", "down"} : ReadEnds(v, dir) \/ WriteEnds(v, dir)
       \/ RelayCloses(v) \/ RelayReturns(v) \/ ViewerLeaves(v) \/ AgentLeaves(v)
       \/ OpenInput(v) \/ FindInput(v) \/ DeliverInput(v) \/ TakeInput(v) \/ EndInput(v)

Spec == Init /\ [][Next]_vars

(* Goroutines that can run do, and timers fire; agents and viewers owe us  *)
(* nothing, so no dial, no departure and no failing write is fair.         *)
Fairness ==
  \A v \in Viewers :
    /\ WF_vars(HostOffline(v) \/ AskAgent(v))
    /\ WF_vars(TakeAgent(v) \/ GiveUp(v))
    /\ WF_vars(DeliverAgent(v))
    /\ \A dir \in {"up", "down"} : WF_vars(ReadEnds(v, dir))
    /\ WF_vars(RelayCloses(v)) /\ WF_vars(RelayReturns(v))

FairSpec == Spec /\ Fairness

-----------------------------------------------------------------------------
SocketStates == {"none", "asked", "found", "refused", "buffered", "relayed", "closed"}

TypeOK ==
  /\ registry \subseteq Sessions
  /\ viewer \in [Viewers -> {"away", "opened", "waiting", "relaying", "gone"}]
  /\ sess \in [Viewers -> Sessions]
  /\ agentCh \in [Sessions -> Viewers \cup {None}]
  /\ media \in [Viewers -> SocketStates]
  /\ peer \in [Viewers -> Viewers \cup {None}]
  /\ viewerOpen \in [Viewers -> BOOLEAN]
  /\ agentOpen \in [Viewers -> BOOLEAN]
  /\ pumps \in [Viewers -> SUBSET {"up", "down"}]
  /\ inputView \in [Viewers -> {"away", "waiting", "ready", "gone"}]
  /\ inputCh \in [Sessions -> Viewers \cup {None}]
  /\ input \in [Viewers -> SocketStates]
  /\ \A v \in Viewers : viewer[v] = "relaying" => peer[v] # None

(* An agent's media socket is relayed to one viewer at most, and to one    *)
(* that opened the session it was dialled for, even when two viewers open  *)
(* the same session and each makes the agent dial (agentCh, TakeAgent).    *)
PairedOnce ==
  \A v, w \in Viewers :
    /\ peer[v] # None => sess[peer[v]] = sess[v] /\ media[peer[v]] = "relayed"
    /\ v # w /\ peer[v] # None => peer[v] # peer[w]

(* A viewer that has gone, for whatever reason, took its session with it:  *)
(* its ticket opens nothing any more (the deferred remove).                *)
SessionEndsWithViewer ==
  \A v \in Viewers : viewer[v] = "gone" => sess[v] \notin registry

(* A viewer that has been told "inputready" has an agent at the other end  *)
(* of its session's input channel; keystrokes sent there do not vanish.    *)
ReadyMeansAttached ==
  \A v \in Viewers :
    inputView[v] = "ready" => \E w \in Viewers : sess[w] = sess[v] /\ input[w] = "relayed"

(* Both sockets of a session meet the ones they are meant for. *)
SocketsMeet == PairedOnce /\ ReadyMeansAttached

(* Neither socket meets a stranger, nor a session outlives its viewer      *)
(* (handleClientSession, handleAgentSession).                              *)
SessionsAreSound == SocketsMeet /\ SessionEndsWithViewer

(* A viewer's handler does not wait for ever for an agent that never       *)
(* dials, and a relay whose viewer or agent went away ends, with both      *)
(* sockets closed and the session removed, without needing traffic.        *)
HandlersEnd ==
  \A v \in Viewers :
    /\ viewer[v] \in {"opened", "waiting"} ~> viewer[v] \in {"relaying", "gone"}
    /\ viewer[v] = "relaying" /\ ~(viewerOpen[v] /\ PeerOpen(v))
         ~> viewer[v] = "gone" /\ ~viewerOpen[v] /\ ~PeerOpen(v)

(* http.go, handleAgentSession: a socket that is not delivered is closed,  *)
(* "viewer gone or agent already attached".  No code closes a socket left  *)
(* in the channel of a session whose viewer has gone.                      *)
DeliveredToAViewer ==
  [][\A v \in Viewers :
       media[v] = "found" /\ media'[v] = "buffered" =>
         \E w \in Viewers : sess[w] = sess[v] /\ viewer[w] \in {"opened", "waiting"}]_vars

=============================================================================
