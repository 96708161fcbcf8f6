------------------------- MODULE SessionRelayProofs -------------------------
(***************************************************************************)
(* The sockets of a screen session meet the ones they are meant for, and a *)
(* session ends with its viewer, for any number of sessions and viewers.   *)
(***************************************************************************)
EXTENDS SessionRelay, TLAPS

(* A socket in a session's channel is one dialled for that session that    *)
(* nobody has taken. *)
Buffered ==
  \A s \in Sessions :
    /\ agentCh[s] # None => sess[agentCh[s]] = s /\ media[agentCh[s]] = "buffered"
    /\ inputCh[s] # None => sess[inputCh[s]] = s /\ input[inputCh[s]] = "buffered"

(* A viewer's agent is asked once, when its handler begins to wait.        *)
AskedOnce == \A v \in Viewers : viewer[v] \in {"away", "opened"} => media[v] = "none"

IInv == TypeOK /\ Buffered /\ AskedOnce /\ SessionsAreSound

-----------------------------------------------------------------------------
LEMMA TypeStep == ASSUME TypeOK, [Next]_vars PROVE TypeOK'
<1> USE DEF TypeOK, SocketStates
<1>1. ASSUME NEW s \in Sessions, Create(s) PROVE TypeOK'
  BY <1>1 DEF Create, mediaVars, inputVars
<1>2. ASSUME NEW v \in Viewers, OpenViewer(v) \/ AskAgent(v) PROVE TypeOK'
  BY <1>2 DEF OpenViewer, AskAgent, inputVars
<1>3. ASSUME NEW v \in Viewers, HostOffline(v) \/ GiveUp(v) \/ RelayReturns(v) PROVE TypeOK'
  BY <1>3 DEF HostOffline, GiveUp, RelayReturns, Leave, inputVars
<1>4. ASSUME NEW v \in Viewers, TakeAgent(v) PROVE TypeOK'
  <2>1. agentCh[sess[v]] \in Viewers
    BY <1>4 DEF TakeAgent
  <2> QED
    BY <1>4, <2>1, NoneIsNotAViewer DEF TakeAgent, inputVars
<1>5. ASSUME NEW v \in Viewers, FindSession(v) PROVE TypeOK'
  BY <1>5 DEF FindSession, inputVars
<1>6. ASSUME NEW v \in Viewers, DeliverAgent(v) PROVE TypeOK'
  <2>1. CASE agentCh[sess[v]] = None
    BY <1>6, <2>1 DEF DeliverAgent, inputVars
  <2>2. CASE agentCh[sess[v]] # None
    BY <1>6, <2>2 DEF DeliverAgent, inputVars
  <2> QED BY <2>1, <2>2
<1>7. ASSUME NEW v \in Viewers, NEW dir \in {"up", "down"}, ReadEnds(v, dir) \/ WriteEnds(v, dir) PROVE TypeOK'
  BY <1>7 DEF ReadEnds, WriteEnds, inputVars
<1>8. ASSUME NEW v \in Viewers, RelayCloses(v) \/ ViewerLeaves(v) \/ AgentLeaves(v) PROVE TypeOK'
  BY <1>8 DEF RelayCloses, ViewerLeaves, AgentLeaves, inputVars
<1>9. ASSUME NEW v \in Viewers, OpenInput(v) \/ EndInput(v) PROVE TypeOK'
  BY <1>9 DEF OpenInput, EndInput, mediaVars
<1>10. ASSUME NEW v \in Viewers, FindInput(v) PROVE TypeOK'
  BY <1>10 DEF FindInput, mediaVars
<1>11. ASSUME NEW v \in Viewers, DeliverInput(v) PROVE TypeOK'
  BY <1>11 DEF DeliverInput, mediaVars
<1>12. ASSUME NEW v \in Viewers, TakeInput(v) PROVE TypeOK'
  BY <1>12 DEF TakeInput, mediaVars
<1>13. CASE UNCHANGED vars
  BY <1>13 DEF vars, mediaVars, inputVars
<1> QED
  BY <1>1, <1>2, <1>3, <1>4, <1>5, <1>6, <1>7, <1>8, <1>9, <1>10, <1>11, <1>12, <1>13 DEF Next

(* A step that moves no socket between the channels and the relays, and    *)
(* neither creates a session nor ends a viewer, keeps the invariant.       *)
LEMMA NoSocketMoves ==
  ASSUME IInv, TypeOK', UNCHANGED <<registry, sess, agentCh, media, peer, inputCh, input>>,
         \A v \in Viewers : /\ viewer'[v] = viewer[v]
                            /\ inputView'[v] = "ready" => inputView[v] = "ready"
  PROVE  IInv'
  BY DEF IInv, Buffered, AskedOnce, SessionsAreSound, SocketsMeet, PairedOnce, ReadyMeansAttached,
         SessionEndsWithViewer

(* A handler that ends leaves its session removed.                         *)
LEMMA LeaveStep ==
  ASSUME IInv, TypeOK', NEW v \in Viewers, Leave(v), viewer[v] \in {"opened", "waiting", "relaying"},
         UNCHANGED <<sess, agentCh, media, peer, inputVars>>
  PROVE  IInv'
<1>1. Buffered' /\ AskedOnce'
  BY DEF Leave, IInv, TypeOK, Buffered, AskedOnce, inputVars
<1>2. SocketsMeet'
  BY DEF IInv, SessionsAreSound, SocketsMeet, PairedOnce, ReadyMeansAttached, inputVars
<1>3. SessionEndsWithViewer'
  BY DEF Leave, IInv, TypeOK, SessionsAreSound, SessionEndsWithViewer
<1> QED
  BY <1>1, <1>2, <1>3 DEF IInv, SessionsAreSound

-----------------------------------------------------------------------------
LEMMA InvariantStep == ASSUME IInv, [Next]_vars PROVE IInv'
<1>0. TypeOK'
  BY TypeStep DEF IInv
<1>1. ASSUME NEW s \in Sessions, Create(s) PROVE IInv'
  BY <1>0, <1>1
  DEF Create, Unused, mediaVars, inputVars, IInv, TypeOK, Buffered, AskedOnce, SessionsAreSound,
      SocketsMeet, PairedOnce, ReadyMeansAttached, SessionEndsWithViewer
<1>2. ASSUME NEW v \in Viewers, OpenViewer(v) PROVE IInv'
  BY <1>0, <1>2
  DEF OpenViewer, inputVars, IInv, TypeOK, Buffered, AskedOnce, SessionsAreSound,
      SocketsMeet, PairedOnce, ReadyMeansAttached, SessionEndsWithViewer
<1>3. ASSUME NEW v \in Viewers, HostOffline(v) \/ GiveUp(v) \/ RelayReturns(v) PROVE IInv'
  BY <1>0, <1>3, LeaveStep DEF HostOffline, GiveUp, RelayReturns
<1>4. ASSUME NEW v \in Viewers, AskAgent(v) PROVE IInv'
  <2>1. media[v] = "none"
    BY <1>4 DEF AskAgent, IInv, AskedOnce
  <2>2. Buffered' /\ AskedOnce'
    BY <1>4, <2>1 DEF AskAgent, inputVars, IInv, TypeOK, Buffered, AskedOnce
  <2>3. SessionsAreSound'
    BY <1>4, <2>1 DEF AskAgent, inputVars, IInv, TypeOK, SessionsAreSound, SocketsMeet, PairedOnce,
       ReadyMeansAttached, SessionEndsWithViewer
  <2> QED
    BY <1>0, <2>2, <2>3 DEF IInv
<1>5. ASSUME NEW v \in Viewers, TakeAgent(v) PROVE IInv'
  <2> DEFINE a == agentCh[sess[v]]
  <2>1. a \in Viewers /\ sess[a] = sess[v] /\ media[a] = "buffered"
    BY <1>5 DEF TakeAgent, IInv, TypeOK, Buffered
  <2>2. \A w \in Viewers : peer[w] # a
    BY <2>1, NoneIsNotAViewer DEF IInv, SessionsAreSound, SocketsMeet, PairedOnce
  <2>3. Buffered'
    BY <1>5, <2>1 DEF TakeAgent, inputVars, IInv, TypeOK, Buffered
  <2>4. AskedOnce'
    BY <1>5, <2>1 DEF TakeAgent, IInv, TypeOK, AskedOnce
  <2>5. PairedOnce'
    BY <1>5, <2>1, <2>2 DEF TakeAgent, IInv, TypeOK, SessionsAreSound, SocketsMeet, PairedOnce
  <2>6. ReadyMeansAttached' /\ SessionEndsWithViewer'
    BY <1>5 DEF TakeAgent, inputVars, IInv, TypeOK, SessionsAreSound, SocketsMeet, ReadyMeansAttached,
       SessionEndsWithViewer
  <2> QED
    BY <1>0, <2>3, <2>4, <2>5, <2>6 DEF IInv, SessionsAreSound, SocketsMeet
<1>6. ASSUME NEW v \in Viewers, FindSession(v) PROVE IInv'
  <2>1. media[v] = "asked" /\ media' \in {[media EXCEPT ![v] = "found"], [media EXCEPT ![v] = "refused"]}
    BY <1>6 DEF FindSession
  <2>2. Buffered' /\ AskedOnce'
    BY <1>6, <2>1 DEF FindSession, inputVars, IInv, TypeOK, Buffered, AskedOnce
  <2>3. SessionsAreSound'
    BY <1>6, <2>1 DEF FindSession, inputVars, IInv, TypeOK, SessionsAreSound, SocketsMeet, PairedOnce,
       ReadyMeansAttached, SessionEndsWithViewer
  <2> QED
    BY <1>0, <2>2, <2>3 DEF IInv
<1>7. ASSUME NEW v \in Viewers, DeliverAgent(v) PROVE IInv'
  <2>1. media[v] = "found" /\ media' \in {[media EXCEPT ![v] = "buffered"], [media EXCEPT ![v] = "closed"]}
    BY <1>7 DEF DeliverAgent
  <2>2. Buffered'
    BY <1>7 DEF DeliverAgent, inputVars, IInv, TypeOK, Buffered
  <2>3. AskedOnce'
    BY <1>7, <2>1 DEF DeliverAgent, IInv, TypeOK, AskedOnce
  <2>4. SessionsAreSound'
    BY <1>7, <2>1 DEF DeliverAgent, inputVars, IInv, TypeOK, SessionsAreSound, SocketsMeet, PairedOnce,
       ReadyMeansAttached, SessionEndsWithViewer
  <2> QED
    BY <1>0, <2>2, <2>3, <2>4 DEF IInv
<1>8. ASSUME NEW v \in Viewers, NEW dir \in {"up", "down"}, ReadEnds(v, dir) \/ WriteEnds(v, dir) PROVE IInv'
  BY <1>0, <1>8, NoSocketMoves DEF ReadEnds, WriteEnds, inputVars
<1>9. ASSUME NEW v \in Viewers, RelayCloses(v) \/ ViewerLeaves(v) \/ AgentLeaves(v) PROVE IInv'
  BY <1>0, <1>9, NoSocketMoves DEF RelayCloses, ViewerLeaves, AgentLeaves, inputVars
<1>10. ASSUME NEW v \in Viewers, OpenInput(v) \/ EndInput(v) PROVE IInv'
  <2>1. \A w \in Viewers : inputView'[w] = "ready" => inputView[w] = "ready"
    BY <1>10 DEF OpenInput, EndInput, IInv, TypeOK
  <2> QED
    BY <1>0, <1>10, <2>1, NoSocketMoves DEF OpenInput, EndInput, mediaVars
<1>11. ASSUME NEW v \in Viewers, FindInput(v) PROVE IInv'
  BY <1>0, <1>11
  DEF FindInput, mediaVars, IInv, TypeOK, Buffered, AskedOnce, SessionsAreSound,
      SocketsMeet, PairedOnce, ReadyMeansAttached, SessionEndsWithViewer
<1>12. ASSUME NEW v \in Viewers, DeliverInput(v) PROVE IInv'
  <2>1. input[v] = "found" /\ input' \in {[input EXCEPT ![v] = "buffered"], [input EXCEPT ![v] = "closed"]}
    BY <1>12 DEF DeliverInput
  <2>2. Buffered' /\ AskedOnce'
    BY <1>12 DEF DeliverInput, mediaVars, IInv, TypeOK, Buffered, AskedOnce
  <2>3. SessionsAreSound'
    BY <1>12, <2>1 DEF DeliverInput, mediaVars, IInv, TypeOK, SessionsAreSound, SocketsMeet, PairedOnce,
       ReadyMeansAttached, SessionEndsWithViewer
  <2> QED
    BY <1>0, <2>2, <2>3 DEF IInv
<1>13. ASSUME NEW v \in Viewers, TakeInput(v) PROVE IInv'
  <2> DEFINE a == inputCh[sess[v]]
  <2>1. a \in Viewers /\ sess[a] = sess[v] /\ input[a] = "buffered"
    BY <1>13 DEF TakeInput, IInv, TypeOK, Buffered
  <2>2. Buffered' /\ AskedOnce'
    BY <1>13, <2>1 DEF TakeInput, mediaVars, IInv, TypeOK, Buffered, AskedOnce
  <2>3. ReadyMeansAttached'
    BY <1>13, <2>1 DEF TakeInput, mediaVars, IInv, TypeOK, SessionsAreSound, SocketsMeet, ReadyMeansAttached
  <2>4. PairedOnce' /\ SessionEndsWithViewer'
    BY <1>13 DEF TakeInput, mediaVars, IInv, SessionsAreSound, SocketsMeet, PairedOnce, SessionEndsWithViewer
  <2> QED
    BY <1>0, <2>2, <2>3, <2>4 DEF IInv, SessionsAreSound, SocketsMeet
<1>14. CASE UNCHANGED vars
  BY <1>0, <1>14, NoSocketMoves DEF vars, mediaVars, inputVars
<1> QED
  BY <1>1, <1>2, <1>3, <1>4, <1>5, <1>6, <1>7, <1>8, <1>9, <1>10, <1>11, <1>12, <1>13, <1>14 DEF Next

-----------------------------------------------------------------------------
LEMMA Invariance == Spec => []IInv
<1>1. Init => IInv
  BY NoneIsNotAViewer
  DEF Init, IInv, TypeOK, SocketStates, Buffered, AskedOnce, SessionsAreSound, SocketsMeet, PairedOnce,
      ReadyMeansAttached, SessionEndsWithViewer
<1>2. IInv /\ [Next]_vars => IInv'
  BY InvariantStep
<1> QED
  BY <1>1, <1>2, PTL DEF Spec

(* Sessions, the handlers of viewers and the sockets agents dial for them  *)
(* (session.go, http.go).                                                  *)
THEOREM TypeCorrect == Spec => []TypeOK
<1>1. IInv => TypeOK
  BY DEF IInv
<1> QED
  BY <1>1, Invariance, PTL

(* However viewers and agents dial, leave and race for a channel, sockets  *)
(* are paired one to one and within their session, and a session ends with *)
(* its viewer (handleClientSession, handleAgentSession).                   *)
THEOREM SessionsSound == Spec => []SessionsAreSound
<1>1. IInv => SessionsAreSound
  BY DEF IInv
<1> QED
  BY <1>1, Invariance, PTL

=============================================================================
