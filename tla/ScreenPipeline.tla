--------------------------- MODULE ScreenPipeline ---------------------------
(***************************************************************************)
(* Screen sessions on one host: the agent's rule of one session at a time  *)
(* (agent/screensession.go), and the life of a session's capture and       *)
(* encode pipeline around it (startSession in agent/session.go), down to   *)
(* the display mode it puts back when it ends (agent/displaymode.go).      *)
(*                                                                         *)
(* Every session is a goroutine of the agent process that serves it.  On   *)
(* Windows two agent processes of a host can serve screens, the            *)
(* user-session agent and the console worker, and each keeps a slot of its *)
(* own.  Session ids come from the hub: two viewers that open the same     *)
(* session make the agent start two sessions under one id.                 *)
(*                                                                         *)
(* Operators named Action_Fault are single-fault variants of Action.       *)
(*                                                                         *)
(* Abstracted: what is captured, encoded and sent; one display; the        *)
(* agent's shutdown, which ends the process; codec switches (module        *)
(* EncoderSwap).                                                           *)
(***************************************************************************)
CONSTANTS
  Sessions,   \* startSession calls
  Ids,        \* session ids
  IdOf,       \* IdOf[s]: the id in s's StartSession message
  Agents,     \* agent processes of the host that can serve a screen
  Modes,      \* display modes
  Native,     \* the mode the display is in when nobody watches
  InputOn,    \* sessions whose viewer asked for an input socket
  None

ASSUME IdOfIsAFunction == IdOf \in [Sessions -> Ids]
ASSUME NativeIsAMode == Native \in Modes
ASSUME NoneIsNothing == None \notin Sessions /\ None \notin Ids /\ None \notin Modes

VARIABLES
  pc,        \* where the session's goroutine is
  aux,       \* aux[s]: where the input loop of s's input socket is
  server,    \* server[s]: the agent process running s
  slotId,    \* screenSessions.id, one per agent process
  holder,    \* screenSessions.supersede: the session it would stop
  prev,      \* prev[s]: the session s has yet to supersede
  closed,    \* closed[s]: s has been told it is superseded
  open,      \* open[s]: s's media socket
  capturer,  \* capturer[s]: s holds a capturer
  encoder,   \* encoder[s]: s holds an encoder (an ffmpeg process, for H.264)
  memory,    \* memory[s]: the mode s will put back (displayModeMemory.orig)
  mode       \* the display's current mode

vars == <<pc, aux, server, slotId, holder, prev, closed, open, capturer, encoder, memory, mode>>

Init ==
  /\ pc = [s \in Sessions |-> "idle"]
  /\ aux = [s \in Sessions |-> "none"]
  /\ server \in [Sessions -> Agents]
  /\ slotId = [a \in Agents |-> None]
  /\ holder = [a \in Agents |-> None]
  /\ prev = [s \in Sessions |-> None]
  /\ closed = [s \in Sessions |-> FALSE]
  /\ open = [s \in Sessions |-> FALSE]
  /\ capturer = [s \in Sessions |-> FALSE]
  /\ encoder = [s \in Sessions |-> FALSE]
  /\ memory = [s \in Sessions |-> None]
  /\ mode = Native

Go(s, from, to) == pc[s] = from /\ pc' = [pc EXCEPT ![s] = to]

(* The agent dials its media socket; a failed dial ends the session. *)
Dial(s) ==
  /\ \/ Go(s, "idle", "dialled") /\ open' = [open EXCEPT ![s] = TRUE]
     \/ Go(s, "idle", "over") /\ UNCHANGED open
  /\ UNCHANGED <<aux, server, slotId, holder, prev, closed, capturer, encoder, memory, mode>>

(* screenSessions.claim: the newest session takes the slot. *)
Claim(s) ==
  /\ Go(s, "dialled", "claimed")
  /\ prev' = [prev EXCEPT ![s] = holder[server[s]]]
  /\ slotId' = [slotId EXCEPT ![server[s]] = IdOf[s]]
  /\ holder' = [holder EXCEPT ![server[s]] = s]
  /\ UNCHANGED <<aux, server, closed, open, capturer, encoder, memory, mode>>

(* endPrevious: the previous holder's stop sends "superseded" and closes   *)
(* its channel.  It does not wait for that session to unwind.              *)
EndPrevious_Forgets(s) ==
  /\ Go(s, "claimed", "setup")
  /\ prev' = [prev EXCEPT ![s] = None]
  /\ UNCHANGED <<aux, server, slotId, holder, closed, open, capturer, encoder, memory, mode>>

EndPrevious(s) ==
  /\ Go(s, "claimed", "setup")
  /\ closed' = [t \in Sessions |-> closed[t] \/ t = prev[s]]
  /\ prev' = [prev EXCEPT ![s] = None]
  /\ UNCHANGED <<aux, server, slotId, holder, open, capturer, encoder, memory, mode>>

(* Without a capturer the session returns, releasing its claim. *)
OpenCapturer(s) ==
  /\ \/ Go(s, "setup", "capturing") /\ capturer' = [capturer EXCEPT ![s] = TRUE]
     \/ Go(s, "setup", "captured") /\ UNCHANGED capturer
  /\ UNCHANGED <<aux, server, slotId, holder, prev, closed, open, encoder, memory, mode>>

(* The encoder starts, and with it the goroutine that watches closed. *)
StartEncoder(s) ==
  /\ Go(s, "capturing", "running")
  /\ encoder' = [encoder EXCEPT ![s] = TRUE]
  /\ UNCHANGED <<aux, server, slotId, holder, prev, closed, open, capturer, memory, mode>>

Watched(s) == pc[s] \in {"running", "setting"}

(* The goroutine started with the encoder closes the socket of a           *)
(* superseded session. *)
CloseSuperseded_OnlyOnEnd(s) ==
  /\ pc[s] = "encoding" /\ open[s]
  /\ open' = [open EXCEPT ![s] = FALSE]
  /\ UNCHANGED <<pc, aux, server, slotId, holder, prev, closed, capturer, encoder, memory, mode>>

CloseSuperseded(s) ==
  /\ Watched(s) /\ closed[s] /\ open[s]
  /\ open' = [open EXCEPT ![s] = FALSE]
  /\ UNCHANGED <<pc, aux, server, slotId, holder, prev, closed, capturer, encoder, memory, mode>>

(* The relay or the network ends the socket, or it stays silent for 90 s. *)
PeerLeaves(s) ==
  /\ open[s]
  /\ open' = [open EXCEPT ![s] = FALSE]
  /\ UNCHANGED <<pc, aux, server, slotId, holder, prev, closed, capturer, encoder, memory, mode>>

(* displayModeMemory.remember: the first mode wins. *)
Remember(s) == memory' = [memory EXCEPT ![s] = IF @ = None THEN mode ELSE @]

(* The input loop handles a resolution change in two calls: remember the   *)
(* mode in effect, then apply the new one, which may fail.                 *)
RememberMode(s) ==
  /\ Go(s, "running", "setting") /\ open[s]
  /\ Remember(s)
  /\ UNCHANGED <<aux, server, slotId, holder, prev, closed, open, capturer, encoder, mode>>

SetDisplayMode(s) ==
  /\ Go(s, "setting", "running")
  /\ mode' \in Modes
  /\ UNCHANGED <<aux, server, slotId, holder, prev, closed, open, capturer, encoder, memory>>

-----------------------------------------------------------------------------
(* The same loop runs in a goroutine of its own on the input socket, if    *)
(* there is one.  Closing that socket ends its next read, and nothing      *)
(* waits for it: it may be anywhere in the handling of a message.          *)
AuxGo(s, from, to) == aux[s] = from /\ aux' = [aux EXCEPT ![s] = to]

DialInput(s) ==
  /\ s \in InputOn /\ pc[s] = "running"
  /\ AuxGo(s, "none", "reading")
  /\ UNCHANGED <<pc, server, slotId, holder, prev, closed, open, capturer, encoder, memory, mode>>

AuxReads(s) ==
  /\ Watched(s)
  /\ AuxGo(s, "reading", "handling")
  /\ UNCHANGED <<pc, server, slotId, holder, prev, closed, open, capturer, encoder, memory, mode>>

AuxRemembers(s) ==
  /\ AuxGo(s, "handling", "setting")
  /\ Remember(s)
  /\ UNCHANGED <<pc, server, slotId, holder, prev, closed, open, capturer, encoder, mode>>

AuxSets(s) ==
  /\ AuxGo(s, "setting", "reading")
  /\ mode' \in Modes
  /\ UNCHANGED <<pc, server, slotId, holder, prev, closed, open, capturer, encoder, memory>>

AuxEnds(s) ==
  /\ AuxGo(s, "reading", "ended")
  /\ UNCHANGED <<pc, server, slotId, holder, prev, closed, open, capturer, encoder, memory, mode>>

AuxStep(s) == DialInput(s) \/ AuxReads(s) \/ AuxRemembers(s) \/ AuxSets(s) \/ AuxEnds(s)

-----------------------------------------------------------------------------
InputLoopEnds_ReleasesFirst(s) ==
  /\ Go(s, "running", "restoring") /\ ~open[s]
  /\ slotId' = [slotId EXCEPT ![server[s]] = IF @ = IdOf[s] THEN None ELSE @]
  /\ holder' = [holder EXCEPT ![server[s]] = IF slotId[server[s]] = IdOf[s] THEN None ELSE @]
  /\ UNCHANGED <<aux, server, prev, closed, open, capturer, encoder, memory, mode>>

(* The input loop's read fails and startSession's deferred calls run, last *)
(* one first: restore the mode, close the encoder, close the capturer,     *)
(* release the claim, close the socket.                                    *)
InputLoopEnds(s) ==
  /\ Go(s, "running", "restoring") /\ ~open[s]
  /\ UNCHANGED <<aux, server, slotId, holder, prev, closed, open, capturer, encoder, memory, mode>>

RestoreMode(s) ==
  /\ Go(s, "restoring", "encoding")
  /\ mode' = IF memory[s] = None THEN mode ELSE memory[s]
  /\ memory' = [memory EXCEPT ![s] = None]
  /\ UNCHANGED <<aux, server, slotId, holder, prev, closed, open, capturer, encoder>>

CloseEncoder(s) ==
  /\ Go(s, "encoding", "closing")
  /\ encoder' = [encoder EXCEPT ![s] = FALSE]
  /\ UNCHANGED <<aux, server, slotId, holder, prev, closed, open, capturer, memory, mode>>

CloseCapturer(s) ==
  /\ Go(s, "closing", "captured")
  /\ capturer' = [capturer EXCEPT ![s] = FALSE]
  /\ UNCHANGED <<aux, server, slotId, holder, prev, closed, open, encoder, memory, mode>>

(* screenSessions.release clears the slot if it still has this id. *)
MayRelease(s) == slotId[server[s]] = IdOf[s]

Release(s) ==
  /\ Go(s, "captured", "over")
  /\ slotId' = [slotId EXCEPT ![server[s]] = IF MayRelease(s) THEN None ELSE @]
  /\ holder' = [holder EXCEPT ![server[s]] = IF MayRelease(s) THEN None ELSE @]
  /\ open' = [open EXCEPT ![s] = FALSE]
  /\ UNCHANGED <<aux, server, prev, closed, capturer, encoder, memory, mode>>

(* The steps of the goroutine that runs startSession. *)
Step(s) ==
  \/ Claim(s) \/ EndPrevious(s) \/ OpenCapturer(s) \/ StartEncoder(s) \/ SetDisplayMode(s)
  \/ InputLoopEnds(s) \/ RestoreMode(s) \/ CloseEncoder(s) \/ CloseCapturer(s) \/ Release(s)

Next ==
  \E s \in Sessions :
    \/ Dial(s) \/ PeerLeaves(s) \/ RememberMode(s) \/ CloseSuperseded(s)
    \/ Step(s) \/ AuxStep(s)

Spec == Init /\ [][Next]_vars

(* A goroutine that can run does; viewers are under no obligation. *)
FairSpec ==
  Spec /\ \A s \in Sessions : WF_vars(Step(s)) /\ WF_vars(CloseSuperseded(s))

-----------------------------------------------------------------------------
(* The hub gives every session an id of its own (auth.RandomID). *)
IdsAreDistinct == \A s, t \in Sessions : IdOf[s] = IdOf[t] => s = t

Phases == {"idle", "dialled", "claimed", "setup", "capturing", "running", "setting",
           "restoring", "encoding", "closing", "captured", "over"}

TypeOK ==
  /\ pc \in [Sessions -> Phases]
  /\ aux \in [Sessions -> {"none", "reading", "handling", "setting", "ended"}]
  /\ server \in [Sessions -> Agents]
  /\ slotId \in [Agents -> Ids \cup {None}]
  /\ holder \in [Agents -> Sessions \cup {None}]
  /\ prev \in [Sessions -> Sessions \cup {None}]
  /\ closed \in [Sessions -> BOOLEAN]
  /\ open \in [Sessions -> BOOLEAN]
  /\ capturer \in [Sessions -> BOOLEAN]
  /\ encoder \in [Sessions -> BOOLEAN]
  /\ memory \in [Sessions -> Modes \cup {None}]
  /\ mode \in Modes

(* The session has claimed its agent's slot and not yet released it. *)
Claimed(s) == pc[s] \notin {"idle", "dialled", "over"}

(* The session has been told to stop, or its successor is about to. *)
Superseded(s) == closed[s] \/ \E t \in Sessions : pc[t] = "claimed" /\ prev[t] = s

HasPipeline(s) == capturer[s] \/ encoder[s]

(* Of the sessions an agent is running, at most one has not been           *)
(* superseded, whatever order claims, stops and releases come in.          *)
OneUnsuperseded ==
  \A s, t \in Sessions :
    s # t /\ server[s] = server[t] /\ Claimed(s) /\ Claimed(t) => Superseded(s) \/ Superseded(t)

(* That one is on record, so the next claim stops it: a superseded         *)
(* session's late release never clears its successor's claim.              *)
ActiveIsRecorded ==
  \A s \in Sessions :
    Claimed(s) /\ ~Superseded(s) => holder[server[s]] = s /\ slotId[server[s]] = IdOf[s]

(* Once the slot is free, whatever pipeline is still up belongs to a       *)
(* session that has been told to stop: release comes after the pipeline's  *)
(* own teardown.                                                           *)
FreeSlotIsQuiet ==
  \A s \in Sessions : holder[server[s]] = None /\ HasPipeline(s) => Superseded(s)

(* A superseded session is torn down, though its viewer keeps the socket   *)
(* open and even if it was superseded before its pipeline was built.       *)
SupersededStops == \A s \in Sessions : closed[s] ~> pc[s] = "over"

(* screensession.go, claim: "The caller runs it *before* doing its own     *)
(* expensive setup, so the two pipelines never overlap."                   *)
PipelinesNeverOverlap ==
  \A s, t \in Sessions :
    s # t /\ server[s] = server[t] => ~(HasPipeline(s) /\ HasPipeline(t))

(* session.go: "Any resolution this session changes is put back when it    *)
(* ends: a host shrunk to suit the operator's screen should not stay that  *)
(* way for whoever is sitting at it."                                      *)
RestoredWhenAllOver ==
  (\A s \in Sessions : pc[s] \in {"idle", "dialled", "over"} /\ aux[s] \in {"none", "ended"})
    => mode = Native

(* screensession.go, release: "A newer session may have claimed it         *)
(* already, in which case this one must not clear the newcomer."           *)
NewcomerKept ==
  [][\A a \in Agents : holder[a] # None /\ holder'[a] = None => pc'[holder[a]] = "over"]_vars

(* screensession.go: "screenSessions enforces one screen session per       *)
(* host."                                                                  *)
OneScreenPerHost ==
  \A s, t \in Sessions :
    s # t /\ Watched(s) /\ Watched(t) => Superseded(s) \/ Superseded(t)

=============================================================================
