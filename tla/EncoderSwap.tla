---------------------------- MODULE EncoderSwap ----------------------------
(***************************************************************************)
(* The encoders of one screen session: the holder its goroutines share     *)
(* (encHolder in agent/session.go), the codec switches that replace what   *)
(* it holds, the frame loop that uses it, the deferred calls that close    *)
(* it, and the ffmpeg process behind an H.264 encoder, which Encode starts *)
(* when there is none and Close ends (internal/capture/h264.go).           *)
(*                                                                         *)
(* The media socket's input loop runs in the session's own goroutine; with *)
(* an input socket a second one runs beside it, and nobody waits for that  *)
(* one, or for the frame loop, when the session ends.                      *)
(*                                                                         *)
(* Abstracted: pictures, quality and rate (a restart of a running ffmpeg   *)
(* leaves one running), everything else of the session's teardown.         *)
(*                                                                         *)
(* Operators named Action_Fault are single-fault variants of Action.       *)
(***************************************************************************)
CONSTANTS
  Encoders,  \* encoders the session may create; bounds its codec switches
  First,     \* the one it starts with
  H264,      \* those that run ffmpeg; the others are JPEG-tile streamers
  InputOn,   \* the viewer asked for an input socket
  None

EncodersAssumption ==
  First \in Encoders /\ H264 \subseteq Encoders /\ None \notin Encoders /\ InputOn \in BOOLEAN

Loops == {"media", "input"}

VARIABLES
  phase,   \* the session: "running", then its deferred calls one by one
  loop,    \* loop[l]: where the input loop on socket l is
  hand,    \* hand[l]: the encoder that loop is about to install or to close
  held,    \* encHolder.enc
  made,    \* encoders created
  closed,  \* encoders closed
  procs,   \* encoders with a running ffmpeg
  frame,   \* where the frame loop is
  using    \* the encoder the frame loop fetched

vars == <<phase, loop, hand, held, made, closed, procs, frame, using>>

Init ==
  /\ phase = "running"
  /\ loop = [l \in Loops |-> IF l = "media" \/ InputOn THEN "reading" ELSE "ended"]
  /\ hand = [l \in Loops |-> None]
  /\ held = First
  /\ made = {First}
  /\ closed = {}
  /\ procs = {}
  /\ frame = "ready"
  /\ using = None

(* An encoder's Close. *)
Close(e) == closed' = closed \cup {e} /\ procs' = procs \ {e}

-----------------------------------------------------------------------------
(* switchCodec, called by an input loop that has read a "codec" event: a   *)
(* new encoder, swapped for the held one, which is then closed.            *)

NewEncoder(l) ==
  /\ loop[l] = "reading" /\ phase = "running"
  /\ loop' = [loop EXCEPT ![l] = "created"]
  /\ \E e \in Encoders \ made : made' = made \cup {e} /\ hand' = [hand EXCEPT ![l] = e]
  /\ UNCHANGED <<phase, held, closed, procs, frame, using>>

(* Reads the holder without taking what it read out of it. *)
Swap_Keeps(l) ==
  /\ loop[l] = "created"
  /\ loop' = [loop EXCEPT ![l] = "swapped"]
  /\ hand' = [hand EXCEPT ![l] = held]
  /\ UNCHANGED <<phase, held, made, closed, procs, frame, using>>

Swap(l) ==
  /\ loop[l] = "created"
  /\ loop' = [loop EXCEPT ![l] = "swapped"]
  /\ held' = hand[l]
  /\ hand' = [hand EXCEPT ![l] = held]
  /\ UNCHANGED <<phase, made, closed, procs, frame, using>>

CloseOld(l) ==
  /\ loop[l] = "swapped"
  /\ loop' = [loop EXCEPT ![l] = "reading"]
  /\ Close(hand[l])
  /\ hand' = [hand EXCEPT ![l] = None]
  /\ UNCHANGED <<phase, held, made, frame, using>>

-----------------------------------------------------------------------------
(* A read fails: the media socket closed, or the input socket did. *)
LoopEnds(l) ==
  /\ loop[l] = "reading"
  /\ loop' = [loop EXCEPT ![l] = "ended"]
  /\ UNCHANGED <<phase, hand, held, made, closed, procs, frame, using>>

(* The session's deferred calls: the input socket is closed, the context   *)
(* cancelled, and the encoder the holder has by then is closed.            *)
Cancel ==
  /\ phase = "running" /\ loop["media"] = "ended"
  /\ phase' = "cancelled"
  /\ UNCHANGED <<loop, hand, held, made, closed, procs, frame, using>>

CloseHeld ==
  /\ phase = "cancelled"
  /\ phase' = "over"
  /\ Close(held)
  /\ UNCHANGED <<loop, hand, held, made, frame, using>>

-----------------------------------------------------------------------------
(* frameLoop. *)

CheckContext_Never ==
  /\ frame = "ready"
  /\ frame' = "capturing"
  /\ UNCHANGED <<phase, loop, hand, held, made, closed, procs, using>>

(* The context is looked at only here, or while waiting for the next frame. *)
CheckContext ==
  /\ frame = "ready"
  /\ frame' = IF phase = "running" THEN "capturing" ELSE "ended"
  /\ UNCHANGED <<phase, loop, hand, held, made, closed, procs, using>>

(* The capture may find no change, or fail; a picture goes to the held     *)
(* encoder. *)
Capture ==
  /\ frame = "capturing"
  /\ \/ frame' = "ready" /\ UNCHANGED using
     \/ frame' = "encoding" /\ using' = held
  /\ UNCHANGED <<phase, loop, hand, held, made, closed, procs>>

(* Encode starts ffmpeg if none runs; a failure to start it, or to write   *)
(* what it produced, ends the loop. *)
Encode ==
  /\ frame = "encoding" /\ using' = None
  /\ \/ procs' = procs \cup ({using} \cap H264) /\ frame' \in {"ready", "ended"}
     \/ using \in H264 \ procs /\ frame' = "ended" /\ UNCHANGED procs
  /\ UNCHANGED <<phase, loop, hand, held, made, closed>>

-----------------------------------------------------------------------------
LoopStep(l) == NewEncoder(l) \/ Swap(l) \/ CloseOld(l) \/ LoopEnds(l)
FrameStep == CheckContext \/ Capture \/ Encode

Next == (\E l \in Loops : LoopStep(l)) \/ Cancel \/ CloseHeld \/ FrameStep

Spec == Init /\ [][Next]_vars

(* Goroutines that can run do; a closed input socket ends its loop's read. *)
Fairness ==
  /\ WF_vars(FrameStep) /\ WF_vars(Cancel) /\ WF_vars(CloseHeld)
  /\ \A l \in Loops : WF_vars(Swap(l)) /\ WF_vars(CloseOld(l))
  /\ WF_vars(phase # "running" /\ LoopEnds("input"))

FairSpec == Spec /\ Fairness

-----------------------------------------------------------------------------
TypeOK ==
  /\ phase \in {"running", "cancelled", "over"}
  /\ loop \in [Loops -> {"reading", "created", "swapped", "ended"}]
  /\ hand \in [Loops -> Encoders \cup {None}]
  /\ held \in Encoders
  /\ made \subseteq Encoders /\ closed \subseteq made /\ procs \subseteq H264
  /\ frame \in {"ready", "capturing", "encoding", "ended"}
  /\ using \in Encoders \cup {None}

(* Two codec switches at once, on the two sockets, never close an encoder  *)
(* twice between them, nor the one just installed: an encoder is in one    *)
(* place at a time, and the one the frame loop fetches is open until the   *)
(* session is torn down (encHolder.swap).                                  *)
OneOwner ==
  /\ phase # "over" => held \notin closed
  /\ \A l \in Loops : hand[l] # None => hand[l] # held
  /\ hand["media"] # None => hand["media"] # hand["input"]

(* However many times the codec was switched, on either socket, an encoder *)
(* that is open is the one installed or the one some loop is about to      *)
(* install or close: none is forgotten while the session runs, and of all  *)
(* it made only the last one installed can outlive it.                     *)
NoneForgotten == made \ closed \subseteq {held} \cup {hand[l] : l \in Loops}

(* Every open encoder has one owner, who will close it (encHolder). *)
EncodersAreOwned == OneOwner /\ NoneForgotten

(* When the session is over every encoder it made has been closed: so with *)
(* no input socket, and with one only if its loop installs none after.     *)
AllClosed == phase = "over" => \A e \in made : e \in closed

(* The frame loop does not outlive its session for long, whatever it was   *)
(* doing when the context was cancelled.                                   *)
FrameLoopEnds == phase = "over" ~> frame = "ended"

(* session.go, encHolder: "holds the active encoder so the frame loop and  *)
(* input loop (which can swap the codec mid-session) share it safely": no  *)
(* ffmpeg is left running that nobody will ever close.                     *)
NoStrayProcess ==
  phase = "over" /\ frame = "ended" /\ (\A l \in Loops : loop[l] = "ended") => procs = {}

=============================================================================
