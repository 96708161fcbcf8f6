---------------------------- MODULE FrameStream ----------------------------
(***************************************************************************)
(* How a picture gets from a Windows desktop to the viewer: the duplicated *)
(* output, its buffer and what it says has changed (capture/dxgi_windows), *)
(* the capturer that chooses between it and plain screenshots              *)
(* (capture_screenshot.go), the tile encoder that sends what differs from  *)
(* what it sent (stream.go), and the frame loop that drives them           *)
(* (agent/session.go), while the desktop is painted, the viewer selects    *)
(* displays and encoders, the duplication is lost, and the session ends.   *)
(*                                                                         *)
(* Abstracted: a display to its tiles and what is painted on them; damage  *)
(* to the tiles it touches; JPEG and its quality; pacing; the device and   *)
(* its textures to "open". External: the duplication tells every tile that *)
(* changed since the last acquired frame, except in the first frame after  *)
(* it was opened, which has the whole picture and any rectangles.          *)
(* Operators named Action_Fault are single-fault variants of Action.       *)
(***************************************************************************)
EXTENDS Naturals, FiniteSets

CONSTANTS
  Displays,
  Shape,     \* Shape[d]: the tiles of a display of its size
  Paints,    \* what a tile can show
  None

FrameAssumption == None \notin Paints \cup Displays /\ Displays # {}

Tiles == UNION {Shape[d] : d \in Displays}
All == Tiles \cup {None}   \* a nil list of rectangles: everything

VARIABLES
  screen,  \* screen[d][t]
  sel,     \* screenCapturer.region, as the display it shows
  fast,    \* the accelerated backend: "on", "dropped" or "closed"
  open,    \* the display its duplication is open on, or None
  first,   \* the duplication has given no frame yet
  changed, \* external: tiles changed since the last acquired frame
  buf,     \* dxgiSource.buf: tile -> paint, {} when there is none
  dirty,   \* screenCapturer.dirty
  loop,    \* the frame loop: "top", "grabbing", "encoding", "crashed", "ended"
  region,  \* the display Capture works on
  img,     \* the image it returned
  force,   \* this frame is a keyframe
  keyDue,  \* lastKey is zero
  prev,    \* Streamer.prev, over the tiles of the size it has seen
  viewer,  \* what the viewer shows
  closing  \* the session's deferred calls have run

source == <<open, first, changed, buf>>
cap == <<sel, fast, dirty>>
frame == <<loop, region, img, force, keyDue>>
vars == <<screen, source, cap, frame, prev, viewer, closing>>

Blank == <<>>

Init ==
  /\ \E p \in Paints : screen = [d \in Displays |-> [t \in Tiles |-> p]]
  /\ sel \in Displays
  /\ fast \in {"on", "dropped"} /\ open = None /\ first = FALSE /\ changed = {} /\ buf = Blank
  /\ dirty = All /\ loop = "top" /\ region = sel /\ img = Blank
  /\ force = FALSE /\ keyDue = TRUE /\ prev = Blank /\ viewer = Blank /\ closing = FALSE

Restricted(f, S) == [t \in S |-> f[t]]

-----------------------------------------------------------------------------
(* dxgiSource. *)

(* start: the duplication of the display that lies where region does; a    *)
(* frame then has the whole picture.                                       *)
Opened == open = region

(* convert: the buffer's dirty tiles anew, or all of a new buffer; what it *)
(* reports is everything then.                                             *)
Converted(rects) ==
  [t \in Shape[region] |-> IF buf = Blank \/ rects = All \/ t \in rects THEN screen[region][t] ELSE buf[t]]
Damage_TrustsRects(rects) == rects
Damage(rects) == IF buf = Blank THEN All ELSE rects

Capture ==
  /\ loop = "top" /\ ~closing
  /\ region' = sel
  /\ \E key \in BOOLEAN : force' = (keyDue \/ key)
  /\ loop' = "grabbing"
  /\ UNCHANGED <<screen, source, cap, img, keyDue, prev, viewer, closing>>

(* grab opens the duplication anew when there is none or it is another's;  *)
(* a region that no output matches, or a refusal, drops the backend.       *)
Reopen ==
  /\ loop = "grabbing" /\ fast = "on" /\ ~Opened
  /\ \/ open' = region /\ first' = TRUE /\ changed' = {} /\ buf' = Blank /\ UNCHANGED fast
     \/ fast' = "dropped" /\ open' = None /\ first' = FALSE /\ changed' = {} /\ buf' = Blank
  /\ UNCHANGED <<screen, sel, dirty, frame, prev, viewer, closing>>

Says(rects) ==
  /\ buf' = Converted(rects)
  /\ img' = Converted(rects)
  /\ dirty' = Damage(rects)

(* A frame; its metadata may be missing, which means everything.           *)
Acquire ==
  /\ loop = "grabbing" /\ fast = "on" /\ Opened /\ (first \/ changed # {})
  /\ \E rects \in (IF first THEN SUBSET Shape[region] ELSE {changed}) \cup {All} : Says(rects)
  /\ first' = FALSE /\ changed' = {}
  /\ loop' = "encoding"
  /\ UNCHANGED <<screen, open, sel, fast, region, force, keyDue, prev, viewer, closing>>

(* ErrNoChange: the wait ran out, or only the pointer moved.               *)
NoChange ==
  /\ loop = "grabbing" /\ fast = "on" /\ Opened
  /\ \/ ~first /\ changed = {} /\ UNCHANGED dirty
     \/ dirty' = All
  /\ loop' = "top"
  /\ UNCHANGED <<screen, source, sel, fast, region, img, force, keyDue, prev, viewer, closing>>

(* A mode change or a switch of desktops: the duplication is gone.         *)
AccessLost ==
  /\ loop = "grabbing" /\ fast = "on" /\ Opened
  /\ open' = None /\ first' = FALSE /\ changed' = {} /\ buf' = Blank
  /\ loop' = "top"
  /\ UNCHANGED <<screen, cap, region, img, force, keyDue, prev, viewer, closing>>

(* Any other error drops the backend for good: screenshots from here on.   *)
BackendFails ==
  /\ loop = "grabbing" /\ fast = "on"
  /\ fast' = "dropped" /\ open' = None /\ first' = FALSE /\ changed' = {} /\ buf' = Blank
  /\ UNCHANGED <<screen, sel, dirty, frame, prev, viewer, closing>>

Screenshot ==
  /\ loop = "grabbing" /\ fast = "dropped"
  /\ dirty' = All
  /\ \/ img' = Restricted(screen[region], Shape[region]) /\ loop' = "encoding" /\ UNCHANGED keyDue
     \/ loop' = "top" /\ keyDue' = TRUE /\ UNCHANGED img   \* it failed: a keyframe next
  /\ UNCHANGED <<screen, sel, fast, source, region, force, prev, viewer, closing>>

-----------------------------------------------------------------------------
(* Streamer.Encode, and the write of the frame it made. *)

NewSize == DOMAIN prev # DOMAIN img
Whole == force \/ NewSize
Scanned == IF Whole \/ dirty = All THEN DOMAIN img ELSE dirty \cap DOMAIN img
Differs(t) == Whole \/ prev[t] # img[t]
Sent == {t \in Scanned : Differs(t)}

Encode ==
  /\ loop = "encoding" /\ ~closing
  /\ prev' = [t \in DOMAIN img |-> IF t \in Sent THEN img[t] ELSE prev[t]]
  /\ viewer' = [t \in DOMAIN img |-> IF t \in Sent THEN img[t] ELSE viewer[t]]
  /\ keyDue' = (keyDue /\ ~force)
  /\ loop' = "top"
  /\ UNCHANGED <<screen, source, cap, region, img, force, closing>>

-----------------------------------------------------------------------------
Paint(d, t, p) ==
  /\ screen[d][t] # p
  /\ screen' = [screen EXCEPT ![d][t] = p]
  /\ changed' = IF open = d THEN changed \cup {t} ELSE changed
  /\ UNCHANGED <<open, first, buf, cap, frame, prev, viewer, closing>>

(* The input loop: Select only moves the region. *)
Select(d) ==
  /\ ~closing /\ sel' = d
  /\ UNCHANGED <<screen, source, fast, dirty, frame, prev, viewer, closing>>

(* switchCodec: an encoder that has sent nothing. *)
NewEncoder ==
  /\ ~closing /\ prev' = Blank
  /\ UNCHANGED <<screen, source, cap, frame, viewer, closing>>

(* The session's end closes the capturer whatever the frame loop is doing. *)
EndSession ==
  /\ ~closing /\ closing' = TRUE
  /\ fast' = (IF fast = "on" THEN "closed" ELSE fast)
  /\ open' = None /\ first' = FALSE /\ changed' = {} /\ buf' = Blank
  /\ UNCHANGED <<screen, sel, dirty, frame, prev, viewer>>

(* The frame loop looks at the context at its top. A grab that was waiting *)
(* returns, and Capture asks a backend that is nil by now for its damage;  *)
(* one that had not begun finds nil and takes a screenshot.                *)
LoopNotices ==
  /\ closing /\ loop \in {"top", "grabbing", "encoding"}
  /\ loop' \in {"ended"} \cup (IF loop = "grabbing" /\ fast = "closed" THEN {"crashed"} ELSE {})
  /\ UNCHANGED <<screen, source, cap, region, img, force, keyDue, prev, viewer, closing>>

-----------------------------------------------------------------------------
LoopStep ==
  Capture \/ Reopen \/ Acquire \/ NoChange \/ AccessLost \/ BackendFails \/ Screenshot \/ Encode \/ LoopNotices

Next ==
  \/ LoopStep \/ NewEncoder \/ EndSession
  \/ \E d \in Displays : Select(d) \/ \E t \in Shape[d], p \in Paints : Paint(d, t, p)

Spec == Init /\ [][Next]_vars

-----------------------------------------------------------------------------
(* When the desktop has nothing new to say, the viewer shows it: damage,   *)
(* hashes and keyframes together miss no tile, over lost duplications,     *)
(* displays of equal and other sizes, and fresh encoders.                  *)
QuietScreenIsShown ==
  fast = "on" /\ loop = "top" /\ open = sel /\ ~first /\ changed = {} /\ ~closing
    => viewer = Restricted(screen[sel], Shape[sel])

(* session.go: "so a bug in any one session (screen, terminal, file) can   *)
(* never crash the whole agent".                                           *)
AgentSurvives == loop # "crashed"

=============================================================================
