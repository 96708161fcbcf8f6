------------------------------ MODULE InputPath ------------------------------
(***************************************************************************)
(* The way of the viewer's input to the host, and of the host's pointer to *)
(* the viewer: one event socket or two, an input loop for each, the        *)
(* injector's lock, and the pinned threads of a Windows console worker     *)
(* that take work over an unbuffered channel and may not give it back      *)
(* (capture/dispatch.go, inputdesktop_windows.go, input_windows.go,        *)
(* cursorshape_windows.go, agent/session.go).                              *)
(*                                                                         *)
(* Abstracted: an event to its number and the operations the injector      *)
(* performs for it (odd events press, even ones release, each after a      *)
(* move); coordinates, codes and flags; the desktop a thread follows to    *)
(* "attach may fail"; jobTimeout to "may run out"; a shape to its id.      *)
(* External: the viewer, the sockets, and system calls that may not return.*)
(* Operators named Action_Fault are single-fault variants of Action.       *)
(***************************************************************************)
EXTENDS Naturals, Sequences, FiniteSets

CONSTANTS
  MaxEvents,  \* events the viewer sends
  Shapes,     \* what the pointer looks like
  MaxShapes,  \* maxShapes
  MaxTells,   \* positions told
  None

InputAssumption == MaxEvents \in Nat /\ MaxShapes \in Nat /\ None \notin Shapes

Loops == {"media", "input"}
Callers == Loops \cup {"cursor"}
Threads == {"inputThread", "cursorThread"}
ThreadOf(c) == IF c = "cursor" THEN "cursorThread" ELSE "inputThread"

VARIABLES
  sent,     \* events the viewer has sent
  ready,    \* the viewer has heard that the input socket is up
  socket,   \* socket[l]: events on their way
  todo,     \* todo[l]: operations of the event the loop is applying
  lock,     \* the injector's mutex
  call,     \* call[c]: "none", "offering", "waiting", "done", "failed"
  job,      \* job[t]: <<caller, what>> the thread is running, or None
  step,     \* the cursor loop: "tick", "pos", "shape", "image"
  shape,    \* the shape it read; 0 is none
  shapes,   \* sentShapes
  has,      \* external: images the viewer has
  wears,    \* external: the shape it was told to draw
  tells

loopvars == <<socket, todo>>
cursorvars == <<step, shape, shapes, has, wears, tells>>
vars == <<sent, ready, loopvars, lock, call, job, cursorvars>>

Init ==
  /\ sent = 0 /\ ready = FALSE
  /\ socket = [l \in Loops |-> <<>>] /\ todo = [l \in Loops |-> <<>>] /\ lock = None
  /\ call = [c \in Callers |-> "none"] /\ job = [t \in Threads |-> None]
  /\ step = "tick" /\ shape = 0 /\ shapes = {} /\ has = {} /\ wears = 0 /\ tells = 0

-----------------------------------------------------------------------------
(* External: the viewer.  sendInput prefers the input socket while it is   *)
(* up; one that closes takes what was on it with it.                       *)
ViewerSends ==
  /\ sent < MaxEvents /\ sent' = sent + 1
  /\ LET l == IF ready THEN "input" ELSE "media" IN socket' = [socket EXCEPT ![l] = Append(@, sent + 1)]
  /\ UNCHANGED <<ready, todo, lock, call, job, cursorvars>>

InputReady ==
  /\ ~ready /\ ready' = TRUE
  /\ UNCHANGED <<sent, loopvars, lock, call, job, cursorvars>>

InputSocketCloses ==
  /\ ready /\ ready' = FALSE /\ socket' = [socket EXCEPT !["input"] = <<>>]
  /\ UNCHANGED <<sent, todo, lock, call, job, cursorvars>>

-----------------------------------------------------------------------------
(* inputLoop and applyInput: an event's operations, numbered as they       *)
(* should be injected.  The loop reads the next when they are done.        *)
Operations(n) == <<2 * n - 1, 2 * n>>   \* MouseMove, then MouseButton

Apply(l) ==
  /\ todo[l] = <<>> /\ socket[l] # <<>>
  /\ todo' = [todo EXCEPT ![l] = Operations(Head(socket[l]))]
  /\ socket' = [socket EXCEPT ![l] = Tail(@)]
  /\ UNCHANGED <<sent, ready, lock, call, job, cursorvars>>

Locks(l) ==
  /\ todo[l] # <<>> /\ lock = None
  /\ lock' = l /\ call' = [call EXCEPT ![l] = "offering"]
  /\ UNCHANGED <<sent, ready, loopvars, job, cursorvars>>

(* The injector reports nothing: what was given up is gone. *)
Unlocks(l) == todo' = [todo EXCEPT ![l] = Tail(@)]

Returns(l) ==
  /\ lock = l /\ call[l] \in {"done", "failed"}
  /\ Unlocks(l)
  /\ lock' = None /\ call' = [call EXCEPT ![l] = "none"]
  /\ UNCHANGED <<sent, ready, socket, job, cursorvars>>

-----------------------------------------------------------------------------
(* dispatcher.send and the thread's loop. *)

Taken(c) ==
  /\ call[c] = "offering" /\ job[ThreadOf(c)] = None
  /\ job' = [job EXCEPT ![ThreadOf(c)] = <<c, IF c = "cursor" THEN step ELSE Head(todo[c])>>]
  /\ call' = [call EXCEPT ![c] = "waiting"]
  /\ UNCHANGED <<sent, ready, loopvars, lock, cursorvars>>

(* The timeout, on the hand-over or on the job: the caller is released, an *)
(* accepted job goes on without it.                                        *)
MayGiveUp_OnlyOnce(c) == call[c] = "waiting"
MayGiveUp(c) == call[c] \in {"offering", "waiting"}

GivesUp(c) ==
  /\ MayGiveUp(c)
  /\ call' = [call EXCEPT ![c] = "failed"]
  /\ UNCHANGED <<sent, ready, loopvars, lock, job, cursorvars>>

(* The job ends: its caller goes on, if it still waits for this one.       *)
Runs(t) ==
  /\ job[t] # None
  /\ LET c == job[t][1] waits == call[c] = "waiting" IN
       /\ job' = [job EXCEPT ![t] = None]
       /\ call' = (IF waits THEN [call EXCEPT ![c] = "done"] ELSE call)
       /\ shape' \in (IF c = "cursor" /\ waits /\ step = "shape" THEN Shapes \cup {0} ELSE {shape})
  /\ UNCHANGED <<sent, ready, loopvars, lock, step, shapes, has, wears, tells>>

-----------------------------------------------------------------------------
(* cursorLoop. *)

New == shape # 0 /\ shape \notin shapes /\ Cardinality(shapes) < MaxShapes

(* A position, whenever it, its visibility or the shape has changed.       *)
Tell(s) == wears' = s /\ tells' = tells + 1

CursorTick ==
  /\ step = "tick" /\ tells < MaxTells
  /\ step' = "pos" /\ call' = [call EXCEPT !["cursor"] = "offering"]
  /\ UNCHANGED <<sent, ready, loopvars, lock, job, shape, shapes, has, wears, tells>>

CursorPos ==
  /\ step = "pos" /\ call["cursor"] \in {"done", "failed"}
  /\ \/ step' = "tick" /\ call' = [call EXCEPT !["cursor"] = "none"]   \* not ok
     \/ call["cursor"] = "done" /\ step' = "shape" /\ call' = [call EXCEPT !["cursor"] = "offering"]
  /\ shape' = 0
  /\ UNCHANGED <<sent, ready, loopvars, lock, job, shapes, has, wears, tells>>

CursorShape ==
  /\ step = "shape" /\ call["cursor"] \in {"done", "failed"}
  /\ IF New
     THEN /\ shapes' = shapes \cup {shape}
          /\ step' = "image" /\ call' = [call EXCEPT !["cursor"] = "offering"]
          /\ UNCHANGED <<wears, tells>>
     ELSE /\ Tell(shape) /\ step' = "tick" /\ call' = [call EXCEPT !["cursor"] = "none"]
          /\ UNCHANGED shapes
  /\ UNCHANGED <<sent, ready, loopvars, lock, job, shape, has>>

(* A shape that cannot be rendered, or not in time, is not sent.           *)
CursorImage ==
  /\ step = "image" /\ call["cursor"] \in {"done", "failed"}
  /\ has' \in {has} \cup (IF call["cursor"] = "done" THEN {has \cup {shape}} ELSE {})
  /\ Tell(shape)
  /\ step' = "tick" /\ call' = [call EXCEPT !["cursor"] = "none"]
  /\ UNCHANGED <<sent, ready, loopvars, lock, job, shape, shapes>>

-----------------------------------------------------------------------------
Next ==
  \/ ViewerSends \/ InputReady \/ InputSocketCloses
  \/ \E l \in Loops : Apply(l) \/ Locks(l) \/ Returns(l)
  \/ \E c \in Callers : Taken(c) \/ GivesUp(c)
  \/ \E t \in Threads : Runs(t)
  \/ CursorTick \/ CursorPos \/ CursorShape \/ CursorImage

Spec == Init /\ [][Next]_vars

(* Goroutines run and timers fire, and a waiter gets a mutex in the end; a *)
(* system call need not return, so nothing is assumed of Runs.             *)
Fairness ==
  /\ \A l \in Loops : WF_vars(Apply(l)) /\ WF_vars(Locks(l)) /\ WF_vars(Returns(l))
  /\ \A c \in Callers : WF_vars(GivesUp(c))
FairSpec == Spec /\ Fairness

-----------------------------------------------------------------------------
(* A system call that never returns does not end the session's input: every*)
(* loop gets through what it was given (inputdesktop_windows.go, "a dead   *)
(* input path is not").                                                    *)
InputNeverDies == \A l \in Loops : todo[l] # <<>> ~> todo[l] = <<>>

(* cursorshape_windows.go: "the viewer is told the image once and          *)
(* thereafter only the id".                                                *)
ImageBeforeId == wears # 0 => wears \in has

=============================================================================
