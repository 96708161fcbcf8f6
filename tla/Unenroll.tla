------------------------------ MODULE Unenroll ------------------------------
(***************************************************************************)
(* Unenrolling one host (server/unenroll.go): the hub asks every half of   *)
(* the install to take itself off the machine, collects the answers under  *)
(* one deadline, watches the host disconnect and removes it from the       *)
(* registry; the agent launches a teardown that outlives it and then       *)
(* acknowledges (agent/uninstall.go).  Meanwhile its connections drop and  *)
(* come back, and somebody may press Remove.                               *)
(*                                                                         *)
(* Abstracted: the registry's slots (module HostRegistry) to the roles     *)
(* attached; what the teardown does; how long it takes, which the hub's    *)
(* 15 s and 10 s are chosen to exceed but nothing enforces; a second       *)
(* unenroll request for the host.                                          *)
(*                                                                         *)
(* Operators named Action_Fault are single-fault variants of Action.       *)
(***************************************************************************)
EXTENDS Sequences, SequencesExt

CONSTANT Halves   \* of the roles, those the host has installed
HalvesAssumption == Halves \subseteq {"user", "elevated"} /\ Halves # {}

(* The console worker is a child of the elevated helper. *)
Roles == Halves \cup (IF "elevated" \in Halves THEN {"console"} ELSE {})

VARIABLES
  listed,     \* the host is in Store.hosts
  attached,   \* roles with a connection in their slot
  installed,  \* halves on the machine
  torn,       \* halves whose teardown script was launched
  req,        \* req[h]: what became of the UninstallRequest to h
  col,        \* col[h]: what h's execCollector finished with
  pc,         \* where the handler is
  waits,      \* askAgentsToUninstall: collectors not yet waited for
  timer,      \* its one deadline
  accepted,   \* halves counted as accepting
  failed      \* halves with an entry in failures

agentVars == <<listed, attached, installed, torn, req, col>>
hubVars == <<pc, waits, timer, accepted, failed>>
vars == <<agentVars, hubVars>>

Init ==
  /\ listed = TRUE
  /\ attached \in SUBSET Roles
  /\ installed = Halves
  /\ torn = {}
  /\ req = [h \in Halves |-> "none"]
  /\ col = [h \in Halves |-> "waiting"]
  /\ pc = "idle"
  /\ waits = <<>>
  /\ timer = "armed"
  /\ accepted = {}
  /\ failed = {}

-----------------------------------------------------------------------------
(* controlConns: the interactive agent, then the elevated helper. *)
ControlConns ==
  LET conns == IF "user" \in attached THEN <<"user">> ELSE <<>>
  IN IF "elevated" \in attached THEN Append(conns, "elevated") ELSE conns

Refuse ==
  /\ pc = "idle" /\ ControlConns = <<>>
  /\ pc' = "offline"
  /\ UNCHANGED <<agentVars, waits, timer, accepted, failed>>

Ask ==
  /\ pc = "idle" /\ ControlConns # <<>>
  /\ pc' = "collecting"
  /\ waits' = ControlConns
  /\ req' = [h \in Halves |-> IF h \in attached THEN "sent" ELSE "none"]
  /\ UNCHANGED <<listed, attached, installed, torn, col, timer, accepted, failed>>

(* The answer of the half waited for has arrived. *)
Collect ==
  /\ pc = "collecting" /\ waits # <<>>
  /\ \/ /\ col[Head(waits)] = "ok"
        /\ accepted' = accepted \cup {Head(waits)} /\ UNCHANGED failed
     \/ /\ col[Head(waits)] = "error"
        /\ failed' = failed \cup {Head(waits)} /\ UNCHANGED accepted
  /\ waits' = Tail(waits)
  /\ UNCHANGED <<agentVars, pc, timer>>

(* time.After delivers one tick, to one receive. *)
TimerFires ==
  /\ pc = "collecting" /\ timer = "armed"
  /\ timer' = "fired"
  /\ UNCHANGED <<agentVars, pc, waits, accepted, failed>>

TimeOut_Ignored ==
  /\ pc = "collecting" /\ waits # <<>> /\ timer = "fired"
  /\ timer' = "spent"
  /\ UNCHANGED <<agentVars, pc, waits, accepted, failed>>

TimeOut ==
  /\ pc = "collecting" /\ waits # <<>> /\ timer = "fired"
  /\ timer' = "spent"
  /\ failed' = failed \cup {Head(waits)}
  /\ waits' = Tail(waits)
  /\ UNCHANGED <<agentVars, pc, accepted>>

Count_AnyAnswer ==
  /\ pc = "collecting" /\ waits = <<>>
  /\ pc' = IF accepted \cup failed = {} THEN "refused" ELSE "watching"
  /\ UNCHANGED <<agentVars, waits, timer, accepted, failed>>

(* Nobody accepted: the host stays. *)
Count ==
  /\ pc = "collecting" /\ waits = <<>>
  /\ pc' = IF accepted = {} THEN "refused" ELSE "watching"
  /\ UNCHANGED <<agentVars, waits, timer, accepted, failed>>

(* waitForDisconnect: polls every 250 ms, once more when 10 s have passed. *)
SeesGone ==
  /\ pc = "watching" /\ attached = {}
  /\ pc' = "removing"
  /\ UNCHANGED <<agentVars, waits, timer, accepted, failed>>

WatchExpires ==
  /\ pc = "watching" /\ attached # {}
  /\ pc' = "kept"
  /\ UNCHANGED <<agentVars, waits, timer, accepted, failed>>

(* store.remove refuses a host that is attached (again); the answer is the *)
(* same. *)
RemoveHost ==
  /\ pc = "removing"
  /\ pc' = "unenrolled"
  /\ listed' = (listed /\ attached # {})
  /\ UNCHANGED <<attached, installed, torn, req, col, waits, timer, accepted, failed>>

(* removeHost, from somebody else. *)
OtherRemove ==
  /\ listed /\ attached = {}
  /\ listed' = FALSE
  /\ UNCHANGED <<attached, installed, torn, req, col, hubVars>>

-----------------------------------------------------------------------------
(* The host's side. *)

Running(r) == r \in installed \/ (r = "console" /\ "elevated" \in installed)

Register(r) ==
  /\ Running(r) /\ r \notin attached
  /\ attached' = attached \cup {r}
  /\ listed' = TRUE
  /\ UNCHANGED <<installed, torn, req, col, hubVars>>

(* Whatever was in flight on the connection is lost with it. *)
Lost(h) == [req EXCEPT ![h] = IF @ = "none" THEN @ ELSE "over"]

Drop(r) ==
  /\ r \in attached
  /\ attached' = attached \ {r}
  /\ req' = IF r \in Halves THEN Lost(r) ELSE req
  /\ UNCHANGED <<listed, installed, torn, col, hubVars>>

(* runUninstall: plan, launch, and only then acknowledge. *)
RunUninstall(h) ==
  /\ req[h] = "sent" /\ h \in attached
  /\ \/ req' = [req EXCEPT ![h] = "accepting"] /\ torn' = torn \cup {h}
     \/ req' = [req EXCEPT ![h] = "refusing"] /\ UNCHANGED torn
  /\ UNCHANGED <<listed, attached, installed, col, hubVars>>

(* The ExecDone reaches the hub's readLoop. *)
AnswerArrives(h) ==
  /\ req[h] \in {"accepting", "refusing"} /\ h \in attached
  /\ req' = [req EXCEPT ![h] = "over"]
  /\ col' = [col EXCEPT ![h] = IF req[h] = "accepting" THEN "ok" ELSE "error"]
  /\ UNCHANGED <<listed, attached, installed, torn, hubVars>>

(* The teardown stops the half, and the console worker with the helper. *)
TakenOff(h) ==
  /\ h \in torn \cap installed
  /\ installed' = installed \ {h}
  /\ attached' = attached \ (IF h = "elevated" THEN {h, "console"} ELSE {h})
  /\ req' = Lost(h)
  /\ UNCHANGED <<listed, torn, col, hubVars>>

-----------------------------------------------------------------------------
HubStep ==
  Refuse \/ Ask \/ Collect \/ TimeOut \/ Count \/ SeesGone \/ WatchExpires \/ RemoveHost

Next ==
  \/ HubStep \/ TimerFires \/ OtherRemove
  \/ \E r \in Roles : Register(r) \/ Drop(r)
  \/ \E h \in Halves : RunUninstall(h) \/ AnswerArrives(h) \/ TakenOff(h)

Spec == Init /\ [][Next]_vars

(* The handler's goroutine runs and its timers fire; agents owe nothing.   *)
Fairness ==
  /\ WF_vars(Collect) /\ WF_vars(TimerFires) /\ WF_vars(TimeOut) /\ WF_vars(Count)
  /\ WF_vars(SeesGone \/ WatchExpires) /\ WF_vars(RemoveHost)

FairSpec == Spec /\ Fairness

-----------------------------------------------------------------------------
Answers == {"offline", "refused", "kept", "unenrolled"}

TypeOK ==
  /\ listed \in BOOLEAN
  /\ attached \subseteq Roles /\ installed \subseteq Halves /\ torn \subseteq Halves
  /\ req \in [Halves -> {"none", "sent", "accepting", "refusing", "over"}]
  /\ col \in [Halves -> {"waiting", "ok", "error"}]
  /\ pc \in {"idle", "collecting", "watching", "removing"} \cup Answers
  /\ waits \in BoundedSeq(Halves, 2)
  /\ timer \in {"armed", "fired", "spent"}
  /\ accepted \subseteq Halves /\ failed \subseteq Halves

(* Every half that was asked is counted once: as accepting, or with a line *)
(* in the warnings the operator is shown, or still waited for.             *)
EveryHalfCounted ==
  /\ accepted \cap failed = {}
  /\ (accepted \cup failed) \cap ToSet(waits) = {}
  /\ \A h \in Halves : req[h] # "none" => h \in accepted \cup failed \cup ToSet(waits)

(* A half counted as accepting has a teardown under way, whatever happened *)
(* to its connection since ("launch before acknowledging").                *)
AcceptedMeansLaunched == accepted \subseteq torn

(* The counts the operator is shown are what the agents came to. *)
CountsAreTrue == EveryHalfCounted /\ AcceptedMeansLaunched

(* Unenrolling never takes a machine off the dashboard whose agents all    *)
(* refused, or did not answer, or which is attached again, and every half  *)
(* is counted as what it came to on the way (unenrollHost).                *)
OnlyWillingHostsRemoved ==
  [][/\ pc = "removing" /\ listed /\ ~listed' => accepted \cap torn # {} /\ attached = {}
     /\ CountsAreTrue']_vars

(* The operator gets an answer whatever the agents do, unless one half     *)
(* used up the deadline and another never says anything either.            *)
SecondIsSilent == pc = "collecting" /\ waits # <<>> /\ timer = "spent" /\ failed # {}
AnswersUnlessTwoAreSilent == ([]<>~SecondIsSilent) => (pc # "idle" ~> pc \in Answers)

(* The operator gets an answer, whatever the agents do: unenroll.go, of    *)
(* unenrollAck, "bounds how long each agent gets to accept the request".   *)
HandlerAnswers == pc # "idle" ~> pc \in Answers

(* unenroll.go: "So the hub asks the agent to take itself off, waits to    *)
(* watch it go, and then forgets it", and answers that it has.             *)
AnsweredMeansRemoved == [][pc # "unenrolled" /\ pc' = "unenrolled" => ~listed']_vars

=============================================================================
