-------------------------- MODULE HostOperations --------------------------
(***************************************************************************)
(* What an operator asks of machines, one or a fleet: reboots, updates,    *)
(* services and processes, their logs, and waking a machine that is off    *)
(* (server/reboot.go, patch.go, action.go, eventlog.go, fleet.go,          *)
(* targets.go, wol.go, internal/wol), and the audit trail the requests     *)
(* leave (server/audit.go). Between a request's checks, its entry in the   *)
(* trail, its command and the answer, connections come and go and the hub  *)
(* may stop; the trail is in the database.                                 *)
(*                                                                         *)
(* Abstracted: who may ask (checkAdmin) and the syntax of a request; the   *)
(* scripts to what they can come to with and without rights (Outcomes);    *)
(* their output, and how a patch check's lines are read; a collector and   *)
(* its timeout (module CommandExchange) to an answer or none; packets.     *)
(* Operators named Action_Fault are single-fault variants of Action.       *)
(***************************************************************************)
EXTENDS Naturals, FiniteSets

CONSTANTS
  Hosts, Requests,
  System,     \* System[h]: the OS it registered with
  Lan,        \* Lan[h]: the /24 networks of its recorded addresses
  Macs,       \* hosts with a recorded MAC address
  Selectors,
  Covers,     \* Covers[t]: the hosts a selector matches
  None

Roles == {"user", "elevated"}
Systems == {"linux", "darwin", "windows"}
Single == {"reboot", "service", "proc-restart", "log", "patch-check", "patch-install", "patch-reboot"}
FleetActs == {"reboot", "patch-check", "patch-install"}

OperationsAssumption ==
  /\ System \in [Hosts -> Systems] /\ Macs \subseteq Hosts
  /\ Covers \in [Selectors -> SUBSET Hosts] /\ None \notin Roles

VARIABLES
  attached, \* attached[h]: the roles with a connection
  req,      \* req[q]: where its handler is, what it asks, of whom
  trail,    \* requests in the table of audit events
  sent,     \* sent[q][h]: the role h's command went to
  came,     \* came[q][h]: what the command came to, once it ended
  verdicts  \* verdicts[q]: [host, ok], as the answer reports them

vars == <<attached, req, trail, sent, came, verdicts>>

Idle == [pc |-> "idle"]
Nowhere == [h \in Hosts |-> None]

Init ==
  /\ attached \in [Hosts -> {{"user"}, Roles}]
  /\ req = [q \in Requests |-> Idle] /\ trail = {}
  /\ sent = [q \in Requests |-> Nowhere] /\ came = [q \in Requests |-> Nowhere]
  /\ verdicts = [q \in Requests |-> {}]

-----------------------------------------------------------------------------
(* What the scripts come to: whether the machine does it, and whether the  *)
(* exit code is zero. Reboots answer before the machine goes, so Windows'  *)
(* and Linux's patch-reboot say "scheduled" whatever then happens.         *)
Outcome(did, zero) == [did |-> did, zero |-> zero]
Good == Outcome(TRUE, TRUE)
Bad == Outcome(FALSE, FALSE)
Vain == Outcome(FALSE, TRUE)
Outcomes(os, a, role) ==
  CASE a = "reboot" /\ os # "windows" -> IF role = "elevated" THEN {Good} ELSE {Good, Bad}
    [] a = "reboot" /\ os = "windows" -> {Good, Vain}
    [] a = "patch-reboot" /\ os = "darwin" -> IF role = "elevated" THEN {Good} ELSE {Bad}
    [] a = "patch-reboot" /\ os # "darwin" -> {Good, Vain}
    [] a = "patch-install" -> IF role = "elevated" THEN {Good, Bad} ELSE {Bad}
    [] OTHER -> {Good, Bad}

(* patchPlan.needsElevated. *)
NeedsElevated(os) == os = "windows"
Gated(a, h) ==
  a \in {"patch-install", "patch-reboot"} /\ NeedsElevated(System[h]) /\ "elevated" \notin attached[h]

(* execConn: the elevated helper if there is one. *)
ExecConn(h) ==
  IF "elevated" \in attached[h] THEN "elevated" ELSE IF attached[h] # {} THEN "user" ELSE None

(* connFor: the connection that serves the screen, which no helper has.    *)
(* (A console worker is like the user's agent here.)                       *)
ScreenConn(h) == IF "user" \in attached[h] THEN "user" ELSE None
ConnFor(a, h) == IF a \in {"proc-restart", "wake"} THEN ScreenConn(h) ELSE ExecConn(h)

-----------------------------------------------------------------------------
(* The handlers' checks. *)

Ask(q, a, h) ==
  /\ req[q] = Idle /\ ~Gated(a, h)
  /\ req' = [req EXCEPT ![q] = [pc |-> "checked", act |-> a, fleet |-> FALSE, of |-> {h}, todo |-> {h}]]
  /\ UNCHANGED <<attached, trail, sent, came, verdicts>>

(* resolveTarget: a selector's hosts that are online, one host as it is.   *)
AskFleet(q, a, t) ==
  LET targets == IF t \in Hosts THEN {t} ELSE {h \in Covers[t] : attached[h] # {}}
  IN /\ req[q] = Idle /\ targets # {}
     /\ req' = [req EXCEPT ![q] =
          [pc |-> "checked", act |-> a, fleet |-> TRUE, of |-> targets, todo |-> targets]]
     /\ UNCHANGED <<attached, trail, sent, came, verdicts>>

(* patch.go's handlers, the log's and the restart of a process write no    *)
(* event; for the others it comes before the command.                      *)
Audited(r) == r.fleet \/ r.act \in {"reboot", "service"}
Audit_OneHost(q) ==
  /\ req[q].pc = "checked"
  /\ trail' = IF Audited(req[q]) /\ ~req[q].fleet THEN trail \cup {q} ELSE trail
  /\ req' = [req EXCEPT ![q].pc = "running"]
  /\ UNCHANGED <<attached, sent, came, verdicts>>

Audit(q) ==
  /\ req[q].pc = "checked"
  /\ trail' = IF Audited(req[q]) THEN trail \cup {q} ELSE trail
  /\ req' = [req EXCEPT ![q].pc = "running"]
  /\ UNCHANGED <<attached, sent, came, verdicts>>

-----------------------------------------------------------------------------
(* runOnAgent, for each host of a fleet in a goroutine of its own. *)

Says(q, h, ok) ==
  /\ verdicts' = [verdicts EXCEPT ![q] = @ \cup {[host |-> h, ok |-> ok]}]
  /\ req' = [req EXCEPT ![q].todo = @ \ {h}]

Dispatch(q, h) ==
  /\ req[q].pc = "running" /\ h \in req[q].todo /\ sent[q][h] = None
  /\ LET c == ConnFor(req[q].act, h)
     IN \/ c # None /\ sent' = [sent EXCEPT ![q][h] = c] /\ UNCHANGED <<req, verdicts>>
        \/ c = None /\ Says(q, h, FALSE) /\ UNCHANGED sent
  /\ UNCHANGED <<attached, trail, came>>

(* The host runs the command, whether or not anyone still waits for it.    *)
Perform(q, h) ==
  /\ sent[q][h] \in attached[h] /\ came[q][h] = None
  /\ \E o \in Outcomes(System[h], req[q].act, sent[q][h]) : came' = [came EXCEPT ![q][h] = o]
  /\ UNCHANGED <<attached, req, trail, sent, verdicts>>

(* handlePatchReboot looks at the error only, the others at the exit code. *)
Verdict(q, o) == o.zero \/ (req[q].act = "patch-reboot" /\ ~req[q].fleet)

Answered(q, h) ==
  /\ req[q].pc = "running" /\ h \in req[q].todo /\ came[q][h] # None
  /\ Says(q, h, Verdict(q, came[q][h]))
  /\ UNCHANGED <<attached, trail, sent, came>>

(* "timed out waiting for agent": with a command that may yet end. *)
TimesOut(q, h) ==
  /\ req[q].pc = "running" /\ h \in req[q].todo /\ sent[q][h] # None
  /\ Says(q, h, FALSE)
  /\ UNCHANGED <<attached, trail, sent, came>>

(* wg.Wait: the answer has every host's result. *)
Reply(q) ==
  /\ req[q].pc = "running" /\ req[q].todo = {}
  /\ req' = [req EXCEPT ![q].pc = "answered"]
  /\ UNCHANGED <<attached, trail, sent, came, verdicts>>

-----------------------------------------------------------------------------
(* Waking a machine: the peers are picked from one snapshot, and each is   *)
(* asked if it has a connection by then; the hub shouts too.               *)

Relays(h) == {p \in Hosts \ {h} : attached[p] # {} /\ Lan[p] \cap Lan[h] # {}}

Wake(q, h) ==
  /\ req[q] = Idle /\ h \in Macs
  /\ req' = [req EXCEPT ![q] = [pc |-> "waking", act |-> "wake", fleet |-> FALSE, of |-> {h}, todo |-> Relays(h)]]
  /\ UNCHANGED <<attached, trail, sent, came, verdicts>>

Shout(q) ==
  /\ req[q].pc = "waking"
  /\ sent' = [sent EXCEPT ![q] = [p \in Hosts |-> IF p \in req[q].todo THEN ConnFor("wake", p) ELSE None]]
  /\ \E hub \in BOOLEAN, h \in req[q].of :
       verdicts' = [verdicts EXCEPT ![q] = {[host |-> h, ok |-> req[q].todo # {} \/ hub]}]
  /\ trail' = trail \cup {q}
  /\ req' = [req EXCEPT ![q].pc = "answered"]
  /\ UNCHANGED <<attached, came>>

-----------------------------------------------------------------------------
Attach(h, r) ==
  /\ r \notin attached[h] /\ attached' = [attached EXCEPT ![h] = @ \cup {r}]
  /\ UNCHANGED <<req, trail, sent, came, verdicts>>

(* An agent's connection ends, and with it what it ran for the hub. *)
Detach(h, r) ==
  /\ r \in attached[h] /\ attached' = [attached EXCEPT ![h] = @ \ {r}]
  /\ came' = [q \in Requests |->
       IF sent[q][h] = r /\ came[q][h] = None THEN [came[q] EXCEPT ![h] = Bad] ELSE came[q]]
  /\ UNCHANGED <<req, trail, sent, verdicts>>

HubStops ==
  /\ \E q \in Requests : req[q].pc \in {"checked", "running", "waking"}
  /\ req' = [q \in Requests |->
       IF req[q].pc \in {"checked", "running", "waking"} THEN [req[q] EXCEPT !.pc = "cut short"] ELSE req[q]]
  /\ UNCHANGED <<attached, trail, sent, came, verdicts>>

-----------------------------------------------------------------------------
Handler(q) ==
  \/ Audit(q) \/ Reply(q) \/ Shout(q)
  \/ \E h \in Hosts : Dispatch(q, h) \/ Answered(q, h) \/ TimesOut(q, h)

Next ==
  \/ \E q \in Requests, h \in Hosts : (\E a \in Single : Ask(q, a, h)) \/ Wake(q, h) \/ Perform(q, h)
  \/ \E q \in Requests, a \in FleetActs, t \in Hosts \cup Selectors : AskFleet(q, a, t)
  \/ \E q \in Requests : Handler(q)
  \/ \E h \in Hosts, r \in Roles : Attach(h, r) \/ Detach(h, r)
  \/ HubStops

Spec == Init /\ [][Next]_vars

-----------------------------------------------------------------------------
(* Scripts whose exit code tells whether the machine does it. *)
Telling(q, h) ==
  ~req[q].act \in {"wake", "patch-reboot"} /\ ~(req[q].act = "reboot" /\ System[h] = "windows")

(* An answer has one result for every host the request was resolved to,    *)
(* and a success is one the host has performed, with the rights it had by  *)
(* then: reboot.go, "rather than reporting a success the host did not      *)
(* perform", fleet.go, "a fleet action that returns a single verdict hides *)
(* the two machines that failed".                                          *)
VerdictsAreEarned ==
  \A q \in Requests : req[q].pc = "answered" =>
    /\ {v.host : v \in verdicts[q]} = req[q].of /\ Cardinality(verdicts[q]) = Cardinality(req[q].of)
    /\ \A v \in verdicts[q] : v.ok /\ Telling(q, v.host) => came[q][v.host].did

(* What a machine did for a request is in the trail, even if the hub       *)
(* stopped before it answered: reboots and services on one host, and all   *)
(* that is asked of a fleet.                                               *)
DoneIsOnTrail ==
  \A q \in Requests, h \in Hosts :
    came[q][h] # None /\ came[q][h].did /\ Audited(req[q]) => q \in trail

(* Both: what is answered was earned, and what was done is on record.      *)
RecordIsTrue == VerdictsAreEarned /\ DoneIsOnTrail

(* audit.go: "who rebooted that box at 3am, and from where" has to be a    *)
(* question the dashboard answers.                                         *)
RebootsAreOnTrail ==
  \A q \in Requests, h \in Hosts :
    came[q][h] # None /\ came[q][h].did /\ req[q].act \in {"reboot", "patch-reboot"} => q \in trail

(* wol.go: "Every matching peer is asked rather than just one", of those   *)
(* that still have a connection.                                           *)
EveryPeerIsAsked ==
  [][\A q \in Requests : req[q].pc = "waking" /\ req'[q].pc = "answered" =>
       \A p \in req[q].todo : attached[p] # {} => sent'[q][p] # None]_vars

=============================================================================
