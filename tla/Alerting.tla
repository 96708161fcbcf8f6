------------------------------ MODULE Alerting ------------------------------
(***************************************************************************)
(* Alerts, watched services and auto-remediation on the hub                *)
(* (server/alerts.go, server/remediate.go, server/svcwatch.go, forgetHost  *)
(* in server/http.go).                                                     *)
(*                                                                         *)
(* One goroutine evaluates every host every 10 s and then works through    *)
(* the alerts that changed: it sends them, or runs a fix and holds them.   *)
(* Another polls watched services once a minute.  Both read and write      *)
(* tables keyed by agent id, while hosts connect, disconnect and are       *)
(* removed, and the operator silences them and edits their watch list.     *)
(*                                                                         *)
(* Abstracted: the rules to one of each kind - no sustain (service; smart  *)
(* is one more), sustain (offline), sustain and sticky clear (cpu; mem and *)
(* disk are two more) - and a measured value to where it lies around its   *)
(* threshold.  The order of the alerts of one evaluation is arbitrary.     *)
(* Time is counted in units; an age stops growing once it no longer        *)
(* matters.  Operators named Action_Fault are single-fault variants.       *)
(***************************************************************************)
EXTENDS Integers, Sequences, SequencesExt, Functions

CONSTANTS
  Hosts,
  Rules,         \* the rules configured
  Fixable,       \* those a policy has a script for, on every host
  For,           \* AlertConfig.For
  OfflineAfter,  \* AlertConfig.OfflineAfter
  MaxAttempts,   \* maxRemediationAttempts
  Window,        \* remediationWindow
  Prompt         \* whether every unit of time sees an evaluation begin

RulesAssumption == Fixable \subseteq Rules /\ Rules \subseteq {"offline", "cpu", "service"}
TimesAssumption ==
  {For, OfflineAfter, MaxAttempts, Window} \subseteq Nat \ {0} /\ Prompt \in BOOLEAN

Keys == Hosts \X Rules
Sustain == [offline |-> OfflineAfter, cpu |-> For, service |-> 0]

VARIABLES
  host,      \* the registry: "absent", "offline" or "online"
  cpu,       \* HostView.Metrics: "none", "low", "band" (just below), "high"
  up,        \* the service really runs
  mute,      \* HostPref.Mute, or MuteUntil not passed
  watch,     \* the service is on the host's own watch list
  seen,      \* svcWatcher.seen
  states,    \* Alerter.states: [firing, active, age], age counted from trueSince
  attempts,  \* remediator.attempts: their ages, those out of the window dropped
  pc, views, todo, fix, reply,   \* the alerter's loop
  due,       \* no evaluation has begun in this unit of time
  poll,      \* poll[h]: what became of the poll's command
  removal,   \* removal[h]: the step of forgetHost to come
  told,      \* history: keys whose last notice said firing
  fixed      \* history: hosts read as fixed since the last evaluation

world == <<host, cpu, up>>
prefs == <<mute, watch>>
loop == <<pc, views, todo, fix, reply, due>>
history == <<told, fixed>>
vars == <<world, prefs, seen, states, attempts, loop, poll, removal, history>>

NoViews == [h \in {} |-> 0]

Init ==
  /\ host = [h \in Hosts |-> "absent"]
  /\ cpu = [h \in Hosts |-> "none"]
  /\ up \in [Hosts -> BOOLEAN]
  /\ mute = [h \in Hosts |-> FALSE] /\ watch = [h \in Hosts |-> FALSE]
  /\ seen = [h \in Hosts |-> "unknown"]
  /\ states = [k \in {} |-> 0]
  /\ attempts = [k \in Keys |-> <<>>]
  /\ pc = "idle" /\ views = NoViews /\ todo = {} /\ fix = <<>> /\ reply = "none"
  /\ due = TRUE
  /\ poll = [h \in Hosts |-> "none"]
  /\ removal = [h \in Hosts |-> "none"]
  /\ told = {} /\ fixed = {}

Listed == {h \in Hosts : host[h] # "absent"}

-----------------------------------------------------------------------------
(* Alerter.Run: store.views(), evaluate, then the transitions one by one. *)

TakeViews ==
  /\ pc = "idle"
  /\ pc' = "viewed"
  /\ views' = [h \in Listed |-> [online |-> host[h] = "online", cpu |-> cpu[h]]]
  /\ due' = FALSE
  /\ UNCHANGED <<world, prefs, seen, states, attempts, todo, fix, reply, poll, removal, history>>

(* rulesFor: the keys that have a rule at this evaluation. *)
HasRule(h, r) ==
  /\ ~mute[h]
  /\ \/ r = "offline"
     \/ r = "cpu" /\ views[h].online /\ views[h].cpu # "none"
     \/ r = "service" /\ watch[h] /\ seen[h] # "unknown"

Judged == {k \in (DOMAIN views) \X Rules : HasRule(k[1], k[2])}

Firing(k) == k \in DOMAIN states /\ states[k].firing

(* An alert that fires stays active until the value is a margin below. *)
Active(h, r) ==
  \/ r = "offline" /\ ~views[h].online
  \/ r = "cpu" /\ (views[h].cpu = "high" \/ (views[h].cpu = "band" /\ Firing(<<h, r>>)))
  \/ r = "service" /\ seen[h] = "stopped"

Age(k) == IF k \in DOMAIN states THEN states[k].age ELSE 0

Judgment_NeverClears(k) ==
  [active |-> Active(k[1], k[2]), age |-> Age(k),
   firing |-> Firing(k) \/ (Active(k[1], k[2]) /\ Age(k) >= Sustain[k[2]])]

Judgment(k) ==
  IF Active(k[1], k[2])
  THEN [active |-> TRUE, age |-> Age(k),
        firing |-> Firing(k) \/ Age(k) >= Sustain[k[2]]]
  ELSE [active |-> FALSE, age |-> 0, firing |-> FALSE]

Evaluate ==
  /\ pc = "viewed"
  /\ pc' = "draining"
  /\ states' = [k \in DOMAIN states \cup Judged |-> IF k \in Judged THEN Judgment(k) ELSE states[k]]
  /\ todo' = {[key |-> k, firing |-> Judgment(k).firing] :
                k \in {j \in Judged : Judgment(j).firing # Firing(j)}}
  /\ views' = NoViews
  /\ fixed' = {}
  /\ UNCHANGED <<world, prefs, seen, attempts, fix, reply, due, poll, removal, told>>

Drained ==
  /\ pc = "draining" /\ todo = {}
  /\ pc' = "idle"
  /\ UNCHANGED <<world, prefs, seen, states, attempts, views, todo, fix, reply, due, poll, removal, history>>

(* A recovery gives the condition its budget back and is announced. *)
Recover(t) ==
  /\ pc = "draining" /\ t \in todo /\ ~t.firing
  /\ attempts' = [attempts EXCEPT ![t.key] = <<>>]
  /\ todo' = todo \ {t}
  /\ told' = told \ {t.key}
  /\ UNCHANGED <<world, prefs, seen, states, pc, views, fix, reply, due, poll, removal, fixed>>

Allowed(k) == Len(attempts[k]) < MaxAttempts

CanFix(k) == k[2] \in Fixable /\ host[k[1]] = "online" /\ Allowed(k)

Attempted(k) == [attempts EXCEPT ![k] = Append(@, 0)]

(* tryRemediate declines: no host to run on, no script configured, budget  *)
(* spent; or the script has been deleted, after the attempt was recorded.  *)
Announce(t) ==
  /\ pc = "draining" /\ t \in todo /\ t.firing
  /\ \/ ~CanFix(t.key) /\ UNCHANGED attempts
     \/ CanFix(t.key) /\ attempts' = Attempted(t.key)
  /\ todo' = todo \ {t}
  /\ told' = told \cup {t.key}
  /\ UNCHANGED <<world, prefs, seen, states, pc, views, fix, reply, due, poll, removal, fixed>>

StartFix(t) ==
  /\ pc = "draining" /\ t \in todo /\ t.firing /\ CanFix(t.key)
  /\ attempts' = Attempted(t.key)
  /\ todo' = todo \ {t}
  /\ pc' = "fixing" /\ fix' = t.key
  /\ UNCHANGED <<world, prefs, seen, states, views, reply, due, poll, removal, history>>

(* The script ran, helped or not, or could not be run, or timed out. *)
ScriptEnds ==
  /\ pc = "fixing"
  /\ \/ /\ host[fix[1]] = "online" /\ fix[2] = "service"
        /\ up' = [up EXCEPT ![fix[1]] = TRUE]
     \/ UNCHANGED up
  /\ pc' = IF watch[fix[1]] THEN "repolling" ELSE "holding"
  /\ UNCHANGED <<host, cpu, prefs, seen, states, attempts, views, todo, fix, reply, due, poll, removal, history>>

Reading(h) == IF up[h] THEN "running" ELSE "stopped"

(* repollAfterFix: the agent reads the service; nothing is set on error. *)
RepollReads ==
  /\ pc = "repolling"
  /\ \/ host[fix[1]] = "online" /\ reply' = Reading(fix[1]) /\ pc' = "repolled"
     \/ UNCHANGED reply /\ pc' = "holding"
  /\ UNCHANGED <<world, prefs, seen, states, attempts, views, todo, fix, due, poll, removal, history>>

RepollSets ==
  /\ pc = "repolled"
  /\ seen' = [seen EXCEPT ![fix[1]] = reply]
  /\ fixed' = IF reply = "running" /\ up[fix[1]] THEN fixed \cup {fix[1]} ELSE fixed
  /\ pc' = "holding" /\ reply' = "none"
  /\ UNCHANGED <<world, prefs, states, attempts, views, todo, fix, due, poll, removal, told>>

Held_StillFiring(st) == [st EXCEPT !.active = TRUE, !.age = 0]
Held(st) == [firing |-> FALSE, active |-> TRUE, age |-> 0]

Hold ==
  /\ pc = "holding"
  /\ states' = [k \in DOMAIN states |-> IF k = fix THEN Held(states[k]) ELSE states[k]]
  /\ pc' = "draining" /\ fix' = <<>>
  /\ UNCHANGED <<world, prefs, seen, attempts, views, todo, reply, due, poll, removal, history>>

-----------------------------------------------------------------------------
(* pollServices: a host with nothing to watch, or offline, is forgotten;   *)
(* the others are asked, and the round ends when all have answered.        *)
PollRound ==
  /\ \A h \in Hosts : poll[h] = "none"
  /\ LET asked == {h \in Listed : watch[h] /\ host[h] = "online"}
     IN /\ poll' = [h \in Hosts |-> IF h \in asked THEN "asked" ELSE "none"]
        /\ seen' = [h \in Hosts |-> IF h \in Listed \ asked THEN "unknown" ELSE seen[h]]
  /\ UNCHANGED <<world, prefs, states, attempts, loop, removal, history>>

PollReads(h) ==
  /\ poll[h] = "asked" /\ host[h] = "online"
  /\ poll' = [poll EXCEPT ![h] = Reading(h)]
  /\ UNCHANGED <<world, prefs, seen, states, attempts, loop, removal, history>>

(* runOnAgent's error: the previous states are left. *)
PollFails(h) ==
  /\ poll[h] = "asked"
  /\ poll' = [poll EXCEPT ![h] = "none"]
  /\ UNCHANGED <<world, prefs, seen, states, attempts, loop, removal, history>>

PollSets(h) ==
  /\ poll[h] \in {"running", "stopped"}
  /\ seen' = [seen EXCEPT ![h] = poll[h]]
  /\ poll' = [poll EXCEPT ![h] = "none"]
  /\ UNCHANGED <<world, prefs, states, attempts, loop, removal, history>>

-----------------------------------------------------------------------------
(* removeHost, and forgetHost one table at a time. *)

RemoveHost(h) ==
  /\ host[h] = "offline" /\ removal[h] = "none"
  /\ host' = [host EXCEPT ![h] = "absent"]
  /\ cpu' = [cpu EXCEPT ![h] = "none"]
  /\ removal' = [removal EXCEPT ![h] = "readings"]
  /\ UNCHANGED <<up, prefs, seen, states, attempts, loop, poll, history>>

ForgetReadings(h) ==
  /\ removal[h] = "readings"
  /\ seen' = [seen EXCEPT ![h] = "unknown"]
  /\ removal' = [removal EXCEPT ![h] = "alerts"]
  /\ UNCHANGED <<world, prefs, states, attempts, loop, poll, history>>

ForgetAlerts(h) ==
  /\ removal[h] = "alerts"
  /\ states' = Restrict(states, {k \in DOMAIN states : k[1] # h})
  /\ told' = {k \in told : k[1] # h}
  /\ removal' = [removal EXCEPT ![h] = "prefs"]
  /\ UNCHANGED <<world, prefs, seen, attempts, loop, poll, fixed>>

ForgetPrefs(h) ==
  /\ removal[h] = "prefs"
  /\ mute' = [mute EXCEPT ![h] = FALSE] /\ watch' = [watch EXCEPT ![h] = FALSE]
  /\ removal' = [removal EXCEPT ![h] = "none"]
  /\ UNCHANGED <<world, seen, states, attempts, loop, poll, history>>

-----------------------------------------------------------------------------
(* The hosts, the operator and the clock. *)

Connect(h) ==
  /\ host[h] # "online"
  /\ host' = [host EXCEPT ![h] = "online"]
  /\ UNCHANGED <<cpu, up, prefs, seen, states, attempts, loop, poll, removal, history>>

Disconnect(h) ==
  /\ host[h] = "online"
  /\ host' = [host EXCEPT ![h] = "offline"]
  /\ UNCHANGED <<cpu, up, prefs, seen, states, attempts, loop, poll, removal, history>>

Telemetry(h) ==
  /\ "cpu" \in Rules /\ host[h] = "online"
  /\ \E level \in {"low", "band", "high"} : cpu' = [cpu EXCEPT ![h] = level]
  /\ UNCHANGED <<host, up, prefs, seen, states, attempts, loop, poll, removal, history>>

ServiceFlips(h) ==
  /\ "service" \in Rules
  /\ up' = [up EXCEPT ![h] = ~@]
  /\ fixed' = fixed \ {h}
  /\ UNCHANGED <<host, cpu, prefs, seen, states, attempts, loop, poll, removal, told>>

SetPref(h) ==
  /\ host[h] # "absent"
  /\ \E m, w \in BOOLEAN :
       /\ w => "service" \in Rules
       /\ mute' = [mute EXCEPT ![h] = m] /\ watch' = [watch EXCEPT ![h] = w]
  /\ UNCHANGED <<world, seen, states, attempts, loop, poll, removal, history>>

Older(st, r) == [st EXCEPT !.age = IF st.active /\ @ < Sustain[r] THEN @ + 1 ELSE @]

Tick ==
  /\ Prompt => ~due
  /\ due' = TRUE
  /\ states' = [k \in DOMAIN states |-> Older(states[k], k[2])]
  /\ attempts' = [k \in Keys |->
       SelectSeq([i \in DOMAIN attempts[k] |-> attempts[k][i] + 1], LAMBDA a : a < Window)]
  /\ UNCHANGED <<world, prefs, seen, pc, views, todo, fix, reply, poll, removal, history>>

-----------------------------------------------------------------------------
Work ==
  \/ TakeViews \/ Evaluate \/ Drained \/ ScriptEnds \/ RepollReads \/ RepollSets \/ Hold
  \/ \E t \in todo : Recover(t) \/ Announce(t) \/ StartFix(t)

World(h) ==
  \/ Connect(h) \/ Disconnect(h) \/ Telemetry(h) \/ ServiceFlips(h) \/ SetPref(h)
  \/ RemoveHost(h) \/ ForgetReadings(h) \/ ForgetAlerts(h) \/ ForgetPrefs(h)

Polling(h) == PollReads(h) \/ PollFails(h) \/ PollSets(h)

Next == Work \/ PollRound \/ Tick \/ (\E h \in Hosts : World(h) \/ Polling(h))

Spec == Init /\ [][Next]_vars

-----------------------------------------------------------------------------
States == [firing : BOOLEAN, active : BOOLEAN, age : 0..For + OfflineAfter]

TypeOK ==
  /\ host \in [Hosts -> {"absent", "offline", "online"}]
  /\ cpu \in [Hosts -> {"none", "low", "band", "high"}]
  /\ up \in [Hosts -> BOOLEAN] /\ mute \in [Hosts -> BOOLEAN] /\ watch \in [Hosts -> BOOLEAN]
  /\ seen \in [Hosts -> {"unknown", "running", "stopped"}]
  /\ DOMAIN states \subseteq Keys /\ \A k \in DOMAIN states : states[k] \in States
  /\ attempts \in [Keys -> BoundedSeq(0..Window - 1, MaxAttempts)]
  /\ pc \in {"idle", "viewed", "draining", "fixing", "repolling", "repolled", "holding"}
  /\ DOMAIN views \subseteq Hosts
  /\ todo \subseteq [key : Keys, firing : BOOLEAN]
  /\ fix \in Keys \cup {<<>>} /\ (fix # <<>> <=> pc \in {"fixing", "repolling", "repolled", "holding"})
  /\ reply \in {"none", "running", "stopped"} /\ due \in BOOLEAN
  /\ poll \in [Hosts -> {"none", "asked", "running", "stopped"}]
  /\ removal \in [Hosts -> {"none", "readings", "alerts", "prefs"}]
  /\ told \subseteq Keys /\ fixed \subseteq Hosts

(* What the dashboard lists as firing has been announced, or is about to   *)
(* be announced or fixed: no alert is lost between evaluate and dispatch.  *)
FiringIsTold ==
  \A k \in DOMAIN states : Firing(k) => k \in told \/ [key |-> k, firing |-> TRUE] \in todo \/ fix = k

Announced(k, firing) == [key |-> k, firing |-> firing] \in todo \ todo' /\ pc' = "draining"

(* remediate.go holds alerts so that no recovery is announced for an alert *)
(* that was never sent; a host forgotten meanwhile has no state left.      *)
RecoveryFollowsAlert == \A k \in Keys : Announced(k, FALSE) => k \in told \/ k \notin DOMAIN states

(* What is announced is announced in pairs: dispatch and remediate.        *)
AnnouncedInPairs == [][FiringIsTold' /\ RecoveryFollowsAlert]_vars

(* A condition that lasts is announced, fix configured or not: the budget  *)
(* runs out, the attempts do not.                                          *)
Lasting(h, r) ==
  /\ host[h] = "online" /\ ~mute[h] /\ removal[h] = "none"
  /\ \/ r = "cpu" /\ cpu[h] = "high"
     \/ r = "service" /\ watch[h] /\ ~up[h]
LastingIsAnnounced ==
  \A h \in Hosts, r \in Rules : <>[]Lasting(h, r) => <>[](<<h, r>> \in told)

(* And a host that is well, and stays so, ends up with nothing firing.     *)
Well(h) ==
  /\ host[h] = "online" /\ ~mute[h] /\ removal[h] = "none"
  /\ "cpu" \in Rules => cpu[h] = "low"
  /\ "service" \in Rules => watch[h] /\ up[h]
WellIsResolved == \A h \in Hosts : <>[]Well(h) => <>[](\A r \in Rules : ~Firing(<<h, r>>))

(* In the end what is announced is what is so (evaluate, dispatch).        *)
AnnouncedInTheEnd == LastingIsAnnounced /\ WellIsResolved

-----------------------------------------------------------------------------
(* What the comments of the code say, and it does not do. *)

(* alerts.go: "A silenced host produces no rules at all, so nothing can    *)
(* fire and anything already firing resolves."                             *)
SilencedResolves ==
  [][pc = "viewed" /\ pc' = "draining" => \A k \in DOMAIN states' : mute[k[1]] => ~states'[k].firing]_vars

(* remediate.go: "Recovered: give this condition its full budget back".    *)
BudgetReturned ==
  pc = "idle" => \A k \in DOMAIN states : ~states[k].active => attempts[k] = <<>>

(* remediate.go: "so a fix that worked is visible immediately rather than  *)
(* a poll interval later".                                                 *)
FixIsVisible == \A h \in fixed : seen[h] # "stopped"

(* http.go: "Everything keyed by the agent id goes with it", for the       *)
(* budget of attempts, and for the readings and alert states.              *)
Removed(h) == host[h] = "absent" /\ removal[h] = "none"
RemovedForgetsBudget ==
  \A h \in Hosts : Removed(h) => \A r \in Rules : attempts[<<h, r>>] = <<>>
RemovedForgetsReadings ==
  \A h \in Hosts : Removed(h) => seen[h] = "unknown" /\ \A k \in DOMAIN states : k[1] # h

(* alerts.go, forget: "so a removed machine cannot go on firing - or,      *)
(* worse, resolve later and send a recovery notice for something that no   *)
(* longer exists".                                                         *)
NoNoticeOnceRemoved ==
  [][\A k \in Keys, f \in BOOLEAN :
       Announced(k, f) => ~Removed(k[1])]_vars

=============================================================================
