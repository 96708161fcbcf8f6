----------------------------- MODULE Schedules -----------------------------
(***************************************************************************)
(* Scripts on a schedule: the minute loop that finds what is due, marks it *)
(* and runs it (server/scheduler.go), the tables it shares with the        *)
(* operators' requests (server/scripts.go, scripts_http.go), and the       *)
(* targets that are resolved as it fires (server/targets.go).              *)
(*                                                                         *)
(* Time is in half minutes, so that a ticker's tick can be handled late.   *)
(* The tables are a database of their own: they survive the hub.           *)
(*                                                                         *)
(* Abstracted: a script's text, its output and how long it runs; cron      *)
(* expressions to the times they name; who may ask (checkAdmin); the       *)
(* listing and the trimming of the run history.                            *)
(* Operators named Action_Fault are single-fault variants of Action.       *)
(***************************************************************************)
EXTENDS Naturals, FiniteSets

CONSTANTS
  Hosts,
  Jobs,        \* schedule ids
  Scripts,
  Selectors,
  Targets,     \* the hosts and selectors a schedule may name
  Covers,      \* Covers[t]: the hosts a selector matches, by tag or system
  Crons,       \* sets of the times a cron expression may name
  MaxTime,     \* bounds the clock, not the ticker
  MaxStops     \* bounds how often the hub stops

Minute == 2
SchedulesAssumption ==
  /\ Covers \in [Selectors -> SUBSET Hosts] /\ Selectors \cap Hosts = {}
  /\ Targets \subseteq Hosts \cup Selectors
  /\ MaxTime \in Nat \ {0} /\ MaxStops \in Nat
  /\ \A c \in Crons : c \subseteq 1..MaxTime

VARIABLES
  now,       \* the clock
  rung,      \* the ticker's one-place channel is full
  online,    \* hosts with an agent attached
  scripts,   \* the table of scripts: ids
  schedules, \* the table of schedules
  drawn,     \* ids given to schedules so far
  deleting,  \* scripts whose schedules are still to be deleted
  at,        \* the loop: the time it woke at, 0 when it waits
  rows,      \* the rows it listed and has not looked at
  job,       \* the row it is about to mark or to run, if any
  marked,    \* whether that row's mark is written
  running,   \* runs under way: [job, at, host]
  recorded,  \* the newest run of each host in the table of runs
  fired,     \* the last firing of each schedule: [at, cron, prev, before]
  stops      \* times the hub stopped

table == <<scripts, schedules, drawn, deleting>>
loop == <<at, rows, job, marked>>
vars == <<now, rung, online, table, loop, running, recorded, fired, stops>>

Never == 0
NoRow == [id |-> "none"]
NoRun == [job |-> "none"]
Unfired == [at |-> Never]
Row(id, script, target, cron, enabled, last) ==
  [id |-> id, script |-> script, target |-> target, cron |-> cron, enabled |-> enabled, last |-> last]

Init ==
  /\ now = 1 /\ rung = FALSE /\ online = Hosts
  /\ scripts = Scripts /\ schedules = {} /\ drawn = {} /\ deleting = {}
  /\ at = 0 /\ rows = {} /\ job = NoRow /\ marked = FALSE
  /\ running = {} /\ recorded = [h \in Hosts |-> NoRun]
  /\ fired = [j \in Jobs |-> Unfired] /\ stops = 0

-----------------------------------------------------------------------------
(* The tables, as the operators' requests change them. *)

(* A row's id and its last run are the table's own: an edit leaves both. *)
SaveSchedule(j, s, t, c, e) ==
  /\ drawn' = drawn \cup {j}   \* at random, and never again
  /\ \/ /\ j \notin drawn
        /\ schedules' = schedules \cup {Row(j, s, t, c, e, Never)}
     \/ \E r \in schedules :
          r.id = j /\ schedules' = (schedules \ {r}) \cup {Row(j, s, t, c, e, r.last)}
  /\ UNCHANGED <<now, rung, online, scripts, deleting, loop, running, recorded, fired, stops>>

DeleteSchedule(j) ==
  /\ \E r \in schedules : r.id = j
  /\ schedules' = {r \in schedules : r.id # j}
  /\ UNCHANGED <<now, rung, online, scripts, drawn, deleting, loop, running, recorded, fired, stops>>

(* Two statements: a reader may see the script gone and its schedules not. *)
DeleteScript(s) ==
  /\ s \in scripts
  /\ scripts' = scripts \ {s} /\ deleting' = deleting \cup {s}
  /\ UNCHANGED <<now, rung, online, schedules, drawn, loop, running, recorded, fired, stops>>

DeleteItsSchedules(s) ==
  /\ s \in deleting
  /\ deleting' = deleting \ {s}
  /\ schedules' = {r \in schedules : r.script # s}
  /\ UNCHANGED <<now, rung, online, scripts, drawn, loop, running, recorded, fired, stops>>

-----------------------------------------------------------------------------
(* The loop. *)

(* A full channel drops the tick. *)
Advance ==
  /\ \/ now < MaxTime /\ now' = now + 1
     \/ now = MaxTime /\ ~rung /\ now' = now
  /\ rung' = (rung \/ now' % Minute = 0 \/ now = MaxTime)
  /\ UNCHANGED <<online, table, loop, running, recorded, fired, stops>>

Wake ==
  /\ rung /\ at = 0
  /\ rung' = FALSE
  /\ at' = now /\ rows' = {r \in schedules : r.enabled}
  /\ UNCHANGED <<now, online, table, job, marked, running, recorded, fired, stops>>

(* spec.Next(prev) is not after now; a schedule that never ran counts from *)
(* a minute ago. *)
Since(r) == IF r.last = Never THEN (IF at > Minute THEN at - Minute ELSE 0) ELSE r.last
Due_Recent(r) == \E o \in r.cron : at < o + Minute /\ o <= at /\ r.last < o
Due(r) == \E o \in r.cron : Since(r) < o /\ o <= at

Look(r) ==
  /\ at # 0 /\ job = NoRow /\ r \in rows
  /\ rows' = rows \ {r}
  /\ job' = IF Due(r) /\ r.script \in scripts THEN r ELSE NoRow
  /\ UNCHANGED <<now, rung, online, table, at, marked, running, recorded, fired, stops>>

(* The run is started first and marked when it ends. *)
Mark_Later ==
  /\ job # NoRow /\ ~marked
  /\ marked' = TRUE
  /\ UNCHANGED <<now, rung, online, table, at, rows, job, running, recorded, fired, stops>>

Mark ==
  /\ job # NoRow /\ ~marked
  /\ marked' = TRUE
  /\ schedules' = {IF r.id = job.id THEN [r EXCEPT !.last = at] ELSE r : r \in schedules}
  /\ UNCHANGED <<now, rung, online, scripts, drawn, deleting, at, rows, job, running, recorded, fired, stops>>

(* resolveTarget: one host as it is, a selector by who is online. *)
Resolve(t) == IF t \in Hosts THEN {t} ELSE Covers[t] \cap online

Launch ==
  /\ job # NoRow /\ marked
  /\ running' = running \cup [job : {job.id}, at : {at}, host : Resolve(job.target)]
  /\ fired' = [fired EXCEPT ![job.id] =
       [at |-> at, cron |-> job.cron, prev |-> Since(job), before |-> @.at]]
  /\ job' = NoRow /\ marked' = FALSE
  /\ UNCHANGED <<now, rung, online, table, at, rows, recorded, stops>>

Sleep ==
  /\ at # 0 /\ job = NoRow /\ rows = {}
  /\ at' = 0
  /\ UNCHANGED <<now, rung, online, table, rows, job, marked, running, recorded, fired, stops>>

(* runScript: whatever came of it, SaveRun; a host that is gone or does not *)
(* answer in time is a run that failed. *)
RunEnds(run) ==
  /\ run \in running
  /\ running' = running \ {run}
  /\ recorded' = [recorded EXCEPT ![run.host] = run]
  /\ UNCHANGED <<now, rung, online, table, loop, fired, stops>>

(* handleScriptRun runs at once, on the hosts online, without the table of *)
(* schedules. *)
RunNow(s, t) ==
  /\ s \in scripts /\ Resolve(t) # {}
  /\ recorded' = [h \in Hosts |-> IF h \in Resolve(t) THEN [job |-> "manual"] ELSE recorded[h]]
  /\ UNCHANGED <<now, rung, online, table, loop, running, fired, stops>>

-----------------------------------------------------------------------------
(* A host comes or goes; the hub stops, and is started. *)
Toggle(h) ==
  /\ online' = IF h \in online THEN online \ {h} ELSE online \cup {h}
  /\ UNCHANGED <<now, rung, table, loop, running, recorded, fired, stops>>

Stop ==
  /\ stops < MaxStops /\ stops' = stops + 1
  /\ rung' = FALSE /\ at' = 0 /\ rows' = {} /\ job' = NoRow /\ marked' = FALSE
  /\ running' = {} /\ deleting' = {}
  /\ UNCHANGED <<now, online, scripts, schedules, drawn, recorded, fired>>

-----------------------------------------------------------------------------
LoopStep == Wake \/ (\E r \in rows : Look(r)) \/ Mark \/ Launch \/ Sleep

Next ==
  \/ \E j \in Jobs, s \in Scripts, t \in Targets, c \in Crons, e \in BOOLEAN :
       SaveSchedule(j, s, t, c, e)
  \/ \E j \in Jobs : DeleteSchedule(j)
  \/ \E s \in Scripts : DeleteScript(s) \/ DeleteItsSchedules(s)
  \/ \E s \in Scripts, t \in Targets : RunNow(s, t)
  \/ Advance \/ LoopStep \/ Stop
  \/ \E run \in running : RunEnds(run)
  \/ \E h \in Hosts : Toggle(h)

Spec == Init /\ [][Next]_vars

(* The ticker rings, the loop's goroutine runs. *)
Fairness ==
  /\ WF_vars(Advance) /\ WF_vars(LoopStep)
  /\ \A s \in Scripts : WF_vars(DeleteItsSchedules(s))

FairSpec == Spec /\ Fairness

-----------------------------------------------------------------------------
TypeOK ==
  /\ now \in 1..MaxTime /\ rung \in BOOLEAN /\ online \subseteq Hosts
  /\ scripts \subseteq Scripts /\ deleting \subseteq Scripts
  /\ at \in 0..MaxTime /\ marked \in BOOLEAN /\ stops \in 0..MaxStops
  /\ \A r \in schedules : r.id \in Jobs /\ r.last \in 0..MaxTime

(* Two firings of a schedule are never for the same time its cron names,   *)
(* whatever stops, late ticks and edits come between; and its first is for *)
(* one of the minute before, not one it was too new for ("don't            *)
(* backfire").                                                             *)
OncePerTime ==
  \A j \in Jobs :
    LET f == fired[j]
    IN f # Unfired => \E o \in f.cron : f.prev < o /\ o <= f.at /\ f.before < o

(* A schedule that has run before, and stays as it is, is run again when   *)
(* its time has come, however late the ticks are handled.                  *)
Waiting(j, c) ==
  \E r \in schedules :
    r.id = j /\ r.cron = c /\ r.enabled /\ r.last # Never /\ r.script \in scripts
      /\ \E o \in c : r.last < o /\ o <= now
DueIsRun ==
  \A j \in Jobs, c \in Crons : Waiting(j, c) ~> ~Waiting(j, c)

=============================================================================
