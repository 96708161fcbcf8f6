---------------------------- MODULE AgentProcess ----------------------------
(***************************************************************************)
(* The elevated helper as a process on its machine: how it replaces its    *)
(* own binary (internal/selfupdate, cmd/autormm-agent/main.go), and the    *)
(* console worker it keeps running in whichever session has the screen     *)
(* (agent/console_windows.go).                                             *)
(*                                                                         *)
(* A check for updates runs on a timer and whenever the hub asks, each     *)
(* time in a goroutine of its own.  It ends the whole process, which the   *)
(* service manager relaunches from the binary then on disk; a worker dies  *)
(* with the helper if it could be put in the helper's job object.          *)
(*                                                                         *)
(* Abstracted: how a file is fetched and tried out; the files a failed     *)
(* update leaves behind; the session a worker needs a token for.           *)
(* Operators named Action_Fault are single-fault variants of Action.       *)
(***************************************************************************)
CONSTANTS
  Versions,
  First,      \* the version installed
  Updaters,   \* goroutines in CheckOnce
  Consoles,   \* sessions that may have the screen
  Workers,    \* worker processes
  None

ProcessAssumption == First \in Versions /\ None \notin Versions \cup Consoles \cup Workers

VARIABLES
  hub,      \* the version the hub reports
  running,  \* the helper's version
  exe,      \* the binary on disk
  backup,   \* and its .old copy
  upd,      \* upd[u]: where updater u is
  want,     \* want[u]: the version it was told and has downloaded
  console,  \* the session that has the screen
  sup,      \* where superviseConsole is
  sid,      \* the session it read
  proc,     \* its proc
  session,  \* its session
  alive,    \* alive[w]: the session worker w runs in
  job       \* workers in the helper's job object

disk == <<exe, backup>>
updates == <<upd, want>>
supervisor == <<sup, sid, proc, session>>
workers == <<alive, job>>
vars == <<hub, running, disk, updates, console, supervisor, workers>>

Init ==
  /\ hub = First /\ running = First /\ exe = First /\ backup = None
  /\ upd = [u \in Updaters |-> "idle"]
  /\ want = [u \in Updaters |-> None]
  /\ console = None
  /\ sup = "starting" /\ sid = None /\ proc = None /\ session = None
  /\ alive = [w \in Workers |-> None] /\ job = {}

-----------------------------------------------------------------------------
(* Updates. *)

Done(u) == upd' = [upd EXCEPT ![u] = "idle"] /\ want' = [want EXCEPT ![u] = None]

Goes(u, to) == upd' = [upd EXCEPT ![u] = to] /\ UNCHANGED want

(* A download that does not run, or does not report the version the hub    *)
(* reported, is thrown away: only the other kind goes further. *)
CheckOnce(u) ==
  /\ running # None /\ upd[u] = "idle" /\ hub # running
  /\ want' = [want EXCEPT ![u] = hub]
  /\ upd' = [upd EXCEPT ![u] = "valid"]
  /\ UNCHANGED <<hub, running, disk, console, supervisor, workers>>

RemoveBackup(u) ==
  /\ upd[u] = "valid"
  /\ backup' \in {None, backup}
  /\ Goes(u, "cleared")
  /\ UNCHANGED <<hub, running, exe, console, supervisor, workers>>

MoveAway(u) ==
  /\ upd[u] = "cleared"
  /\ \/ /\ exe # None
        /\ backup' = exe /\ exe' = None
        /\ Goes(u, "moved")
     \/ Done(u) /\ UNCHANGED disk
  /\ UNCHANGED <<hub, running, console, supervisor, workers>>

(* A failed rename with no rollback. *)
MoveIn_NoRollback(u) ==
  /\ upd[u] = "moved"
  /\ \/ exe' = want[u] /\ backup' = backup /\ Goes(u, "replaced")
     \/ Done(u) /\ UNCHANGED disk
  /\ UNCHANGED <<hub, running, console, supervisor, workers>>

MoveIn(u) ==
  /\ upd[u] = "moved"
  /\ \/ exe' = want[u] /\ backup' = backup /\ Goes(u, "replaced")
     \/ /\ Done(u)
        /\ IF backup # None THEN exe' = backup /\ backup' = None ELSE UNCHANGED disk
  /\ UNCHANGED <<hub, running, console, supervisor, workers>>

(* The end of the process: its goroutines, and what is in its job.         *)
Ends ==
  /\ running' = None
  /\ upd' = [u \in Updaters |-> "idle"]
  /\ want' = [u \in Updaters |-> None]
  /\ sup' = "none" /\ sid' = None /\ proc' = None /\ session' = None
  /\ alive' = [w \in Workers |-> IF w \in job THEN None ELSE alive[w]]
  /\ job' = {}
  /\ UNCHANGED <<hub, disk, console>>

Exit(u) == upd[u] = "replaced" /\ Ends

Crash == running # None /\ Ends

Relaunch ==
  /\ running = None /\ exe # None
  /\ running' = exe /\ sup' = "starting"
  /\ UNCHANGED <<hub, disk, updates, console, sid, proc, session, workers>>

Release(v) ==
  /\ hub' = v
  /\ UNCHANGED <<running, disk, updates, console, supervisor, workers>>

-----------------------------------------------------------------------------
(* The console worker. *)

(* Workers of an earlier helper left running. *)
Reap_Nothing ==
  /\ sup = "starting"
  /\ sup' = "polling"
  /\ UNCHANGED <<hub, running, disk, updates, console, sid, proc, session, workers>>

Reap ==
  /\ sup = "starting"
  /\ alive' = [w \in Workers |-> None] /\ job' = {}
  /\ sup' = "polling"
  /\ UNCHANGED <<hub, running, disk, updates, console, sid, proc, session>>

Healthy == proc # None /\ session = console /\ alive[proc] # None

Stop ==
  /\ alive' = IF proc = None THEN alive ELSE [alive EXCEPT ![proc] = None]
  /\ job' = job \ {proc}
  /\ proc' = None /\ session' = None

(* A worker of another session taken for a healthy one. *)
Poll_IgnoresSession ==
  /\ sup = "polling" /\ sid' = console
  /\ \/ console = None /\ Stop /\ sup' = sup
     \/ console # None /\ proc # None /\ alive[proc] # None /\ UNCHANGED <<sup, proc, session, workers>>
     \/ console # None /\ ~(proc # None /\ alive[proc] # None) /\ Stop /\ sup' = "launching"
  /\ UNCHANGED <<hub, running, disk, updates, console>>

Poll ==
  /\ sup = "polling" /\ sid' = console
  /\ \/ console = None /\ Stop /\ sup' = sup
     \/ console # None /\ Healthy /\ UNCHANGED <<sup, proc, session, workers>>
     \/ console # None /\ ~Healthy /\ Stop /\ sup' = "launching"
  /\ UNCHANGED <<hub, running, disk, updates, console>>

(* A token, a job object or the binary may be missing; only the job can be *)
(* done without.                                                           *)
LaunchWorker(w) ==
  /\ sup = "launching" /\ exe # None /\ alive[w] = None
  /\ alive' = [alive EXCEPT ![w] = sid]
  /\ job' \in {job, job \cup {w}}
  /\ proc' = w /\ session' = sid /\ sup' = "polling"
  /\ UNCHANGED <<hub, running, disk, updates, console, sid>>

LaunchFails ==
  /\ sup = "launching" /\ sup' = "polling"
  /\ UNCHANGED <<hub, running, disk, updates, console, sid, proc, session, workers>>

WorkerDies(w) ==
  /\ alive[w] # None
  /\ alive' = [alive EXCEPT ![w] = None] /\ job' = job \ {w}
  /\ UNCHANGED <<hub, running, disk, updates, console, supervisor>>

SwitchConsole ==
  /\ \E c \in (Consoles \cup {None}) \ {console} : console' = c
  /\ UNCHANGED <<hub, running, disk, updates, supervisor, workers>>

-----------------------------------------------------------------------------
Next ==
  \/ \E u \in Updaters :
       CheckOnce(u) \/ RemoveBackup(u) \/ MoveAway(u) \/ MoveIn(u) \/ Exit(u)
  \/ Crash \/ Relaunch \/ Reap \/ Poll \/ LaunchFails \/ SwitchConsole
  \/ \E v \in Versions : Release(v)
  \/ \E w \in Workers : LaunchWorker(w) \/ WorkerDies(w)

Spec == Init /\ [][Next]_vars

Launch == \E w \in Workers : LaunchWorker(w)
MovesAway(u) == MoveAway(u) /\ exe' = None
MovesIn(u) == MoveIn(u) /\ exe' = want[u]

(* Both loops run; fetching, renaming and launching do not fail for ever.  *)
Fairness ==
  /\ WF_vars(Relaunch) /\ WF_vars(Reap) /\ WF_vars(Poll) /\ SF_vars(Launch)
  /\ \A u \in Updaters :
       /\ WF_vars(CheckOnce(u)) /\ WF_vars(RemoveBackup(u)) /\ WF_vars(Exit(u))
       /\ WF_vars(MoveAway(u)) /\ SF_vars(MovesAway(u))
       /\ WF_vars(MoveIn(u)) /\ SF_vars(MovesIn(u))

FairSpec == Spec /\ Fairness

-----------------------------------------------------------------------------
TypeOK ==
  /\ hub \in Versions /\ running \in Versions \cup {None}
  /\ exe \in Versions \cup {None} /\ backup \in Versions \cup {None}
  /\ upd \in [Updaters -> {"idle", "valid", "cleared", "moved", "replaced"}]
  /\ want \in [Updaters -> Versions \cup {None}]
  /\ console \in Consoles \cup {None}
  /\ sup \in {"none", "starting", "polling", "launching"} /\ sid \in Consoles \cup {None}
  /\ proc \in Workers \cup {None} /\ session \in Consoles \cup {None}
  /\ alive \in [Workers -> Consoles \cup {None}] /\ job \subseteq Workers

(* A supervisor past its start has one worker at most, whatever workers    *)
(* earlier helpers left behind (killStrayWorkers, stop).                   *)
OneWorker ==
  sup \in {"polling", "launching"} =>
    \A v, w \in Workers : alive[v] # None /\ alive[w] # None => v = w

(* When the screen stays with a session, the helper up and its worker      *)
(* alive, that worker is in that session.                                  *)
Calm == <>[][~Crash /\ \A u \in Updaters : ~Exit(u)]_vars
           /\ <>[][\A w \in Workers : ~WorkerDies(w)]_vars
WorkerFollowsConsole ==
  Calm => \A c \in Consoles :
    <>[](console = c /\ exe # None) => <>[](\E w \in Workers : alive[w] = c)

(* An agent whose updaters replace the binary one at a time, and which is  *)
(* not stopped from outside between the two renames, never loses it and    *)
(* gets to the version its hub settles on, whichever renames fail.         *)
OneAtATime == [](\A u, v \in Updaters : upd[u] # "idle" /\ upd[v] # "idle" => u = v)
Spared == [](running = None => exe # None) /\ <>[][~Crash]_vars
Converges == OneAtATime /\ Spared => \A v \in Versions : <>[](hub = v) => <>[](running = v)

-----------------------------------------------------------------------------
(* What a comment says, and the code does not do.                          *)

(* main.go: "Applying an update replaces the binary and exits; the service *)
(* manager (systemd Restart=always) relaunches it."                        *)
ExitLeavesABinary == [][(\E u \in Updaters : Exit(u)) => exe # None]_vars

=============================================================================
