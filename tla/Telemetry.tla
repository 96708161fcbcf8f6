----------------------------- MODULE Telemetry -----------------------------
(* What a machine measures of itself and what the hub makes of it: the     *)
(* collector of each of its agent processes (internal/metrics), the loop   *)
(* that samples (agent.go), the hub's one record of the host (store.go)    *)
(* and the rule for failing drives (alerts.go).  A host may run two agent  *)
(* processes, of which only one may query the drives; their samples take   *)
(* turns in the record.  The drives are asked every ten minutes, one that  *)
(* sleeps is left asleep.                                                  *)
(*                                                                         *)
(* Abstracted: the readings that are only passed on (processor, memory,    *)
(* file systems, processes, users, graphics, temperature); the other rules,*)
(* which are in Alerting; a loop of a former connection that is still in   *)
(* a slow Collect, which shares the collector without a lock.  External:   *)
(* the drives and the network interface.                                   *)
(* Operators named Action_Fault are single-fault variants of Action.       *)
(***************************************************************************)
EXTENDS Integers

CONSTANTS
  Procs,        \* agent processes of the host
  Privileged,   \* those that may query drives
  Drives,       \* device names
  MaxTime,      \* bound: sampling intervals
  None

TelemetryAssumption == Privileged \subseteq Procs /\ MaxTime \in Nat

VARIABLES
  now,       \* in sampling intervals
  bytes,     \* the interface's counter
  health,    \* per drive: "well" or "sick"
  present,   \* the drives a scan lists: none, or all
  asleep,    \* those in standby
  pc,        \* per process: "off", "priming", "idle", "collecting"
  at,        \* per process: the time its collection began
  last,      \* per process: Collector.lastNetTime, lastRecv
  due,       \* per process: smartAt is ten minutes ago, or never
  cache,     \* per process: smartLast
  read,      \* history: the drives a process has read to be sick, since it can have known
  wire,      \* per process: a sample on its way
  metrics,   \* host.metrics
  firing     \* the rule "smart" of the host fires

machine == <<bytes, health, present, asleep>>
collector == <<pc, at, last, due, cache, read>>
hub == <<metrics, firing>>
vars == <<now, machine, collector, wire, hub>>

NoDrives == [d \in {} |-> "well"]

Init ==
  /\ now = 0 /\ bytes = 0
  /\ health = [d \in Drives |-> "well"] /\ present \in {{}, Drives} /\ asleep = {}
  /\ pc = [p \in Procs |-> "off"] /\ at = [p \in Procs |-> 0] /\ last = [p \in Procs |-> None]
  /\ due = [p \in Procs |-> TRUE] /\ cache = [p \in Procs |-> NoDrives] /\ read = [p \in Procs |-> {}]
  /\ wire = [p \in Procs |-> None] /\ metrics = None /\ firing = FALSE

-----------------------------------------------------------------------------
(* A process. *)

(* New, then the first collection, which only sets the baseline.           *)
Start(p) ==
  /\ pc[p] = "off" /\ (present = {} => \A q \in Procs : pc[q] = "off")
  /\ pc' = [pc EXCEPT ![p] = "priming"] /\ at' = [at EXCEPT ![p] = now]
  /\ UNCHANGED <<now, machine, last, due, cache, read, wire, hub>>
Stop(p) ==
  /\ pc[p] # "off" /\ pc' = [pc EXCEPT ![p] = "off"]
  /\ at' = [at EXCEPT ![p] = 0] /\ last' = [last EXCEPT ![p] = None]
  /\ due' = [due EXCEPT ![p] = TRUE] /\ cache' = [cache EXCEPT ![p] = NoDrives] /\ read' = [read EXCEPT ![p] = {}]
  /\ UNCHANGED <<now, machine, wire, hub>>

Begin(p) ==
  /\ pc[p] = "idle" /\ pc' = [pc EXCEPT ![p] = "collecting"] /\ at' = [at EXCEPT ![p] = now]
  /\ UNCHANGED <<now, machine, last, due, cache, read, wire, hub>>

(* collectNet: the counter is read when the probes are done, and timed     *)
(* from when they began.                                                   *)
Rate(p) ==
  IF last[p] # None /\ at[p] > last[p].time /\ bytes >= last[p].count
  THEN (bytes - last[p].count) \div (at[p] - last[p].time) ELSE 0

Remembered(p) == [time |-> at[p], count |-> bytes]

(* querySmart: a drive that answers is read, one that is listed and does   *)
(* not answer keeps its last reading.                                      *)
Carried(p, answers) == (present \ answers) \cap DOMAIN cache[p]

CollectSmart(p) ==
  IF ~due[p] THEN UNCHANGED <<due, cache, read>>
  ELSE
    /\ due' = [due EXCEPT ![p] = FALSE]
    /\ \/ cache' = [cache EXCEPT ![p] = NoDrives] /\ read' = [read EXCEPT ![p] = {}]   \* no tool, or no list
       \/ \E answers \in SUBSET (IF p \in Privileged THEN present \ asleep ELSE {}) :
            /\ cache' = [cache EXCEPT ![p] = [d \in answers \cup Carried(p, answers) |-> IF d \in answers THEN health[d] ELSE cache[p][d]]]
            /\ read' = [read EXCEPT ![p] = {d \in answers : health[d] = "sick"} \cup ((@ \cap present) \ answers)]

(* The sample goes on its way, unless the queue is full.                   *)
Sample(p) == [by |-> p, smart |-> cache'[p], rate |-> Rate(p), quick |-> now = at[p], knew |-> UNION {read'[q] : q \in Procs}]
Collect(p) ==
  /\ pc[p] \in {"priming", "collecting"} /\ pc' = [pc EXCEPT ![p] = "idle"]
  /\ CollectSmart(p) /\ last' = [last EXCEPT ![p] = Remembered(p)]
  /\ \/ UNCHANGED wire
     \/ pc[p] = "collecting" /\ wire[p] = None /\ wire' = [wire EXCEPT ![p] = Sample(p)]
  /\ UNCHANGED <<now, machine, at, hub>>

TenMinutesPass(p) ==
  /\ pc[p] = "idle" /\ ~due[p] /\ due' = [due EXCEPT ![p] = TRUE]
  /\ UNCHANGED <<now, machine, pc, at, last, cache, read, wire, hub>>

-----------------------------------------------------------------------------
(* The hub. *)

UpdateMetrics(p) ==
  /\ wire[p] # None /\ metrics' = wire[p] /\ wire' = [wire EXCEPT ![p] = None]
  /\ UNCHANGED <<now, machine, collector, firing>>

HasRule_Always == metrics # None   \* a bug: no drives are well
HasRule == metrics # None /\ metrics.smart # NoDrives
Failing(smart) == \E d \in DOMAIN smart : smart[d] = "sick"
Evaluate ==
  /\ HasRule /\ firing' = Failing(metrics.smart)
  /\ UNCHANGED <<now, machine, collector, wire, metrics>>

HubRestarts ==
  /\ metrics' = None /\ firing' = FALSE /\ wire' = [p \in Procs |-> None]
  /\ UNCHANGED <<now, machine, collector>>

-----------------------------------------------------------------------------
(* External.  A link carries at most one byte in an interval.  Bounds:     *)
(* MaxTime intervals, counted on a machine without drives, where one       *)
(* process runs at a time.                                                 *)

TimePasses ==
  /\ present = {} /\ now < MaxTime /\ now' = now + 1 /\ \E n \in {0, 1} : bytes' = bytes + n
  /\ UNCHANGED <<health, present, asleep, collector, wire, hub>>
CounterRestarts ==
  /\ bytes > 0 /\ bytes' = 0 /\ UNCHANGED <<now, health, present, asleep, collector, wire, hub>>
LoseSample(p) ==   \* with its connection
  /\ wire[p] # None /\ wire' = [wire EXCEPT ![p] = None]
  /\ UNCHANGED <<now, machine, collector, hub>>
Sicken(d) ==
  /\ d \in present /\ health' = [health EXCEPT ![d] = "sick"] /\ UNCHANGED <<now, bytes, present, asleep, collector, wire, hub>>
SleepOrWake(d) ==
  /\ d \in present /\ asleep' = IF d \in asleep THEN asleep \ {d} ELSE asleep \cup {d}
  /\ UNCHANGED <<now, bytes, health, present, collector, wire, hub>>
Replace(d) ==   \* by another in its place
  /\ d \in present /\ health' = [health EXCEPT ![d] = "well"] /\ asleep' = asleep \ {d}
  /\ read' = [p \in Procs |-> read[p] \ {d}]
  /\ UNCHANGED <<now, bytes, present, pc, at, last, due, cache, wire, hub>>

OfProc(p) ==
  \/ Start(p) \/ Stop(p) \/ Begin(p) \/ Collect(p) \/ TenMinutesPass(p) \/ UpdateMetrics(p) \/ LoseSample(p)
OfDrive(d) == Sicken(d) \/ SleepOrWake(d) \/ Replace(d)
Next ==
  \/ Evaluate \/ HubRestarts \/ TimePasses \/ CounterRestarts
  \/ (\E p \in Procs : OfProc(p)) \/ (\E d \in Drives : OfDrive(d))

Spec == Init /\ [][Next]_vars

-----------------------------------------------------------------------------
(* A rate is at most what the link carries, unless the probes of its own   *)
(* sample were slow (collectNet), a lost sample or a counter that starts   *)
(* over notwithstanding.                                                   *)
RateIsReal == metrics # None /\ metrics.quick => metrics.rate <= 1

(* The alert for failing drives is not resolved while a drive is there     *)
(* that a process of the host had read to be sick, asleep or not, and      *)
(* whichever process sent the sample (querySmart, rulesFor).               *)
DriveStaysReported == firing /\ ~firing' => metrics'= None \/ \A d \in present \cap metrics.knew : health[d] # "sick"

TelemetryIsTrue == [][RateIsReal' /\ DriveStaysReported]_vars

-----------------------------------------------------------------------------
(* Not so: "bytes/sec since last sample" (protocol.go) for a sample with   *)
(* slow probes, whose bytes are of more time than it is timed for. *)
EveryRateIsReal == metrics # None => metrics.rate <= 1

(* Not so after a restart of the process or a scan that fails: "a skipped  *)
(* drive keeps its previous reading" (smart.go). *)
SickStaysReported == [][firing /\ ~firing' => metrics' = None \/ \A d \in present : health[d] # "sick"]_vars
=============================================================================
