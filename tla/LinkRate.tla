------------------------------ MODULE LinkRate ------------------------------
(***************************************************************************)
(* How the agent works out what the viewer's connection carries            *)
(* (agent/linkrate.go): its own writes that block, and the running total   *)
(* the viewer reports back, against three kinds of path - one that carries *)
(* everything, one that pushes back when it is full, and one (a proxy, an  *)
(* overlay) that swallows everything and delivers what it can.             *)
(*                                                                         *)
(* Abstracted: rates to kbit/s and totals to kbit, in whole numbers; time  *)
(* to windows of a second; a write's blocking to "over backloggedFrac of   *)
(* the window or not"; the encoder to one that spends none, a quarter or   *)
(* all of the estimate.  External: the path delivers in order; the viewer  *)
(* reports every second, its reports arrive in order, some of them late.   *)
(* Operators named Action_Fault are single-fault variants of Action.       *)
(***************************************************************************)
EXTENDS Naturals, Sequences

CONSTANTS
  Paths,       \* records [kind, cap]: kind is "healthy", "direct" or "absorbing"
  Starts,      \* where the estimate may begin
  MaxWindows,
  MaxLate,     \* reports in a row that may arrive after the next window's writes
  NoticeWithin \* windows an overload of these paths may last

LinkAssumption ==
  /\ MaxWindows \in Nat /\ NoticeWithin \in Nat /\ MaxLate \in Nat /\ Starts \subseteq Nat
  /\ \A p \in Paths : p.kind \in {"healthy", "direct", "absorbing"} /\ p.cap \in Nat

MinRate == 600
MaxRate == 25000
shortWindows == 3

VARIABLES
  path,
  est, rx, rxSeen, short,
  sentTotal, rxTotal, sentPrev, backlog,
  since,    \* seconds since the last report came (rxAt)
  bytes,    \* sent in this window
  busy,     \* its writes blocked for a tenth of it or more
  phase,    \* "write", "open" (this window's bytes are out), with `rolled`
  rolled,
  queue,    \* sent and not yet with the viewer
  arrived,  \* the viewer's total
  reports,  \* reports on their way
  made,     \* this second's report is made
  late,     \* reports in a row that came late
  windows,
  hot       \* windows in a row over capacity on an absorbing path

totals == <<sentTotal, rxTotal, sentPrev, backlog>>
viewer == <<queue, arrived, reports, made, late>>
vars == <<path, est, rx, rxSeen, short, totals, since, bytes, busy, phase, rolled, viewer, windows, hot>>

ClampRate(v) == IF v < MinRate THEN MinRate ELSE IF v > MaxRate THEN MaxRate ELSE v
Least(a, b) == IF a < b THEN a ELSE b
Minus(a, b) == IF a > b THEN a - b ELSE 0

Init ==
  /\ path \in Paths /\ est \in {ClampRate(s) : s \in Starts}
  /\ rx = 0 /\ rxSeen = FALSE /\ short = 0
  /\ sentTotal = 0 /\ rxTotal = 0 /\ sentPrev = 0 /\ backlog = 0 /\ since = 0
  /\ bytes = 0 /\ busy = FALSE /\ phase = "write" /\ rolled = FALSE
  /\ queue = 0 /\ arrived = 0 /\ reports = <<>> /\ made = FALSE /\ late = 0
  /\ windows = 0 /\ hot = 0

-----------------------------------------------------------------------------
(* observe: a window's writes. *)
Write ==
  /\ phase = "write" /\ windows < MaxWindows
  /\ \E want \in {0, est \div 4, est} :
       /\ bytes' = (IF path.kind = "direct" THEN Least(want, path.cap) ELSE want)
       /\ busy' = (path.kind = "direct" /\ want >= path.cap)
  /\ sentTotal' = sentTotal + bytes'
  /\ queue' = queue + bytes'
  /\ phase' = "open" /\ rolled' = FALSE /\ made' = FALSE
  /\ windows' = windows + 1
  /\ UNCHANGED <<path, est, rx, rxSeen, short, rxTotal, sentPrev, backlog, since, arrived, reports, late, hot>>

(* roll: deep is a queue of more than half a second of the estimate. *)
Deep == rxSeen /\ 2 * backlog > est
Shorts == IF Deep THEN short + 1 ELSE 0

Lowered ==
  CASE Shorts >= shortWindows -> Least((rx * 105) \div 100, est)
    [] Shorts < shortWindows /\ busy -> Least((bytes * 9) \div 10, est)
    [] OTHER -> est

Probing == Shorts < shortWindows /\ ~busy /\ 10 * bytes >= 7 * est

Roll ==
  /\ phase = "open" /\ ~rolled
  /\ short' = (IF Shorts >= shortWindows THEN 0 ELSE Shorts)
  /\ est' = ClampRate(IF Probing THEN (est * 108) \div 100 ELSE Lowered)
  /\ rolled' = TRUE
  /\ hot' = (IF path.kind = "absorbing" /\ bytes = est /\ 10 * est > 13 * path.cap THEN hot + 1 ELSE 0)
  /\ UNCHANGED <<path, rx, rxSeen, totals, since, bytes, busy, phase, viewer, windows>>

-----------------------------------------------------------------------------
(* External: the path delivers, and the viewer counts and reports.         *)
Carried ==
  IF path.kind = "healthy" THEN {Minus(queue, bytes), queue} ELSE {Least(queue, path.cap)}

Deliver ==
  /\ phase = "open" /\ ~made
  /\ \E n \in Carried :
       /\ queue' = queue - n /\ arrived' = arrived + n
       /\ reports' = (IF arrived + n > 0 THEN Append(reports, arrived + n) ELSE reports)
  /\ made' = TRUE
  /\ UNCHANGED <<path, est, rx, rxSeen, short, totals, since, bytes, busy, phase, rolled, late, windows, hot>>

(* observeReceived.  Two reports that come in one second are taken to be a *)
(* quarter of a second apart.                                              *)
Baseline_Latest == sentTotal
Baseline == sentPrev

Received ==
  /\ reports # <<>>
  /\ LET t == Head(reports)
         bps == IF since = 0 THEN 4 * (t - rxTotal) ELSE (t - rxTotal) \div since IN
       /\ reports' = Tail(reports)
       /\ backlog' = (IF rxSeen THEN Minus(Baseline, t) ELSE backlog)
       /\ sentPrev' = sentTotal
       /\ rx' = (IF rxSeen /\ t > rxTotal THEN (IF rx = 0 THEN bps ELSE (4 * bps + 6 * rx) \div 10) ELSE rx)
       /\ rxTotal' = t
  /\ rxSeen' = TRUE /\ since' = 0
  /\ late' = (IF made THEN 0 ELSE late)
  /\ UNCHANGED <<path, est, short, sentTotal, bytes, busy, phase, rolled, queue, arrived, made, windows, hot>>

(* The second is over; a report still on its way is late. *)
Tick ==
  /\ phase = "open" /\ rolled /\ made
  /\ Len(reports) <= 1
  /\ late' = (IF reports # <<>> THEN late + 1 ELSE late) /\ late' <= MaxLate
  /\ since' = since + 1
  /\ phase' = "write"
  /\ UNCHANGED <<path, est, rx, rxSeen, short, totals, bytes, busy, rolled, queue, arrived, reports, made, windows, hot>>

-----------------------------------------------------------------------------
Next == Write \/ Roll \/ Deliver \/ Received \/ Tick
Spec == Init /\ [][Next]_vars

-----------------------------------------------------------------------------
(* A path that carries everything within a second is never taken for a     *)
(* slow one, whatever bursts and pauses it carries and although the        *)
(* viewer's count trails by a window ("every ramp-up looks like a          *)
(* bottleneck", roll).  It needs every report within its second: a single  *)
(* late one leaves the same backlog standing for the windows in between.   *)
HealthyPathIsNeverCut == path.kind = "healthy" => est' >= est

(* Writes that never block do not hide an overload: on a path that         *)
(* swallows everything the estimate does not stay a third over what it     *)
(* carries for more than NoticeWithin windows of full use ("the signal     *)
(* that does not depend on backpressure reaching us", roll).               *)
OverloadIsNoticed == hot <= NoticeWithin

(* The estimate follows the path, down and not only down (roll). *)
EstimateIsFair == [][HealthyPathIsNeverCut /\ OverloadIsNoticed']_vars

=============================================================================
