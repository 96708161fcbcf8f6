-------------------------- MODULE RecordsProofs ---------------------------
(***************************************************************************)
(* What holds of the records the hub keeps.  A schedule is run once for a  *)
(* time its cron expression names, for any hosts, schedules, expressions   *)
(* and times.  Changes to the accounts and the tokens are kept, for any    *)
(* names, passwords, handlers and number of draws and resets.  What is     *)
(* answered of operations was earned and is on the trail, for any number   *)
(* of requests to two hosts.  What two processes of the command-line       *)
(* client say is true, and so is a list of what is on the network.  The    *)
(* hub is only ever updated to a newer build.  The settings in force are   *)
(* what the layers of policies say, and are on disk; and what is shown of  *)
(* the past is what was measured.                                          *)
(***************************************************************************)
EXTENDS MCHubRecords, Sequences, TLAPS, FiniteSetTheorems, WellFoundedInduction

-----------------------------------------------------------------------------
(* Scheduled scripts (Schedules). *)

Rows == [id : Jobs, script : Scripts, target : Targets, cron : Crons, enabled : BOOLEAN, last : 0..MaxTime]
Firings == [at : 0..MaxTime, cron : Crons, prev : 0..MaxTime, before : 0..MaxTime]

(* The clock and the tables, what the loop holds of them, the firings. *)
Shape ==
  /\ now \in 1..MaxTime /\ rung \in BOOLEAN /\ online \subseteq Hosts /\ stops \in 0..MaxStops
  /\ scripts \subseteq Scripts /\ deleting \subseteq Scripts /\ schedules \subseteq Rows
  /\ at \in 0..MaxTime /\ rows \subseteq Rows /\ job \in Rows \cup {NoRow} /\ marked \in BOOLEAN
  /\ fired \in [Jobs -> Firings \cup {Unfired}]

(* An id names one schedule for good: one row of the table, one of the     *)
(* list, and when that one is taken off the list, none.  Only an id that   *)
(* was drawn has fired.                                                    *)
OneRowPerId ==
  /\ \A r, s \in schedules : r.id = s.id => r = s
  /\ \A r, s \in rows : r.id = s.id => r = s
  /\ job # NoRow => job.id \in drawn /\ \A r \in rows : r.id # job.id
  /\ \A r \in schedules \cup rows : r.id \in drawn
  /\ \A j \in Jobs \ drawn : fired[j] = Unfired

(* The mark is ahead of the run: wherever a row is found, in the table or  *)
(* in the hands of the loop, it is marked with its last firing or a later  *)
(* one.  A row that is about to run is due, and its mark is written first. *)
MarkLeads ==
  /\ \A r \in schedules \cup rows : fired[r.id].at <= r.last
  /\ job # NoRow => /\ at # 0 /\ Due(job) /\ fired[job.id].at <= job.last
                    /\ marked => \A r \in schedules : r.id = job.id => r.last = at
  /\ marked => job # NoRow

IInv == Shape /\ OneRowPerId /\ MarkLeads /\ OncePerTime

(* One firing of a schedule is after the other (scheduler.go: fireDue      *)
(* marks with the time the loop woke at, which is the firing's).           *)
FiringsGoForward == \A j \in Jobs : fired'[j] # fired[j] => fired[j].at < fired'[j].at

Safely == IInv' /\ FiringsGoForward
-----------------------------------------------------------------------------
(* A row that is due has a time since its last firing and up to now. *)
LEMMA DueIsAfterLast ==
  ASSUME SchedulesAssumption, Shape, NEW r \in Rows, Due(r)
  PROVE  /\ Since(r) \in 0..MaxTime
         /\ \E o \in r.cron : o \in 1..MaxTime /\ Since(r) < o /\ o <= at /\ r.last < o
<1>1. r.last \in 0..MaxTime /\ r.cron \subseteq 1..MaxTime /\ at \in 0..MaxTime /\ MaxTime \in Nat
  BY DEF SchedulesAssumption, Rows, Shape
<1>2. Since(r) \in 0..MaxTime
  BY <1>1 DEF Since, Never, Minute
<1>3. PICK o \in r.cron : Since(r) < o /\ o <= at
  BY DEF Due
<1>4. o \in 1..MaxTime /\ r.last < o
  BY <1>1, <1>3 DEF Since, Never
<1> QED
  BY <1>2, <1>3, <1>4

(* What touches neither the rows, nor what the loop holds, nor a firing. *)
LEMMA Elsewhere ==
  ASSUME IInv, UNCHANGED <<schedules, drawn, loop, fired>>,
         now' \in 1..MaxTime, rung' \in BOOLEAN, online' \subseteq Hosts, stops' \in 0..MaxStops,
         scripts' \subseteq Scripts, deleting' \subseteq Scripts
  PROVE  Safely
<1>1. Shape'
  BY DEF IInv, Shape, loop
<1>2. OneRowPerId' /\ MarkLeads' /\ OncePerTime' /\ FiringsGoForward
  BY DEF IInv, OneRowPerId, MarkLeads, OncePerTime, FiringsGoForward, loop, Due, Since
<1> QED
  BY <1>1, <1>2 DEF Safely, IInv

(* Rows are deleted. *)
LEMMA RowsGo ==
  ASSUME IInv, UNCHANGED <<drawn, loop, fired, now, rung, online, stops, scripts>>,
         deleting' \subseteq Scripts, schedules' \subseteq schedules
  PROVE  Safely
<1>1. Shape'
  BY DEF IInv, Shape, loop
<1>2. OneRowPerId' /\ MarkLeads' /\ OncePerTime' /\ FiringsGoForward
  BY DEF IInv, OneRowPerId, MarkLeads, OncePerTime, FiringsGoForward, loop, Due, Since
<1> QED
  BY <1>1, <1>2 DEF Safely, IInv

LEMMA SaveScheduleStep ==
  ASSUME SchedulesAssumption, IInv,
         NEW j \in Jobs, NEW s \in Scripts, NEW t \in Targets, NEW c \in Crons, NEW e \in BOOLEAN,
         SaveSchedule(j, s, t, c, e)
  PROVE  Safely
<1>1. PICK was \in 0..MaxTime :
        /\ \/ j \notin drawn /\ was = 0 /\ schedules' = schedules \cup {Row(j, s, t, c, e, was)}
           \/ \E r \in schedules : /\ r.id = j /\ was = r.last
                                   /\ schedules' = (schedules \ {r}) \cup {Row(j, s, t, c, e, was)}
  BY DEF SaveSchedule, IInv, Shape, Rows, Never, SchedulesAssumption
<1> DEFINE new == Row(j, s, t, c, e, was)
<1>2. new \in Rows /\ new.id = j /\ new.last = was
  BY DEF Row, Rows
<1>3. drawn' = drawn \cup {j} /\ UNCHANGED <<loop, fired, now, rung, online, stops, scripts, deleting>>
  BY DEF SaveSchedule
<1>4. \A r \in schedules' : r = new \/ (r \in schedules /\ r.id # j)
  <2> HIDE DEF new
  <2>0. (\A r \in schedules : r.id \in drawn) /\ \A r, x \in schedules : r.id = x.id => r = x
    BY DEF IInv, OneRowPerId
  <2>1. CASE j \notin drawn /\ schedules' = schedules \cup {new}
    BY <2>0, <2>1
  <2>2. ASSUME NEW r \in schedules, r.id = j, schedules' = (schedules \ {r}) \cup {new}
        PROVE  \A x \in schedules' : x = new \/ (x \in schedules /\ x.id # j)
    BY <2>0, <2>2
  <2> QED
    BY <1>1, <2>1, <2>2 DEF new
<1>5. fired[j].at <= was
  BY <1>1 DEF IInv, Shape, OneRowPerId, MarkLeads, Unfired, Never
<1>6. job # NoRow /\ marked /\ j = job.id => was = at
  BY <1>1 DEF IInv, OneRowPerId, MarkLeads
<1>7. Shape'
  BY <1>2, <1>3, <1>4 DEF IInv, Shape, loop
<1>8. OneRowPerId'
  BY <1>2, <1>3, <1>4 DEF IInv, OneRowPerId, loop
<1>9. MarkLeads'
  BY <1>2, <1>3, <1>4, <1>5, <1>6 DEF IInv, MarkLeads, loop, Due, Since
<1> QED
  BY <1>3, <1>7, <1>8, <1>9 DEF Safely, IInv, OncePerTime, FiringsGoForward

LEMMA WakeStep == ASSUME SchedulesAssumption, IInv, Wake PROVE Safely
<1>1. job = NoRow /\ ~marked /\ job' = job /\ marked' = marked
  BY DEF Wake, IInv, Shape, MarkLeads
<1>2. at' = now /\ rows' \subseteq schedules /\ rung' = FALSE
      /\ UNCHANGED <<now, online, table, fired, stops>>
  BY DEF Wake
<1>3. Shape'
  <2>1. at' \in 0..MaxTime
    BY <1>2 DEF IInv, Shape, SchedulesAssumption
  <2>2. rung' \in BOOLEAN /\ marked' \in BOOLEAN /\ job' \in Rows \cup {NoRow}
    BY <1>1, <1>2 DEF IInv, Shape
  <2> QED
    BY <1>2, <2>1, <2>2 DEF IInv, Shape, table
<1>4. OneRowPerId' /\ MarkLeads' /\ OncePerTime' /\ FiringsGoForward
  BY <1>1, <1>2 DEF IInv, OneRowPerId, MarkLeads, OncePerTime, FiringsGoForward, table
<1> QED
  BY <1>3, <1>4 DEF Safely, IInv

LEMMA LookStep == ASSUME IInv, NEW r \in rows, Look(r) PROVE Safely
<1>1. job = NoRow /\ marked' = marked /\ at' = at /\ at # 0 /\ rows' = rows \ {r}
      /\ UNCHANGED <<now, rung, online, table, fired, stops>>
  BY DEF Look
<1>2. job' = NoRow \/ (job' = r /\ Due(r))
  BY Zenon DEF Look
<1>3. ~marked
  BY <1>1 DEF IInv, MarkLeads
<1>4. r \in Rows
  BY DEF IInv, Shape
<1>5. Shape'
  BY <1>1, <1>4, <1>2 DEF IInv, Shape, table
<1>6. OneRowPerId'
  BY <1>1, <1>2 DEF IInv, OneRowPerId, table
<1>7. MarkLeads'
  BY <1>3, <1>1, <1>2 DEF IInv, MarkLeads, table, Due, Since
<1> QED
  BY <1>1, <1>5, <1>6, <1>7 DEF Safely, IInv, OncePerTime, FiringsGoForward

LEMMA MarkStep == ASSUME SchedulesAssumption, IInv, Mark PROVE Safely
<1>1. job # NoRow /\ job \in Rows /\ Due(job) /\ ~marked /\ marked' = TRUE
      /\ UNCHANGED <<now, rung, online, scripts, drawn, deleting, at, rows, job, running, recorded, fired, stops>>
  BY DEF Mark, IInv, Shape, MarkLeads
<1>2. fired[job.id].at <= at
  <2>1. PICK o \in job.cron : o \in 1..MaxTime /\ o <= at /\ job.last < o
    BY <1>1, DueIsAfterLast DEF IInv
  <2>2. fired[job.id].at <= job.last /\ fired[job.id].at \in 0..MaxTime /\ job.last \in 0..MaxTime
    BY <1>1 DEF IInv, MarkLeads, Shape, Rows, Firings, Unfired, Never, SchedulesAssumption
  <2> QED
    BY <2>1, <2>2 DEF IInv, Shape, SchedulesAssumption
<1>3. \A x \in schedules' : \E r \in schedules :
         /\ x \in Rows /\ x.id = r.id
         /\ r.id = job.id => x.last = at
         /\ r.id # job.id => x = r
         /\ x = IF r.id = job.id THEN [r EXCEPT !.last = at] ELSE r
  <2> SUFFICES ASSUME NEW r \in schedules,
                      NEW x, x = IF r.id = job.id THEN [r EXCEPT !.last = at] ELSE r
               PROVE  /\ x \in Rows /\ x.id = r.id
                      /\ r.id = job.id => x.last = at
                      /\ r.id # job.id => x = r
    BY DEF Mark
  <2>1. r \in Rows /\ at \in 0..MaxTime
    BY DEF IInv, Shape
  <2> QED
    BY <2>1 DEF Rows
<1>4. Shape'
  BY <1>1, <1>3 DEF IInv, Shape
<1>5. OneRowPerId'
  <2>1. \A r, s \in schedules' : r.id = s.id => r = s
    BY <1>3 DEF IInv, OneRowPerId
  <2>2. \A r \in schedules' : r.id \in drawn
    BY <1>3 DEF IInv, OneRowPerId
  <2> QED
    BY <1>1, <2>1, <2>2 DEF IInv, OneRowPerId
<1>6. MarkLeads'
  <2>1. \A r \in schedules' : fired[r.id].at <= r.last /\ (r.id = job.id => r.last = at)
    BY <1>2, <1>3 DEF IInv, MarkLeads
  <2> QED
    BY <1>1, <2>1 DEF IInv, MarkLeads, Due, Since
<1> QED
  BY <1>1, <1>4, <1>5, <1>6 DEF Safely, IInv, OncePerTime, FiringsGoForward

LEMMA LaunchStep == ASSUME SchedulesAssumption, IInv, Launch PROVE Safely
<1> DEFINE f == [at |-> at, cron |-> job.cron, prev |-> Since(job), before |-> fired[job.id].at]
<1>1. job # NoRow /\ job \in Rows /\ Due(job) /\ marked /\ job' = NoRow /\ marked' = FALSE
      /\ fired' = [fired EXCEPT ![job.id] = f]
      /\ UNCHANGED <<now, rung, online, table, at, rows, recorded, stops>>
  BY DEF Launch, IInv, Shape, MarkLeads
<1>2. fired[job.id].at <= job.last /\ fired[job.id].at \in 0..MaxTime /\ job.last \in 0..MaxTime
      /\ job.id \in Jobs /\ at \in 0..MaxTime /\ job.cron \in Crons
  BY <1>1 DEF IInv, MarkLeads, Shape, Rows, Firings, Unfired, Never, SchedulesAssumption
<1>3. PICK o \in job.cron : o \in 1..MaxTime /\ Since(job) < o /\ o <= at /\ job.last < o
  BY <1>1, DueIsAfterLast DEF IInv
<1>4. Since(job) \in 0..MaxTime
  BY <1>1, DueIsAfterLast DEF IInv
<1>5. fired[job.id].at < o /\ fired[job.id].at < at
  BY <1>2, <1>3 DEF SchedulesAssumption
<1>6. f \in Firings
  BY <1>2, <1>4 DEF Firings
<1>7. fired'[job.id] = f /\ \A j \in Jobs \ {job.id} : fired'[j] = fired[j]
  BY <1>1, <1>2 DEF IInv, Shape
<1>8. Shape'
  BY <1>1, <1>2, <1>6 DEF IInv, Shape, table
<1>9. OneRowPerId'
  BY <1>1, <1>7 DEF IInv, OneRowPerId, table
<1>10. MarkLeads'
  <2>1. \A r \in schedules : fired'[r.id].at <= r.last
    BY <1>1, <1>2, <1>7 DEF IInv, Shape, Rows, MarkLeads
  <2>2. \A r \in rows : fired'[r.id].at <= r.last
    BY <1>1, <1>7 DEF IInv, Shape, Rows, MarkLeads, OneRowPerId
  <2> QED
    BY <1>1, <2>1, <2>2 DEF MarkLeads, table
<1>11. OncePerTime'
  BY <1>3, <1>5, <1>7 DEF IInv, OncePerTime
<1>12. FiringsGoForward
  BY <1>5, <1>7 DEF FiringsGoForward
<1> QED
  BY <1>8, <1>9, <1>10, <1>11, <1>12 DEF Safely, IInv

(* The loop lets go of what it holds: it sleeps, or the hub stops. *)
LEMMA LetGo ==
  ASSUME SchedulesAssumption, IInv, job' = NoRow, marked' = FALSE, at' = 0, rows' = {}, stops' \in 0..MaxStops,
         rung' \in BOOLEAN, deleting' \subseteq Scripts, UNCHANGED <<now, online, scripts, schedules, drawn, fired>>
  PROVE  Safely
<1>1. Shape'
  <2>1. now' \in 1..MaxTime /\ at' \in 0..MaxTime
    BY DEF IInv, Shape, SchedulesAssumption
  <2>2. marked' \in BOOLEAN /\ job' \in Rows \cup {NoRow}
    OBVIOUS
  <2> QED
    BY <2>1, <2>2 DEF IInv, Shape
<1>2. OneRowPerId' /\ MarkLeads' /\ OncePerTime' /\ FiringsGoForward
  BY DEF IInv, OneRowPerId, MarkLeads, OncePerTime, FiringsGoForward
<1> QED
  BY <1>1, <1>2 DEF Safely, IInv

LEMMA InitIsSound == ASSUME SchedulesAssumption, Init PROVE IInv
<1>1. Shape
  <2>1. now \in 1..MaxTime /\ at \in 0..MaxTime /\ stops \in 0..MaxStops
    BY DEF Init, SchedulesAssumption
  <2>2. rung \in BOOLEAN /\ marked \in BOOLEAN /\ job \in Rows \cup {NoRow}
    BY DEF Init
  <2>3. online \subseteq Hosts /\ scripts \subseteq Scripts /\ deleting \subseteq Scripts
        /\ schedules \subseteq Rows /\ rows \subseteq Rows
    BY DEF Init
  <2>4. fired \in [Jobs -> Firings \cup {Unfired}]
    BY DEF Init
  <2> QED
    BY <2>1, <2>2, <2>3, <2>4 DEF Shape
<1>2. OneRowPerId /\ MarkLeads /\ OncePerTime
  BY DEF Init, OneRowPerId, MarkLeads, OncePerTime
<1> QED
  BY <1>1, <1>2 DEF IInv

LEMMA StepIsSound == ASSUME SchedulesAssumption, IInv, [Next]_vars PROVE Safely
<1> USE SchedulesAssumption
<1>0. Shape
  BY DEF IInv
<1>1. ASSUME NEW j \in Jobs, NEW s \in Scripts, NEW t \in Targets, NEW c \in Crons, NEW e \in BOOLEAN,
             SaveSchedule(j, s, t, c, e)
      PROVE  Safely
  BY <1>1, SaveScheduleStep
<1>2. ASSUME NEW j \in Jobs, DeleteSchedule(j) PROVE Safely
  BY <1>0, <1>2, RowsGo DEF DeleteSchedule, Shape
<1>3. ASSUME NEW s \in Scripts, DeleteScript(s) PROVE Safely
  BY <1>0, <1>3, Elsewhere DEF DeleteScript, Shape
<1>4. ASSUME NEW s \in Scripts, DeleteItsSchedules(s) PROVE Safely
  BY <1>0, <1>4, RowsGo DEF DeleteItsSchedules, Shape
<1>5. ASSUME NEW s \in Scripts, NEW t \in Targets, RunNow(s, t) PROVE Safely
  BY <1>0, <1>5, Elsewhere DEF RunNow, Shape, table
<1>6. CASE Advance
  BY <1>0, <1>6, Elsewhere DEF Advance, Shape, table, SchedulesAssumption, Minute
<1>7. CASE Wake
  BY <1>7, WakeStep
<1>8. ASSUME NEW r \in rows, Look(r) PROVE Safely
  BY <1>8, LookStep
<1>9. CASE Mark
  BY <1>9, MarkStep
<1>10. CASE Launch
  BY <1>10, LaunchStep
<1>11. CASE Sleep
  <2>1. ~marked
    BY <1>11 DEF Sleep, IInv, MarkLeads
  <2> QED
    BY <1>0, <1>11, <2>1, LetGo DEF Sleep, Shape, table
<1>12. CASE Stop
  <2>1. stops' \in 0..MaxStops
    BY <1>0, <1>12 DEF Stop, Shape, SchedulesAssumption
  <2>2. rung' \in BOOLEAN /\ deleting' \subseteq Scripts
    BY <1>12 DEF Stop
  <2> QED
    BY <1>12, <2>1, <2>2, LetGo DEF Stop
<1>13. ASSUME NEW run \in running, RunEnds(run) PROVE Safely
  BY <1>0, <1>13, Elsewhere DEF RunEnds, Shape, table
<1>14. ASSUME NEW h \in Hosts, Toggle(h) PROVE Safely
  BY <1>0, <1>14, Elsewhere DEF Toggle, Shape, table
<1>15. CASE UNCHANGED vars
  BY <1>0, <1>15, Elsewhere DEF vars, Shape, table
<1> QED
  BY <1>1, <1>2, <1>3, <1>4, <1>5, <1>6, <1>7, <1>8, <1>9, <1>10, <1>11, <1>12, <1>13, <1>14, <1>15
     DEF Next, LoopStep

LEMMA Inductive == ASSUME SchedulesAssumption PROVE Spec => []IInv
<1>1. Init => IInv
  BY InitIsSound
<1>2. IInv /\ [Next]_vars => IInv'
  BY StepIsSound DEF Safely
<1> QED
  BY <1>1, <1>2, PTL DEF Spec

-----------------------------------------------------------------------------
(* The clock, the tables and the loop have the values they are meant to    *)
(* have (scheduler.go, scripts.go).                                        *)
THEOREM ScheduleTypes == ASSUME SchedulesAssumption PROVE Spec => []TypeOK
<1>1. IInv => TypeOK
  BY DEF IInv, Shape, TypeOK, Rows
<1> QED
  BY <1>1, Inductive, PTL

(* No schedule is run twice for a time its cron names, and none for a time *)
(* before the minute it was first seen in (scheduler.go: fireDue).         *)
THEOREM NoTimeIsRunTwice == ASSUME SchedulesAssumption PROVE Spec => []OncePerTime
<1>1. IInv => OncePerTime
  BY DEF IInv
<1> QED
  BY <1>1, Inductive, PTL

(* The firings of a schedule follow each other in time, whatever restarts  *)
(* and edits come between (scheduler.go: fireDue).                         *)
THEOREM FiringsFollow == ASSUME SchedulesAssumption PROVE Spec => [][FiringsGoForward]_vars
<1>1. IInv /\ [Next]_vars => [FiringsGoForward]_vars
  BY StepIsSound DEF Safely
<1> QED
  BY <1>1, Inductive, PTL DEF Spec

-----------------------------------------------------------------------------
(* The accounts and the tokens (Accounts). *)

Contents == [Names -> Passwords \cup {None}]
TwoTokens == [admin : Nat \ {0}, enroll : Nat \ {0}]

(* While the programs kept apart, whoever works on a copy of the file      *)
(* works on what is in it, and what it holds is what was answered. *)
Apart ==
  /\ file \in Contents /\ due \in Contents
  /\ work \in [A!Procs -> {A!Idle}
                 \cup [pc : {"setup"}, name : Names, pw : Passwords]
                 \cup [pc : {"loaded"}, copy : Contents, name : Names, pw : Passwords \cup {None}]]
  /\ \A q \in Handlers : A!Loaded(q) => holder = q
  /\ reset # 0 => ~A!Working("cli")
  /\ ~overlap =>
       /\ file = due
       /\ \A p \in A!Procs : A!Loaded(p) => work[p].copy = file
       /\ \A q \in Handlers : A!Loaded(q) => ~A!Loaded("cli") /\ reset = 0

(* What a hub would start with is told by one file, but for a reset that   *)
(* is under way or was cut short.                                          *)
OneSource ==
  /\ draws \in Nat /\ reset \in 0 .. 2
  /\ config \in {A!NoTokens} \cup TwoTokens /\ envFile \in {A!NoTokens} \cup TwoTokens
  /\ reset # 0 => config # A!NoTokens
  /\ reset = 2 => envFile \in {A!NoTokens, config}
  /\ reset = 0 /\ ~cut => config = A!NoTokens \/ envFile \in {A!NoTokens, config}

LEMMA AccountsStart == ASSUME A!AccountsAssumption, A!Init PROVE Apart /\ OneSource
<1>1. Apart
  BY DEF A!Init, Apart, Contents, A!Nobody, A!Loaded, A!Working, A!Idle, A!Procs
<1>2. OneSource
  BY DEF A!Init, OneSource, A!NoTokens, TwoTokens
<1> QED BY <1>1, <1>2

(* Whoever loads the file has a copy of it, and the programs have met if   *)
(* the other is at it. *)
LEMMA LoadStep ==
  ASSUME A!AccountsAssumption, Apart, NEW p \in A!Procs, NEW n \in Names, NEW pw \in Passwords \cup {None},
         A!Lock(p), work' = [work EXCEPT ![p] = [pc |-> "loaded", copy |-> file, name |-> n, pw |-> pw]],
         overlap' = (overlap \/ A!Elsewhere(p)), UNCHANGED <<file, due, reset>>,
         p = "cli" => reset = 0
  PROVE  Apart'
<1> USE DEF A!Loaded, A!Working, A!Cli
<1>1. work[p] \in {A!Idle} \cup [pc : {"setup"}, name : Names, pw : Passwords]
                 \cup [pc : {"loaded"}, copy : Contents, name : Names, pw : Passwords \cup {None}]
  BY DEF Apart
<1>2. /\ work' \in [A!Procs -> {A!Idle}
                 \cup [pc : {"setup"}, name : Names, pw : Passwords]
                 \cup [pc : {"loaded"}, copy : Contents, name : Names, pw : Passwords \cup {None}]]
      /\ \A r \in A!Procs \ {p} : work'[r] = work[r]
      /\ work'[p].pc = "loaded" /\ work'[p].copy = file
  BY DEF Apart
<1>3. \A q \in Handlers : A!Loaded(q)' => holder' = q
  BY <1>2 DEF Apart, A!Lock, A!Procs, A!AccountsAssumption
<1>4. \A q \in Handlers : p # "cli" /\ q # p => ~A!Loaded(q)
  BY DEF Apart, A!Lock, A!AccountsAssumption
<1>5. reset' # 0 => ~A!Working("cli")'
  BY <1>2 DEF Apart, A!Procs
<1>6. ASSUME ~overlap' PROVE \A q \in Handlers : A!Loaded(q)' => ~A!Loaded("cli")' /\ reset' = 0
  <2>1. CASE p = "cli"
    <3>1. \A q \in Handlers : ~A!Loaded(q) /\ q \in A!Procs \ {p}
      BY <1>6, <2>1 DEF A!Elsewhere, A!Procs, A!AccountsAssumption
    <3> QED BY <1>2, <3>1
  <2>2. CASE p # "cli"
    <3>1. ~A!Loaded("cli") /\ reset = 0 /\ "cli" \in A!Procs \ {p}
      BY <1>6, <2>2 DEF A!Elsewhere, A!Procs
    <3> QED BY <1>2, <3>1
  <2> QED BY <2>1, <2>2
<1> QED BY <1>2, <1>3, <1>5, <1>6 DEF Apart

LEMMA FileStep == ASSUME A!AccountsAssumption, Apart, [A!Next]_(A!vars) PROVE Apart'
<1> USE DEF Apart, A!Loaded, A!Working, A!Cli
<1>1. ASSUME NEW p \in A!Procs, NEW n \in Names, NEW pw \in Passwords \cup {None}, A!Load(p, n, pw) PROVE Apart'
  BY <1>1, LoadStep DEF A!Load, A!tokens
<1>2. ASSUME NEW q \in Handlers, NEW n \in Names, NEW pw \in Passwords, A!Setup(q, n, pw) PROVE Apart'
  BY <1>2 DEF A!Setup, A!tokens, A!Procs, A!AccountsAssumption
<1>3. ASSUME NEW p \in A!Procs, A!Save(p) PROVE Apart'
  <2>1. work[p] \in [pc : {"loaded"}, copy : Contents, name : Names, pw : Passwords \cup {None}]
    BY <1>3 DEF A!Save, A!Idle
  <2>2. file' \in Contents /\ due' \in Contents
    BY <1>3, <2>1 DEF A!Save, A!Changed, Contents
  <2>3. /\ work' = [work EXCEPT ![p] = A!Idle]
        /\ \A r \in A!Procs : A!Loaded(r)' => r # p /\ work'[r] = work[r] /\ A!Loaded(r)
        /\ UNCHANGED <<overlap, reset>>
    BY <1>3 DEF A!Save, A!tokens, A!Idle
  <2>4. \A q \in Handlers : A!Loaded(q)' => holder' = q
    BY <1>3, <2>3 DEF A!Save, A!Unlock, A!Procs
  <2>5. reset' # 0 => ~A!Working("cli")'
    BY <2>3 DEF A!Idle, A!Procs
  <2>6. ASSUME ~overlap PROVE file' = due'
    <3>1. work[p].copy = file /\ file = due
      BY <1>3, <2>6 DEF A!Save
    <3>2. CASE A!Missing(work[p])
      <4>1. due' = due
        BY <1>3, <2>1, <3>1, <3>2 DEF A!Save, A!Missing, Contents
      <4> QED BY <1>3, <3>1, <3>2, <4>1 DEF A!Save
    <3>3. CASE ~A!Missing(work[p])
      BY <1>3, <3>1, <3>3 DEF A!Save, A!Changed
    <3> QED BY <3>2, <3>3
  <2>7. ASSUME ~overlap, NEW r \in A!Procs, A!Loaded(r)' PROVE FALSE
    <3>1. A!Loaded(p) /\ A!Loaded(r) /\ r # p
      BY <1>3, <2>3, <2>7 DEF A!Save
    <3> QED BY <2>7, <3>1 DEF A!Procs
  <2>8. work' \in [A!Procs -> {A!Idle}
                 \cup [pc : {"setup"}, name : Names, pw : Passwords]
                 \cup [pc : {"loaded"}, copy : Contents, name : Names, pw : Passwords \cup {None}]]
    BY <2>3
  <2> QED BY <2>2, <2>3, <2>4, <2>5, <2>6, <2>7, <2>8, <1>3 DEF A!Procs, A!Save
<1>4. ASSUME NEW q \in Handlers, A!SetupLoads(q) PROVE Apart'
  <2>1. q \in A!Procs /\ q # "cli" /\ work[q] \in [pc : {"setup"}, name : Names, pw : Passwords]
    BY <1>4 DEF A!SetupLoads, A!Procs, A!AccountsAssumption, A!Idle
  <2> QED BY <1>4, <2>1, LoadStep DEF A!SetupLoads, A!tokens
<1>5. CASE A!Start
  BY <1>5 DEF A!Start, A!accounts
<1>6. CASE A!Stop
  <2>1. /\ work' = [p \in A!Procs |-> IF p = "cli" THEN work[p] ELSE A!Idle]
        /\ UNCHANGED <<file, overlap, due, reset>>
    BY <1>6 DEF A!Stop
  <2>2. \A q \in Handlers : q \in A!Procs /\ q # "cli" /\ ~A!Loaded(q)'
    BY <2>1 DEF A!Procs, A!Idle, A!AccountsAssumption
  <2>3. "cli" \in A!Procs /\ work'["cli"] = work["cli"]
    BY <2>1 DEF A!Procs
  <2>4. \A p \in A!Procs : A!Loaded(p)' => p = "cli"
    BY <2>2 DEF A!Procs
  <2>5. work' \in [A!Procs -> {A!Idle}
                 \cup [pc : {"setup"}, name : Names, pw : Passwords]
                 \cup [pc : {"loaded"}, copy : Contents, name : Names, pw : Passwords \cup {None}]]
    BY <2>1
  <2> QED BY <2>1, <2>2, <2>3, <2>4, <2>5
<1>7. CASE A!ResetConfig
  BY <1>7 DEF A!ResetConfig, A!Elsewhere, A!Procs
<1>8. CASE A!ResetEnv \/ A!ResetDies
  BY <1>8 DEF A!ResetEnv, A!ResetDies, A!accounts
<1>9. CASE A!ResetAccounts
  BY <1>9 DEF A!ResetAccounts, A!Nobody, Contents, A!Procs
<1>10. CASE UNCHANGED A!vars
  BY <1>10 DEF A!vars, A!accounts, A!tokens
<1> QED BY <1>1, <1>2, <1>3, <1>4, <1>5, <1>6, <1>7, <1>8, <1>9, <1>10 DEF A!Next

LEMMA TokenStep ==
  ASSUME A!AccountsAssumption, OneSource, [A!Next]_(A!vars)
  PROVE  OneSource' /\ (A!Next => A!ResetTakesHold)
<1> USE DEF A!Up, A!Drawn, A!Either
<1> DEFINE Sound == OneSource' /\ (A!Next => A!ResetTakesHold)
<1>1. ASSUME UNCHANGED <<config, envFile, reset, cut, draws>>, UNCHANGED hub \/ hub' = A!NoTokens PROVE Sound
  BY <1>1 DEF OneSource, A!ResetTakesHold
<1>2. CASE A!Start
  <2> DEFINE merged == [k \in {"admin", "enroll"} |-> A!Either(envFile[k], config[k])]
  <2>1. /\ hub' = [k \in {"admin", "enroll"} |-> A!Either(merged[k], A!Drawn[k])]
        /\ \/ 0 \in {merged.admin, merged.enroll} /\ config' = hub' /\ draws' = draws + 2
           \/ 0 \notin {merged.admin, merged.enroll} /\ UNCHANGED <<config, draws>>
        /\ UNCHANGED <<envFile, reset, cut>>
    BY <1>2 DEF A!Start
  <2>2. A!Drawn \in TwoTokens /\ A!Drawn # A!NoTokens /\ draws + 2 \in Nat
    BY DEF OneSource, TwoTokens, A!NoTokens
  <2>3. CASE envFile # A!NoTokens
    <3>1. envFile \in TwoTokens
      BY <2>3 DEF OneSource
    <3>2. merged = envFile /\ 0 \notin {merged.admin, merged.enroll} /\ hub' = envFile
      BY <2>1, <3>1 DEF TwoTokens
    <3> QED BY <2>1, <2>3, <3>2 DEF OneSource, A!ResetTakesHold
  <2>4. CASE envFile = A!NoTokens /\ config # A!NoTokens
    <3>1. config \in TwoTokens
      BY <2>4 DEF OneSource
    <3>2. merged = config /\ 0 \notin {merged.admin, merged.enroll} /\ hub' = config
      BY <2>1, <2>4, <3>1 DEF TwoTokens, A!NoTokens
    <3> QED BY <2>1, <2>4, <3>2 DEF OneSource, A!ResetTakesHold
  <2>5. CASE envFile = A!NoTokens /\ config = A!NoTokens
    <3>1. merged = A!NoTokens /\ 0 \in {merged.admin, merged.enroll} /\ hub' = A!Drawn
      BY <2>1, <2>5 DEF A!NoTokens
    <3> QED BY <2>1, <2>2, <2>5, <3>1 DEF OneSource, A!ResetTakesHold
  <2> QED BY <2>3, <2>4, <2>5
<1>3. CASE A!ResetConfig
  <2>1. A!Drawn \in TwoTokens /\ A!Drawn # A!NoTokens
    BY DEF OneSource, TwoTokens, A!NoTokens
  <2> QED BY <1>3, <2>1 DEF A!ResetConfig, OneSource, A!ResetTakesHold
<1>4. CASE A!ResetEnv
  BY <1>4 DEF A!ResetEnv, OneSource, A!ResetTakesHold
<1>5. CASE A!ResetAccounts
  BY <1>5 DEF A!ResetAccounts, OneSource, A!ResetTakesHold
<1>6. CASE A!ResetDies
  BY <1>6 DEF A!ResetDies, OneSource, A!ResetTakesHold
<1> QED
  BY <1>1, <1>2, <1>3, <1>4, <1>5, <1>6
     DEF A!Next, A!Load, A!Setup, A!Save, A!SetupLoads, A!Stop, A!vars, A!accounts, A!tokens

(* Whatever the hub's handlers and the administrator's command do to the   *)
(* accounts and tokens, and whenever the hub stops, what was answered is   *)
(* what a hub runs with from then on, unless the two programs were at the  *)
(* accounts at once or a reset died half-way (adminstore.Store,            *)
(* resolveConfig, runResetCmd). *)
THEOREM ChangesAreKept == ASSUME A!AccountsAssumption PROVE A!Spec => AnsweredIsKept
<1>1. A!Init => Apart /\ OneSource
  BY AccountsStart
<1>2. Apart /\ OneSource /\ [A!Next]_(A!vars) => (Apart /\ OneSource)'
  BY FileStep, TokenStep
<1>3. Apart' /\ OneSource /\ [A!Next]_(A!vars) => [A!NothingForgotten' /\ A!ResetTakesHold]_(A!vars)
  <2>1. Apart' => A!NothingForgotten'
    BY DEF Apart, A!NothingForgotten
  <2> QED BY <2>1, TokenStep
<1> QED BY <1>1, <1>2, <1>3, PTL DEF A!Spec, AnsweredIsKept, A!AnsweredIsKept

-----------------------------------------------------------------------------
(* Operations on one machine and on a fleet (HostOperations). *)

Fleet == {h1, h2}
Stages == {"checked", "running", "waking", "answered", "cut short"}
Kinds == O!Single \cup O!FleetActs \cup {"wake"}
Asked == [pc : Stages, act : Kinds, fleet : BOOLEAN, of : SUBSET Fleet, todo : SUBSET Fleet]

OperationTypes ==
  /\ attached \in [Fleet -> SUBSET O!Roles]
  /\ req \in [Requests -> {O!Idle} \cup Asked]
  /\ sent \in [Requests -> [Fleet -> O!Roles \cup {None}]]
  /\ came \in [Requests -> [Fleet -> {None} \cup [did : BOOLEAN, zero : BOOLEAN]]]
  /\ verdicts \in [Requests -> SUBSET [host : Fleet, ok : BOOLEAN]]

(* An answer in the making has one verdict for each host that is not to do. *)
Tally(q) ==
  /\ req[q].pc \in {"idle", "checked", "waking"} => verdicts[q] = {} /\ \A h \in Fleet : sent[q][h] = None
  /\ req[q].pc = "checked" => req[q].todo = req[q].of /\ req[q].act # "wake"
  /\ req[q].pc = "running" => req[q].act # "wake"
  /\ req[q].pc = "waking" => req[q].act = "wake" /\ \E h \in Fleet : req[q].of = {h}
  /\ req[q].pc \in {"checked", "running"} =>
       /\ {v.host : v \in verdicts[q]} = req[q].of \ req[q].todo /\ req[q].todo \subseteq req[q].of
       /\ Cardinality(verdicts[q]) + Cardinality(req[q].todo) = Cardinality(req[q].of)
  /\ req[q].pc = "answered" =>
       {v.host : v \in verdicts[q]} = req[q].of /\ Cardinality(verdicts[q]) = Cardinality(req[q].of)

(* What came of a command was commanded, its exit code tells what it did   *)
(* where one can tell, and a success is that of a command that ended.      *)
Earned(q) ==
  /\ \A h \in Fleet : came[q][h] # None =>
       /\ sent[q][h] # None
       /\ came[q][h].zero /\ O!Telling(q, h) => came[q][h].did
  /\ \A v \in verdicts[q] : v.ok /\ O!Telling(q, v.host) => came[q][v.host] # None /\ came[q][v.host].did

(* Nothing is commanded before it is on the trail. *)
Recorded(q) ==
  /\ req[q].pc = "running" /\ O!Audited(req[q]) => q \in trail
  /\ req[q] # O!Idle /\ O!Audited(req[q]) => \A h \in Fleet : sent[q][h] # None => q \in trail

OperationInv == OperationTypes /\ \A q \in Requests : Tally(q) /\ Earned(q) /\ Recorded(q)

LEMMA FleetIsFinite == \A s \in SUBSET Fleet : IsFiniteSet(s) /\ Cardinality(s) \in Nat
<1>1. IsFiniteSet({h1}) /\ IsFiniteSet({h1} \cup {h2}) /\ {h1} \cup {h2} = Fleet
  BY FS_Singleton, FS_AddElement DEF Fleet
<1> QED BY <1>1, FS_Subset, FS_CardinalityType

LEMMA VerdictsAreFinite ==
  ASSUME NEW vs \in SUBSET [host : Fleet, ok : BOOLEAN]
  PROVE  IsFiniteSet(vs) /\ Cardinality(vs) \in Nat
<1> DEFINE a == {[host |-> h1, ok |-> TRUE]}
           b == a \cup {[host |-> h1, ok |-> FALSE]}
           c == b \cup {[host |-> h2, ok |-> TRUE]}
           d == c \cup {[host |-> h2, ok |-> FALSE]}
<1>1. vs \subseteq d
  BY DEF Fleet
<1>2. IsFiniteSet(a)
  BY FS_Singleton
<1> HIDE DEF a
<1>3. IsFiniteSet(b)
  BY <1>2, FS_AddElement
<1> HIDE DEF b
<1>4. IsFiniteSet(c)
  BY <1>3, FS_AddElement
<1> HIDE DEF c
<1>5. IsFiniteSet(d)
  BY <1>4, FS_AddElement
<1> QED BY <1>1, <1>5, FS_Subset, FS_CardinalityType

LEMMA OperationStart == ASSUME O!Init PROVE OperationInv
BY DEF O!Init, OperationInv, OperationTypes, Tally, Earned, Recorded, Fleet, O!Nowhere, O!Roles, O!Idle

(* A request nothing happened to is as sound as it was. *)
LEMMA Bystander ==
  ASSUME OperationInv, NEW k \in Requests, req'[k] = req[k], sent'[k] = sent[k], came'[k] = came[k],
         verdicts'[k] = verdicts[k], trail \subseteq trail'
  PROVE  Tally(k)' /\ Earned(k)' /\ Recorded(k)'
BY DEF OperationInv, Tally, Earned, Recorded, O!Telling, O!Audited

(* A request its handler has just checked, or a machine to wake. *)
Fresh(r) ==
  \/ r.pc = "checked" /\ r.todo = r.of /\ r.act # "wake"
  \/ r.pc = "waking" /\ r.act = "wake" /\ \E h \in Fleet : r.of = {h}

LEMMA AskStep ==
  ASSUME O!OperationsAssumption, OperationInv, NEW q \in Requests, req[q] = O!Idle, NEW r \in Asked,
         req' = [req EXCEPT ![q] = r], UNCHANGED <<attached, trail, sent, came, verdicts>>,
         Fresh(r)
  PROVE  OperationInv'
<1>1. OperationTypes'
  BY DEF OperationInv, OperationTypes
<1>2. verdicts[q] = {} /\ (\A h \in Fleet : sent[q][h] = None) /\ \A h \in Fleet : came[q][h] = None
  BY DEF OperationInv, Tally, Earned, O!Idle
<1>3. req'[q] = r
  BY DEF OperationInv, OperationTypes
<1>4. Tally(q)'
  <2>1. IsFiniteSet({}) /\ Cardinality({}) = 0 /\ Cardinality(r.of) \in Nat
    BY FS_EmptySet, FleetIsFinite DEF Asked
  <2> QED BY <1>2, <1>3, <2>1 DEF Tally, Fresh
<1>5. Earned(q)' /\ Recorded(q)'
  BY <1>2, <1>3 DEF Earned, Recorded, Fleet, Fresh
<1>6. \A k \in Requests \ {q} : Tally(k)' /\ Earned(k)' /\ Recorded(k)'
  BY Bystander DEF OperationInv, OperationTypes
<1> QED BY <1>1, <1>4, <1>5, <1>6 DEF OperationInv

LEMMA AuditStep == ASSUME OperationInv, NEW q \in Requests, O!Audit(q) PROVE OperationInv'
<1>2. req[q] \in Asked /\ req'[q] = [req[q] EXCEPT !.pc = "running"]
  BY DEF O!Audit, OperationInv, OperationTypes, O!Idle
<1>1. OperationTypes'
  <2>1. req'[q] \in Asked
    BY <1>2 DEF Asked, Stages
  <2> QED BY <2>1 DEF O!Audit, OperationInv, OperationTypes
<1>3. UNCHANGED <<sent, came, verdicts>> /\ req[q].pc = "checked"
  BY DEF O!Audit
<1>4. Tally(q)'
  <2>1. verdicts[q] = {} /\ req[q].todo = req[q].of
    BY <1>3 DEF OperationInv, Tally
  <2>2. IsFiniteSet({}) /\ Cardinality({}) = 0 /\ Cardinality(req[q].of) \in Nat
    BY <1>2, FS_EmptySet, FleetIsFinite DEF Asked
  <2> QED BY <1>2, <1>3, <2>1, <2>2 DEF OperationInv, Tally, Asked
<1>5. Earned(q)'
  BY <1>2, <1>3 DEF OperationInv, Earned, O!Telling, Asked
<1>6. Recorded(q)'
  BY <1>2, <1>3 DEF O!Audit, O!Audited, OperationInv, Recorded, Asked
<1>7. \A k \in Requests \ {q} : Tally(k)' /\ Earned(k)' /\ Recorded(k)'
  BY Bystander DEF O!Audit, OperationInv, OperationTypes
<1> QED BY <1>1, <1>4, <1>5, <1>6, <1>7 DEF OperationInv

(* A verdict takes its host off the list, and is the only one of it. *)
LEMMA SaysStep ==
  ASSUME OperationInv, NEW q \in Requests, NEW h \in Fleet, NEW ok \in BOOLEAN, O!Says(q, h, ok),
         req[q].pc = "running", h \in req[q].todo, UNCHANGED <<attached, trail, sent, came>>,
         ok /\ O!Telling(q, h) => came[q][h] # None /\ came[q][h].did
  PROVE  OperationInv'
<1> DEFINE v == [host |-> h, ok |-> ok]
<1>1. req[q] \in Asked /\ verdicts[q] \subseteq [host : Fleet, ok : BOOLEAN]
  BY DEF OperationInv, OperationTypes, O!Idle
<1>2. /\ req'[q] = [req[q] EXCEPT !.todo = req[q].todo \ {h}]
      /\ verdicts'[q] = verdicts[q] \cup {v}
  BY DEF O!Says, OperationInv, OperationTypes
<1>3. OperationTypes'
  <2>1. req'[q] \in Asked
    BY <1>1, <1>2 DEF Asked
  <2>2. verdicts'[q] \in SUBSET [host : Fleet, ok : BOOLEAN]
    BY <1>1, <1>2
  <2> QED BY <2>1, <2>2 DEF O!Says, OperationInv, OperationTypes
<1>4. Tally(q)'
  <2>1. /\ {w.host : w \in verdicts[q]} = req[q].of \ req[q].todo /\ req[q].todo \subseteq req[q].of
        /\ Cardinality(verdicts[q]) + Cardinality(req[q].todo) = Cardinality(req[q].of)
        /\ req[q].act # "wake"
    BY DEF OperationInv, Tally
  <2>2. v \notin verdicts[q]
    BY <2>1
  <2>3. IsFiniteSet(req[q].todo) /\ Cardinality(req[q].todo) \in Nat
    BY <1>1, FleetIsFinite DEF Asked
  <2>4. IsFiniteSet(verdicts[q]) /\ Cardinality(verdicts[q]) \in Nat
    BY <1>1, VerdictsAreFinite
  <2>5. Cardinality(verdicts'[q]) = Cardinality(verdicts[q]) + 1
    BY <1>2, <2>2, <2>4, FS_AddElement
  <2>6. req'[q].of = req[q].of /\ req'[q].todo = req[q].todo \ {h} /\ req'[q].pc = "running" /\ req'[q].act = req[q].act
    BY <1>1, <1>2 DEF Asked
  <2>7. Cardinality(req'[q].todo) = Cardinality(req[q].todo) - 1
    <3>1. h \in req[q].todo /\ Cardinality(req[q].todo \ {h}) = Cardinality(req[q].todo) - 1
      BY ONLY <2>3, h \in req[q].todo, FS_RemoveElement
    <3> QED BY ONLY <3>1, <2>6
  <2>8. {w.host : w \in verdicts'[q]} = {w.host : w \in verdicts[q]} \cup {h}
    <3>1. v.host = h
      OBVIOUS
    <3> HIDE DEF v
    <3> QED BY <1>2, <3>1
  <2>9. Cardinality(req[q].of) \in Nat
    BY <1>1, FleetIsFinite DEF Asked
  <2> QED BY <2>1, <2>3, <2>4, <2>5, <2>6, <2>7, <2>8, <2>9 DEF Tally
<1>5. Earned(q)'
  <2>1. req'[q].act = req[q].act
    BY <1>1, <1>2 DEF Asked
  <2> QED BY <1>2, <2>1 DEF OperationInv, Earned, O!Telling
<1>6. Recorded(q)'
  <2>1. req'[q].act = req[q].act /\ req'[q].fleet = req[q].fleet /\ req[q] # O!Idle
    BY <1>1, <1>2 DEF Asked, O!Idle
  <2> QED BY <2>1 DEF OperationInv, Recorded, O!Audited
<1>7. \A k \in Requests \ {q} : Tally(k)' /\ Earned(k)' /\ Recorded(k)'
  BY Bystander DEF O!Says, OperationInv, OperationTypes
<1> QED BY <1>3, <1>4, <1>5, <1>6, <1>7 DEF OperationInv

(* A script whose exit code is zero has done what it was for, but for the  *)
(* reboots that answer before the machine goes. *)
LEMMA OutcomesTell ==
  ASSUME NEW os, NEW a, NEW role, NEW o \in O!Outcomes(os, a, role)
  PROVE  /\ o \in [did : BOOLEAN, zero : BOOLEAN]
         /\ o.zero /\ a # "patch-reboot" /\ ~(a = "reboot" /\ os = "windows") => o.did
<1>1. O!Good \in [did : BOOLEAN, zero : BOOLEAN] /\ O!Bad \in [did : BOOLEAN, zero : BOOLEAN]
      /\ O!Vain \in [did : BOOLEAN, zero : BOOLEAN] /\ O!Good.did /\ ~O!Bad.zero
  BY DEF O!Good, O!Bad, O!Vain, O!Outcome
<1>2. CASE a = "reboot" /\ os # "windows"
  <2>1. O!Outcomes(os, a, role) = IF role = "elevated" THEN {O!Good} ELSE {O!Good, O!Bad}
    BY <1>2 DEF O!Outcomes
  <2> QED BY <1>1, <2>1
<1>3. CASE a = "reboot" /\ os = "windows"
  <2>1. O!Outcomes(os, a, role) = {O!Good, O!Vain}
    BY <1>3 DEF O!Outcomes
  <2> QED BY <1>1, <1>3, <2>1
<1>4. CASE a = "patch-reboot"
  <2>1. O!Outcomes(os, a, role) = IF os = "darwin" THEN IF role = "elevated" THEN {O!Good} ELSE {O!Bad} ELSE {O!Good, O!Vain}
    BY <1>4 DEF O!Outcomes
  <2> QED BY <1>1, <1>4, <2>1
<1>5. CASE a \notin {"reboot", "patch-reboot"}
  <2>1. O!Outcomes(os, a, role) = IF a = "patch-install" /\ role # "elevated" THEN {O!Bad} ELSE {O!Good, O!Bad}
    BY <1>5 DEF O!Outcomes
  <2> QED BY <1>1, <2>1
<1> QED BY <1>2, <1>3, <1>4, <1>5

LEMMA SendStep ==
  ASSUME O!OperationsAssumption, OperationInv, NEW q \in Requests, NEW h \in Fleet, NEW c \in O!Roles,
         req[q].pc = "running", sent' = [sent EXCEPT ![q][h] = c], UNCHANGED <<attached, req, trail, came, verdicts>>
  PROVE  OperationInv'
<1>1. OperationTypes'
  BY DEF OperationInv, OperationTypes
<1>2. \A g \in Fleet : sent'[q][g] = (IF g = h THEN c ELSE sent[q][g])
  BY DEF OperationInv, OperationTypes
<1>3. Tally(q)'
  BY DEF OperationInv, Tally
<1>4. Earned(q)'
  <2>1. \A g \in Fleet : sent[q][g] # None => sent'[q][g] # None
    BY <1>2 DEF O!OperationsAssumption
  <2> QED BY <2>1 DEF OperationInv, Earned, O!Telling
<1>5. Recorded(q)'
  BY DEF OperationInv, Recorded, O!Audited, O!Idle
<1>6. \A k \in Requests \ {q} : Tally(k)' /\ Earned(k)' /\ Recorded(k)'
  BY Bystander DEF OperationInv, OperationTypes
<1> QED BY <1>1, <1>3, <1>4, <1>5, <1>6 DEF OperationInv

LEMMA PerformStep ==
  ASSUME O!OperationsAssumption, OperationInv, NEW q \in Requests, NEW h \in Fleet, O!Perform(q, h) PROVE OperationInv'
<1>1. /\ sent[q][h] \in O!Roles /\ came[q][h] = None
      /\ UNCHANGED <<attached, req, trail, sent, verdicts>>
  BY DEF O!Perform, OperationInv, OperationTypes
<1>2. PICK o \in O!Outcomes(Sys[h], req[q].act, sent[q][h]) : came' = [came EXCEPT ![q][h] = o]
  BY DEF O!Perform
<1>3. o \in [did : BOOLEAN, zero : BOOLEAN] /\ (o.zero /\ O!Telling(q, h) => o.did)
  BY OutcomesTell DEF O!Telling
<1>4. OperationTypes'
  BY <1>1, <1>2, <1>3 DEF OperationInv, OperationTypes
<1>5. \A g \in Fleet : came'[q][g] = IF g = h THEN o ELSE came[q][g]
  BY <1>2 DEF OperationInv, OperationTypes
<1>6. sent[q][h] # None
  BY <1>1 DEF O!OperationsAssumption
<1>7. Tally(q)' /\ Recorded(q)'
  BY <1>1 DEF OperationInv, Tally, Recorded, O!Audited
<1>8. Earned(q)'
  <2>1. \A g \in Fleet : came'[q][g] # None => sent'[q][g] # None /\ (came'[q][g].zero /\ O!Telling(q, g)' => came'[q][g].did)
    BY <1>1, <1>3, <1>5, <1>6 DEF OperationInv, Earned, O!Telling
  <2>2. \A v \in verdicts'[q] : v.ok /\ O!Telling(q, v.host)' => came'[q][v.host] # None /\ came'[q][v.host].did
    <3> SUFFICES ASSUME NEW v \in verdicts[q], v.ok, O!Telling(q, v.host) PROVE came'[q][v.host] = came[q][v.host] /\ came[q][v.host] # None /\ came[q][v.host].did
      BY <1>1 DEF O!Telling
    <3>1. v.host \in Fleet /\ came[q][v.host] # None /\ came[q][v.host].did
      BY DEF OperationInv, OperationTypes, Earned
    <3> QED BY <1>1, <1>5, <3>1
  <2> QED BY <2>1, <2>2 DEF Earned
<1>9. \A k \in Requests \ {q} : Tally(k)' /\ Earned(k)' /\ Recorded(k)'
  BY <1>1, <1>2, Bystander DEF OperationInv, OperationTypes
<1> QED BY <1>4, <1>7, <1>8, <1>9 DEF OperationInv

LEMMA ReplyStep == ASSUME OperationInv, NEW q \in Requests, O!Reply(q) PROVE OperationInv'
<1>1. req[q] \in Asked /\ req[q].pc = "running" /\ req[q].todo = {} /\ UNCHANGED <<attached, trail, sent, came, verdicts>>
  BY DEF O!Reply, OperationInv, OperationTypes, O!Idle
<1>2. req'[q] = [req[q] EXCEPT !.pc = "answered"] /\ req'[q] \in Asked
  BY <1>1 DEF O!Reply, OperationInv, OperationTypes, Asked, Stages
<1>3. OperationTypes'
  BY <1>1, <1>2 DEF O!Reply, OperationInv, OperationTypes
<1>4. Tally(q)'
  <2>1. /\ {v.host : v \in verdicts[q]} = req[q].of \ req[q].todo
        /\ Cardinality(verdicts[q]) + Cardinality(req[q].todo) = Cardinality(req[q].of)
    BY <1>1 DEF OperationInv, Tally
  <2>2. Cardinality(verdicts[q]) \in Nat
    BY VerdictsAreFinite DEF OperationInv, OperationTypes
  <2>3. Cardinality(req[q].todo) = 0
    BY <1>1, FS_EmptySet
  <2> QED BY <1>1, <1>2, <2>1, <2>2, <2>3 DEF Tally, Asked
<1>5. Earned(q)' /\ Recorded(q)'
  BY <1>1, <1>2 DEF OperationInv, Earned, Recorded, O!Telling, O!Audited, Asked, O!Idle
<1>6. \A k \in Requests \ {q} : Tally(k)' /\ Earned(k)' /\ Recorded(k)'
  BY <1>1, Bystander DEF O!Reply, OperationInv, OperationTypes
<1> QED BY <1>3, <1>4, <1>5, <1>6 DEF OperationInv

LEMMA ShoutStep == ASSUME OperationInv, NEW q \in Requests, O!Shout(q) PROVE OperationInv'
<1>1. req[q] \in Asked /\ req[q].pc = "waking" /\ UNCHANGED <<attached, came>> /\ trail' = trail \cup {q}
  BY DEF O!Shout, OperationInv, OperationTypes, O!Idle
<1>2. req'[q] = [req[q] EXCEPT !.pc = "answered"] /\ req'[q] \in Asked
  BY <1>1 DEF O!Shout, OperationInv, OperationTypes, Asked, Stages
<1>3. PICK h \in Fleet : req[q].of = {h} /\ req[q].act = "wake"
  BY <1>1 DEF OperationInv, Tally
<1>4. \E ok \in BOOLEAN : verdicts' = [verdicts EXCEPT ![q] = {[host |-> h, ok |-> ok]}]
  BY <1>3 DEF O!Shout
<1>5. PICK ok \in BOOLEAN : verdicts'[q] = {[host |-> h, ok |-> ok]}
  BY <1>4 DEF OperationInv, OperationTypes
<1>6. OperationTypes'
  <2>1. \A p \in Fleet : O!ConnFor("wake", p) \in O!Roles \cup {None}
    BY DEF O!ConnFor, O!ScreenConn, O!Roles
  <2>2. sent' = [sent EXCEPT ![q] = [p \in Fleet |-> IF p \in req[q].todo THEN O!ConnFor("wake", p) ELSE None]]
    BY DEF O!Shout, Fleet
  <2>3. sent' \in [Requests -> [Fleet -> O!Roles \cup {None}]]
    BY <2>1, <2>2 DEF OperationInv, OperationTypes
  <2>4. verdicts' \in [Requests -> SUBSET [host : Fleet, ok : BOOLEAN]]
    BY <1>4 DEF OperationInv, OperationTypes
  <2>5. req' \in [Requests -> {O!Idle} \cup Asked]
    BY <1>2 DEF O!Shout, OperationInv, OperationTypes
  <2> QED BY <1>1, <2>3, <2>4, <2>5 DEF OperationInv, OperationTypes
<1>7. Tally(q)'
  <2>1. Cardinality({h}) = 1 /\ Cardinality({[host |-> h, ok |-> ok]}) = 1
    BY FS_Singleton
  <2>2. req'[q].pc = "answered" /\ req'[q].of = {h}
    BY <1>1, <1>2, <1>3 DEF Asked
  <2>3. {v.host : v \in verdicts'[q]} = {h}
    BY <1>5
  <2> QED BY <1>5, <2>1, <2>2, <2>3 DEF Tally
<1>8. Earned(q)'
  <2>1. ~O!Telling(q, h)' /\ \A g \in Fleet : ~O!Telling(q, g)'
    BY <1>1, <1>2, <1>3 DEF O!Telling, Asked
  <2>2. \A g \in Fleet : came'[q][g] = None
    BY <1>1 DEF OperationInv, Tally, Earned
  <2> QED BY <1>5, <2>1, <2>2 DEF Earned
<1>9. Recorded(q)'
  BY <1>1 DEF Recorded
<1>10. \A k \in Requests \ {q} : Tally(k)' /\ Earned(k)' /\ Recorded(k)'
  BY <1>1, Bystander DEF O!Shout, OperationInv, OperationTypes
<1> QED BY <1>6, <1>7, <1>8, <1>9, <1>10 DEF OperationInv

LEMMA DetachStep ==
  ASSUME O!OperationsAssumption, OperationInv, NEW h \in Fleet, NEW r \in O!Roles, O!Detach(h, r) PROVE OperationInv'
<1>1. UNCHANGED <<req, trail, sent, verdicts>> /\ attached' \in [Fleet -> SUBSET O!Roles]
  BY DEF O!Detach, OperationInv, OperationTypes
<1>2. O!Bad \in [did : BOOLEAN, zero : BOOLEAN] /\ ~O!Bad.zero
  BY DEF O!Bad, O!Outcome
<1>3. \A q \in Requests, g \in Fleet :
        came'[q][g] = IF g = h /\ sent[q][h] = r /\ came[q][h] = None THEN O!Bad ELSE came[q][g]
  BY DEF O!Detach, OperationInv, OperationTypes
<1>4. came' \in [Requests -> [Fleet -> {None} \cup [did : BOOLEAN, zero : BOOLEAN]]]
  <2> DEFINE ends(q) == IF sent[q][h] = r /\ came[q][h] = None THEN [came[q] EXCEPT ![h] = O!Bad] ELSE came[q]
  <2>1. came' = [q \in Requests |-> ends(q)]
    BY DEF O!Detach
  <2>2. \A q \in Requests : ends(q) \in [Fleet -> {None} \cup [did : BOOLEAN, zero : BOOLEAN]]
    BY <1>2 DEF OperationInv, OperationTypes
  <2> QED BY <2>1, <2>2
<1>5. OperationTypes'
  BY <1>1, <1>4 DEF OperationInv, OperationTypes
<1>6. ASSUME NEW q \in Requests PROVE Tally(q)' /\ Earned(q)' /\ Recorded(q)'
  <2>1. Tally(q)' /\ Recorded(q)'
    BY <1>1 DEF OperationInv, Tally, Recorded, O!Audited
  <2>2. \A g \in Fleet : came'[q][g] # None => sent'[q][g] # None /\ (came'[q][g].zero /\ O!Telling(q, g)' => came'[q][g].did)
    BY <1>1, <1>2, <1>3 DEF OperationInv, Earned, O!Telling, O!OperationsAssumption
  <2>3. \A v \in verdicts'[q] : v.ok /\ O!Telling(q, v.host)' => came'[q][v.host] # None /\ came'[q][v.host].did
    <3> SUFFICES ASSUME NEW v \in verdicts[q], v.ok, O!Telling(q, v.host)
                 PROVE  came'[q][v.host] = came[q][v.host] /\ came[q][v.host] # None /\ came[q][v.host].did
      BY <1>1 DEF O!Telling
    <3>1. v.host \in Fleet /\ came[q][v.host] # None /\ came[q][v.host].did
      BY DEF OperationInv, OperationTypes, Earned
    <3> QED BY <1>3, <3>1
  <2> QED BY <2>1, <2>2, <2>3 DEF Earned
<1> QED BY <1>5, <1>6 DEF OperationInv

LEMMA HubStopsStep == ASSUME OperationInv, O!HubStops PROVE OperationInv'
<1> DEFINE going(q) == req[q].pc \in {"checked", "running", "waking"}
<1>1. /\ UNCHANGED <<attached, trail, sent, came, verdicts>>
      /\ req' = [q \in Requests |-> IF going(q) THEN [req[q] EXCEPT !.pc = "cut short"] ELSE req[q]]
  BY DEF O!HubStops
<1>2. \A q \in Requests : going(q) => req[q] \in Asked /\ req'[q] \in Asked /\ req'[q].pc = "cut short"
        /\ req'[q].act = req[q].act /\ req'[q].fleet = req[q].fleet
  <2> SUFFICES ASSUME NEW q \in Requests, going(q)
               PROVE  /\ req[q] \in Asked /\ req'[q] \in Asked /\ req'[q].pc = "cut short"
                      /\ req'[q].act = req[q].act /\ req'[q].fleet = req[q].fleet
    OBVIOUS
  <2>1. req[q] \in Asked
    BY DEF OperationInv, OperationTypes, O!Idle
  <2>2. req'[q] = [req[q] EXCEPT !.pc = "cut short"]
    BY <1>1
  <2> QED BY <2>1, <2>2 DEF Asked, Stages
<1>3. OperationTypes'
  BY <1>1, <1>2 DEF OperationInv, OperationTypes
<1>4. ASSUME NEW q \in Requests, going(q) PROVE Tally(q)' /\ Earned(q)' /\ Recorded(q)'
  <2>5. req[q] \in Asked /\ req'[q].pc = "cut short" /\ req'[q].act = req[q].act /\ req'[q].fleet = req[q].fleet
    BY <1>2, <1>4
  <2>6. req[q] # O!Idle
    <3>1. req[q].pc # "idle"
      BY <1>4
    <3> QED BY <3>1 DEF O!Idle
  <2>1. req[q] # O!Idle /\ req'[q].pc = "cut short" /\ req'[q].act = req[q].act /\ req'[q].fleet = req[q].fleet
    BY <2>5, <2>6
  <2> HIDE DEF going
  <2>2. Tally(q)'
    BY <2>1 DEF Tally
  <2>3. Earned(q)'
    BY <1>1, <2>1 DEF OperationInv, Earned, O!Telling
  <2>4. Recorded(q)'
    BY <1>1, <2>1 DEF OperationInv, Recorded, O!Audited
  <2> QED BY <2>2, <2>3, <2>4
<1>5. ASSUME NEW q \in Requests, ~going(q) PROVE Tally(q)' /\ Earned(q)' /\ Recorded(q)'
  BY <1>1, <1>5, Bystander
<1> QED BY <1>3, <1>4, <1>5 DEF OperationInv

LEMMA OperationStep == ASSUME O!OperationsAssumption, OperationInv, [O!Next]_(O!vars) PROVE OperationInv'
<1>1. ASSUME NEW q \in Requests, NEW h \in Fleet, NEW a \in O!Single, O!Ask(q, a, h) PROVE OperationInv'
  <2> DEFINE r == [pc |-> "checked", act |-> a, fleet |-> FALSE, of |-> {h}, todo |-> {h}]
  <2>1. r \in Asked /\ Fresh(r)
    BY DEF Asked, Stages, Kinds, O!Single, Fresh
  <2>2. req[q] = O!Idle /\ req' = [req EXCEPT ![q] = r] /\ UNCHANGED <<attached, trail, sent, came, verdicts>>
    BY <1>1 DEF O!Ask
  <2> HIDE DEF r
  <2> QED BY <2>1, <2>2, AskStep
<1>2. ASSUME NEW q \in Requests, NEW h \in Fleet, O!Wake(q, h) PROVE OperationInv'
  <2> DEFINE r == [pc |-> "waking", act |-> "wake", fleet |-> FALSE, of |-> {h}, todo |-> O!Relays(h)]
  <2>1. r \in Asked /\ Fresh(r)
    BY DEF Asked, Stages, Kinds, O!Relays, Fleet, Fresh
  <2> QED BY <1>2, <2>1, AskStep DEF O!Wake
<1>3. ASSUME NEW q \in Requests, NEW a \in O!FleetActs, NEW t \in {h1, h2} \cup {all}, O!AskFleet(q, a, t) PROVE OperationInv'
  <2> PICK targets \in SUBSET Fleet :
        /\ req[q] = O!Idle
        /\ req' = [req EXCEPT ![q] = [pc |-> "checked", act |-> a, fleet |-> TRUE, of |-> targets, todo |-> targets]]
        /\ UNCHANGED <<attached, trail, sent, came, verdicts>>
    <3> DEFINE covers == all :> {h1, h2}
               targets == IF t \in {h1, h2} THEN {t} ELSE {h \in covers[t] : attached[h] # {}}
    <3>1. covers \in [{all} -> SUBSET {h1, h2}]
      BY DEF O!OperationsAssumption
    <3>2. /\ req[q] = O!Idle
          /\ req' = [req EXCEPT ![q] = [pc |-> "checked", act |-> a, fleet |-> TRUE, of |-> targets, todo |-> targets]]
          /\ UNCHANGED <<attached, trail, sent, came, verdicts>>
      BY <1>3 DEF O!AskFleet
    <3> HIDE DEF covers
    <3>3. targets \in SUBSET Fleet
      <4>1. CASE t \in {h1, h2}
        BY <4>1 DEF Fleet
      <4>2. CASE t \notin {h1, h2}
        <5>1. covers[t] \subseteq {h1, h2}
          BY <1>3, <3>1, <4>2
        <5> QED BY <4>2, <5>1 DEF Fleet
      <4> QED BY <4>1, <4>2
    <3> HIDE DEF targets
    <3> QED BY <3>2, <3>3
  <2> DEFINE r == [pc |-> "checked", act |-> a, fleet |-> TRUE, of |-> targets, todo |-> targets]
  <2>1. r \in Asked /\ Fresh(r)
    BY DEF Asked, Stages, Kinds, O!FleetActs, Fresh
  <2>2. req' = [req EXCEPT ![q] = r]
    OBVIOUS
  <2> HIDE DEF r
  <2> QED BY <2>1, <2>2, AskStep
<1>4. ASSUME NEW q \in Requests, NEW h \in Fleet, O!Perform(q, h) PROVE OperationInv'
  BY <1>4, PerformStep
<1>5. ASSUME NEW q \in Requests, O!Audit(q) \/ O!Reply(q) \/ O!Shout(q) PROVE OperationInv'
  BY <1>5, AuditStep, ReplyStep, ShoutStep
<1>6. ASSUME NEW q \in Requests, NEW h \in Fleet, O!Dispatch(q, h) PROVE OperationInv'
  <2> DEFINE c == O!ConnFor(req[q].act, h)
  <2>1. CASE c # None /\ sent' = [sent EXCEPT ![q][h] = c] /\ UNCHANGED <<req, verdicts>>
    <3>1. c \in O!Roles
      BY <2>1 DEF O!ConnFor, O!ScreenConn, O!ExecConn, O!Roles
    <3> QED BY <1>6, <2>1, <3>1, SendStep DEF O!Dispatch
  <2>2. CASE c = None /\ O!Says(q, h, FALSE) /\ UNCHANGED sent
    BY <1>6, <2>2, SaysStep DEF O!Dispatch
  <2> QED BY <1>6, <2>1, <2>2 DEF O!Dispatch
<1>7. ASSUME NEW q \in Requests, NEW h \in Fleet, O!Answered(q, h) PROVE OperationInv'
  <2>1. came[q][h] \in [did : BOOLEAN, zero : BOOLEAN] /\ req[q] \in Asked
    BY <1>7 DEF O!Answered, OperationInv, OperationTypes, O!Idle
  <2>2. O!Verdict(q, came[q][h]) \in BOOLEAN
    BY <2>1 DEF O!Verdict, Asked
  <2>3. O!Verdict(q, came[q][h]) /\ O!Telling(q, h) => came[q][h].did
    BY <1>7 DEF O!Answered, O!Verdict, O!Telling, OperationInv, Earned
  <2> QED BY <1>7, <2>2, <2>3, SaysStep DEF O!Answered
<1>8. ASSUME NEW q \in Requests, NEW h \in Fleet, O!TimesOut(q, h) PROVE OperationInv'
  BY <1>8, SaysStep DEF O!TimesOut
<1>9. ASSUME NEW h \in Fleet, NEW r \in O!Roles, O!Attach(h, r) PROVE OperationInv'
  <2>1. OperationTypes'
    BY <1>9 DEF O!Attach, OperationInv, OperationTypes
  <2> QED BY <1>9, <2>1, Bystander DEF O!Attach, OperationInv
<1>10. ASSUME NEW h \in Fleet, NEW r \in O!Roles, O!Detach(h, r) PROVE OperationInv'
  BY <1>10, DetachStep
<1>11. CASE O!HubStops
  BY <1>11, HubStopsStep
<1>12. CASE UNCHANGED O!vars
  <2>1. OperationTypes'
    BY <1>12 DEF O!vars, OperationInv, OperationTypes
  <2> QED BY <1>12, <2>1, Bystander DEF O!vars, OperationInv
<1> QED
  BY <1>1, <1>2, <1>3, <1>4, <1>5, <1>6, <1>7, <1>8, <1>9, <1>10, <1>11, <1>12 DEF O!Next, O!Handler, Fleet

(* The instance counts as the library does. *)
LEMMA SameCount == ASSUME NEW s PROVE O!Cardinality(s) = Cardinality(s)
BY DEF O!Cardinality, Cardinality

(* However connections come and go, commands time out and the hub stops,   *)
(* an answer has one result for each host the request was resolved to, a   *)
(* success is one the host performed, and what was performed of what the   *)
(* trail is to have is in it (runOnAgent, fleet.go, audit.go). *)
THEOREM RecordsAreTrue == ASSUME O!OperationsAssumption PROVE O!Spec => []RecordIsTrue
<1>1. O!Init => OperationInv
  BY OperationStart
<1>2. OperationInv /\ [O!Next]_(O!vars) => OperationInv'
  BY OperationStep
<1>3. OperationInv => RecordIsTrue
  <2> SUFFICES ASSUME OperationInv PROVE O!VerdictsAreEarned /\ O!DoneIsOnTrail
    BY DEF RecordIsTrue, O!RecordIsTrue
  <2>1. O!VerdictsAreEarned
    <3> SUFFICES ASSUME NEW q \in Requests, req[q].pc = "answered"
                 PROVE  /\ {v.host : v \in verdicts[q]} = req[q].of /\ Cardinality(verdicts[q]) = Cardinality(req[q].of)
                        /\ \A v \in verdicts[q] : v.ok /\ O!Telling(q, v.host) => came[q][v.host].did
      BY SameCount DEF O!VerdictsAreEarned
    <3>1. Tally(q) /\ Earned(q)
      BY DEF OperationInv
    <3>2. \A v \in verdicts[q] : v.ok /\ O!Telling(q, v.host) => came[q][v.host].did
      BY <3>1 DEF Earned
    <3>3. {v.host : v \in verdicts[q]} = req[q].of /\ Cardinality(verdicts[q]) = Cardinality(req[q].of)
      BY <3>1 DEF Tally
    <3> QED BY <3>2, <3>3
  <2>2. O!DoneIsOnTrail
    BY DEF OperationInv, Earned, Recorded, Tally, O!Idle, O!DoneIsOnTrail, Fleet
  <2> QED BY <2>1, <2>2
<1> QED BY <1>1, <1>2, <1>3, PTL DEF O!Spec

-----------------------------------------------------------------------------
(* The command-line client (OperatorClient). *)

Clients == {p1, p2}
Host(p) ==
  LET hosts == {h \in C!ToSet(listed[p]) : C!Bears(h, cmd[p].ref)}
      parts == {h \in C!ToSet(listed[p]) : C!PartOf(h, cmd[p].ref)}
  IN target[p] \in hosts \/ (hosts = {} /\ parts = {target[p]})

ClientTypes ==
  /\ fleet \in SomeFleets
  /\ cmd \in [Clients -> [kind : C!Commands \cup {"none"}, ref : Typed \cup {None}, script : {script1, None}]]
  /\ stage \in [Clients -> {"idle", "load", "verify", "save", "truncated", "script", "hosts", "ask", "await", "shell", "done"}]
  /\ given \in [Clients -> {good, bad, None}]
  /\ answer \in [Clients -> [is : {"unasked", "asked", "did", "refused"}, code : {0, 1, 255}]]
  /\ status \in [Clients -> {0, 1, 2, 255}]

Lists ==
  /\ DOMAIN listed = Clients /\ DOMAIN target = Clients
  /\ \A p \in Clients : \E n \in Nat : DOMAIN listed[p] = 1..n

(* What a process has got by the step it is at. *)
GotFar(p) ==
  /\ answer[p].is # "unasked" => stage[p] \in {"await", "shell", "done"}
  /\ stage[p] \in {"verify", "save", "truncated"} => cmd[p].kind = "login"
  /\ stage[p] \in {"save", "truncated"} => given[p] \in verified
  /\ stage[p] \in {"ask", "await", "shell", "done"} /\ (stage[p] = "done" => answer[p].is # "unasked") /\ cmd[p].kind \in C!OnHost => Host(p)
  /\ stage[p] = "shell" => cmd[p].kind = "shell" /\ answer[p].is = "did"
  /\ stage[p] = "done" /\ status[p] = 0 /\ cmd[p].kind # "login" =>
       answer[p].is = "did" /\ (C!HasCode(p) => answer[p].code = 0)

ClientInv ==
  /\ ClientTypes /\ Lists
  /\ \A p \in Clients : GotFar(p)
  /\ saved \in {good, bad} => saved \in verified

LEMMA SmallestOf == ASSUME NEW S, S \subseteq Nat, S # {} PROVE C!Min(S) \in S
<1>1. PICK x \in S : \A y \in S : ~(<<y, x>> \in OpToRel(<, Nat))
  BY NatLessThanWellFounded, WFMin
<1>2. \A y \in S : ~(y < x)
  BY <1>1 DEF OpToRel
<1>3. \E z \in S : \A y \in S : z <= y
  BY <1>2
<1> QED BY <1>3 DEF C!Min

LEMMA SameClientCount == ASSUME NEW s PROVE C!Cardinality(s) = Cardinality(s)
BY DEF C!Cardinality, Cardinality

(* Who bears the name or, if nobody does, the only one it is a part of. *)
LEMMA HostIsFound ==
  ASSUME NEW list, NEW ref, NEW n \in Nat, DOMAIN list = 1..n, C!FindHost(list, ref) # None
  PROVE  \/ C!FindHost(list, ref) \in {h \in C!ToSet(list) : C!Bears(h, ref)}
         \/ /\ {h \in C!ToSet(list) : C!Bears(h, ref)} = {}
            /\ {h \in C!ToSet(list) : C!PartOf(h, ref)} = {C!FindHost(list, ref)}
<1> DEFINE exact == {i \in DOMAIN list : C!Bears(list[i], ref)}
           some == {i \in DOMAIN list : C!PartOf(list[i], ref)}
<1>1. C!FindHost(list, ref) = IF exact # {} THEN list[C!Min(exact)]
                              ELSE IF C!Cardinality(some) = 1 THEN list[C!Min(some)] ELSE None
  BY DEF C!FindHost
<1>2. C!ToSet(list) = {list[i] : i \in DOMAIN list}
  BY DEF C!ToSet
<1>3. CASE exact # {}
  <2>1. exact \subseteq Nat
    OBVIOUS
  <2>2. C!Min(exact) \in exact
    <3> HIDE DEF exact
    <3> QED BY <1>3, <2>1, SmallestOf
  <2> QED BY <1>1, <1>2, <1>3, <2>2
<1>4. CASE exact = {}
  <2>1. C!Cardinality(some) = 1 /\ C!FindHost(list, ref) = list[C!Min(some)]
    BY <1>1, <1>4
  <2>2. IsFiniteSet(some)
    BY FS_Interval, FS_Subset
  <2>3. PICK x : some = {x}
    BY <2>1, <2>2, FS_Singleton, SameClientCount
  <2>4. C!Min(some) = x
    <3>1. some \subseteq Nat /\ some # {}
      BY <2>3
    <3>2. C!Min(some) \in some
      <4> HIDE DEF some
      <4> QED BY <3>1, SmallestOf
    <3> QED BY <2>3, <3>2
  <2>5. {h \in C!ToSet(list) : C!PartOf(h, ref)} = {list[x]}
    BY <1>2, <2>3
  <2>6. {h \in C!ToSet(list) : C!Bears(h, ref)} = {}
    BY <1>2, <1>4
  <2> QED BY <2>1, <2>4, <2>5, <2>6
<1> QED BY <1>3, <1>4

LEMMA FleetsAreFinite == \A f \in SomeFleets : Cardinality(f) \in Nat
<1> SUFFICES ASSUME NEW f \in SomeFleets PROVE IsFiniteSet(f)
  BY FS_CardinalityType
<1>1. \A a, b : IsFiniteSet({a}) /\ IsFiniteSet({a, b})
  <2> SUFFICES ASSUME NEW a, NEW b PROVE IsFiniteSet({a}) /\ IsFiniteSet({a, b})
    OBVIOUS
  <2>1. IsFiniteSet({a}) /\ IsFiniteSet({a} \cup {b})
    BY FS_Singleton, FS_AddElement
  <2>2. {a, b} = {a} \cup {b}
    OBVIOUS
  <2> QED BY <2>1, <2>2
<1>2. \E a, b : f \in {{a}, {a, b}}
  BY DEF SomeFleets
<1> QED BY <1>1, <1>2

LEMMA ListingIsASequence == ASSUME fleet \in SomeFleets, NEW l \in C!Listings PROVE \E n \in Nat : DOMAIN l = 1..n
<1>1. DOMAIN l = 1..C!Cardinality(fleet)
  BY DEF C!Listings, C!SetToSeqs
<1> QED BY <1>1, SameClientCount, FleetsAreFinite

LEMMA ClientStart == ASSUME C!ClientAssumption, C!Init PROVE ClientInv
<1> USE DEF C!Init, Clients
<1>1. ClientTypes
  BY DEF ClientTypes, C!NoCommand, C!Unasked
<1>3. Lists
  BY DEF Lists
<1>2. ASSUME NEW p \in Clients PROVE GotFar(p)
  BY DEF GotFar, C!Unasked
<1> QED BY <1>1, <1>2, <1>3 DEF ClientInv, C!ClientAssumption

(* A step of one process leaves the others as they were. *)
LEMMA OtherClient ==
  ASSUME NEW p \in Clients, GotFar(p), UNCHANGED <<cmd[p], stage[p], given[p], listed[p], target[p], answer[p], status[p]>>,
         verified \subseteq verified'
  PROVE  GotFar(p)'
BY DEF GotFar, Host, C!HasCode

LEMMA LoadsStep ==
  ASSUME C!ClientAssumption, ClientInv, NEW p \in Clients, C!Start(p) \/ C!Load(p) \/ C!LoginLoads(p) \/ C!Verify(p)
  PROVE  ClientInv'
<1> USE DEF C!Go, C!Exit
<1>1. UNCHANGED <<saved, fleet, listed, target, answer>> /\ verified \subseteq verified'
  BY DEF C!Start, C!Load, C!LoginLoads, C!Verify
<1>2. ClientTypes'
  BY DEF ClientInv, ClientTypes, C!Start, C!Load, C!LoginLoads, C!Verify, C!First, Clients, C!Commands
<1>3. GotFar(p)'
  <2>1. answer[p].is = "unasked" /\ GotFar(p)
    BY DEF ClientInv, GotFar, C!Start, C!Load, C!LoginLoads, C!Verify
  <2>2. CASE C!Start(p)
    BY <1>1, <2>1, <2>2 DEF ClientInv, ClientTypes, GotFar, C!Start
  <2>3. CASE C!Load(p)
    <3>1. CASE stage'[p] = "done" /\ status'[p] = 1
      BY <1>1, <2>1, <3>1 DEF GotFar
    <3>2. CASE stage'[p] = C!First(p)
      BY <1>1, <2>1, <2>3, <3>2 DEF GotFar, C!First, C!Load, ClientInv, ClientTypes
    <3> QED BY <2>3, <3>1, <3>2 DEF C!Load, ClientInv, ClientTypes
  <2>4. CASE C!LoginLoads(p)
    BY <1>1, <2>1, <2>4 DEF ClientInv, ClientTypes, GotFar, C!LoginLoads
  <2>5. CASE C!Verify(p)
    BY <1>1, <2>1, <2>5 DEF ClientInv, ClientTypes, GotFar, C!Verify
  <2> QED BY <2>2, <2>3, <2>4, <2>5
<1>4. \A q \in Clients \ {p} : GotFar(q)'
  BY <1>1, OtherClient DEF ClientInv, ClientTypes, C!Start, C!Load, C!LoginLoads, C!Verify, Clients
<1>6. Lists'
  BY <1>1 DEF ClientInv, Lists
<1> QED BY <1>1, <1>2, <1>3, <1>4, <1>6 DEF ClientInv

LEMMA SavesStep ==
  ASSUME C!ClientAssumption, ClientInv, NEW p \in Clients, C!Truncate(p) \/ C!Write(p)
  PROVE  ClientInv'
<1> USE DEF C!Go, C!Exit, C!Truncate, C!Write
<1>1. UNCHANGED <<fleet, cmd, given, listed, target, answer, verified>>
  OBVIOUS
<1>2. ClientTypes'
  BY DEF ClientInv, ClientTypes, Clients
<1>3. GotFar(p)'
  BY <1>1 DEF ClientInv, ClientTypes, GotFar, Clients
<1>4. \A q \in Clients \ {p} : GotFar(q)'
  BY <1>1, OtherClient DEF ClientInv, ClientTypes
<1>5. saved' \in {good, bad} => saved' \in verified'
  BY DEF ClientInv, GotFar, C!ClientAssumption
<1>6. Lists'
  BY <1>1 DEF ClientInv, Lists
<1> QED BY <1>2, <1>3, <1>4, <1>5, <1>6 DEF ClientInv

LEMMA FindsStep ==
  ASSUME C!ClientAssumption, ClientInv, NEW p \in Clients, C!FindScript(p) \/ C!ListHosts(p) \/ C!Resolve(p)
  PROVE  ClientInv'
<1> USE DEF C!Go, C!Exit
<1>1. UNCHANGED <<saved, fleet, cmd, given, answer, verified>>
  BY DEF C!FindScript, C!ListHosts, C!Resolve
<1>2. ClientTypes'
  <2>1. \/ stage' = [stage EXCEPT ![p] = "done"] /\ status' = [status EXCEPT ![p] = 1]
        \/ status' = status /\ \E to \in {"hosts", "ask", stage[p]} : stage' = [stage EXCEPT ![p] = to]
    BY DEF C!FindScript, C!ListHosts, C!Resolve, ClientInv, ClientTypes, Lists
  <2>2. stage' \in [Clients -> {"idle", "load", "verify", "save", "truncated", "script", "hosts", "ask", "await", "shell", "done"}]
    BY <2>1 DEF ClientInv, ClientTypes
  <2>3. status' \in [Clients -> {0, 1, 2, 255}]
    BY <2>1 DEF ClientInv, ClientTypes
  <2> QED BY <1>1, <2>2, <2>3 DEF ClientInv, ClientTypes
<1>5. Lists'
  <2>1. DOMAIN target' = Clients /\ (listed' = listed \/ \E l \in C!Listings : listed' = [listed EXCEPT ![p] = l])
    BY DEF C!FindScript, C!ListHosts, C!Resolve, ClientInv, Lists
  <2>2. ASSUME NEW q \in Clients PROVE \E n \in Nat : DOMAIN listed'[q] = 1..n
    <3>1. listed'[q] = listed[q] \/ \E l \in C!Listings : listed'[q] = l
      BY <2>1 DEF ClientInv, Lists
    <3> QED BY <3>1, ListingIsASequence DEF ClientInv, ClientTypes, Lists
  <2>3. DOMAIN listed' = Clients
    BY <2>1 DEF ClientInv, Lists
  <2> QED BY <2>1, <2>2, <2>3 DEF Lists
<1>3. GotFar(p)'
  <2>1. CASE C!FindScript(p) \/ C!ListHosts(p)
    <3>1. answer[p].is = "unasked" /\ stage[p] \in {"script", "hosts"}
      BY <2>1 DEF C!FindScript, C!ListHosts, ClientInv, GotFar
    <3>2. \/ stage'[p] = "done" /\ status'[p] = 1
          \/ stage'[p] = "hosts"
          \/ stage'[p] = "ask" /\ cmd[p].kind \notin C!OnHost
      BY <2>1 DEF C!FindScript, C!ListHosts, ClientInv, ClientTypes, Lists
    <3> QED BY <1>1, <3>1, <3>2 DEF GotFar
  <2>2. CASE C!Resolve(p)
    <3>1. answer[p].is = "unasked"
      BY <2>2 DEF C!Resolve, ClientInv, GotFar
    <3>2. CASE stage'[p] = "done" /\ status'[p] = 1
      BY <1>1, <2>2, <3>1, <3>2 DEF GotFar, C!HasCode
    <3>3. CASE stage'[p] = "ask"
      <4>1. target'[p] = C!FindHost(listed[p], cmd[p].ref) /\ target'[p] # None /\ UNCHANGED <<cmd, listed>>
        BY <2>2, <3>3 DEF C!Resolve, ClientInv, ClientTypes, Lists
      <4>2. Host(p)'
        BY <4>1, HostIsFound DEF Host, ClientInv, ClientTypes, Lists
      <4> QED BY <1>1, <3>1, <3>3, <4>2 DEF GotFar
    <3> QED BY <2>2, <3>2, <3>3 DEF C!Resolve, ClientInv, ClientTypes, Lists
  <2> QED BY <2>1, <2>2
<1>4. \A q \in Clients \ {p} : GotFar(q)'
  BY <1>1, OtherClient DEF ClientInv, ClientTypes, Lists, C!FindScript, C!ListHosts, C!Resolve
<1> QED BY <1>1, <1>2, <1>3, <1>4, <1>5 DEF ClientInv

Answers == [is : {"unasked", "asked", "did", "refused"}, code : {0, 1, 255}]

LEMMA AnswerGoesOn ==
  ASSUME ClientTypes, NEW p \in Clients, NEW is \in {"asked", "refused"}, answer' = [answer EXCEPT ![p].is = is]
  PROVE  answer' \in [Clients -> Answers]
<1>1. answer[p] \in Answers
  BY DEF ClientTypes, Answers
<1>2. [answer[p] EXCEPT !.is = is] \in Answers
  BY <1>1 DEF Answers
<1>3. answer' = [answer EXCEPT ![p] = [answer[p] EXCEPT !.is = is]]
  OBVIOUS
<1> QED BY <1>2, <1>3 DEF ClientTypes, Answers

LEMMA AsksStep ==
  ASSUME C!ClientAssumption, ClientInv, NEW p \in Clients,
         C!Ask(p) \/ C!Serve(p) \/ C!Answered(p) \/ C!GivesUp(p) \/ C!InputEnds(p) \/ C!ShellEnds(p)
  PROVE  ClientInv'
<1> USE DEF C!Go, C!Exit, C!Ask, C!Serve, C!Answered, C!GivesUp, C!InputEnds, C!ShellEnds
<1>1. UNCHANGED <<saved, fleet, cmd, given, listed, target, verified>>
  OBVIOUS
<1>2. ClientTypes'
  <2>1. CASE C!GivesUp(p)
    BY <1>1, <2>1 DEF ClientInv, ClientTypes
  <2>6. CASE C!InputEnds(p)
    BY <1>1, <2>6 DEF ClientInv, ClientTypes
  <2>5. CASE C!Ask(p)
    <3>1. answer' \in [Clients -> Answers]
      BY <2>5, AnswerGoesOn DEF ClientInv
    <3> QED BY <1>1, <2>5, <3>1 DEF ClientInv, ClientTypes, Answers
  <2>4. CASE C!ShellEnds(p)
    BY <1>1, <2>4 DEF ClientInv, ClientTypes
  <2>2. CASE C!Serve(p)
    <3>1. UNCHANGED <<stage, status>>
      BY <2>2
    <3>2. answer' = [answer EXCEPT ![p].is = "refused"] \/ \E code \in {0, 1, 255} : answer' = [answer EXCEPT ![p] = [is |-> "did", code |-> code]]
      BY <2>2
    <3>3. answer' \in [Clients -> [is : {"unasked", "asked", "did", "refused"}, code : {0, 1, 255}]]
      BY <3>2, AnswerGoesOn DEF ClientInv, ClientTypes, Answers
    <3> QED BY <1>1, <3>1, <3>3 DEF ClientInv, ClientTypes
  <2>3. CASE C!Answered(p)
    <3>1. \/ UNCHANGED <<stage, status>>
          \/ status' = status /\ stage' = [stage EXCEPT ![p] = "shell"]
          \/ stage' = [stage EXCEPT ![p] = "done"] /\ \E code \in {0, 1, 255} : status' = [status EXCEPT ![p] = code]
      BY <2>3 DEF ClientInv, ClientTypes
    <3>2. answer' = answer \/ answer' = [answer EXCEPT ![p].is = "asked"]
      BY <2>3
    <3> HIDE DEF C!Answered
    <3>3. answer' \in [Clients -> [is : {"unasked", "asked", "did", "refused"}, code : {0, 1, 255}]]
      BY <3>2, AnswerGoesOn DEF ClientInv, ClientTypes, Answers
    <3>4. status' \in [Clients -> {0, 1, 2, 255}] /\ stage' \in [Clients -> {"idle", "load", "verify", "save", "truncated", "script", "hosts", "ask", "await", "shell", "done"}]
      BY <3>1 DEF ClientInv, ClientTypes
    <3> QED BY <1>1, <3>3, <3>4 DEF ClientInv, ClientTypes
  <2> QED BY <2>1, <2>2, <2>3, <2>4, <2>5, <2>6
<1>3. GotFar(p)'
  <2>1. GotFar(p) /\ (Host(p)' <=> Host(p))
    BY <1>1 DEF ClientInv, Host
  <2> HIDE DEF C!Ask, C!Serve, C!Answered, C!GivesUp, C!InputEnds, C!ShellEnds
  <2>2. CASE C!Ask(p)
    BY <1>1, <2>1, <2>2 DEF ClientInv, ClientTypes, GotFar, C!Ask
  <2>3. CASE C!Serve(p)
    <3>1. answer[p].is = "asked" /\ answer'[p].is \in {"did", "refused"} /\ UNCHANGED <<stage, status>>
      BY <2>3 DEF C!Serve, ClientInv, ClientTypes
    <3> QED BY <1>1, <2>1, <3>1 DEF GotFar
  <2>4. CASE C!Answered(p)
    <3>1. \/ UNCHANGED <<stage, status>> /\ cmd[p].kind = "watch"
          \/ stage'[p] = "shell" /\ answer' = answer /\ cmd[p].kind = "shell" /\ answer[p].is = "did"
          \/ stage'[p] = "done" /\ status'[p] = 1 /\ answer' = answer
          \/ stage'[p] = "done" /\ answer' = answer /\ answer[p].is = "did" /\ status'[p] = (IF C!HasCode(p) THEN answer[p].code ELSE 0)
      BY <2>4 DEF C!Answered, ClientInv, ClientTypes
    <3>2. stage[p] = "await" /\ answer[p].is # "unasked"
      BY <2>4 DEF C!Answered
    <3>3. answer' = answer \/ cmd[p].kind = "watch"
      BY <2>4 DEF C!Answered
    <3>4. answer'[p].is # "unasked" => stage'[p] \in {"await", "shell", "done"}
      BY <3>1, <3>2
    <3>5. cmd[p].kind = "watch" => cmd[p].kind \notin C!OnHost
      BY DEF C!OnHost
    <3>6. cmd[p].kind \in C!OnHost => Host(p)
      BY <2>1, <3>2 DEF GotFar
    <3>7. stage'[p] \notin {"verify", "save", "truncated"}
      BY <3>1, <3>2
    <3>8. stage'[p] = "shell" => cmd[p].kind = "shell" /\ answer'[p].is = "did"
      BY <3>1, <3>2
    <3>9. stage'[p] = "done" /\ status'[p] = 0 => answer'[p].is = "did" /\ (C!HasCode(p) => answer'[p].code = 0)
      BY <3>1, <3>2
    <3> QED BY <1>1, <2>1, <3>4, <3>6, <3>7, <3>8, <3>9 DEF GotFar, C!HasCode
  <2>5. CASE C!GivesUp(p)
    BY <1>1, <2>1, <2>5 DEF ClientInv, ClientTypes, GotFar, C!GivesUp
  <2>6. CASE C!InputEnds(p)
    BY <1>1, <2>1, <2>6 DEF ClientInv, ClientTypes, GotFar, C!InputEnds, C!HasCode
  <2>7. CASE C!ShellEnds(p)
    <3>1. stage[p] = "shell" /\ stage'[p] = "done" /\ answer' = answer
      BY <2>7 DEF C!ShellEnds, ClientInv, ClientTypes
    <3> QED BY <1>1, <2>1, <3>1 DEF GotFar, C!HasCode
  <2> QED BY <2>2, <2>3, <2>4, <2>5, <2>6, <2>7
<1>4. \A q \in Clients \ {p} : GotFar(q)'
  BY <1>1, OtherClient DEF ClientInv, ClientTypes
<1>6. Lists'
  BY <1>1 DEF ClientInv, Lists
<1> QED BY <1>1, <1>2, <1>3, <1>4, <1>6 DEF ClientInv

LEMMA AgainStep == ASSUME C!ClientAssumption, ClientInv, NEW p \in Clients, C!Again(p) PROVE ClientInv'
<1> USE DEF C!Go, C!Again
<1>1. UNCHANGED <<saved, fleet, verified>>
  OBVIOUS
<1>2. ClientTypes'
  BY DEF ClientInv, ClientTypes, C!NoCommand, C!Unasked
<1>3. GotFar(p)'
  BY DEF ClientInv, ClientTypes, GotFar, C!Unasked
<1>4. \A q \in Clients \ {p} : GotFar(q)'
  BY <1>1, OtherClient DEF ClientInv, ClientTypes, Lists
<1>5. Lists'
  <2>1. DOMAIN <<>> = 1..0
    OBVIOUS
  <2>2. \A q \in Clients : listed'[q] = IF q = p THEN <<>> ELSE listed[q]
    BY DEF ClientInv, Lists
  <2> QED BY <2>1, <2>2 DEF ClientInv, Lists
<1> QED BY <1>1, <1>2, <1>3, <1>4, <1>5 DEF ClientInv

LEMMA ClientStep == ASSUME C!ClientAssumption, ClientInv, [C!Next]_(C!vars) PROVE ClientInv'
<1>1. ASSUME NEW p \in Clients, C!Step(p) PROVE ClientInv'
  BY <1>1, LoadsStep, SavesStep, FindsStep, AsksStep, AgainStep DEF C!Step
<1>2. CASE C!Change \/ UNCHANGED C!vars
  <2>1. ClientTypes'
    BY <1>2 DEF C!Change, C!vars, ClientInv, ClientTypes
  <2>2. \A p \in Clients : GotFar(p)'
    BY <1>2, OtherClient DEF C!Change, C!vars, ClientInv
  <2>3. Lists'
    BY <1>2 DEF C!Change, C!vars, ClientInv, Lists
  <2> QED BY <1>2, <2>1, <2>2, <2>3 DEF C!Change, C!vars, ClientInv
<1> QED BY <1>1, <1>2 DEF C!Next, Clients

(* What the client acts on and what it says, for any names, answers and    *)
(* order of two processes' steps: a request goes to the host that bears    *)
(* the name it was given or is the only one of which that is a part, an    *)
(* exit status of 0 is never taken from silence or a refusal, and the      *)
(* settings on disk are ones the hub has accepted (client.go: FindHost,     *)
(* Save; the commands of cmd/autormm-client).                               *)
THEOREM ClientsAreTold == ASSUME C!ClientAssumption PROVE C!Spec => []ClientIsTrue
<1>1. C!Init => ClientInv
  BY ClientStart
<1>2. ClientInv /\ [C!Next]_(C!vars) => ClientInv'
  BY ClientStep
<1>3. ClientInv => ClientIsTrue
  BY DEF ClientInv, GotFar, Host, Clients, ClientIsTrue, C!ClientIsTrue, C!NamedHostOnly, C!SuccessIsReal, C!SavedIsVerified
<1> QED BY <1>1, <1>2, <1>3, PTL DEF C!Spec

-----------------------------------------------------------------------------
(* What is found on the network (Discovery). *)

Devices == {"m1", "m2"}
Addresses == {1, 2}
Refreshers == {"request", "loop"}

(* Sweeps are told from their time alone. *)
OneSweep == swept \in Nat /\ last = swept /\ ~many

(* No two machines have one address, and what a refresh is at. *)
LanTypes ==
  /\ place \in [Devices -> Addresses \cup {None}]
  /\ \A d, e \in Devices : place[d] = place[e] /\ place[d] # None => d = e
  /\ arp \in [Addresses -> Devices \cup {None}]
  /\ DOMAIN doing = Refreshers /\ DOMAIN entries = Refreshers
  /\ todo \in [Refreshers -> SUBSET Addresses]
  /\ DOMAIN listing = {"request"} /\ whole \in [{"request"} -> BOOLEAN]
  /\ still \in [{"request"} -> SUBSET Devices]

(* A machine that kept its address since a request began is known there or *)
(* nowhere, and known there once the request has provoked its address.     *)
Kept(d) == D!Settled(d)
Provoked(r, d) ==
  \/ doing[r] = "sweeping" /\ place[d] \notin todo[r]
  \/ doing[r] = "reading" /\ whole[r]

(* What was read of it is where it is, and of no other machine.            *)
Tells(t, d) ==
  /\ d \in DOMAIN t => t[d] = place[d]
  /\ \A k \in DOMAIN t : t[k] = place[d] => k = d
Complete(t, r, d) == whole[r] => d \in DOMAIN t

About(r, d) == {row \in listing[r] : row.mac = d \/ row.ip = place[d]}
RowIsOf(row, d) == row.mac = d /\ row.ip = place[d] /\ row.by = d

Carried(r, d) ==
  /\ Kept(d) /\ (Provoked(r, d) => arp[place[d]] = d)
  /\ doing[r] = "storing" => Tells(entries[r], d) /\ Complete(entries[r], r, d)
  /\ doing[r] = "listing" => Tells(byMAC, d) /\ Complete(byMAC, r, d)
  /\ doing[r] = "naming" =>
       /\ Tells(entries[r], d)
       /\ \A row \in About(r, d) : About(r, d) = {row} /\ RowIsOf(row, d)
       /\ About(r, d) # {} => d \notin DOMAIN entries[r]
       /\ About(r, d) = {} => Complete(entries[r], r, d)

Unlisted(r) ==
  /\ doing[r] \in {"idle", "looking", "sweeping"} => ~whole[r]
  /\ doing[r] # "naming" => listing[r] = {}

LanInv ==
  /\ OneSweep /\ LanTypes
  /\ Unlisted("request") /\ \A d \in still["request"] : Carried("request", d)

LEMMA LanStart == ASSUME D!DiscoveryAssumption, D!Init PROVE LanInv
<1>1. OneSweep
  BY DEF OneSweep, D!Init, D!MinSweep
<1>2. LanTypes
  BY DEF LanTypes, D!Init, D!Alone, Devices, Addresses, Refreshers, D!Refreshers
<1>3. Unlisted("request") /\ still["request"] = {}
  BY DEF Unlisted, D!Init, D!Refreshers
<1> QED BY <1>1, <1>2, <1>3 DEF LanInv

(* Who holds an address is the machine at it, and nobody holds another.    *)
LEMMA HolderIs ==
  ASSUME D!DiscoveryAssumption, LanTypes, NEW d \in Devices, place[d] # None
  PROVE  /\ place[d] \in Addresses /\ d # None
         /\ D!Holder(place[d]) = d /\ \A i \in Addresses : D!Holder(i) = d => i = place[d]
         /\ \A i \in Addresses : D!Holder(i) \in Devices \cup {None}
<1>1. \A e \in Devices : place[e] = place[d] => e = d
  BY DEF LanTypes
<1>2. D!Holder(place[d]) = d
  BY <1>1 DEF D!Holder, Devices
<1>4. d # None
  BY DEF D!DiscoveryAssumption, Devices
<1>3. ASSUME NEW i \in Addresses, D!Holder(i) = d, i # place[d] PROVE FALSE
  <2>1. (\E e \in Devices : place[e] = i) => place[D!Holder(i)] = i
    BY DEF D!Holder, Devices
  <2>2. (~\E e \in Devices : place[e] = i) => D!Holder(i) = None
    BY DEF D!Holder, Devices
  <2> QED BY <1>3, <1>4, <2>1, <2>2
<1>5. place[d] \in Addresses
  BY DEF LanTypes
<1>6. \A i \in Addresses : D!Holder(i) \in Devices \cup {None}
  BY DEF D!Holder, Devices
<1> QED BY <1>2, <1>3, <1>4, <1>5, <1>6

(* What a step leaves alone. *)
LEMMA ElsewhereKept ==
  ASSUME NEW d, Carried("request", d),
         UNCHANGED <<place[d], arp, byMAC, doing["request"], todo["request"], entries["request"], listing["request"], whole["request"]>>
  PROVE  Carried("request", d)'
BY DEF Carried, Kept, D!Settled, Provoked, Tells, Complete, About, RowIsOf

LEMMA BeginStep ==
  ASSUME D!DiscoveryAssumption, LanInv, NEW p \in Refreshers, D!Begin(p)
  PROVE  LanInv'
<1> USE DEF D!Begin
<1>1. OneSweep' /\ LanTypes'
  BY DEF LanInv, OneSweep, LanTypes, D!index, Refreshers, Devices
<1>2. CASE p = "loop"
  <2>1. UNCHANGED <<doing["request"], still["request"]>>
    BY <1>2 DEF LanInv, LanTypes, Refreshers
  <2>2. Unlisted("request")'
    BY <2>1 DEF LanInv, Unlisted
  <2>3. \A d \in still["request"] : Carried("request", d)'
    BY <2>1, ElsewhereKept DEF LanInv, D!index
  <2> QED BY <1>1, <2>1, <2>2, <2>3 DEF LanInv
<1>3. CASE p = "request"
  <2>1. doing["request"] = "idle" /\ doing'["request"] = "looking" /\ ~whole["request"]
    BY <1>3 DEF LanInv, LanTypes, Refreshers, Unlisted
  <2>2. Unlisted("request")'
    BY <2>1 DEF LanInv, Unlisted
  <2>3. \A d \in still'["request"] : D!Settled(d)
    BY <1>3
  <2>4. \A d \in still'["request"] : Carried("request", d)'
    BY <2>1, <2>3 DEF Carried, Kept, Provoked, D!Settled
  <2> QED BY <1>1, <2>2, <2>4 DEF LanInv
<1> QED BY <1>2, <1>3 DEF Refreshers

LEMMA SweepSteps ==
  ASSUME D!DiscoveryAssumption, LanInv, NEW p \in Refreshers, D!Claim(p) \/ D!EndSweep(p)
  PROVE  LanInv'
<1> USE DEF D!Claim, D!EndSweep
<1>1. OneSweep'
  <2>1. CASE D!EndSweep(p)
    BY <2>1 DEF LanInv, OneSweep, D!index
  <2>2. CASE D!Claim(p)
    <3>1. swept' \in Nat /\ last' = swept'
      BY <2>2 DEF LanInv, OneSweep
    <3>2. ~many'
      <4>1. CASE swept < D!MinSweep /\ UNCHANGED many
        BY <4>1 DEF LanInv, OneSweep
      <4>2. CASE swept >= D!MinSweep /\ many' = (many \/ last < D!MinSweep)
        <5>1. ~(last < D!MinSweep)
          BY <4>2 DEF LanInv, OneSweep, D!MinSweep
        <5> QED BY <4>2, <5>1 DEF LanInv, OneSweep
      <4> QED BY <2>2, <4>1, <4>2
    <3> QED BY <3>1, <3>2 DEF OneSweep
  <2> QED BY <2>1, <2>2
<1>2. LanTypes'
  <2>1. UNCHANGED <<place, arp, listing, still>>
    BY DEF D!index
  <2>2. DOMAIN doing' = Refreshers /\ DOMAIN entries' = Refreshers
    BY DEF LanInv, LanTypes, D!index
  <2>3. todo' \in [Refreshers -> SUBSET Addresses]
    BY DEF LanInv, LanTypes, D!index, Addresses
  <2>4. whole' \in [{"request"} -> BOOLEAN]
    <3>1. CASE D!Claim(p)
      BY <3>1 DEF LanInv, LanTypes
    <3>2. CASE D!EndSweep(p)
      BY <3>2, Zenon DEF LanInv, LanTypes
    <3> QED BY <3>1, <3>2
  <2> QED BY <2>1, <2>2, <2>3, <2>4 DEF LanInv, LanTypes
<1>3. UNCHANGED <<place, arp, byMAC, entries, listing, still>>
  BY DEF D!index
<1>4. CASE p = "loop"
  <2>1. UNCHANGED <<doing["request"], todo["request"], whole["request"]>>
    BY <1>4 DEF LanInv, LanTypes, Refreshers, D!index
  <2>2. Unlisted("request")'
    BY <1>3, <2>1 DEF LanInv, Unlisted
  <2>3. \A d \in still["request"] : Carried("request", d)'
    BY <1>3, <2>1, ElsewhereKept DEF LanInv
  <2> QED BY <1>1, <1>2, <1>3, <2>2, <2>3 DEF LanInv
<1>5. CASE p = "request"
  <2>1. \/ doing["request"] = "looking" /\ doing'["request"] = "reading" /\ ~whole'["request"]
        \/ doing["request"] = "looking" /\ doing'["request"] = "sweeping" /\ ~whole'["request"] /\ todo'["request"] = Addresses
        \/ doing["request"] = "sweeping" /\ doing'["request"] = "reading" /\ whole'["request"] = (todo["request"] = {})
    BY <1>5 DEF LanInv, LanTypes, Refreshers, Addresses, Unlisted, D!index
  <2>2. Unlisted("request")'
    BY <1>3, <2>1 DEF LanInv, Unlisted
  <2>3. ASSUME NEW d \in still["request"] PROVE Carried("request", d)'
    <3>1. Carried("request", d) /\ place[d] \in Addresses
      BY HolderIs DEF LanInv, LanTypes, Carried, Kept, D!Settled
    <3>2. Provoked("request", d)' => Provoked("request", d)
      BY <1>3, <2>1, <3>1 DEF Provoked
    <3>3. Kept(d)' /\ (Provoked("request", d)' => arp'[place'[d]] = d)
      BY <1>3, <3>1, <3>2 DEF Carried, Kept, D!Settled
    <3> QED BY <2>1, <3>3 DEF Carried
  <2> QED BY <1>1, <1>2, <1>3, <2>2, <2>3 DEF LanInv
<1> QED BY <1>4, <1>5 DEF Refreshers

LEMMA ProvokeStep ==
  ASSUME D!DiscoveryAssumption, LanInv, NEW p \in Refreshers, NEW i \in Addresses, D!Provoke(p, i)
  PROVE  LanInv'
<1> USE DEF D!Provoke
<1>1. UNCHANGED <<place, byMAC, doing, entries, listing, whole, still, last, swept, many>>
  BY DEF D!history, D!index
<1>2. OneSweep' /\ Unlisted("request")'
  BY <1>1 DEF LanInv, OneSweep, Unlisted
<1>3. D!Holder(i) \in Devices \cup {None}
  BY DEF D!Holder, Devices
<1>4. LanTypes'
  BY <1>1, <1>3 DEF LanInv, LanTypes
<1>5. ASSUME NEW d \in still["request"] PROVE Carried("request", d)'
  <2>1. Carried("request", d) /\ d \in Devices /\ place[d] # None
    BY DEF LanInv, LanTypes, Carried, Kept, D!Settled
  <2>2. /\ place[d] \in Addresses /\ d # None
        /\ D!Holder(place[d]) = d /\ \A a \in Addresses : D!Holder(a) = d => a = place[d]
    BY <2>1, HolderIs DEF LanInv
  <2>3. /\ arp \in [Addresses -> Devices \cup {None}]
        /\ arp[place[d]] \in {d, None} /\ \A a \in Addresses : arp[a] = d => a = place[d]
    BY <2>1 DEF Carried, Kept, D!Settled, LanInv, LanTypes, Addresses
  <2>4. /\ arp'[place[d]] \in {arp[place[d]], d}
        /\ i = place[d] => arp'[place[d]] = d
        /\ \A a \in Addresses : arp'[a] = d => a = place[d]
    BY <2>2, <2>3
  <2>5. Kept(d)'
    BY <1>1, <2>1, <2>3, <2>4 DEF Kept, D!Settled, Addresses
  <2>6. Provoked("request", d)' => Provoked("request", d) \/ i = place[d]
    BY <1>1 DEF Provoked, LanInv, LanTypes, Refreshers
  <2>7. Provoked("request", d)' => arp'[place[d]] = d
    BY <2>1, <2>3, <2>4, <2>6 DEF Carried
  <2> QED BY <1>1, <2>1, <2>5, <2>7 DEF Carried, Tells, Complete, About, RowIsOf
<1> QED BY <1>1, <1>2, <1>4, <1>5 DEF LanInv

LEMMA ReadStep ==
  ASSUME D!DiscoveryAssumption, LanInv, NEW p \in Refreshers, D!ReadARP(p)
  PROVE  LanInv'
<1> USE DEF D!ReadARP
<1>1. UNCHANGED <<place, arp, byMAC, todo, listing, whole, still, last, swept, many>>
  BY DEF D!history, D!index
<1>2. OneSweep' /\ LanTypes'
  BY <1>1 DEF LanInv, OneSweep, LanTypes
<1>3. CASE p = "loop"
  <2>1. UNCHANGED <<doing["request"], entries["request"]>>
    BY <1>3 DEF LanInv, LanTypes, Refreshers
  <2>2. Unlisted("request")'
    BY <1>1, <2>1 DEF LanInv, Unlisted
  <2>3. \A d \in still["request"] : Carried("request", d)'
    BY <1>1, <2>1, ElsewhereKept DEF LanInv
  <2> QED BY <1>1, <1>2, <2>2, <2>3 DEF LanInv
<1>4. CASE p = "request"
  <2>1. doing["request"] = "reading" /\ doing'["request"] = "storing" /\ entries'["request"] \in D!TablesOf(arp)
    BY <1>4 DEF LanInv, LanTypes, Refreshers
  <2>2. Unlisted("request")'
    BY <1>1, <2>1 DEF LanInv, Unlisted
  <2>3. ASSUME NEW d \in still["request"] PROVE Carried("request", d)'
    <3>1. Carried("request", d) /\ d \in Devices /\ place[d] # None
      BY DEF LanInv, LanTypes, Carried, Kept, D!Settled
    <3>2. place[d] \in Addresses /\ d # None
      BY <3>1, HolderIs DEF LanInv
    <3>3. arp[place[d]] \in {d, None} /\ \A a \in Addresses : arp[a] = d => a = place[d]
      BY <3>1 DEF Carried, Kept, D!Settled, Addresses
    <3>4. whole["request"] => arp[place[d]] = d
      BY <2>1, <3>1 DEF Carried, Provoked
    <3> DEFINE t == entries'["request"]
               met == {arp[a] : a \in Addresses} \ {None}
    <3>5. t \in [met -> Addresses] /\ \A e \in met : arp[t[e]] = e
      BY <2>1 DEF D!TablesOf, Addresses
    <3>6. Tells(t, d)
      BY <3>2, <3>3, <3>5 DEF Tells
    <3>7. whole["request"] => d \in DOMAIN t
      BY <3>2, <3>4, <3>5
    <3>8. Kept(d)' /\ place'[d] = place[d] /\ whole' = whole
      BY <1>1, <3>1 DEF Carried, Kept, D!Settled
    <3>9. Tells(entries["request"], d)' /\ Complete(entries["request"], "request", d)'
      BY <3>6, <3>7, <3>8 DEF Tells, Complete
    <3> QED BY <2>1, <3>8, <3>9 DEF Carried, Provoked
  <2> QED BY <1>1, <1>2, <2>2, <2>3 DEF LanInv
<1> QED BY <1>3, <1>4 DEF Refreshers

LEMMA StoreStep ==
  ASSUME D!DiscoveryAssumption, LanInv, NEW p \in Refreshers, D!Store(p)
  PROVE  LanInv'
<1> USE DEF D!Store
<1>1. UNCHANGED <<place, arp, todo, listing, whole, last, swept, many>>
  OBVIOUS
<1>2. still'["request"] = (IF "request" # p /\ doing["request"] = "listing" THEN {} ELSE still["request"])
  OBVIOUS
<1>3. OneSweep' /\ LanTypes'
  BY <1>1 DEF LanInv, OneSweep, LanTypes
<1>4. CASE p = "loop"
  <2>1. UNCHANGED <<doing["request"], entries["request"]>>
    BY <1>4 DEF LanInv, LanTypes, Refreshers
  <2>2. Unlisted("request")'
    BY <1>1, <2>1 DEF LanInv, Unlisted
  <2>3. ASSUME NEW d \in still'["request"] PROVE Carried("request", d)'
    <3>1. doing["request"] # "listing" /\ Carried("request", d)
      BY <1>2, <1>4, <2>3 DEF LanInv
    <3> QED BY <1>1, <2>1, <3>1 DEF Carried, Kept, D!Settled, Provoked, Tells, Complete, About, RowIsOf
  <2> QED BY <1>1, <1>3, <2>2, <2>3 DEF LanInv
<1>5. CASE p = "request"
  <2>1. doing["request"] = "storing" /\ doing'["request"] = "listing" /\ byMAC' = entries["request"] /\ still'["request"] = still["request"]
    BY <1>2, <1>5 DEF LanInv, LanTypes, Refreshers, D!Replaced
  <2>2. Unlisted("request")'
    BY <1>1, <2>1 DEF LanInv, Unlisted
  <2>3. ASSUME NEW d \in still["request"] PROVE Carried("request", d)'
    <3>1. Carried("request", d)
      BY DEF LanInv
    <3> QED BY <1>1, <2>1, <3>1 DEF Carried, Kept, D!Settled, Provoked, Tells, Complete
  <2> QED BY <1>1, <1>3, <2>1, <2>2, <2>3 DEF LanInv
<1> QED BY <1>4, <1>5 DEF Refreshers

LEMMA SnapshotStep ==
  ASSUME D!DiscoveryAssumption, LanInv, D!Snapshot("request")
  PROVE  LanInv'
<1> USE DEF D!Snapshot
<1>1. UNCHANGED <<place, arp, byMAC, todo, listing, whole, still, last, swept, many>>
  BY DEF D!history, D!index
<1>2. OneSweep' /\ LanTypes'
  BY <1>1 DEF LanInv, OneSweep, LanTypes
<1>3. doing["request"] = "listing" /\ doing'["request"] = "naming" /\ entries'["request"] = byMAC /\ listing["request"] = {}
  BY DEF LanInv, LanTypes, Refreshers, Unlisted
<1>4. Unlisted("request")'
  BY <1>3 DEF Unlisted
<1>5. ASSUME NEW d \in still["request"] PROVE Carried("request", d)'
  <2>1. Carried("request", d)
    BY DEF LanInv
  <2>2. About("request", d)' = {}
    BY <1>1, <1>3 DEF About
  <2> QED BY <1>1, <1>3, <2>1, <2>2 DEF Carried, Kept, D!Settled, Provoked, Tells, Complete
<1> QED BY <1>1, <1>2, <1>4, <1>5 DEF LanInv

LEMMA RowStep ==
  ASSUME D!DiscoveryAssumption, LanInv, NEW k \in Devices, D!Row("request", k)
  PROVE  LanInv'
<1> USE DEF D!Row
<1>1. UNCHANGED <<place, arp, byMAC, doing, todo, whole, still, last, swept, many>>
  BY DEF D!history, D!index
<1>2. OneSweep' /\ LanTypes'
  BY <1>1 DEF LanInv, OneSweep, LanTypes
<1>3. doing["request"] = "naming" /\ k \in DOMAIN entries["request"]
  OBVIOUS
<1>4. entries'["request"] = [e \in DOMAIN entries["request"] \ {k} |-> entries["request"][e]]
  BY DEF LanInv, LanTypes, Refreshers
<1>5. PICK row : /\ listing'["request"] = listing["request"] \cup {row}
                 /\ row.mac = k /\ row.ip = entries["request"][k] /\ row.by = D!Holder(entries["request"][k])
  <2>1. PICK heard \in {{"mdns", "netbios"}} :
          listing' = [listing EXCEPT !["request"] = @ \cup {[mac |-> k, ip |-> entries["request"][k],
             named |-> D!NameOf(D!Holder(entries["request"][k]), heard), by |-> D!Holder(entries["request"][k])]}]
    OBVIOUS
  <2>2. listing'["request"] = listing["request"] \cup {[mac |-> k, ip |-> entries["request"][k],
           named |-> D!NameOf(D!Holder(entries["request"][k]), heard), by |-> D!Holder(entries["request"][k])]}
    BY <2>1 DEF LanInv, LanTypes
  <2> DEFINE new == [mac |-> k, ip |-> entries["request"][k],
                     named |-> D!NameOf(D!Holder(entries["request"][k]), heard), by |-> D!Holder(entries["request"][k])]
  <2>3. new.mac = k /\ new.ip = entries["request"][k] /\ new.by = D!Holder(entries["request"][k])
    OBVIOUS
  <2>4. listing'["request"] = listing["request"] \cup {new}
    BY <2>2
  <2> HIDE DEF new
  <2> QED BY <2>3, <2>4
<1>6. Unlisted("request")'
  BY <1>1, <1>3 DEF LanInv, Unlisted
<1>7. ASSUME NEW d \in still["request"] PROVE Carried("request", d)'
  <2> DEFINE t == entries["request"]
  <2>1. Carried("request", d) /\ d \in Devices /\ place[d] # None
    BY DEF LanInv, LanTypes, Carried, Kept, D!Settled
  <2>2. D!Holder(place[d]) = d
    BY <2>1, HolderIs DEF LanInv
  <2>3. Tells(t, d) /\ (\A r \in About("request", d) : About("request", d) = {r} /\ RowIsOf(r, d))
        /\ (About("request", d) # {} => d \notin DOMAIN t) /\ (About("request", d) = {} => Complete(t, "request", d))
    BY <1>3, <2>1 DEF Carried
  <2>4. Kept(d)' /\ place'[d] = place[d] /\ whole' = whole
    BY <1>1, <2>1 DEF Carried, Kept, D!Settled
  <2>5. Tells(entries["request"], d)'
    BY <1>4, <2>3, <2>4 DEF Tells
  <2>6. CASE k = d
    <3>1. RowIsOf(row, d) /\ About("request", d) = {}
      BY <1>3, <1>5, <2>2, <2>3, <2>6 DEF Tells, RowIsOf
    <3>2. About("request", d)' = {row}
      BY <1>5, <2>4, <3>1 DEF About, RowIsOf
    <3>3. d \notin DOMAIN entries'["request"]
      BY <1>4, <2>6
    <3>4. RowIsOf(row, d)'
      BY <2>4, <3>1 DEF RowIsOf
    <3> QED BY <1>1, <1>3, <2>4, <2>5, <3>2, <3>3, <3>4 DEF Carried, Provoked
  <2>7. CASE k # d
    <3>1. row.mac # d /\ row.ip # place[d]
      BY <1>3, <1>5, <2>3, <2>7 DEF Tells
    <3>2. About("request", d)' = About("request", d)
      BY <1>5, <2>4, <3>1 DEF About
    <3>3. d \in DOMAIN t <=> d \in DOMAIN entries'["request"]
      BY <1>4, <2>7
    <3>4. \A r : RowIsOf(r, d)' <=> RowIsOf(r, d)
      BY <2>4 DEF RowIsOf
    <3>5. Complete(t, "request", d) => Complete(entries["request"], "request", d)'
      BY <2>4, <3>3 DEF Complete
    <3> QED BY <1>1, <1>3, <2>3, <2>4, <2>5, <3>2, <3>3, <3>4, <3>5 DEF Carried, Provoked
  <2> QED BY <2>6, <2>7
<1> QED BY <1>1, <1>2, <1>6, <1>7 DEF LanInv

LEMMA AnswerStep ==
  ASSUME D!DiscoveryAssumption, LanInv, D!Answer("request")
  PROVE  LanInv'
<1> USE DEF D!Answer
<1>1. OneSweep' /\ LanTypes'
  BY DEF LanInv, OneSweep, LanTypes, D!index
<1>2. Unlisted("request")' /\ still'["request"] = {}
  BY DEF LanInv, LanTypes, Unlisted, Refreshers
<1> QED BY <1>1, <1>2 DEF LanInv

LEMMA WorldStep ==
  ASSUME D!DiscoveryAssumption, LanInv,
         \/ D!TimePasses
         \/ \E d \in Devices : D!Move(d)
         \/ \E i \in Addresses : D!Forget(i)
  PROVE  LanInv'
<1>1. CASE D!TimePasses
  <2> USE <1>1 DEF D!TimePasses
  <2>1. UNCHANGED <<place, arp, byMAC, doing, todo, entries, listing, whole, still, many>>
    BY DEF D!work
  <2>2. OneSweep'
    BY <2>1 DEF LanInv, OneSweep, D!Older, D!MinSweep
  <2>3. LanTypes' /\ Unlisted("request")'
    BY <2>1 DEF LanInv, LanTypes, Unlisted
  <2>4. \A d \in still["request"] : Carried("request", d)'
    BY <2>1, ElsewhereKept DEF LanInv
  <2> QED BY <2>1, <2>2, <2>3, <2>4 DEF LanInv
<1>2. ASSUME NEW e \in Devices, D!Move(e) PROVE LanInv'
  <2> USE <1>2 DEF D!Move
  <2>1. UNCHANGED <<arp, byMAC, doing, todo, entries, listing, whole, many, last, swept>>
    BY DEF D!work, D!index
  <2>2. PICK i \in Addresses \cup {None} : /\ i = None \/ \A x \in Devices : place[x] # i
                                           /\ place' = [place EXCEPT ![e] = i]
    BY DEF Addresses, Devices
  <2>3. still'["request"] = still["request"] \ {e}
    OBVIOUS
  <2>4. LanTypes'
    BY <2>1, <2>2, <2>3 DEF LanInv, LanTypes
  <2>5. OneSweep' /\ Unlisted("request")'
    BY <2>1 DEF LanInv, OneSweep, Unlisted
  <2>6. \A d \in still'["request"] : place'[d] = place[d] /\ Carried("request", d)
    BY <2>2, <2>3 DEF LanInv, LanTypes
  <2>7. \A d \in still'["request"] : Carried("request", d)'
    BY <2>1, <2>6, ElsewhereKept
  <2> QED BY <2>4, <2>5, <2>7 DEF LanInv
<1>3. ASSUME NEW i \in Addresses, D!Forget(i) PROVE LanInv'
  <2> USE <1>3 DEF D!Forget
  <2>1. UNCHANGED <<place, byMAC, doing, todo, entries, listing, whole, still, many, last, swept>>
    BY DEF D!work, D!index, D!history
  <2>2. arp' = [arp EXCEPT ![i] = None]
    OBVIOUS
  <2>3. OneSweep' /\ LanTypes' /\ Unlisted("request")'
    BY <2>1, <2>2 DEF LanInv, OneSweep, LanTypes, Unlisted
  <2>4. ASSUME NEW d \in still["request"] PROVE Carried("request", d)'
    <3>1. Carried("request", d) /\ d \in Devices /\ place[d] # None
      BY DEF LanInv, LanTypes, Carried, Kept, D!Settled
    <3>2. place[d] \in Addresses /\ d # None /\ D!Holder(place[d]) = d
      BY <3>1, HolderIs DEF LanInv
    <3>3. arp \in [Addresses -> Devices \cup {None}] /\ arp[place[d]] \in {d, None}
          /\ \A a \in Addresses : arp[a] = d => a = place[d]
      BY <3>1 DEF Carried, Kept, D!Settled, LanInv, LanTypes, Addresses
    <3>4. Kept(d)'
      BY <2>1, <2>2, <3>1, <3>2, <3>3 DEF Kept, D!Settled, Addresses
    <3>5. Provoked("request", d) => arp'[place[d]] = d
      <4> SUFFICES ASSUME Provoked("request", d), i = place[d] PROVE FALSE
        BY <2>2, <3>1, <3>2, <3>3 DEF Carried
      <4>1. arp[i] = D!Holder(i) /\ doing["request"] \in {"sweeping", "reading"}
        BY <3>1, <3>2 DEF Carried, Provoked
      <4> QED BY <4>1 DEF D!Refreshers
    <3>6. Provoked("request", d)' <=> Provoked("request", d)
      BY <2>1 DEF Provoked
    <3> QED BY <2>1, <3>1, <3>4, <3>5, <3>6 DEF Carried, Tells, Complete, About, RowIsOf
  <2> QED BY <2>1, <2>3, <2>4 DEF LanInv
<1> QED BY <1>1, <1>2, <1>3

(* The hub sweeps its networks at most once a minute, and a list shows a   *)
(* machine that kept its address in at most one row, with that address and *)
(* no other's name, and does show it after a sweep of its own that reached *)
(* every address: for every way the refreshes, the moves and the kernel's  *)
(* forgetting interleave, and any names.  The request's own table is true  *)
(* of the machines that stayed, and it is what it lists unless the loop    *)
(* refreshed in between.                                                   *)
THEOREM ListsAreTrue == ASSUME D!DiscoveryAssumption PROVE D!Spec => []DiscoveryIsTrue
<1>1. D!Init => LanInv
  BY LanStart
<1>2. LanInv /\ [D!Next]_(D!vars) => LanInv'
  <2> SUFFICES ASSUME LanInv, [D!Next]_(D!vars) PROVE LanInv'
    OBVIOUS
  <2>1. CASE UNCHANGED D!vars
    BY <2>1, ElsewhereKept DEF D!vars, D!index, D!work, D!history, LanInv, OneSweep, LanTypes, Unlisted
  <2>2. ASSUME NEW p \in Refreshers, D!Refresh(p) PROVE LanInv'
    BY <2>2, BeginStep, SweepSteps, ProvokeStep, ReadStep, StoreStep DEF D!Refresh, Addresses
  <2>3. CASE D!Discover("request")
    BY <2>3, SnapshotStep, RowStep, AnswerStep DEF D!Discover, Devices
  <2> QED BY <2>1, <2>2, <2>3, WorldStep DEF D!Next, D!Refreshers, Refreshers, Devices, Addresses
<1>3. LanInv => DiscoveryIsTrue
  <2> SUFFICES ASSUME LanInv PROVE D!SweepsAreFew /\ D!RowsAreTrue
    BY DEF DiscoveryIsTrue, D!DiscoveryIsTrue
  <2>1. D!SweepsAreFew
    BY DEF LanInv, OneSweep, D!SweepsAreFew
  <2>2. ASSUME D!Listed("request"), NEW d \in still["request"]
        PROVE  /\ About("request", d) = {} => ~whole["request"]
               /\ \A r \in About("request", d) : About("request", d) = {r} /\ RowIsOf(r, d)
    BY <2>2 DEF LanInv, Carried, D!Listed, Complete
  <2>3. D!RowsAreTrue
    BY <2>2 DEF D!RowsAreTrue, About, RowIsOf
  <2> QED BY <2>1, <2>3
<1> QED BY <1>1, <1>2, <1>3, PTL DEF D!Spec

-----------------------------------------------------------------------------
(* The hub's update of itself (HubUpdate), for any builds, releases and    *)
(* number of requests. *)

Versions == Builds \cup Releases
Executables == [version : Versions \cup {<<>>}, damage : {"none", "dead", "subtle"}]
UpdateSteps == {"idle", "fetching", "fetched", "answered", "exiting"}

UpdateTypes ==
  /\ published \in Releases /\ version \in Versions
  /\ binary \in [version : Versions, damage : {"none", "dead", "subtle"}]
  /\ step \in [Updaters -> UpdateSteps] /\ latest \in [Updaters -> Releases \cup {<<>>}]
  /\ fetched \in [Updaters -> Executables]

(* The release a request is at work on is newer than the hub, which cannot *)
(* have changed since: a restart ends the requests.                        *)
AsksForNewer ==
  \A r \in Updaters : step[r] # "idle" => latest[r] \in Releases /\ version # <<>> /\ U!Newer(latest[r], version)

(* What is about to be put in the hub's place is the release asked for, and starts. *)
ChecksBeforeSwap ==
  \A r \in Updaters : step[r] \in {"answered", "exiting"} => U!Valid(r)

(* What the hub will be started as is itself or newer. *)
DiskIsNoOlder == binary.version = version \/ U!Newer(binary.version, version)

UpdateInv == UpdateTypes /\ AsksForNewer /\ ChecksBeforeSwap /\ DiskIsNoOlder

(* When compareVersions says that a is above b, there is a part in which   *)
(* it is, and before that one they are alike. *)
LEMMA AboveIsNewer ==
  ASSUME U!UpdateAssumption, NEW a \in Versions, NEW b \in Versions, U!Compare(a, b) = 1
  PROVE  U!Newer(a, b)
<1> DEFINE differ == {i \in 1..MaxParts : U!Part(a, i) # U!Part(b, i)}
<1>1. \A i \in 1..MaxParts : U!Part(a, i) \in Nat /\ U!Part(b, i) \in Nat
  BY DEF U!Part, U!UpdateAssumption, Versions
<1>2. differ # {} /\ ~(U!Part(a, U!Min(differ)) < U!Part(b, U!Min(differ)))
  <2>1. U!Compare(a, b) = IF differ = {} THEN 0
                          ELSE IF U!Part(a, U!Min(differ)) < U!Part(b, U!Min(differ)) THEN -1 ELSE 1
    BY DEF U!Compare
  <2> HIDE DEF differ
  <2> QED BY <2>1
<1>3. PICK x \in differ : \A y \in differ : ~(<<y, x>> \in OpToRel(<, Nat))
  <2>1. differ \subseteq Nat
    OBVIOUS
  <2> HIDE DEF differ
  <2> QED BY <2>1, <1>2, NatLessThanWellFounded, WFMin
<1>4. \A y \in differ : x <= y
  <2>1. x \in Nat /\ \A y \in differ : y \in Nat
    OBVIOUS
  <2> HIDE DEF differ
  <2>2. \A y \in differ : ~(y < x)
    BY <1>3, <2>1 DEF OpToRel
  <2> QED BY <2>1, <2>2
<1>5. U!Min(differ) \in differ /\ \A y \in differ : U!Min(differ) <= y
  <2> HIDE DEF differ
  <2> QED BY <1>3, <1>4 DEF U!Min
<1>6. PICK i \in 1..MaxParts : i = U!Min(differ)
  BY <1>5
<1>7. U!Part(a, i) > U!Part(b, i)
  BY <1>1, <1>2, <1>5, <1>6
<1>8. ASSUME NEW j \in 1..(i - 1) PROVE U!Part(a, j) = U!Part(b, j)
  <2>1. j \in 1..MaxParts /\ ~(i <= j)
    BY <1>6 DEF U!UpdateAssumption
  <2> QED BY <2>1, <1>5, <1>6
<1> QED BY <1>7, <1>8 DEF U!Newer

LEMMA UpdateStart == ASSUME U!Init PROVE UpdateInv
BY DEF U!Init, U!NoFile, U!Unasked, UpdateInv, UpdateTypes, AsksForNewer, ChecksBeforeSwap, DiskIsNoOlder,
  Versions, Executables, UpdateSteps

LEMMA UpdateStep == ASSUME U!UpdateAssumption, UpdateInv, [U!Next]_(U!vars) PROVE UpdateInv'
<1> USE DEF UpdateInv, UpdateTypes, Versions, Executables, UpdateSteps
<1>1. ASSUME NEW r \in Updaters, U!Ask(r) PROVE UpdateInv'
  <2>1. U!Newer(published, version) /\ version # <<>>
    BY <1>1, AboveIsNewer DEF U!Ask, U!UpdateAvailable, U!UpdateAssumption
  <2> QED BY <1>1, <2>1 DEF U!Ask, U!Go, U!world, AsksForNewer, ChecksBeforeSwap, DiskIsNoOlder, U!Valid
<1>2. ASSUME NEW r \in Updaters, U!Refuse(r), UNCHANGED <<U!world, version, binary>> PROVE UpdateInv'
  BY <1>2 DEF U!Refuse, U!NoFile, U!world, AsksForNewer, ChecksBeforeSwap, DiskIsNoOlder, U!Valid
<1>3. ASSUME NEW r \in Updaters, U!Fetch(r) PROVE UpdateInv'
  <2>1. CASE U!Refuse(r)
    BY <1>2, <1>3, <2>1 DEF U!Fetch
  <2>2. CASE ~U!Refuse(r)
    <3>1. PICK d \in {"none", "dead", "subtle"}, v \in {latest[r], version} :
            fetched' = [fetched EXCEPT ![r] = [version |-> v, damage |-> d]]
      BY <1>3, <2>2 DEF U!Fetch
    <3>2. step[r] = "fetching" /\ step' = [step EXCEPT ![r] = "fetched"] /\ UNCHANGED <<latest, published, version, binary>>
      BY <1>3, <2>2 DEF U!Fetch, U!world
    <3>3. [version |-> v, damage |-> d] \in Executables
      BY <3>1
    <3> QED BY <3>1, <3>2, <3>3 DEF AsksForNewer, ChecksBeforeSwap, DiskIsNoOlder, U!Valid
  <2> QED BY <2>1, <2>2
<1>4. ASSUME NEW r \in Updaters, U!Validate(r) PROVE UpdateInv'
  <2>1. CASE U!Refuse(r)
    BY <1>2, <1>4, <2>1 DEF U!Validate
  <2>2. CASE ~U!Refuse(r)
    BY <1>4, <2>2 DEF U!Validate, U!world, AsksForNewer, ChecksBeforeSwap, DiskIsNoOlder, U!Valid
  <2> QED BY <2>1, <2>2
<1>5. ASSUME NEW r \in Updaters, U!Replace(r) PROVE UpdateInv'
  <2>1. CASE U!Refuse(r) /\ UNCHANGED binary
    BY <1>2, <1>5, <2>1 DEF U!Replace
  <2>2. CASE ~(U!Refuse(r) /\ UNCHANGED binary)
    <3>1. binary' = fetched[r] /\ step' = [step EXCEPT ![r] = "exiting"]
          /\ UNCHANGED <<latest, fetched, published, version>> /\ step[r] = "answered"
      BY <1>5, <2>2 DEF U!Replace, U!world
    <3>2. fetched[r].version = latest[r] /\ latest[r] \in Releases /\ U!Newer(latest[r], version)
      BY <3>1 DEF ChecksBeforeSwap, AsksForNewer, U!Valid
    <3>3. fetched[r] \in [version : Versions, damage : {"none", "dead", "subtle"}]
      BY <3>2
    <3> QED BY <3>1, <3>2, <3>3 DEF AsksForNewer, ChecksBeforeSwap, DiskIsNoOlder, U!Valid
  <2> QED BY <2>1, <2>2
<1>6. CASE U!Relaunch
  BY <1>6 DEF U!Relaunch, U!Unasked, U!NoFile, U!world, AsksForNewer, ChecksBeforeSwap, DiskIsNoOlder, U!Valid
<1>7. CASE U!Publish
  BY <1>7 DEF U!Publish, AsksForNewer, ChecksBeforeSwap, DiskIsNoOlder, U!Valid
<1>8. CASE UNCHANGED U!vars
  BY <1>8 DEF U!vars, U!world, AsksForNewer, ChecksBeforeSwap, DiskIsNoOlder, U!Valid
<1> HIDE DEF UpdateInv
<1> QED BY <1>1, <1>3, <1>4, <1>5, <1>6, <1>7, <1>8 DEF U!Next, U!Apply

(* A release only ever takes the place of an older hub whose version is a  *)
(* number, and starts there; what the hub is restarted as is no older than *)
(* it was: for any builds and releases and however many ask, whatever is   *)
(* published or withdrawn meanwhile (handleUpdateApply, updateAvailable).  *)
THEOREM OnlyNewerInstalled == ASSUME U!UpdateAssumption PROVE U!Spec => UpdatesGoUp
<1>1. U!Init => UpdateInv
  BY UpdateStart
<1>2. UpdateInv /\ [U!Next]_(U!vars) => UpdateInv'
  BY UpdateStep
<1>3. UpdateInv /\ [U!Next]_(U!vars) =>
        [/\ binary' # binary => version # <<>> /\ U!Newer(binary'.version, version) /\ binary'.damage # "dead"
         /\ version' # version => U!Newer(version', version)]_(U!vars)
  <2> SUFFICES ASSUME UpdateInv, U!Next
               PROVE  /\ binary' # binary => version # <<>> /\ U!Newer(binary'.version, version) /\ binary'.damage # "dead"
                      /\ version' # version => U!Newer(version', version)
    OBVIOUS
  <2>1. ASSUME NEW r \in Updaters, U!Apply(r), binary' # binary
        PROVE  version # <<>> /\ U!Newer(binary'.version, version) /\ binary'.damage # "dead"
    <3>1. step[r] = "answered" /\ binary' = fetched[r]
      BY <2>1 DEF U!Apply, U!Ask, U!Fetch, U!Validate, U!Replace
    <3> QED BY <3>1 DEF UpdateInv, AsksForNewer, ChecksBeforeSwap, U!Valid
  <2>2. ASSUME NEW r \in Updaters, U!Apply(r) PROVE version' = version
    BY <2>2 DEF U!Apply, U!Ask, U!Fetch, U!Validate, U!Replace
  <2>3. CASE U!Relaunch
    BY <2>3 DEF U!Relaunch, UpdateInv, DiskIsNoOlder
  <2>4. CASE U!Publish
    BY <2>4 DEF U!Publish
  <2> QED BY <2>1, <2>2, <2>3, <2>4 DEF U!Next
<1> QED BY <1>1, <1>2, <1>3, PTL DEF U!Spec, UpdatesGoUp, U!UpdatesGoUp

-----------------------------------------------------------------------------
(* Settings in force, and written through (HostPrefs). *)

(* What the proofs about folds rest on: numbers have a least and a         *)
(* greatest, and so a finite set whose elements are taken one by one in a  *)
(* way that picks is folded by a function, for any step that stays in a    *)
(* set of values.  This is induction over sets: a least counterexample.    *)
LEMMA LeastOf == ASSUME NEW S, S \subseteq Nat, S # {} PROVE \E x \in S : \A y \in S : x <= y
<1>1. PICK x \in S : \A y \in S : ~(<<y, x>> \in OpToRel(<, Nat))
  BY NatLessThanWellFounded, WFMin
<1>2. \A y \in S : ~(y < x)
  BY <1>1 DEF OpToRel
<1> QED BY <1>2

LEMMA LargestOf == ASSUME NEW S, NEW n \in Nat, S \subseteq 0..n, S # {} PROVE \E x \in S : \A y \in S : y <= x
<1> DEFINE T == {n - x : x \in S}
<1>1. T \subseteq Nat /\ T # {}
  <2>1. \A x \in S : n - x \in Nat
    OBVIOUS
  <2> QED BY <2>1
<1>2. PICK z \in T : \A y \in T : z <= y
  <2> HIDE DEF T
  <2> QED BY <1>1, LeastOf
<1>3. PICK x \in S : z = n - x
  OBVIOUS
<1>4. \A y \in S : n - x <= n - y /\ y \in Nat
  BY <1>2, <1>3
<1> HIDE DEF T
<1> QED BY <1>4

(* A way of picking an element, a step on values, and the fold they make. *)
Picks(pick, S) == \A s \in SUBSET S : s # {} => pick[s] \in s
StaysIn(G, S, V) == \A x \in S, v \in V : G[<<x, v>>] \in V
Folds(f, G, base, pick, S) ==
  f = [s \in SUBSET S |-> IF s = {} THEN base ELSE G[<<pick[s], f[s \ {pick[s]}]>>]]

LEMMA FoldExists ==
  ASSUME NEW S, IsFiniteSet(S), NEW V, NEW base \in V, NEW pick, Picks(pick, S), NEW G, StaysIn(G, S, V)
  PROVE  \E f \in [SUBSET S -> V] : Folds(f, G, base, pick, S)
<1> USE DEF Picks, StaysIn, Folds
<1> DEFINE Small(n) == {s \in SUBSET S : Cardinality(s) <= n}
           Good(n, f) == f \in [SUBSET S -> V] /\ \A s \in Small(n) : f[s] = IF s = {} THEN base ELSE G[<<pick[s], f[s \ {pick[s]}]>>]
           wrong == {n \in Nat : ~\E f : Good(n, f)}
<1>1. \A s \in SUBSET S : IsFiniteSet(s) /\ Cardinality(s) \in Nat /\ Cardinality(s) <= Cardinality(S)
  BY FS_Subset, FS_CardinalityType
<1>2. \A s \in SUBSET S : s # {} => Cardinality(s \ {pick[s]}) = Cardinality(s) - 1 /\ s \ {pick[s]} \in SUBSET S
  BY <1>1, FS_RemoveElement
<1>3. \A s \in SUBSET S : Cardinality(s) = 0 <=> s = {}
  BY <1>1, FS_EmptySet
<1>4. wrong = {}
  <2> SUFFICES ASSUME wrong # {} PROVE FALSE
    OBVIOUS
  <2>1. PICK n \in wrong : \A k \in wrong : n <= k
    BY LeastOf
  <2>2. CASE n = 0
    <3> DEFINE f == [s \in SUBSET S |-> base]
    <3>1. Good(0, f)
      BY <1>1, <1>3
    <3> QED BY <2>2, <3>1
  <2>3. CASE n # 0
    <3>1. n - 1 \in Nat /\ n - 1 \notin wrong /\ n \in Nat
      <4>1. n \in Nat
        OBVIOUS
      <4> HIDE DEF wrong
      <4> QED BY <2>1, <2>3, <4>1
    <3>2. PICK f : Good(n - 1, f)
      BY <3>1
    <3> DEFINE g == [s \in SUBSET S |-> IF s \in Small(n - 1) THEN f[s] ELSE IF s = {} THEN base ELSE G[<<pick[s], f[s \ {pick[s]}]>>]]
    <3>3. g \in [SUBSET S -> V]
      BY <3>2, <1>2
    <3>4. ASSUME NEW s \in Small(n) PROVE g[s] = IF s = {} THEN base ELSE G[<<pick[s], g[s \ {pick[s]}]>>]
      <4>1. CASE s = {}
        BY <4>1, <3>2, <1>3, <1>1
      <4>2. CASE s # {}
        <5>1. s \ {pick[s]} \in Small(n - 1)
          BY <4>2, <1>2, <1>1, <3>1
        <5>2. g[s \ {pick[s]}] = f[s \ {pick[s]}]
          BY <5>1
        <5>3. g[s] = G[<<pick[s], f[s \ {pick[s]}]>>]
          BY <3>2, <4>2
        <5> QED BY <5>2, <5>3, <4>2
      <4> QED BY <4>1, <4>2
    <3>5. Good(n, g)
      <4> HIDE DEF g
      <4> QED BY <3>3, <3>4
    <3>6. n \notin wrong
      <4> HIDE DEF Good, g
      <4> QED BY ONLY <3>5
    <3> QED BY ONLY <3>6, <2>1
  <2> QED BY <2>2, <2>3
<1>5. Cardinality(S) \in Nat
  BY FS_CardinalityType
<1>6. PICK f : Good(Cardinality(S), f)
  BY <1>4, <1>5
<1>7. Small(Cardinality(S)) = SUBSET S
  BY <1>1
<1>8. f = [s \in SUBSET S |-> IF s = {} THEN base ELSE G[<<pick[s], f[s \ {pick[s]}]>>]]
  BY <1>6, <1>7
<1> QED BY <1>6, <1>8

(* The greatest of the first numbers. *)
LEMMA LastOfFirst == ASSUME NEW n \in Nat, NEW k \in 1..n PROVE P!Max(1..k) = k /\ (1..k) \ {k} = 1..(k - 1)
<1>1. k \in 1..k /\ \A y \in 1..k : k >= y
  OBVIOUS
<1>2. \A x \in 1..k : (\A y \in 1..k : x >= y) => x = k
  OBVIOUS
<1>3. P!Max(1..k) = k
  BY <1>1, <1>2 DEF P!Max
<1> QED BY <1>3

(* Layer by layer of one rank: the fold, from one policy to the next.      *)
LEMMA LayerRuns ==
  ASSUME P!SelectorsAssumption, NEW h, NEW r, NEW below
  PROVE  \E acc : /\ acc[0] = below /\ acc[Len(Policies)] = P!Layer(h, r, below)
                  /\ \A k \in 1..Len(Policies) :
                       acc[k] = IF P!Applies(Policies[k], h) /\ Ranks[Policies[k]] = r
                                THEN P!Override(acc[k - 1], Policies[k]) ELSE acc[k - 1]
<1> DEFINE dom == DOMAIN Policies
           Step(i, cpu) == IF P!Applies(Policies[i], h) /\ Ranks[Policies[i]] = r THEN P!Override(cpu, Policies[i]) ELSE cpu
           V == {below} \cup {P!Pref(s).cpu : s \in P!ToSet(Policies)}
           G == [x \in dom \X V |-> Step(x[1], x[2])]
           pick == [s \in SUBSET dom |-> P!Max(s)]
<1> dom = 1..Len(Policies) /\ Len(Policies) \in Nat
  BY DEF P!SelectorsAssumption
<1>1. \A i \in dom, v \in V : Step(i, v) \in V
  BY DEF P!Override, P!ToSet
<1>2. \A s \in SUBSET dom : s # {} => pick[s] \in s
  <2> SUFFICES ASSUME NEW s \in SUBSET dom, s # {} PROVE pick[s] \in s
    OBVIOUS
  <2>1. PICK x \in s : \A y \in s : y <= x
    <3>1. s \subseteq 0..Len(Policies) /\ s # {} /\ Len(Policies) \in Nat
      <4> HIDE DEF Step, V, G, pick
      <4> QED OBVIOUS
    <3> HIDE DEF Step, V, G, pick, dom
    <3> QED BY ONLY <3>1, LargestOf
  <2>2. x \in s /\ \A y \in s : x >= y
    BY <2>1
  <2> QED BY <2>2 DEF P!Max
<1>3. IsFiniteSet(dom)
  BY FS_Interval
<1>4. PICK f \in [SUBSET dom -> V] : Folds(f, G, below, pick, dom)
  <2>1. StaysIn(G, dom, V)
    BY <1>1 DEF StaysIn
  <2>2. below \in V /\ Picks(pick, dom)
    BY <1>2 DEF Picks
  <2> HIDE DEF G, pick, V, dom
  <2> QED BY ONLY <2>1, <2>2, <1>3, FoldExists
<1> DEFINE Body(it) == [s \in SUBSET dom |-> IF s = {} THEN below ELSE Step(P!Max(s), it[s \ {P!Max(s)}])]
<1>5. f = Body(f)
  <2>1. ASSUME NEW s \in SUBSET dom, s # {} PROVE G[<<pick[s], f[s \ {pick[s]}]>>] = Step(P!Max(s), f[s \ {P!Max(s)}])
    <3>1. pick[s] = P!Max(s) /\ P!Max(s) \in dom
      BY <1>2, <2>1
    <3>2. f[s \ {P!Max(s)}] \in V
      BY <1>4
    <3> HIDE DEF Step, V
    <3> QED BY <3>1, <3>2
  <2> HIDE DEF Step, V, G, pick
  <2> QED BY <2>1, <1>4 DEF Folds
<1> DEFINE it == CHOOSE z : z = Body(z)
<1>6. it = Body(it)
  <2> HIDE DEF Body
  <2> QED BY <1>5
<1>7. P!Layer(h, r, below) = it[dom]
  BY DEF P!Layer, P!FoldLeft, P!MapThenFoldSet
<1> DEFINE acc == [k \in 0..Len(Policies) |-> it[1..k]]
<1>8. acc[0] = below
  <2>1. it[{}] = below
    <3> HIDE DEF it, Step
    <3> QED BY <1>6
  <2>2. 1..0 = {}
    OBVIOUS
  <2> HIDE DEF it
  <2> QED BY <2>1, <2>2
<1>9. ASSUME NEW k \in 1..Len(Policies) PROVE acc[k] = Step(k, acc[k - 1])
  <2>1. P!Max(1..k) = k /\ (1..k) \ {k} = 1..(k - 1)
    BY LastOfFirst
  <2>2. 1..k \in SUBSET dom /\ 1..k # {} /\ k - 1 \in 0..Len(Policies)
    OBVIOUS
  <2> HIDE DEF it, Step, dom
  <2>3. it[1..k] = Step(k, it[1..(k - 1)])
    BY <2>1, <2>2, <1>6
  <2> QED BY <2>3, <2>2
<1>10. acc[Len(Policies)] = P!Layer(h, r, below)
  <2> HIDE DEF it
  <2> QED BY <1>7
<1> HIDE DEF acc
<1> QED BY <1>8, <1>9, <1>10

LEMMA MaxIs == ASSUME NEW S, S \subseteq Nat, NEW x \in S, \A y \in S : y <= x PROVE P!Max(S) = x
<1>1. x \in S /\ \A y \in S : x >= y
  OBVIOUS
<1>2. \A z \in S : (\A y \in S : z >= y) => z = x
  OBVIOUS
<1> QED BY <1>1, <1>2 DEF P!Max

(* The policies of a rank that set a threshold of a host. *)
OfRank(h, r) == {i \in P!Setting(h) : Ranks[Policies[i]] = r}

(* Of the policies of a rank the last that sets it decides, if any does. *)
LEMMA LastOfRankDecides ==
  ASSUME P!SelectorsAssumption, NEW h, NEW r, NEW below
  PROVE  P!Layer(h, r, below) = IF OfRank(h, r) = {} THEN below ELSE m[Policies[P!Max(OfRank(h, r))]].cpu
<1> DEFINE n == Len(Policies)
           upTo(k) == {i \in OfRank(h, r) : i <= k}
<1>1. n \in Nat /\ DOMAIN Policies = 1..n
  BY DEF P!SelectorsAssumption
<1>2. PICK acc : /\ acc[0] = below /\ acc[n] = P!Layer(h, r, below)
                 /\ \A k \in 1..n : acc[k] = IF P!Applies(Policies[k], h) /\ Ranks[Policies[k]] = r
                                             THEN P!Override(acc[k - 1], Policies[k]) ELSE acc[k - 1]
  BY LayerRuns
<1>3. OfRank(h, r) \subseteq 1..n
  BY <1>1 DEF OfRank, P!Setting
<1> DEFINE wrong == {k \in 0..n : acc[k] # IF upTo(k) = {} THEN below ELSE m[Policies[P!Max(upTo(k))]].cpu}
<1>4. wrong = {}
  <2> SUFFICES ASSUME wrong # {} PROVE FALSE
    OBVIOUS
  <2>1. wrong \subseteq Nat
    BY <1>1
  <2>2. PICK k \in wrong : \A j \in wrong : k <= j
    <3> HIDE DEF wrong
    <3> QED BY ONLY <2>1, wrong # {}, LeastOf
  <2>3. upTo(0) = {}
    BY <1>1, <1>3
  <2>4. k \in 1..n
    BY <2>3, <1>2, <1>1
  <2>5. acc[k - 1] = IF upTo(k - 1) = {} THEN below ELSE m[Policies[P!Max(upTo(k - 1))]].cpu
    <3>1. k - 1 \notin wrong /\ k - 1 \in 0..n
      <4> HIDE DEF wrong
      <4> QED BY <2>2, <2>4, <1>1
    <3> QED BY <3>1
  <2>6. CASE k \in OfRank(h, r)
    <3>1. P!Applies(Policies[k], h) /\ Ranks[Policies[k]] = r /\ m[Policies[k]].cpu > 0
      BY <2>6 DEF OfRank, P!Setting
    <3>2. acc[k] = m[Policies[k]].cpu
      BY <3>1, <1>2, <2>4 DEF P!Override, P!Pref, P!Applies
    <3>3. upTo(k) \subseteq Nat /\ k \in upTo(k) /\ \A i \in upTo(k) : i <= k
      BY <2>6, <1>3, <2>4
    <3>4. P!Max(upTo(k)) = k
      <4> HIDE DEF upTo
      <4> QED BY ONLY <3>3, MaxIs
    <3> QED BY <3>2, <3>3, <3>4
  <2>7. CASE k \notin OfRank(h, r)
    <3>1. upTo(k) = upTo(k - 1)
      BY <2>7, <1>3, <2>4
    <3>2. acc[k] = acc[k - 1]
      <4>1. ~(P!Applies(Policies[k], h) /\ Ranks[Policies[k]] = r /\ m[Policies[k]].cpu > 0)
        BY <2>7, <2>4, <1>1 DEF OfRank, P!Setting
      <4> QED BY <4>1, <1>2, <2>4 DEF P!Override, P!Pref, P!Applies
    <3> QED BY <3>1, <3>2, <2>5
  <2> QED BY <2>6, <2>7
<1>5. upTo(n) = OfRank(h, r)
  BY <1>3, <1>1
<1>6. n \notin wrong /\ n \in 0..n
  <2> HIDE DEF wrong
  <2> QED BY <1>4, <1>1
<1> QED BY <1>2, <1>5, <1>6

(* The threshold in force is the narrowest, whatever the settings are.     *)
LEMMA NarrowestDecides == ASSUME P!SelectorsAssumption PROVE P!NarrowestWins
<1> SUFFICES ASSUME NEW h \in SetHosts
             PROVE  P!Resolve(h).cpu = IF P!Pref(h).cpu > 0 THEN P!Pref(h).cpu
                                       ELSE IF P!Setting(h) = {} THEN 0
                                       ELSE m[Policies[P!Max(P!Narrowest(P!Setting(h)))]].cpu
  BY DEF P!NarrowestWins
<1> DEFINE wins(below, r) == IF OfRank(h, r) = {} THEN below ELSE m[Policies[P!Max(OfRank(h, r))]].cpu
<1>1. P!Resolve(h).cpu = IF P!Pref(h).cpu > 0 THEN P!Pref(h).cpu ELSE wins(wins(wins(0, 0), 1), 2)
  BY LastOfRankDecides DEF P!Resolve, P!Override
<1>2. \A i \in P!Setting(h) : Ranks[Policies[i]] \in 0..2
  BY DEF P!SelectorsAssumption, P!Setting, P!ToSet
<1>3. ASSUME NEW r \in 0..2, OfRank(h, r) # {}, \A q \in 0..2 : q > r => OfRank(h, q) = {}
      PROVE  P!Narrowest(P!Setting(h)) = OfRank(h, r)
  BY <1>2, <1>3 DEF P!Narrowest, OfRank
<1>4. P!Setting(h) = {} => \A r \in 0..2 : OfRank(h, r) = {}
  BY DEF OfRank
<1>5. P!Setting(h) # {} => \E r \in 0..2 : OfRank(h, r) # {}
  BY <1>2 DEF OfRank
<1>6. CASE P!Setting(h) = {}
  BY <1>1, <1>4, <1>6
<1>7. CASE OfRank(h, 2) # {}
  BY <1>1, <1>3, <1>4, <1>7
<1>8. CASE OfRank(h, 2) = {} /\ OfRank(h, 1) # {}
  BY <1>1, <1>3, <1>4, <1>8
<1>9. CASE OfRank(h, 2) = {} /\ OfRank(h, 1) = {} /\ OfRank(h, 0) # {}
  BY <1>1, <1>3, <1>4, <1>9
<1> QED BY <1>5, <1>6, <1>7, <1>8, <1>9

(* One setter at work: what it will write is the map in memory, over a     *)
(* file that it has emptied; and when it is done, the file is the map.     *)
OneSetter ==
  /\ pc \in [Setters -> {"idle", "writing", "truncated"}] /\ DOMAIN image = Setters
  /\ \A s \in Setters :
       /\ pc[s] = "idle" => disk.prefs = m
       /\ pc[s] # "idle" => image[s] = m
       /\ pc[s] = "truncated" => disk = P!Unreadable("empty")

(* With one request at a time that writes settings, a restart brings back  *)
(* what the hub uses whenever no change is being written, and a stop in    *)
(* the middle of a change, which loses what the file held, leaves the two  *)
(* alike once the hub is back (hostprefs.go: "written through on change"): *)
(* for any settings and any number of changes and stops.                   *)
LEMMA SettingsSurvive == ASSUME NEW s1 \in Setters, Setters = {s1} PROVE P!Spec => []P!WrittenThrough
<1>1. P!Init => OneSetter
  BY DEF P!Init, OneSetter, P!Whole
<1>2. OneSetter /\ [P!Next]_(P!vars) => OneSetter'
  <2> SUFFICES ASSUME OneSetter, [P!Next]_(P!vars) PROVE OneSetter'
    OBVIOUS
  <2> USE DEF OneSetter
  <2>1. ASSUME NEW s \in Setters, NEW k, NEW p, P!Set(s, k, p) PROVE OneSetter'
    <3>1. pc' = [pc EXCEPT ![s] = "writing"] /\ image' = [image EXCEPT ![s] = m'] /\ UNCHANGED disk
      BY <2>1 DEF P!Set
    <3> QED BY <3>1
  <2>2. ASSUME NEW s \in Setters, P!Truncate(s) PROVE OneSetter'
    BY <2>2 DEF P!Truncate
  <2>3. ASSUME NEW s \in Setters, P!Write(s) PROVE OneSetter'
    <3>1. disk' = P!Whole(image[s]) /\ pc' = [pc EXCEPT ![s] = "idle"] /\ UNCHANGED m /\ image[s] = m
          /\ image' = [image EXCEPT ![s] = P!NoPrefs]
      BY <2>3 DEF P!Write
    <3>2. disk'.prefs = m
      BY <3>1 DEF P!Whole
    <3> QED BY <3>1, <3>2
  <2>4. CASE P!Restart
    BY <2>4 DEF P!Restart
  <2>5. CASE UNCHANGED P!vars
    BY <2>5 DEF P!vars
  <2> QED BY <2>1, <2>2, <2>3, <2>4, <2>5 DEF P!Next
<1>3. OneSetter => P!WrittenThrough
  BY DEF OneSetter, P!WrittenThrough
<1> QED BY <1>1, <1>2, <1>3, PTL DEF P!Spec

(* The threshold in force for a host is its own or, failing that, that of  *)
(* the narrowest policy that sets one and matches it, the last by key, in  *)
(* whatever order the settings were written (resolve); and a restart       *)
(* brings the settings back: for any hosts, policies and settings, and any *)
(* number of changes and stops, of one setter.                             *)
THEOREM SettingsAreInForce ==
  ASSUME P!SelectorsAssumption, NEW s1 \in Setters, Setters = {s1}
  PROVE  P!Spec => []SettingsHold
<1>1. P!NarrowestWins
  BY NarrowestDecides
<1>2. P!Spec => []P!WrittenThrough
  BY SettingsSurvive
<1> QED BY <1>1, <1>2, PTL DEF SettingsHold, P!SettingsHold

-----------------------------------------------------------------------------
(* What is kept of the past (HubArchive). *)

(* Quotients, rounded down, and what is left. *)
LEMMA QuotientIs ==
  ASSUME NEW a \in Int, NEW w \in Nat \ {0}
  PROVE  a \div w \in Int /\ (a \div w) * w <= a /\ a < (a \div w) * w + w
OBVIOUS

LEMMA RemainderIs == ASSUME NEW a \in Int, NEW w \in Nat \ {0} PROVE a % w = a - (a \div w) * w
BY SMTT(60)

LEMMA MultiplesApart == ASSUME NEW i \in Int, NEW j \in Int, NEW w \in Nat \ {0}, i < j PROVE i * w + w <= j * w
OBVIOUS

(* A finite set of numbers has a greatest, for sets by a least             *)
(* counterexample again. *)
LEMMA GreatestOf == ASSUME NEW S, S \subseteq Nat, IsFiniteSet(S), S # {} PROVE H!Max(S) \in S /\ \A y \in S : y <= H!Max(S)
<1> DEFINE without == {s \in SUBSET S : s # {} /\ ~\E x \in s : \A y \in s : y <= x}
           sizes == {Cardinality(s) : s \in without}
<1>1. without = {}
  <2> SUFFICES ASSUME without # {} PROVE FALSE
    OBVIOUS
  <2>1. \A s \in SUBSET S : IsFiniteSet(s) /\ Cardinality(s) \in Nat
    BY FS_Subset, FS_CardinalityType
  <2>2. sizes \subseteq Nat /\ sizes # {}
    BY <2>1
  <2>3. PICK k \in sizes : \A j \in sizes : k <= j
    <3> HIDE DEF sizes
    <3> QED BY ONLY <2>2, LeastOf
  <2>4. PICK s \in without : k = Cardinality(s)
    OBVIOUS
  <2>5. PICK x \in s : TRUE
    BY <2>4
  <2>6. s \ {x} \in SUBSET S /\ Cardinality(s \ {x}) = k - 1
    BY <2>1, <2>4, FS_RemoveElement
  <2>7. s \ {x} \notin without
    <3>1. Cardinality(s \ {x}) \notin sizes
      <4> HIDE DEF sizes
      <4> QED BY <2>1, <2>3, <2>2, <2>6
    <3> QED BY <3>1
  <2>8. CASE s \ {x} = {}
    BY <2>8, <2>4
  <2>9. CASE s \ {x} # {}
    <3>1. PICK z \in s \ {x} : \A y \in s \ {x} : y <= z
      BY <2>6, <2>7, <2>9
    <3>2. \A y \in s : y \in Nat
      BY <2>4
    <3> QED BY <3>1, <3>2, <2>4
  <2> QED BY <2>8, <2>9
<1>2. PICK x \in S : \A y \in S : y <= x
  BY <1>1
<1>3. x \in S /\ \A y \in S : x >= y
  BY <1>2
<1> QED BY <1>3 DEF H!Max

Messages == [received : Nat, claimed : Int, source : STRING \cup Senders, meant : Int]
Back(i) == IF i <= next THEN next - i ELSE next - i + Keep

(* The ring holds the log, the newest message just before where the next   *)
(* one goes.                                                               *)
RingIsLog ==
  /\ next \in 0..(Keep - 1) /\ wrapped \in BOOLEAN /\ DOMAIN ring = 0..(Keep - 1)
  /\ log \in Seq(Messages) /\ Len(log) = IF wrapped THEN Keep ELSE next
  /\ \A i \in 1..Len(log) : ring[Back(i)] = log[Len(log) + 1 - i]

TrailGoesUp ==
  /\ events \in Seq(Nat)
  /\ steady => \A i \in 1..Len(events) : events[i] <= clock /\ \A j \in 1..i : events[j] <= events[i]

Samples == [host : Sampled, ts : Nat, peak : Nat]
(* The inductive invariant: the samples are finitely many and none is of a *)
(* removed host, the ring is the log, what is claimed in the log was read   *)
(* right, and the trail goes up while the clock does. *)
ArchiveInv ==
  /\ clock \in Nat /\ points \in SUBSET Samples /\ IsFiniteSet(points)
  /\ gone \cap known = {} /\ H!RemovedIsGone
  /\ RingIsLog /\ H!ClaimsAreRight /\ TrailGoesUp

(* A message is added: the ring turns by one, however full it was. *)
LEMMA RingStep ==
  ASSUME H!ArchiveAssumption, RingIsLog, NEW msg \in Messages,
         ring' = [ring EXCEPT ![next] = msg], next' = H!Advance.next, wrapped' = H!Advance.full,
         log' = IF Len(log) < Keep THEN Append(log, msg) ELSE Append(Tail(log), msg)
  PROVE  RingIsLog'
<1> USE DEF RingIsLog
<1>1. Keep \in Nat \ {0} /\ Len(log) \in Nat
  BY DEF H!ArchiveAssumption
<1>2. /\ next' = IF next + 1 = Keep THEN 0 ELSE next + 1
      /\ wrapped' = (wrapped \/ next + 1 = Keep)
  BY DEF H!Advance
<1>3. next' \in 0..(Keep - 1) /\ wrapped' \in BOOLEAN /\ DOMAIN ring' = 0..(Keep - 1)
  BY <1>1, <1>2
<1>4. log' \in Seq(Messages) /\ Len(log') = IF wrapped' THEN Keep ELSE next'
  <2>1. CASE Len(log) < Keep
    BY <2>1, <1>1, <1>2
  <2>2. CASE ~(Len(log) < Keep)
    <3>1. wrapped /\ Len(log) = Keep /\ log # <<>>
      BY <2>2, <1>1
    <3>2. Tail(log) \in Seq(Messages) /\ Len(Tail(log)) = Keep - 1
      BY <3>1, <1>1
    <3>3. log' = Append(Tail(log), msg) /\ wrapped'
      BY <3>1, <2>2, <1>2
    <3>4. Append(Tail(log), msg) \in Seq(Messages) /\ Len(Append(Tail(log), msg)) = Keep
      BY <3>2, <1>1
    <3> QED BY <3>3, <3>4
  <2> QED BY <2>1, <2>2
<1>5. Back(1)' = next
  BY <1>1, <1>2 DEF Back
<1>6. \A i \in 2..Len(log') : Back(i)' = Back(i - 1) /\ Back(i - 1) # next /\ i - 1 \in 1..Len(log)
  BY <1>1, <1>2, <1>4 DEF Back
<1>7. Len(log') >= 1 /\ log'[Len(log')] = msg
  <2>1. CASE Len(log) < Keep
    BY <2>1, <1>1
  <2>2. CASE ~(Len(log) < Keep)
    <3>1. Tail(log) \in Seq(Messages)
      BY <2>2, <1>1
    <3> QED BY <3>1, <2>2
  <2> QED BY <2>1, <2>2
<1>8. \A i \in 2..Len(log') : log'[Len(log') + 1 - i] = log[Len(log) + 1 - (i - 1)]
  <2>1. CASE Len(log) < Keep
    BY <2>1, <1>1
  <2>2. CASE ~(Len(log) < Keep)
    <3>1. Len(log) = Keep /\ log # <<>>
      BY <2>2, <1>1
    <3>2. Tail(log) \in Seq(Messages) /\ Len(Tail(log)) = Keep - 1 /\ \A j \in 1..(Keep - 1) : Tail(log)[j] = log[j + 1]
      BY <3>1, <1>1
    <3> QED BY <3>1, <3>2, <2>2, <1>1
  <2> QED BY <2>1, <2>2
<1>9. ASSUME NEW i \in 1..Len(log') PROVE ring'[Back(i)'] = log'[Len(log') + 1 - i]
  <2>1. CASE i = 1
    BY <2>1, <1>5, <1>7, <1>1
  <2>2. CASE i # 1
    <3>1. i \in 2..Len(log')
      BY <2>2
    <3>2. Back(i)' = Back(i - 1) /\ Back(i - 1) # next /\ i - 1 \in 1..Len(log)
      BY <3>1, <1>6
    <3>3. ring'[Back(i - 1)] = ring[Back(i - 1)]
      BY <3>2
    <3> QED BY <3>1, <3>2, <3>3, <1>8
  <2> QED BY <2>1, <2>2
<1> QED BY <1>3, <1>4, <1>9

LEMMA ArchiveStart == ASSUME H!ArchiveAssumption, H!Init PROVE ArchiveInv
<1> USE DEF H!ArchiveAssumption, H!Init
<1>1. clock \in Nat /\ points \in SUBSET Samples /\ IsFiniteSet(points)
  BY FS_EmptySet
<1>2. gone \cap known = {} /\ H!RemovedIsGone /\ H!ClaimsAreRight
  BY DEF H!RemovedIsGone, H!ClaimsAreRight
<1>3. RingIsLog
  <2>1. Keep \in Nat \ {0} /\ DOMAIN ring = 0..(Keep - 1)
    BY DEF H!Empty
  <2>2. log = <<>> /\ next = 0 /\ wrapped = FALSE
    OBVIOUS
  <2>3. log \in Seq(Messages) /\ Len(log) = 0
    BY <2>2
  <2> HIDE DEF H!Init, H!ArchiveAssumption
  <2>4. next \in 0..(Keep - 1) /\ wrapped \in BOOLEAN /\ Len(log) = (IF wrapped THEN Keep ELSE next)
    BY <2>1, <2>2, <2>3
  <2>5. \A i \in 1..Len(log) : ring[Back(i)] = log[Len(log) + 1 - i]
    BY <2>3
  <2> QED BY <2>1, <2>3, <2>4, <2>5 DEF RingIsLog
<1>4. TrailGoesUp
  BY DEF TrailGoesUp
<1> QED BY <1>1, <1>2, <1>3, <1>4 DEF ArchiveInv

(* What a device tells of its time is read as it was meant. *)
LEMMA ReadAsMeant ==
  ASSUME H!ArchiveAssumption, clock \in Nat, NEW device \in Int,
         device > clock => device \div YearLength = clock \div YearLength /\ device <= clock + Slack,
         device > clock + Slack - YearLength
  PROVE  H!WithoutYear(device % YearLength) = device
<1>1. YearLength \in Nat \ {0} /\ Slack \in Nat
  BY DEF H!ArchiveAssumption
<1> DEFINE c == clock \div YearLength
           d == device \div YearLength
<1>2. c \in Int /\ c * YearLength <= clock /\ clock < c * YearLength + YearLength
  BY <1>1, QuotientIs
<1>3. d \in Int /\ d * YearLength <= device /\ device < d * YearLength + YearLength
  BY <1>1, QuotientIs
<1>4. device % YearLength = device - d * YearLength
  BY <1>1, RemainderIs
<1>5. PICK cy \in Int, dy \in Int : cy = c * YearLength /\ dy = d * YearLength
  BY <1>1, <1>2, <1>3
<1>6. PICK ts \in Int : ts = cy + (device - dy)
  OBVIOUS
<1>13. H!WithoutYear(device % YearLength) = IF ts > clock + Slack THEN ts - YearLength ELSE ts
  <2> DEFINE told == (clock \div YearLength) * YearLength + (device % YearLength)
  <2>1. told = ts
    BY <1>4, <1>5, <1>6
  <2>2. H!WithoutYear(device % YearLength) = IF told > clock + Slack THEN told - YearLength ELSE told
    BY DEF H!WithoutYear
  <2> HIDE DEF told
  <2> QED BY <2>1, <2>2
<1>7. d < c => dy + YearLength <= cy
  BY <1>1, <1>2, <1>3, <1>5, MultiplesApart
<1>8. c < d => cy + YearLength <= dy
  BY <1>1, <1>2, <1>3, <1>5, MultiplesApart
<1>9. d < c - 1 => dy + YearLength <= cy - YearLength
  <2>1. (c - 1) * YearLength = cy - YearLength
    BY <1>1, <1>2, <1>5
  <2> QED BY <1>1, <1>2, <1>3, <1>5, <2>1, MultiplesApart
<1> HIDE DEF c, d
<1>10. CASE d = c
  <2>1. cy = dy
    BY <1>5, <1>10
  <2>2. ts = device
    BY ONLY <2>1, <1>6, <1>5, device \in Int
  <2>3. ~(ts > clock + Slack)
    BY ONLY <2>2, <1>1, clock \in Nat, device \in Int, device > clock => device <= clock + Slack
  <2> QED BY <2>2, <2>3, <1>13
<1>11. CASE d < c
  <2>1. d = c - 1
    BY <1>9, <1>11, <1>1, <1>2, <1>3, <1>5
  <2>2. dy = cy - YearLength
    BY <2>1, <1>1, <1>2, <1>5
  <2>3. ts = device + YearLength
    BY ONLY <2>2, <1>6, <1>5, <1>1, device \in Int
  <2>4. ts > clock + Slack
    BY <2>3, <1>1
  <2>5. ts - YearLength = device
    BY ONLY <2>3, <1>1, device \in Int
  <2> QED BY <2>4, <2>5, <1>13
<1>12. CASE c < d
  BY <1>8, <1>12, <1>1, <1>2, <1>3, <1>5 DEF c, d
<1> QED BY <1>10, <1>11, <1>12, <1>2, <1>3

(* A message whose date is read as it was meant, if it can be. *)
Reads(x) ==
  /\ x.meant > x.received => x.meant \div YearLength = x.received \div YearLength /\ x.meant <= x.received + Slack
  /\ x.claimed # 0 /\ x.meant > x.received + Slack - YearLength
  => x.claimed = x.meant

LEMMA ClaimsAre == H!ClaimsAreRight <=> \A i \in 1..Len(log) : Reads(log[i])
BY DEF H!ClaimsAreRight, Reads

LEMMA ReceivedIsRead ==
  ASSUME H!ArchiveAssumption, clock \in Nat, NEW s \in Senders, NEW lag \in Lags, NEW style \in Styles,
         NEW msg, msg = [received |-> clock, claimed |-> H!Claimed(style, clock + lag), source |-> s,
                         meant |-> IF style = "none" THEN 0 ELSE clock + lag]
  PROVE  msg \in Messages /\ Reads(msg)
<1>1. YearLength \in Nat \ {0} /\ Slack \in Nat /\ lag \in Int /\ style \in {"full", "classic", "none"}
  BY DEF H!ArchiveAssumption
<1>2. PICK device \in Int : device = clock + lag
  BY <1>1
<1>3. H!WithoutYear(device % YearLength) \in Int
  <2>1. (clock \div YearLength) * YearLength \in Int /\ device % YearLength \in Int
    BY <1>1, QuotientIs, RemainderIs
  <2> DEFINE told == (clock \div YearLength) * YearLength + (device % YearLength)
  <2>2. told \in Int
    BY <2>1
  <2>3. H!WithoutYear(device % YearLength) = IF told > clock + Slack THEN told - YearLength ELSE told
    BY DEF H!WithoutYear
  <2> HIDE DEF told
  <2> QED BY <1>1, <2>2, <2>3
<1>4. CASE style = "full"
  BY <1>4, <1>1, <1>2 DEF H!Claimed, Messages, Reads
<1>5. CASE style = "none"
  BY <1>5, <1>1, <1>2 DEF H!Claimed, Messages, Reads
<1>6. CASE style = "classic"
  <2>1. msg = [received |-> clock, claimed |-> H!WithoutYear(device % YearLength), source |-> s, meant |-> device]
    BY <1>6, <1>2 DEF H!Claimed
  <2>2. msg \in Messages
    BY <2>1, <1>2, <1>3 DEF Messages
  <2>3. ASSUME device > clock => device \div YearLength = clock \div YearLength /\ device <= clock + Slack,
               device > clock + Slack - YearLength
        PROVE  H!WithoutYear(device % YearLength) = device
    BY <2>3, <1>2, ReadAsMeant
  <2> QED BY <2>1, <2>2, <2>3 DEF Reads
<1> QED BY <1>1, <1>4, <1>5, <1>6

LEMMA ArchiveRing ==
  ASSUME H!ArchiveAssumption, clock \in Nat, RingIsLog, H!ClaimsAreRight,
         NEW s \in Senders, NEW lag \in Lags, NEW style \in Styles, H!Receive(s, lag, style)
  PROVE  RingIsLog' /\ H!ClaimsAreRight'
<1> DEFINE msg == [received |-> clock, claimed |-> H!Claimed(style, clock + lag), source |-> s,
                   meant |-> IF style = "none" THEN 0 ELSE clock + lag]
<1>1. /\ ring' = [ring EXCEPT ![next] = msg] /\ next' = H!Advance.next /\ wrapped' = H!Advance.full
      /\ log' = IF Len(log) < Keep THEN Append(log, msg) ELSE Append(Tail(log), msg)
  BY DEF H!Receive
<1>2. msg \in Messages /\ Reads(msg)
  BY ReceivedIsRead
<1> HIDE DEF msg
<1>3. RingIsLog'
  BY <1>1, <1>2, RingStep
<1>4. \A i \in 1..Len(log) : Reads(log[i])
  BY ClaimsAre
<1>5. \A i \in 1..Len(log') : Reads(log'[i])
  <2>1. log \in Seq(Messages) /\ Keep \in Nat \ {0}
    BY DEF RingIsLog, H!ArchiveAssumption
  <2>2. CASE Len(log) < Keep
    BY <2>1, <2>2, <1>1, <1>2, <1>4
  <2>3. CASE ~(Len(log) < Keep)
    <3>1. log # <<>> /\ Tail(log) \in Seq(Messages) /\ Len(Tail(log)) = Len(log) - 1 /\ \A j \in 1..Len(Tail(log)) : Tail(log)[j] = log[j + 1]
      BY <2>1, <2>3
    <3>2. \A j \in 1..Len(Tail(log)) : Reads(Tail(log)[j])
      BY <2>1, <3>1, <1>4
    <3> QED BY <3>1, <3>2, <1>1, <1>2, <2>3
  <2> QED BY <2>2, <2>3
<1>6. H!ClaimsAreRight'
  <2>1. (\A i \in 1..Len(log) : Reads(log[i]))' => H!ClaimsAreRight'
    BY ClaimsAre, PTL
  <2> QED BY <2>1, <1>5 DEF Reads
<1> QED BY <1>3, <1>6

LEMMA ArchiveStep == ASSUME H!ArchiveAssumption, ArchiveInv, H!Next PROVE ArchiveInv'
<1> USE DEF ArchiveInv
<1>1. ASSUME UNCHANGED <<ring, next, wrapped, log>>
      PROVE  RingIsLog' /\ H!ClaimsAreRight'
  BY <1>1 DEF RingIsLog, H!ClaimsAreRight, Back
<1>2. ASSUME UNCHANGED <<clock, events, steady>>
      PROVE  clock' \in Nat /\ TrailGoesUp'
  BY <1>2 DEF TrailGoesUp
<1>3. ASSUME UNCHANGED <<points, gone>>
      PROVE  points' \in SUBSET Samples /\ IsFiniteSet(points') /\ H!RemovedIsGone'
  BY <1>3 DEF H!RemovedIsGone
<1>4. ASSUME NEW h \in Sampled, H!Register(h) PROVE ArchiveInv'
  BY <1>1, <1>2, <1>4 DEF H!Register, H!syslog, H!acts, H!RemovedIsGone
<1>5. ASSUME NEW h \in Sampled, NEW off \in Offsets, NEW p \in Peaks, H!UpdateMetrics(h, clock + off, p) PROVE ArchiveInv'
  <2>1. UNCHANGED <<clock, events, steady, ring, next, wrapped, log, known, gone>> /\ h \in known
    BY <1>5 DEF H!UpdateMetrics, H!syslog, H!acts
  <2>2. PICK ts \in Nat : points' = points \cup {[host |-> h, ts |-> ts, peak |-> p]} \/ points' = points
    BY <1>5 DEF H!UpdateMetrics, H!Insert, H!ArchiveAssumption
  <2>3. points' \in SUBSET Samples
    BY <2>2 DEF H!ArchiveAssumption, Samples
  <2>4. IsFiniteSet(points')
    <3>1. IsFiniteSet(points \cup {[host |-> h, ts |-> ts, peak |-> p]})
      BY FS_AddElement
    <3> QED BY <3>1, <2>2
  <2>5. H!RemovedIsGone'
    BY <2>1, <2>2 DEF H!RemovedIsGone
  <2> QED BY <2>1, <2>3, <2>4, <2>5, <1>1, <1>2
<1>6. ASSUME NEW h \in Sampled, H!RemoveHost(h) PROVE ArchiveInv'
  BY <1>1, <1>2, <1>3, <1>6 DEF H!RemoveHost, H!syslog, H!acts
<1>7. ASSUME NEW h \in Sampled, H!ForgetHost(h) PROVE ArchiveInv'
  <2>1. UNCHANGED <<clock, events, steady, ring, next, wrapped, log, known>>
    BY <1>7 DEF H!ForgetHost, H!syslog, H!acts
  <2>2. points' = {r \in points : r.host # h} /\ gone' = (IF h \in known THEN gone ELSE gone \cup {h})
    BY <1>7 DEF H!ForgetHost
  <2>3. IsFiniteSet(points')
    BY <2>2, FS_Subset
  <2>4. H!RemovedIsGone'
    BY <2>2 DEF H!RemovedIsGone
  <2> QED BY <2>1, <2>2, <2>3, <2>4, <1>1, <1>2
<1>8. ASSUME H!Prune PROVE ArchiveInv'
  <2>1. UNCHANGED <<clock, events, steady, ring, next, wrapped, log, known, gone>> /\ points' \subseteq points
    BY <1>8 DEF H!Prune, H!syslog, H!acts
  <2>2. IsFiniteSet(points') /\ H!RemovedIsGone'
    BY <2>1, FS_Subset DEF H!RemovedIsGone
  <2> QED BY <2>1, <2>2, <1>1, <1>2
<1>9. ASSUME NEW s \in Senders, NEW lag \in Lags, NEW style \in Styles, H!Receive(s, lag, style) PROVE ArchiveInv'
  <2>1. RingIsLog' /\ H!ClaimsAreRight'
    BY <1>9, ArchiveRing
  <2>2. UNCHANGED <<clock, events, steady, points, gone, known>>
    BY <1>9 DEF H!Receive, H!samples, H!acts
  <2> QED BY <2>1, <2>2, <1>2, <1>3
<1>10. ASSUME H!Record PROVE ArchiveInv'
  <2>1. UNCHANGED <<clock, steady, ring, next, wrapped, log, points, gone, known>> /\ events' = Append(events, clock)
    BY <1>10 DEF H!Record, H!samples, H!syslog
  <2>2. TrailGoesUp'
    BY <2>1 DEF TrailGoesUp
  <2> QED BY <2>1, <2>2, <1>1, <1>3
<1>11. ASSUME H!TimePasses PROVE ArchiveInv'
  <2>1. UNCHANGED <<events, steady, ring, next, wrapped, log, points, gone, known>> /\ clock' = clock + 1
    BY <1>11 DEF H!TimePasses, H!samples, H!syslog
  <2>2. TrailGoesUp'
    BY <2>1 DEF TrailGoesUp
  <2> QED BY <2>1, <2>2, <1>1, <1>3
<1>12. ASSUME H!SetBack PROVE ArchiveInv'
  <2>1. UNCHANGED <<events, ring, next, wrapped, log, points, gone, known>> /\ clock' \in Nat /\ (steady' => events = <<>>)
    <3>1. UNCHANGED <<events, ring, next, wrapped, log, points, gone, known>>
      BY <1>12 DEF H!SetBack, H!samples, H!syslog
    <3>2. clock' = clock - 1 /\ clock > StartTime /\ StartTime \in Nat
      BY <1>12 DEF H!SetBack, H!ArchiveAssumption
    <3>3. clock' \in Nat
      BY <3>2
    <3>4. steady' => events = <<>>
      BY <1>12 DEF H!SetBack
    <3> QED BY <3>1, <3>3, <3>4
  <2>2. TrailGoesUp'
    BY <2>1 DEF TrailGoesUp
  <2> QED BY <2>1, <2>2, <1>1, <1>3
<1>13. ASSUME H!Restart PROVE ArchiveInv'
  <2>1. UNCHANGED <<clock, events, steady, points, gone>> /\ known' = {} /\ ring' = H!Empty /\ next' = 0 /\ wrapped' = FALSE /\ log' = <<>>
    BY <1>13 DEF H!Restart, H!acts
  <2>2. H!ClaimsAreRight'
    BY <2>1 DEF H!ClaimsAreRight
  <2>3. Keep \in Nat \ {0} /\ DOMAIN ring' = 0..(Keep - 1)
    BY <2>1 DEF H!Empty, H!ArchiveAssumption
  <2>4. log' \in Seq(Messages) /\ Len(log') = 0
    BY <2>1
  <2>5. next' \in 0..(Keep - 1) /\ wrapped' \in BOOLEAN /\ Len(log') = (IF wrapped' THEN Keep ELSE next')
    BY <2>1, <2>3, <2>4
  <2>6. \A i \in 1..Len(log') : ring'[Back(i)'] = log'[Len(log') + 1 - i]
    BY <2>4
  <2>7. RingIsLog'
    BY <2>3, <2>4, <2>5, <2>6 DEF RingIsLog
  <2> QED BY <2>1, <2>2, <2>7, <1>2, <1>3
<1> QED BY <1>4, <1>5, <1>6, <1>7, <1>8, <1>9, <1>10, <1>11, <1>12, <1>13 DEF H!Next, H!OfHost

(* Graphs. *)
LEMMA SameCountOfPoints == ASSUME NEW s PROVE H!Cardinality(s) = Cardinality(s)
BY DEF H!Cardinality, Cardinality

(* The start of the bucket a sample is in, and the samples' peaks there.   *)
Slot(r, w) == (r.ts \div w) * w
Highs(inRange, b, w) == {r.peak : r \in {s \in inRange : Slot(s, w) = b}}

LEMMA WidthIs ==
  ASSUME H!ArchiveAssumption, NEW d \in Ranges
  PROVE  /\ d \in Nat \ {0} /\ Buckets \in Nat \ {0} /\ H!Width(d) \in Nat \ {0}
         /\ d < H!Width(d) * Buckets + Buckets /\ (H!Width(d) # 1 => H!Width(d) * Buckets <= d)
<1>1. d \in Nat \ {0} /\ Buckets \in Nat \ {0}
  BY DEF H!ArchiveAssumption
<1>2. d \div Buckets \in Int /\ (d \div Buckets) * Buckets <= d /\ d < (d \div Buckets) * Buckets + Buckets
  BY <1>1, QuotientIs
<1>3. PICK q \in Int : q = d \div Buckets
  BY <1>2
<1>4. H!Width(d) = IF q < 1 THEN 1 ELSE q
  BY <1>3 DEF H!Width
<1>5. q * Buckets <= d /\ d < q * Buckets + Buckets
  BY <1>2, <1>3
<1>6. CASE q < 1
  <2>1. q <= 0
    BY <1>6
  <2>2. q * Buckets <= 0
    BY <2>1, <1>1, <1>3
  <2>3. H!Width(d) = 1
    BY <1>4, <1>6
  <2> QED BY <1>1, <1>5, <2>2, <2>3, <1>3
<1>7. CASE ~(q < 1)
  BY <1>1, <1>3, <1>4, <1>5, <1>7
<1> QED BY <1>6, <1>7

LEMMA PointsAre ==
  ASSUME H!ArchiveAssumption, ArchiveInv, NEW h, NEW d \in Ranges, NEW inRange, inRange = H!InRange(h, clock - d, clock),
         NEW w, w = H!Width(d)
  PROVE  /\ H!Graph(h, d) = {[ts |-> b, peak |-> H!Max(Highs(inRange, b, w))] : b \in {Slot(r, w) : r \in inRange}}
         /\ inRange \in SUBSET points /\ IsFiniteSet(inRange)
<1>1. d \in Int /\ clock \in Int
  BY DEF H!ArchiveAssumption, ArchiveInv
<1>2. clock - (clock - d) = d
  BY <1>1
<1>3. H!Graph(h, d) = {[ts |-> b, peak |-> H!Max(Highs(inRange, b, w))] : b \in {Slot(r, w) : r \in inRange}}
  BY <1>2 DEF H!Graph, H!Query, Slot, Highs
<1>4. inRange \in SUBSET points
  BY DEF H!InRange
<1> QED BY <1>3, <1>4, FS_Subset DEF ArchiveInv

LEMMA HighestIs ==
  ASSUME ArchiveInv, NEW inRange \in SUBSET points, IsFiniteSet(inRange), NEW w, NEW r \in inRange
  PROVE  /\ \E s \in inRange : Slot(s, w) = Slot(r, w) /\ s.peak = H!Max(Highs(inRange, Slot(r, w), w))
         /\ r.peak <= H!Max(Highs(inRange, Slot(r, w), w))
         /\ H!Max(Highs(inRange, Slot(r, w), w)) \in Nat
<1> DEFINE b == Slot(r, w)
           here == {s \in inRange : Slot(s, w) = b}
           highs == Highs(inRange, b, w)
           f == [s \in here |-> s.peak]
<1>1. highs \subseteq Nat /\ r.peak \in highs
  BY DEF Highs, ArchiveInv, Samples
<1>2. IsFiniteSet(here)
  BY FS_Subset
<1>3. f \in Surjection(here, highs)
  BY DEF Surjection, Highs
<1>4. IsFiniteSet(highs)
  <2> HIDE DEF f, here, highs
  <2> QED BY <1>2, <1>3, FS_Surjection
<1>5. H!Max(highs) \in highs /\ \A y \in highs : y <= H!Max(highs)
  <2> HIDE DEF highs
  <2> QED BY <1>1, <1>4, GreatestOf
<1>6. \E s \in inRange : Slot(s, w) = b /\ s.peak = H!Max(highs)
  BY <1>5 DEF Highs
<1> QED BY <1>1, <1>5, <1>6

(* A sample is within the width of the start of its bucket and of no other. *)
LEMMA SlotHolds ==
  ASSUME NEW w \in Nat \ {0}, NEW r, NEW s, r.ts \in Int, s.ts \in Int
  PROVE  Slot(s, w) <= r.ts /\ r.ts < Slot(s, w) + w <=> Slot(s, w) = Slot(r, w)
<1>1. PICK i \in Int : i = r.ts \div w
  BY QuotientIs
<1>2. PICK j \in Int : j = s.ts \div w
  BY QuotientIs
<1>3. PICK a \in Int : a = i * w
  BY <1>1
<1>4. PICK b \in Int : b = j * w
  BY <1>2
<1>5. a <= r.ts /\ r.ts < a + w
  BY QuotientIs, <1>1, <1>3
<1>6. Slot(r, w) = a /\ Slot(s, w) = b
  BY <1>1, <1>2, <1>3, <1>4 DEF Slot
<1>7. i < j => a + w <= b
  BY <1>1, <1>2, <1>3, <1>4, MultiplesApart
<1>8. j < i => b + w <= a
  BY <1>1, <1>2, <1>3, <1>4, MultiplesApart
<1>9. i = j => a = b
  BY <1>3, <1>4
<1> QED BY <1>1, <1>2, <1>3, <1>4, <1>5, <1>6, <1>7, <1>8, <1>9

(* A range touches at most twice the buckets wanted. *)
LEMMA FewSlots ==
  ASSUME NEW B \in Nat \ {0}, NEW w \in Nat \ {0}, NEW d \in Nat \ {0}, NEW hi \in Int, NEW lo \in Int, lo = hi - d,
         d < w * B + B
  PROVE  (hi \div w) - (lo \div w) + 1 <= 2 * B
<1>1. PICK a \in Int : a = hi \div w
  BY QuotientIs
<1>2. PICK b \in Int : b = lo \div w
  BY QuotientIs
<1>3. a * w <= hi /\ lo < b * w + w
  BY <1>1, <1>2, QuotientIs
<1>4. (a - b) * w < d + w
  BY <1>1, <1>2, <1>3
<1>5. SUFFICES ASSUME a - b >= 2 * B PROVE FALSE
  BY <1>1, <1>2
<1>6. PICK e \in Nat : a - b = 2 * B + e
  BY <1>1, <1>2, <1>5
<1>7. (2 * B + e) * w < w * B + B + w
  BY <1>4, <1>6
<1>8. (2 * B + e) * w = 2 * (w * B) + e * w /\ e * w \in Nat
  BY <1>6
<1>9. PICK p \in Nat : p = w * B
  OBVIOUS
<1>10. p < B + w
  BY <1>7, <1>8, <1>9
<1>11. (w - 1) * (B - 1) >= 0 /\ (w - 1) * (B - 1) = p - w - B + 1
  BY <1>9
<1>12. p = B + w - 1
  BY <1>10, <1>11
<1> QED BY <1>4, <1>6, <1>7, <1>8, <1>9, <1>12

LEMMA FewPoints ==
  ASSUME H!ArchiveAssumption, ArchiveInv, NEW h, NEW d \in Ranges
  PROVE  H!Cardinality(H!Graph(h, d)) <= 2 * Buckets
<1> DEFINE inRange == H!InRange(h, clock - d, clock)
           w == H!Width(d)
           lo == (clock - d) \div w
           hi == clock \div w
           slots == {r.ts \div w : r \in inRange}
           point == [q \in slots |-> [ts |-> q * w, peak |-> H!Max(Highs(inRange, q * w, w))]]
           pts == H!Graph(h, d)
<1>1. /\ d \in Nat \ {0} /\ Buckets \in Nat \ {0} /\ w \in Nat \ {0} /\ d < w * Buckets + Buckets
  BY WidthIs
<1>2. clock \in Nat /\ clock - d \in Int
  BY <1>1 DEF ArchiveInv
<1>3. lo \in Int /\ hi \in Int /\ hi - lo + 1 <= 2 * Buckets
  <2> HIDE DEF w
  <2>1. lo \in Int /\ hi \in Int
    BY <1>1, <1>2, QuotientIs
  <2>2. PICK start \in Int : start = clock - d
    BY <1>2
  <2>3. clock \in Int
    BY <1>2
  <2>4. (clock \div w) - (start \div w) + 1 <= 2 * Buckets
    BY ONLY <1>1, <2>2, <2>3, FewSlots
  <2> QED BY <2>1, <2>2, <2>4
<1>4. pts = {[ts |-> b, peak |-> H!Max(Highs(inRange, b, w))] : b \in {Slot(r, w) : r \in inRange}} /\ inRange \in SUBSET points
  BY PointsAre
<1>5. slots \subseteq lo..hi
  <2> SUFFICES ASSUME NEW r \in inRange PROVE r.ts \div w \in lo..hi
    OBVIOUS
  <2>1. r.ts \in Int /\ clock - d <= r.ts /\ r.ts <= clock
    BY <1>4 DEF H!InRange, ArchiveInv, Samples
  <2> HIDE DEF w
  <2>2. PICK q \in Int : q = r.ts \div w
    BY <1>1, <2>1, QuotientIs
  <2>3. PICK l \in Int : l = lo
    BY <1>3
  <2>4. PICK u \in Int : u = hi
    BY <1>3
  <2>5. PICK qw \in Int, lw \in Int, uw \in Int : qw = q * w /\ lw = l * w /\ uw = u * w
    BY <1>1
  <2>6. qw <= r.ts /\ r.ts < qw + w
    BY <2>1, <2>2, <2>5, <1>1, QuotientIs
  <2>7. lw <= clock - d /\ clock - d < lw + w
    BY <2>3, <2>5, <1>1, <1>2, QuotientIs
  <2>8. uw <= clock /\ clock < uw + w
    BY <2>4, <2>5, <1>1, <1>2, QuotientIs
  <2>9. q < l => qw + w <= lw
    BY <2>5, <1>1, MultiplesApart
  <2>10. u < q => uw + w <= qw
    BY <2>5, <1>1, MultiplesApart
  <2> HIDE DEF lo, hi
  <2>11. ~(q < l)
    BY <2>1, <2>6, <2>7, <2>9, <1>1, <1>2, <2>5
  <2>12. ~(u < q)
    BY <2>1, <2>6, <2>8, <2>10, <1>1, <1>2, <2>5
  <2> QED BY <2>2, <2>3, <2>4, <2>11, <2>12
<1>6. IsFiniteSet(slots) /\ Cardinality(slots) <= 2 * Buckets
  <2> HIDE DEF slots, lo, hi
  <2>1. IsFiniteSet(lo..hi) /\ Cardinality(lo..hi) <= 2 * Buckets
    <3>1. IsFiniteSet(lo..hi) /\ Cardinality(lo..hi) = IF lo > hi THEN 0 ELSE hi - lo + 1
      BY <1>3, FS_Interval
    <3> QED BY <3>1, <1>1, <1>3
  <2>2. slots \in SUBSET (lo..hi)
    BY <1>5
  <2>3. IsFiniteSet(slots) /\ Cardinality(slots) <= Cardinality(lo..hi)
    BY <2>1, <2>2, FS_Subset
  <2>4. Cardinality(slots) \in Nat /\ Cardinality(lo..hi) \in Nat
    BY <2>1, <2>3, FS_CardinalityType
  <2> QED BY <2>1, <2>3, <2>4, <1>1
<1>7. point \in Surjection(slots, pts)
  <2> HIDE DEF w, inRange, pts
  <2>1. pts = {[ts |-> b, peak |-> H!Max(Highs(inRange, b, w))] : b \in {(r.ts \div w) * w : r \in inRange}}
    BY <1>4 DEF Slot
  <2>2. pts = {point[q] : q \in slots}
    BY <2>1
  <2>3. DOMAIN point = slots
    OBVIOUS
  <2> HIDE DEF point, slots
  <2>4. point \in [slots -> pts] /\ \A p \in pts : \E q \in slots : point[q] = p
    <3>1. point = [q \in slots |-> point[q]]
      BY DEF point
    <3> QED BY <2>2, <3>1
  <2> QED BY <2>4 DEF Surjection
<1> HIDE DEF point, slots, pts
<1>8. IsFiniteSet(pts) /\ Cardinality(pts) <= Cardinality(slots)
  BY <1>6, <1>7, FS_Surjection
<1>9. Cardinality(pts) <= 2 * Buckets
  <2>1. Cardinality(pts) \in Nat /\ Cardinality(slots) \in Nat
    BY <1>6, <1>8, FS_CardinalityType
  <2> QED BY <2>1, <1>6, <1>8, <1>1
<1> QED BY <1>9, SameCountOfPoints DEF pts

LEMMA GraphFits == ASSUME H!ArchiveAssumption, ArchiveInv PROVE H!GraphIsWhole
<1> SUFFICES ASSUME NEW h \in Sampled, NEW d \in Ranges
    PROVE LET pts == H!Graph(h, d)
              inRange == H!InRange(h, clock - d, clock)
              holds(p, r) == p.ts <= r.ts /\ r.ts < p.ts + H!Width(d)
          IN /\ \A r \in inRange : \E p \in pts : holds(p, r) /\ p.peak >= r.peak /\ \A q \in pts \ {p} : ~holds(q, r)
             /\ \A p \in pts : \E r \in inRange : holds(p, r) /\ r.peak = p.peak
             /\ H!Cardinality(pts) <= 2 * Buckets
  BY DEF H!GraphIsWhole
<1> DEFINE pts == H!Graph(h, d)
           inRange == H!InRange(h, clock - d, clock)
           w == H!Width(d)
           point(b) == [ts |-> b, peak |-> H!Max(Highs(inRange, b, w))]
           holds(p, r) == p.ts <= r.ts /\ r.ts < p.ts + w
<1>1. w \in Nat \ {0}
  BY WidthIs
<1>2. pts = {point(b) : b \in {Slot(r, w) : r \in inRange}} /\ inRange \in SUBSET points /\ IsFiniteSet(inRange)
  BY PointsAre
<1> HIDE DEF pts, inRange, w
<1>3. \A r \in inRange : r.ts \in Nat /\ r.peak \in Nat
  BY <1>2 DEF ArchiveInv, Samples
<1>4. \A p \in pts : \E s \in inRange : p = point(Slot(s, w))
  BY <1>2
<1>5. \A r, s \in inRange : holds(point(Slot(s, w)), r) <=> Slot(s, w) = Slot(r, w)
  <2> SUFFICES ASSUME NEW r \in inRange, NEW s \in inRange PROVE holds(point(Slot(s, w)), r) <=> Slot(s, w) = Slot(r, w)
    OBVIOUS
  <2>1. r.ts \in Int /\ s.ts \in Int
    BY <1>3
  <2> QED BY <2>1, <1>1, SlotHolds
<1>6. ASSUME NEW r \in inRange PROVE \E p \in pts : holds(p, r) /\ p.peak >= r.peak /\ \A q \in pts \ {p} : ~holds(q, r)
  <2>1. point(Slot(r, w)) \in pts /\ holds(point(Slot(r, w)), r)
    BY <1>2, <1>5
  <2>2. point(Slot(r, w)).peak >= r.peak
    <3>1. r.peak <= H!Max(Highs(inRange, Slot(r, w), w)) /\ H!Max(Highs(inRange, Slot(r, w), w)) \in Nat
      BY <1>2, HighestIs
    <3> QED BY <3>1, <1>3
  <2>3. ASSUME NEW q \in pts, holds(q, r) PROVE q = point(Slot(r, w))
    <3>1. PICK s \in inRange : q = point(Slot(s, w))
      BY <1>4
    <3>2. Slot(s, w) = Slot(r, w)
      BY <3>1, <2>3, <1>5
    <3> QED BY <3>1, <3>2
  <2> HIDE DEF holds, point
  <2> QED BY <2>1, <2>2, <2>3
<1>7. ASSUME NEW p \in pts PROVE \E r \in inRange : holds(p, r) /\ r.peak = p.peak
  <2>1. PICK s \in inRange : p = point(Slot(s, w))
    BY <1>4
  <2>2. PICK r \in inRange : Slot(r, w) = Slot(s, w) /\ r.peak = H!Max(Highs(inRange, Slot(s, w), w))
    BY <1>2, HighestIs
  <2>3. holds(p, r)
    BY <2>1, <2>2, <1>5
  <2>4. r.peak = p.peak
    BY <2>1, <2>2
  <2> QED BY <2>3, <2>4
<1>8. H!Cardinality(pts) <= 2 * Buckets
  BY FewPoints DEF pts
<1> QED BY <1>6, <1>7, <1>8 DEF pts, inRange, w

LEMMA RemainderOfSmall == ASSUME NEW a \in Int, NEW w \in Nat \ {0}, a \in 0..(w - 1) PROVE a % w = a
OBVIOUS

LEMMA RemainderBelowZero == ASSUME NEW a \in Int, NEW w \in Nat \ {0}, a \in (-w)..(-1) PROVE a % w = a + w
<1>1. a \div w \in Int /\ (a \div w) * w <= a /\ a < (a \div w) * w + w
  BY QuotientIs
<1>2. PICK q \in Int : q = a \div w
  BY <1>1
<1>3. q * w <= a /\ a < q * w + w
  BY <1>1, <1>2
<1>4. q < 0
  <2> SUFFICES ASSUME q >= 0 PROVE FALSE
    OBVIOUS
  <2>1. q * w >= 0
    OBVIOUS
  <2> QED BY <2>1, <1>3
<1>5. q > -2
  <2> SUFFICES ASSUME q < -1 PROVE FALSE
    OBVIOUS
  <2>1. q * w + w <= (-1) * w
    BY MultiplesApart
  <2> QED BY <2>1, <1>3
<1>6. q = -1
  BY <1>4, <1>5
<1>7. (a \div w) * w = -w
  BY <1>2, <1>6
<1>8. a % w = a - (a \div w) * w
  BY RemainderIs
<1> QED BY <1>7, <1>8

(* The i-th message backwards from where the next one goes. *)
LEMMA BackIs ==
  ASSUME H!ArchiveAssumption, RingIsLog, NEW i \in 1..Len(log)
  PROVE  (next - i) % Keep = Back(i)
<1>1. Keep \in Nat \ {0} /\ next \in 0..(Keep - 1) /\ Len(log) = (IF wrapped THEN Keep ELSE next)
  BY DEF H!ArchiveAssumption, RingIsLog
<1>2. i \in Nat \ {0} /\ i <= Keep
  BY <1>1
<1>3. CASE i <= next
  <2>1. next - i \in 0..(Keep - 1)
    BY <1>1, <1>2, <1>3
  <2> QED BY <2>1, <1>1, <1>3, RemainderOfSmall DEF Back
<1>4. CASE ~(i <= next)
  <2>1. next - i \in (-Keep)..(-1)
    BY <1>1, <1>2, <1>4
  <2> QED BY <2>1, <1>1, <1>4, RemainderBelowZero DEF Back
<1> QED BY <1>3, <1>4

LEMMA LogShows == ASSUME H!ArchiveAssumption, ArchiveInv PROVE H!LogIsNewest
<1> DEFINE back == [i \in 1..H!Held |-> ring[(next - i) % Keep]]
<1>0. RingIsLog
  BY DEF ArchiveInv
<1>1. Keep \in Nat \ {0} /\ next \in 0..(Keep - 1) /\ Len(log) = (IF wrapped THEN Keep ELSE next) /\ log \in Seq(Messages)
  BY <1>0 DEF H!ArchiveAssumption, RingIsLog
<1>2. H!Held = Len(log) /\ Len(log) \in Nat
  BY <1>1 DEF H!Held
<1>3. back = H!Reverse(log)
  <2>1. \A i \in 1..Len(log) : ring[(next - i) % Keep] = log[(Len(log) - i) + 1]
    <3> SUFFICES ASSUME NEW i \in 1..Len(log) PROVE ring[(next - i) % Keep] = log[(Len(log) - i) + 1]
      OBVIOUS
    <3>1. (next - i) % Keep = Back(i)
      BY <1>0, BackIs
    <3>2. ring[Back(i)] = log[Len(log) + 1 - i]
      BY <1>0 DEF RingIsLog
    <3>3. Len(log) + 1 - i = (Len(log) - i) + 1
      BY <1>2
    <3> QED BY <3>1, <3>2, <3>3
  <2> QED BY <2>1, <1>2 DEF H!Reverse
<1>4. H!SendersHeard = {log[i].source : i \in DOMAIN log}
  <2>1. \A i \in 1..Len(log) : Back(i) \in 0..(Len(log) - 1) /\ ring[Back(i)] = log[Len(log) + 1 - i]
    BY <1>0, <1>1 DEF Back, RingIsLog
  <2>2. \A j \in 0..(Len(log) - 1) : \E i \in 1..Len(log) : Back(i) = j
    <3> SUFFICES ASSUME NEW j \in 0..(Len(log) - 1) PROVE \E i \in 1..Len(log) : Back(i) = j
      OBVIOUS
    <3>1. CASE j < next
      <4>1. next - j \in 1..Len(log) /\ Back(next - j) = j
        BY <1>1, <3>1 DEF Back
      <4> QED BY <4>1
    <3>2. CASE ~(j < next)
      <4>1. next - j + Keep \in 1..Len(log) /\ Back(next - j + Keep) = j
        BY <1>1, <3>2 DEF Back
      <4> QED BY <4>1
    <3> QED BY <3>1, <3>2
  <2>3. \A i \in 1..Len(log) : Len(log) + 1 - i \in 1..Len(log) /\ Len(log) + 1 - (Len(log) + 1 - i) = i
    BY <1>2
  <2>4. DOMAIN log = 1..Len(log)
    BY <1>1
  <2> HIDE DEF back
  <2>5. ASSUME NEW j \in 0..(Len(log) - 1) PROVE \E i \in 1..Len(log) : ring[j].source = log[i].source
    <3>1. PICK i \in 1..Len(log) : Back(i) = j
      BY <2>2
    <3>2. ring[j] = log[Len(log) + 1 - i] /\ Len(log) + 1 - i \in 1..Len(log)
      BY <3>1, <2>1, <2>3
    <3> QED BY <3>2
  <2>6. ASSUME NEW i \in 1..Len(log) PROVE \E j \in 0..(Len(log) - 1) : ring[j].source = log[i].source
    BY <2>1, <2>3
  <2>7. H!SendersHeard = {ring[j].source : j \in 0..(Len(log) - 1)}
    BY <1>2 DEF H!SendersHeard
  <2>8. {ring[j].source : j \in 0..(Len(log) - 1)} = {log[i].source : i \in 1..Len(log)}
    <3> DEFINE told == {ring[j].source : j \in 0..(Len(log) - 1)}
               heard == {log[i].source : i \in 1..Len(log)}
    <3>1. \A x \in told : x \in heard
      BY <2>5
    <3>2. \A x \in heard : x \in told
      BY <2>6
    <3> HIDE DEF told, heard
    <3>3. told = heard
      BY <3>1, <3>2
    <3> QED BY <3>3 DEF told, heard
  <2> QED BY <2>4, <2>7, <2>8
<1> DEFINE Shown(s) == LET expected == SelectSeq(H!Reverse(log), LAMBDA x : H!Wanted(x, s))
                       IN  H!NewestFirst(s, Limit) = SubSeq(expected, 1, H!Min({Limit, Len(expected)}))
<1>5. ASSUME NEW s PROVE Shown(s)
  <2> DEFINE Chosen(x) == SelectSeq(x, LAMBDA y : H!Wanted(y, s))
             Cut(x) == SubSeq(Chosen(x), 1, H!Min({Limit, Len(Chosen(x))}))
  <2>1. H!NewestFirst(s, Limit) = Cut(back)
    BY DEF H!NewestFirst
  <2>2. Cut(back) = Cut(H!Reverse(log))
    <3> HIDE DEF Cut, back
    <3> QED BY <1>3
  <2> QED BY <2>1, <2>2
<1> HIDE DEF back, Shown
<1>6. \A s \in Senders \cup {""} : Shown(s)
  BY <1>5
<1> QED BY ONLY <1>4, <1>6 DEF H!LogIsNewest, Shown

LEMMA TrailTells == ASSUME H!ArchiveAssumption, ArchiveInv PROVE H!TrailIsTold
<1> SUFFICES ASSUME steady PROVE H!MostRecent(Limit) = [i \in 1..H!Min({Limit, Len(events)}) |-> Len(events) + 1 - i]
  BY DEF H!TrailIsTold
<1>1. events \in Seq(Nat) /\ Limit \in Nat /\ \A i \in 1..Len(events) : \A j \in 1..i : events[j] <= events[i]
  BY DEF ArchiveInv, TrailGoesUp, H!ArchiveAssumption
<1> DEFINE n == Len(events)
<1>2. n \in Nat /\ DOMAIN events = 1..n
  BY <1>1
<1>3. \A k, j \in 1..n : H!Later(k, j) <=> k > j
  <2> SUFFICES ASSUME NEW k \in 1..n, NEW j \in 1..n PROVE H!Later(k, j) <=> k > j
    OBVIOUS
  <2>1. events[k] \in Nat /\ events[j] \in Nat
    BY <1>1
  <2>2. k <= j => events[k] <= events[j]
    BY <1>1, <1>2
  <2>3. j <= k => events[j] <= events[k]
    BY <1>1, <1>2
  <2> HIDE DEF n
  <2> QED BY <2>1, <2>2, <2>3, <1>2 DEF H!Later
<1> HIDE DEF n
<1>4. \A j \in 1..n : H!Cardinality({k \in DOMAIN events : H!Later(k, j)}) = n - j
  <2> SUFFICES ASSUME NEW j \in 1..n PROVE H!Cardinality({k \in DOMAIN events : H!Later(k, j)}) = n - j
    OBVIOUS
  <2>1. {k \in DOMAIN events : H!Later(k, j)} = (j + 1)..n
    BY <1>2, <1>3
  <2>2. Cardinality((j + 1)..n) = IF j + 1 > n THEN 0 ELSE n - (j + 1) + 1
    BY <1>2, FS_Interval
  <2>3. Cardinality((j + 1)..n) = n - j
    BY <2>2, <1>2
  <2> QED BY <2>1, <2>3, SameCountOfPoints
<1>5. \A i \in 1..H!Min({Limit, n}) : i \in 1..n
  <2>1. H!Min({Limit, n}) \in {Limit, n} /\ H!Min({Limit, n}) <= n
    <3>1. \E x \in {Limit, n} : \A y \in {Limit, n} : x <= y
      BY <1>1, <1>2
    <3> QED BY <3>1 DEF H!Min
  <2> QED BY <2>1, <1>1, <1>2
<1>6. ASSUME NEW i \in 1..n
      PROVE  (CHOOSE j \in DOMAIN events : H!Cardinality({k \in DOMAIN events : H!Later(k, j)}) = i - 1) = n + 1 - i
  <2>1. n + 1 - i \in 1..n /\ n - (n + 1 - i) = i - 1
    BY <1>2
  <2>2. \A j \in 1..n : n - j = i - 1 => j = n + 1 - i
    BY <1>2
  <2> QED BY <2>1, <2>2, <1>2, <1>4
<1>7. H!MostRecent(Limit) = [i \in 1..H!Min({Limit, n}) |-> CHOOSE j \in DOMAIN events : H!Cardinality({k \in DOMAIN events : H!Later(k, j)}) = i - 1]
  BY DEF H!MostRecent, n
<1> QED BY <1>5, <1>6, <1>7 DEF n

(* A graph has every sample of its range in one point and no peak is lost, *)
(* a removed host leaves no sample behind, the log shows the newest        *)
(* messages however often the ring went round, dates without a year are    *)
(* read as they were meant, and the trail is told backwards: for any       *)
(* hosts, clocks, ranges, sizes of the ring, limits and lengths of a year. *)
THEOREM ArchiveStaysTrue == ASSUME H!ArchiveAssumption PROVE H!Spec => []ArchiveIsTrue
<1>1. ASSUME H!ArchiveAssumption, ArchiveInv PROVE ArchiveIsTrue
  BY <1>1, GraphFits, LogShows, TrailTells DEF ArchiveIsTrue, H!ArchiveIsTrue, ArchiveInv
<1>2. ASSUME H!ArchiveAssumption, ArchiveInv, [H!Next]_(H!vars) PROVE ArchiveInv'
  <2>1. CASE H!Next
    BY <1>2, <2>1, ArchiveStep
  <2>2. CASE UNCHANGED H!vars
    <3>1. UNCHANGED <<clock, known, points, gone, ring, next, wrapped, log, events, steady>>
      BY <2>2 DEF H!vars, H!samples, H!syslog, H!acts
    <3>2. RingIsLog'
      BY <1>2, <3>1 DEF ArchiveInv, RingIsLog, Back
    <3>3. H!ClaimsAreRight' /\ TrailGoesUp'
      BY <1>2, <3>1 DEF ArchiveInv, TrailGoesUp, H!ClaimsAreRight
    <3>4. clock' \in Nat /\ points' \in SUBSET Samples /\ IsFiniteSet(points') /\ gone' \cap known' = {} /\ H!RemovedIsGone'
      BY <1>2, <3>1 DEF ArchiveInv, H!RemovedIsGone
    <3> QED BY <3>2, <3>3, <3>4 DEF ArchiveInv
  <2> QED BY <1>2, <2>1, <2>2
<1> QED BY ArchiveStart, <1>1, <1>2, PTL DEF H!Spec
=============================================================================
