----------------------------- MODULE HubArchive -----------------------------
(* What the hub keeps of the past: the samples of its hosts in a database  *)
(* (storage.go), thinned out when they are drawn and pruned by age, and    *)
(* the messages of devices in a ring in memory (syslog.go), and the trail  *)
(* of what operators did, in the database again (audit.go).                *)
(*                                                                         *)
(* Abstracted: the averages of a point, of which its peak is kept here;    *)
(* the text, tag, severity and facility of a message; what an event says,  *)
(* which is in HostOperations; the filters by text.                        *)
(* The clock counts days, a year has YearLength of them.                   *)
(* Operators named Action_Fault are single-fault variants of Action.       *)
(***************************************************************************)
EXTENDS Integers, Sequences, FiniteSetsExt, SequencesExt

CONSTANTS
  Hosts, Peaks, Offsets,   \* how far the clocks of hosts are from the hub's
  Ranges, Buckets, Retention,
  Sources, Lags,           \* how far the clocks of devices are from the hub's
  Styles,                  \* of dates: "full", "classic", "none"
  Keep, MaxAge, Limit, YearLength, Slack,
  StartTime, MaxTime, MaxRows  \* bounds

ArchiveAssumption ==
  /\ Buckets \in Nat \ {0} /\ Keep \in Nat \ {0} /\ YearLength \in Nat /\ YearLength > 2 * Slack
  /\ Ranges \subseteq Nat \ {0} /\ Slack \in Nat /\ Limit \in Nat /\ StartTime \in Nat
  /\ Peaks \subseteq Nat /\ Offsets \subseteq Int /\ Lags \subseteq Int /\ Styles \subseteq {"full", "classic", "none"}

VARIABLES
  clock,      \* the hub's
  kept,       \* the database could be opened
  known,      \* Store.hosts
  removing,   \* hosts a request has taken out of the registry and is tidying up after
  rows,       \* the table of samples
  gone,       \* history: hosts removed, and not back since
  does,       \* what is told of in a behaviour: "samples", "messages" or "acts"
  ring, next, full,   \* syslogStore
  log,        \* history: the last Keep messages
  trail,      \* the table of events: the time of each
  steady      \* history: the clock was not set back

samples == <<kept, known, removing, rows, gone>>
syslog == <<ring, next, full, log>>
acts == <<trail, steady>>
vars == <<clock, does, samples, syslog, acts>>

NoMessage == [received |-> 0, claimed |-> 0, source |-> "", meant |-> 0]
Empty == [i \in 0..(Keep - 1) |-> NoMessage]

Init ==
  /\ clock = StartTime
  /\ kept \in BOOLEAN /\ known = {} /\ removing = {} /\ rows = {} /\ gone = {}
  /\ does \in {"samples", "messages", "acts"} /\ ring = Empty /\ next = 0 /\ full = FALSE /\ log = <<>>
  /\ trail = <<>> /\ steady = TRUE

-----------------------------------------------------------------------------
(* Samples. *)

Register(h) ==
  /\ does = "samples" /\ h \notin known /\ known' = known \cup {h} /\ gone' = gone \ {h}
  /\ UNCHANGED <<clock, does, acts, kept, removing, rows, syslog>>

(* updateMetrics and Insert, under the registry's lock: a sample that      *)
(* comes when its host has been removed is not kept.                       *)
Insert(h, ts, peak) == IF kept THEN rows \cup {[host |-> h, ts |-> IF ts <= 0 THEN clock ELSE ts, peak |-> peak]} ELSE rows
UpdateMetrics_Unlocked(h, ts, peak) ==   \* a bug: kept although the host was removed
  /\ Cardinality(rows) < MaxRows /\ rows' = Insert(h, ts, peak)
  /\ UNCHANGED <<clock, does, acts, kept, known, removing, gone, syslog>>
UpdateMetrics(h, ts, peak) ==
  /\ h \in known /\ Cardinality(rows) < MaxRows /\ rows' = Insert(h, ts, peak)
  /\ UNCHANGED <<clock, does, acts, kept, known, removing, gone, syslog>>

(* Prune, at the start and every six hours. *)
Prune ==
  /\ kept /\ rows' = {r \in rows : r.ts >= clock - Retention} /\ rows' # rows
  /\ UNCHANGED <<clock, does, acts, kept, known, removing, gone, syslog>>

RemoveHost(h) ==
  /\ h \in known /\ h \notin removing /\ known' = known \ {h} /\ removing' = removing \cup {h}
  /\ UNCHANGED <<clock, does, acts, kept, rows, gone, syslog>>
ForgetHost(h) ==
  /\ h \in removing /\ removing' = removing \ {h}
  /\ rows' = {r \in rows : r.host # h} /\ gone' = IF h \in known THEN gone ELSE gone \cup {h}
  /\ UNCHANGED <<clock, does, acts, kept, known, syslog>>

(* Query: a point per bucket that has samples. *)
Width(span) == IF span \div Buckets < 1 THEN 1 ELSE span \div Buckets

InRange(h, from, to) == {r \in rows : r.host = h /\ r.ts >= from /\ r.ts <= to}
Query(h, from, to) ==
  LET w == Width(to - from)
      bucket(r) == (r.ts \div w) * w
      inRange == InRange(h, from, to)
  IN {[ts |-> b, peak |-> Max({r.peak : r \in {s \in inRange : bucket(s) = b}})] : b \in {bucket(r) : r \in inRange}}

(* handleHistory: a range, of any positive length, that ends now.          *)
Graph(h, range) == Query(h, clock - range, clock)

-----------------------------------------------------------------------------
(* Messages. *)

(* parseSyslog: a message in the new format has a full date, one in the    *)
(* classic format a date without a year, others none that is understood.   *)
WithoutYear(day) ==
  LET ts == (clock \div YearLength) * YearLength + day
  IN IF ts > clock + Slack THEN ts - YearLength ELSE ts
Claimed(style, device) ==
  CASE style = "full" -> device
    [] style = "classic" -> WithoutYear(device % YearLength)
    [] style = "none" -> 0

Advance == IF next + 1 = Keep THEN [next |-> 0, full |-> TRUE] ELSE [next |-> next + 1, full |-> full]

(* runSyslog, syslogStore.add. *)
Receive(s, lag, style) ==
  LET device == clock + lag
      m == [received |-> clock, claimed |-> Claimed(style, device), source |-> s, meant |-> IF style = "none" THEN 0 ELSE device]
  IN /\ does = "messages" /\ ring' = [ring EXCEPT ![next] = m] /\ next' = Advance.next /\ full' = Advance.full
     /\ log' = IF Len(log) < Keep THEN Append(log, m) ELSE Append(Tail(log), m)
     /\ UNCHANGED <<clock, does, samples, acts>>

(* syslogStore.query: backwards from where the next message goes, leaving  *)
(* out what is too old; all sources, or one.                               *)
Wanted(m, s) == m.received >= clock - MaxAge /\ s \in {m.source, ""}
Held == IF full THEN Keep ELSE next
NewestFirst(s, limit) ==
  LET back == [i \in 1..Held |-> ring[(next - i) % Keep]]
      found == SelectSeq(back, LAMBDA m : Wanted(m, s))
  IN SubSeq(found, 1, Min({limit, Len(found)}))

SendersHeard == {ring[i].source : i \in 0..(Held - 1)}

-----------------------------------------------------------------------------
(* The audit trail. *)

Record ==
  /\ does = "acts" /\ kept /\ Len(trail) < MaxRows + 1 /\ trail' = Append(trail, clock)
  /\ UNCHANGED <<clock, does, samples, syslog, steady>>

(* auditLog.query: by time, then by number, the latest first.              *)
Later(i, j) == trail[i] > trail[j] \/ (trail[i] = trail[j] /\ i > j)
MostRecent(limit) ==
  [i \in 1..Min({limit, Len(trail)}) |->
     CHOOSE j \in DOMAIN trail : Cardinality({k \in DOMAIN trail : Later(k, j)}) = i - 1]

-----------------------------------------------------------------------------
(* The hub's clock runs, and may be set back.  A restart keeps the         *)
(* database and loses the registry, the ring and what was being tidied up. *)

TimePasses ==
  /\ clock < MaxTime /\ clock' = clock + 1 /\ UNCHANGED <<does, samples, syslog, trail, steady>>
SetBack ==
  /\ clock > StartTime /\ clock' = clock - 1 /\ steady' = (trail = <<>>) /\ UNCHANGED <<does, samples, syslog, trail>>
Restart ==
  /\ known' = {} /\ removing' = {} /\ ring' = Empty /\ next' = 0 /\ full' = FALSE /\ log' = <<>>
  /\ UNCHANGED <<clock, does, kept, rows, gone, acts>>

OfHost(h) ==
  \/ Register(h) \/ RemoveHost(h) \/ ForgetHost(h)
  \/ \E off \in Offsets, p \in Peaks : UpdateMetrics(h, clock + off, p)
Next ==
  \/ Prune \/ Record \/ TimePasses \/ SetBack \/ Restart
  \/ (\E h \in Hosts : OfHost(h)) \/ (\E s \in Sources, lag \in Lags, style \in Styles : Receive(s, lag, style))

Spec == Init /\ [][Next]_vars

-----------------------------------------------------------------------------
(* The samples of a host in the range asked for are each in one point of   *)
(* its graph and its peak is not lost; no point is of other samples, and   *)
(* there are never more than twice the points wanted (handleHistory).      *)
GraphIsWhole ==
  \A h \in Hosts, d \in Ranges :
    LET pts == Graph(h, d)
        inRange == InRange(h, clock - d, clock)
        holds(p, r) == p.ts <= r.ts /\ r.ts < p.ts + Width(d)
    IN /\ \A r \in inRange : \E p \in pts : holds(p, r) /\ p.peak >= r.peak /\ \A q \in pts \ {p} : ~holds(q, r)
       /\ \A p \in pts : \E r \in inRange : holds(p, r) /\ r.peak = p.peak
       /\ Cardinality(pts) <= 2 * Buckets

(* A host that was removed leaves no samples behind, even if one of its    *)
(* samples comes while the removal is under way (forgetHost).              *)
RemovedIsGone == \A r \in rows : r.host \notin gone

(* The log shows the newest messages that are young enough, the newest     *)
(* first, however often the ring went round and whatever became of the     *)
(* clock, and offers the sources of those it still has.                    *)
LogIsNewest ==
  /\ SendersHeard = {log[i].source : i \in DOMAIN log}
  /\ \A s \in Sources \cup {""} :
       LET expected == SelectSeq(Reverse(log), LAMBDA m : Wanted(m, s))
       IN NewestFirst(s, Limit) = SubSeq(expected, 1, Min({Limit, Len(expected)}))

(* A date without a year is read as the device meant it, over the turn of  *)
(* a year too, if the device's clock is behind the hub's by less than a    *)
(* year or ahead of it by no more than two days and in the same year.      *)
ClaimsAreRight ==
  \A i \in 1..Len(log) :
    LET m == log[i]
        ahead == m.meant > m.received
        sameYear == m.meant \div YearLength = m.received \div YearLength
    IN (ahead => sameYear /\ m.meant <= m.received + Slack) /\ m.claimed # 0 /\ m.meant > m.received + Slack - YearLength => m.claimed = m.meant

(* The trail is told backwards from its last event, over restarts too, if  *)
(* the clock was not set back since the first.                             *)
TrailIsTold ==
  steady => MostRecent(Limit) = [i \in 1..Min({Limit, Len(trail)}) |-> Len(trail) + 1 - i]

ArchiveIsTrue == GraphIsWhole /\ RemovedIsGone /\ LogIsNewest /\ ClaimsAreRight /\ TrailIsTold

-----------------------------------------------------------------------------
(* Not so of a device that is a little ahead at the turn of the year:      *)
(* "the only sane guess is this one" (parseSyslog). *)
EveryClaimIsRight ==
  \A i \in 1..Len(log) :
    log[i].claimed # 0 /\ log[i].meant \in (log[i].received + Slack - YearLength + 1)..(log[i].received + Slack) => log[i].claimed = log[i].meant

(* Not so when the clock was set back: "the most recent events, newest     *)
(* first" (auditLog.query), which a limit may leave out. *)
TrailIsNewest == trail # <<>> => MostRecent(1) = <<Len(trail)>>
=============================================================================
