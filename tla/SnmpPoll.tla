------------------------------ MODULE SnmpPoll ------------------------------
(***************************************************************************)
(* What the hub learns of a device over SNMP: one poll of snmp.go and how  *)
(* netcheck.go records it over the last one, and the browser of            *)
(* snmpwalk.go.  A poll tries the configured version, or v2c and then v1;  *)
(* asks for the system group, and then walks one table after another, any  *)
(* of which may come back short; and rates are worked out from the         *)
(* counters of two recorded polls.                                         *)
(*                                                                         *)
(* Abstracted: a table to rows <<table, index>>; loads and fills to per    *)
(* cent, capacity to 100 where the code divides by it; a rate to the       *)
(* octets counted, over an interval that only counts as too long or not;   *)
(* 64-bit counters to counters modulo W; text readings are left out.       *)
(* External: the device, what it counts, and the network.                  *)
(* Operators named Action_Fault are single-fault variants of Action.       *)
(***************************************************************************)
EXTENDS Integers, FiniteSets, FiniteSetsExt

CONSTANTS
  Devices,   \* what a device may be: [speaks, value, ports, settings], the
             \* last the versions its check may be set to: "auto", "1", "2c", "3"
  W,         \* counters are counted modulo W
  MaxLost,   \* rows lost in one poll
  MaxMoved   \* octets between two recorded polls

Tables == {"oper", "type", "desc", "level", "max", "unit", "cpu", "ram", "disk", "ucd", "ucdDisk", "ups", "load", "poe", "stations", "pages"}
Octets == {"in", "out"}

(* What a row may hold.  A supply that is measured in per cent has a        *)
(* capacity of 100, or says that it has none.                              *)
InPercent == 19
Holds(t, v) ==
  /\ t = "ucd" => v \in [idle : Int, size : Nat, free : Nat]
  /\ t \in {"ram", "disk"} => v \in [size : Nat, used : Nat]
  /\ t = "ups" => v \in [status : Nat, seconds : Nat, charge : Int]
  /\ t = "cpu" => v \in Nat
  /\ t \in Tables \ {"ucd", "ram", "disk", "ups", "cpu"} => v \in Int

PollAssumption ==
  /\ W \in Nat \ {0} /\ MaxLost \in Nat /\ MaxMoved \in Nat
  /\ \A d \in Devices :
       /\ d.speaks \subseteq {"1", "2c", "3"} /\ d.settings \subseteq {"auto", "1", "2c", "3"}
       /\ IsFiniteSet(d.ports) /\ IsFiniteSet(DOMAIN d.value)
       /\ \A r \in DOMAIN d.value : r[1] \in Tables /\ Holds(r[1], d.value[r])
       /\ \A r \in DOMAIN d.value :
            r[1] = "unit" /\ d.value[r] = InPercent /\ <<"max", r[2]>> \in DOMAIN d.value
            => d.value[<<"max", r[2]>>] = 100 \/ d.value[<<"max", r[2]>>] <= 0

VARIABLES
  dev, setting,  \* the device, and the version its check is set to
  on,            \* external: the device answers
  count,         \* external: the octets it counted; by direction and port
  pc,            \* the poll: "idle", "try", "tables", "in", "out", "record"
  version,       \* the version being tried
  info,          \* the poll's SNMPInfo
  prev,          \* state[id].SNMP, the last one recorded
  stale,         \* which was polled more than an hour ago
  moved,         \* octets since the last recorded walk; by direction
  early,         \* of those, the ones before this poll's walk
  whole,         \* per direction: the last recorded walk, and this poll's, missed nothing
  browse         \* the browser: "idle", "walk", "reach", or its answer

vars == <<dev, setting, on, count, pc, version, info, prev, stale, moved, early, whole, browse>>
ghosts == <<moved, early, whole>>

Each(x) == [d \in Octets |-> x]
Nothing == [error |-> "not polled", version |-> "none", read |-> <<>>, octets |-> Each(0)]

Init ==
  /\ dev \in Devices /\ setting \in dev.settings
  /\ on = TRUE /\ count = Each([p \in dev.ports |-> 0])
  /\ pc = "idle" /\ version = "none" /\ info = Nothing /\ prev = Nothing /\ stale = FALSE
  /\ moved = Each(0) /\ early = Each(0)
  /\ whole = [last |-> Each(TRUE), now |-> Each(TRUE)]
  /\ browse = "idle"

-----------------------------------------------------------------------------
(* The readings of one poll, from the rows it got.  Whatever is not        *)
(* reported stays unsaid. *)

Unsaid == -1
Clamp(n) == IF n < 0 THEN 0 ELSE IF n > 100 THEN 100 ELSE n
Value(r) == dev.value[r]
Column(got, t) == {r \in got : r[1] = t}
Largest(rows, least) == Max({least} \cup {Value(r) : r \in rows})

(* One row per port: those that are known to have no socket do not count.  *)
Physical == {6, 117}
Interfaces(got) ==
  LET counted == {r \in Column(got, "oper") : <<"type", r[2]>> \in got => Value(<<"type", r[2]>>) \in Physical} IN
  [total |-> Cardinality(counted), up |-> Cardinality({r \in counted : Value(r) = 1})]

(* A level is a percentage, or is measured against a capacity; below zero  *)
(* it is a sentinel and not a quantity. *)
Supply(got, i) ==
  LET level == <<"level", i>>
      max == <<"max", i>>
      unit == <<"unit", i>>
  IN IF level \notin got \/ Value(level) < 0 THEN Unsaid
     ELSE IF unit \in got /\ Value(unit) = InPercent THEN Clamp(Value(level))
     ELSE IF max \in got /\ Value(max) > 0 THEN Clamp((Value(level) * 100) \div Value(max))
     ELSE Unsaid
Supplies(got) == [i \in {r[2] : r \in Column(got, "desc")} |-> Supply(got, i)]

(* Host Resources first; UCD fills in what that left unsaid.               *)
Fill(r) == (Value(r).used * 100) \div Value(r).size
Fills(got, t) == {Fill(r) : r \in {x \in Column(got, t) : Value(x).size > 0}}
Shares(got) == {Value(r) : r \in {x \in Column(got, "ucdDisk") : Value(x) >= 0}}
Ucd == <<"ucd", 1>>

Cpu(got) ==
  LET cores == Column(got, "cpu") IN
  IF cores # {} THEN MapThenSumSet(Value, cores) \div Cardinality(cores)
  ELSE IF Ucd \in got THEN Clamp(100 - Value(Ucd).idle) ELSE Unsaid
Memory(got) ==
  IF Fills(got, "ram") # {} THEN Max(Fills(got, "ram"))   \* there is one RAM row
  ELSE IF Ucd \in got /\ Value(Ucd).size > 0
  THEN Clamp(((Value(Ucd).size - Min({Value(Ucd).free, Value(Ucd).size})) * 100) \div Value(Ucd).size)
  ELSE Unsaid
Disk(got) ==
  IF Fills(got, "disk") # {} THEN Max(Fills(got, "disk"))
  ELSE IF Ucd \in got /\ Shares(got) # {} THEN Clamp(Max(Shares(got)))
  ELSE Unsaid

(* Any answer of the battery group makes it a UPS; its busiest line is its *)
(* load. *)
Battery(got) ==
  LET ups == Value(<<"ups", 1>>) IN
  IF <<"ups", 1>> \notin got THEN <<>>
  ELSE [low |-> ups.status \in {3, 4}, onBattery |-> ups.seconds > 0, charge |-> ups.charge,
        load |-> Largest(Column(got, "load"), Unsaid)]

Sum(got, t) == MapThenSumSet(Value, {r \in Column(got, t) : Value(r) > 0})

Readings(got) ==
  [interfaces |-> Interfaces(got), supplies |-> Supplies(got), ups |-> Battery(got),
   cpu |-> Cpu(got), memory |-> Memory(got), disk |-> Disk(got),
   poe |-> Sum(got, "poe"), stations |-> Sum(got, "stations"), pages |-> Largest(Column(got, "pages"), 0)]

-----------------------------------------------------------------------------
(* A poll. *)

(* On automatic v2c is tried before v1: to the one that does not speak it  *)
(* a request is as good as lost. *)
Begin ==
  /\ pc = "idle" /\ pc' = "try"
  /\ version' = IF setting = "auto" THEN "2c" ELSE setting
  /\ early' = Each(0)
  /\ UNCHANGED <<dev, setting, on, count, info, prev, stale, moved, whole, browse>>

Speaks(v) == on /\ v \in dev.speaks

SystemAnswers ==
  /\ pc = "try" /\ Speaks(version)
  /\ pc' = "tables"
  /\ info' = [Nothing EXCEPT !.error = "", !.version = version]
  /\ UNCHANGED <<dev, setting, on, count, version, prev, stale, ghosts, browse>>

FallsBack ==   \* the request or its answer may also be lost
  /\ pc = "try" /\ setting = "auto" /\ version = "2c"
  /\ version' = "1"
  /\ UNCHANGED <<dev, setting, on, count, pc, info, prev, stale, ghosts, browse>>

NoAnswer ==
  /\ pc = "try" /\ ~(setting = "auto" /\ version = "2c")
  /\ info' = [Nothing EXCEPT !.error = "no SNMP response"] /\ pc' = "record"
  /\ UNCHANGED <<dev, setting, on, count, version, prev, stale, ghosts, browse>>

(* Each table is walked in turn; an error after the first row is no error. *)
WalkTables ==
  /\ pc = "tables" /\ pc' = "in"
  /\ \E lost \in SUBSET DOMAIN dev.value :
       /\ Cardinality(lost) <= MaxLost \/ lost = DOMAIN dev.value
       /\ ~on => lost = DOMAIN dev.value
       /\ info' = [info EXCEPT !.read = Readings(DOMAIN dev.value \ lost)]
  /\ UNCHANGED <<dev, setting, on, count, version, prev, stale, ghosts, browse>>

(* The octet counters are 64 bits wide, which v1 does not know.            *)
WalkOctets(d) ==
  /\ pc = d /\ pc' = IF d = "in" THEN "out" ELSE "record"
  /\ \E got \in SUBSET dev.ports :
       /\ ~on \/ version = "1" => got = {}
       /\ info' = [info EXCEPT !.octets[d] = SumFunctionOnSet(count[d], got)]
       /\ whole' = [whole EXCEPT !.now[d] = got = dev.ports]
  /\ early' = [early EXCEPT ![d] = moved[d]]
  /\ UNCHANGED <<dev, setting, on, count, version, prev, stale, moved, browse>>

(* A counter that went backwards gives no rate. *)
Passed_Wraps(now, before) == (now - before) % W   \* a bug: no look backwards
Passed(now, before) == IF now >= before THEN (now - before) % W ELSE 0

Rates ==
  IF prev.error = "not polled" \/ prev.octets["in"] = 0 \/ stale THEN Each(0)
  ELSE [d \in Octets |-> Passed(info.octets[d], prev.octets[d])]

(* A failed poll leaves the previous readings and its own error.           *)
Record ==
  /\ pc = "record" /\ pc' = "idle" /\ version' = "none" /\ info' = Nothing
  /\ \/ /\ info.error = ""
        /\ prev' = info   \* shown with these Rates
        /\ stale' = FALSE
        /\ moved' = [d \in Octets |-> moved[d] - early[d]]
        /\ whole' = [whole EXCEPT !.last = whole.now]
     \/ /\ info.error # ""
        /\ prev' = IF prev = Nothing THEN Nothing ELSE [prev EXCEPT !.error = info.error]
        /\ UNCHANGED <<stale, moved, whole>>
  /\ early' = Each(0)
  /\ UNCHANGED <<dev, setting, on, count, browse>>

-----------------------------------------------------------------------------
(* The browser walks one subtree and, when nothing came back, asks for the *)
(* system description to tell silence from absence.  It does not fall back *)
(* to v1. *)

Asked == IF setting = "auto" THEN "2c" ELSE setting

Browse ==
  /\ browse \notin {"walk", "reach"} /\ browse' = "walk"
  /\ UNCHANGED <<dev, setting, on, count, pc, version, info, prev, stale, ghosts>>

BrowseWalk ==
  /\ browse = "walk"
  /\ \/ Speaks(Asked) /\ browse' \in {"rows", "truncated", "reach"}
     \/ browse' = "silent"
  /\ UNCHANGED <<dev, setting, on, count, pc, version, info, prev, stale, ghosts>>

Reachable ==
  /\ browse = "reach"
  /\ \/ Speaks(Asked) /\ browse' = "absent"
     \/ browse' = "silent"
  /\ UNCHANGED <<dev, setting, on, count, pc, version, info, prev, stale, ghosts>>

-----------------------------------------------------------------------------
(* External: traffic, restarts, outages, and time. *)

Move(d, p) ==
  /\ on /\ moved[d] < MaxMoved /\ count[d][p] < W - 1
  /\ count' = [count EXCEPT ![d][p] = @ + 1] /\ moved' = [moved EXCEPT ![d] = @ + 1]
  /\ UNCHANGED <<dev, setting, on, pc, version, info, prev, stale, early, whole, browse>>

Goes ==
  /\ on /\ on' = FALSE /\ count' = Each([p \in dev.ports |-> 0])
  /\ UNCHANGED <<dev, setting, pc, version, info, prev, stale, ghosts, browse>>

Returns ==
  /\ ~on /\ on' = TRUE
  /\ UNCHANGED <<dev, setting, count, pc, version, info, prev, stale, ghosts, browse>>

Ages ==
  /\ pc = "idle" /\ prev # Nothing /\ stale' = TRUE
  /\ UNCHANGED <<dev, setting, on, count, pc, version, info, prev, ghosts, browse>>

Poll ==
  \/ Begin \/ SystemAnswers \/ FallsBack \/ NoAnswer \/ WalkTables \/ Record
  \/ \E d \in Octets : WalkOctets(d)
  \/ \E d \in Octets, p \in dev.ports : Move(d, p)
  \/ Goes \/ Returns \/ Ages
Browser == Browse \/ BrowseWalk \/ Reachable

Next == Poll \/ Browser

Spec == Init /\ [][Next]_vars

-----------------------------------------------------------------------------
(* A rate is at most what really passed between the two polls, through     *)
(* restarts, outages and failed polls: rateFrom and Record.  It takes a    *)
(* counter walk of the earlier poll that was not cut short.                *)
RatesAreReal ==
  pc = "record" /\ info.error = "" => \A d \in Octets : whole.last[d] => Rates[d] <= early[d]

(* A reading is the device's own, held to the scale of a percentage where  *)
(* the code does so, or is unsaid, however many rows a poll lost:          *)
(* pollSupplies, pollHostResources, pollUCD.                               *)
All == DOMAIN dev.value
Loads == {Value(r) : r \in Column(All, "cpu")} \cup (IF Ucd \in All THEN {Clamp(100 - Value(Ucd).idle)} ELSE {})
NothingInvented ==
  prev.read # <<>> =>
    /\ prev.read.cpu # Unsaid => \E a, b \in Loads : a <= prev.read.cpu /\ prev.read.cpu <= b
    /\ prev.read.disk # Unsaid => \E n \in Fills(All, "disk") \cup {Clamp(x) : x \in Shares(All)} : prev.read.disk = n
    /\ \A i \in DOMAIN prev.read.supplies : prev.read.supplies[i] \in {Unsaid, Supply(All, i)}

ReadingsAreReal == RatesAreReal /\ NothingInvented
=============================================================================
