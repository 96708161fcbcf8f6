----------------------------- MODULE HostPrefs -----------------------------
(***************************************************************************)
(* Per-host settings and policies (server/hostprefs.go, remediationFor in  *)
(* server/remediate.go): one map from agent ids and selectors to settings, *)
(* held in memory, written through to hostprefs.json on every change, and  *)
(* layered for a host on every evaluation, poll and firing alert.          *)
(*                                                                         *)
(* Selectors are model values: which hosts one matches, how narrow it is   *)
(* (all, os:, tag:) and where it sorts are constants.  Of the thresholds   *)
(* cpu stands for mem and disk, of the rules with a fix there is one;      *)
(* watch lists (resolveServices) are one set, in module Alerting.          *)
(* os.WriteFile truncates and then writes, in two steps; a shorter image   *)
(* written over a longer one leaves the longer one's tail, which nothing   *)
(* can parse.                                                              *)
(*                                                                         *)
(* Operators named Action_Fault are single-fault variants of Action.       *)
(***************************************************************************)
EXTENDS Naturals, Sequences, FiniteSets, SequencesExt, FiniteSetsExt, Functions

CONSTANTS
  Hosts,
  Selectors,   \* in the order their keys sort
  Covers,      \* Covers[s]: the hosts selector s matches
  Rank,        \* Rank[s]: 0 for all, 1 for os:, 2 for tag:
  Setters,     \* requests that write settings
  Prefs        \* the settings they write

SelectorsAssumption ==
  /\ Selectors \in Seq(ToSet(Selectors)) /\ IsInjective(Selectors) /\ ToSet(Selectors) \cap Hosts = {}
  /\ Covers \in [ToSet(Selectors) -> SUBSET Hosts] /\ Rank \in [ToSet(Selectors) -> 0..2]

(* A setting that is zero, false, empty or "none" is not set. *)
Zero == [cpu |-> 0, mute |-> FALSE, fix |-> "none"]
PrefsAssumption == \A p \in Prefs : DOMAIN p = DOMAIN Zero

Keys == Hosts \cup ToSet(Selectors)
NoPrefs == [k \in {} |-> Zero]

VARIABLES
  m,       \* hostPrefs.m, which keeps no zero setting
  disk,    \* the file: what it is, and the map when it is "whole"
  pc,      \* where the setter is
  image    \* what it marshalled

vars == <<m, disk, pc, image>>

Whole(f) == [is |-> "whole", prefs |-> f]
Unreadable(how) == [is |-> how, prefs |-> NoPrefs]

Init ==
  /\ m = NoPrefs /\ disk = Whole(NoPrefs)
  /\ pc = [s \in Setters |-> "idle"] /\ image = [s \in Setters |-> NoPrefs]

-----------------------------------------------------------------------------
(* What the readers compute, under the read lock. *)

Pref(k) == IF k \in DOMAIN m THEN m[k] ELSE Zero

Applies(s, h) == s \in DOMAIN m /\ h \in Covers[s]

(* resolve: matching policies by rank, then by key, then the host itself,  *)
(* each overriding what came before. *)
Override(cpu, k) == IF Pref(k).cpu > 0 THEN Pref(k).cpu ELSE cpu
Layer(h, r, below) ==
  FoldLeft(LAMBDA cpu, s : IF Applies(s, h) /\ Rank[s] = r THEN Override(cpu, s) ELSE cpu, below, Selectors)

Resolve(h) == [cpu |-> Override(Layer(h, 2, Layer(h, 1, Layer(h, 0, 0))), h), mute |-> Pref(h).mute]

(* remediationFor walks the matching policies in the map's own order and   *)
(* keeps the first of the highest rank: any of those of that rank. *)
Fixes(h) ==
  LET offering == {s \in ToSet(Selectors) : Applies(s, h) /\ Pref(s).fix # "none"}
      narrowest == {s \in offering : \A t \in offering : Rank[t] <= Rank[s]}
  IN IF Pref(h).fix # "none" THEN {Pref(h).fix}
     ELSE IF offering = {} THEN {"none"}
     ELSE {Pref(s).fix : s \in narrowest}

-----------------------------------------------------------------------------
(* set, and forget (set to zero): the map is updated and marshalled under  *)
(* the lock, and written once it is released. *)

Set_MarshalsFirst(s, k, p) ==
  /\ pc[s] = "idle"
  /\ m' = IF p = Zero THEN Restrict(m, DOMAIN m \ {k})
          ELSE [j \in DOMAIN m \cup {k} |-> IF j = k THEN p ELSE m[j]]
  /\ image' = [image EXCEPT ![s] = m]
  /\ pc' = [pc EXCEPT ![s] = "writing"]
  /\ UNCHANGED disk

Set(s, k, p) ==
  /\ pc[s] = "idle"
  /\ m' = IF p = Zero THEN Restrict(m, DOMAIN m \ {k})
          ELSE [j \in DOMAIN m \cup {k} |-> IF j = k THEN p ELSE m[j]]
  /\ image' = [image EXCEPT ![s] = m']
  /\ pc' = [pc EXCEPT ![s] = "writing"]
  /\ UNCHANGED disk

Truncate(s) ==
  /\ pc[s] = "writing"
  /\ disk' = Unreadable("empty")
  /\ pc' = [pc EXCEPT ![s] = "truncated"]
  /\ UNCHANGED <<m, image>>

Write(s) ==
  /\ pc[s] = "truncated"
  /\ disk' \in IF disk \in {Unreadable("empty"), Whole(image[s])} THEN {Whole(image[s])}
               ELSE {Whole(image[s]), Unreadable("garbage")}
  /\ pc' = [pc EXCEPT ![s] = "idle"]
  /\ image' = [image EXCEPT ![s] = NoPrefs]
  /\ UNCHANGED m

(* The hub stops between two steps, or is stopped, and starts: what cannot *)
(* be parsed is ignored. *)
Restart ==
  /\ m' = disk.prefs
  /\ pc' = [s \in Setters |-> "idle"] /\ image' = [s \in Setters |-> NoPrefs]
  /\ UNCHANGED disk

Next ==
  \/ \E s \in Setters : Truncate(s) \/ Write(s) \/ (\E k \in Keys, p \in Prefs : Set(s, k, p))
  \/ Restart

Spec == Init /\ [][Next]_vars

-----------------------------------------------------------------------------
AreMaps(f) == DOMAIN f \subseteq Keys /\ \A k \in DOMAIN f : f[k] \in Prefs \ {Zero}

TypeOK ==
  /\ AreMaps(m)
  /\ disk.is \in {"whole", "empty", "garbage"} /\ AreMaps(disk.prefs)
  /\ pc \in [Setters -> {"idle", "writing", "truncated"}]
  /\ \A s \in Setters : AreMaps(image[s])

(* The threshold in force is the host's own; failing that, one of the      *)
(* narrowest matching policies that sets it, the last by key - whatever    *)
(* order the policies were written in.                                     *)
Setting(h) == {i \in DOMAIN Selectors : Applies(Selectors[i], h) /\ m[Selectors[i]].cpu > 0}
Narrowest(S) == {i \in S : \A j \in S : Rank[Selectors[j]] <= Rank[Selectors[i]]}
NarrowestWins ==
  \A h \in Hosts :
    Resolve(h).cpu = IF Pref(h).cpu > 0 THEN Pref(h).cpu
                     ELSE IF Setting(h) = {} THEN 0
                     ELSE m[Selectors[Max(Narrowest(Setting(h)))]].cpu

(* hostprefs.go: "held in memory and written through on change": when no   *)
(* change is being written, a restart brings back what the hub uses.  It   *)
(* holds with one request at a time, a stop in the middle of it included;  *)
(* of two at once the older image may be written last, or over the newer.  *)
WrittenThrough == (\A s \in Setters : pc[s] = "idle") => disk.prefs = m

(* Both: the settings in force are the right ones, and survive a restart.  *)
SettingsHold == NarrowestWins /\ WrittenThrough

-----------------------------------------------------------------------------
(* What the comments say, and the code does not do. *)

(* remediate.go: "the most specific configured fix wins, matching how      *)
(* thresholds resolve": one fix, the same on every tick.                   *)
FixIsDetermined == \A h \in Hosts : Cardinality(Fixes(h)) = 1

=============================================================================
