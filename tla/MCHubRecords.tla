---------------------------- MODULE MCHubRecords ----------------------------
(* Eight machines of the hub and its command-line client for TLC in one    *)
(* run: the schedules (the module extended), the hosts' settings, what     *)
(* operators ask of hosts, the accounts with their tokens, what is found   *)
(* on the network, what is kept of the past, the hub's update of itself,   *)
(* and two client processes.  They share no state; a behaviour is one of   *)
(* them at work, the others standing where they begin. *)
EXTENDS Schedules, Integers, TLC

CONSTANTS None, h1, h2
CONSTANTS all, osLinux, tagA, tagB, script1, script2
CONSTANTS Setters, SetHosts, Policies, Coverage, Ranks, Settings   \* settings
CONSTANTS Requests   \* operations
CONSTANTS Handlers, Names, Passwords, MaxResets   \* accounts
CONSTANTS p1, p2, good, bad   \* clients
CONSTANT MaxMoves   \* network
CONSTANTS Sampled, Peaks, Offsets, Ranges, Buckets, Retention, Senders, Lags, Styles, Keep, MaxAge, Limit
CONSTANTS YearLength, Slack, StartTime, MaxDay, MaxRows   \* archive
CONSTANTS Updaters, Builds, Releases, MaxParts   \* update

VARIABLES m, disk, pc, image
VARIABLES attached, req, trail, sent, came, verdicts
VARIABLES file, work, holder, overlap, due, config, envFile, hub, reset, cut, draws, resets
VARIABLES saved, fleet, cmd, stage, given, listed, target, answer, status, stdin, verified
VARIABLES place, moves, arp, byMAC, read, swept, doing, todo, entries, listing, last, many, whole, still
VARIABLES clock, kept, known, removing, points, gone, does, ring, next, wrapped, log, events, steady
VARIABLES published, sums, version, binary, step, latest, fetched
VARIABLE part   \* the machine at work

settings == <<m, disk, pc, image>>
operations == <<attached, req, trail, sent, came, verdicts>>
accounts == <<file, work, holder, overlap, due, config, envFile, hub, reset, cut, draws, resets>>
clients == <<saved, fleet, cmd, stage, given, listed, target, answer, status, stdin, verified>>
network == <<place, moves, arp, byMAC, read, swept, doing, todo, entries, listing, last, many, whole, still>>
archive == <<clock, kept, known, removing, points, gone, does, ring, next, wrapped, log, events, steady>>
update == <<published, sums, version, binary, step, latest, fetched>>
others == <<network, archive, update>>
most == <<settings, vars, operations, accounts, clients>>

(* Settings: a Linux host with both tags and a Windows host with one, a    *)
(* policy for all hosts, one for Linux and one per tag. *)
SomePolicies == <<all, osLinux, tagA, tagB>>
SomeCoverage == all :> {h1, h2} @@ osLinux :> {h1} @@ tagA :> {h1} @@ tagB :> {h1, h2}
SomeRanks == all :> 0 @@ osLinux :> 1 @@ tagA :> 2 @@ tagB :> 2
Unset == [cpu |-> 0, mute |-> FALSE, fix |-> "none"]
SomePrefs == {Unset, [Unset EXCEPT !.cpu = 80], [Unset EXCEPT !.cpu = 95], [Unset EXCEPT !.mute = TRUE]}

(* Schedules: a cron that names two times, for one host or for all. *)
OneHost == all :> {h1}
TwoTimes == {{2, 5}}

(* Operations: a Windows host and a Linux host on one network, of which    *)
(* one has told its MAC address. *)
Sys == h1 :> "windows" @@ h2 :> "linux"
OneNet == [h \in {h1, h2} |-> {1}]

(* Clients: one runs any command, the other logs in.  A name that is a     *)
(* part of another, one that is blank, and hosts that share a name.        *)
Typed == {"a", "b", "web", "web2", ""}
PartsOf == [n \in Typed |-> IF n = "" THEN Typed ELSE IF n = "web" THEN {"web", "web2"} ELSE {n}]
Machine(id, name, on, exec, stream) ==
  [id |-> id, name |-> name, online |-> on, exec |-> exec, stream |-> stream]
SomeFleets == {{Machine("a", "web2", TRUE, TRUE, TRUE)},
               {Machine("a", "web2", TRUE, FALSE, FALSE), Machine("b", "web", FALSE, TRUE, TRUE)},
               {Machine("a", "web", TRUE, TRUE, TRUE), Machine("b", "web", TRUE, TRUE, FALSE)}}

(* Network: one machine says its name, the other says one that is none and *)
(* then its name.                                                          *)
Sources == {"ptr", "mdns", "netbios"}
Said == "m1" :> [s \in Sources |-> IF s = "ptr" THEN "" ELSE "own"]
     @@ "m2" :> [s \in Sources |-> IF s = "ptr" THEN "" ELSE IF s = "mdns" THEN "gateway" ELSE "own"]

(* Archive: a host whose clock may be behind; a device may be a little     *)
(* ahead or behind, over the turn of a year of six days.                   *)
Behind == {-3, 0}
Around == {-3, 1}

(* Update: a development build, and numbers of one, two and three parts. *)
SomeBuilds == {<<>>, <<0, 9>>, <<0, 10>>, <<1>>, <<1, 0, 1>>}
SomeReleases == {<<0, 9, 1>>, <<0, 10>>, <<1, 0>>, <<1, 0, 1>>}
OffMachines == [x \in {"m1", "m2"} |-> None]

P == INSTANCE HostPrefs WITH Hosts <- SetHosts, Selectors <- Policies, Covers <- Coverage, Rank <- Ranks, Prefs <- Settings
O == INSTANCE HostOperations WITH Hosts <- {h1, h2}, System <- Sys, Lan <- OneNet, Macs <- {h1},
       Selectors <- {all}, Covers <- all :> {h1, h2}
A == INSTANCE Accounts WITH Requests <- Handlers
C == INSTANCE OperatorClient WITH Procs <- {p1, p2}, Logins <- {p2}, Names <- Typed, Within <- PartsOf,
       Fleets <- SomeFleets, Scripts <- {script1}, Configs <- {good, bad}, Good <- {good}, disk <- saved,
       pc <- stage, config <- given, hub <- answer
D == INSTANCE Discovery WITH Machines <- {"m1", "m2"}, Ips <- {1, 2}, Tracked <- {"m1"}, Loop <- "loop",
       Requests <- {"request"}, Says <- Said, Heard <- {{"mdns", "netbios"}}, pc <- doing, rows <- listing, table <- entries
H == INSTANCE HubArchive WITH Hosts <- Sampled, Sources <- Senders, MaxTime <- MaxDay, full <- wrapped,
       rows <- points, trail <- events
U == INSTANCE HubUpdate WITH Requests <- Updaters, running <- version, disk <- binary, pc <- step, file <- fetched

ASSUME SchedulesAssumption
ASSUME P!SelectorsAssumption /\ P!PrefsAssumption
ASSUME O!OperationsAssumption /\ A!AccountsAssumption /\ C!ClientAssumption
ASSUME D!DiscoveryAssumption /\ H!ArchiveAssumption /\ U!UpdateAssumption

OperationsAtRest == O!Init /\ \A h \in {h1, h2} : attached[h] = {"user"}
AccountsAtRest == A!Init /\ envFile = A!NoTokens
ClientsAtRest == C!Init /\ fleet = {Machine("a", "web2", TRUE, TRUE, TRUE)}
NetworkAtRest == D!Init /\ place = OffMachines
ArchiveAtRest == H!Init /\ kept /\ does = "acts"
UpdateAtRest == U!Init /\ version = <<1>> /\ published = <<1, 0>>
OthersAtRest == NetworkAtRest /\ ArchiveAtRest /\ UpdateAtRest
MostAtRest == P!Init /\ Init /\ OperationsAtRest /\ AccountsAtRest /\ ClientsAtRest

RecordsInit ==
  \/ part = "settings" /\ MostAtRest /\ OthersAtRest
  \/ part = "timetable" /\ MostAtRest /\ OthersAtRest
  \/ part = "operations" /\ P!Init /\ Init /\ O!Init /\ AccountsAtRest /\ ClientsAtRest /\ OthersAtRest
  \/ part = "accounts" /\ P!Init /\ Init /\ OperationsAtRest /\ A!Init /\ ClientsAtRest /\ OthersAtRest
  \/ part = "clients" /\ P!Init /\ Init /\ OperationsAtRest /\ AccountsAtRest /\ C!Init /\ OthersAtRest
  \/ part = "network" /\ MostAtRest /\ D!Init /\ ArchiveAtRest /\ UpdateAtRest
  \/ part = "archive" /\ MostAtRest /\ NetworkAtRest /\ H!Init /\ UpdateAtRest
  \/ part = "update" /\ MostAtRest /\ NetworkAtRest /\ ArchiveAtRest /\ U!Init

RecordsNext ==
  \/ part = "settings" /\ P!Next /\ UNCHANGED <<part, vars, operations, accounts, clients, others>>
  \/ part = "timetable" /\ Next /\ UNCHANGED <<part, settings, operations, accounts, clients, others>>
  \/ part = "operations" /\ O!Next /\ UNCHANGED <<part, settings, vars, accounts, clients, others>>
  \/ part = "accounts" /\ A!Next /\ UNCHANGED <<part, settings, vars, operations, clients, others>>
  \/ part = "clients" /\ C!Next /\ UNCHANGED <<part, settings, vars, operations, accounts, others>>
  \/ part = "network" /\ D!Next /\ UNCHANGED <<part, most, archive, update>>
  \/ part = "archive" /\ H!Next /\ UNCHANGED <<part, most, network, update>>
  \/ part = "update" /\ U!Next /\ UNCHANGED <<part, most, network, archive>>

(* The fairness of Schedules, owed while it is the machine at work. *)
RecordsSpec ==
  /\ RecordsInit /\ [][RecordsNext]_<<part, most, others>>
  /\ WF_vars(part = "timetable" /\ Advance)
  /\ WF_vars(part = "timetable" /\ LoopStep)
  /\ \A s \in Scripts : WF_vars(part = "timetable" /\ DeleteItsSchedules(s))

-----------------------------------------------------------------------------
(* The properties of the other machines, stated in their modules. *)

SettingsHold == P!SettingsHold

RecordIsTrue == O!RecordIsTrue

AnsweredIsKept == A!AnsweredIsKept

ClientIsTrue == C!ClientIsTrue

DiscoveryIsTrue == D!DiscoveryIsTrue

ArchiveIsTrue == H!ArchiveIsTrue

UpdatesGoUp == U!UpdatesGoUp
=============================================================================
