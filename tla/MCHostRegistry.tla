--------------------------- MODULE MCHostRegistry ---------------------------
(* Three machines of the control connections for TLC in one run: the hub's *)
(* registry of hosts and their connections (the module extended), the work *)
(* an agent does for a hub while its connection is lost, and what a        *)
(* machine measures of itself and tells the hub.  They share no state; a   *)
(* behaviour is one of them at work, the others standing where they begin. *)
(* Connections and pushers are interchangeable. *)
EXTENDS HostRegistry, TLC

CONSTANTS Links, MaxTime   \* the connections of the work, the measures

VARIABLES alive, network, display, run, link, wire, ctx, writer, filled, wait, told, served, job, attached, stream, media, target, why
VARIABLES now, counter, health, present, asleep, stage, began, seen, stale, cache, asked, sample, metrics, firing
VARIABLE part   \* the machine at work

control == <<alive, network, display, run, link, wire, ctx, writer, filled, wait, told, served, job, attached, stream, media, target, why>>
measures == <<now, counter, health, present, asleep, stage, began, seen, stale, cache, asked, sample, metrics, firing>>

L == INSTANCE AgentLink WITH Conns <- Links, Asks <- {"session", "inventory", "restart"}, full <- filled, proc <- target
M == INSTANCE Telemetry WITH Procs <- {"user", "helper"}, Privileged <- {"helper"}, Drives <- {"disk"},
       bytes <- counter, pc <- stage, at <- began, last <- seen, due <- stale, wire <- sample,
       read <- asked

ASSUME L!LinkAssumption /\ M!TelemetryAssumption

HubInit ==
  /\ Init /\ L!Init /\ M!Init
  /\ part \in {"registry", "work", "measures"}
  /\ (part # "work" => ~display) /\ (part # "measures" => present = {})

HubNext ==
  \/ part = "registry" /\ Next /\ UNCHANGED <<part, control, measures>>
  \/ part = "work" /\ L!Next /\ UNCHANGED <<part, vars, measures>>
  \/ part = "measures" /\ M!Next /\ UNCHANGED <<part, vars, control>>

HubSpec == HubInit /\ [][HubNext]_<<part, vars, control, measures>>

Interchangeable == Permutations(Conns) \cup Permutations(Pushers)

-----------------------------------------------------------------------------
(* The properties of the machines not extended, stated in their modules. *)

WorkOutlivesLink == L!WorkOutlivesLink

TelemetryIsTrue == M!TelemetryIsTrue
=============================================================================
