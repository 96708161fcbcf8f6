-------------------------- MODULE MCAgentMachines --------------------------
(* Six small machines of an agent for TLC in one run: the encoders of a    *)
(* screen session (the module extended), its input, an unenrolment, the    *)
(* helper's own process, a terminal, and the control connection, of which  *)
(* the hub may still hold an old one.  They share no state; a behaviour is *)
(* one of them at work, the others standing where none of their steps is   *)
(* owed.                                                                   *)
EXTENDS EncoderSwap, Naturals, Sequences, TLC

CONSTANTS Versions, v0, Updaters, Consoles, Workers
CONSTANTS MaxEvents, Shapes, MaxShapes, MaxTells
CONSTANTS t1, Names, Conns

VARIABLES listed, attached, installed, torn, req, col, pc, waits, timer, accepted, failed
VARIABLES hub, running, exe, backup, upd, want, console, sup, sid, proc, session, alive, job
VARIABLES sent, ready, socket, todo, lock, call, thread, step, shape, shapes, has, wears, tells
VARIABLES kind, system, sock, up, at, puts, sending, op, told, alone, dir, data, shell, ctx, reader, closer, full, closes
VARIABLES living, network, display, run, link, wire, context, writer, filled, wait, said, served, errand, holding, stream, media, target, why
VARIABLE part   \* the machine at work

unenrolment == <<listed, attached, installed, torn, req, col, pc, waits, timer, accepted, failed>>
process == <<hub, running, exe, backup, upd, want, console, sup, sid, proc, session, alive, job>>
input == <<sent, ready, socket, todo, lock, call, thread, step, shape, shapes, has, wears, tells>>
terminal == <<kind, system, sock, up, at, puts, sending, op, told, alone, dir, data, shell, ctx, reader, closer, full, closes>>
control == <<living, network, display, run, link, wire, context, writer, filled, wait, said, served, errand, holding, stream, media, target, why>>

U == INSTANCE Unenroll WITH Halves <- {"user", "elevated"}
P == INSTANCE AgentProcess WITH First <- v0
I == INSTANCE InputPath WITH job <- thread
T == INSTANCE SideSessions WITH Sessions <- {t1}, Kinds <- {t1 :> "terminal"}, Systems <- {"unix", "windows"},
       MaxPuts <- t1 :> 0, MaxSize <- 0, Buffer <- 2, Askers <- {t1}, OneClick <- TRUE
L == INSTANCE AgentLink WITH Asks <- {}, alive <- living, ctx <- context, full <- filled, told <- said,
       job <- errand, attached <- holding, proc <- target

ASSUME EncodersAssumption /\ U!HalvesAssumption /\ P!ProcessAssumption /\ I!InputAssumption /\ T!SideAssumption /\ L!LinkAssumption

EncodersAtRest ==
  /\ phase = "over" /\ loop = [l \in Loops |-> "ended"] /\ hand = [l \in Loops |-> None]
  /\ held = First /\ made = {First} /\ closed = {First} /\ procs = {}
  /\ frame = "ended" /\ using = None

UnenrolmentAtRest ==
  /\ listed = FALSE /\ attached = {} /\ installed = {} /\ torn = {}
  /\ req = [h \in {"user", "elevated"} |-> "none"] /\ col = [h \in {"user", "elevated"} |-> "waiting"]
  /\ pc = "offline" /\ waits = <<>> /\ timer = "armed" /\ accepted = {} /\ failed = {}

ProcessAtRest ==
  /\ hub = v0 /\ running = None /\ exe = None /\ backup = None
  /\ upd = [u \in Updaters |-> "idle"] /\ want = [u \in Updaters |-> None]
  /\ console = None /\ sup = "none" /\ sid = None /\ proc = None /\ session = None
  /\ alive = [w \in Workers |-> None] /\ job = {}

TerminalAtRest ==
  /\ kind = t1 :> "terminal" /\ system = "unix" /\ sock = t1 :> "closed" /\ up = t1 :> <<>> /\ at = t1 :> "over"
  /\ puts = t1 :> 0 /\ sending = t1 :> {} /\ op = t1 :> T!NoOp /\ told = t1 :> "nothing" /\ alone = t1 :> FALSE
  /\ dir = [n \in Names |-> None] /\ data = <<>>
  /\ shell = t1 :> "none" /\ ctx = t1 :> "live" /\ reader = t1 :> "none" /\ closer = t1 :> "none"
  /\ full = t1 :> FALSE /\ closes = t1 :> 0

ControlAtRest ==   \* no agent has started
  /\ living = FALSE /\ network = TRUE /\ display = TRUE /\ run = "off" /\ link = None
  /\ wire = [c \in Conns |-> "none"] /\ context = wire /\ writer = wire /\ served = wire /\ errand = wire
  /\ filled = [c \in Conns |-> FALSE] /\ wait = filled /\ said = [c \in Conns |-> "unsent"]
  /\ holding = None /\ stream = FALSE /\ media = L!NoMedia /\ target = "runs" /\ why = "restart"

MachinesInit ==
  \/ part = "encoders" /\ Init /\ UnenrolmentAtRest /\ ProcessAtRest /\ I!Init /\ TerminalAtRest /\ ControlAtRest
  \/ part = "unenrolment" /\ EncodersAtRest /\ U!Init /\ ProcessAtRest /\ I!Init /\ TerminalAtRest /\ ControlAtRest
  \/ part = "process" /\ EncodersAtRest /\ UnenrolmentAtRest /\ P!Init /\ I!Init /\ TerminalAtRest /\ ControlAtRest
  \/ part = "input" /\ EncodersAtRest /\ UnenrolmentAtRest /\ ProcessAtRest /\ I!Init /\ TerminalAtRest /\ ControlAtRest
  \/ part = "terminal" /\ EncodersAtRest /\ UnenrolmentAtRest /\ ProcessAtRest /\ I!Init /\ T!Init /\ ControlAtRest
  \/ part = "control" /\ EncodersAtRest /\ UnenrolmentAtRest /\ ProcessAtRest /\ I!Init /\ TerminalAtRest /\ L!Init

MachinesNext ==
  \/ part = "encoders" /\ Next /\ UNCHANGED <<part, unenrolment, process, input, terminal, control>>
  \/ part = "unenrolment" /\ U!Next /\ UNCHANGED <<part, vars, process, input, terminal, control>>
  \/ part = "process" /\ P!Next /\ UNCHANGED <<part, vars, unenrolment, input, terminal, control>>
  \/ part = "input" /\ I!Next /\ UNCHANGED <<part, vars, unenrolment, process, terminal, control>>
  \/ part = "terminal" /\ T!Next /\ UNCHANGED <<part, vars, unenrolment, process, input, control>>
  \/ part = "control" /\ L!Next /\ UNCHANGED <<part, vars, unenrolment, process, input, terminal>>

MachinesSpec ==
  /\ MachinesInit /\ [][MachinesNext]_<<part, vars, unenrolment, process, input, terminal, control>>
  /\ Fairness /\ U!Fairness /\ P!Fairness /\ I!Fairness /\ T!Fairness /\ L!Fairness

-----------------------------------------------------------------------------
(* The properties of the machines not extended, stated in their modules. *)

OnlyWillingHostsRemoved == U!OnlyWillingHostsRemoved
AnswersUnlessTwoAreSilent == U!AnswersUnlessTwoAreSilent

OneWorker == P!OneWorker
WorkerFollowsConsole == P!WorkerFollowsConsole
Converges == P!Converges

InputNeverDies == I!InputNeverDies

TerminalEnds == T!TerminalEnds

LinkSettles == L!LinkSettles
=============================================================================
