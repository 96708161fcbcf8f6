-------------------------- MODULE CommandExchange --------------------------
(***************************************************************************)
(* Running a command on a host (server/exec.go, agent/exec.go): the hub's  *)
(* caller registers a collector, sends the request over the control        *)
(* connection and waits; the agent runs the command, forwards what it      *)
(* writes on either stream and, once both are drained, how it ended; the   *)
(* connection's readLoop routes each message to its collector.  Meanwhile  *)
(* the connection may drop, which kills the agent's commands, and the      *)
(* caller's own timeout may pass.                                          *)
(*                                                                         *)
(* Abstracted: exit codes and error texts; output to its length, in units  *)
(* of which a collector keeps MaxOutput; which connection is chosen        *)
(* (module HostRegistry).  restartProcOnAgent and the uninstall requests   *)
(* use the same collectors, without output.                                *)
(*                                                                         *)
(* Operators named Action_Fault are single-fault variants of Action.       *)
(***************************************************************************)
EXTENDS Naturals, Sequences

CONSTANTS
  Commands,
  MaxOutput,  \* execMaxOutput, the 1 MiB a collector keeps
  Sizes,      \* how much a command writes at a time
  MaxWritten, \* bounds what a command writes on one stream
  InFlight,   \* messages the agent's channel and the socket hold
  None

Streams == {"stdout", "stderr"}
Messages == [cmd : Commands, kind : Streams \cup {"done"}, size : 0..MaxWritten]

CommandsAssumption == None \notin Messages
BoundsAssumption ==
  /\ MaxOutput \in Nat /\ MaxWritten \in Nat /\ InFlight \in Nat \ {0}
  /\ Sizes \subseteq Nat \ {0}

VARIABLES
  caller,    \* caller[c]: where runOnAgent is
  registry,  \* keys of execRegistry.m
  got,       \* got[c]: what c's collector holds, per stream
  truncated, \* execCollector.truncated
  finished,  \* execCollector.finished
  reading,   \* the message readLoop has looked a collector up for
  up,        \* the control connection
  toAgent,   \* requests on their way
  proc,      \* proc[c]: the command on the host
  wrote,     \* wrote[c]: the whole characters it has written, per stream
  split,     \* history: commands that wrote a character read in two pieces
  toHub      \* the agent's messages, in order

hubVars == <<caller, registry, got, truncated, finished, reading>>
agentVars == <<proc, wrote, split>>
vars == <<hubVars, agentVars, up, toAgent, toHub>>

Nothing == [st \in Streams |-> 0]

Init ==
  /\ caller = [c \in Commands |-> "idle"]
  /\ registry = {}
  /\ got = [c \in Commands |-> Nothing]
  /\ truncated = [c \in Commands |-> FALSE]
  /\ finished = [c \in Commands |-> FALSE]
  /\ reading = None
  /\ up = TRUE
  /\ toAgent = {}
  /\ proc = [c \in Commands |-> "none"]
  /\ wrote = [c \in Commands |-> Nothing] /\ split = {}
  /\ toHub = <<>>

-----------------------------------------------------------------------------
(* runOnAgent. *)

Refuse(c) ==
  /\ caller[c] = "idle" /\ ~up
  /\ caller' = [caller EXCEPT ![c] = "refused"]
  /\ UNCHANGED <<registry, got, truncated, finished, reading, agentVars, up, toAgent, toHub>>

(* The connection may be gone by the time the request is queued.           *)
Call(c) ==
  /\ caller[c] = "idle"
  /\ caller' = [caller EXCEPT ![c] = "waiting"]
  /\ registry' = registry \cup {c}
  /\ toAgent' = IF up THEN toAgent \cup {c} ELSE toAgent
  /\ UNCHANGED <<got, truncated, finished, reading, agentVars, up, toHub>>

Return(c) ==
  /\ caller[c] = "waiting" /\ finished[c]
  /\ caller' = [caller EXCEPT ![c] = "answered"]
  /\ registry' = registry \ {c}
  /\ UNCHANGED <<got, truncated, finished, reading, agentVars, up, toAgent, toHub>>

(* The command's time and 15 s more have passed. *)
TimeOut(c) ==
  /\ caller[c] = "waiting"
  /\ caller' = [caller EXCEPT ![c] = "timed out"]
  /\ registry' = registry \ {c}
  /\ UNCHANGED <<got, truncated, finished, reading, agentVars, up, toAgent, toHub>>

-----------------------------------------------------------------------------
(* readLoop: look the collector up, then call it outside the registry's    *)
(* lock.  By then the caller may have left. *)

Lookup ==
  /\ toHub # <<>> /\ reading = None
  /\ IF Head(toHub).cmd \in registry
       THEN reading' = Head(toHub)
       ELSE UNCHANGED reading
  /\ toHub' = Tail(toHub)
  /\ UNCHANGED <<caller, registry, got, truncated, finished, agentVars, up, toAgent>>

(* execCollector.append. *)
Held(c) == got[c]["stdout"] + got[c]["stderr"]

Kept_AllOrNothing(c, size) == IF Held(c) + size > MaxOutput THEN 0 ELSE size
Kept(c, size) == IF Held(c) + size > MaxOutput THEN MaxOutput - Held(c) ELSE size

AppendOutput(msg) ==
  /\ got' = [got EXCEPT ![msg.cmd][msg.kind] = @ + Kept(msg.cmd, msg.size)]
  /\ truncated' = [truncated EXCEPT ![msg.cmd] = @ \/ Kept(msg.cmd, msg.size) < msg.size
                                                   \/ Held(msg.cmd) >= MaxOutput]
  /\ UNCHANGED finished

(* execCollector.finish. *)
Finish(msg) ==
  /\ finished' = [finished EXCEPT ![msg.cmd] = TRUE]
  /\ UNCHANGED <<got, truncated>>

Collect ==
  /\ reading # None
  /\ IF reading.kind \in Streams THEN AppendOutput(reading) ELSE Finish(reading)
  /\ reading' = None
  /\ UNCHANGED <<caller, registry, agentVars, up, toAgent, toHub>>

-----------------------------------------------------------------------------
(* The agent. *)

Room == Len(toHub) < InFlight
Forward(c, kind, size) == toHub' = Append(toHub, [cmd |-> c, kind |-> kind, size |-> size])

(* The command starts, or cannot and that is reported like an exit. *)
Start(c) ==
  /\ c \in toAgent
  /\ toAgent' = toAgent \ {c}
  /\ proc' \in {[proc EXCEPT ![c] = "running"], [proc EXCEPT ![c] = "exited"]}
  /\ UNCHANGED <<hubVars, wrote, split, up, toHub>>

(* One write of the command, forwarded by that stream's chunkWriter.       *)
Write(c, st) ==
  /\ proc[c] = "running" /\ Room
  /\ \E size \in Sizes :
       /\ wrote[c][st] + size <= MaxWritten
       /\ wrote' = [wrote EXCEPT ![c][st] = @ + size]
       /\ Forward(c, st, size)
  /\ UNCHANGED <<hubVars, proc, split, up, toAgent>>

(* A character of several bytes that is read in two pieces: ToValidUTF8    *)
(* drops what is not a whole character from each.  Once per command.       *)
WriteSplit(c, st) ==
  /\ proc[c] = "running" /\ Room /\ c \notin split
  /\ split' = split \cup {c}
  /\ Forward(c, st, 0)
  /\ UNCHANGED <<hubVars, proc, wrote, up, toAgent>>

(* Wait returns when the command has ended, of itself or by its timeout,   *)
(* and both its streams are drained. *)
Exit(c) ==
  /\ proc[c] = "running"
  /\ proc' = [proc EXCEPT ![c] = "exited"]
  /\ UNCHANGED <<hubVars, wrote, split, up, toAgent, toHub>>

Report(c) ==
  /\ proc[c] = "exited" /\ Room
  /\ proc' = [proc EXCEPT ![c] = "reported"]
  /\ Forward(c, "done", 0)
  /\ UNCHANGED <<hubVars, wrote, split, up, toAgent>>

-----------------------------------------------------------------------------
(* The connection drops: of what the agent sent the hub still reads a      *)
(* prefix, the requests are lost, the commands killed. *)
Drop ==
  /\ up
  /\ up' = FALSE
  /\ \E n \in 0..Len(toHub) : toHub' = SubSeq(toHub, 1, n)
  /\ toAgent' = {}
  /\ proc' = [c \in Commands |-> IF proc[c] \in {"running", "exited"} THEN "killed" ELSE proc[c]]
  /\ UNCHANGED <<hubVars, wrote, split>>

Reconnect ==
  /\ ~up
  /\ up' = TRUE
  /\ UNCHANGED <<hubVars, agentVars, toAgent, toHub>>

Next ==
  \/ Lookup \/ Collect \/ Drop \/ Reconnect
  \/ \E c \in Commands :
       \/ Refuse(c) \/ Call(c) \/ Return(c) \/ TimeOut(c)
       \/ Start(c) \/ Exit(c) \/ Report(c)
       \/ \E st \in Streams : Write(c, st) \/ WriteSplit(c, st)

Spec == Init /\ [][Next]_vars

-----------------------------------------------------------------------------
TypeOK ==
  /\ caller \in [Commands -> {"idle", "waiting", "answered", "timed out", "refused"}]
  /\ registry \subseteq Commands
  /\ got \in [Commands -> [Streams -> 0..MaxOutput]]
  /\ truncated \in [Commands -> BOOLEAN] /\ finished \in [Commands -> BOOLEAN]
  /\ reading \in Messages \cup {None}
  /\ up \in BOOLEAN
  /\ toAgent \subseteq Commands
  /\ proc \in [Commands -> {"none", "running", "exited", "reported", "killed"}]
  /\ wrote \in [Commands -> [Streams -> 0..MaxWritten]]
  /\ split \subseteq Commands
  /\ toHub \in Seq(Messages) /\ Len(toHub) <= InFlight

(* A caller that is answered has every whole character the command wrote,  *)
(* or exactly MaxOutput of them and is told so: the end of a command never *)
(* overtakes its output, and the cap neither loses what fits nor cuts      *)
(* silently.                                                               *)
ResultIsComplete ==
  \A c \in Commands :
    caller[c] = "answered" =>
      IF truncated[c]
        THEN /\ Held(c) = MaxOutput
             /\ wrote[c]["stdout"] + wrote[c]["stderr"] > MaxOutput \/ c \in split
        ELSE got[c] = wrote[c]

(* A command that died with its connection, or is still running, never     *)
(* looks as though it had completed. *)
AnsweredMeansEnded == \A c \in Commands : caller[c] = "answered" => proc[c] = "reported"

(* What runOnAgent returns without an error is what the command came to.   *)
AnswersAreTrue == ResultIsComplete /\ AnsweredMeansEnded

(* agent/exec.go: "runExec runs a command from the server and streams its  *)
(* output back": all of it.                                                *)
OutputIsStreamedBack == \A c \in Commands : caller[c] = "answered" => c \notin split

=============================================================================
